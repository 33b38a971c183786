------------------------------- MODULE CbfsList ------------------------------
(***************************************************************************)
(* The CBFS module of coreinfo.  At start it walks the files of the flash  *)
(* image twice, to count them and to keep their names; then the user moves *)
(* through the list, and for the selected name the image is searched.      *)
(*                                                                         *)
(* Addresses are in units of the image's alignment, modulo the size of the *)
(* address space, at whose end the image lies.                             *)
(***************************************************************************)
EXTENDS Integers, SequencesExt

CONSTANTS
  Space,        (* The size of the address space.                          *)
  RomSize,      (* The size of the image.                                  *)
  FilesVisible, (* FILES_VISIBLE, the rows of the list.                    *)
  FileNames,    (* The names of files.                                     *)
  MaxFiles      (* Bound: the walk stops counting, if it never ends.       *)

ASSUME FlashAssumption ==
  /\ Space \in Nat /\ RomSize \in 1..Space - 1
  /\ FilesVisible \in Nat \ {0} /\ MaxFiles \in Nat

Base == Space - RomSize
Flash == Base..Space - 1

(* A file with the distance to the next one, or no file at all. *)
Files == [kind : {"file"}, name : FileNames, step : Nat]
NoFiles == {[kind |-> "zero"], [kind |-> "data"]}

(* The header: its magic, where the files begin and whether align is 0. *)
Headers == [good : BOOLEAN, offset : 0..RomSize - 1, align : {0, 1}]
Images == [header : Headers, cells : [Flash -> Files \cup NoFiles]]

VARIABLES
  image,     (* The flash, fixed.                                          *)
  walk,      (* "off", "count", "names", "done".                           *)
  f,         (* The walk's pointer.                                        *)
  filecount,
  filenames, (* <<>> for NULL.                                             *)
  selected, start_row,
  described  (* The file whose information is on the screen.               *)

cbfsVars == <<image, walk, f, filecount, filenames, selected, start_row, described>>
cbfsMenu == <<selected, start_row, described>>

HeaderFound == image.header.good
First == Base + image.header.offset
NoFile == -1

(* The pointer is moved; past the end of the address space it wraps. *)
Moved(p, n) == (p + n * image.header.align) % Space

(* Where getfile stops: below the image, at a zero, or at a file. *)
AtEnd(p) == p >= Base => image.cells[p].kind = "zero"
AtFile(p) == ~AtEnd(p) /\ image.cells[p].kind = "file"

(* Mutant of NextFrom: the body of the file is searched for files. *)
NextFromInside(p) == Moved(p, 1)

(* Where nextfile goes on after the file at p. *)
NextFrom(p) == Moved(p, image.cells[p].step)

(* cbfs_module_init up to its first loop. *)
CbfsHeader ==
  /\ walk = "off"
  /\ IF HeaderFound THEN walk' = "count" /\ f' = First
                    ELSE walk' = "done" /\ UNCHANGED f
  /\ UNCHANGED <<image, filecount, filenames, cbfsMenu>>

Walking == walk \in {"count", "names"}

(* One turn of getfile's loop. *)
CbfsSkip ==
  /\ Walking
  /\ ~AtEnd(f) /\ ~AtFile(f)
  /\ f' = Moved(f, 1)
  /\ UNCHANGED <<image, walk, filecount, filenames, cbfsMenu>>

CbfsCount ==
  /\ walk = "count"
  /\ AtFile(f)
  /\ filecount < MaxFiles
  /\ filecount' = filecount + 1
  /\ f' = NextFrom(f)
  /\ UNCHANGED <<image, walk, filenames, cbfsMenu>>

CbfsName ==
  /\ walk = "names"
  /\ AtFile(f)
  /\ filenames' = Append(filenames, image.cells[f].name)
  /\ f' = NextFrom(f)
  /\ UNCHANGED <<image, walk, filecount, cbfsMenu>>

(* The first walk ends: the array of names is allocated, or cannot be. *)
CbfsCounted ==
  /\ walk = "count"
  /\ AtEnd(f)
  /\ walk' \in {"names", "done"}
  /\ f' = First
  /\ UNCHANGED <<image, filecount, filenames, cbfsMenu>>

CbfsNamed ==
  /\ walk = "names"
  /\ AtEnd(f)
  /\ walk' = "done"
  /\ UNCHANGED <<image, f, filecount, filenames, cbfsMenu>>

CbfsScan == CbfsSkip \/ CbfsCount \/ CbfsName \/ CbfsCounted \/ CbfsNamed

-----------------------------------------------------------------------------
(* One turn of the loops of firstfile, nextfile and getfile, with the files *)
(* they have come by.                                                       *)
WalkStep(w) ==
  IF AtEnd(w.at) THEN w
  ELSE IF AtFile(w.at) THEN [at |-> NextFrom(w.at), files |-> Append(w.files, w.at)]
  ELSE [at |-> Moved(w.at, 1), files |-> w.files]

(* Where the walk is after k turns. *)
WalkTo[k \in 0..Space] ==
  IF k = 0 THEN [at |-> First, files |-> <<>>] ELSE WalkStep(WalkTo[k - 1])

(* All its files: a walk that takes more turns than there are places does   *)
(* not end.                                                                 *)
Walked == WalkTo[Space].files

(* findfile: the first file of the walk with the name. *)
findfile(name) ==
  LET named == {k \in 1..Len(Walked) : image.cells[Walked[k]].name = name}
  IN  IF named = {} THEN NoFile ELSE Walked[Min(named)]

(* redraw reads the selected name past the array when there is none. *)
CanDraw(sel) == HeaderFound => sel < Len(filenames)

(* Mutant of FileOn: the screen is one key behind. *)
FileOnBefore(sel) == IF HeaderFound /\ CanDraw(sel) THEN findfile(filenames[selected + 1]) ELSE NoFile

(* The file redraw describes: it is looked for by its name. *)
FileOn(sel) == IF HeaderFound /\ CanDraw(sel) THEN findfile(filenames[sel + 1]) ELSE NoFile

(* Mutant of HasNext: the selection can leave the list. *)
HasNextOffByOne == selected < filecount

HasNext == selected + 1 < filecount

(* start_row after the selection moved down to sel. *)
RowAfterDown(sel) ==
  IF sel >= start_row + FilesVisible - 1 THEN sel - (FilesVisible - 1) ELSE start_row

CbfsDown ==
  /\ HasNext
  /\ selected' = selected + 1
  /\ start_row' = RowAfterDown(selected')

CbfsUp ==
  /\ filecount > 0
  /\ selected > 0
  /\ selected' = selected - 1
  /\ start_row' = IF selected' < start_row THEN selected' ELSE start_row

CbfsKey ==
  /\ CbfsDown \/ CbfsUp
  /\ described' = FileOn(selected')
  /\ UNCHANGED <<image, walk, f, filecount, filenames>>

-----------------------------------------------------------------------------
CbfsTypes ==
  /\ image \in Images
  /\ walk \in {"off", "count", "names", "done"}
  /\ f \in 0..Space - 1
  /\ filecount \in Nat
  /\ filenames \in Seq(FileNames) /\ Len(filenames) <= filecount
  /\ selected \in Nat /\ start_row \in Nat
  /\ described \in Flash \cup {NoFile}

(* Every file has a body that ends in the flash. *)
WellFormed ==
  /\ image.header.align = 1
  /\ \A p \in Flash : image.cells[p].kind = "file"
                      => image.cells[p].step > 0 /\ p + image.cells[p].step <= Space

(* Starts[p]: the cell p is no part of the body of a file before it. *)
Starts[p \in Flash] ==
  p >= First /\ \A q \in First..p - 1 :
                  image.cells[q].kind = "file" /\ Starts[q] => p >= q + image.cells[q].step

(* The files of a well-formed image: those before its first free cell. *)
ImageFiles ==
  {p \in Flash : /\ image.cells[p].kind = "file" /\ Starts[p]
                 /\ \A q \in First..p : Starts[q] => image.cells[q].kind # "zero"}

=============================================================================
