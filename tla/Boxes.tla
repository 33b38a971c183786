-------------------------------- MODULE Boxes --------------------------------
(***************************************************************************)
(* win_border.c and other_border.c: the arrow keys move a box over the     *)
(* screen and beyond its edges.  win_border makes the box a window and     *)
(* makes a new one for each place; other_border draws it on the screen     *)
(* itself, and blanks it.                                                  *)
(***************************************************************************)
EXTENDS Integers

CONSTANTS
  ScreenCols, ScreenLines,  (* COLS and LINES.                             *)
  width, height,            (* Of the box; 10 and 3.                       *)
  Beyond                    (* Bound on how far the box leaves the screen. *)

ASSUME BoxesAssumption ==
  /\ ScreenCols \in Nat /\ ScreenLines \in Nat /\ Beyond \in Nat
  /\ width \in Nat \ {0} /\ height \in Nat \ {0}

VARIABLES
  boxDemo,         (* "win" or "other".                                    *)
  startx, starty,
  drawn,           (* The cells of the screen that show a border.          *)
  boxes            (* "runs" or "left".                                    *)

boxVars == <<boxDemo, startx, starty, drawn, boxes>>

Screen == (0..(ScreenCols - 1)) \X (0..(ScreenLines - 1))

(* The cells of the border of a box from <<x, y>> to <<x + w, y + h>>. *)
Border(x, y, w, h) ==
  {c \in Screen :
     /\ c[1] \in x..(x + w) /\ c[2] \in y..(y + h)
     /\ c[1] \in {x, x + w} \/ c[2] \in {y, y + h}}

(* Where newwin makes a window; elsewhere all that is done with it fails. *)
HasWindow(x, y) == x >= 0 /\ y >= 0

Window(x, y) ==
  IF HasWindow(x, y)
  THEN {c \in Screen : c[1] \in x..(x + width - 1) /\ c[2] \in y..(y + height - 1)}
  ELSE {}

WindowBorder(x, y) == Border(x, y, width - 1, height - 1) \cap Window(x, y)

create_newwin(cells, x, y) == (cells \ Window(x, y)) \cup WindowBorder(x, y)

destroy_win(cells, x, y) == cells \ WindowBorder(x, y)

(* The corners one by one, and four lines: a line is drawn only if it       *)
(* begins on the screen, and is cut where the screen ends.                  *)
Lined(x, y) ==
  LET corners == {x, x + width} \X {y, y + height}
      across(line) == {c \in Screen : c[2] = line /\ c[1] \in (x + 1)..(x + width - 1)}
      down(column) == {c \in Screen : c[1] = column /\ c[2] \in (y + 1)..(y + height - 1)}
      begins(c) == c \in Screen
  IN  (corners \cap Screen)
      \cup (UNION {across(line) : line \in {r \in {y, y + height} : begins(<<x + 1, r>>)}})
      \cup (UNION {down(column) : column \in {r \in {x, x + width} : begins(<<r, y + 1>>)}})

(* Mutant of Blanked: the last column and line are left. *)
BlankedShort(x, y) ==
  {c \in Screen : c[1] \in x..(x + width - 1) /\ c[2] \in y..(y + height - 1)}

Blanked(x, y) == {c \in Screen : c[1] \in x..(x + width) /\ c[2] \in y..(y + height)}

create_box(cells, x, y, bool) == IF bool THEN cells \cup Lined(x, y) ELSE cells \ Blanked(x, y)

BoxesInit ==
  /\ boxDemo \in {"win", "other"}
  /\ startx = (ScreenCols - width) \div 2 /\ starty = (ScreenLines - height) \div 2
  /\ drawn = IF boxDemo = "win" THEN create_newwin({}, startx, starty) ELSE {}
  /\ boxes = IF boxDemo = "win" THEN "runs" ELSE "starts"

(* other_border.c's first drawing; nothing has been read from the user.     *)
FirstBox ==
  /\ boxes = "starts"
  /\ drawn' = create_box(drawn, startx, starty, TRUE)
  /\ boxes' = "runs"
  /\ UNCHANGED <<boxDemo, startx, starty>>

(* An arrow key moves the box by one. *)
Arrow ==
  /\ boxes = "runs"
  /\ \/ startx' \in {startx - 1, startx + 1} /\ UNCHANGED starty
     \/ starty' \in {starty - 1, starty + 1} /\ UNCHANGED startx
  /\ startx' \in (-Beyond)..(ScreenCols + Beyond)
  /\ starty' \in (-Beyond)..(ScreenLines + Beyond)
  /\ UNCHANGED <<boxDemo, boxes>>

WindowKey ==
  /\ Arrow /\ boxDemo = "win"
  /\ drawn' = create_newwin(destroy_win(drawn, startx, starty), startx', starty')

BoxKey ==
  /\ Arrow /\ boxDemo = "other"
  /\ drawn' = create_box(create_box(drawn, startx, starty, FALSE), startx', starty', TRUE)

BoxesLeave ==
  /\ boxes = "runs"
  /\ boxes' = "left"
  /\ UNCHANGED <<boxDemo, startx, starty, drawn>>

BoxesNext == FirstBox \/ WindowKey \/ BoxKey \/ BoxesLeave

-----------------------------------------------------------------------------
(* Wherever the box has been, on the screen or beyond, no border is left    *)
(* but that of the place it is at, and on the screen it is complete.  (The  *)
(* box of other_border.c is one wider and higher than its numbers.)         *)
BoxAlone ==
  LET more == IF boxDemo = "win" THEN -1 ELSE 0
      whole == Border(startx, starty, width + more, height + more)
      onScreen == /\ startx >= 0 /\ startx + width + more < ScreenCols
                  /\ starty >= 0 /\ starty + height + more < ScreenLines
  IN  /\ drawn \subseteq whole
      /\ onScreen /\ boxes # "starts" => drawn = whole

BoxTypes ==
  /\ boxes \in {"starts", "runs", "left"}
  /\ startx \in Int /\ starty \in Int /\ drawn \subseteq Screen

=============================================================================
