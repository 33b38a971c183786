------------------------------- MODULE Viewers -------------------------------
(***************************************************************************)
(* The modules of coreinfo that show what firmware left: coreboot tables,  *)
(* multiboot tables, boot log, CBFS, time stamps, and the RAM dump, and    *)
(* what the processor says of itself.  main runs their inits one after the *)
(* other and then the user opens one of them and presses keys in it.       *)
(*                                                                         *)
(* A read or a write past an array is undefined: the stage "undef".        *)
(***************************************************************************)
EXTENDS LogView, CbfsList, BootTables, CpuInfo

CONSTANTS
  Machines,  (* What the firmware left: console, text, image, tables, mb.  *)
  RamMax,    (* cursor_max of the RAM dump.                                *)
  RamSteps   (* What its keys move by; 1, 256 and 4096.                    *)

ASSUME RamAssumption ==
  RamMax \in Nat /\ RamSteps \subseteq Nat

(* No cbmem console, no time stamp table, a table without tick frequency. *)
Missing == [missing |-> TRUE]
NoTick == [notick |-> TRUE]

Texts == [chars : Seq(Chars)]
MbTables == [have : BOOLEAN, mmap : BOOLEAN, ranges : Seq(Ranges)]

ASSUME MachinesAssumption ==
  Machines \subseteq [console : Consoles \cup {Missing}, text : Texts \cup {Missing, NoTick},
                     image : Images, tables : [Addresses -> Tables \cup {NoTable}],
                     mb : MbTables, cpu : Cpus]

Modules == {"cpuinfo", "coreboot", "multiboot", "bootlog", "cbfs", "timestamps", "ramdump"}

VARIABLES
  machine,   (* The console, the text and the multiboot table.             *)
  stage,     (* The init that runs, "loop", "undef" or "exited".           *)
  viewer,    (* The module the user opened, or "none".                     *)
  ram_cursor (* The cursor of the RAM dump.                                *)

shellVars == <<machine, viewer, ram_cursor>>
vars == <<logVars, cbfsVars, tableVars, mbVars, cpuVars, shellVars, stage>>

Init ==
  /\ \E m \in Machines :
       /\ machine = [console |-> m.console, text |-> m.text, mb |-> m.mb]
       /\ image = m.image
       /\ tables = m.tables
       /\ cpu = m.cpu
  /\ LogInit
  /\ walk = "off" /\ f = 0 /\ filecount = 0 /\ filenames = <<>>
  /\ selected = 0 /\ start_row = 0 /\ described = NoFile
  /\ TablesInit
  /\ mb_good = FALSE /\ mb_range = <<>>
  /\ CpuInit
  /\ stage = "cpuinfo"
  /\ viewer = "none"
  /\ ram_cursor = 0

CpuinfoInit ==
  /\ stage = "cpuinfo"
  /\ cpuinfo_module_init
  /\ stage' = "coreboot"
  /\ UNCHANGED <<logVars, cbfsVars, tableVars, mbVars, shellVars>>

CorebootInit ==
  /\ stage = "coreboot"
  /\ ParseTables
  /\ stage' = IF tables_good' = "unknown" THEN "coreboot" ELSE "multiboot"
  /\ UNCHANGED <<logVars, cbfsVars, mbVars, cpuVars, shellVars>>

MultibootInit ==
  /\ stage = "multiboot"
  /\ LET mb == machine.mb
     IN  multiboot_module_init(mb.have, mb.mmap, mb.ranges, {<<>>, mb.ranges})
  /\ stage' = "bootlog"
  /\ UNCHANGED <<logVars, cbfsVars, tableVars, cpuVars, shellVars>>

BootlogInit ==
  /\ stage = "bootlog"
  /\ IF machine.console = Missing THEN UNCHANGED logVars
                                  ELSE bootlog_module_init(machine.console)
  /\ stage' = IF Len(g_buf'["bootlog"]) > alloc'["bootlog"] THEN "undef" ELSE "cbfs"
  /\ UNCHANGED <<cbfsVars, tableVars, mbVars, cpuVars, shellVars>>

CbfsInit ==
  /\ stage = "cbfs"
  /\ CbfsHeader \/ CbfsScan
  /\ stage' = IF walk' = "done" THEN "timestamps" ELSE "cbfs"
  /\ UNCHANGED <<logVars, tableVars, mbVars, cpuVars, shellVars>>

(* Without a tick frequency the init exits the program. *)
TimestampsInit ==
  /\ stage = "timestamps"
  /\ \/ machine.text = NoTick /\ stage' = "exited" /\ UNCHANGED logVars
     \/ machine.text = Missing /\ stage' = "loop" /\ UNCHANGED logVars
     \/ /\ machine.text \notin {NoTick, Missing}
        /\ stage' = "loop"
        /\ timestamps_module_init(machine.text.chars)
  /\ UNCHANGED <<cbfsVars, tableVars, mbVars, cpuVars, shellVars>>

Start == CpuinfoInit \/ CorebootInit \/ MultibootInit \/ BootlogInit \/ CbfsInit \/ TimestampsInit

(* The user opens a module and it is drawn.  The modules share nothing, so  *)
(* it is enough to look at one of them; this bounds the model.              *)
Show(m) ==
  /\ stage = "loop"
  /\ viewer = "none"
  /\ viewer' = m
  /\ IF m = "cbfs" THEN described' = FileOn(selected) ELSE UNCHANGED described
  /\ IF m = "cpuinfo" THEN cpuinfo_module_redraw ELSE UNCHANGED cpuVars
  /\ stage' = IF (m = "cbfs" /\ ~CanDraw(selected)) \/ (m = "cpuinfo" /\ ~NameEnds)
              THEN "undef" ELSE stage
  /\ UNCHANGED <<logVars, image, walk, f, filecount, filenames, selected, start_row,
                 tableVars, mbVars, machine, ram_cursor>>

ScrollLog ==
  /\ stage = "loop"
  /\ viewer \in LogViews
  /\ LogKey(viewer)
  /\ UNCHANGED <<cbfsVars, tableVars, mbVars, cpuVars, shellVars, stage>>

SelectFile ==
  /\ stage = "loop"
  /\ viewer = "cbfs"
  /\ CbfsKey
  /\ stage' = IF CanDraw(selected') THEN "loop" ELSE "undef"
  /\ UNCHANGED <<logVars, tableVars, mbVars, cpuVars, shellVars>>

RamClamped(c) == IF c > RamMax THEN RamMax ELSE IF c < 0 THEN 0 ELSE c

ramdump_module_handle ==
  /\ stage = "loop"
  /\ viewer = "ramdump"
  /\ \E d \in RamSteps \cup {-s : s \in RamSteps} : ram_cursor' = RamClamped(ram_cursor + d)
  /\ UNCHANGED <<logVars, cbfsVars, tableVars, mbVars, cpuVars, machine, viewer, stage>>

Next ==
  \/ Start
  \/ \E m \in Modules : Show(m)
  \/ ScrollLog \/ SelectFile \/ ramdump_module_handle

(* The inits are straight-line code. *)
Spec == Init /\ [][Next]_vars /\ WF_vars(Start)

-----------------------------------------------------------------------------
TypeOK ==
  /\ LogTypes
  /\ CbfsTypes
  /\ TableTypes
  /\ CpuTypes
  /\ stage \in {"cpuinfo", "coreboot", "multiboot", "bootlog", "cbfs", "timestamps", "loop",
                "undef", "exited"}
  /\ viewer \in Modules \cup {"none"}
  /\ ram_cursor \in 0..RamMax

(***************************************************************************)
(* A laid out text loses nothing: its printable characters are in the      *)
(* buffer, in order, the older part of a wrapped console before the newer. *)
(* The two passes over the text compute its width separately.              *)
(***************************************************************************)
NothingIsCut ==
  /\ g_buf["bootlog"] # <<>> =>
       OnlyGlyphs(g_buf["bootlog"])
         = OnlyGlyphs(Older(machine.console) \o Newer(machine.console))
  /\ g_buf["timestamps"] # <<>> => OnlyGlyphs(g_buf["timestamps"]) = OnlyGlyphs(machine.text.chars)

(* Whatever keys are pressed, the lines drawn are lines of the buffer. *)
ViewStaysInBuffer ==
  \A v \in LogViews : g_buf[v] # <<>> => ViewEnd(v) <= Len(g_buf[v])

(***************************************************************************)
(* On a well-formed image the list has every file of it, in order, and     *)
(* nothing from inside a file, also when it has no free cell and the walk  *)
(* runs past the end of the address space.                                 *)
(***************************************************************************)
ListIsComplete ==
  walk = "done" /\ HeaderFound /\ WellFormed /\ filenames # <<>> =>
    \E order \in [1..Len(filenames) -> ImageFiles] :
      /\ \A p \in ImageFiles : \E k \in 1..Len(filenames) : order[k] = p
      /\ \A j, k \in 1..Len(filenames) : j < k => order[j] < order[k]
      /\ \A k \in 1..Len(filenames) : filenames[k] = image.cells[order[k]].name

(***************************************************************************)
(* The information shown is that of a file with the selected name: of the  *)
(* selected one, or of the first in the walk if several have its name.     *)
(* (With two free areas, both unnamed, it is the first's.)                 *)
(***************************************************************************)
ShowsSelected ==
  viewer = "cbfs" /\ stage = "loop" /\ HeaderFound =>
    LET name(k) == image.cells[Walked[k]].name
    IN  /\ selected + 1 <= Len(Walked) /\ name(selected + 1) = filenames[selected + 1]
        /\ \E k \in 1..(selected + 1) :
             /\ described = Walked[k] /\ name(k) = name(selected + 1)
             /\ \A j \in 1..(k - 1) : name(j) # name(selected + 1)

(***************************************************************************)
(* Nothing is printed over what the CPU window says of every processor:    *)
(* the facts, the generic flags and the headings have their rows to        *)
(* themselves, although the row is counted by one variable per function,   *)
(* each handing its own back.  (Of the vendor's flags, ext_edx is printed  *)
(* over ecx, and on an Intel processor ext_ecx over both.)                 *)
(***************************************************************************)
FactsStay ==
  \A s, t \in cpu_screen :
    s.row = t.row => s.what = t.what \/ {s.what, t.what} \subseteq FlagLists \ {"edx"}

(* What is printed comes from a single coreboot table, if those that        *)
(* forward hold nothing else: a failed search leaves nothing behind.        *)
OneTable ==
  tables_good = "good" /\ ForwardFirst
  => \A i, j \in Items : kept[i] = kept[j] \/ Nowhere \in {kept[i], kept[j]}

(***************************************************************************)
(* Undefined behaviour is reached in three ways only: a console that has     *)
(* wrapped does not fit in the buffer allocated for its newer part, the    *)
(* CBFS module draws the name of a file when it has none, and the CPU      *)
(* module a name that the processor has not ended, or does not have.       *)
(***************************************************************************)
UndefinedOnlyThere ==
  stage = "undef" =>
    \/ viewer = "none" /\ machine.console.overflow
    \/ viewer = "cbfs" /\ HeaderFound /\ filenames = <<>>
    \/ /\ viewer = "cpuinfo"
       /\ \A k \in 1..Len(cpu.name) :
            cpu.name[k] = "ends" => \E j \in 1..k : cpu.name[j] = "empty"

(* Every init returns if files have bodies in the flash and forwards lead   *)
(* on: neither the walk of the image nor the search for tables tests for    *)
(* coming back to where it was.                                             *)
StartEnds ==
  (HeaderFound => WellFormed) /\ ForwardsLead ~> stage \in {"loop", "undef", "exited"}

(* The comment above sanitize_buffer_for_display: newlines become blanks,   *)
(* and only printable characters are preserved.                             *)
OnlyPrintable ==
  \A v \in LogViews : \A k \in 1..Len(g_buf[v]) : g_buf[v][k] \in Glyphs \cup {Blank}

=============================================================================
