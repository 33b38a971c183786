------------------------------- MODULE PciList -------------------------------
(***************************************************************************)
(* The PCI module of coreinfo: at start it scans the buses depth first     *)
(* into a fixed array, sorting the array at the end of every bus, and then *)
(* lets the user move through the sorted list.                             *)
(*                                                                         *)
(* The scan follows bridges by recursion and the sort is a recursive       *)
(* quicksort whose second part includes the pivot.  Both recursions are    *)
(* modelled by their stacks, so that not returning is a behaviour.         *)
(***************************************************************************)
EXTENDS Integers, Sequences, FiniteSets

CONSTANTS
  Buses,      (* Bus numbers, 0 first.                                     *)
  SlotCount,  (* Slots of a bus.                                           *)
  FuncCount,  (* Functions of a slot.                                      *)
  MaxDevices, (* MAX_PCI_DEVICES, the size of the array.                   *)
  Visible,    (* MENU_VISIBLE, the rows of the list on the screen.         *)
  Machines    (* The machines: what answers at each bus, slot, function.   *)

Slots == 0..SlotCount - 1
Funcs == 0..FuncCount - 1
Places == Buses \X Slots \X Funcs

(* kind is "none" where nobody is home; multi is the header's multifunction *)
(* bit; secondary is the bus number register behind a bridge.               *)
Answers == [kind : {"none", "device", "bridge"}, multi : BOOLEAN, secondary : Buses]

ASSUME SizesAssumption ==
  /\ SlotCount \in Nat \ {0} /\ FuncCount \in Nat \ {0}
  /\ MaxDevices \in Nat \ {0} /\ Visible \in Nat \ {0}
  /\ Buses \subseteq Nat /\ 0 \in Buses /\ IsFiniteSet(Buses)
ASSUME MachinesAssumption == Machines \subseteq [Places -> Answers]

VARIABLES
  machine,  (* The machine scanned.                                        *)
  devices,  (* The array up to devices_index, as PCI_DEV numbers.          *)
  calls,    (* The active calls of ci_pci_scan_bus, innermost first.       *)
  segments, (* The quicksort calls still to run: base and length.          *)
  menu_selected,
  menu_first

vars == <<machine, devices, calls, segments, menu_selected, menu_first>>
menu == <<menu_selected, menu_first>>

PciDev(bus, slot, func) == (bus * SlotCount + slot) * FuncCount + func

(* A call at the head of its loops: where it goes on, or that it is sorting. *)
Call(bus, slot, func) == [bus |-> bus, slot |-> slot, func |-> func, sorting |-> FALSE]

Scanning == calls # <<>>
Browsing == calls = <<>>
Top == Head(calls)
ScanEnded == Top.slot = SlotCount
Here == machine[<<Top.bus, Top.slot, Top.func>>]

(* The loop position after function f of the current slot. *)
After(f) ==
  IF f + 1 < FuncCount THEN [Top EXCEPT !.func = f + 1]
                       ELSE [Top EXCEPT !.func = 0, !.slot = Top.slot + 1]
NextSlot == After(FuncCount - 1)

(* Mutant of PastAbsent: a missing function 0 does not end its slot. *)
PastAbsentEvery == After(Top.func)

(* Nobody is home: without a function 0 the rest of the slot is skipped. *)
PastAbsent == IF Top.func = 0 THEN NextSlot ELSE After(Top.func)

(* A function 0 without the multifunction bit is the only one of its slot. *)
PastPresent == IF Top.func = 0 /\ ~Here.multi THEN NextSlot ELSE After(Top.func)

Init ==
  /\ machine \in Machines
  /\ devices = <<>>
  /\ calls = <<Call(0, 0, 0)>>
  /\ segments = <<>>
  /\ menu_selected = 0
  /\ menu_first = 0

InLoop == Scanning /\ ~Top.sorting /\ ~ScanEnded

NobodyHome ==
  /\ InLoop
  /\ Here.kind = "none"
  /\ calls' = <<PastAbsent>> \o Tail(calls)
  /\ UNCHANGED <<machine, devices, segments, menu>>

(* Mutant of Room: the test lets one device too many in. *)
RoomOffByOne == Len(devices) <= MaxDevices

(* The array has room for another device. *)
Room == Len(devices) < MaxDevices

(* The array is full: the call returns, past the sort at its end. *)
ArrayFull ==
  /\ InLoop
  /\ Here.kind # "none"
  /\ ~Room
  /\ calls' = Tail(calls)
  /\ UNCHANGED <<machine, devices, segments, menu>>

(* Mutant of Followed: the scan goes on with the bus it is on. *)
FollowedSelf == Top.bus

(* The bus a bridge leads to. *)
Followed == Here.secondary

FoundDevice ==
  /\ InLoop
  /\ Here.kind # "none"
  /\ Room
  /\ devices' = Append(devices, PciDev(Top.bus, Top.slot, Top.func))
  /\ \/ /\ Here.kind = "device"
        /\ calls' = <<PastPresent>> \o Tail(calls)
     \/ /\ Here.kind = "bridge"
        /\ calls' = <<Call(Followed, 0, 0), PastPresent>> \o Tail(calls)
  /\ UNCHANGED <<machine, segments, menu>>

(* The end of a bus: quicksort is called on the whole array. *)
BusEnd ==
  /\ Scanning
  /\ ScanEnded
  /\ ~Top.sorting
  /\ calls' = <<[Top EXCEPT !.sorting = TRUE]>> \o Tail(calls)
  /\ segments' = <<[base |-> 0, len |-> Len(devices)]>>
  /\ UNCHANGED <<machine, devices, menu>>

-----------------------------------------------------------------------------
(* swap(&list[i], &list[j]) with 0-based indexes. *)
Swap(list, i, j) ==
  [list EXCEPT ![i + 1] = list[j + 1], ![j + 1] = list[i + 1]]

(* One turn of the partition loop, at the i-th entry of the segment from    *)
(* base: an entry below the pivot's value joins the first part.             *)
Turn(s, base, val, i) ==
  IF s.list[base + i] < val
  THEN [list  |-> Swap(s.list, base + i - 1, base + s.index),
        index |-> s.index + 1]
  ELSE s

(* The list and the index after each of the first n turns. *)
Turns(start, base, val, n) ==
  LET turns[i \in 0..n] ==
        IF i = 0 THEN start ELSE Turn(turns[i - 1], base, val, i)
  IN  turns

(***************************************************************************)
(* partition on the len entries from base: the middle entry is the pivot   *)
(* and goes to the end, the smaller ones to the front, the pivot after     *)
(* them.                                                                   *)
(***************************************************************************)
Partition(list, base, len) ==
  LET middle == base + (len \div 2)
      last == base + len - 1
      start == [list |-> Swap(list, middle, last), index |-> 0]
      end == Turns(start, base, list[middle + 1], len - 1)[len - 1]
  IN  [list  |-> Swap(end.list, base + end.index, last),
       index |-> end.index]

Segment == Head(segments)

QuicksortShort ==
  /\ segments # <<>>
  /\ Segment.len <= 1
  /\ segments' = Tail(segments)
  /\ UNCHANGED <<machine, devices, calls, menu>>

(* Mutant of SecondPart: it begins at the start of the segment. *)
SecondPartWhole(seg, index) == seg

(* The second recursive call; its first entry is the pivot. *)
SecondPart(seg, index) == [base |-> seg.base + index, len |-> seg.len - index]

QuicksortSplit ==
  /\ segments # <<>>
  /\ Segment.len > 1
  /\ LET p == Partition(devices, Segment.base, Segment.len)
     IN  /\ devices' = p.list
         /\ segments' = <<[base |-> Segment.base, len |-> p.index],
                          SecondPart(Segment, p.index)>> \o Tail(segments)
  /\ UNCHANGED <<machine, calls, menu>>

SortEnd ==
  /\ Scanning
  /\ Top.sorting
  /\ segments = <<>>
  /\ calls' = Tail(calls)
  /\ UNCHANGED <<machine, devices, segments, menu>>

-----------------------------------------------------------------------------
(* Mutant of FirstFor: the list scrolls one row too late. *)
FirstForLate(sel) ==
  IF sel < menu_first THEN sel
  ELSE IF sel > menu_first + Visible THEN sel - (Visible - 1)
  ELSE menu_first

(* menu_first once sel is selected: the row is brought into view. *)
FirstFor(sel) ==
  IF sel < menu_first THEN sel
  ELSE IF sel >= menu_first + Visible THEN sel - (Visible - 1)
  ELSE menu_first

KeyDown ==
  /\ Browsing
  /\ menu_selected + 1 < Len(devices)
  /\ menu_selected' = menu_selected + 1
  /\ menu_first' = FirstFor(menu_selected')
  /\ UNCHANGED <<machine, devices, calls, segments>>

KeyUp ==
  /\ Browsing
  /\ menu_selected > 0
  /\ menu_selected' = menu_selected - 1
  /\ menu_first' = FirstFor(menu_selected')
  /\ UNCHANGED <<machine, devices, calls, segments>>

Scan == NobodyHome \/ ArrayFull \/ FoundDevice \/ BusEnd
Sort == QuicksortShort \/ QuicksortSplit \/ SortEnd

Next == Scan \/ Sort \/ KeyDown \/ KeyUp

(* The scan is straight-line code of the module's init. *)
Spec == Init /\ [][Next]_vars /\ WF_vars(Scan \/ Sort)

-----------------------------------------------------------------------------
TypeOK ==
  /\ machine \in [Places -> Answers]
  /\ devices \in Seq(Nat) /\ Len(devices) <= MaxDevices
  /\ \A k \in 1..Len(calls) :
       /\ calls[k].bus \in Buses
       /\ calls[k].slot \in 0..SlotCount /\ calls[k].func \in Funcs
       /\ calls[k].sorting => k = 1
  /\ \A k \in 1..Len(segments) :
       segments[k].base >= 0 /\ segments[k].base + segments[k].len <= Len(devices)
  /\ menu_selected \in Nat /\ menu_first \in Nat

(* The functions that answer a configuration read of bus b, by the PCI      *)
(* rules: function 0 is there, and it is multifunction for the others.      *)
OnBus(b) ==
  {p \in {b} \X Slots \X Funcs :
     LET zero == machine[<<b, p[2], 0>>]
     IN  /\ machine[p].kind # "none"
         /\ zero.kind # "none"
         /\ p[3] = 0 \/ zero.multi}

Bridges(bs) == {p \in UNION {OnBus(b) : b \in bs} : machine[p].kind = "bridge"}

(* The sets of buses that hold bus 0 and all their bridges lead to. *)
ClosedSets ==
  {bs \in SUBSET Buses :
     0 \in bs /\ \A p \in Bridges(bs) : machine[p].secondary \in bs}

(* The buses that some way of bridges leads to from bus 0. *)
ReachableBuses ==
  LET closed == ClosedSets
  IN  {b \in Buses : \A bs \in closed : b \in bs}

Reachable ==
  {PciDev(p[1], p[2], p[3]) : p \in UNION {OnBus(b) : b \in ReachableBuses}}

(* Firmware has numbered the bridges: each leads to a higher bus, its own. *)
Numbered ==
  LET bridges == Bridges(ReachableBuses)
  IN  /\ \A p \in bridges : machine[p].secondary > p[1]
      /\ \A p, q \in bridges :
           machine[p].secondary = machine[q].secondary => p = q

SortedFrom(seq) == \A i, j \in 1..Len(seq) : i < j => seq[i] < seq[j]

(***************************************************************************)
(* On a machine whose bridges are numbered and whose functions fit in the  *)
(* array, the list the user gets is every function that answers, once, in  *)
(* bus, slot, function order.                                              *)
(***************************************************************************)
ListIsComplete ==
  Browsing /\ Numbered /\ Cardinality(Reachable) <= MaxDevices =>
    /\ {devices[i] : i \in 1..Len(devices)} = Reachable
    /\ SortedFrom(devices)

(* Also on a machine with too many functions nothing is listed that does    *)
(* not answer, and nothing twice, at any point of the scan and the sorts.   *)
NothingTwice ==
  Numbered =>
    /\ {devices[i] : i \in 1..Len(devices)} \subseteq Reachable
    /\ \A i, j \in 1..Len(devices) : devices[i] = devices[j] => i = j

(* The scan and its sorts return on every numbered machine: the pivot stays *)
(* in the second part, so this needs the entries to differ.                 *)
ScanReturns == Numbered ~> Browsing

(* The selected device is a row of the list on the screen. *)
SelectionVisible ==
  /\ menu_first <= menu_selected /\ menu_selected < menu_first + Visible
  /\ menu_selected > 0 => menu_selected < Len(devices)

=============================================================================
