------------------------------ MODULE BootTables -----------------------------
(***************************************************************************)
(* The coreboot and the multiboot modules of coreinfo: at start each reads *)
(* tables that firmware or boot loader left in memory, and later prints    *)
(* what it kept of them.                                                   *)
(*                                                                         *)
(* The coreboot tables are looked for in two areas.  A table may consist   *)
(* of a forward record, which continues the search at another address.     *)
(***************************************************************************)
EXTENDS Integers, SequencesExt

CONSTANTS
  LowArea, HighArea, (* The places where a header is looked for, in order. *)
  Addresses,         (* All places, those forwards lead to included.       *)
  Items,             (* What a single record holds: vendor, strings, ...   *)
  Ranges,            (* Memory ranges.                                     *)
  MaxRanges,         (* MAX_MEMORY_COUNT of the coreboot module.           *)
  MaxMbRanges        (* MAX_MEMORY_COUNT of the multiboot module.          *)

ASSUME AreasAssumption ==
  /\ Addresses \subseteq Nat /\ -1 \notin Ranges
  /\ LowArea \in Seq(Addresses) /\ HighArea \in Seq(Addresses)
  /\ MaxRanges \in Nat /\ MaxMbRanges \in Nat \ {0}

Records == [tag : {"item"}, item : Items]
             \cup [tag : {"memory"}, ranges : Seq(Ranges)]
             \cup [tag : {"forward"}, to : Addresses]
             \cup [tag : {"other"}]

(* A header with its signature; empty is table_bytes = 0, sums the result   *)
(* of its two checksum tests.                                               *)
Tables == [empty : BOOLEAN, sums : BOOLEAN, records : Seq(Records)]
NoTable == [none |-> TRUE]

VARIABLES
  tables,      (* What is at each address, fixed.                          *)
  area,        (* The places parse_header has still to look at.            *)
  record,      (* The record it is at, 0 while it looks for a header.      *)
  second,      (* The high area is being searched.                         *)
  tables_good, (* "unknown" while init runs, then as the code's 0 and -1.  *)
  mem_count,
  range,       (* cb_info.range: the first MaxRanges places.               *)
  kept,        (* By item: the address of the table it was read from.      *)
  mb_good, mb_range

tableVars == <<tables, area, record, second, tables_good, mem_count, range, kept>>
mbVars == <<mb_good, mb_range>>

Nowhere == -1
Found(a) == tables[a] # NoTable
Here == Head(area)
Parsing == tables_good = "unknown"

(* Mutant of Taken: all ranges of the record are counted. *)
TakenAll(ranges) == Len(ranges)

(* The ranges a memory record gives. *)
Taken(ranges) == IF Len(ranges) > MaxRanges THEN MaxRanges ELSE Len(ranges)

TablesInit ==
  /\ area = LowArea
  /\ record = 0
  /\ second = FALSE
  /\ tables_good = "unknown"
  /\ mem_count = 0
  /\ range = [k \in 1..MaxRanges |-> Nowhere]
  /\ kept = [i \in Items |-> Nowhere]

(* The high area is searched next. *)
TryHighArea ==
  /\ second' = TRUE
  /\ area' = HighArea
  /\ record' = 0
  /\ UNCHANGED tables_good

(* Mutant of ReturnsOne: init takes 1 for a failure. *)
ReturnsOneFails ==
  IF second THEN tables_good' = "good" /\ UNCHANGED <<area, record, second>>
            ELSE TryHighArea

(* parse_header returns 1. *)
ReturnsOne ==
  /\ tables_good' = "good"
  /\ UNCHANGED <<area, record, second>>

(* Mutant of ReturnsOther: the high area is tried again and again. *)
ReturnsOtherAgain == TryHighArea

(* parse_header returns 0 or -1. *)
ReturnsOther ==
  IF second
  THEN tables_good' = "missing" /\ UNCHANGED <<area, record, second>>
  ELSE TryHighArea

(* The loop that looks for the signature. *)
LookFurther ==
  /\ Parsing /\ record = 0
  /\ area # <<>> /\ ~Found(Here)
  /\ area' = Tail(area)
  /\ UNCHANGED <<tables, record, second, tables_good, mem_count, range, kept>>

NothingFound ==
  /\ Parsing /\ record = 0
  /\ area = <<>>
  /\ ReturnsOther
  /\ UNCHANGED <<tables, mem_count, range, kept>>

HeaderSeen ==
  /\ Parsing /\ record = 0
  /\ area # <<>> /\ Found(Here)
  /\ IF tables[Here].empty \/ ~tables[Here].sums
     THEN ReturnsOther
     ELSE record' = 1 /\ UNCHANGED <<area, second, tables_good>>
  /\ UNCHANGED <<tables, mem_count, range, kept>>

InTable == Parsing /\ record > 0
Record == tables[Here].records[record]

TableEnd ==
  /\ InTable
  /\ record > Len(tables[Here].records)
  /\ ReturnsOne
  /\ UNCHANGED <<tables, mem_count, range, kept>>

(* A record parse_header copies, or one it does not know. *)
ItemRecord ==
  /\ InTable /\ record <= Len(tables[Here].records)
  /\ \/ Record.tag = "item" /\ kept' = [kept EXCEPT ![Record.item] = Here]
     \/ Record.tag = "other" /\ UNCHANGED kept
  /\ record' = record + 1
  /\ UNCHANGED <<tables, area, second, tables_good, mem_count, range>>

(* parse_memory copies the ranges that fit over those it has. *)
MemoryRecord ==
  /\ InTable /\ record <= Len(tables[Here].records)
  /\ Record.tag = "memory"
  /\ LET n == Taken(Record.ranges)
     IN  /\ mem_count' = n
         /\ range' = [k \in 1..MaxRanges |-> IF k <= n THEN Record.ranges[k] ELSE range[k]]
  /\ record' = record + 1
  /\ UNCHANGED <<tables, area, second, tables_good, kept>>

(* What is left of this table is not read, and it is the result of the     *)
(* call that is returned.                                                  *)
ForwardRecord ==
  /\ InTable /\ record <= Len(tables[Here].records)
  /\ Record.tag = "forward"
  /\ area' = <<Record.to>>
  /\ record' = 0
  /\ UNCHANGED <<tables, second, tables_good, mem_count, range, kept>>

ParseTables ==
  \/ LookFurther \/ NothingFound \/ HeaderSeen
  \/ TableEnd \/ ItemRecord \/ MemoryRecord \/ ForwardRecord

-----------------------------------------------------------------------------
(* The mmap entries parse_memory of the multiboot module keeps: it stops    *)
(* when its array is full.  Whatever the sizes are, it takes one each turn. *)
Kept(ranges) == SubSeq(ranges, 1, IF Len(ranges) > MaxMbRanges THEN MaxMbRanges
                                                               ELSE Len(ranges))

(***************************************************************************)
(* multiboot_module_init: the table is parsed whether there is one or not; *)
(* without one it is whatever memory holds, one of the sequences in junk.  *)
(***************************************************************************)
multiboot_module_init(have, mmap, ranges, junk) ==
  /\ mb_good' = have
  /\ IF have
     THEN mb_range' = IF mmap THEN Kept(ranges) ELSE <<>>
     ELSE \E r \in junk : mb_range' = Kept(r)

-----------------------------------------------------------------------------
TableTypes ==
  /\ \A a \in Addresses : Found(a) => tables[a] \in Tables
  /\ area \in Seq(Addresses)
  /\ record \in Nat
  /\ second \in BOOLEAN
  /\ tables_good \in {"unknown", "good", "missing"}
  /\ mem_count \in 0..MaxRanges
  /\ range \in [1..MaxRanges -> Ranges \cup {Nowhere}]
  /\ \A k \in 1..mem_count : range[k] # Nowhere
  /\ kept \in [Items -> Addresses \cup {Nowhere}]
  /\ mb_good \in BOOLEAN
  /\ mb_range \in Seq(Ranges) /\ Len(mb_range) <= MaxMbRanges

Forwards(a) == {t \in Addresses : Found(a) /\ [tag |-> "forward", to |-> t] \in ToSet(tables[a].records)}

(* A table that forwards has nothing before its forward record. *)
ForwardFirst ==
  \A a \in Addresses : Forwards(a) # {} => tables[a].records[1].tag = "forward"

(* Forwards lead to higher addresses, as from the low area to the tables. *)
ForwardsLead == \A a \in Addresses : \A t \in Forwards(a) : t > a

=============================================================================
