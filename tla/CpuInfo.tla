------------------------------- MODULE CpuInfo -------------------------------
(***************************************************************************)
(* The CPU module of coreinfo: what it asks of the processor, and on which *)
(* row of its window it prints each answer.  A processor is its vendor,    *)
(* the leaves of its name, and the flag registers as the sets of bits that *)
(* are set.  A flag table is the set of bits it has a name for.            *)
(***************************************************************************)
EXTENDS Integers, Sequences

CONSTANT KhzValues  (* Values of unsigned int; 2^32.                            *)

ASSUME KhzAssumption == KhzValues \in Nat \ {0}

VARIABLES
  cpu,       (* The processor.                                             *)
  cpu_khz,   (* The speed measured at start.                               *)
  cpu_screen (* What redraw printed: a set of [what, bit, row].            *)

cpuVars == <<cpu, cpu_khz, cpu_screen>>

Bits == 0..31
NameLeaves == {"text", "ends", "empty"}
Cpus == [vendor : STRING, name : Seq(NameLeaves), ticks : Nat, edx : SUBSET Bits,
         ecx : SUBSET Bits, ext_edx : SUBSET Bits, ext_ecx : SUBSET Bits]
FlagLists == {"edx", "ecx", "ext_edx", "ext_ecx"}

generic_cap_flags == Bits \ {10, 20, 30}

(* The tables of the two vendors that have any. *)
vendor_flags ==
  [AMD   |-> [ecx     |-> {0, 3, 13, 23},
              ext_edx |-> Bits \ {10, 18, 21, 28},
              ext_ecx |-> (0..13) \ {11}],
   INTEL |-> [ecx     |-> {0, 3, 4, 5, 7, 8, 9, 10, 13, 14, 18},
              ext_edx |-> {11, 20, 29},
              ext_ecx |-> {0}]]

(* decode_flags goes on to the next row behind bit 16, if that has a name. *)
RowAfter(named, row) == IF 16 \in named THEN row + 1 ELSE row

(* What decode_flags prints of a register from a row on. *)
decode_flags(list, reg, named, row) ==
  {[what |-> list, bit |-> i, row |-> IF i > 16 THEN RowAfter(named, row) ELSE row] :
     i \in named \cap reg}

(* Mutant of GivenBack: the row of the call is. *)
GivenBackNever(named, row) == row

(* The row decode_flags gives back to its caller. *)
GivenBack(named, row) == RowAfter(named, row)

Text(name, row) == [what |-> name, bit |-> 0, row |-> row]

(* Only behind the generic flags, and behind the heading, is a new row begun. *)
get_features(row) ==
  LET generic == decode_flags("edx", cpu.edx, generic_cap_flags, row + 1)
      heading == GivenBack(generic_cap_flags, row + 1) + 1
      named == vendor_flags[cpu.vendor]
      edxRow == GivenBack(named.ecx, heading + 1)
      ecxRow == GivenBack(named.ext_edx, edxRow)
      extended == decode_flags("ecx", cpu.ecx, named.ecx, heading + 1)
                    \cup decode_flags("ext_edx", cpu.ext_edx, named.ext_edx, edxRow)
                    \cup decode_flags("ext_ecx", cpu.ext_ecx, named.ext_ecx, ecxRow)
  IN  {Text("Features", row)} \cup generic
        \cup IF cpu.vendor \in DOMAIN vendor_flags
             THEN {Text("ExtendedFlags", heading)} \cup extended ELSE {}

(* do_name: the leaves are stored until one is empty, and none of its code  *)
(* ends the string: the processor's own zero has to.                        *)
NameEnds ==
  \E k \in 1..Len(cpu.name) :
    cpu.name[k] = "ends" /\ \A j \in 1..(k - 1) : cpu.name[j] # "empty"

(* The rows above the features; an AMD processor has one more. *)
Facts ==
  <<"Vendor", "Processor", "Family", "Model", "Stepping">>
    \o (IF cpu.vendor = "AMD" THEN <<"Brand">> ELSE <<>>)
    \o <<IF cpu_khz = 0 THEN "Error" ELSE "Speed">>

cpuinfo_module_redraw ==
  /\ cpu_screen' = {Text(Facts[k], k + 1) : k \in 1..Len(Facts)}
                     \cup get_features(Len(Facts) + 3)
  /\ UNCHANGED <<cpu, cpu_khz>>

(* getticks, in the 32 bits of its result. *)
cpuinfo_module_init ==
  /\ cpu_khz' = (cpu.ticks \div 100) % KhzValues
  /\ UNCHANGED <<cpu, cpu_screen>>

CpuInit == cpu_khz = 0 /\ cpu_screen = {}

CpuTypes ==
  /\ cpu_khz \in 0..(KhzValues - 1)
  /\ \A t \in cpu_screen : t.bit \in Bits /\ t.row \in 2..20

=============================================================================
