------------------------------ MODULE MCViewers ------------------------------
(* In each machine one part varies and the others are missing: consoles and *)
(* texts of up to four characters on a screen of two lines and three        *)
(* columns, images of four cells, coreboot tables at four places, multiboot *)
(* tables of up to three ranges, processors with all flags, with none and   *)
(* with those around the break of a row.                                    *)
EXTENDS Viewers

CONSTANTS vendor, part, ram, reserved

MCLowArea == <<1, 2>>
MCHighArea == <<3>>

NoImage == [header |-> [good |-> FALSE, offset |-> 0, align |-> 1],
            cells  |-> [p \in Flash |-> [kind |-> "zero"]]]
NoTables == [a \in Addresses |-> NoTable]
NoMb == [have |-> FALSE, mmap |-> FALSE, ranges |-> <<ram>>]

Cpu(v, name, ticks, flags) ==
  [vendor |-> v, name |-> name, ticks |-> ticks,
   edx |-> flags, ecx |-> flags, ext_edx |-> flags, ext_ecx |-> flags]

MCCpu == Cpu("INTEL", <<"ends", "ends", "ends">>, 100, {})

Machine(console, text, img, tbls, mb) ==
  [console |-> console, text |-> text, image |-> img, tables |-> tbls, mb |-> mb, cpu |-> MCCpu]

MCBodies == UNION {[1..n -> {"g", "h", "newline", "tab"}] : n \in 1..3}
              \cup [1..2 -> {"g", "newline", "tab", "other"}]
              \cup [1..4 -> {"g", "newline"}] \cup [1..4 -> {"g", "tab"}]

Logs ==
  {Machine(c, Missing, NoImage, NoTables, NoMb) :
     c \in {[body |-> b, cursor |-> k, overflow |-> o] :
              b \in MCBodies, k \in {0, 1, 2, 4, 5}, o \in BOOLEAN}}

Stamps ==
  {Machine(Missing, t, NoImage, NoTables, NoMb) : t \in {[chars |-> b] : b \in MCBodies} \cup {NoTick}}

File(n, s) == [kind |-> "file", name |-> n, step |-> s]
Cells4 == [Flash -> {[kind |-> "zero"], [kind |-> "data"], File("x", 1), File("y", 1),
                     File("y", 2)}]
            \cup [Flash -> {File("x", 0), File("z", 4), File("z", 5), File("x", 1)}]

Headers3 == {[good |-> TRUE, offset |-> 0, align |-> 1], [good |-> TRUE, offset |-> 1, align |-> 1],
             [good |-> TRUE, offset |-> 1, align |-> 0]}

Roms ==
  {Machine(Missing, Missing, [header |-> h, cells |-> c], NoTables, NoMb) :
     h \in Headers3, c \in Cells4}

Table(recs) == [empty |-> FALSE, sums |-> TRUE, records |-> recs]
Item(i) == [tag |-> "item", item |-> i]
Forward(a) == [tag |-> "forward", to |-> a]

Bad == {NoTable, [empty |-> TRUE, sums |-> TRUE, records |-> <<>>],
        [empty |-> FALSE, sums |-> FALSE, records |-> <<Item(part)>>]}
Full == {Table(<<Item(vendor), [tag |-> "other"]>>),
         Table(<<Item(part), [tag |-> "memory", ranges |-> <<ram, reserved, ram>>]>>)}
Forwarding == {Table(<<[tag |-> "memory", ranges |-> <<ram>>], Forward(4)>>),
               Table(<<Forward(3), Item(vendor)>>), Table(<<Forward(4)>>)}

MCTables ==
  {<<t1, t2, t3, t4>> : t1 \in Bad \cup Full \cup Forwarding, t2 \in {NoTable} \cup Full,
                        t3 \in Bad \cup Full \cup Forwarding, t4 \in Bad \cup Full}

Boots ==
  {Machine(Missing, Missing, NoImage, t, NoMb) : t \in MCTables}
    \cup {Machine(Missing, Missing, NoImage, NoTables, mb) :
            mb \in [have : BOOLEAN, mmap : BOOLEAN,
                    ranges : UNION {[1..n -> {ram, reserved}] : n \in 0..3}]}

MCLeaves == {"text", "ends", "empty"}

Processors ==
  {[Machine(Missing, Missing, NoImage, NoTables, NoMb) EXCEPT !.cpu = Cpu(v, n, t, b)] :
     v \in {"INTEL", "AMD", "SIS"}, n \in [1..3 -> MCLeaves],
     t \in {0, 99, 100, 102400}, b \in {{}, Bits, {0, 16}, {16, 17}, {15, 20, 31}}}

MCMachines == Logs \cup Stamps \cup Roms \cup Boots \cup Processors

=============================================================================
