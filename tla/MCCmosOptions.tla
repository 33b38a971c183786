---------------------------- MODULE MCCmosOptions ----------------------------
(* Every option table of at most MaxEntries entries.  The names stand for a *)
(* plain option, one that begins with CFG, one that has the three letters   *)
(* further on, and check_sum.                                               *)
EXTENDS CmosOptions, SequencesExt

CONSTANTS MaxEntries, plain, cfg, late, sum

MCNames == {plain, cfg, late, sum}

MCAt ==
  [n \in MCNames |->
     CASE n = cfg  -> [C |-> 0, F |-> 1, G |-> 2]
       [] n = late -> [C |-> 4, F |-> 5, G |-> 6]
       [] OTHER    -> [c \in Letters |-> -1]]

MCTables ==
  BoundedSeq([name : {plain, cfg}, config : {"r", "e", "h"}]
               \cup [name : {late, sum}, config : {"h"}], MaxEntries)

=============================================================================
