------------------------------ MODULE MCFtdiSpi ------------------------------
(* A round as my_test has it: the id, reads, writes to what was read, so    *)
(* that the second round reads what the first has written.                 *)
(* Leftover answers and one echo do not fit in ack_buf together.           *)
EXTENDS FtdiSpi

CONSTANTS regA, regB

MCRound ==
  <<[op |-> "id"], [op |-> "read", addr |-> regA], [op |-> "read", addr |-> regB],
    [op |-> "write", addr |-> regA, val |-> "v1"],
    [op |-> "write", addr |-> regB, val |-> "v1"]>>
=============================================================================
