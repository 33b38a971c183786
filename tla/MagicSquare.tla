----------------------------- MODULE MagicSquare -----------------------------
(* magic.c: the square is filled with 1, 2, ... by going up and to the      *)
(* right, or down where that is taken, one number to a step.                *)
EXTENDS Integers, FiniteSetsExt

CONSTANT Orders  (* The orders of the command line.                        *)

ASSUME OrdersAssumption == Orders \subseteq Int

VARIABLES
  n,    (* The order.                                                      *)
  a,    (* The square, -1 where nothing has been written yet.              *)
  row, col, k,
  magic (* "starts", "fills", "shows", "ends", "refused" or "undef".       *)

magicVars == <<n, a, row, col, k, magic>>

MagicInit ==
  /\ n = 0 /\ a = <<>> /\ row = 0 /\ col = 0 /\ k = 0
  /\ magic = "starts"

(* Even orders are refused; what is allocated for a negative one is not the *)
(* array that the first number is written to.                               *)
MagicStart ==
  /\ magic = "starts"
  /\ n' \in Orders
  /\ IF n' % 2 = 0
     THEN magic' = "refused" /\ UNCHANGED <<a, row, col, k>>
     ELSE IF n' < 0
     THEN magic' = "undef" /\ UNCHANGED <<a, row, col, k>>
     ELSE /\ row' = 0 /\ col' = n' \div 2 /\ k' = 1
          /\ a' = [p \in (0..(n' - 1)) \X (0..(n' - 1)) |-> IF p = <<0, n' \div 2>> THEN 1 ELSE -1]
          /\ magic' = "fills"

(* Mutant of Cell: in the last column the next row is the one below. *)
CellBelow ==
  IF row = 0 /\ col # n - 1 THEN <<n - 1, col + 1>>
  ELSE IF col = n - 1 THEN <<row + 1, col>>
  ELSE IF a[row - 1, col + 1] = -1 THEN <<row - 1, col + 1>>
  ELSE <<row + 1, col>>

(* Where the next number goes. *)
Cell ==
  IF row = 0 /\ col # n - 1 THEN <<n - 1, col + 1>>
  ELSE IF row = 0 THEN <<row + 1, col>>
  ELSE IF col = n - 1 THEN <<row - 1, 0>>
  ELSE IF a[row - 1, col + 1] = -1 THEN <<row - 1, col + 1>>
  ELSE <<row + 1, col>>

(* A cell outside the square would be undefined. *)
MagicFill ==
  /\ magic = "fills" /\ k # n * n
  /\ row' = Cell[1] /\ col' = Cell[2] /\ k' = k + 1
  /\ IF Cell \in DOMAIN a
     THEN a' = [a EXCEPT ![Cell] = k + 1] /\ UNCHANGED magic
     ELSE magic' = "undef" /\ UNCHANGED a
  /\ UNCHANGED n

(* magic_board shows the square until a key is pressed. *)
magic_board ==
  /\ \/ magic = "fills" /\ k = n * n /\ magic' = "shows"
     \/ magic = "shows" /\ magic' = "ends"
  /\ UNCHANGED <<n, a, row, col, k>>

MagicNext == MagicStart \/ MagicFill \/ magic_board

-----------------------------------------------------------------------------
SumOver(cells) == MapThenSumSet(LAMBDA p : a[p], cells)

(* What is shown has each number once, and the same sum along every row,    *)
(* column and diagonal; no number has been written over another.            *)
SquareIsMagic ==
  magic = "shows" =>
    LET index == 0..(n - 1)
        lines == {{<<i, j>> : j \in index} : i \in index}
                   \cup {{<<i, j>> : i \in index} : j \in index}
                   \cup {{<<i, i>> : i \in index}, {<<i, n - 1 - i>> : i \in index}}
    IN  /\ {a[p] : p \in DOMAIN a} = 1..(n * n)
        /\ \A l \in lines : 2 * SumOver(l) = n * (n * n + 1)

MagicTypes ==
  /\ magic \in {"starts", "fills", "shows", "ends", "refused", "undef"}
  /\ magic = "undef" => n < 0

=============================================================================
