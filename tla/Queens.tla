------------------------------- MODULE Queens --------------------------------
(***************************************************************************)
(* queens.c: the search for all ways to place num queens, by backtracking  *)
(* in one array, a row of the board to a step.  Each solution is shown     *)
(* until a key is pressed.                                                 *)
(***************************************************************************)
EXTENDS Integers, Sequences

CONSTANT Boards  (* The numbers of queens of the command line.             *)

ASSUME BoardsAssumption == Boards \subseteq Int

VARIABLES
  num,      (* The number of queens.                                       *)
  position, (* The column of the queen of each row.                        *)
  current,  (* The row whose queen is moved.                               *)
  found,    (* The solutions shown.                                        *)
  queens    (* "starts", "searches", "shows", "ends", "left" or "undef".   *)

queensVars == <<num, position, current, found, queens>>

QueensInit ==
  /\ num = 0 /\ position = <<>> /\ current = 0 /\ found = <<>>
  /\ queens = "starts"

(* The array has num + 1 elements, and the second is written whatever num. *)
QueensStart ==
  /\ queens = "starts"
  /\ num' \in Boards
  /\ IF num' < 1
     THEN queens' = "undef" /\ UNCHANGED <<position, current>>
     ELSE /\ position' = [i \in 1..num' |-> 0]
          /\ current' = 1
          /\ queens' = "searches"
  /\ UNCHANGED found

Distance(a, b) == IF a < b THEN b - a ELSE a - b

(* Mutant of place: only one direction of the diagonals. *)
placeOneWay(row, column, pos) ==
  \A i \in 1..(row - 1) : pos[i] # column /\ column - pos[i] # row - i

(* No queen of an earlier row attacks the square. *)
place(row, column, pos) ==
  \A i \in 1..(row - 1) :
    pos[i] # column /\ Distance(pos[i], column) # Distance(i, row)

(* The next column of the current row that fits, or the one past the board. *)
NextColumn ==
  LET fits == {c \in (position[current] + 1)..num : place(current, c, position)}
  IN  CHOOSE c \in fits \cup {num + 1} : \A d \in fits : c <= d

nqueens ==
  /\ queens = "searches" /\ current > 0
  /\ LET moved == [position EXCEPT ![current] = NextColumn]
     IN  \/ /\ NextColumn <= num /\ current = num
            /\ position' = moved
            /\ found' = Append(found, moved)
            /\ queens' = "shows"
            /\ UNCHANGED current
         \/ /\ NextColumn <= num /\ current # num
            /\ position' = [moved EXCEPT ![current + 1] = 0]
            /\ current' = current + 1
            /\ UNCHANGED <<found, queens>>
         \/ /\ NextColumn > num
            /\ position' = moved
            /\ current' = current - 1
            /\ UNCHANGED <<found, queens>>
  /\ UNCHANGED num

(* F1 leaves, any other key goes on. *)
print ==
  /\ queens = "shows"
  /\ queens' \in {"searches", "left"}
  /\ UNCHANGED <<num, position, current, found>>

QueensEnd ==
  /\ queens = "searches" /\ current = 0
  /\ queens' = "ends"
  /\ UNCHANGED <<num, position, current, found>>

QueensNext == QueensStart \/ nqueens \/ print \/ QueensEnd

-----------------------------------------------------------------------------
(* All ways to place the queens, by the rules of chess. *)
Attack(r1, c1, r2, c2) == c1 = c2 \/ r1 + c1 = r2 + c2 \/ r1 - c1 = r2 - c2
Solutions ==
  {p \in [1..num -> 1..num] :
     \A i, j \in 1..num : i # j => ~Attack(i, p[i], j, p[j])}

(* The search ends with every solution shown, none twice and nothing else,  *)
(* although it keeps no list and goes back over one array.                  *)
QueensFound ==
  queens = "ends" =>
    /\ {found[k] : k \in 1..Len(found)} = Solutions
    /\ \A j, k \in 1..Len(found) : j # k => found[j] # found[k]

QueensTypes ==
  /\ queens \in {"starts", "searches", "shows", "ends", "left", "undef"}
  /\ current \in 0..(IF num < 1 THEN 0 ELSE num)
  /\ \A i \in DOMAIN position : position[i] \in 0..(num + 1)

=============================================================================
