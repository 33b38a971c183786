-------------------------------- MODULE Hanoi --------------------------------
(***************************************************************************)
(* hanoi.c: the recursion that moves the discs, one call or one move to a  *)
(* step.  What is left of the calls under way is the sequence todo.        *)
(*                                                                         *)
(* init_pegs makes as many arrays of sizes as there are discs, and there   *)
(* are three pegs: with any other number the program follows or writes a   *)
(* pointer it has no array for, the state "undef".  With three discs it    *)
(* reads past an array as well, on every move onto an empty peg, but only  *)
(* reads: what stands there is a choice of the model.                      *)
(***************************************************************************)
EXTENDS Integers, Sequences, SequencesExt

CONSTANT Discs  (* The numbers the user may enter.                         *)

ASSUME DiscsAssumption == Discs \subseteq Int

VARIABLES
  my_pegs, (* The array sizes of each peg, 0 for no disc; top first.       *)
  todo,    (* What is left to do: calls of solve_hanoi and move_disc.      *)
  hanoi    (* "asks", "solves", "ends", "left" or "undef".                 *)

hanoiVars == <<my_pegs, todo, hanoi>>

Pegs == 0..2
Call(n, src, aux, dst) == [do |-> "solve", n |-> n, src |-> src, aux |-> aux, dst |-> dst]
Move(src, dst) == [do |-> "move", src |-> src, dst |-> dst]

(* The sizes of n discs, from the top; and a peg without discs. *)
Tower(n) == [i \in 1..n |-> 2 * i + 1]
Bare(n) == [i \in 1..n |-> 0]

HanoiInit == my_pegs = <<>> /\ todo = <<>> /\ hanoi = "asks"

init_pegs ==
  /\ hanoi = "asks"
  /\ \E n \in Discs :
       IF n # 3
       THEN hanoi' = "undef" /\ UNCHANGED <<my_pegs, todo>>
       ELSE /\ my_pegs' = [p \in Pegs |-> IF p = 0 THEN Tower(n) ELSE Bare(n)]
            /\ todo' = <<Call(n, 0, 1, 2)>>
            /\ hanoi' = "solves"

(* Mutant of Solved: the pegs of the first call are not exchanged. *)
SolvedSame(c) ==
  IF c.n = 0 THEN <<>>
  ELSE <<Call(c.n - 1, c.src, c.aux, c.dst), Move(c.src, c.dst),
         Call(c.n - 1, c.aux, c.src, c.dst)>>

(* What a call does. *)
Solved(c) ==
  IF c.n = 0 THEN <<>>
  ELSE <<Call(c.n - 1, c.src, c.dst, c.aux), Move(c.src, c.dst),
         Call(c.n - 1, c.aux, c.src, c.dst)>>

solve_hanoi ==
  /\ hanoi = "solves" /\ todo # <<>> /\ Head(todo).do = "solve"
  /\ todo' = Solved(Head(todo)) \o Tail(todo)
  /\ UNCHANGED <<my_pegs, hanoi>>

(***************************************************************************)
(* The place both loops of move_disc stop at: the first with a disc, or    *)
(* the one past the end.  They read sizes[index] before they compare index *)
(* with n_discs, and so, on a peg without discs, the cell behind the array.*)
(***************************************************************************)
Top(sizes, behind) ==
  LET cells == Append(sizes, behind)
      stops == {i \in DOMAIN cells : cells[i] # 0 \/ i = Len(sizes) + 1}
  IN  CHOOSE i \in stops : \A j \in stops : i <= j

(* What a cell can hold that is not the program's: 0 or something else.     *)
Anything == {0, 1}

(* A disc moves and is shown; F1 then frees the pegs and ends the program.  *)
(* From an empty peg or onto a full one it writes outside the arrays.       *)
move_disc ==
  /\ hanoi = "solves" /\ todo # <<>> /\ Head(todo).do = "move"
  /\ \E behind \in Anything :
       LET m == Head(todo)  from == my_pegs[m.src]  onto == my_pegs[m.dst]
           top == Top(from, behind)  above == Top(onto, behind) - 1
       IN  IF top \in DOMAIN from /\ above \in DOMAIN onto
           THEN /\ my_pegs' = [my_pegs EXCEPT ![m.src][top] = 0, ![m.dst][above] = from[top]]
                /\ hanoi' \in {"solves", "left"}
           ELSE hanoi' = "undef" /\ UNCHANGED my_pegs
  /\ todo' = Tail(todo)

HanoiEnds ==
  /\ hanoi = "solves" /\ todo = <<>>
  /\ hanoi' = "ends"
  /\ UNCHANGED <<my_pegs, todo>>

HanoiNext == init_pegs \/ solve_hanoi \/ move_disc \/ HanoiEnds

-----------------------------------------------------------------------------
(* On every peg the discs lie at the bottom, no larger one on a smaller. *)
Stacked(sizes) ==
  \A i, j \in DOMAIN sizes : i < j /\ sizes[i] # 0 => sizes[i] < sizes[j]

(* No move breaks the rules of the game or takes from an empty peg, and the *)
(* last has brought the tower to the third peg, whatever stands behind the  *)
(* arrays.                                                                  *)
HanoiSolved ==
  /\ \A p \in DOMAIN my_pegs : Stacked(my_pegs[p])
  /\ hanoi = "undef" => my_pegs = <<>>
  /\ hanoi = "ends" => my_pegs[2] = Tower(3) /\ my_pegs[0] = Bare(3) /\ my_pegs[1] = Bare(3)

HanoiTypes ==
  /\ hanoi \in {"asks", "solves", "ends", "left", "undef"}
  /\ \A p \in DOMAIN my_pegs : my_pegs[p] \in [1..3 -> {0, 3, 5, 7}]

=============================================================================
