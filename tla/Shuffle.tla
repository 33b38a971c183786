------------------------------- MODULE Shuffle -------------------------------
(* shuffle.c: the sliding puzzle.  The board is dealt at random, the arrow  *)
(* keys move a tile into the blank, and the game ends with F1 or when all   *)
(* tiles are in order.                                                      *)
EXTENDS Integers, FiniteSets

CONSTANTS
  Sides, (* The board orders of the command line.                          *)
  Deals  (* For each order, the values of temp_board that are looked at;   *)
         (* functions from 0..(side * side - 1).                           *)

ASSUME SidesAssumption == Sides \subseteq Int
ASSUME DealsAssumption ==
  \A m \in Sides : m >= 1 => Deals[m] \subseteq [0..(m * m - 1) -> 0..(m * m - 1)]

VARIABLES
  side,    (* The order, n in the code.                                    *)
  s_board, (* The tile on each square <<column, row>>.                     *)
  blank,   (* Where the program holds the blank to be.                     *)
  dealt,   (* The parity of the deal; not in the code.                     *)
  shuffle  (* "starts", "plays", "won", "left" or "undef".                 *)

shuffleVars == <<side, s_board, blank, dealt, shuffle>>

BLANK == 0

ShuffleInit ==
  /\ side = 0 /\ s_board = <<>> /\ blank = <<0, 0>> /\ dealt = 0
  /\ shuffle = "starts"

(* The loop of init_board compares each number drawn with those before it,  *)
(* and stores it in the course of the comparisons: the first, which has     *)
(* none before it, stays zero, so that the blank starts in the corner.      *)
Drawn(temp) ==
  temp[0] = 0 /\ \A i \in DOMAIN temp : \A j \in 0..(i - 1) : temp[i] # temp[j]

(* Whether the number of pairs of tiles out of order, with the blank's      *)
(* distance from the corner, is odd.                                        *)
Parity(b, e) ==
  LET before(p, q) == p[1] < q[1] \/ (p[1] = q[1] /\ p[2] < q[2])
      swapped == {pq \in (DOMAIN b) \X (DOMAIN b) : before(pq[1], pq[2]) /\ b[pq[1]] > b[pq[2]]}
  IN  (Cardinality(swapped) + e[1] + e[2]) % 2

(* Of an order below one there is no board, and the blank has no place. *)
init_board ==
  /\ shuffle = "starts"
  /\ side' \in Sides
  /\ \/ /\ side' < 1
        /\ UNCHANGED <<s_board, blank, dealt>>
     \/ \E temp \in IF side' < 1 THEN {} ELSE Deals[side'] :
          /\ Drawn(temp)
          /\ s_board' = [p \in (0..(side' - 1)) \X (0..(side' - 1)) |-> temp[p[1] * side' + p[2]]]
          /\ \E p \in DOMAIN s_board' : s_board'[p] = BLANK /\ blank' = p
          /\ dealt' = Parity(s_board', blank')
  /\ shuffle' = "plays"

(* What each key does to the blank: it moves against the arrow. *)
Arrows ==
  [KEY_LEFT |-> <<1, 0>>, KEY_RIGHT |-> <<-1, 0>>, KEY_UP |-> <<0, 1>>, KEY_DOWN |-> <<0, -1>>]

(* Mutant of Moved: the tile is not copied to where the blank was. *)
MovedAway(to) == [s_board EXCEPT ![to] = BLANK]

Moved(to) == [s_board EXCEPT ![blank] = s_board[to], ![to] = BLANK]

(* The blank as the last tile: is every tile where it belongs? *)
check_win(b, e) ==
  \A p \in DOMAIN b :
    (IF p = e THEN side * side ELSE b[p]) = p[2] * side + p[1] + 1

move_blank(key) ==
  /\ shuffle = "plays" /\ side >= 1
  /\ LET to == <<blank[1] + Arrows[key][1], blank[2] + Arrows[key][2]>>
     IN  IF to \in DOMAIN s_board
         THEN s_board' = Moved(to) /\ blank' = to
         ELSE UNCHANGED <<s_board, blank>>
  /\ shuffle' = IF check_win(s_board', blank') THEN "won" ELSE "plays"
  /\ UNCHANGED <<side, dealt>>

(* Without a board the test after the key writes to the blank's place. *)
NoBoard ==
  /\ shuffle = "plays" /\ side < 1
  /\ shuffle' = "undef"
  /\ UNCHANGED <<side, s_board, blank, dealt>>

ShuffleLeave ==
  /\ shuffle = "plays"
  /\ shuffle' = "left"
  /\ UNCHANGED <<side, s_board, blank, dealt>>

ShuffleNext ==
  \/ init_board \/ NoBoard \/ ShuffleLeave
  \/ \E key \in DOMAIN Arrows : move_blank(key)

-----------------------------------------------------------------------------
(* Every tile stays on the board, the blank is where the program holds it   *)
(* to be, and no sequence of keys leads from one half of the boards to the  *)
(* other: a deal of the wrong half is never won.                            *)
TilesInPlay ==
  shuffle \in {"plays", "won", "left"} /\ side >= 1 =>
    /\ {s_board[p] : p \in DOMAIN s_board} = 0..(side * side - 1)
    /\ s_board[blank] = BLANK
    /\ Parity(s_board, blank) = dealt

ShuffleTypes ==
  /\ shuffle \in {"starts", "plays", "won", "left", "undef"}
  /\ shuffle = "undef" => side < 1

=============================================================================
