-------------------------------- MODULE Life ---------------------------------
(* life.c: the cells of a screen that is closed to a torus, each with its   *)
(* old and its new state; a step computes one cell, in the order of the     *)
(* loops, or makes the new states the old ones.                             *)
EXTENDS Integers, FiniteSets

CONSTANTS
  COLS, LINES, (* The size of the screen.                                  *)
  ShapeX,      (* The first column of the shape it starts with; 39.        *)
  ShapeY       (* The first row; 15.                                       *)

ASSUME ScreenAssumption ==
  COLS \in Nat \ {0} /\ LINES \in Nat \ {0} /\ ShapeX \in Nat /\ ShapeY \in Nat

VARIABLES
  oldstate, newstate, (* The sets of cells whose state is TRUE.            *)
  cell,               (* The cell computed next.                           *)
  life                (* "starts", "waits", "computes", "left" or "undef". *)

lifeVars == <<oldstate, newstate, cell, life>>

Area == (0..(COLS - 1)) \X (0..(LINES - 1))

Shape ==
  {<<ShapeX + d[1], ShapeY + d[2]>> :
     d \in {<<0, 0>>, <<1, 0>>, <<2, 0>>, <<0, 1>>, <<0, 2>>, <<2, 1>>, <<2, 2>>}}

LifeInit == oldstate = {} /\ newstate = {} /\ cell = <<0, 0>> /\ life = "starts"

(* The shape has its place whatever the size of the screen. *)
LifeStart ==
  /\ life = "starts"
  /\ IF Shape \subseteq Area
     THEN newstate' = Shape /\ oldstate' = Shape /\ life' = "waits"
     ELSE life' = "undef" /\ UNCHANGED <<newstate, oldstate>>
  /\ UNCHANGED cell

(* After any key but F1, or none for a while, a generation is computed. *)
LifeKey ==
  /\ life = "waits"
  /\ life' \in {"computes", "left"}
  /\ UNCHANGED <<oldstate, newstate, cell>>

(* The neighbours of a cell, by the indices of calc. *)
Around(i, j) ==
  <<<<(i - 1 + COLS) % COLS, j>>, <<(i - 1 + COLS) % COLS, (j - 1 + LINES) % LINES>>,
    <<(i - 1 + COLS) % COLS, (j + 1) % LINES>>, <<(i + 1) % COLS, j>>,
    <<(i + 1) % COLS, (j - 1 + LINES) % LINES>>, <<(i + 1) % COLS, (j + 1) % LINES>>,
    <<i, (j - 1 + LINES) % LINES>>, <<i, (j + 1) % LINES>>>>

(* Mutant of Counted: a cell sees the new states of those before it. *)
CountedNew(i, j) == Cardinality({m \in 1..8 : Around(i, j)[m] \in newstate})

Counted(i, j) == Cardinality({m \in 1..8 : Around(i, j)[m] \in oldstate})

Lives(i, j) == Counted(i, j) = 3 \/ (<<i, j>> \in oldstate /\ Counted(i, j) = 2)

calc ==
  /\ life = "computes" /\ cell \in Area
  /\ newstate' = IF Lives(cell[1], cell[2]) THEN newstate \cup {cell} ELSE newstate \ {cell}
  /\ cell' = IF cell[2] < LINES - 1 THEN <<cell[1], cell[2] + 1>> ELSE <<cell[1] + 1, 0>>
  /\ UNCHANGED <<oldstate, life>>

update_state ==
  /\ life = "computes" /\ cell \notin Area
  /\ oldstate' = newstate
  /\ cell' = <<0, 0>> /\ life' = "waits"
  /\ UNCHANGED newstate

LifeNext == LifeStart \/ LifeKey \/ calc \/ update_state

-----------------------------------------------------------------------------
(* The next generation by Conway's rules on a torus: the live cells among a *)
(* cell and the cells that touch it, itself included, are 3, or are 4 and   *)
(* it is one of them.                                                       *)
Near(p, q, size) == \E d \in {-1, 0, 1} : (p + d + size) % size = q
Block(c) == {b \in oldstate : Near(c[1], b[1], COLS) /\ Near(c[2], b[2], LINES)}
Conway == {c \in Area : Cardinality(Block(c)) = 3 \/ (c \in oldstate /\ Cardinality(Block(c)) = 4)}

(* A whole generation follows from the one before it, whatever the order in *)
(* which the cells are computed.                                            *)
LifeIsConway == life = "computes" /\ cell \notin Area => newstate = Conway

LifeTypes ==
  /\ life \in {"starts", "waits", "computes", "left", "undef"}
  /\ oldstate \subseteq Area /\ newstate \subseteq Area
  /\ life = "undef" => COLS < ShapeX + 3 \/ LINES < ShapeY + 3

=============================================================================
