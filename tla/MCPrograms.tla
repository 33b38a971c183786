----------------------------- MODULE MCPrograms ------------------------------
(* Boards of up to five queens, squares up to order seven, a torus of six   *)
(* by five cells, every deal of order two and two of order three, one of    *)
(* each half; and orders for which the programs are not made.               *)
EXTENDS Programs

MCNumbers == {-1, 0, 1, 2, 3, 4}
MCBoards == -1..5
MCOrders == -1..7
MCSides == {-1, 0, 1, 2, 3}

Dealt(s) == [i \in 0..8 |-> s[i + 1]]

MCDeals ==
  [m \in 1..3 |->
     IF m < 3 THEN [0..(m * m - 1) -> 0..(m * m - 1)]
     ELSE {Dealt(<<0, 1, 2, 3, 4, 5, 6, 7, 8>>), Dealt(<<0, 2, 1, 3, 4, 5, 6, 7, 8>>)}]

MCFirst == <<1, 0>>
MCStep == <<1, 1>>
MCTexts == <<3, 3, 2>>

=============================================================================
