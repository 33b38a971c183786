---------------------------- MODULE Programs_proof -----------------------------
(***************************************************************************)
(* Proofs about Programs, for every size of a screen, window or box, every *)
(* order of a board and every list of choices the assumptions allow.       *)
(*                                                                         *)
(* TilesStay: a move of shuffle.c exchanges the blank with a tile beside   *)
(* it, which changes the number of pairs of tiles out of order by an odd   *)
(* number (Exchange), and the blank's distance from its corner by one      *)
(* (Slide): the parity of their sum is that of the deal.                   *)
(*                                                                         *)
(* DemosShow: the invariants PanelInv, BoxInv, MenuInv and KeyMenuInv, one *)
(* for each of the modules; their variables are apart.                     *)
(*                                                                         *)
(* AnswersRight, by an invariant for each puzzle:                          *)
(*   LifeInv    the eight indices of calc are the cells that touch a cell, *)
(*              once each (EightAround), so that the two rules agree       *)
(*              (RulesAgree); the cells before the one computed are done;  *)
(*   QueensInv  what was shown are the solutions that come before the      *)
(*              board reached, in the order of the search (Listed), of     *)
(*              which no step passes over one (NothingSkipped);            *)
(*   MagicInv   each number is on its place (NumberAt): the places of a    *)
(*              line have every diagonal and every place along one once,   *)
(*              or are opposite in pairs, which gives the sums;            *)
(*   HanoiInv   each item left to do takes one placing of the discs to     *)
(*              the next, and the last to all discs on the third peg.      *)
(*                                                                         *)
(* TypeCorrect: the same invariants, with TutorInv.                        *)
(***************************************************************************)
EXTENDS Programs, FiniteSetTheorems, SequenceTheorems, TLAPS

-----------------------------------------------------------------------------
(* The boards of shuffle.c.  A pair of tiles is out of order when the       *)
(* greater one comes before the other, column by column.                    *)

Before(p, q) == p[1] < q[1] \/ (p[1] = q[1] /\ p[2] < q[2])
Swapped(b) == {pq \in (DOMAIN b) \X (DOMAIN b) : Before(pq[1], pq[2]) /\ b[pq[1]] > b[pq[2]]}

Square(s) == (0..(s - 1)) \X (0..(s - 1))

(* Column by column is a strict order of the squares. *)
LEMMA BeforeOrder ==
  ASSUME NEW s \in Nat
  PROVE  /\ \A p, q \in Square(s) : p = q \/ Before(p, q) \/ Before(q, p)
         /\ \A p, q \in Square(s) : Before(p, q) => ~Before(q, p) /\ p # q
         /\ \A p, q, r \in Square(s) : Before(p, q) /\ Before(q, r) => Before(p, r)
<1>1. \A p \in Square(s) : p[1] \in 0..(s - 1) /\ p[2] \in 0..(s - 1) /\ p = <<p[1], p[2]>>
  BY DEF Square
<1>2. ASSUME NEW p \in Square(s), NEW q \in Square(s)
      PROVE  p = q \/ Before(p, q) \/ Before(q, p)
  BY <1>1 DEF Before
<1>3. ASSUME NEW p \in Square(s), NEW q \in Square(s), Before(p, q)
      PROVE  ~Before(q, p) /\ p # q
  BY <1>1, <1>3 DEF Before
<1>4. ASSUME NEW p \in Square(s), NEW q \in Square(s), NEW r \in Square(s),
             Before(p, q), Before(q, r)
      PROVE  Before(p, r)
  BY <1>1, <1>4 DEF Before
<1>. QED
  BY <1>2, <1>3, <1>4

(* No two squares have the same tile. *)
Distinct(b) == \A p, q \in DOMAIN b : b[p] = b[q] => p = q

Tilings(s) == {b \in [Square(s) -> Nat] : Distinct(b)}

(* There are finitely many pairs to count. *)
LEMMA SwappedFinite ==
  ASSUME NEW s \in Nat, NEW b \in [Square(s) -> Nat]
  PROVE  /\ IsFiniteSet(Square(s))
         /\ IsFiniteSet(Swapped(b)) /\ Cardinality(Swapped(b)) \in Nat
<1>1. IsFiniteSet(0..(s - 1))
  <2>1. 0 \in Int /\ s - 1 \in Int
    OBVIOUS
  <2>. QED
    BY <2>1, FS_Interval
<1>2. IsFiniteSet(Square(s))
  BY <1>1, FS_Product DEF Square
<1>3. IsFiniteSet(Square(s) \X Square(s))
  BY <1>2, FS_Product
<1>4. Swapped(b) \in SUBSET (Square(s) \X Square(s))
  BY DEF Swapped
<1>5. IsFiniteSet(Swapped(b))
  BY <1>3, <1>4, FS_Subset
<1>. QED
  BY <1>2, <1>5, FS_CardinalityType


(* A function that is one to one and onto makes two sets equally large. *)
LEMMA OneToOne ==
  ASSUME NEW S, NEW T, NEW g \in [S -> T],
         \A y, z \in S : g[y] = g[z] => y = z, \A y \in T : \E z \in S : g[z] = y
  PROVE  ExistsBijection(S, T)
<1>1. g \in Bijection(S, T)
  BY DEF Bijection, Injection, Surjection, IsInjective
<1>. QED
  BY <1>1 DEF ExistsBijection

(* The tile of t moves to the blank's square e. *)
Slid(b, t, e) == [b EXCEPT ![e] = b[t], ![t] = 0]

(* Two squares exchange their tiles, of which the one on the later square   *)
(* is the blank: the number of pairs out of order changes by an odd number. *)
LEMMA Exchange ==
  ASSUME NEW s \in Nat, NEW b \in Tilings(s), NEW t \in Square(s), NEW e \in Square(s),
         Before(t, e), b[e] = 0,
         NEW c, c = Slid(b, t, e)
  PROVE  \E x \in Nat : Cardinality(Swapped(b)) = Cardinality(Swapped(c)) + 2 * x + 1
<1> DEFINE S == Square(s)
           A == Swapped(b)
           B == Swapped(c)
           Middle == {r \in S : Before(t, r) /\ Before(r, e)}
           X == {r \in Middle : b[r] < b[t]}
           Low == {<<t, r>> : r \in X}
           High == {<<r, e>> : r \in X}
           Rest == A \ ({<<t, e>>} \cup Low \cup High)
           other(p) == IF p = e THEN t ELSE IF p = t THEN e ELSE p
           image(p, q) == IF q = e /\ p \in Middle THEN <<p, q>> ELSE <<other(p), other(q)>>
<1>1. /\ \A p, q \in S : p = q \/ Before(p, q) \/ Before(q, p)
      /\ \A p, q \in S : Before(p, q) => ~Before(q, p) /\ p # q
      /\ \A p, q, r \in S : Before(p, q) /\ Before(q, r) => Before(p, r)
  BY BeforeOrder
<1>2. /\ \A p \in S : b[p] \in Nat /\ (p # e => b[p] > 0)
      /\ \A p, q \in S : b[p] = b[q] => p = q
  BY DEF Tilings, Distinct
<1>3. /\ c \in [S -> Nat] /\ t # e /\ t \in S /\ e \in S /\ b[e] = 0 /\ Before(t, e)
      /\ c[e] = b[t] /\ c[t] = 0 /\ \A p \in S : p # e /\ p # t => c[p] = b[p]
  BY <1>1, <1>2 DEF Tilings, Slid
<1>4. /\ \A p, q : <<p, q>> \in A <=> p \in S /\ q \in S /\ Before(p, q) /\ b[p] > b[q]
      /\ \A z \in A : z = <<z[1], z[2]>>
  <2>1. DOMAIN b = S
    BY DEF Tilings
  <2> HIDE DEF S
  <2>. QED
    BY <2>1 DEF Swapped
<1>5. /\ \A p, q : <<p, q>> \in B <=> p \in S /\ q \in S /\ Before(p, q) /\ c[p] > c[q]
      /\ \A z \in B : z = <<z[1], z[2]>>
  <2>1. DOMAIN c = S
    BY <1>3
  <2> HIDE DEF S
  <2>. QED
    BY <2>1 DEF Swapped
<1>6. Tilings(s) \subseteq [S -> Nat]
  BY DEF Tilings
<1>7. /\ IsFiniteSet(S) /\ IsFiniteSet(A) /\ IsFiniteSet(B)
      /\ Cardinality(A) \in Nat /\ Cardinality(B) \in Nat
  BY <1>3, <1>6, SwappedFinite
<1> HIDE DEF S, A, B
<1>8. ASSUME NEW p, NEW q, <<p, q>> \in B
      PROVE  image(p, q) \in Rest
  <2>1. p \in S /\ q \in S /\ Before(p, q) /\ c[p] > c[q] /\ p # q
    BY <1>1, <1>5, <1>8
  <2>2. CASE p = e
    <3>1. q # t /\ q # e /\ c[q] = b[q] /\ b[t] > b[q] /\ Before(t, q) /\ q \notin Middle
      BY <1>1, <1>3, <2>1, <2>2
    <3>2. image(p, q) = <<t, q>> /\ <<t, q>> \in A
      BY <1>3, <1>4, <2>1, <2>2, <3>1
    <3>. QED
      BY <1>3, <3>1, <3>2
  <2>3. CASE p = t
    BY <1>2, <1>3, <2>1, <2>3
  <2>4. CASE p # e /\ p # t /\ q = e /\ p \in Middle
    <3>1. b[p] > b[t] /\ image(p, q) = <<p, e>> /\ <<p, e>> \in A
      BY <1>2, <1>3, <1>4, <2>1, <2>4
    <3>2. p \notin X
      BY <1>2, <1>3, <2>1, <3>1
    <3>. QED
      BY <1>3, <2>4, <3>1, <3>2
  <2>5. CASE p # e /\ p # t /\ q = e /\ p \notin Middle
    <3>1. Before(p, t) /\ b[p] > b[t]
      BY <1>1, <1>2, <1>3, <2>1, <2>5
    <3>2. image(p, q) = <<p, t>> /\ <<p, t>> \in A
      BY <1>3, <1>4, <2>1, <2>5, <3>1
    <3>. QED
      BY <1>3, <2>5, <3>2
  <2>6. CASE p # e /\ p # t /\ q = t
    <3>1. Before(p, e) /\ b[p] > b[e] /\ p \notin Middle
      BY <1>1, <1>2, <1>3, <2>1, <2>6
    <3>2. image(p, q) = <<p, e>> /\ <<p, e>> \in A
      BY <1>3, <1>4, <2>1, <2>6, <3>1
    <3>. QED
      BY <1>3, <2>6, <3>1, <3>2
  <2>7. CASE p # e /\ p # t /\ q # e /\ q # t
    <3>1. image(p, q) = <<p, q>> /\ <<p, q>> \in A
      BY <1>3, <1>4, <2>1, <2>7
    <3>. QED
      BY <2>7, <3>1
  <2>. QED
    BY <2>2, <2>3, <2>4, <2>5, <2>6, <2>7
<1>9. ASSUME NEW p, NEW q, NEW u, NEW v, <<p, q>> \in B, <<u, v>> \in B,
             image(p, q) = image(u, v)
      PROVE  p = u /\ q = v
  <2>1. /\ p \in S /\ q \in S /\ Before(p, q) /\ c[p] > c[q] /\ p # q
        /\ u \in S /\ v \in S /\ Before(u, v) /\ c[u] > c[v] /\ u # v
    BY <1>1, <1>5, <1>9
  <2>2. /\ q = t => p # e /\ p # t /\ p \notin Middle
        /\ v = t => u # e /\ u # t /\ u \notin Middle
    BY <1>1, <1>3, <2>1
  <2>3. p # t /\ u # t
    BY <1>2, <1>3, <2>1
  <2>. QED
    BY <1>3, <1>9, <2>1, <2>2, <2>3
<1>10. ASSUME NEW p, NEW q, <<p, q>> \in Rest
       PROVE  \E u, v : <<u, v>> \in B /\ image(u, v) = <<p, q>>
  <2>1. p \in S /\ q \in S /\ Before(p, q) /\ b[p] > b[q] /\ p # q /\ p # e
    BY <1>1, <1>2, <1>3, <1>4, <1>10
  <2>2. CASE p = t
    <3>1. q # e /\ q \notin Middle
      BY <1>10, <2>1, <2>2
    <3>2. Before(e, q) /\ q # t /\ c[q] = b[q]
      BY <1>1, <1>3, <2>1, <2>2, <3>1
    <3>3. <<e, q>> \in B /\ image(e, q) = <<p, q>>
      BY <1>3, <1>5, <2>1, <2>2, <3>1, <3>2
    <3>. QED
      BY <3>3
  <2>3. CASE p # t /\ q = t
    <3>1. Before(p, e) /\ p \notin Middle /\ c[p] = b[p] /\ b[p] > b[t]
      BY <1>1, <1>3, <2>1, <2>3
    <3>2. <<p, e>> \in B /\ image(p, e) = <<p, q>>
      BY <1>3, <1>5, <2>1, <2>3, <3>1
    <3>. QED
      BY <3>2
  <2>4. CASE p # t /\ q = e /\ p \in Middle
    <3>1. ~(b[p] < b[t])
      BY <1>10, <2>4
    <3>2. b[p] > b[t] /\ c[p] = b[p]
      BY <1>2, <1>3, <2>1, <2>4, <3>1
    <3>3. <<p, e>> \in B /\ image(p, e) = <<p, q>>
      BY <1>3, <1>5, <2>1, <2>4, <3>2
    <3>. QED
      BY <3>3
  <2>5. CASE p # t /\ q = e /\ p \notin Middle
    <3>1. Before(p, t) /\ c[p] = b[p] /\ b[p] > 0
      BY <1>1, <1>2, <1>3, <2>1, <2>5
    <3>2. <<p, t>> \in B /\ image(p, t) = <<p, q>>
      BY <1>3, <1>5, <2>1, <2>5, <3>1
    <3>. QED
      BY <3>2
  <2>6. CASE p # t /\ q # t /\ q # e
    <3>1. <<p, q>> \in B /\ image(p, q) = <<p, q>>
      BY <1>3, <1>5, <2>1, <2>6
    <3>. QED
      BY <3>1
  <2>. QED
    BY <2>2, <2>3, <2>4, <2>5, <2>6
<1>11. IsFiniteSet(Rest) /\ Cardinality(Rest) = Cardinality(B)
  <2> DEFINE g == [z \in B |-> image(z[1], z[2])]
  <2>1. \A z \in B : g[z] \in Rest
    <3>1. TAKE z \in B
    <3>2. z = <<z[1], z[2]>> /\ g[z] = image(z[1], z[2])
      BY <1>5
    <3> HIDE DEF image, Rest
    <3>. QED
      BY <1>8, <3>2
  <2>2. \A z \in B : \E p, q : z = <<p, q>> /\ g[z] = image(p, q)
    <3>1. TAKE z \in B
    <3>2. z = <<z[1], z[2]>> /\ g[z] = image(z[1], z[2])
      BY <1>5
    <3> HIDE DEF g, image
    <3>. QED
      BY <3>2
  <2>3. \A y, z \in B : g[y] = g[z] => y = z
    <3>1. TAKE y \in B, z \in B
    <3>2. PICK p, q : y = <<p, q>> /\ g[y] = image(p, q)
      BY <2>2
    <3>3. PICK u, v : z = <<u, v>> /\ g[z] = image(u, v)
      BY <2>2
    <3>4. image(p, q) = image(u, v) => p = u /\ q = v
      BY <1>9, <3>2, <3>3
    <3> HIDE DEF image, g
    <3>. QED
      BY <3>2, <3>3, <3>4
  <2>4. \A y \in Rest : \E z \in B : g[z] = y
    <3>1. TAKE y \in Rest
    <3>2. PICK p, q : y = <<p, q>>
      BY <1>4
    <3> HIDE DEF Rest, image
    <3>3. PICK u, v : <<u, v>> \in B /\ image(u, v) = y
      BY <1>10, <3>2
    <3> USE DEF image
    <3>4. g[<<u, v>>] = image(u, v)
      BY <3>3
    <3> HIDE DEF image, g
    <3>. QED
      BY <3>3, <3>4
  <2>5. g \in [B -> Rest]
    <3> HIDE DEF Rest
    <3>. QED
      BY <2>1
  <2> HIDE DEF g, Rest
  <2>6. ExistsBijection(B, Rest)
    BY <2>3, <2>4, <2>5, OneToOne
  <2>. QED
    BY <1>7, <2>6, FS_Bijection
<1>12. IsFiniteSet(X) /\ Cardinality(X) \in Nat
  <2>1. X \in SUBSET S
    OBVIOUS
  <2> HIDE DEF X
  <2>. QED
    BY <1>7, <2>1, FS_Subset, FS_CardinalityType
<1>13. /\ IsFiniteSet(Low) /\ Cardinality(Low) = Cardinality(X)
       /\ IsFiniteSet(High) /\ Cardinality(High) = Cardinality(X)
  <2> DEFINE g == [r \in X |-> <<t, r>>]
             h == [r \in X |-> <<r, e>>]
  <2> HIDE DEF X
  <2>1. /\ g \in [X -> Low] /\ h \in [X -> High]
        /\ \A r, u \in X : (g[r] = g[u] => r = u) /\ (h[r] = h[u] => r = u)
        /\ \A y \in Low : \E r \in X : g[r] = y
        /\ \A y \in High : \E r \in X : h[r] = y
    OBVIOUS
  <2> HIDE DEF g, h, Low, High
  <2>2. ExistsBijection(X, Low) /\ ExistsBijection(X, High)
    BY <2>1, OneToOne
  <2>. QED
    BY <1>12, <2>2, FS_Bijection
<1> DEFINE Pair == {<<t, e>>}
<1>14. /\ Pair \cap Low = {} /\ (Pair \cup Low) \cap High = {}
       /\ (Pair \cup Low \cup High) \cap Rest = {}
       /\ A = (Pair \cup Low \cup High) \cup Rest
  <2>1. \A r \in X : r \in S /\ Before(t, r) /\ Before(r, e) /\ r # e /\ r # t /\ b[r] < b[t] /\ b[r] > b[e]
    BY <1>1, <1>2, <1>3
  <2>2. <<t, e>> \in A
    BY <1>2, <1>3, <1>4
  <2>3. \A r \in X : <<t, r>> \in A /\ <<r, e>> \in A
    BY <1>2, <1>3, <1>4, <2>1
  <2> HIDE DEF X
  <2>4. Pair \cap Low = {} /\ (Pair \cup Low) \cap High = {}
    BY <2>1
  <2>5. Pair \cup Low \cup High \subseteq A
    BY <2>2, <2>3
  <2> HIDE DEF Pair, Low, High
  <2>6. Rest = A \ (Pair \cup Low \cup High)
    BY DEF Pair
  <2> HIDE DEF Rest
  <2>. QED
    BY <2>4, <2>5, <2>6
<1>15. IsFiniteSet(Pair) /\ Cardinality(Pair) = 1
  BY FS_Singleton
<1> HIDE DEF Pair, Low, High, Rest, X
<1> DEFINE P == Pair \cup Low
           Q == P \cup High
<1>16. IsFiniteSet(P) /\ Cardinality(P) = 1 + Cardinality(X)
  <2>1. Cardinality(P) = Cardinality(Pair) + Cardinality(Low) - Cardinality(Pair \cap Low)
    BY <1>13, <1>15, FS_Union
  <2>2. IsFiniteSet(P)
    BY <1>13, <1>15, FS_Union
  <2>3. Cardinality(Pair \cap Low) = 0
    BY <1>14, FS_EmptySet
  <2>. QED
    BY <1>12, <1>13, <1>15, <2>1, <2>2, <2>3
<1>17. IsFiniteSet(Q) /\ Cardinality(Q) = 1 + 2 * Cardinality(X)
  <2> HIDE DEF P
  <2>1. Cardinality(Q) = Cardinality(P) + Cardinality(High) - Cardinality(P \cap High)
    BY <1>13, <1>16, FS_Union
  <2>2. IsFiniteSet(Q)
    BY <1>13, <1>16, FS_Union
  <2>3. Cardinality(P \cap High) = 0
    BY <1>14, FS_EmptySet DEF P
  <2>. QED
    BY <1>12, <1>13, <1>16, <2>1, <2>2, <2>3
<1>18. Cardinality(A) = Cardinality(Q) + Cardinality(Rest) - Cardinality(Q \cap Rest)
  <2>1. A = Q \cup Rest
    BY <1>14
  <2> HIDE DEF Q
  <2>. QED
    BY <1>11, <1>17, <2>1, FS_Union
<1>19. Cardinality(Q \cap Rest) = 0
  BY <1>14, FS_EmptySet
<1> HIDE DEF Q
<1>20. Cardinality(A) = Cardinality(B) + 2 * Cardinality(X) + 1
  BY <1>7, <1>11, <1>12, <1>17, <1>18, <1>19
<1>. QED
  BY <1>12, <1>20 DEF A, B


(* The squares are numbered row by row. *)
LEMMA Quotient ==
  ASSUME NEW s \in Nat \ {0}, NEW i \in Nat
  PROVE  i \div s \in Nat /\ i % s \in 0..s - 1 /\ i = (i \div s) * s + (i % s)
OBVIOUS

(* The squares of a board are counted off by n * i + j. *)
LEMMA Squares ==
  ASSUME NEW s \in Nat \ {0}
  PROVE  /\ \A p \in Square(s) : p[1] * s + p[2] \in 0..(s * s - 1)
         /\ \A p, q \in Square(s) : p[1] * s + p[2] = q[1] * s + q[2] => p = q
         /\ \A i \in 0..(s * s - 1) : \E p \in Square(s) : p[1] * s + p[2] = i
<1>1. \A p \in Square(s) : p[1] \in 0..(s - 1) /\ p[2] \in 0..(s - 1) /\ p = <<p[1], p[2]>>
  BY DEF Square
<1>2. ASSUME NEW i \in Nat, NEW j \in Nat, NEW u \in 0..s - 1, NEW v \in 0..s - 1, i < j
      PROVE  i * s + u < j * s + v
  <2> DEFINE is == i * s
             js == j * s
  <2>1. (i + 1) * s <= js /\ (i + 1) * s = is + s /\ is \in Nat /\ js \in Nat
    BY <1>2
  <2> HIDE DEF is, js
  <2>2. is + u < js + v
    BY <2>1
  <2>. QED
    BY <2>2 DEF is, js
<1>3. ASSUME NEW p \in Square(s)
      PROVE  p[1] * s + p[2] \in 0..(s * s - 1)
  <2> DEFINE i == p[1]
             j == p[2]
  <2>1. i \in Nat /\ j \in 0..s - 1 /\ s \in Nat /\ 0 \in 0..s - 1 /\ i < s
    BY <1>1
  <2> HIDE DEF i, j
  <2>2. i * s + j < s * s + 0 /\ i * s \in Nat /\ s * s \in Nat
    BY <1>2, <2>1
  <2> DEFINE is == i * s
             ss == s * s
  <2>3. is + j < ss + 0 /\ is \in Nat /\ ss \in Nat
    BY <2>2
  <2> HIDE DEF is, ss
  <2>4. is + j \in 0..(ss - 1)
    BY <2>1, <2>3
  <2>. QED
    BY <2>4 DEF is, ss, i, j
<1>4. ASSUME NEW p \in Square(s), NEW q \in Square(s), p[1] * s + p[2] = q[1] * s + q[2]
      PROVE  p = q
  <2> DEFINE i == p[1]
             j == q[1]
             u == p[2]
             v == q[2]
  <2>1. /\ i \in Nat /\ j \in Nat /\ u \in 0..s - 1 /\ v \in 0..s - 1
        /\ i * s + u = j * s + v
    BY <1>1, <1>4
  <2> HIDE DEF i, j, u, v
  <2>2. i * s \in Nat /\ j * s \in Nat
    BY <2>1
  <2>3. ~(i < j)
    BY <1>2, <2>1, <2>2
  <2>4. ~(j < i)
    BY <1>2, <2>1, <2>2
  <2>5. i = j
    BY <2>1, <2>3, <2>4
  <2> DEFINE is == i * s
  <2>6. is + u = is + v /\ is \in Nat
    BY <2>1, <2>2, <2>5
  <2> HIDE DEF is
  <2>7. u = v
    BY <2>1, <2>6
  <2>. QED
    BY <1>1, <2>5, <2>7 DEF i, j, u, v
<1>5. ASSUME NEW i \in 0..(s * s - 1)
      PROVE  \E p \in Square(s) : p[1] * s + p[2] = i
  <2> DEFINE q == i \div s
             r == i % s
  <2>1. i \in Nat /\ i < s * s
    <3>1. s * s \in Nat
      OBVIOUS
    <3>. QED
      BY <3>1
  <2>2. q \in Nat /\ r \in 0..s - 1 /\ i = q * s + r
    BY <2>1, Quotient
  <2> HIDE DEF q, r
  <2>3. ~(s < q)
    <3>1. s < q => s * s + 0 < q * s + r
      BY <1>2, <2>2
    <3>. QED
      BY <2>1, <2>2, <3>1
  <2>4. q # s
    <3> DEFINE ss == s * s
    <3>1. ss \in Nat /\ i < ss /\ (q = s => i = ss + r)
      BY <2>1, <2>2
    <3> HIDE DEF ss
    <3>. QED
      BY <2>1, <2>2, <3>1
  <2>5. <<q, r>> \in Square(s)
    BY <2>2, <2>3, <2>4 DEF Square
  <2>6. <<q, r>>[1] * s + <<q, r>>[2] = i
    BY <2>2
  <2>. QED
    BY <2>5, <2>6
<1>. QED
  BY <1>3, <1>4, <1>5

AllDiffer(f) == \A i \in DOMAIN f : \A j \in 0..(i - 1) : f[i] # f[j]
Dealt(s, f) == [p \in Square(s) |-> f[p[1] * s + p[2]]]
Tiles(b) == {b[p] : p \in DOMAIN b}
Beside(t, e) ==
  /\ t # e
  /\ \/ t[1] = e[1] /\ t[2] - e[2] \in {-1, 1}
     \/ t[2] = e[2] /\ t[1] - e[1] \in {-1, 1}

(* A deal whose tiles all differ has every tile. *)
LEMMA Deal ==
  ASSUME NEW s \in Nat \ {0}, NEW f \in [0..(s * s - 1) -> 0..(s * s - 1)],
         AllDiffer(f), NEW b, b = Dealt(s, f)
  PROVE  b \in Tilings(s) /\ Tiles(b) = 0..(s * s - 1)
<1> DEFINE I == 0..(s * s - 1)
           Im == {f[i] : i \in I}
           spot(p) == p[1] * s + p[2]
<1>1. s * s - 1 \in Int
  <2>1. s * s \in Int
    OBVIOUS
  <2>. QED
    BY <2>1
<1>2. /\ \A p \in Square(s) : spot(p) \in I
      /\ \A p, q \in Square(s) : spot(p) = spot(q) => p = q
      /\ \A i \in I : \E p \in Square(s) : spot(p) = i
  BY Squares
<1>3. f \in [I -> I] /\ I \subseteq Nat
  BY <1>1
<1>4. \A i, j \in I : f[i] = f[j] => i = j
  <2> SUFFICES ASSUME NEW i \in I, NEW j \in I, i < j
               PROVE  f[i] # f[j]
    BY <1>3
  <2>1. i \in 0..(j - 1) /\ j \in DOMAIN f
    BY <1>1, <1>3
  <2>. QED
    BY <2>1 DEF AllDiffer
<1>5. IsFiniteSet(I)
  BY <1>1, FS_Interval
<1> HIDE DEF I, spot
<1>6. Im = I
  <2>1. Im \in SUBSET I
    BY <1>3
  <2>2. /\ f \in [I -> Im]
        /\ \A i, j \in I : f[i] = f[j] => i = j
        /\ \A x \in Im : \E i \in I : f[i] = x
    BY <1>3, <1>4
  <2> HIDE DEF Im
  <2>3. \A g \in [I -> Im] :
          (\A i, j \in I : g[i] = g[j] => i = j) /\ (\A x \in Im : \E i \in I : g[i] = x)
          => ExistsBijection(I, Im)
    BY OneToOne
  <2>4. Cardinality(I) = Cardinality(Im)
    BY <1>5, <2>2, <2>3, FS_Bijection
  <2>. QED
    BY <1>5, <2>1, <2>4, FS_Subset
<1>7. b = [p \in Square(s) |-> f[spot(p)]]
  BY DEF spot, Dealt
<1>8. b \in [Square(s) -> Nat] /\ DOMAIN b = Square(s)
  BY <1>2, <1>3, <1>7
<1>9. Distinct(b)
  BY <1>2, <1>4, <1>7, <1>8 DEF Distinct
<1>10. {b[p] : p \in Square(s)} = Im
  BY <1>2, <1>7
<1>. QED
  BY <1>6, <1>8, <1>9, <1>10 DEF Tilings, Tiles, I

LEMMA ParityOf ==
  ASSUME NEW b, NEW e
  PROVE  Parity(b, e) = (Cardinality(Swapped(b)) + e[1] + e[2]) % 2
BY DEF Parity, Swapped, Before

LEMMA EvenMore ==
  ASSUME NEW i \in Int, NEW x \in Int
  PROVE  (i + 2 * x) % 2 = i % 2
OBVIOUS

(* The tile beside the blank moves into it. *)
LEMMA Slide ==
  ASSUME NEW s \in Nat \ {0}, NEW b \in Tilings(s), NEW e \in Square(s), NEW t \in Square(s),
         b[e] = 0, Beside(t, e), NEW c, c = Slid(b, t, e)
  PROVE  /\ c \in Tilings(s) /\ c[t] = 0
         /\ Tiles(c) = Tiles(b)
         /\ Parity(c, t) = Parity(b, e)
<1>1. /\ b \in [Square(s) -> Nat] /\ DOMAIN b = Square(s)
      /\ \A p, q \in Square(s) : b[p] = b[q] => p = q
  BY DEF Tilings, Distinct
<1>2. /\ c \in [Square(s) -> Nat] /\ DOMAIN c = Square(s)
      /\ c[t] = 0 /\ c[e] = b[t]
      /\ \A p \in Square(s) : p # e /\ p # t => c[p] = b[p]
  BY <1>1 DEF Slid, Beside
<1>3. c \in Tilings(s)
  <2>1. \A p, q \in Square(s) : c[p] = c[q] => p = q
    BY <1>1, <1>2
  <2>. QED
    BY <1>2, <2>1 DEF Tilings, Distinct
<1>4. {c[p] : p \in Square(s)} = {b[p] : p \in Square(s)}
  BY <1>1, <1>2
<1> DEFINE B == Cardinality(Swapped(b))
           C == Cardinality(Swapped(c))
<1>5. B \in Nat /\ C \in Nat
  BY <1>1, <1>2, SwappedFinite
<1>6. \E x \in Nat : B = C + 2 * x + 1 \/ C = B + 2 * x + 1
  <2> s \in Nat
    OBVIOUS
  <2>1. CASE Before(t, e)
    <3>1. \E x \in Nat : B = C + 2 * x + 1
      BY <2>1, Exchange
    <3>. QED
      BY <3>1
  <2>2. CASE Before(e, t)
    <3>1. b = Slid(c, e, t)
      BY <1>1, <1>2 DEF Slid, Beside
    <3>2. \E x \in Nat : C = B + 2 * x + 1
      BY <1>2, <1>3, <2>2, <3>1, Exchange
    <3>. QED
      BY <3>2
  <2>. QED
    BY <2>1, <2>2, BeforeOrder DEF Beside
<1>7. /\ e[1] \in Nat /\ e[2] \in Nat /\ t[1] \in Nat /\ t[2] \in Nat
      /\ t[1] + t[2] = e[1] + e[2] + 1 \/ e[1] + e[2] = t[1] + t[2] + 1
  <2>1. e[1] \in Nat /\ e[2] \in Nat /\ t[1] \in Nat /\ t[2] \in Nat
    BY DEF Square
  <2>. QED
    BY <2>1 DEF Beside
<1>8. (C + t[1] + t[2]) % 2 = (B + e[1] + e[2]) % 2
  <2> DEFINE k1 == e[1] + e[2]
             k2 == t[1] + t[2]
  <2>1. k1 \in Nat /\ k2 \in Nat /\ (k2 = k1 + 1 \/ k1 = k2 + 1)
    BY <1>7
  <2>2. C + t[1] + t[2] = C + k2 /\ B + e[1] + e[2] = B + k1
    BY <1>5, <1>7
  <2> HIDE DEF B, C, k1, k2
  <2>3. PICK x \in Int : C + k2 = (B + k1) + 2 * x
    <3>1. PICK y \in Nat : B = C + 2 * y + 1 \/ C = B + 2 * y + 1
      BY <1>6
    <3>2. C + k2 = (B + k1) + 2 * y \/ C + k2 = (B + k1) + 2 * (y + 1)
          \/ C + k2 = (B + k1) + 2 * (-y) \/ C + k2 = (B + k1) + 2 * (-y - 1)
      BY <1>5, <2>1, <3>1
    <3>3. \E x \in {y, y + 1, -y, -y - 1} : C + k2 = (B + k1) + 2 * x
      BY <3>2
    <3>. QED
      BY <3>3
  <2>4. (C + k2) % 2 = (B + k1) % 2
    BY <1>5, <2>1, <2>3, EvenMore
  <2>. QED
    BY <2>2, <2>4
<1>. QED
  BY <1>1, <1>2, <1>3, <1>4, <1>8, ParityOf DEF Tiles

-----------------------------------------------------------------------------
ShuffleInv ==
  /\ side \in Int
  /\ shuffle \in {"plays", "won", "left"} /\ side >= 1 =>
       s_board \in Tilings(side) /\ blank \in Square(side)
  /\ TilesInPlay

(* A board that was just dealt is on the half it was dealt on. *)
LEMMA ShuffleDeals ==
  ASSUME ShuffleInv, init_board
  PROVE  ShuffleInv'
<1>1. side' \in Int /\ side' \in Sides
  BY SidesAssumption DEF init_board
<1>2. CASE side' < 1
  BY <1>1, <1>2 DEF ShuffleInv, TilesInPlay
<1>3. CASE ~(side' < 1)
  <2>1. PICK temp \in Deals[side'] :
          /\ Drawn(temp)
          /\ s_board' = Dealt(side', temp)
          /\ \E p \in DOMAIN s_board' : s_board'[p] = BLANK /\ blank' = p
          /\ dealt' = Parity(s_board', blank')
    BY <1>3 DEF init_board, Dealt, Square
  <2>2. side' \in Nat \ {0} /\ temp \in [0..(side' * side' - 1) -> 0..(side' * side' - 1)]
    BY <1>1, <1>3, <2>1, DealsAssumption
  <2>3. AllDiffer(temp)
    BY <2>1 DEF Drawn, AllDiffer
  <2>4. s_board' \in Tilings(side') /\ Tiles(s_board') = 0..(side' * side' - 1)
    BY <2>1, <2>2, <2>3, Deal
  <2>5. blank' \in Square(side') /\ s_board'[blank'] = BLANK
    BY <2>1 DEF Dealt
  <2>. QED
    BY <1>1, <2>1, <2>4, <2>5 DEF ShuffleInv, TilesInPlay, Tiles
<1>. QED
  BY <1>1, <1>2, <1>3

(* An arrow key keeps tiles, blank and half. *)
LEMMA ShuffleMoves ==
  ASSUME ShuffleInv, NEW key \in DOMAIN Arrows, move_blank(key)
  PROVE  ShuffleInv'
<1>1. /\ side \in Nat \ {0} /\ side' = side /\ dealt' = dealt
      /\ s_board \in Tilings(side) /\ blank \in Square(side) /\ s_board[blank] = 0
      /\ Tiles(s_board) = 0..(side * side - 1)
      /\ Parity(s_board, blank) = dealt
  BY DEF ShuffleInv, TilesInPlay, Tiles, move_blank, BLANK
<1> DEFINE to == <<blank[1] + Arrows[key][1], blank[2] + Arrows[key][2]>>
<1>2. CASE to \in DOMAIN s_board
  <2>1. s_board' = Slid(s_board, to, blank) /\ blank' = to
    BY <1>2 DEF move_blank, Moved, Slid, BLANK
  <2>2. to \in Square(side)
    BY <1>1, <1>2 DEF Tilings
  <2>3. Beside(to, blank)
    <3>1. blank[1] \in Int /\ blank[2] \in Int
      BY <1>1 DEF Square
    <3>2. \/ to = <<blank[1] + 1, blank[2] + 0>> \/ to = <<blank[1] + (-1), blank[2] + 0>>
          \/ to = <<blank[1] + 0, blank[2] + 1>> \/ to = <<blank[1] + 0, blank[2] + (-1)>>
      BY DEF Arrows
    <3>. QED
      BY <3>1, <3>2 DEF Beside
  <2> HIDE DEF to
  <2>4. /\ s_board' \in Tilings(side) /\ s_board'[to] = 0
        /\ Tiles(s_board') = Tiles(s_board)
        /\ Parity(s_board', to) = Parity(s_board, blank)
    BY <1>1, <2>1, <2>2, <2>3, Slide
  <2>. QED
    BY <1>1, <2>1, <2>2, <2>4 DEF ShuffleInv, TilesInPlay, Tiles, BLANK
<1>3. CASE to \notin DOMAIN s_board
  <2>1. s_board' = s_board /\ blank' = blank
    BY <1>3 DEF move_blank
  <2>. QED
    BY <1>1, <2>1 DEF ShuffleInv, TilesInPlay, Tiles, BLANK
<1>. QED
  BY <1>2, <1>3

LEMMA ShuffleSteps ==
  ASSUME ShuffleInv, ShuffleNext \/ UNCHANGED shuffleVars
  PROVE  ShuffleInv'
<1>1. CASE init_board
  BY <1>1, ShuffleDeals
<1>2. CASE NoBoard
  BY <1>2 DEF ShuffleInv, TilesInPlay, NoBoard
<1>3. CASE ShuffleLeave
  BY <1>3 DEF ShuffleInv, TilesInPlay, ShuffleLeave
<1>4. CASE \E key \in DOMAIN Arrows : move_blank(key)
  BY <1>4, ShuffleMoves
<1>5. CASE UNCHANGED shuffleVars
  BY <1>5 DEF ShuffleInv, TilesInPlay, shuffleVars
<1>. QED
  BY <1>1, <1>2, <1>3, <1>4, <1>5 DEF ShuffleNext

(* Whatever board is dealt, of whatever order, and whatever keys follow,    *)
(* every tile stays on the board, the blank is where move_blank holds it to *)
(* be, and the half of the boards that was dealt is never left.             *)
THEOREM TilesStay == Spec => []TilesInPlay
<1>1. Init => ShuffleInv
  BY DEF Init, ShuffleInit, ShuffleInv, TilesInPlay
<1>2. ShuffleInv /\ [Next]_vars => ShuffleInv'
  <2> SUFFICES ASSUME ShuffleInv, [Next]_vars
               PROVE  ShuffleInv'
    OBVIOUS
  <2>1. ShuffleNext \/ UNCHANGED shuffleVars
    BY DEF Next, Puzzle, Demonstration, vars, puzzleVars
  <2>. QED
    BY <2>1, ShuffleSteps
<1>3. ShuffleInv => TilesInPlay
  BY DEF ShuffleInv
<1>. QED
  BY <1>1, <1>2, <1>3, PTL DEF Spec

-----------------------------------------------------------------------------
(* The panels.  A stack from which its i-th panel is taken.                 *)

Holds(s) == {s[j] : j \in 1..Len(s)}
OnceEach(s) == \A i, j \in 1..Len(s) : s[i] = s[j] => i = j

(* t is s without its i-th element. *)
LacksOne(t, s, i) ==
  Len(t) = Len(s) - 1 /\ \A j \in 1..Len(t) : t[j] = IF j < i THEN s[j] ELSE s[j + 1]

(* Taking a panel out of the stack leaves the others there once. *)
LEMMA Unlinked ==
  ASSUME NEW s \in Seq(Panels), OnceEach(s), NEW i \in 1..Len(s),
         NEW t, t = RemoveFirst(s, s[i])
  PROVE  /\ t \in Seq(Panels) /\ LacksOne(t, s, i)
         /\ OnceEach(t) /\ Holds(t) = Holds(s) \ {s[i]}
<1> DEFINE u == SubSeq(s, 1, i - 1)
           v == SubSeq(s, i + 1, Len(s))
<1>1. SelectInSeq(s, LAMBDA x : x = s[i]) = i
  BY DEF SelectInSeq, Min, OnceEach
<1>2. t = u \o v
  BY <1>1 DEF RemoveFirst, RemoveAt
<1>3. u \in Seq(Panels) /\ Len(u) = i - 1 /\ \A j \in 1..(i - 1) : u[j] = s[j]
  OBVIOUS
<1>4. v \in Seq(Panels) /\ Len(v) = Len(s) - i /\ \A j \in 1..(Len(s) - i) : v[j] = s[i + j]
  OBVIOUS
<1> HIDE DEF u, v
<1>5. t \in Seq(Panels) /\ Len(t) = Len(s) - 1
  <2>1. u \in Seq(Panels) /\ v \in Seq(Panels) /\ Len(s) \in Nat
    BY <1>3, <1>4
  <2>2. t \in Seq(Panels) /\ Len(t) = Len(u) + Len(v)
    BY <1>2, <2>1, ConcatProperties
  <2>3. Len(u) = i - 1 /\ Len(v) = Len(s) - i
    BY <1>3, <1>4
  <2>4. (i - 1) + (Len(s) - i) = Len(s) - 1
    BY <2>1
  <2>. QED
    BY <2>2, <2>3, <2>4
<1>6. \A j \in 1..Len(t) : t[j] = IF j < i THEN s[j] ELSE s[j + 1]
  <2> SUFFICES ASSUME NEW j \in 1..Len(t)
               PROVE  t[j] = IF j < i THEN s[j] ELSE s[j + 1]
    OBVIOUS
  <2>1. j \in 1..(Len(u) + Len(v)) /\ (j <= Len(u) <=> j < i)
    BY <1>3, <1>4, <1>5
  <2>2. t[j] = IF j <= Len(u) THEN u[j] ELSE v[j - Len(u)]
    BY <1>2, <1>3, <1>4, <2>1, ConcatProperties
  <2>3. CASE j < i
    BY <1>3, <2>1, <2>2, <2>3
  <2>4. CASE ~(j < i)
    <3>1. PICK m \in Nat : m = Len(s)
      OBVIOUS
    <3>2. j \in 1..(m - 1) /\ i \in 1..m
      BY <1>5, <3>1
    <3>3. j - (i - 1) \in 1..(m - i) /\ i + (j - (i - 1)) = j + 1
      BY <2>4, <3>2
    <3>4. t[j] = v[j - (i - 1)]
      BY <1>3, <2>1, <2>2, <2>4
    <3>. QED
      BY <1>4, <2>4, <3>1, <3>3, <3>4
  <2>. QED
    BY <2>3, <2>4
<1>7. \A j \in 1..Len(t) : \E g \in 1..Len(s) : t[j] = s[g] /\ g # i /\ g = (IF j < i THEN j ELSE j + 1)
  BY <1>5, <1>6
<1>8. OnceEach(t)
  <2> SUFFICES ASSUME NEW h \in 1..Len(t), NEW j \in 1..Len(t), t[h] = t[j]
               PROVE  h = j
    BY DEF OnceEach
  <2>1. PICK g \in 1..Len(s) : t[h] = s[g] /\ g = (IF h < i THEN h ELSE h + 1)
    BY <1>7
  <2>2. PICK d \in 1..Len(s) : t[j] = s[d] /\ d = (IF j < i THEN j ELSE j + 1)
    BY <1>7
  <2>3. g = d
    BY <2>1, <2>2 DEF OnceEach
  <2>. QED
    BY <1>5, <2>1, <2>2, <2>3
<1>9. Holds(t) \subseteq Holds(s) \ {s[i]}
  BY <1>7 DEF OnceEach, Holds
<1>10. ASSUME NEW j \in 1..Len(s), j # i
       PROVE  s[j] \in Holds(t)
  <2>1. CASE j < i
    BY <1>5, <1>6, <2>1 DEF Holds
  <2>2. CASE j > i
    <3>1. j - 1 \in 1..Len(t) /\ t[j - 1] = s[j]
      BY <1>5, <1>6, <2>2
    <3>. QED
      BY <3>1 DEF Holds
  <2>. QED
    BY <1>10, <2>1, <2>2
<1>11. Holds(s) \ {s[i]} \subseteq Holds(t)
  BY <1>10 DEF Holds
<1>. QED
  BY <1>5, <1>6, <1>8, <1>9, <1>11 DEF LacksOne

(* t is s with p on the top. *)
HasOneMore(t, s, p) ==
  /\ Len(t) = Len(s) + 1 /\ t[Len(s) + 1] = p
  /\ \A j \in 1..Len(s) : t[j] = s[j]

(* A panel is put on the top of a stack that does not have it. *)
LEMMA Linked ==
  ASSUME NEW s \in Seq(Panels), OnceEach(s), NEW p \in Panels, p \notin Holds(s),
         NEW t, t = Append(s, p)
  PROVE  /\ t \in Seq(Panels) /\ HasOneMore(t, s, p)
         /\ OnceEach(t) /\ Holds(t) = Holds(s) \cup {p}
<1>1. /\ t \in Seq(Panels) /\ Len(t) = Len(s) + 1 /\ t[Len(s) + 1] = p
      /\ \A j \in 1..Len(s) : t[j] = s[j]
  OBVIOUS
<1>2. Len(s) \in Nat
  OBVIOUS
<1>. QED
  BY <1>1, <1>2 DEF OnceEach, Holds, HasOneMore

LEMMA Triple ==
  ASSUME NEW s \in Seq(Panels), Len(s) = 3, \A i \in 1..3 : s[i] \in Panels
  PROVE  s = <<s[1], s[2], s[3]>>
<1>1. s[1] \in Panels /\ s[2] \in Panels /\ s[3] \in Panels
  OBVIOUS
<1> DEFINE t == <<s[1], s[2], s[3]>>
<1>2. t \in Seq(Panels) /\ Len(t) = 3 /\ t[1] = s[1] /\ t[2] = s[2] /\ t[3] = s[3]
  BY <1>1
<1> HIDE DEF t
<1>3. \A i \in 1..3 : s[i] = t[i]
  BY <1>2
<1>4. s = t
  BY <1>2, <1>3, SeqEqual
<1>. QED
  BY <1>4 DEF t

Geometry == [x : Int, y : Int, w : Int, h : Int]

PanelInv ==
  /\ demo \in {"browse", "hide", "resize"} /\ panels \in {"runs", "left", "undef"}
  /\ stack_top \in Panels /\ hide \subseteq Panels
  /\ stack \in Seq(Panels) /\ OnceEach(stack) /\ Holds(stack) = Panels \ hide
  /\ demo # "hide" =>
       hide = {} /\ stack = <<next(stack_top), next(next(stack_top)), stack_top>>
  /\ size \in BOOLEAN /\ move \in BOOLEAN /\ new \in Geometry
  /\ windowOf \in [Panels -> Geometry]
  /\ \A p \in Panels : windowOf[p].w > 0 /\ windowOf[p].h > 0
  /\ panels = "undef" =>
       new.x \notin 0..Columns \/ new.y \notin 0..Rows \/ new.w <= 0 \/ new.h <= 0

LEMMA PanelsStart == PanelsInit => PanelInv
<1> SUFFICES ASSUME PanelsInit
             PROVE  PanelInv
  OBVIOUS
<1>1. ASSUME NEW p \in Panels
      PROVE  Placed(p) \in Geometry /\ Placed(p).w > 0 /\ Placed(p).h > 0
  <2>1. FirstXY[1] + p * StepXY[1] \in Int /\ FirstXY[2] + p * StepXY[2] \in Int
    BY PanelsAssumption DEF Panels
  <2>. QED
    BY <2>1, PanelsAssumption DEF Placed, Geometry
<1>2. stack = <<0, 1, 2>> /\ stack_top = 2 /\ hide = {}
  BY DEF PanelsInit
<1>3. stack \in Seq(Panels) /\ OnceEach(stack) /\ Holds(stack) = Panels
  BY <1>2 DEF OnceEach, Holds, Panels
<1>4. stack = <<next(stack_top), next(next(stack_top)), stack_top>>
  BY <1>2 DEF next
<1>5. 2 \in Panels
  BY DEF Panels
<1>. QED
  BY <1>1, <1>2, <1>3, <1>4, <1>5 DEF PanelsInit, PanelInv

(* Tab brings the next panel of the ring to the top. *)
LEMMA TabKeepsPanels ==
  ASSUME PanelInv, Tab
  PROVE  PanelInv'
<1>1. PICK g : g = stack_top
  OBVIOUS
<1>2. PICK u : u = next(g)
  OBVIOUS
<1>3. PICK v : v = next(u)
  OBVIOUS
<1>4. g \in Panels /\ u \in Panels /\ v \in Panels /\ next(v) = g
  BY <1>1, <1>2, <1>3 DEF PanelInv, next, Panels
<1>5. PICK s : s = stack
  OBVIOUS
<1>6. s \in Seq(Panels) /\ OnceEach(s) /\ Holds(s) = Panels
  BY <1>5 DEF PanelInv, Tab
<1>7. 1 \in 1..Len(s) /\ Len(s) = 3 /\ s[1] = u /\ s[2] = v /\ s[3] = g
  <2>1. s = <<u, v, g>>
    BY <1>1, <1>2, <1>3, <1>5 DEF PanelInv, Tab
  <2>. QED
    BY <2>1
<1>8. PICK t : t = RemoveFirst(s, u)
  OBVIOUS
<1>9. t \in Seq(Panels) /\ LacksOne(t, s, 1) /\ OnceEach(t) /\ Holds(t) = Panels \ {u}
  <2>1. 1 \in 1..Len(s) /\ s[1] = u
    BY <1>7
  <2>2. t = RemoveFirst(s, s[1])
    BY <1>8, <2>1
  <2>3. t \in Seq(Panels) /\ LacksOne(t, s, 1) /\ OnceEach(t) /\ Holds(t) = Holds(s) \ {s[1]}
    BY <1>6, <2>1, <2>2, Unlinked
  <2>. QED
    BY <1>6, <2>1, <2>3
<1>10. PICK w : w = Append(t, u)
  OBVIOUS
<1>11. w \in Seq(Panels) /\ HasOneMore(w, t, u) /\ OnceEach(w) /\ Holds(w) = Panels
  <2>1. u \notin Holds(t) /\ Holds(t) \cup {u} = Panels
    BY <1>4, <1>9
  <2>. QED
    BY <1>4, <1>9, <1>10, <2>1, Linked
<1>12. w = <<v, g, u>>
  <2>1. Len(t) = 2 /\ t[1] = v /\ t[2] = g
    BY <1>9, <1>7 DEF LacksOne
  <2>2. Len(w) = 3 /\ w[1] = v /\ w[2] = g /\ w[3] = u
    BY <1>11, <2>1 DEF HasOneMore
  <2>3. \A i \in 1..3 : w[i] \in Panels
    BY <1>4, <2>2
  <2>. QED
    BY <1>11, <2>2, <2>3, Triple
<1>13. /\ stack_top' = u /\ stack' = w /\ hide' = {} /\ hide = {}
       /\ stack' = <<next(stack_top'), next(next(stack_top')), stack_top'>>
  <2>1. stack_top' = u /\ stack' = w
    BY <1>1, <1>2, <1>5, <1>8, <1>10 DEF Tab, Raised
  <2>2. w = <<next(u), next(next(u)), u>>
    BY <1>3, <1>4, <1>12
  <2>. QED
    BY <2>1, <2>2 DEF PanelInv, Tab
<1>14. new' \in Geometry
  <2>1. Placed(u) \in Geometry
    <3>1. FirstXY[1] + u * StepXY[1] \in Int /\ FirstXY[2] + u * StepXY[2] \in Int
      BY <1>4, PanelsAssumption DEF Panels
    <3>. QED
      BY <3>1, PanelsAssumption DEF Placed, Geometry
  <2>. QED
    BY <1>13, <2>1 DEF Tab, PanelInv
<1>. QED
  BY <1>4, <1>11, <1>13, <1>14 DEF Tab, PanelInv

(* Keys a to c hide and show a panel in panel_hide. *)
LEMMA HidingKeepsPanels ==
  ASSUME PanelInv, HideKey
  PROVE  PanelInv'
<1>1. PICK p \in Panels :
        \/ p \notin hide /\ stack' = RemoveFirst(stack, p) /\ hide' = hide \cup {p}
        \/ p \in hide /\ stack' = Append(RemoveFirst(stack, p), p) /\ hide' = hide \ {p}
  BY DEF HideKey, Shown, Raised
<1>2. PICK s : s = stack
  OBVIOUS
<1>3. PICK w : w = stack'
  OBVIOUS
<1>4. s \in Seq(Panels) /\ OnceEach(s) /\ Holds(s) = Panels \ hide /\ hide \subseteq Panels
  BY <1>2 DEF PanelInv
<1>5. w \in Seq(Panels) /\ OnceEach(w) /\ Holds(w) = Panels \ hide' /\ hide' \subseteq Panels
  <2>1. CASE p \notin hide
    <3>1. w = RemoveFirst(s, p) /\ hide' = hide \cup {p}
      BY <1>1, <1>2, <1>3, <2>1
    <3>2. PICK i \in 1..Len(s) : s[i] = p
      BY <1>4, <2>1 DEF Holds
    <3>3. w \in Seq(Panels) /\ OnceEach(w) /\ Holds(w) = Holds(s) \ {p}
      BY <1>4, <3>1, <3>2, Unlinked
    <3>. QED
      BY <1>4, <3>1, <3>3
  <2>2. CASE p \in hide
    <3>1. w = Append(RemoveFirst(s, p), p) /\ hide' = hide \ {p}
      BY <1>1, <1>2, <1>3, <2>2
    <3>2. p \notin Holds(s)
      BY <1>4, <2>2
    <3>3. RemoveFirst(s, p) = s
      BY <3>2 DEF RemoveFirst, Holds
    <3>4. w \in Seq(Panels) /\ OnceEach(w) /\ Holds(w) = Holds(s) \cup {p}
      BY <1>4, <3>1, <3>2, <3>3, Linked
    <3>. QED
      BY <1>4, <2>2, <3>1, <3>4
  <2>. QED
    BY <2>1, <2>2
<1>6. /\ UNCHANGED <<demo, windowOf, stack_top, panels>> /\ demo = "hide"
      /\ UNCHANGED <<new, size, move>>
  BY DEF HideKey, resizeVars
<1>. QED
  BY <1>3, <1>5, <1>6 DEF PanelInv

(* An arrow moves or resizes the panel on top only. *)
LEMMA ArrowKeepsPanels ==
  ASSUME PanelInv, ArrowKey
  PROVE  PanelInv'
<1>1. new' \in Geometry
  <2>1. PICK d \in {-1, 1}, e \in Int, g \in Int :
          \/ new' = [new EXCEPT !.x = @ + e, !.w = @ - g]
          \/ new' = [new EXCEPT !.y = @ + e, !.h = @ - g]
    <3>1. PICK d \in {-1, 1} :
            LET by == d * ((IF size THEN 1 ELSE 0) + (IF move THEN 1 ELSE 0))
                less == IF size THEN d ELSE 0
            IN  \/ new' = [new EXCEPT !.x = @ + by, !.w = @ - less]
                \/ new' = [new EXCEPT !.y = @ + by, !.h = @ - less]
      BY DEF ArrowKey
    <3> DEFINE e == d * ((IF size THEN 1 ELSE 0) + (IF move THEN 1 ELSE 0))
               g == IF size THEN d ELSE 0
    <3>2. e \in Int /\ g \in Int
      OBVIOUS
    <3>3. \/ new' = [new EXCEPT !.x = @ + e, !.w = @ - g]
          \/ new' = [new EXCEPT !.y = @ + e, !.h = @ - g]
      BY <3>1
    <3> HIDE DEF e, g
    <3>. QED
      BY <3>2, <3>3
  <2>2. new \in Geometry
    BY DEF PanelInv
  <2> DEFINE i == new.x + e
             j == new.w - g
             u == new.y + e
             v == new.h - g
  <2>3. i \in Int /\ j \in Int /\ u \in Int /\ v \in Int
    BY <2>2 DEF Geometry
  <2>4. new' = [new EXCEPT !.x = i, !.w = j] \/ new' = [new EXCEPT !.y = u, !.h = v]
    BY <2>1
  <2> HIDE DEF i, j, u, v
  <2>. QED
    BY <2>2, <2>3, <2>4 DEF Geometry
<1>2. /\ UNCHANGED <<demo, stack, windowOf, stack_top, hide, size, move, panels>>
      /\ panels = "runs"
  BY DEF ArrowKey
<1>. QED
  BY <1>1, <1>2 DEF PanelInv

(* Enter ends a move or a resize. *)
LEMMA EnterKeepsPanels ==
  ASSUME PanelInv, EnterKey
  PROVE  PanelInv'
<1>1. /\ new \in Geometry /\ stack_top \in Panels /\ windowOf \in [Panels -> Geometry]
      /\ \A p \in Panels : windowOf[p].w > 0 /\ windowOf[p].h > 0
      /\ Columns \in Int /\ Rows \in Int
  BY PanelsAssumption DEF PanelInv
<1>2. Sized(new) \in Geometry
  <2> DEFINE i == IF new.w = 0 THEN Columns - new.x ELSE new.w
             j == IF new.h = 0 THEN Rows - new.y ELSE new.h
  <2>1. i \in Int /\ j \in Int
    BY <1>1 DEF Geometry
  <2>2. Sized(new) = [new EXCEPT !.w = i, !.h = j]
    BY DEF Sized
  <2> HIDE DEF i, j
  <2>. QED
    BY <1>1, <2>1, <2>2 DEF Geometry
<1>3. ASSUME NEW g \in Geometry, g.w > 0, g.h > 0
      PROVE  MovedTo(g, new) \in Geometry /\ MovedTo(g, new).w > 0 /\ MovedTo(g, new).h > 0
  BY <1>1, <1>3 DEF MovedTo, Geometry
<1>4. CASE size /\ newwin_fails(new)
  <2>1. new.x \notin 0..Columns \/ new.y \notin 0..Rows \/ new.w <= 0 \/ new.h <= 0
    BY <1>1, <1>4 DEF newwin_fails, Sized, Geometry
  <2>2. UNCHANGED <<demo, stack, stack_top, hide, new, windowOf>>
        /\ size' = FALSE /\ move' = FALSE /\ panels' = "undef"
    BY <1>4 DEF EnterKey
  <2>. QED
    BY <2>1, <2>2 DEF PanelInv
<1>5. CASE ~(size /\ newwin_fails(new))
  <2> DEFINE g == IF size THEN Sized(new) ELSE windowOf[stack_top]
             h == IF move THEN MovedTo(g, new) ELSE g
  <2>1. g \in Geometry /\ g.w > 0 /\ g.h > 0
    <3>1. CASE size
      BY <1>1, <1>2, <1>5, <3>1 DEF newwin_fails, Geometry
    <3>2. CASE ~size
      BY <1>1, <3>2
    <3>. QED
      BY <3>1, <3>2
  <2>2. windowOf' = [windowOf EXCEPT ![stack_top] = h] /\ UNCHANGED panels
    BY <1>5 DEF EnterKey
  <2> HIDE DEF g
  <2>3. h \in Geometry /\ h.w > 0 /\ h.h > 0
    BY <1>3, <2>1
  <2> HIDE DEF h
  <2>4. /\ windowOf' \in [Panels -> Geometry]
        /\ \A p \in Panels : windowOf'[p].w > 0 /\ windowOf'[p].h > 0
    BY <1>1, <2>2, <2>3
  <2>5. UNCHANGED <<demo, stack, stack_top, hide, new, panels>>
        /\ size' = FALSE /\ move' = FALSE /\ panels = "runs"
    BY <2>2 DEF EnterKey
  <2>. QED
    BY <2>4, <2>5 DEF PanelInv
<1>. QED
  BY <1>4, <1>5

LEMMA PanelsSteps ==
  ASSUME PanelInv, PanelsNext \/ UNCHANGED panelVars
  PROVE  PanelInv'
<1>1. CASE ModeKey
  BY <1>1 DEF PanelInv, ModeKey
<1>2. CASE PanelsLeave
  BY <1>2 DEF PanelInv, PanelsLeave, resizeVars
<1>3. CASE UNCHANGED panelVars
  BY <1>3 DEF PanelInv, panelVars, resizeVars
<1>. QED
  BY <1>1, <1>2, <1>3, TabKeepsPanels, HidingKeepsPanels, ArrowKeepsPanels, EnterKeepsPanels
     DEF PanelsNext

LEMMA PanelsAgreeing == PanelInv => PanelsAgree
<1> SUFFICES ASSUME PanelInv
             PROVE  PanelsAgree
  OBVIOUS
<1>1. {stack[i] : i \in 1..Len(stack)} = Panels \ hide
  BY DEF PanelInv, Holds
<1>2. demo # "hide" => Last(stack) = stack_top /\ stack[1] = next(stack_top)
  <2>1. CASE demo # "hide"
    <3>1. PICK u \in Panels, v \in Panels, s \in {stack} : u = next(stack_top) /\ v = next(u)
      BY DEF PanelInv, next, Panels
    <3>2. s = <<u, v, stack_top>>
      BY <2>1, <3>1 DEF PanelInv
    <3>3. Len(s) = 3 /\ s[1] = u /\ s[3] = stack_top
      BY <3>2
    <3>. QED
      BY <3>1, <3>3 DEF Last
  <2>. QED
    BY <2>1
<1>. QED
  BY <1>1, <1>2 DEF PanelInv, PanelsAgree

-----------------------------------------------------------------------------
(* The boxes. *)

BoxInv ==
  /\ boxDemo \in {"win", "other"} /\ boxes \in {"starts", "runs", "left"}
  /\ boxes = "starts" => boxDemo = "other"
  /\ startx \in Int /\ starty \in Int
  /\ drawn = IF boxDemo = "win" THEN WindowBorder(startx, starty)
             ELSE IF boxes = "starts" THEN {} ELSE Lined(startx, starty)

ScreenCell == \A c \in Screen : c[1] \in Int /\ c[2] \in Int /\ c = <<c[1], c[2]>>

LEMMA ScreenCells == ScreenCell
BY BoxesAssumption DEF Screen, ScreenCell

(* A new window clears its cells, and a border lies in its window. *)
LEMMA NewWindow ==
  ASSUME NEW S, NEW x, NEW y, S \subseteq Window(x, y)
  PROVE  create_newwin(S, x, y) = WindowBorder(x, y)
BY DEF create_newwin, WindowBorder

(* What other_border.c blanks is all that it has drawn. *)
LEMMA LinesBlanked ==
  ASSUME NEW x \in Int, NEW y \in Int
  PROVE  /\ Lined(x, y) \subseteq Blanked(x, y)
         /\ Lined(x, y) \subseteq Border(x, y, width, height)
<1> USE BoxesAssumption
<1> SUFFICES ASSUME NEW z \in Lined(x, y)
             PROVE  z \in Blanked(x, y) /\ z \in Border(x, y, width, height)
  OBVIOUS
<1>1. z \in Screen
  BY DEF Lined
<1>2. z[1] \in Int /\ z[2] \in Int /\ z = <<z[1], z[2]>>
  BY <1>1, ScreenCells DEF ScreenCell
<1>3. \/ z[1] \in {x, x + width} /\ z[2] \in {y, y + height}
      \/ z[2] \in {y, y + height} /\ z[1] \in (x + 1)..(x + width - 1)
      \/ z[1] \in {x, x + width} /\ z[2] \in (y + 1)..(y + height - 1)
  BY <1>2 DEF Lined
<1>. QED
  BY <1>1, <1>2, <1>3 DEF Blanked, Border

(* On the screen the border is complete. *)
LEMMA LinesComplete ==
  ASSUME NEW x \in Int, NEW y \in Int,
         x >= 0, x + width < ScreenCols, y >= 0, y + height < ScreenLines
  PROVE  Border(x, y, width, height) \subseteq Lined(x, y)
<1> USE BoxesAssumption
<1> SUFFICES ASSUME NEW z \in Border(x, y, width, height)
             PROVE  z \in Lined(x, y)
  OBVIOUS
<1>1. /\ z \in Screen /\ z[1] \in x..(x + width) /\ z[2] \in y..(y + height)
      /\ z[1] \in {x, x + width} \/ z[2] \in {y, y + height}
  BY DEF Border
<1>2. z[1] \in Int /\ z[2] \in Int /\ z = <<z[1], z[2]>>
  BY <1>1, ScreenCells DEF ScreenCell
<1>3. CASE z[1] \in {x, x + width} /\ z[2] \in {y, y + height}
  BY <1>1, <1>2, <1>3 DEF Lined
<1>4. CASE z[1] \notin {x, x + width}
  <2>1. z[2] \in {y, y + height} /\ z[1] \in (x + 1)..(x + width - 1)
    BY <1>1, <1>2, <1>4
  <2>2. <<x + 1, z[2]>> \in Screen
    BY <1>2, <2>1 DEF Screen
  <2>3. PICK r \in {y, y + height} : r = z[2] /\ <<x + 1, r>> \in Screen
    BY <2>1, <2>2
  <2>4. z \in {c \in Screen : c[2] = r /\ c[1] \in (x + 1)..(x + width - 1)}
    BY <1>1, <2>1, <2>3
  <2>. QED
    BY <2>3, <2>4 DEF Lined
<1>5. CASE z[2] \notin {y, y + height}
  <2>1. z[1] \in {x, x + width} /\ z[2] \in (y + 1)..(y + height - 1)
    BY <1>1, <1>2, <1>5
  <2>2. <<z[1], y + 1>> \in Screen
    BY <1>2, <2>1 DEF Screen
  <2>. QED
    BY <1>1, <2>1, <2>2 DEF Lined
<1>. QED
  BY <1>3, <1>4, <1>5

(* The library's border has all the cells of the frame. *)
LEMMA WindowComplete ==
  ASSUME NEW x \in Int, NEW y \in Int, x >= 0, y >= 0
  PROVE  WindowBorder(x, y) = Border(x, y, width - 1, height - 1)
<1> USE BoxesAssumption
<1> SUFFICES ASSUME NEW z \in Border(x, y, width - 1, height - 1)
             PROVE  z \in Window(x, y)
  BY DEF WindowBorder
<1>1. /\ z \in Screen
      /\ z[1] \in x..(x + (width - 1)) /\ z[2] \in y..(y + (height - 1))
  BY DEF Border
<1>. QED
  BY <1>1 DEF Window, HasWindow

LEMMA BoxesStart == BoxesInit => BoxInv
<1> SUFFICES ASSUME BoxesInit
             PROVE  BoxInv
  OBVIOUS
<1>1. startx \in Int /\ starty \in Int
  BY BoxesAssumption DEF BoxesInit
<1>2. create_newwin({}, startx, starty) = WindowBorder(startx, starty)
  BY NewWindow
<1>. QED
  BY <1>1, <1>2 DEF BoxesInit, BoxInv

LEMMA BoxesSteps ==
  ASSUME BoxInv, BoxesNext \/ UNCHANGED boxVars
  PROVE  BoxInv'
<1>1. CASE FirstBox
  <2>1. drawn' = {} \cup Lined(startx, starty) /\ boxDemo = "other"
    BY <1>1 DEF BoxInv, FirstBox, create_box
  <2>. QED
    BY <1>1, <2>1 DEF BoxInv, FirstBox
<1>2. ASSUME Arrow
      PROVE  startx' \in Int /\ starty' \in Int
  BY <1>2 DEF BoxInv, Arrow
<1>3. CASE WindowKey
  <2> DEFINE S == destroy_win(drawn, startx, starty)
  <2>1. drawn = WindowBorder(startx, starty)
    BY <1>3 DEF BoxInv, WindowKey
  <2>2. S = {}
    BY <2>1 DEF destroy_win
  <2>3. drawn' = create_newwin(S, startx', starty') /\ S \subseteq Window(startx', starty')
    BY <1>3, <2>2 DEF WindowKey
  <2> HIDE DEF S
  <2>4. drawn' = WindowBorder(startx', starty')
    BY <2>3, NewWindow
  <2>5. UNCHANGED <<boxDemo, boxes>> /\ boxDemo = "win" /\ Arrow
    BY <1>3 DEF WindowKey, Arrow
  <2>. QED
    BY <1>2, <2>4, <2>5 DEF BoxInv
<1>4. CASE BoxKey
  <2>1. drawn = Lined(startx, starty)
    BY <1>4 DEF BoxInv, BoxKey, Arrow
  <2>2. drawn' = (drawn \ Blanked(startx, starty)) \cup Lined(startx', starty')
    BY <1>4 DEF BoxKey, create_box
  <2>3. Lined(startx, starty) \subseteq Blanked(startx, starty)
    BY LinesBlanked DEF BoxInv
  <2>4. drawn' = Lined(startx', starty')
    BY <2>1, <2>2, <2>3
  <2>5. UNCHANGED <<boxDemo, boxes>> /\ boxDemo = "other" /\ boxes = "runs" /\ Arrow
    BY <1>4 DEF BoxKey, Arrow
  <2>. QED
    BY <1>2, <2>4, <2>5 DEF BoxInv
<1>5. CASE BoxesLeave
  BY <1>5 DEF BoxInv, BoxesLeave
<1>6. CASE UNCHANGED boxVars
  BY <1>6 DEF BoxInv, boxVars
<1>. QED
  BY <1>1, <1>3, <1>4, <1>5, <1>6 DEF BoxesNext

LEMMA BoxesAlone == BoxInv => BoxAlone
<1> SUFFICES ASSUME BoxInv
             PROVE  BoxAlone
  OBVIOUS
<1> USE BoxesAssumption
<1>1. CASE boxDemo = "win"
  <2>1. drawn = WindowBorder(startx, starty) /\ startx \in Int /\ starty \in Int
    BY <1>1 DEF BoxInv
  <2>2. width + (-1) = width - 1 /\ height + (-1) = height - 1
    OBVIOUS
  <2>3. drawn \subseteq Border(startx, starty, width - 1, height - 1)
    BY <2>1 DEF WindowBorder
  <2>4. startx >= 0 /\ starty >= 0 => drawn = Border(startx, starty, width - 1, height - 1)
    BY <2>1, WindowComplete
  <2>. QED
    BY <1>1, <2>2, <2>3, <2>4 DEF BoxAlone
<1>2. CASE boxDemo = "other"
  <2>1. /\ drawn = IF boxes = "starts" THEN {} ELSE Lined(startx, starty)
        /\ startx \in Int /\ starty \in Int
    BY <1>2 DEF BoxInv
  <2>2. width + 0 = width /\ height + 0 = height
    OBVIOUS
  <2>3. drawn \subseteq Border(startx, starty, width, height)
    BY <2>1, LinesBlanked
  <2>4. boxes # "starts" /\ startx >= 0 /\ startx + width < ScreenCols
        /\ starty >= 0 /\ starty + height < ScreenLines
        => drawn = Border(startx, starty, width, height)
    BY <2>1, <2>3, LinesComplete
  <2>5. startx + width + 0 = startx + width /\ starty + height + 0 = starty + height
    BY <2>1
  <2>. QED
    BY <1>2, <2>2, <2>3, <2>4, <2>5 DEF BoxAlone
<1>. QED
  BY <1>1, <1>2 DEF BoxInv

-----------------------------------------------------------------------------
(* The menus that the programs draw themselves. *)

KeyMenuInv ==
  /\ keyDemo \in {"key", "test", "lesson", "mouse"} /\ keyMenu \in {"runs", "left", "undef"}
  /\ highlight \in 0..n_choices /\ chosen \in 0..n_choices
  /\ keyDemo # "mouse" => at = Nowhere /\ keyMenu # "undef"
  /\ ClicksHit

LEMMA ChoiceLengths == n_choices \in Nat \ {0} /\ \A i \in 1..n_choices : Texts[i] \in Nat \ {0}
<1>1. Texts \in Seq(Nat \ {0}) /\ Texts # <<>>
  BY KeyMenusAssumption
<1>2. Len(Texts) \in Nat /\ Len(Texts) # 0
  BY <1>1, EmptySeq
<1>3. \A i \in 1..Len(Texts) : Texts[i] \in Nat \ {0}
  BY <1>1
<1>. QED
  BY <1>2, <1>3 DEF n_choices

(* The click that hits nothing is in no text. *)
LEMMA NowhereInTexts == \A i \in 1..n_choices : Nowhere \notin Text(i)
BY ChoiceLengths, KeyMenusAssumption DEF Nowhere, Text

(* The lines of two choices are apart, and the text of a choice is where    *)
(* report_choice looks for it.                                              *)
LEMMA TextsHit ==
  /\ \A i \in 1..n_choices, x \in Int, y \in Int : <<x, y>> \in Text(i) => Hit(i, x + 1, y + 1)
  /\ \A i, j \in 1..n_choices, x \in Int, y \in Int :
       Hit(i, x + 1, y + 1) /\ Hit(j, x + 1, y + 1) => i = j
<1> PICK c \in Nat, e \in Nat : c = Corner[1] /\ e = Corner[2]
  BY KeyMenusAssumption
<1>1. ASSUME NEW i \in 1..n_choices, NEW x \in Int, NEW y \in Int, <<x, y>> \in Text(i)
      PROVE  Hit(i, x + 1, y + 1)
  <2>1. PICK r \in Nat : r = Texts[i]
    BY ChoiceLengths
  <2>2. x \in (c + 2)..(c + 1 + r) /\ y = e + 1 + i
    BY <1>1, <2>1 DEF Text
  <2>3. i \in Int
    BY ChoiceLengths
  <2>. QED
    BY <2>1, <2>2, <2>3 DEF Hit
<1>2. ASSUME NEW i \in 1..n_choices, NEW j \in 1..n_choices, NEW x \in Int, NEW y \in Int,
             Hit(i, x + 1, y + 1), Hit(j, x + 1, y + 1)
      PROVE  i = j
  BY <1>2, ChoiceLengths DEF Hit
<1>. QED
  BY <1>1, <1>2

LEMMA KeyMenusStart == KeyMenusInit => KeyMenuInv
BY NowhereInTexts, ChoiceLengths DEF KeyMenusInit, KeyMenuInv, ClicksHit

(* A click chooses the line whose text it is in. *)
LEMMA ClickKeepsMenus ==
  ASSUME KeyMenuInv, Click
  PROVE  KeyMenuInv'
<1>1. PICK x \in 0..(Corner[1] + 12), y \in 0..(Corner[2] + n_choices + 3) :
       LET hits == {i \in 1..n_choices : Hit(i, x + 1, y + 1)}
       IN  /\ at' = <<x, y>>
           /\ chosen' = IF hits = {} THEN chosen ELSE CHOOSE i \in hits : TRUE
           /\ keyMenu' = CASE chosen' = n_choices -> "left"
                           [] chosen' = 0 -> "undef"
                           [] OTHER -> "runs"
           /\ highlight' = IF chosen' = n_choices THEN highlight ELSE chosen'
  BY DEF Click
<1> DEFINE hits == {i \in 1..n_choices : Hit(i, x + 1, y + 1)}
<1>2. x \in Int /\ y \in Int /\ n_choices \in Nat \ {0}
  BY KeyMenusAssumption, ChoiceLengths
<1>3. /\ at' = <<x, y>> /\ keyDemo = "mouse" /\ keyDemo' = "mouse" /\ keyMenu = "runs"
      /\ highlight' = IF chosen' = n_choices THEN highlight ELSE chosen'
      /\ keyMenu' \in {"left", "undef", "runs"}
      /\ (keyMenu' = "left" <=> chosen' = n_choices)
      /\ (keyMenu' = "undef" <=> chosen' = 0)
  BY <1>1, <1>2 DEF Click, KeyRuns
<1>4. chosen' \in 0..n_choices /\ (hits # {} => chosen' \in hits) /\ (hits = {} => chosen' = chosen)
  BY <1>1 DEF KeyMenuInv
<1>5. \A i \in 1..n_choices : at' \in Text(i) => chosen' = i
  <2>1. TAKE i \in 1..n_choices
  <2>2. HAVE at' \in Text(i)
  <2>3. Hit(i, x + 1, y + 1)
    BY <1>2, <1>3, <2>2, TextsHit
  <2>4. chosen' \in hits
    BY <1>4, <2>3
  <2>. QED
    BY <1>2, <2>3, <2>4, TextsHit
<1>6. at' # Nowhere
  BY <1>1 DEF Nowhere
<1>7. keyMenu' = "undef" => \A i \in 1..n_choices : at' \notin Text(i)
  BY <1>2, <1>3, <1>5
<1>8. ClicksHit'
  BY <1>3, <1>5, <1>6, <1>7 DEF ClicksHit, n_choices, Text, Nowhere
<1>9. highlight' \in 0..n_choices
  BY <1>3, <1>4 DEF KeyMenuInv
<1>. QED
  BY <1>3, <1>4, <1>8, <1>9 DEF KeyMenuInv, n_choices, Nowhere

LEMMA KeyMenusSteps ==
  ASSUME KeyMenuInv, KeyMenusNext \/ UNCHANGED keyVars
  PROVE  KeyMenuInv'
<1> USE ChoiceLengths
<1>1. CASE Wrapping
  <2>1. highlight \in 1..n_choices /\ keyDemo \in {"key", "test"}
    BY <1>1 DEF KeyMenuInv, ClicksHit, Wrapping, KeyRuns
  <2>2. highlight' \in 1..n_choices
    BY <1>1, <2>1 DEF Wrapping, KEY_UP, KEY_DOWN
  <2>3. UNCHANGED <<keyDemo, chosen, at, keyMenu>>
    BY <1>1 DEF Wrapping, KeyRuns
  <2>. QED
    BY <2>1, <2>2, <2>3 DEF KeyMenuInv, ClicksHit, n_choices, Nowhere, Text
<1>2. CASE TakeChoice
  <2>1. highlight \in 1..n_choices /\ keyDemo \in {"key", "test"} /\ at = Nowhere
    BY <1>2 DEF KeyMenuInv, ClicksHit, TakeChoice, KeyRuns
  <2>2. UNCHANGED <<keyDemo, highlight, at>> /\ chosen' = highlight /\ keyMenu' \in {"left", "runs"}
    BY <1>2 DEF TakeChoice, KeyRuns
  <2>. QED
    BY <2>1, <2>2, NowhereInTexts DEF KeyMenuInv, ClicksHit, n_choices, Nowhere, Text
<1>3. CASE Lesson
  <2>1. highlight \in 1..n_choices /\ keyDemo = "lesson"
    BY <1>3 DEF KeyMenuInv, ClicksHit, Lesson, KeyRuns
  <2>2. /\ UNCHANGED <<keyDemo, chosen, at>> /\ highlight' \in 1..n_choices
        /\ keyMenu' \in {keyMenu, "left"}
    BY <1>3, <2>1 DEF Lesson, KeyRuns
  <2>. QED
    BY <2>1, <2>2 DEF KeyMenuInv, ClicksHit, n_choices, Nowhere, Text
<1>4. CASE Click
  BY <1>4, ClickKeepsMenus
<1>5. CASE OtherEvent
  <2>1. UNCHANGED <<keyDemo, chosen, at, keyMenu>> /\ highlight' = chosen /\ keyDemo = "mouse"
    BY <1>5 DEF OtherEvent, KeyRuns
  <2>. QED
    BY <2>1 DEF KeyMenuInv, ClicksHit, n_choices, Nowhere, Text
<1>6. CASE UNCHANGED keyVars
  BY <1>6 DEF KeyMenuInv, ClicksHit, keyVars, n_choices, Nowhere, Text
<1>. QED
  BY <1>1, <1>2, <1>3, <1>4, <1>5, <1>6 DEF KeyMenusNext

-----------------------------------------------------------------------------
(* The menus of the menu library. *)

(* The end: what is posted and allocated after e of the calls of w. *)
EndsWell(w, p, s, e, i) ==
  /\ e \in -1..3 /\ p \in BOOLEAN
  /\ p <=> w = FreeTwo \/ e <= 0
  /\ w = FreeTwo => s = {TheMenu} \cup i
  /\ w = ItemsFirst => s = IF e <= 2 THEN {TheMenu} \cup i ELSE i
  /\ w = MenuFirst => s = IF e <= 1 THEN {TheMenu} \cup i ELSE IF e = 2 THEN i ELSE {}

MenuInv ==
  /\ menu \in Demos
  /\ cur \in ItemsOf(menu) /\ marked \subseteq ItemsOf(menu)
  /\ top \in Nat /\ RowOf(cur) \in top..(top + Page - 1) /\ top + Page - 1 <= LastRow
  /\ EndsWell(menu.ending, posted, kept, left, ItemsOf(menu))

(* A list of items: its length, the rows of a page, the columns and the     *)
(* last row.                                                                *)
Shaped(i, r, c, l) ==
  /\ i \in Nat \ {0} /\ r \in Nat \ {0} /\ c \in {1, 3} /\ l \in Nat
  /\ c * l < i /\ i <= c * (l + 1)

(* The eight menus have items, rows and columns that fit together. *)
LEMMA Shapes ==
  ASSUME menu \in Demos
  PROVE  /\ Shaped(menu.items, menu.rows, menu.columns, LastRow)
         /\ menu.ending \in {FreeTwo, ItemsFirst, MenuFirst}
<1>1. \/ menu = Program(5, 16, 1, menu.keys, menu.ending)
      \/ menu = Program(8, 16, 1, menu.keys, menu.ending)
      \/ menu = Program(11, 5, 1, menu.keys, menu.ending)
      \/ menu = Program(21, 5, 3, menu.keys, menu.ending)
  BY DEF Demos, menu_simple, menu_item_data, menu_toggle, menu_userptr, menu_attrib, menu_win,
         menu_scroll, menu_multi_column, Program
<1>2. menu.ending \in {FreeTwo, ItemsFirst, MenuFirst}
  BY DEF Demos, menu_simple, menu_item_data, menu_toggle, menu_userptr, menu_attrib, menu_win,
         menu_scroll, menu_multi_column, Program
<1>3. \/ menu.items = 5 /\ menu.rows = 16 /\ menu.columns = 1
      \/ menu.items = 8 /\ menu.rows = 16 /\ menu.columns = 1
      \/ menu.items = 11 /\ menu.rows = 5 /\ menu.columns = 1
      \/ menu.items = 21 /\ menu.rows = 5 /\ menu.columns = 3
  BY <1>1 DEF Program
<1>4. Shaped(menu.items, menu.rows, menu.columns, LastRow)
  BY <1>3 DEF Shaped, LastRow, RowOf
<1>. QED
  BY <1>2, <1>4

(* Page and RowOf in numbers. *)
LEMMA RowNumbers ==
  ASSUME NEW i, NEW r, NEW c, NEW l, Shaped(i, r, c, l),
         menu.items = i, menu.rows = r, menu.columns = c, LastRow = l
  PROVE  /\ Page \in Nat \ {0} /\ Page <= l + 1
         /\ \A j \in Int : RowOf(j) \in Int /\ c * RowOf(j) <= j /\ j < c * (RowOf(j) + 1)
         /\ RowOf(i - 1) = l
<1>1. Page \in Nat \ {0} /\ Page <= l + 1
  BY DEF Page, Shaped
<1>2. ASSUME NEW j \in Int
      PROVE  RowOf(j) \in Int /\ c * RowOf(j) <= j /\ j < c * (RowOf(j) + 1)
  <2>1. RowOf(j) = j \div c
    BY DEF RowOf
  <2>2. CASE c = 1
    <3>1. j \div 1 = j
      OBVIOUS
    <3>. QED
      BY <2>1, <2>2, <3>1
  <2>3. CASE c = 3
    BY <2>1, <2>3
  <2>. QED
    BY <2>2, <2>3 DEF Shaped
<1>. QED
  BY <1>1, <1>2 DEF LastRow

(* The current item and the page: what the keys keep. *)
InView(i, j, u) ==
  /\ j \in 0..(i - 1)
  /\ u \in Nat /\ RowOf(j) \in u..(u + Page - 1) /\ u + Page - 1 <= LastRow

(* Going to an item brings it into the page. *)
LEMMA GoingTo ==
  ASSUME NEW i, NEW r, NEW c, NEW l, Shaped(i, r, c, l),
         menu.items = i, menu.rows = r, menu.columns = c, LastRow = l, menu' = menu,
         InView(i, cur, top), NEW j \in Int, GoTo(j)
  PROVE  InView(i, cur', top')
<1>1. /\ Page \in Nat \ {0} /\ Page <= l + 1
      /\ \A e \in Int : RowOf(e) \in Int /\ c * RowOf(e) <= e /\ e < c * (RowOf(e) + 1)
      /\ RowOf(i - 1) = l
  BY RowNumbers
<1>2. cur' \in 0..(i - 1)
  BY DEF GoTo, InView, ItemsOf
<1>3. PICK e \in Int : e = RowOf(cur')
  BY <1>1, <1>2 DEF Shaped
<1>4. 0 <= e /\ e <= l
  <2>1. c * e <= cur' /\ cur' < c * (e + 1) /\ cur' \in Int
    BY <1>1, <1>2, <1>3 DEF Shaped
  <2>2. CASE c = 1
    BY <1>2, <2>1, <2>2 DEF Shaped
  <2>3. CASE c = 3
    BY <1>2, <2>1, <2>3 DEF Shaped
  <2>. QED
    BY <2>2, <2>3 DEF Shaped
<1>5. top' = IF e < top THEN e ELSE IF e >= top + Page THEN e - Page + 1 ELSE top
  BY <1>3 DEF GoTo
<1>6. top \in Nat /\ top + Page - 1 <= l
  BY DEF InView
<1>7. PICK p \in Nat \ {0} : p = Page
  BY <1>1
<1>8. top' \in Nat /\ e \in top'..(top' + p - 1) /\ top' + p - 1 <= l
  BY <1>1, <1>4, <1>5, <1>6, <1>7 DEF Shaped
<1>. QED
  BY <1>2, <1>3, <1>7, <1>8 DEF InView

(* Scrolling keeps the current item in the page. *)
LEMMA Scrolling ==
  ASSUME NEW i, NEW r, NEW c, NEW l, Shaped(i, r, c, l),
         menu.items = i, menu.rows = r, menu.columns = c, LastRow = l, menu' = menu,
         InView(i, cur, top), NEW u \in Nat, u + Page - 1 <= l, Scroll(u)
  PROVE  InView(i, cur', top')
<1>1. /\ Page \in Nat \ {0} /\ Page <= l + 1
      /\ \A e \in Int : RowOf(e) \in Int /\ c * RowOf(e) <= e /\ e < c * (RowOf(e) + 1)
      /\ RowOf(i - 1) = l
  BY RowNumbers
<1>2. PICK p \in Nat \ {0} : p = Page
  BY <1>1
<1>3. PICK d \in Int : d = RowOf(cur)
  BY <1>1 DEF InView
<1>4. cur \in 0..(i - 1) /\ top \in Nat /\ d \in top..(top + p - 1) /\ i \in Nat \ {0}
  BY <1>2, <1>3 DEF InView, Shaped
<1>5. PICK j \in Int : j = cur + (u - top) * c
  BY <1>4 DEF Shaped
<1>6. PICK e \in Int : e = RowOf(j)
  BY <1>1
<1>7. e = d + (u - top)
  <2>1. c * d <= cur /\ cur < c * (d + 1) /\ c * e <= j /\ j < c * (e + 1)
    BY <1>1, <1>3, <1>4, <1>6
  <2>2. CASE c = 1
    BY <1>4, <1>5, <2>1, <2>2
  <2>3. CASE c = 3
    BY <1>4, <1>5, <2>1, <2>3
  <2>. QED
    BY <2>2, <2>3 DEF Shaped
<1>8. e \in u..(u + p - 1)
  BY <1>4, <1>7
<1>9. top' = u /\ cur' = IF j \in 0..(i - 1) THEN j ELSE i - 1
  BY <1>5 DEF Scroll, ItemsOf
<1>10. CASE j \in 0..(i - 1)
  BY <1>2, <1>6, <1>8, <1>9, <1>10 DEF InView
<1>11. CASE j \notin 0..(i - 1)
  <2>1. c * e <= j /\ j < c * (e + 1)
    BY <1>1, <1>6
  <2>2. j >= 0
    <3>1. CASE c = 1
      BY <1>8, <2>1, <3>1
    <3>2. CASE c = 3
      BY <1>8, <2>1, <3>2
    <3>. QED
      BY <3>1, <3>2 DEF Shaped
  <2>3. j >= i
    BY <1>4, <1>11, <2>2
  <2>4. l <= e
    <3>1. c * l < i /\ l \in Nat
      BY DEF Shaped
    <3>2. CASE c = 1
      BY <2>1, <2>3, <3>1, <3>2, <1>4
    <3>3. CASE c = 3
      BY <2>1, <2>3, <3>1, <3>3, <1>4
    <3>. QED
      BY <3>2, <3>3 DEF Shaped
  <2>5. l \in u..(u + p - 1)
    BY <1>2, <1>8, <2>4 DEF Shaped
  <2>6. RowOf(cur') = l /\ cur' \in 0..(i - 1)
    BY <1>1, <1>4, <1>9, <1>11
  <2>. QED
    BY <1>2, <1>9, <2>5, <2>6 DEF InView
<1>. QED
  BY <1>10, <1>11

LEMMA MenuSteps ==
  ASSUME MenuInv, MenusNext \/ UNCHANGED menuVars
  PROVE  MenuInv'
<1> DEFINE Ending == EndsWell(menu.ending, posted, kept, left, ItemsOf(menu))
<1>1. PICK i, r, c, l : /\ Shaped(i, r, c, l)
                        /\ i = menu.items /\ r = menu.rows /\ c = menu.columns /\ l = LastRow
  BY Shapes DEF MenuInv
<1>2. menu \in Demos /\ InView(i, cur, top) /\ marked \subseteq 0..(i - 1) /\ Ending
  BY <1>1 DEF MenuInv, InView, ItemsOf
<1>3. ASSUME menu' = menu, InView(i, cur', top'), marked' \subseteq 0..(i - 1), Ending'
      PROVE  MenuInv'
  BY <1>1, <1>2, <1>3 DEF MenuInv, InView, ItemsOf, RowOf, Page, LastRow
<1>4. ASSUME Key
      PROVE  menu' = menu /\ Ending'
  BY <1>2, <1>4 DEF Key, ItemsOf
<1> HIDE DEF Ending
<1>5. i \in Nat \ {0} /\ c \in {1, 3} /\ cur \in Int /\ Page \in Nat \ {0} /\ top \in Nat /\ l \in Nat
      /\ top + Page - 1 <= l /\ Page <= l + 1
  BY <1>1, <1>2, RowNumbers DEF Shaped, InView
<1>6. CASE DownUp
  <2>1. Key /\ menu' = menu /\ Ending'
    BY <1>4, <1>6 DEF DownUp
  <2>2. PICK j \in Int : GoTo(j)
    <3>1. Below(cur) \in Int /\ cur - menu.columns \in Int
      BY <1>1, <1>5 DEF Below
    <3>. QED
      BY <1>6, <3>1 DEF DownUp
  <2>3. InView(i, cur', top')
    BY <1>1, <1>2, <2>1, <2>2, GoingTo
  <2>. QED
    BY <1>2, <1>3, <2>1, <2>2, <2>3 DEF GoTo
<1>7. CASE LeftRight
  <2>1. Key /\ menu' = menu /\ Ending'
    BY <1>4, <1>7 DEF LeftRight
  <2>2. PICK j \in Int : GoTo(j)
    BY <1>5, <1>7 DEF LeftRight
  <2>3. InView(i, cur', top')
    BY <1>1, <1>2, <2>1, <2>2, GoingTo
  <2>. QED
    BY <1>2, <1>3, <2>1, <2>2, <2>3 DEF GoTo
<1>8. CASE PageKey
  <2>1. Key /\ menu' = menu /\ Ending' /\ marked' = marked
    BY <1>4, <1>8 DEF PageKey
  <2>2. PICK u \in Nat : u + Page - 1 <= l /\ Scroll(u)
    <3>1. PICK p \in Nat \ {0} : p = Page
      BY <1>5
    <3> DEFINE d == l + 1 - p - top
               v == top + (IF d < p THEN d ELSE p)
               w == IF top < p THEN 0 ELSE top - p
    <3>2. /\ v \in Nat /\ v + p - 1 <= l
          /\ w \in Nat /\ w + p - 1 <= l
      BY <1>5, <3>1
    <3>3. Scroll(v) \/ Scroll(w)
      BY <1>1, <1>8, <3>1 DEF PageKey
    <3> HIDE DEF v, w
    <3>. QED
      BY <3>1, <3>2, <3>3
  <2>3. InView(i, cur', top')
    BY <1>1, <1>2, <2>1, <2>2, Scrolling
  <2>. QED
    BY <1>2, <1>3, <2>1, <2>3
<1>9. ASSUME UNCHANGED <<menu, cur, top>>
      PROVE  InView(i, cur', top')
  BY <1>2, <1>9 DEF InView, RowOf, Page, LastRow
<1>10. CASE ToggleKey
  <2>1. Key /\ menu' = menu /\ Ending' /\ UNCHANGED <<menu, cur, top>>
    BY <1>4, <1>10 DEF ToggleKey, Key
  <2>2. marked' \subseteq 0..(i - 1)
    BY <1>2, <1>10 DEF ToggleKey, InView
  <2>. QED
    BY <1>3, <1>9, <2>1, <2>2
<1>11. CASE F1Key
  <2>1. Ending'
    BY <1>2, <1>11 DEF Ending, EndsWell, F1Key, ItemsOf
  <2>2. UNCHANGED <<menu, cur, top, marked>>
    BY <1>11 DEF F1Key
  <2>. QED
    BY <1>2, <1>3, <1>9, <2>1, <2>2
<1>12. CASE EndCall
  <2>1. UNCHANGED <<menu, cur, top, marked>> /\ left' = left + 1 /\ left \in 0..(Len(menu.ending) - 1)
    BY <1>12 DEF EndCall
  <2>2. menu.ending \in {FreeTwo, ItemsFirst, MenuFirst}
    BY <1>2, Shapes
  <2> DEFINE w == menu.ending
             call == w[left + 1]
  <2>3. /\ posted' \in BOOLEAN /\ (posted' <=> posted /\ call # "unpost_menu")
        /\ kept' = kept \ Freed(call)
    BY <1>12 DEF EndCall
  <2>4. TheMenu \notin ItemsOf(menu)
    BY <1>1, <1>5 DEF TheMenu, ItemsOf
  <2>5. EndsWell(w, posted, kept, left, ItemsOf(menu))
    BY <1>2 DEF Ending
  <2>6. CASE w = FreeTwo
    <3>1. /\ Len(w) = 3 /\ w[1] = "free_item_0" /\ w[2] = "free_item_1" /\ w[3] = "free_menu"
          /\ w # ItemsFirst /\ w # MenuFirst
      BY <2>6 DEF FreeTwo, ItemsFirst, MenuFirst
    <3>2. /\ left \in 0..2 /\ posted \in BOOLEAN /\ posted' \in BOOLEAN
          /\ posted /\ kept = {TheMenu} \cup ItemsOf(menu)
      BY <2>1, <2>3, <2>5, <2>6, <3>1 DEF EndsWell
    <3>3. posted' /\ kept' = {TheMenu} \cup ItemsOf(menu)
      <4>1. CASE left = 0
        <5>1. call = "free_item_0"
          BY <3>1, <4>1
        <5>2. Freed(call) = {}
          BY <2>4, <3>2, <4>1, <5>1 DEF Freed
        <5> HIDE DEF w, call
        <5>. QED
          BY <2>3, <2>4, <3>2, <4>1, <5>1, <5>2
      <4>2. CASE left = 1
        <5>1. call = "free_item_1"
          BY <3>1, <4>2
        <5>2. Freed(call) = {}
          BY <2>4, <3>2, <4>2, <5>1 DEF Freed
        <5> HIDE DEF w, call
        <5>. QED
          BY <2>3, <2>4, <3>2, <4>2, <5>1, <5>2
      <4>3. CASE left = 2
        <5>1. call = "free_menu"
          BY <3>1, <4>3
        <5>2. Freed(call) = {}
          BY <2>4, <3>2, <4>3, <5>1 DEF Freed
        <5> HIDE DEF w, call
        <5>. QED
          BY <2>3, <2>4, <3>2, <4>3, <5>1, <5>2
      <4>. QED
        BY <3>2, <4>1, <4>2, <4>3
    <3>4. w' = w /\ ItemsOf(menu') = ItemsOf(menu) /\ left' = left + 1 /\ left' \in 1..3
      BY <2>1, <3>2
    <3> HIDE DEF w
    <3>5. EndsWell(w', posted', kept', left', ItemsOf(menu'))
      BY <2>6, <3>1, <3>2, <3>3, <3>4 DEF EndsWell
    <3>. QED
      BY <1>2, <1>3, <1>9, <2>1, <3>5 DEF Ending, w
  <2>7. CASE w = ItemsFirst
    <3>1. /\ Len(w) = 3 /\ w[1] = "unpost_menu" /\ w[2] = "free_items" /\ w[3] = "free_menu"
          /\ w # FreeTwo /\ w # MenuFirst
      BY <2>7 DEF FreeTwo, ItemsFirst, MenuFirst
    <3>2. /\ left \in 0..2 /\ posted \in BOOLEAN /\ posted' \in BOOLEAN
          /\ (posted <=> left <= 0) /\ kept = {TheMenu} \cup ItemsOf(menu)
      BY <2>1, <2>3, <2>5, <2>7, <3>1 DEF EndsWell
    <3>3. ~posted' /\ kept' = IF left = 2 THEN ItemsOf(menu) ELSE {TheMenu} \cup ItemsOf(menu)
      <4>1. CASE left = 0
        <5>1. call = "unpost_menu"
          BY <3>1, <4>1
        <5>2. Freed(call) = {}
          BY <2>4, <3>2, <4>1, <5>1 DEF Freed
        <5> HIDE DEF w, call
        <5>. QED
          BY <2>3, <2>4, <3>2, <4>1, <5>1, <5>2
      <4>2. CASE left = 1
        <5>1. call = "free_items"
          BY <3>1, <4>2
        <5>2. Freed(call) = {}
          BY <2>4, <3>2, <4>2, <5>1 DEF Freed
        <5> HIDE DEF w, call
        <5>. QED
          BY <2>3, <2>4, <3>2, <4>2, <5>1, <5>2
      <4>3. CASE left = 2
        <5>1. call = "free_menu"
          BY <3>1, <4>3
        <5>2. Freed(call) = {TheMenu}
          BY <2>4, <3>2, <4>3, <5>1 DEF Freed
        <5> HIDE DEF w, call
        <5>. QED
          BY <2>3, <2>4, <3>2, <4>3, <5>1, <5>2
      <4>. QED
        BY <3>2, <4>1, <4>2, <4>3
    <3>4. w' = w /\ ItemsOf(menu') = ItemsOf(menu) /\ left' = left + 1 /\ left' \in 1..3
      BY <2>1, <3>2
    <3> HIDE DEF w
    <3>5. EndsWell(w', posted', kept', left', ItemsOf(menu'))
      BY <2>7, <3>1, <3>2, <3>3, <3>4 DEF EndsWell
    <3>. QED
      BY <1>2, <1>3, <1>9, <2>1, <3>5 DEF Ending, w
  <2>8. CASE w = MenuFirst
    <3>1. /\ Len(w) = 3 /\ w[1] = "unpost_menu" /\ w[2] = "free_menu" /\ w[3] = "free_items"
          /\ w # FreeTwo /\ w # ItemsFirst
      BY <2>8 DEF FreeTwo, ItemsFirst, MenuFirst
    <3>2. /\ left \in 0..2 /\ posted \in BOOLEAN /\ posted' \in BOOLEAN
          /\ (posted <=> left <= 0)
          /\ kept = IF left = 2 THEN ItemsOf(menu) ELSE {TheMenu} \cup ItemsOf(menu)
      BY <2>1, <2>3, <2>5, <2>8, <3>1 DEF EndsWell
    <3>3. ~posted' /\ kept' = IF left = 0 THEN {TheMenu} \cup ItemsOf(menu)
                              ELSE IF left = 1 THEN ItemsOf(menu) ELSE {}
      <4>1. CASE left = 0
        <5>1. call = "unpost_menu"
          BY <3>1, <4>1
        <5>2. Freed(call) = {}
          BY <2>4, <3>2, <4>1, <5>1 DEF Freed
        <5> HIDE DEF w, call
        <5>. QED
          BY <2>3, <2>4, <3>2, <4>1, <5>1, <5>2
      <4>2. CASE left = 1
        <5>1. call = "free_menu"
          BY <3>1, <4>2
        <5>2. Freed(call) = {TheMenu}
          BY <2>4, <3>2, <4>2, <5>1 DEF Freed
        <5> HIDE DEF w, call
        <5>. QED
          BY <2>3, <2>4, <3>2, <4>2, <5>1, <5>2
      <4>3. CASE left = 2
        <5>1. call = "free_items"
          BY <3>1, <4>3
        <5>2. Freed(call) = ItemsOf(menu)
          BY <2>4, <3>2, <4>3, <5>1 DEF Freed
        <5> HIDE DEF w, call
        <5>. QED
          BY <2>3, <2>4, <3>2, <4>3, <5>1, <5>2
      <4>. QED
        BY <3>2, <4>1, <4>2, <4>3
    <3>4. w' = w /\ ItemsOf(menu') = ItemsOf(menu) /\ left' = left + 1 /\ left' \in 1..3
      BY <2>1, <3>2
    <3> HIDE DEF w
    <3>5. EndsWell(w', posted', kept', left', ItemsOf(menu'))
      BY <2>8, <3>1, <3>2, <3>3, <3>4 DEF EndsWell
    <3>. QED
      BY <1>2, <1>3, <1>9, <2>1, <3>5 DEF Ending, w
  <2>. QED
    BY <2>2, <2>6, <2>7, <2>8
<1>13. CASE UNCHANGED menuVars
  <2>1. Ending' /\ UNCHANGED <<menu, cur, top, marked>>
    BY <1>2, <1>13 DEF Ending, menuVars, ItemsOf
  <2>. QED
    BY <1>2, <1>3, <1>9, <2>1
<1>. QED
  BY <1>6, <1>7, <1>8, <1>10, <1>11, <1>12, <1>13 DEF MenusNext

LEMMA MenusStart == MenusInit => MenuInv
<1> SUFFICES ASSUME MenusInit
             PROVE  MenuInv
  OBVIOUS
<1>1. PICK i, r, c, l : /\ Shaped(i, r, c, l)
                        /\ i = menu.items /\ r = menu.rows /\ c = menu.columns /\ l = LastRow
  BY Shapes DEF MenusInit
<1>2. /\ Page \in Nat \ {0} /\ Page <= l + 1
      /\ RowOf(0) \in Int /\ c * RowOf(0) <= 0 /\ 0 < c * (RowOf(0) + 1)
  BY <1>1, RowNumbers
<1>3. RowOf(0) = 0
  BY <1>1, <1>2 DEF Shaped
<1>4. menu.ending \in {FreeTwo, ItemsFirst, MenuFirst}
  BY Shapes DEF MenusInit
<1>. QED
  BY <1>1, <1>2, <1>3, <1>4 DEF MenusInit, MenuInv, EndsWell, ItemsOf, Shaped

LEMMA MenusAreFreed == MenuInv => MenusFreed
<1> SUFFICES ASSUME MenuInv
             PROVE  MenusFreed
  OBVIOUS
<1>1. menu.ending \in {FreeTwo, ItemsFirst, MenuFirst}
  BY Shapes DEF MenuInv
<1>2. Len(menu.ending) = 3 /\ FreeTwo # ItemsFirst /\ FreeTwo # MenuFirst
  BY <1>1 DEF FreeTwo, ItemsFirst, MenuFirst
<1>. QED
  BY <1>1, <1>2 DEF MenuInv, EndsWell, MenusFreed

-----------------------------------------------------------------------------
(* The demonstrations together. *)

(* A step is of one program; the others stay. *)
LEMMA DemoStep ==
  ASSUME [Next]_vars
  PROVE  /\ PanelsNext \/ UNCHANGED panelVars
         /\ BoxesNext \/ UNCHANGED boxVars
         /\ MenusNext \/ UNCHANGED menuVars
         /\ KeyMenusNext \/ UNCHANGED keyVars
<1> USE DEF Next, Puzzle, Demonstration, vars, demoVars
<1>1. PanelsNext \/ UNCHANGED panelVars
  OBVIOUS
<1>2. BoxesNext \/ UNCHANGED boxVars
  OBVIOUS
<1>3. MenusNext \/ UNCHANGED menuVars
  OBVIOUS
<1>4. KeyMenusNext \/ UNCHANGED keyVars
  OBVIOUS
<1>. QED
  BY <1>1, <1>2, <1>3, <1>4

(* Whatever keys are pressed and wherever is clicked, the demonstrations    *)
(* show what they hold: for every size of the screen, the windows and the   *)
(* boxes, every list of choices and every place of their window.            *)
THEOREM DemosShow == Spec => []DemosAgree
<1> DEFINE DemosInv == PanelInv /\ BoxInv /\ MenuInv /\ KeyMenuInv
<1>1. Init => DemosInv
  BY PanelsStart, BoxesStart, MenusStart, KeyMenusStart DEF Init, DemosInit
<1>2. DemosInv /\ [Next]_vars => DemosInv'
  BY DemoStep, PanelsSteps, BoxesSteps, MenuSteps, KeyMenusSteps
<1>3. DemosInv => DemosAgree
  BY PanelsAgreeing, BoxesAlone, MenusAreFreed DEF KeyMenuInv, DemosAgree
<1>. QED
  BY <1>1, <1>2, <1>3, PTL DEF Spec

-----------------------------------------------------------------------------
(* The cells of life.c. *)

(* The remainder of a number between two multiples. *)
LEMMA Modulo ==
  ASSUME NEW len \in Nat \ {0}, NEW val \in Nat, NEW times \in 0..2, val >= times * len, val < (times + 1) * len
  PROVE  val % len = val - times * len
<1> DEFINE q == val \div len
           r == val % len
           qn == q * len
           kn == times * len
<1>1. q \in Nat /\ r \in 0..len - 1 /\ val = q * len + r
  BY Quotient
<1> HIDE DEF q, r
<1>2. ASSUME NEW u \in Nat, NEW v \in Nat, u < v
      PROVE  u * len + len <= v * len
  <2>1. PICK w \in Nat : v = u + 1 + w
    BY <1>2
  <2>2. v * len = u * len + len + w * len /\ w * len \in Nat /\ u * len \in Nat
    BY <2>1
  <2>. QED
    BY <2>2
<1>3. qn \in Nat /\ kn \in Nat /\ val = qn + r /\ val >= kn /\ val < kn + len
  <2>1. (times + 1) * len = times * len + len
    OBVIOUS
  <2>. QED
    BY <1>1, <2>1
<1>4. q = times
  <2>1. q < times => qn + len <= kn
    BY <1>1, <1>2
  <2>2. ASSUME times < q PROVE kn + len <= qn
    <3>1. times \in Nat
      OBVIOUS
    <3>2. times * len + len <= q * len
      BY <1>1, <1>2, <2>2, <3>1
    <3>. QED
      BY <3>2
  <2> HIDE DEF qn, kn
  <2>. QED
    BY <1>1, <1>3, <2>1, <2>2
<1>5. qn = kn
  BY <1>4
<1> HIDE DEF qn, kn
<1>6. r = val - kn
  BY <1>1, <1>3, <1>5
<1>. QED
  BY <1>6 DEF r, kn

(* What calc's indices are at the edge of the screen. *)
LEMMA Neighbours ==
  ASSUME NEW len \in Nat \ {0}, len >= 3, NEW i \in 0..len - 1
  PROVE  /\ (i + 1) % len = IF i = len - 1 THEN 0 ELSE i + 1
         /\ ((i - 1) + len) % len = IF i = 0 THEN len - 1 ELSE i - 1
         /\ \A j : Near(i, j, len) <=> j \in {i, (i + 1) % len, ((i - 1) + len) % len}
<1>1. ASSUME NEW val \in Nat
      PROVE  /\ val < len => val % len = val
             /\ val >= len /\ val < len + len => val % len = val - len
             /\ val = len + len => val % len = 0
  <2>1. 0 * len = 0 /\ (0 + 1) * len = len /\ 1 * len = len /\ (1 + 1) * len = len + len /\ 2 * len = len + len
        /\ (2 + 1) * len = len + len + len
    OBVIOUS
  <2>2. ASSUME val < len PROVE val % len = val - 0
    <3>1. val >= 0 * len /\ val < (0 + 1) * len /\ 0 \in 0..2
      BY <2>1, <2>2
    <3>2. val % len = val - 0 * len
      BY <3>1, Modulo
    <3>. QED
      BY <2>1, <3>2
  <2>3. ASSUME val >= len, val < len + len PROVE val % len = val - len
    <3>1. val >= 1 * len /\ val < (1 + 1) * len /\ 1 \in 0..2
      BY <2>1, <2>3
    <3>2. val % len = val - 1 * len
      BY <3>1, Modulo
    <3>. QED
      BY <2>1, <3>2
  <2>4. ASSUME val = len + len PROVE val % len = val - (len + len)
    <3>1. val >= 2 * len /\ val < (2 + 1) * len /\ 2 \in 0..2
      BY <2>1, <2>4
    <3>2. val % len = val - 2 * len
      BY <3>1, Modulo
    <3>. QED
      BY <2>1, <3>2
  <2>. QED
    BY <2>2, <2>3, <2>4
<1>2. (i + 1) % len = IF i = len - 1 THEN 0 ELSE i + 1
  <2>1. CASE i = len - 1
    BY <1>1, <2>1
  <2>2. CASE i # len - 1
    BY <1>1, <2>2
  <2>. QED
    BY <2>1, <2>2
<1>3. ((i - 1) + len) % len = IF i = 0 THEN len - 1 ELSE i - 1
  BY <1>1
<1>4. ((i + 1) + len) % len = IF i = len - 1 THEN 0 ELSE i + 1
  <2>1. CASE i = len - 1
    BY <1>1, <2>1
  <2>2. CASE i # len - 1
    BY <1>1, <2>2
  <2>. QED
    BY <2>1, <2>2
<1>5. ((i + 0) + len) % len = i
  BY <1>1
<1>6. ((i + (-1)) + len) % len = IF i = 0 THEN len - 1 ELSE i - 1
  BY <1>1
<1>7. ASSUME NEW j
      PROVE  Near(i, j, len) <=> j \in {i, (i + 1) % len, ((i - 1) + len) % len}
  BY <1>2, <1>3, <1>4, <1>5, <1>6 DEF Near
<1>. QED
  BY <1>2, <1>3, <1>7

(* The eight cells around a cell of a torus that is wide enough. *)
LEMMA EightAround ==
  ASSUME COLS >= 3, LINES >= 3, NEW c \in Area, NEW ring, ring = Around(c[1], c[2])
  PROVE  /\ \A m \in 1..8 : ring[m] \in Area \ {c}
         /\ \A m, q \in 1..8 : ring[m] = ring[q] => m = q
         /\ \A b \in Area :
              Near(c[1], b[1], COLS) /\ Near(c[2], b[2], LINES) <=>
                b = c \/ \E m \in 1..8 : b = ring[m]
<1>1. PICK i \in 0..COLS - 1, j \in 0..LINES - 1 : c = <<i, j>>
  BY DEF Area
<1> DEFINE w == ((i - 1) + COLS) % COLS
           e == (i + 1) % COLS
           u == ((j - 1) + LINES) % LINES
           d == (j + 1) % LINES
<1>2. /\ w \in 0..COLS - 1 /\ e \in 0..COLS - 1 /\ w # i /\ e # i /\ w # e
      /\ \A q : Near(i, q, COLS) <=> q \in {i, e, w}
  <2>1. COLS \in Nat \ {0} /\ COLS >= 3
    BY ScreenAssumption
  <2>2. /\ e = IF i = COLS - 1 THEN 0 ELSE i + 1
        /\ w = IF i = 0 THEN COLS - 1 ELSE i - 1
        /\ \A q : Near(i, q, COLS) <=> q \in {i, e, w}
    BY <2>1, Neighbours
  <2> HIDE DEF w, e
  <2>. QED
    BY <2>1, <2>2
<1>3. /\ u \in 0..LINES - 1 /\ d \in 0..LINES - 1 /\ u # j /\ d # j /\ u # d
      /\ \A q : Near(j, q, LINES) <=> q \in {j, d, u}
  <2>1. LINES \in Nat \ {0} /\ LINES >= 3
    BY ScreenAssumption
  <2>2. /\ d = IF j = LINES - 1 THEN 0 ELSE j + 1
        /\ u = IF j = 0 THEN LINES - 1 ELSE j - 1
        /\ \A q : Near(j, q, LINES) <=> q \in {j, d, u}
    BY <2>1, Neighbours
  <2> HIDE DEF u, d
  <2>. QED
    BY <2>1, <2>2
<1>4. ring = <<<<w, j>>, <<w, u>>, <<w, d>>, <<e, j>>, <<e, u>>, <<e, d>>, <<i, u>>, <<i, d>>>>
  BY <1>1 DEF Around
<1> HIDE DEF w, e, u, d
<1>5. /\ ring[1] = <<w, j>> /\ ring[2] = <<w, u>> /\ ring[3] = <<w, d>> /\ ring[4] = <<e, j>>
      /\ ring[5] = <<e, u>> /\ ring[6] = <<e, d>> /\ ring[7] = <<i, u>> /\ ring[8] = <<i, d>>
  BY <1>4
<1>6. \A m \in 1..8 : m \in {1, 2, 3, 4, 5, 6, 7, 8}
  OBVIOUS
<1>7. \A m \in 1..8 : ring[m] \in Area \ {c}
  BY <1>1, <1>2, <1>3, <1>5, <1>6 DEF Area
<1>8. \A m, q \in 1..8 : ring[m] = ring[q] => m = q
  BY <1>2, <1>3, <1>5, <1>6
<1>9. ASSUME NEW b \in Area
      PROVE  Near(c[1], b[1], COLS) /\ Near(c[2], b[2], LINES) <=>
                b = c \/ \E m \in 1..8 : b = ring[m]
  <2>1. PICK x \in 0..COLS - 1, y \in 0..LINES - 1 : b = <<x, y>>
    BY DEF Area
  <2>2. Near(c[1], b[1], COLS) /\ Near(c[2], b[2], LINES) <=> x \in {i, e, w} /\ y \in {j, d, u}
    BY <1>1, <1>2, <1>3, <2>1
  <2>3. (\E m \in 1..8 : b = ring[m]) <=> x \in {i, e, w} /\ y \in {j, d, u} /\ b # c
    BY <1>1, <1>2, <1>3, <1>5, <1>6, <2>1
  <2>4. b = c => x \in {i, e, w} /\ y \in {j, d, u}
    BY <1>1, <2>1
  <2>. QED
    BY <2>2, <2>3, <2>4
<1>. QED
  BY <1>7, <1>8, <1>9

(* The rule of the program is Conway's. *)
LEMMA RulesAgree ==
  ASSUME COLS >= 3, LINES >= 3, oldstate \subseteq Area, NEW c \in Area
  PROVE  Lives(c[1], c[2]) <=> c \in Conway
<1> DEFINE ring == Around(c[1], c[2])
           M == {m \in 1..8 : ring[m] \in oldstate}
           R == Block(c) \ {c}
           f == [m \in M |-> ring[m]]
<1>1. /\ \A m \in 1..8 : ring[m] \in Area \ {c}
      /\ \A m, rank \in 1..8 : ring[m] = ring[rank] => m = rank
      /\ \A b \in Area :
           Near(c[1], b[1], COLS) /\ Near(c[2], b[2], LINES) <=> b = c \/ \E m \in 1..8 : b = ring[m]
  BY EightAround
<1> HIDE DEF ring
<1>2. \A b : b \in R <=> b \in oldstate /\ \E m \in 1..8 : b = ring[m]
  BY <1>1 DEF Block
<1> HIDE DEF R
<1>3. f \in Bijection(M, R)
  BY <1>1, <1>2 DEF Bijection, Injection, Surjection, IsInjective
<1>4. IsFiniteSet(M)
  <2>1. 1 \in Int /\ 8 \in Int
    OBVIOUS
  <2>2. IsFiniteSet(1..8)
    BY <2>1, FS_Interval, Zenon
  <2>. QED
    BY <2>2, FS_Subset
<1>5. IsFiniteSet(R) /\ Cardinality(R) = Cardinality(M) /\ Cardinality(M) \in Nat
  BY <1>3, <1>4, FS_Bijection, FS_CardinalityType DEF ExistsBijection
<1>6. c \in Block(c) <=> c \in oldstate
  BY <1>1 DEF Block
<1>7. Block(c) = IF c \in oldstate THEN R \cup {c} ELSE R
  BY <1>6 DEF R
<1>8. c \notin R
  BY DEF R
<1>9. Cardinality(Block(c)) = IF c \in oldstate THEN Cardinality(M) + 1 ELSE Cardinality(M)
  BY <1>5, <1>7, <1>8, FS_AddElement
<1>10. Counted(c[1], c[2]) = Cardinality(M)
  BY DEF Counted, ring
<1>11. c = <<c[1], c[2]>>
  BY DEF Area
<1> HIDE DEF M
<1>. QED
  BY <1>5, <1>9, <1>10, <1>11 DEF Lives, Conway

(* While a generation is computed the new states are right up to the cell   *)
(* computed next, and nothing of it is wrong afterwards.                    *)
LifeInv ==
  /\ life \in {"starts", "waits", "computes", "left", "undef"}
  /\ oldstate \subseteq Area /\ newstate \subseteq Area
  /\ life \in {"waits", "computes"} => COLS >= 3 /\ LINES >= 3
  /\ life = "starts" \/ life = "waits" => cell = <<0, 0>>
  /\ life = "computes" =>
       /\ cell \in Area \cup {<<COLS, 0>>}
       /\ \A c \in Area : Before(c, cell) => (c \in newstate <=> c \in Conway)
  /\ life = "undef" => COLS < ShapeX + 3 \/ LINES < ShapeY + 3

(* A screen with room for the first shape is three cells wide and high. *)
LEMMA ShapeFits ==
  /\ Shape \subseteq Area => COLS >= 3 /\ LINES >= 3
  /\ COLS >= ShapeX + 3 /\ LINES >= ShapeY + 3 => Shape \subseteq Area
<1>1. ASSUME Shape \subseteq Area
      PROVE  COLS >= 3 /\ LINES >= 3
  <2>1. <<ShapeX + 2, ShapeY + 2>> \in Shape
    BY DEF Shape
  <2>2. ShapeX + 2 \in 0..COLS - 1 /\ ShapeY + 2 \in 0..LINES - 1
    BY <1>1, <2>1 DEF Area
  <2>. QED
    BY <2>2, ScreenAssumption
<1>2. ASSUME COLS >= ShapeX + 3, LINES >= ShapeY + 3, NEW c \in Shape
      PROVE  c \in Area
  <2>1. PICK x \in {0, 1, 2}, y \in {0, 1, 2} : c = <<ShapeX + x, ShapeY + y>>
    BY DEF Shape
  <2>. QED
    BY <1>2, <2>1, ScreenAssumption DEF Area
<1>. QED
  BY <1>1, <1>2

(* A turn of calc's loops adds one cell to those that are done. *)
LEMMA CellComputed == LifeInv /\ calc => LifeInv'
<1> SUFFICES ASSUME LifeInv, calc
             PROVE  LifeInv'
  OBVIOUS
<1>1. /\ COLS >= 3 /\ LINES >= 3 /\ oldstate \subseteq Area /\ newstate \subseteq Area
      /\ life = "computes" /\ cell \in Area /\ oldstate' = oldstate /\ life' = life
      /\ \A c \in Area : Before(c, cell) => (c \in newstate <=> c \in Conway)
  BY DEF LifeInv, calc
<1>2. Conway' = Conway
  BY <1>1 DEF Conway, Block
<1>3. cell \in newstate' <=> cell \in Conway
  BY <1>1, RulesAgree DEF calc
<1>4. newstate' \subseteq Area /\ \A c \in Area : c # cell => (c \in newstate' <=> c \in newstate)
  BY <1>1 DEF calc
<1>5. PICK i \in 0..COLS - 1, j \in 0..LINES - 1 : cell = <<i, j>>
  BY <1>1 DEF Area
<1>6. cell' = IF j < LINES - 1 THEN <<i, j + 1>> ELSE <<i + 1, 0>>
  BY <1>5 DEF calc
<1>7. cell' \in Area \cup {<<COLS, 0>>}
  BY <1>5, <1>6, ScreenAssumption DEF Area
<1>8. ASSUME NEW c \in Area, Before(c, cell')
      PROVE  Before(c, cell) \/ c = cell
  <2>1. PICK x \in 0..COLS - 1, y \in 0..LINES - 1 : c = <<x, y>>
    BY DEF Area
  <2>. QED
    BY <1>5, <1>6, <1>8, <2>1, ScreenAssumption DEF Before
<1>9. \A c \in Area : Before(c, cell') => (c \in newstate' <=> c \in Conway')
  BY <1>1, <1>2, <1>3, <1>4, <1>8
<1>. QED
  BY <1>1, <1>4, <1>7, <1>9 DEF LifeInv

LEMMA LifeSteps == LifeInv /\ (LifeNext \/ UNCHANGED lifeVars) => LifeInv'
<1> SUFFICES ASSUME LifeInv, LifeNext \/ UNCHANGED lifeVars
             PROVE  LifeInv'
  OBVIOUS
<1>1. CASE LifeStart
  BY <1>1, ShapeFits, ScreenAssumption DEF LifeInv, LifeStart
<1>2. CASE LifeKey
  <2>1. ASSUME NEW c \in Area
        PROVE  ~Before(c, <<0, 0>>)
    BY ScreenAssumption DEF Before, Area
  <2>2. <<0, 0>> \in Area
    BY ScreenAssumption DEF Area
  <2>. QED
    BY <1>2, <2>1, <2>2 DEF LifeInv, LifeKey
<1>3. CASE calc
  BY <1>3, CellComputed
<1>4. CASE update_state
  BY <1>4 DEF LifeInv, update_state
<1>5. CASE UNCHANGED lifeVars
  <2>1. Conway' = Conway
    BY <1>5 DEF Conway, Block, lifeVars
  <2>. QED
    BY <1>5, <2>1 DEF LifeInv, lifeVars
<1>. QED
  BY <1>1, <1>2, <1>3, <1>4, <1>5 DEF LifeNext

(* When the loops end, the cells done are all. *)
LEMMA GenerationDone == LifeInv => LifeIsConway
<1> SUFFICES ASSUME LifeInv, life = "computes", cell \notin Area
             PROVE  newstate = Conway
  BY DEF LifeIsConway
<1>1. cell = <<COLS, 0>>
  BY DEF LifeInv
<1>2. \A c \in Area : Before(c, cell)
  BY <1>1, ScreenAssumption DEF Before, Area
<1>. QED
  BY <1>2 DEF LifeInv, Conway

-----------------------------------------------------------------------------
(* The queens. *)

(* A set of numbers that is not empty has a least one. *)
LEMMA LeastNumber ==
  ASSUME NEW S \in SUBSET Nat, S # {}
  PROVE  \E x \in S : \A y \in S : x <= y
<1> DEFINE Less == OpToRel(<, Nat)
<1>1. IsWellFoundedOn(Less, Nat)
  BY NatLessThanWellFounded, Zenon
<1>2. \A x, y \in Nat : x < y => <<x, y>> \in Less
  BY Zenon DEF OpToRel
<1> HIDE DEF Less
<1>3. PICK x \in S : \A y \in S : ~ (<<y, x>> \in Less)
  BY <1>1, WFMin
<1>4. ASSUME NEW y \in S
      PROVE  x <= y
  <2>1. x \in Nat /\ y \in Nat /\ ~(y < x)
    BY <1>2, <1>3
  <2>. QED
    BY <2>1
<1>. QED
  BY <1>4

(* p and pos have the same queens before row rank.                             *)
Same(p, pos, rank) == \A i \in 1..(rank - 1) : p[i] = pos[i]

(* Where they differ first, before row rank, p has the lower column.           *)
Behind(p, pos, rank) == \E j \in 1..(rank - 1) : Same(p, pos, j) /\ p[j] < pos[j]

(* The search has passed p when it stands at column pos[rank] of row rank.        *)
Passed(p, pos, rank) == rank = 0 \/ Behind(p, pos, rank) \/ (Same(p, pos, rank) /\ p[rank] <= pos[rank])

LEMMA RowMore ==
  ASSUME NEW rank \in Nat \ {0}, NEW p, NEW pos
  PROVE  /\ Same(p, pos, rank + 1) <=> Same(p, pos, rank) /\ p[rank] = pos[rank]
         /\ Behind(p, pos, rank + 1) <=> Behind(p, pos, rank) \/ (Same(p, pos, rank) /\ p[rank] < pos[rank])
<1>1. \A i : i \in 1..(rank + 1) - 1 <=> i \in 1..(rank - 1) \/ i = rank
  OBVIOUS
<1>. QED
  BY <1>1 DEF Same, Behind

(* Only the queens before row rank count. *)
LEMMA RowsBefore ==
  ASSUME NEW rank \in Nat \ {0}, NEW p, NEW pos, NEW later, \A i \in 1..(rank - 1) : later[i] = pos[i]
  PROVE  (Same(p, later, rank) <=> Same(p, pos, rank)) /\ (Behind(p, later, rank) <=> Behind(p, pos, rank))
<1>1. \A j \in 1..(rank - 1) : \A i \in 1..(j - 1) : i \in 1..(rank - 1)
  OBVIOUS
<1>. QED
  BY <1>1 DEF Same, Behind

(* The queens before row rank do not attack each other.                        *)
Apart(pos, rank) ==
  \A i, j \in 1..(rank - 1) : i # j => ~Attack(i, pos[i], j, pos[j])

(* place looks for an attack from either side. *)
LEMMA PlaceMeans ==
  ASSUME NEW pos, NEW rank \in Nat, NEW c \in Int, \A i \in 1..(rank - 1) : pos[i] \in Int
  PROVE  place(rank, c, pos) <=>
           \A i \in 1..(rank - 1) : ~Attack(i, pos[i], rank, c) /\ ~Attack(rank, c, i, pos[i])
<1>1. ASSUME NEW i \in 1..(rank - 1)
      PROVE  /\ (pos[i] # c /\ Distance(pos[i], c) # Distance(i, rank)) <=> ~Attack(i, pos[i], rank, c)
             /\ Attack(rank, c, i, pos[i]) <=> Attack(i, pos[i], rank, c)
  BY DEF Distance, Attack
<1>. QED
  BY <1>1 DEF place

(* The queens of one more row are apart if place says so. *)
LEMMA ApartMore ==
  ASSUME NEW pos, NEW rank \in Nat \ {0}, \A i \in 1..rank : pos[i] \in Int, Apart(pos, rank)
  PROVE  Apart(pos, rank + 1) <=> place(rank, pos[rank], pos)
<1>1. \A i : i \in 1..(rank + 1) - 1 <=> i \in 1..(rank - 1) \/ i = rank
  OBVIOUS
<1>2. place(rank, pos[rank], pos) <=>
        \A i \in 1..(rank - 1) : ~Attack(i, pos[i], rank, pos[rank]) /\ ~Attack(rank, pos[rank], i, pos[i])
  BY PlaceMeans
<1>. QED
  BY <1>1, <1>2 DEF Apart

(* Both look at the rows before only. *)
LEMMA ApartSame ==
  ASSUME NEW rank \in Nat \ {0}, NEW pos, NEW later, \A i \in 1..(rank - 1) : later[i] = pos[i]
  PROVE  /\ Apart(later, rank) <=> Apart(pos, rank)
         /\ \A c : place(rank, c, later) <=> place(rank, c, pos)
BY DEF Apart, place

(* A solution has no queen attacked. *)
LEMMA SolutionMeans ==
  ASSUME num \in Nat
  PROVE  \A p : p \in Solutions <=> p \in [1..num -> 1..num] /\ Apart(p, num + 1)
<1>1. \A i : i \in 1..(num + 1) - 1 <=> i \in 1..num
  OBVIOUS
<1>. QED
  BY <1>1 DEF Solutions, Apart

(* A solution that goes on from the queens before row rank has one that fits. *)
LEMMA SolutionFits ==
  ASSUME num \in Nat, NEW rank \in 1..num, NEW pos, NEW p \in Solutions, Same(p, pos, rank)
  PROVE  place(rank, p[rank], pos)
<1>1. p \in [1..num -> 1..num] /\ Apart(p, num + 1)
  BY SolutionMeans
<1>2. \A i \in 1..rank : p[i] \in Int /\ i \in 1..(num + 1) - 1
  BY <1>1
<1>3. \A i \in 1..(rank - 1) : ~Attack(i, p[i], rank, p[rank]) /\ ~Attack(rank, p[rank], i, p[i])
  <2>1. rank \in 1..(num + 1) - 1 /\ \A i \in 1..(rank - 1) : i \in 1..(num + 1) - 1 /\ i # rank
    OBVIOUS
  <2>. QED
    BY <1>1, <2>1 DEF Apart
<1>4. place(rank, p[rank], p)
  BY <1>2, <1>3, PlaceMeans
<1>. QED
  BY <1>4 DEF Same, place

(* No column of row rank between that of its queen and c fits. *)
NoneFits(rank, pos, c) == \A d \in (pos[rank] + 1)..num : place(rank, d, pos) => c <= d

(* NextColumn is the least column that fits. *)
LEMMA NextFits ==
  ASSUME num \in Nat, current \in 1..num, position[current] \in 0..num
  PROVE  /\ NextColumn \in (position[current] + 1)..num => place(current, NextColumn, position)
         /\ NextColumn \in ((position[current] + 1)..num) \cup {num + 1}
         /\ NoneFits(current, position, NextColumn)
<1> DEFINE fits == {c \in (position[current] + 1)..num : place(current, c, position)}
           c0 == CHOOSE c \in fits \cup {num + 1} : \A d \in fits : c <= d
<1>1. PICK x \in fits \cup {num + 1} : \A y \in fits \cup {num + 1} : x <= y
  <2>1. fits \cup {num + 1} \in SUBSET Nat /\ fits \cup {num + 1} # {}
    OBVIOUS
  <2> HIDE DEF fits
  <2>. QED
    BY <2>1, LeastNumber
<1>2. c0 \in fits \cup {num + 1} /\ \A d \in fits : c0 <= d
  <2>1. x \in fits \cup {num + 1} /\ \A d \in fits : x <= d
    BY <1>1
  <2> HIDE DEF fits
  <2>. QED
    BY <2>1
<1>3. NextColumn = c0
  BY DEF NextColumn
<1> HIDE DEF c0
<1>. QED
  BY <1>2, <1>3 DEF NoneFits

(* What has been shown are the solutions the search has passed, each once.  *)
Listed(f, pos, rank) ==
  /\ f \in Seq(Solutions)
  /\ \A i, j \in 1..Len(f) : i # j => f[i] # f[j]
  /\ \A p \in Solutions : (\E i \in 1..Len(f) : f[i] = p) <=> Passed(p, pos, rank)

QueensInv ==
  /\ queens \in {"starts", "searches", "shows", "ends", "left", "undef"}
  /\ queens \in {"starts", "undef"} => position = <<>> /\ current = 0 /\ found = <<>>
  /\ queens \notin {"starts", "undef"} =>
       /\ num \in Nat \ {0} /\ current \in 0..num
       /\ position \in [1..num -> 0..(num + 1)]
       /\ \A i \in 1..(current - 1) : position[i] \in 1..num
       /\ current > 0 => position[current] \in 0..num
       /\ current > 0 => Apart(position, current)
       /\ Listed(found, position, current)
  /\ queens = "ends" => current = 0

(* No solution is left out between one place of the search and the next.    *)
LEMMA NothingSkipped ==
  ASSUME num \in Nat, NEW rank \in 1..num, NEW pos \in [1..num -> 0..(num + 1)], NEW c \in Nat,
         NEW later, \A i \in 1..(rank - 1) : later[i] = pos[i],
         NoneFits(rank, pos, c), pos[rank] < c, later[rank] = c, NEW p \in Solutions
  PROVE  /\ Behind(p, later, rank + 1) <=> Passed(p, pos, rank)
         /\ c > num => (Passed(p, later, rank - 1) <=> Passed(p, pos, rank))
<1>1. p \in [1..num -> 1..num] /\ p[rank] \in 1..num /\ pos[rank] \in Nat /\ rank \in Nat \ {0}
  <2>1. p \in [1..num -> 1..num]
    BY SolutionMeans
  <2>2. p[rank] \in 1..num /\ pos[rank] \in 0..(num + 1)
    BY <2>1
  <2>3. rank \in Nat \ {0} /\ \A x : x \in 0..(num + 1) => x \in Nat
    OBVIOUS
  <2>4. pos[rank] \in Nat
    BY <2>2, <2>3, Zenon
  <2>. QED
    BY <2>1, <2>2, <2>3, <2>4, Zenon
<1>2. Same(p, pos, rank) => (p[rank] < c <=> p[rank] <= pos[rank])
  <2> SUFFICES ASSUME Same(p, pos, rank)
               PROVE  p[rank] < c <=> p[rank] <= pos[rank]
    OBVIOUS
  <2>1. ASSUME p[rank] < c, pos[rank] < p[rank]
        PROVE  FALSE
    <3>1. place(rank, p[rank], pos)
      BY SolutionFits
    <3>2. p[rank] \in (pos[rank] + 1)..num
      BY <1>1, <2>1
    <3>. QED
      BY <1>1, <2>1, <3>1, <3>2 DEF NoneFits
  <2> DEFINE pk == p[rank]
             qk == pos[rank]
  <2>2. pk \in 1..num /\ qk \in Nat /\ c \in Nat /\ qk < c /\ ~(pk < c /\ qk < pk)
    BY <1>1, <2>1, Zenon
  <2> HIDE DEF pk, qk
  <2>3. pk < c <=> pk <= qk
    BY <2>2
  <2>. QED
    BY <2>3 DEF pk, qk
<1>3. (Same(p, later, rank) <=> Same(p, pos, rank)) /\ (Behind(p, later, rank) <=> Behind(p, pos, rank))
  BY <1>1, RowsBefore
<1>4. Behind(p, later, rank + 1) <=> Passed(p, pos, rank)
  BY <1>2, <1>3, RowMore DEF Passed
<1>5. ASSUME c > num
      PROVE  Passed(p, later, rank - 1) <=> Passed(p, pos, rank)
  <2>1. CASE rank = 1
    BY <1>1, <1>2, <1>5, <2>1 DEF Passed, Same
  <2>2. CASE rank # 1
    <3>1. PICK m \in Nat \ {0} : rank = m + 1
      BY <2>2
    <3>2. m \in 1..num /\ m = rank - 1
      BY <3>1
    <3>3. /\ Same(p, pos, rank) <=> Same(p, pos, m) /\ p[m] = pos[m]
          /\ Behind(p, pos, rank) <=> Behind(p, pos, m) \/ (Same(p, pos, m) /\ p[m] < pos[m])
      BY <3>1, RowMore
    <3>4. p[m] \in Nat /\ pos[m] \in Nat /\ later[m] = pos[m]
      <4>1. m \in 1..(rank - 1)
        BY <3>2
      <4>2. p[m] \in 1..num /\ pos[m] \in 0..(num + 1) /\ later[m] = pos[m]
        BY <1>1, <3>2, <4>1, Zenon
      <4>3. \A x : x \in 1..num \/ x \in 0..(num + 1) => x \in Nat
        OBVIOUS
      <4>. QED
        BY <4>2, <4>3, Zenon
    <3>5. (Same(p, later, m) <=> Same(p, pos, m)) /\ (Behind(p, later, m) <=> Behind(p, pos, m))
      <4>1. \A i \in 1..(m - 1) : later[i] = pos[i]
        BY <3>2
      <4>. QED
        BY <4>1, RowsBefore
    <3>6. Passed(p, later, m) <=> Behind(p, pos, rank) \/ Same(p, pos, rank)
      BY <3>3, <3>4, <3>5 DEF Passed
    <3>7. Same(p, pos, rank) => p[rank] <= pos[rank]
      BY <1>1, <1>2, <1>5
    <3>. QED
      BY <3>2, <3>6, <3>7 DEF Passed
  <2>. QED
    BY <2>1, <2>2
<1>. QED
  BY <1>4, <1>5

(* A step of the search passes over no solution and shows none twice. *)
LEMMA SearchSteps ==
  ASSUME QueensInv, nqueens
  PROVE  QueensInv'
<1> DEFINE c == NextColumn
           moved == [position EXCEPT ![current] = c]
<1>1. /\ num \in Nat \ {0} /\ current \in 1..num /\ position \in [1..num -> 0..(num + 1)]
      /\ \A i \in 1..(current - 1) : position[i] \in 1..num
      /\ Apart(position, current) /\ Listed(found, position, current)
      /\ num' = num /\ queens = "searches"
  BY DEF QueensInv, nqueens
<1>2. position[current] \in 0..num
  BY DEF QueensInv, nqueens
<1>3. /\ c \in (position[current] + 1)..num => place(current, c, position)
      /\ c \in ((position[current] + 1)..num) \cup {num + 1}
      /\ NoneFits(current, position, c)
  BY <1>1, <1>2, NextFits
<1> HIDE DEF c
<1>4. moved \in [1..num -> 0..(num + 1)] /\ moved[current] = c
      /\ \A i \in 1..num : i # current => moved[i] = position[i]
  BY <1>1, <1>3
<1> DEFINE next1 == [moved EXCEPT ![current + 1] = 0]
<1>5. current + 1 \in 1..num =>
        next1 \in [1..num -> 0..(num + 1)] /\ next1[current + 1] = 0
        /\ \A i \in 1..current : next1[i] = moved[i]
  BY <1>1, <1>4
<1>6. Solutions' = Solutions
  BY <1>1 DEF Solutions
<1>7. \/ /\ c <= num /\ current = num /\ position' = moved
         /\ found' = Append(found, moved) /\ queens' = "shows" /\ current' = current
      \/ /\ c <= num /\ current # num /\ position' = next1
         /\ current' = current + 1 /\ found' = found /\ queens' = queens
      \/ /\ c > num /\ position' = moved
         /\ current' = current - 1 /\ found' = found /\ queens' = queens
  BY DEF nqueens, c
<1> HIDE DEF moved, next1
<1>8. \A i \in 1..(current - 1) : moved[i] = position[i] /\ moved[i] \in 1..num
  BY <1>1, <1>4
<1>9. Apart(moved, current)
  <2>1. current \in Nat \ {0} /\ \A i \in 1..(current - 1) : moved[i] = position[i]
    BY <1>1, <1>8
  <2>2. Apart(moved, current) <=> Apart(position, current)
    BY <2>1, ApartSame
  <2>. QED
    BY <1>1, <2>2
<1>10. c <= num => Apart(moved, current + 1) /\ c \in 1..num
  <2>1. c <= num => place(current, c, position) /\ c \in 1..num
    BY <1>1, <1>3
  <2>2. \A i \in 1..current : moved[i] \in Int
    BY <1>1, <1>4
  <2>3. place(current, moved[current], moved) <=> place(current, c, position)
    BY <1>1, <1>4, <1>8, ApartSame
  <2>. QED
    BY <1>1, <1>9, <2>1, <2>2, <2>3, ApartMore
<1>11. \A p \in Solutions :
         /\ Behind(p, moved, current + 1) <=> Passed(p, position, current)
         /\ c > num => (Passed(p, moved, current - 1) <=> Passed(p, position, current))
  <2>1. TAKE p \in Solutions
  <2>2. /\ num \in Nat /\ current \in 1..num /\ position \in [1..num -> 0..(num + 1)] /\ c \in Nat
        /\ \A i \in 1..(current - 1) : moved[i] = position[i]
        /\ NoneFits(current, position, c) /\ position[current] < c /\ moved[current] = c
    <3> DEFINE q == position[current]
    <3>1. q \in Nat /\ c \in ((q + 1)..num) \cup {num + 1} /\ q \in 0..num
      BY <1>1, <1>2, <1>3
    <3> HIDE DEF q
    <3>2. q < c /\ c \in Nat
      BY <1>1, <3>1
    <3>. QED
      BY <1>1, <1>3, <1>4, <1>8, <3>2 DEF q
  <2>. QED
    BY <2>2, NothingSkipped
<1>12. c \in Nat /\ num \in Nat /\ current \in Nat \ {0}
  BY <1>1, <1>2, <1>3
<1>13. CASE c <= num /\ current = num
  <2>1. moved \in Solutions
    <3>1. \A i \in 1..num : moved[i] \in 1..num
      BY <1>1, <1>4, <1>8, <1>10, <1>13
    <3>2. moved \in [1..num -> 1..num]
      BY <1>4, <3>1
    <3>. QED
      BY <1>1, <1>10, <1>13, <3>2, SolutionMeans
  <2>2. ~Passed(moved, position, current)
    <3>1. ~Behind(moved, moved, current + 1)
      <4>1. ASSUME NEW j \in 1..(current + 1) - 1, moved[j] < moved[j]
            PROVE  FALSE
        <5>1. moved[j] \in 1..num
          BY <1>1, <1>4, <1>8, <1>10, <1>13
        <5>. QED
          BY <4>1, <5>1
      <4>. QED
        BY <4>1 DEF Behind
    <3>. QED
      BY <1>11, <2>1, <3>1
  <2>3. \A p \in Solutions : Passed(p, moved, current) <=> Passed(p, position, current) \/ p = moved
    <3>1. ASSUME NEW p \in Solutions
          PROVE  Passed(p, moved, current) <=> Passed(p, position, current) \/ p = moved
      <4>1. Behind(p, moved, current + 1) <=> Behind(p, moved, current) \/ (Same(p, moved, current) /\ p[current] < c)
        BY <1>4, <1>12, RowMore
      <4>2. Same(p, moved, current + 1) <=> Same(p, moved, current) /\ p[current] = c
        BY <1>4, <1>12, RowMore
      <4>3. p[current] \in 1..num /\ c \in 1..num
        BY <1>1, <1>10, <1>13 DEF Solutions
      <4>4. Same(p, moved, current + 1) <=> p = moved
        <5>1. p \in [1..num -> 1..num] /\ moved \in [1..num -> 1..num]
          BY <2>1 DEF Solutions
        <5>2. \A i : i \in 1..(current + 1) - 1 <=> i \in 1..num
          BY <1>1, <1>13
        <5>3. ASSUME \A i \in 1..num : p[i] = moved[i]
              PROVE  p = moved
          <6> DEFINE D == 1..num
          <6>1. p \in [D -> D] /\ moved \in [D -> D] /\ \A i \in D : p[i] = moved[i]
            BY <5>1, <5>3
          <6> HIDE DEF D
          <6>. QED
            BY <6>1
        <5>. QED
          BY <5>2, <5>3, Zenon DEF Same
      <4>5. Passed(p, moved, current) <=>
              Behind(p, moved, current) \/ (Same(p, moved, current) /\ p[current] <= c)
        BY <1>1, <1>4 DEF Passed
      <4>6. p[current] <= c <=> p[current] < c \/ p[current] = c
        BY <4>3
      <4>. QED
        BY <1>11, <4>1, <4>2, <4>4, <4>5, <4>6
    <3>. QED
      BY <3>1
  <2>4. Listed(found', moved, current)
    <3>1. found' = Append(found, moved) /\ found \in Seq(Solutions)
      BY <1>1, <1>7, <1>13, <1>12 DEF Listed
    <3> DEFINE m == Len(found)
    <3>2. /\ found' \in Seq(Solutions) /\ Len(found') = m + 1 /\ m \in Nat
          /\ found'[m + 1] = moved /\ \A i \in 1..m : found'[i] = found[i]
      BY <2>1, <3>1
    <3>3. \A i \in 1..m : found[i] # moved
      BY <1>1, <2>1, <2>2 DEF Listed
    <3>4. \A i, j \in 1..m : i # j => found[i] # found[j]
      BY <1>1 DEF Listed
    <3>5. \A p \in Solutions : (\E i \in 1..m : found[i] = p) <=> Passed(p, position, current)
      BY <1>1 DEF Listed
    <3> HIDE DEF m
    <3>6. \A i : i \in 1..(m + 1) <=> i \in 1..m \/ i = m + 1
      BY <3>2
    <3>7. \A i, j \in 1..(m + 1) : i # j => found'[i] # found'[j]
      BY <3>2, <3>3, <3>4, <3>6
    <3>8. \A p \in Solutions : (\E i \in 1..(m + 1) : found'[i] = p) <=> Passed(p, moved, current)
      BY <2>3, <3>2, <3>5, <3>6
    <3>. QED
      BY <3>2, <3>7, <3>8 DEF Listed
  <2>5. position' = moved /\ current' = current /\ queens' = "shows"
    BY <1>7, <1>13, <1>12
  <2>6. Listed(found', position', current')
    BY <2>4, <2>5
  <2>. QED
    BY <1>1, <1>4, <1>6, <1>8, <1>9, <1>10, <1>13, <2>5, <2>6 DEF QueensInv, Listed
<1>14. CASE c <= num /\ current # num
  <2>1. position' = next1 /\ current' = current + 1 /\ found' = found /\ queens' = "searches"
    BY <1>1, <1>7, <1>14, <1>12
  <2>2. current + 1 \in 1..num /\ current + 1 \in Nat \ {0}
    BY <1>1, <1>14
  <2>3. /\ next1 \in [1..num -> 0..(num + 1)] /\ next1[current + 1] = 0
        /\ \A i \in 1..(current + 1) - 1 : next1[i] = moved[i]
    <3>1. \A i \in 1..(current + 1) - 1 : i \in 1..current
      BY <1>12
    <3>. QED
      BY <1>5, <2>2, <3>1
  <2>4. Apart(next1, current + 1)
    BY <1>10, <1>14, <2>2, <2>3, ApartSame
  <2>5. \A p \in Solutions : Passed(p, next1, current + 1) <=> Passed(p, position, current)
    <3>1. ASSUME NEW p \in Solutions
          PROVE  Passed(p, next1, current + 1) <=> Passed(p, position, current)
      <4>1. Behind(p, next1, current + 1) <=> Behind(p, moved, current + 1)
        BY <2>2, <2>3, RowsBefore
      <4>2. p[current + 1] \in 1..num
        BY <2>2 DEF Solutions
      <4>3. ~(p[current + 1] <= 0)
        BY <4>2
      <4>. QED
        BY <1>11, <1>12, <2>3, <4>1, <4>3 DEF Passed
    <3>. QED
      BY <3>1
  <2>6. Listed(found', position', current')
    BY <1>1, <2>1, <2>5 DEF Listed
  <2>7. \A i \in 1..(current + 1) - 1 : next1[i] \in 1..num
    <3>1. \A i \in 1..(current + 1) - 1 : i \in 1..(current - 1) \/ i = current
      BY <1>12
    <3>. QED
      BY <1>4, <1>8, <1>10, <1>14, <2>3, <3>1
  <2>. QED
    BY <1>1, <1>6, <2>1, <2>2, <2>3, <2>4, <2>6, <2>7, SMTT(20) DEF QueensInv, Listed
<1>15. CASE c > num
  <2>1. position' = moved /\ current' = current - 1 /\ found' = found /\ queens' = "searches"
    BY <1>1, <1>7, <1>15, <1>12
  <2>2. \A p \in Solutions : Passed(p, moved, current - 1) <=> Passed(p, position, current)
    BY <1>11, <1>15
  <2>3. Listed(found', position', current')
    BY <1>1, <2>1, <2>2 DEF Listed
  <2>4. \A i \in 1..(current - 1) - 1 : i \in 1..(current - 1)
    BY <1>12
  <2>5. Apart(moved, current - 1)
    BY <1>9, <2>4 DEF Apart
  <2>6. current - 1 > 0 => moved[current - 1] \in 0..num
    <3>1. current - 1 > 0 => current - 1 \in 1..(current - 1)
      BY <1>12
    <3>2. current - 1 > 0 => moved[current - 1] \in 1..num
      BY <1>8, <3>1
    <3>. QED
      BY <3>2, <1>12
  <2>7. current - 1 \in 0..num
    BY <1>1
  <2>. QED
    BY <1>1, <1>4, <1>6, <1>8, <2>1, <2>3, <2>4, <2>5, <2>6, <2>7 DEF QueensInv, Listed
<1>. QED
  BY <1>14, <1>13, <1>15, <1>12

LEMMA QueensSteps ==
  ASSUME QueensInv, QueensNext \/ UNCHANGED queensVars
  PROVE  QueensInv'
<1>1. CASE QueensStart
  <2>1. CASE num' < 1
    BY <1>1, <2>1 DEF QueensInv, QueensStart
  <2>2. CASE ~(num' < 1)
    <3>1. /\ num' \in Nat \ {0} /\ current' = 1 /\ position' = [i \in 1..num' |-> 0]
          /\ found' = <<>> /\ queens' = "searches"
      BY <1>1, <2>2, BoardsAssumption DEF QueensInv, QueensStart
    <3>2. \A p \in Solutions' : ~Passed(p, position', 1)
      <4>1. SUFFICES ASSUME NEW p \in Solutions'
                     PROVE  ~Passed(p, position', 1)
        OBVIOUS
      <4>2. p[1] \in 1..num' /\ position'[1] = 0 /\ 1..(1 - 1) = {}
        BY <3>1 DEF Solutions
      <4>3. ~(p[1] <= position'[1])
        BY <4>2
      <4>. QED
        BY <4>2, <4>3 DEF Passed, Behind
    <3>3. Listed(found, position, current)'
      <4>1. found' \in Seq(Solutions') /\ 1..Len(found') = {}
        BY <3>1
      <4>. QED
        BY <3>1, <3>2, <4>1 DEF Listed
    <3>4. /\ position' \in [1..num' -> 0..(num' + 1)] /\ position'[current'] \in 0..num'
          /\ 1..(current' - 1) = {} /\ current' \in 0..num'
      <4>1. \A rank \in Nat \ {0} : 1 \in 1..rank /\ 1 \in 0..rank /\ 0 \in 0..rank /\ 0 \in 0..(rank + 1)
        OBVIOUS
      <4>2. 1..(1 - 1) = {}
        OBVIOUS
      <4>. QED
        BY <3>1, <4>1, <4>2, Zenon
    <3>5. Apart(position', current')
      BY <3>4 DEF Apart
    <3>. QED
      BY <3>1, <3>3, <3>4, <3>5 DEF QueensInv
  <2>. QED
    BY <2>1, <2>2
<1>2. CASE nqueens
  BY <1>2, SearchSteps
<1>3. CASE print
  <2>1. Listed(found, position, current) => Listed(found, position, current)'
    BY <1>3 DEF print, Listed, Solutions
  <2>. QED
    BY <1>3, <2>1 DEF QueensInv, print, Apart
<1>4. CASE QueensEnd
  <2>1. Listed(found, position, current) => Listed(found, position, current)'
    BY <1>4 DEF QueensEnd, Listed, Solutions
  <2>. QED
    BY <1>4, <2>1 DEF QueensInv, QueensEnd, Apart
<1>5. CASE UNCHANGED queensVars
  <2>1. Listed(found, position, current) => Listed(found, position, current)'
    BY <1>5 DEF queensVars, Listed, Solutions
  <2>. QED
    BY <1>5, <2>1 DEF QueensInv, queensVars, Apart
<1>. QED
  BY <1>1, <1>2, <1>3, <1>4, <1>5 DEF QueensNext

(* When the search is over, no placing comes after the board reached. *)
LEMMA AllFound == QueensInv => QueensFound
<1> SUFFICES ASSUME QueensInv, queens = "ends"
             PROVE  /\ {found[rank] : rank \in 1..Len(found)} = Solutions
                    /\ \A j, rank \in 1..Len(found) : j # rank => found[j] # found[rank]
  BY DEF QueensFound
<1>1. current = 0 /\ Listed(found, position, current)
  BY DEF QueensInv
<1>2. \A rank \in 1..Len(found) : found[rank] \in Solutions
  BY <1>1 DEF Listed
<1>. QED
  BY <1>1, <1>2 DEF Listed, Passed

-----------------------------------------------------------------------------
(* Sums over finite sets. *)

(* Induction over a set of numbers, given as a set. *)
LEMMA NumberInduction ==
  ASSUME NEW X, 0 \in X, \A i \in Nat : i \in X => i + 1 \in X
  PROVE  \A i \in Nat : i \in X
<1> DEFINE Left == Nat \ X
<1>1. SUFFICES ASSUME Left # {} PROVE FALSE
  OBVIOUS
<1>2. PICK x \in Left : \A y \in Left : x <= y
  BY <1>1, LeastNumber
<1>3. x - 1 \in Nat /\ x - 1 < x
  BY <1>2
<1>4. x - 1 \in X
  BY <1>2, <1>3
<1>. QED
  BY <1>2, <1>3, <1>4

(* g has the sum of f over each subset of S. *)
IsSum(g, S, f) ==
  /\ g \in [SUBSET S -> Int] /\ g[{}] = 0
  /\ \A s \in SUBSET S : \A x \in s : g[s] = f[x] + g[s \ {x}]

SomeOf(s) == CHOOSE x \in s : TRUE
SumStep(g, s, f) == IF s = {} THEN 0 ELSE f[SomeOf(s)] + g[s \ {SomeOf(s)}]

(* Taking an element away takes one from the size. *)
LEMMA OneLess ==
  ASSUME NEW S, IsFiniteSet(S), NEW s \in SUBSET S
  PROVE  /\ Cardinality(s) \in Nat /\ Cardinality(s) <= Cardinality(S)
         /\ Cardinality(s) = 0 => s = {}
         /\ s # {} => SomeOf(s) \in s
         /\ \A x \in s : s \ {x} \in SUBSET S /\ Cardinality(s \ {x}) = Cardinality(s) - 1
<1>1. IsFiniteSet(s) /\ Cardinality(s) \in Nat /\ Cardinality(s) <= Cardinality(S)
  BY FS_Subset, FS_CardinalityType
<1>2. Cardinality(s) = 0 => s = {}
  BY <1>1, FS_EmptySet
<1>3. s # {} => SomeOf(s) \in s
  BY DEF SomeOf
<1>4. \A x \in s : s \ {x} \in SUBSET S /\ Cardinality(s \ {x}) = Cardinality(s) - 1
  BY <1>1, FS_RemoveElement
<1>. QED
  BY <1>1, <1>2, <1>3, <1>4

ByStep(g, S, f) == g = [s \in SUBSET S |-> SumStep(g, s, f)]

(* There is a function that adds up element by element, up to any size. *)
LEMMA SumsExist ==
  ASSUME NEW S, IsFiniteSet(S), NEW f, \A x \in S : f[x] \in Int
  PROVE  \E g : ByStep(g, S, f)
<1> DEFINE Fits(g, i) == \A s \in SUBSET S : Cardinality(s) <= i => g[s] = SumStep(g, s, f)
           X == {i \in Nat : \E g \in [SUBSET S -> Int] : Fits(g, i)}
<1>1. \A s \in SUBSET S : s # {} => SomeOf(s) \in S /\ f[SomeOf(s)] \in Int /\ s \ {SomeOf(s)} \in SUBSET S
  BY OneLess
<1>2. \A g \in [SUBSET S -> Int] : \A s \in SUBSET S : SumStep(g, s, f) \in Int
  BY <1>1 DEF SumStep
<1>3. 0 \in X
  <2> DEFINE zero == [s \in SUBSET S |-> 0]
  <2>1. zero \in [SUBSET S -> Int]
    OBVIOUS
  <2>2. Fits(zero, 0)
    BY OneLess DEF SumStep
  <2>. QED
    BY <2>1, <2>2
<1>4. ASSUME NEW i \in Nat, i \in X
      PROVE  i + 1 \in X
  <2>1. PICK g \in [SUBSET S -> Int] : Fits(g, i)
    BY <1>4
  <2> DEFINE more == [s \in SUBSET S |-> SumStep(g, s, f)]
  <2>2. more \in [SUBSET S -> Int]
    BY <1>2
  <2>3. ASSUME NEW s \in SUBSET S, Cardinality(s) <= i + 1
        PROVE  SumStep(g, s, f) = SumStep(more, s, f)
    <3>1. CASE s = {}
      BY <3>1 DEF SumStep
    <3>2. CASE s # {}
      <4> DEFINE t == s \ {SomeOf(s)}
      <4>1. t \in SUBSET S /\ Cardinality(t) <= i
        BY <2>3, <3>2, OneLess
      <4>2. g[t] = SumStep(g, t, f) /\ more[t] = SumStep(g, t, f)
        BY <2>1, <4>1
      <4>. QED
        BY <3>2, <4>2 DEF SumStep
    <3>. QED
      BY <3>1, <3>2
  <2>4. Fits(more, i + 1)
    BY <2>3
  <2> HIDE DEF more, Fits
  <2>. QED
    BY <2>2, <2>4
<1> HIDE DEF X
<1>5. Cardinality(S) \in X
  BY <1>3, <1>4, NumberInduction, FS_CardinalityType
<1>6. PICK g \in [SUBSET S -> Int] : Fits(g, Cardinality(S))
  BY <1>5 DEF X
<1>7. \A s \in SUBSET S : g[s] = SumStep(g, s, f)
  BY <1>6, OneLess
<1>8. g = [s \in SUBSET S |-> SumStep(g, s, f)]
  BY <1>7
<1>. QED
  BY <1>8 DEF ByStep

(* It does not matter which element is taken first. *)
LEMMA SumsMeet ==
  ASSUME NEW S, IsFiniteSet(S), NEW f, \A x \in S : f[x] \in Int,
         NEW g, ByStep(g, S, f)
  PROVE  IsSum(g, S, f)
<1> DEFINE Right(s) == g[s] \in Int /\ \A x \in s : g[s] = f[x] + g[s \ {x}]
           X == {i \in Nat : \A s \in SUBSET S : Cardinality(s) <= i => Right(s)}
<1>1. g = [s \in SUBSET S |-> g[s]] /\ \A s \in SUBSET S : g[s] = SumStep(g, s, f)
  BY DEF ByStep
<1>2. g[{}] = 0
  BY <1>1 DEF SumStep
<1>3. ASSUME NEW s \in SUBSET S, Cardinality(s) <= 0
      PROVE  Right(s)
  <2>1. s = {}
    BY <1>3, OneLess
  <2>. QED
    BY <1>2, <2>1
<1>4. ASSUME NEW i \in Nat, i \in X, NEW s \in SUBSET S, Cardinality(s) <= i + 1
      PROVE  Right(s)
  <2>1. CASE s = {}
    BY <1>2, <2>1
  <2>2. CASE s # {}
    <3> DEFINE c == SomeOf(s)
    <3>1. c \in s /\ f[c] \in Int /\ g[s] = f[c] + g[s \ {c}]
      BY <1>1, <2>2, OneLess DEF SumStep
    <3> HIDE DEF c
    <3>2. \A x \in s : s \ {x} \in SUBSET S /\ Cardinality(s \ {x}) <= i
      BY <1>4, OneLess
    <3>3. \A x \in s : Right(s \ {x})
      BY <1>4, <3>2
    <3>4. g[s] \in Int
      <4>1. g[s \ {c}] \in Int
        BY <3>1, <3>3
      <4>. QED
        BY <3>1, <4>1
    <3>5. ASSUME NEW x \in s, x # c
          PROVE  g[s] = f[x] + g[s \ {x}]
      <4>1. g[s \ {c}] = f[x] + g[(s \ {c}) \ {x}]
        BY <3>1, <3>3, <3>5
      <4>2. g[s \ {x}] = f[c] + g[(s \ {x}) \ {c}]
        BY <3>1, <3>3, <3>5
      <4>3. (s \ {c}) \ {x} = (s \ {x}) \ {c} /\ (s \ {c}) \ {x} \in SUBSET S
        OBVIOUS
      <4> DEFINE r == (s \ {c}) \ {x}
      <4>4. g[r] \in Int
        <5> DEFINE u == s \ {c}
        <5>1. u \in SUBSET S /\ Cardinality(u) <= i /\ x \in u /\ Cardinality(u) \in Nat /\ r = u \ {x}
          BY <3>1, <3>2, <3>5, OneLess
        <5> HIDE DEF u, r
        <5>2. r \in SUBSET S /\ Cardinality(r) <= i
          BY <5>1, OneLess
        <5>. QED
          BY <1>4, <5>2
      <4>5. f[x] \in Int
        OBVIOUS
      <4> DEFINE gr == g[r]
      <4>6. gr \in Int /\ g[s] = f[c] + (f[x] + gr) /\ g[s \ {x}] = f[c] + gr
        BY <3>1, <4>1, <4>2, <4>3, <4>4
      <4> HIDE DEF gr, r
      <4>. QED
        BY <3>1, <4>5, <4>6
    <3>. QED
      BY <3>1, <3>4, <3>5
  <2>. QED
    BY <2>1, <2>2
<1> HIDE DEF Right
<1>5. 0 \in X /\ \A i \in Nat : i \in X => i + 1 \in X
  BY <1>3, <1>4
<1> HIDE DEF X
<1>6. Cardinality(S) \in X
  BY <1>5, NumberInduction, FS_CardinalityType
<1>7. \A s \in SUBSET S : Right(s)
  BY <1>6, OneLess DEF X
<1> USE DEF Right
<1>8. g \in [SUBSET S -> Int]
  BY <1>1, <1>7
<1>. QED
  BY <1>2, <1>7, <1>8 DEF IsSum

(* Two sums of the same numbers are the same. *)
LEMMA SumsAgree ==
  ASSUME NEW S, IsFiniteSet(S), NEW f, NEW g, NEW e, NEW h, IsSum(g, S, f), IsSum(h, S, e),
         \A x \in S : f[x] = e[x]
  PROVE  g[S] = h[S]
<1> DEFINE X == {i \in Nat : \A s \in SUBSET S : Cardinality(s) <= i => g[s] = h[s]}
<1>1. ASSUME NEW s \in SUBSET S, Cardinality(s) <= 0
      PROVE  g[s] = h[s]
  <2>1. s = {}
    BY <1>1, OneLess
  <2>. QED
    BY <2>1 DEF IsSum
<1>2. ASSUME NEW i \in Nat, i \in X, NEW s \in SUBSET S, Cardinality(s) <= i + 1
      PROVE  g[s] = h[s]
  <2>1. CASE s = {}
    BY <2>1 DEF IsSum
  <2>2. CASE s # {}
    <3>1. PICK x \in s : TRUE
      BY <2>2
    <3> DEFINE t == s \ {x}
    <3>2. t \in SUBSET S /\ Cardinality(t) <= i
      BY <1>2, OneLess
    <3>3. g[t] = h[t]
      BY <1>2, <3>2
    <3>4. g[s] = f[x] + g[t] /\ h[s] = e[x] + h[t] /\ f[x] = e[x]
      BY DEF IsSum
    <3>. QED
      BY <3>3, <3>4
  <2>. QED
    BY <2>1, <2>2
<1>3. 0 \in X /\ \A i \in Nat : i \in X => i + 1 \in X
  BY <1>1, <1>2
<1> HIDE DEF X
<1>4. Cardinality(S) \in X
  BY <1>3, NumberInduction, FS_CardinalityType
<1>. QED
  BY <1>4, OneLess DEF X

LEMMA SomeSum ==
  ASSUME NEW S, IsFiniteSet(S), NEW f, \A x \in S : f[x] \in Int
  PROVE  \E g : IsSum(g, S, f)
BY SumsExist, SumsMeet

(* SumOver adds up the cells of a line. *)
LEMMA SumOverIs ==
  ASSUME NEW S, IsFiniteSet(S), \A x \in S : a[x] \in Int
  PROVE  \E g : IsSum(g, S, a) /\ g[S] = SumOver(S)
<1> DEFINE it == CHOOSE g : ByStep(g, S, a)
<1>1. ByStep(it, S, a)
  BY SumsExist
<1>2. SumOver(S) = it[S]
  BY Zenon DEF SumOver, MapThenSumSet, MapThenFoldSet, ByStep, SumStep, SomeOf
<1> HIDE DEF it
<1>. QED
  BY <1>1, <1>2, SumsMeet

LEMMA OneMore ==
  ASSUME NEW S, NEW f, NEW g, IsSum(g, S, f), NEW s, s \in SUBSET S, NEW x, x \in s,
         NEW t, t = s \ {x}
  PROVE  g[t] \in Int /\ g[s] = f[x] + g[t]
<1>1. t \in SUBSET S
  OBVIOUS
<1>. QED
  BY <1>1 DEF IsSum

(* f numbers the members of S from 0 to m - 1.                              *)
Numbers(f, S, m) ==
  /\ \A x \in S : f[x] \in 0..(m - 1)
  /\ \A x, y \in S : f[x] = f[y] => x = y
  /\ \A v \in 0..(m - 1) : \E x \in S : f[x] = v

(* The sum of numbers that are 0, 1, ... in some order.                     *)
LEMMA SumOfAll ==
  ASSUME NEW S, IsFiniteSet(S), NEW f, NEW g, IsSum(g, S, f), NEW m \in Nat, Numbers(f, S, m)
  PROVE  2 * g[S] = m * (m - 1)
<1>1. /\ \A x \in S : f[x] \in 0..(m - 1)
      /\ \A x, y \in S : f[x] = f[y] => x = y
      /\ \A v \in 0..(m - 1) : \E x \in S : f[x] = v
  BY DEF Numbers
<1> DEFINE Low(i) == {x \in S : f[x] < i}
           Half(i) == i <= m => 2 * g[Low(i)] = i * (i - 1)
           X == {i \in Nat : Half(i)}
<1>2. Half(0)
  <2>1. Low(0) = {} /\ 0 * (0 - 1) = 0
    BY <1>1
  <2> HIDE DEF Low
  <2>2. g[Low(0)] = 0
    BY <2>1 DEF IsSum
  <2>. QED
    BY <2>1, <2>2
<1>3. ASSUME NEW i \in Nat, Half(i)
      PROVE  Half(i + 1)
  <2> SUFFICES ASSUME i + 1 <= m
               PROVE  2 * g[Low(i + 1)] = (i + 1) * ((i + 1) - 1)
    OBVIOUS
  <2>1. PICK x \in S : f[x] = i
    BY <1>1
  <2>2. Low(i + 1) \in SUBSET S /\ x \in Low(i + 1) /\ Low(i + 1) \ {x} = Low(i)
    BY <1>1, <2>1
  <2> DEFINE u == g[Low(i + 1)]
             w == g[Low(i)]
  <2>3. w \in Int /\ u = i + w
    <3> DEFINE l == Low(i)
               h == Low(i + 1)
    <3>1. h \in SUBSET S /\ x \in h /\ l = h \ {x}
      BY <2>2
    <3> HIDE DEF l, h
    <3>2. g[l] \in Int /\ g[h] = f[x] + g[l]
      BY <3>1, OneMore
    <3>. QED
      BY <2>1, <3>2 DEF l, h
  <2>4. 2 * w = i * (i - 1)
    BY <1>3
  <2> HIDE DEF u, w
  <2>5. 2 * u = (i + 1) * ((i + 1) - 1)
    BY <2>3, <2>4
  <2>. QED
    BY <2>5 DEF u
<1>4. S = Low(m)
  BY <1>1
<1> HIDE DEF Low, Half
<1>5. 0 \in X /\ \A i \in Nat : i \in X => i + 1 \in X
  BY <1>2, <1>3
<1> HIDE DEF X
<1>6. Half(m)
  <2>1. m \in X
    BY <1>5, NumberInduction
  <2>. QED
    BY <2>1 DEF X
<1>. QED
  BY <1>4, <1>6 DEF Half

(* The sum of f * c + e + 1.                                                *)
Both(b, f, c, e, S) == \A x \in S : f[x] \in Int /\ e[x] \in Int /\ b[x] = f[x] * c + e[x] + 1

(* The sum of multiples is the multiple of the sum. *)
LEMMA SumOfBoth ==
  ASSUME NEW S, IsFiniteSet(S), NEW f, NEW g, IsSum(g, S, f), NEW e, NEW h, IsSum(h, S, e),
         NEW c \in Int, NEW b, NEW r, IsSum(r, S, b), Both(b, f, c, e, S)
  PROVE  r[S] = g[S] * c + h[S] + Cardinality(S)
<1> DEFINE w == [s \in SUBSET S |-> g[s] * c + h[s] + Cardinality(s)]
<1>1. \A s \in SUBSET S : g[s] \in Int /\ h[s] \in Int /\ Cardinality(s) \in Int
  BY OneLess DEF IsSum
<1>2. w \in [SUBSET S -> Int]
  BY <1>1
<1>3. w[{}] = 0
  <2>1. {} \in SUBSET S /\ g[{}] = 0 /\ h[{}] = 0 /\ Cardinality({}) = 0
    BY FS_EmptySet DEF IsSum
  <2>. QED
    BY <2>1
<1>4. ASSUME NEW s \in SUBSET S, NEW x \in s
      PROVE  w[s] = b[x] + w[s \ {x}]
  <2> DEFINE t == s \ {x}
  <2>1. t \in SUBSET S /\ Cardinality(s) = Cardinality(t) + 1
    BY <1>1, OneLess
  <2>2. g[s] = f[x] + g[t] /\ h[s] = e[x] + h[t]
    BY DEF IsSum
  <2>3. f[x] \in Int /\ e[x] \in Int /\ b[x] = f[x] * c + e[x] + 1
    BY DEF Both
  <2>4. w[s] = g[s] * c + h[s] + Cardinality(s) /\ w[t] = g[t] * c + h[t] + Cardinality(t)
    BY <2>1
  <2> SUFFICES w[s] = b[x] + w[t]
    OBVIOUS
  <2> DEFINE gt == g[t]
             ht == h[t]
             fx == f[x]
             ex == e[x]
             ct == Cardinality(t)
  <2>5. gt \in Int /\ ht \in Int /\ ct \in Int /\ fx \in Int /\ ex \in Int
    BY <1>1, <2>1, <2>3
  <2>6. w[s] = (fx + gt) * c + (ex + ht) + (ct + 1) /\ w[t] = gt * c + ht + ct /\ b[x] = fx * c + ex + 1
    BY <2>1, <2>2, <2>3, <2>4
  <2> HIDE DEF w, t, gt, ht, fx, ex, ct
  <2>7. (fx + gt) * c = fx * c + gt * c /\ fx * c \in Int /\ gt * c \in Int
    BY <2>5
  <2>. QED
    BY <2>5, <2>6, <2>7
<1> HIDE DEF w
<1>5. IsSum(w, S, b)
  BY <1>2, <1>3, <1>4 DEF IsSum
<1>6. r[S] = w[S]
  BY <1>5, SumsAgree
<1>. QED
  BY <1>6 DEF w

(* The sum of numbers of which two opposite ones make c.                    *)
LEMMA SumOfOpposites ==
  ASSUME NEW S, IsFiniteSet(S), NEW f, NEW g, IsSum(g, S, f), NEW c \in Int, NEW o,
         \A x \in S : f[x] \in Int /\ o[x] \in S /\ o[o[x]] = x /\ f[x] + f[o[x]] = c
  PROVE  2 * g[S] = Cardinality(S) * c
<1> DEFINE Image(s) == {o[x] : x \in s}
           w == [s \in SUBSET S |-> g[s] + g[Image(s)]]
           d == [s \in SUBSET S |-> Cardinality(s) * c]
           const == [x \in S |-> c]
<1>1. \A s \in SUBSET S : Image(s) \in SUBSET S /\ g[s] \in Int /\ g[Image(s)] \in Int /\ Cardinality(s) \in Int
  BY OneLess DEF IsSum
<1> HIDE DEF Image
<1>2. w \in [SUBSET S -> Int] /\ d \in [SUBSET S -> Int]
  BY <1>1
<1>3. w[{}] = 0 /\ d[{}] = 0
  <2>1. {} \in SUBSET S /\ Image({}) = {} /\ g[{}] = 0 /\ Cardinality({}) = 0 /\ 0 * c = 0
    BY FS_EmptySet DEF IsSum, Image
  <2>2. w[{}] = g[{}] + g[Image({})] /\ d[{}] = Cardinality({}) * c
    BY <2>1
  <2> HIDE DEF w, d
  <2>3. w[{}] = 0 + 0 /\ d[{}] = 0 * c
    BY <2>1, <2>2
  <2>. QED
    BY <2>1, <2>3
<1>4. ASSUME NEW s \in SUBSET S, NEW x \in s
      PROVE  w[s] = const[x] + w[s \ {x}] /\ d[s] = const[x] + d[s \ {x}]
  <2> DEFINE t == s \ {x}
  <2>1. t \in SUBSET S /\ Cardinality(s) = Cardinality(t) + 1
    BY <1>1, OneLess
  <2>2. o[x] \in Image(s) /\ Image(s) \in SUBSET S
    BY DEF Image
  <2>3. Image(t) = Image(s) \ {o[x]}
    BY DEF Image
  <2>4. g[s] = f[x] + g[t] /\ g[Image(s)] = f[o[x]] + g[Image(t)]
    <3>1. g[s] = f[x] + g[t]
      BY OneMore
    <3> DEFINE i == Image(s)
               j == Image(t)
               y == o[x]
    <3>2. i \in SUBSET S /\ y \in i /\ j = i \ {y}
      BY <2>2, <2>3
    <3> HIDE DEF i, j, y
    <3>3. g[i] = f[y] + g[j]
      BY <3>2, OneMore
    <3>. QED
      BY <3>1, <3>3 DEF i, j, y
  <2>5. w[s] = g[s] + g[Image(s)] /\ w[t] = g[t] + g[Image(t)] /\ const[x] = c
        /\ d[s] = Cardinality(s) * c /\ d[t] = Cardinality(t) * c
    BY <2>1
  <2>6. f[x] \in Int /\ f[o[x]] \in Int /\ f[x] + f[o[x]] = c
    OBVIOUS
  <2>7. g[t] \in Int /\ g[Image(t)] \in Int /\ Cardinality(t) \in Int
    BY <1>1, <2>1
  <2> SUFFICES w[s] = const[x] + w[t] /\ d[s] = const[x] + d[t]
    OBVIOUS
  <2> HIDE DEF w, t, d, const
  <2>8. (Cardinality(t) + 1) * c = c + Cardinality(t) * c
    BY <2>7
  <2>. QED
    BY <2>1, <2>4, <2>5, <2>6, <2>7, <2>8
<1>5. Image(S) = S
  BY DEF Image
<1>6. w[S] = g[S] + g[S] /\ d[S] = Cardinality(S) * c /\ g[S] \in Int
  BY <1>1, <1>5
<1> HIDE DEF w, d, const
<1>7. IsSum(w, S, const) /\ IsSum(d, S, const)
  BY <1>2, <1>3, <1>4 DEF IsSum
<1>8. w[S] = d[S]
  BY <1>7, SumsAgree
<1>. QED
  BY <1>6, <1>8

-----------------------------------------------------------------------------
(* The square of magic.c. The numbers q * n + 1, ..., q * n + n lie on the  *)
(* q-th diagonal of the square, taken as a torus, one up and to the right   *)
(* of the other; NumberAt is the number that is put in a cell.              *)

Wrap(o, x) == IF x < 0 THEN x + o ELSE IF x >= o THEN x - o ELSE x
Diagonal(o, p) == Wrap(o, p[1] + p[2] - o \div 2)
Along(o, p) == Wrap(o, 2 * Diagonal(o, p) - p[1])
NumberAt(o, p) == Diagonal(o, p) * o + Along(o, p) + 1

Filled ==
  /\ n \in Nat /\ n % 2 = 1
  /\ row \in 0..(n - 1) /\ col \in 0..(n - 1) /\ k = NumberAt(n, <<row, col>>)
  /\ a \in [Square(n) -> Int]
  /\ \A p \in Square(n) : a[p] = IF NumberAt(n, p) <= k THEN NumberAt(n, p) ELSE -1

MagicInv ==
  /\ MagicTypes
  /\ magic \in {"fills", "shows"} => Filled
  /\ magic = "shows" => k = n * n

LEMMA HalfOf ==
  ASSUME NEW o \in Nat, o % 2 = 1
  PROVE  o \div 2 \in Nat /\ o = 2 * (o \div 2) + 1
OBVIOUS

(* The numbers and their two digits are in range. *)
LEMMA NumbersIn ==
  ASSUME NEW o \in Nat, o % 2 = 1, NEW p \in Square(o)
  PROVE  /\ Diagonal(o, p) \in 0..(o - 1) /\ Along(o, p) \in 0..(o - 1)
         /\ NumberAt(o, p) \in 1..(o * o)
         /\ p[1] \in 0..(o - 1) /\ p[2] \in 0..(o - 1) /\ p = <<p[1], p[2]>>
<1>1. p[1] \in 0..(o - 1) /\ p[2] \in 0..(o - 1) /\ p = <<p[1], p[2]>>
  BY DEF Square
<1> DEFINE h == o \div 2
<1>2. h \in Nat /\ o = 2 * h + 1
  BY HalfOf
<1>3. Diagonal(o, p) \in 0..(o - 1)
  <2>. HIDE DEF h
  <2>. QED
    BY <1>1, <1>2 DEF Diagonal, Wrap, h
<1>4. Along(o, p) \in 0..(o - 1)
  BY <1>1, <1>3 DEF Along, Wrap
<1> DEFINE q == Diagonal(o, p)
           r == Along(o, p)
<1>5. q * o + r + 1 \in 1..(o * o)
  <2>1. q \in 0..(o - 1) /\ r \in 0..(o - 1)
    BY <1>3, <1>4
  <2> HIDE DEF q, r
  <2>2. q * o \in Nat /\ q * o <= (o - 1) * o /\ (o - 1) * o + o = o * o
    BY <2>1
  <2>. QED
    BY <2>1, <2>2
<1>. QED
  BY <1>1, <1>3, <1>4, <1>5 DEF NumberAt

(* A number has one pair of digits in base o. *)
LEMMA DigitsApart ==
  ASSUME NEW o \in Nat, NEW q \in 0..(o - 1), NEW r \in 0..(o - 1),
         NEW s \in 0..(o - 1), NEW t \in 0..(o - 1), q * o + r + 1 = s * o + t + 1
  PROVE  q = s /\ r = t
<1>1. ASSUME NEW x \in 0..(o - 1), NEW y \in 0..(o - 1), NEW u \in 0..(o - 1), NEW v \in 0..(o - 1),
             x < u
      PROVE  x * o + y + 1 < u * o + v + 1
  <2>1. (x + 1) * o = x * o + o /\ (x + 1) * o <= u * o /\ x * o \in Nat /\ u * o \in Nat
    BY <1>1
  <2>. QED
    BY <2>1
<1>2. q = s
  <2>1. ~(q < s) /\ ~(s < q)
    BY <1>1
  <2>. QED
    BY <2>1
<1>. QED
  BY <1>2

(* No two cells have the same number. *)
LEMMA NumbersApart ==
  ASSUME NEW o \in Nat, o % 2 = 1, NEW p \in Square(o), NEW s \in Square(o),
         NumberAt(o, p) = NumberAt(o, s)
  PROVE  p = s
<1>1. Diagonal(o, p) = Diagonal(o, s) /\ Along(o, p) = Along(o, s)
  BY NumbersIn, DigitsApart DEF NumberAt
<1> DEFINE q == Diagonal(o, p)
<1>2. q \in 0..(o - 1) /\ Wrap(o, 2 * q - p[1]) = Wrap(o, 2 * q - s[1])
  BY <1>1, NumbersIn DEF Along
<1>3. p[1] \in 0..(o - 1) /\ p[2] \in 0..(o - 1) /\ s[1] \in 0..(o - 1) /\ s[2] \in 0..(o - 1)
      /\ p = <<p[1], p[2]>> /\ s = <<s[1], s[2]>>
  BY NumbersIn
<1> DEFINE h == o \div 2
<1>4. h \in Nat /\ o = 2 * h + 1
  BY HalfOf
<1>5. Wrap(o, p[1] + p[2] - h) = Wrap(o, s[1] + s[2] - h)
  BY <1>1 DEF Diagonal
<1> HIDE DEF h, q
<1>6. p[1] = s[1]
  BY <1>2, <1>3 DEF Wrap
<1>7. p[2] = s[2]
  BY <1>3, <1>4, <1>5, <1>6 DEF Wrap
<1>. QED
  BY <1>3, <1>6, <1>7

(* The cell of a number. *)
CellOf(o, q, r) == <<Wrap(o, 2 * q - r), Wrap(o, o \div 2 - q + r)>>

(* Each pair of a diagonal and a place along it is of a cell. *)
LEMMA CellsOf ==
  ASSUME NEW o \in Nat, o % 2 = 1, NEW q \in 0..(o - 1), NEW r \in 0..(o - 1)
  PROVE  /\ CellOf(o, q, r) \in Square(o)
         /\ Diagonal(o, CellOf(o, q, r)) = q /\ Along(o, CellOf(o, q, r)) = r
<1> DEFINE h == o \div 2
           i == Wrap(o, 2 * q - r)
           j == Wrap(o, h - q + r)
<1>1. h \in Nat /\ o = 2 * h + 1
  BY HalfOf
<1> HIDE DEF h
<1>2. i \in 0..(o - 1) /\ j \in 0..(o - 1)
  BY <1>1 DEF Wrap
<1>3. Wrap(o, i + j - h) = q
  BY <1>1 DEF Wrap
<1>4. Wrap(o, 2 * q - i) = r
  BY <1>1 DEF Wrap
<1>5. CellOf(o, q, r) = <<i, j>> /\ <<i, j>>[1] = i /\ <<i, j>>[2] = j
  BY DEF CellOf, h
<1>6. <<i, j>> \in Square(o)
  BY <1>2 DEF Square
<1> HIDE DEF i, j
<1>7. Diagonal(o, <<i, j>>) = q
  BY <1>3, <1>5 DEF Diagonal, h
<1>. QED
  BY <1>4, <1>5, <1>6, <1>7 DEF Along

(* Every number up to o * o has two digits in base o. *)
LEMMA Digits ==
  ASSUME NEW o \in Nat \ {0}
  PROVE  \A v \in 1..(o * o) : \E q, r \in 0..(o - 1) : v = q * o + r + 1
<1> DEFINE X == {i \in Nat : i + 1 <= o * o => \E q, r \in 0..(o - 1) : i + 1 = q * o + r + 1}
<1>1. 0 \in X
  <2>1. 0 \in 0..(o - 1) /\ 0 + 1 = 0 * o + 0 + 1
    OBVIOUS
  <2>. QED
    BY <2>1
<1>2. ASSUME NEW i \in Nat, i \in X
      PROVE  i + 1 \in X
  <2> SUFFICES ASSUME (i + 1) + 1 <= o * o
               PROVE  \E q, r \in 0..(o - 1) : (i + 1) + 1 = q * o + r + 1
    OBVIOUS
  <2>1. o * o \in Nat
    OBVIOUS
  <2>2. i + 1 <= o * o
    <3> DEFINE oo == o * o
    <3> HIDE DEF oo
    <3>. QED
      BY <2>1 DEF oo
  <2>3. PICK q, r \in 0..(o - 1) : i + 1 = q * o + r + 1
    BY <1>2, <2>2
  <2>4. CASE r < o - 1
    <3>1. r + 1 \in 0..(o - 1) /\ (i + 1) + 1 = q * o + (r + 1) + 1
      BY <2>3, <2>4
    <3>. QED
      BY <3>1
  <2>5. CASE r = o - 1
    <3>1. (i + 1) + 1 = (q + 1) * o + 0 + 1
      BY <2>3, <2>5
    <3>2. q + 1 <= o - 1
      <4>1. CASE q = o - 1
        <5>1. (o - 1) * o + o = o * o /\ (o - 1) * o \in Int
          OBVIOUS
        <5>. QED
          BY <2>1, <2>3, <2>5, <4>1, <5>1
      <4>. QED
        BY <4>1
    <3>3. q + 1 \in 0..(o - 1) /\ 0 \in 0..(o - 1)
      BY <3>2
    <3>. QED
      BY <3>1, <3>3, Zenon
  <2>. QED
    BY <2>4, <2>5
<1> HIDE DEF X
<1>3. \A i \in Nat : i \in X
  BY <1>1, <1>2, NumberInduction
<1>4. ASSUME NEW v \in 1..(o * o)
      PROVE  \E q, r \in 0..(o - 1) : v = q * o + r + 1
  <2>1. v - 1 \in Nat /\ v - 1 + 1 = v /\ v <= o * o
    BY SMT
  <2>2. v - 1 \in X
    BY <1>3, <2>1
  <2>. QED
    BY <2>1, <2>2 DEF X
<1>. QED
  BY <1>4

(* Every number up to o * o is in a cell. *)
LEMMA NumbersAll ==
  ASSUME NEW o \in Nat, o % 2 = 1
  PROVE  {NumberAt(o, p) : p \in Square(o)} = 1..(o * o)
<1>1. \A p \in Square(o) : NumberAt(o, p) \in 1..(o * o)
  BY NumbersIn
<1>2. ASSUME NEW v \in 1..(o * o)
      PROVE  \E p \in Square(o) : NumberAt(o, p) = v
  <2>1. o \in Nat \ {0}
    BY SMT
  <2>2. PICK q, r \in 0..(o - 1) : v = q * o + r + 1
    BY <2>1, Digits
  <2>. QED
    BY <2>2, CellsOf DEF NumberAt
<1>. QED
  BY <1>1, <1>2

(* Where magic.c puts the next number: on the same diagonal, and down at its *)
(* end.                                                                      *)
LEMMA UpAndRight ==
  ASSUME NEW o \in Nat, o % 2 = 1, NEW i \in 0..(o - 1), NEW j \in 0..(o - 1),
         Along(o, <<i, j>>) # o - 1
  PROVE  /\ <<Wrap(o, i - 1), Wrap(o, j + 1)>> \in Square(o)
         /\ NumberAt(o, <<Wrap(o, i - 1), Wrap(o, j + 1)>>) = NumberAt(o, <<i, j>>) + 1
         /\ ~(i = 0 /\ j = o - 1)
<1> DEFINE h == o \div 2
           q == Wrap(o, i + j - h)
           r == Wrap(o, 2 * q - i)
           x == Wrap(o, i - 1)
           y == Wrap(o, j + 1)
<1>1. h \in Nat /\ o = 2 * h + 1
  BY HalfOf
<1>2. \A u, v : <<u, v>>[1] = u /\ <<u, v>>[2] = v
  OBVIOUS
<1>3. Diagonal(o, <<i, j>>) = q /\ Along(o, <<i, j>>) = r
  BY <1>2 DEF Diagonal, Along
<1>4. Diagonal(o, <<x, y>>) = Wrap(o, x + y - h)
  BY <1>2 DEF Diagonal
<1>5. Along(o, <<x, y>>) = Wrap(o, 2 * Wrap(o, x + y - h) - x)
  BY <1>2, <1>4 DEF Along
<1> HIDE DEF h
<1>6. q \in 0..(o - 1) /\ r \in 0..(o - 1) /\ r # o - 1
  BY <1>1, <1>3 DEF Wrap
<1>7. x \in 0..(o - 1) /\ y \in 0..(o - 1)
  BY DEF Wrap
<1>8. Wrap(o, x + y - h) = q
  BY <1>1 DEF Wrap
<1>9. Wrap(o, 2 * q - x) = r + 1
  <2>1. Wrap(o, 2 * q - i) # o - 1 /\ q \in 0..(o - 1)
    BY <1>6
  <2> HIDE DEF q
  <2>. QED
    BY <2>1 DEF Wrap
<1>10. ~(i = 0 /\ j = o - 1)
  BY <1>1, <1>6 DEF Wrap
<1>11. <<x, y>> \in Square(o)
  BY <1>7 DEF Square
<1>12. NumberAt(o, <<x, y>>) = q * o + (r + 1) + 1 /\ NumberAt(o, <<i, j>>) = q * o + r + 1
  BY <1>3, <1>4, <1>5, <1>8, <1>9 DEF NumberAt
<1>13. q * o \in Int
  BY <1>6
<1> HIDE DEF x, y, q, r
<1>14. NumberAt(o, <<x, y>>) = NumberAt(o, <<i, j>>) + 1
  BY <1>6, <1>12, <1>13
<1>. QED
  BY <1>10, <1>11, <1>14 DEF x, y

(* At the end of a diagonal the next number is one below. *)
LEMMA DownAtTheEnd ==
  ASSUME NEW o \in Nat, o % 2 = 1, NEW i \in 0..(o - 1), NEW j \in 0..(o - 1),
         Along(o, <<i, j>>) = o - 1, NumberAt(o, <<i, j>>) # o * o
  PROVE  /\ <<i + 1, j>> \in Square(o)
         /\ NumberAt(o, <<i + 1, j>>) = NumberAt(o, <<i, j>>) + 1
         /\ (i = 0) <=> (j = o - 1)
         /\ i # 0 => /\ <<i - 1, j + 1>> \in Square(o)
                     /\ NumberAt(o, <<i - 1, j + 1>>) <= NumberAt(o, <<i, j>>)
<1> DEFINE h == o \div 2
           q == Wrap(o, i + j - h)
<1>1. h \in Nat /\ o = 2 * h + 1
  BY HalfOf
<1>2. \A u, v : <<u, v>>[1] = u /\ <<u, v>>[2] = v
  OBVIOUS
<1>3. Diagonal(o, <<i, j>>) = q /\ Wrap(o, 2 * q - i) = o - 1
  BY <1>2 DEF Diagonal, Along
<1>4. NumberAt(o, <<i, j>>) = q * o + (o - 1) + 1
  BY <1>3 DEF NumberAt
<1>5. \A u, v : /\ Diagonal(o, <<u, v>>) = Wrap(o, u + v - h)
                /\ NumberAt(o, <<u, v>>) = Wrap(o, u + v - h) * o
                     + Wrap(o, 2 * Wrap(o, u + v - h) - u) + 1
  BY <1>2 DEF Diagonal, Along, NumberAt
<1> HIDE DEF h
<1>6. q \in 0..(o - 1)
  BY <1>1 DEF Wrap
<1>7. q # o - 1
  <2>1. (o - 1) * o + (o - 1) + 1 = o * o
    OBVIOUS
  <2>. QED
    BY <1>4, <2>1
<1>8. (i = 0) <=> (j = o - 1)
  BY <1>1, <1>3, <1>6 DEF Wrap
<1>9. i + 1 \in 0..(o - 1)
  BY <1>1, <1>3, <1>6, <1>7 DEF Wrap
<1>10. <<i + 1, j>> \in Square(o)
  BY <1>9 DEF Square
<1>11. Wrap(o, (i + 1) + j - h) = q + 1 /\ Wrap(o, 2 * (q + 1) - (i + 1)) = 0
  <2>1. Wrap(o, (i + 1) + j - h) = q + 1
    BY <1>1, <1>7, <1>9 DEF Wrap
  <2> HIDE DEF q
  <2>2. Wrap(o, 2 * (q + 1) - (i + 1)) = 0
    BY <1>1, <1>3, <1>6, <1>7, <1>9 DEF Wrap
  <2>. QED
    BY <2>1, <2>2
<1>12. NumberAt(o, <<i + 1, j>>) = (q + 1) * o + 0 + 1
  BY <1>5, <1>11
<1>13. (q + 1) * o = q * o + o /\ q * o \in Int
  BY <1>6
<1>14. ASSUME i # 0
       PROVE  /\ <<i - 1, j + 1>> \in Square(o)
              /\ NumberAt(o, <<i - 1, j + 1>>) <= NumberAt(o, <<i, j>>)
  <2>1. i - 1 \in 0..(o - 1) /\ j + 1 \in 0..(o - 1)
    BY <1>8, <1>14
  <2>2. <<i - 1, j + 1>> \in Square(o)
    BY <2>1 DEF Square
  <2>3. Wrap(o, (i - 1) + (j + 1) - h) = q
    BY <1>1
  <2> HIDE DEF q
  <2>4. Wrap(o, 2 * q - (i - 1)) = 0
    BY <1>3, <1>6, <2>1 DEF Wrap
  <2>5. NumberAt(o, <<i - 1, j + 1>>) = q * o + 0 + 1
    BY <1>5, <2>3, <2>4
  <2>6. NumberAt(o, <<i - 1, j + 1>>) <= NumberAt(o, <<i, j>>)
    BY <1>4, <1>13, <2>5
  <2>. QED
    BY <2>2, <2>6
<1> HIDE DEF q
<1>15. NumberAt(o, <<i + 1, j>>) = NumberAt(o, <<i, j>>) + 1
  BY <1>4, <1>6, <1>12, <1>13
<1>. QED
  BY <1>8, <1>10, <1>14, <1>15

(* Where magic puts the next number is where NumberAt has it. *)
LEMMA NextCell ==
  ASSUME Filled, k # n * n
  PROVE  Cell \in Square(n) /\ NumberAt(n, Cell) = k + 1
<1> DEFINE here == <<row, col>>
<1>1. /\ n \in Nat /\ n % 2 = 1 /\ row \in 0..(n - 1) /\ col \in 0..(n - 1)
      /\ k = NumberAt(n, here)
  BY DEF Filled
<1>2. \A p \in Square(n) : NumberAt(n, p) \in 1..(n * n) /\ (a[p] = -1 <=> ~(NumberAt(n, p) <= k))
  <2>1. \A p \in Square(n) : NumberAt(n, p) \in 1..(n * n)
    BY <1>1, NumbersIn
  <2>2. \A p \in Square(n) : a[p] = IF NumberAt(n, p) <= k THEN NumberAt(n, p) ELSE -1
    BY DEF Filled
  <2>3. \A x \in 1..(n * n) : x # -1
    OBVIOUS
  <2>. QED
    BY <2>1, <2>2, <2>3
<1>3. k \in Nat
  <2>1. here \in Square(n)
    BY <1>1 DEF Square
  <2>2. k \in 1..(n * n)
    BY <1>1, <1>2, <2>1
  <2>3. \A x \in 1..(n * n) : x \in Nat
    OBVIOUS
  <2>. QED
    BY <2>2, <2>3
<1>4. CASE Along(n, here) # n - 1
  <2> DEFINE c == <<Wrap(n, row - 1), Wrap(n, col + 1)>>
  <2>1. c \in Square(n) /\ NumberAt(n, c) = k + 1 /\ ~(row = 0 /\ col = n - 1)
    BY <1>1, <1>4, UpAndRight
  <2>2. Cell = c
    <3>1. CASE row = 0
      <4>1. c = <<n - 1, col + 1>>
        BY <1>1, <2>1, <3>1 DEF Wrap
      <4>. QED
        BY <2>1, <3>1, <4>1 DEF Cell
    <3>2. CASE row # 0 /\ col = n - 1
      <4>1. c = <<row - 1, 0>>
        BY <1>1, <3>2 DEF Wrap
      <4>. QED
        BY <3>2, <4>1 DEF Cell
    <3>3. CASE row # 0 /\ col # n - 1
      <4>1. c = <<row - 1, col + 1>>
        BY <1>1, <3>3 DEF Wrap
      <4>2. ~(NumberAt(n, c) <= k)
        BY <1>3, <2>1
      <4>3. a[c] = -1
        BY <1>2, <2>1, <4>2
      <4>. QED
        BY <3>3, <4>1, <4>3 DEF Cell
    <3>. QED
      BY <3>1, <3>2, <3>3
  <2>. QED
    BY <2>1, <2>2
<1>5. CASE Along(n, here) = n - 1
  <2> DEFINE c == <<row + 1, col>>
             d == <<row - 1, col + 1>>
  <2>1. /\ c \in Square(n) /\ NumberAt(n, c) = k + 1 /\ (row = 0 <=> col = n - 1)
        /\ row # 0 => d \in Square(n) /\ NumberAt(n, d) <= k
    BY <1>1, <1>5, DownAtTheEnd
  <2>2. Cell = c
    <3>1. CASE row = 0
      BY <2>1, <3>1 DEF Cell
    <3>2. CASE row # 0
      <4>1. a[d] # -1
        BY <1>2, <2>1, <3>2
      <4>. QED
        BY <2>1, <3>2, <4>1 DEF Cell
    <3>. QED
      BY <3>1, <3>2
  <2>. QED
    BY <2>1, <2>2
<1>. QED
  BY <1>4, <1>5

LEMMA MagicStarts ==
  ASSUME MagicInv, MagicStart
  PROVE  MagicInv'
<1>1. n' \in Int
  BY OrdersAssumption DEF MagicStart
<1>2. CASE n' % 2 = 0 \/ n' < 0
  BY <1>1, <1>2 DEF MagicStart, MagicInv, MagicTypes
<1>3. CASE n' % 2 # 0 /\ ~(n' < 0)
  <2> DEFINE o == n'
             h == o \div 2
             c == <<0, h>>
  <2>1. o \in Nat /\ o % 2 = 1
    <3>1. \A x \in Int : x % 2 # 0 /\ ~(x < 0) => x \in Nat /\ x % 2 = 1
      OBVIOUS
    <3>. QED
      BY <1>1, <1>3, <3>1
  <2>2. /\ row' = 0 /\ col' = h /\ k' = 1 /\ magic' = "fills"
        /\ a' = [p \in Square(o) |-> IF p = c THEN 1 ELSE -1]
    BY <1>3 DEF MagicStart, Square
  <2>3. h \in Nat /\ o = 2 * h + 1
    BY <2>1, HalfOf
  <2>4. c \in Square(o) /\ 0 \in 0..(o - 1) /\ h \in 0..(o - 1)
    <3> HIDE DEF o, h
    <3>1. 0 \in 0..(o - 1) /\ h \in 0..(o - 1)
      BY <2>3
    <3>. QED
      BY <3>1 DEF Square
  <2>5. NumberAt(o, c) = 1
    <3>1. Diagonal(o, c) = Wrap(o, 0 + h - h)
      BY DEF Diagonal
    <3>2. Wrap(o, 0 + h - h) = 0 /\ Wrap(o, 2 * 0 - 0) = 0 /\ 0 * o + 0 + 1 = 1
      <4> HIDE DEF o, h
      <4>. QED
        BY <2>3 DEF Wrap
    <3>3. Along(o, c) = 0
      BY <3>1, <3>2 DEF Along
    <3>. QED
      BY <3>1, <3>2, <3>3 DEF NumberAt
  <2>6. ASSUME NEW p \in Square(o)
        PROVE  a'[p] = IF NumberAt(o, p) <= 1 THEN NumberAt(o, p) ELSE -1
    <3>1. NumberAt(o, p) \in 1..(o * o) /\ (NumberAt(o, p) = 1 => p = c)
      BY <2>1, <2>4, <2>5, NumbersIn, NumbersApart
    <3>2. \A x \in 1..(o * o) : x <= 1 <=> x = 1
      OBVIOUS
    <3>3. a'[p] = IF p = c THEN 1 ELSE -1
      BY <2>2
    <3> HIDE DEF o, c
    <3>4. CASE p = c
      BY <2>5, <3>2, <3>3, <3>4
    <3>5. CASE p # c
      BY <3>1, <3>2, <3>3, <3>5
    <3>. QED
      BY <3>4, <3>5
  <2>7. a' \in [Square(o) -> Int]
    BY <2>2
  <2>8. Filled'
    BY <2>1, <2>2, <2>4, <2>5, <2>6, <2>7 DEF Filled
  <2>. QED
    BY <2>2, <2>8 DEF MagicInv, MagicTypes
<1>. QED
  BY <1>2, <1>3

LEMMA MagicFills ==
  ASSUME MagicInv, MagicFill
  PROVE  MagicInv'
<1>1. Filled /\ k # n * n /\ magic = "fills"
  BY DEF MagicInv, MagicFill
<1>2. Cell \in Square(n) /\ NumberAt(n, Cell) = k + 1
  BY <1>1, NextCell
<1>3. /\ n \in Nat /\ n % 2 = 1 /\ a \in [Square(n) -> Int] /\ DOMAIN a = Square(n)
      /\ \A p \in Square(n) : a[p] = IF NumberAt(n, p) <= k THEN NumberAt(n, p) ELSE -1
  BY <1>1 DEF Filled
<1> DEFINE c == Cell
<1>4. /\ row' = c[1] /\ col' = c[2] /\ k' = k + 1 /\ a' = [a EXCEPT ![c] = k + 1]
      /\ magic' = magic /\ n' = n
  BY <1>2, <1>3 DEF MagicFill
<1>5. c[1] \in 0..(n - 1) /\ c[2] \in 0..(n - 1) /\ c = <<c[1], c[2]>> /\ k + 1 \in 1..(n * n)
  BY <1>2, <1>3, NumbersIn
<1>6. k \in Int
  <2>1. <<row, col>> \in Square(n) /\ k = NumberAt(n, <<row, col>>)
    BY <1>1 DEF Filled, Square
  <2>2. k \in 1..(n * n)
    BY <1>3, <2>1, NumbersIn
  <2>. QED
    BY <2>2
<1>7. ASSUME NEW p \in Square(n)
      PROVE  a'[p] = IF NumberAt(n, p) <= k + 1 THEN NumberAt(n, p) ELSE -1
  <2>1. NumberAt(n, p) \in Int /\ (NumberAt(n, p) = k + 1 => p = c)
    <3>1. NumberAt(n, p) \in 1..(n * n) /\ (NumberAt(n, p) = k + 1 => p = c)
      BY <1>2, <1>3, NumbersIn, NumbersApart
    <3>2. \A x \in 1..(n * n) : x \in Int
      OBVIOUS
    <3>. QED
      BY <3>1, <3>2
  <2>2. a'[p] = IF p = c THEN k + 1 ELSE a[p]
    BY <1>2, <1>3, <1>4
  <2>3. NumberAt(n, c) = k + 1
    BY <1>2
  <2> DEFINE x == NumberAt(n, p)
  <2>4. a[p] = IF x <= k THEN x ELSE -1
    BY <1>3
  <2> HIDE DEF c, x
  <2>5. CASE p = c
    BY <1>6, <2>2, <2>3, <2>5 DEF x
  <2>6. CASE p # c
    BY <1>6, <2>1, <2>2, <2>4, <2>6 DEF x
  <2>. QED
    BY <2>5, <2>6 DEF x
<1> HIDE DEF c
<1>8. a' \in [Square(n) -> Int]
  <2>1. k + 1 \in Int
    BY <1>6
  <2>. QED
    BY <1>3, <1>4, <2>1
<1>9. Filled'
  BY <1>2, <1>3, <1>4, <1>5, <1>7, <1>8 DEF Filled, c
<1>. QED
  BY <1>1, <1>4, <1>9 DEF MagicInv, MagicTypes

LEMMA MagicSteps == MagicInv /\ (MagicNext \/ UNCHANGED magicVars) => MagicInv'
<1> SUFFICES ASSUME MagicInv, MagicNext \/ UNCHANGED magicVars
             PROVE  MagicInv'
  OBVIOUS
<1>1. CASE MagicStart
  BY <1>1, MagicStarts
<1>2. CASE MagicFill
  BY <1>2, MagicFills
<1>3. CASE magic_board
  BY <1>3 DEF magic_board, MagicInv, MagicTypes, Filled
<1>4. CASE UNCHANGED magicVars
  BY <1>4 DEF magicVars, MagicInv, MagicTypes, Filled
<1>. QED
  BY <1>1, <1>2, <1>3, <1>4 DEF MagicNext

LEMMA Numbered ==
  ASSUME NEW m \in Nat, NEW S, NEW f, Numbers(f, S, m)
  PROVE  IsFiniteSet(S) /\ Cardinality(S) = m
<1> DEFINE I == 0..(m - 1)
           e == [v \in I |-> CHOOSE x \in S : f[x] = v]
<1>1. \A v \in I : e[v] \in S /\ f[e[v]] = v
  BY DEF Numbers
<1>2. e \in [I -> S] /\ \A v, w \in I : e[v] = e[w] => v = w
  BY <1>1
<1>3. \A x \in S : f[x] \in I /\ e[f[x]] = x
  BY <1>1 DEF Numbers
<1> HIDE DEF e
<1>4. e \in Bijection(I, S)
  BY <1>2, <1>3 DEF Bijection, Injection, Surjection, IsInjective
<1>5. ExistsBijection(I, S)
  BY <1>4 DEF ExistsBijection
<1>6. IsFiniteSet(I) /\ Cardinality(I) = m
  <2>1. 0 \in Int /\ m - 1 \in Int
    OBVIOUS
  <2>2. IsFiniteSet(I) /\ Cardinality(I) = IF 0 > m - 1 THEN 0 ELSE (m - 1) - 0 + 1
    BY <2>1, FS_Interval
  <2>. QED
    BY <2>2
<1>. QED
  BY <1>5, <1>6, FS_Bijection

(* A line that meets every diagonal, and every place along one, has the     *)
(* magic sum.                                                               *)
LEMMA LineSum ==
  ASSUME NEW o \in Nat, o % 2 = 1, NEW S \in SUBSET Square(o), IsFiniteSet(S), Cardinality(S) = o,
         NEW b, \A p \in S : b[p] = NumberAt(o, p), NEW r, IsSum(r, S, b),
         Numbers([p \in S |-> Diagonal(o, p)], S, o),
         Numbers([p \in S |-> Along(o, p)], S, o)
  PROVE  2 * r[S] = o * (o * o + 1)
<1> DEFINE f == [p \in S |-> Diagonal(o, p)]
           e == [p \in S |-> Along(o, p)]
<1>1. \A p \in S : f[p] \in Int /\ e[p] \in Int
  BY NumbersIn
<1>2. Both(b, f, o, e, S)
  BY <1>1 DEF NumberAt, Both
<1>3. Numbers(f, S, o) /\ Numbers(e, S, o)
  OBVIOUS
<1> HIDE DEF f, e
<1>4. PICK g : IsSum(g, S, f)
  BY <1>1, SomeSum
<1>5. PICK h : IsSum(h, S, e)
  BY <1>1, SomeSum
<1>6. 2 * g[S] = o * (o - 1)
  BY <1>3, <1>4, SumOfAll
<1>7. 2 * h[S] = o * (o - 1)
  BY <1>3, <1>5, SumOfAll
<1>8. r[S] = g[S] * o + h[S] + o
  <2>1. o \in Int
    OBVIOUS
  <2>. QED
    BY <1>2, <1>4, <1>5, <2>1, SumOfBoth
<1> DEFINE gs == g[S]
           hs == h[S]
<1>9. gs \in Int /\ hs \in Int
  BY <1>4, <1>5 DEF IsSum
<1> HIDE DEF gs, hs
<1>10. 2 * gs = o * (o - 1) /\ 2 * hs = o * (o - 1) /\ r[S] = gs * o + hs + o
  BY <1>6, <1>7, <1>8 DEF gs, hs
<1>11. 2 * (gs * o + hs + o) = (2 * gs) * o + 2 * hs + 2 * o
  <2>1. gs * o \in Int /\ (2 * gs) * o = 2 * (gs * o)
    BY <1>9
  <2> DEFINE x == gs * o
  <2>2. x \in Int
    BY <2>1
  <2> HIDE DEF x
  <2>3. 2 * (x + hs + o) = 2 * x + 2 * hs + 2 * o
    BY <1>9, <2>2
  <2>. QED
    BY <2>1, <2>3 DEF x
<1>12. (o * (o - 1)) * o + o * (o - 1) + 2 * o = o * (o * o + 1)
  OBVIOUS
<1>. QED
  BY <1>10, <1>11, <1>12

(* A row meets every diagonal and every place along one. *)
LEMMA RowLine ==
  ASSUME NEW o \in Nat, o % 2 = 1, NEW i \in 0..(o - 1), NEW S, S = {<<i, j>> : j \in 0..(o - 1)}
  PROVE  /\ S \in SUBSET Square(o)
         /\ Numbers([p \in S |-> p[2]], S, o)
         /\ Numbers([p \in S |-> Diagonal(o, p)], S, o)
         /\ Numbers([p \in S |-> Along(o, p)], S, o)
<1> DEFINE h == o \div 2
           I == 0..(o - 1)
           Q(y) == Wrap(o, i + y - h)
           R(y) == Wrap(o, 2 * Q(y) - i)
           Turn(x) == IF (x + i) % 2 = 0 THEN Wrap(o, (x + i) \div 2) ELSE Wrap(o, (x + i + o) \div 2)
<1>1. h \in Nat /\ o = 2 * h + 1
  BY HalfOf
<1>2. \A p \in S : p[2] \in I /\ p = <<i, p[2]>>
  OBVIOUS
<1>3. \A j \in I : <<i, j>> \in S /\ <<i, j>>[2] = j
  OBVIOUS
<1>4. \A p \in S : Diagonal(o, p) = Q(p[2]) /\ Along(o, p) = R(p[2])
  BY <1>2 DEF Diagonal, Along
<1>5. S \in SUBSET Square(o)
  BY <1>2 DEF Square
<1>6. Numbers([p \in S |-> p[2]], S, o)
  BY <1>2, <1>3 DEF Numbers
<1> HIDE DEF h
<1>7. \A j \in I : Q(j) \in I
  BY <1>1 DEF Wrap
<1>8. \A j, x \in I : Q(j) = Q(x) => j = x
  BY <1>1 DEF Wrap
<1>9. \A x \in I : Wrap(o, x - i + h) \in I /\ Q(Wrap(o, x - i + h)) = x
  BY <1>1 DEF Wrap
<1>10. \A x \in I : Wrap(o, 2 * x - i) \in I
  BY DEF Wrap
<1>11. \A x, y \in I : Wrap(o, 2 * x - i) = Wrap(o, 2 * y - i) => x = y
  BY <1>1 DEF Wrap
<1>12. \A x \in I : Turn(x) \in I /\ Wrap(o, 2 * Turn(x) - i) = x
  BY <1>1 DEF Wrap
<1> HIDE DEF Turn, R, Q, I
<1>13. Numbers([p \in S |-> Diagonal(o, p)], S, o)
  <2>1. \A p \in S : Diagonal(o, p) \in I
    BY <1>2, <1>4, <1>7
  <2>2. \A p, q \in S : Diagonal(o, p) = Diagonal(o, q) => p = q
    BY <1>2, <1>4, <1>8
  <2>3. ASSUME NEW x \in I
        PROVE  \E p \in S : Diagonal(o, p) = x
    <3>1. PICK j \in I : Q(j) = x
      BY <1>9
    <3>2. Diagonal(o, <<i, j>>) = x
      BY <1>3, <1>4, <3>1
    <3>. QED
      BY <1>3, <3>2
  <2>. QED
    BY <2>1, <2>2, <2>3 DEF Numbers, I
<1>14. Numbers([p \in S |-> Along(o, p)], S, o)
  <2>1. \A p \in S : Along(o, p) \in I
    BY <1>2, <1>4, <1>7, <1>10 DEF R
  <2>2. \A p, q \in S : Along(o, p) = Along(o, q) => p = q
    BY <1>2, <1>4, <1>7, <1>8, <1>11 DEF R
  <2>3. ASSUME NEW x \in I
        PROVE  \E p \in S : Along(o, p) = x
    <3>1. PICK y \in I : Wrap(o, 2 * y - i) = x
      BY <1>12
    <3>2. PICK j \in I : Q(j) = y
      BY <1>9
    <3>3. Along(o, <<i, j>>) = x
      BY <1>3, <1>4, <3>1, <3>2 DEF R
    <3>. QED
      BY <1>3, <3>3
  <2>. QED
    BY <2>1, <2>2, <2>3 DEF Numbers, I
<1>. QED
  BY <1>5, <1>6, <1>13, <1>14

(* So does a column. *)
LEMMA ColumnLine ==
  ASSUME NEW o \in Nat, o % 2 = 1, NEW j \in 0..(o - 1), NEW S, S = {<<i, j>> : i \in 0..(o - 1)}
  PROVE  /\ S \in SUBSET Square(o)
         /\ Numbers([p \in S |-> p[1]], S, o)
         /\ Numbers([p \in S |-> Diagonal(o, p)], S, o)
         /\ Numbers([p \in S |-> Along(o, p)], S, o)
<1> DEFINE h == o \div 2
           I == 0..(o - 1)
           Q(i) == Wrap(o, i + j - h)
           R(i) == Wrap(o, 2 * Q(i) - i)
<1>1. h \in Nat /\ o = 2 * h + 1
  BY HalfOf
<1>2. \A p \in S : p[1] \in I /\ p = <<p[1], j>>
  OBVIOUS
<1>3. \A i \in I : <<i, j>> \in S /\ <<i, j>>[1] = i
  OBVIOUS
<1>4. \A p \in S : Diagonal(o, p) = Q(p[1]) /\ Along(o, p) = R(p[1])
  BY <1>2 DEF Diagonal, Along
<1>5. S \in SUBSET Square(o)
  BY <1>2 DEF Square
<1>6. Numbers([p \in S |-> p[1]], S, o)
  BY <1>2, <1>3 DEF Numbers
<1> HIDE DEF h
<1>7. \A i \in I : Q(i) \in I
  BY <1>1 DEF Wrap
<1>8. \A i, x \in I : Q(i) = Q(x) => i = x
  BY <1>1 DEF Wrap
<1>9. \A x \in I : Wrap(o, x - j + h) \in I /\ Q(Wrap(o, x - j + h)) = x
  BY <1>1 DEF Wrap
<1>10. \A i \in I : R(i) \in I
  BY <1>1 DEF Wrap
<1>11. \A i, x \in I : R(i) = R(x) => i = x
  BY <1>1 DEF Wrap
<1>12. \A x \in I : LET y == Wrap(o, Wrap(o, x - j) - j - 1) IN y \in I /\ R(y) = x
  BY <1>1, SMTT(20) DEF Wrap
<1> HIDE DEF R, Q, I
<1>13. Numbers([p \in S |-> Diagonal(o, p)], S, o)
  <2>1. \A p \in S : Diagonal(o, p) \in I
    BY <1>2, <1>4, <1>7
  <2>2. \A p, q \in S : Diagonal(o, p) = Diagonal(o, q) => p = q
    BY <1>2, <1>4, <1>8
  <2>3. ASSUME NEW x \in I
        PROVE  \E p \in S : Diagonal(o, p) = x
    <3>1. PICK i \in I : Q(i) = x
      BY <1>9
    <3>2. Diagonal(o, <<i, j>>) = x
      BY <1>3, <1>4, <3>1
    <3>. QED
      BY <1>3, <3>2
  <2>. QED
    BY <2>1, <2>2, <2>3 DEF Numbers, I
<1>14. Numbers([p \in S |-> Along(o, p)], S, o)
  <2>1. \A p \in S : Along(o, p) \in I
    BY <1>2, <1>4, <1>10
  <2>2. \A p, q \in S : Along(o, p) = Along(o, q) => p = q
    BY <1>2, <1>4, <1>11
  <2>3. ASSUME NEW x \in I
        PROVE  \E p \in S : Along(o, p) = x
    <3>1. PICK i \in I : R(i) = x
      BY <1>12
    <3>2. Along(o, <<i, j>>) = x
      BY <1>3, <1>4, <3>1
    <3>. QED
      BY <1>3, <3>2
  <2>. QED
    BY <2>1, <2>2, <2>3 DEF Numbers, I
<1>. QED
  BY <1>5, <1>6, <1>13, <1>14

(* Opposite cells of a square make o * o + 1.                                *)
LEMMA Opposites ==
  ASSUME NEW o \in Nat, o % 2 = 1, NEW i \in 0..(o - 1), NEW j \in 0..(o - 1)
  PROVE  NumberAt(o, <<i, j>>) + NumberAt(o, <<o - 1 - i, o - 1 - j>>) = o * o + 1
<1> DEFINE h == o \div 2
           u == o - 1 - i
           v == o - 1 - j
           q == Wrap(o, i + j - h)
           s == Wrap(o, u + v - h)
           r == Wrap(o, 2 * q - i)
           t == Wrap(o, 2 * s - u)
<1>1. h \in Nat /\ o = 2 * h + 1
  BY HalfOf
<1>2. \A x, y : <<x, y>>[1] = x /\ <<x, y>>[2] = y
  OBVIOUS
<1>3. NumberAt(o, <<i, j>>) = q * o + r + 1
  BY <1>2 DEF Diagonal, Along, NumberAt
<1>4. NumberAt(o, <<u, v>>) = s * o + t + 1
  BY <1>2 DEF Diagonal, Along, NumberAt
<1> HIDE DEF h
<1>5. q \in 0..(o - 1) /\ s = o - 1 - q
  BY <1>1 DEF Wrap
<1> HIDE DEF q, s
<1>6. r \in 0..(o - 1) /\ t = o - 1 - r
  BY <1>1, <1>5 DEF Wrap
<1> HIDE DEF r, t
<1>7. (o - 1 - q) * o = o * o - o - q * o /\ q * o \in Int /\ o * o \in Int
  BY <1>5
<1> DEFINE x == q * o
           y == o * o
<1>8. NumberAt(o, <<i, j>>) = x + r + 1 /\ NumberAt(o, <<u, v>>) = (y - o - x) + (o - 1 - r) + 1
  BY <1>3, <1>4, <1>5, <1>6, <1>7
<1>9. x \in Int /\ y \in Int /\ r \in Int
  BY <1>6, <1>7
<1> HIDE DEF x, y, u, v
<1>10. NumberAt(o, <<i, j>>) + NumberAt(o, <<u, v>>) = y + 1
  BY <1>8, <1>9
<1>. QED
  BY <1>10 DEF u, v, y

(* The two diagonals are made of opposite pairs. *)
LEMMA DiagonalsOf ==
  ASSUME NEW o \in Nat, o % 2 = 1, NEW S,
         \/ S = {<<i, i>> : i \in 0..(o - 1)}
         \/ S = {<<i, o - 1 - i>> : i \in 0..(o - 1)}
  PROVE  /\ S \in SUBSET Square(o)
         /\ Numbers([p \in S |-> p[1]], S, o)
         /\ LET opposite == [p \in S |-> <<o - 1 - p[1], o - 1 - p[2]>>]
            IN  \A p \in S : /\ opposite[p] \in S /\ opposite[opposite[p]] = p
                             /\ NumberAt(o, p) + NumberAt(o, opposite[p]) = o * o + 1
<1> DEFINE I == 0..(o - 1)
           opposite == [p \in S |-> <<o - 1 - p[1], o - 1 - p[2]>>]
<1>1. \A p \in S : /\ p[1] \in I /\ p[2] \in I /\ p = <<p[1], p[2]>>
                   /\ opposite[p] \in S /\ opposite[opposite[p]] = p
                   /\ opposite[p] = <<o - 1 - p[1], o - 1 - p[2]>>
  <2>1. CASE S = {<<i, i>> : i \in I}
    <3>1. \A i \in I : o - 1 - i \in I /\ o - 1 - (o - 1 - i) = i
      OBVIOUS
    <3>2. \A i \in I : <<i, i>> \in S /\ opposite[<<i, i>>] = <<o - 1 - i, o - 1 - i>>
      BY <2>1
    <3>. QED
      BY <2>1, <3>1, <3>2
  <2>2. CASE S = {<<i, o - 1 - i>> : i \in I}
    <3>1. \A i \in I : o - 1 - i \in I /\ o - 1 - (o - 1 - i) = i
      OBVIOUS
    <3>2. \A i \in I : <<i, o - 1 - i>> \in S /\ opposite[<<i, o - 1 - i>>] = <<o - 1 - i, i>>
      BY <2>2, <3>1
    <3>. QED
      BY <2>2, <3>1, <3>2
  <2>. QED
    BY <2>1, <2>2
<1>2. S \in SUBSET Square(o)
  BY <1>1 DEF Square
<1>3. Numbers([p \in S |-> p[1]], S, o)
  <2>1. \A p, q \in S : p[1] = q[1] => p = q
    OBVIOUS
  <2>2. ASSUME NEW i \in I
        PROVE  \E p \in S : p[1] = i
    <3>1. <<i, i>> \in S \/ <<i, o - 1 - i>> \in S
      OBVIOUS
    <3>. QED
      BY <3>1
  <2> HIDE DEF opposite, I
  <2>. QED
    BY <1>1, <2>1, <2>2 DEF Numbers, I
<1>4. \A p \in S : NumberAt(o, p) + NumberAt(o, opposite[p]) = o * o + 1
  BY <1>1, Opposites
<1>. QED
  BY <1>1, <1>2, <1>3, <1>4

(* When the square is full, all its lines have the sum. *)
LEMMA MagicDone == MagicInv => SquareIsMagic
<1> SUFFICES ASSUME MagicInv, magic = "shows"
             PROVE  SquareIsMagic
  BY DEF SquareIsMagic
<1>1. /\ n \in Nat /\ n % 2 = 1 /\ a \in [Square(n) -> Int] /\ k = n * n
      /\ \A p \in Square(n) : a[p] = IF NumberAt(n, p) <= k THEN NumberAt(n, p) ELSE -1
  BY DEF MagicInv, Filled
<1>2. \A p \in Square(n) : a[p] = NumberAt(n, p) /\ a[p] \in Int
  <2>1. \A p \in Square(n) : NumberAt(n, p) \in 1..(n * n)
    BY <1>1, NumbersIn
  <2>2. \A x \in 1..(n * n) : x <= n * n
    BY <1>1
  <2>. QED
    BY <1>1, <2>1, <2>2
<1>3. {a[p] : p \in DOMAIN a} = 1..(n * n)
  <2>1. {NumberAt(n, p) : p \in Square(n)} = 1..(n * n)
    BY <1>1, NumbersAll
  <2>2. DOMAIN a = Square(n)
    BY <1>1
  <2>. QED
    BY <1>2, <2>1, <2>2
<1>4. ASSUME NEW S \in SUBSET Square(n), IsFiniteSet(S)
      PROVE  \E g : IsSum(g, S, a) /\ g[S] = SumOver(S)
  BY <1>2, <1>4, SumOverIs
<1>5. ASSUME NEW S, NEW i \in 0..(n - 1),
             \/ S = {<<i, j>> : j \in 0..(n - 1)} \/ S = {<<j, i>> : j \in 0..(n - 1)}
      PROVE  2 * SumOver(S) = n * (n * n + 1)
  <2>1. PICK f : Numbers(f, S, n)
    BY <1>1, <1>5, RowLine, ColumnLine
  <2>2. IsFiniteSet(S) /\ Cardinality(S) = n
    BY <1>1, <2>1, Numbered
  <2>3. /\ S \in SUBSET Square(n)
        /\ Numbers([p \in S |-> Diagonal(n, p)], S, n)
        /\ Numbers([p \in S |-> Along(n, p)], S, n)
    BY <1>1, <1>5, RowLine, ColumnLine
  <2>4. PICK g : IsSum(g, S, a) /\ g[S] = SumOver(S)
    BY <1>4, <2>2, <2>3
  <2>5. \A p \in S : a[p] = NumberAt(n, p)
    BY <1>2, <2>3
  <2>6. 2 * g[S] = n * (n * n + 1)
    BY <1>1, <2>2, <2>3, <2>4, <2>5, LineSum
  <2>. QED
    BY <2>4, <2>6
<1>6. ASSUME NEW S,
             \/ S = {<<i, i>> : i \in 0..(n - 1)}
             \/ S = {<<i, n - 1 - i>> : i \in 0..(n - 1)}
      PROVE  2 * SumOver(S) = n * (n * n + 1)
  <2> DEFINE o == [p \in S |-> <<n - 1 - p[1], n - 1 - p[2]>>]
  <2>1. /\ S \in SUBSET Square(n) /\ Numbers([p \in S |-> p[1]], S, n)
        /\ \A p \in S : /\ o[p] \in S /\ o[o[p]] = p
                        /\ NumberAt(n, p) + NumberAt(n, o[p]) = n * n + 1
    BY <1>1, <1>6, DiagonalsOf
  <2> HIDE DEF o
  <2>2. IsFiniteSet(S) /\ Cardinality(S) = n
    BY <1>1, <2>1, Numbered
  <2>3. PICK g : IsSum(g, S, a) /\ g[S] = SumOver(S)
    BY <1>4, <2>1, <2>2
  <2>4. \A p \in S : a[p] \in Int /\ o[p] \in S /\ o[o[p]] = p /\ a[p] + a[o[p]] = n * n + 1
    BY <1>2, <2>1
  <2>5. n * n + 1 \in Int
    BY <1>1
  <2>6. 2 * g[S] = Cardinality(S) * (n * n + 1)
    BY <2>2, <2>3, <2>4, <2>5, SumOfOpposites
  <2>. QED
    BY <2>2, <2>3, <2>6
<1>. QED
  BY <1>3, <1>5, <1>6 DEF SquareIsMagic

-----------------------------------------------------------------------------
(* The tower of hanoi.c. x[d] is the peg on which the disc d lies; Pile is  *)
(* what is then in the array of a peg. Every item left to do takes one such *)
(* placing to the next, and the last of them has all discs on the third peg. *)

Placings == [1..3 -> Pegs]

Pile(x, p) ==
  [i \in 1..3 |->
     IF i = 3
     THEN IF x[3] = p THEN 7 ELSE IF x[2] = p THEN 5 ELSE IF x[1] = p THEN 3 ELSE 0
     ELSE IF i = 2
     THEN IF x[3] = p /\ x[2] = p THEN 5
          ELSE IF (x[3] = p \/ x[2] = p) /\ x[1] = p THEN 3 ELSE 0
     ELSE IF x[3] = p /\ x[2] = p /\ x[1] = p THEN 3 ELSE 0]

Piles(x) == [p \in Pegs |-> Pile(x, p)]

Items ==
  [do : {"solve"}, n : 0..3, src : Pegs, aux : Pegs, dst : Pegs]
    \cup [do : {"move"}, src : Pegs, dst : Pegs]

Takes(w, x, y) ==
  IF w.do = "solve"
  THEN /\ w.src # w.aux /\ w.aux # w.dst /\ w.src # w.dst
       /\ \A d \in 1..3 : d <= w.n => x[d] = w.src
       /\ y = [d \in 1..3 |-> IF d <= w.n THEN w.dst ELSE x[d]]
  ELSE /\ w.src # w.dst
       /\ \E d \in 1..3 : /\ x[d] = w.src /\ \A e \in 1..(d - 1) : x[e] # w.src /\ x[e] # w.dst
                          /\ y = [x EXCEPT ![d] = w.dst]

(* The placings from here to the end. *)
Way(b, s, path) ==
  /\ path \in [1..(Len(s) + 1) -> Placings]
  /\ b = Piles(path[1])
  /\ path[Len(s) + 1] = [d \in 1..3 |-> 2]
  /\ \A i \in 1..Len(s) : Takes(s[i], path[i], path[i + 1])

HanoiInv ==
  /\ hanoi \in {"asks", "solves", "ends", "left", "undef"}
  /\ todo \in Seq(Items)
  /\ hanoi \in {"asks", "undef"} => my_pegs = <<>>
  /\ hanoi \in {"solves", "ends", "left"} => \E path : Way(my_pegs, todo, path)
  /\ hanoi = "ends" => todo = <<>>

(* The first entry that holds a disc, or the place past the last. *)
First(s) == IF s[1] # 0 THEN 1 ELSE IF s[2] # 0 THEN 2 ELSE IF s[3] # 0 THEN 3 ELSE 4

(* move_disc stops there, whatever is in the cell past the last. *)
LEMMA TopIs ==
  ASSUME NEW s \in [1..3 -> Nat], NEW behind \in Anything
  PROVE  Top(s, behind) = First(s)
<1> DEFINE cells == Append(s, behind)
           stops == {i \in DOMAIN cells : cells[i] # 0 \/ i = Len(s) + 1}
<1>1. /\ DOMAIN cells = 1..4 /\ Len(s) = 3
      /\ cells[1] = s[1] /\ cells[2] = s[2] /\ cells[3] = s[3]
  <2> DEFINE three == 3
  <2>1. s \in [1..three -> Nat] /\ three \in Nat
    OBVIOUS
  <2> HIDE DEF three
  <2>2. s \in Seq(Nat) /\ Len(s) = three /\ behind \in Nat
    BY <2>1 DEF Anything
  <2>3. /\ cells \in Seq(Nat) /\ Len(cells) = three + 1
        /\ \A i \in 1..Len(s) : cells[i] = s[i]
    BY <2>2, AppendProperties
  <2> HIDE DEF cells
  <2>. QED
    BY <2>2, <2>3 DEF three
<1>2. Top(s, behind) = CHOOSE i \in stops : \A j \in stops : i <= j
  BY DEF Top
<1> HIDE DEF cells
<1>3. \A i \in 1..4 : i = 1 \/ i = 2 \/ i = 3 \/ i = 4
  OBVIOUS
<1>4. First(s) \in stops /\ \A j \in stops : First(s) <= j
  BY <1>1, <1>3 DEF First
<1>5. \A u \in stops : u \in Nat
  BY <1>1
<1> HIDE DEF stops
<1>6. \A u \in stops : (\A j \in stops : u <= j) => u = First(s)
  BY <1>4, <1>5
<1>. QED
  BY <1>2, <1>4, <1>6

Shows(s, x, p) ==
  /\ s[3] = IF x[3] = p THEN 7 ELSE IF x[2] = p THEN 5 ELSE IF x[1] = p THEN 3 ELSE 0
  /\ s[2] = IF x[3] = p /\ x[2] = p THEN 5
            ELSE IF (x[3] = p \/ x[2] = p) /\ x[1] = p THEN 3 ELSE 0
  /\ s[1] = IF x[3] = p /\ x[2] = p /\ x[1] = p THEN 3 ELSE 0

(* A pile is given by its three entries. *)
LEMMA PileOf ==
  ASSUME NEW x \in Placings, NEW p \in Pegs
  PROVE  Pile(x, p) \in [1..3 -> {0, 3, 5, 7}] /\ Shows(Pile(x, p), x, p)
BY DEF Pile, Shows

(* A pile has smaller discs on greater ones. *)
LEMMA Piled ==
  ASSUME NEW x \in Placings, NEW p \in Pegs
  PROVE  Stacked(Pile(x, p))
<1>1. Pile(x, p) \in [1..3 -> {0, 3, 5, 7}]
  BY PileOf
<1>2. \A i, j \in 1..3 : i < j => (i = 1 /\ j = 2) \/ (i = 1 /\ j = 3) \/ (i = 2 /\ j = 3)
  OBVIOUS
<1>. QED
  BY <1>1, <1>2, PileOf DEF Stacked, Shows

TakenOff(s, t, d) ==
  First(s) \in DOMAIN s /\ s[First(s)] = 2 * d + 1 /\ [s EXCEPT ![First(s)] = 0] = t
PutOn(s, t, d) == First(s) - 1 \in DOMAIN s /\ [s EXCEPT ![First(s) - 1] = 2 * d + 1] = t

(* The disc on the top is taken off. *)
LEMMA Taken ==
  ASSUME NEW x \in Placings, NEW d \in 1..3, NEW p \in Pegs, NEW q \in Pegs, p # q,
         x[d] = p, \A e \in 1..(d - 1) : x[e] # p, NEW y, y = [x EXCEPT ![d] = q]
  PROVE  TakenOff(Pile(x, p), Pile(y, p), d)
<1> DEFINE s == Pile(x, p)
           t == Pile(y, p)
<1>1. s \in [1..3 -> {0, 3, 5, 7}] /\ s \in [1..3 -> Nat]
  BY PileOf
<1>2. y \in Placings /\ \A e \in 1..3 : y[e] = IF e = d THEN q ELSE x[e]
  BY DEF Placings
<1>3. t \in [1..3 -> {0, 3, 5, 7}]
  BY <1>2, PileOf
<1>4. Shows(s, x, p)
  BY PileOf
<1>5. Shows(t, y, p)
  BY <1>2, PileOf
<1>6. y[1] = IF 1 = d THEN q ELSE x[1]
  BY <1>2
<1>7. y[2] = (IF 2 = d THEN q ELSE x[2]) /\ y[3] = (IF 3 = d THEN q ELSE x[3])
  BY <1>2
<1> DEFINE uppermost == First(s)
<1>8. /\ s[1] # 0 => uppermost = 1
      /\ s[1] = 0 /\ s[2] # 0 => uppermost = 2
      /\ s[1] = 0 /\ s[2] = 0 /\ s[3] # 0 => uppermost = 3
  BY DEF First
<1>9. d = 1 \/ (d = 2 /\ x[1] # p) \/ (d = 3 /\ x[1] # p /\ x[2] # p)
  OBVIOUS
<1> HIDE DEF s, t, uppermost
<1>10. uppermost \in 1..3 /\ s[uppermost] = 2 * d + 1
       /\ t[1] = (IF uppermost = 1 THEN 0 ELSE s[1]) /\ t[2] = (IF uppermost = 2 THEN 0 ELSE s[2])
       /\ t[3] = (IF uppermost = 3 THEN 0 ELSE s[3])
  BY <1>4, <1>5, <1>6, <1>7, <1>8, <1>9 DEF Shows
<1>11. [s EXCEPT ![uppermost] = 0] = t
  BY <1>1, <1>3, <1>10
<1>12. uppermost \in DOMAIN s
  BY <1>1, <1>10
<1>. QED
  BY <1>10, <1>11, <1>12 DEF s, t, uppermost, TakenOff

(* And put on a peg with larger discs alone. *)
LEMMA Put ==
  ASSUME NEW x \in Placings, NEW d \in 1..3, NEW p \in Pegs, NEW q \in Pegs, p # q,
         x[d] = q, \A e \in 1..(d - 1) : x[e] # p, NEW y, y = [x EXCEPT ![d] = p]
  PROVE  PutOn(Pile(x, p), Pile(y, p), d)
<1> DEFINE s == Pile(x, p)
           t == Pile(y, p)
<1>1. s \in [1..3 -> {0, 3, 5, 7}] /\ s \in [1..3 -> Nat]
  BY PileOf
<1>2. y \in Placings /\ \A e \in 1..3 : y[e] = IF e = d THEN p ELSE x[e]
  BY DEF Placings
<1>3. t \in [1..3 -> {0, 3, 5, 7}]
  BY <1>2, PileOf
<1>4. Shows(s, x, p)
  BY PileOf
<1>5. Shows(t, y, p)
  BY <1>2, PileOf
<1>6. y[1] = IF 1 = d THEN p ELSE x[1]
  BY <1>2
<1>7. y[2] = (IF 2 = d THEN p ELSE x[2]) /\ y[3] = (IF 3 = d THEN p ELSE x[3])
  BY <1>2
<1> DEFINE uppermost == First(s)
<1>8. /\ s[1] # 0 => uppermost = 1
      /\ s[1] = 0 /\ s[2] # 0 => uppermost = 2
      /\ s[1] = 0 /\ s[2] = 0 /\ s[3] # 0 => uppermost = 3
      /\ s[1] = 0 /\ s[2] = 0 /\ s[3] = 0 => uppermost = 4
  BY DEF First
<1>9. \/ d = 1 /\ x[1] # p
      \/ d = 2 /\ x[1] # p /\ x[2] # p
      \/ d = 3 /\ x[1] # p /\ x[2] # p /\ x[3] # p
  OBVIOUS
<1> HIDE DEF s, t, uppermost
<1>10. uppermost - 1 \in 1..3
       /\ t[1] = (IF uppermost - 1 = 1 THEN 2 * d + 1 ELSE s[1])
       /\ t[2] = (IF uppermost - 1 = 2 THEN 2 * d + 1 ELSE s[2])
       /\ t[3] = (IF uppermost - 1 = 3 THEN 2 * d + 1 ELSE s[3])
  BY <1>4, <1>5, <1>6, <1>7, <1>8, <1>9 DEF Shows
<1>11. [s EXCEPT ![uppermost - 1] = 2 * d + 1] = t
  BY <1>1, <1>3, <1>10
<1>12. uppermost - 1 \in DOMAIN s
  BY <1>1, <1>10
<1>. QED
  BY <1>11, <1>12 DEF s, t, uppermost, PutOn

(* A pile depends on the discs of its peg alone. *)
LEMMA PegApart ==
  ASSUME NEW x \in Placings, NEW y \in Placings, NEW p \in Pegs,
         \A d \in 1..3 : (x[d] = p) <=> (y[d] = p)
  PROVE  Pile(x, p) = Pile(y, p)
BY DEF Pile

(* What move_disc makes of the pegs b. *)
Shifted(b, p, q) ==
  [b EXCEPT ![p][First(b[p])] = 0, ![q][First(b[q]) - 1] = b[p][First(b[p])]]

(* Both places are in the arrays. *)
InArrays(b, p, q) == First(b[p]) \in DOMAIN b[p] /\ First(b[q]) - 1 \in DOMAIN b[q]

(* move_disc on the arrays is the move of the top disc in the placing. *)
LEMMA DiscMoves ==
  ASSUME NEW x \in Placings, NEW y, NEW w \in Items, w.do = "move", Takes(w, x, y),
         NEW b, b = Piles(x)
  PROVE  Shifted(b, w.src, w.dst) = Piles(y) /\ InArrays(b, w.src, w.dst)
<1> DEFINE p == w.src
           q == w.dst
<1>1. p \in Pegs /\ q \in Pegs /\ p # q
  BY DEF Items, Takes
<1>2. PICK d \in 1..3 : /\ x[d] = p /\ \A e \in 1..(d - 1) : x[e] # p /\ x[e] # q
                        /\ y = [x EXCEPT ![d] = q]
  BY DEF Takes
<1> HIDE DEF p, q
<1> DEFINE f == Pile(x, p)
           g == Pile(x, q)
<1>3. b[p] = f /\ b[q] = g /\ b = [r \in Pegs |-> Pile(x, r)]
  BY <1>1 DEF Piles
<1>4. \A e \in 1..(d - 1) : x[e] # p
  BY <1>2
<1>5. \A e \in 1..(d - 1) : x[e] # q
  BY <1>2
<1>6. x[d] = p
  BY <1>2
<1>7. y = [x EXCEPT ![d] = q]
  BY <1>2
<1>8. p \in Pegs
  BY <1>1
<1>9. q \in Pegs
  BY <1>1
<1>10. p # q
  BY <1>1
<1>11. TakenOff(f, Pile(y, p), d)
  BY <1>4, <1>6, <1>7, <1>8, <1>9, <1>10, Taken
<1>12. PutOn(g, Pile(y, q), d)
  BY <1>5, <1>6, <1>7, <1>8, <1>9, <1>10, Put
<1> DEFINE fy == Pile(y, p)
           gy == Pile(y, q)
<1>13. y \in Placings /\ \A r \in Pegs : r # p /\ r # q => \A e \in 1..3 : (x[e] = r) <=> (y[e] = r)
  BY <1>1, <1>2 DEF Placings
<1>14. \A r \in Pegs : r # p /\ r # q => Pile(x, r) = Pile(y, r)
  BY <1>13, PegApart
<1> HIDE DEF f, g, fy, gy
<1>15. Shifted(b, p, q) = [b EXCEPT ![p] = [f EXCEPT ![First(f)] = 0],
                                    ![q] = [g EXCEPT ![First(g) - 1] = f[First(f)]]]
  BY <1>1, <1>3 DEF Shifted
<1>16. Shifted(b, p, q) = [b EXCEPT ![p] = fy, ![q] = gy]
  BY <1>11, <1>12, <1>15 DEF TakenOff, PutOn, fy, gy
<1>17. Shifted(b, p, q) = Piles(y)
  BY <1>1, <1>3, <1>14, <1>16 DEF fy, gy, Piles
<1>18. InArrays(b, p, q)
  BY <1>3, <1>11, <1>12 DEF TakenOff, PutOn, InArrays
<1>. QED
  BY <1>17, <1>18 DEF p, q

(* What a call leaves to do brings the same placing about. *)
LEMMA CallSolved ==
  ASSUME NEW w \in Items, w.do = "solve", w.n # 0, NEW x \in Placings, NEW y, Takes(w, x, y)
  PROVE  \E u, v \in Placings :
           /\ Takes(Call(w.n - 1, w.src, w.dst, w.aux), x, u)
           /\ Takes(Move(w.src, w.dst), u, v)
           /\ Takes(Call(w.n - 1, w.aux, w.src, w.dst), v, y)
<1> DEFINE m == w.n
           p == w.src
           r == w.aux
           q == w.dst
           u == [d \in 1..3 |-> IF d <= m - 1 THEN r ELSE x[d]]
           v == [u EXCEPT ![m] = q]
<1>1. m \in 1..3 /\ p \in Pegs /\ q \in Pegs /\ r \in Pegs
  BY DEF Items
<1>2. /\ p # r /\ r # q /\ p # q /\ \A d \in 1..3 : d <= m => x[d] = p
      /\ y = [d \in 1..3 |-> IF d <= m THEN q ELSE x[d]]
  BY DEF Takes
<1> HIDE DEF m, p, q, r
<1>3. u \in Placings /\ v \in Placings
  BY <1>1 DEF Placings
<1>4. Takes(Call(m - 1, p, q, r), x, u)
  BY <1>1, <1>2 DEF Takes, Call
<1>5. Takes(Move(p, q), u, v)
  <2>1. u[m] = p /\ \A e \in 1..(m - 1) : u[e] = r
    BY <1>1, <1>2
  <2> HIDE DEF u
  <2>. QED
    BY <1>1, <1>2, <2>1 DEF Takes, Move
<1>6. \A d \in 1..3 : v[d] = IF d <= m - 1 THEN r ELSE IF d = m THEN q ELSE x[d]
  BY <1>1
<1>7. Takes(Call(m - 1, r, p, q), v, y)
  <2>1. \A d \in 1..3 : d <= m - 1 => v[d] = r
    BY <1>6
  <2>2. y = [d \in 1..3 |-> IF d <= m - 1 THEN q ELSE v[d]]
    BY <1>1, <1>2, <1>6
  <2> HIDE DEF v
  <2>. QED
    BY <1>2, <2>1, <2>2 DEF Takes, Call
<1> HIDE DEF u, v
<1>. QED
  BY <1>3, <1>4, <1>5, <1>7 DEF m, p, q, r

(* To solve for no disc leaves the placing as it is. *)
LEMMA NothingMoved ==
  ASSUME NEW w, w.do = "solve", w.n = 0, NEW x \in Placings, NEW y, Takes(w, x, y)
  PROVE  y = x
BY DEF Takes, Placings

LEMMA HanoiStarts ==
  ASSUME HanoiInv, init_pegs
  PROVE  HanoiInv'
<1>1. CASE hanoi' = "undef"
  BY <1>1 DEF init_pegs, HanoiInv
<1>2. CASE hanoi' # "undef"
  <2> DEFINE x == [d \in 1..3 |-> 0]
             y == [d \in 1..3 |-> 2]
             c == Call(3, 0, 1, 2)
             path == [i \in 1..2 |-> IF i = 1 THEN x ELSE y]
  <2>1. /\ my_pegs' = [p \in Pegs |-> IF p = 0 THEN Tower(3) ELSE Bare(3)]
        /\ todo' = <<c>> /\ hanoi' = "solves"
    BY <1>2 DEF init_pegs
  <2>2. x \in Placings /\ y \in Placings
    BY DEF Placings, Pegs
  <2>3. c \in Items
    BY DEF Items, Call, Pegs
  <2>4. Pile(x, 0) = Tower(3) /\ Pile(x, 1) = Bare(3) /\ Pile(x, 2) = Bare(3)
    BY DEF Pile, Tower, Bare
  <2>5. Takes(c, x, y)
    BY DEF Takes, Call
  <2> HIDE DEF x, y, c
  <2>6. my_pegs' = Piles(x)
    BY <2>1, <2>4 DEF Pegs, Piles
  <2>7. Len(todo') = 1 /\ todo'[1] = c /\ todo' \in Seq(Items)
    BY <2>1, <2>3
  <2>8. path \in [1..2 -> Placings] /\ path[1] = x /\ path[2] = y
    BY <2>2
  <2> HIDE DEF path
  <2>9. Way(my_pegs', todo', path)
    BY <2>5, <2>6, <2>7, <2>8 DEF Way, y
  <2>. QED
    BY <2>1, <2>7, <2>9 DEF HanoiInv
<1>. QED
  BY <1>1, <1>2

(* solve_hanoi puts three items in the place of one, by the same way. *)
LEMMA HanoiCalls ==
  ASSUME HanoiInv, solve_hanoi
  PROVE  HanoiInv'
<1> DEFINE w == Head(todo)
           rest == Tail(todo)
           l == Len(todo)
<1>1. /\ hanoi = "solves" /\ hanoi' = "solves" /\ todo # <<>> /\ w.do = "solve"
      /\ todo' = Solved(w) \o rest /\ my_pegs' = my_pegs
  BY DEF solve_hanoi
<1>2. todo \in Seq(Items) /\ l \in Nat /\ l >= 1 /\ w = todo[1] /\ w \in Items /\ rest \in Seq(Items)
      /\ Len(rest) = l - 1 /\ \A i \in 1..(l - 1) : rest[i] = todo[i + 1]
  BY <1>1 DEF HanoiInv
<1>3. PICK path : Way(my_pegs, todo, path)
  BY <1>1 DEF HanoiInv
<1>4. /\ path \in [1..(l + 1) -> Placings] /\ my_pegs = Piles(path[1])
      /\ path[l + 1] = [d \in 1..3 |-> 2]
      /\ \A i \in 1..l : Takes(todo[i], path[i], path[i + 1])
  BY <1>3 DEF Way
<1> HIDE DEF w, rest, l
<1>5. path[1] \in Placings /\ path[2] \in Placings /\ Takes(w, path[1], path[2])
  BY <1>2, <1>4
<1>6. CASE w.n = 0
  <2> DEFINE way == [i \in 1..l |-> path[i + 1]]
  <2>1. todo' = rest
    BY <1>1, <1>2, <1>6 DEF Solved
  <2>2. path[2] = path[1]
    BY <1>1, <1>5, <1>6, NothingMoved
  <2>3. /\ way \in [1..l -> Placings] /\ way[1] = path[1] /\ way[l] = path[l + 1]
        /\ \A i \in 1..(l - 1) : Takes(rest[i], way[i], way[i + 1])
    <3>1. \A i \in 1..l : i + 1 \in 1..(l + 1) /\ way[i] = path[i + 1]
      BY <1>2
    <3>2. \A i \in 1..(l - 1) : i \in 1..l /\ i + 1 \in 1..l
      BY <1>2
    <3>3. 1 \in 1..l /\ l \in 1..l
      BY <1>2
    <3>. QED
      BY <1>2, <1>4, <2>2, <3>1, <3>2, <3>3
  <2> HIDE DEF way
  <2>4. Len(todo') + 1 = l /\ Len(todo') = l - 1
    BY <1>2, <2>1
  <2>5. Way(my_pegs', todo', way)
    BY <1>1, <1>4, <2>1, <2>3, <2>4 DEF Way
  <2>. QED
    BY <1>1, <1>2, <2>1, <2>5 DEF HanoiInv
<1>7. CASE w.n # 0
  <2>1. PICK u, v \in Placings :
          /\ Takes(Call(w.n - 1, w.src, w.dst, w.aux), path[1], u)
          /\ Takes(Move(w.src, w.dst), u, v)
          /\ Takes(Call(w.n - 1, w.aux, w.src, w.dst), v, path[2])
    BY <1>1, <1>2, <1>5, <1>7, CallSolved
  <2> DEFINE c1 == Call(w.n - 1, w.src, w.dst, w.aux)
             c2 == Move(w.src, w.dst)
             c3 == Call(w.n - 1, w.aux, w.src, w.dst)
             way == [i \in 1..(l + 3) |-> IF i = 1 THEN path[1] ELSE IF i = 2 THEN u
                                         ELSE IF i = 3 THEN v ELSE path[i - 2]]
  <2>2. c1 \in Items /\ c2 \in Items /\ c3 \in Items
    BY <1>1, <1>2, <1>7 DEF Items, Call, Move
  <2>3. todo' = <<c1, c2, c3>> \o rest
    BY <1>1, <1>7 DEF Solved
  <2>4. Takes(c1, path[1], u) /\ Takes(c2, u, v) /\ Takes(c3, v, path[2])
    BY <2>1
  <2> HIDE DEF c1, c2, c3
  <2>5. /\ todo' \in Seq(Items) /\ Len(todo') = l + 2
        /\ todo'[1] = c1 /\ todo'[2] = c2 /\ todo'[3] = c3
        /\ \A i \in 4..(l + 2) : todo'[i] = todo[i - 2]
    <3>1. <<c1, c2, c3>> \in Seq(Items) /\ Len(<<c1, c2, c3>>) = 3
      BY <2>2
    <3>2. todo' \in Seq(Items) /\ Len(todo') = l + 2
      BY <1>2, <2>3, <3>1
    <3>3. todo'[1] = c1 /\ todo'[2] = c2 /\ todo'[3] = c3
      BY <1>2, <2>3, <3>1
    <3>4. ASSUME NEW i \in 4..(l + 2)
          PROVE  todo'[i] = todo[i - 2]
      <4>1. i \in 1..(3 + Len(rest)) /\ ~(i <= 3) /\ i - 3 \in 1..(l - 1) /\ (i - 3) + 1 = i - 2
        BY <1>2
      <4>2. todo'[i] = rest[i - 3]
        BY <1>2, <2>3, <3>1, <4>1
      <4>. QED
        BY <1>2, <4>1, <4>2
    <3>. QED
      BY <3>2, <3>3, <3>4
  <2>6. way \in [1..(l + 3) -> Placings]
    BY <1>2, <1>4, <1>5
  <2>7. /\ way[1] = path[1] /\ way[2] = u /\ way[3] = v
        /\ \A i \in 4..(l + 3) : way[i] = path[i - 2]
    BY <1>2
  <2> HIDE DEF way
  <2>8. ASSUME NEW i \in 1..(l + 2)
        PROVE  Takes(todo'[i], way[i], way[i + 1])
    <3>1. CASE i = 1
      BY <2>4, <2>5, <2>7, <3>1
    <3>2. CASE i = 2
      BY <2>4, <2>5, <2>7, <3>2
    <3>3. CASE i = 3
      <4>1. way[4] = path[2]
        BY <1>2, <2>7
      <4>. QED
        BY <2>4, <2>5, <2>7, <3>3, <4>1
    <3>4. CASE i \in 4..(l + 2)
      <4>1. i \in 4..(l + 3) /\ i + 1 \in 4..(l + 3) /\ (i + 1) - 2 = (i - 2) + 1 /\ i - 2 \in 1..l
        BY <1>2, <3>4
      <4>2. Takes(todo[i - 2], path[i - 2], path[(i - 2) + 1])
        BY <1>4, <4>1
      <4>3. way[i] = path[i - 2] /\ way[i + 1] = path[(i - 2) + 1] /\ todo'[i] = todo[i - 2]
        BY <2>5, <2>7, <3>4, <4>1
      <4>. QED
        BY <4>2, <4>3
    <3>. QED
      BY <1>2, <3>1, <3>2, <3>3, <3>4
  <2>9. way[l + 3] = path[l + 1]
    BY <1>2, <2>7
  <2>10. Len(todo') + 1 = l + 3
    BY <1>2, <2>5
  <2>11. Way(my_pegs', todo', way)
    BY <1>1, <1>4, <2>5, <2>6, <2>7, <2>8, <2>9, <2>10 DEF Way
  <2>. QED
    BY <1>1, <2>5, <2>11 DEF HanoiInv
<1>. QED
  BY <1>6, <1>7

(* move_disc takes the first step of the way. *)
LEMMA HanoiMoves ==
  ASSUME HanoiInv, move_disc
  PROVE  HanoiInv'
<1> DEFINE w == Head(todo)
           rest == Tail(todo)
           l == Len(todo)
<1>1. /\ hanoi = "solves" /\ todo # <<>> /\ w.do = "move" /\ todo' = rest
      /\ \E behind \in Anything :
           LET from == my_pegs[w.src]  onto == my_pegs[w.dst]
               uppermost == Top(from, behind)  above == Top(onto, behind) - 1
           IN  IF uppermost \in DOMAIN from /\ above \in DOMAIN onto
               THEN /\ my_pegs' = [my_pegs EXCEPT ![w.src][uppermost] = 0, ![w.dst][above] = from[uppermost]]
                    /\ hanoi' \in {"solves", "left"}
               ELSE hanoi' = "undef" /\ UNCHANGED my_pegs
  BY DEF move_disc
<1>2. todo \in Seq(Items) /\ l \in Nat /\ l >= 1 /\ w = todo[1] /\ w \in Items /\ rest \in Seq(Items)
      /\ Len(rest) = l - 1 /\ \A i \in 1..(l - 1) : rest[i] = todo[i + 1]
  BY <1>1 DEF HanoiInv
<1>3. PICK path : Way(my_pegs, todo, path)
  BY <1>1 DEF HanoiInv
<1>4. /\ path \in [1..(l + 1) -> Placings] /\ my_pegs = Piles(path[1])
      /\ path[l + 1] = [d \in 1..3 |-> 2]
      /\ \A i \in 1..l : Takes(todo[i], path[i], path[i + 1])
  BY <1>3 DEF Way
<1> HIDE DEF w, rest, l
<1>5. path[1] \in Placings /\ path[2] \in Placings /\ Takes(w, path[1], path[2])
  BY <1>2, <1>4
<1> DEFINE way == [i \in 1..l |-> path[i + 1]]
<1>6. my_pegs' = Piles(path[2]) /\ hanoi' \in {"solves", "left"}
  <2>1. w \in Items
    BY <1>2
  <2>2. w.do = "move"
    BY <1>1
  <2>3. path[1] \in Placings
    BY <1>5
  <2>4. Takes(w, path[1], path[2])
    BY <1>5
  <2>5. my_pegs = Piles(path[1])
    BY <1>4
  <2>6. /\ Shifted(my_pegs, w.src, w.dst) = Piles(path[2])
        /\ InArrays(my_pegs, w.src, w.dst)
    BY <2>1, <2>2, <2>3, <2>4, <2>5, DiscMoves, Zenon
  <2>7. my_pegs[w.src] \in [1..3 -> Nat] /\ my_pegs[w.dst] \in [1..3 -> Nat]
    <3>1. w.src \in Pegs /\ w.dst \in Pegs
      BY <2>1, <2>2 DEF Items
    <3>2. \A p \in Pegs : Pile(path[1], p) \in [1..3 -> {0, 3, 5, 7}]
      BY <2>3, PileOf
    <3>. QED
      BY <2>5, <3>1, <3>2 DEF Piles
  <2>8. \A behind \in Anything : /\ Top(my_pegs[w.src], behind) = First(my_pegs[w.src])
                                /\ Top(my_pegs[w.dst], behind) = First(my_pegs[w.dst])
    BY <2>7, TopIs
  <2>9. my_pegs' = Shifted(my_pegs, w.src, w.dst) /\ hanoi' \in {"solves", "left"}
    BY <1>1, <2>6, <2>8 DEF Shifted, InArrays
  <2>. QED
    BY <2>6, <2>9
<1>7. /\ way \in [1..l -> Placings] /\ way[1] = path[2] /\ way[l] = path[l + 1]
      /\ \A i \in 1..(l - 1) : Takes(rest[i], way[i], way[i + 1])
  <2>1. \A i \in 1..l : i + 1 \in 1..(l + 1) /\ way[i] = path[i + 1]
    BY <1>2
  <2>2. \A i \in 1..(l - 1) : i \in 1..l /\ i + 1 \in 1..l
    BY <1>2
  <2>3. 1 \in 1..l /\ l \in 1..l /\ 1 + 1 = 2
    BY <1>2
  <2>4. way \in [1..l -> Placings]
    BY <1>4, <2>1
  <2> HIDE DEF way
  <2>5. way[1] = path[2] /\ way[l] = path[l + 1]
    BY <2>1, <2>3
  <2>6. ASSUME NEW i \in 1..(l - 1)
        PROVE  Takes(rest[i], way[i], way[i + 1])
    <3>1. /\ rest[i] = todo[i + 1] /\ way[i] = path[i + 1] /\ way[i + 1] = path[(i + 1) + 1]
          /\ i + 1 \in 1..l
      BY <1>2, <2>1, <2>2
    <3>. QED
      BY <1>4, <3>1
  <2>. QED
    BY <2>4, <2>5, <2>6
<1> HIDE DEF way
<1>8. Len(todo') + 1 = l /\ Len(todo') = l - 1
  BY <1>1, <1>2
<1>9. Way(my_pegs', todo', way)
  BY <1>1, <1>4, <1>6, <1>7, <1>8 DEF Way
<1>. QED
  BY <1>1, <1>2, <1>6, <1>9 DEF HanoiInv

LEMMA HanoiSteps == HanoiInv /\ (HanoiNext \/ UNCHANGED hanoiVars) => HanoiInv'
<1> SUFFICES ASSUME HanoiInv, HanoiNext \/ UNCHANGED hanoiVars
             PROVE  HanoiInv'
  OBVIOUS
<1>1. ASSUME UNCHANGED <<my_pegs, todo>>, NEW path, Way(my_pegs, todo, path)
      PROVE  Way(my_pegs', todo', path)
  BY <1>1 DEF Way
<1>2. CASE HanoiEnds
  BY <1>1, <1>2 DEF HanoiEnds, HanoiInv
<1>3. CASE UNCHANGED hanoiVars
  BY <1>1, <1>3 DEF hanoiVars, HanoiInv
<1>. QED
  BY <1>2, <1>3, HanoiStarts, HanoiCalls, HanoiMoves DEF HanoiNext

(* At the end of the way all discs are on the third peg. *)
LEMMA HanoiDone == HanoiInv => HanoiSolved
<1> SUFFICES ASSUME HanoiInv
             PROVE  HanoiSolved
  OBVIOUS
<1>1. CASE hanoi \in {"asks", "undef"}
  BY <1>1 DEF HanoiInv, HanoiSolved
<1>2. CASE hanoi \in {"solves", "ends", "left"}
  <2>1. PICK path : Way(my_pegs, todo, path)
    BY <1>2 DEF HanoiInv
  <2> DEFINE x == path[1]
  <2>2. x \in Placings /\ my_pegs = [p \in Pegs |-> Pile(x, p)]
    <3>1. Len(todo) \in Nat
      BY DEF HanoiInv
    <3>. QED
      BY <2>1, <3>1 DEF Way, Piles
  <2>3. \A p \in DOMAIN my_pegs : Stacked(my_pegs[p])
    BY <2>2, Piled
  <2>4. ASSUME hanoi = "ends"
        PROVE  my_pegs[2] = Tower(3) /\ my_pegs[0] = Bare(3) /\ my_pegs[1] = Bare(3)
    <3>1. Len(todo) = 0
      BY <2>4 DEF HanoiInv
    <3>2. x = [d \in 1..3 |-> 2]
      BY <2>1, <3>1 DEF Way
    <3>3. Pile(x, 2) = Tower(3) /\ Pile(x, 0) = Bare(3) /\ Pile(x, 1) = Bare(3)
      BY <3>2 DEF Pile, Tower, Bare
    <3> HIDE DEF x
    <3>. QED
      BY <2>2, <3>3 DEF Pegs
  <2>. QED
    BY <1>2, <2>3, <2>4 DEF HanoiSolved
<1>. QED
  BY <1>1, <1>2 DEF HanoiInv

-----------------------------------------------------------------------------
(* The puzzles together. *)

(* A step is of one program; the others stay. *)
LEMMA PuzzleStep ==
  ASSUME [Next]_vars
  PROVE  /\ HanoiNext \/ UNCHANGED hanoiVars
         /\ QueensNext \/ UNCHANGED queensVars
         /\ MagicNext \/ UNCHANGED magicVars
         /\ LifeNext \/ UNCHANGED lifeVars
         /\ ShuffleNext \/ UNCHANGED shuffleVars
         /\ TutorNext \/ UNCHANGED tutorVars
<1> USE DEF Next, Puzzle, Demonstration, vars, puzzleVars
<1>1. HanoiNext \/ UNCHANGED hanoiVars
  OBVIOUS
<1>2. QueensNext \/ UNCHANGED queensVars
  OBVIOUS
<1>3. MagicNext \/ UNCHANGED magicVars
  OBVIOUS
<1>4. LifeNext \/ UNCHANGED lifeVars
  OBVIOUS
<1>5. ShuffleNext \/ UNCHANGED shuffleVars
  OBVIOUS
<1>6. TutorNext \/ UNCHANGED tutorVars
  OBVIOUS
<1>. QED
  BY <1>1, <1>2, <1>3, <1>4, <1>5, <1>6

AnswersInv == HanoiInv /\ QueensInv /\ MagicInv /\ LifeInv

LEMMA AnswersStart == Init => AnswersInv
<1> SUFFICES ASSUME Init
             PROVE  AnswersInv
  OBVIOUS
<1>1. HanoiInv
  BY DEF Init, HanoiInit, HanoiInv
<1>2. QueensInv
  BY DEF Init, QueensInit, QueensInv
<1>3. MagicInv
  BY DEF Init, MagicInit, MagicInv, MagicTypes
<1>4. LifeInv
  BY DEF Init, LifeInit, LifeInv
<1>. QED
  BY <1>1, <1>2, <1>3, <1>4 DEF AnswersInv

LEMMA AnswersSteps == AnswersInv /\ [Next]_vars => AnswersInv'
BY PuzzleStep, HanoiSteps, QueensSteps, MagicSteps, LifeSteps DEF AnswersInv

(* The tower is moved by legal moves alone, every placing of any number of  *)
(* queens is found once, the square of every order is magic, and every      *)
(* generation follows from the one before, however large the screen.        *)
THEOREM AnswersRight == Spec => []AnswersAreRight
<1>1. AnswersInv => AnswersAreRight
  BY HanoiDone, AllFound, MagicDone, GenerationDone DEF AnswersInv, AnswersAreRight
<1>. QED
  BY <1>1, AnswersStart, AnswersSteps, PTL DEF Spec

-----------------------------------------------------------------------------
(* The types. *)

TutorInv == TutorTypes /\ (tutor = "types" => typed <= HSIZE)

LEMMA TutorStarts == TutorInit => TutorInv
BY TutorAssumption DEF TutorInit, TutorInv, TutorTypes

(* The rounds of tt.c keep their types, whatever is typed. *)
LEMMA TutorSteps ==
  ASSUME TutorInv, TutorNext \/ UNCHANGED tutorVars
  PROVE  TutorInv'
<1> USE TutorAssumption DEF TutorInv, TutorTypes
<1>1. CASE print_menu
  BY <1>1 DEF print_menu, StartRound
<1>2. CASE WrongChoice
  BY <1>2 DEF WrongChoice
<1>3. CASE TypeKey
  BY <1>3 DEF TypeKey
<1>4. CASE EndRound
  BY <1>4 DEF EndRound, StartRound
<1>5. CASE UNCHANGED tutorVars
  BY <1>5 DEF tutorVars
<1>. QED
  BY <1>1, <1>2, <1>3, <1>4, <1>5 DEF TutorNext

LEMMA ShuffleTyped ==
  ASSUME ShuffleTypes, ShuffleNext \/ UNCHANGED shuffleVars
  PROVE  ShuffleTypes'
BY DEF ShuffleTypes, ShuffleNext, shuffleVars, init_board, NoBoard, ShuffleLeave, move_blank

LEMMA BoardsAreNumbers ==
  ASSUME num \in Int, QueensNext \/ UNCHANGED queensVars
  PROVE  num' \in Int
BY BoardsAssumption DEF QueensNext, queensVars, QueensStart, nqueens, print, QueensEnd

LEMMA HanoiTyped == HanoiInv => HanoiTypes
<1> SUFFICES ASSUME HanoiInv
             PROVE  HanoiTypes
  OBVIOUS
<1>1. CASE hanoi \in {"asks", "undef"}
  BY <1>1 DEF HanoiInv, HanoiTypes
<1>2. CASE hanoi \in {"solves", "ends", "left"}
  <2>1. PICK path : Way(my_pegs, todo, path)
    BY <1>2 DEF HanoiInv
  <2>2. path[1] \in Placings /\ my_pegs = [p \in Pegs |-> Pile(path[1], p)]
    <3>1. Len(todo) \in Nat
      BY DEF HanoiInv
    <3>. QED
      BY <2>1, <3>1 DEF Way, Piles
  <2>3. \A p \in DOMAIN my_pegs : my_pegs[p] \in [1..3 -> {0, 3, 5, 7}]
    BY <2>2, PileOf
  <2>. QED
    BY <2>3 DEF HanoiInv, HanoiTypes
<1>. QED
  BY <1>1, <1>2 DEF HanoiInv

LEMMA QueensTyped == QueensInv /\ num \in Int => QueensTypes
<1> SUFFICES ASSUME QueensInv, num \in Int
             PROVE  QueensTypes
  OBVIOUS
<1>1. CASE queens \in {"starts", "undef"}
  BY <1>1 DEF QueensInv, QueensTypes
<1>2. CASE queens \notin {"starts", "undef"}
  BY <1>2 DEF QueensInv, QueensTypes
<1>. QED
  BY <1>1, <1>2

LEMMA PanelsTyped == PanelInv => PanelTypes
<1> SUFFICES ASSUME PanelInv
             PROVE  PanelTypes
  OBVIOUS
<1>1. stack \in Seq(0..2) /\ \A i, j \in 1..Len(stack) : stack[i] = stack[j] => i = j
  BY DEF PanelInv, OnceEach, Panels
<1>2. Len(stack) <= 3
  <2>1. SUFFICES ASSUME Len(stack) > 3 PROVE FALSE
    BY <1>1
  <2>2. \A i \in 1..4 : i \in 1..Len(stack) /\ stack[i] \in 0..2
    BY <1>1, <2>1
  <2>3. 1 \in 1..4 /\ 2 \in 1..4 /\ 3 \in 1..4 /\ 4 \in 1..4
    OBVIOUS
  <2>4. /\ stack[1] # stack[2] /\ stack[1] # stack[3] /\ stack[1] # stack[4]
        /\ stack[2] # stack[3] /\ stack[2] # stack[4] /\ stack[3] # stack[4]
    BY <1>1, <2>2, <2>3
  <2>5. stack[1] \in 0..2 /\ stack[2] \in 0..2 /\ stack[3] \in 0..2 /\ stack[4] \in 0..2
    BY <2>2, <2>3
  <2>. QED
    BY <2>4, <2>5
<1>. QED
  BY <1>2 DEF PanelInv, PanelTypes

LEMMA BoxesTyped == BoxInv => BoxTypes
BY DEF BoxInv, BoxTypes, WindowBorder, Border, Lined

LEMMA MenusTyped == MenuInv => MenuTypes
<1>1. menu \in Demos => menu.ending = FreeTwo \/ menu.ending = ItemsFirst \/ menu.ending = MenuFirst
  BY DEF Demos, Program, menu_simple, menu_item_data, menu_toggle, menu_userptr, menu_attrib,
         menu_win, menu_scroll, menu_multi_column
<1>2. Len(FreeTwo) = 3 /\ Len(ItemsFirst) = 3 /\ Len(MenuFirst) = 3
  BY DEF FreeTwo, ItemsFirst, MenuFirst
<1>. QED
  BY <1>1, <1>2 DEF MenuInv, MenuTypes, EndsWell

LEMMA KeyMenusTyped == KeyMenuInv => KeyMenuTypes
BY DEF KeyMenuInv, KeyMenuTypes

(* Every variable keeps its type: no puzzle leaves its board, and none is   *)
(* undefined but where its size or order is one it is not made for.         *)
THEOREM TypeCorrect == Spec => []TypeOK
<1> DEFINE MoreInv == TutorInv /\ ShuffleTypes /\ num \in Int
           DemosInv == PanelInv /\ BoxInv /\ MenuInv /\ KeyMenuInv
<1>1. Init => MoreInv /\ DemosInv
  <2> SUFFICES ASSUME Init
               PROVE  MoreInv /\ DemosInv
    OBVIOUS
  <2>1. TutorInv
    BY TutorStarts DEF Init
  <2>2. ShuffleTypes /\ num \in Int
    BY DEF Init, ShuffleInit, ShuffleTypes, QueensInit
  <2>3. DemosInv
    BY PanelsStart, BoxesStart, MenusStart, KeyMenusStart DEF Init, DemosInit
  <2>. QED
    BY <2>1, <2>2, <2>3
<1>2. MoreInv /\ [Next]_vars => MoreInv'
  BY PuzzleStep, TutorSteps, ShuffleTyped, BoardsAreNumbers
<1>3. DemosInv /\ [Next]_vars => DemosInv'
  BY DemoStep, PanelsSteps, BoxesSteps, MenuSteps, KeyMenusSteps
<1>4. AnswersInv /\ MoreInv /\ DemosInv => TypeOK
  <2> SUFFICES ASSUME AnswersInv, MoreInv, DemosInv
               PROVE  TypeOK
    OBVIOUS
  <2>1. HanoiTypes /\ QueensTypes /\ MagicTypes /\ LifeTypes
    BY HanoiTyped, QueensTyped DEF AnswersInv, MagicInv, LifeInv, LifeTypes
  <2>2. ShuffleTypes /\ TutorTypes
    BY DEF TutorInv
  <2>3. PanelTypes /\ BoxTypes /\ MenuTypes /\ KeyMenuTypes
    BY PanelsTyped, BoxesTyped, MenusTyped, KeyMenusTyped
  <2>. QED
    BY <2>1, <2>2, <2>3 DEF TypeOK
<1> HIDE DEF MoreInv, DemosInv
<1>. QED
  BY <1>1, <1>2, <1>3, <1>4, AnswersStart, AnswersSteps, PTL DEF Spec

=============================================================================
