--------------------------- MODULE CbfsList_proof ----------------------------
(***************************************************************************)
(* Proofs about CbfsList, cited by Viewers_proof.                          *)
(***************************************************************************)
EXTENDS CbfsList, FiniteSetTheorems, SequenceTheorems, WellFoundedInduction, TLAPS

-----------------------------------------------------------------------------
(* Induction, and functions defined by it.                                  *)

(* A set of numbers with 0 and every successor holds them all. *)
LEMMA SetInduction ==
  ASSUME NEW T, 0 \in T, \A n \in Nat : n \in T => n + 1 \in T
  PROVE  \A n \in Nat : n \in T
<1> DEFINE Left == Nat \ T
           Less == OpToRel(<, Nat)
<1>1. IsWellFoundedOn(Less, Nat)
  BY NatLessThanWellFounded, Zenon
<1>2. \A a, b \in Nat : a < b => <<a, b>> \in Less
  BY Zenon DEF OpToRel
<1> HIDE DEF Less
<1>3. SUFFICES ASSUME Left # {} PROVE FALSE
  OBVIOUS
<1>4. PICK x \in Left : \A y \in Left : ~ (<<y, x>> \in Less)
  BY <1>1, <1>3, WFMin
<1>5. x - 1 \in Nat /\ x - 1 < x
  BY <1>4
<1>6. x - 1 \in T
  BY <1>2, <1>4, <1>5
<1>. QED
  BY <1>4, <1>5, <1>6

(* The same up to a bound. *)
LEMMA BoundedInduction ==
  ASSUME NEW n \in Nat, NEW T, 0 \in T,
         \A k \in 0..n - 1 : k \in T => k + 1 \in T
  PROVE  \A k \in 0..n : k \in T
<1> DEFINE U == {k \in Nat : k <= n => k \in T}
<1>1. 0 \in U
  OBVIOUS
<1>2. \A k \in Nat : k \in U => k + 1 \in U
  <2>1. TAKE k \in Nat
  <2>2. HAVE k \in U
  <2>3. SUFFICES ASSUME k + 1 <= n PROVE k + 1 \in T
    OBVIOUS
  <2>4. k \in 0..n - 1 /\ k \in T
    BY <2>2, <2>3
  <2>. QED
    BY <2>4
<1> HIDE DEF U
<1>3. \A k \in Nat : k \in U
  BY <1>1, <1>2, SetInduction
<1>. QED
  BY <1>3 DEF U

(* What starts at base and goes on with F. *)
Iteration(S, base, n, F, t) ==
  /\ t \in [0..n -> S] /\ t[0] = base
  /\ \A i \in 1..n : t[i] = F[<<t[i - 1], i>>]

HasIteration(S, base, n, F) == \E t : Iteration(S, base, n, F, t)

LEMMA Iterated ==
  ASSUME NEW S, NEW base \in S, NEW n \in Nat, NEW F \in [S \X (1..n) -> S]
  PROVE  HasIteration(S, base, n, F)
<1> DEFINE Good(t, m) == /\ t \in [0..m -> S] /\ t[0] = base
                         /\ \A i \in 1..m : t[i] = F[<<t[i - 1], i>>]
           T == {m \in 0..n : \E t : Good(t, m)}
<1>1. 0 \in T
  <2> DEFINE t == [i \in 0..0 |-> base]
  <2>1. Good(t, 0)
    OBVIOUS
  <2> HIDE DEF Good, t
  <2>. QED
    BY <2>1
<1>2. \A m \in 0..n - 1 : m \in T => m + 1 \in T
  <2>1. TAKE m \in 0..n - 1
  <2>2. HAVE m \in T
  <2>3. PICK t : Good(t, m)
    BY <2>2
  <2> DEFINE u == [i \in 0..m + 1 |-> IF i <= m THEN t[i] ELSE F[<<t[m], m + 1>>]]
  <2>4. t[m] \in S /\ F[<<t[m], m + 1>>] \in S
    <3>1. t[m] \in S /\ m + 1 \in 1..n
      BY <2>3
    <3>. QED
      BY <3>1
  <2>5. u \in [0..m + 1 -> S] /\ u[0] = base
    BY <2>3, <2>4
  <2>6. \A i \in 1..m + 1 : u[i] = F[<<u[i - 1], i>>]
    <3>1. TAKE i \in 1..m + 1
    <3>2. CASE i <= m
      <4>1. i \in 1..m /\ u[i] = t[i] /\ u[i - 1] = t[i - 1]
        BY <3>2
      <4>. QED
        BY <2>3, <4>1
    <3>3. CASE i = m + 1
      BY SMTT(20), <3>3
    <3>. QED
      BY <3>2, <3>3
  <2> HIDE DEF u
  <2>7. Good(u, m + 1)
    BY <2>5, <2>6
  <2> HIDE DEF Good
  <2>. QED
    BY <2>7
<1>3. n \in T
  <2> HIDE DEF T
  <2>. QED
    BY <1>1, <1>2, BoundedInduction
<1>. QED
  BY <1>3 DEF HasIteration, Iteration


-----------------------------------------------------------------------------
(* The walk.                                                                *)

Places == 0..Space - 1
FilePlaces == {p \in Flash : image.cells[p].kind = "file"}
Walks == [at : Places, files : Seq(FilePlaces)]
WalkStart == [at |-> First, files |-> <<>>]

LEMMA FlashFacts ==
  /\ Base \in Nat \ {0} /\ Base + RomSize = Space /\ Base < Space
  /\ Space \in Nat \ {0} /\ RomSize \in Nat
  /\ Flash \subseteq Places /\ NoFile \notin Flash
  BY FlashAssumption DEF Base, Flash, Places, NoFile

LEMMA ImageFacts ==
  ASSUME image \in Images
  PROVE  /\ First \in Flash
         /\ image.header.align \in {0, 1}
         /\ \A p \in Flash : image.cells[p] \in Files \cup NoFiles
         /\ \A p \in FilePlaces : /\ image.cells[p].name \in FileNames
                                  /\ image.cells[p].step \in Nat
<1>1. /\ image.header.offset \in 0..RomSize - 1 /\ image.header.align \in {0, 1}
      /\ \A p \in Flash : image.cells[p] \in Files \cup NoFiles
  BY DEF Images, Headers
<1>2. First \in Flash
  BY <1>1, FlashFacts DEF First, Flash
<1>3. \A p \in FilePlaces : image.cells[p] \in Files
  BY <1>1 DEF FilePlaces, NoFiles
<1>. QED
  BY <1>1, <1>2, <1>3 DEF Files

LEMMA MovedType ==
  ASSUME image \in Images, NEW p \in Places, NEW n \in Nat
  PROVE  Moved(p, n) \in Places
<1>1. p + n * image.header.align \in Nat
  BY ImageFacts DEF Places
<1> DEFINE x == p + n * image.header.align
<1> HIDE DEF x
<1>2. x \in Nat => x % Space \in 0..Space - 1
  BY FlashFacts
<1>. QED
  BY <1>1, <1>2 DEF x, Moved, Places

LEMMA AtFileFacts ==
  ASSUME image \in Images, NEW p \in Places
  PROVE  /\ AtFile(p) => p \in FilePlaces
         /\ ~AtEnd(p) => p \in Flash
  BY FlashFacts DEF AtFile, AtEnd, FilePlaces, Flash, Places

LEMMA StartType ==
  ASSUME image \in Images
  PROVE  WalkStart \in Walks
  BY ImageFacts, FlashFacts DEF WalkStart, Walks

LEMMA StepType ==
  ASSUME image \in Images, NEW w \in Walks
  PROVE  WalkStep(w) \in Walks
<1>1. w.at \in Places /\ w.files \in Seq(FilePlaces)
  BY DEF Walks
<1>2. CASE AtEnd(w.at)
  BY <1>2 DEF WalkStep
<1>3. CASE AtFile(w.at)
  <2>1. w.at \in FilePlaces
    BY <1>1, <1>3, AtFileFacts
  <2>2. NextFrom(w.at) \in Places
    BY <1>1, <2>1, ImageFacts, MovedType DEF NextFrom
  <2>3. Append(w.files, w.at) \in Seq(FilePlaces)
    BY <1>1, <2>1, AppendProperties
  <2>. QED
    BY <1>3, <2>2, <2>3 DEF WalkStep, Walks, AtFile
<1>4. CASE ~AtEnd(w.at) /\ ~AtFile(w.at)
  <2>1. Moved(w.at, 1) \in Places
    BY <1>1, MovedType
  <2>. QED
    BY <1>1, <1>4, <2>1 DEF WalkStep, Walks
<1>. QED
  BY <1>2, <1>3, <1>4

(* WalkTo is what its equation says. *)
LEMMA WalkEquation ==
  ASSUME image \in Images
  PROVE  /\ WalkTo \in [0..Space -> Walks]
         /\ WalkTo[0] = WalkStart
         /\ \A k \in 1..Space : WalkTo[k] = WalkStep(WalkTo[k - 1])
<1> DEFINE F == [p \in Walks \X (1..Space) |-> WalkStep(p[1])]
           Eq(t) == t = [k \in 0..Space |->
                           IF k = 0 THEN [at |-> First, files |-> <<>>] ELSE WalkStep(t[k - 1])]
<1>1. F \in [Walks \X (1..Space) -> Walks]
  BY StepType
<1>2. \A w \in Walks, i \in 1..Space : F[<<w, i>>] = WalkStep(w)
  OBVIOUS
<1> HIDE DEF F
<1>3. WalkStart \in Walks /\ Space \in Nat
  BY StartType, FlashFacts
<1>4. PICK t : Iteration(Walks, WalkStart, Space, F, t)
  <2>1. HasIteration(Walks, WalkStart, Space, F)
    BY <1>1, <1>3, Iterated
  <2>. QED
    BY <2>1 DEF HasIteration
<1>5. \A i \in 1..Space : t[i - 1] \in Walks /\ t[i] = WalkStep(t[i - 1])
  <2>1. TAKE i \in 1..Space
  <2>2. i - 1 \in 0..Space
    BY FlashFacts
  <2>. QED
    BY <1>2, <1>4, <2>2 DEF Iteration
<1>6. Eq(t)
  <2> DEFINE v == [k \in 0..Space |->
                     IF k = 0 THEN [at |-> First, files |-> <<>>] ELSE WalkStep(t[k - 1])]
  <2>1. \A k \in 0..Space : t[k] = v[k]
    <3>1. TAKE k \in 0..Space
    <3>2. CASE k = 0
      BY <1>4, <3>2 DEF WalkStart, Iteration
    <3>3. CASE k # 0
      <4>1. k \in 1..Space
        BY <3>3, FlashFacts
      <4>. QED
        BY <1>5, <3>3, <4>1
    <3>. QED
      BY <3>2, <3>3
  <2>2. t = v
    BY <1>4, <2>1 DEF Iteration
  <2>. QED
    BY <2>2
<1>7. Eq(WalkTo)
  <2> HIDE DEF Eq
  <2>1. WalkTo = CHOOSE u : Eq(u)
    BY DEF WalkTo, Eq
  <2>. QED
    BY <1>6, <2>1
<1> DEFINE u == WalkTo
<1> HIDE DEF u
<1>8. Eq(u)
  BY <1>7 DEF u
<1>9. u[0] = WalkStart /\ \A k \in 1..Space : u[k] = WalkStep(u[k - 1])
  BY <1>8, FlashFacts DEF WalkStart
<1>10. \A k \in 0..Space : u[k] \in Walks
  <2> DEFINE T == {k \in 0..Space : u[k] \in Walks}
  <2>1. 0 \in T
    BY <1>3, <1>9
  <2>2. \A k \in 0..Space - 1 : k \in T => k + 1 \in T
    <3>1. TAKE k \in 0..Space - 1
    <3>2. HAVE k \in T
    <3>3. u[k] \in Walks /\ k + 1 \in 1..Space /\ (k + 1) - 1 = k
      BY <1>3, <3>2
    <3>4. u[k + 1] = WalkStep(u[k])
      BY <1>9, <3>3
    <3>. QED
      BY <3>3, <3>4, StepType
  <2> HIDE DEF T
  <2>3. \A k \in 0..Space : k \in T
    BY <1>3, <2>1, <2>2, BoundedInduction
  <2>. QED
    BY <2>3 DEF T
<1>11. u \in [0..Space -> Walks]
  BY <1>8, <1>10
<1>. QED
  BY <1>9, <1>11 DEF u


(* The program's own walk, which may never end, as n turns of it: s. *)
Path(n, s) ==
  /\ s \in [0..n -> Walks] /\ s[0] = WalkStart
  /\ \A k \in 1..n : s[k] = WalkStep(s[k - 1]) /\ ~AtEnd(s[k - 1].at)

LEMMA PathGoesOn ==
  ASSUME image \in Images, NEW n \in Nat, NEW s, Path(n, s), ~AtEnd(s[n].at)
  PROVE  \E u : Path(n + 1, u) /\ u[n + 1] = WalkStep(s[n])
<1> DEFINE u == [k \in 0..n + 1 |-> IF k <= n THEN s[k] ELSE WalkStep(s[n])]
<1>1. /\ s \in [0..n -> Walks] /\ s[0] = WalkStart
      /\ \A k \in 1..n : s[k] = WalkStep(s[k - 1]) /\ ~AtEnd(s[k - 1].at)
  BY DEF Path
<1>2. WalkStep(s[n]) \in Walks
  BY <1>1, StepType
<1>3. u \in [0..n + 1 -> Walks] /\ u[0] = WalkStart /\ u[n + 1] = WalkStep(s[n])
  BY <1>1, <1>2
<1>4. \A k \in 0..n : u[k] = s[k]
  OBVIOUS
<1> HIDE DEF u
<1>5. \A k \in 1..n + 1 : u[k] = WalkStep(u[k - 1]) /\ ~AtEnd(u[k - 1].at)
  <2>1. TAKE k \in 1..n + 1
  <2>2. CASE k \in 1..n
    <3>1. k \in 0..n /\ k - 1 \in 0..n
      BY <2>2
    <3>. QED
      BY <1>1, <1>4, <2>2, <3>1
  <2>3. CASE k = n + 1
    <3>1. k - 1 = n /\ n \in 0..n
      BY <2>3
    <3>. QED
      BY <1>3, <1>4, <2>3, <3>1
  <2>. QED
    BY <2>2, <2>3
<1>6. Path(n + 1, u)
  BY <1>3, <1>5 DEF Path
<1>. QED
  BY <1>3, <1>6

(* Where it goes next depends on where it is. *)
LEMMA SamePlace ==
  ASSUME NEW v, NEW w, v.at = w.at
  PROVE  WalkStep(v).at = WalkStep(w).at
  BY DEF WalkStep

(* A walk that ends comes to no place twice, and is short therefore. *)
LEMMA PathIsShort ==
  ASSUME image \in Images, NEW n \in Nat, NEW s, Path(n, s), AtEnd(s[n].at)
  PROVE  n < Space
<1>1. /\ s \in [0..n -> Walks] /\ s[0] = WalkStart
      /\ \A k \in 1..n : s[k] = WalkStep(s[k - 1]) /\ ~AtEnd(s[k - 1].at)
  BY DEF Path
<1>2. ASSUME NEW i \in 0..n, NEW j \in 0..n, i < j, s[i].at = s[j].at PROVE FALSE
  <2> DEFINE T == {k \in 0..n - j : s[i + k].at = s[j + k].at}
  <2>1. 0 \in T
    BY <1>2
  <2>2. \A k \in 0..(n - j) - 1 : k \in T => k + 1 \in T
    <3>1. TAKE k \in 0..(n - j) - 1
    <3>2. HAVE k \in T
    <3>3. /\ i + (k + 1) \in 1..n /\ (i + (k + 1)) - 1 = i + k
          /\ j + (k + 1) \in 1..n /\ (j + (k + 1)) - 1 = j + k
          /\ k + 1 \in 0..n - j
      BY <1>2
    <3>4. /\ s[i + (k + 1)] = WalkStep(s[i + k])
          /\ s[j + (k + 1)] = WalkStep(s[j + k])
      BY <1>1, <3>3
    <3>5. s[i + k].at = s[j + k].at
      BY <3>2
    <3>6. s[i + (k + 1)].at = s[j + (k + 1)].at
      BY <3>4, <3>5, SamePlace
    <3>. QED
      BY <3>3, <3>6
  <2>3. n - j \in Nat /\ n - j \in 0..n - j
    BY <1>2
  <2> HIDE DEF T
  <2>4. n - j \in T
    BY <2>1, <2>2, <2>3, BoundedInduction
  <2>5. s[i + (n - j)].at = s[j + (n - j)].at
    BY <2>4 DEF T
  <2>6. /\ j + (n - j) = n /\ (i + (n - j)) + 1 \in 1..n
        /\ ((i + (n - j)) + 1) - 1 = i + (n - j)
    BY <1>2
  <2>7. ~AtEnd(s[i + (n - j)].at)
    BY <1>1, <2>6
  <2>. QED
    BY <2>5, <2>6, <2>7
<1> DEFINE g == [k \in 0..n |-> s[k].at]
<1>3. g \in [0..n -> Places]
  BY <1>1 DEF Walks
<1>4. \A i, j \in 0..n : g[i] = g[j] => i = j
  <2>1. TAKE i, j \in 0..n
  <2>2. i < j \/ j < i \/ i = j
    OBVIOUS
  <2>. QED
    BY <1>2, <2>2
<1> HIDE DEF g
<1>5. /\ IsFiniteSet(0..n) /\ Cardinality(0..n) = n + 1
      /\ IsFiniteSet(Places) /\ Cardinality(Places) = Space
  <2>1. /\ IsFiniteSet(0..n)
        /\ Cardinality(0..n) = IF 0 > n THEN 0 ELSE n - 0 + 1
    BY FS_Interval
  <2>2. /\ IsFiniteSet(0..Space - 1)
        /\ Cardinality(0..Space - 1) = IF 0 > Space - 1 THEN 0 ELSE (Space - 1) - 0 + 1
    <3>1. Space - 1 \in Int
      BY FlashFacts
    <3>. QED
      BY SMTT(20), <3>1, FS_Interval
  <2>. QED
    BY <2>1, <2>2, FlashFacts DEF Places
<1>6. ~ (Cardinality(Places) < Cardinality(0..n))
  BY <1>3, <1>4, <1>5, FS_PigeonHole
<1>. QED
  BY <1>5, <1>6, FlashFacts

(* Once it is at its end the walk stays there. *)
LEMMA WalkStays ==
  ASSUME image \in Images, NEW k \in 0..Space, AtEnd(WalkTo[k].at)
  PROVE  WalkTo[Space] = WalkTo[k]
<1> DEFINE T == {j \in 0..Space - k : WalkTo[k + j] = WalkTo[k]}
<1>1. 0 \in T
  BY FlashFacts
<1>2. \A j \in 0..(Space - k) - 1 : j \in T => j + 1 \in T
  <2>1. TAKE j \in 0..(Space - k) - 1
  <2>2. HAVE j \in T
  <2>3. /\ k + (j + 1) \in 1..Space /\ (k + (j + 1)) - 1 = k + j
        /\ j + 1 \in 0..Space - k
    BY FlashFacts
  <2>4. WalkTo[k + (j + 1)] = WalkStep(WalkTo[k + j])
    BY <2>3, WalkEquation
  <2>5. WalkStep(WalkTo[k]) = WalkTo[k]
    BY DEF WalkStep
  <2>. QED
    BY <2>2, <2>3, <2>4, <2>5
<1>3. Space - k \in Nat /\ Space - k \in 0..Space - k /\ k + (Space - k) = Space
  BY FlashFacts
<1> HIDE DEF T
<1>4. Space - k \in T
  BY <1>1, <1>2, <1>3, BoundedInduction
<1>. QED
  BY <1>3, <1>4 DEF T

(* The program's walk, if it ends, is WalkTo. *)
LEMMA PathIsWalk ==
  ASSUME image \in Images, NEW n \in Nat, NEW s, Path(n, s), AtEnd(s[n].at)
  PROVE  WalkTo[Space] = s[n]
<1>1. n < Space
  BY PathIsShort
<1> DEFINE T == {k \in 0..n : WalkTo[k] = s[k]}
<1>2. 0 \in T
  BY WalkEquation DEF Path
<1>3. \A k \in 0..n - 1 : k \in T => k + 1 \in T
  <2>1. TAKE k \in 0..n - 1
  <2>2. HAVE k \in T
  <2>3. k + 1 \in 1..Space /\ k + 1 \in 1..n /\ (k + 1) - 1 = k
    BY <1>1, FlashFacts
  <2>4. WalkTo[k + 1] = WalkStep(WalkTo[k]) /\ s[k + 1] = WalkStep(s[k])
    BY <2>3, WalkEquation DEF Path
  <2>. QED
    BY <2>2, <2>3, <2>4
<1> HIDE DEF T
<1>4. n \in T
  BY <1>2, <1>3, BoundedInduction
<1>5. WalkTo[n] = s[n] /\ n \in 0..Space
  BY <1>1, <1>4, FlashFacts DEF T
<1>. QED
  BY <1>5, WalkStays


(* The files are only added to. *)
LEMMA StepGrows ==
  ASSUME image \in Images, NEW w \in Walks
  PROVE  /\ Len(w.files) \in Nat /\ Len(WalkStep(w).files) \in Nat
         /\ Len(w.files) <= Len(WalkStep(w).files)
<1>1. w.files \in Seq(FilePlaces) /\ WalkStep(w).files \in Seq(FilePlaces)
  BY StepType DEF Walks
<1>2. WalkStep(w).files = w.files \/ WalkStep(w).files = Append(w.files, w.at)
  BY DEF WalkStep
<1>3. Len(Append(w.files, w.at)) = Len(w.files) + 1
  BY <1>1
<1>. QED
  BY <1>1, <1>2, <1>3, LenProperties

LEMMA WalkGrows ==
  ASSUME image \in Images, NEW k \in 0..Space
  PROVE  /\ Len(WalkTo[k].files) \in Nat /\ Len(Walked) \in Nat
         /\ Len(WalkTo[k].files) <= Len(Walked)
<1> DEFINE len(j) == Len(WalkTo[k + j].files)
           T == {j \in 0..Space - k : len(0) <= len(j)}
<1>1. \A j \in 0..Space - k : WalkTo[k + j] \in Walks /\ len(j) \in Nat
  <2>1. TAKE j \in 0..Space - k
  <2>2. k + j \in 0..Space
    BY FlashFacts
  <2>3. WalkTo[k + j] \in Walks
    BY <2>2, WalkEquation
  <2>. QED
    BY <2>3, StepGrows
<1>2. Space - k \in Nat /\ Space - k \in 0..Space - k /\ k + (Space - k) = Space /\ k + 0 = k
      /\ 0 \in 0..Space - k
  BY FlashFacts
<1>3. 0 \in T
  BY <1>1, <1>2
<1>4. \A j \in 0..(Space - k) - 1 : j \in T => j + 1 \in T
  <2>1. TAKE j \in 0..(Space - k) - 1
  <2>2. HAVE j \in T
  <2>3. /\ k + (j + 1) \in 1..Space /\ (k + (j + 1)) - 1 = k + j
        /\ j + 1 \in 0..Space - k /\ j \in 0..Space - k
    BY FlashFacts
  <2>4. WalkTo[k + (j + 1)] = WalkStep(WalkTo[k + j])
    BY <2>3, WalkEquation
  <2>5. len(j) <= len(j + 1)
    BY <1>1, <2>3, <2>4, StepGrows
  <2>6. len(0) \in Nat /\ len(j) \in Nat /\ len(j + 1) \in Nat /\ len(0) <= len(j)
    BY <1>1, <1>2, <2>2, <2>3
  <2> HIDE DEF len
  <2>. QED
    BY <2>3, <2>5, <2>6
<1> HIDE DEF T
<1>5. Space - k \in T
  BY <1>2, <1>3, <1>4, BoundedInduction
<1>6. len(0) <= len(Space - k)
  BY <1>5 DEF T
<1>. QED
  BY <1>1, <1>2, <1>6 DEF Walked

LEMMA WalkedType ==
  ASSUME image \in Images
  PROVE  Walked \in Seq(FilePlaces)
<1>1. WalkTo[Space] \in Walks
  <2>1. Space \in 0..Space
    BY FlashFacts
  <2>. QED
    BY <2>1, WalkEquation
<1>. QED
  BY <1>1 DEF Walked, Walks

-----------------------------------------------------------------------------
(* What the two walks of the init find.                                     *)

Names(files) == [k \in 1..Len(files) |-> image.cells[files[k]].name]

(* filecount is the number of files, and the walk does end. *)
Counted == AtEnd(WalkTo[Space].at) /\ filecount = Len(Walked)

(* The second walk is on the way of the first and has its names so far. *)
Renaming == \E k \in 0..Space : WalkTo[k].at = f /\ filenames = Names(WalkTo[k].files)

CbfsInv ==
  /\ walk = "off" => filecount = 0 /\ filenames = <<>>
  /\ walk = "count"
     => /\ filenames = <<>>
        /\ \E n \in Nat : \E s : Path(n, s) /\ s[n].at = f /\ Len(s[n].files) = filecount
  /\ walk = "names" => Counted /\ Renaming
  /\ walk = "done" /\ filenames # <<>> => Counted /\ filenames = Names(Walked)
  /\ selected = 0 \/ selected < filecount

LEMMA NamesFacts ==
  ASSUME image \in Images, NEW s \in Seq(FilePlaces)
  PROVE  /\ Names(s) \in Seq(FileNames) /\ Len(Names(s)) = Len(s)
         /\ \A k \in 1..Len(s) : Names(s)[k] = image.cells[s[k]].name
         /\ \A p \in FilePlaces : Names(Append(s, p)) = Append(Names(s), image.cells[p].name)
<1>1. Len(s) \in Nat /\ \A k \in 1..Len(s) : s[k] \in FilePlaces
  BY LenProperties, ElementOfSeq
<1>2. \A k \in 1..Len(s) : image.cells[s[k]].name \in FileNames
  BY <1>1, ImageFacts
<1> DEFINE n == Len(s)
           names == [k \in 1..n |-> image.cells[s[k]].name]
<1> HIDE DEF n
<1>3. names \in Seq(FileNames) /\ Len(names) = n
  BY <1>1, <1>2 DEF n
<1>4. Names(s) = names
  BY DEF Names, n
<1> HIDE DEF names
<1>5. ASSUME NEW p \in FilePlaces
      PROVE  Names(Append(s, p)) = Append(Names(s), image.cells[p].name)
  <2> DEFINE t == Append(s, p)
             v == Append(names, image.cells[p].name)
  <2>1. /\ Len(t) = n + 1 /\ t[n + 1] = p /\ t \in Seq(FilePlaces)
        /\ \A k \in 1..n : t[k] = s[k]
    BY <1>5, AppendProperties DEF n
  <2>2. image.cells[p].name \in FileNames
    BY ImageFacts
  <2>3. /\ v \in Seq(FileNames) /\ Len(v) = n + 1 /\ v[n + 1] = image.cells[p].name
        /\ \A k \in 1..n : v[k] = names[k]
    BY <1>3, <2>2, AppendProperties
  <2> HIDE DEF t
  <2>4. Names(t) = [k \in 1..n + 1 |-> image.cells[t[k]].name]
    BY <2>1 DEF Names
  <2>5. \A k \in 1..n + 1 : v[k] = image.cells[t[k]].name
    <3>1. TAKE k \in 1..n + 1
    <3>2. CASE k = n + 1
      BY <2>1, <2>3, <3>2
    <3>3. CASE k \in 1..n
      <4>1. names[k] = image.cells[s[k]].name
        BY <3>3 DEF names
      <4>. QED
        BY <2>1, <2>3, <3>3, <4>1
    <3>4. k = n + 1 \/ k \in 1..n
      BY <1>1 DEF n
    <3>. QED
      BY <3>2, <3>3, <3>4
  <2> HIDE DEF v
  <2>6. v = [k \in 1..n + 1 |-> v[k]]
    BY <2>3
  <2>7. Names(t) = v
    BY <2>4, <2>5, <2>6
  <2>. QED
    BY <1>4, <2>7 DEF t, v
<1>. QED
  BY <1>3, <1>4, <1>5 DEF n, names


(* Nothing but the image says where the walk goes. *)
LEMMA SameImage ==
  ASSUME image' = image
  PROVE  /\ WalkTo' = WalkTo /\ Walked' = Walked /\ HeaderFound' = HeaderFound
         /\ \A p : AtEnd(p)' <=> AtEnd(p)
         /\ \A s : Names(s)' = Names(s)
         /\ \A n, s : Path(n, s)' <=> Path(n, s)
<1>1. /\ \A p : AtEnd(p)' <=> AtEnd(p)
      /\ \A p : AtFile(p)' <=> AtFile(p)
      /\ \A p : NextFrom(p)' = NextFrom(p)
      /\ \A p, n : Moved(p, n)' = Moved(p, n)
      /\ First' = First /\ FilePlaces' = FilePlaces
  BY DEF AtEnd, AtFile, NextFrom, Moved, First, FilePlaces
<1>2. \A w : WalkStep(w)' = WalkStep(w)
  BY <1>1 DEF WalkStep
<1>3. WalkStart' = WalkStart /\ Walks' = Walks
  BY <1>1 DEF WalkStart, Walks
<1>4. WalkTo' = WalkTo
  BY <1>1, <1>2 DEF WalkTo
<1>. QED
  BY <1>1, <1>2, <1>3, <1>4 DEF Walked, HeaderFound, Names, Path


LEMMA StepCases ==
  ASSUME NEW w
  PROVE  /\ AtFile(w.at) => /\ WalkStep(w).at = NextFrom(w.at) /\ ~AtEnd(w.at)
                            /\ WalkStep(w).files = Append(w.files, w.at)
         /\ ~AtEnd(w.at) /\ ~AtFile(w.at)
            => WalkStep(w).at = Moved(w.at, 1) /\ WalkStep(w).files = w.files
  BY DEF WalkStep, AtFile

(* A turn of either walk. *)
LEMMA CbfsInvScan ==
  ASSUME CbfsTypes, CbfsInv, CbfsHeader \/ CbfsScan
  PROVE  CbfsInv'
<1>1. image \in Images /\ image' = image /\ UNCHANGED <<selected, start_row, described>>
  BY DEF CbfsTypes, CbfsHeader, CbfsScan, CbfsSkip, CbfsCount, CbfsName, CbfsCounted, CbfsNamed,
         cbfsMenu
<1>2. /\ WalkTo' = WalkTo /\ Walked' = Walked
      /\ \A p : AtEnd(p)' <=> AtEnd(p)
      /\ \A s : Names(s)' = Names(s)
      /\ \A n, s : Path(n, s)' <=> Path(n, s)
  BY <1>1, SameImage
<1>3. filecount \in Nat /\ (selected = 0 \/ selected < filecount) /\ selected \in Nat
  BY DEF CbfsTypes, CbfsInv
<1>4. CASE CbfsHeader
  <2>1. /\ walk = "off" /\ UNCHANGED <<filecount, filenames>>
        /\ (walk' = "count" /\ f' = First) \/ walk' = "done"
    BY <1>4 DEF CbfsHeader
  <2>2. filecount = 0 /\ filenames = <<>> /\ selected = 0
    BY <1>3, <2>1 DEF CbfsInv
  <2>3. CASE walk' = "count" /\ f' = First
    <3> DEFINE s == [k \in 0..0 |-> WalkStart]
    <3>1. Path(0, s)
      <4>1. s \in [0..0 -> Walks] /\ s[0] = WalkStart
        BY <1>1, StartType
      <4> HIDE DEF s
      <4>. QED
        BY <4>1 DEF Path
    <3>2. s[0].at = First /\ s[0].files = <<>> /\ Len(s[0].files) = 0
      BY DEF WalkStart
    <3> HIDE DEF s
    <3>3. \E n \in Nat : \E t : Path(n, t)' /\ t[n].at = f' /\ Len(t[n].files) = filecount'
      BY <1>2, <2>1, <2>2, <2>3, <3>1, <3>2
    <3>. QED
      BY <1>1, <2>1, <2>2, <2>3, <3>3 DEF CbfsInv
  <2>4. CASE walk' = "done"
    BY <1>1, <2>1, <2>2, <2>4 DEF CbfsInv
  <2>. QED
    BY <2>1, <2>3, <2>4
<1>5. CASE walk = "count" /\ (CbfsSkip \/ CbfsCount)
  <2>1. PICK n \in Nat : \E s : Path(n, s) /\ s[n].at = f /\ Len(s[n].files) = filecount
    BY <1>5 DEF CbfsInv
  <2>2. PICK s : Path(n, s) /\ s[n].at = f /\ Len(s[n].files) = filecount
    BY <2>1
  <2>3. s[n] \in Walks /\ s[n].files \in Seq(FilePlaces)
    <3>1. n \in 0..n
      OBVIOUS
    <3>. QED
      BY <2>2, <3>1 DEF Path, Walks
  <2>4. /\ walk' = "count" /\ filenames' = filenames
        /\ ~AtEnd(f) /\ f' = WalkStep(s[n]).at /\ filecount' = Len(WalkStep(s[n]).files)
    <3>1. CASE CbfsSkip
      BY <1>5, <2>2, <3>1, StepCases DEF CbfsSkip
    <3>2. CASE CbfsCount
      <4>1. AtFile(f) /\ f' = NextFrom(f) /\ filecount' = filecount + 1
        BY <3>2 DEF CbfsCount
      <4>2. ~AtEnd(f) /\ WalkStep(s[n]).at = NextFrom(f)
            /\ WalkStep(s[n]).files = Append(s[n].files, f)
        BY <2>2, <4>1, StepCases
      <4>3. Len(Append(s[n].files, f)) = Len(s[n].files) + 1
        BY <2>3
      <4>. QED
        BY <1>5, <2>2, <3>2, <4>1, <4>2, <4>3 DEF CbfsCount
    <3>. QED
      BY <1>5, <3>1, <3>2
  <2>5. PICK u : Path(n + 1, u) /\ u[n + 1] = WalkStep(s[n])
    BY <1>1, <2>2, <2>4, PathGoesOn
  <2>6. n + 1 \in Nat /\ Path(n + 1, u)' /\ u[n + 1].at = f' /\ Len(u[n + 1].files) = filecount'
    BY <1>2, <2>4, <2>5
  <2>7. \E m \in Nat : \E t : Path(m, t)' /\ t[m].at = f' /\ Len(t[m].files) = filecount'
    BY <2>6
  <2>8. filecount' >= filecount
    <3>1. Len(s[n].files) <= Len(WalkStep(s[n]).files)
      BY <1>1, <2>3, StepGrows
    <3>. QED
      BY <2>2, <2>3, <2>4, <3>1, LenProperties
  <2>9. selected' = 0 \/ selected' < filecount'
    <3>1. filecount' \in Nat
      BY <1>5, <1>3 DEF CbfsSkip, CbfsCount
    <3>. QED
      BY <1>1, <1>3, <2>8, <3>1
  <2>. QED
    BY <1>5, <2>4, <2>7, <2>9 DEF CbfsInv
<1>6. CASE CbfsCounted
  <2>1. /\ walk = "count" /\ AtEnd(f) /\ walk' \in {"names", "done"} /\ f' = First
        /\ UNCHANGED <<filecount, filenames>> /\ filenames = <<>>
    BY <1>6 DEF CbfsCounted, CbfsInv
  <2>2. PICK n \in Nat : \E s : Path(n, s) /\ s[n].at = f /\ Len(s[n].files) = filecount
    BY <2>1 DEF CbfsInv
  <2>3. PICK s : Path(n, s) /\ s[n].at = f /\ Len(s[n].files) = filecount
    BY <2>2
  <2>4. Counted
    BY <1>1, <2>1, <2>3, PathIsWalk DEF Counted, Walked
  <2>5. WalkTo[0].at = First /\ Names(WalkTo[0].files) = <<>>
    <3>1. WalkTo[0].at = First /\ WalkTo[0].files = <<>>
      BY <1>1, WalkEquation DEF WalkStart
    <3>2. Names(<<>>) = <<>>
      BY DEF Names
    <3>. QED
      BY <3>1, <3>2
  <2>6. Counted'
    BY <1>2, <2>1, <2>4 DEF Counted
  <2>7. Renaming'
    <3>1. 0 \in 0..Space
      BY FlashFacts
    <3>2. Renaming' <=> \E k \in 0..Space : WalkTo[k].at = f' /\ filenames' = Names(WalkTo[k].files)
      BY <1>1, <1>2 DEF Renaming, Names
    <3>. QED
      BY <2>1, <2>5, <3>1, <3>2
  <2>. QED
    BY <1>1, <1>3, <2>1, <2>6, <2>7 DEF CbfsInv
<1>7. CASE walk = "names" /\ (CbfsSkip \/ CbfsName)
  <2>1. /\ AtEnd(WalkTo[Space].at) /\ Counted
        /\ \E k \in 0..Space : WalkTo[k].at = f /\ filenames = Names(WalkTo[k].files)
    BY <1>7 DEF CbfsInv, Counted, Renaming
  <2>2. PICK k \in 0..Space : WalkTo[k].at = f /\ filenames = Names(WalkTo[k].files)
    BY <2>1
  <2>3. WalkTo[k] \in Walks /\ WalkTo[k].files \in Seq(FilePlaces)
    BY <1>1, WalkEquation DEF Walks
  <2>4. /\ walk' = "names" /\ filecount' = filecount
        /\ ~AtEnd(f) /\ f' = WalkStep(WalkTo[k]).at /\ filenames' = Names(WalkStep(WalkTo[k]).files)
    <3>1. CASE CbfsSkip
      BY <1>7, <2>2, <3>1, StepCases DEF CbfsSkip
    <3>2. CASE CbfsName
      <4>1. AtFile(f) /\ f' = NextFrom(f) /\ filenames' = Append(filenames, image.cells[f].name)
        BY <3>2 DEF CbfsName
      <4>2. ~AtEnd(f) /\ WalkStep(WalkTo[k]).at = NextFrom(f)
            /\ WalkStep(WalkTo[k]).files = Append(WalkTo[k].files, f)
        BY <2>2, <4>1, StepCases
      <4>3. f \in FilePlaces
        BY <1>1, <4>1, AtFileFacts DEF CbfsTypes, Places
      <4>4. Names(Append(WalkTo[k].files, f)) = Append(filenames, image.cells[f].name)
        BY <1>1, <2>2, <2>3, <4>3, NamesFacts
      <4>. QED
        BY <1>7, <3>2, <4>1, <4>2, <4>4 DEF CbfsName
    <3>. QED
      BY <1>7, <3>1, <3>2
  <2>5. k + 1 \in 0..Space /\ WalkTo[k + 1] = WalkStep(WalkTo[k])
    <3>1. k # Space
      BY <2>1, <2>2, <2>4
    <3>2. k + 1 \in 1..Space /\ (k + 1) - 1 = k
      BY <3>1, FlashFacts
    <3>. QED
      BY <1>1, <3>2, WalkEquation
  <2>6. Renaming'
    <3>1. Renaming' <=> \E j \in 0..Space : WalkTo[j].at = f' /\ filenames' = Names(WalkTo[j].files)
      BY <1>1, <1>2 DEF Renaming, Names
    <3>. QED
      BY <2>4, <2>5, <3>1
  <2>7. Counted'
    BY <1>2, <2>1, <2>4 DEF Counted
  <2>. QED
    BY <1>1, <1>3, <2>4, <2>6, <2>7 DEF CbfsInv
<1>8. CASE CbfsNamed
  <2>1. /\ walk = "names" /\ AtEnd(f) /\ walk' = "done" /\ UNCHANGED <<filecount, filenames>>
        /\ Counted /\ \E k \in 0..Space : WalkTo[k].at = f /\ filenames = Names(WalkTo[k].files)
    BY <1>8 DEF CbfsNamed, CbfsInv, Renaming
  <2>2. filenames = Names(Walked)
    BY <1>1, <2>1, WalkStays DEF Walked
  <2>3. Counted'
    BY <1>2, <2>1 DEF Counted
  <2>. QED
    BY <1>1, <1>2, <1>3, <2>1, <2>2, <2>3 DEF CbfsInv
<1>. QED
  BY <1>4, <1>5, <1>6, <1>7, <1>8
     DEF CbfsScan, CbfsSkip, CbfsCount, CbfsName, CbfsCounted, CbfsNamed, Walking


LEMMA CbfsTypesScan ==
  ASSUME CbfsTypes, CbfsInv, CbfsHeader \/ CbfsScan
  PROVE  CbfsTypes'
<1>1. /\ image \in Images /\ image' = image /\ UNCHANGED <<selected, start_row, described>>
      /\ f \in Places /\ filecount \in Nat /\ filenames \in Seq(FileNames)
      /\ selected \in Nat /\ start_row \in Nat /\ described \in Flash \cup {NoFile}
  BY DEF CbfsTypes, CbfsHeader, CbfsScan, CbfsSkip, CbfsCount, CbfsName, CbfsCounted, CbfsNamed,
         cbfsMenu, Places
<1>2. WalkTo' = WalkTo /\ Walked' = Walked /\ \A s : Names(s)' = Names(s)
  BY <1>1, SameImage
<1>3. First \in Places
  BY <1>1, ImageFacts, FlashFacts
<1>4. f' \in Places /\ filecount' \in Nat /\ filenames' \in Seq(FileNames)
      /\ walk' \in {"count", "names", "done"}
  <2>1. CASE CbfsHeader
    BY <1>1, <1>3, <2>1 DEF CbfsHeader
  <2>2. CASE CbfsSkip
    BY <1>1, <2>2, MovedType DEF CbfsSkip, Walking
  <2>3. CASE CbfsCount \/ CbfsName
    <3>1. AtFile(f) /\ f' = NextFrom(f)
      BY <2>3 DEF CbfsCount, CbfsName
    <3>2. f \in FilePlaces
      BY <1>1, <3>1, AtFileFacts
    <3>3. f' \in Places /\ image.cells[f].name \in FileNames
      BY <1>1, <3>1, <3>2, ImageFacts, MovedType DEF NextFrom
    <3>4. Append(filenames, image.cells[f].name) \in Seq(FileNames)
      BY <1>1, <3>3, AppendProperties
    <3>. QED
      BY SMTT(20), <1>1, <2>3, <3>3, <3>4 DEF CbfsCount, CbfsName
  <2>4. CASE CbfsCounted \/ CbfsNamed
    BY <1>1, <1>3, <2>4 DEF CbfsCounted, CbfsNamed
  <2>. QED
    BY <2>1, <2>2, <2>3, <2>4 DEF CbfsScan
<1>5. Len(filenames') <= filecount'
  <2>1. CbfsInv'
    BY CbfsInvScan
  <2>2. CASE walk' = "count" \/ (walk' = "done" /\ filenames' = <<>>)
    BY <1>4, <2>1, <2>2 DEF CbfsInv
  <2>3. CASE walk' = "names" \/ (walk' = "done" /\ filenames' # <<>>)
    <3>1. \E k \in 0..Space : filecount' = Len(Walked) /\ filenames' = Names(WalkTo[k].files)
      <4>1. Counted' => filecount' = Len(Walked)
        BY <1>2 DEF Counted
      <4>2. Renaming' => \E k \in 0..Space : filenames' = Names(WalkTo[k].files)
        BY <1>1, <1>2 DEF Renaming, Names
      <4>3. Space \in 0..Space /\ WalkTo[Space].files = Walked
        BY FlashFacts DEF Walked
      <4>4. Names(Walked)' = Names(Walked)
        BY <1>1, <1>2 DEF Names
      <4>. QED
        BY <2>1, <2>3, <4>1, <4>2, <4>3, <4>4 DEF CbfsInv
    <3>2. PICK k \in 0..Space : filecount' = Len(Walked) /\ filenames' = Names(WalkTo[k].files)
      BY <3>1
    <3>3. Len(Names(WalkTo[k].files)) = Len(WalkTo[k].files)
      <4>1. WalkTo[k].files \in Seq(FilePlaces)
        BY <1>1, WalkEquation DEF Walks
      <4>. QED
        BY <1>1, <4>1, NamesFacts
    <3>. QED
      BY <1>1, <3>2, <3>3, WalkGrows
  <2>. QED
    BY <1>4, <2>2, <2>3
<1>. QED
  BY <1>1, <1>4, <1>5 DEF CbfsTypes, Places

(* What does not touch the list. *)
LEMMA CbfsStays ==
  ASSUME CbfsTypes, CbfsInv,
         UNCHANGED <<image, walk, f, filecount, filenames>>
  PROVE  selected' = 0 \/ selected' < filecount => CbfsInv'
<1>1. /\ WalkTo' = WalkTo /\ Walked' = Walked
      /\ \A p : AtEnd(p)' <=> AtEnd(p)
      /\ \A n, s : Path(n, s)' <=> Path(n, s)
  BY SameImage
<1>2. Counted' <=> Counted
  BY <1>1 DEF Counted
<1>3. Renaming' <=> Renaming
  BY <1>1 DEF Renaming, Names
<1>4. Names(Walked)' = Names(Walked)
  BY <1>1 DEF Names
<1>5. (\E n \in Nat : \E s : Path(n, s) /\ s[n].at = f /\ Len(s[n].files) = filecount)'
      <=> \E n \in Nat : \E s : Path(n, s) /\ s[n].at = f /\ Len(s[n].files) = filecount
  BY <1>1
<1>. QED
  BY <1>2, <1>3, <1>4, <1>5 DEF CbfsInv


-----------------------------------------------------------------------------
(* The file that is described.                                              *)

LEMMA LeastOne ==
  ASSUME NEW S \in SUBSET Nat, S # {}
  PROVE  Min(S) \in S /\ \A y \in S : Min(S) <= y
<1> DEFINE Less == OpToRel(<, Nat)
<1>1. IsWellFoundedOn(Less, Nat)
  BY NatLessThanWellFounded, Zenon
<1>2. \A a, b \in Nat : a < b => <<a, b>> \in Less
  BY Zenon DEF OpToRel
<1> HIDE DEF Less
<1>3. PICK x \in S : \A y \in S : ~ (<<y, x>> \in Less)
  BY <1>1, WFMin
<1>4. \A y \in S : x <= y
  <2>1. TAKE y \in S
  <2>2. x \in Nat /\ y \in Nat /\ ~(y < x)
    BY <1>2, <1>3
  <2>. QED
    BY <2>2
<1>. QED
  BY <1>4 DEF Min

NameOf(k) == image.cells[Walked[k]].name

(* findfile's result for the name of the k-th file of the walk. *)
IsFirstNamed(p, k) ==
  \E j \in 1..k : /\ p = Walked[j] /\ NameOf(j) = NameOf(k)
                  /\ \A i \in 1..(j - 1) : NameOf(i) # NameOf(k)

LEMMA FindsFirst ==
  ASSUME image \in Images, NEW k \in 1..Len(Walked)
  PROVE  IsFirstNamed(findfile(NameOf(k)), k)
<1> DEFINE named == {j \in 1..Len(Walked) : image.cells[Walked[j]].name = NameOf(k)}
<1>1. findfile(NameOf(k)) = IF named = {} THEN NoFile ELSE Walked[Min(named)]
  BY DEF findfile
<1>2. Len(Walked) \in Nat
  BY WalkedType, LenProperties
<1>3. named \in SUBSET Nat /\ k \in named /\ named \subseteq 1..Len(Walked)
  BY DEF NameOf
<1>4. \A j \in 1..Len(Walked) : j \in named <=> NameOf(j) = NameOf(k)
  BY DEF NameOf
<1> HIDE DEF named
<1> DEFINE j == Min(named)
<1>5. j \in named /\ \A y \in named : j <= y
  BY <1>3, LeastOne
<1> HIDE DEF j
<1>6. j \in 1..Len(Walked) /\ j <= k
  BY <1>3, <1>5
<1>7. \A i \in 1..(j - 1) : NameOf(i) # NameOf(k)
  <2>1. TAKE i \in 1..(j - 1)
  <2>2. i \in 1..Len(Walked) /\ ~(j <= i)
    BY <1>2, <1>6
  <2>. QED
    BY <1>4, <1>5, <2>2
<1>8. findfile(NameOf(k)) = Walked[j]
  BY <1>1, <1>3 DEF j
<1>9. j \in 1..k /\ NameOf(j) = NameOf(k)
  BY <1>4, <1>5, <1>6
<1>. QED
  BY <1>7, <1>8, <1>9 DEF IsFirstNamed

LEMMA FindType ==
  ASSUME image \in Images, NEW name
  PROVE  findfile(name) \in Flash \cup {NoFile}
<1> DEFINE named == {j \in 1..Len(Walked) : image.cells[Walked[j]].name = name}
<1>1. findfile(name) = IF named = {} THEN NoFile ELSE Walked[Min(named)]
  BY DEF findfile
<1>2. named \in SUBSET Nat /\ named \subseteq 1..Len(Walked)
  OBVIOUS
<1> HIDE DEF named
<1>3. CASE named # {}
  <2>1. Min(named) \in 1..Len(Walked)
    BY <1>2, <1>3, LeastOne
  <2>2. Walked[Min(named)] \in FilePlaces
    BY <2>1, WalkedType, ElementOfSeq
  <2>. QED
    BY <1>1, <1>3, <2>2 DEF FilePlaces
<1>. QED
  BY <1>1, <1>3

LEMMA FileOnType ==
  ASSUME image \in Images, NEW sel
  PROVE  FileOn(sel) \in Flash \cup {NoFile}
  BY FindType DEF FileOn

(* What redraw describes, when there is a name to look for. *)
LEMMA FileOnFirst ==
  ASSUME CbfsTypes, CbfsInv, walk = "done", HeaderFound, NEW sel \in Nat, CanDraw(sel)
  PROVE  /\ sel + 1 \in 1..Len(Walked)
         /\ NameOf(sel + 1) = filenames[sel + 1]
         /\ IsFirstNamed(FileOn(sel), sel + 1)
<1>1. image \in Images /\ filenames \in Seq(FileNames) /\ sel < Len(filenames)
  BY DEF CbfsTypes, CanDraw
<1>2. filenames # <<>> /\ Len(filenames) \in Nat
  BY <1>1, LenProperties
<1>3. filenames = Names(Walked)
  BY <1>2 DEF CbfsInv
<1>4. Len(filenames) = Len(Walked) /\ \A k \in 1..Len(Walked) : filenames[k] = NameOf(k)
  BY <1>1, <1>3, WalkedType, NamesFacts DEF NameOf
<1>5. sel + 1 \in 1..Len(Walked)
  BY <1>1, <1>2, <1>4
<1>6. FileOn(sel) = findfile(NameOf(sel + 1))
  BY <1>4, <1>5 DEF FileOn
<1>. QED
  BY <1>1, <1>4, <1>5, <1>6, FindsFirst

(* A key in the list. *)
LEMMA CbfsTypesKey ==
  ASSUME CbfsTypes, CbfsInv, CbfsKey
  PROVE  /\ CbfsTypes' /\ CbfsInv'
         /\ selected' \in Nat /\ described' = FileOn(selected')
         /\ selected < filecount /\ selected' < filecount
<1>1. /\ UNCHANGED <<image, walk, f, filecount, filenames>>
      /\ image \in Images /\ selected \in Nat /\ filecount \in Nat /\ start_row \in Nat
      /\ described' = FileOn(selected')
      /\ selected = 0 \/ selected < filecount
      /\ CbfsDown \/ CbfsUp
  BY DEF CbfsKey, CbfsTypes, CbfsInv
<1>2. selected' \in Nat /\ selected' < filecount /\ selected < filecount
  BY <1>1 DEF CbfsDown, CbfsUp, HasNext
<1>3. start_row' \in Nat
  <2>1. FilesVisible \in Nat \ {0}
    BY FlashAssumption
  <2>2. CASE CbfsDown
    BY <1>1, <1>2, <2>1, <2>2 DEF CbfsDown, RowAfterDown
  <2>3. CASE CbfsUp
    BY <1>1, <1>2, <2>3 DEF CbfsUp
  <2>. QED
    BY <1>1, <2>2, <2>3
<1>4. described' \in Flash \cup {NoFile}
  BY <1>1, FileOnType
<1>5. CbfsTypes'
  BY <1>1, <1>2, <1>3, <1>4 DEF CbfsTypes, Images, Flash, Headers, Base
<1>6. CbfsInv'
  BY <1>1, <1>2, CbfsStays
<1>. QED
  BY <1>1, <1>2, <1>5, <1>6


-----------------------------------------------------------------------------
(* On a well-formed image the walk finds every file.                        *)

(* Starts is what its equation says: a set of places, found from the lowest *)
(* place on.                                                                *)
Clear(p, A) ==
  p >= First /\ \A q \in First..p - 1 :
                  image.cells[q].kind = "file" /\ q \in A => p >= q + image.cells[q].step

LEMMA StartsEquation ==
  ASSUME image \in Images
  PROVE  \A p \in Flash :
           Starts[p] <=> /\ p >= First
                         /\ \A q \in First..p - 1 :
                              image.cells[q].kind = "file" /\ Starts[q]
                              => p >= q + image.cells[q].step
<1> DEFINE F == [x \in (SUBSET Flash) \X (1..RomSize) |->
                   x[1] \cup {p \in Flash : p = Base + x[2] - 1 /\ Clear(p, x[1])}]
           Eq(g) == g = [p \in Flash |->
                           p >= First /\ \A q \in First..p - 1 :
                             image.cells[q].kind = "file" /\ g[q] => p >= q + image.cells[q].step]
<1>1. F \in [(SUBSET Flash) \X (1..RomSize) -> SUBSET Flash]
  OBVIOUS
<1>2. \A A \in SUBSET Flash, i \in 1..RomSize :
        F[<<A, i>>] = A \cup {p \in Flash : p = Base + i - 1 /\ Clear(p, A)}
  OBVIOUS
<1> HIDE DEF F
<1>3. PICK t : Iteration(SUBSET Flash, {}, RomSize, F, t)
  <2>1. HasIteration(SUBSET Flash, {}, RomSize, F)
    BY <1>1, FlashFacts, Iterated
  <2>. QED
    BY <2>1 DEF HasIteration
<1>4. \A i \in 0..RomSize : t[i] \in SUBSET Flash
  BY <1>3 DEF Iteration
<1>5. \A i \in 1..RomSize, p \in Flash :
        p \in t[i] <=> p \in t[i - 1] \/ (p = Base + i - 1 /\ Clear(p, t[i - 1]))
  <2>1. TAKE i \in 1..RomSize, p \in Flash
  <2>2. i - 1 \in 0..RomSize
    BY FlashFacts
  <2>3. t[i] = F[<<t[i - 1], i>>]
    BY <1>3 DEF Iteration
  <2>. QED
    BY <1>2, <1>4, <2>2, <2>3
<1>6. \A k \in 0..RomSize : \A p \in Flash : p \in t[k] => p < Base + k
  <2> DEFINE T == {k \in 0..RomSize : \A p \in Flash : p \in t[k] => p < Base + k}
  <2>1. 0 \in T
    BY <1>3, FlashFacts DEF Iteration
  <2>2. \A k \in 0..RomSize - 1 : k \in T => k + 1 \in T
    <3>1. TAKE k \in 0..RomSize - 1
    <3>2. HAVE k \in T
    <3>3. k + 1 \in 1..RomSize /\ (k + 1) - 1 = k /\ k + 1 \in 0..RomSize
      BY FlashFacts
    <3>4. \A p \in Flash : p \in t[k + 1] => p < Base + (k + 1)
      <4>1. TAKE p \in Flash
      <4>2. HAVE p \in t[k + 1]
      <4>3. p \in t[k] \/ p = Base + (k + 1) - 1
        BY <1>5, <3>3, <4>2
      <4>. QED
        BY <3>2, <3>3, <4>3, FlashFacts DEF Flash
    <3>. QED
      BY <3>3, <3>4
  <2> HIDE DEF T
  <2>3. \A k \in 0..RomSize : k \in T
    BY <2>1, <2>2, FlashFacts, BoundedInduction
  <2>. QED
    BY <2>3 DEF T
<1> DEFINE Whole == t[RomSize]
<1>7. \A k \in 0..RomSize : \A p \in Flash : p < Base + k => (p \in Whole <=> p \in t[k])
  <2>1. TAKE k \in 0..RomSize
  <2> DEFINE T == {j \in 0..RomSize - k :
                     \A p \in Flash : p < Base + k => (p \in t[k + j] <=> p \in t[k])}
  <2>2. 0 \in T
    BY FlashFacts
  <2>3. \A j \in 0..(RomSize - k) - 1 : j \in T => j + 1 \in T
    <3>1. TAKE j \in 0..(RomSize - k) - 1
    <3>2. HAVE j \in T
    <3>3. /\ k + (j + 1) \in 1..RomSize /\ (k + (j + 1)) - 1 = k + j
          /\ j + 1 \in 0..RomSize - k
      BY FlashFacts
    <3>4. \A p \in Flash : p < Base + k => (p \in t[k + (j + 1)] <=> p \in t[k + j])
      <4>1. TAKE p \in Flash
      <4>2. HAVE p < Base + k
      <4>3. p # Base + (k + (j + 1)) - 1
        BY <4>2, FlashFacts DEF Flash
      <4>. QED
        BY <1>5, <3>3, <4>3
    <3>. QED
      BY <3>2, <3>3, <3>4
  <2>4. RomSize - k \in Nat /\ RomSize - k \in 0..RomSize - k /\ k + (RomSize - k) = RomSize
    BY FlashFacts
  <2> HIDE DEF T
  <2>5. RomSize - k \in T
    BY <2>2, <2>3, <2>4, BoundedInduction
  <2>. QED
    BY <2>4, <2>5 DEF T
<1> HIDE DEF Whole
<1>8. \A p \in Flash : p \in Whole <=> Clear(p, Whole)
  <2>1. TAKE p \in Flash
  <2> DEFINE i == (p - Base) + 1
  <2>2. i \in 1..RomSize /\ i \in 0..RomSize /\ i - 1 \in 0..RomSize
        /\ p = Base + i - 1 /\ p < Base + i /\ p \in Int
    BY FlashFacts DEF Flash
  <2> HIDE DEF i
  <2>3. p \in Whole <=> p \in t[i]
    BY <1>7, <2>2
  <2>4. p \notin t[i - 1]
    <3>1. ~(p < Base + (i - 1))
      BY <2>2, FlashFacts
    <3>. QED
      BY <1>6, <2>2, <3>1
  <2>5. p \in Whole <=> Clear(p, t[i - 1])
    BY <1>5, <2>2, <2>3, <2>4
  <2>6. \A q \in First..p - 1 : q \in Whole <=> q \in t[i - 1]
    <3>1. TAKE q \in First..p - 1
    <3>2. q \in Flash /\ q < Base + (i - 1)
      BY <2>2, ImageFacts, FlashFacts DEF Flash
    <3>. QED
      BY <1>7, <2>2, <3>2
  <2>. QED
    BY <2>5, <2>6 DEF Clear
<1>9. Eq([p \in Flash |-> p \in Whole])
  <2> DEFINE g == [p \in Flash |-> p \in Whole]
  <2>1. \A p \in Flash : \A q \in First..p - 1 : q \in Flash /\ (g[q] <=> q \in Whole)
    <3>1. TAKE p \in Flash
    <3>2. TAKE q \in First..p - 1
    <3>3. q \in Flash
      BY ImageFacts, FlashFacts DEF Flash
    <3>. QED
      BY <3>3, Zenon
  <2>2. \A p \in Flash :
          (p \in Whole)
            = (p >= First /\ \A q \in First..p - 1 :
                 image.cells[q].kind = "file" /\ g[q] => p >= q + image.cells[q].step)
    <3>1. TAKE p \in Flash
    <3>2. (p \in Whole) <=> Clear(p, Whole)
      BY <1>8
    <3>3. Clear(p, Whole)
            <=> (p >= First /\ \A q \in First..p - 1 :
                   image.cells[q].kind = "file" /\ g[q] => p >= q + image.cells[q].step)
      BY <2>1, Zenon DEF Clear
    <3>. QED
      BY <3>2, <3>3, SMT
  <2>. QED
    BY <2>2, Zenon
<1>10. Eq(Starts)
  <2> HIDE DEF Eq
  <2>1. Starts = CHOOSE g : Eq(g)
    BY DEF Starts, Eq
  <2>. QED
    BY <1>9, <2>1
<1> DEFINE u == Starts
<1> HIDE DEF u
<1>11. Eq(u)
  BY <1>10 DEF u
<1>. QED
  BY <1>11, Zenon DEF u


(* How far a walk has come: past the end of the address space it is at 0.   *)
Pos(w) == IF w.at = 0 THEN Space ELSE w.at

(* The walk is between two files and has every file before it. *)
Between(w) ==
  /\ w.at = 0 \/ (w.at \in Flash /\ w.at >= First /\ Starts[w.at])
  /\ \A q \in First..Pos(w) - 1 : Starts[q] =>
       /\ image.cells[q].kind # "zero"
       /\ image.cells[q].kind = "file" => q + image.cells[q].step <= Pos(w)

HasAll(w) ==
  /\ \A k \in 1..Len(w.files) : w.files[k] \in ImageFiles /\ w.files[k] < Pos(w)
  /\ \A j, k \in 1..Len(w.files) : j < k => w.files[j] < w.files[k]
  /\ \A p \in ImageFiles : p < Pos(w) => \E k \in 1..Len(w.files) : w.files[k] = p

LEMMA WalkKeepsAll ==
  ASSUME image \in Images, WellFormed, NEW w \in Walks, Between(w), HasAll(w), ~AtEnd(w.at)
  PROVE  Between(WalkStep(w)) /\ HasAll(WalkStep(w))
<1> DEFINE p == w.at
           v == WalkStep(w)
           n == IF AtFile(p) THEN image.cells[p].step ELSE 1
<1>1. /\ p \in Flash /\ p \in Int /\ p # 0 /\ p >= First /\ Starts[p] /\ Pos(w) = p
      /\ First \in Flash /\ First \in Nat /\ First >= Base
      /\ image.cells[p].kind # "zero" /\ (AtFile(p) <=> image.cells[p].kind = "file")
      /\ v \in Walks
  <2>1. p \in Places
    BY DEF Walks
  <2>2. p \in Flash /\ First \in Flash
    BY <2>1, AtFileFacts, ImageFacts
  <2>3. \A q \in Flash : q # 0 /\ q >= Base /\ q \in Nat
    BY FlashFacts DEF Flash
  <2>. QED
    BY <2>2, <2>3, StepType DEF Between, Pos, AtEnd, AtFile
<1>2. /\ n \in Nat /\ n > 0 /\ p + n <= Space
      /\ AtFile(p) => n = image.cells[p].step
      /\ v.at = Moved(p, n)
      /\ v.files = IF AtFile(p) THEN Append(w.files, p) ELSE w.files
  <2>1. CASE AtFile(p)
    <3>1. image.cells[p].step > 0 /\ p + image.cells[p].step <= Space /\ image.cells[p].step \in Nat
      BY <1>1, <2>1, ImageFacts DEF WellFormed, FilePlaces
    <3>. QED
      BY <2>1, <3>1, StepCases DEF NextFrom
  <2>2. CASE ~AtFile(p)
    BY <1>1, <2>2, StepCases, FlashFacts DEF Flash
  <2>. QED
    BY <2>1, <2>2
<1> HIDE DEF n
<1>3. \A q \in Flash : q \in Nat
  BY FlashFacts DEF Flash
<1>4. /\ Pos(v) = p + n
      /\ v.at = 0 \/ (v.at \in Flash /\ v.at = p + n)
  <2>1. v.at = (p + n) % Space
    BY <1>1, <1>2 DEF Moved, WellFormed
  <2>2. CASE p + n < Space
    <3>1. \A a, b \in Nat : a < b => a % b = a
      OBVIOUS
    <3>2. p + n \in Nat /\ Space \in Nat
      BY <1>1, <1>2, <1>3, FlashFacts
    <3>3. v.at = p + n
      BY <2>1, <2>2, <3>1, <3>2
    <3>. QED
      BY <1>1, <1>2, <1>3, <2>2, <3>3, FlashFacts DEF Flash, Pos
  <2>3. CASE p + n = Space
    <3>1. Space % Space = 0
      BY FlashFacts
    <3>. QED
      BY <2>1, <2>3, <3>1 DEF Pos
  <2>. QED
    BY <1>1, <1>2, <2>2, <2>3, FlashFacts
<1> HIDE DEF v, p
<1>5. \A q \in Flash : Starts[q] /\ p < q /\ q < p + n => FALSE
  <2>1. TAKE q \in Flash
  <2>2. HAVE Starts[q] /\ p < q /\ q < p + n
  <2>3. AtFile(p) /\ image.cells[p].kind = "file" /\ n = image.cells[p].step
    BY <1>1, <1>2, <1>3, <2>2 DEF n
  <2>4. p \in First..q - 1
    <3>1. q \in Nat /\ p < q
      BY <1>3, <2>2
    <3>. QED
      BY <1>1, <3>1
  <2>5. q >= p + image.cells[p].step
    BY <1>1, <2>2, <2>3, <2>4, StartsEquation
  <2>. QED
    BY <1>1, <1>2, <1>3, <2>2, <2>3, <2>5
<1>6. \A q \in First..(p + n) - 1 : q \in Flash
  BY <1>1, <1>2, <1>3, FlashFacts DEF Flash
<1>7. \A q \in First..(p + n) - 1 : Starts[q] => q = p \/ (q < p /\ q \in First..p - 1)
  BY <1>1, <1>2, <1>5, <1>6
<1>8. ASSUME NEW q \in First..(p + n) - 1, Starts[q]
      PROVE  /\ image.cells[q].kind # "zero"
             /\ image.cells[q].kind = "file" => q + image.cells[q].step <= p + n
  <2>1. CASE q = p
    BY <1>1, <1>2, <2>1, ImageFacts DEF FilePlaces
  <2>2. CASE q \in First..p - 1
    <3>1. /\ image.cells[q].kind # "zero"
          /\ image.cells[q].kind = "file" => q + image.cells[q].step <= p
      BY <1>1, <1>8, <2>2 DEF Between
    <3>2. image.cells[q].kind = "file" => image.cells[q].step \in Nat /\ q \in Nat
      BY <1>3, <1>6, ImageFacts DEF FilePlaces
    <3>. QED
      BY <1>1, <1>2, <3>1, <3>2
  <2>. QED
    BY <1>7, <1>8, <2>1, <2>2
<1>9. Between(v)
  <2>1. \A q \in First..Pos(v) - 1 : Starts[q] =>
          /\ image.cells[q].kind # "zero"
          /\ image.cells[q].kind = "file" => q + image.cells[q].step <= Pos(v)
    BY <1>4, <1>8
  <2>2. ASSUME v.at \in Flash, v.at = p + n PROVE v.at >= First /\ Starts[v.at]
    <3>1. v.at >= First
      BY <1>1, <1>2, <2>2
    <3>2. \A q \in First..v.at - 1 :
            image.cells[q].kind = "file" /\ Starts[q] => v.at >= q + image.cells[q].step
      <4>1. TAKE q \in First..v.at - 1
      <4>2. HAVE image.cells[q].kind = "file" /\ Starts[q]
      <4>3. q + image.cells[q].step <= v.at
        BY <1>8, <2>2, <4>2
      <4>4. image.cells[q].step \in Nat /\ q \in Nat
        BY <1>3, <1>6, <2>2, <4>2, ImageFacts DEF FilePlaces
      <4>. QED
        BY <1>1, <1>2, <2>2, <4>3, <4>4
    <3>. QED
      BY <2>2, <3>1, <3>2, StartsEquation
  <2>. QED
    BY <1>4, <2>1, <2>2 DEF Between
<1>10. HasAll(v)
  <2>1. /\ \A k \in 1..Len(w.files) : w.files[k] \in ImageFiles /\ w.files[k] < p
        /\ \A j, k \in 1..Len(w.files) : j < k => w.files[j] < w.files[k]
        /\ \A q \in ImageFiles : q < p => \E k \in 1..Len(w.files) : w.files[k] = q
    BY <1>1 DEF HasAll
  <2>2. \A q \in ImageFiles : q \in Flash /\ image.cells[q].kind = "file" /\ Starts[q] /\ q >= First
    BY StartsEquation DEF ImageFiles
  <2>3. w.files \in Seq(FilePlaces) /\ Len(w.files) \in Nat
    BY LenProperties DEF Walks
  <2>4. \A q \in ImageFiles : q < p + n => q < p \/ q = p
    <3>1. TAKE q \in ImageFiles
    <3>2. q \in Flash /\ q \in Nat /\ Starts[q]
      BY <1>3, <2>2
    <3>. QED
      BY <1>1, <1>2, <1>5, <3>2
  <2>5. CASE ~AtFile(p)
    <3>1. p \notin ImageFiles /\ v.files = w.files
      BY <1>1, <1>2, <2>2, <2>5
    <3>2. \A q \in ImageFiles : q < p => q < p + n
      <4>1. TAKE q \in ImageFiles
      <4>2. q \in Nat
        BY <1>3, <2>2
      <4>. QED
        BY <1>1, <1>2, <4>2
    <3>. QED
      BY <1>4, <2>1, <2>4, <3>1, <3>2 DEF HasAll
  <2>6. CASE AtFile(p)
    <3> DEFINE fs == v.files
               m == Len(w.files)
    <3>1. p \in FilePlaces /\ p < p + n
      BY <1>1, <1>2, <2>6 DEF FilePlaces
    <3>2. /\ fs \in Seq(FilePlaces) /\ Len(fs) = m + 1 /\ fs[m + 1] = p
          /\ \A k \in 1..m : fs[k] = w.files[k]
      BY <1>2, <2>3, <2>6, <3>1, AppendProperties
    <3>3. p \in ImageFiles
      <4>1. \A q \in First..p : q \in First..(p + n) - 1
        BY <1>1, <1>2
      <4>2. \A q \in First..p : Starts[q] => image.cells[q].kind # "zero"
        BY <1>8, <4>1
      <4>. QED
        BY <1>1, <2>6, <4>2 DEF ImageFiles
    <3> HIDE DEF fs
    <3>4. m \in Nat /\ \A k \in 1..m + 1 : k = m + 1 \/ k \in 1..m
      BY <2>3
    <3> HIDE DEF m
    <3>5. \A k \in 1..m : w.files[k] \in ImageFiles /\ w.files[k] < p
      BY <2>1 DEF m
    <3>6. \A k \in 1..m + 1 : fs[k] \in ImageFiles /\ fs[k] < p + n
      <4>1. \A q \in ImageFiles : q < p => q < p + n
        <5>1. TAKE q \in ImageFiles
        <5>2. q \in Nat
          BY <1>3, <2>2
        <5>. QED
          BY <1>1, <1>2, <5>2
      <4>2. TAKE k \in 1..m + 1
      <4>3. CASE k = m + 1
        BY <3>1, <3>2, <3>3, <4>3
      <4>4. CASE k \in 1..m
        BY <3>2, <3>5, <4>1, <4>4
      <4>. QED
        BY <3>4, <4>3, <4>4
    <3>7. \A j, k \in 1..m + 1 : j < k => fs[j] < fs[k]
      <4>1. TAKE j, k \in 1..m + 1
      <4>2. HAVE j < k
      <4>3. j \in 1..m
        BY <3>4, <4>2
      <4>4. CASE k = m + 1
        BY <3>2, <3>5, <4>3, <4>4
      <4>5. CASE k \in 1..m
        BY <2>1, <3>2, <4>2, <4>3, <4>5 DEF m
      <4>. QED
        BY <3>4, <4>4, <4>5
    <3>8. \A q \in ImageFiles : q < p + n => \E k \in 1..m + 1 : fs[k] = q
      <4>1. TAKE q \in ImageFiles
      <4>2. HAVE q < p + n
      <4>3. CASE q = p
        <5>1. m + 1 \in 1..m + 1
          BY <3>4
        <5>. QED
          BY <3>2, <4>3, <5>1
      <4>4. CASE q < p
        <5>1. PICK k \in 1..m : w.files[k] = q
          BY <2>1, <4>4 DEF m
        <5>2. k \in 1..m + 1
          BY <3>4
        <5>. QED
          BY <3>2, <5>1, <5>2
      <4>. QED
        BY <2>4, <4>2, <4>3, <4>4
    <3>. QED
      BY <1>4, <3>2, <3>6, <3>7, <3>8 DEF HasAll, fs
  <2>. QED
    BY <2>5, <2>6
<1>. QED
  BY <1>9, <1>10 DEF v


LEMMA WalkHasAll ==
  ASSUME image \in Images, WellFormed
  PROVE  \A k \in 0..Space : Between(WalkTo[k]) /\ HasAll(WalkTo[k])
<1> DEFINE T == {k \in 0..Space : Between(WalkTo[k]) /\ HasAll(WalkTo[k])}
<1>1. Between(WalkStart) /\ HasAll(WalkStart)
  <2> DEFINE w == WalkStart
  <2>1. w.at = First /\ w.files = <<>> /\ First \in Flash /\ First \in Nat /\ First # 0
    BY ImageFacts, FlashFacts DEF WalkStart, Flash
  <2> HIDE DEF w
  <2>2. Pos(w) = First /\ Len(w.files) = 0
    BY <2>1 DEF Pos
  <2>3. \A q \in First..First - 1 : FALSE
    BY <2>1
  <2>4. Starts[First]
    BY <2>1, <2>3, StartsEquation
  <2>5. \A q \in ImageFiles : q \in Nat /\ q >= First
    BY StartsEquation, FlashFacts DEF ImageFiles, Flash
  <2>6. \A q \in ImageFiles : ~(q < First)
    <3>1. TAKE q \in ImageFiles
    <3>2. q \in Nat /\ q >= First
      BY <2>5
    <3>. QED
      BY <2>1, <3>2
  <2>7. Between(w)
    BY <2>1, <2>2, <2>3, <2>4 DEF Between
  <2>8. HasAll(w)
    BY <2>1, <2>2, <2>6 DEF HasAll
  <2>. QED
    BY <2>7, <2>8 DEF w
<1>2. 0 \in T
  BY <1>1, WalkEquation, FlashFacts
<1>3. \A k \in 0..Space - 1 : k \in T => k + 1 \in T
  <2>1. TAKE k \in 0..Space - 1
  <2>2. HAVE k \in T
  <2>3. k + 1 \in 1..Space /\ (k + 1) - 1 = k /\ k \in 0..Space /\ k + 1 \in 0..Space
    BY FlashFacts
  <2>4. WalkTo[k + 1] = WalkStep(WalkTo[k]) /\ WalkTo[k] \in Walks
    BY <2>3, WalkEquation
  <2>5. CASE AtEnd(WalkTo[k].at)
    BY <2>2, <2>3, <2>4, <2>5 DEF WalkStep
  <2>6. CASE ~AtEnd(WalkTo[k].at)
    BY <2>2, <2>3, <2>4, <2>6, WalkKeepsAll
  <2>. QED
    BY <2>5, <2>6
<1> HIDE DEF T
<1>4. \A k \in 0..Space : k \in T
  BY <1>2, <1>3, FlashFacts, BoundedInduction
<1>. QED
  BY <1>4 DEF T

(* At its end a walk has passed every file. *)
LEMMA NoneAhead ==
  ASSUME image \in Images, NEW w \in Walks, Between(w), AtEnd(w.at)
  PROVE  \A q \in ImageFiles : q < Pos(w)
<1>1. TAKE q \in ImageFiles
<1>2. /\ q \in Flash /\ q \in Nat /\ q < Space /\ image.cells[q].kind = "file"
      /\ \A r \in First..q : Starts[r] => image.cells[r].kind # "zero"
  BY FlashFacts DEF ImageFiles, Flash
<1>3. CASE w.at = 0
  BY <1>2, <1>3 DEF Pos
<1>4. CASE w.at # 0
  <2> DEFINE p == w.at
  <2>1. p \in Flash /\ p >= First /\ Starts[p] /\ Pos(w) = p
    BY <1>4 DEF Between, Pos
  <2>2. \A r \in Flash : r >= Base /\ r \in Nat
    BY FlashFacts DEF Flash
  <2>3. image.cells[p].kind = "zero" /\ p \in Nat /\ First \in Nat
    BY <2>1, <2>2, ImageFacts DEF AtEnd
  <2> HIDE DEF p
  <2>4. p \notin First..q
    BY <1>2, <2>1, <2>3
  <2>. QED
    BY <1>2, <2>1, <2>3, <2>4
<1>. QED
  BY <1>3, <1>4

LEMMA ListOfAll ==
  ASSUME CbfsTypes, CbfsInv, walk = "done", WellFormed, filenames # <<>>
  PROVE  \E order \in [1..Len(filenames) -> ImageFiles] :
           /\ \A p \in ImageFiles : \E k \in 1..Len(filenames) : order[k] = p
           /\ \A j, k \in 1..Len(filenames) : j < k => order[j] < order[k]
           /\ \A k \in 1..Len(filenames) : filenames[k] = image.cells[order[k]].name
<1> DEFINE w == WalkTo[Space]
<1>1. image \in Images /\ filenames = Names(w.files) /\ AtEnd(w.at)
  BY DEF CbfsTypes, CbfsInv, Counted, Walked
<1>2. w \in Walks /\ Between(w) /\ HasAll(w)
  <2>1. Space \in 0..Space
    BY FlashFacts
  <2>. QED
    BY <1>1, <2>1, WalkEquation, WalkHasAll
<1> HIDE DEF w
<1> DEFINE order == w.files
           m == Len(filenames)
<1>3. /\ order \in Seq(FilePlaces) /\ Len(order) = m
      /\ \A k \in 1..m : filenames[k] = image.cells[order[k]].name
  BY <1>1, <1>2, NamesFacts DEF Walks
<1>4. /\ \A k \in 1..m : order[k] \in ImageFiles
      /\ \A j, k \in 1..m : j < k => order[j] < order[k]
      /\ \A p \in ImageFiles : p < Pos(w) => \E k \in 1..m : order[k] = p
  BY <1>2, <1>3 DEF HasAll
<1>5. \A p \in ImageFiles : p < Pos(w)
  BY <1>1, <1>2, NoneAhead
<1> HIDE DEF order, m
<1>6. order \in [1..m -> ImageFiles]
  <2>1. order \in [1..m -> FilePlaces]
    BY <1>3, LenProperties
  <2>. QED
    BY <1>4, <2>1
<1>7. \A p \in ImageFiles : \E k \in 1..m : order[k] = p
  BY <1>4, <1>5
<1>. QED
  BY <1>3, <1>4, <1>6, <1>7 DEF m

=============================================================================
