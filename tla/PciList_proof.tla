---------------------------- MODULE PciList_proof ----------------------------
(***************************************************************************)
(* Proofs about PciList.  On a numbered machine the active calls of the    *)
(* scan are a path of bridges (PathInv), what is found is on the buses the *)
(* path has entered, behind the calls (FoundInv), and, if it all fits in   *)
(* the array, is everything that the calls have passed (Whole).  In the    *)
(* sort, two entries are in order unless one segment still to sort holds   *)
(* both (SortInv).  ScanInv joins them.                                    *)
(***************************************************************************)
EXTENDS PciList, FiniteSetTheorems, SequenceTheorems, WellFoundedInduction, TLAPS

-----------------------------------------------------------------------------
(* Sequences as stacks.                                                     *)

LEMMA OneElement ==
  ASSUME NEW S, NEW e \in S
  PROVE  <<e>> \in Seq(S) /\ Len(<<e>>) = 1 /\ <<e>>[1] = e /\ Range(<<e>>) = {e}
<1> DEFINE u == <<e>>
<1>1. u \in Seq(S)
  OBVIOUS
<1>2. Len(u) = 1 /\ u[1] = e
  OBVIOUS
<1> HIDE DEF u
<1>3. Range(u) = {u[i] : i \in 1..1}
  BY <1>1, <1>2, RangeEquality
<1>4. 1..1 = {1}
  OBVIOUS
<1>5. Range(u) = {e}
  BY <1>2, <1>3, <1>4
<1>. QED
  BY <1>1, <1>2, <1>5 DEF u

LEMMA EmptyRange ==
  ASSUME NEW S, NEW s \in Seq(S), Len(s) = 0
  PROVE  Range(s) = {}
<1>1. Range(s) = {s[i] : i \in 1..Len(s)}
  BY RangeEquality
<1>2. 1..Len(s) = {}
  OBVIOUS
<1>. QED
  BY <1>1, <1>2

LEMMA ConsFacts ==
  ASSUME NEW S, NEW t \in Seq(S), NEW e \in S
  PROVE  /\ <<e>> \o t \in Seq(S) /\ <<e>> \o t # <<>>
         /\ Head(<<e>> \o t) = e /\ Tail(<<e>> \o t) = t
         /\ Range(<<e>> \o t) = {e} \cup Range(t)
<1>1. <<e>> \in Seq(S) /\ Len(<<e>>) = 1 /\ <<e>>[1] = e
  BY OneElement
<1> DEFINE u == <<e>>
           s == u \o t
<1>2. /\ s \in Seq(S) /\ Len(s) = 1 + Len(t) /\ Len(t) \in Nat
      /\ \A i \in 1..1 + Len(t) : s[i] = IF i <= 1 THEN u[i] ELSE t[i - 1]
  BY <1>1, ConcatProperties, LenProperties
<1>3. s[1] = e
  BY <1>1, <1>2
<1>4. s # <<>> /\ Head(s) = e
  <2> HIDE DEF s
  <2>. QED
    BY <1>2, <1>3
<1>5. Tail(s) = t
  <2> HIDE DEF s, u
  <2>1. /\ Tail(s) \in Seq(S) /\ Len(Tail(s)) = Len(s) - 1
        /\ \A i \in 1..Len(Tail(s)) : Tail(s)[i] = s[i + 1]
    BY <1>2, <1>4, HeadTailProperties
  <2>2. ASSUME NEW i \in 1..Len(t) PROVE Tail(s)[i] = t[i]
    <3>1. i + 1 \in 1..1 + Len(t) /\ ~ (i + 1 <= 1) /\ (i + 1) - 1 = i
          /\ i \in 1..Len(Tail(s))
      BY <1>2, <2>1
    <3>. QED
      BY <1>2, <2>1, <3>1
  <2>. QED
    BY <1>2, <2>1, <2>2, SeqEqual
<1>6. Range(s) = Range(u) \cup Range(t)
  BY <1>1, RangeConcatenation, ZenonT(30)
<1>7. Range(u) = {e}
  BY OneElement
<1>. QED
  BY <1>2, <1>4, <1>5, <1>6, <1>7

LEMMA PairIsConcat ==
  ASSUME NEW S, NEW e \in S, NEW f \in S
  PROVE  <<e, f>> = <<e>> \o <<f>>
<1> DEFINE a == <<e>>
           b == <<f>>
           c == <<e, f>>
<1>1. a \in Seq(S) /\ b \in Seq(S) /\ c \in Seq(S)
  OBVIOUS
<1>2. Len(a) = 1 /\ Len(b) = 1 /\ Len(c) = 2
  OBVIOUS
<1>3. a[1] = e /\ b[1] = f /\ c[1] = e /\ c[2] = f
  OBVIOUS
<1> HIDE DEF a, b, c
<1> DEFINE d == a \o b
<1>4. /\ d \in Seq(S) /\ Len(d) = Len(a) + Len(b)
      /\ \A i \in 1..Len(a) + Len(b) : d[i] = IF i <= Len(a) THEN a[i] ELSE b[i - Len(a)]
  BY <1>1, ConcatProperties, Zenon
<1> HIDE DEF d
<1>5. Len(d) = 2 /\ d[1] = e /\ d[2] = f
  BY <1>2, <1>3, <1>4
<1>6. \A i \in 1..2 : i = 1 \/ i = 2
  OBVIOUS
<1>7. \A i \in 1..Len(c) : c[i] = d[i]
  BY <1>2, <1>3, <1>5, <1>6
<1>8. c = d
  BY <1>1, <1>2, <1>4, <1>5, <1>7, SeqEqual
<1>. QED
  BY <1>8 DEF a, b, c, d

Push(e, t) == <<e>> \o t
PushTwo(e, f, t) == <<e, f>> \o t

LEMMA ConsTwice ==
  ASSUME NEW S, NEW t \in Seq(S), NEW e \in S, NEW f \in S
  PROVE  PushTwo(e, f, t) = Push(e, Push(f, t))
<1>1. <<e>> \in Seq(S) /\ <<f>> \in Seq(S)
  BY OneElement
<1>2. <<e, f>> = <<e>> \o <<f>>
  BY PairIsConcat
<1>. QED
  BY <1>1, <1>2, ConcatAssociative DEF Push, PushTwo

LEMMA PushRange ==
  ASSUME NEW S, NEW t \in Seq(S), NEW e \in S
  PROVE  Push(e, t) \in Seq(S) /\ Range(Push(e, t)) = {e} \cup Range(t)
  BY ConsFacts DEF Push

LEMMA UnconsFacts ==
  ASSUME NEW S, NEW s \in Seq(S), s # <<>>
  PROVE  /\ Head(s) \in S /\ Tail(s) \in Seq(S)
         /\ s = <<Head(s)>> \o Tail(s)
         /\ Range(s) = {Head(s)} \cup Range(Tail(s))
<1>1. Head(s) \in S /\ Tail(s) \in Seq(S)
  BY HeadTailProperties
<1>2. s = <<Head(s)>> \o Tail(s)
  OBVIOUS
<1>. QED
  BY <1>1, <1>2, ConsFacts

LEMMA AppendFacts ==
  ASSUME NEW S, NEW s \in Seq(S), NEW e \in S
  PROVE  /\ Append(s, e) \in Seq(S) /\ Len(Append(s, e)) = Len(s) + 1
         /\ Range(Append(s, e)) = Range(s) \cup {e}
<1>1. Append(s, e) \in Seq(S) /\ Len(Append(s, e)) = Len(s) + 1
  BY AppendProperties
<1>2. Append(s, e) = s \o <<e>>
  BY AppendIsConcat
<1> DEFINE u == <<e>>
<1>3. u \in Seq(S) /\ Range(u) = {e} /\ Append(s, e) = s \o u
  BY <1>2, OneElement
<1> HIDE DEF u
<1>4. Range(s \o u) = Range(s) \cup Range(u)
  BY <1>3, RangeConcatenation
<1>5. Range(Append(s, e)) = Range(s) \cup {e}
  BY <1>3, <1>4
<1>. QED
  BY <1>1, <1>5

(* Any two entries of s, in their order, are related by R. *)
Ordered(s, R) ==
  \A j, k \in 1..Len(s) : j < k => <<s[j], s[k]>> \in R

LEMMA OrderedTail ==
  ASSUME NEW S, NEW s \in Seq(S), s # <<>>, NEW R, Ordered(s, R)
  PROVE  /\ Ordered(Tail(s), R)
         /\ \A x \in Range(Tail(s)) : <<Head(s), x>> \in R
<1>1. /\ Tail(s) \in Seq(S) /\ Len(Tail(s)) = Len(s) - 1
      /\ \A i \in 1..Len(Tail(s)) : Tail(s)[i] = s[i + 1]
      /\ Head(s) = s[1] /\ Len(s) \in Nat
  BY HeadTailProperties, LenProperties
<1> DEFINE t == Tail(s)
<1> HIDE DEF t
<1>2. ASSUME NEW j \in 1..Len(t), NEW k \in 1..Len(t), j < k
      PROVE  <<t[j], t[k]>> \in R
  <2>1. /\ j + 1 \in 1..Len(s) /\ k + 1 \in 1..Len(s) /\ j + 1 < k + 1
        /\ t[j] = s[j + 1] /\ t[k] = s[k + 1]
    BY <1>1, <1>2 DEF t
  <2>. QED
    BY <2>1 DEF Ordered
<1>3. ASSUME NEW x \in Range(t) PROVE <<Head(s), x>> \in R
  <2>1. PICK k \in 1..Len(t) : x = t[k]
    <3>1. t \in Seq(S)
      BY <1>1 DEF t
    <3>2. Range(t) = {t[i] : i \in 1..Len(t)}
      BY <3>1, RangeEquality
    <3>. QED
      BY <3>2
  <2>2. 1 \in 1..Len(s) /\ k + 1 \in 1..Len(s) /\ 1 < k + 1 /\ x = s[k + 1]
    BY <1>1, <2>1 DEF t
  <2>. QED
    BY <1>1, <2>2 DEF Ordered
<1>. QED
  BY <1>2, <1>3 DEF Ordered, t

LEMMA OrderedCons ==
  ASSUME NEW S, NEW t \in Seq(S), NEW e \in S, NEW R, Ordered(t, R),
         \A x \in Range(t) : <<e, x>> \in R
  PROVE  Ordered(<<e>> \o t, R)
<1> DEFINE s == <<e>> \o t
<1>1. s \in Seq(S) /\ s # <<>> /\ Head(s) = e /\ Tail(s) = t
  BY ConsFacts
<1>2. Len(t) = Len(s) - 1 /\ \A i \in 1..Len(t) : t[i] = s[i + 1]
  BY <1>1, HeadTailProperties
<1>3. s[1] = e /\ Len(s) \in Nat
  BY <1>1, LenProperties
<1> HIDE DEF s
<1>4. ASSUME NEW j \in 1..Len(s), NEW k \in 1..Len(s), j < k
      PROVE  <<s[j], s[k]>> \in R
  <2>1. k - 1 \in 1..Len(t) /\ (k - 1) + 1 = k
    BY <1>2, <1>3, <1>4
  <2>2. s[k] = t[k - 1]
    BY <1>2, <2>1
  <2>3. CASE j = 1
    <3>1. t[k - 1] \in Range(t)
      BY <2>1, RangeEquality
    <3>. QED
      BY <1>3, <2>2, <2>3, <3>1
  <2>4. CASE j # 1
    <3>1. j - 1 \in 1..Len(t) /\ (j - 1) + 1 = j /\ j - 1 < k - 1
      BY <1>2, <1>3, <1>4, <2>4
    <3>2. s[j] = t[j - 1]
      BY <1>2, <3>1
    <3>. QED
      BY <2>1, <2>2, <3>1, <3>2 DEF Ordered
  <2>. QED
    BY <2>3, <2>4
<1>. QED
  BY <1>4 DEF Ordered, s

-----------------------------------------------------------------------------
(* Induction on the natural numbers, for a set.                             *)

LEMMA SetInduction ==
  ASSUME NEW T, 0 \in T, \A n \in Nat : n \in T => n + 1 \in T
  PROVE  \A n \in Nat : n \in T
<1> DEFINE Left == Nat \ T
           Less == OpToRel(<, Nat)
<1>1. IsWellFoundedOn(Less, Nat)
  BY NatLessThanWellFounded, Zenon
<1>2. \A a, b \in Nat : a < b => <<a, b>> \in Less
  BY Zenon DEF OpToRel
<1> HIDE DEF Less
<1>3. SUFFICES ASSUME Left # {} PROVE FALSE
  OBVIOUS
<1>4. PICK x \in Left : \A y \in Left : ~ (<<y, x>> \in Less)
  BY <1>1, <1>3, WFMin
<1>5. x - 1 \in Nat /\ x - 1 < x
  BY <1>4
<1>6. x - 1 \in T
  BY <1>2, <1>4, <1>5
<1>. QED
  BY <1>4, <1>5, <1>6

-----------------------------------------------------------------------------
(* The partition.                                                           *)

(* The turns of the partition loop are what their equation says: there is a *)
(* function on 0..n that satisfies it, by induction on n.                   *)
LEMMA TurnsEquation ==
  ASSUME NEW start, NEW base, NEW val, NEW n \in Nat
  PROVE  /\ Turns(start, base, val, n)[0] = start
         /\ \A i \in 1..n :
              Turns(start, base, val, n)[i] =
                Turn(Turns(start, base, val, n)[i - 1], base, val, i)
<1> DEFINE Eq(t, m) ==
             t = [i \in 0..m |->
                    IF i = 0 THEN start ELSE Turn(t[i - 1], base, val, i)]
           T == {m \in Nat : \E t : Eq(t, m)}
<1>1. 0 \in T
  <2> DEFINE t == [i \in 0..0 |-> start]
  <2>1. Eq(t, 0)
    OBVIOUS
  <2>. QED
    BY <2>1
<1>2. \A m \in Nat : m \in T => m + 1 \in T
  <2>1. TAKE m \in Nat
  <2>2. HAVE m \in T
  <2>3. PICK t : Eq(t, m)
    BY <2>2
  <2> DEFINE u == [i \in 0..(m + 1) |->
                     IF i <= m THEN t[i] ELSE Turn(t[m], base, val, m + 1)]
  <2>4. \A i \in 0..(m + 1) :
          u[i] = IF i = 0 THEN start ELSE Turn(u[i - 1], base, val, i)
    <3>1. TAKE i \in 0..(m + 1)
    <3>2. CASE i = 0
      BY <2>3, <3>2
    <3>3. CASE i # 0 /\ i <= m
      <4>1. i \in 0..m /\ i - 1 \in 0..m /\ i - 1 \in 0..(m + 1)
        BY <3>3
      <4>2. u[i] = t[i] /\ u[i - 1] = t[i - 1]
        BY <3>3, <4>1
      <4>3. t[i] = Turn(t[i - 1], base, val, i)
        BY <2>3, <3>3, <4>1
      <4>. QED
        BY <3>3, <4>2, <4>3
    <3>4. CASE i = m + 1
      <4>1. m \in 0..(m + 1) /\ i - 1 = m /\ i # 0 /\ ~ (i <= m)
        BY <3>4
      <4>2. u[m] = t[m] /\ u[i] = Turn(t[m], base, val, m + 1)
        BY <4>1
      <4>. QED
        BY <3>4, <4>1, <4>2
    <3>. QED
      BY <3>2, <3>3, <3>4
  <2>5. Eq(u, m + 1)
    <3> DEFINE v == [i \in 0..(m + 1) |->
                       IF i = 0 THEN start ELSE Turn(u[i - 1], base, val, i)]
    <3>1. \A i \in 0..(m + 1) : u[i] = v[i]
      BY <2>4
    <3>2. u = v
      BY <3>1
    <3>. QED
      BY <3>2
  <2> HIDE DEF Eq, u
  <2>. QED
    BY <2>1, <2>5
<1>3. n \in T
  <2> HIDE DEF T
  <2>. QED
    BY <1>1, <1>2, SetInduction
<1>4. Eq(Turns(start, base, val, n), n)
  BY <1>3 DEF Turns
<1> DEFINE t == Turns(start, base, val, n)
<1> HIDE DEF t
<1>5. Eq(t, n)
  BY <1>4 DEF t
<1>6. t[0] = start /\ \A i \in 1..n : t[i] = Turn(t[i - 1], base, val, i)
  BY <1>5
<1>. QED
  BY <1>6 DEF t


(* new is list with the len entries from base rearranged. *)
Rearranged(list, new, base, len) ==
  /\ new \in Seq(Nat) /\ Len(new) = Len(list)
  /\ \A k \in 1..Len(list) : k \notin base + 1..base + len => new[k] = list[k]
  /\ \A k \in base + 1..base + len :
       \E j \in base + 1..base + len : new[k] = list[j]
  /\ \A j \in base + 1..base + len :
       \E k \in base + 1..base + len : new[k] = list[j]
  /\ (\A j, k \in 1..Len(list) : list[j] = list[k] => j = k)
       => \A j, k \in 1..Len(list) : new[j] = new[k] => j = k

(* new is list with entries i and j exchanged. *)
Exchanged(list, new, i, j) ==
  /\ new[i] = list[j] /\ new[j] = list[i]
  /\ \A k \in 1..Len(list) : k # i /\ k # j => new[k] = list[k]

LEMMA RearrangedSwap ==
  ASSUME NEW list \in Seq(Nat), NEW base \in Nat, NEW len \in Nat,
         base + len <= Len(list),
         NEW i \in base + 1..base + len, NEW j \in base + 1..base + len,
         NEW a, NEW b, a = i - 1, b = j - 1
  PROVE  /\ Rearranged(list, Swap(list, a, b), base, len)
         /\ Exchanged(list, Swap(list, a, b), i, j)
<1> DEFINE new == Swap(list, a, b)
           half == [list EXCEPT ![i] = list[j]]
<1>1. /\ Len(list) \in Nat
      /\ \A k \in 1..Len(list) : list[k] \in Nat
  BY LenProperties, ElementOfSeq
<1>2. i \in 1..Len(list) /\ j \in 1..Len(list) /\ a + 1 = i /\ b + 1 = j
  BY <1>1
<1>3. /\ half \in Seq(Nat) /\ Len(half) = Len(list)
      /\ \A k \in 1..Len(list) : half[k] = IF k = i THEN list[j] ELSE list[k]
  BY <1>1, <1>2, ExceptSeq
<1>4. new = [half EXCEPT ![j] = list[i]]
  BY <1>2 DEF Swap
<1> HIDE DEF half, new
<1>. list[i] \in Nat /\ j \in 1..Len(half)
  BY <1>1, <1>2, <1>3
<1>5. /\ new \in Seq(Nat) /\ Len(new) = Len(list)
      /\ \A k \in 1..Len(list) :
           new[k] = IF k = j THEN list[i]
                    ELSE IF k = i THEN list[j] ELSE list[k]
  <2>1. /\ new \in Seq(Nat) /\ Len(new) = Len(half)
        /\ \A k \in 1..Len(half) : new[k] = IF k = j THEN list[i] ELSE half[k]
    BY <1>3, <1>4, ExceptSeq
  <2>. QED
    BY <1>3, <2>1
<1>6. Rearranged(list, new, base, len)
  <2>1. \A k \in base + 1..base + len : k \in 1..Len(list)
    BY <1>1
  <2>2. \A k \in base + 1..base + len :
          \E m \in base + 1..base + len : new[k] = list[m]
    <3>1. TAKE k \in base + 1..base + len
    <3>2. new[k] = list[IF k = j THEN i ELSE IF k = i THEN j ELSE k]
      BY <1>5, <2>1
    <3>. QED
      BY <3>2
  <2>3. \A m \in base + 1..base + len :
          \E k \in base + 1..base + len : new[k] = list[m]
    <3>1. TAKE m \in base + 1..base + len
    <3>2. i \in base + 1..base + len /\ j \in base + 1..base + len
      OBVIOUS
    <3>3. CASE m = i
      <4>1. new[j] = list[m]
        BY <1>2, <1>5, <3>3
      <4>. QED
        BY <3>2, <4>1
    <3>4. CASE m = j /\ m # i
      <4>1. new[i] = list[m]
        BY <1>2, <1>5, <3>4
      <4>. QED
        BY <3>2, <4>1
    <3>5. CASE m # j /\ m # i
      <4>1. new[m] = list[m]
        BY <1>5, <2>1, <3>5
      <4>. QED
        BY <4>1
    <3>. QED
      BY <3>3, <3>4, <3>5
  <2>4. ASSUME \A l, k \in 1..Len(list) : list[l] = list[k] => l = k,
               NEW l \in 1..Len(list), NEW k \in 1..Len(list), new[l] = new[k]
        PROVE  l = k
    BY <1>2, <1>5, <2>4
  <2>5. (\A l, k \in 1..Len(list) : list[l] = list[k] => l = k)
          => \A l, k \in 1..Len(list) : new[l] = new[k] => l = k
    BY <2>4
  <2>6. \A k \in 1..Len(list) : k \notin base + 1..base + len => new[k] = list[k]
    BY <1>5
  <2>. QED
    BY <1>5, <2>2, <2>3, <2>5, <2>6 DEF Rearranged
<1>7. Exchanged(list, new, i, j)
  BY <1>2, <1>5 DEF Exchanged
<1>. QED
  BY <1>6, <1>7 DEF new

LEMMA RearrangedTwice ==
  ASSUME NEW list \in Seq(Nat), NEW mid \in Seq(Nat), NEW new \in Seq(Nat),
         NEW base \in Nat, NEW len \in Nat,
         Rearranged(list, mid, base, len), Rearranged(mid, new, base, len)
  PROVE  Rearranged(list, new, base, len)
<1>1. \A k \in base + 1..base + len :
        \E j \in base + 1..base + len : new[k] = list[j]
  <2>1. TAKE k \in base + 1..base + len
  <2>2. PICK m \in base + 1..base + len : new[k] = mid[m]
    BY DEF Rearranged
  <2>3. PICK j \in base + 1..base + len : mid[m] = list[j]
    BY DEF Rearranged
  <2>. QED
    BY <2>2, <2>3
<1>2. \A j \in base + 1..base + len :
        \E k \in base + 1..base + len : new[k] = list[j]
  <2>1. TAKE j \in base + 1..base + len
  <2>2. PICK m \in base + 1..base + len : mid[m] = list[j]
    BY DEF Rearranged
  <2>3. PICK k \in base + 1..base + len : new[k] = mid[m]
    BY DEF Rearranged
  <2>. QED
    BY <2>2, <2>3
<1>3. Len(new) = Len(list) /\ Len(mid) = Len(list)
  BY DEF Rearranged
<1>4. \A k \in 1..Len(list) : k \notin base + 1..base + len => new[k] = list[k]
  BY <1>3 DEF Rearranged
<1>5. (\A j, k \in 1..Len(list) : list[j] = list[k] => j = k)
         => \A j, k \in 1..Len(list) : new[j] = new[k] => j = k
  BY <1>3 DEF Rearranged
<1>. QED
  BY <1>1, <1>2, <1>4, <1>3, <1>5 DEF Rearranged


(* What the loop has done to the segment of list after i turns, the value   *)
(* val of the pivot being at its end: the first part is below val, the rest *)
(* of what it has looked at is not.                                         *)
Parted(list, s, base, len, val, i) ==
  /\ s.list \in Seq(Nat) /\ s.index \in 0..i
  /\ Rearranged(list, s.list, base, len)
  /\ \A k \in base + 1..base + s.index : s.list[k] < val
  /\ \A k \in base + s.index + 1..base + i : s.list[k] >= val
  /\ s.list[base + len] = val

LEMMA TurnParts ==
  ASSUME NEW list \in Seq(Nat), NEW base \in Nat, NEW len \in Nat,
         base + len <= Len(list), NEW val \in Nat, NEW i \in 1..len - 1,
         NEW s, Parted(list, s, base, len, val, i - 1)
  PROVE  Parted(list, Turn(s, base, val, i), base, len, val, i)
<1> DEFINE x == s.list
           index == s.index
           first == base + index + 1
           here == base + i
           last == base + len
<1>1. /\ x \in Seq(Nat) /\ index \in 0..i - 1
      /\ Rearranged(list, x, base, len)
      /\ \A k \in base + 1..base + index : x[k] < val
      /\ \A k \in first..base + (i - 1) : x[k] >= val
      /\ x[last] = val
  BY DEF Parted
<1>2. Len(x) = Len(list) /\ Len(list) \in Nat
  BY <1>1, LenProperties DEF Rearranged
<1>3. \A k \in 1..Len(list) : x[k] \in Nat
  BY <1>1, <1>2, ElementOfSeq
<1> HIDE DEF x, index
<1>4. /\ first \in 1..Len(list) /\ here \in 1..Len(list) /\ last \in 1..Len(list)
      /\ first <= here /\ here < last /\ first - 1 = base + index /\ here - 1 = base + (i - 1)
      /\ base \in Nat /\ base + 1 <= first
  BY <1>1, <1>2
<1>5. CASE x[here] < val
  <2> DEFINE a == here - 1
             b == first - 1
             y == Swap(x, a, b)
  <2>1. Turn(s, base, val, i) = [list |-> y, index |-> index + 1]
    <3>1. base + i - 1 = here - 1 /\ base + index = first - 1
      BY <1>1
    <3> HIDE DEF here, first
    <3>2. Swap(x, base + i - 1, base + index) = y
      BY <3>1
    <3>3. Turn(s, base, val, i) =
            [list |-> Swap(x, base + i - 1, base + index), index |-> index + 1]
      BY <1>5 DEF Turn, x, index, here
    <3>. QED
      BY <3>2, <3>3
  <2>2. here \in base + 1..base + len /\ first \in base + 1..base + len
    BY <1>1, <1>4
  <2> HIDE DEF first, here, last
  <2>3. /\ Rearranged(x, y, base, len)
        /\ y[here] = x[first]
        /\ y[first] = x[here]
        /\ \A k \in 1..Len(list) : k # here /\ k # first => y[k] = x[k]
    <3>1. x \in Seq(Nat) /\ base + len <= Len(x)
      BY <1>1, <1>2
    <3>2. a = here - 1 /\ b = first - 1
      OBVIOUS
    <3> HIDE DEF a, b
    <3>3. Rearranged(x, y, base, len) /\ Exchanged(x, y, here, first)
      BY <2>2, <3>1, <3>2, RearrangedSwap
    <3>. QED
      BY <1>2, <3>3 DEF Exchanged
  <2> HIDE DEF y
  <2>4. y \in Seq(Nat)
    BY <2>3 DEF Rearranged
  <2>5. Rearranged(list, y, base, len)
    BY <1>1, <2>3, <2>4, RearrangedTwice
  <2>6. \A k \in base + 1..first : y[k] < val
    <3>1. TAKE k \in base + 1..first
    <3>2. CASE k = first
      BY <1>5, <2>3, <3>2
    <3>3. CASE k # first
      <4>1. k \in Int /\ base + 1 <= k /\ k < first
        BY <1>4, <3>3
      <4>2. k \in 1..Len(list) /\ k # here /\ k \in base + 1..first - 1
        <5>1. first \in Int /\ here \in Int /\ Len(list) \in Int
              /\ first <= here /\ here <= Len(list) /\ base \in Nat
          BY <1>2, <1>4
        <5> HIDE DEF first, here
        <5>. QED
          BY <4>1, <5>1
      <4>. QED
        BY <1>1, <1>4, <2>3, <3>3, <4>2
    <3>. QED
      BY <3>2, <3>3
  <2>7. \A k \in first + 1..here : y[k] >= val
    <3>1. TAKE k \in first + 1..here
    <3>2. CASE k = here
      <4>1. first \in first..here - 1
        BY <1>4, <3>2
      <4>2. x[first] >= val
        BY <1>1, <1>4, <4>1
      <4>. QED
        BY <2>3, <3>2, <4>2
    <3>3. CASE k # here
      <4>1. k \in Int /\ first + 1 <= k /\ k < here
        BY <1>4, <3>3
      <4>2. k \in 1..Len(list) /\ k # first /\ k \in first..here - 1
        BY <1>2, <1>4, <4>1
      <4>. QED
        BY <1>1, <1>4, <2>3, <3>3, <4>2
    <3>. QED
      BY <3>2, <3>3
  <2>8. y[last] = val
    <3>1. last # here /\ last # first
      BY <1>4
    <3>. QED
      BY <1>1, <1>4, <2>3, <3>1
  <2>9. index + 1 \in 0..i /\ base + (index + 1) = first
    BY <1>1 DEF first
  <2> DEFINE r == Turn(s, base, val, i)
  <2>10. r.list = y /\ r.index = index + 1
    BY <2>1
  <2> HIDE DEF r, index
  <2>11. /\ r.list \in Seq(Nat) /\ r.index \in 0..i
         /\ Rearranged(list, r.list, base, len)
         /\ \A k \in base + 1..base + r.index : r.list[k] < val
         /\ \A k \in base + r.index + 1..here : r.list[k] >= val
         /\ r.list[last] = val
    BY <2>4, <2>5, <2>6, <2>7, <2>8, <2>9, <2>10
  <2>. QED
    BY <2>11 DEF Parted, here, last, r
<1>6. CASE ~ (x[here] < val)
  <2>1. Turn(s, base, val, i) = s
    BY <1>6 DEF Turn, x
  <2>2. x[here] >= val /\ index \in 0..i
    <3> HIDE DEF here
    <3>1. x[here] \in Nat
      BY <1>3, <1>4
    <3>. QED
      BY <1>1, <1>6, <3>1
  <2>3. \A k \in first..here : x[k] >= val
    <3> HIDE DEF first, here
    <3>1. \A k \in first..here : k # here => k \in first..here - 1
      BY <1>4
    <3>. QED
      BY <1>1, <1>4, <2>2, <3>1
  <2>. QED
    BY <1>1, <2>1, <2>2, <2>3 DEF Parted, x, index
<1>. QED
  BY <1>5, <1>6

(***************************************************************************)
(* What partition promises its caller: it rearranges the segment, and at   *)
(* the index it returns every entry before is below every entry from there *)
(* on.  The second part is never empty: it holds the pivot.                *)
(***************************************************************************)
Partitioned(list, p, base, len) ==
  /\ Rearranged(list, p.list, base, len)
  /\ p.index \in 0..len - 1
  /\ \A j \in base + 1..base + p.index :
       \A k \in base + p.index + 1..base + len : p.list[j] < p.list[k]

LEMMA PartitionParts ==
  ASSUME NEW list \in Seq(Nat), NEW base \in Nat, NEW len \in Nat, len > 1,
         base + len <= Len(list)
  PROVE  Partitioned(list, Partition(list, base, len), base, len)
<1> DEFINE middle == base + (len \div 2)
           last == base + len - 1
           val == list[middle + 1]
           start == [list |-> Swap(list, middle, last), index |-> 0]
           t == Turns(start, base, val, len - 1)
           end == t[len - 1]
           x == end.list
           index == end.index
           y == Swap(x, base + index, last)
<1>1. Partition(list, base, len) = [list |-> y, index |-> index]
  BY DEF Partition
<1>2. Len(list) \in Nat
  BY LenProperties
<1>3. /\ middle + 1 \in base + 1..base + len /\ middle = (middle + 1) - 1
      /\ base + len \in base + 1..base + len /\ last = (base + len) - 1
      /\ base + len \in 1..Len(list)
  BY <1>2
<1> HIDE DEF middle, last
<1>4. middle + 1 \in 1..Len(list) /\ val \in Nat
  <2>1. middle + 1 \in 1..Len(list)
    BY <1>2, <1>3
  <2>. QED
    BY <2>1, ElementOfSeq
<1>5. /\ t[0] = start
      /\ \A i \in 1..len - 1 : t[i] = Turn(t[i - 1], base, val, i)
  <2>1. len - 1 \in Nat
    OBVIOUS
  <2>. HIDE DEF start, val
  <2>. QED
    BY <2>1, TurnsEquation
<1> HIDE DEF t
<1>6. Parted(list, start, base, len, val, 0)
  <2> DEFINE z == Swap(list, middle, last)
             e == base + len
             m == middle + 1
  <2>1. e \in base + 1..base + len /\ m \in base + 1..base + len
        /\ middle = m - 1 /\ last = e - 1
    BY <1>3
  <2> HIDE DEF m, e
  <2>2. Rearranged(list, z, base, len) /\ Exchanged(list, z, m, e)
    BY <2>1, RearrangedSwap
  <2>3. z \in Seq(Nat)
    BY <2>2 DEF Rearranged
  <2>4. z[e] = val
    BY <2>2 DEF Exchanged, m
  <2>5. start.list = z /\ start.index = 0
    OBVIOUS
  <2> HIDE DEF z, start, val
  <2>6. z[base + len] = val
    BY <2>4 DEF e
  <2>7. /\ \A k \in base + 1..base + start.index : start.list[k] < val
        /\ \A k \in base + start.index + 1..base + 0 : start.list[k] >= val
    <3>1. base + 0 = base /\ base + start.index = base
      BY <2>5
    <3>. QED
      BY <3>1
  <2>. QED
    BY <2>2, <2>3, <2>5, <2>6, <2>7 DEF Parted
<1> HIDE DEF start, val
<1>7. Parted(list, end, base, len, val, len - 1)
  <2> DEFINE T == {i \in Nat : i <= len - 1 => Parted(list, t[i], base, len, val, i)}
  <2>1. 0 \in T
    BY <1>5, <1>6
  <2>2. \A i \in Nat : i \in T => i + 1 \in T
    <3>1. TAKE i \in Nat
    <3>2. SUFFICES ASSUME i \in T, i + 1 <= len - 1
                   PROVE  Parted(list, t[i + 1], base, len, val, i + 1)
      OBVIOUS
    <3>3. i + 1 \in 1..len - 1 /\ (i + 1) - 1 = i /\ i <= len - 1
      BY <3>2
    <3>4. Parted(list, t[i], base, len, val, (i + 1) - 1)
      BY <3>2, <3>3
    <3> DEFINE n == i + 1
    <3> HIDE DEF n
    <3>5. Parted(list, Turn(t[i], base, val, n), base, len, val, n)
      <4>1. n \in 1..len - 1 /\ Parted(list, t[i], base, len, val, n - 1)
        BY <3>3, <3>4 DEF n
      <4>. QED
        BY <1>4, <4>1, TurnParts
    <3>6. t[n] = Turn(t[i], base, val, n)
      BY <1>5, <3>3 DEF n
    <3>. QED
      BY <3>5, <3>6 DEF n
  <2> HIDE DEF T
  <2>3. \A i \in Nat : i \in T
    BY <2>1, <2>2, SetInduction
  <2>. QED
    BY <2>3 DEF T
<1> HIDE DEF end
<1> DEFINE first == base + index + 1
           e == base + len
<1>8. /\ x \in Seq(Nat) /\ index \in 0..len - 1
      /\ Rearranged(list, x, base, len)
      /\ \A k \in base + 1..base + index : x[k] < val
      /\ \A k \in first..base + (len - 1) : x[k] >= val
      /\ x[e] = val
  BY <1>7 DEF Parted
<1> HIDE DEF x, index
<1>9. /\ first \in base + 1..base + len /\ e \in base + 1..base + len
      /\ base + index = first - 1 /\ base + (len - 1) = e - 1 /\ last = e - 1
      /\ first <= e /\ e <= Len(list) /\ base \in Nat
  BY <1>8 DEF last
<1>10. Len(x) = Len(list) /\ \A k \in 1..Len(list) : x[k] \in Nat
  BY <1>8, ElementOfSeq DEF Rearranged
<1> DEFINE q == base + index
<1> HIDE DEF first, e, q
<1>11. Rearranged(x, y, base, len) /\ Exchanged(x, y, first, e)
  <2>1. q = first - 1 /\ base + len <= Len(x)
    BY <1>9, <1>10 DEF q, e
  <2>2. Rearranged(x, Swap(x, q, last), base, len) /\ Exchanged(x, Swap(x, q, last), first, e)
    BY <1>8, <1>9, <2>1, RearrangedSwap
  <2>. QED
    BY <2>2 DEF q
<1> HIDE DEF y
<1>12. y \in Seq(Nat)
  BY <1>11 DEF Rearranged
<1>13. Rearranged(list, y, base, len)
  BY <1>8, <1>11, <1>12, RearrangedTwice
<1>14. \A k \in base + 1..first - 1 : k \in 1..Len(list) /\ y[k] < val
  <2>1. \A k \in base + 1..first - 1 : k \in 1..Len(list) /\ k # first /\ k # e
    BY <1>2, <1>9
  <2>. QED
    BY <1>8, <1>9, <1>10, <1>11, <2>1 DEF Exchanged
<1>15. \A k \in first..e : k \in 1..Len(list) /\ y[k] >= val
  <2>1. \A k \in first..e : k \in 1..Len(list) /\ (k # e => k \in first..e - 1)
    BY <1>2, <1>9
  <2>2. \A k \in first..e : x[k] >= val
    <3>1. base + (len - 1) = e - 1
      BY <1>9
    <3>2. \A k \in first..e - 1 : x[k] >= val
      BY <1>8, <3>1
    <3>3. x[e] >= val
      BY <1>4, <1>8
    <3>. QED
      BY <2>1, <3>2, <3>3
  <2>3. \A k \in first..e : k # first /\ k # e => y[k] = x[k]
    BY <1>10, <1>11, <2>1 DEF Exchanged
  <2>4. y[first] = x[e] /\ y[e] = x[first] /\ first \in first..e /\ e \in first..e
    BY <1>9, <1>11 DEF Exchanged
  <2>. QED
    BY <2>1, <2>2, <2>3, <2>4
<1>16. \A k \in 1..Len(list) : y[k] \in Nat
  BY <1>12, <1>13, ElementOfSeq DEF Rearranged
<1>17. \A j \in base + 1..first - 1 : \A k \in first..e : y[j] < y[k]
  <2>1. TAKE j \in base + 1..first - 1
  <2>2. TAKE k \in first..e
  <2> DEFINE a == y[j]
             c == y[k]
  <2>3. a \in Nat /\ c \in Nat /\ a < val /\ c >= val
    BY <1>14, <1>15, <1>16
  <2> HIDE DEF a, c
  <2>4. a < c
    BY <1>4, <2>3
  <2>. QED
    BY <2>4 DEF a, c
<1>18. \A j \in base + 1..base + index : \A k \in base + index + 1..base + len :
         y[j] < y[k]
  BY <1>9, <1>17 DEF first, e
<1> DEFINE p == Partition(list, base, len)
<1>19. p.list = y /\ p.index = index
  BY <1>1
<1> HIDE DEF p
<1>. QED
  BY <1>8, <1>13, <1>18, <1>19 DEF Partitioned, p

-----------------------------------------------------------------------------
(* The types, with what the stack and the segments need to keep them.       *)

Calls ==
  {c \in [bus : Buses, slot : 0..SlotCount, func : Funcs, sorting : BOOLEAN] :
     c.slot = SlotCount => c.func = 0}
Loops == {c \in Calls : ~ c.sorting}

(* The segments within the first n entries. *)
Segments(n) == {seg \in [base : Nat, len : Nat] : seg.base + seg.len <= n}

TypeInv ==
  /\ machine \in [Places -> Answers]
  /\ devices \in Seq(Nat) /\ Len(devices) <= MaxDevices
  /\ calls \in Seq(Calls)
  /\ Scanning => Tail(calls) \in Seq(Loops) /\ (Top.sorting => ScanEnded)
  /\ segments \in Seq(Segments(Len(devices)))
  /\ segments # <<>> => Scanning /\ Top.sorting
  /\ menu_selected \in Nat /\ menu_first \in Nat

-----------------------------------------------------------------------------
(* The scan of a numbered machine: its calls go down a path of bridges, and *)
(* what has been found is what they have passed.                            *)

Found == Range(devices)
Active == Range(calls)
Dev(p) == PciDev(p[1], p[2], p[3])

(* Place p of the bus of call c lies before the call's loop position. *)
Past(c, p) == p[2] < c.slot \/ (p[2] = c.slot /\ p[3] < c.func)

Deeper == {cc \in Calls \X Calls : cc[1].bus > cc[2].bus}

(* A call past function 0 of a slot has seen it, with the multifunction bit. *)
SeenZero(c) ==
  c.func # 0 => LET zero == machine[<<c.bus, c.slot, 0>>]
                IN  zero.kind # "none" /\ zero.multi

OnPath(active) == \A c \in active : c.bus \in ReachableBuses /\ SeenZero(c)

PathInv == Ordered(calls, Deeper) /\ OnPath(Active)

(* Bus b has been entered: it is bus 0 or a bridge to it is among the found. *)
Entered(found, b) ==
  \/ b = 0
  \/ \E q \in Bridges(ReachableBuses) : Dev(q) \in found /\ machine[q].secondary = b

(* What is found is reachable, on an entered bus, and behind every active   *)
(* call of its bus; the buses of the active calls have been entered.        *)
Sound(found, active) ==
  /\ \A v \in found : \E b \in ReachableBuses : \E p \in OnBus(b) : v = Dev(p)
  /\ \A b \in ReachableBuses : \A p \in OnBus(b) :
       Dev(p) \in found =>
         /\ Entered(found, b)
         /\ \A c \in active : c.bus = b => Past(c, p)
  /\ \A c \in active : Entered(found, c.bus)

NoRepeat(list) == \A i, j \in 1..Len(list) : list[i] = list[j] => i = j

FoundInv == Sound(Found, Active) /\ NoRepeat(devices)

(* On a machine that fits, all that the calls have passed is found, and a   *)
(* bus that has been entered and left is found as a whole.                  *)
Whole(found, active) ==
  /\ \A c \in active : \A p \in OnBus(c.bus) : Past(c, p) => Dev(p) \in found
  /\ \A b \in ReachableBuses :
       Entered(found, b) => \/ \E c \in active : c.bus = b
                            \/ \A p \in OnBus(b) : Dev(p) \in found

Before == {ss \in Segments(Len(devices)) \X Segments(Len(devices)) :
             ss[1].base + ss[1].len <= ss[2].base}

(* Entries i and j are both in segment seg. *)
Within(seg, i, j) == seg.base < i /\ j <= seg.base + seg.len

(* While it is sorted, two entries of the list are in order unless one      *)
(* segment still to sort holds both; the segments come one after the other. *)
SortInv ==
  /\ Ordered(segments, Before)
  /\ (Scanning => Top.sorting) =>
       \A i, j \in 1..Len(devices) :
         i < j => \/ devices[i] < devices[j]
                  \/ \E seg \in Range(segments) : Within(seg, i, j)

Fits == Cardinality(Reachable) <= MaxDevices

ScanInv ==
  Numbered =>
    /\ PathInv /\ FoundInv
    /\ Fits => Whole(Found, Active) /\ SortInv

(* The menu has not moved before the scan is over, and is on the list after. *)
MenuInv ==
  /\ SelectionVisible
  /\ Scanning => menu_selected = 0

-----------------------------------------------------------------------------
(* Places and their numbers.                                                *)

LEMMA Digits ==
  ASSUME NEW r \in Nat \ {0}, NEW a \in Nat, NEW b \in Nat,
         NEW x \in 0..r - 1, NEW y \in 0..r - 1, a * r + x = b * r + y
  PROVE  a = b /\ x = y
<1>1. ASSUME NEW c \in Nat, NEW d \in Nat, c < d,
             NEW u \in 0..r - 1, NEW v \in 0..r - 1
      PROVE  c * r + u < d * r + v
  <2>1. (c + 1) * r <= d * r
    BY <1>1
  <2>2. (c + 1) * r = c * r + r /\ c * r \in Nat /\ d * r \in Nat
    OBVIOUS
  <2> DEFINE cr == c * r
             dr == d * r
  <2>3. cr + r <= dr /\ cr \in Nat /\ dr \in Nat
    BY <2>1, <2>2
  <2> HIDE DEF cr, dr
  <2>4. cr + u < dr + v
    BY <2>3
  <2>. QED
    BY <2>4 DEF cr, dr
<1>2. a = b
  <2>1. ~ (a < b)
    BY <1>1
  <2>2. ~ (b < a)
    BY <1>1
  <2>. QED
    BY <2>1, <2>2
<1> DEFINE n == a * r
<1>3. n + x = n + y /\ n \in Nat
  BY <1>2
<1> HIDE DEF n
<1>. QED
  BY <1>2, <1>3

LEMMA PlaceParts ==
  ASSUME NEW p \in Places
  PROVE  /\ p[1] \in Buses /\ p[2] \in Slots /\ p[3] \in Funcs
         /\ p = <<p[1], p[2], p[3]>>
         /\ p[1] \in Nat /\ p[2] \in 0..SlotCount - 1 /\ p[3] \in 0..FuncCount - 1
<1>1. p[1] \in Buses /\ p[2] \in Slots /\ p[3] \in Funcs /\ p = <<p[1], p[2], p[3]>>
  BY DEF Places
<1>. QED
  BY <1>1, SizesAssumption DEF Slots, Funcs

(* A place is where its number says. *)
LEMMA DevInjective ==
  ASSUME NEW p \in Places, NEW q \in Places, Dev(p) = Dev(q)
  PROVE  p = q
<1>1. /\ p[1] \in Nat /\ p[2] \in 0..SlotCount - 1 /\ p[3] \in 0..FuncCount - 1
      /\ q[1] \in Nat /\ q[2] \in 0..SlotCount - 1 /\ q[3] \in 0..FuncCount - 1
      /\ p = <<p[1], p[2], p[3]>> /\ q = <<q[1], q[2], q[3]>>
  BY PlaceParts
<1> DEFINE a == p[1] * SlotCount + p[2]
           b == q[1] * SlotCount + q[2]
<1>2. a \in Nat /\ b \in Nat
  BY <1>1, SizesAssumption
<1>3. a * FuncCount + p[3] = b * FuncCount + q[3]
  BY DEF Dev, PciDev
<1> HIDE DEF a, b
<1>4. a = b /\ p[3] = q[3]
  BY <1>1, <1>2, <1>3, Digits, SizesAssumption
<1>5. p[1] = q[1] /\ p[2] = q[2]
  BY <1>1, <1>4, Digits, SizesAssumption DEF a, b
<1>. QED
  BY <1>1, <1>4, <1>5

LEMMA DevType ==
  ASSUME NEW p \in Places
  PROVE  Dev(p) \in Nat
<1>1. p[1] \in Nat /\ p[2] \in Nat /\ p[3] \in Nat
  BY PlaceParts
<1> DEFINE a == p[1] * SlotCount + p[2]
<1>2. a \in Nat
  BY <1>1, SizesAssumption
<1> HIDE DEF a
<1>3. a * FuncCount + p[3] \in Nat
  BY <1>1, <1>2, SizesAssumption
<1>. QED
  BY <1>3 DEF Dev, PciDev, a

(* What answers on bus b is there, b a bus; function 0 of its slot as well. *)
LEMMA OnBusPlace ==
  ASSUME NEW b \in Buses, NEW p \in OnBus(b)
  PROVE  /\ p \in Places /\ p[1] = b /\ p = <<b, p[2], p[3]>>
         /\ machine[p].kind # "none"
         /\ machine[<<b, p[2], 0>>].kind # "none"
         /\ p[3] = 0 \/ machine[<<b, p[2], 0>>].multi
         /\ p[2] \in Nat /\ p[3] \in Nat /\ p[3] \in Funcs
<1>1. /\ p \in Places /\ p[1] = b /\ p = <<b, p[2], p[3]>>
      /\ machine[p].kind # "none"
      /\ machine[<<b, p[2], 0>>].kind # "none"
      /\ p[3] = 0 \/ machine[<<b, p[2], 0>>].multi
  BY DEF OnBus, Places
<1>. QED
  BY <1>1, PlaceParts

LEMMA ReachableFacts ==
  ASSUME machine \in [Places -> Answers]
  PROVE  /\ ReachableBuses \subseteq Buses
         /\ 0 \in ReachableBuses
         /\ \A b \in ReachableBuses : \A p \in OnBus(b) :
              machine[p].kind = "bridge" =>
                /\ p \in Bridges(ReachableBuses)
                /\ machine[p].secondary \in ReachableBuses
         /\ \A p \in Bridges(ReachableBuses) :
              /\ machine[p].kind = "bridge"
              /\ \E b \in ReachableBuses : p \in OnBus(b)
<1>1. ReachableBuses \subseteq Buses
  BY DEF ReachableBuses
<1>2. 0 \in ReachableBuses
  BY SizesAssumption DEF ReachableBuses, ClosedSets
<1>3. ASSUME NEW b \in ReachableBuses, NEW p \in OnBus(b),
             machine[p].kind = "bridge"
      PROVE  p \in Bridges(ReachableBuses) /\ machine[p].secondary \in ReachableBuses
  <2>1. p \in Bridges(ReachableBuses)
    BY <1>3 DEF Bridges
  <2>2. machine[p].secondary \in Buses
    BY <1>1, <1>3, OnBusPlace DEF Answers
  <2>3. ASSUME NEW bs \in ClosedSets PROVE machine[p].secondary \in bs
    <3>1. b \in bs
      BY DEF ReachableBuses
    <3>2. p \in Bridges(bs)
      BY <1>3, <3>1 DEF Bridges
    <3>. QED
      BY <3>2 DEF ClosedSets
  <2>. QED
    BY <2>1, <2>2, <2>3 DEF ReachableBuses
<1>4. \A p \in Bridges(ReachableBuses) :
        machine[p].kind = "bridge" /\ \E b \in ReachableBuses : p \in OnBus(b)
  BY DEF Bridges
<1>. QED
  BY <1>1, <1>2, <1>3, <1>4

(* The machine does not change, and neither does what is said of it alone. *)
LEMMA SameMachine ==
  ASSUME machine' = machine
  PROVE  /\ ReachableBuses' = ReachableBuses
         /\ Reachable' = Reachable
         /\ Numbered' <=> Numbered
         /\ \A active : OnPath(active)' <=> OnPath(active)
         /\ \A found, active : Sound(found, active)' <=> Sound(found, active)
         /\ \A found, active : Whole(found, active)' <=> Whole(found, active)
<1>. USE DEF OnBus, Bridges, ReachableBuses, ClosedSets
<1>1. ReachableBuses' = ReachableBuses
  OBVIOUS
<1>2. Reachable' = Reachable
  BY DEF Reachable
<1>3. Numbered' <=> Numbered
  BY DEF Numbered
<1>4. \A active : OnPath(active)' <=> OnPath(active)
  BY DEF OnPath, SeenZero
<1>5. \A found, active : Sound(found, active)' <=> Sound(found, active)
  BY DEF Sound, Entered
<1>6. \A found, active : Whole(found, active)' <=> Whole(found, active)
  BY DEF Whole, Entered
<1>. QED
  BY <1>1, <1>2, <1>3, <1>4, <1>5, <1>6

-----------------------------------------------------------------------------
(* The loop position of the innermost call.                                 *)

LEMMA TopFacts ==
  ASSUME TypeInv, Scanning
  PROVE  /\ Top \in Calls /\ Tail(calls) \in Seq(Calls)
         /\ calls = <<Top>> \o Tail(calls)
         /\ Active = {Top} \cup Range(Tail(calls))
  BY UnconsFacts DEF TypeInv, Scanning, Top, Active

(* The place the innermost call is at. *)
Spot == <<Top.bus, Top.slot, Top.func>>

LEMMA SpotFacts ==
  ASSUME TypeInv, InLoop
  PROVE  /\ Top \in Calls /\ Top.slot \in Slots /\ Top.func \in Funcs
         /\ ~ Top.sorting /\ Scanning
         /\ Spot \in Places /\ Here = machine[Spot] /\ Here \in Answers
         /\ PciDev(Top.bus, Top.slot, Top.func) = Dev(Spot)
<1>1. Top \in Calls /\ Scanning
  BY TopFacts DEF InLoop
<1>2. Top.slot \in Slots /\ ~ Top.sorting
  BY <1>1, SizesAssumption DEF InLoop, ScanEnded, Calls, Slots
<1>3. Spot \in Places
  BY <1>1, <1>2 DEF Spot, Places, Calls
<1>4. Here = machine[Spot] /\ Here \in Answers
  BY <1>3 DEF TypeInv, Here, Spot
<1>5. PciDev(Top.bus, Top.slot, Top.func) = Dev(Spot)
  BY DEF Dev, Spot
<1>. QED
  BY <1>1, <1>2, <1>3, <1>4, <1>5 DEF Calls

LEMMA AfterFacts ==
  ASSUME Top \in Calls, Top.slot \in Slots, ~ Top.sorting, NEW f \in Funcs
  PROVE  /\ After(f) \in Calls
         /\ After(f).bus = Top.bus /\ ~ After(f).sorting
         /\ After(f).slot = SlotCount => After(f).func = 0
         /\ After(f).func # 0 => After(f).slot = Top.slot
         /\ \A p \in Places :
              Past(After(f), p) <=>
                p[2] < Top.slot \/ (p[2] = Top.slot /\ p[3] <= f)
<1> DEFINE c == After(f)
<1>1. /\ Top.bus \in Buses /\ Top.slot \in 0..SlotCount - 1
      /\ Top.func \in 0..FuncCount - 1 /\ Top.sorting = FALSE
      /\ Top = [bus |-> Top.bus, slot |-> Top.slot, func |-> Top.func, sorting |-> Top.sorting]
      /\ f \in 0..FuncCount - 1
      /\ SlotCount \in Nat \ {0} /\ FuncCount \in Nat \ {0}
  BY SizesAssumption DEF Calls, Slots, Funcs
<1>2. CASE f + 1 < FuncCount
  <2>1. c = [bus |-> Top.bus, slot |-> Top.slot, func |-> f + 1, sorting |-> FALSE]
    BY <1>1, <1>2 DEF After
  <2>2. c \in Calls
    BY <1>1, <1>2, <2>1 DEF Calls, Funcs
  <2>3. /\ c.bus = Top.bus /\ ~ c.sorting /\ c.slot = Top.slot /\ c.func = f + 1
        /\ c.slot # SlotCount
    BY <1>1, <2>1
  <2>4. ASSUME NEW p \in Places
        PROVE  Past(c, p) <=> p[2] < Top.slot \/ (p[2] = Top.slot /\ p[3] <= f)
    <3>1. p[3] \in Nat
      BY PlaceParts
    <3>2. p[3] < f + 1 <=> p[3] <= f
      BY <1>1, <3>1
    <3>. QED
      BY <2>3, <3>2 DEF Past
  <2>. QED
    BY <2>2, <2>3, <2>4
<1>3. CASE ~ (f + 1 < FuncCount)
  <2>1. c = [bus |-> Top.bus, slot |-> Top.slot + 1, func |-> 0, sorting |-> FALSE]
    BY <1>1, <1>3 DEF After
  <2>2. c \in Calls
    BY <1>1, <2>1 DEF Calls, Funcs
  <2>3. c.bus = Top.bus /\ ~ c.sorting /\ c.slot = Top.slot + 1 /\ c.func = 0
    BY <2>1
  <2>4. ASSUME NEW p \in Places
        PROVE  Past(c, p) <=> p[2] < Top.slot \/ (p[2] = Top.slot /\ p[3] <= f)
    <3>1. p[2] \in Nat /\ p[3] \in Nat /\ p[3] <= f
      BY <1>1, <1>3, PlaceParts
    <3>2. (p[2] < Top.slot + 1 \/ (p[2] = Top.slot + 1 /\ p[3] < 0))
             <=> (p[2] < Top.slot \/ p[2] = Top.slot)
      BY <1>1, <3>1
    <3>. QED
      BY <2>3, <3>1, <3>2 DEF Past
  <2>. QED
    BY <2>2, <2>3, <2>4
<1>. QED
  BY <1>2, <1>3

(* Nobody home: the position moves past nothing that answers. *)
LEMMA PastAbsentFacts ==
  ASSUME TypeInv, InLoop, Here.kind = "none"
  PROVE  /\ PastAbsent \in Calls
         /\ PastAbsent.bus = Top.bus /\ ~ PastAbsent.sorting
         /\ PastAbsent.slot = SlotCount => PastAbsent.func = 0
         /\ PastAbsent.func # 0 => Top.func # 0 /\ PastAbsent.slot = Top.slot
         /\ \A p \in OnBus(Top.bus) : Past(PastAbsent, p) <=> Past(Top, p)
<1>1. /\ Top \in Calls /\ Top.slot \in Slots /\ Top.func \in Funcs /\ ~ Top.sorting
      /\ Spot \in Places /\ Here = machine[Spot] /\ Top.bus \in Buses
  BY SpotFacts DEF Calls
<1>2. Top.slot \in Nat /\ Top.func \in Nat /\ FuncCount - 1 \in Funcs
      /\ \A f \in Funcs : f <= FuncCount - 1
  BY <1>1, SizesAssumption DEF Slots, Funcs
<1>3. CASE Top.func = 0
  <2>1. PastAbsent = After(FuncCount - 1)
    BY <1>3 DEF PastAbsent, NextSlot
  <2>2. After(FuncCount - 1).func = 0
    BY <1>2, SizesAssumption DEF After
  <2>3. ASSUME NEW p \in OnBus(Top.bus)
        PROVE  Past(PastAbsent, p) <=> Past(Top, p)
    <3>1. p \in Places /\ machine[<<Top.bus, p[2], 0>>].kind # "none"
      BY <1>1, OnBusPlace
    <3>2. p[2] # Top.slot
      BY <1>1, <1>3, <3>1 DEF Spot
    <3>. QED
      BY <1>1, <1>2, <2>1, <3>1, <3>2, AfterFacts DEF Past
  <2>. QED
    BY <1>1, <1>2, <2>1, <2>2, <2>3, AfterFacts
<1>4. CASE Top.func # 0
  <2>1. PastAbsent = After(Top.func)
    BY <1>4 DEF PastAbsent
  <2>2. ASSUME NEW p \in OnBus(Top.bus)
        PROVE  Past(PastAbsent, p) <=> Past(Top, p)
    <3>1. /\ p \in Places /\ p = <<Top.bus, p[2], p[3]>>
          /\ machine[p].kind # "none" /\ p[3] \in Nat
      BY <1>1, OnBusPlace
    <3>2. ~ (p[2] = Top.slot /\ p[3] = Top.func)
      BY <1>1, <3>1 DEF Spot
    <3>3. Past(After(Top.func), p) <=>
             p[2] < Top.slot \/ (p[2] = Top.slot /\ p[3] <= Top.func)
      BY <1>1, <3>1, AfterFacts
    <3>. QED
      BY <1>2, <2>1, <3>1, <3>2, <3>3 DEF Past
  <2>. QED
    BY <1>1, <1>4, <2>1, <2>2, AfterFacts
<1>. QED
  BY <1>3, <1>4

(* Somebody home: the position moves past that place and no other one that  *)
(* answers.                                                                 *)
LEMMA PastPresentFacts ==
  ASSUME TypeInv, InLoop, Here.kind # "none"
  PROVE  /\ PastPresent \in Calls
         /\ PastPresent.bus = Top.bus /\ ~ PastPresent.sorting
         /\ PastPresent.slot = SlotCount => PastPresent.func = 0
         /\ PastPresent.func # 0 =>
              PastPresent.slot = Top.slot /\ (Top.func # 0 \/ Here.multi)
         /\ \A p \in OnBus(Top.bus) :
              Past(PastPresent, p) <=> Past(Top, p) \/ p = Spot
<1>1. /\ Top \in Calls /\ Top.slot \in Slots /\ Top.func \in Funcs /\ ~ Top.sorting
      /\ Spot \in Places /\ Here = machine[Spot] /\ Top.bus \in Buses
  BY SpotFacts DEF Calls
<1>2. Top.slot \in Nat /\ Top.func \in Nat /\ FuncCount - 1 \in Funcs
      /\ \A f \in Funcs : f <= FuncCount - 1
  BY <1>1, SizesAssumption DEF Slots, Funcs
<1>3. CASE Top.func = 0 /\ ~ Here.multi
  <2>1. PastPresent = After(FuncCount - 1)
    BY <1>3 DEF PastPresent, NextSlot
  <2>2. After(FuncCount - 1).func = 0
    BY <1>2, SizesAssumption DEF After
  <2>3. ASSUME NEW p \in OnBus(Top.bus)
        PROVE  Past(PastPresent, p) <=> Past(Top, p) \/ p = Spot
    <3>1. /\ p \in Places /\ p = <<Top.bus, p[2], p[3]>>
          /\ p[3] = 0 \/ machine[<<Top.bus, p[2], 0>>].multi
          /\ p[3] \in Funcs /\ p[3] \in Nat
      BY <1>1, OnBusPlace
    <3>2. p[2] = Top.slot => p[3] = 0 /\ p = Spot
      BY <1>1, <1>3, <3>1 DEF Spot
    <3>3. p = Spot => p[2] = Top.slot
      BY DEF Spot
    <3>4. Past(After(FuncCount - 1), p) <=>
             p[2] < Top.slot \/ (p[2] = Top.slot /\ p[3] <= FuncCount - 1)
      BY <1>1, <1>2, <3>1, AfterFacts
    <3>. QED
      BY <1>2, <1>3, <2>1, <3>1, <3>2, <3>3, <3>4 DEF Past
  <2>. QED
    BY <1>1, <1>2, <2>1, <2>2, <2>3, AfterFacts
<1>4. CASE Top.func # 0 \/ Here.multi
  <2>1. PastPresent = After(Top.func)
    BY <1>4 DEF PastPresent
  <2>2. ASSUME NEW p \in OnBus(Top.bus)
        PROVE  Past(PastPresent, p) <=> Past(Top, p) \/ p = Spot
    <3>1. /\ p \in Places /\ p = <<Top.bus, p[2], p[3]>> /\ p[3] \in Nat
      BY <1>1, OnBusPlace
    <3>2. (p[2] = Top.slot /\ p[3] = Top.func) <=> p = Spot
      BY <3>1 DEF Spot
    <3>3. Past(After(Top.func), p) <=>
             p[2] < Top.slot \/ (p[2] = Top.slot /\ p[3] <= Top.func)
      BY <1>1, <3>1, AfterFacts
    <3>. QED
      BY <1>2, <2>1, <3>1, <3>2, <3>3 DEF Past
  <2>. QED
    BY <1>1, <1>4, <2>1, <2>2, AfterFacts
<1>. QED
  BY <1>3, <1>4


-----------------------------------------------------------------------------
(* Type correctness.                                                        *)

LEMMA TypeInit == Init => TypeInv
<1>. SUFFICES ASSUME Init PROVE TypeInv
  OBVIOUS
<1>1. machine \in [Places -> Answers]
  BY MachinesAssumption DEF Init
<1>2. Call(0, 0, 0) \in Calls /\ Call(0, 0, 0) \in Loops
  BY SizesAssumption DEF Call, Calls, Funcs, Loops
<1>3. calls \in Seq(Calls) /\ calls # <<>> /\ Head(calls) = Call(0, 0, 0)
      /\ Tail(calls) \in Seq(Loops)
  BY <1>2 DEF Init
<1>4. segments \in Seq(Segments(Len(devices))) /\ segments = <<>>
      /\ devices \in Seq(Nat) /\ Len(devices) = 0
  BY DEF Init
<1>. QED
  BY <1>1, <1>2, <1>3, <1>4, SizesAssumption DEF Init, TypeInv, Loops, Top

(* The innermost call is at another position of its loops. *)
LEMMA TypeMove ==
  ASSUME TypeInv, Scanning, NEW c \in Loops, calls' = <<c>> \o Tail(calls)
  PROVE  /\ calls' \in Seq(Calls) /\ Tail(calls') = Tail(calls) /\ Top' = c
         /\ Scanning' /\ ~ Top'.sorting
         /\ Active' = {c} \cup Range(Tail(calls))
<1>1. Tail(calls) \in Seq(Calls) /\ c \in Calls
  BY TopFacts DEF Loops
<1>. QED
  BY <1>1, ConsFacts DEF Scanning, Top, Active, Loops

(* The innermost call returns to the loop of the one that made it. *)
LEMMA TypeReturn ==
  ASSUME TypeInv, Scanning, calls' = Tail(calls)
  PROVE  /\ calls' \in Seq(Calls)
         /\ Scanning' => Tail(calls') \in Seq(Loops) /\ ~ Top'.sorting
         /\ Active' = Range(Tail(calls))
<1>1. Tail(calls) \in Seq(Loops) /\ Tail(calls) \in Seq(Calls)
  BY TopFacts DEF TypeInv
<1>2. ASSUME Scanning' PROVE Tail(calls') \in Seq(Loops) /\ Top' \in Loops
  BY <1>1, <1>2, UnconsFacts DEF Scanning, Top
<1>. QED
  BY <1>1, <1>2 DEF Active, Loops

(* A quicksort call that splits: the list is rearranged within its segment, *)
(* and the two calls it makes take over the segment.                        *)
LEMMA SplitFacts ==
  ASSUME TypeInv, QuicksortSplit
  PROVE  \E first, second \in Segments(Len(devices)) :
           /\ segments' = <<first, second>> \o Tail(segments)
           /\ devices' \in Seq(Nat) /\ Len(devices') = Len(devices)
           /\ segments' \in Seq(Segments(Len(devices)))
           /\ Rearranged(devices, devices', Segment.base, Segment.len)
           /\ first.base = Segment.base
           /\ first.base + first.len = second.base
           /\ second.base + second.len = Segment.base + Segment.len
           /\ \A i \in first.base + 1..second.base :
                \A j \in second.base + 1..second.base + second.len :
                  devices'[i] < devices'[j]
<1> DEFINE p == Partition(devices, Segment.base, Segment.len)
           first == [base |-> Segment.base, len |-> p.index]
           second == SecondPart(Segment, p.index)
           n == Len(devices)
<1>1. Segment \in Segments(n) /\ Tail(segments) \in Seq(Segments(n)) /\ n \in Nat
  BY UnconsFacts, LenProperties DEF QuicksortSplit, Segment, TypeInv
<1>2. /\ Segment.base \in Nat /\ Segment.len \in Nat /\ Segment.len > 1
      /\ Segment.base + Segment.len <= n /\ devices \in Seq(Nat)
  BY <1>1 DEF QuicksortSplit, Segments, TypeInv
<1>3. Partitioned(devices, p, Segment.base, Segment.len)
  BY <1>2, PartitionParts
<1>4. devices' = p.list /\ segments' = <<first, second>> \o Tail(segments)
  BY DEF QuicksortSplit
<1> DEFINE i == p.index
<1>5. /\ Rearranged(devices, devices', Segment.base, Segment.len)
      /\ i \in 0..Segment.len - 1
      /\ \A j \in Segment.base + 1..Segment.base + i :
           \A k \in Segment.base + i + 1..Segment.base + Segment.len :
             devices'[j] < devices'[k]
  BY <1>3, <1>4 DEF Partitioned
<1>6. devices' \in Seq(Nat) /\ Len(devices') = Len(devices)
  BY <1>5 DEF Rearranged
<1> HIDE DEF i, n
<1>7. /\ i \in Nat /\ Segment.len - i \in Nat /\ Segment.base + i \in Nat
      /\ Segment.base + i <= n
      /\ (Segment.base + i) + (Segment.len - i) = Segment.base + Segment.len
  <2> DEFINE b == Segment.base
             l == Segment.len
  <2>1. b \in Nat /\ l \in Nat /\ b + l <= n /\ n \in Nat /\ i \in 0..l - 1
    BY <1>1, <1>2, <1>5
  <2> HIDE DEF b, l
  <2>2. /\ i \in Nat /\ l - i \in Nat /\ b + i \in Nat /\ b + i <= n
        /\ (b + i) + (l - i) = b + l
    BY <2>1
  <2>. QED
    BY <2>2 DEF b, l
<1>8. /\ first.base = Segment.base /\ first.len = i
      /\ second.base = Segment.base + i /\ second.len = Segment.len - i
      /\ first \in [base : Nat, len : Nat] /\ second \in [base : Nat, len : Nat]
  BY <1>2, <1>7 DEF SecondPart, i
<1> HIDE DEF first, second
<1>9. first \in Segments(n) /\ second \in Segments(n)
  BY <1>2, <1>7, <1>8 DEF Segments
<1>10. segments' \in Seq(Segments(n))
  <2>1. <<second>> \o Tail(segments) \in Seq(Segments(n))
    BY <1>1, <1>9, ConsFacts
  <2>2. <<first>> \o (<<second>> \o Tail(segments)) \in Seq(Segments(n))
    BY <1>9, <2>1, ConsFacts
  <2>3. segments' = <<first>> \o (<<second>> \o Tail(segments))
    <3>1. PushTwo(first, second, Tail(segments)) = Push(first, Push(second, Tail(segments)))
      BY <1>1, <1>9, ConsTwice
    <3>. QED
      BY <1>4, <3>1 DEF Push, PushTwo
  <2>. QED
    BY <2>2, <2>3
<1>11. \A j \in first.base + 1..second.base :
         \A k \in second.base + 1..second.base + second.len :
           devices'[j] < devices'[k]
  BY <1>5, <1>7, <1>8
<1>12. /\ first.base + first.len = second.base
       /\ second.base + second.len = Segment.base + Segment.len
  BY <1>7, <1>8
<1>. QED
  BY <1>4, <1>5, <1>6, <1>8, <1>9, <1>10, <1>11, <1>12 DEF n

LEMMA TypeStep == TypeInv /\ [Next]_vars => TypeInv'
<1>. SUFFICES ASSUME TypeInv, [Next]_vars PROVE TypeInv'
  OBVIOUS
<1>1. /\ calls \in Seq(Calls) /\ segments \in Seq(Segments(Len(devices)))
      /\ devices \in Seq(Nat) /\ Len(devices) \in Nat
      /\ Scanning => Tail(calls) \in Seq(Loops)
  BY LenProperties DEF TypeInv
<1>2. CASE NobodyHome
  <2>1. PastAbsent \in Loops /\ Scanning /\ segments = <<>>
    BY <1>2, PastAbsentFacts DEF NobodyHome, InLoop, Loops, TypeInv
  <2>2. /\ calls' \in Seq(Calls) /\ Tail(calls') = Tail(calls)
        /\ Scanning' /\ ~ Top'.sorting
    BY <1>2, <2>1, TypeMove DEF NobodyHome
  <2>. QED
    BY <1>1, <1>2, <2>1, <2>2 DEF NobodyHome, TypeInv, menu
<1>3. CASE ArrayFull
  <2>1. Scanning /\ segments = <<>>
    BY <1>3 DEF ArrayFull, InLoop, TypeInv
  <2>2. calls' \in Seq(Calls) /\ (Scanning' => Tail(calls') \in Seq(Loops) /\ ~ Top'.sorting)
    BY <1>3, <2>1, TypeReturn DEF ArrayFull
  <2>. QED
    BY <1>1, <1>3, <2>1, <2>2 DEF ArrayFull, TypeInv, menu
<1>4. CASE FoundDevice
  <2>1. PastPresent \in Loops /\ Scanning /\ segments = <<>> /\ segments' = <<>>
    BY <1>4, PastPresentFacts DEF FoundDevice, InLoop, Loops, TypeInv
  <2>2. PciDev(Top.bus, Top.slot, Top.func) \in Nat
    BY <1>4, SpotFacts, DevType DEF FoundDevice
  <2>3. devices' \in Seq(Nat) /\ Len(devices') = Len(devices) + 1
    BY <1>1, <1>4, <2>2, AppendFacts DEF FoundDevice
  <2>4. Len(devices') <= MaxDevices
    <3>1. Len(devices) < MaxDevices /\ MaxDevices \in Nat
      BY <1>4, SizesAssumption DEF FoundDevice, Room
    <3>. QED
      BY <1>1, <2>3, <3>1
  <2>5. segments' \in Seq(Segments(Len(devices'))) /\ UNCHANGED <<machine, menu>>
    BY <1>4, <2>1 DEF FoundDevice
  <2>6. CASE Here.kind = "device"
    <3>1. /\ calls' \in Seq(Calls) /\ Tail(calls') = Tail(calls)
          /\ Scanning' /\ ~ Top'.sorting
      BY <1>4, <2>1, <2>6, TypeMove DEF FoundDevice
    <3>. QED
      BY <1>1, <2>1, <2>3, <2>4, <2>5, <3>1 DEF TypeInv, menu
  <2>7. CASE Here.kind = "bridge"
    <3> DEFINE new == Call(Followed, 0, 0)
               rest == <<PastPresent>> \o Tail(calls)
    <3>1. Followed \in Buses
      BY <1>4, SpotFacts DEF FoundDevice, Followed, Answers
    <3>2. new \in Calls /\ ~ new.sorting
      BY <3>1, SizesAssumption DEF Call, Calls, Funcs
    <3>3. rest \in Seq(Loops) /\ rest \in Seq(Calls)
      BY <1>1, <2>1, TopFacts, ConsFacts DEF Loops
    <3>4. calls' = <<new>> \o rest
      <4>1. calls' = <<new, PastPresent>> \o Tail(calls)
        BY <1>4, <2>7 DEF FoundDevice
      <4>2. PastPresent \in Calls /\ Tail(calls) \in Seq(Calls)
        BY <2>1, TopFacts DEF Loops
      <4> HIDE DEF new
      <4>. QED
        <5>1. PushTwo(new, PastPresent, Tail(calls)) = Push(new, Push(PastPresent, Tail(calls)))
          BY <3>2, <4>2, ConsTwice
        <5>. QED
          BY <4>1, <5>1 DEF Push, PushTwo
    <3> HIDE DEF new, rest
    <3>5. calls' \in Seq(Calls) /\ Tail(calls') = rest /\ Top' = new
      BY <3>2, <3>3, <3>4, ConsFacts DEF Top
    <3>. QED
      BY <2>1, <2>3, <2>4, <2>5, <3>2, <3>3, <3>5 DEF TypeInv, menu
  <2>. QED
    BY <1>4, <2>6, <2>7 DEF FoundDevice
<1>5. CASE BusEnd
  <2> DEFINE c == [Top EXCEPT !.sorting = TRUE]
             seg == [base |-> 0, len |-> Len(devices)]
  <2>1. Top \in Calls /\ Tail(calls) \in Seq(Calls) /\ Scanning
    BY <1>5, TopFacts DEF BusEnd
  <2>2. c \in Calls /\ c.slot = Top.slot
    BY <2>1 DEF Calls
  <2>3. seg \in Segments(Len(devices))
    BY <1>1 DEF Segments
  <2>4. calls' = <<c>> \o Tail(calls) /\ segments' = <<seg>>
        /\ UNCHANGED <<machine, devices, menu>> /\ ScanEnded
    BY <1>5 DEF BusEnd
  <2>5. c.sorting
    BY <2>1 DEF Calls
  <2> HIDE DEF c, seg
  <2>6. calls' \in Seq(Calls) /\ Tail(calls') = Tail(calls) /\ Top' = c /\ Scanning'
    BY <2>1, <2>2, <2>4, ConsFacts DEF Top, Scanning
  <2>7. segments' \in Seq(Segments(Len(devices)))
    BY <2>3, <2>4
  <2>8. ScanEnded'
    BY <2>2, <2>4, <2>6 DEF ScanEnded
  <2>. QED
    BY <1>1, <2>1, <2>4, <2>5, <2>6, <2>7, <2>8 DEF TypeInv, menu
<1>6. CASE QuicksortShort
  <2>1. segments' \in Seq(Segments(Len(devices)))
    BY <1>1, <1>6, UnconsFacts DEF QuicksortShort
  <2>. QED
    BY <1>6, <2>1 DEF QuicksortShort, TypeInv, Scanning, Top, ScanEnded, menu
<1>7. CASE QuicksortSplit
  <2>1. Segment \in Segments(Len(devices)) /\ Tail(segments) \in Seq(Segments(Len(devices)))
    BY <1>1, <1>7, UnconsFacts DEF QuicksortSplit, Segment
  <2>2. /\ devices' \in Seq(Nat) /\ Len(devices') = Len(devices)
        /\ segments' \in Seq(Segments(Len(devices)))
    BY <1>1, <1>7, <2>1, SplitFacts
  <2>. QED
    BY <1>7, <2>2 DEF QuicksortSplit, TypeInv, Scanning, Top, ScanEnded, menu
<1>8. CASE SortEnd
  <2>1. calls' \in Seq(Calls) /\ (Scanning' => Tail(calls') \in Seq(Loops) /\ ~ Top'.sorting)
    BY <1>8, TypeReturn DEF SortEnd
  <2>. QED
    BY <1>1, <1>8, <2>1 DEF SortEnd, TypeInv, menu
<1>9. CASE KeyDown \/ KeyUp
  <2>1. menu_selected' \in Nat /\ menu_first' \in Nat
    BY <1>9, SizesAssumption DEF TypeInv, KeyDown, KeyUp, FirstFor
  <2>. QED
    BY <1>9, <2>1 DEF KeyDown, KeyUp, TypeInv, Scanning, Top, ScanEnded
<1>10. CASE UNCHANGED vars
  BY <1>10 DEF vars, menu, TypeInv, Scanning, Top, ScanEnded
<1>. QED
  BY <1>2, <1>3, <1>4, <1>5, <1>6, <1>7, <1>8, <1>9, <1>10 DEF Next, Scan, Sort

LEMMA TypeInvariant == Spec => []TypeInv
  BY TypeInit, TypeStep, PTL DEF Spec

(* Type correctness; in particular the scan never writes past the array,    *)
(* and no quicksort call reaches outside what has been found.               *)
THEOREM TypeCorrect == Spec => []TypeOK
<1>1. TypeInv => TypeOK
  <2>. SUFFICES ASSUME TypeInv PROVE TypeOK
    OBVIOUS
  <2>1. \A k \in 1..Len(calls) : calls[k] \in Calls
    BY ElementOfSeq DEF TypeInv
  <2>2. \A k \in 1..Len(segments) :
          segments[k].base >= 0 /\ segments[k].base + segments[k].len <= Len(devices)
    <3>1. \A k \in 1..Len(segments) : segments[k] \in Segments(Len(devices))
      BY ElementOfSeq DEF TypeInv
    <3>. QED
      BY <3>1 DEF Segments
  <2>3. ASSUME NEW k \in 1..Len(calls), calls[k].sorting PROVE k = 1
    <3>1. Scanning /\ Len(calls) \in Nat
      BY LenProperties DEF Scanning, TypeInv
    <3>2. /\ Tail(calls) \in Seq(Loops) /\ Len(Tail(calls)) = Len(calls) - 1
          /\ \A i \in 1..Len(Tail(calls)) : Tail(calls)[i] = calls[i + 1]
      BY <3>1, HeadTailProperties DEF TypeInv, Scanning
    <3>3. SUFFICES ASSUME k # 1 PROVE FALSE
      OBVIOUS
    <3>4. k - 1 \in 1..Len(Tail(calls)) /\ (k - 1) + 1 = k
      BY <3>1, <3>2, <3>3
    <3>5. Tail(calls)[k - 1] \in Loops
      BY <3>2, <3>4, ElementOfSeq
    <3>. QED
      BY <2>3, <3>2, <3>4, <3>5 DEF Loops
  <2>. QED
    BY <2>1, <2>2, <2>3 DEF TypeInv, TypeOK, Calls
<1>. QED
  BY <1>1, TypeInvariant, PTL


-----------------------------------------------------------------------------
(* The menu.                                                                *)

(* No step of the scan or the sorts shortens the list.                      *)
LEMMA MenuInit == Init => MenuInv
<1>. SUFFICES ASSUME Init PROVE MenuInv
  OBVIOUS
<1>. QED
  BY SizesAssumption DEF Init, MenuInv, SelectionVisible

LEMMA MenuStep == TypeInv /\ MenuInv /\ [Next]_vars => MenuInv'
<1>. SUFFICES ASSUME TypeInv, MenuInv, [Next]_vars PROVE MenuInv'
  OBVIOUS
<1>1. /\ menu_selected \in Nat /\ menu_first \in Nat /\ Visible \in Nat \ {0}
      /\ devices \in Seq(Nat) /\ Len(devices) \in Nat
  BY LenProperties, SizesAssumption DEF TypeInv
(* Scanning: nothing has been selected, and nothing is. *)
<1>2. CASE Scan \/ Sort
  <2>1. Scanning
    BY <1>2 DEF Scan, Sort, NobodyHome, ArrayFull, FoundDevice, InLoop, BusEnd,
                QuicksortShort, QuicksortSplit, SortEnd, TypeInv
  <2>2. UNCHANGED menu
    BY <1>2 DEF Scan, Sort, NobodyHome, ArrayFull, FoundDevice, BusEnd,
                QuicksortShort, QuicksortSplit, SortEnd
  <2>. QED
    BY <1>1, <2>1, <2>2 DEF MenuInv, SelectionVisible, menu
<1>3. CASE KeyDown
  <2>1. /\ menu_selected' = menu_selected + 1 /\ menu_selected' < Len(devices)
        /\ menu_first' = FirstFor(menu_selected') /\ Browsing
        /\ UNCHANGED <<devices, calls>>
    BY <1>3 DEF KeyDown
  <2>. QED
    BY <1>1, <2>1 DEF FirstFor, MenuInv, SelectionVisible, Scanning, Browsing
<1>4. CASE KeyUp
  <2>1. /\ menu_selected' = menu_selected - 1 /\ menu_selected > 0
        /\ menu_first' = FirstFor(menu_selected') /\ Browsing
        /\ UNCHANGED <<devices, calls>>
    BY <1>4 DEF KeyUp
  <2>. QED
    BY <1>1, <2>1 DEF FirstFor, MenuInv, SelectionVisible, Scanning, Browsing
<1>5. CASE UNCHANGED vars
  BY <1>5 DEF vars, menu, MenuInv, SelectionVisible, Scanning
<1>. QED
  BY <1>2, <1>3, <1>4, <1>5 DEF Next

(* Whatever the rows of the screen and the devices of the machine, the      *)
(* selected device is on the screen, and is a device of the list.           *)
THEOREM SelectedOnScreen == Spec => []SelectionVisible
<1>1. MenuInv => SelectionVisible
  BY DEF MenuInv
<1>. QED
  BY <1>1, MenuInit, MenuStep, TypeInvariant, PTL DEF Spec


-----------------------------------------------------------------------------
(* The path of bridges.                                                     *)

LEMMA TopDeepest ==
  ASSUME TypeInv, Scanning, PathInv
  PROVE  /\ Ordered(Tail(calls), Deeper)
         /\ \A c \in Range(Tail(calls)) : c \in Calls /\ Top.bus > c.bus
         /\ Top.bus \in ReachableBuses /\ SeenZero(Top)
         /\ \A c \in Range(Tail(calls)) : c.bus \in ReachableBuses /\ SeenZero(c)
<1>1. calls \in Seq(Calls) /\ calls # <<>> /\ Tail(calls) \in Seq(Calls)
  BY TopFacts DEF TypeInv, Scanning
<1>2. /\ Ordered(Tail(calls), Deeper)
      /\ \A c \in Range(Tail(calls)) : <<Top, c>> \in Deeper
  BY <1>1, OrderedTail DEF PathInv, Top
<1>3. Active = {Top} \cup Range(Tail(calls))
  BY TopFacts
<1>. QED
  BY <1>2, <1>3 DEF Deeper, PathInv, OnPath

(* The innermost call moves on.                                             *)
LEMMA PathMove ==
  ASSUME TypeInv, Scanning, PathInv, machine' = machine,
         NEW c \in Calls, c.bus = Top.bus, SeenZero(c),
         calls' = <<c>> \o Tail(calls)
  PROVE  PathInv'
<1>1. /\ Ordered(Tail(calls), Deeper)
      /\ \A d \in Range(Tail(calls)) : <<c, d>> \in Deeper
  BY TopDeepest DEF Deeper
<1>2. Tail(calls) \in Seq(Calls)
  BY TopFacts
<1>3. Ordered(calls', Deeper) /\ Active' = {c} \cup Range(Tail(calls))
  BY <1>1, <1>2, OrderedCons, ConsFacts DEF Active
<1>4. OnPath(Active')
  BY <1>3, TopDeepest DEF OnPath
<1>. QED
  BY <1>3, <1>4, SameMachine DEF PathInv, Deeper

(* It returns.                                                              *)
LEMMA PathReturn ==
  ASSUME TypeInv, Scanning, PathInv, machine' = machine, calls' = Tail(calls)
  PROVE  PathInv'
<1>1. OnPath(Active')
  BY TopDeepest DEF OnPath, Active
<1>. QED
  BY <1>1, TopDeepest, SameMachine DEF PathInv, Deeper

(* It moves on and follows a bridge.                                        *)
LEMMA PathEnter ==
  ASSUME TypeInv, Scanning, PathInv, machine' = machine,
         NEW c \in Calls, c.bus = Top.bus, SeenZero(c),
         NEW new \in Calls, new.bus > Top.bus, new.bus \in ReachableBuses,
         SeenZero(new), calls' = <<new>> \o (<<c>> \o Tail(calls))
  PROVE  PathInv'
<1> DEFINE rest == <<c>> \o Tail(calls)
<1>1. /\ Ordered(Tail(calls), Deeper)
      /\ \A d \in Range(Tail(calls)) : <<c, d>> \in Deeper
  BY TopDeepest DEF Deeper
<1>2. Tail(calls) \in Seq(Calls)
  BY TopFacts
<1>3. /\ rest \in Seq(Calls) /\ Ordered(rest, Deeper)
      /\ Range(rest) = {c} \cup Range(Tail(calls))
  BY <1>1, <1>2, OrderedCons, ConsFacts
<1>4. \A d \in Range(rest) : d \in Calls /\ new.bus > d.bus
  <2>1. \A d \in Calls : d.bus \in Nat
    BY SizesAssumption DEF Calls
  <2>. QED
    BY <1>3, <2>1, TopDeepest, TopFacts
<1>5. \A d \in Range(rest) : <<new, d>> \in Deeper
  BY <1>4 DEF Deeper
<1>6. calls' = <<new>> \o rest
  OBVIOUS
<1> HIDE DEF rest
<1>7. Ordered(calls', Deeper) /\ Active' = {new} \cup Range(rest)
  <2>1. Ordered(<<new>> \o rest, Deeper)
    BY <1>3, <1>5, OrderedCons
  <2>2. Range(<<new>> \o rest) = {new} \cup Range(rest)
    BY <1>3, ConsFacts
  <2>. QED
    BY <1>6, <2>1, <2>2 DEF Active
<1>8. OnPath(Active')
  BY <1>3, <1>7, TopDeepest DEF OnPath
<1>. QED
  BY <1>7, <1>8, SameMachine DEF PathInv, Deeper


-----------------------------------------------------------------------------
(* What has been found, as the innermost call c moves on to d; sub are the  *)
(* other calls.                                                             *)

(* Position d is where c was, but for place p of their bus, now behind.     *)
PassedOne(c, d, p) ==
  /\ d.bus = c.bus /\ p \in OnBus(c.bus) /\ ~ Past(c, p)
  /\ \A q \in OnBus(c.bus) : Past(d, q) <=> Past(c, q) \/ q = p

(* Position d is past what c was past, and nothing else.                    *)
PassedNone(c, d) ==
  d.bus = c.bus /\ \A q \in OnBus(c.bus) : Past(d, q) <=> Past(c, q)

LEMMA MoveFound ==
  ASSUME NEW found, NEW c, NEW d, NEW sub, PassedNone(c, d)
  PROVE  /\ Sound(found, {c} \cup sub) => Sound(found, {d} \cup sub)
         /\ Whole(found, {c} \cup sub) => Whole(found, {d} \cup sub)
<1>1. ASSUME Sound(found, {c} \cup sub) PROVE Sound(found, {d} \cup sub)
  <2>1. \A e \in {d} \cup sub : Entered(found, e.bus)
    BY <1>1 DEF PassedNone, Sound
  <2>2. \A v \in found : \E b \in ReachableBuses : \E p \in OnBus(b) : v = Dev(p)
    BY <1>1 DEF Sound
  <2>3. ASSUME NEW b \in ReachableBuses, NEW p \in OnBus(b), Dev(p) \in found
        PROVE  Entered(found, b) /\ \A e \in {d} \cup sub : e.bus = b => Past(e, p)
    BY <1>1, <2>3 DEF PassedNone, Sound
  <2>. QED
    BY <2>1, <2>2, <2>3 DEF Sound
<1>2. ASSUME Whole(found, {c} \cup sub) PROVE Whole(found, {d} \cup sub)
  <2>1. ASSUME NEW e \in {d} \cup sub, NEW p \in OnBus(e.bus), Past(e, p)
        PROVE  Dev(p) \in found
    BY <1>2, <2>1 DEF PassedNone, Whole
  <2>2. ASSUME NEW b \in ReachableBuses, Entered(found, b)
        PROVE  \/ \E e \in {d} \cup sub : e.bus = b
               \/ \A p \in OnBus(b) : Dev(p) \in found
    BY <1>2, <2>2 DEF PassedNone, Whole
  <2>. QED
    BY <2>1, <2>2 DEF Whole
<1>. QED
  BY <1>1, <1>2

(* The call returns; on a machine that fits, from the end of its bus.       *)
LEMMA ReturnFound ==
  ASSUME NEW found, NEW c, NEW sub
  PROVE  /\ Sound(found, {c} \cup sub) => Sound(found, sub)
         /\ (\A p \in OnBus(c.bus) : Past(c, p)) /\ Whole(found, {c} \cup sub)
              => Whole(found, sub)
<1>1. Sound(found, {c} \cup sub) => Sound(found, sub)
  BY DEF Sound
<1>2. ASSUME \A p \in OnBus(c.bus) : Past(c, p), Whole(found, {c} \cup sub)
      PROVE  Whole(found, sub)
  <2>1. \A p \in OnBus(c.bus) : Dev(p) \in found
    BY <1>2 DEF Whole
  <2>2. ASSUME NEW b \in ReachableBuses, Entered(found, b)
        PROVE  \/ \E e \in sub : e.bus = b
               \/ \A p \in OnBus(b) : Dev(p) \in found
    BY <1>2, <2>1, <2>2 DEF Whole
  <2>. QED
    BY <1>2, <2>2 DEF Whole
<1>. QED
  BY <1>1, <1>2

(* Place p, found from the bus of call c, is a new one, and enters no bus    *)
(* but the one it may be a bridge to.                                       *)
Added(found, c, p) ==
  /\ p \in Places /\ p[1] = c.bus /\ Dev(p) \notin found
  /\ \A b \in ReachableBuses : \A q \in OnBus(b) :
       Dev(q) = Dev(p) => q = p /\ b = c.bus
  /\ \A b : Entered(found, b) => Entered(found \cup {Dev(p)}, b)
  /\ \A b : Entered(found \cup {Dev(p)}, b) =>
       \/ Entered(found, b)
       \/ machine[p].kind = "bridge" /\ b = machine[p].secondary

LEMMA AddFacts ==
  ASSUME machine \in [Places -> Answers], NEW found, NEW c, NEW d, NEW sub,
         NEW p, PassedOne(c, d, p), c.bus \in ReachableBuses,
         Sound(found, {c} \cup sub)
  PROVE  Added(found, c, p)
<1>1. p \in OnBus(c.bus) /\ ~ Past(c, p) /\ ReachableBuses \subseteq Buses
  BY ReachableFacts DEF PassedOne
<1>2. p \in Places /\ p[1] = c.bus
  BY <1>1, OnBusPlace
<1>3. Dev(p) \notin found
  BY <1>1 DEF Sound
<1>4. ASSUME NEW b \in ReachableBuses, NEW q \in OnBus(b), Dev(q) = Dev(p)
      PROVE  q = p /\ b = c.bus
  <2>1. q \in Places /\ q[1] = b
    BY <1>1, OnBusPlace
  <2>. QED
    BY <1>2, <1>4, <2>1, DevInjective
<1>5. \A b : Entered(found, b) => Entered(found \cup {Dev(p)}, b)
  BY DEF Entered
<1>6. ASSUME NEW b, Entered(found \cup {Dev(p)}, b), ~ Entered(found, b)
      PROVE  machine[p].kind = "bridge" /\ b = machine[p].secondary
  <2>1. PICK q \in Bridges(ReachableBuses) :
          Dev(q) \in found \cup {Dev(p)} /\ machine[q].secondary = b
    BY <1>6 DEF Entered
  <2>2. Dev(q) = Dev(p)
    BY <1>6, <2>1 DEF Entered
  <2>3. machine[q].kind = "bridge" /\ \E e \in ReachableBuses : q \in OnBus(e)
    BY ReachableFacts
  <2>4. q = p
    BY <1>4, <2>2, <2>3
  <2>. QED
    BY <2>1, <2>3, <2>4
<1>. QED
  BY <1>2, <1>3, <1>4, <1>5, <1>6 DEF Added


(* It is no bridge: no other bus is entered.                                *)
LEMMA AddDevice ==
  ASSUME machine \in [Places -> Answers], NEW found, NEW c, NEW d, NEW sub,
         NEW p, PassedOne(c, d, p), c.bus \in ReachableBuses,
         \A e \in sub : e.bus # c.bus, machine[p].kind # "bridge",
         Sound(found, {c} \cup sub)
  PROVE  /\ Sound(found \cup {Dev(p)}, {d} \cup sub)
         /\ Whole(found, {c} \cup sub)
              => Whole(found \cup {Dev(p)}, {d} \cup sub)
<1> DEFINE new == found \cup {Dev(p)}
           active == {d} \cup sub
<1>1. p \in OnBus(c.bus) /\ d.bus = c.bus /\ Past(d, p)
      /\ \A q \in OnBus(c.bus) : Past(d, q) <=> Past(c, q) \/ q = p
  BY DEF PassedOne
<1>2. /\ \A b \in ReachableBuses : \A q \in OnBus(b) :
           Dev(q) = Dev(p) => q = p /\ b = c.bus
      /\ \A b : Entered(new, b) <=> Entered(found, b)
  <2>1. Added(found, c, p)
    BY AddFacts
  <2>. QED
    BY <2>1 DEF Added
<1> HIDE DEF new
<1>3. \A e \in active : Entered(new, e.bus)
  BY <1>1, <1>2 DEF Sound
<1>4. \A v \in new : \E b \in ReachableBuses : \E q \in OnBus(b) : v = Dev(q)
  BY <1>1 DEF Sound, new
<1>5. ASSUME NEW b \in ReachableBuses, NEW q \in OnBus(b), Dev(q) \in new
      PROVE  Entered(new, b) /\ \A e \in active : e.bus = b => Past(e, q)
  <2>1. CASE Dev(q) \in found
    BY <1>1, <1>2, <2>1 DEF Sound
  <2>2. CASE Dev(q) = Dev(p)
    <3>1. q = p /\ b = c.bus
      BY <1>2, <2>2
    <3>2. Entered(new, b)
      BY <1>2, <3>1 DEF Sound
    <3>. QED
      BY <1>1, <3>1, <3>2
  <2>. QED
    BY <1>5, <2>1, <2>2 DEF new
<1>6. Sound(new, active)
  BY <1>3, <1>4, <1>5 DEF Sound
<1>7. ASSUME Whole(found, {c} \cup sub) PROVE Whole(new, active)
  <2>1. ASSUME NEW e \in active, NEW q \in OnBus(e.bus), Past(e, q)
        PROVE  Dev(q) \in new
    <3>1. CASE e \in sub
      BY <1>7, <2>1, <3>1 DEF Whole, new
    <3>2. CASE e = d
      BY <1>1, <1>7, <2>1, <3>2 DEF Whole, new
    <3>. QED
      BY <3>1, <3>2
  <2>2. ASSUME NEW b \in ReachableBuses, Entered(new, b)
        PROVE  \/ \E e \in active : e.bus = b
               \/ \A q \in OnBus(b) : Dev(q) \in new
    <3>1. \/ \E e \in {c} \cup sub : e.bus = b
          \/ \A q \in OnBus(b) : Dev(q) \in found
      BY <1>2, <1>7, <2>2 DEF Whole
    <3>. QED
      BY <1>1, <3>1 DEF new
  <2> HIDE DEF active
  <2>. QED
    BY <2>1, <2>2 DEF Whole
<1>. QED
  BY <1>6, <1>7 DEF new

(* It is a bridge, and the scan follows it: by the numbering no other       *)
(* bridge leads to that bus, so nothing of it has been found yet.           *)
LEMMA AddBridge ==
  ASSUME machine \in [Places -> Answers], Numbered,
         NEW found, NEW c, NEW d, NEW sub, NEW e,
         NEW p, PassedOne(c, d, p), c.bus \in ReachableBuses,
         \A f \in sub : f.bus # c.bus, machine[p].kind = "bridge",
         e.bus = machine[p].secondary, e.slot = 0, e.func = 0,
         Sound(found, {c} \cup sub)
  PROVE  /\ Sound(found \cup {Dev(p)}, {e} \cup ({d} \cup sub))
         /\ Whole(found, {c} \cup sub)
              => Whole(found \cup {Dev(p)}, {e} \cup ({d} \cup sub))
<1> DEFINE new == found \cup {Dev(p)}
           active == {e} \cup ({d} \cup sub)
<1>1. p \in OnBus(c.bus) /\ d.bus = c.bus /\ Past(d, p)
      /\ \A q \in OnBus(c.bus) : Past(d, q) <=> Past(c, q) \/ q = p
  BY DEF PassedOne
<1>2. /\ \A b \in ReachableBuses : \A q \in OnBus(b) :
           Dev(q) = Dev(p) => q = p /\ b = c.bus
      /\ \A b : Entered(found, b) => Entered(new, b)
      /\ \A b : Entered(new, b) => Entered(found, b) \/ b = e.bus
      /\ Dev(p) \notin found /\ p \in Places /\ p[1] = c.bus
  <2>1. Added(found, c, p)
    BY AddFacts
  <2>. QED
    BY <2>1 DEF Added
<1>3. /\ p \in Bridges(ReachableBuses) /\ e.bus \in ReachableBuses
      /\ ReachableBuses \subseteq Buses
  BY <1>1, ReachableFacts
<1>4. e.bus > c.bus /\ e.bus \in Nat /\ c.bus \in Nat
  BY <1>2, <1>3, SizesAssumption DEF Numbered
<1>5. ~ Entered(found, e.bus)
  <2>1. e.bus # 0
    BY <1>4
  <2>2. \A q \in Bridges(ReachableBuses) : machine[q].secondary = e.bus => q = p
    BY <1>3 DEF Numbered
  <2>. QED
    BY <1>2, <2>1, <2>2 DEF Entered
<1>6. Entered(new, e.bus)
  BY <1>3 DEF Entered
<1>7. e.bus # c.bus
  BY <1>4
<1> HIDE DEF new
<1>8. \A f \in active : Entered(new, f.bus)
  BY <1>1, <1>2, <1>6 DEF Sound
<1>9. \A v \in new : \E b \in ReachableBuses : \E q \in OnBus(b) : v = Dev(q)
  BY <1>1 DEF Sound, new
<1>10. ASSUME NEW b \in ReachableBuses, NEW q \in OnBus(b), Dev(q) \in new
       PROVE  Entered(new, b) /\ \A f \in active : f.bus = b => Past(f, q)
  <2>1. CASE Dev(q) \in found
    <3>1. Entered(found, b) /\ b # e.bus
      BY <1>5, <2>1 DEF Sound
    <3>. QED
      BY <1>1, <1>2, <2>1, <3>1 DEF Sound
  <2>2. CASE Dev(q) = Dev(p)
    <3>1. q = p /\ b = c.bus
      BY <1>2, <2>2
    <3>2. Entered(new, b)
      BY <1>2, <3>1 DEF Sound
    <3>. QED
      BY <1>1, <1>7, <3>1, <3>2
  <2>. QED
    BY <1>10, <2>1, <2>2 DEF new
<1>11. Sound(new, active)
  BY <1>8, <1>9, <1>10 DEF Sound
<1>12. \A q \in OnBus(e.bus) : ~ Past(e, q)
  <2>1. \A q \in OnBus(e.bus) : q[2] \in Nat /\ q[3] \in Nat
    BY <1>3, OnBusPlace
  <2>. QED
    BY <2>1 DEF Past
<1>13. ASSUME Whole(found, {c} \cup sub) PROVE Whole(new, active)
  <2>1. ASSUME NEW f \in active, NEW q \in OnBus(f.bus), Past(f, q)
        PROVE  Dev(q) \in new
    <3>1. CASE f \in sub
      BY <1>13, <2>1, <3>1 DEF Whole, new
    <3>2. CASE f = d
      BY <1>1, <1>13, <2>1, <3>2 DEF Whole, new
    <3>3. f # e
      BY <1>12, <2>1
    <3>. QED
      BY <3>1, <3>2, <3>3
  <2>2. ASSUME NEW b \in ReachableBuses, Entered(new, b)
        PROVE  \/ \E f \in active : f.bus = b
               \/ \A q \in OnBus(b) : Dev(q) \in new
    <3>1. CASE Entered(found, b)
      <4>1. \/ \E f \in {c} \cup sub : f.bus = b
            \/ \A q \in OnBus(b) : Dev(q) \in found
        BY <1>13, <2>2, <3>1 DEF Whole
      <4>. QED
        BY <1>1, <4>1 DEF new
    <3>. QED
      BY <1>2, <2>2, <3>1
  <2> HIDE DEF active
  <2>. QED
    BY <2>1, <2>2 DEF Whole
<1>. QED
  BY <1>11, <1>13 DEF new


-----------------------------------------------------------------------------
(* The steps of the scan, on what has been found.                           *)

LEMMA AbsentPassed ==
  ASSUME TypeInv, InLoop, Here.kind = "none", SeenZero(Top)
  PROVE  PassedNone(Top, PastAbsent) /\ SeenZero(PastAbsent)
<1>1. SeenZero(PastAbsent)
  BY PastAbsentFacts DEF SeenZero
<1>. QED
  BY <1>1, PastAbsentFacts DEF PassedNone

LEMMA PresentPassed ==
  ASSUME TypeInv, InLoop, Here.kind # "none", SeenZero(Top)
  PROVE  PassedOne(Top, PastPresent, Spot) /\ SeenZero(PastPresent)
<1>1. /\ Spot \in Places /\ Here = machine[Spot] /\ Top \in Calls
      /\ Top.slot \in Slots /\ Top.func \in Funcs
      /\ Spot = <<Top.bus, Top.slot, Top.func>>
  BY SpotFacts DEF Spot
<1>2. Top.slot \in Nat /\ Top.func \in Nat
  BY <1>1, SizesAssumption DEF Slots, Funcs
<1>3. /\ Spot[1] = Top.bus /\ Spot[2] = Top.slot /\ Spot[3] = Top.func
  BY DEF Spot
<1>4. ~ Past(Top, Spot)
  BY <1>2, <1>3 DEF Past
<1>5. Spot \in OnBus(Top.bus)
  <2>1. Spot \in {Top.bus} \X Slots \X Funcs
    BY <1>1
  <2>2. CASE Top.func = 0
    BY <1>1, <1>3, <2>1, <2>2 DEF OnBus
  <2>3. CASE Top.func # 0
    BY <1>1, <1>3, <2>1, <2>3 DEF OnBus, SeenZero
  <2>. QED
    BY <2>2, <2>3
<1>6. SeenZero(PastPresent)
  <2>1. ASSUME PastPresent.func # 0
        PROVE  /\ machine[<<Top.bus, Top.slot, 0>>].kind # "none"
               /\ machine[<<Top.bus, Top.slot, 0>>].multi
    <3>1. Top.func # 0 \/ Here.multi
      BY <2>1, PastPresentFacts
    <3>2. CASE Top.func # 0
      BY <3>2 DEF SeenZero
    <3>3. CASE Top.func = 0
      BY <1>1, <3>1, <3>3
    <3>. QED
      BY <3>2, <3>3
  <2>. QED
    BY <2>1, PastPresentFacts DEF SeenZero
<1>. QED
  BY <1>4, <1>5, <1>6, PastPresentFacts DEF PassedOne

(* The innermost call is alone on its bus.                                  *)
LEMMA AloneOnBus ==
  ASSUME TypeInv, Scanning, PathInv
  PROVE  \A e \in Range(Tail(calls)) : e.bus # Top.bus
<1>1. \A c \in Calls : c.bus \in Nat
  BY SizesAssumption DEF Calls
<1>. QED
  BY <1>1, TopDeepest, TopFacts

(* Entries that differ stay so when a new one is added.                     *)
LEMMA NoRepeatAppend ==
  ASSUME NEW list \in Seq(Nat), NEW v \in Nat, NoRepeat(list), v \notin Range(list)
  PROVE  NoRepeat(Append(list, v))
<1> DEFINE new == Append(list, v)
           n == Len(list)
<1>1. /\ n \in Nat /\ Len(new) = n + 1 /\ new[n + 1] = v
      /\ \A i \in 1..n : new[i] = list[i]
  BY AppendProperties, LenProperties
<1>2. \A i \in 1..n : list[i] # v
  BY RangeEquality
<1> HIDE DEF new
<1>3. ASSUME NEW i \in 1..n + 1, NEW j \in 1..n + 1, new[i] = new[j]
      PROVE  i = j
  <2>1. CASE i \in 1..n /\ j \in 1..n
    <3>1. list[i] = list[j]
      BY <1>1, <1>3, <2>1
    <3>. QED
      BY <2>1, <3>1 DEF NoRepeat
  <2>2. CASE i = n + 1 /\ j \in 1..n
    BY <1>1, <1>2, <1>3, <2>2
  <2>3. CASE i \in 1..n /\ j = n + 1
    BY <1>1, <1>2, <1>3, <2>3
  <2>. QED
    BY <1>1, <2>1, <2>2, <2>3
<1>. QED
  BY <1>1, <1>3 DEF NoRepeat, new

(* A list rearranged has the same entries.                                  *)
LEMMA RearrangedFacts ==
  ASSUME NEW list \in Seq(Nat), NEW base \in Nat, NEW len \in Nat,
         base + len <= Len(list), NEW new, Rearranged(list, new, base, len)
  PROVE  Range(new) = Range(list) /\ (NoRepeat(list) => NoRepeat(new))
<1>1. /\ new \in Seq(Nat) /\ Len(new) = Len(list) /\ Len(list) \in Nat
      /\ \A k \in base + 1..base + len : k \in 1..Len(list)
  BY LenProperties DEF Rearranged
<1>2. /\ Range(new) = {new[i] : i \in 1..Len(list)}
      /\ Range(list) = {list[i] : i \in 1..Len(list)}
  BY <1>1, RangeEquality
<1> DEFINE part == base + 1..base + len
<1>3. ASSUME NEW i \in 1..Len(list)
      PROVE  /\ \E j \in 1..Len(list) : new[i] = list[j]
             /\ \E j \in 1..Len(list) : list[i] = new[j]
  <2>1. CASE i \in part
    <3>1. PICK j \in part : new[i] = list[j]
      BY <2>1 DEF Rearranged
    <3>2. PICK k \in part : new[k] = list[i]
      BY <2>1 DEF Rearranged
    <3>. QED
      BY <1>1, <3>1, <3>2
  <2>2. CASE i \notin part
    BY <2>2 DEF Rearranged
  <2>. QED
    BY <2>1, <2>2
<1>4. Range(new) = Range(list)
  <2>1. \A v \in Range(new) : v \in Range(list)
    BY <1>2, <1>3
  <2>2. \A v \in Range(list) : v \in Range(new)
    BY <1>2, <1>3
  <2>. QED
    BY <2>1, <2>2
<1>5. NoRepeat(list) => NoRepeat(new)
  BY <1>1 DEF Rearranged, NoRepeat
<1>. QED
  BY <1>4, <1>5


LEMMA ReachableFinite == IsFiniteSet(Reachable)
<1> DEFINE S == {p \in Places : \E b \in ReachableBuses : p \in OnBus(b)}
           f == [p \in S |-> Dev(p)]
<1>1. IsFiniteSet(Places)
  <2>1. IsFiniteSet(Slots) /\ IsFiniteSet(Funcs) /\ IsFiniteSet(Buses)
    BY FS_Interval, SizesAssumption DEF Slots, Funcs
  <2>2. IsFiniteSet(Buses \X Slots) /\ IsFiniteSet((Buses \X Slots) \X Funcs)
    BY <2>1, FS_Product
  <2> DEFINE g == [x \in (Buses \X Slots) \X Funcs |-> <<x[1][1], x[1][2], x[2]>>]
  <2>3. g \in Surjection((Buses \X Slots) \X Funcs, Places)
    <3>1. g \in [(Buses \X Slots) \X Funcs -> Places]
      BY DEF Places
    <3>2. ASSUME NEW p \in Places
          PROVE  \E x \in (Buses \X Slots) \X Funcs : g[x] = p
      <4>1. p = <<p[1], p[2], p[3]>>
            /\ <<<<p[1], p[2]>>, p[3]>> \in (Buses \X Slots) \X Funcs
        BY DEF Places
      <4>. QED
        BY <4>1
    <3>. QED
      BY <3>1, <3>2 DEF Surjection
  <2> HIDE DEF g
  <2>. QED
    BY <2>2, <2>3, FS_Surjection
<1>2. IsFiniteSet(S)
  BY <1>1, FS_Subset
<1>3. Reachable = {Dev(p) : p \in S}
  <2>1. ReachableBuses \subseteq Buses
    BY DEF ReachableBuses
  <2>2. \A b \in ReachableBuses : \A p \in OnBus(b) : p \in Places
    BY <2>1 DEF OnBus, Places
  <2>3. UNION {OnBus(b) : b \in ReachableBuses} = S
    BY <2>2
  <2>. QED
    BY <2>3 DEF Reachable, Dev
<1>4. f \in Surjection(S, Reachable)
  BY <1>3 DEF Surjection
<1>. QED
  BY <1>2, <1>4, FS_Surjection

(* On a machine that fits, the array has room for what has not been found.  *)
LEMMA RoomLeft ==
  ASSUME TypeInv, Fits, \A v \in Found : v \in Reachable, NoRepeat(devices),
         NEW v \in Reachable, v \notin Found
  PROVE  Room
<1> DEFINE n == Len(devices)
           T == Reachable \ {v}
           f == [i \in 1..n |-> devices[i]]
<1>1. n \in Nat /\ \A i \in 1..n : devices[i] \in Found
  BY LenProperties, RangeEquality DEF TypeInv, Found
<1>2. IsFiniteSet(T) /\ Cardinality(T) = Cardinality(Reachable) - 1
      /\ Cardinality(Reachable) \in Nat
  BY ReachableFinite, FS_RemoveElement, FS_CardinalityType
<1>3. f \in Injection(1..n, T)
  BY <1>1 DEF NoRepeat, Injection, IsInjective
<1>4. Cardinality(1..n) <= Cardinality(T)
  BY <1>2, <1>3, FS_Injection
<1> HIDE DEF n
<1>5. Cardinality(1..n) = n
  <2>1. Cardinality(1..n) = IF 1 > n THEN 0 ELSE n - 1 + 1
    BY <1>1, FS_Interval
  <2>. QED
    BY <1>1, <2>1
<1>. QED
  BY <1>1, <1>2, <1>4, <1>5, SizesAssumption DEF Fits, Room, n


(* A step of the scan on a numbered machine.                                *)
LEMMA WalkStep ==
  ASSUME TypeInv, Numbered, PathInv, FoundInv, [Next]_vars
  PROVE  /\ PathInv' /\ FoundInv'
         /\ Whole(Found, Active) /\ ~ ArrayFull => Whole(Found, Active)'
<1> DEFINE sub == Range(Tail(calls))
           kept == /\ Sound(Found', Active') /\ NoRepeat(devices')
                   /\ Whole(Found, Active) /\ ~ ArrayFull => Whole(Found', Active')
<1>1. /\ Sound(Found, Active) /\ NoRepeat(devices)
      /\ machine \in [Places -> Answers] /\ devices \in Seq(Nat)
  BY DEF FoundInv, TypeInv
<1>2. machine' = machine
  BY DEF Next, Scan, Sort, NobodyHome, ArrayFull, FoundDevice, BusEnd,
         QuicksortShort, QuicksortSplit, SortEnd, KeyDown, KeyUp, vars
<1>3. SUFFICES PathInv' /\ kept
  BY <1>2, SameMachine DEF FoundInv, NoRepeat
<1> HIDE DEF kept
<1>4. ASSUME Scanning
      PROVE  /\ Active = {Top} \cup sub /\ Top \in Calls /\ Tail(calls) \in Seq(Calls)
             /\ Top.bus \in ReachableBuses /\ SeenZero(Top)
             /\ \A e \in sub : e.bus # Top.bus
             /\ Sound(Found, {Top} \cup sub)
             /\ Whole(Found, Active) <=> Whole(Found, {Top} \cup sub)
  <2>1. Active = {Top} \cup sub
    BY <1>4, TopFacts
  <2>. QED
    BY <1>1, <1>4, <2>1, TopFacts, TopDeepest, AloneOnBus
<1>5. CASE NobodyHome
  <2>1. Scanning /\ InLoop /\ Here.kind = "none" /\ devices' = devices
        /\ calls' = <<PastAbsent>> \o Tail(calls)
    BY <1>5 DEF NobodyHome, InLoop
  <2>2. /\ PastAbsent \in Calls /\ PastAbsent.bus = Top.bus /\ SeenZero(PastAbsent)
        /\ PassedNone(Top, PastAbsent)
    BY <1>4, <2>1, AbsentPassed, PastAbsentFacts
  <2>3. PathInv'
    BY <1>2, <2>1, <2>2, PathMove
  <2>4. Active' = {PastAbsent} \cup sub /\ Found' = Found
    BY <1>4, <2>1, <2>2, ConsFacts DEF Active, Found
  <2>5. kept
    BY <1>1, <1>4, <2>1, <2>2, <2>4, MoveFound DEF kept
  <2>. QED
    BY <2>3, <2>5
<1>6. CASE ArrayFull
  <2>1. Scanning /\ devices' = devices /\ calls' = Tail(calls)
    BY <1>6 DEF ArrayFull, InLoop
  <2>2. PathInv'
    BY <1>2, <2>1, PathReturn
  <2>3. Active' = sub /\ Found' = Found
    BY <2>1 DEF Active, Found
  <2>4. kept
    BY <1>1, <1>4, <1>6, <2>1, <2>3, ReturnFound DEF kept
  <2>. QED
    BY <2>2, <2>4
<1>7. CASE FoundDevice
  <2>1. /\ Scanning /\ InLoop /\ Here.kind # "none"
        /\ devices' = Append(devices, Dev(Spot))
        /\ Here = machine[Spot] /\ Dev(Spot) \in Nat
    BY <1>7, SpotFacts, DevType DEF FoundDevice, InLoop
  <2>2. /\ PastPresent \in Calls /\ PastPresent.bus = Top.bus
        /\ SeenZero(PastPresent) /\ PassedOne(Top, PastPresent, Spot)
    BY <1>4, <2>1, PresentPassed, PastPresentFacts
  <2>3. Found' = Found \cup {Dev(Spot)}
    BY <1>1, <2>1, AppendFacts DEF Found
  <2>4. Dev(Spot) \notin Found
    <3>1. Added(Found, Top, Spot)
      BY <1>1, <1>4, <2>1, <2>2, AddFacts
    <3>. QED
      BY <3>1 DEF Added
  <2>5. NoRepeat(devices')
    BY <1>1, <2>1, <2>4, NoRepeatAppend DEF Found
  <2>6. CASE Here.kind = "device"
    <3>1. calls' = <<PastPresent>> \o Tail(calls)
      BY <1>7, <2>6 DEF FoundDevice
    <3>2. PathInv'
      BY <1>2, <2>1, <2>2, <3>1, PathMove
    <3>3. Active' = {PastPresent} \cup sub
      BY <1>4, <2>1, <2>2, <3>1, ConsFacts DEF Active
    <3>4. machine[Spot].kind # "bridge"
      BY <2>1, <2>6
    <3>5. /\ Sound(Found \cup {Dev(Spot)}, {PastPresent} \cup sub)
          /\ Whole(Found, {Top} \cup sub)
               => Whole(Found \cup {Dev(Spot)}, {PastPresent} \cup sub)
      BY <1>1, <1>4, <2>1, <2>2, <3>4, AddDevice
    <3>. QED
      BY <1>4, <2>1, <2>3, <2>5, <3>2, <3>3, <3>5 DEF kept
  <2>7. CASE Here.kind = "bridge"
    <3> DEFINE new == Call(Followed, 0, 0)
    <3>1. calls' = <<new, PastPresent>> \o Tail(calls)
      BY <1>7, <2>7 DEF FoundDevice
    <3>2. /\ new.bus = machine[Spot].secondary /\ new.slot = 0 /\ new.func = 0
          /\ machine[Spot].kind = "bridge"
      BY <2>1, <2>7 DEF Call, Followed
    <3>3. /\ Spot \in Bridges(ReachableBuses) /\ Spot[1] = Top.bus
          /\ machine[Spot].secondary \in ReachableBuses
      BY <1>1, <1>4, <2>1, <2>2, <3>2, ReachableFacts DEF PassedOne, Spot
    <3>4. new.bus > Top.bus /\ new.bus \in ReachableBuses /\ new.bus \in Buses
      BY <1>1, <3>2, <3>3, ReachableFacts DEF Numbered
    <3>5. new \in Calls
      BY <3>4, SizesAssumption DEF Call, Calls, Funcs
    <3>6. SeenZero(new)
      BY <3>2 DEF SeenZero
    <3> HIDE DEF new
    <3>7. /\ <<new, PastPresent>> \o Tail(calls) = <<new>> \o (<<PastPresent>> \o Tail(calls))
          /\ Range(<<new>> \o (<<PastPresent>> \o Tail(calls)))
               = {new} \cup ({PastPresent} \cup sub)
      <4> DEFINE t == Tail(calls)
      <4>1. t \in Seq(Calls) /\ PastPresent \in Calls
        BY <1>4, <2>1, <2>2
      <4>2. /\ PushTwo(new, PastPresent, t) = Push(new, Push(PastPresent, t))
            /\ Range(Push(new, Push(PastPresent, t)))
                 = {new} \cup ({PastPresent} \cup Range(t))
        BY <3>5, <4>1, ConsTwice, PushRange
      <4>. QED
        BY <4>2 DEF Push, PushTwo
    <3>8. PathInv'
      BY <1>2, <2>1, <2>2, <3>1, <3>4, <3>5, <3>6, <3>7, PathEnter
    <3>9. Active' = {new} \cup ({PastPresent} \cup sub)
      BY <3>1, <3>7 DEF Active
    <3>10. /\ Sound(Found \cup {Dev(Spot)}, {new} \cup ({PastPresent} \cup sub))
           /\ Whole(Found, {Top} \cup sub)
                => Whole(Found \cup {Dev(Spot)}, {new} \cup ({PastPresent} \cup sub))
      BY <1>1, <1>4, <2>1, <2>2, <3>2, AddBridge
    <3>. QED
      BY <1>4, <2>1, <2>3, <2>5, <3>8, <3>9, <3>10 DEF kept
  <2>. QED
    BY <1>7, <2>6, <2>7 DEF FoundDevice
<1>8. CASE BusEnd
  <2> DEFINE c == [Top EXCEPT !.sorting = TRUE]
  <2>1. Scanning /\ devices' = devices /\ calls' = <<c>> \o Tail(calls)
    BY <1>8 DEF BusEnd
  <2>2. c \in Calls /\ c.bus = Top.bus /\ c.slot = Top.slot /\ c.func = Top.func
    BY <1>4, <2>1 DEF Calls
  <2> HIDE DEF c
  <2>3. SeenZero(c) /\ PassedNone(Top, c)
    BY <1>4, <2>1, <2>2 DEF SeenZero, PassedNone, Past
  <2>4. PathInv'
    BY <1>2, <2>1, <2>2, <2>3, PathMove
  <2>5. Active' = {c} \cup sub /\ Found' = Found
    BY <1>4, <2>1, <2>2, ConsFacts DEF Active, Found
  <2>6. kept
    BY <1>1, <1>4, <2>1, <2>3, <2>5, MoveFound DEF kept
  <2>. QED
    BY <2>4, <2>6
<1>9. CASE QuicksortSplit
  <2>1. Segment \in Segments(Len(devices)) /\ calls' = calls
    BY <1>9, UnconsFacts DEF QuicksortSplit, Segment, TypeInv
  <2>2. Rearranged(devices, devices', Segment.base, Segment.len)
    BY <1>9, SplitFacts
  <2>3. Found' = Found /\ NoRepeat(devices')
    BY <1>1, <2>1, <2>2, RearrangedFacts DEF Found, Segments
  <2>4. PathInv'
    BY <1>2, <2>1, SameMachine DEF PathInv, Active, Deeper
  <2>. QED
    BY <1>1, <2>1, <2>3, <2>4 DEF kept, Active
<1>10. CASE SortEnd
  <2>1. Scanning /\ Top.sorting /\ devices' = devices /\ calls' = Tail(calls)
    BY <1>10 DEF SortEnd
  <2>2. Active' = sub /\ Found' = Found
    BY <2>1 DEF Active, Found
  <2>3. \A p \in OnBus(Top.bus) : Past(Top, p)
    <3>1. Top.slot = SlotCount /\ Top.bus \in Buses
      BY <1>4, <2>1 DEF TypeInv, ScanEnded, Calls
    <3>2. ASSUME NEW p \in OnBus(Top.bus) PROVE p[2] < SlotCount
      <4>1. p \in Places
        BY <3>1, OnBusPlace
      <4>2. p[2] \in 0..SlotCount - 1 /\ SlotCount \in Nat
        BY <4>1, PlaceParts, SizesAssumption
      <4>. QED
        BY <4>2
    <3>. QED
      BY <3>1, <3>2 DEF Past
  <2>4. PathInv'
    BY <1>2, <2>1, PathReturn
  <2>5. /\ Sound(Found, sub)
        /\ Whole(Found, {Top} \cup sub) => Whole(Found, sub)
    BY <1>4, <2>1, <2>3, ReturnFound
  <2>6. kept
    BY <1>1, <1>4, <2>1, <2>2, <2>5 DEF kept
  <2>. QED
    BY <2>4, <2>6
<1>11. CASE QuicksortShort \/ KeyDown \/ KeyUp \/ UNCHANGED vars
  <2>1. devices' = devices /\ calls' = calls
    BY <1>11 DEF QuicksortShort, KeyDown, KeyUp, vars
  <2>2. PathInv'
    BY <1>2, <2>1, SameMachine DEF PathInv, Active, Deeper
  <2>. QED
    BY <1>1, <2>1, <2>2 DEF kept, Active, Found
<1>. QED
  BY <1>5, <1>6, <1>7, <1>8, <1>9, <1>10, <1>11 DEF Next, Scan, Sort


-----------------------------------------------------------------------------
(* The order of the list.                                                   *)

(* The quicksort calls a split makes keep the segments in their order.      *)
LEMMA SplitSegments ==
  ASSUME TypeInv, SortInv, segments # <<>>, Len(devices') = Len(devices),
         NEW first \in Segments(Len(devices)), NEW second \in Segments(Len(devices)),
         segments' = <<first, second>> \o Tail(segments),
         first.base = Segment.base, first.base + first.len = second.base,
         second.base + second.len = Segment.base + Segment.len
  PROVE  /\ Ordered(segments, Before)'
         /\ Range(segments') = {first} \cup ({second} \cup Range(Tail(segments)))
         /\ \A seg \in Range(Tail(segments)) : Segment.base + Segment.len <= seg.base
<1> DEFINE S == Segments(Len(devices))
           t == Tail(segments)
           rest == Push(second, t)
<1>1. /\ t \in Seq(S) /\ Segment \in S /\ Ordered(t, Before)
      /\ \A seg \in Range(t) : <<Segment, seg>> \in Before
  BY UnconsFacts, OrderedTail DEF TypeInv, SortInv, Segment
<1>2. \A seg \in Range(t) : seg \in S /\ Segment.base + Segment.len <= seg.base
  BY <1>1 DEF Before
<1>3. segments' = Push(first, rest)
  BY <1>1, ConsTwice DEF Push, PushTwo
<1> HIDE DEF t
<1>4. rest \in Seq(S) /\ Range(rest) = {second} \cup Range(t)
  BY <1>1, PushRange
<1>5. Range(segments') = {first} \cup ({second} \cup Range(t))
  BY <1>3, <1>4, PushRange
<1>6. \A seg \in Range(t) : <<second, seg>> \in Before
  BY <1>2 DEF Before
<1>7. Ordered(rest, Before)
  BY <1>1, <1>6, OrderedCons DEF Push
<1>8. \A seg \in Range(rest) : <<first, seg>> \in Before
  <2>1. <<first, second>> \in Before
    BY DEF Before, Segments
  <2>2. first.base + first.len <= second.base + second.len
    BY DEF Segments
  <2>3. ASSUME NEW seg \in Range(t) PROVE <<first, seg>> \in Before
    <3>1. /\ seg \in S /\ first \in S /\ second \in S
          /\ second.base + second.len <= seg.base
      BY <1>2
    <3>2. first.base + first.len <= seg.base
      BY <2>2, <3>1 DEF Segments
    <3>. QED
      BY <3>1, <3>2 DEF Before
  <2>. QED
    BY <1>4, <2>1, <2>3
<1> HIDE DEF rest
<1>9. Ordered(segments', Before)
  BY <1>3, <1>4, <1>7, <1>8, OrderedCons DEF Push
<1>10. Before' = Before
  BY Zenon DEF Before
<1>11. Ordered(segments, Before)'
  BY <1>9, <1>10, Zenon DEF Ordered
<1>. QED
  BY <1>2, <1>5, <1>11, Zenon DEF t

(* The split keeps all entries in order that are not in one of its parts.   *)
LEMMA SplitSort ==
  ASSUME TypeInv, SortInv, QuicksortSplit
  PROVE  SortInv'
<1>1. PICK first \in Segments(Len(devices)), second \in Segments(Len(devices)) :
        /\ segments' = <<first, second>> \o Tail(segments)
        /\ devices' \in Seq(Nat) /\ Len(devices') = Len(devices)
        /\ Rearranged(devices, devices', Segment.base, Segment.len)
        /\ first.base = Segment.base
        /\ first.base + first.len = second.base
        /\ second.base + second.len = Segment.base + Segment.len
        /\ \A i \in first.base + 1..second.base :
             \A j \in second.base + 1..second.base + second.len :
               devices'[i] < devices'[j]
  BY SplitFacts
<1>2. segments # <<>> /\ calls' = calls /\ Scanning /\ Top.sorting
  BY DEF QuicksortSplit, TypeInv
<1> DEFINE sub == Range(Tail(segments))
           part == Segment.base + 1..Segment.base + Segment.len
           n == Len(devices)
<1>3. /\ Ordered(segments, Before)'
      /\ Range(segments') = {first} \cup ({second} \cup sub)
      /\ \A seg \in sub : Segment.base + Segment.len <= seg.base
  BY <1>1, <1>2, SplitSegments
<1>4. /\ Segment \in Segments(n) /\ Range(segments) = {Segment} \cup sub
      /\ Tail(segments) \in Seq(Segments(n)) /\ n \in Nat
  BY <1>2, UnconsFacts, LenProperties DEF TypeInv, Segment
<1>5. \A seg \in sub : seg \in Segments(n)
  BY <1>4, RangeEquality, ElementOfSeq
<1>6. \A i, j \in 1..n :
        i < j => \/ devices[i] < devices[j]
                 \/ \E seg \in Range(segments) : Within(seg, i, j)
  BY <1>2 DEF SortInv
<1> DEFINE b == Segment.base
           m == second.base
           e == Segment.base + Segment.len
<1>7. /\ b \in Nat /\ m \in Nat /\ e \in Nat /\ b <= m /\ m <= e /\ e <= n
      /\ first.base = b /\ first.base + first.len = m
      /\ second.base = m /\ second.base + second.len = e
      /\ part = b + 1..e /\ n \in Nat
  <2>1. /\ Segment.base \in Nat /\ Segment.len \in Nat /\ Segment.base + Segment.len <= n
        /\ first.len \in Nat /\ second.base \in Nat /\ second.len \in Nat
    BY <1>4 DEF Segments
  <2>. QED
    BY <1>1, <1>4, <2>1, SMTT(20)
<1>8. /\ \A i \in b + 1..m : \A j \in m + 1..e : devices'[i] < devices'[j]
      /\ \A i \in 1..n : i \notin part => devices'[i] = devices[i]
      /\ \A i \in part : \E k \in part : devices'[i] = devices[k]
  BY <1>1 DEF Rearranged
<1>9. /\ \A i, j : Within(Segment, i, j) <=> b < i /\ j <= e
      /\ \A i, j : Within(first, i, j) <=> b < i /\ j <= m
      /\ \A i, j : Within(second, i, j) <=> m < i /\ j <= e
  BY <1>7 DEF Within
<1>10. \A seg \in sub : \A i, j \in 1..n :
         Within(seg, i, j) => e < i /\ Within(seg, i, j)
  <2>1. \A seg \in sub : seg.base \in Nat /\ e <= seg.base
    BY <1>3, <1>5 DEF Segments
  <2>. QED
    BY <1>7, <2>1 DEF Within
<1> HIDE DEF sub, part, n, b, m, e
<1>11. \A i \in 1..n : i \in Int /\ 1 <= i /\ i <= n /\ (i \in part <=> b < i /\ i <= e)
  BY <1>7
<1>12. \A i \in part : i \in 1..n /\ b < i /\ i <= e
  BY <1>7
<1>13. ASSUME NEW i \in 1..n, NEW j \in 1..n, i < j
       PROVE  \/ devices'[i] < devices'[j]
              \/ \E seg \in Range(segments') : Within(seg, i, j)
  <2>1. CASE i \in part /\ j \in part
    <3>1. CASE j <= m
      <4>1. Within(first, i, j)
        BY <1>7, <1>9, <2>1, <3>1
      <4>. QED
        BY <1>3, <4>1
    <3>2. CASE m < i
      <4>1. Within(second, i, j)
        BY <1>7, <1>9, <2>1, <3>2
      <4>. QED
        BY <1>3, <4>1
    <3>3. CASE i <= m /\ m < j
      <4>1. i \in b + 1..m /\ j \in m + 1..e
        BY <1>7, <2>1, <3>3
      <4>. QED
        BY <1>8, <4>1
    <3>. QED
      BY <1>4, <1>7, <3>1, <3>2, <3>3 DEF n
  <2>2. CASE i \notin part /\ j \notin part
    <3>1. devices'[i] = devices[i] /\ devices'[j] = devices[j]
      BY <1>8, <2>2
    <3>2. ~ Within(Segment, i, j)
      BY <1>7, <1>9, <1>13, <2>2
    <3>. QED
      BY <1>3, <1>4, <1>6, <1>13, <3>1, <3>2
  <2>3. CASE i \notin part /\ j \in part
    <3>1. PICK k \in part : devices'[j] = devices[k]
      BY <1>8, <2>3
    <3>2. k \in 1..n /\ i < k /\ i <= b
      BY <1>7, <1>13, <1>11, <1>12, <2>3, <3>1
    <3>3. ~ \E seg \in Range(segments) : Within(seg, i, k)
      BY <1>4, <1>7, <1>9, <1>10, <3>2
    <3>4. devices[i] < devices[k]
      BY <1>6, <3>2, <3>3
    <3>. QED
      BY <1>8, <2>3, <3>1, <3>4
  <2>4. CASE i \in part /\ j \notin part
    <3>1. PICK k \in part : devices'[i] = devices[k]
      BY <1>8, <2>4
    <3>2. k \in 1..n /\ k < j /\ e < j /\ k <= e
      BY <1>7, <1>13, <1>11, <1>12, <2>4, <3>1
    <3>3. ~ \E seg \in Range(segments) : Within(seg, k, j)
      BY <1>4, <1>7, <1>9, <1>10, <3>2
    <3>4. devices[k] < devices[j]
      BY <1>6, <3>2, <3>3
    <3>. QED
      BY <1>8, <2>4, <3>1, <3>4
  <2>. QED
    BY <2>1, <2>2, <2>3, <2>4
<1>14. Len(devices') = n
  BY <1>1 DEF n
<1>. QED
  BY <1>3, <1>13, <1>14 DEF SortInv


(* The list is sorted from the end of the innermost bus to the end of its   *)
(* last quicksort call, and stays so once the scan is over.                 *)
LEMMA SortStep ==
  ASSUME TypeInv, SortInv, [Next]_vars, ~ ArrayFull
  PROVE  SortInv'
<1>1. /\ devices \in Seq(Nat) /\ Len(devices) \in Nat
      /\ segments \in Seq(Segments(Len(devices)))
  BY LenProperties DEF TypeInv
(* The scan goes on: nothing is said of the order. *)
<1>2. CASE NobodyHome \/ FoundDevice
  <2>1. Scanning /\ InLoop /\ segments' = segments
    BY <1>2 DEF NobodyHome, FoundDevice, InLoop
  <2>2. segments = <<>> /\ Tail(calls) \in Seq(Calls)
    BY <2>1, TopFacts DEF InLoop, TypeInv
  <2>3. Scanning' /\ ~ Top'.sorting
    <3>1. CASE NobodyHome
      BY <2>1, <3>1, PastAbsentFacts, TypeMove DEF NobodyHome, Loops
    <3>2. CASE FoundDevice
      <4>1. PastPresent \in Loops
        BY <2>1, <3>2, PastPresentFacts DEF FoundDevice, Loops
      <4>2. CASE Here.kind = "device"
        BY <2>1, <3>2, <4>1, <4>2, TypeMove DEF FoundDevice
      <4>3. CASE Here.kind = "bridge"
        <5> DEFINE new == Call(Followed, 0, 0)
        <5>1. calls' = PushTwo(new, PastPresent, Tail(calls)) /\ ~ new.sorting
          BY <3>2, <4>3 DEF FoundDevice, PushTwo, Call
        <5>2. new \in Calls /\ PastPresent \in Calls
          BY <3>2, <4>1, SpotFacts, SizesAssumption
             DEF FoundDevice, Followed, Answers, Call, Calls, Funcs, Loops
        <5> HIDE DEF new
        <5>3. calls' = Push(new, Push(PastPresent, Tail(calls)))
          BY <2>2, <5>1, <5>2, ConsTwice
        <5>4. Push(PastPresent, Tail(calls)) \in Seq(Calls)
          BY <2>2, <5>2, PushRange
        <5>5. calls' # <<>> /\ Head(calls') = new
          BY <5>2, <5>3, <5>4, ConsFacts DEF Push
        <5>. QED
          BY <5>1, <5>5 DEF Scanning, Top
      <4>. QED
        BY <3>2, <4>2, <4>3 DEF FoundDevice
    <3>. QED
      BY <1>2, <3>1, <3>2
  <2>4. segments' = <<>>
    BY <2>1, <2>2
  <2>. QED
    BY <2>3, <2>4 DEF SortInv, Ordered
(* The end of a bus: one segment is the whole list. *)
<1>3. CASE BusEnd
  <2> DEFINE seg == [base |-> 0, len |-> Len(devices)]
  <2>1. segments' = <<seg>> /\ devices' = devices
    BY <1>3 DEF BusEnd
  <2>2. seg.base = 0 /\ seg.len = Len(devices)
    OBVIOUS
  <2> HIDE DEF seg
  <2>3. Range(segments') = {seg} /\ Len(segments') = 1
    BY <2>1, OneElement
  <2>4. \A i, j \in 1..Len(devices') : Within(seg, i, j)
    BY <1>1, <2>1, <2>2 DEF Within
  <2>5. Ordered(segments, Before)'
    BY <2>3 DEF Ordered
  <2>. QED
    BY <2>3, <2>4, <2>5 DEF SortInv
(* A call on one entry or none holds no two of them. *)
<1>4. CASE QuicksortShort
  <2>1. /\ segments # <<>> /\ Segment.len <= 1 /\ segments' = Tail(segments)
        /\ UNCHANGED <<devices, calls>> /\ Scanning /\ Top.sorting
    BY <1>4 DEF QuicksortShort, TypeInv
  <2>2. /\ Segment \in Segments(Len(devices))
        /\ Range(segments) = {Segment} \cup Range(segments')
        /\ Ordered(segments', Before)
    BY <1>1, <2>1, UnconsFacts, OrderedTail DEF Segment, SortInv
  <2>3. ASSUME NEW i \in 1..Len(devices), NEW j \in 1..Len(devices), i < j
        PROVE  \/ devices[i] < devices[j]
               \/ \E seg \in Range(segments') : Within(seg, i, j)
    <3>1. ~ Within(Segment, i, j)
      BY <2>1, <2>2, <2>3 DEF Segments, Within
    <3>. QED
      BY <2>1, <2>2, <2>3, <3>1 DEF SortInv
  <2>4. Ordered(segments, Before)'
    BY <2>1, <2>2 DEF Before
  <2>. QED
    BY <2>1, <2>3, <2>4 DEF SortInv
<1>5. CASE QuicksortSplit
  BY <1>5, SplitSort
(* The last call has returned: no segment is left. *)
<1>6. CASE SortEnd
  <2>1. /\ segments = <<>> /\ UNCHANGED <<devices, segments>>
        /\ Scanning /\ Top.sorting
    BY <1>6 DEF SortEnd
  <2>. QED
    BY <2>1 DEF SortInv, Ordered
<1>7. CASE KeyDown \/ KeyUp \/ UNCHANGED vars
  BY <1>7 DEF KeyDown, KeyUp, vars, SortInv, Before, Top, Scanning
<1>. QED
  BY <1>2, <1>3, <1>4, <1>5, <1>6, <1>7 DEF Next, Scan, Sort


-----------------------------------------------------------------------------
(* The invariant of the scan.                                               *)

LEMMA ScanInit == Init => ScanInv
<1>. SUFFICES ASSUME Init, Numbered PROVE PathInv /\ FoundInv /\ Whole(Found, Active) /\ SortInv
  BY DEF ScanInv
<1> DEFINE c == Call(0, 0, 0)
<1>1. /\ calls = <<c>> /\ devices = <<>> /\ segments = <<>>
      /\ machine \in [Places -> Answers]
  BY MachinesAssumption DEF Init
<1>2. /\ c.bus = 0 /\ c.slot = 0 /\ c.func = 0 /\ ~ c.sorting /\ c \in Calls
  BY SizesAssumption DEF Call, Calls, Funcs
<1> HIDE DEF c
<1>3. Active = {c} /\ Len(calls) = 1 /\ Head(calls) = c
  BY <1>1, <1>2, OneElement DEF Active
<1>4. devices \in Seq(Nat) /\ Len(devices) = 0 /\ Len(segments) = 0
  BY <1>1
<1>5. Found = {}
  BY <1>4, EmptyRange DEF Found
<1>6. 0 \in ReachableBuses /\ ReachableBuses \subseteq Buses
  BY <1>1, ReachableFacts
<1>7. PathInv
  BY <1>2, <1>3, <1>6 DEF PathInv, OnPath, SeenZero, Ordered
<1>8. FoundInv
  BY <1>2, <1>3, <1>4, <1>5 DEF FoundInv, Sound, NoRepeat, Entered
<1>9. Whole(Found, Active)
  <2>1. \A p \in OnBus(0) : ~ Past(c, p)
    <3>1. \A p \in OnBus(0) : p[2] \in Nat /\ p[3] \in Nat
      BY <1>6, OnBusPlace
    <3>. QED
      BY <1>2, <3>1 DEF Past
  <2>2. \A b : Entered(Found, b) => b = 0
    BY <1>5 DEF Entered
  <2>. QED
    BY <1>2, <1>3, <2>1, <2>2 DEF Whole
<1>10. SortInv
  BY <1>4 DEF SortInv, Ordered
<1>. QED
  BY <1>7, <1>8, <1>9, <1>10

(* On a machine that fits, the array is never found full.                   *)
LEMMA NeverFull ==
  ASSUME TypeInv, Numbered, PathInv, FoundInv, Fits
  PROVE  ~ ArrayFull
<1>. SUFFICES ASSUME ArrayFull PROVE FALSE
  OBVIOUS
<1>1. /\ InLoop /\ Scanning /\ Here.kind # "none" /\ ~ Room
      /\ machine \in [Places -> Answers]
  BY DEF ArrayFull, InLoop, TypeInv
<1>2. /\ Top.bus \in ReachableBuses /\ SeenZero(Top)
      /\ Sound(Found, {Top} \cup Range(Tail(calls)))
  BY <1>1, TopDeepest, TopFacts DEF FoundInv
<1>3. PassedOne(Top, PastPresent, Spot)
  BY <1>1, <1>2, PresentPassed
<1>4. Added(Found, Top, Spot)
  BY <1>1, <1>2, <1>3, AddFacts
<1>5. Dev(Spot) \in Reachable /\ Dev(Spot) \notin Found
  BY <1>2, <1>3, <1>4 DEF Added, PassedOne, Reachable, Dev
<1>6. \A v \in Found : v \in Reachable
  BY DEF FoundInv, Sound, Reachable, Dev
<1>. QED
  BY <1>1, <1>5, <1>6, RoomLeft DEF FoundInv

LEMMA ScanStep == TypeInv /\ ScanInv /\ [Next]_vars => ScanInv'
<1>. SUFFICES ASSUME TypeInv, ScanInv, [Next]_vars, Numbered'
              PROVE  /\ PathInv' /\ FoundInv'
                     /\ Fits' => Whole(Found, Active)' /\ SortInv'
  BY DEF ScanInv
<1>1. machine' = machine
  BY DEF Next, Scan, Sort, NobodyHome, ArrayFull, FoundDevice, BusEnd,
         QuicksortShort, QuicksortSplit, SortEnd, KeyDown, KeyUp, vars
<1>2. Numbered /\ (Fits' => Fits)
  BY <1>1, SameMachine DEF Fits
<1>3. PathInv /\ FoundInv /\ (Fits => Whole(Found, Active) /\ SortInv)
  BY <1>2 DEF ScanInv
<1>4. PathInv' /\ FoundInv' /\ (Whole(Found, Active) /\ ~ ArrayFull => Whole(Found, Active)')
  BY <1>2, <1>3, WalkStep
<1>5. ASSUME Fits' PROVE Whole(Found, Active)' /\ SortInv'
  <2>1. ~ ArrayFull
    BY <1>2, <1>3, <1>5, NeverFull
  <2>. QED
    BY <1>2, <1>3, <1>4, <1>5, <2>1, SortStep
<1>. QED
  BY <1>4, <1>5

LEMMA ScanInvariant == Spec => []ScanInv
  BY TypeInvariant, ScanInit, ScanStep, PTL DEF Spec

(* What is listed answers a configuration read, and is listed once: on any  *)
(* numbered machine, at any point of the scan and of the sorts, also when   *)
(* the array is too small for it.                                           *)
THEOREM ListedOnce == Spec => []NothingTwice
<1>1. TypeInv /\ ScanInv => NothingTwice
  <2>. SUFFICES ASSUME TypeInv, ScanInv, Numbered
                PROVE  /\ {devices[i] : i \in 1..Len(devices)} \subseteq Reachable
                       /\ NoRepeat(devices)
    BY DEF NothingTwice, NoRepeat
  <2>1. Found = {devices[i] : i \in 1..Len(devices)}
    BY RangeEquality DEF Found, TypeInv
  <2>2. \A v \in Found : v \in Reachable
    BY DEF ScanInv, FoundInv, Sound, Reachable, Dev
  <2>. QED
    BY <2>1, <2>2 DEF ScanInv, FoundInv
<1>. QED
  BY <1>1, TypeInvariant, ScanInvariant, PTL

(* Every bus that can be reached has been entered once no call is active:   *)
(* the entered ones are closed under the bridges.                           *)
LEMMA AllFound ==
  ASSUME machine \in [Places -> Answers], NEW found, Whole(found, {})
  PROVE  \A v \in Reachable : v \in found
<1> DEFINE bs == {b \in ReachableBuses : Entered(found, b)}
<1>1. \A b \in bs : \A p \in OnBus(b) : Dev(p) \in found
  BY DEF Whole
<1>2. 0 \in bs /\ bs \subseteq Buses
  BY ReachableFacts DEF Entered
<1>3. ASSUME NEW p \in Bridges(bs) PROVE machine[p].secondary \in bs
  <2>1. PICK b \in bs : p \in OnBus(b) /\ machine[p].kind = "bridge"
    BY DEF Bridges
  <2>2. /\ p \in Bridges(ReachableBuses) /\ machine[p].secondary \in ReachableBuses
        /\ Dev(p) \in found
    BY <1>1, <2>1, ReachableFacts
  <2>3. Entered(found, machine[p].secondary)
    BY <2>2 DEF Entered
  <2>. QED
    BY <2>2, <2>3
<1> HIDE DEF bs
<1>4. bs \in ClosedSets
  BY <1>2, <1>3 DEF ClosedSets
<1>5. \A b \in ReachableBuses : b \in bs
  BY <1>4 DEF ReachableBuses
<1>. QED
  BY <1>1, <1>5 DEF Reachable, Dev

(* On a numbered machine whose functions fit in the array, the user gets    *)
(* the list of all of them, in order.                                       *)
THEOREM ListComplete == Spec => []ListIsComplete
<1>1. TypeInv /\ ScanInv => ListIsComplete
  <2>. SUFFICES ASSUME TypeInv, ScanInv, Browsing, Numbered, Fits
                PROVE  /\ {devices[i] : i \in 1..Len(devices)} = Reachable
                       /\ SortedFrom(devices)
    BY DEF ListIsComplete, Fits
  <2>1. /\ Found = {devices[i] : i \in 1..Len(devices)}
        /\ machine \in [Places -> Answers]
    BY RangeEquality DEF Found, TypeInv
  <2>2. Sound(Found, Active) /\ Whole(Found, Active) /\ SortInv
    BY DEF ScanInv, FoundInv
  <2>3. calls \in Seq(Calls) /\ Len(calls) = 0 /\ ~ Scanning
        /\ segments \in Seq(Segments(Len(devices))) /\ Len(segments) = 0
    BY DEF Browsing, Scanning, TypeInv
  <2>4. Active = {} /\ Range(segments) = {}
    BY <2>3, EmptyRange DEF Active
  <2>5. \A v \in Found : v \in Reachable
    BY <2>2 DEF Sound, Reachable, Dev
  <2>6. \A v \in Reachable : v \in Found
    BY <2>1, <2>2, <2>4, AllFound
  <2>7. SortedFrom(devices)
    BY <2>2, <2>3, <2>4 DEF SortInv, SortedFrom
  <2>. QED
    BY <2>1, <2>5, <2>6, <2>7
<1>. QED
  BY <1>1, TypeInvariant, ScanInvariant, PTL

=============================================================================
