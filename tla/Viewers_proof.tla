----------------------------- MODULE Viewers_proof -----------------------------
(***************************************************************************)
(* Proofs about Viewers, for every machine, text, image and table of the   *)
(* types MachinesAssumption names.                                         *)
(*                                                                         *)
(* The modules share nothing but the stage, so the invariant Inv is one    *)
(* part per module: what CbfsList_proof needs of a walk, what ViewFits     *)
(* says of a log's top line, what TabInv says of the tables read so far.   *)
(* StagePart ties them together: which inits have run.  NothingIsCut and   *)
(* FactsStay follow from what one call does, once the folds over a text    *)
(* are split at the end of a part of it (GlyphsOfConcat, PutKeeps).        *)
(***************************************************************************)
EXTENDS Viewers, CbfsList_proof

-----------------------------------------------------------------------------
(* The texts of the log views.                                              *)

LEMMA CharWidth ==
  ASSUME NEW c \in Chars, NEW n \in Nat
  PROVE  /\ char_width(c, n) \in Nat
         /\ c \in Glyphs => char_width(c, n) = 1
<1>1. n % ScreenX \in 0..ScreenX - 1 /\ ScreenX \in Nat
  BY ScreenAssumption
<1>2. CASE c = "newline"
  BY <1>1, <1>2, GlyphsAssumption DEF char_width
<1>3. CASE c = "tab"
  BY <1>3, GlyphsAssumption DEF char_width, TabWidth
<1>4. CASE c \in Glyphs \cup {Blank}
  BY <1>4, GlyphsAssumption DEF char_width, Blank
<1>5. CASE c = "other"
  BY <1>5, GlyphsAssumption DEF char_width, Blank
<1>. QED
  BY <1>2, <1>3, <1>4, <1>5 DEF Chars

LEMMA CharAt ==
  ASSUME NEW str \in Seq(Chars)
  PROVE  Len(str) \in Nat /\ \A k \in 1..Len(str) : str[k] \in Chars
  BY LenProperties, ElementOfSeq

(* CellsTo is what its equation says. *)
LEMMA CellsEquation ==
  ASSUME NEW str \in Seq(Chars)
  PROVE  /\ CellsTo(str) \in [0..Len(str) -> Nat]
         /\ CellsTo(str)[0] = 0
         /\ \A k \in 1..Len(str) :
              CellsTo(str)[k] = CellsTo(str)[k - 1] + char_width(str[k], CellsTo(str)[k - 1])
<1> DEFINE n == Len(str)
           F == [x \in Nat \X (1..n) |-> CountedWith(x[1], str[x[2]])]
           Eq(t) == t = [k \in 0..n |-> IF k = 0 THEN 0 ELSE CountedWith(t[k - 1], str[k])]
<1>1. n \in Nat /\ \A k \in 1..n : str[k] \in Chars
  BY CharAt
<1> HIDE DEF n
<1>2. F \in [Nat \X (1..n) -> Nat]
  <2>1. \A c \in Nat, i \in 1..n : CountedWith(c, str[i]) \in Nat
    <3>1. TAKE c \in Nat, i \in 1..n
    <3>2. char_width(str[i], c) \in Nat
      BY <1>1, CharWidth
    <3>. QED
      BY <3>2 DEF CountedWith
  <2>. QED
    BY <2>1
<1>3. \A c \in Nat, i \in 1..n : F[<<c, i>>] = CountedWith(c, str[i])
  OBVIOUS
<1> HIDE DEF F
<1>4. PICK t : Iteration(Nat, 0, n, F, t)
  <2>1. HasIteration(Nat, 0, n, F)
    BY <1>1, <1>2, Iterated
  <2>. QED
    BY <2>1 DEF HasIteration
<1>5. \A i \in 1..n : t[i - 1] \in Nat /\ t[i] = CountedWith(t[i - 1], str[i])
  <2>1. TAKE i \in 1..n
  <2>2. i - 1 \in 0..n
    BY <1>1
  <2>. QED
    BY <1>3, <1>4, <2>2 DEF Iteration
<1>6. Eq(t)
  <2> DEFINE v == [k \in 0..n |-> IF k = 0 THEN 0 ELSE CountedWith(t[k - 1], str[k])]
  <2>1. \A k \in 0..n : t[k] = v[k]
    <3>1. TAKE k \in 0..n
    <3>2. CASE k = 0
      BY <1>4, <3>2 DEF Iteration
    <3>3. CASE k # 0
      <4>1. k \in 1..n
        BY <1>1, <3>3
      <4>. QED
        BY <1>5, <3>3, <4>1
    <3>. QED
      BY <3>2, <3>3
  <2>2. t = v
    BY <1>4, <2>1 DEF Iteration
  <2>. QED
    BY <2>2
<1>7. Eq(CellsTo(str))
  <2> HIDE DEF Eq
  <2>1. CellsTo(str) = CHOOSE u : Eq(u)
    BY DEF CellsTo, Eq, n
  <2>. QED
    BY <1>6, <2>1
<1> DEFINE u == CellsTo(str)
<1> HIDE DEF u
<1>8. Eq(u)
  BY <1>7 DEF u
<1>9. u[0] = 0 /\ \A k \in 1..n : u[k] = CountedWith(u[k - 1], str[k])
  BY <1>1, <1>8
<1>10. \A k \in 0..n : u[k] \in Nat
  <2> DEFINE T == {k \in 0..n : u[k] \in Nat}
  <2>1. 0 \in T
    BY <1>1, <1>9
  <2>2. \A k \in 0..n - 1 : k \in T => k + 1 \in T
    <3>1. TAKE k \in 0..n - 1
    <3>2. HAVE k \in T
    <3>3. u[k] \in Nat /\ k + 1 \in 1..n /\ (k + 1) - 1 = k
      BY <1>1, <3>2
    <3>4. u[k + 1] = u[k] + char_width(str[k + 1], u[k])
      BY <1>9, <3>3 DEF CountedWith
    <3>5. char_width(str[k + 1], u[k]) \in Nat
      BY <1>1, <3>3, CharWidth
    <3>. QED
      BY <3>3, <3>4, <3>5
  <2> HIDE DEF T
  <2>3. \A k \in 0..n : k \in T
    BY <1>1, <2>1, <2>2, BoundedInduction
  <2>. QED
    BY <2>3 DEF T
<1>11. u \in [0..n -> Nat]
  BY <1>8, <1>10
<1>. QED
  BY <1>9, <1>11 DEF u, n, CountedWith

LEMMA CellsGrow ==
  ASSUME NEW str \in Seq(Chars)
  PROVE  \A k \in 0..Len(str) : CellsTo(str)[k] <= Cells(str)
<1> DEFINE n == Len(str)
           u == CellsTo(str)
<1>1. /\ n \in Nat /\ \A k \in 1..n : str[k] \in Chars
      /\ u \in [0..n -> Nat]
      /\ \A k \in 1..n : u[k] = u[k - 1] + char_width(str[k], u[k - 1])
  BY CharAt, CellsEquation
<1>2. SUFFICES ASSUME NEW k \in 0..n PROVE u[k] <= u[n]
  BY DEF Cells
<1> HIDE DEF n, u
<1> DEFINE T == {j \in 0..n - k : u[k] <= u[k + j]}
<1>3. 0 \in T
  BY <1>1
<1>4. \A j \in 0..(n - k) - 1 : j \in T => j + 1 \in T
  <2>1. TAKE j \in 0..(n - k) - 1
  <2>2. HAVE j \in T
  <2>3. /\ k + (j + 1) \in 1..n /\ (k + (j + 1)) - 1 = k + j /\ k + j \in 0..n
        /\ j + 1 \in 0..n - k
    BY <1>1
  <2>4. u[k] \in Nat /\ u[k + j] \in Nat /\ u[k] <= u[k + j]
    BY <1>1, <2>2, <2>3
  <2>5. u[k + (j + 1)] = u[k + j] + char_width(str[k + (j + 1)], u[k + j])
    BY <1>1, <2>3
  <2>6. char_width(str[k + (j + 1)], u[k + j]) \in Nat
    BY <1>1, <2>3, <2>4, CharWidth
  <2>. QED
    BY <2>3, <2>4, <2>5, <2>6
<1>5. n - k \in Nat /\ n - k \in 0..n - k /\ k + (n - k) = n
  BY <1>1
<1> HIDE DEF T
<1>6. n - k \in T
  BY <1>3, <1>4, <1>5, BoundedInduction
<1>. QED
  BY <1>5, <1>6 DEF T


LEMMA BlanksFacts ==
  ASSUME NEW n \in Nat
  PROVE  /\ Blanks(n) \in Seq(Chars) /\ Len(Blanks(n)) = n
         /\ \A k \in 1..n : Blanks(n)[k] = Blank
<1>1. Blank \in Chars
  BY DEF Chars
<1>2. Blanks(n) \in [1..n -> Chars]
  BY <1>1 DEF Blanks
<1>3. Blanks(n) \in Seq(Chars)
  BY <1>2, SeqDef
<1>4. Len(Blanks(n)) = n
  <2>1. DOMAIN Blanks(n) = 1..n /\ DOMAIN Blanks(n) = 1..Len(Blanks(n)) /\ Len(Blanks(n)) \in Nat
    BY <1>2, <1>3, LenProperties
  <2>. QED
    BY <2>1
<1>. QED
  BY <1>3, <1>4 DEF Blanks

(* The cells that a character is put in, if they fit. *)
Wide(out, c, n) == Len(out) + char_width(c, Len(out)) <= n

LEMMA PutFacts ==
  ASSUME NEW n \in Nat, NEW out \in Seq(Chars), Len(out) <= n, NEW c \in Chars
  PROVE  /\ Put(out, c, n) \in Seq(Chars) /\ Len(Put(out, c, n)) <= n
         /\ Wide(out, c, n) => /\ Len(Put(out, c, n)) = Len(out) + char_width(c, Len(out))
                               /\ \/ Put(out, c, n) = Append(out, c)
                                  \/ /\ c \notin Glyphs
                                     /\ \E m \in Nat : Put(out, c, n) = out \o Blanks(m)
<1> DEFINE len == Len(out)
           w == char_width(c, len)
           room == n - len
           m == IF w < room THEN w ELSE room
<1>1. len \in Nat /\ len <= n
  BY LenProperties
<1>2. w \in Nat /\ (c \in Glyphs => w = 1)
  BY <1>1, CharWidth
<1>3. room \in Nat
  BY <1>1
<1>4. Put(out, c, n) = IF w = 1 /\ room > 0 THEN Append(out, c) ELSE out \o Blanks(m)
  BY DEF Put
<1>5. Wide(out, c, n) <=> len + w <= n
  BY DEF Wide
<1> HIDE DEF w
<1>6. m \in Nat /\ m <= room /\ (w <= room => m = w)
  BY <1>2, <1>3
<1>7. CASE w = 1 /\ room > 0
  <2>1. Append(out, c) \in Seq(Chars) /\ Len(Append(out, c)) = len + 1
    BY AppendProperties
  <2>2. len + 1 <= n
    BY <1>1, <1>7
  <2>. QED
    BY <1>4, <1>5, <1>7, <2>1, <2>2 DEF w
<1>8. CASE ~(w = 1 /\ room > 0)
  <2> HIDE DEF m
  <2> DEFINE b == Blanks(m)
  <2>1. b \in Seq(Chars) /\ Len(b) = m
    BY <1>6, BlanksFacts
  <2> HIDE DEF b
  <2>2. out \o b \in Seq(Chars) /\ Len(out \o b) = len + m
    BY <2>1, ConcatProperties
  <2>3. len + m <= n
    BY <1>1, <1>6
  <2>4. len + w <= n => m = w /\ w <= room
    BY <1>1, <1>2, <1>6
  <2>5. len + w <= n => c \notin Glyphs
    BY <1>1, <1>2, <1>3, <1>8, <2>4
  <2>6. Put(out, c, n) = out \o b /\ \E k \in Nat : Put(out, c, n) = out \o Blanks(k)
    BY <1>4, <1>6, <1>8 DEF b
  <2>. QED
    BY <1>5, <2>2, <2>3, <2>4, <2>5, <2>6 DEF w
<1>. QED
  BY <1>7, <1>8

(* Texts that fit in n cells. *)
Fitting(n) == {s \in Seq(Chars) : Len(s) <= n}

(* PutTo is what its equation says. *)
LEMMA PutEquation ==
  ASSUME NEW str \in Seq(Chars), NEW len \in Nat
  PROVE  /\ PutTo(str, len) \in [0..Len(str) -> Fitting(len)]
         /\ PutTo(str, len)[0] = <<>>
         /\ \A k \in 1..Len(str) :
              PutTo(str, len)[k] = Put(PutTo(str, len)[k - 1], str[k], len)
<1> DEFINE n == Len(str)
           S == Fitting(len)
           F == [x \in S \X (1..n) |-> Put(x[1], str[x[2]], len)]
           Eq(t) == t = [k \in 0..n |-> IF k = 0 THEN <<>> ELSE Put(t[k - 1], str[k], len)]
<1>1. n \in Nat /\ \A k \in 1..n : str[k] \in Chars
  BY CharAt
<1> HIDE DEF n
<1>2. \A s \in S, i \in 1..n : Put(s, str[i], len) \in S
  BY <1>1, PutFacts DEF Fitting
<1>3. <<>> \in S
  BY EmptySeq DEF Fitting
<1> HIDE DEF S
<1>4. F \in [S \X (1..n) -> S]
  BY <1>2
<1>5. \A s \in S, i \in 1..n : F[<<s, i>>] = Put(s, str[i], len)
  OBVIOUS
<1> HIDE DEF F
<1>6. PICK t : Iteration(S, <<>>, n, F, t)
  <2>1. HasIteration(S, <<>>, n, F)
    BY <1>1, <1>3, <1>4, Iterated
  <2>. QED
    BY <2>1 DEF HasIteration
<1>7. \A i \in 1..n : t[i - 1] \in S /\ t[i] = Put(t[i - 1], str[i], len)
  <2>1. TAKE i \in 1..n
  <2>2. i - 1 \in 0..n
    BY <1>1
  <2>. QED
    BY <1>5, <1>6, <2>2 DEF Iteration
<1>8. Eq(t)
  <2> DEFINE v == [k \in 0..n |-> IF k = 0 THEN <<>> ELSE Put(t[k - 1], str[k], len)]
  <2>1. \A k \in 0..n : t[k] = v[k]
    <3>1. TAKE k \in 0..n
    <3>2. CASE k = 0
      BY <1>6, <3>2 DEF Iteration
    <3>3. CASE k # 0
      <4>1. k \in 1..n
        BY <1>1, <3>3
      <4>. QED
        BY <1>7, <3>3, <4>1
    <3>. QED
      BY <3>2, <3>3
  <2>2. t = v
    BY <1>6, <2>1 DEF Iteration
  <2>. QED
    BY <2>2
<1>9. Eq(PutTo(str, len))
  <2> HIDE DEF Eq
  <2>1. PutTo(str, len) = CHOOSE u : Eq(u)
    BY DEF PutTo, Eq, n
  <2>. QED
    BY <1>8, <2>1
<1> DEFINE u == PutTo(str, len)
<1> HIDE DEF u
<1>10. Eq(u)
  BY <1>9 DEF u
<1>11. u[0] = <<>> /\ \A k \in 1..n : u[k] = Put(u[k - 1], str[k], len)
  BY <1>1, <1>10
<1>12. \A k \in 0..n : u[k] \in S
  <2> DEFINE T == {k \in 0..n : u[k] \in S}
  <2>1. 0 \in T
    BY <1>1, <1>3, <1>11
  <2>2. \A k \in 0..n - 1 : k \in T => k + 1 \in T
    <3>1. TAKE k \in 0..n - 1
    <3>2. HAVE k \in T
    <3>3. u[k] \in S /\ k + 1 \in 1..n /\ (k + 1) - 1 = k
      BY <1>1, <3>2
    <3>4. u[k + 1] = Put(u[k], str[k + 1], len)
      BY <1>11, <3>3
    <3>. QED
      BY <1>2, <3>3, <3>4
  <2> HIDE DEF T
  <2>3. \A k \in 0..n : k \in T
    BY <1>1, <2>1, <2>2, BoundedInduction
  <2>. QED
    BY <2>3 DEF T
<1>13. u \in [0..n -> S]
  BY <1>10, <1>12
<1>. QED
  BY <1>11, <1>13 DEF u, n, S

(* If a text fits, every beginning of it takes the cells counted for it. *)
LEMMA PutLengths ==
  ASSUME NEW str \in Seq(Chars), NEW len \in Nat, Cells(str) <= len
  PROVE  \A k \in 0..Len(str) : Len(PutTo(str, len)[k]) = CellsTo(str)[k]
<1> DEFINE n == Len(str)
           u == PutTo(str, len)
           c == CellsTo(str)
           T == {k \in 0..n : Len(u[k]) = c[k]}
<1>1. /\ n \in Nat /\ \A k \in 1..n : str[k] \in Chars
      /\ \A k \in 0..n : u[k] \in Seq(Chars) /\ Len(u[k]) <= len
      /\ u[0] = <<>> /\ \A k \in 1..n : u[k] = Put(u[k - 1], str[k], len)
      /\ \A k \in 0..n : c[k] \in Nat /\ c[k] <= len
      /\ c[0] = 0 /\ \A k \in 1..n : c[k] = c[k - 1] + char_width(str[k], c[k - 1])
  <2>1. \A k \in 0..n : c[k] \in Nat /\ c[k] <= len
    <3>1. n \in Nat
      BY CharAt
    <3>2. n \in 0..n /\ Cells(str) = c[n]
      BY <3>1 DEF Cells
    <3>. QED
      BY <3>2, CellsEquation, CellsGrow
  <2>. QED
    BY <2>1, CharAt, PutEquation, CellsEquation DEF Fitting
<1> HIDE DEF n, u, c
<1>2. 0 \in T
  BY <1>1, EmptySeq
<1>3. \A k \in 0..n - 1 : k \in T => k + 1 \in T
  <2>1. TAKE k \in 0..n - 1
  <2>2. HAVE k \in T
  <2>3. k + 1 \in 1..n /\ (k + 1) - 1 = k /\ k \in 0..n /\ k + 1 \in 0..n /\ Len(u[k]) = c[k]
    <3>1. Len(u[k]) = c[k]
      BY <2>2
    <3>2. n \in Nat
      BY <1>1
    <3>. QED
      BY <3>1, <3>2
  <2>4. /\ u[k + 1] = Put(u[k], str[k + 1], len)
        /\ c[k + 1] = c[k] + char_width(str[k + 1], c[k])
    BY <1>1, <2>3
  <2>5. Wide(u[k], str[k + 1], len)
    <3>1. c[k] + char_width(str[k + 1], c[k]) <= len
      BY <1>1, <2>3, <2>4
    <3>. QED
      BY <2>3, <3>1 DEF Wide
  <2>6. Len(u[k + 1]) = Len(u[k]) + char_width(str[k + 1], Len(u[k]))
    BY <1>1, <2>3, <2>4, <2>5, PutFacts
  <2>. QED
    BY <2>3, <2>4, <2>6
<1> HIDE DEF T
<1>4. \A k \in 0..n : k \in T
  BY <1>1, <1>2, <1>3, BoundedInduction
<1>. QED
  BY <1>4 DEF T, n, u, c


-----------------------------------------------------------------------------
(* The printable characters of a text.                                      *)

LEMMA WithGlyph ==
  ASSUME NEW s \in Seq(Glyphs), NEW c
  PROVE  GlyphsWith(s, c) \in Seq(Glyphs)
  BY AppendProperties DEF GlyphsWith

(* GlyphsTo is what its equation says. *)
LEMMA GlyphsEquation ==
  ASSUME NEW str \in Seq(Chars)
  PROVE  /\ GlyphsTo(str) \in [0..Len(str) -> Seq(Glyphs)]
         /\ GlyphsTo(str)[0] = <<>>
         /\ \A k \in 1..Len(str) :
              GlyphsTo(str)[k] = GlyphsWith(GlyphsTo(str)[k - 1], str[k])
<1> DEFINE n == Len(str)
           S == Seq(Glyphs)
           F == [x \in S \X (1..n) |-> GlyphsWith(x[1], str[x[2]])]
           Eq(t) == t = [k \in 0..n |-> IF k = 0 THEN <<>> ELSE GlyphsWith(t[k - 1], str[k])]
<1>1. n \in Nat
  BY CharAt
<1> HIDE DEF n
<1>2. <<>> \in S
  BY EmptySeq
<1>3. \A s \in S, i \in 1..n : GlyphsWith(s, str[i]) \in S
  BY WithGlyph
<1> HIDE DEF S
<1>4. F \in [S \X (1..n) -> S]
  BY <1>3
<1>5. \A s \in S, i \in 1..n : F[<<s, i>>] = GlyphsWith(s, str[i])
  OBVIOUS
<1> HIDE DEF F
<1>6. PICK t : Iteration(S, <<>>, n, F, t)
  <2>1. HasIteration(S, <<>>, n, F)
    BY <1>1, <1>2, <1>4, Iterated
  <2>. QED
    BY <2>1 DEF HasIteration
<1>7. \A i \in 1..n : t[i - 1] \in S /\ t[i] = GlyphsWith(t[i - 1], str[i])
  <2>1. TAKE i \in 1..n
  <2>2. i - 1 \in 0..n
    BY <1>1
  <2>. QED
    BY <1>5, <1>6, <2>2 DEF Iteration
<1>8. Eq(t)
  <2> DEFINE v == [k \in 0..n |-> IF k = 0 THEN <<>> ELSE GlyphsWith(t[k - 1], str[k])]
  <2>1. \A k \in 0..n : t[k] = v[k]
    <3>1. TAKE k \in 0..n
    <3>2. CASE k = 0
      BY <1>6, <3>2 DEF Iteration
    <3>3. CASE k # 0
      <4>1. k \in 1..n
        BY <1>1, <3>3
      <4>. QED
        BY <1>7, <3>3, <4>1
    <3>. QED
      BY <3>2, <3>3
  <2>2. t = v
    BY <1>6, <2>1 DEF Iteration
  <2>. QED
    BY <2>2
<1>9. Eq(GlyphsTo(str))
  <2> HIDE DEF Eq
  <2>1. GlyphsTo(str) = CHOOSE u : Eq(u)
    BY DEF GlyphsTo, Eq, n
  <2>. QED
    BY <1>8, <2>1
<1> DEFINE u == GlyphsTo(str)
<1> HIDE DEF u
<1>10. Eq(u)
  BY <1>9 DEF u
<1>11. u[0] = <<>> /\ \A k \in 1..n : u[k] = GlyphsWith(u[k - 1], str[k])
  BY <1>1, <1>10
<1>12. \A k \in 0..n : u[k] \in S
  <2> DEFINE T == {k \in 0..n : u[k] \in S}
  <2>1. 0 \in T
    BY <1>1, <1>2, <1>11
  <2>2. \A k \in 0..n - 1 : k \in T => k + 1 \in T
    <3>1. TAKE k \in 0..n - 1
    <3>2. HAVE k \in T
    <3>3. u[k] \in S /\ k + 1 \in 1..n /\ (k + 1) - 1 = k
      BY <1>1, <3>2
    <3>4. u[k + 1] = GlyphsWith(u[k], str[k + 1])
      BY <1>11, <3>3
    <3>. QED
      BY <1>3, <3>3, <3>4
  <2> HIDE DEF T
  <2>3. \A k \in 0..n : k \in T
    BY <1>1, <2>1, <2>2, BoundedInduction
  <2>. QED
    BY <2>3 DEF T
<1>13. u \in [0..n -> S]
  BY <1>10, <1>12
<1>. QED
  BY <1>11, <1>13 DEF u, n, S

LEMMA GlyphsType ==
  ASSUME NEW str \in Seq(Chars)
  PROVE  OnlyGlyphs(str) \in Seq(Glyphs)
<1>1. Len(str) \in 0..Len(str)
  BY CharAt
<1>. QED
  BY <1>1, GlyphsEquation DEF OnlyGlyphs

LEMMA GlyphsOfBeginning ==
  ASSUME NEW s \in Seq(Chars), NEW t \in Seq(Chars), Len(s) <= Len(t),
         \A k \in 1..Len(s) : t[k] = s[k]
  PROVE  \A k \in 0..Len(s) : GlyphsTo(t)[k] = GlyphsTo(s)[k]
<1> DEFINE n == Len(s)
           m == Len(t)
           u == GlyphsTo(s)
           v == GlyphsTo(t)
           T == {k \in 0..n : v[k] = u[k]}
<1>1. /\ n \in Nat /\ m \in Nat /\ n <= m
      /\ u[0] = <<>> /\ \A k \in 1..n : u[k] = GlyphsWith(u[k - 1], s[k])
      /\ v[0] = <<>> /\ \A k \in 1..m : v[k] = GlyphsWith(v[k - 1], t[k])
      /\ \A k \in 1..n : t[k] = s[k]
  BY CharAt, GlyphsEquation
<1> HIDE DEF n, m, u, v
<1>2. 0 \in T
  BY <1>1
<1>3. \A k \in 0..n - 1 : k \in T => k + 1 \in T
  <2>1. TAKE k \in 0..n - 1
  <2>2. HAVE k \in T
  <2>3. k + 1 \in 1..n /\ k + 1 \in 1..m /\ (k + 1) - 1 = k /\ k + 1 \in 0..n
    BY <1>1
  <2>4. v[k] = u[k]
    BY <2>2
  <2>5. /\ u[k + 1] = GlyphsWith(u[k], s[k + 1]) /\ v[k + 1] = GlyphsWith(v[k], t[k + 1])
        /\ t[k + 1] = s[k + 1]
    BY <1>1, <2>3
  <2>. QED
    BY <2>3, <2>4, <2>5
<1> HIDE DEF T
<1>4. \A k \in 0..n : k \in T
  BY <1>1, <1>2, <1>3, BoundedInduction
<1>. QED
  BY <1>4 DEF T, n, u, v

LEMMA GlyphsOfAppend ==
  ASSUME NEW s \in Seq(Chars), NEW c \in Chars
  PROVE  OnlyGlyphs(Append(s, c)) = GlyphsWith(OnlyGlyphs(s), c)
<1> DEFINE t == Append(s, c)
           n == Len(s)
<1>1. t \in Seq(Chars) /\ Len(t) = n + 1 /\ t[n + 1] = c /\ \A k \in 1..n : t[k] = s[k]
  BY AppendProperties
<1>2. n \in Nat
  BY CharAt
<1> HIDE DEF t
<1>3. n <= Len(t) /\ n \in 0..n /\ n + 1 \in 1..Len(t) /\ (n + 1) - 1 = n
  BY <1>1, <1>2
<1>4. GlyphsTo(t)[n] = GlyphsTo(s)[n]
  BY <1>1, <1>3, GlyphsOfBeginning
<1>5. GlyphsTo(t)[n + 1] = GlyphsWith(GlyphsTo(t)[n], c)
  BY <1>1, <1>3, GlyphsEquation
<1>. QED
  BY <1>1, <1>4, <1>5 DEF OnlyGlyphs, t

LEMMA GlyphsOfBlanks ==
  ASSUME NEW n \in Nat
  PROVE  OnlyGlyphs(Blanks(n)) = <<>>
<1> DEFINE b == Blanks(n)
           u == GlyphsTo(b)
           T == {k \in 0..n : u[k] = <<>>}
<1>1. b \in Seq(Chars) /\ Len(b) = n /\ \A k \in 1..n : b[k] = Blank
  BY BlanksFacts
<1> HIDE DEF b
<1>2. u[0] = <<>> /\ \A k \in 1..n : u[k] = GlyphsWith(u[k - 1], Blank)
  BY <1>1, GlyphsEquation
<1>3. Blank \notin Glyphs
  BY GlyphsAssumption
<1> HIDE DEF u
<1>4. 0 \in T
  BY <1>2
<1>5. \A k \in 0..n - 1 : k \in T => k + 1 \in T
  <2>1. TAKE k \in 0..n - 1
  <2>2. HAVE k \in T
  <2>3. k + 1 \in 1..n /\ (k + 1) - 1 = k /\ k + 1 \in 0..n
    OBVIOUS
  <2>4. u[k] = <<>>
    BY <2>2
  <2>5. u[k + 1] = GlyphsWith(u[k], Blank)
    BY <1>2, <2>3
  <2>. QED
    BY <1>3, <2>3, <2>4, <2>5 DEF GlyphsWith
<1> HIDE DEF T
<1>6. \A k \in 0..n : k \in T
  BY <1>4, <1>5, BoundedInduction
<1>. QED
  BY <1>1, <1>6 DEF T, u, b, OnlyGlyphs

LEMMA GlyphsOfConcat ==
  ASSUME NEW s \in Seq(Chars), NEW t \in Seq(Chars)
  PROVE  OnlyGlyphs(s \o t) = OnlyGlyphs(s) \o OnlyGlyphs(t)
<1> DEFINE r == s \o t
           n == Len(s)
           m == Len(t)
           a == OnlyGlyphs(s)
           v == GlyphsTo(t)
           w == GlyphsTo(r)
           T == {k \in 0..m : w[n + k] = a \o v[k]}
<1>1. /\ r \in Seq(Chars) /\ Len(r) = n + m
      /\ \A i \in 1..n + m : r[i] = IF i <= n THEN s[i] ELSE t[i - n]
  BY ConcatProperties
<1>2. n \in Nat /\ m \in Nat
  BY CharAt
<1> HIDE DEF r
<1>3. w[n] = a
  <2>1. \A k \in 1..n : r[k] = s[k]
    BY <1>1, <1>2
  <2>2. n <= Len(r) /\ n \in 0..n
    BY <1>1, <1>2
  <2>. QED
    BY <1>1, <2>1, <2>2, GlyphsOfBeginning DEF OnlyGlyphs
<1>4. a \in Seq(Glyphs)
  BY GlyphsType
<1>5. /\ v[0] = <<>> /\ \A k \in 1..m : v[k] = GlyphsWith(v[k - 1], t[k])
      /\ \A k \in 0..m : v[k] \in Seq(Glyphs)
  BY GlyphsEquation
<1>6. \A k \in 1..n + m : w[k] = GlyphsWith(w[k - 1], r[k])
  BY <1>1, GlyphsEquation
<1> HIDE DEF n, m, a, v, w
<1>7. 0 \in T
  BY <1>2, <1>3, <1>4, <1>5, ConcatEmptySeq
<1>8. \A k \in 0..m - 1 : k \in T => k + 1 \in T
  <2>1. TAKE k \in 0..m - 1
  <2>2. HAVE k \in T
  <2>3. /\ k + 1 \in 1..m /\ (k + 1) - 1 = k /\ k + 1 \in 0..m /\ k \in 0..m
        /\ n + (k + 1) \in 1..n + m /\ (n + (k + 1)) - 1 = n + k
        /\ (n + (k + 1)) - n = k + 1 /\ ~(n + (k + 1) <= n)
    BY <1>2
  <2>4. w[n + k] = a \o v[k]
    BY <2>2
  <2> DEFINE c == t[k + 1]
  <2>5. r[n + (k + 1)] = c
    BY <1>1, <2>3
  <2>6. w[n + (k + 1)] = GlyphsWith(a \o v[k], c) /\ v[k + 1] = GlyphsWith(v[k], c)
    BY <1>5, <1>6, <2>3, <2>4, <2>5
  <2> HIDE DEF c
  <2>7. GlyphsWith(a \o v[k], c) = a \o GlyphsWith(v[k], c)
    <3>1. CASE c \in Glyphs
      <4> DEFINE x == v[k]
      <4>1. x \in Seq(Glyphs) /\ <<c>> \in Seq(Glyphs)
        BY <1>5, <2>3, <3>1
      <4> HIDE DEF x
      <4>2. Append(x, c) = x \o <<c>>
        BY <3>1, <4>1, AppendIsConcat
      <4>3. a \o x \in Seq(Glyphs)
        BY <1>4, <4>1, ConcatProperties
      <4>4. Append(a \o x, c) = (a \o x) \o <<c>>
        BY <3>1, <4>3, AppendIsConcat
      <4>5. (a \o x) \o <<c>> = a \o (x \o <<c>>)
        BY <1>4, <4>1, ConcatAssociative, SMTT(20)
      <4>6. Append(a \o x, c) = a \o Append(x, c)
        BY <4>2, <4>4, <4>5
      <4>. QED
        BY <3>1, <4>6 DEF GlyphsWith, x
    <3>2. CASE c \notin Glyphs
      BY <3>2 DEF GlyphsWith
    <3>. QED
      BY <3>1, <3>2
  <2>8. w[n + (k + 1)] = a \o v[k + 1]
    BY <2>6, <2>7
  <2>. QED
    BY <2>3, <2>8
<1> HIDE DEF T
<1>9. \A k \in 0..m : k \in T
  BY <1>2, <1>7, <1>8, BoundedInduction
<1>10. w[n + m] = a \o v[m]
  <2>1. m \in T
    BY <1>2, <1>9
  <2>. QED
    BY <2>1 DEF T
<1>. QED
  BY <1>1, <1>10, Zenon DEF w, a, v, n, m, r, OnlyGlyphs


-----------------------------------------------------------------------------
(* A text laid out.                                                         *)

(* A text that fits keeps its printable characters. *)
LEMMA PutKeeps ==
  ASSUME NEW str \in Seq(Chars), NEW len \in Nat, Cells(str) <= len
  PROVE  \A k \in 0..Len(str) : OnlyGlyphs(PutTo(str, len)[k]) = GlyphsTo(str)[k]
<1> DEFINE n == Len(str)
           u == PutTo(str, len)
           c == CellsTo(str)
           g == GlyphsTo(str)
           T == {k \in 0..n : OnlyGlyphs(u[k]) = g[k]}
<1>1. /\ n \in Nat /\ \A k \in 1..n : str[k] \in Chars
      /\ \A k \in 0..n : u[k] \in Seq(Chars) /\ Len(u[k]) <= len
      /\ u[0] = <<>> /\ \A k \in 1..n : u[k] = Put(u[k - 1], str[k], len)
      /\ \A k \in 1..n : c[k] = c[k - 1] + char_width(str[k], c[k - 1])
      /\ g[0] = <<>> /\ \A k \in 1..n : g[k] = GlyphsWith(g[k - 1], str[k])
  BY CharAt, PutEquation, CellsEquation, GlyphsEquation DEF Fitting
<1>2. \A k \in 0..n : Len(u[k]) = c[k] /\ c[k] <= len
  <2>1. \A k \in 0..n : Len(u[k]) = c[k]
    BY PutLengths
  <2>. QED
    BY <1>1, <2>1
<1> HIDE DEF n, u, c, g
<1>3. 0 \in T
  <2>1. OnlyGlyphs(<<>>) = <<>>
    <3>1. <<>> \in Seq(Chars) /\ Len(<<>>) = 0
      BY EmptySeq
    <3>. QED
      BY <3>1, GlyphsEquation DEF OnlyGlyphs
  <2>. QED
    BY <1>1, <2>1
<1>4. \A k \in 0..n - 1 : k \in T => k + 1 \in T
  <2>1. TAKE k \in 0..n - 1
  <2>2. HAVE k \in T
  <2>3. n \in Nat
    BY <1>1
  <2>4. k + 1 \in 1..n /\ (k + 1) - 1 = k /\ k \in 0..n /\ k + 1 \in 0..n
    BY <2>3
  <2> DEFINE out == u[k]
             d == str[k + 1]
  <2>5. OnlyGlyphs(out) = g[k]
    BY <2>2
  <2>6. out \in Seq(Chars) /\ Len(out) <= len /\ d \in Chars
    BY <1>1, <2>4
  <2>7. u[k + 1] = Put(out, d, len) /\ g[k + 1] = GlyphsWith(g[k], d)
    BY <1>1, <2>4
  <2>8. Wide(out, d, len)
    <3>1. c[k + 1] = c[k] + char_width(d, c[k]) /\ c[k + 1] <= len /\ Len(out) = c[k]
      BY <1>1, <1>2, <2>4
    <3>. QED
      BY <3>1 DEF Wide
  <2> HIDE DEF out, d
  <2>9. \/ Put(out, d, len) = Append(out, d)
        \/ d \notin Glyphs /\ \E m \in Nat : Put(out, d, len) = out \o Blanks(m)
    BY <2>6, <2>8, PutFacts
  <2>10. OnlyGlyphs(u[k + 1]) = GlyphsWith(OnlyGlyphs(out), d)
    <3>1. CASE Put(out, d, len) = Append(out, d)
      BY <2>6, <2>7, <3>1, GlyphsOfAppend
    <3>2. CASE d \notin Glyphs /\ \E m \in Nat : Put(out, d, len) = out \o Blanks(m)
      <4>1. PICK m \in Nat : Put(out, d, len) = out \o Blanks(m)
        BY <3>2
      <4> DEFINE b == Blanks(m)
      <4>2. b \in Seq(Chars) /\ OnlyGlyphs(b) = <<>>
        BY BlanksFacts, GlyphsOfBlanks
      <4> HIDE DEF b
      <4>3. OnlyGlyphs(out \o b) = OnlyGlyphs(out) \o <<>>
        BY <2>6, <4>2, GlyphsOfConcat
      <4>4. OnlyGlyphs(out) \o <<>> = OnlyGlyphs(out)
        BY <2>6, GlyphsType, ConcatEmptySeq, Zenon
      <4>. QED
        BY <2>7, <3>2, <4>1, <4>3, <4>4 DEF GlyphsWith, b
    <3>. QED
      BY <2>9, <3>1, <3>2
  <2>. QED
    BY <2>4, <2>5, <2>7, <2>10
<1> HIDE DEF T
<1>5. \A k \in 0..n : k \in T
  BY <1>1, <1>3, <1>4, BoundedInduction
<1>. QED
  BY <1>5 DEF T, n, u, g

LEMMA SanitizeFacts ==
  ASSUME NEW str \in Seq(Chars), NEW len \in Nat
  PROVE  /\ sanitize_buffer_for_display(str, len) \in Seq(Chars)
         /\ Len(sanitize_buffer_for_display(str, len)) = len
         /\ Cells(str) <= len
            => OnlyGlyphs(sanitize_buffer_for_display(str, len)) = OnlyGlyphs(str)
<1> DEFINE text == PutTo(str, len)[Len(str)]
           b == Blanks(len - Len(text))
<1>1. Len(str) \in 0..Len(str) /\ Len(str) \in Nat
  BY CharAt
<1>2. text \in Seq(Chars) /\ Len(text) <= len /\ Len(text) \in Nat
  <2>1. text \in Fitting(len)
    BY <1>1, PutEquation
  <2>. QED
    BY <2>1, LenProperties DEF Fitting
<1>3. Cells(str) <= len => OnlyGlyphs(text) = OnlyGlyphs(str)
  BY <1>1, PutKeeps DEF OnlyGlyphs
<1>4. sanitize_buffer_for_display(str, len) = text \o b
  BY DEF sanitize_buffer_for_display
<1> HIDE DEF text
<1>5. len - Len(text) \in Nat
  BY <1>2
<1>6. b \in Seq(Chars) /\ Len(b) = len - Len(text) /\ OnlyGlyphs(b) = <<>>
  BY <1>5, BlanksFacts, GlyphsOfBlanks
<1> HIDE DEF b
<1>7. text \o b \in Seq(Chars) /\ Len(text \o b) = Len(text) + (len - Len(text))
  BY <1>2, <1>6, ConcatProperties
<1>8. OnlyGlyphs(text \o b) = OnlyGlyphs(text)
  <2>1. OnlyGlyphs(text \o b) = OnlyGlyphs(text) \o <<>>
    BY <1>2, <1>6, GlyphsOfConcat
  <2>2. OnlyGlyphs(text) \o <<>> = OnlyGlyphs(text)
    BY <1>2, GlyphsType, ConcatEmptySeq, Zenon
  <2>. QED
    BY <2>1, <2>2
<1>9. Len(text) + (len - Len(text)) = len
  BY <1>2
<1>. QED
  BY <1>3, <1>4, <1>7, <1>8, <1>9


(* Whole lines. *)
LEMMA LineArithmetic ==
  ASSUME NEW S \in Nat \ {0}
  PROVE  /\ \A c \in Nat : c \div S \in Nat /\ c % S \in 0..S - 1 /\ c = (c \div S) * S + (c % S)
         /\ \A k \in Nat : k * S \in Nat /\ (k * S) % S = 0 /\ (k * S) \div S = k
         /\ \A j, k \in Nat : j <= k => j * S <= k * S
         /\ \A j, k \in Nat : j * S <= k * S => j <= k
         /\ \A k \in Nat : k * S + S = (k + 1) * S
<1>1. \A c \in Nat : c \div S \in Nat /\ c % S \in 0..S - 1 /\ c = (c \div S) * S + (c % S)
  OBVIOUS
<1>2. \A k \in Nat : k * S \in Nat
  OBVIOUS
<1>3. \A k \in Nat : (k * S) % S = 0
  OBVIOUS
<1>4. \A k \in Nat : (k * S) \div S = k
  OBVIOUS
<1>5. \A j, k \in Nat : j <= k => j * S <= k * S
  OBVIOUS
<1>6. \A j, k \in Nat : j * S <= k * S => j <= k
  OBVIOUS
<1>7. \A k \in Nat : k * S + S = (k + 1) * S
  OBVIOUS
<1>. QED
  BY <1>1, <1>2, <1>3, <1>4, <1>5, <1>6, <1>7


(* Buffers of so many lines. *)
WholeLines(n, lines) == lines \in Nat /\ lines >= LinesShown /\ n = lines * ScreenX

LEMMA CountFacts ==
  ASSUME NEW str \in Seq(Chars)
  PROVE  /\ calculate_chars_count(str) \in Nat
         /\ Cells(str) <= calculate_chars_count(str)
         /\ \E lines \in Nat : WholeLines(calculate_chars_count(str), lines)
<1> DEFINE S == ScreenX
           c == Cells(str)
           least == ScreenX * LinesShown
           count == IF c < least THEN least ELSE c
           q == count \div S
           r == count % S
<1>1. c \in Nat
  <2>1. Len(str) \in 0..Len(str)
    BY CharAt
  <2>. QED
    BY <2>1, CellsEquation DEF Cells
<1>2. S \in Nat \ {0} /\ LinesShown \in Nat /\ S * LinesShown \in Nat /\ least = LinesShown * S
  BY ScreenAssumption
<1>3. calculate_chars_count(str) = IF r # 0 THEN count + S - r ELSE count
  BY DEF calculate_chars_count
<1> HIDE DEF c
<1> HIDE DEF least
<1>4. count \in Nat /\ c <= count /\ least <= count
  BY <1>1, <1>2 DEF least
<1> HIDE DEF count
<1> HIDE DEF S
<1>5. q \in Nat /\ r \in 0..S - 1 /\ count = q * S + r /\ q * S \in Nat /\ q * S + S = (q + 1) * S
  BY <1>2, <1>4, LineArithmetic
<1> HIDE DEF q, r
<1> DEFINE L == IF r # 0 THEN q + 1 ELSE q
<1>6. L \in Nat /\ calculate_chars_count(str) = L * S /\ count <= L * S /\ L * S \in Nat
  <2>1. CASE r = 0
    BY <1>3, <1>5, <2>1
  <2>2. CASE r # 0
    <3> DEFINE x == q * S
    <3>1. x \in Nat /\ count = x + r /\ r \in 0..S - 1 /\ x + S = (q + 1) * S
      BY <1>5
    <3> HIDE DEF x
    <3>2. calculate_chars_count(str) = x + S /\ count <= x + S /\ x + S \in Nat
      BY <1>2, <1>3, <2>2, <3>1
    <3>. QED
      BY <1>5, <2>2, <3>1, <3>2
  <2>. QED
    BY <2>1, <2>2
<1> HIDE DEF L
<1>7. LinesShown <= L
  <2>1. LinesShown * S <= L * S
    BY <1>2, <1>4, <1>6
  <2>. QED
    BY <1>2, <1>6, <2>1, LineArithmetic
<1>8. WholeLines(calculate_chars_count(str), L)
  BY <1>2, <1>6, <1>7 DEF WholeLines, S
<1>. QED
  BY <1>1, <1>4, <1>6, <1>8 DEF c


(* Cells that show a text. *)
ShowsText(cells, str) ==
  /\ cells \in Seq(Chars)
  /\ \E lines \in Nat : WholeLines(Len(cells), lines)
  /\ OnlyGlyphs(cells) = OnlyGlyphs(str)

LEMMA LaidOut ==
  ASSUME NEW str \in Seq(Chars)
  PROVE  ShowsText(sanitize_buffer_for_display(str, calculate_chars_count(str)), str)
<1> DEFINE n == calculate_chars_count(str)
<1>1. n \in Nat /\ Cells(str) <= n /\ \E lines \in Nat : WholeLines(n, lines)
  BY CountFacts
<1> HIDE DEF n
<1>2. /\ sanitize_buffer_for_display(str, n) \in Seq(Chars)
      /\ Len(sanitize_buffer_for_display(str, n)) = n
      /\ OnlyGlyphs(sanitize_buffer_for_display(str, n)) = OnlyGlyphs(str)
  BY <1>1, SanitizeFacts
<1>. QED
  BY <1>1, <1>2 DEF ShowsText, n

LEMMA ConsoleTexts ==
  ASSUME NEW console \in Consoles
  PROVE  Older(console) \in Seq(Chars) /\ Newer(console) \in Seq(Chars)
<1> DEFINE body == console.body
           c == Cursor(console)
<1>1. body \in Seq(Chars) /\ body # <<>> /\ console.cursor \in Nat
  BY DEF Consoles
<1>2. Len(body) \in Nat /\ Len(body) > 0
  BY <1>1, EmptySeq, LenProperties
<1>3. c \in Int /\ c >= 0 /\ c <= Len(body)
  BY <1>1, <1>2 DEF Cursor
<1>4. \A i \in 1..Len(body) : body[i] \in Chars
  BY <1>1, ElementOfSeq
<1> HIDE DEF c
<1>5. SubSeq(body, 1, c) \in Seq(Chars)
  <2>1. \A i \in 1..c : body[i] \in Chars
    BY <1>2, <1>3, <1>4
  <2>2. 1 \in Int /\ c \in Int
    BY <1>3
  <2>. QED
    BY <2>1, <2>2, SubSeqProperties, Zenon
<1>6. SubSeq(body, c + 1, Len(body)) \in Seq(Chars)
  <2>1. \A i \in c + 1..Len(body) : body[i] \in Chars
    BY <1>2, <1>3, <1>4
  <2>2. c + 1 \in Int /\ Len(body) \in Int
    BY <1>2, <1>3
  <2>. QED
    BY <2>1, <2>2, SubSeqProperties, Zenon
<1>7. <<>> \in Seq(Chars)
  BY EmptySeq
<1>. QED
  BY <1>5, <1>6, <1>7 DEF Older, Newer, c

LEMMA BootlogFacts ==
  ASSUME NEW console \in Consoles
  PROVE  /\ ShowsText(BootlogCells(console), Older(console) \o Newer(console))
         /\ ~console.overflow
            => Len(BootlogCells(console)) = calculate_chars_count(Newer(console))
<1> DEFINE old == Older(console)
           new == Newer(console)
           a == IF console.overflow
                THEN sanitize_buffer_for_display(old, calculate_chars_count(old)) ELSE <<>>
           b == sanitize_buffer_for_display(new, calculate_chars_count(new))
<1>1. old \in Seq(Chars) /\ new \in Seq(Chars)
  BY ConsoleTexts
<1>2. BootlogCells(console) = a \o b
  BY DEF BootlogCells
<1>3. b \in Seq(Chars) /\ OnlyGlyphs(b) = OnlyGlyphs(new)
      /\ \E lines \in Nat : WholeLines(Len(b), lines)
  BY <1>1, LaidOut DEF ShowsText
<1>4. Len(b) = calculate_chars_count(new)
  BY <1>1, CountFacts, SanitizeFacts
<1>5. OnlyGlyphs(old \o new) = OnlyGlyphs(old) \o OnlyGlyphs(new)
  BY <1>1, GlyphsOfConcat
<1>6. CASE ~console.overflow
  <2>1. a = <<>> /\ old = <<>>
    BY <1>6 DEF Older
  <2>2. a \o b = b /\ old \o new = new
    <3> HIDE DEF b, new, a, old
    <3>. QED
      BY <1>1, <1>3, <2>1, ConcatEmptySeq
  <2>. QED
    BY <1>2, <1>3, <1>4, <2>2 DEF ShowsText
<1>7. CASE console.overflow
  <2>1. a \in Seq(Chars) /\ OnlyGlyphs(a) = OnlyGlyphs(old)
        /\ \E lines \in Nat : WholeLines(Len(a), lines)
    BY <1>1, <1>7, LaidOut DEF ShowsText
  <2> HIDE DEF a, b
  <2>2. a \o b \in Seq(Chars) /\ Len(a \o b) = Len(a) + Len(b)
    BY <1>3, <2>1, ConcatProperties
  <2>3. OnlyGlyphs(a \o b) = OnlyGlyphs(old) \o OnlyGlyphs(new)
    BY <1>3, <2>1, GlyphsOfConcat
  <2>4. \E lines \in Nat : WholeLines(Len(a \o b), lines)
    <3>1. PICK i \in Nat : WholeLines(Len(a), i)
      BY <2>1
    <3>2. PICK j \in Nat : WholeLines(Len(b), j)
      BY <1>3
    <3>3. i >= LinesShown /\ Len(a) = i * ScreenX /\ Len(b) = j * ScreenX /\ Len(a \o b) = Len(a) + Len(b)
      BY <2>2, <3>1, <3>2 DEF WholeLines
    <3>4. Len(a \o b) = (i + j) * ScreenX /\ i + j \in Nat /\ i + j >= LinesShown
      <4>1. i * ScreenX + j * ScreenX = (i + j) * ScreenX
        BY ScreenAssumption
      <4>2. LinesShown \in Nat
        BY ScreenAssumption
      <4>. QED
        BY <3>3, <4>1, <4>2
    <3>. QED
      BY <3>4 DEF WholeLines
  <2>. QED
    BY <1>2, <1>5, <1>7, <2>2, <2>3, <2>4 DEF ShowsText
<1>. QED
  BY <1>6, <1>7


-----------------------------------------------------------------------------
(* The buffers and their views.                                             *)

(* The last line that may be shown first is that of the buffer. *)
ViewFits(v) ==
  /\ g_buf[v] # <<>> =>
       \E lines \in Nat : WholeLines(Len(g_buf[v]), lines) /\ g_max_cursor_line[v] = LastTop(lines)
  /\ g_line[v] <= g_max_cursor_line[v]

LogInv == \A v \in LogViews : ViewFits(v)

LEMMA LastTopType ==
  ASSUME NEW lines \in Nat
  PROVE  LastTop(lines) \in Nat
  BY ScreenAssumption DEF LastTop

LEMMA LaidKeeps ==
  ASSUME LogTypes, LogInv, NEW v \in LogViews, g_buf[v] = <<>>, g_line[v] = 0,
         NEW cells, NEW str, ShowsText(cells, str), NEW size \in Nat,
         Laid(v, cells, size) \/ NoRoom(v, cells)
  PROVE  /\ LogTypes' /\ LogInv' /\ g_line' = g_line
         /\ g_buf'[v] \in {<<>>, cells}
         /\ \A w \in LogViews : w # v => g_buf'[w] = g_buf[w]
<1> DEFINE top == LastTop(Len(cells) \div ScreenX)
<1>1. /\ g_buf \in [LogViews -> Seq(Chars)] /\ alloc \in [LogViews -> Nat]
      /\ g_line \in [LogViews -> Nat] /\ g_max_cursor_line \in [LogViews -> Nat]
      /\ \A w \in LogViews : Len(g_buf[w]) % ScreenX = 0
  BY DEF LogTypes
<1>2. PICK lines \in Nat : WholeLines(Len(cells), lines)
  BY DEF ShowsText
<1>3. /\ cells \in Seq(Chars) /\ Len(cells) = lines * ScreenX
      /\ Len(cells) % ScreenX = 0 /\ Len(cells) \div ScreenX = lines
  <2>1. cells \in Seq(Chars) /\ Len(cells) = lines * ScreenX
    BY <1>2 DEF ShowsText, WholeLines
  <2>2. ScreenX \in Nat \ {0}
    BY ScreenAssumption
  <2>3. (lines * ScreenX) % ScreenX = 0 /\ (lines * ScreenX) \div ScreenX = lines
    BY <2>2, LineArithmetic
  <2>. QED
    BY <2>1, <2>3
<1>4. top = LastTop(lines) /\ top \in Nat
  BY <1>3, LastTopType
<1>5. /\ g_line' = g_line
      /\ g_max_cursor_line' = [g_max_cursor_line EXCEPT ![v] = top]
      /\ \/ g_buf' = [g_buf EXCEPT ![v] = cells] /\ alloc' = [alloc EXCEPT ![v] = size]
         \/ g_buf' = g_buf /\ alloc' = alloc
  BY DEF Laid, NoRoom
<1> HIDE DEF top
<1>6. /\ g_max_cursor_line'[v] = top /\ g_buf'[v] \in {<<>>, cells}
      /\ \A w \in LogViews : w # v => /\ g_buf'[w] = g_buf[w]
                                      /\ g_max_cursor_line'[w] = g_max_cursor_line[w]
  BY <1>1, <1>5
<1>7. LogTypes'
  <2>1. \A w \in LogViews : Len(g_buf'[w]) % ScreenX = 0
    <3>1. TAKE w \in LogViews
    <3>2. g_buf'[w] = cells \/ g_buf'[w] = g_buf[w]
      BY <1>1, <1>5
    <3>. QED
      BY <1>1, <1>3, <3>2
  <2>2. /\ g_buf' \in [LogViews -> Seq(Chars)] /\ alloc' \in [LogViews -> Nat]
        /\ g_max_cursor_line' \in [LogViews -> Nat]
    BY <1>1, <1>3, <1>4, <1>5
  <2>. QED
    BY <1>1, <1>5, <2>1, <2>2 DEF LogTypes
<1>8. LogInv'
  <2>1. SUFFICES ASSUME NEW w \in LogViews PROVE ViewFits(w)'
    BY DEF LogInv
  <2>2. CASE w = v
    <3>1. g_buf'[v] # <<>> => WholeLines(Len(g_buf'[v]), lines) /\ g_max_cursor_line'[v] = LastTop(lines)
      BY <1>2, <1>4, <1>6
    <3>2. g_line'[v] <= g_max_cursor_line'[v]
      BY <1>4, <1>5, <1>6
    <3>. QED
      BY <2>2, <3>1, <3>2 DEF ViewFits
  <2>3. CASE w # v
    BY <1>5, <1>6, <2>3 DEF LogInv, ViewFits
  <2>. QED
    BY <2>2, <2>3
<1>. QED
  BY <1>5, <1>6, <1>7, <1>8

LEMMA ScrollKeeps ==
  ASSUME LogTypes, LogInv, NEW v \in LogViews, LogKey(v)
  PROVE  LogTypes' /\ LogInv' /\ g_buf' = g_buf
<1>1. /\ g_line \in [LogViews -> Nat] /\ g_max_cursor_line \in [LogViews -> Nat]
      /\ UNCHANGED <<g_buf, alloc, g_max_cursor_line>>
  BY DEF LogTypes, LogKey
<1>2. PICK d \in {1, -1, LinesShown, -LinesShown} :
        g_line' = [g_line EXCEPT ![v] = Scrolled(v, g_line[v] + d)]
  BY DEF LogKey
<1>3. /\ Scrolled(v, g_line[v] + d) \in Nat
      /\ Scrolled(v, g_line[v] + d) <= g_max_cursor_line[v]
  <2>1. g_line[v] + d \in Int /\ g_max_cursor_line[v] \in Nat
    BY <1>1, <1>2, ScreenAssumption
  <2>. QED
    BY <2>1 DEF Scrolled
<1>4. /\ g_line' \in [LogViews -> Nat] /\ g_line'[v] <= g_max_cursor_line[v]
      /\ \A w \in LogViews : w # v => g_line'[w] = g_line[w]
  BY <1>1, <1>2, <1>3
<1>5. LogTypes'
  BY <1>1, <1>4 DEF LogTypes
<1>6. LogInv'
  BY <1>1, <1>4 DEF LogInv, ViewFits
<1>. QED
  BY <1>1, <1>5, <1>6

LEMMA ViewInside ==
  ASSUME LogTypes, LogInv
  PROVE  ViewStaysInBuffer
<1> SUFFICES ASSUME NEW v \in LogViews, g_buf[v] # <<>>
             PROVE  ViewEnd(v) <= Len(g_buf[v])
  BY DEF ViewStaysInBuffer
<1>1. PICK lines \in Nat : /\ WholeLines(Len(g_buf[v]), lines)
                           /\ g_max_cursor_line[v] = LastTop(lines)
  BY DEF LogInv, ViewFits
<1>2. /\ g_line[v] \in Nat /\ g_line[v] <= LastTop(lines) /\ lines >= LinesShown
      /\ Len(g_buf[v]) = lines * ScreenX
  BY <1>1 DEF LogInv, ViewFits, LogTypes, WholeLines
<1>3. g_line[v] + LinesShown \in Nat /\ g_line[v] + LinesShown <= lines
  BY <1>2, ScreenAssumption DEF LastTop
<1>4. (g_line[v] + LinesShown) * ScreenX <= lines * ScreenX
  BY <1>3, ScreenAssumption, LineArithmetic
<1>. QED
  BY <1>2, <1>4 DEF ViewEnd


-----------------------------------------------------------------------------
(* The tables that firmware left.                                           *)

(* A table is read only where one was found, and what is kept of earlier    *)
(* ones is nothing, if those that forward have nothing else.                *)
Reading == Parsing /\ record > 0 => area # <<>> /\ Found(Here)

KeptOfOne ==
  /\ Parsing /\ record <= 1 => \A i \in Items : kept[i] = Nowhere
  /\ Parsing /\ record > 1
     => tables[Here].records[1].tag # "forward" /\ \A i \in Items : kept[i] \in {Nowhere, Here}
  /\ tables_good = "good" => \E a : \A i \in Items : kept[i] \in {a, Nowhere}

TabInv == Reading /\ (ForwardFirst => KeptOfOne)

LEMMA RecordRead ==
  ASSUME TableTypes, Reading, InTable, record <= Len(tables[Here].records)
  PROVE  /\ Here \in Addresses /\ area # <<>> /\ Found(Here)
         /\ tables[Here].records \in Seq(Records)
         /\ record \in 1..Len(tables[Here].records) /\ Record \in Records
<1>1. area \in Seq(Addresses) /\ area # <<>> /\ Found(Here) /\ record \in Nat /\ record > 0
  BY DEF TableTypes, Reading, InTable
<1>2. Here \in Addresses
  BY <1>1, HeadTailProperties DEF Here
<1>3. tables[Here].records \in Seq(Records)
  BY <1>1, <1>2 DEF TableTypes, Tables
<1>4. Len(tables[Here].records) \in Nat
  BY <1>3, LenProperties
<1>5. record \in 1..Len(tables[Here].records)
  BY <1>1, <1>4
<1>. QED
  BY <1>1, <1>2, <1>3, <1>5, ElementOfSeq DEF Record

(* A table with a forward record begins with it. *)
LEMMA ForwardIsFirst ==
  ASSUME TableTypes, Reading, ForwardFirst, InTable, record <= Len(tables[Here].records),
         Record.tag = "forward"
  PROVE  tables[Here].records[1].tag = "forward" /\ Record.to \in Addresses
<1> DEFINE recs == tables[Here].records
<1>1. /\ Here \in Addresses /\ Found(Here) /\ recs \in Seq(Records)
      /\ record \in 1..Len(recs) /\ Record \in Records /\ Record = recs[record]
  BY RecordRead DEF Record
<1>2. Record \in [tag : {"forward"}, to : Addresses]
  BY <1>1 DEF Records
<1>3. Record.to \in Addresses /\ Record = [tag |-> "forward", to |-> Record.to]
  BY <1>2
<1>4. Record \in ToSet(recs)
  <2>1. DOMAIN recs = 1..Len(recs)
    BY <1>1, LenProperties
  <2>. QED
    BY <1>1, <2>1 DEF ToSet
<1>5. Record.to \in Forwards(Here)
  <2>1. [tag |-> "forward", to |-> Record.to] \in ToSet(recs)
    BY <1>3, <1>4
  <2>. QED
    BY <1>1, <1>3, <2>1 DEF Forwards
<1>. QED
  BY <1>1, <1>3, <1>5 DEF ForwardFirst

LEMMA ForwardType ==
  ASSUME TableTypes, Reading, InTable, record <= Len(tables[Here].records),
         Record.tag = "forward"
  PROVE  Record.to \in Addresses
<1>1. Record \in Records
  BY RecordRead
<1>. QED
  BY <1>1 DEF Records

LEMMA OtherStays ==
  ASSUME TableTypes
  PROVE  ReturnsOther /\ Parsing /\ record = 0 =>
           /\ area' \in Seq(Addresses) /\ record' = 0
           /\ second' \in BOOLEAN /\ tables_good' \in {"unknown", "missing"}
<1>1. area \in Seq(Addresses) /\ HighArea \in Seq(Addresses) /\ second \in BOOLEAN
  BY AreasAssumption DEF TableTypes
<1>. QED
  BY <1>1 DEF ReturnsOther, TryHighArea, Parsing

LEMMA ParseKeeps ==
  ASSUME TableTypes, TabInv, ParseTables, UNCHANGED mbVars
  PROVE  TableTypes' /\ TabInv'
<1>1. /\ tables' = tables /\ UNCHANGED <<mb_good, mb_range>> /\ Parsing
      /\ area \in Seq(Addresses) /\ record \in Nat /\ second \in BOOLEAN
      /\ mem_count \in 0..MaxRanges /\ range \in [1..MaxRanges -> Ranges \cup {Nowhere}]
      /\ kept \in [Items -> Addresses \cup {Nowhere}]
      /\ \A k \in 1..mem_count : range[k] # Nowhere
  BY DEF TableTypes, ParseTables, LookFurther, NothingFound, HeaderSeen, TableEnd, ItemRecord,
         MemoryRecord, ForwardRecord, InTable, mbVars
<1>2. /\ ForwardFirst' <=> ForwardFirst
      /\ \A a : Found(a)' <=> Found(a)
  BY <1>1 DEF ForwardFirst, Forwards, Found
<1>3. SUFFICES /\ area' \in Seq(Addresses) /\ record' \in Nat /\ second' \in BOOLEAN
               /\ tables_good' \in {"unknown", "good", "missing"}
               /\ mem_count' \in 0..MaxRanges
               /\ range' \in [1..MaxRanges -> Ranges \cup {Nowhere}]
               /\ \A k \in 1..mem_count' : range'[k] # Nowhere
               /\ kept' \in [Items -> Addresses \cup {Nowhere}]
               /\ Reading' /\ (ForwardFirst => KeptOfOne')
  BY <1>1, <1>2 DEF TableTypes, TabInv, Found
<1>4. Reading /\ (ForwardFirst => KeptOfOne)
  BY DEF TabInv
<1>5. CASE LookFurther
  <2>1. /\ record = 0 /\ record' = 0 /\ tables_good' = "unknown" /\ area' \in Seq(Addresses)
        /\ UNCHANGED <<second, mem_count, range, kept>>
    BY <1>1, <1>5, HeadTailProperties DEF LookFurther, Parsing
  <2>2. ForwardFirst => KeptOfOne'
    BY <1>1, <1>4, <2>1 DEF KeptOfOne, Parsing
  <2>. QED
    BY <1>1, <2>1, <2>2 DEF Reading, Parsing
<1>6. CASE NothingFound \/ (HeaderSeen /\ record' = 0)
  <2>1. /\ record = 0 /\ record' = 0 /\ area' \in Seq(Addresses) /\ second' \in BOOLEAN
        /\ tables_good' \in {"unknown", "missing"}
        /\ UNCHANGED <<mem_count, range, kept>>
    BY <1>1, <1>6, OtherStays DEF NothingFound, HeaderSeen
  <2>2. ForwardFirst => KeptOfOne'
    BY <1>1, <1>4, <2>1 DEF KeptOfOne, Parsing
  <2>. QED
    BY <1>1, <2>1, <2>2 DEF Reading, Parsing
<1>7. CASE HeaderSeen /\ record' # 0
  <2>1. /\ record = 0 /\ record' = 1 /\ area # <<>> /\ Found(Here)
        /\ UNCHANGED <<area, second, tables_good, mem_count, range, kept>>
    BY <1>1, <1>7, OtherStays DEF HeaderSeen
  <2>2. ForwardFirst => KeptOfOne'
    BY <1>1, <1>4, <2>1 DEF KeptOfOne, Parsing
  <2>3. Reading'
    BY <1>2, <2>1 DEF Reading, Here
  <2>. QED
    BY <1>1, <2>1, <2>2, <2>3 DEF Parsing
<1>8. CASE TableEnd
  <2>1. /\ record > 0 /\ tables_good' = "good"
        /\ UNCHANGED <<area, record, second, mem_count, range, kept>>
    BY <1>8 DEF TableEnd, InTable, ReturnsOne
  <2>2. ForwardFirst => KeptOfOne'
    <3>1. HAVE ForwardFirst
    <3>2. \E a : \A i \in Items : kept[i] \in {a, Nowhere}
      <4>1. CASE record <= 1
        BY <1>1, <1>4, <3>1, <4>1 DEF KeptOfOne
      <4>2. CASE record > 1
        BY <1>1, <1>4, <3>1, <4>2 DEF KeptOfOne
      <4>. QED
        BY <1>1, <4>1, <4>2
    <3>. QED
      BY <2>1, <3>2 DEF KeptOfOne, Parsing
  <2>. QED
    BY <1>1, <2>1, <2>2 DEF Reading, Parsing
<1>9. CASE ItemRecord
  <2>1. /\ InTable /\ record <= Len(tables[Here].records) /\ record > 0
        /\ record' = record + 1 /\ record' > 1
        /\ UNCHANGED <<area, second, tables_good, mem_count, range>>
        /\ \/ Record.tag = "item" /\ kept' = [kept EXCEPT ![Record.item] = Here]
           \/ Record.tag = "other" /\ kept' = kept
    BY <1>1, <1>9 DEF ItemRecord, InTable
  <2>2. /\ Here \in Addresses /\ area # <<>> /\ Found(Here) /\ Record \in Records
        /\ Here' = Here
    BY <1>4, <2>1, RecordRead DEF Here
  <2>3. /\ kept' \in [Items -> Addresses \cup {Nowhere}]
        /\ \A i \in Items : kept'[i] \in {kept[i], Here}
    BY <1>1, <2>1, <2>2
  <2>4. Reading'
    BY <1>2, <2>1, <2>2 DEF Reading, Here
  <2>5. ForwardFirst => KeptOfOne'
    <3>1. HAVE ForwardFirst
    <3>2. tables[Here].records[1].tag # "forward" /\ \A i \in Items : kept[i] \in {Nowhere, Here}
      <4>1. CASE record > 1
        BY <1>1, <1>4, <3>1, <4>1 DEF KeptOfOne
      <4>2. CASE record = 1
        BY <1>1, <1>4, <2>1, <3>1, <4>2 DEF KeptOfOne, Record
      <4>. QED
        BY <1>1, <2>1, <4>1, <4>2
    <3>3. \A i \in Items : kept'[i] \in {Nowhere, Here}
      BY <2>3, <3>2
    <3>. QED
      BY <1>1, <2>1, <2>2, <3>2, <3>3 DEF KeptOfOne, Parsing
  <2>. QED
    BY <1>1, <2>1, <2>3, <2>4, <2>5 DEF Parsing
<1>10. CASE MemoryRecord
  <2> DEFINE n == Taken(Record.ranges)
  <2>1. /\ InTable /\ record <= Len(tables[Here].records) /\ record > 0
        /\ record' = record + 1 /\ record' > 1 /\ Record.tag = "memory"
        /\ UNCHANGED <<area, second, tables_good, kept>>
        /\ mem_count' = n
        /\ range' = [k \in 1..MaxRanges |-> IF k <= n THEN Record.ranges[k] ELSE range[k]]
    BY <1>1, <1>10 DEF MemoryRecord, InTable
  <2>2. /\ Here \in Addresses /\ area # <<>> /\ Found(Here) /\ Record \in Records
        /\ Here' = Here
    BY <1>4, <2>1, RecordRead DEF Here
  <2>3. Record.ranges \in Seq(Ranges)
    BY <2>1, <2>2 DEF Records
  <2>4. /\ n \in 0..MaxRanges
        /\ \A k \in 1..n : Record.ranges[k] \in Ranges /\ Record.ranges[k] # Nowhere
    <3>1. Len(Record.ranges) \in Nat /\ MaxRanges \in Nat /\ -1 \notin Ranges
      BY <2>3, LenProperties, AreasAssumption
    <3>2. n \in 0..MaxRanges /\ n <= Len(Record.ranges)
      BY <3>1 DEF Taken
    <3>3. \A k \in 1..n : k \in 1..Len(Record.ranges)
      BY <3>1, <3>2
    <3>4. \A k \in 1..n : Record.ranges[k] \in Ranges
      BY <2>3, <3>3, ElementOfSeq
    <3>. QED
      BY <3>1, <3>2, <3>4 DEF Nowhere
  <2> HIDE DEF n
  <2>5. /\ range' \in [1..MaxRanges -> Ranges \cup {Nowhere}]
        /\ \A k \in 1..n : range'[k] # Nowhere
    <3>1. \A k \in 1..MaxRanges : k <= n => k \in 1..n
      BY <2>4
    <3>2. \A k \in 1..n : k \in 1..MaxRanges /\ k <= n
      BY <2>4, AreasAssumption
    <3>. QED
      BY <1>1, <2>1, <2>4, <3>1, <3>2
  <2>6. Reading'
    BY <1>2, <2>1, <2>2 DEF Reading, Here
  <2>7. ForwardFirst => KeptOfOne'
    <3>1. HAVE ForwardFirst
    <3>2. tables[Here].records[1].tag # "forward" /\ \A i \in Items : kept[i] \in {Nowhere, Here}
      <4>1. CASE record > 1
        BY <1>1, <1>4, <3>1, <4>1 DEF KeptOfOne
      <4>2. CASE record = 1
        BY <1>1, <1>4, <2>1, <3>1, <4>2 DEF KeptOfOne, Record
      <4>. QED
        BY <1>1, <2>1, <4>1, <4>2
    <3>. QED
      BY <1>1, <2>1, <2>2, <3>2 DEF KeptOfOne, Parsing
  <2>. QED
    BY <1>1, <2>1, <2>4, <2>5, <2>6, <2>7 DEF Parsing
<1>11. CASE ForwardRecord
  <2>1. /\ InTable /\ record <= Len(tables[Here].records) /\ record > 0
        /\ Record.tag = "forward" /\ record' = 0 /\ area' = <<Record.to>>
        /\ UNCHANGED <<second, tables_good, mem_count, range, kept>>
    BY <1>11 DEF ForwardRecord, InTable
  <2>2. Record.to \in Addresses
    BY <1>4, <2>1, ForwardType
  <2>3. area' \in Seq(Addresses)
    BY <2>1, <2>2
  <2>4. ForwardFirst => KeptOfOne'
    <3>1. HAVE ForwardFirst
    <3>2. tables[Here].records[1].tag = "forward"
      BY <1>4, <2>1, <3>1, ForwardIsFirst
    <3>3. record <= 1
      BY <1>1, <1>4, <2>1, <3>1, <3>2 DEF KeptOfOne
    <3>4. \A i \in Items : kept[i] = Nowhere
      BY <1>1, <1>4, <3>1, <3>3 DEF KeptOfOne
    <3>. QED
      BY <1>1, <2>1, <3>4 DEF KeptOfOne, Parsing
  <2>. QED
    BY <1>1, <2>1, <2>3, <2>4 DEF Reading, Parsing
<1>. QED
  BY <1>5, <1>6, <1>7, <1>8, <1>9, <1>10, <1>11 DEF ParseTables


LEMMA MultibootKeeps ==
  ASSUME NEW mb \in MbTables,
         multiboot_module_init(mb.have, mb.mmap, mb.ranges, {<<>>, mb.ranges})
  PROVE  mb_good' \in BOOLEAN /\ mb_range' \in Seq(Ranges) /\ Len(mb_range') <= MaxMbRanges
<1>1. mb.have \in BOOLEAN /\ mb.ranges \in Seq(Ranges)
  BY DEF MbTables
<1>2. MaxMbRanges \in Nat
  BY AreasAssumption
<1>3. ASSUME NEW r \in Seq(Ranges)
      PROVE  Kept(r) \in Seq(Ranges) /\ Len(Kept(r)) <= MaxMbRanges
  <2> DEFINE n == IF Len(r) > MaxMbRanges THEN MaxMbRanges ELSE Len(r)
  <2>1. Len(r) \in Nat
    BY LenProperties
  <2>2. n \in Nat /\ n \in Int /\ 1 \in Int /\ n <= MaxMbRanges /\ n <= Len(r)
    BY <1>2, <2>1
  <2>3. Kept(r) = SubSeq(r, 1, n)
    BY DEF Kept
  <2> HIDE DEF n
  <2>4. \A i \in 1..n : r[i] \in Ranges
    <3>1. \A i \in 1..n : i \in 1..Len(r)
      BY <2>1, <2>2
    <3>. QED
      BY <3>1, ElementOfSeq
  <2>5. SubSeq(r, 1, n) \in Seq(Ranges)
    BY <2>2, <2>4, SubSeqProperties, Zenon
  <2>6. Len(SubSeq(r, 1, n)) <= n
    <3> DEFINE d == SubSeq(r, 1, n)
    <3>1. \A m, k \in Int : (\A i \in m..k : r[i] \in Ranges)
            => Len(SubSeq(r, m, k)) = IF m <= k THEN k - m + 1 ELSE 0
      BY SubSeqProperties, Zenon
    <3>2. Len(d) = IF 1 <= n THEN n - 1 + 1 ELSE 0
      BY <2>2, <2>4, <3>1
    <3> HIDE DEF d
    <3>3. Len(d) <= n
      BY <2>2, <3>2
    <3>. QED
      BY <3>3 DEF d
  <2>. QED
    BY <1>2, <2>2, <2>3, <2>5, <2>6
<1>4. <<>> \in Seq(Ranges) /\ Len(<<>>) = 0
  BY EmptySeq
<1>5. mb_good' = mb.have /\ \/ \E r \in Seq(Ranges) : mb_range' = Kept(r)
                            \/ mb_range' = <<>>
  BY <1>1, <1>4 DEF multiboot_module_init
<1>6. CASE mb_range' = <<>>
  BY <1>1, <1>2, <1>4, <1>5, <1>6
<1>7. CASE \E r \in Seq(Ranges) : mb_range' = Kept(r)
  <2>1. PICK r \in Seq(Ranges) : mb_range' = Kept(r)
    BY <1>7
  <2>2. Kept(r) \in Seq(Ranges) /\ Len(Kept(r)) <= MaxMbRanges
    BY <1>3
  <2>. QED
    BY <1>1, <1>5, <2>1, <2>2
<1>. QED
  BY <1>5, <1>6, <1>7

-----------------------------------------------------------------------------
(* The CPU window.                                                          *)

FactNames == {"Vendor", "Processor", "Family", "Model", "Stepping", "Brand", "Error", "Speed"}

LEMMA FactsLength ==
  Len(Facts) \in {6, 7}
<1> DEFINE a == <<"Vendor", "Processor", "Family", "Model", "Stepping">>
           b == IF cpu.vendor = "AMD" THEN <<"Brand">> ELSE <<>>
           c == <<IF cpu_khz = 0 THEN "Error" ELSE "Speed">>
<1>1. a \in Seq(FactNames) /\ Len(a) = 5
  BY DEF FactNames
<1>2. b \in Seq(FactNames) /\ Len(b) \in {0, 1}
  <2>1. CASE cpu.vendor = "AMD"
    <3>1. b = <<"Brand">>
      BY <2>1
    <3>2. <<"Brand">> \in Seq(FactNames) /\ Len(<<"Brand">>) = 1
      BY DEF FactNames
    <3> HIDE DEF b
    <3>. QED
      BY <3>1, <3>2
  <2>2. CASE cpu.vendor # "AMD"
    <3>1. b = <<>>
      BY <2>2
    <3>. QED
      BY <3>1, EmptySeq
  <2>. QED
    BY <2>1, <2>2
<1>3. c \in Seq(FactNames) /\ Len(c) = 1
  BY DEF FactNames
<1>4. Facts = (a \o b) \o c
  BY DEF Facts
<1> HIDE DEF a, b, c
<1>5. a \o b \in Seq(FactNames) /\ Len(a \o b) = Len(a) + Len(b)
  BY <1>1, <1>2, ConcatProperties
<1>6. (a \o b) \o c \in Seq(FactNames) /\ Len((a \o b) \o c) = Len(a \o b) + Len(c)
  BY <1>3, <1>5, ConcatProperties
<1>. QED
  BY <1>1, <1>2, <1>3, <1>4, <1>5, <1>6

(* The rows of the window, with n facts above. *)
Placed(s, n) ==
  \/ \E k \in 1..n : s.what = Facts[k] /\ s.row = k + 1
  \/ s.what = "Features" /\ s.row = n + 3
  \/ s.what = "edx" /\ s.row \in {n + 4, n + 5}
  \/ s.what = "ExtendedFlags" /\ s.row = n + 6
  \/ s.what \in FlagLists \ {"edx"} /\ s.row \in n + 7..n + 10

LEMMA DecodedRows ==
  ASSUME NEW list, NEW reg, NEW named, NEW row \in Nat
  PROVE  /\ \A s \in decode_flags(list, reg, named, row) :
              s.what = list /\ s.bit \in reg /\ s.row \in {row, row + 1}
         /\ GivenBack(named, row) \in {row, row + 1}
  BY DEF decode_flags, RowAfter, GivenBack

LEMMA FeatureRows ==
  ASSUME cpu \in Cpus, NEW n \in Nat
  PROVE  \A s \in get_features(n + 3) : s.bit \in Bits /\ Placed(s, n)
<1> DEFINE row == n + 3
           generic == decode_flags("edx", cpu.edx, generic_cap_flags, row + 1)
           heading == GivenBack(generic_cap_flags, row + 1) + 1
           named == vendor_flags[cpu.vendor]
           flags1 == named.ecx
           flags2 == named.ext_edx
           flags3 == named.ext_ecx
           edxRow == GivenBack(flags1, heading + 1)
           ecxRow == GivenBack(flags2, edxRow)
           ecx == decode_flags("ecx", cpu.ecx, flags1, heading + 1)
           ext_edx == decode_flags("ext_edx", cpu.ext_edx, flags2, edxRow)
           ext_ecx == decode_flags("ext_ecx", cpu.ext_ecx, flags3, ecxRow)
<1>1. cpu.edx \subseteq Bits /\ cpu.ecx \subseteq Bits /\ cpu.ext_edx \subseteq Bits
      /\ cpu.ext_ecx \subseteq Bits /\ 0 \in Bits
  BY DEF Cpus, Bits
<1>2. row + 1 = n + 4 /\ row + 1 \in Nat
  OBVIOUS
<1>3. heading = n + 6 /\ heading + 1 = n + 7 /\ heading + 1 \in Nat
  BY DEF GivenBack, RowAfter, generic_cap_flags, Bits
<1>4. ASSUME NEW s \in get_features(row)
      PROVE  \/ s = Text("Features", row) \/ s \in generic
             \/ s = Text("ExtendedFlags", heading) \/ s \in ecx \cup ext_edx \cup ext_ecx
  BY <1>4 DEF get_features
<1> HIDE DEF heading, flags1, flags2, flags3
<1>5. edxRow \in {n + 7, n + 8} /\ edxRow \in Nat
  <2>1. edxRow \in {heading + 1, (heading + 1) + 1}
    BY <1>3, DecodedRows
  <2>. QED
    BY <1>3, <2>1
<1>6. \A s \in ecx : s.what = "ecx" /\ s.bit \in Bits /\ s.row \in {n + 7, n + 8}
  BY <1>1, <1>3, DecodedRows
<1> HIDE DEF edxRow
<1>7. ecxRow \in {n + 7, n + 8, n + 9} /\ ecxRow \in Nat
  <2>1. ecxRow \in {edxRow, edxRow + 1}
    BY <1>5, DecodedRows
  <2>. QED
    BY <1>5, <2>1
<1>8. \A s \in ext_edx : s.what = "ext_edx" /\ s.bit \in Bits /\ s.row \in {n + 7, n + 8, n + 9}
  BY <1>1, <1>5, DecodedRows
<1> HIDE DEF ecxRow
<1>9. \A s \in ext_ecx : /\ s.what = "ext_ecx" /\ s.bit \in Bits
                         /\ s.row \in {n + 7, n + 8, n + 9, n + 10}
  BY <1>1, <1>7, DecodedRows
<1>10. \A s \in generic : s.what = "edx" /\ s.bit \in Bits /\ s.row \in {n + 4, n + 5}
  BY <1>1, <1>2, DecodedRows
<1> HIDE DEF generic, ecx, ext_edx, ext_ecx
<1>11. TAKE s \in get_features(row)
<1>12. CASE s = Text("Features", row)
  BY <1>1, <1>12 DEF Text, Placed
<1>13. CASE s \in generic
  BY <1>10, <1>13 DEF Placed
<1>14. CASE s = Text("ExtendedFlags", heading)
  BY <1>1, <1>3, <1>14 DEF Text, Placed
<1>15. CASE s \in ecx \cup ext_edx \cup ext_ecx
  <2>1. s.what \in FlagLists \ {"edx"} /\ s.bit \in Bits
    BY <1>6, <1>8, <1>9, <1>15 DEF FlagLists
  <2>2. s.row \in {n + 7, n + 8, n + 9, n + 10}
    BY <1>6, <1>8, <1>9, <1>15
  <2>3. s.row \in n + 7..n + 10
    BY <2>2
  <2>. QED
    BY <2>1, <2>3 DEF Placed
<1>. QED
  BY <1>4, <1>12, <1>13, <1>14, <1>15

LEMMA RowsApart ==
  ASSUME NEW n \in {6, 7}, NEW s, NEW t, Placed(s, n), Placed(t, n), s.row = t.row
  PROVE  s.what = t.what \/ {s.what, t.what} \subseteq FlagLists \ {"edx"}
<1>1. s.row < n + 7 => s.what = t.what
  BY DEF Placed
<1>2. s.row >= n + 7 => {s.what, t.what} \subseteq FlagLists \ {"edx"}
  BY DEF Placed
<1>3. s.row \in Nat
  BY DEF Placed
<1>. QED
  BY <1>1, <1>2, <1>3

LEMMA RedrawApart ==
  ASSUME cpu \in Cpus, cpuinfo_module_redraw
  PROVE  FactsStay' /\ \A t \in cpu_screen' : t.bit \in Bits /\ t.row \in 2..20
<1> DEFINE n == Len(Facts)
<1>1. n \in {6, 7}
  BY FactsLength
<1>2. cpu_screen' = {Text(Facts[k], k + 1) : k \in 1..n} \cup get_features(n + 3)
  BY DEF cpuinfo_module_redraw
<1> HIDE DEF n
<1>3. \A s \in cpu_screen' : s.bit \in Bits /\ Placed(s, n)
  <2>1. TAKE s \in cpu_screen'
  <2>2. CASE s \in get_features(n + 3)
    BY <1>1, <2>2, FeatureRows
  <2>3. CASE s \in {Text(Facts[k], k + 1) : k \in 1..n}
    BY <2>3 DEF Text, Placed, Bits
  <2>. QED
    BY <1>2, <2>2, <2>3
<1>4. \A s \in cpu_screen' : s.row \in 2..20
  BY <1>1, <1>3 DEF Placed
<1>. QED
  BY <1>1, <1>3, <1>4, RowsApart DEF FactsStay


-----------------------------------------------------------------------------
(* The inductive invariant, part by part.                                   *)

LogPart == LogTypes /\ LogInv
CbfsPart == CbfsTypes /\ CbfsInv
TabPart == TableTypes /\ TabInv
CpuPart == CpuTypes /\ FactsStay /\ cpu \in Cpus

Inits == {"cpuinfo", "coreboot", "multiboot", "bootlog", "cbfs", "timestamps"}

ShellPart ==
  /\ stage \in Inits \cup {"loop", "undef", "exited"}
  /\ viewer \in Modules \cup {"none"}
  /\ ram_cursor \in 0..RamMax
  /\ machine.console \in Consoles \cup {Missing}
  /\ machine.text \in Texts \cup {Missing, NoTick}
  /\ machine.mb \in MbTables

(* What the inits to come have not touched yet, and those that ran have.    *)
StagePart ==
  /\ stage \in {"cpuinfo", "coreboot", "multiboot", "bootlog"} => g_buf["bootlog"] = <<>>
  /\ stage \in Inits => /\ g_buf["timestamps"] = <<>> /\ viewer = "none"
                        /\ \A v \in LogViews : g_line[v] = 0
  /\ stage \in {"timestamps", "loop"} => walk = "done"

(* What is on the screen of the CBFS module is of the selected name. *)
DescribedPart ==
  viewer = "cbfs" /\ stage = "loop" => CanDraw(selected) /\ described = FileOn(selected)

Inv ==
  /\ LogPart /\ CbfsPart /\ TabPart /\ CpuPart
  /\ ShellPart /\ StagePart /\ DescribedPart
  /\ NothingIsCut /\ UndefinedOnlyThere

(* What a step leaves alone stays as it is. *)
LEMMA LogSame ==
  ASSUME LogPart, UNCHANGED logVars
  PROVE  LogPart'
  BY DEF LogPart, logVars, LogTypes, LogInv, ViewFits

LEMMA CbfsSame ==
  ASSUME CbfsPart, UNCHANGED <<image, walk, f, filecount, filenames, selected, start_row>>,
         described' \in Flash \cup {NoFile}
  PROVE  CbfsPart'
<1>1. CbfsTypes'
  BY DEF CbfsPart, CbfsTypes
<1>2. selected = 0 \/ selected < filecount
  BY DEF CbfsPart, CbfsInv
<1>3. CbfsInv'
  BY <1>2, CbfsStays DEF CbfsPart
<1>. QED
  BY <1>1, <1>3 DEF CbfsPart

LEMMA CbfsUnchanged ==
  ASSUME CbfsPart, UNCHANGED cbfsVars
  PROVE  CbfsPart'
  BY CbfsSame DEF cbfsVars, CbfsPart, CbfsTypes

LEMMA TabSame ==
  ASSUME TabPart, UNCHANGED <<tableVars, mbVars>>
  PROVE  TabPart'
<1>1. UNCHANGED <<tables, area, record, second, tables_good, mem_count, range, kept, mb_good, mb_range>>
  BY DEF tableVars, mbVars
<1>2. TableTypes'
  BY <1>1 DEF TabPart, TableTypes, Found
<1>3. TabInv'
  BY <1>1 DEF TabPart, TabInv, Reading, KeptOfOne, ForwardFirst, Forwards, Found, Here, Parsing
<1>. QED
  BY <1>2, <1>3 DEF TabPart

LEMMA CpuSame ==
  ASSUME CpuPart, UNCHANGED cpuVars
  PROVE  CpuPart'
  BY DEF CpuPart, cpuVars, CpuTypes, FactsStay

LEMMA CutSame ==
  ASSUME NothingIsCut, UNCHANGED g_buf, machine' = machine
  PROVE  NothingIsCut'
  BY DEF NothingIsCut

(* The file on the screen is a matter of the list. *)
LEMMA FileOnSame ==
  ASSUME UNCHANGED <<image, filenames>>
  PROVE  /\ \A sel : CanDraw(sel)' <=> CanDraw(sel)
         /\ \A sel : FileOn(sel)' = FileOn(sel)
<1>1. Walked' = Walked /\ HeaderFound' = HeaderFound
  BY SameImage
<1>2. \A name : findfile(name)' = findfile(name)
  BY <1>1 DEF findfile
<1>3. \A sel : CanDraw(sel)' <=> CanDraw(sel)
  BY <1>1 DEF CanDraw
<1>. QED
  BY <1>1, <1>2, <1>3 DEF FileOn

LEMMA InvInit ==
  ASSUME Init
  PROVE  Inv
<1>1. PICK m \in Machines : /\ machine = [console |-> m.console, text |-> m.text, mb |-> m.mb]
                            /\ image = m.image /\ tables = m.tables /\ cpu = m.cpu
  BY DEF Init
<1>2. /\ m.console \in Consoles \cup {Missing} /\ m.text \in Texts \cup {Missing, NoTick}
      /\ m.image \in Images /\ m.tables \in [Addresses -> Tables \cup {NoTable}]
      /\ m.mb \in MbTables /\ m.cpu \in Cpus
  BY <1>1, MachinesAssumption
<1>3. LogPart
  <2>1. /\ g_buf = [v \in LogViews |-> <<>>] /\ alloc = [v \in LogViews |-> 0]
        /\ g_line = [v \in LogViews |-> 0] /\ g_max_cursor_line = [v \in LogViews |-> 0]
    BY DEF Init, LogInit
  <2>2. <<>> \in Seq(Chars) /\ Len(<<>>) = 0 /\ 0 % ScreenX = 0
    BY EmptySeq, ScreenAssumption
  <2>3. g_buf \in [LogViews -> Seq(Chars)] /\ \A v \in LogViews : Len(g_buf[v]) % ScreenX = 0
    BY <2>1, <2>2
  <2>. QED
    BY <2>1, <2>3 DEF LogPart, LogTypes, LogInv, ViewFits
<1>4. CbfsPart
  <2>1. /\ walk = "off" /\ f = 0 /\ filecount = 0 /\ filenames = <<>>
        /\ selected = 0 /\ start_row = 0 /\ described = NoFile
    BY DEF Init
  <2>2. CbfsTypes
    BY <1>1, <1>2, <2>1, EmptySeq, FlashFacts DEF CbfsTypes
  <2>. QED
    BY <2>1, <2>2 DEF CbfsPart, CbfsInv
<1>5. TabPart
  <2>1. /\ area = LowArea /\ record = 0 /\ second = FALSE /\ tables_good = "unknown"
        /\ mem_count = 0 /\ range = [k \in 1..MaxRanges |-> Nowhere]
        /\ kept = [i \in Items |-> Nowhere] /\ mb_good = FALSE /\ mb_range = <<>>
    BY DEF Init, TablesInit
  <2>2. \A a \in Addresses : Found(a) => tables[a] \in Tables
    BY <1>1, <1>2 DEF Found
  <2>3. <<>> \in Seq(Ranges) /\ Len(<<>>) = 0
    BY EmptySeq
  <2>4. TableTypes
    <3>1. mem_count \in 0..MaxRanges /\ \A k \in 1..mem_count : range[k] # Nowhere
      BY <2>1, AreasAssumption
    <3>2. /\ range \in [1..MaxRanges -> Ranges \cup {Nowhere}]
          /\ kept \in [Items -> Addresses \cup {Nowhere}]
      BY <2>1
    <3>3. mb_range \in Seq(Ranges) /\ Len(mb_range) <= MaxMbRanges
      BY <2>1, <2>3, AreasAssumption
    <3>4. area \in Seq(Addresses) /\ record \in Nat /\ second \in BOOLEAN /\ mb_good \in BOOLEAN
      BY <2>1, AreasAssumption
    <3>. QED
      BY <2>1, <2>2, <3>1, <3>2, <3>3, <3>4 DEF TableTypes
  <2>5. TabInv
    BY <2>1 DEF TabInv, Reading, KeptOfOne, Parsing
  <2>. QED
    BY <2>4, <2>5 DEF TabPart
<1>6. CpuPart
  BY <1>1, <1>2, KhzAssumption DEF Init, CpuInit, CpuPart, CpuTypes, FactsStay
<1>7. ShellPart
  BY <1>1, <1>2, RamAssumption DEF Init, ShellPart, Inits
<1>8. StagePart
  BY DEF Init, LogInit, StagePart, LogViews
<1>9. DescribedPart /\ UndefinedOnlyThere
  BY DEF Init, DescribedPart, UndefinedOnlyThere
<1>10. NothingIsCut
  BY DEF Init, LogInit, NothingIsCut, LogViews
<1>. QED
  BY <1>3, <1>4, <1>5, <1>6, <1>7, <1>8, <1>9, <1>10 DEF Inv


-----------------------------------------------------------------------------
(* The inits keep it.                                                       *)

LEMMA CpuinfoKeeps ==
  ASSUME Inv, CpuinfoInit
  PROVE  Inv'
<1>1. /\ stage = "cpuinfo" /\ stage' = "coreboot" /\ cpuinfo_module_init
      /\ UNCHANGED <<logVars, cbfsVars, tableVars, mbVars, shellVars>>
  BY DEF CpuinfoInit
<1>2. machine' = machine /\ viewer' = viewer /\ ram_cursor' = ram_cursor
      /\ g_buf' = g_buf /\ g_line' = g_line
  BY <1>1 DEF shellVars, logVars
<1>3. LogPart' /\ CbfsPart' /\ TabPart'
  BY <1>1, LogSame, CbfsUnchanged, TabSame DEF Inv
<1>4. CpuPart'
  <2>1. cpu' = cpu /\ cpu_screen' = cpu_screen /\ cpu_khz' = (cpu.ticks \div 100) % KhzValues
    BY <1>1 DEF cpuinfo_module_init
  <2>2. cpu.ticks \in Nat
    BY DEF Inv, CpuPart, Cpus
  <2>3. cpu_khz' \in 0..KhzValues - 1
    <3>1. (cpu.ticks \div 100) \in Nat
      BY <2>2
    <3>. QED
      BY <2>1, <3>1, KhzAssumption, LineArithmetic
  <2>. QED
    BY <2>1, <2>3 DEF Inv, CpuPart, CpuTypes, FactsStay
<1>5. ShellPart' /\ StagePart' /\ DescribedPart' /\ UndefinedOnlyThere'
  BY <1>1, <1>2 DEF Inv, ShellPart, StagePart, DescribedPart, UndefinedOnlyThere, Inits
<1>6. NothingIsCut'
  BY <1>2, CutSame DEF Inv
<1>. QED
  BY <1>3, <1>4, <1>5, <1>6 DEF Inv

LEMMA CorebootKeeps ==
  ASSUME Inv, CorebootInit
  PROVE  Inv'
<1>1. /\ stage = "coreboot" /\ stage' \in {"coreboot", "multiboot"} /\ ParseTables
      /\ UNCHANGED <<logVars, cbfsVars, mbVars, cpuVars, shellVars>>
  BY DEF CorebootInit
<1>2. machine' = machine /\ viewer' = viewer /\ ram_cursor' = ram_cursor
      /\ g_buf' = g_buf /\ g_line' = g_line
  BY <1>1 DEF shellVars, logVars
<1>3. LogPart' /\ CbfsPart' /\ CpuPart'
  BY <1>1, LogSame, CbfsUnchanged, CpuSame DEF Inv
<1>4. TabPart'
  BY <1>1, ParseKeeps DEF Inv, TabPart
<1>5. ShellPart' /\ StagePart' /\ DescribedPart' /\ UndefinedOnlyThere'
  BY <1>1, <1>2 DEF Inv, ShellPart, StagePart, DescribedPart, UndefinedOnlyThere, Inits
<1>6. NothingIsCut'
  BY <1>2, CutSame DEF Inv
<1>. QED
  BY <1>3, <1>4, <1>5, <1>6 DEF Inv

LEMMA MultibootInitKeeps ==
  ASSUME Inv, MultibootInit
  PROVE  Inv'
<1>1. /\ stage = "multiboot" /\ stage' = "bootlog"
      /\ multiboot_module_init(machine.mb.have, machine.mb.mmap, machine.mb.ranges,
                               {<<>>, machine.mb.ranges})
      /\ UNCHANGED <<logVars, cbfsVars, tableVars, cpuVars, shellVars>>
  BY DEF MultibootInit
<1>2. machine' = machine /\ viewer' = viewer /\ ram_cursor' = ram_cursor
      /\ g_buf' = g_buf /\ g_line' = g_line
  BY <1>1 DEF shellVars, logVars
<1>3. LogPart' /\ CbfsPart' /\ CpuPart'
  BY <1>1, LogSame, CbfsUnchanged, CpuSame DEF Inv
<1>4. TabPart'
  <2>1. UNCHANGED <<tables, area, record, second, tables_good, mem_count, range, kept>>
    BY <1>1 DEF tableVars
  <2>2. PICK mb \in MbTables :
          multiboot_module_init(mb.have, mb.mmap, mb.ranges, {<<>>, mb.ranges})
    BY <1>1 DEF Inv, ShellPart
  <2>3. mb_good' \in BOOLEAN /\ mb_range' \in Seq(Ranges) /\ Len(mb_range') <= MaxMbRanges
    BY <2>2, MultibootKeeps
  <2>4. TableTypes'
    BY <2>1, <2>3 DEF Inv, TabPart, TableTypes, Found
  <2>5. TabInv'
    BY <2>1 DEF Inv, TabPart, TabInv, Reading, KeptOfOne, ForwardFirst, Forwards, Found, Here,
                Parsing
  <2>. QED
    BY <2>4, <2>5 DEF TabPart
<1>5. ShellPart' /\ StagePart' /\ DescribedPart' /\ UndefinedOnlyThere'
  BY <1>1, <1>2 DEF Inv, ShellPart, StagePart, DescribedPart, UndefinedOnlyThere, Inits
<1>6. NothingIsCut'
  BY <1>2, CutSame DEF Inv
<1>. QED
  BY <1>3, <1>4, <1>5, <1>6 DEF Inv


LEMMA BootlogKeeps ==
  ASSUME Inv, BootlogInit
  PROVE  Inv'
<1> DEFINE console == machine.console
           cells == BootlogCells(console)
           text == Older(console) \o Newer(console)
           size == calculate_chars_count(Newer(console))
<1>1. /\ stage = "bootlog"
      /\ IF console = Missing THEN UNCHANGED logVars ELSE bootlog_module_init(console)
      /\ stage' = IF Len(g_buf'["bootlog"]) > alloc'["bootlog"] THEN "undef" ELSE "cbfs"
      /\ UNCHANGED <<cbfsVars, tableVars, mbVars, cpuVars, shellVars>>
  BY DEF BootlogInit
<1>2. machine' = machine /\ viewer' = viewer /\ ram_cursor' = ram_cursor /\ viewer = "none"
      /\ stage' \in {"undef", "cbfs"}
      /\ g_buf["bootlog"] = <<>> /\ g_buf["timestamps"] = <<>>
      /\ \A v \in LogViews : g_line[v] = 0
  BY <1>1 DEF shellVars, Inv, StagePart, Inits
<1>3. CbfsPart' /\ TabPart' /\ CpuPart'
  BY <1>1, CbfsUnchanged, TabSame, CpuSame DEF Inv
<1>4. "bootlog" \in LogViews /\ "timestamps" \in LogViews /\ "bootlog" # "timestamps"
  BY DEF LogViews
<1>5. CASE console = Missing
  <2>1. UNCHANGED logVars
    BY <1>1, <1>5
  <2>2. g_buf' = g_buf /\ alloc' = alloc /\ g_line' = g_line /\ alloc["bootlog"] \in Nat
    BY <1>4, <2>1 DEF logVars, Inv, LogPart, LogTypes
  <2>3. stage' = "cbfs"
    <3>1. Len(<<>>) = 0
      OBVIOUS
    <3>. QED
      BY <1>1, <1>2, <2>2, <3>1
  <2>4. LogPart' /\ NothingIsCut'
    BY <1>2, <2>1, <2>2, LogSame, CutSame DEF Inv
  <2>5. ShellPart' /\ StagePart' /\ DescribedPart' /\ UndefinedOnlyThere'
    BY <1>1, <1>2, <2>2, <2>3 DEF Inv, ShellPart, StagePart, DescribedPart, UndefinedOnlyThere, Inits
  <2>. QED
    BY <1>3, <2>4, <2>5 DEF Inv
<1>6. CASE console # Missing
  <2>1. console \in Consoles
    BY <1>6 DEF Inv, ShellPart
  <2>2. ShowsText(cells, text) /\ (~console.overflow => Len(cells) = size)
    BY <2>1, BootlogFacts
  <2>3. size \in Nat
    BY <2>1, ConsoleTexts, CountFacts
  <2>4. Laid("bootlog", cells, size) \/ NoRoom("bootlog", cells)
    BY <1>1, <1>6 DEF bootlog_module_init
  <2> HIDE DEF cells, text, size
  <2>5. /\ LogTypes' /\ LogInv' /\ g_line' = g_line
        /\ g_buf'["bootlog"] \in {<<>>, cells}
        /\ g_buf'["timestamps"] = g_buf["timestamps"]
    BY <1>2, <1>4, <2>2, <2>3, <2>4, LaidKeeps DEF Inv, LogPart
  <2>6. NothingIsCut'
    <3>1. g_buf'["bootlog"] # <<>> => OnlyGlyphs(g_buf'["bootlog"]) = OnlyGlyphs(text)
      BY <2>2, <2>5 DEF ShowsText
    <3>. QED
      BY <1>2, <2>5, <3>1 DEF NothingIsCut, text
  <2>7. stage' = "undef" => console.overflow
    <3>1. SUFFICES ASSUME ~console.overflow PROVE ~(Len(g_buf'["bootlog"]) > alloc'["bootlog"])
      BY <1>1
    <3>2. alloc \in [LogViews -> Nat]
      BY DEF Inv, LogPart, LogTypes
    <3>3. CASE Laid("bootlog", cells, size)
      <4>1. g_buf'["bootlog"] = cells /\ alloc'["bootlog"] = size
        BY <1>4, <3>2, <3>3 DEF Laid, Inv, LogPart, LogTypes
      <4>. QED
        BY <2>2, <2>3, <3>1, <4>1
    <3>4. CASE NoRoom("bootlog", cells)
      <4>1. g_buf'["bootlog"] = <<>> /\ alloc'["bootlog"] \in Nat /\ Len(<<>>) = 0
        BY <1>2, <1>4, <3>2, <3>4 DEF NoRoom
      <4>. QED
        BY <4>1
    <3>. QED
      BY <2>4, <3>3, <3>4
  <2>8. ShellPart' /\ StagePart' /\ DescribedPart'
    BY <1>1, <1>2, <2>5 DEF Inv, ShellPart, StagePart, DescribedPart, Inits
  <2>9. UndefinedOnlyThere'
    BY <1>2, <2>7 DEF UndefinedOnlyThere
  <2>. QED
    BY <1>3, <2>5, <2>6, <2>8, <2>9 DEF Inv, LogPart
<1>. QED
  BY <1>5, <1>6

LEMMA CbfsInitKeeps ==
  ASSUME Inv, CbfsInit
  PROVE  Inv'
<1>1. /\ stage = "cbfs" /\ (CbfsHeader \/ CbfsScan)
      /\ stage' = IF walk' = "done" THEN "timestamps" ELSE "cbfs"
      /\ UNCHANGED <<logVars, tableVars, mbVars, cpuVars, shellVars>>
  BY DEF CbfsInit
<1>2. machine' = machine /\ viewer' = viewer /\ ram_cursor' = ram_cursor
      /\ g_buf' = g_buf /\ g_line' = g_line
  BY <1>1 DEF shellVars, logVars
<1>3. LogPart' /\ TabPart' /\ CpuPart'
  BY <1>1, LogSame, TabSame, CpuSame DEF Inv
<1>4. CbfsPart'
  BY <1>1, CbfsInvScan, CbfsTypesScan DEF Inv, CbfsPart
<1>5. ShellPart' /\ StagePart' /\ DescribedPart' /\ UndefinedOnlyThere'
  BY <1>1, <1>2 DEF Inv, ShellPart, StagePart, DescribedPart, UndefinedOnlyThere, Inits
<1>6. NothingIsCut'
  BY <1>2, CutSame DEF Inv
<1>. QED
  BY <1>3, <1>4, <1>5, <1>6 DEF Inv

LEMMA TimestampsKeeps ==
  ASSUME Inv, TimestampsInit
  PROVE  Inv'
<1> DEFINE text == machine.text
           chars == text.chars
           cells == TimestampsCells(chars)
<1>1. /\ stage = "timestamps" /\ stage' \in {"exited", "loop"}
      /\ UNCHANGED <<cbfsVars, tableVars, mbVars, cpuVars, shellVars>>
      /\ \/ UNCHANGED logVars
         \/ text \notin {NoTick, Missing} /\ timestamps_module_init(chars)
  BY DEF TimestampsInit
<1>2. machine' = machine /\ viewer' = viewer /\ ram_cursor' = ram_cursor /\ viewer = "none"
      /\ walk' = walk /\ walk = "done"
      /\ g_buf["timestamps"] = <<>> /\ \A v \in LogViews : g_line[v] = 0
  BY <1>1 DEF shellVars, cbfsVars, Inv, StagePart, Inits
<1>3. CbfsPart' /\ TabPart' /\ CpuPart'
  BY <1>1, CbfsUnchanged, TabSame, CpuSame DEF Inv
<1>4. "bootlog" \in LogViews /\ "timestamps" \in LogViews /\ "bootlog" # "timestamps"
  BY DEF LogViews
<1>5. ShellPart' /\ StagePart' /\ DescribedPart' /\ UndefinedOnlyThere'
  BY <1>1, <1>2 DEF Inv, ShellPart, StagePart, DescribedPart, UndefinedOnlyThere, Inits
<1>6. LogPart' /\ NothingIsCut'
  <2>1. CASE UNCHANGED logVars
    <3>1. g_buf' = g_buf
      BY <2>1 DEF logVars
    <3>. QED
      BY <1>2, <2>1, <3>1, LogSame, CutSame DEF Inv
  <2>2. CASE text \notin {NoTick, Missing} /\ timestamps_module_init(chars) /\ ~UNCHANGED logVars
    <3>1. chars \in Seq(Chars)
      BY <2>2 DEF Inv, ShellPart, Texts
    <3>2. ShowsText(cells, chars)
      BY <3>1, LaidOut DEF TimestampsCells
    <3>3. Laid("timestamps", cells, Len(cells)) \/ NoRoom("timestamps", cells)
      BY <2>2 DEF timestamps_module_init
    <3> HIDE DEF cells
    <3>4. Len(cells) \in Nat
      BY <3>2, LenProperties DEF ShowsText
    <3>5. /\ LogTypes' /\ LogInv' /\ g_line' = g_line
          /\ g_buf'["timestamps"] \in {<<>>, cells}
          /\ g_buf'["bootlog"] = g_buf["bootlog"]
      BY <1>2, <1>4, <3>2, <3>3, <3>4, LaidKeeps DEF Inv, LogPart
    <3>6. g_buf'["timestamps"] # <<>> => OnlyGlyphs(g_buf'["timestamps"]) = OnlyGlyphs(chars)
      BY <3>2, <3>5 DEF ShowsText
    <3>7. NothingIsCut'
      BY <1>2, <3>5, <3>6 DEF Inv, NothingIsCut
    <3>. QED
      BY <3>5, <3>7 DEF LogPart
  <2>. QED
    BY <1>1, <2>1, <2>2
<1>. QED
  BY <1>3, <1>5, <1>6 DEF Inv


-----------------------------------------------------------------------------
(* The user's steps keep it.                                                *)

(* A name is missing only in a list that has none. *)
LEMMA NamesSuffice ==
  ASSUME CbfsPart, walk = "done", NEW sel \in Nat, sel = 0 \/ sel < filecount, ~CanDraw(sel)
  PROVE  HeaderFound /\ filenames = <<>>
<1>1. HeaderFound /\ ~(sel < Len(filenames))
  BY DEF CanDraw
<1>2. filenames \in Seq(FileNames) /\ filecount \in Nat /\ image \in Images
  BY DEF CbfsPart, CbfsTypes
<1>3. ASSUME filenames # <<>> PROVE FALSE
  <2>1. filecount = Len(Walked) /\ filenames = Names(Walked)
    BY <1>3 DEF CbfsPart, CbfsInv, Counted
  <2>2. Len(filenames) = filecount
    BY <1>2, <2>1, WalkedType, NamesFacts
  <2>3. Len(filenames) > 0
    BY <1>2, <1>3, EmptySeq
  <2>. QED
    BY <1>1, <1>2, <2>2, <2>3
<1>. QED
  BY <1>1, <1>3

LEMMA ShowKeeps ==
  ASSUME Inv, NEW m \in Modules, Show(m)
  PROVE  Inv'
<1>1. /\ stage = "loop" /\ viewer' = m
      /\ described' = IF m = "cbfs" THEN FileOn(selected) ELSE described
      /\ IF m = "cpuinfo" THEN cpuinfo_module_redraw ELSE UNCHANGED cpuVars
      /\ stage' = IF (m = "cbfs" /\ ~CanDraw(selected)) \/ (m = "cpuinfo" /\ ~NameEnds)
                  THEN "undef" ELSE stage
      /\ UNCHANGED <<image, walk, f, filecount, filenames, selected, start_row>>
      /\ UNCHANGED <<logVars, tableVars, mbVars>>
      /\ machine' = machine /\ ram_cursor' = ram_cursor
  BY DEF Show
<1>2. /\ g_buf' = g_buf /\ g_line' = g_line /\ walk = "done"
      /\ image \in Images /\ selected \in Nat /\ (selected = 0 \/ selected < filecount)
      /\ described \in Flash \cup {NoFile}
  BY <1>1 DEF logVars, Inv, StagePart, CbfsPart, CbfsTypes, CbfsInv
<1>3. LogPart' /\ TabPart'
  BY <1>1, LogSame, TabSame DEF Inv
<1>4. CbfsPart'
  <2>1. described' \in Flash \cup {NoFile}
    BY <1>1, <1>2, FileOnType
  <2>. QED
    BY <1>1, <2>1, CbfsSame DEF Inv
<1>5. CpuPart'
  <2>1. CASE m = "cpuinfo"
    <3>1. cpu' = cpu /\ cpu_khz' = cpu_khz /\ cpuinfo_module_redraw /\ cpu \in Cpus
      BY <1>1, <2>1 DEF cpuinfo_module_redraw, Inv, CpuPart
    <3>2. FactsStay' /\ \A t \in cpu_screen' : t.bit \in Bits /\ t.row \in 2..20
      BY <3>1, RedrawApart
    <3>. QED
      BY <3>1, <3>2 DEF Inv, CpuPart, CpuTypes
  <2>2. CASE m # "cpuinfo"
    BY <1>1, <2>2, CpuSame DEF Inv
  <2>. QED
    BY <2>1, <2>2
<1>6. ShellPart' /\ StagePart'
  BY <1>1, <1>2 DEF Inv, ShellPart, StagePart, Inits
<1>7. DescribedPart'
  <2>1. SUFFICES ASSUME m = "cbfs", stage' = "loop"
                 PROVE  CanDraw(selected)' /\ described' = FileOn(selected)'
    BY <1>1 DEF DescribedPart
  <2>2. CanDraw(selected) /\ described' = FileOn(selected)
    BY <1>1, <2>1
  <2>3. (CanDraw(selected)' <=> CanDraw(selected)) /\ FileOn(selected)' = FileOn(selected)
    <3>1. image' = image /\ filenames' = filenames /\ selected' = selected
      BY <1>1
    <3>2. Walked' = Walked /\ HeaderFound' = HeaderFound
      BY <3>1, SameImage
    <3>. QED
      BY <3>1, <3>2 DEF CanDraw, FileOn, findfile
  <2>. QED
    BY <2>2, <2>3
<1>8. NothingIsCut'
  BY <1>1, <1>2, CutSame DEF Inv
<1>9. UndefinedOnlyThere'
  <2>1. CASE m = "cbfs" /\ ~CanDraw(selected)
    <3>1. HeaderFound /\ filenames = <<>>
      BY <1>2, <2>1, NamesSuffice DEF Inv
    <3>. QED
      BY <1>1, <2>1, <3>1 DEF UndefinedOnlyThere, HeaderFound
  <2>2. CASE m = "cpuinfo" /\ ~NameEnds
    <3>1. cpu' = cpu
      BY <1>1, <2>2 DEF cpuinfo_module_redraw
    <3>2. ASSUME NEW k \in 1..Len(cpu.name), cpu.name[k] = "ends"
          PROVE  \E j \in 1..k : cpu.name[j] = "empty"
      <4>1. PICK j \in 1..k - 1 : cpu.name[j] = "empty"
        BY <2>2, <3>2 DEF NameEnds
      <4>2. k \in Int
        BY <3>2
      <4>3. j \in 1..k
        BY <4>2
      <4>. QED
        BY <4>1, <4>3
    <3>. QED
      BY <1>1, <2>2, <3>1, <3>2 DEF UndefinedOnlyThere
  <2>3. CASE stage' = "loop"
    BY <2>3 DEF UndefinedOnlyThere
  <2>. QED
    BY <1>1, <2>1, <2>2, <2>3
<1>. QED
  BY <1>3, <1>4, <1>5, <1>6, <1>7, <1>8, <1>9 DEF Inv

LEMMA ScrollLogKeeps ==
  ASSUME Inv, ScrollLog
  PROVE  Inv'
<1>1. /\ stage = "loop" /\ stage' = "loop" /\ viewer \in LogViews /\ LogKey(viewer)
      /\ UNCHANGED <<cbfsVars, tableVars, mbVars, cpuVars, shellVars>>
  BY DEF ScrollLog
<1>2. machine' = machine /\ viewer' = viewer /\ ram_cursor' = ram_cursor /\ walk' = walk
  BY <1>1 DEF shellVars, cbfsVars
<1>3. LogTypes' /\ LogInv' /\ g_buf' = g_buf
  BY <1>1, ScrollKeeps DEF Inv, LogPart
<1>4. CbfsPart' /\ TabPart' /\ CpuPart'
  BY <1>1, CbfsUnchanged, TabSame, CpuSame DEF Inv
<1>5. ShellPart' /\ StagePart'
  BY <1>1, <1>2 DEF Inv, ShellPart, StagePart, Inits
<1>6. DescribedPart' /\ UndefinedOnlyThere'
  <2>1. viewer' # "cbfs"
    BY <1>1, <1>2 DEF LogViews
  <2>. QED
    BY <1>1, <2>1 DEF DescribedPart, UndefinedOnlyThere
<1>7. NothingIsCut'
  BY <1>2, <1>3, CutSame DEF Inv
<1>. QED
  BY <1>3, <1>4, <1>5, <1>6, <1>7 DEF Inv, LogPart

LEMMA SelectFileKeeps ==
  ASSUME Inv, SelectFile
  PROVE  Inv'
<1>1. /\ stage = "loop" /\ viewer = "cbfs" /\ CbfsKey
      /\ stage' = IF CanDraw(selected') THEN "loop" ELSE "undef"
      /\ UNCHANGED <<logVars, tableVars, mbVars, cpuVars, shellVars>>
  BY DEF SelectFile
<1>2. machine' = machine /\ viewer' = "cbfs" /\ viewer' = viewer /\ ram_cursor' = ram_cursor
      /\ g_buf' = g_buf /\ walk = "done"
  BY <1>1 DEF shellVars, logVars, Inv, StagePart
<1>3. /\ UNCHANGED <<image, walk, f, filecount, filenames>>
      /\ CbfsTypes' /\ CbfsInv' /\ selected' \in Nat /\ described' = FileOn(selected')
      /\ selected' < filecount
  BY <1>1, CbfsTypesKey DEF Inv, CbfsPart, CbfsKey
<1>4. LogPart' /\ TabPart' /\ CpuPart'
  BY <1>1, LogSame, TabSame, CpuSame DEF Inv
<1>5. ShellPart' /\ StagePart'
  BY <1>1, <1>2, <1>3 DEF Inv, ShellPart, StagePart, Inits
<1>6. DescribedPart'
  <2>1. Walked' = Walked /\ HeaderFound' = HeaderFound
    BY <1>3, SameImage
  <2>2. (CanDraw(selected)' <=> CanDraw(selected')) /\ FileOn(selected)' = FileOn(selected')
    BY <1>3, <2>1 DEF CanDraw, FileOn, findfile
  <2>. QED
    BY <1>1, <1>3, <2>2 DEF DescribedPart
<1>7. UndefinedOnlyThere'
  <2>1. CASE CanDraw(selected')
    BY <1>1, <2>1 DEF UndefinedOnlyThere
  <2>2. CASE ~CanDraw(selected')
    <3> DEFINE sel == selected'
    <3>1. sel \in Nat /\ sel < filecount /\ ~CanDraw(sel)
      BY <1>3, <2>2
    <3> HIDE DEF sel
    <3>2. HeaderFound /\ filenames = <<>>
      BY <1>2, <3>1, NamesSuffice DEF Inv
    <3>. QED
      BY <1>2, <1>3, <3>2 DEF UndefinedOnlyThere, HeaderFound
  <2>. QED
    BY <2>1, <2>2
<1>8. NothingIsCut'
  BY <1>2, CutSame DEF Inv
<1>. QED
  BY <1>3, <1>4, <1>5, <1>6, <1>7, <1>8 DEF Inv, CbfsPart

LEMMA RamdumpKeeps ==
  ASSUME Inv, ramdump_module_handle
  PROVE  Inv'
<1>1. /\ stage = "loop" /\ stage' = stage /\ viewer = "ramdump" /\ viewer' = viewer
      /\ machine' = machine
      /\ UNCHANGED <<logVars, cbfsVars, tableVars, mbVars, cpuVars>>
  BY DEF ramdump_module_handle
<1>2. g_buf' = g_buf /\ walk' = walk
  BY <1>1 DEF logVars, cbfsVars
<1>3. ram_cursor' \in 0..RamMax
  <2>1. PICK d \in RamSteps \cup {-s : s \in RamSteps} : ram_cursor' = RamClamped(ram_cursor + d)
    BY DEF ramdump_module_handle
  <2>2. d \in Int /\ ram_cursor \in Int /\ RamMax \in Nat
    BY <2>1, RamAssumption DEF Inv, ShellPart
  <2>. QED
    BY <2>1, <2>2 DEF RamClamped
<1>4. LogPart' /\ CbfsPart' /\ TabPart' /\ CpuPart'
  BY <1>1, LogSame, CbfsUnchanged, TabSame, CpuSame DEF Inv
<1>5. ShellPart' /\ StagePart' /\ DescribedPart' /\ UndefinedOnlyThere'
  BY <1>1, <1>2, <1>3 DEF Inv, ShellPart, StagePart, DescribedPart, UndefinedOnlyThere, Inits
<1>6. NothingIsCut'
  BY <1>1, <1>2, CutSame DEF Inv
<1>. QED
  BY <1>4, <1>5, <1>6 DEF Inv


LEMMA StutterKeeps ==
  ASSUME Inv, UNCHANGED vars
  PROVE  Inv'
<1>1. /\ UNCHANGED <<logVars, cbfsVars, tableVars, mbVars, cpuVars>>
      /\ machine' = machine /\ viewer' = viewer /\ ram_cursor' = ram_cursor /\ stage' = stage
  BY DEF vars, shellVars
<1>2. /\ g_buf' = g_buf /\ g_line' = g_line
      /\ UNCHANGED <<image, walk, f, filecount, filenames, selected, start_row, described>>
      /\ cpu' = cpu
  BY <1>1 DEF logVars, cbfsVars, cpuVars
<1>3. LogPart' /\ CbfsPart' /\ TabPart' /\ CpuPart'
  BY <1>1, LogSame, CbfsUnchanged, TabSame, CpuSame DEF Inv
<1>4. ShellPart' /\ StagePart'
  BY <1>1, <1>2 DEF Inv, ShellPart, StagePart, Inits
<1>5. DescribedPart'
  <2>1. Walked' = Walked /\ HeaderFound' = HeaderFound
    BY <1>2, SameImage
  <2>2. (CanDraw(selected)' <=> CanDraw(selected)) /\ FileOn(selected)' = FileOn(selected)
    BY <1>2, <2>1 DEF CanDraw, FileOn, findfile
  <2>. QED
    BY <1>1, <1>2, <2>2 DEF Inv, DescribedPart
<1>6. NothingIsCut'
  BY <1>1, <1>2, CutSame DEF Inv
<1>7. UndefinedOnlyThere'
  BY <1>1, <1>2 DEF Inv, UndefinedOnlyThere, HeaderFound
<1>. QED
  BY <1>3, <1>4, <1>5, <1>6, <1>7 DEF Inv

LEMMA InvStep ==
  ASSUME Inv, [Next]_vars
  PROVE  Inv'
<1>1. CASE Start
  BY <1>1, CpuinfoKeeps, CorebootKeeps, MultibootInitKeeps, BootlogKeeps, CbfsInitKeeps,
     TimestampsKeeps DEF Start
<1>2. ASSUME NEW m \in Modules, Show(m)
      PROVE  Inv'
  BY <1>2, ShowKeeps
<1>3. CASE ScrollLog
  BY <1>3, ScrollLogKeeps
<1>4. CASE SelectFile
  BY <1>4, SelectFileKeeps
<1>5. CASE ramdump_module_handle
  BY <1>5, RamdumpKeeps
<1>6. CASE UNCHANGED vars
  BY <1>6, StutterKeeps
<1>. QED
  BY <1>1, <1>2, <1>3, <1>4, <1>5, <1>6 DEF Next

(* The parts hold in every state. *)
LEMMA Invariance == Spec => []Inv
<1>1. Init => Inv
  BY InvInit
<1>2. Inv /\ [Next]_vars => Inv'
  BY InvStep
<1>. QED
  BY <1>1, <1>2, PTL DEF Spec

-----------------------------------------------------------------------------
(* Every variable of the shell and of the six modules keeps its type: what  *)
(* is laid out is whole lines of the screen, the walk of an image stays at  *)
(* addresses of the flash, and the RAM dump's cursor within its range.      *)
THEOREM TypeCorrect == Spec => []TypeOK
<1>1. Inv => TypeOK
  BY DEF Inv, LogPart, CbfsPart, TabPart, CpuPart, ShellPart, Inits, TypeOK
<1>. QED
  BY <1>1, Invariance, PTL

(* Whatever the keys, the log views draw only lines that are laid out.      *)
THEOREM ViewsInside == Spec => []ViewStaysInBuffer
<1>1. Inv => ViewStaysInBuffer
  BY ViewInside DEF Inv, LogPart
<1>. QED
  BY <1>1, Invariance, PTL

(* The width counted by the first pass over a text is the width the second  *)
(* fills, so no printable character of a console or of the time stamps is   *)
(* lost, whatever the text: of a wrapped console the older part comes       *)
(* first.                                                                   *)
THEOREM NothingCut == Spec => []NothingIsCut
<1>1. Inv => NothingIsCut
  BY DEF Inv
<1>. QED
  BY <1>1, Invariance, PTL

(* The walk lists every file of a well-formed image once, in order.         *)
THEOREM ListComplete == Spec => []ListIsComplete
<1>1. Inv => ListIsComplete
  BY ListOfAll DEF Inv, CbfsPart, ListIsComplete
<1>. QED
  BY <1>1, Invariance, PTL

(* What is described is the first file of the walk with the name selected.  *)
THEOREM SelectedShown == Spec => []ShowsSelected
<1>1. ASSUME Inv, viewer = "cbfs", stage = "loop", HeaderFound
      PROVE  LET name(k) == image.cells[Walked[k]].name
             IN  /\ selected + 1 <= Len(Walked) /\ name(selected + 1) = filenames[selected + 1]
                 /\ \E k \in 1..(selected + 1) :
                      /\ described = Walked[k] /\ name(k) = name(selected + 1)
                      /\ \A j \in 1..(k - 1) : name(j) # name(selected + 1)
  <2>1. /\ CbfsTypes /\ CbfsInv /\ walk = "done" /\ selected \in Nat
        /\ CanDraw(selected) /\ described = FileOn(selected)
    BY <1>1 DEF Inv, CbfsPart, StagePart, DescribedPart, CbfsTypes
  <2>2. /\ selected + 1 \in 1..Len(Walked)
        /\ NameOf(selected + 1) = filenames[selected + 1]
        /\ IsFirstNamed(described, selected + 1)
    BY <1>1, <2>1, FileOnFirst
  <2>. QED
    BY <2>2 DEF NameOf, IsFirstNamed
<1>2. Inv => ShowsSelected
  BY <1>1 DEF ShowsSelected
<1>. QED
  BY <1>2, Invariance, PTL

(* The facts about the processor have their rows to themselves.             *)
THEOREM FactsApart == Spec => []FactsStay
<1>1. Inv => FactsStay
  BY DEF Inv, CpuPart
<1>. QED
  BY <1>1, Invariance, PTL

(* What is printed is of one coreboot table, if those that forward hold     *)
(* nothing else.                                                            *)
THEOREM KeptFromOne == Spec => []OneTable
<1>1. ASSUME Inv, tables_good = "good", ForwardFirst
      PROVE  \A i, j \in Items : kept[i] = kept[j] \/ Nowhere \in {kept[i], kept[j]}
  <2>1. PICK a : \A i \in Items : kept[i] \in {a, Nowhere}
    BY <1>1 DEF Inv, TabPart, TabInv, KeptOfOne
  <2>. QED
    BY <2>1
<1>2. Inv => OneTable
  BY <1>1 DEF OneTable
<1>. QED
  BY <1>2, Invariance, PTL

(* Reading and writing past an array happens in the three known ways only.  *)
THEOREM UndefinedKnown == Spec => []UndefinedOnlyThere
<1>1. Inv => UndefinedOnlyThere
  BY DEF Inv
<1>. QED
  BY <1>1, Invariance, PTL

=============================================================================
