-------------------------- MODULE CmosOptions_proof --------------------------
(***************************************************************************)
(* Proofs about the walk over the option table, for every set of names and *)
(* every table: the types, that an orderly layout is never walked past its *)
(* end, and that its form shows what was counted.                          *)
(*                                                                         *)
(* The argument counts: what the walk still has to show and what is still  *)
(* ahead of it in the table are equally many, so while there is a field    *)
(* left to fill there is an entry ahead that fills it.                     *)
(***************************************************************************)
EXTENDS CmosOptions, FiniteSetTheorems, TLAPS

(* The counted entries of a table before the n-th, and from the n-th on. *)
Below(t, w, n) == {k \in 1..(n - 1) : Counted(w, t[k])}
From(t, w, n) == {k \in n..Len(t) : Counted(w, t[k])}

LEMMA FromFinite ==
  ASSUME NEW t \in Seq(Entries), NEW w, NEW n \in Nat
  PROVE  IsFiniteSet(From(t, w, n)) /\ Cardinality(From(t, w, n)) \in Nat
<1>1. IsFiniteSet(n..Len(t))
  BY FS_Interval
<1>2. From(t, w, n) \in SUBSET (n..Len(t))
  BY DEF From
<1>. QED
  BY <1>1, <1>2, FS_Subset, FS_CardinalityType

LEMMA BelowFinite ==
  ASSUME NEW t, NEW w, NEW n \in Nat
  PROVE  IsFiniteSet(Below(t, w, n)) /\ Cardinality(Below(t, w, n)) \in Nat
<1>1. IsFiniteSet(1..(n - 1))
  BY FS_Interval
<1>2. Below(t, w, n) \in SUBSET (1..(n - 1))
  BY DEF Below
<1>. QED
  BY <1>1, <1>2, FS_Subset, FS_CardinalityType

(* Passing the n-th entry takes it from what is ahead if it is counted. *)
LEMMA FromStep ==
  ASSUME NEW t \in Seq(Entries), NEW w, NEW n \in 1..Len(t)
  PROVE  /\ Counted(w, t[n]) =>
              Cardinality(From(t, w, n)) = Cardinality(From(t, w, n + 1)) + 1
         /\ ~Counted(w, t[n]) => From(t, w, n) = From(t, w, n + 1)
<1>1. n \notin From(t, w, n + 1)
  BY DEF From
<1>2. IsFiniteSet(From(t, w, n + 1))
  BY FromFinite
<1>3. CASE Counted(w, t[n])
  <2>1. From(t, w, n) = From(t, w, n + 1) \cup {n}
    BY <1>3 DEF From
  <2>. QED
    BY <1>1, <1>2, <1>3, <2>1, FS_AddElement
<1>4. CASE ~Counted(w, t[n])
  <2>1. From(t, w, n) = From(t, w, n + 1)
    BY <1>4 DEF From
  <2>. QED
    BY <1>4, <2>1
<1>. QED
  BY <1>3, <1>4

LEMMA BelowStep ==
  ASSUME NEW t, NEW w, NEW n \in Nat \ {0}
  PROVE  /\ Counted(w, t[n]) =>
              /\ Below(t, w, n + 1) = Below(t, w, n) \cup {n}
              /\ Cardinality(Below(t, w, n + 1)) = Cardinality(Below(t, w, n)) + 1
         /\ ~Counted(w, t[n]) => Below(t, w, n + 1) = Below(t, w, n)
<1>1. n \notin Below(t, w, n)
  BY DEF Below
<1>2. IsFiniteSet(Below(t, w, n))
  BY BelowFinite
<1>3. CASE Counted(w, t[n])
  <2>1. Below(t, w, n + 1) = Below(t, w, n) \cup {n}
    BY <1>3 DEF Below
  <2>. QED
    BY <1>1, <1>2, <1>3, <2>1, FS_AddElement
<1>4. CASE ~Counted(w, t[n])
  <2>1. Below(t, w, n + 1) = Below(t, w, n)
    BY <1>4 DEF Below
  <2>. QED
    BY <1>4, <2>1
<1>. QED
  BY <1>3, <1>4

-----------------------------------------------------------------------------
(* TypeOK with the bounds it takes to be inductive. *)
TypeInv ==
  /\ TypeOK
  /\ phase = "count" => numopts <= option - 1 /\ fields = <<>>
  /\ phase = "skip" => option <= Len(table) /\ Len(fields) < numopts

LEMMA TypeInit == Init => TypeInv
<1>. SUFFICES ASSUME Init PROVE TypeInv
  OBVIOUS
<1>1. table \in Seq(Entries)
  BY TablesAssumption DEF Init
<1>. QED
  BY <1>1 DEF Init, TypeInv, TypeOK, Null, Phases

LEMMA TypeStep == TypeInv /\ [Next]_vars => TypeInv'
<1>. SUFFICES ASSUME TypeInv, [Next]_vars PROVE TypeInv'
  OBVIOUS
<1>. USE DEF TypeInv, TypeOK, Null, Phases
<1>1. ASSUME NEW w \in Windows, Open(w) PROVE TypeInv'
  BY <1>1 DEF Open
<1>2. CASE CountEntry
  BY <1>2 DEF CountEntry
<1>3. CASE CountEnd
  BY <1>3 DEF CountEnd
<1>4. CASE BeginField
  <2>1. check' \in {0, 1}
    BY <1>4 DEF BeginField, check_pattern
  <2>. QED
    BY <1>4, <2>1 DEF BeginField, FieldsLeft
<1>5. CASE SkipEntry
  <2>1. check' \in {0, 1}
    BY <1>5 DEF SkipEntry, CheckAfterSkip, check_pattern
  <2>. QED
    BY <1>5, <2>1 DEF SkipEntry
<1>6. CASE ShowEntry
  <2>1. /\ fields' \in Seq(1..Len(table))
        /\ Len(fields') = Len(fields) + 1
    BY <1>6 DEF ShowEntry
  <2>. QED
    BY <1>6, <2>1 DEF ShowEntry
<1>7. CASE WalkEnd
  BY <1>7 DEF WalkEnd
<1>8. CASE UNCHANGED vars
  BY <1>8 DEF vars
<1>. QED
  BY <1>1, <1>2, <1>3, <1>4, <1>5, <1>6, <1>7, <1>8 DEF Next, Step

LEMMA TypeInvariant == Spec => []TypeInv
  BY TypeInit, TypeStep, PTL DEF Spec

(* Type correctness; in particular the walk never fills more pairs of fields *)
(* than redraw allocated.                                                    *)
THEOREM TypeCorrect == Spec => []TypeOK
<1>1. TypeInv => TypeOK
  BY DEF TypeInv
<1>. QED
  BY <1>1, TypeInvariant, PTL

-----------------------------------------------------------------------------
(* The counting argument, for the layouts the property is about.  In "skip"  *)
(* check says as much of the current entry as its window's walk relies on.   *)
Counting ==
  /\ phase # "undef"
  /\ phase = "count" => numopts = Cardinality(Below(table, win, option))
  /\ phase \in {"field", "skip"} =>
       numopts = Len(fields) + Cardinality(From(table, win, option))
  /\ phase = "skip" =>
       check = IF win = "configurator" THEN 1
                                       ELSE check_pattern(table[option].name)

WalkInv == Orderly(win) => Counting

(* There is a counted entry ahead as long as a field is left to fill. *)
LEMMA SomeAhead ==
  ASSUME TypeInv, Counting, phase \in {"field", "skip"}, Len(fields) < numopts
  PROVE  \E k \in option..Len(table) : Counted(win, table[k])
<1>1. Cardinality(From(table, win, option)) # 0
  <2>1. Cardinality(From(table, win, option)) \in Nat
    BY FromFinite DEF TypeInv, TypeOK, Null
  <2>. QED
    BY <2>1 DEF TypeInv, TypeOK, Counting
<1>2. From(table, win, option) # {}
  BY <1>1, FS_EmptySet
<1>. QED
  BY <1>2 DEF From

(* In the configurator an orderly layout has no CFG entry before that one.   *)
LEMMA NoCfgBefore ==
  ASSUME TypeInv, Orderly(win), win = "configurator",
         NEW k \in option..Len(table), Counted(win, table[k])
  PROVE  \A j \in option..k : check_pattern(table[j].name) = 1
<1>1. \A j \in 1..Len(table) : IsCfg(table[j]) => k < j
  BY DEF Orderly, TypeInv, TypeOK, Null
<1>2. \A j \in option..k : j \in 1..Len(table) /\ ~(k < j)
  BY DEF TypeInv, TypeOK, Null
<1>. QED
  BY <1>1, <1>2 DEF IsCfg, check_pattern

(* The two filters agree on the entries the walk meets in "skip". *)
LEMMA SkippedNotCounted ==
  ASSUME TypeInv, Orderly(win), Counting, phase = "skip"
  PROVE  Skipped(win, table[option], check) <=> ~Counted(win, table[option])
<1>1. option \in 1..Len(table) /\ table[option] \in Entries
  BY DEF TypeInv, TypeOK, Null
<1>2. CASE win = "configurator"
  <2>1. PICK k \in option..Len(table) : Counted(win, table[k])
    BY SomeAhead DEF TypeInv
  <2>2. check_pattern(table[option].name) = 1
    BY <1>1, <1>2, <2>1, NoCfgBefore
  <2>. QED
    BY <1>2, <2>2 DEF Skipped, Counted, IsCfg, Counting
<1>3. CASE win = "bootorder"
  <2>1. ~(IsCfg(table[option]) /\ table[option].config = "e")
    BY <1>1, <1>3 DEF Orderly
  <2>2. check = check_pattern(table[option].name)
    BY <1>3 DEF Counting
  <2>3. check_pattern(CheckSum) # 0
    BY NamesAssumption DEF check_pattern, Letters
  <2>. QED
    BY <1>3, <2>1, <2>2, <2>3 DEF Skipped, Counted, IsCfg
<1>. QED
  BY <1>2, <1>3 DEF TypeInv, TypeOK, Windows

LEMMA WalkInit == Init => WalkInv
<1>. SUFFICES ASSUME Init PROVE WalkInv
  OBVIOUS
<1>. QED
  BY DEF Init, WalkInv, Counting

LEMMA WalkStep == TypeInv /\ WalkInv /\ [Next]_vars => WalkInv'
<1>. SUFFICES ASSUME TypeInv, WalkInv, [Next]_vars, Orderly(win)'
              PROVE  Counting'
  BY DEF WalkInv
<1>1. ASSUME NEW w \in Windows, Open(w) PROVE Counting'
  <2>1. Below(table', win', option') = {}
    BY <1>1 DEF Open, Below
  <2>. QED
    BY <1>1, <2>1, FS_EmptySet DEF Open, Counting
<1>2. ASSUME Step PROVE Counting
  <2>1. table' = table /\ win' = win
    BY <1>2 DEF Step, CountEntry, CountEnd, BeginField, SkipEntry, ShowEntry, WalkEnd
  <2>. QED
    BY <2>1 DEF WalkInv, Orderly
<1>3. ASSUME Step PROVE Orderly(win)
  <2>1. table' = table /\ win' = win
    BY <1>3 DEF Step, CountEntry, CountEnd, BeginField, SkipEntry, ShowEntry, WalkEnd
  <2>. QED
    BY <2>1 DEF Orderly
<1>4. CASE CountEntry
  <2>1. Counting
    BY <1>2, <1>4 DEF Step
  <2>2. option \in 1..Len(table) /\ option \in Nat \ {0}
    BY <1>4 DEF CountEntry, TypeInv, TypeOK, Null
  <2>3. numopts' = Cardinality(Below(table, win, option + 1))
    BY <1>4, <2>1, <2>2, BelowStep DEF CountEntry, Counting
  <2>. QED
    BY <1>4, <2>3 DEF CountEntry, Counting
<1>5. CASE CountEnd
  <2>1. Counting
    BY <1>2, <1>5 DEF Step
  <2>2. Below(table, win, option) = From(table, win, 1)
    BY <1>5 DEF CountEnd, Below, From, Null, TypeInv, TypeOK
  <2>3. Len(fields) = 0
    BY <1>5 DEF CountEnd, TypeInv
  <2>4. Cardinality(From(table, win, 1)) \in Nat
    BY FromFinite DEF TypeInv, TypeOK
  <2>5. numopts = Len(fields) + Cardinality(From(table, win, 1))
    BY <1>5, <2>1, <2>2, <2>3, <2>4 DEF CountEnd, Counting
  <2>. QED
    BY <1>5, <2>5 DEF CountEnd, Counting
<1>6. CASE BeginField
  <2>1. Counting /\ Orderly(win)
    BY <1>2, <1>3, <1>6 DEF Step
  <2>2. PICK k \in option..Len(table) : Counted(win, table[k])
    BY <1>6, <2>1, SomeAhead DEF BeginField, FieldsLeft
  <2>3. option # Null
    BY <2>2 DEF Null, TypeInv, TypeOK
  <2>4. win = "configurator" => check_pattern(table[option].name) = 1
    BY <2>1, <2>2, NoCfgBefore DEF TypeInv, TypeOK, Null
  <2>. QED
    BY <1>6, <2>1, <2>3, <2>4 DEF BeginField, Counting
<1>7. CASE SkipEntry
  <2>1. Counting /\ Orderly(win)
    BY <1>2, <1>3, <1>7 DEF Step
  <2>2. option \in 1..Len(table) /\ Len(fields) < numopts
    BY <1>7 DEF SkipEntry, TypeInv, TypeOK, Null
  <2>3. ~Counted(win, table[option])
    BY <1>7, <2>1, SkippedNotCounted DEF SkipEntry
  <2>4. From(table, win, option) = From(table, win, option + 1)
    BY <2>2, <2>3, FromStep DEF TypeInv, TypeOK
  <2>5. option + 1 # Null
    <3>1. PICK k \in option..Len(table) : Counted(win, table[k])
      BY <1>7, <2>1, <2>2, SomeAhead DEF SkipEntry
    <3>2. k # option
      BY <2>3, <3>1
    <3>. QED
      BY <2>2, <3>2 DEF Null, TypeInv, TypeOK
  <2>. QED
    BY <1>7, <2>1, <2>4, <2>5 DEF SkipEntry, CheckAfterSkip, Counting
<1>8. CASE ShowEntry
  <2>1. Counting /\ Orderly(win)
    BY <1>2, <1>3, <1>8 DEF Step
  <2>2. option \in 1..Len(table)
    BY <1>8 DEF ShowEntry, TypeInv, TypeOK, Null
  <2>3. Counted(win, table[option])
    BY <1>8, <2>1, SkippedNotCounted DEF ShowEntry
  <2>4. Cardinality(From(table, win, option))
          = Cardinality(From(table, win, option + 1)) + 1
    BY <2>2, <2>3, FromStep DEF TypeInv, TypeOK
  <2>5. /\ Cardinality(From(table, win, option + 1)) \in Nat
        /\ Cardinality(From(table, win, option)) \in Nat
    BY <2>2, FromFinite DEF TypeInv, TypeOK
  <2>6. Len(fields') = Len(fields) + 1 /\ Len(fields) \in Nat
    BY <1>8 DEF ShowEntry, TypeInv, TypeOK
  <2>7. numopts = Len(fields') + Cardinality(From(table, win, option + 1))
    BY <1>8, <2>1, <2>4, <2>5, <2>6 DEF ShowEntry, Counting, TypeInv, TypeOK
  <2>. QED
    BY <1>8, <2>7 DEF ShowEntry, Counting
<1>9. CASE WalkEnd
  BY <1>9 DEF WalkEnd, Counting
<1>10. CASE UNCHANGED vars
  BY <1>10 DEF vars, WalkInv, Orderly, Counting
<1>. QED
  BY <1>1, <1>4, <1>5, <1>6, <1>7, <1>8, <1>9, <1>10 DEF Next, Step

(* The entry pointer of an orderly layout stays in the table although no     *)
(* loop of cmos_walk_options tests for its end.                              *)
THEOREM WalkIsSafe == Spec => []WalkStaysInTable
<1>1. WalkInv => WalkStaysInTable
  BY DEF WalkInv, Counting, WalkStaysInTable
<1>2. Spec => []WalkInv
  BY WalkInit, WalkStep, TypeInvariant, PTL DEF Spec
<1>. QED
  BY <1>1, <1>2, PTL

-----------------------------------------------------------------------------
(* What the fields hold while they are filled: the counted entries behind    *)
(* the entry pointer, in order; in the end there is none ahead of it.        *)
Filled ==
  /\ \A i \in 1..Len(fields) : fields[i] < option
  /\ \A i, j \in 1..Len(fields) : i < j => fields[i] < fields[j]
  /\ {fields[i] : i \in 1..Len(fields)} = Below(table, win, option)
  /\ phase = "form" => From(table, win, option) = {}

ShowInv ==
  Orderly(win) /\ phase \in {"field", "skip", "form"} => Filled

LEMMA ShowInit == Init => ShowInv
  BY DEF Init, ShowInv

LEMMA ShowStep == TypeInv /\ WalkInv /\ ShowInv /\ [Next]_vars => ShowInv'
<1>. SUFFICES ASSUME TypeInv, WalkInv, ShowInv, [Next]_vars,
                     Orderly(win)', (phase \in {"field", "skip", "form"})'
              PROVE  Filled'
  BY DEF ShowInv
<1>1. CASE \E w \in Windows : Open(w)
  BY <1>1 DEF Open
<1>2. ASSUME Step PROVE Orderly(win) /\ Counting
  <2>1. table' = table /\ win' = win
    BY <1>2 DEF Step, CountEntry, CountEnd, BeginField, SkipEntry, ShowEntry, WalkEnd
  <2>. QED
    BY <2>1 DEF WalkInv, Orderly
<1>3. CASE CountEntry
  BY <1>3 DEF CountEntry
<1>4. CASE CountEnd
  <2>1. fields' = <<>> /\ Len(fields') = 0
    BY <1>4 DEF CountEnd, TypeInv
  <2>2. Below(table, win, 1) = {}
    BY DEF Below
  <2>. QED
    BY <1>4, <2>1, <2>2 DEF CountEnd, Filled
<1>5. CASE BeginField
  <2>1. Filled
    BY <1>2, <1>5 DEF Step, BeginField, ShowInv
  <2>. QED
    BY <1>5, <2>1 DEF BeginField, Filled
<1>6. CASE SkipEntry
  <2>1. Filled /\ Counting /\ Orderly(win)
    BY <1>2, <1>6 DEF Step, SkipEntry, ShowInv
  <2>2. option \in 1..Len(table)
    BY <1>6 DEF SkipEntry, TypeInv, TypeOK, Null
  <2>3. ~Counted(win, table[option])
    BY <1>6, <2>1, SkippedNotCounted DEF SkipEntry
  <2>4. Below(table, win, option + 1) = Below(table, win, option)
    BY <2>2, <2>3, BelowStep
  <2>5. \A i \in 1..Len(fields) : fields[i] < option + 1
    BY <2>1, <2>2 DEF Filled, TypeInv, TypeOK
  <2>. QED
    BY <1>6, <2>1, <2>4, <2>5 DEF SkipEntry, Filled
<1>7. CASE ShowEntry
  <2>1. Filled /\ Counting /\ Orderly(win)
    BY <1>2, <1>7 DEF Step, ShowEntry, ShowInv
  <2>2. option \in 1..Len(table)
    BY <1>7 DEF ShowEntry, TypeInv, TypeOK, Null
  <2>3. Counted(win, table[option])
    BY <1>7, <2>1, SkippedNotCounted DEF ShowEntry
  <2>4. Below(table, win, option + 1) = Below(table, win, option) \cup {option}
    BY <2>2, <2>3, BelowStep
  <2>5. /\ Len(fields') = Len(fields) + 1 /\ Len(fields) \in Nat
        /\ \A i \in 1..Len(fields) : fields'[i] = fields[i] /\ fields[i] \in Nat
        /\ fields'[Len(fields) + 1] = option
    BY <1>7 DEF ShowEntry, TypeInv, TypeOK
  <2>6. \A i \in 1..Len(fields') :
          i \in 1..Len(fields) \/ i = Len(fields) + 1
    BY <2>5
  <2>7. \A i \in 1..Len(fields') : fields'[i] < option + 1
    BY <2>1, <2>2, <2>5, <2>6 DEF Filled
  <2>8. \A i, j \in 1..Len(fields') : i < j => fields'[i] < fields'[j]
    BY <2>1, <2>2, <2>5, <2>6 DEF Filled
  <2>9. {fields'[i] : i \in 1..Len(fields')}
          = {fields[i] : i \in 1..Len(fields)} \cup {option}
    BY <2>5, <2>6
  <2>. QED
    BY <1>7, <2>1, <2>4, <2>7, <2>8, <2>9 DEF ShowEntry, Filled
<1>8. CASE WalkEnd
  <2>1. Filled /\ Counting
    BY <1>2, <1>8 DEF Step, WalkEnd, ShowInv
  <2>2. IsFiniteSet(From(table, win, option))
        /\ Cardinality(From(table, win, option)) \in Nat
    BY FromFinite DEF TypeInv, TypeOK, Null
  <2>3. Cardinality(From(table, win, option)) = 0
    BY <1>8, <2>1, <2>2 DEF WalkEnd, FieldsLeft, Counting, TypeInv, TypeOK
  <2>4. From(table, win, option) = {}
    BY <2>2, <2>3, FS_EmptySet
  <2>. QED
    BY <1>8, <2>1, <2>4 DEF WalkEnd, Filled
<1>9. CASE UNCHANGED vars
  BY <1>9 DEF vars, ShowInv, Orderly, Filled
<1>. QED
  BY <1>1, <1>3, <1>4, <1>5, <1>6, <1>7, <1>8, <1>9 DEF Next, Step

(* The form of an orderly layout shows exactly the options that were         *)
(* counted, once each and in table order, for every table.                   *)
THEOREM ShowsCounted == Spec => []ShowsWhatWasCounted
<1>1. TypeInv /\ ShowInv => ShowsWhatWasCounted
  <2>. SUFFICES ASSUME TypeInv, ShowInv, phase = "form", Orderly(win)
                PROVE  /\ {fields[i] : i \in 1..Len(fields)}
                            = {k \in 1..Len(table) : Counted(win, table[k])}
                       /\ \A i, j \in 1..Len(fields) : i < j => fields[i] < fields[j]
    BY DEF ShowsWhatWasCounted
  <2>1. Filled
    BY DEF ShowInv
  <2>2. {k \in 1..Len(table) : Counted(win, table[k])}
          = Below(table, win, option) \cup From(table, win, option)
    BY DEF Below, From, TypeInv, TypeOK, Null
  <2>. QED
    BY <2>1, <2>2 DEF Filled
<1>2. Spec => []WalkInv
  BY WalkInit, WalkStep, TypeInvariant, PTL DEF Spec
<1>3. Spec => []ShowInv
  BY ShowInit, ShowStep, TypeInvariant, <1>2, PTL DEF Spec
<1>. QED
  BY <1>1, <1>3, TypeInvariant, PTL
=============================================================================
