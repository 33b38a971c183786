---------------------------- MODULE Coreinfo_proof ---------------------------
(***************************************************************************)
(* Proofs about the main loop and its modal NVRAM windows, for every set   *)
(* of options, every content of the windows and every number of modules.   *)
(*                                                                         *)
(* Whatever the shell does, a step does one of a few things to the form    *)
(* and the CMOS.  FormStep lists them, so that the invariant of the form   *)
(* and the refinement are proved of FormStep alone.                        *)
(***************************************************************************)
EXTENDS Coreinfo, FiniteSetTheorems, TLAPS

(* A step of the program as the form, the CMOS and the heap see it. *)
FormStep ==
  \/ where = "loop" /\ \E w \in Windows : OpenForm(w)
  \/ FormDown
  \/ FormUp
  \/ FormChoice
  \/ FormType
  \/ LeaveForm
  \/ SaveOption
  \/ CloseForm
  \/ where = "loop" /\ where' = "reset" /\ UNCHANGED <<cmos, session, heap>>
  \/ where' = "loop" /\ heap' = [b \in Blocks |-> 0] /\ EndSession /\ UNCHANGED cmos
  \/ UNCHANGED formVars

LEMMA NextIsFormStep == [Next]_vars => FormStep
<1>. SUFFICES ASSUME [Next]_vars PROVE FormStep
  OBVIOUS
<1>1. ASSUME NEW c, NEW m, where = "loop", RedrawModule(c, m) PROVE FormStep
  BY <1>1 DEF RedrawModule, FormStep, Window, Windows
<1>2. ASSUME NEW n, FunctionKey(n) PROVE FormStep
  BY <1>1, <1>2 DEF FunctionKey, SelectCategory
<1>3. ASSUME NEW n, DigitKey(n) PROVE FormStep
  BY <1>1, <1>3 DEF DigitKey, SelectCategory
<1>4. ASSUME NEW n, FunctionKeyUnused(n) PROVE FormStep
  BY <1>4 DEF FunctionKeyUnused, FormStep
<1>5. ASSUME NEW n, FormFunctionKey(n) PROVE FormStep
  BY <1>5 DEF FormFunctionKey, FormStep
<1>6. ASSUME NEW l, LetterKey(l) PROVE FormStep
  BY <1>1, <1>6 DEF LetterKey
<1>7. CASE ModuleKey
  BY <1>7 DEF ModuleKey, FormStep
<1>8. CASE Escape
  BY <1>8 DEF Escape, FormStep
<1>9. CASE FormDriverKey
  BY <1>9 DEF FormDriverKey, FormStep
<1>10. CASE FormEscape
  BY <1>10 DEF FormEscape, FormStep
<1>11. CASE FormSave
  BY <1>11 DEF FormSave, FormStep
<1>12. CASE Restart
  BY <1>12 DEF Restart, FormStep
<1>13. CASE UNCHANGED vars
  BY <1>13 DEF vars, FormStep
<1>. QED
  BY <1>2, <1>3, <1>4, <1>5, <1>6, <1>7, <1>8, <1>9, <1>10, <1>11, <1>12, <1>13 DEF Next

-----------------------------------------------------------------------------
(***************************************************************************)
(* The invariant of the form: its types, what the heap counts, and that a  *)
(* field nobody touched still holds what was read from the CMOS, or the    *)
(* default that repairs it.                                                *)
(***************************************************************************)
FormTypes ==
  /\ cmos \in [Options -> AllValues \cup {Invalid}]
  /\ \A o \in Options : cmos[o] \in Contents(o)
  /\ where \in {"loop", "reset"} \cup Windows
  /\ buffer \in [Options -> AllValues]
  /\ \A o \in Options : buffer[o] \in Values(o)
  /\ field \in Nat
  /\ InForm => field \in 1..numopts
  /\ ~InForm => field = 1
  /\ typed = NoText \/ (InForm /\ Kind[Current] = "h"
                          /\ typed \in Values(Current) \cup Junk)
  /\ info \in Nat
  /\ saving \in Nat
  /\ InForm => saving \in 0..numopts + 1
  /\ ~InForm => saving = 0
  /\ touched \subseteq Options
  /\ refused \in BOOLEAN
  /\ heap \in [Blocks -> Nat]

Untouched ==
  InForm => /\ typed # NoText => Current \in touched
            /\ \A o \in Shown(where) \ touched : buffer[o] = FieldText(o)

(* What the end of a visit frees is allocated while the visit lasts. *)
Held ==
  /\ heap["array"] = IF InForm THEN 1 ELSE 0
  /\ heap["form"] = IF InForm THEN 1 ELSE 0
  /\ heap["fields"] = IF InForm THEN 2 * numopts ELSE 0

FormInv == FormTypes /\ Held /\ Untouched

LEMMA ShownAreOptions == \A w \in Windows : Shown(w) \subseteq Options
  BY WindowsAssumption DEF Shown, Windows

LEMMA CurrentIsShown ==
  ASSUME FormTypes, InForm
  PROVE  /\ Current \in Shown(where) /\ Current \in Options
         /\ numopts \in Nat \ {0}
<1>1. FieldsOf[where] \in Seq(Options) /\ Len(FieldsOf[where]) > 0
  BY WindowsAssumption DEF InForm
<1>2. field \in 1..Len(FieldsOf[where])
  BY DEF FormTypes, numopts
<1>. QED
  BY <1>1, <1>2 DEF Current, Shown, numopts

(* The save loop writes an option of the window. *)
LEMMA SavedIsShown ==
  ASSUME InForm, saving \in 1..numopts
  PROVE  FieldsOf[where][saving] \in Shown(where) /\ FieldsOf[where][saving] \in Options
<1>1. FieldsOf[where] \in Seq(Options)
  BY WindowsAssumption DEF InForm
<1>. QED
  BY <1>1 DEF Shown, numopts

LEMMA FieldTextIsValue ==
  ASSUME FormTypes, NEW o \in Options
  PROVE  FieldText(o) \in Values(o) /\ FieldText(o) \in AllValues
<1>1. FieldText(o) \in Values(o)
  BY ValuesAssumption DEF FieldText, FormTypes, Contents
<1>. QED
  BY <1>1 DEF AllValues

(* What a visit allocates, and that it is counted. *)
LEMMA AllocatedIsNat ==
  ASSUME NEW w \in Windows
  PROVE  /\ Allocated(w) \in [Blocks -> Nat]
         /\ Allocated(w)["array"] = 1 /\ Allocated(w)["form"] = 1 /\ Allocated(w)["pad"] = 1
         /\ Allocated(w)["fields"] = 2 * Len(FieldsOf[w])
<1>. DEFINE n == Len(FieldsOf[w])
            named == {i \in 1..n : cmos[FieldsOf[w][i]] # Invalid}
<1>1. n \in Nat
  BY WindowsAssumption
<1>2. Cardinality(named) \in Nat
  <2>1. IsFiniteSet(1..n)
    BY <1>1, FS_Interval
  <2>. QED
    BY <2>1, FS_Subset, FS_CardinalityType
<1>. QED
  BY <1>1, <1>2 DEF Allocated, Blocks

LEMMA FormInvInit == FormInit => FormInv
<1>. SUFFICES ASSUME FormInit PROVE FormInv
  OBVIOUS
<1>1. where = "loop" /\ ~InForm
  BY DEF FormInit, InForm, Windows
<1>2. FormTypes
  BY <1>1, ValuesAssumption DEF FormInit, FormTypes, NoBuffers, Blocks
<1>. QED
  BY <1>1, <1>2 DEF FormInit, FormInv, Held, Untouched, Blocks

(* Moving between fields keeps the invariant; the heap is not touched. *)
LEMMA MoveKeeps ==
  ASSUME FormInv, InForm, NEW f \in 1..numopts, MoveTo(f),
         info' \in Nat, UNCHANGED <<cmos, where, saving, touched, heap>>
  PROVE  FormInv'
<1>. DEFINE k == Current
<1>1. k \in Shown(where) /\ k \in Options /\ numopts \in Nat \ {0}
  BY CurrentIsShown DEF FormInv
<1>2. InForm' /\ numopts' = numopts
  BY DEF InForm, numopts
<1>3. CASE typed \in Junk /\ UNCHANGED <<buffer, field, typed>> /\ refused' = TRUE
  <2>1. Current' = k
    BY <1>3 DEF Current
  <2>. QED
    BY <1>2, <1>3, <2>1
    DEF FormInv, FormTypes, Held, Untouched, Shown, FieldText, Current
<1>4. CASE /\ typed \notin Junk /\ field' = f /\ typed' = NoText /\ UNCHANGED refused
           /\ buffer' = IF typed = NoText THEN buffer ELSE [buffer EXCEPT ![k] = typed]
  <2>1. CASE typed = NoText
    BY <1>2, <1>4, <2>1
    DEF FormInv, FormTypes, Held, Untouched, Shown, FieldText
  <2>2. CASE typed # NoText
    <3>1. typed \in Values(k) /\ typed \in AllValues /\ k \in touched
      BY <1>1, <1>4, <2>2 DEF FormInv, FormTypes, Untouched, AllValues
    <3>2. /\ buffer' \in [Options -> AllValues]
          /\ \A o \in Options : buffer'[o] \in Values(o)
          /\ \A o \in Options \ {k} : buffer'[o] = buffer[o]
      BY <1>1, <1>4, <2>2, <3>1 DEF FormInv, FormTypes
    <3>3. FormTypes'
      BY <1>2, <1>4, <3>2 DEF FormInv, FormTypes
    <3>4. \A o \in Shown(where) \ touched : o \in Options \ {k}
      BY <3>1, ShownAreOptions DEF InForm
    <3>. QED
      BY <1>2, <1>4, <3>2, <3>3, <3>4
      DEF FormInv, Held, Untouched, Shown, FieldText
  <2>. QED
    BY <2>1, <2>2
<1>. QED
  BY <1>3, <1>4 DEF MoveTo

LEMMA FormInvStep == FormInv /\ FormStep => FormInv'
<1>. SUFFICES ASSUME FormInv, FormStep PROVE FormInv'
  OBVIOUS
<1>1. ASSUME where = "loop", NEW w \in Windows, OpenForm(w) PROVE FormInv'
  <2>1. InForm' /\ ~InForm /\ Len(FieldsOf[w]) \in Nat \ {0}
    BY <1>1, WindowsAssumption DEF OpenForm, InForm, Windows
  <2>2. /\ buffer' \in [Options -> AllValues]
        /\ \A o \in Options : buffer'[o] \in Values(o)
        /\ \A o \in Shown(w) : buffer'[o] = FieldText(o)
    BY <1>1, FieldTextIsValue, ShownAreOptions, ValuesAssumption DEF OpenForm, FormInv
  <2>3. /\ heap' \in [Blocks -> Nat]
        /\ heap'["array"] = 1 /\ heap'["form"] = 1 /\ heap'["fields"] = 2 * Len(FieldsOf[w])
    BY <1>1, <2>1, AllocatedIsNat DEF OpenForm, FormInv, FormTypes, Held, Blocks
  <2>4. where' = w /\ cmos' = cmos /\ field' = 1 /\ typed' = NoText /\ info' = 0
        /\ saving' = 0 /\ touched' = {} /\ refused' = FALSE
    BY <1>1 DEF OpenForm
  <2>5. numopts' \in Nat \ {0}
    BY <2>1, <2>4 DEF numopts
  <2>6. FormTypes'
    <3>1. (/\ cmos \in [Options -> AllValues \cup {Invalid}]
           /\ \A o \in Options : cmos[o] \in Contents(o))'
      BY <2>4 DEF FormInv, FormTypes
    <3>2. (where \in {"loop", "reset"} \cup Windows)'
      BY <2>4
    <3>3. (/\ buffer \in [Options -> AllValues]
           /\ \A o \in Options : buffer[o] \in Values(o))'
      BY <2>2
    <3>4. (/\ field \in Nat
           /\ InForm => field \in 1..numopts
           /\ ~InForm => field = 1)'
      BY <2>1, <2>4, <2>5
    <3>5. (/\ saving \in Nat
           /\ InForm => saving \in 0..numopts + 1
           /\ ~InForm => saving = 0)'
      <4>1. \A n \in Nat : 0 \in 0..n + 1
        OBVIOUS
      <4>2. numopts' \in Nat
        BY <2>5
      <4>. QED
        BY <2>1, <2>4, <4>1, <4>2
    <3>6. (typed = NoText /\ info \in Nat /\ touched \subseteq Options /\ refused \in BOOLEAN)'
      BY <2>4
    <3>. QED
      BY <2>3, <3>1, <3>2, <3>3, <3>4, <3>5, <3>6 DEF FormTypes
  <2>7. Untouched'
    BY <2>2, <2>4 DEF Untouched, FieldText, Shown
  <2>. QED
    BY <2>1, <2>3, <2>4, <2>6, <2>7 DEF FormInv, Held, numopts
<1>2. CASE FormDown
  <2>1. InForm /\ numopts \in Nat \ {0} /\ field \in 1..numopts
    BY <1>2, CurrentIsShown DEF FormDown, Editing, FormInv, FormTypes
  <2>2. (IF field < numopts THEN field + 1 ELSE 1) \in 1..numopts
    BY <2>1
  <2>3. info' \in Nat
    BY <1>2, <2>1 DEF FormDown, InfoAfter, FormInv, FormTypes
  <2>. QED
    BY <1>2, <2>1, <2>2, <2>3, MoveKeeps DEF FormDown
<1>3. CASE FormUp
  <2>1. InForm /\ numopts \in Nat \ {0} /\ field \in 1..numopts
    BY <1>3, CurrentIsShown DEF FormUp, Editing, FormInv, FormTypes
  <2>2. (IF field > 1 THEN field - 1 ELSE numopts) \in 1..numopts
    BY <2>1
  <2>3. info' \in Nat
    BY <1>3, <2>1 DEF FormUp, InfoBefore, FormInv, FormTypes
  <2>. QED
    BY <1>3, <2>1, <2>2, <2>3, MoveKeeps DEF FormUp
<1>4. CASE FormChoice
  <2>. DEFINE k == Current
  <2>1. InForm /\ InForm' /\ k \in Options /\ Current' = k /\ numopts' = numopts
    BY <1>4, CurrentIsShown DEF FormChoice, Editing, FormInv, InForm, Current, numopts
  <2>2. PICK v \in Values(k) : buffer' = [buffer EXCEPT ![k] = v]
    BY <1>4 DEF FormChoice
  <2>3. /\ buffer' \in [Options -> AllValues]
        /\ \A o \in Options : buffer'[o] \in Values(o)
        /\ \A o \in Options \ {k} : buffer'[o] = buffer[o]
    BY <2>1, <2>2 DEF FormInv, FormTypes, AllValues
  <2>4. FormTypes'
    BY <1>4, <2>1, <2>3 DEF FormChoice, FormInv, FormTypes
  <2>5. \A o \in Shown(where) \ touched' : o \in Options \ {k} /\ o \notin touched
    BY <1>4, <2>1, ShownAreOptions DEF FormChoice, InForm
  <2>. QED
    BY <1>4, <2>1, <2>3, <2>4, <2>5
    DEF FormChoice, FormInv, Held, Untouched, Shown, FieldText
<1>5. CASE FormType
  <2>1. InForm /\ InForm' /\ Current \in Options /\ Current' = Current /\ numopts' = numopts
    BY <1>5, CurrentIsShown DEF FormType, Editing, FormInv, InForm, Current, numopts
  <2>2. FormTypes'
    BY <1>5, <2>1 DEF FormType, FormInv, FormTypes
  <2>. QED
    BY <1>5, <2>1, <2>2 DEF FormType, FormInv, Held, Untouched, Shown, FieldText
<1>6. CASE LeaveForm
  <2>1. InForm /\ InForm' /\ numopts' = numopts /\ numopts \in Nat \ {0}
    BY <1>6, CurrentIsShown DEF LeaveForm, Editing, InForm, numopts, FormInv
  <2>. QED
    BY <1>6, <2>1
    DEF LeaveForm, FormInv, FormTypes, Held, Untouched, Shown, FieldText, Current
<1>7. CASE SaveOption
  <2>. DEFINE s == FieldsOf[where][saving]
  <2>1. InForm /\ InForm' /\ numopts' = numopts /\ saving \in 1..numopts
    BY <1>7 DEF SaveOption, InForm, numopts
  <2>2. s \in Options /\ numopts \in Nat \ {0} /\ Current' = Current
    BY <1>7, <2>1, CurrentIsShown, SavedIsShown DEF SaveOption, FormInv, Current
  <2>3. cmos' = [cmos EXCEPT ![s] = buffer[s]]
    BY <1>7 DEF SaveOption, SavedText
  <2>4. buffer[s] \in Values(s) /\ buffer[s] \in AllValues
    BY <2>2 DEF FormInv, FormTypes
  <2>5. /\ cmos' \in [Options -> AllValues \cup {Invalid}]
        /\ \A o \in Options : cmos'[o] \in Contents(o)
    BY <2>2, <2>3, <2>4 DEF FormInv, FormTypes, Contents
  <2>6. FormTypes'
    BY <1>7, <2>1, <2>2, <2>5 DEF SaveOption, FormInv, FormTypes
  <2>7. \A o \in Shown(where) \ touched : buffer[o] = IF cmos'[o] = Invalid THEN Default[o] ELSE cmos'[o]
    <3>. SUFFICES ASSUME NEW o \in Shown(where) \ touched
                  PROVE  buffer[o] = IF cmos'[o] = Invalid THEN Default[o] ELSE cmos'[o]
      OBVIOUS
    <3>1. o \in Options /\ buffer[o] = FieldText(o)
      BY <2>1, ShownAreOptions DEF FormInv, Untouched, InForm
    <3>2. CASE o = s
      BY <2>2, <2>3, <2>4, <3>2, ValuesAssumption DEF FormInv, FormTypes
    <3>3. CASE o # s
      BY <2>3, <3>1, <3>3 DEF FieldText, FormInv, FormTypes
    <3>. QED
      BY <3>2, <3>3
  <2>. QED
    BY <1>7, <2>1, <2>2, <2>6, <2>7
    DEF SaveOption, FormInv, Held, Untouched, Shown, FieldText
<1>8. CASE CloseForm
  <2>1. InForm /\ ~InForm'
    BY <1>8 DEF CloseForm, InForm, Windows
  <2>2. /\ heap' \in [Blocks -> Nat]
        /\ heap'["array"] = 0 /\ heap'["form"] = 0 /\ heap'["fields"] = 0
    BY <1>8, <2>1, AllocatedIsNat
    DEF CloseForm, Released, FormInv, FormTypes, Held, InForm, numopts, Blocks
  <2>3. /\ buffer' \in [Options -> AllValues]
        /\ \A o \in Options : buffer'[o] \in Values(o)
    BY <1>8, ValuesAssumption DEF CloseForm, EndSession, NoBuffers
  <2>. QED
    BY <1>8, <2>1, <2>2, <2>3
    DEF CloseForm, EndSession, FormInv, FormTypes, Held, Untouched
<1>9. CASE where = "loop" /\ where' = "reset" /\ UNCHANGED <<cmos, session, heap>>
  BY <1>9 DEF session, FormInv, FormTypes, Held, Untouched, InForm, Windows
<1>10. CASE where' = "loop" /\ heap' = [b \in Blocks |-> 0] /\ EndSession /\ UNCHANGED cmos
  <2>1. ~InForm'
    BY <1>10 DEF InForm, Windows
  <2>2. /\ buffer' \in [Options -> AllValues]
        /\ \A o \in Options : buffer'[o] \in Values(o)
    BY <1>10, ValuesAssumption DEF EndSession, NoBuffers
  <2>. QED
    BY <1>10, <2>1, <2>2
    DEF EndSession, FormInv, FormTypes, Held, Untouched, Blocks
<1>11. CASE UNCHANGED formVars
  BY <1>11
  DEF formVars, session, FormInv, FormTypes, Held, Untouched, InForm, numopts, Current,
      Shown, FieldText
<1>. QED
  BY <1>1, <1>2, <1>3, <1>4, <1>5, <1>6, <1>7, <1>8, <1>9, <1>10, <1>11 DEF FormStep

LEMMA FormInvariant == Spec => []FormInv
<1>1. Init => FormInv
  BY FormInvInit DEF Init
<1>. QED
  BY <1>1, NextIsFormStep, FormInvStep, PTL DEF Spec

(* A visit changes only the options a key changed, and repairs those whose   *)
(* bits were no value: reading all options and writing all back is safe.     *)
THEOREM EditsOnly == Spec => OnlyEditsReachCmos
<1>1. FormInv /\ FormStep
        => \A o \in Options :
             cmos'[o] # cmos[o] => InForm /\ (o \in touched \/ cmos[o] = Invalid)
  <2>. SUFFICES ASSUME FormInv, FormStep, NEW o \in Options, cmos'[o] # cmos[o]
                PROVE  InForm /\ (o \in touched \/ cmos[o] = Invalid)
    OBVIOUS
  <2>1. SaveOption
    BY DEF FormStep, OpenForm, FormDown, FormUp, FormChoice, FormType, LeaveForm, CloseForm,
           formVars
  <2>2. InForm /\ o \in Shown(where) /\ cmos'[o] = buffer[o]
    BY <2>1, SavedIsShown DEF SaveOption, SavedText, FormInv, FormTypes
  <2>3. o \notin touched => buffer[o] = FieldText(o)
    BY <2>2 DEF FormInv, Untouched
  <2>. QED
    BY <2>2, <2>3 DEF FieldText
<1>. QED
  BY <1>1, NextIsFormStep, FormInvariant, PTL DEF Spec, OnlyEditsReachCmos

-----------------------------------------------------------------------------
(* The refinement mapping: Draft and Unsaved of Coreinfo, the pads for visits. *)
Mapped == <<cmos, Draft, Unsaved, heap["pad"]>>

LEMMA NoFormNoDraft == ~InForm => Draft = Editor!NoDraft /\ Unsaved = {}
  BY DEF Draft, Unsaved, Editor!NoDraft

LEMMA DraftOfShown == InForm => DOMAIN Draft = Shown(where)
  BY DEF Draft

(* Until the save loop starts, nothing of the draft is stored. *)
LEMMA AllUnsaved ==
  ASSUME InForm, numopts \in Nat, saving \in {0, 1}
  PROVE  Unsaved = Shown(where)
<1>1. {j \in 1..numopts : j >= saving} = 1..numopts
  OBVIOUS
<1>. QED
  BY <1>1 DEF Unsaved, Shown, numopts

LEMMA MappingStays ==
  ASSUME UNCHANGED <<cmos, where, buffer, saving, heap>>
  PROVE  UNCHANGED Mapped
  BY DEF Mapped, Draft, Unsaved, InForm, Shown, numopts

LEMMA EditorInit == Init => Editor!Init
<1>. SUFFICES ASSUME Init PROVE Editor!Init
  OBVIOUS
<1>1. FormInv /\ ~InForm /\ heap["pad"] = 0
  BY FormInvInit DEF Init, FormInit, InForm, Windows, Blocks
<1>2. cmos \in [Options -> UNION {Contents(o) : o \in Options}]
  BY <1>1 DEF FormInv, FormTypes
<1>3. \A o \in Options : cmos[o] \in Contents(o)
  BY <1>1 DEF FormInv, FormTypes
<1>4. Draft = Editor!NoDraft /\ Unsaved = {}
  BY <1>1, NoFormNoDraft
<1>. QED
  BY <1>1, <1>2, <1>3, <1>4 DEF Editor!Init

(* Writing a value of the current option to its buffer changes the draft.    *)
LEMMA CurrentChanges ==
  ASSUME FormInv, Editing, NEW v \in Values(Current),
         buffer' = [buffer EXCEPT ![Current] = v], UNCHANGED <<cmos, where, saving, heap>>
  PROVE  Editor!Change
<1>1. InForm /\ saving = 0
  BY DEF Editing
<1>2. Current \in Shown(where) /\ Current \in Options /\ numopts \in Nat
  BY <1>1, CurrentIsShown DEF FormInv
<1>3. Draft' = [Draft EXCEPT ![Current] = v]
  <2>1. InForm' /\ Shown(where)' = Shown(where)
    BY <1>1 DEF InForm, Shown
  <2>2. Shown(where) \subseteq Options
    BY <1>1, ShownAreOptions DEF InForm
  <2>. QED
    BY <1>1, <1>2, <2>1, <2>2 DEF Draft, FormInv, FormTypes
<1>4. DOMAIN Draft = Shown(where) /\ Unsaved = Shown(where)
  BY <1>1, <1>2, DraftOfShown, AllUnsaved
<1>5. Unsaved' = Unsaved
  BY DEF Unsaved, InForm, numopts
<1>. QED
  BY <1>2, <1>3, <1>4, <1>5 DEF Editor!Change

LEMMA EditorMove ==
  ASSUME FormInv, Editing, NEW f, MoveTo(f), UNCHANGED <<cmos, where, saving, heap>>
  PROVE  Editor!Change \/ UNCHANGED Mapped
<1>1. CASE UNCHANGED buffer
  BY <1>1, MappingStays
<1>2. CASE typed \notin Junk /\ typed # NoText /\ buffer' = [buffer EXCEPT ![Current] = typed]
  <2>1. typed \in Values(Current)
    BY <1>2 DEF FormInv, FormTypes
  <2>. QED
    BY <1>2, <2>1, CurrentChanges
<1>. QED
  BY <1>1, <1>2 DEF MoveTo

(* A turn of the save loop stores one option and leaves the later ones. *)
LEMMA EditorStore == FormInv /\ SaveOption => Editor!Store
<1>. SUFFICES ASSUME FormInv, SaveOption PROVE Editor!Store
  OBVIOUS
<1>. DEFINE s == FieldsOf[where][saving]
<1>1. InForm /\ InForm' /\ saving \in 1..numopts /\ numopts' = numopts /\ numopts \in Nat
  BY CurrentIsShown DEF SaveOption, InForm, numopts, FormInv
<1>2. s \in Shown(where)
  BY <1>1, SavedIsShown
<1>3. Draft' = Draft /\ Draft[s] = buffer[s]
  BY <1>1, <1>2 DEF SaveOption, Draft, Shown
<1>4. s \in Unsaved
  BY <1>1 DEF Unsaved
<1>5. Unsaved' = Unsaved \ {s}
  <2>1. \A i, j \in 1..numopts : FieldsOf[where][i] = FieldsOf[where][j] => i = j
    BY <1>1, WindowsAssumption DEF InForm, numopts
  <2>2. Unsaved' = {FieldsOf[where][i] : i \in {j \in 1..numopts : j >= saving + 1}}
    BY <1>1 DEF SaveOption, Unsaved, numopts
  <2>3. Unsaved = {FieldsOf[where][i] : i \in {j \in 1..numopts : j >= saving}}
    BY <1>1 DEF Unsaved
  <2>4. \A j \in 1..numopts : j >= saving + 1 <=> j >= saving /\ j # saving
    BY <1>1
  <2>. QED
    BY <1>1, <2>1, <2>2, <2>3, <2>4
<1>6. cmos' = [cmos EXCEPT ![s] = Draft[s]]
  BY <1>3 DEF SaveOption, SavedText
<1>7. UNCHANGED <<Draft, heap["pad"]>>
  BY <1>3 DEF SaveOption
<1>. QED
  BY <1>4, <1>5, <1>6, <1>7 DEF Editor!Store

LEMMA EditorStep == FormInv /\ FormStep => Editor!Next \/ UNCHANGED Mapped
<1>. SUFFICES ASSUME FormInv, FormStep PROVE Editor!Next \/ UNCHANGED Mapped
  OBVIOUS
<1>1. ASSUME where = "loop", NEW w \in Windows, OpenForm(w) PROVE Editor!Edit(w)
  <2>1. Draft = Editor!NoDraft
    BY <1>1, NoFormNoDraft DEF InForm, Windows
  <2>2. InForm' /\ Shown(where)' = Shown(w) /\ Shown(w) \subseteq Options
    BY <1>1, ShownAreOptions DEF OpenForm, InForm, Shown
  <2>3. \A o \in Shown(w) : buffer'[o] = FieldText(o)
    BY <1>1, <2>2 DEF OpenForm
  <2>4. DOMAIN Draft' = Shown(w) /\ \A o \in Shown(w) : Draft'[o] = FieldText(o)
    BY <2>2, <2>3 DEF Draft
  <2>5. \A o \in Shown(w) :
          /\ FieldText(o) \in Values(o)
          /\ cmos[o] \in Values(o) => FieldText(o) = cmos[o]
    BY <1>1, ShownAreOptions, FieldTextIsValue, ValuesAssumption DEF FieldText, FormInv
  <2>6. Unsaved' = Shown(w)
    <3>1. numopts' = Len(FieldsOf[w]) /\ saving' = 0 /\ where' = w
      BY <1>1 DEF OpenForm, numopts
    <3>2. Len(FieldsOf[w]) \in Nat
      BY <1>1, WindowsAssumption
    <3>3. {j \in 1..Len(FieldsOf[w]) : j >= 0} = 1..Len(FieldsOf[w])
      BY <3>2
    <3>. QED
      BY <2>2, <3>1, <3>3 DEF Unsaved, Shown
  <2>7. heap'["pad"] = heap["pad"] + 1 /\ UNCHANGED cmos
    BY <1>1, AllocatedIsNat DEF OpenForm, Blocks
  <2>. QED
    BY <2>1, <2>4, <2>5, <2>6, <2>7 DEF Editor!Edit
<1>2. CASE FormDown
  BY <1>2, EditorMove DEF FormDown, Editor!Next
<1>3. CASE FormUp
  BY <1>3, EditorMove DEF FormUp, Editor!Next
<1>4. CASE FormChoice
  BY <1>4, CurrentChanges DEF FormChoice, Editor!Next
<1>5. CASE FormType
  BY <1>5, MappingStays DEF FormType
<1>6. CASE LeaveForm
  <2>1. InForm /\ InForm' /\ saving = 0 /\ saving' = 1 /\ where' = where
        /\ numopts \in Nat /\ numopts' = numopts
    BY <1>6, CurrentIsShown DEF LeaveForm, Editing, InForm, numopts, FormInv
  <2>2. Unsaved = Shown(where)
    BY <2>1, AllUnsaved
  <2>3. Unsaved' = Shown(where)
    <3>1. {j \in 1..numopts : j >= 1} = 1..numopts
      BY <2>1
    <3>. QED
      BY <2>1, <3>1 DEF Unsaved, Shown, numopts
  <2>4. Draft' = Draft
    BY <1>6, <2>1 DEF LeaveForm, Draft, Shown
  <2>. QED
    BY <1>6, <2>2, <2>3, <2>4 DEF LeaveForm, Mapped
<1>7. CASE SaveOption
  BY <1>7, EditorStore DEF Editor!Next
<1>8. CASE CloseForm
  <2>1. InForm /\ ~InForm' /\ saving > numopts /\ saving \in Nat /\ numopts \in Nat
    BY <1>8, CurrentIsShown DEF CloseForm, AllSaved, InForm, Windows, FormInv, FormTypes
  <2>2. Unsaved = {}
    BY <2>1 DEF Unsaved
  <2>3. Draft' = Editor!NoDraft /\ Unsaved' = {}
    BY <2>1 DEF Draft, Unsaved, Editor!NoDraft
  <2>4. heap'["pad"] = heap["pad"] /\ UNCHANGED cmos
    BY <1>8 DEF CloseForm, Released, Blocks
  <2>. QED
    BY <2>2, <2>3, <2>4 DEF Editor!Close, Editor!Next
<1>9. CASE where = "loop" /\ where' = "reset" /\ UNCHANGED <<cmos, session, heap>>
  <2>1. ~InForm /\ ~InForm'
    BY <1>9 DEF InForm, Windows
  <2>. QED
    BY <1>9, <2>1 DEF Mapped, Draft, Unsaved
<1>10. CASE where' = "loop" /\ heap' = [b \in Blocks |-> 0] /\ EndSession /\ UNCHANGED cmos
  <2>1. ~InForm'
    BY <1>10 DEF InForm, Windows
  <2>2. Draft' = Editor!NoDraft /\ Unsaved' = {}
    BY <2>1 DEF Draft, Unsaved, Editor!NoDraft
  <2>3. heap'["pad"] = 0
    BY <1>10 DEF Blocks
  <2>. QED
    BY <1>10, <2>2, <2>3 DEF Editor!Reset, Editor!Next
<1>11. CASE UNCHANGED formVars
  BY <1>11, MappingStays DEF formVars, session
<1>. QED
  BY <1>1, <1>2, <1>3, <1>4, <1>5, <1>6, <1>7, <1>8, <1>9, <1>10, <1>11
  DEF FormStep, Editor!Next

(* The two windows implement the editor: a visit ends with its whole draft  *)
(* in the CMOS, and a reset, in the save loop too, leaves every option with *)
(* its old value or its new one, never with anything else.                  *)
THEOREM WindowsImplementEditor == Spec => EditorSpec
<1>1. FormInv /\ [Next]_vars => [Editor!Next]_Mapped
  BY NextIsFormStep, EditorStep
<1>. QED
  BY <1>1, EditorInit, FormInvariant, PTL DEF Spec, EditorSpec, Editor!Spec, Editor!vars, Mapped

-----------------------------------------------------------------------------
(***************************************************************************)
(* The invariant of the shell: the open form is the current category, what *)
(* is drawn is its module, and the category key pressed last names it      *)
(* while a form is open and after two presses in a row.                    *)
(***************************************************************************)
ShellInv ==
  /\ curwin \in Categories /\ Count[curwin] > 0
  /\ cur \in [Categories -> Nat]
  /\ pressed \in [key : 0..10, times : 0..2]
  /\ KeysGoToWhatIsShown
  /\ (/\ Editing \/ pressed.times = 2
      /\ pressed.key \in Categories /\ Count[pressed.key] > 0)
     => curwin = pressed.key

LEMMA ShellInit0 == Init => ShellInv
<1>. SUFFICES ASSUME Init PROVE ShellInv
  OBVIOUS
<1>1. /\ curwin \in Categories /\ Count[curwin] > 0
      /\ cur \in [Categories -> Nat] /\ cur[curwin] = 0
  BY CountAssumption DEF Init, ShellInit, FirstNonEmpty, Categories
<1>. QED
  BY <1>1
  DEF Init, ShellInit, FormInit, ShellInv, KeysGoToWhatIsShown, Editing, InForm, Windows, NoKey, Categories

(* Drawing a module of the category that becomes the current one. *)
LEMMA DrawKeeps ==
  ASSUME ShellInv, where = "loop", NEW n \in Categories, NEW m \in Nat, Count[n] > 0,
         RedrawModule(n, m), curwin' = n, cur' \in [Categories -> Nat], cur'[n] = m,
         pressed' = NoKey \/ Press(n)
  PROVE  ShellInv'
<1>1. screen' = <<curwin', cur'[curwin']>>
  BY DEF RedrawModule
<1>2. InForm' => IsForm(curwin') /\ where' = Window(curwin')
  BY DEF RedrawModule, OpenForm, InForm, Windows, formVars, IsForm, Window
<1>3. pressed' \in [key : 0..10, times : 0..2] /\ pressed'.key \in {0, n}
  BY DEF NoKey, Press, Categories
<1>. QED
  BY <1>1, <1>2, <1>3 DEF ShellInv, KeysGoToWhatIsShown, Categories

(* A step that stays in the category, or leaves its form on another's key.  *)
LEMMA StayKeeps ==
  ASSUME ShellInv, UNCHANGED <<curwin, cur, screen>>,
         where' = where \/ where' \in {"loop", "reset"}, Editing' => Editing,
         pressed' \in [key : 0..10, times : 0..2],
         \/ pressed'.key \notin Categories
         \/ pressed'.key = curwin
         \/ Editing /\ ~Editing' /\ Press(pressed'.key)
  PROVE  ShellInv'
<1>1. KeysGoToWhatIsShown'
  BY DEF ShellInv, KeysGoToWhatIsShown, InForm, Windows
<1>2. ASSUME Editing, ~Editing', Press(pressed'.key), pressed'.times = 2,
             pressed'.key \in Categories, Count[pressed'.key] > 0
      PROVE  curwin = pressed'.key
  BY <1>2 DEF ShellInv, Press
<1>. QED
  BY <1>1, <1>2 DEF ShellInv

LEMMA ShellStep == ShellInv /\ [Next]_vars => ShellInv'
<1>. SUFFICES ASSUME ShellInv, [Next]_vars PROVE ShellInv'
  OBVIOUS
<1>1. ASSUME NEW n \in Categories, FunctionKey(n) \/ DigitKey(n) PROVE ShellInv'
  BY <1>1, DrawKeeps DEF FunctionKey, DigitKey, SelectCategory, PressOther, ShellInv
<1>2. ASSUME NEW n, FunctionKeyUnused(n) PROVE ShellInv'
  BY <1>2, StayKeeps DEF FunctionKeyUnused, formVars, session, Editing, InForm, PressOther, NoKey, Categories
<1>3. ASSUME NEW n \in 1..9, FormFunctionKey(n) PROVE ShellInv'
  <2>1. UNCHANGED <<curwin, cur, screen>> /\ Editing /\ IsForm(curwin) /\ where = Window(curwin)
    BY <1>3 DEF FormFunctionKey, Editing, ShellInv, KeysGoToWhatIsShown
  <2>2. where' = where
    BY <1>3 DEF FormFunctionKey, LeaveForm, formVars
  <2>3. pressed' \in [key : 0..10, times : 0..2]
    BY <1>3 DEF FormFunctionKey, Press, PressOther, NoKey
  <2>4. CASE n \in LeaveKeys
    <3>1. ~Editing' /\ n \in Categories
      BY <1>3, <2>4 DEF FormFunctionKey, LeaveForm, Editing, LeaveKeys, Categories
    <3>2. Press(n) /\ pressed'.key = n
      BY <1>3, <3>1 DEF FormFunctionKey, Press
    <3>. QED
      BY <2>1, <2>2, <2>3, <3>1, <3>2, StayKeeps
  <2>5. CASE n \notin LeaveKeys
    <3>1. n \in Categories => n = curwin
      BY <2>1, <2>5
      DEF LeaveKeys, Categories, IsForm, Window, Configurator, Bootorder
    <3>2. pressed'.key = n \/ pressed'.key \notin Categories
      BY <1>3 DEF FormFunctionKey, Press, PressOther, NoKey, Categories
    <3>3. pressed'.key = curwin \/ pressed'.key \notin Categories
      BY <3>1, <3>2
    <3>. QED
      BY <2>1, <2>2, <2>3, <3>3, StayKeeps
  <2>. QED
    BY <2>4, <2>5
<1>4. ASSUME NEW l \in Letters, LetterKey(l) PROVE ShellInv'
  <2>1. /\ l \in Nat /\ curwin \in Categories /\ Count[curwin] > 0
        /\ cur' = [cur EXCEPT ![curwin] = l]
    BY <1>4 DEF LetterKey, Letters, ShellInv
  <2>2. cur' \in [Categories -> Nat] /\ cur'[curwin] = l
    BY <2>1 DEF ShellInv
  <2>. QED
    BY <1>4, <2>1, <2>2, DrawKeeps DEF LetterKey, PressOther
<1>5. CASE ModuleKey
  BY <1>5, StayKeeps DEF ModuleKey, formVars, session, Editing, InForm, PressOther, NoKey, Categories
<1>6. CASE Escape
  BY <1>6, StayKeeps DEF Escape, Press, Esc, Categories, Editing, InForm, Windows
<1>7. CASE FormDriverKey
  <2>1. where' = where /\ Editing
    BY <1>7 DEF FormDriverKey, FormDown, FormUp, FormChoice, FormType
  <2>. QED
    BY <1>7, <2>1, StayKeeps DEF FormDriverKey, PressOther, NoKey, Categories
<1>8. CASE FormEscape
  BY <1>8, StayKeeps DEF FormEscape, formVars, Press, Esc, Categories
<1>9. CASE FormSave
  <2>1. UNCHANGED <<curwin, cur, screen, pressed>> /\ ~Editing'
    BY <1>9
    DEF FormSave, shellVars, SaveOption, CloseForm, Editing, InForm, Windows
  <2>2. where' = where \/ where' = "loop"
    BY <1>9 DEF FormSave, SaveOption, CloseForm
  <2>3. KeysGoToWhatIsShown'
    BY <2>1, <2>2 DEF ShellInv, KeysGoToWhatIsShown, InForm, Windows
  <2>. QED
    BY <2>1, <2>3 DEF ShellInv
<1>10. CASE Restart
  <2>1. /\ curwin' \in Categories /\ Count[curwin'] > 0
        /\ cur' \in [Categories -> Nat] /\ cur'[curwin'] = 0
    BY <1>10, CountAssumption DEF Restart, FirstNonEmpty, Categories
  <2>. QED
    BY <1>10, <2>1
    DEF Restart, ShellInv, KeysGoToWhatIsShown, Editing, InForm, Windows, NoKey, Categories
<1>11. CASE UNCHANGED vars
  BY <1>11
  DEF vars, formVars, session, shellVars, ShellInv, KeysGoToWhatIsShown, Editing, InForm,
      IsForm, Window
<1>. QED
  BY <1>1, <1>2, <1>3, <1>4, <1>5, <1>6, <1>7, <1>8, <1>9, <1>10, <1>11 DEF Next

LEMMA ShellInvariant == Spec => []ShellInv
  BY ShellInit0, ShellStep, PTL DEF Spec

(* A key always goes to the module that is on the screen, whatever windows   *)
(* were opened and left before.                                              *)
THEOREM KeysReachScreen == Spec => []KeysGoToWhatIsShown
<1>1. ShellInv => KeysGoToWhatIsShown
  BY DEF ShellInv
<1>. QED
  BY <1>1, ShellInvariant, PTL

(* Two presses of the key of a category that has modules select it, from     *)
(* inside an NVRAM window and from outside.                                  *)
THEOREM TwoPresses == Spec => []TwoPressesSelect
<1>1. ShellInv => TwoPressesSelect
  BY DEF ShellInv, TwoPressesSelect
<1>. QED
  BY <1>1, ShellInvariant, PTL

(* The variables keep their types: the two invariants together imply it.     *)
THEOREM CoreinfoTypes == Spec => []TypeOK
<1>1. FormInv /\ ShellInv => TypeOK
  BY DEF FormInv, FormTypes, ShellInv, KeysGoToWhatIsShown, TypeOK
<1>. QED
  BY <1>1, FormInvariant, ShellInvariant, PTL

-----------------------------------------------------------------------------
LEMMA InfoStep == FormInv /\ FormStep /\ InfoFollowsField => InfoFollowsField'
<1>. SUFFICES ASSUME FormInv, FormStep, InfoFollowsField, where' = "bootorder", ~refused'
              PROVE  info' + 1 = field'
  BY DEF InfoFollowsField
<1>1. ASSUME NEW w \in Windows, OpenForm(w) PROVE info' + 1 = field'
  BY <1>1 DEF OpenForm
<1>2. CASE FormDown \/ FormUp
  <2>1. InForm /\ numopts \in Nat \ {0} /\ field \in 1..numopts /\ info \in Nat
    BY <1>2, CurrentIsShown DEF FormDown, FormUp, Editing, FormInv, FormTypes
  <2>2. ~refused /\ where = "bootorder" /\ info + 1 = field
    BY <1>2 DEF FormDown, FormUp, MoveTo, InfoFollowsField, FormInv, FormTypes
  <2>3. CASE FormDown
    BY <2>1, <2>2, <2>3 DEF FormDown, MoveTo, InfoAfter
  <2>4. CASE FormUp
    BY <2>1, <2>2, <2>4 DEF FormUp, MoveTo, InfoBefore
  <2>. QED
    BY <1>2, <2>3, <2>4
<1>3. CASE FormChoice \/ FormType \/ LeaveForm \/ SaveOption \/ UNCHANGED formVars
  BY <1>3 DEF FormChoice, FormType, LeaveForm, SaveOption, formVars, session, InfoFollowsField
<1>. QED
  BY <1>1, <1>2, <1>3 DEF FormStep, CloseForm

(* The information text is that of the current field as long as no move was  *)
(* refused, for any number of boot devices.                                  *)
THEOREM InfoIsOfField == Spec => []InfoFollowsField
<1>1. Init => InfoFollowsField
  BY DEF Init, FormInit, InfoFollowsField
<1>. QED
  BY <1>1, NextIsFormStep, InfoStep, FormInvariant, PTL DEF Spec

=============================================================================
