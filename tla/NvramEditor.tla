----------------------------- MODULE NvramEditor -----------------------------
(***************************************************************************)
(* What the two NVRAM windows promise together: the options of one window  *)
(* are copied into a draft, the draft is changed one option at a time and  *)
(* only to values the option has, then its options are stored one by one,  *)
(* and the draft is closed when all of them are.  Opening repairs what is  *)
(* not a value of its option and nothing else.  Only a reset, which starts *)
(* the count of visits again, drops a draft that is not stored, and it     *)
(* keeps the CMOS.                                                         *)
(***************************************************************************)
EXTENDS Naturals

CONSTANTS
  Options,      (* The CMOS options.                                       *)
  Windows,      (* The NVRAM windows.                                      *)
  OptionsOf(_), (* The options of a window.                                *)
  Values(_),    (* The values an option can have.                          *)
  Contents(_)   (* What its CMOS bits can hold.                            *)

VARIABLES
  cmos,    (* The contents of every option.                                *)
  draft,   (* Maps the options being edited to their values.               *)
  unsaved, (* The options of the draft that are still to be stored.        *)
  visits   (* How many drafts were opened since the last reset.            *)

vars == <<cmos, draft, unsaved, visits>>

NoDraft == [o \in {} |-> o]

Init ==
  /\ cmos \in {c \in [Options -> UNION {Contents(o) : o \in Options}] :
                 \A o \in Options : c[o] \in Contents(o)}
  /\ draft = NoDraft
  /\ unsaved = {}
  /\ visits = 0

Edit(w) ==
  /\ draft = NoDraft
  /\ DOMAIN draft' = OptionsOf(w)
  /\ \A o \in OptionsOf(w) :
       /\ draft'[o] \in Values(o)
       /\ cmos[o] \in Values(o) => draft'[o] = cmos[o]
  /\ unsaved' = OptionsOf(w)
  /\ visits' = visits + 1
  /\ UNCHANGED cmos

(* Once an option is stored the draft is final. *)
Change ==
  /\ unsaved = DOMAIN draft
  /\ \E o \in DOMAIN draft : \E v \in Values(o) :
       draft' = [draft EXCEPT ![o] = v]
  /\ UNCHANGED <<cmos, unsaved, visits>>

Store ==
  /\ \E o \in unsaved :
       /\ cmos' = [cmos EXCEPT ![o] = draft[o]]
       /\ unsaved' = unsaved \ {o}
  /\ UNCHANGED <<draft, visits>>

Close ==
  /\ unsaved = {}
  /\ draft' = NoDraft
  /\ UNCHANGED <<cmos, unsaved, visits>>

Reset ==
  /\ draft' = NoDraft
  /\ unsaved' = {}
  /\ visits' = 0
  /\ UNCHANGED cmos

Next == (\E w \in Windows : Edit(w)) \/ Change \/ Store \/ Close \/ Reset

Spec == Init /\ [][Next]_vars

=============================================================================
