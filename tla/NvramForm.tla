------------------------------ MODULE NvramForm ------------------------------
(***************************************************************************)
(* One visit to an NVRAM window of coreinfo: the redraw callback of the    *)
(* Configurator and of the Bootorder module.  It is modal: it copies the   *)
(* options of the window from CMOS into form fields, reads keys itself     *)
(* until a key that leaves it, and writes every field back to CMOS, one    *)
(* option after the other; the machine may be reset between two of them.   *)
(*                                                                         *)
(* The form library is external.  It keeps what is typed into the current  *)
(* field apart from the field's buffer until the field is left; leaving a  *)
(* field validates it, and a refused text keeps the form where it is.      *)
(***************************************************************************)
EXTENDS Integers, Sequences, FiniteSets

CONSTANTS
  Options,   (* The CMOS options of both windows.                          *)
  FieldsOf,  (* FieldsOf[w]: the options window w shows, in order.         *)
  Kind,      (* Kind[o]: "h", a number, or "e", one of named values.       *)
  Values(_), (* The values of an option, as the form shows them.           *)
  Default,   (* Default[o]: the first value of an enumeration.             *)
  Junk,      (* Typed texts a number field refuses: blank, out of range.   *)
  Invalid,   (* CMOS bits that are no value of their enumeration.          *)
  NoText     (* Nothing is typed in the current field.                     *)

Windows == {"configurator", "bootorder"}

Shown(w) == {FieldsOf[w][i] : i \in 1..Len(FieldsOf[w])}

Contents(o) == IF Kind[o] = "e" THEN Values(o) \cup {Invalid} ELSE Values(o)

AllValues == UNION {Values(o) : o \in Options}

ASSUME WindowsAssumption ==
  /\ FieldsOf \in [Windows -> Seq(Options)]
  /\ \A w \in Windows :
       /\ Len(FieldsOf[w]) > 0
       /\ \A i, j \in 1..Len(FieldsOf[w]) :
            FieldsOf[w][i] = FieldsOf[w][j] => i = j
  /\ \A o \in Shown("bootorder") : Kind[o] = "h"

ASSUME ValuesAssumption ==
  /\ Kind \in [Options -> {"h", "e"}]
  /\ Default \in [Options -> AllValues]
  /\ \A o \in Options :
       /\ Default[o] \in Values(o)
       /\ Values(o) \cap (Junk \cup {Invalid, NoText}) = {}
  /\ NoText \notin Junk

VARIABLES
  cmos,    (* The contents of every option.                                *)
  where,   (* "loop", the open window, or "reset".                         *)
  buffer,  (* The field buffers of the open window.                        *)
  field,   (* The current field, an index into FieldsOf[where].            *)
  typed,   (* What is typed in it and not yet in its buffer.               *)
  info,    (* Bootorder's counter i, which selects the information text.   *)
  saving,  (* 0 while keys are read, then the counter of the save loop.    *)
  touched, (* History: the options changed by a key in this visit.         *)
  refused, (* History: a move was refused in this visit.                   *)
  heap     (* What the visits have allocated and not released.             *)

session == <<buffer, field, typed, info, saving, touched, refused>>
formVars == <<cmos, where, session, heap>>

(***************************************************************************)
(* What redraw has on the heap: the array of the fields, the fields, what  *)
(* each field keeps of its own (its buffer), the texts of                  *)
(* get_option_as_string, the form and the pad.                             *)
(***************************************************************************)
Blocks == {"array", "fields", "buffers", "texts", "form", "pad"}

InForm == where \in Windows
Editing == InForm /\ saving = 0
numopts == Len(FieldsOf[where])
Current == FieldsOf[where][field]

(* Mutant of FieldText: bits that name no value are shown as they are. *)
FieldTextRaw(o) == cmos[o]

(***************************************************************************)
(* The text cmos_walk_options puts into a field.  An enumeration whose     *)
(* bits name no value shows its first value; the configurator alone has    *)
(* enumerations.                                                           *)
(***************************************************************************)
FieldText(o) == IF cmos[o] = Invalid THEN Default[o] ELSE cmos[o]

(* With no window open the locals of redraw do not exist. *)
NoBuffers == [o \in Options |-> Default[o]]

FormInit ==
  /\ cmos \in {c \in [Options -> AllValues \cup {Invalid}] :
                 \A o \in Options : c[o] \in Contents(o)}
  /\ where = "loop"
  /\ buffer = NoBuffers
  /\ field = 1
  /\ typed = NoText
  /\ info = 0
  /\ saving = 0
  /\ touched = {}
  /\ refused = FALSE
  /\ heap = [b \in Blocks |-> 0]

(***************************************************************************)
(* What redraw allocates for window w: two fields for every option, and a  *)
(* text for each whose bits name a value.                                  *)
(***************************************************************************)
Allocated(w) ==
  LET options == 1..Len(FieldsOf[w])
      named   == {i \in options : cmos[FieldsOf[w][i]] # Invalid}
  IN  [b \in Blocks |-> CASE b \in {"fields", "buffers"} -> 2 * Len(FieldsOf[w])
                          [] b = "texts" -> Cardinality(named)
                          [] OTHER -> 1]

(* redraw up to its key loop: allocate, read CMOS, post the form. *)
OpenForm(w) ==
  /\ where' = w
  /\ buffer' = [o \in Options |-> IF o \in Shown(w) THEN FieldText(o) ELSE Default[o]]
  /\ field' = 1
  /\ typed' = NoText
  /\ info' = 0
  /\ saving' = 0
  /\ touched' = {}
  /\ refused' = FALSE
  /\ heap' = [b \in Blocks |-> heap[b] + Allocated(w)[b]]
  /\ UNCHANGED cmos

(***************************************************************************)
(* The form driver leaves the current field for field f, unless the text   *)
(* typed there is refused.                                                 *)
(***************************************************************************)
MoveTo(f) ==
  \/ /\ typed \in Junk
     /\ refused' = TRUE
     /\ UNCHANGED <<buffer, field, typed>>
  \/ /\ typed \notin Junk
     /\ buffer' = IF typed = NoText THEN buffer
                                    ELSE [buffer EXCEPT ![Current] = typed]
     /\ field' = f
     /\ typed' = NoText
     /\ UNCHANGED refused

(* Mutant of InfoAfter: the counter wraps one too late. *)
InfoAfterOffByOne == IF info < numopts THEN info + 1 ELSE 0

(* Bootorder's counter i after KEY_DOWN and after KEY_UP. *)
InfoAfter == IF info < numopts - 1 THEN info + 1 ELSE 0
InfoBefore == IF info > 0 THEN info - 1 ELSE numopts - 1

(* KEY_DOWN; the result of form_driver is ignored and bootorder's i moves on. *)
FormDown ==
  /\ Editing
  /\ MoveTo(IF field < numopts THEN field + 1 ELSE 1)
  /\ info' = IF where = "bootorder" THEN InfoAfter ELSE info
  /\ UNCHANGED <<cmos, where, saving, touched, heap>>

FormUp ==
  /\ Editing
  /\ MoveTo(IF field > 1 THEN field - 1 ELSE numopts)
  /\ info' = IF where = "bootorder" THEN InfoBefore ELSE info
  /\ UNCHANGED <<cmos, where, saving, touched, heap>>

(* KEY_LEFT and KEY_RIGHT step an enumeration to another of its values. *)
FormChoice ==
  /\ Editing
  /\ Kind[Current] = "e"
  /\ \E v \in Values(Current) : buffer' = [buffer EXCEPT ![Current] = v]
  /\ touched' = touched \cup {Current}
  /\ UNCHANGED <<cmos, where, field, typed, info, saving, refused, heap>>

(***************************************************************************)
(* A printable key, backspace or delete: form_driver edits the text of a   *)
(* number field.  An enumeration is not editable and ignores them.         *)
(***************************************************************************)
FormType ==
  /\ Editing
  /\ Kind[Current] = "h"
  /\ typed' \in Values(Current) \cup Junk
  /\ touched' = touched \cup {Current}
  /\ UNCHANGED <<cmos, where, buffer, field, info, saving, refused, heap>>

(* Mutant of SavedText: the save falls back to the default of an option. *)
SavedTextDefault(o) == IF o \in touched THEN buffer[o] ELSE Default[o]

(* Mutant of SavedText: it takes what is being typed, unvalidated. *)
SavedTextTyped(o) == IF o = Current /\ typed # NoText THEN typed ELSE buffer[o]

(* The text the save loop reads back from the field of o. *)
SavedText(o) == buffer[o]

(***************************************************************************)
(* What redraw frees before it returns.  It calls free and not free_field  *)
(* on the fields, so that what a field keeps of its own stays; nothing     *)
(* frees the texts or deletes the pad.                                     *)
(***************************************************************************)
Released == {"array", "fields", "form"}

(* The locals of redraw are gone. *)
EndSession ==
  /\ buffer' = NoBuffers
  /\ field' = 1
  /\ typed' = NoText
  /\ info' = 0
  /\ saving' = 0
  /\ touched' = {}
  /\ refused' = FALSE

(* A key that ends the key loop: the save loop starts at the first option. *)
LeaveForm ==
  /\ Editing
  /\ saving' = 1
  /\ UNCHANGED <<cmos, where, buffer, field, typed, info, touched, refused, heap>>

(* Mutant of AllSaved: the save loop stops before the last option. *)
AllSavedButLast == saving >= numopts

(* The save loop has passed the last option. *)
AllSaved == saving > numopts

(***************************************************************************)
(* One turn of the save loop: set_option_from_string writes the buffer of  *)
(* one option to CMOS (the text still being typed is not in a buffer).     *)
(***************************************************************************)
SaveOption ==
  /\ InForm
  /\ saving \in 1..numopts
  /\ LET o == FieldsOf[where][saving] IN cmos' = [cmos EXCEPT ![o] = SavedText(o)]
  /\ saving' = saving + 1
  /\ UNCHANGED <<where, buffer, field, typed, info, touched, refused, heap>>

(* After the save loop redraw frees what it frees and returns. *)
CloseForm ==
  /\ InForm
  /\ AllSaved
  /\ where' = "loop"
  /\ heap' = [b \in Blocks |-> IF b \in Released THEN heap[b] - Allocated(where)[b]
                                                  ELSE heap[b]]
  /\ EndSession
  /\ UNCHANGED cmos

=============================================================================
