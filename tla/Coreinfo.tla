------------------------------- MODULE Coreinfo ------------------------------
(***************************************************************************)
(* The main loop of the coreinfo payload and its two modal NVRAM windows.  *)
(*                                                                         *)
(* Four categories hold the modules.  The loop sends a key to the category *)
(* menu (F1 to F9 or a digit), to the ESC that reboots, to the module menu *)
(* (a letter) or to the current module.  Showing the Configurator or the   *)
(* Bootorder category runs its form inside redraw_module, so until the     *)
(* user leaves it every key goes to the form and none to the loop.         *)
(***************************************************************************)
EXTENDS NvramForm

CONSTANTS
  Count,    (* Count[c]: how many modules category c has, in 1..4. *)
  MaxVisits (* Bound on the visits to a form between two resets.   *)

Categories == 1..4
Configurator == 3
Bootorder == 4

(* The build has a System or a Firmware module, as its .config has. *)
ASSUME CountAssumption ==
  /\ Count \in [Categories -> Nat]
  /\ Count[Configurator] = 1 /\ Count[Bootorder] = 1
  /\ Count[1] + Count[2] > 0
ASSUME MaxVisitsAssumption == MaxVisits \in Nat

VARIABLES
  curwin,  (* The current category.                                   *)
  cur,     (* cur[c]: the current module of category c, from 0.       *)
  screen,  (* The module drawn last in the module window.             *)
  pressed  (* History: the last function key or ESC, how often in a row. *)

shellVars == <<curwin, cur, screen, pressed>>
vars == <<formVars, shellVars>>

(***************************************************************************)
(* The keys: F1 to F9, the digits, letters numbered from A, ESC, and the   *)
(* rest, which only the current module looks at.                           *)
(***************************************************************************)
Letters == 0..25
Esc == 10
NoKey == [key |-> 0, times |-> 0]

(* Counts up to two presses in a row of a category's function key or ESC. *)
Press(k) ==
  pressed' = [key   |-> k,
              times |-> IF pressed.key = k THEN 2 ELSE 1]
PressOther == pressed' = NoKey

Window(c) == IF c = Configurator THEN "configurator" ELSE "bootorder"
IsForm(c) == c \in {Configurator, Bootorder}

(* The heap's pads count the visits. *)
MayVisit == heap["pad"] < MaxVisits

(* redraw_module on a category that has modules: a form does not return. *)
RedrawModule(c, module) ==
  /\ screen' = <<c, module>>
  /\ \/ ~IsForm(c) /\ UNCHANGED formVars
     \/ IsForm(c) /\ MayVisit /\ OpenForm(Window(c))

FirstNonEmpty == IF Count[1] > 0 THEN 1 ELSE 2

(* main and the head of loop: the first category with a module is drawn. *)
ShellInit ==
  /\ curwin = FirstNonEmpty
  /\ cur = [c \in Categories |-> 0]
  /\ screen = <<FirstNonEmpty, 0>>
  /\ pressed = NoKey

Init == FormInit /\ ShellInit

(* Mutant of SelectCategory: the window is drawn before curwin changes. *)
SelectCategoryLate(n) ==
  /\ where = "loop"
  /\ Count[n] > 0
  /\ curwin' = n
  /\ RedrawModule(curwin, cur[curwin])
  /\ UNCHANGED cur

(* A function key or digit n in the loop that names a category. *)
SelectCategory(n) ==
  /\ where = "loop"
  /\ Count[n] > 0
  /\ curwin' = n
  /\ RedrawModule(n, cur[n])
  /\ UNCHANGED cur

FunctionKey(n) == SelectCategory(n) /\ Press(n)
DigitKey(n) == SelectCategory(n) /\ PressOther

(***************************************************************************)
(* Key 5 is in range of the test ch <= ARRAY_SIZE(categories) and ignored, *)
(* as is the key of an empty category; 6 to 9 go on to the current module. *)
(***************************************************************************)
FunctionKeyUnused(n) ==
  /\ where = "loop"
  /\ n \in Categories => Count[n] = 0
  /\ PressOther
  /\ UNCHANGED <<formVars, curwin, cur, screen>>

(* handle_category_key on a letter that names a module of the category. *)
LetterKey(l) ==
  /\ where = "loop"
  /\ l < Count[curwin]
  /\ cur' = [cur EXCEPT ![curwin] = l]
  /\ RedrawModule(curwin, l)
  /\ PressOther
  /\ UNCHANGED curwin

(* Any other key: the module handles it, and is drawn again if it says so. *)
(* The two NVRAM modules have no handle.                                   *)
ModuleKey ==
  /\ where = "loop"
  /\ PressOther
  /\ UNCHANGED <<formVars, curwin, cur, screen>>

(* ESC in the loop: main resets the machine through port 0xcf9. *)
Escape ==
  /\ where = "loop"
  /\ where' = "reset"
  /\ Press(Esc)
  /\ UNCHANGED <<cmos, session, heap, curwin, cur, screen>>

(* Mutant of LeaveKeys: the configurator does not leave on F4. *)
LeaveKeysNoF4 == IF where = "configurator" THEN {1, 2} ELSE {1, 2, 3}

(* The function keys that end the key loop of the open form. *)
LeaveKeys == IF where = "configurator" THEN {1, 2, 4} ELSE {1, 2, 3}

FormFunctionKey(n) ==
  /\ Editing
  /\ \/ n \in LeaveKeys /\ LeaveForm
     \/ n \notin LeaveKeys /\ UNCHANGED formVars
  /\ IF n \in Categories THEN Press(n) ELSE PressOther
  /\ UNCHANGED <<curwin, cur, screen>>

(* A key the form passes to its form driver. *)
FormDriverKey ==
  /\ FormDown \/ FormUp \/ FormChoice \/ FormType
  /\ PressOther
  /\ UNCHANGED <<curwin, cur, screen>>

(* ESC in a form has no case of its own and means nothing to the driver. *)
FormEscape ==
  /\ Editing
  /\ Press(Esc)
  /\ UNCHANGED <<formVars, curwin, cur, screen>>

(* No key is read from the one that leaves a window to the end of its visit. *)
FormSave ==
  /\ SaveOption \/ CloseForm
  /\ UNCHANGED shellVars

(* The machine starts again, after ESC or because someone reset it. *)
Restart ==
  /\ where' = "loop"
  /\ heap' = [b \in Blocks |-> 0]
  /\ EndSession
  /\ curwin' = FirstNonEmpty
  /\ cur' = [c \in Categories |-> 0]
  /\ screen' = <<FirstNonEmpty, 0>>
  /\ pressed' = NoKey
  /\ UNCHANGED cmos

Next ==
  \/ \E n \in Categories : FunctionKey(n) \/ DigitKey(n)
  \/ \E n \in 1..9 : FunctionKeyUnused(n) \/ FormFunctionKey(n)
  \/ \E l \in Letters : LetterKey(l)
  \/ ModuleKey
  \/ Escape
  \/ FormDriverKey
  \/ FormEscape
  \/ FormSave
  \/ Restart

Spec == Init /\ [][Next]_vars

-----------------------------------------------------------------------------
TypeOK ==
  /\ cmos \in [Options -> AllValues \cup {Invalid}]
  /\ \A o \in Options : cmos[o] \in Contents(o)
  /\ where \in {"loop", "reset"} \cup Windows
  /\ buffer \in [Options -> AllValues]
  /\ \A o \in Options : buffer[o] \in Values(o)
  /\ field \in Nat
  /\ InForm => field \in 1..numopts
  /\ ~InForm => field = 1
  /\ typed = NoText \/ (InForm /\ Kind[Current] = "h"
                          /\ typed \in Values(Current) \cup Junk)
  /\ info \in Nat
  /\ saving \in Nat
  /\ InForm => saving \in 0..numopts + 1
  /\ ~InForm => saving = 0
  /\ touched \subseteq Options
  /\ refused \in BOOLEAN
  /\ heap \in [Blocks -> Nat]
  /\ curwin \in Categories /\ Count[curwin] > 0
  /\ cur \in [Categories -> Nat]
  /\ screen \in Categories \X Nat
  /\ pressed \in [key : 0..10, times : 0..2]

(***************************************************************************)
(* A key goes to the module the user is looking at: the loop sends keys to *)
(* the current module of curwin, a form to itself, and that is what was    *)
(* drawn last, whatever was opened and left before.                        *)
(***************************************************************************)
KeysGoToWhatIsShown ==
  /\ screen = <<curwin, cur[curwin]>>
  /\ InForm => IsForm(curwin) /\ where = Window(curwin)

(***************************************************************************)
(* release.md, known problem 1: leaving an NVRAM window takes the key of   *)
(* the other category twice.  Two presses in a row are enough from         *)
(* anywhere, and a third one does not leave the category again.            *)
(***************************************************************************)
TwoPressesSelect ==
  /\ pressed.times = 2
  /\ pressed.key \in Categories
  /\ Count[pressed.key] > 0
  => curwin = pressed.key

(***************************************************************************)
(* Options keep their stored value through any visit unless a key changed  *)
(* them in that visit, or the stored bits were no value at all: reading    *)
(* every option into a form and writing all of them back loses nothing.    *)
(***************************************************************************)
OnlyEditsReachCmos ==
  [][\A o \in Options :
       cmos'[o] # cmos[o] => InForm /\ (o \in touched \/ cmos[o] = Invalid)]_vars

(* The information text is that of the current field as long as the form    *)
(* driver refused no move: then the counter and the form wrap together.     *)
InfoFollowsField == where = "bootorder" /\ ~refused => info + 1 = field

(* The draft is what the buffers hold; the save loop has yet to store these. *)
Draft == [o \in IF InForm THEN Shown(where) ELSE {} |-> buffer[o]]
Unsaved ==
  IF InForm THEN {FieldsOf[where][i] : i \in {j \in 1..numopts : j >= saving}}
            ELSE {}

(***************************************************************************)
(* The windows implement the editor.  A visit ends with every option of    *)
(* the window in CMOS; only a reset drops some of them, those the save     *)
(* loop had not reached, and each option then holds its value from before  *)
(* the visit or the one it was given in it.                                *)
(***************************************************************************)
Editor == INSTANCE NvramEditor
            WITH OptionsOf <- Shown,
                 draft     <- Draft,
                 unsaved   <- Unsaved,
                 visits    <- heap["pad"]
EditorSpec == Editor!Spec

(* RELEASE/release.md, known problem 2: all the memory a configurator       *)
(* allocates is released at its end, so after any number of visits nothing  *)
(* of them is left.                                                         *)
VisitsLeaveNothing == where = "loop" => \A b \in Blocks : heap[b] = 0

(* Coreboot/README.md, 20.07.2021, item 5: the counter was added so that    *)
(* paging through the options is correct.                                   *)
InfoMatchesField == where = "bootorder" => info + 1 = field

=============================================================================
