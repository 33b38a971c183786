------------------------------ MODULE KeyMenus -------------------------------
(***************************************************************************)
(* The menus that programs of basics/ and Lessons/Menu draw themselves:    *)
(* simple_key.c, test.c and menu.c move a highlight by the arrow keys, and *)
(* mouse_menu.c takes clicks, which it must find among the lines it drew.  *)
(***************************************************************************)
EXTENDS Integers, Sequences

CONSTANTS
  Texts,   (* The lengths of the choices, the last of which is Exit.       *)
  Corner   (* Where the window begins, <<startx, starty>>.                 *)

ASSUME KeyMenusAssumption ==
  Texts \in Seq(Nat \ {0}) /\ Texts # <<>> /\ Corner \in Nat \X Nat

VARIABLES
  keyDemo,    (* "key", "test", "lesson" or "mouse".                       *)
  highlight,  (* The choice shown highlighted, from 1; 0 is none.          *)
  chosen,     (* choice: the last choice made, or 0.                       *)
  at,         (* Where mouse_menu's last click was.                        *)
  keyMenu     (* "runs", "left" or "undef".                                *)

keyVars == <<keyDemo, highlight, chosen, at, keyMenu>>

n_choices == Len(Texts)
Nowhere == <<-1, -1>>

KeyMenusInit ==
  /\ keyDemo \in {"key", "test", "lesson", "mouse"}
  /\ highlight = 1 /\ chosen = 0 /\ at = Nowhere /\ keyMenu = "runs"

KeyRuns(demos) == keyMenu = "runs" /\ keyDemo \in demos /\ UNCHANGED keyDemo

(* Past either end, the other end. *)
KEY_UP == highlight' = IF highlight = 1 THEN n_choices ELSE highlight - 1
KEY_DOWN == highlight' = IF highlight = n_choices THEN 1 ELSE highlight + 1

Wrapping == KeyRuns({"key", "test"}) /\ (KEY_UP \/ KEY_DOWN) /\ UNCHANGED <<chosen, at, keyMenu>>

(* test.c is the program without its way out. *)
TakeChoice ==
  /\ KeyRuns({"key", "test"})
  /\ chosen' = highlight
  /\ keyMenu' = IF keyDemo = "key" THEN "left" ELSE "runs"
  /\ UNCHANGED <<highlight, at>>

(* Lessons/Menu stays at either end, and counts from 0. *)
Lesson ==
  /\ KeyRuns({"lesson"})
  /\ \/ /\ highlight' \in {highlight - 1, highlight + 1} \cap (1..n_choices)
        /\ UNCHANGED <<chosen, at, keyMenu>>
     \/ keyMenu' = "left" /\ UNCHANGED <<highlight, chosen, at>>

(* print_menu of mouse_menu: the cells of the text of a choice. *)
Text(i) == ((Corner[1] + 2)..(Corner[1] + 1 + Texts[i])) \X {Corner[2] + 1 + i}

(* Mutant of Hit: the text is looked for a line too low. *)
HitBelow(i, x, y) ==
  y = Corner[2] + 3 + i /\ x \in (Corner[1] + 2)..(Corner[1] + 2 + Texts[i])

(* report_choice, for a place counted from 1. *)
Hit(i, x, y) ==
  y = Corner[2] + 2 + i /\ x \in (Corner[1] + 2)..(Corner[1] + 2 + Texts[i])

(* A click beside the choices is another one of what was chosen last; if    *)
(* nothing was, the string before the first is read.                        *)
Click ==
  /\ KeyRuns({"mouse"})
  /\ \E x \in 0..(Corner[1] + 12), y \in 0..(Corner[2] + n_choices + 3) :
       LET hits == {i \in 1..n_choices : Hit(i, x + 1, y + 1)}
       IN  /\ at' = <<x, y>>
           /\ chosen' = IF hits = {} THEN chosen ELSE CHOOSE i \in hits : TRUE
           /\ keyMenu' = CASE chosen' = n_choices -> "left"
                           [] chosen' = 0 -> "undef"
                           [] OTHER -> "runs"
           /\ highlight' = IF chosen' = n_choices THEN highlight ELSE chosen'

(* Another event of the mouse only draws the menu again. *)
OtherEvent ==
  /\ KeyRuns({"mouse"})
  /\ highlight' = chosen
  /\ UNCHANGED <<chosen, at, keyMenu>>

KeyMenusNext == Wrapping \/ TakeChoice \/ Lesson \/ Click \/ OtherEvent

-----------------------------------------------------------------------------
(* What is highlighted is one of the choices and, once one was clicked, it  *)
(* is that one.  A click on the text of a choice makes that choice, and one *)
(* that makes no choice, which is undefined as the first, was beside all of *)
(* them.                                                                    *)
ClicksHit ==
  /\ keyDemo # "mouse" => highlight \in 1..n_choices
  /\ keyDemo = "mouse" /\ keyMenu = "runs" /\ chosen # 0 => highlight = chosen
  /\ \A i \in 1..n_choices : at \in Text(i) => chosen = i
  /\ keyMenu = "undef" => at # Nowhere /\ \A i \in 1..n_choices : at \notin Text(i)

KeyMenuTypes ==
  /\ keyMenu \in {"runs", "left", "undef"}
  /\ highlight \in 0..n_choices /\ chosen \in 0..n_choices

=============================================================================
