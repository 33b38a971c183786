---------------------------- MODULE TypingTutor ------------------------------
(* tt.c: rounds of typing, each a row of characters to be typed, started    *)
(* from a menu or by the round before.  A character is right or wrong.      *)
EXTENDS Integers

CONSTANTS
  HSIZE,     (* The characters of a round; 60.                             *)
  n_groups,  (* The choices of the menu, without the one that ends; 13.    *)
  Answers,   (* The numbers the user may enter.                            *)
  MaxRounds  (* Bound on the rounds.                                       *)

ASSUME TutorAssumption ==
  /\ HSIZE \in Nat /\ n_groups \in Nat /\ MaxRounds \in Nat
  /\ Answers \subseteq Int

VARIABLES
  choice,    (* The group practised.                                       *)
  typed,     (* i: the keys of this round.                                 *)
  mistakes,
  ch,        (* The last key: "F1" or another.                             *)
  windows,   (* The windows made and not deleted.                          *)
  tutor      (* "menu", "wrong", "types", "timed" or "exited".             *)

tutorVars == <<choice, typed, mistakes, ch, windows, tutor>>

TutorInit ==
  choice = 0 /\ typed = 0 /\ mistakes = 0 /\ ch = "F1" /\ windows = 0 /\ tutor = "menu"

(* Each round makes a window and none deletes it. *)
StartRound ==
  /\ windows < MaxRounds
  /\ windows' = windows + 1
  /\ typed' = 0 /\ mistakes' = 0 /\ ch' = "none"
  /\ tutor' = "types"

print_menu ==
  /\ tutor = "menu"
  /\ \E answer \in Answers :
       \/ /\ answer \in 1..n_groups
          /\ choice' = answer - 1
          /\ StartRound
       \/ /\ answer = n_groups + 1
          /\ tutor' = "exited" /\ choice' = n_groups
          /\ UNCHANGED <<typed, mistakes, ch, windows>>
       \/ /\ answer \notin 1..(n_groups + 1)
          /\ tutor' = "wrong"
          /\ UNCHANGED <<choice, typed, mistakes, ch, windows>>

(* Any key shows the menu again. *)
WrongChoice ==
  /\ tutor = "wrong"
  /\ tutor' = "menu"
  /\ UNCHANGED <<choice, typed, mistakes, ch, windows>>

(* A key is compared with the character it stands at, F1 like any other.    *)
(* One key more is read than there are characters: it is right if it is the *)
(* zero that ends them.                                                     *)
TypeKey ==
  /\ tutor = "types"
  /\ ch' \in {"F1", "right", "other"}
  /\ typed' = typed + 1
  /\ mistakes' = IF ch' = "right" THEN mistakes ELSE mistakes + 1
  /\ tutor' = IF ch' = "F1" \/ typed' = HSIZE + 1 THEN "timed" ELSE "types"
  /\ UNCHANGED <<choice, windows>>

(* After print_time and a key, the menu if the round was left by F1. *)
EndRound ==
  /\ tutor = "timed"
  /\ \/ /\ ch = "F1" /\ tutor' = "menu"
        /\ UNCHANGED <<typed, mistakes, ch, windows>>
     \/ ch # "F1" /\ StartRound
  /\ UNCHANGED choice

TutorNext == print_menu \/ WrongChoice \/ TypeKey \/ EndRound

TutorTypes ==
  /\ tutor \in {"menu", "wrong", "types", "timed", "exited"}
  /\ choice \in 0..n_groups
  /\ tutor \in {"types", "timed"} => choice < n_groups
  /\ typed \in 0..(HSIZE + 1) /\ mistakes \in 0..typed

=============================================================================
