------------------------------ MODULE Programs -------------------------------
(***************************************************************************)
(* The programs of ncurses_programs that keep a state of their own: the    *)
(* puzzles, the typing tutor, the panels, menus and boxes.  They share     *)
(* nothing; one of them is run.                                            *)
(***************************************************************************)
EXTENDS Hanoi, Queens, MagicSquare, Life, Shuffle, TypingTutor, PanelDemos,
        Boxes, MenuDemos, KeyMenus

VARIABLE program  (* The program that is run.                              *)

puzzleVars == <<hanoiVars, queensVars, magicVars, lifeVars, shuffleVars, tutorVars>>
demoVars == <<panelVars, boxVars, menuVars, keyVars>>
vars == <<program, puzzleVars, demoVars>>

Puzzles == {"hanoi", "queens", "magic", "life", "shuffle", "tutor"}

(* What is not run does not matter, and is not told apart. *)
DemosInit ==
  /\ PanelsInit /\ (program # "panels" => demo = "browse")
  /\ BoxesInit /\ (program # "boxes" => boxDemo = "win")
  /\ MenusInit /\ (program # "menus" => menu = menu_simple)
  /\ KeyMenusInit /\ (program # "keys" => keyDemo = "key")

Init ==
  /\ program \in Puzzles \cup {"panels", "boxes", "menus", "keys"}
  /\ HanoiInit /\ QueensInit /\ MagicInit /\ LifeInit /\ ShuffleInit /\ TutorInit
  /\ DemosInit

Puzzle ==
  /\ \/ /\ program = "hanoi" /\ HanoiNext
        /\ UNCHANGED <<queensVars, magicVars, lifeVars, shuffleVars, tutorVars>>
     \/ /\ program = "queens" /\ QueensNext
        /\ UNCHANGED <<hanoiVars, magicVars, lifeVars, shuffleVars, tutorVars>>
     \/ /\ program = "magic" /\ MagicNext
        /\ UNCHANGED <<hanoiVars, queensVars, lifeVars, shuffleVars, tutorVars>>
     \/ /\ program = "life" /\ LifeNext
        /\ UNCHANGED <<hanoiVars, queensVars, magicVars, shuffleVars, tutorVars>>
     \/ /\ program = "shuffle" /\ ShuffleNext
        /\ UNCHANGED <<hanoiVars, queensVars, magicVars, lifeVars, tutorVars>>
     \/ /\ program = "tutor" /\ TutorNext
        /\ UNCHANGED <<hanoiVars, queensVars, magicVars, lifeVars, shuffleVars>>
  /\ UNCHANGED <<program, demoVars>>

Demonstration ==
  /\ \/ program = "panels" /\ PanelsNext /\ UNCHANGED <<boxVars, menuVars, keyVars>>
     \/ program = "boxes" /\ BoxesNext /\ UNCHANGED <<panelVars, menuVars, keyVars>>
     \/ program = "menus" /\ MenusNext /\ UNCHANGED <<panelVars, boxVars, keyVars>>
     \/ program = "keys" /\ KeyMenusNext /\ UNCHANGED <<panelVars, boxVars, menuVars>>
  /\ UNCHANGED <<program, puzzleVars>>

Next == Puzzle \/ Demonstration

Spec == Init /\ [][Next]_vars

-----------------------------------------------------------------------------
TypeOK ==
  /\ HanoiTypes /\ QueensTypes /\ MagicTypes /\ LifeTypes /\ ShuffleTypes
  /\ TutorTypes /\ PanelTypes /\ BoxTypes /\ MenuTypes /\ KeyMenuTypes

(***************************************************************************)
(* The puzzles come to the right answer: the tower is moved by legal moves *)
(* alone, every placing of the queens is found once, the square is magic,  *)
(* and a generation is that of Conway's rules.                             *)
(***************************************************************************)
AnswersAreRight == HanoiSolved /\ QueensFound /\ SquareIsMagic /\ LifeIsConway

(***************************************************************************)
(* What the demonstrations show is what they hold: the panels and boxes    *)
(* are where the program thinks they are and nothing else is left on the   *)
(* screen, a click hits the line it is on, the page has the current item,  *)
(* and what a menu program leaves allocated follows from the order of its  *)
(* last three calls.                                                       *)
(***************************************************************************)
DemosAgree == PanelsAgree /\ BoxAlone /\ MenusFreed /\ ClicksHit

=============================================================================
