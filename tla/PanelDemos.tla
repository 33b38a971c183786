----------------------------- MODULE PanelDemos ------------------------------
(***************************************************************************)
(* panel_browse.c, panel_hide.c and panel_resize.c: three overlapping      *)
(* windows in the panel library's stack, which keys bring to the top, hide *)
(* and show, move and resize.  The library keeps the stack and the windows *)
(* and the programs keep a copy of what they need to know of them.         *)
(***************************************************************************)
EXTENDS Integers, Sequences, SequencesExt

CONSTANTS
  Columns, Rows,    (* The size of the screen.                             *)
  FirstXY, StepXY,  (* Where init_wins puts the first window, and by how   *)
                    (* much it moves each of the next; <<10, 2>>, <<7, 3>>.*)
  NCOLS, NLINES,    (* The size of the windows; 40 and 10.                 *)
  MaxArrows         (* Bound on the arrow keys of panel_resize.            *)

ASSUME PanelsAssumption ==
  /\ Columns \in Nat /\ Rows \in Nat /\ MaxArrows \in Nat
  /\ FirstXY \in Nat \X Nat /\ StepXY \in Nat \X Nat
  /\ NCOLS \in Nat \ {0} /\ NLINES \in Nat \ {0}

VARIABLES
  demo,      (* "browse", "hide" or "resize".                              *)
  stack,     (* The panels on the screen, bottom first.                    *)
  windowOf,  (* The place and size of the window of each panel.            *)
  stack_top, (* The panel the program takes for the top.                   *)
  hide,      (* The panels the program takes to be hidden.                 *)
  new,       (* newx, newy, neww and newh.                                 *)
  size, move,
  arrows,    (* The arrow keys pressed.                                    *)
  panels     (* "runs", "left" or "undef".                                 *)

resizeVars == <<new, size, move, arrows>>
panelVars == <<demo, stack, windowOf, stack_top, hide, resizeVars, panels>>

Panels == 0..2

(* init_wins; panel_resize keeps this place as user data. *)
Placed(p) ==
  [x |-> FirstXY[1] + p * StepXY[1], y |-> FirstXY[2] + p * StepXY[2], w |-> NCOLS, h |-> NLINES]

PanelsInit ==
  /\ demo \in {"browse", "hide", "resize"}
  /\ stack = <<0, 1, 2>> /\ windowOf = [p \in Panels |-> Placed(p)]
  /\ stack_top = 2 /\ hide = {}
  /\ new = Placed(2) /\ size = FALSE /\ move = FALSE /\ arrows = 0
  /\ panels = "runs"

Raised(p) == Append(RemoveFirst(stack, p), p)

(* Mutant of next: the ring runs the other way. *)
nextDown(p) == (p + 2) % 3

(* The panel behind p in the ring of user pointers. *)
next(p) == (p + 1) % 3

Tab ==
  /\ panels = "runs" /\ demo \in {"browse", "resize"}
  /\ stack_top' = next(stack_top)
  /\ stack' = Raised(stack_top')
  /\ new' = IF demo = "resize" THEN Placed(stack_top') ELSE new
  /\ UNCHANGED <<demo, windowOf, hide, size, move, arrows, panels>>

Shown(p) == stack' = Raised(p) /\ hide' = hide \ {p}

(* The keys a, b and c. *)
HideKey ==
  /\ panels = "runs" /\ demo = "hide"
  /\ \E p \in Panels :
       \/ p \notin hide /\ stack' = RemoveFirst(stack, p) /\ hide' = hide \cup {p}
       \/ p \in hide /\ Shown(p)
  /\ UNCHANGED <<demo, windowOf, stack_top, resizeVars, panels>>

(* The keys r and m; both may be in force. *)
ModeKey ==
  /\ panels = "runs" /\ demo = "resize"
  /\ \/ size' = TRUE /\ UNCHANGED move
     \/ move' = TRUE /\ UNCHANGED size
  /\ UNCHANGED <<demo, stack, windowOf, stack_top, hide, new, arrows, panels>>

(* With both modes in force the window moves by two. *)
ArrowKey ==
  /\ panels = "runs" /\ demo = "resize" /\ arrows < MaxArrows
  /\ \E d \in {-1, 1} :
       LET by == d * ((IF size THEN 1 ELSE 0) + (IF move THEN 1 ELSE 0))
           less == IF size THEN d ELSE 0
       IN  \/ new' = [new EXCEPT !.x = @ + by, !.w = @ - less]
           \/ new' = [new EXCEPT !.y = @ + by, !.h = @ - less]
  /\ arrows' = arrows + 1
  /\ UNCHANGED <<demo, stack, windowOf, stack_top, hide, size, move, panels>>

(* What newwin makes of the numbers: zero is all there is up to the border. *)
Sized(g) ==
  [g EXCEPT !.w = IF @ = 0 THEN Columns - g.x ELSE @, !.h = IF @ = 0 THEN Rows - g.y ELSE @]

newwin_fails(g) ==
  g.x < 0 \/ g.y < 0 \/ g.w < 0 \/ g.h < 0 \/ Sized(g).w <= 0 \/ Sized(g).h <= 0

(* mvwin, which refuses to leave the screen. *)
MovedTo(g, to) ==
  IF to.x < 0 \/ to.y < 0 \/ to.x + g.w > Columns \/ to.y + g.h > Rows
  THEN g ELSE [g EXCEPT !.x = to.x, !.y = to.y]

(* When newwin fails replace_panel does too, but the old window is deleted  *)
(* and stays the panel's: what update_panels then does is undefined.        *)
EnterKey ==
  /\ panels = "runs" /\ demo = "resize"
  /\ size' = FALSE /\ move' = FALSE
  /\ IF size /\ newwin_fails(new)
     THEN panels' = "undef" /\ UNCHANGED windowOf
     ELSE LET resized == IF size THEN Sized(new) ELSE windowOf[stack_top]
          IN  /\ windowOf' = [windowOf EXCEPT ![stack_top] =
                                IF move THEN MovedTo(resized, new) ELSE resized]
              /\ UNCHANGED panels
  /\ UNCHANGED <<demo, stack, stack_top, hide, new, arrows>>

PanelsLeave ==
  /\ panels = "runs"
  /\ panels' = "left"
  /\ UNCHANGED <<demo, stack, windowOf, stack_top, hide, resizeVars>>

PanelsNext == Tab \/ HideKey \/ ModeKey \/ ArrowKey \/ EnterKey \/ PanelsLeave

-----------------------------------------------------------------------------
(* What a program takes for the top or for hidden is what the library has,  *)
(* and Tab goes through the windows from the bottom.  A window is lost only *)
(* when it was to begin outside the screen or to have no size left.         *)
PanelsAgree ==
  /\ demo # "hide" => Last(stack) = stack_top /\ stack[1] = next(stack_top)
  /\ {stack[i] : i \in 1..Len(stack)} = Panels \ hide
  /\ panels = "undef" =>
       new.x \notin 0..Columns \/ new.y \notin 0..Rows \/ new.w <= 0 \/ new.h <= 0

PanelTypes ==
  /\ panels \in {"runs", "left", "undef"}
  /\ Len(stack) <= 3 /\ stack_top \in Panels /\ hide \subseteq Panels
  /\ \A p \in Panels : windowOf[p].w > 0 /\ windowOf[p].h > 0

=============================================================================
