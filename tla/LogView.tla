------------------------------- MODULE LogView -------------------------------
(***************************************************************************)
(* The bootlog and the timestamps modules of coreinfo: at start each lays  *)
(* a text out in a buffer of whole screen lines, then the user scrolls it. *)
(*                                                                         *)
(* The boot log is what coreboot left in its console, a ring buffer that   *)
(* may have wrapped: the older part, from the cursor on, goes before the   *)
(* newer one.  The time stamps are printed to a text first.                *)
(***************************************************************************)
EXTENDS Integers, SequencesExt

CONSTANTS
  ScreenX,    (* SCREEN_X, the width of the screen.                        *)
  LinesShown, (* LINES_SHOWN, the lines of a view.                         *)
  Glyphs      (* Printable characters other than the blank.                *)

ASSUME ScreenAssumption ==
  ScreenX \in Nat \ {0, 1} /\ LinesShown \in Nat \ {0}

LogViews == {"bootlog", "timestamps"}

TabWidth == 2
Blank == " "

ASSUME GlyphsAssumption == Glyphs \cap {Blank, "newline", "tab", "other"} = {}

Chars == Glyphs \cup {Blank, "newline", "tab", "other"}

(* A console: its body, the cursor and the overflow bit of its cursor word. *)
(* Older consoles let the cursor run past the body.                         *)
Consoles == [body : Seq(Chars) \ {<<>>}, cursor : Nat, overflow : BOOLEAN]

VARIABLES
  g_buf,             (* By view: the buffer, empty for NULL.               *)
  alloc,             (* By view: the size malloc was asked for.            *)
  g_line,            (* By view: the first line on the screen.             *)
  g_max_cursor_line  (* By view: the last value of g_line.                 *)

logVars == <<g_buf, alloc, g_line, g_max_cursor_line>>

-----------------------------------------------------------------------------
(* The cells a character takes at a position. *)
char_width(c, cursor) ==
  CASE c = "newline"               -> ScreenX - (cursor % ScreenX)
    [] c = "tab"                   -> TabWidth
    [] c \in Glyphs \cup {Blank}   -> 1
    [] c = "other"                 -> 0

(* Mutant of CountedWith: a tab is counted as one cell. *)
CountedTabAsOne(count, c) == count + IF c = "tab" THEN 1 ELSE char_width(c, count)

(* The cells of a text one character longer. *)
CountedWith(count, c) == count + char_width(c, count)

(* The cells of the beginnings of a text, and of all of it. *)
CellsTo(str) ==
  LET cells[k \in 0..Len(str)] == IF k = 0 THEN 0 ELSE CountedWith(cells[k - 1], str[k])
  IN  cells
Cells(str) == CellsTo(str)[Len(str)]

(* The same, but at least a screen, and padded to the end of the line. *)
calculate_chars_count(str) ==
  LET count == IF Cells(str) < ScreenX * LinesShown THEN ScreenX * LinesShown
                                                    ELSE Cells(str)
  IN  IF count % ScreenX # 0 THEN count + ScreenX - (count % ScreenX) ELSE count

Blanks(n) == [k \in 1..n |-> Blank]

(* A character is put behind what is in the buffer, if there is room. *)
Put(out, c, out_len) ==
  LET width == char_width(c, Len(out))
      room == out_len - Len(out)
  IN  IF width = 1 /\ room > 0 THEN Append(out, c)
      ELSE out \o Blanks(IF width < room THEN width ELSE room)

(* What is in the buffer after each character of a text. *)
PutTo(str, out_len) ==
  LET out[k \in 0..Len(str)] == IF k = 0 THEN <<>> ELSE Put(out[k - 1], str[k], out_len)
  IN  out

(***************************************************************************)
(* The text as cells, cut or filled with blanks to out_len.  A character   *)
(* of width 1 is copied as it is; wider ones become blanks.                *)
(***************************************************************************)
sanitize_buffer_for_display(str, out_len) ==
  LET text == PutTo(str, out_len)[Len(str)] IN text \o Blanks(out_len - Len(text))

-----------------------------------------------------------------------------
(* A cursor past the body is an older console's; the last place is taken. *)
Cursor(console) ==
  IF console.cursor >= Len(console.body) THEN Len(console.body) - 1 ELSE console.cursor

(* The text up to the cursor, and what a wrapped console holds after it. *)
Newer(console) == SubSeq(console.body, 1, Cursor(console))
Older(console) ==
  IF console.overflow
  THEN SubSeq(console.body, Cursor(console) + 1, Len(console.body)) ELSE <<>>

(* What bootlog_module_init writes from g_buf on. *)
BootlogCells(console) ==
  (IF console.overflow
   THEN sanitize_buffer_for_display(Older(console), calculate_chars_count(Older(console)))
   ELSE <<>>)
    \o sanitize_buffer_for_display(Newer(console), calculate_chars_count(Newer(console)))

TimestampsCells(text) == sanitize_buffer_for_display(text, calculate_chars_count(text))

(* Mutant of LastTop: the last line can be the first one shown. *)
LastTopLine(lines) == lines - 1

(* g_max_cursor_line for a number of lines. *)
LastTop(lines) == IF lines - 1 - LinesShown > 0 THEN lines - 1 - LinesShown ELSE 0

LogInit ==
  /\ g_buf = [v \in LogViews |-> <<>>]
  /\ alloc = [v \in LogViews |-> 0]
  /\ g_line = [v \in LogViews |-> 0]
  /\ g_max_cursor_line = [v \in LogViews |-> 0]

(* The end of a module's init: cells are written to a buffer of size bytes. *)
Laid(v, cells, size) ==
  /\ g_buf' = [g_buf EXCEPT ![v] = cells]
  /\ alloc' = [alloc EXCEPT ![v] = size]
  /\ g_max_cursor_line' = [g_max_cursor_line EXCEPT ![v] = LastTop(Len(cells) \div ScreenX)]
  /\ UNCHANGED g_line

(* malloc fails: the buffer stays NULL. *)
NoRoom(v, cells) ==
  /\ g_max_cursor_line' = [g_max_cursor_line EXCEPT ![v] = LastTop(Len(cells) \div ScreenX)]
  /\ UNCHANGED <<g_buf, alloc, g_line>>

bootlog_module_init(console) ==
  LET cells == BootlogCells(console)
  IN  \/ Laid("bootlog", cells, calculate_chars_count(Newer(console)))
      \/ NoRoom("bootlog", cells)

timestamps_module_init(text) ==
  LET cells == TimestampsCells(text)
  IN  \/ Laid("timestamps", cells, Len(cells))
      \/ NoRoom("timestamps", cells)
      \/ UNCHANGED logVars

(* A key moves the view and the result is clamped; the view is drawn again. *)
Scrolled(v, line) ==
  IF line < 0 THEN 0
  ELSE IF line > g_max_cursor_line[v] THEN g_max_cursor_line[v] ELSE line

LogKey(v) ==
  /\ g_buf[v] # <<>>
  /\ \E d \in {1, -1, LinesShown, -LinesShown} :
       g_line' = [g_line EXCEPT ![v] = Scrolled(v, g_line[v] + d)]
  /\ UNCHANGED <<g_buf, alloc, g_max_cursor_line>>

-----------------------------------------------------------------------------
LogTypes ==
  /\ g_buf \in [LogViews -> Seq(Chars)]
  /\ \A v \in LogViews : Len(g_buf[v]) % ScreenX = 0
  /\ alloc \in [LogViews -> Nat]
  /\ g_line \in [LogViews -> Nat] /\ g_max_cursor_line \in [LogViews -> Nat]

(* The printable characters of a text, in order. *)
GlyphsWith(only, c) == IF c \in Glyphs THEN Append(only, c) ELSE only
GlyphsTo(str) ==
  LET only[k \in 0..Len(str)] == IF k = 0 THEN <<>> ELSE GlyphsWith(only[k - 1], str[k])
  IN  only
OnlyGlyphs(str) == GlyphsTo(str)[Len(str)]

(* The first cell past the last one redraw reads. *)
ViewEnd(v) == (g_line[v] + LinesShown) * ScreenX

=============================================================================
