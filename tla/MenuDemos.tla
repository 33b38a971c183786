------------------------------ MODULE MenuDemos ------------------------------
(***************************************************************************)
(* The programs of menus/: a menu of the menu library on a list of items,  *)
(* driven by keys until F1 and then taken down.  They are one program but  *)
(* for the numbers in a record each: what they show, the keys they know    *)
(* and the calls they leave with, of which the library refuses some.  What *)
(* Enter prints of the current or the marked items is left out.            *)
(***************************************************************************)
EXTENDS Integers, Sequences

VARIABLES
  menu,    (* The program, by its record.                                  *)
  cur,     (* The current item, counted from 0.                            *)
  top,     (* The first row of the page shown.                             *)
  marked,  (* The items selected.                                          *)
  posted,
  kept,    (* What is allocated: TheMenu and the items.                    *)
  left     (* How many of the calls of the end were made, or -1 before F1. *)

menuVars == <<menu, cur, top, marked, posted, kept, left>>

(* rows of the page and items in a row, further keys, calls at the end.     *)
(* The lists of menu_scroll, menu_multi_column and menu_win end with a NULL *)
(* of their own, which makes no item.                                       *)
Program(items, rows, columns, keys, ending) ==
  [items |-> items, rows |-> rows, columns |-> columns, keys |-> keys, ending |-> ending]

FreeTwo == <<"free_item_0", "free_item_1", "free_menu">>
ItemsFirst == <<"unpost_menu", "free_items", "free_menu">>

(* Mutant of MenuFirst: the items are freed before the menu. *)
MenuFirstSwapped == <<"unpost_menu", "free_items", "free_menu">>

MenuFirst == <<"unpost_menu", "free_menu", "free_items">>

menu_simple == Program(5, 16, 1, {}, FreeTwo)
menu_item_data == Program(5, 16, 1, {}, FreeTwo)
menu_toggle == Program(8, 16, 1, {"toggle"}, FreeTwo)
menu_userptr == Program(8, 16, 1, {}, ItemsFirst)
menu_attrib == Program(8, 16, 1, {}, ItemsFirst)
menu_win == Program(5, 16, 1, {}, MenuFirst)
menu_scroll == Program(11, 5, 1, {"page"}, MenuFirst)
menu_multi_column == Program(21, 5, 3, {"page", "across"}, MenuFirst)

Demos == {menu_simple, menu_item_data, menu_toggle, menu_userptr, menu_attrib, menu_win,
          menu_scroll, menu_multi_column}

(* The menu among what is allocated; no item has its number. *)
TheMenu == -1

ItemsOf(m) == 0..(m.items - 1)

MenusInit ==
  /\ menu \in Demos
  /\ cur = 0 /\ top = 0 /\ marked = {}
  /\ posted = TRUE /\ kept = {TheMenu} \cup ItemsOf(menu)
  /\ left = -1

Key == left = -1 /\ UNCHANGED <<menu, posted, kept, left>>

RowOf(i) == i \div menu.columns
LastRow == RowOf(menu.items - 1)
Page == IF menu.rows < LastRow + 1 THEN menu.rows ELSE LastRow + 1

(* The library makes i the current item, if it is one, and shows it. *)
GoTo(i) ==
  /\ cur' = IF i \in ItemsOf(menu) THEN i ELSE cur
  /\ top' = IF RowOf(cur') < top THEN RowOf(cur')
            ELSE IF RowOf(cur') >= top + Page THEN RowOf(cur') - Page + 1
            ELSE top
  /\ UNCHANGED marked

(* Down from the row above a last row that is not full is its last item. *)
Below(i) == IF RowOf(i) < LastRow /\ i + menu.columns >= menu.items
            THEN menu.items - 1 ELSE i + menu.columns

DownUp == Key /\ (GoTo(Below(cur)) \/ GoTo(cur - menu.columns))

LeftRight ==
  /\ Key
  /\ "across" \in menu.keys
  /\ \/ cur % menu.columns # 0 /\ GoTo(cur - 1)
     \/ RowOf(cur + 1) = RowOf(cur) /\ GoTo(cur + 1)

(* The library scrolls by a page, or by the rows that are left, and the     *)
(* current item with it.                                                    *)
Scroll(toTop) ==
  LET i == cur + (toTop - top) * menu.columns
  IN  /\ top' = toTop
      /\ cur' = IF i \in ItemsOf(menu) THEN i ELSE menu.items - 1

PageKey ==
  /\ Key
  /\ "page" \in menu.keys
  /\ \/ LET rest == LastRow + 1 - Page - top IN Scroll(top + IF rest < Page THEN rest ELSE Page)
     \/ Scroll(IF top < Page THEN 0 ELSE top - Page)
  /\ UNCHANGED marked

ToggleKey ==
  /\ Key
  /\ "toggle" \in menu.keys
  /\ marked' = IF cur \in marked THEN marked \ {cur} ELSE marked \cup {cur}
  /\ UNCHANGED <<cur, top>>

-----------------------------------------------------------------------------
(* A menu that is posted is not freed, and no item while a menu holds it.   *)
Freed(call) ==
  IF call = "free_menu" THEN (IF posted THEN {} ELSE {TheMenu})
  ELSE IF TheMenu \in kept THEN {}
  ELSE CASE call = "free_items" -> ItemsOf(menu)
         [] call = "free_item_0" -> {0}
         [] call = "free_item_1" -> {1}
         [] OTHER -> {}

F1Key ==
  /\ left = -1
  /\ left' = 0
  /\ UNCHANGED <<menu, cur, top, marked, posted, kept>>

(* The next call of the end; none of the programs looks at what it returns. *)
EndCall ==
  /\ left \in 0..(Len(menu.ending) - 1)
  /\ LET call == menu.ending[left + 1]
     IN  /\ posted' = (posted /\ call # "unpost_menu")
         /\ kept' = kept \ Freed(call)
  /\ left' = left + 1
  /\ UNCHANGED <<menu, cur, top, marked>>

MenusNext == DownUp \/ LeftRight \/ PageKey \/ ToggleKey \/ F1Key \/ EndCall

-----------------------------------------------------------------------------
(* The current item is on the page shown, and the page is full.  Only the   *)
(* programs that free the menu before its items give everything back: the   *)
(* library keeps the items from those that free them first, and from those  *)
(* that never take the menu from the screen the menu as well.               *)
MenusFreed ==
  /\ RowOf(cur) \in top..(top + Page - 1) /\ top + Page - 1 <= LastRow
  /\ left = Len(menu.ending) =>
       kept = CASE menu.ending = MenuFirst -> {}
                [] menu.ending = ItemsFirst -> ItemsOf(menu)
                [] OTHER -> {TheMenu} \cup ItemsOf(menu)

MenuTypes ==
  /\ menu \in Demos /\ cur \in ItemsOf(menu) /\ marked \subseteq ItemsOf(menu)
  /\ left \in -1..Len(menu.ending)

=============================================================================
