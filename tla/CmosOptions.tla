----------------------------- MODULE CmosOptions -----------------------------
(***************************************************************************)
(* How the two NVRAM windows of coreinfo find the options they show.       *)
(*                                                                         *)
(* On every visit a window reads the coreboot option table twice:          *)
(* count_cmos_options counts the entries that belong to the window, then   *)
(* cmos_walk_options creates one pair of form fields per counted entry,    *)
(* skipping the entries that do not belong to it.  The two filters are     *)
(* written separately, and the walk follows the entry list by pointer with *)
(* no test for its end: it relies on finding as many entries as the count  *)
(* said there were.                                                        *)
(*                                                                         *)
(* Entries are numbered from 1; the pointer one past the last entry is the *)
(* NULL that next_cmos_entry returns.  Reading through it is undefined (it *)
(* reads low memory as an entry), so the walk ends in the phase "undef".   *)
(***************************************************************************)
EXTENDS Integers, Sequences

CONSTANTS
  Names,    (* The option names of the layouts considered.                 *)
  At,       (* At[n][c]: index of the first letter c in name n, -1 if none. *)
  CheckSum, (* The name "check_sum".                                       *)
  Tables    (* The option tables: sequences of entries.                    *)

Letters == {"C", "F", "G"}
Configs == {"r", "e", "h", "s"}
Windows == {"configurator", "bootorder"}

Entries == [name : Names, config : Configs]

(* "check_sum" has no capital letter, so it lacks the C of "CFG". *)
ASSUME NamesAssumption == /\ At \in [Names -> [Letters -> Int]]
                          /\ CheckSum \in Names
                          /\ At[CheckSum]["C"] < 0
ASSUME TablesAssumption == Tables \subseteq Seq(Entries)

VARIABLES
  table,   (* The option table, fixed at boot.                    *)
  win,     (* The window being opened.                            *)
  phase,   (* Where redraw is.                                    *)
  option,  (* The entry pointer.                                  *)
  numopts, (* The result of the count.                            *)
  check,   (* The walk's local of that name.                      *)
  fields   (* The entries that got a pair of fields, in order.    *)

vars == <<table, win, phase, option, numopts, check, fields>>

Phases == {"closed", "count", "field", "skip", "form", "undef"}

Null == Len(table) + 1

(***************************************************************************)
(* check_pattern(name, "CFG"): 0 when the letters' offsets add up to 3.    *)
(* A letter that does not occur adds (NULL - str), the negated address of  *)
(* the name, which no sum of offsets brings back to 3.                     *)
(***************************************************************************)
check_pattern(n) ==
  IF /\ \A c \in Letters : At[n][c] >= 0
     /\ At[n]["C"] + At[n]["F"] + At[n]["G"] = 3
  THEN 0 ELSE 1

IsCfg(e) == check_pattern(e.name) = 0

(* Mutant of Counted: reserved entries are counted too. *)
CountedReserved(w, e) == (IsCfg(e) <=> w = "bootorder") /\ e.name # CheckSum

(* The condition under which count_cmos_options counts an entry. *)
Counted(w, e) ==
  /\ e.config # "r"
  /\ IsCfg(e) <=> w = "bootorder"
  /\ e.name # CheckSum

(* Mutant of Skipped: the configurator's walk forgets check_sum. *)
SkippedNoSum(w, e, chk) ==
  IF w = "configurator"
  THEN e.config = "r" \/ chk = 0
  ELSE e.config \in {"r", "e"} \/ chk # 0

(* The condition of the walk's inner loop, given the current value of check. *)
Skipped(w, e, chk) ==
  IF w = "configurator"
  THEN e.config = "r" \/ chk = 0 \/ e.name = CheckSum
  ELSE e.config \in {"r", "e"} \/ chk # 0

Init ==
  /\ table \in Tables
  /\ win \in Windows
  /\ phase = "closed"
  /\ option = 1
  /\ numopts = 0
  /\ check = 0
  /\ fields = <<>>

(* The window is entered: redraw declares its locals and starts the count. *)
Open(w) ==
  /\ phase \in {"closed", "form"}
  /\ win' = w
  /\ phase' = "count"
  /\ option' = 1
  /\ numopts' = 0
  /\ fields' = <<>>
  /\ UNCHANGED <<table, check>>

CountEntry ==
  /\ phase = "count"
  /\ option # Null
  /\ numopts' = IF Counted(win, table[option]) THEN numopts + 1 ELSE numopts
  /\ option' = option + 1
  /\ UNCHANGED <<table, win, phase, check, fields>>

(***************************************************************************)
(* The end of the count.  When nothing was counted the function prints a   *)
(* message and returns -1; redraw does not look at the result and goes on  *)
(* with numopts as it was, which is 0.                                     *)
(***************************************************************************)
CountEnd ==
  /\ phase = "count"
  /\ option = Null
  /\ phase' = "field"
  /\ option' = 1
  /\ UNCHANGED <<table, win, numopts, check, fields>>

(* Mutant of FieldsLeft: the outer loop runs once too often. *)
FieldsLeftOffByOne == Len(fields) <= numopts

(* The condition of the walk's outer loop. *)
FieldsLeft == Len(fields) < numopts

(* One turn of the walk's outer loop starts: check is computed from option. *)
BeginField ==
  /\ phase = "field"
  /\ FieldsLeft
  /\ \/ /\ option = Null
        /\ phase' = "undef"
        /\ UNCHANGED check
     \/ /\ option # Null
        /\ phase' = "skip"
        /\ check' = check_pattern(table[option].name)
  /\ UNCHANGED <<table, win, option, numopts, fields>>

(* Mutant of CheckAfterSkip: bootorder keeps a stale check as well. *)
CheckAfterSkipStale(k) == check

(* The value check has after the inner loop moved to the entry k. *)
CheckAfterSkip(k) ==
  IF win = "configurator" THEN check ELSE check_pattern(table[k].name)

(* The inner loop skips an entry; only bootorder computes check again. *)
SkipEntry ==
  /\ phase = "skip"
  /\ Skipped(win, table[option], check)
  /\ option' = option + 1
  /\ \/ /\ option' = Null
        /\ phase' = "undef"
        /\ UNCHANGED check
     \/ /\ option' # Null
        /\ check' = CheckAfterSkip(option')
        /\ UNCHANGED phase
  /\ UNCHANGED <<table, win, numopts, fields>>

ShowEntry ==
  /\ phase = "skip"
  /\ ~Skipped(win, table[option], check)
  /\ fields' = Append(fields, option)
  /\ option' = option + 1
  /\ phase' = "field"
  /\ UNCHANGED <<table, win, numopts, check>>

WalkEnd ==
  /\ phase = "field"
  /\ ~FieldsLeft
  /\ phase' = "form"
  /\ UNCHANGED <<table, win, option, numopts, check, fields>>

Step == CountEntry \/ CountEnd \/ BeginField \/ SkipEntry \/ ShowEntry \/ WalkEnd

Next == Step \/ \E w \in Windows : Open(w)

(* The redraw is straight-line code: once entered it does not pause. *)
Spec == Init /\ [][Next]_vars
FairSpec == Spec /\ WF_vars(Step)

-----------------------------------------------------------------------------
(* Type correctness: the entry pointer is an entry or NULL, and the walk     *)
(* never creates more fields than the array of 2 * numopts + 1 has room for. *)
TypeOK ==
  /\ table \in Seq(Entries)
  /\ win \in Windows
  /\ phase \in Phases
  /\ option \in 1..Null
  /\ numopts \in 0..Len(table)
  /\ check \in {0, 1}
  /\ fields \in Seq(1..Len(table))
  /\ Len(fields) <= numopts

(***************************************************************************)
(* The layouts each window can walk.  The configurator keeps a stale check *)
(* while it skips, so every CFG entry must come after the options it       *)
(* shows; bootorder counts a CFG enumeration that its walk never shows.    *)
(* The cmos.layout of the release satisfies both.                          *)
(***************************************************************************)
Orderly(w) ==
  IF w = "configurator"
  THEN \A j, k \in 1..Len(table) :
         IsCfg(table[j]) /\ Counted(w, table[k]) => k < j
  ELSE \A k \in 1..Len(table) : ~(IsCfg(table[k]) /\ table[k].config = "e")

(* On an orderly layout the walk never follows the entry list past its end, *)
(* although neither loop of cmos_walk_options tests for it.                 *)
WalkStaysInTable == Orderly(win) => phase # "undef"

(* On an orderly layout the form shows the options that were counted: each  *)
(* of them once, in table order, and no entry of the other window.          *)
ShowsWhatWasCounted ==
  phase = "form" /\ Orderly(win) =>
    /\ {fields[i] : i \in 1..Len(fields)}
         = {k \in 1..Len(table) : Counted(win, table[k])}
    /\ \A i, j \in 1..Len(fields) : i < j => fields[i] < fields[j]

(* Opening a window of an orderly layout always ends in its form. *)
OpensForm == phase = "count" /\ Orderly(win) ~> phase = "form"

(* The message of count_cmos_options when it counts nothing: the program    *)
(* says it is exiting, so a window with no options should never open.       *)
ExitsWithoutOptions == phase = "form" => numopts > 0

=============================================================================
