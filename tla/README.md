# A TLA+ model of NKBVS

NKBVS is two programs and their surroundings:

* **coreinfo** (`src/Coreboot/RELEASE/coreinfo`), a payload of coreboot. It is the
  first thing the user of the board sees: a text-mode program with four categories
  of modules, two of which (Configurator and Bootorder, written for NKBVS) edit the
  CMOS options the firmware boots with.
* **the FTDI SPI driver** (`src/QNX/ftdi_linux`), a user-space driver that turns an
  FT2232H into an SPI master, and the program that tests a bridge device with it; with
  its Windows port (`src/QNX/ftdi_windows`).

Beside them stand the ncurses programs its authors learned the library with
(`src/Coreboot/ncurses`).

This directory holds their formal model: modules checked by TLC on small instances
and proofs checked by TLAPS for every value of the constants.

## Inventory

| part | state | operations | interacts through |
|---|---|---|---|
| coreinfo shell, `coreinfo.c` | `curwin`, `cur` of each category, the windows | `loop`, `handle_category_key`, `redraw_module`, reboot in `main` | calls `init`, `redraw`, `handle` of the modules; the keyboard |
| option tables, `configurator_module.c`, `bootorder_module.c` | the option table of coreboot (read only), `numopts`, `fields` | `check_pattern`, `count_cmos_options`, `cmos_walk_options` | memory left by coreboot |
| NVRAM windows, same files | the form, its fields, the counter `i`, the CMOS | `*_module_redraw` with its key loop, `save_configuration` | called from `redraw_module` and does not return until left; the form library; CMOS |
| PCI module, `pci_module.c` | `devices`, `devices_index`, `menu_selected`, `menu_first` | scan at start, `quicksort`, menu keys | PCI configuration space |
| bootlog and timestamps, `bootlog_module.c`, `timestamps_module.c` | `g_buf`, `g_line`, `g_max_cursor_line` | layout at start, scrolling | tables in memory left by coreboot |
| CBFS, coreboot and multiboot tables | the parsed tables, the file list | walks at start, list keys | flash and memory |
| RAM dump | a cursor | keys | memory |
| CPU information, `cpuinfo_module.c` | the measured speed | `init`, `redraw` | `cpuid`, the time stamp counter |
| SPI driver, `ftdi_spi.c` | the handle; the chip's queues, pins and mode | open, mode, baud rate, loopback, chip select, `wo`, `ro`, close | libftd2xx, the USB link and the chip, which run on their own |
| Windows port, `ftdi_windows/proba_spi/src/ftdi_spi.c` | the handle with the commands of its mode; the chip | the same calls, written before the Linux ones | D2XX, the chip |
| SPI test program, `ftdi_spi_example.cpp` | none beyond the handle | `rd_id`, `rd_axi`, `wr_axi`, `my_test` | calls the driver |
| ncurses programs, `ncurses_programs`, `Lessons` | boards, towers, windows, panels, menus | their keys | the ncurses, panel and menu libraries |

Left aside: see "Not modelled" at the end. `PROJECT.json` lists each part with its reason.

### Behaviours that are hard

* Each NVRAM window reads the option table twice by two separately written filters
  and follows it without testing for its end.
* The windows are modal inside `redraw`: the shell's loop is suspended, keys mean
  something else, and `redraw_module` is reached from three places.
* Opening a window copies every option and leaving it writes every option back, so
  a wrong copy corrupts what the user never looked at. The form library refuses
  moves, keeps typed text apart from the field buffer, and its results are ignored.
* The machine can be reset at any moment; only the CMOS survives.
* The PCI scan is a recursion through registers, sorts the array at the end of every
  inner bus while outer ones still append to it, and stops at an arbitrary bound.
* The SPI driver shares two queues with a chip that executes and answers when it
  likes. Answers of an earlier run, late answers, short writes, a chip not yet
  started and time-outs returned as success can all make host and chip disagree
  about which byte is what.
* A transfer is cut into whole bytes and a tail of bits, with a command each whose edge
  follows the mode and whose length is written less one in two bytes; the bit rate
  becomes a divider by arithmetic in 32 bits.
* The ncurses programs keep beside the panels, menus and windows a copy of what they
  need to know of them, and go on when a library call fails.

`PROJECT.json` lists these as hazards, each at its line with the properties that
cover it.

## The modules

### CmosOptions: counting and walking the option table

One step is one turn of a loop of `count_cmos_options` or `cmos_walk_options`.
`phase` says where `redraw` is; `option` is the entry pointer, with `Null` one past
the last entry; reading through it is the phase `undef`. A name is described by the
offsets of the letters C, F and G, all that `check_pattern` looks at. `Counted` and
`Skipped` are the two filters of each window, kept apart as they are in the code;
`CheckAfterSkip` keeps the difference between the windows: the configurator's inner
loop goes on testing a `check` computed before it.

`WalkStaysInTable`, `ShowsWhatWasCounted` and `OpensForm` say that on an `Orderly`
table the walk ends, inside the table, with the counted options. `Orderly` is the
condition under which the code is right, found with TLC: for the configurator every
CFG entry follows the options it shows, for bootorder no CFG entry is an enumeration.
The released `cmos.layout` satisfies both; a layout that puts a CFG option among the
others does not, and the walk then runs past the table.

### NvramEditor, NvramForm, Coreinfo: the shell and its windows

`NvramEditor` is the abstract specification: a draft of one window's options is
opened, changed to valid values, stored one option at a time and closed when all are
stored; opening repairs invalid contents and nothing else. Only a reset, which starts
the count of visits again, drops what is not stored yet.

`NvramForm` is one visit to a window: `OpenForm` (redraw up to its loop), `FormDown`,
`FormUp`, `FormChoice`, `FormType` (a key for the form driver), `LeaveForm` (a key that
ends the loop), `SaveOption` (one turn of the save loop) and `CloseForm` (free and
return). `saving` is the counter of the save loop; no key is read while it runs, but the
machine may be reset. The form library is modelled as the code uses it: `typed` is the
text of the current field not yet in its buffer; `MoveTo` validates it and may refuse.
`heap` counts, by kind of block, what the visits have allocated and not released:
`redraw` frees the form, each field and the array of the fields, but not the fields'
buffers and choices, which `free_field` would release, nor the texts of the options, nor
the pad. `touched` and `refused` are history.

`Coreinfo` composes it with the shell: `FunctionKey`, `DigitKey`, `LetterKey`,
`ModuleKey`, `Escape` in the loop, `FormFunctionKey`, `FormDriverKey`, `FormEscape` in a
window, `FormSave` (the save after it), and `Restart`, a machine reset at any time.
Categories count from 1, as their function keys do. Key 5 is the case `ch ==
ARRAY_SIZE(categories)` of the loop.

The refinement (`EditorSpec`) maps the draft to the buffers of the fields on the
screen, `unsaved` to the options the save loop has not reached and `visits` to the pads,
of which every visit leaves one behind.

### PciList: the bus scan, the sort and the list

Both recursions are modelled by their stacks: `calls` holds the positions of the active
`ci_pci_scan_bus` calls and `segments` the quicksort calls still to run, so that a
recursion that does not end is a behaviour and `ScanReturns` a real property.
`partition` is one step that leaves the array as the code does: `Turn` is a turn of its
loop and `Turns` the list after each, a function on the entries of one segment. A
machine is what answers at each bus, slot and function, bridges that point back
included. `Numbered` is the condition under which the scan is right: a bridge that leads
to its own or an outer bus fills the array with repeated entries, and the quicksort,
whose second part includes the pivot, does not return on equal ones.

### LogView, CbfsList, BootTables, Viewers: what firmware left

`Viewers` composes the other modules of the payload: `main` runs their inits one after
the other (`stage`), then the user opens one module (`Show`) and presses keys in it
(`ScrollLog`, `SelectFile`, `ramdump_module_handle`). They share no state, so one
visited module per behaviour is enough. `machine`, `image` and `tables` are what
firmware and boot loader left in memory and never change. A read or write past an array
is the stage `undef`, and `UndefinedOnlyThere` says exactly when it is reached.

* `LogView` is the boot log and the time stamps, whose layout and scrolling are the same
  code twice. A text is a sequence of character classes; `CellsTo` and `PutTo` are the
  two passes, of `calculate_chars_count` and of `sanitize_buffer_for_display`, that each
  keep the column for themselves. `Older` and `Newer` are the parts of a wrapped
  console; `alloc` is what `malloc` was asked for, which is for the newer part only.
* `CbfsList` walks the flash image, one step per turn of the loop of `getfile`, once to
  count and once to copy names. Addresses are modulo the address space because the image
  ends at its end and the walk of a full image ends by wrapping to zero. `WellFormed` is
  the condition under which it ends: bodies inside the flash and an align that moves.
  `findfile` is the third walk: `WalkTo` says where it is after each turn, and a walk with
  more turns than there are addresses does not end. `ShowsSelected` says that the file
  described is the first in the walk with the selected name, which need not come before
  the selected one in the flash: a length that wraps leads the walk back.
* `CpuInfo` is the CPU window: the speed measured at start, the row each fact and flag is
  printed on, and the name whose end the processor has to supply. `FactsStay` follows the
  row through the functions that count it and hand it back.
* `BootTables` is the search for the coreboot tables, one step per place or record.
  `parse_header` calls itself in tail position, so `area` and `record` are replaced and
  need no stack. The multiboot table is read in one step; when there is none the code
  reads it all the same, and what is then found is chosen freely.

Strings are copied whole, a console has a body of at least one character, and the
text of the time stamps is any small text: their formatting is left out.

### FtdiChip, FtdiSpi: the driver, its client and the chip

`FtdiChip` is external: the FT2232H in MPSSE mode, modelled from the commands the
driver writes and the answers it waits for. Tokens travel through `tx`, are executed
one by one, and answers arrive through `usb` in `rx`, whenever the chip likes. The
chip cannot tell data from commands: after a write header it takes the next tokens
as data, as the real one does. `FtdiSpi` makes one step of each FT_ call of
`FTDI_SPI_open` and of the exchanges of `my_test`. Every call can fail; a write can
be short; a read can time out; the echo check can look at memory it did not read
(`Verdict`).

`SyncedAfterOpen`, `ReadsAreFresh`, `CsFramesData` and `EveryWriteArrives` relate host
and chip. They are stated for runs in which no short count was overlooked
(`disturbed`): the driver does not look at the counts of its transfers, so after an
overlooked one nothing is promised until the next open, and that open must then find
the chip in a known state again and the device not selected, which `SyncedAfterOpen`
checks across runs.

`Start` is the user who runs the program, and `CountDevices` a turn of the loop `main`
begins with: it counts the devices until there are two, without bound, and returns 1 when
the count fails. `Terminates` is stated from there on: once there are two devices,
whatever fails or times out, the program ends.

### SpiMaster, SpiPort: the driver's calls and its arithmetic

`SpiMaster` is what the driver promises: the bits of the transfers cross the wires in
the order asked, each once, on the edge of the mode set, and a transfer is over before
the next one or a change of the chip select begins. `SpiPort` is the Windows port, one
FT_ call to a step, with what `FtdiSpi` leaves out: transfers of any number of bits
(`WoHeader`, `WoData`, `WoTail` and their counterparts), the command table of
`FTDI_SPI_mode_set`, the divider of `FTDI_SPI_baudrate_set`, and what `FTDI_SPI_open`
takes and gives back. Its client calls in any order the handle allows. Every FT_ call
can fail, and every FT_Write and FT_Read can return FT_OK with a part of what it was
given; only `FTDI_SPI_baudrate_set` looks at the count, the others go on (`CommandLost`,
`WoData`, `Read`). The chip executes a command when it is written, and is `astray` when
data and commands do not fit. `MasterSpec` is the refinement: `wire` is the sequence of
bits the chip put out, or that came back to the client. What is promised ends (`good`)
with a transfer longer than the two bytes of its header can say (`Limit`), which the
code accepts, and with a count that was overlooked (`Lapse`). Until then an `astray`
chip is against the promise: its wires show bits nobody asked for (`WildBits`). Once the
port is closed the next one has to keep it again, whatever was left in the chip. A
transfer before a mode was set uses a table never written (`undef`).

### Programs: the ncurses programs

`Programs` runs one of them; they share nothing.

* `Hanoi`, `Queens`, `MagicSquare`, `Life` are the puzzles that compute, with their
  recursions as stacks of calls, and `Shuffle` the one that is played. The cell behind
  an array of `Hanoi` holds anything (`Anything`), and a move that would write there is
  `undef`. `AnswersAreRight` compares them with the definitions of what they compute;
  `TilesInPlay` says that every tile stays on the board once and that no key leads from
  one half of the boards to the other.
* `TypingTutor` is the menu and the rounds of `tt.c`.
* `PanelDemos` is panel_browse, panel_hide and panel_resize: the panel library's stack and
  what the program takes it to be.
* `Boxes` is win_border and other_border, by the cells of the screen that show a border.
* `MenuDemos` is the eight programs of `menus/`, one machine with a record for each
  program; the menu library is external. `KeyMenus` is the menus that programs draw
  themselves.

`DemosAgree` joins what the last three owe the screen and the libraries.

## The runs

| run | question | bound |
|---|---|---|
| `cmos_options` | do count and walk agree and end | all tables of up to 4 entries over 4 names, 3 kinds |
| `cmos_no_options` | finding: a window without options opens | tables of up to 2 entries |
| `coreinfo` | keys, edits, refinement | 2 + 3 options, two values, one refused text, 2 visits between resets |
| `coreinfo_info`, `coreinfo_heap` | findings, see below | as `coreinfo` |
| `pci_list` | complete, no duplicate, ends, selection visible | 3 buses of 2 x 2 functions, array of 5, 2 rows |
| `viewers` | what the inits keep, where they end, what the keys show | texts and consoles of up to 4 characters on 3 x 2 cells; every image of 4 cells over 5 contents, and some over 4 more; coreboot tables at 4 places, 3 multiboot ranges; processors of 3 vendors with names of 3 leaves |
| `viewers_newline` | finding, see below | as `viewers` |
| `spi` | host and chip agree; the program ends once it has counted two devices | 2 registers, 5 accesses twice, 1 fault, 2 runs, up to 4 stale answers |
| `spi_cs` | finding, see below | as `spi`, chip select on pin 11 |
| `spi_port` | bits in order on the right edge, whatever FT_ calls move in part; bit rates; what open releases | bytes of two bits and lengths in two binary digits: transfers of no bits, of two bytes and a tail, and too long; a rate whose divider is cut to a multiple of five and the one at the limit above which it is exact; 2 transfers between chip select changes, at most one unread byte when a transfer begins |
| `programs` | what the puzzles compute and the demonstrations show | 5 queens, squares of order 7, a torus of 6 x 5, deals of 2 x 2, 3 arrow keys in panel_resize, boxes up to 5 cells beyond a screen of 6 x 5 |

Why the bounds are enough. Four entries hold every order of one shown, one skipped,
one CFG and one check_sum entry, the cases the filters tell apart. Bootorder has three
options so that paging forwards and backwards differ, and two visits show whatever one
visit leaves behind. Five array places are fewer than the devices of the largest
machine, so the bound is hit in an inner and in an outer call. Two SPI runs show a run
after a failed one; one fault at any call covers every single failure; four stale
answers and one echo do not fit in `ack_buf` together. In `viewers` one part of a machine
varies at a time, as the modules share nothing. Four characters fill two screen lines of
three cells and need a third (tabs) or a fifth (newlines), four cells of flash hold a
file inside another's body and a walk over the end, and four places hold a low table, a
high one and two steps of forwarding.

In `spi_port` a third transfer begins in a state the second also began in, but for the
position of its bits, and the second begins with whatever a short count in the first
left behind. Transfers of a tail alone are left to the proof, which is about every
length; rates whose double wraps are above the clock, where `RateIsRight` promises
nothing. In `programs` the box is carried far enough beyond each edge for all of it to
disappear and come back.

`MaxVisits`, `MaxFaults`, `MaxRuns`, `MaxStale`, `MaxTransfers`, `MaxUnread`,
`MaxRounds`, `MaxArrows`, `Beyond` and, for images whose walk never ends, `MaxFiles` are
the bounds of the models; nothing else is cut off.

Deadlock is checked in `coreinfo`. The other systems stop: a walk past its table is the
end of what can be said, the list of a machine that has nothing to select has no
steps, a viewer without keys has none, the SPI program is run a bounded number of times,
a port may be `undef`, and the ncurses programs end.

**Fairness.** `CmosOptions`: weak fairness of the steps of `redraw`, which is
straight-line code without waiting. `PciList`: the same for scan and sort. `Viewers`:
the same for the inits (`Start`), and none for the user. `FtdiSpi`: weak fairness of the
host's FT_ calls (each returns, if only at the three seconds set by `FT_SetTimeouts`)
and of the chip; none of `Start`, which is the user's, and none of `CountDevices`:
`main` waits for a second device as long as nobody plugs it in. `Coreinfo`, `SpiPort`
and `Programs` need none: they wait for a user or a client.

### Findings

* `cmos_no_options`: `count_cmos_options` prints "EXITING" and returns -1 when nothing is
  counted; the result is ignored and a form without fields is opened.
* `coreinfo_info`: when a field refuses to be left, bootorder's counter moves on and the
  information text is that of another field.
* `coreinfo_heap`: `release.md` says all memory of a visit is released at its end; the
  buffers of the fields, the texts of the options and the pad never are.
* `viewers_newline`: the comment above `sanitize_buffer_for_display` says newlines become
  blanks; one in the last column has the width of a printable character and is copied.
* `spi_cs`: `FTDI_SPI_open` accepts chip select bits 3 to 15; for 8 to 15 the level
  computed is high whatever is asked for.

Also met while modelling, without a run of their own:

* coreinfo: `Coreboot/README.md` says ESC saves and reboots from a configurator, and the
  released modules have no case for it. A wrapped boot log's buffer is allocated without
  its older part (a case `UndefinedOnlyThere` allows), and the last line of a log longer
  than the screen is out of reach of the scroll keys. The RAM dump's limit of 1 GB is
  compared with a cursor that counts blocks of 256 bytes. The CPU window prints the
  extended flags of one register over those of another, and ends the processor's name
  only if the processor does.
* SPI driver: after reset the comment asks for 50 ms and the Linux code waits 50
  microseconds. Rates from 2^31 on wrap when doubled, rates below 92 Hz lose the upper bits
  of the divider, and a transfer of more than 65536 bytes the upper bits of its length, all
  without an error. `p_cmd` is not set before the first `FTDI_SPI_mode_set`.
* ncurses programs: hanoi.c tests a cell before the bound, so that every move onto an
  empty peg, the first with three discs included, reads the cell behind the array; what
  it finds there does not matter. With other than three discs it also uses pegs it has
  no array for. Half of the deals of shuffle.c cannot be solved. Tab in panel_resize.c
  goes back to the first place of a window, not its present one, and a failed newwin
  leaves the panel a deleted window. menu_toggle, menu_item_data and menu_simple free
  nothing, as the library refuses all their calls, and menu_userptr and menu_attrib keep
  their items. A first click beside the choices of mouse_menu.c reads the string before
  the first. tt.c deletes none of its windows.

## The proofs

Checked by TLAPS for every value of the constants allowed by the named assumptions.

**CmosOptions_proof** (`NamesAssumption`, `TablesAssumption`): `TypeCorrect`,
`WalkIsSafe`, `ShowsCounted`, for any table; the last two are about `Orderly` ones, the
others being those on which the walk leaves the table. The invariant that makes the walk
safe is about counts: in the first pass `numopts` is the number of counted entries
before `option`, and in the second the fields are the counted entries before `option`,
so that an unfinished walk still has a counted entry in front of it. As counting needs
induction over the table, the number is not a recursive function but the cardinality of
the set of counted entries, with the library's facts on finite sets. While the
configurator skips with a stale `check`, the invariant also says that no CFG entry has
been passed on an orderly table.

**Coreinfo_proof** (`WindowsAssumption`, `ValuesAssumption`, `CountAssumption`):

* `FormStep` lists what a step of the whole program can do to form, CMOS and heap;
  `NextIsFormStep` shows the list complete, and the rest is proved of it.
* `FormInv` joins the types, what the open form has on the heap (`AllocatedIsNat`) and
  `Untouched`: a field nobody touched holds what was read from the CMOS, or the default
  that repairs it. `OnlyEditsReachCmos` is not inductive without it. It gives
  `EditsOnly`.
* `InfoIsOfField`: the counter of bootorder and the form wrap together.
* `ShellInv` joins what is drawn, the open window and the key pressed last. The clause on
  the last key must also hold after one press while a window is open, which is where the
  second press of `TwoPressesSelect` starts. It gives `KeysReachScreen` and `TwoPresses`.
* `CoreinfoTypes`: both invariants together imply the type invariant.
* `WindowsImplementEditor`: `Spec => EditorSpec`, by cases of `FormStep`. A turn of the
  save loop takes exactly one option out of `Unsaved` because a window shows no option
  twice; at the end of the loop none is left, so that closing is allowed.

**SpiPort_proof** (`BitsAssumption`, `WordAssumption`, `RequestsAssumption`):

* `OpenReleases`: `PortInv` says what is taken at each place of open.
* `RatesAreRight`: the half period is the quotient of clock and rate, cut to a multiple of
  five when the clock is divided, as long as it fits in two bytes (`HalfOfDivF`,
  `TwoBytesExact`); the rest is the inequality of a quotient. TLC checks it with small
  clocks, the theorem holds for the 60 MHz and 2^32 of the code, whose numbers TLC does
  not reach.
* `PortTypes`: the length of what was asked for is that of the transfers.
* `PortImplementsMaster`: `Spec => MasterSpec`. While no transfer was too long and no
  count overlooked, `BusInv` says at each call of a transfer which of its bits have
  crossed, that the chip takes as data just what the host sends as data (`JobParts`: the
  header says the right length), that what was asked for is on the edges of the mode,
  and what is still in the receive queue. A call that moves bits is `Clock`
  (`MoreCrosses`), the bytes in the queue laid end to end are their bits (`BytesFlat`),
  and between calls nothing is on its way (`IdleFacts`), so that `Ask` and `Select` may
  be taken. The step that moves a part only is a `Lapse` (`Lapses`); after it, or after
  a transfer that is too long, only a close is left to show (`Unpromised`).

**PciList_proof** (`SizesAssumption`, `MachinesAssumption`): any machine, any number of
buses, slots and functions, any size of the array and of the screen.

* `TypeCorrect`: the array is never written past its end, at whatever depth it fills up,
  and every quicksort segment lies within what has been found (`TypeInv`).
* `SelectedOnScreen`: `MenuInv`, with the menu unmoved until the scan is over.
* `ListedOnce`: on a numbered machine the active calls are a path of bridges to ever
  higher buses (`PathInv`), and what is found is on a bus the path has entered, behind the
  call of that bus (`FoundInv`). Each bus is entered through one bridge, hence once. The
  sort keeps what is found because `partition` only swaps.
* `ListComplete` adds, when everything fits, that all that a call has passed is found
  (`Whole`), and that two entries are in order unless one segment still to sort holds both
  (`SortInv`). When no segment is left, the list is sorted. `PartitionParts` is the lemma
  about `partition`: smaller entries, the pivot, the others.

**FtdiSpi_proof** (`RoundAssumption`, `CsBitAssumption`, `BoundsAssumption`,
`MaxStaleAssumption`, `DataAssumption`: what a device sends unasked is no register's
value): any round of accesses, and any bound on faults, runs and stale answers.

* `TypeCorrect`, and `AckBufSuffices`: up to its echo checks the host has written a few
  commands only, each of which is answered with two bytes at most. `OpenInv` counts what
  can still arrive (`AtMost`), over the commands not executed, the answers under way and
  those received.
* `OpenedInSync`: `SyncInv` says that while no short count was overlooked the only answer
  anywhere is the one to the echo check under way, and that nothing but quiet commands
  is before it. A second answer in step therefore means an empty queue, and that the pins
  were set to release the device before it.
* `ReadsFresh`, `WritesArrive`, `CsFrames`: `StreamInv` takes the commands of the whole
  script as one stream with a label for each token. What is written and not executed is a
  segment of it, the host at one end and the chip, with its registers and its frame, at
  the other (`OnStream`). These three have the hypothesis `CsBit < 8`: on the other pins
  the device is never selected, which is the finding of `spi_cs`.

**CbfsList_proof** and **Viewers_proof** (`FlashAssumption`, `ScreenAssumption`,
`GlyphsAssumption`, `AreasAssumption`, `KhzAssumption`, `RamAssumption`,
`MachinesAssumption`): any text, console, image, table and processor, any size of the
screen and of the flash. CbfsList_proof holds the lemmas about the list of files, and
Viewers_proof the invariant `Inv`, with a part for each module, and the theorems.

* `TypeCorrect`; `ViewsInside`, from what the inits make of the number of lines and the
  two clamps of the keys (`LogInv`).
* `NothingCut`: `calculate_chars_count` counts as many cells as
  `sanitize_buffer_for_display` writes, for every text and at every column
  (`PutKeeps`, by induction over the text), and blanks and padding add no printable
  character (`GlyphsOfConcat`, `GlyphsOfBlanks`).
* `ListComplete`: the counting walk is a `Path`; a walk that ends has ended after at most
  as many turns as there are addresses, by the pigeonhole principle, so `Walked` is all of
  it and the walk that copies the names meets the same files. On a well-formed image a
  walk passes over no file (`WalkHasAll`).
* `SelectedShown`: a name in the list is the name of a file in the walk, and `findfile`
  returns the first. The proof found that an earlier form of the property, that this file
  lies before the selected one in the flash, is false where a length wraps.
* `FactsApart`: rows are handed on increasing (`DecodedRows`, `FeatureRows`).
* `KeptFromOne`: what is kept of a table that did not forward is of that table, and a
  table that forwards, when that is all it has, keeps nothing (`TabInv`).
* `UndefinedKnown`: with names there are as many as the walk has files, so that the
  selected one exists; the other two ways are those of a wrapped console and of the name.

**Programs_proof** (`DiscsAssumption`, `BoardsAssumption`, `OrdersAssumption` and
`SidesAssumption` only say that sizes are numbers; `ScreenAssumption` that the screen has
cells; `DealsAssumption` that a deal is a function into the numbers of the tiles;
`TutorAssumption`, `PanelsAssumption`, `BoxesAssumption`, `KeyMenusAssumption`):

* `TilesStay`, on a board of any order: a move exchanges the blank with a tile beside it,
  which changes the number of pairs out of order by an odd number (`Exchange`), and the
  blank's distance from its corner by one (`Slide`). The parity of their sum is kept, so
  that the half of the boards that was dealt is never left. That a deal without repetition
  has every tile is the pigeonhole principle (`Deal`).
* `DemosShow`: `PanelInv` has what `PanelsAgree` needs, that the stack holds each panel
  that is not hidden once (`Unlinked`, `Linked`) and, but for the hiding demonstration, in
  the order of the ring; `BoxInv` says that what is drawn is the border of where the box
  is and nothing else, even when it is moved off the screen; `MenuInv` keeps the current
  item on a full page for any number of items, rows and columns (`Shapes`, `GoingTo`,
  `Scrolling`), and says what is posted and allocated after each of the last calls;
  `KeyMenuInv` that a choice is hit by the clicks on its text only. The proof found that
  two arms of a CASE in the model's `Freed` overlapped, which left open what a refused call
  frees; they are apart now.
* `AnswersRight`, by an invariant for each of the puzzles that compute:
  * `LifeInv`: the eight indices of `calc` are the cells that touch a cell, once each, on
    every screen at least three cells wide and high (`EightAround`), so that its rule is
    Conway's (`RulesAgree`); on a smaller one the first shape does not fit.
  * `QueensInv`: what was shown is the list of the solutions that come before the board
    reached, in the order of the search (`Listed`); a step passes over no solution
    (`NothingSkipped`), and at the end no placing comes after the board.
  * `MagicInv`: each number is where a closed form has it, by the diagonal it is on and its
    place along it (`NumberAt`, `NextCell`). A row or a column meets every diagonal, and
    every place along one, once (`RowLine`, `ColumnLine`), and so has the sum (`LineSum`);
    the two diagonals are made of pairs of opposite cells (`Opposites`). Sums over finite
    sets are taken by induction on the size of the set, as an induction over a set of
    numbers (`NumberInduction`, `SumsExist`, `SumsMeet`).
  * `HanoiInv`: there is a way from the placing of the discs in the arrays to all discs on
    the third peg, on which each call or move left to do takes one placing to the next.
    A call is replaced by two calls and a move by the same way (`HanoiCalls`), and a move
    is that of a top disc onto a greater one or none (`DiscMoves`). With three discs, where
    a move ends does not depend on the cell behind the array (`TopIs`).
* `TypeCorrect`, from all these invariants and one of the typing tutor.

`Viewers` and `PciList` compute by recursive functions on finite ranges. The lemmas
`Iterated`, `TurnsEquation`, `WalkEquation`, `CellsEquation` and their like show, by
induction over a set of numbers (`SetInduction`, from the library's theorem that `<` is
well-founded on them), that such a function exists and meets its equation; the theorems use
the equations.

Every invariant of the passing runs and every refinement is stated by a theorem. The liveness
properties `OpensForm`, `ScanReturns`, `Terminates` and `StartEnds`, which need fairness
and ENABLED, are only model-checked.

## Not modelled

* What libpayload's `set_option_from_string` does to the CMOS bytes and their check sum:
  it is not in the repository, and an option is written whole in the model.
* Layout, colours and wording; the string options of the NVRAM windows, which the shipped
  `cmos.layout` does not use; the formatting of the time stamps; the PCI register dump.
* The EEPROM demonstration: the copy of FTDI's sample that no build file compiles, and the
  same functions in the Windows test program, behind a `return`. That program's test is
  the Linux one's, modelled in `FtdiSpi`.
* The form examples of ncurses, whose state is the form library's, and the programs that
  print once.
* Vendor headers, kconfig's generated parser, build files, Yocto configurations,
  `cmos.layout` as data, and the student exercises in `src/Left`, which do not compile.

## Plan

1. The time stamp text: `timestamp_print_entry` with its running offset against the size
   of its buffer.
