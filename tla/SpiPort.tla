------------------------------- MODULE SpiPort -------------------------------
(***************************************************************************)
(* The calls of the SPI driver, as its Windows port has them, one FT_ call *)
(* to a step: open with what it must release again, mode, bit rate, chip   *)
(* select, and transfers of any number of bits, which are cut into whole   *)
(* bytes and a tail.  The client calls them in any order the handle        *)
(* allows.                                                                 *)
(*                                                                         *)
(* FtdiSpi models the same driver over a chip that answers late; here the  *)
(* chip executes a command when it is written, and what FtdiSpi leaves     *)
(* out is looked at: lengths, edges, tails, rates and the handle.          *)
(*                                                                         *)
(* An FT_ call fails, or moves all it was given, or moves a part of it and *)
(* reports FT_OK all the same.  FTDI_SPI_baudrate_set alone looks at the   *)
(* count then; the other calls go on as if everything had been moved.      *)
(***************************************************************************)
EXTENDS Naturals, Sequences, SequencesExt

CONSTANTS
  W,        (* Bits of a byte; 8.                                          *)
  Radix,    (* Values of a byte, in lengths and dividers; 256.             *)
  Word,     (* Values of uint_least32_t; 2^32.                             *)
  Freq,     (* The master clock; 60 MHz.                                   *)
  Requests, (* The transfer lengths the client asks for, in bits.          *)
  Rates,    (* The bit rates it asks for.                                  *)
  CsBits,   (* The chip select bits it opens the port with.                *)
  MaxTransfers, (* Bound on the transfers between chip select changes.     *)
  MaxUnread (* Bound on the bytes left unread when a transfer begins.      *)

ASSUME BitsAssumption == W \in Nat \ {0, 1} /\ Radix \in Nat \ {0, 1}
ASSUME WordAssumption == Word \in Nat /\ Freq \in Nat /\ 2 * Freq < Word
ASSUME RequestsAssumption ==
  /\ Requests \subseteq 0..(Word - 1) /\ Rates \subseteq 0..(Word - 1)
  /\ CsBits \subseteq Nat /\ MaxTransfers \in Nat
  /\ MaxUnread \in Nat

VARIABLES
  pc,     (* The FT_ call made next, "idle" between calls of the client,   *)
          (* "failed" after one that failed, "undef" or "astray".          *)
  handle, (* The client's handle: "null" or "open".                        *)
  taken,  (* FT handles and allocations not given back.                    *)
  p_cmd,  (* The mode whose commands are used, or NoMode after malloc.     *)
  rate,   (* The rate asked for last and the half period it got.           *)
  job,    (* The transfer under way: its length, the bits asked for before *)
          (* it and how many transfers they were, with it.                 *)
  need,   (* Bytes the chip still takes as data.                           *)
  rx,     (* Bytes the chip clocked in and the host has not read.          *)
  asked, wire, (* As in SpiMaster, since the last chip select call.        *)
  good

chipVars == <<need, rx>>
busVars == <<asked, wire, good>>
vars == <<pc, handle, taken, p_cmd, rate, job, chipVars, busVars>>

NoMode == 4
NoRate == [bps |-> 0, half |-> 1]
NoJob == [n |-> 0, base |-> 0, nth |-> 0]
Edges == {"RE", "FE"}

(* FTDI_SPI_mode: the edges its four names promise. *)
OutEdge(mode) == IF mode \in {0, 1} THEN "RE" ELSE "FE"
InEdge(mode) == IF mode \in {0, 2} THEN "RE" ELSE "FE"

(* The command codes of MPSSE, with the edge the chip uses for each. *)
MSB_OUT_BYTE == [RE |-> 16, FE |-> 17]
MSB_OUT_BIT  == [RE |-> 18, FE |-> 19]
MSB_IN_BYTE  == [RE |-> 32, FE |-> 36]
MSB_IN_BIT   == [RE |-> 34, FE |-> 38]
EdgeOf(c) == IF c \in {16, 18, 32, 34} THEN "RE" ELSE "FE"

Row(wr_byte, wr_bit, rd_byte, rd_bit) ==
  [wr_byte |-> wr_byte, wr_bit |-> wr_bit, rd_byte |-> rd_byte, rd_bit |-> rd_bit]

(* Mutant of __cmd: the bit command of a row is that of another row. *)
__cmdMixed ==
  [m \in 0..3 |-> CASE m = 0 -> Row(16, 18, 32, 34) [] m = 1 -> Row(16, 18, 36, 34)
                    [] m = 2 -> Row(17, 19, 32, 34) [] m = 3 -> Row(17, 19, 36, 38)]

(* The table of FTDI_SPI_mode_set. *)
__cmd ==
  [m \in 0..3 |->
     CASE m = 0 -> Row(MSB_OUT_BYTE.RE, MSB_OUT_BIT.RE, MSB_IN_BYTE.RE, MSB_IN_BIT.RE)
       [] m = 1 -> Row(MSB_OUT_BYTE.RE, MSB_OUT_BIT.RE, MSB_IN_BYTE.FE, MSB_IN_BIT.FE)
       [] m = 2 -> Row(MSB_OUT_BYTE.FE, MSB_OUT_BIT.FE, MSB_IN_BYTE.RE, MSB_IN_BIT.RE)
       [] m = 3 -> Row(MSB_OUT_BYTE.FE, MSB_OUT_BIT.FE, MSB_IN_BYTE.FE, MSB_IN_BIT.FE)]

Bytes(n) == n \div W
TailBits(n) == n % W

(* The bits a and on to b of the frame, on the edge of command c. *)
Run(d, a, b, e) == [i \in 1..(b - a + 1) |-> [dir |-> d, pos |-> a + i - 1, edge |-> e]]

(* A length or divider written as two bytes, the upper one cut to a byte. *)
TwoBytes(x) == (x % Radix) + Radix * ((x \div Radix) % Radix)

Init ==
  /\ pc = "idle" /\ handle = "null" /\ taken = [ft |-> 0, mem |-> 0]
  /\ p_cmd = NoMode /\ rate = NoRate /\ job = NoJob
  /\ need = 0 /\ rx = <<>>
  /\ asked = <<>> /\ wire = <<>> /\ good = TRUE

-----------------------------------------------------------------------------
(* FTDI_SPI_open: the two tests of its arguments, then what it takes.  When *)
(* a step fails what was taken so far is given back.                        *)
FTDI_SPI_open ==
  /\ pc = "idle" /\ handle = "null"
  /\ \E cs_bit \in CsBits : cs_bit \in 3..15
  /\ taken' = [taken EXCEPT !.ft = @ + 1]
  /\ pc' = "malloc"
  /\ UNCHANGED <<handle, p_cmd, rate, job, chipVars, busVars>>

Malloc ==
  /\ pc = "malloc"
  /\ \/ pc' = "close_ft" /\ UNCHANGED <<taken, p_cmd>>
     \/ pc' = "inital" /\ taken' = [taken EXCEPT !.mem = @ + 1] /\ p_cmd' = NoMode
  /\ UNCHANGED <<handle, rate, job, chipVars, busVars>>

(* The device is reset, what it still had for the host is read away and     *)
(* MPSSE mode is entered anew.                                              *)
spi_inital ==
  /\ pc = "inital"
  /\ \/ pc' = "undo" /\ UNCHANGED chipVars
     \/ pc' = "echo" /\ need' = 0 /\ rx' = <<>>
  /\ UNCHANGED <<handle, taken, p_cmd, rate, job, busVars>>

(* Both echo checks; only then does the client get the handle. *)
check_echo ==
  /\ pc = "echo"
  /\ \/ pc' = "undo" /\ UNCHANGED handle
     \/ pc' = "idle" /\ handle' = "open"
  /\ UNCHANGED <<taken, p_cmd, rate, job, chipVars, busVars>>

(* Mutant of Undo: the memory is not freed. *)
UndoCloses ==
  /\ pc \in {"close_ft", "undo"}
  /\ taken' = [taken EXCEPT !.ft = @ - 1]
  /\ pc' = "idle"
  /\ UNCHANGED <<handle, p_cmd, rate, job, chipVars, busVars>>

Undo ==
  /\ pc \in {"close_ft", "undo"}
  /\ taken' = [ft |-> taken.ft - 1, mem |-> IF pc = "undo" THEN taken.mem - 1 ELSE taken.mem]
  /\ pc' = "idle"
  /\ UNCHANGED <<handle, p_cmd, rate, job, chipVars, busVars>>

(* Whatever call failed or went astray, the client closes the port; a       *)
(* closed handle is not used again.                                         *)
FTDI_SPI_close ==
  /\ pc \in {"idle", "failed", "astray"} /\ handle = "open"
  /\ taken' = [ft |-> taken.ft - 1, mem |-> taken.mem - 1]
  /\ handle' = "null" /\ pc' = "idle"
  /\ job' = NoJob /\ asked' = <<>> /\ wire' = <<>> /\ good' = TRUE
  /\ UNCHANGED <<p_cmd, rate, chipVars>>

(* A call of the client on an open port.  With another handle it returns an *)
(* error before it does anything, and so does one with wrong arguments.     *)
Call == pc = "idle" /\ handle = "open"

(* The chip expects data and gets something else, or gets data where it     *)
(* expects a command: from here on it executes whatever the data means.     *)
Astray == pc' = "astray" /\ UNCHANGED chipVars

(***************************************************************************)
(* A command that does not get through, though the call goes on at next:   *)
(* the chip takes it for data, or FT_Write returns FT_OK with none of its  *)
(* bytes or, which leaves the chip waiting for the rest, with some.        *)
(***************************************************************************)
CommandLost(next) ==
  \/ need # 0 /\ Astray /\ UNCHANGED good
  \/ Astray /\ good' = FALSE
  \/ pc' = next /\ good' = FALSE /\ UNCHANGED chipVars

FTDI_SPI_mode_set ==
  /\ Call
  /\ p_cmd' \in DOMAIN __cmd
  /\ UNCHANGED <<pc, handle, taken, rate, job, chipVars, busVars>>

(* Mutant of DivF: the quotient is not rounded. *)
DivFDown(bps) == (Freq % Word) \div ((2 * bps) % Word)

(* div_f before it is made a divider, in 32 bits. *)
DivF(bps) == ((Freq + bps) % Word) \div ((2 * bps) % Word)

(* Mutant of HalfPeriod: the divider is not one less. *)
HalfPeriodLate(div_f) ==
  IF div_f > Radix * Radix THEN 5 * TwoBytes(div_f \div 5) ELSE TwoBytes(div_f)

(* Half a period of the bit clock in ticks of the master clock: the chip    *)
(* adds one to the divider, and divides the clock by five if told to.       *)
HalfPeriod(div_f) ==
  IF div_f > Radix * Radix THEN 5 * (TwoBytes(div_f \div 5 - 1) + 1)
                           ELSE TwoBytes(div_f - 1) + 1

(* The count of its FT_Write is looked at: too small a one is a failure.    *)
FTDI_SPI_baudrate_set ==
  /\ Call
  /\ \E bps \in Rates \ {0} :
       IF (2 * bps) % Word = 0
       THEN pc' = "undef" /\ UNCHANGED <<rate, chipVars>>
       ELSE /\ DivF(bps) # 0
            /\ \/ /\ need = 0
                  /\ rate' = [bps |-> bps, half |-> HalfPeriod(DivF(bps))]
                  /\ UNCHANGED <<pc, chipVars>>
               \/ need # 0 /\ Astray /\ UNCHANGED rate
  /\ UNCHANGED <<handle, taken, p_cmd, job, busVars>>

(* FTDI_SPI_CS_enable and _disable begin a new frame.  (Which bits reach    *)
(* the pin is in FtdiSpi.)                                                 *)
CsSet ==
  /\ Call
  /\ job' = NoJob /\ asked' = <<>> /\ wire' = <<>>
  /\ \/ need = 0 /\ UNCHANGED <<pc, chipVars, good>>
     \/ CommandLost("idle")
  /\ UNCHANGED <<handle, taken, p_cmd, rate>>

-----------------------------------------------------------------------------
Limit == W * Radix * Radix + W - 1

(* The two directions and the FT_ calls a transfer of each begins with. *)
Out == [dir |-> "out", header |-> "out_header", tail |-> "out_tail"]
In == [dir |-> "in", header |-> "in_header", tail |-> "in_tail"]

(* The client asks for n bits of direction d. *)
Transfer(d, n, edge) ==
  /\ Call
  /\ n > 0 /\ job.nth < MaxTransfers /\ Len(rx) <= MaxUnread
  /\ IF p_cmd = NoMode
     THEN pc' = "undef" /\ UNCHANGED <<job, busVars>>
     ELSE /\ pc' = IF Bytes(n) > 0 THEN d.header ELSE d.tail
          /\ job' = [n |-> n, base |-> Len(asked), nth |-> job.nth + 1]
          /\ asked' = asked \o Run(d.dir, Len(asked) + 1, Len(asked) + n, edge)
          /\ good' = (good /\ n <= Limit)
          /\ UNCHANGED wire
  /\ UNCHANGED <<handle, taken, p_cmd, rate, chipVars>>

FTDI_SPI_wo == \E n \in Requests : Transfer(Out, n, OutEdge(p_cmd))
FTDI_SPI_ro == \E n \in Requests : Transfer(In, n, InEdge(p_cmd))

(* The positions of the whole bytes and of the tail of the job. *)
LastOfBytes == job.base + W * Bytes(job.n)
LastOfJob == job.base + job.n

AfterBytes(d) == IF TailBits(job.n) > 0 THEN d.tail ELSE "idle"

TransferStep(step) == pc = step /\ UNCHANGED <<handle, taken, p_cmd, rate, job, asked>>

(* The bytes a header announces: it carries the length minus one. *)
HeaderLength(n) == TwoBytes(Bytes(n) - 1) + 1

WoHeader ==
  /\ TransferStep("out_header")
  /\ \/ /\ need = 0
        /\ need' = HeaderLength(job.n)
        /\ pc' = "out_data"
        /\ UNCHANGED <<rx, good>>
     \/ CommandLost("out_data")
  /\ UNCHANGED wire

(* Of its bytes FT_Write takes m. *)
WoData ==
  /\ TransferStep("out_data")
  /\ \E m \in 0..Bytes(job.n) :
       /\ good' = (good /\ m = Bytes(job.n))
       /\ IF m > need
          THEN Astray /\ UNCHANGED wire
          ELSE /\ wire' = wire \o Run("out", job.base + 1, job.base + W * m,
                                       EdgeOf(__cmd[p_cmd].wr_byte))
               /\ need' = need - m
               /\ pc' = AfterBytes(Out)
               /\ UNCHANGED rx

(* One write of command, length and byte; the chip sends its upper bits. *)
WoTail ==
  /\ TransferStep("out_tail")
  /\ \/ /\ need = 0
        /\ wire' = wire \o Run("out", LastOfBytes + 1, LastOfJob, EdgeOf(__cmd[p_cmd].wr_bit))
        /\ pc' = "idle"
        /\ UNCHANGED <<chipVars, good>>
     \/ CommandLost("idle") /\ UNCHANGED wire

(* The position of the next bit the chip clocks in. *)
NextIn == Len(wire) + Len(FlattenSeq(rx)) + 1

RoHeader ==
  /\ TransferStep("in_header")
  /\ \/ /\ need = 0
        /\ rx' = rx \o [k \in 1..HeaderLength(job.n) |->
                          Run("in", NextIn + W * (k - 1), NextIn + W * k - 1,
                              EdgeOf(__cmd[p_cmd].rd_byte))]
        /\ pc' = "in_data"
        /\ UNCHANGED <<need, good>>
     \/ CommandLost("in_data")
  /\ UNCHANGED wire

(* FT_Read of k bytes returns those that are there before its time-out; the *)
(* others stay in the receive queue for the next read.                      *)
Read(k) ==
  \E got \in 0..k :
    /\ got <= Len(rx)
    /\ good' = (good /\ got = k)
    /\ wire' = wire \o FlattenSeq(SubSeq(rx, 1, got))
    /\ rx' = SubSeq(rx, got + 1, Len(rx))
    /\ UNCHANGED need

RoData == TransferStep("in_data") /\ Read(Bytes(job.n)) /\ pc' = AfterBytes(In)

RoTail ==
  /\ TransferStep("in_tail")
  /\ \/ /\ need = 0
        /\ rx' = Append(rx, Run("in", NextIn, NextIn + TailBits(job.n) - 1,
                                EdgeOf(__cmd[p_cmd].rd_bit)))
        /\ pc' = "in_bit"
        /\ UNCHANGED <<need, good>>
     \/ CommandLost("in_bit")
  /\ UNCHANGED wire

RoBit == TransferStep("in_bit") /\ Read(1) /\ pc' = "idle"

(* Any FT_ call of an open port can fail; the call returns its error. *)
CallFails ==
  /\ handle = "open" /\ pc \notin {"failed", "undef", "astray"}
  /\ pc' = "failed"
  /\ UNCHANGED <<handle, taken, p_cmd, rate, job, chipVars, busVars>>

Next ==
  \/ FTDI_SPI_open \/ Malloc \/ spi_inital \/ check_echo \/ Undo \/ FTDI_SPI_close
  \/ FTDI_SPI_mode_set \/ FTDI_SPI_baudrate_set \/ CsSet
  \/ FTDI_SPI_wo \/ WoHeader \/ WoData \/ WoTail
  \/ FTDI_SPI_ro \/ RoHeader \/ RoData \/ RoTail \/ RoBit
  \/ CallFails

Spec == Init /\ [][Next]_vars

-----------------------------------------------------------------------------
TypeOK ==
  /\ pc \in {"idle", "malloc", "inital", "echo", "close_ft", "undo", "failed", "undef", "astray",
             "out_header", "out_data", "out_tail", "in_header", "in_data", "in_tail", "in_bit"}
  /\ handle \in {"null", "open"}
  /\ taken \in [ft : 0..1, mem : 0..1]
  /\ p_cmd \in 0..NoMode
  /\ rate \in [bps : 0..(Word - 1), half : 1..(5 * Radix * Radix)]
  /\ need \in 0..(Radix * Radix)
  /\ job \in [n : Requests \cup {0}, base : Nat, nth : 0..MaxTransfers]
  /\ Len(asked) = job.base + job.n

(***************************************************************************)
(* What the port takes it gives back, wherever open stops and whatever     *)
(* fails later; and an open port has its memory and its FT handle.         *)
(***************************************************************************)
PortReleases ==
  pc \in {"idle", "failed", "astray"} =>
    taken = IF handle = "open" THEN [ft |-> 1, mem |-> 1] ELSE [ft |-> 0, mem |-> 0]

(***************************************************************************)
(* A bit rate between what the two bytes of the divider can express and    *)
(* the master clock gives the nearest half period, or with the clock       *)
(* divided by five one at most five ticks shorter.  FTDI_SPI_baudrate_set  *)
(* accepts other rates as well: below, the divider is cut to two bytes,    *)
(* and from 2^31 on, twice the rate is.                                    *)
(***************************************************************************)
RateIsRight ==
  LET bps == rate.bps  half == rate.half
      asExact == Freq + bps < 2 * bps * (Radix * Radix + 1)
      expressible == Freq + bps < 2 * bps * 5 * (Radix * Radix + 1)
  IN  bps \in 1..Freq /\ expressible =>
        /\ 2 * bps * half <= Freq + bps
        /\ Freq + bps < 2 * bps * (half + IF asExact THEN 1 ELSE 5)

(* What a chip that executes data puts on the wires: bits nobody asked for. *)
WildBits == <<[dir |-> "none", pos |-> 0, edge |-> "none"]>>

(***************************************************************************)
(* The port implements SpiMaster: cut into bytes and tail, with two        *)
(* headers and two commands, a transfer is still its bits in order on the  *)
(* edge of the mode, and none of them is taken for a command.  After a     *)
(* count that was overlooked and after too long a transfer that holds      *)
(* again once the port is closed and opened.                               *)
(***************************************************************************)
Master == INSTANCE SpiMaster
            WITH on <- (handle = "open"), Limit <- Limit, Edges <- Edges,
                 wire <- IF pc = "astray" THEN WildBits ELSE wire

MasterSpec == Master!Spec

=============================================================================
