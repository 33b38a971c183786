------------------------------- MODULE FtdiSpi -------------------------------
(***************************************************************************)
(* The SPI driver over libftd2xx and the program that uses it: FTDI_SPI_   *)
(* open with its purge and its two echo checks, mode, baud rate and        *)
(* loopback, then two rounds of register accesses, each a chip select, a   *)
(* write and maybe a read, then close; and again when it is run again.     *)
(*                                                                         *)
(* A step of the host is one FT_ call.  Any of them can fail, a write can  *)
(* take less than it was given, a read can end at its timeout; the chip    *)
(* works on what it was sent in the meantime.                              *)
(***************************************************************************)
EXTENDS FtdiChip

CONSTANTS
  Round,     (* The accesses of one of my_test's rounds, in order.         *)
  CsBit,     (* The pin of the chip select, as FTDI_SPI_open accepts it.   *)
  Trash,     (* The size of trash_buf.                                     *)
  MaxFaults, (* Bound on the FT_ calls that fail, write too little or time *)
             (* out while what they wait for is still to come, and on the  *)
             (* echo checks that pass on bytes they did not receive.       *)
  MaxRuns    (* Bound on the runs of the program.                          *)

Access == [op : {"id"}] \cup [op : {"read"}, addr : Addresses]
            \cup [op : {"write"}, addr : Addresses, val : Data]

ASSUME RoundAssumption == Round \in Seq(Access) /\ Len(Round) > 0
ASSUME CsBitAssumption == CsBit \in 3..15
ASSUME BoundsAssumption ==
  /\ Trash \in Nat \ {0} /\ MaxFaults \in Nat /\ MaxRuns \in Nat

VARIABLES
  pc,        (* The FT_ call the host makes next, "devices" while main     *)
             (* counts the devices, or "closed".                           *)
  echo,      (* The bad command of the echo check under way.               *)
  count,     (* The number FT_GetQueueStatus returned.                     *)
  job,       (* The access under way or next, an index into Script.        *)
  got,       (* What the last FT_Read of this access returned.             *)
  faults, runs,
  disturbed, (* History: in this run a call that took or returned too      *)
             (* little was taken for a success.                            *)
  shadow     (* History: what the registers hold if all writes worked.     *)

hostVars == <<pc, echo, count, job, got, faults, runs, disturbed, shadow>>
vars == <<chipVars, hostVars>>

(* my_test runs its accesses twice. *)
Script == Round \o Round
Job == Script[job]

(* ack_buf has four bytes. *)
AckBuf == 4

(* The bytes of the command of an access, in the units of FtdiChip. *)
Command(j) ==
  CASE j.op = "id"    -> <<"id">>
    [] j.op = "read"  -> <<"read", j.addr>>
    [] j.op = "write" -> <<"write", j.addr, j.val>>

(* The units of answer rd_id, rd_axi and wr_axi want. *)
AckUnits(j) == CASE j.op = "id" -> 1 [] j.op = "read" -> 2 [] j.op = "write" -> 0

(* Mutant of ReadAsked: the header says n where it should say n - 1. *)
ReadAskedPlusOne(j) == AckUnits(j) + 1

(* The units the read and the write header announce to the chip. *)
ReadAsked(j) == AckUnits(j)
WriteAsked(j) == Len(Command(j))

(* Mutant of CsLevel: the level is not inverted. *)
CsLevelDirect(enable) == IF enable THEN "high" ELSE "low"

(* Mutant of CsLevel: the value to set is not looked at. *)
CsLevelStuck(enable) == IF CsBit < 8 THEN "low" ELSE "high"

(* __CS_set: pio loses its zero when the bit is not in the low byte. *)
CsLevel(enable) == IF enable /\ CsBit < 8 THEN "low" ELSE "high"

(* usleep(50), in microseconds, and what its comment says is needed. *)
Slept == 50
StartUpTime == 50000

Init ==
  /\ ChipInit
  /\ pc = "closed" /\ echo = "AA" /\ count = 0 /\ job = 1 /\ got = <<>>
  /\ faults = 0 /\ runs = 0
  /\ disturbed = FALSE
  /\ shadow = regs

-----------------------------------------------------------------------------
Fault == faults < MaxFaults /\ faults' = faults + 1

(* An FT_ call returns something other than FT_OK: everything breaks out    *)
(* to the close.                                                            *)
Fails ==
  /\ Fault
  /\ pc' = "close"
  /\ UNCHANGED <<chipVars, echo, count, job, got, runs, disturbed, shadow>>

(* FT_Write of the tokens ts succeeds, with all of them or with some. *)
Written(ts) ==
  /\ tx' = tx \o ts
  /\ UNCHANGED <<usb, rx, mode, need, cs, frame, regs, faults, disturbed>>

WrittenShort(ts) ==
  /\ Fault
  /\ \E n \in 0..(Len(ts) - 1) : tx' = tx \o SubSeq(ts, 1, n)
  /\ disturbed' = TRUE
  /\ UNCHANGED <<usb, rx, mode, need, cs, frame, regs>>

(* Most callers look at the status of FT_Write and not at its count. *)
Write(ts) == Written(ts) \/ WrittenShort(ts)

(* Of n units FT_Read takes what is in the queue. *)
Take(n) ==
  /\ rx' = SubSeq(rx, n + 1, Len(rx))
  /\ UNCHANGED <<tx, usb, mode, need, cs, frame, regs>>

(***************************************************************************)
(* The program is run.  It is run by hand, so that by then the chip has    *)
(* dealt with everything an earlier run sent and its answers have arrived. *)
(***************************************************************************)
Start ==
  /\ pc = "closed"
  /\ runs < MaxRuns
  /\ tx = <<>> /\ usb = <<>>
  /\ runs' = runs + 1
  /\ pc' = "devices"
  /\ UNCHANGED <<chipVars, echo, count, job, got, faults, disturbed, shadow>>

(***************************************************************************)
(* A turn of main's loop: it counts the devices until there are two, for   *)
(* as long as that takes; only a count that fails makes it return.  It     *)
(* then asks for the list of devices to print it, and goes on whatever     *)
(* that says.                                                              *)
(***************************************************************************)
CountDevices ==
  /\ pc = "devices"
  /\ \/ /\ \E numDevs \in 0..2 : pc' = IF numDevs >= 2 THEN "open" ELSE pc
        /\ UNCHANGED faults
     \/ Fault /\ pc' = "closed"
  /\ UNCHANGED <<chipVars, echo, count, job, got, runs, disturbed, shadow>>

(* FT_Open, then FT_ResetDevice at the head of spi_inital. *)
Open ==
  /\ pc = "open"
  /\ \/ pc' = "purge" /\ UNCHANGED <<chipVars, echo, count, job, got, faults, runs, disturbed, shadow>>
     \/ Fails

(* Mutant of PurgeDone: the receive buffer is read once. *)
PurgeDoneOnce == rx = <<>> \/ count > 0

(* The purge goes on until the receive buffer is empty. *)
PurgeDone == rx = <<>>

(* Mutant of Clamped: the count is not limited to the buffer. *)
ClampedNot(n) == n

Clamped(n) == IF n > Trash THEN Trash ELSE n

PurgeQueue ==
  /\ pc = "purge"
  /\ \/ /\ IF PurgeDone
           THEN pc' = "setup" /\ count' = 0
           ELSE pc' = "purge_read" /\ count' = Clamped(Len(rx))
        /\ UNCHANGED <<chipVars, echo, job, got, faults, runs, disturbed, shadow>>
     \/ Fails

PurgeRead ==
  /\ pc = "purge_read"
  /\ \/ /\ Take(count)
        /\ pc' = "purge"
        /\ UNCHANGED <<echo, count, job, got, faults, runs, disturbed, shadow>>
     \/ Fails

(* Transfer sizes, characters, timeouts, latency; then the controller reset. *)
Setup ==
  /\ pc = "setup"
  /\ \/ /\ BitModeReset
        /\ shadow' = Committed
        /\ pc' = "mpsse"
        /\ UNCHANGED <<echo, count, job, got, faults, runs, disturbed>>
     \/ Fails

EnableMpsse ==
  /\ pc = "mpsse"
  /\ \/ /\ BitModeMpsse
        /\ pc' = "settle"
        /\ UNCHANGED <<echo, count, job, got, faults, runs, disturbed, shadow>>
     \/ Fails

(* The chip has started up after StartUpTime at the latest. *)
Settle ==
  /\ pc = "settle"
  /\ Slept >= StartUpTime => mode = "mpsse"
  /\ pc' = "gpio"
  /\ UNCHANGED <<chipVars, echo, count, job, got, faults, runs, disturbed, shadow>>

Gpio ==
  /\ pc = "gpio"
  /\ \/ /\ Write(<<Token("cfg", 0, "clk"), Token("gpio", 0, "high")>>)
        /\ pc' = "echo"
        /\ UNCHANGED <<echo, count, job, got, runs, shadow>>
     \/ Fails

EchoWrite ==
  /\ pc = "echo"
  /\ \/ /\ Write(<<Token("bad", 0, echo)>>)
        /\ pc' = "echo_queue"
        /\ UNCHANGED <<echo, count, job, got, runs, shadow>>
     \/ Fails

EchoQueue ==
  /\ pc = "echo_queue"
  /\ \/ /\ count' = Len(rx)
        /\ pc' = "echo_read"
        /\ UNCHANGED <<chipVars, echo, job, got, faults, runs, disturbed, shadow>>
     \/ Fails

(* Mutant of Verdict: the acknowledgement is looked for one place too late. *)
VerdictLast(a) ==
  IF Len(a) \in 1..AckBuf THEN {a[Len(a)].v = BadAck} ELSE BOOLEAN

(***************************************************************************)
(* What the comparison of the last two bytes can say.  With fewer than two *)
(* bytes, or more than the buffer has, it looks at memory it did not read. *)
(***************************************************************************)
Verdict(a) ==
  IF Len(a) \in 2..AckBuf
  THEN {a[Len(a) - 1].v = BadAck /\ a[Len(a)].v = echo}
  ELSE BOOLEAN

EchoRead ==
  /\ pc = "echo_read"
  /\ \/ LET a == SubSeq(rx, 1, count)
        IN  /\ Take(count)
            /\ \E pass \in Verdict(a) :
                 /\ pc' = IF ~pass THEN "close"
                          ELSE IF echo = "AA" THEN "echo" ELSE "baud"
                 /\ echo' = IF pass THEN "AB" ELSE echo
                 /\ IF pass /\ FALSE \in Verdict(a)
                    THEN Fault /\ disturbed' = TRUE
                    ELSE UNCHANGED <<faults, disturbed>>
            /\ UNCHANGED <<count, job, got, runs, shadow>>
     \/ Fails

(* FTDI_SPI_mode_set makes no call; the baud rate alone checks the count.  *)
Baudrate ==
  /\ pc = "baud"
  /\ LET ts == <<Token("cfg", 0, "div")>>
     IN  \/ /\ Written(ts) /\ pc' = "loopback"
            /\ UNCHANGED <<echo, count, job, got, runs, shadow>>
         \/ /\ WrittenShort(ts) /\ pc' = "close"
            /\ UNCHANGED <<echo, count, job, got, runs, shadow>>
         \/ Fails

Loopback ==
  /\ pc = "loopback"
  /\ \/ /\ Write(<<Token("cfg", 0, "loop")>>)
        /\ pc' = "access"
        /\ UNCHANGED <<echo, count, job, got, runs, shadow>>
     \/ Fails

-----------------------------------------------------------------------------
(* One access, __exch_wo or __exch_rw. *)
CsEnable ==
  /\ pc = "access" /\ job <= Len(Script)
  /\ \/ /\ Write(<<Token("gpio", 0, CsLevel(TRUE))>>)
        /\ pc' = "wo_header"
        /\ UNCHANGED <<echo, count, job, got, runs, shadow>>
     \/ Fails

WoHeader ==
  /\ pc = "wo_header"
  /\ \/ /\ Write(<<Token("wr", WriteAsked(Job), "wr")>>)
        /\ pc' = "wo_data"
        /\ UNCHANGED <<echo, count, job, got, runs, shadow>>
     \/ Fails

WoData ==
  /\ pc = "wo_data"
  /\ \/ /\ Write([k \in 1..Len(Command(Job)) |-> Dat(Command(Job)[k])])
        /\ pc' = IF AckUnits(Job) = 0 THEN "disable" ELSE "ro_header"
        /\ UNCHANGED <<echo, count, job, got, runs, shadow>>
     \/ Fails

RoHeader ==
  /\ pc = "ro_header"
  /\ \/ /\ Write(<<Token("rd", ReadAsked(Job), "rd")>>)
        /\ pc' = "ro_read"
        /\ UNCHANGED <<echo, count, job, got, runs, shadow>>
     \/ Fails

(* Mutant of RoTimeout: the read is repeated until it is complete. *)
RoTimeoutRetries == pc' = "ro_read" /\ UNCHANGED <<chipVars, got, disturbed>>

(* The three seconds are over: FT_OK with what there is, and nobody looks. *)
RoTimeout ==
  /\ Take(Len(rx))
  /\ got' = rx
  /\ disturbed' = TRUE
  /\ pc' = "disable"

RoRead ==
  /\ pc = "ro_read"
  /\ \/ /\ Len(rx) >= AckUnits(Job)
        /\ Take(AckUnits(Job))
        /\ got' = SubSeq(rx, 1, AckUnits(Job))
        /\ pc' = "disable"
        /\ UNCHANGED <<echo, count, job, faults, runs, disturbed, shadow>>
     \/ /\ Len(rx) < AckUnits(Job)
        /\ IF tx = <<>> /\ usb = <<>> THEN UNCHANGED faults ELSE Fault
        /\ RoTimeout
        /\ UNCHANGED <<echo, count, job, runs, shadow>>
     \/ Fails

CsDisable ==
  /\ pc = "disable"
  /\ \/ /\ Write(<<Token("gpio", 0, CsLevel(FALSE))>>)
        /\ pc' = "access"
        /\ job' = job + 1
        /\ got' = <<>>
        /\ shadow' = IF Job.op = "write"
                     THEN [shadow EXCEPT ![Job.addr] = Job.val] ELSE shadow
        /\ UNCHANGED <<echo, count, runs>>
     \/ Fails

(* my_test after its rounds, or after an error, closes what it opened. *)
Finish ==
  /\ pc = "access" /\ job > Len(Script)
  /\ pc' = "close"
  /\ UNCHANGED <<chipVars, echo, count, job, got, faults, runs, disturbed, shadow>>

Close ==
  /\ pc = "close"
  /\ pc' = "closed"
  /\ echo' = "AA" /\ count' = 0 /\ job' = 1 /\ got' = <<>>
  /\ disturbed' = FALSE
  /\ UNCHANGED <<chipVars, faults, runs, shadow>>

Host ==
  \/ Open \/ PurgeQueue \/ PurgeRead \/ Setup \/ EnableMpsse \/ Settle \/ Gpio
  \/ EchoWrite \/ EchoQueue \/ EchoRead \/ Baudrate \/ Loopback
  \/ CsEnable \/ WoHeader \/ WoData \/ RoHeader \/ RoRead \/ CsDisable
  \/ Finish \/ Close

Next == Start \/ CountDevices \/ Host \/ (Chip /\ UNCHANGED hostVars)

Spec == Init /\ [][Next]_vars

(* Every FT_ call returns, if only by its timeout, and the chip and the     *)
(* USB link do not sit on what they have.  Nobody has to attach a device.   *)
FairSpec == Spec /\ WF_vars(Host) /\ WF_vars(Chip /\ UNCHANGED hostVars)

-----------------------------------------------------------------------------
Calls ==
  {"closed", "devices", "open", "purge", "purge_read", "setup", "mpsse", "settle",
   "gpio", "echo", "echo_queue", "echo_read", "baud", "loopback", "access",
   "wo_header", "wo_data", "ro_header", "ro_read", "disable", "close"}

(* Types; the purge never asks for more than its buffer holds. *)
TypeOK ==
  /\ pc \in Calls
  /\ echo \in {"AA", "AB"}
  /\ count \in Nat
  /\ pc = "purge_read" => count \in 1..Trash
  /\ job \in 1..(Len(Script) + 1)
  /\ mode \in {"off", "starting", "mpsse"}
  /\ cs \in {"low", "high"}
  /\ need \in Nat
  /\ regs \in [Addresses -> Data] /\ shadow \in [Addresses -> Data]
  /\ faults \in 0..MaxFaults /\ runs \in 0..MaxRuns
  /\ disturbed \in BOOLEAN

(***************************************************************************)
(* What arrives for the echo check fits in ack_buf, whatever an earlier    *)
(* program or run left in the receive queue.                               *)
(***************************************************************************)
AckFits == pc = "echo_read" => count <= AckBuf

(***************************************************************************)
(* When open succeeds on what it really read, the chip is up, nothing is   *)
(* on its way, no command unexecuted and no answer unread, and the device  *)
(* is released, though a run that failed in an access left it selected.    *)
(***************************************************************************)
SyncedAfterOpen ==
  pc = "baud" /\ ~disturbed
  => mode = "mpsse" /\ Drained /\ rx = <<>> /\ cs = "high"

(***************************************************************************)
(* A read returns the register's present value, complete, and never part   *)
(* of an earlier answer, in a run in which no short count was overlooked.  *)
(***************************************************************************)
ReadsAreFresh ==
  pc = "disable" /\ ~disturbed
  => got = Parts(CASE Job.op = "id" -> Id
                   [] Job.op = "read" -> shadow[Job.addr]
                   [] Job.op = "write" -> "none", AckUnits(Job))

(***************************************************************************)
(* The device is selected when a byte is shifted out to it, and has the    *)
(* whole command when its answer is read.                                  *)
(***************************************************************************)
CsFramesData ==
  mode = "mpsse" /\ tx # <<>> /\ ~disturbed /\ pc # "closed"
  => /\ need > 0 => cs = "low"
     /\ need = 0 /\ Head(tx).t = "rd" => cs = "low" /\ Answer(frame) # "junk"

(***************************************************************************)
(* Between two accesses, once the chip is done, the device is released and *)
(* every write of the run has reached its register.                        *)
(***************************************************************************)
EveryWriteArrives ==
  pc = "access" /\ Drained /\ ~disturbed => cs = "high" /\ regs = shadow

(* Once main has counted two devices the program ends with the device       *)
(* closed, whatever fails or times out; nothing bounds its wait for them.   *)
Terminates == pc \notin {"closed", "devices"} ~> pc = "closed"

(* FTDI_SPI_open accepts the bits 3 to 15 and __CS_set has a branch for the *)
(* upper eight: whatever the bit, CS_enable selects the device.             *)
AcceptedBitSelects == pc = "wo_header" /\ Drained /\ ~disturbed => cs = "low"

=============================================================================
