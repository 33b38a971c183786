------------------------------ MODULE FtdiChip -------------------------------
(***************************************************************************)
(* The FT2232H in MPSSE mode, its USB link and the register device on its  *)
(* SPI pins: everything the driver of src/QNX talks to.  None of it is in  *)
(* the repository; it is modelled from the commands the driver and its     *)
(* client send and from the answers they wait for.                         *)
(*                                                                         *)
(* Commands travel in order through tx, answers through usb and rx; the    *)
(* chip runs and the answers arrive whenever they like.  A token stands    *)
(* for a command header or for one unit of data.  The chip does not know   *)
(* which is which: after a write header it takes the next tokens as data.  *)
(***************************************************************************)
EXTENDS Integers, Sequences

CONSTANTS
  Addresses, (* The registers of the device.                           *)
  Data,      (* What a register can hold.                              *)
  MaxStale   (* Bound on the answers left over from an earlier program. *)

ASSUME MaxStaleAssumption == MaxStale \in Nat

(* What the device sends when it was not asked is no register's value. *)
ASSUME DataAssumption == "junk" \notin Data

VARIABLES
  tx,    (* Tokens written and not executed.                        *)
  usb,   (* Answers on their way to the host.                       *)
  rx,    (* The receive queue of FT_GetQueueStatus and FT_Read.     *)
  mode,  (* "off", "starting" after FT_SetBitMode, or "mpsse".      *)
  need,  (* Data tokens the current write header still takes.       *)
  cs,    (* The level of the chip select pin.                       *)
  frame, (* What the device has taken in since cs fell.             *)
  regs   (* The registers of the device.                            *)

chipVars == <<tx, usb, rx, mode, need, cs, frame, regs>>

Token(t, n, v) == [t |-> t, n |-> n, v |-> v]
Dat(v) == Token("dat", 0, v)

BadAck == "FA"
Id == "ID"

(* The n answer units the device clocks out for a value. *)
Parts(v, n) == [k \in 1..n |-> Token("dat", k, v)]

(* The device's answer to what it was sent in this frame. *)
Answer(f) ==
  IF cs = "low" /\ f = <<"id">> THEN Id
  ELSE IF cs = "low" /\ Len(f) = 2 /\ f[1] = "read" /\ f[2] \in Addresses THEN regs[f[2]]
  ELSE "junk"

(* The registers once cs rises: a complete write takes effect then. *)
Committed ==
  IF /\ cs = "low"
     /\ Len(frame) = 3 /\ frame[1] = "write"
     /\ frame[2] \in Addresses /\ frame[3] \in Data
  THEN [regs EXCEPT ![frame[2]] = frame[3]]
  ELSE regs

ChipInit ==
  /\ tx = <<>> /\ usb = <<>>
  /\ rx \in {[k \in 1..n |-> Dat("junk")] : n \in 0..MaxStale}
  /\ mode = "off" /\ need = 0
  /\ cs = "high" /\ frame = <<>>
  /\ regs \in [Addresses -> Data]

(* FT_SetBitMode(0, 0): the controller forgets what it was doing. *)
BitModeReset ==
  /\ tx' = <<>>
  /\ mode' = "off"
  /\ need' = 0
  /\ cs' = "high"
  /\ frame' = <<>>
  /\ regs' = Committed
  /\ UNCHANGED <<usb, rx>>

(* FT_SetBitMode(0, 2): the chip begins to start its MPSSE. *)
BitModeMpsse ==
  /\ mode' = "starting"
  /\ UNCHANGED <<tx, usb, rx, need, cs, frame, regs>>

StartUp ==
  /\ mode = "starting"
  /\ mode' = "mpsse"
  /\ UNCHANGED <<tx, usb, rx, need, cs, frame, regs>>

(* A token while the chip is not up is lost. *)
Lose ==
  /\ mode # "mpsse"
  /\ tx # <<>>
  /\ tx' = Tail(tx)
  /\ UNCHANGED <<usb, rx, mode, need, cs, frame, regs>>

ShiftOut ==
  /\ mode = "mpsse"
  /\ tx # <<>>
  /\ need > 0
  /\ need' = need - 1
  /\ frame' = IF cs = "low" THEN Append(frame, Head(tx).v) ELSE frame
  /\ tx' = Tail(tx)
  /\ UNCHANGED <<usb, rx, mode, cs, regs>>

(* An MPSSE_GPIO_SET command puts the chip select pin at level l. *)
SetCs(l) ==
  /\ cs' = l
  /\ frame' = IF l = cs THEN frame ELSE <<>>
  /\ regs' = IF l = "high" THEN Committed ELSE regs

Execute ==
  /\ mode = "mpsse"
  /\ tx # <<>>
  /\ need = 0
  /\ tx' = Tail(tx)
  /\ LET c == Head(tx)
     IN  \/ c.t = "gpio" /\ SetCs(c.v) /\ UNCHANGED <<usb, need>>
         \/ c.t = "wr" /\ need' = c.n /\ UNCHANGED <<usb, cs, frame, regs>>
         \/ /\ c.t = "rd"
            /\ usb' = usb \o Parts(Answer(frame), c.n)
            /\ UNCHANGED <<need, cs, frame, regs>>
         \/ c.t = "cfg" /\ UNCHANGED <<usb, need, cs, frame, regs>>
         \/ /\ c.t \in {"bad", "dat"}
            /\ usb' = usb \o <<Dat(BadAck), Dat(c.v)>>
            /\ UNCHANGED <<need, cs, frame, regs>>
  /\ UNCHANGED <<rx, mode>>

Deliver ==
  /\ usb # <<>>
  /\ rx' = Append(rx, Head(usb))
  /\ usb' = Tail(usb)
  /\ UNCHANGED <<tx, mode, need, cs, frame, regs>>

Chip == StartUp \/ Lose \/ ShiftOut \/ Execute \/ Deliver

(* Nothing is on its way between the host and the chip. *)
Drained == tx = <<>> /\ usb = <<>> /\ need = 0
=============================================================================
