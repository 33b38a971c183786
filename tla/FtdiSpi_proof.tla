---------------------------- MODULE FtdiSpi_proof ----------------------------
(***************************************************************************)
(* Proofs about FtdiSpi.  While the host opens the device (OpenInv) the    *)
(* chip executes nothing but the commands of spi_inital, and a budget      *)
(* (AtMost) bounds the bytes that the echo checks can still cause; as long *)
(* as no short count is overlooked (SyncInv) the only answer is the one to *)
(* the echo check under way, so that the second one ends in step.  From    *)
(* there (StreamInv) what is written and not executed is a segment of one  *)
(* stream, the commands of the script in order: the chip stands at the     *)
(* first label of the segment and the host at the one after its last, so   *)
(* that what comes back, if anything, is the answer of the access under    *)
(* way.  A device on one of the pins that __CS_set never drives is never   *)
(* selected, therefore CsBit < 8 where the stream matters.                 *)
(***************************************************************************)
EXTENDS FtdiSpi, SequenceTheorems, TLAPS

-----------------------------------------------------------------------------
(* The types of what travels.                                               *)

Words ==
  Addresses \cup Data
    \cup {"none", "clk", "div", "loop", "AA", "AB", BadAck, Id, "junk", "wr", "rd",
          "id", "read", "write", "low", "high"}

Tokens ==
  {c \in [t : {"cfg", "bad", "gpio", "wr", "rd", "dat"}, n : Nat, v : Words] :
     c.t = "gpio" => c.v \in {"low", "high"}}

InAccess == {"wo_header", "wo_data", "ro_header", "ro_read", "disable"}

ChipTypes ==
  /\ tx \in Seq(Tokens) /\ usb \in Seq(Tokens) /\ rx \in Seq(Tokens)
  /\ mode \in {"off", "starting", "mpsse"}
  /\ need \in Nat
  /\ cs \in {"low", "high"}
  /\ frame \in Seq(Words)
  /\ regs \in [Addresses -> Data]

HostTypes ==
  /\ pc \in Calls
  /\ echo \in {"AA", "AB"}
  /\ count \in Nat
  /\ pc = "purge_read" => count \in 1..Trash
  /\ job \in 1..(Len(Script) + 1)
  /\ pc \in InAccess => job <= Len(Script)
  /\ shadow \in [Addresses -> Data]
  /\ faults \in 0..MaxFaults /\ runs \in 0..MaxRuns
  /\ disturbed \in BOOLEAN

TypeInv == ChipTypes /\ HostTypes

-----------------------------------------------------------------------------
(* FTDI_SPI_open: what may be on its way while the host opens the device.   *)

QuietTokens == {Token("cfg", 0, "clk"), Token("gpio", 0, "high")}
EarlyTokens == QuietTokens \cup {Token("bad", 0, "AA"), Token("bad", 0, "AB")}

BeforeReset == {"devices", "open", "purge", "purge_read", "setup"}
BeforeEcho == {"mpsse", "settle", "gpio"}
InEcho == {"echo", "echo_queue", "echo_read"}

(* The commands after the first q answer with two bytes each. *)
InFlight(q) == Len(rx) + Len(usb) + 2 * (Len(tx) - q)

(* At most b bytes will have arrived when the chip is done. *)
AtMost(b) ==
  \E q \in 0..Len(tx) : (\A i \in 1..q : tx[i] \in QuietTokens) /\ InFlight(q) <= b

Allowed ==
  (IF echo = "AA" THEN 0 ELSE 2) + (IF pc = "echo" THEN 0 ELSE 2)

OpenInv ==
  /\ pc \in BeforeReset => tx = <<>> /\ usb = <<>>
  /\ pc = "setup" => rx = <<>>
  /\ pc \in BeforeEcho => tx = <<>> /\ usb = <<>> /\ rx = <<>>
  /\ pc \in {"closed"} \cup BeforeReset \cup BeforeEcho => echo = "AA"
  /\ pc \in BeforeEcho \cup InEcho
     => /\ tx \in Seq(EarlyTokens)
        /\ need = 0 /\ cs = "high" /\ regs = shadow
  /\ pc \in InEcho => AtMost(Allowed)
  /\ pc = "echo_read" => count <= Len(rx)

(* Nothing but the command of the echo check can have an answer. *)
OneAnswer ==
  /\ Len(rx) + Len(usb) <= 2
  /\ tx # <<>> => rx = <<>> /\ usb = <<>>
  /\ Len(rx) + Len(usb) > 0 => mode = "mpsse"

SyncInv ==
  /\ pc = "echo" /\ ~disturbed
     => /\ tx \in Seq(QuietTokens) /\ usb = <<>> /\ rx = <<>>
        /\ echo = "AB" => tx = <<>> /\ mode = "mpsse"
  /\ pc \in {"echo_queue", "echo_read"} /\ ~disturbed
     => OneAnswer /\ \A i \in 1..Len(tx) - 1 : tx[i] \in QuietTokens
  /\ pc = "baud" /\ ~disturbed
     => /\ mode = "mpsse" /\ Drained /\ rx = <<>>
        /\ cs = "high" /\ regs = shadow

-----------------------------------------------------------------------------
(* The stream of commands from the baud rate on.  A label says which token  *)
(* of the stream comes next, and what the registers hold then.              *)

Stages == {"div", "loop", "enable", "wr", "dat", "rd", "disable"}

Labels ==
  [job : 1..(Len(Script) + 1), at : Stages, k : Nat, m : [Addresses -> Data]]

Label(j, at, k, m) == [job |-> j, at |-> at, k |-> k, m |-> m]

TokenOf(l) ==
  CASE l.at = "div"     -> Token("cfg", 0, "div")
    [] l.at = "loop"    -> Token("cfg", 0, "loop")
    [] l.at = "enable"  -> Token("gpio", 0, CsLevel(TRUE))
    [] l.at = "wr"      -> Token("wr", WriteAsked(Script[l.job]), "wr")
    [] l.at = "dat"     -> Dat(Command(Script[l.job])[l.k])
    [] l.at = "rd"      -> Token("rd", ReadAsked(Script[l.job]), "rd")
    [] l.at = "disable" -> Token("gpio", 0, CsLevel(FALSE))

(* The registers m after the access j. *)
After(j, m) == IF j.op = "write" THEN [m EXCEPT ![j.addr] = j.val] ELSE m

NextLabel(l) ==
  CASE l.at = "div"     -> Label(l.job, "loop", 0, l.m)
    [] l.at = "loop"    -> Label(l.job, "enable", 0, l.m)
    [] l.at = "enable"  -> Label(l.job, "wr", 0, l.m)
    [] l.at = "wr"      -> Label(l.job, "dat", 1, l.m)
    [] l.at = "dat"     ->
         IF l.k < Len(Command(Script[l.job])) THEN Label(l.job, "dat", l.k + 1, l.m)
         ELSE IF AckUnits(Script[l.job]) = 0 THEN Label(l.job, "disable", 0, l.m)
         ELSE Label(l.job, "rd", 0, l.m)
    [] l.at = "rd"      -> Label(l.job, "disable", 0, l.m)
    [] l.at = "disable" -> Label(l.job + 1, "enable", 0, After(Script[l.job], l.m))

(* The tokens s run from the label first to before the label last; a read   *)
(* is followed by nothing.                                                  *)
InOrder(s, first, last) ==
  \E lab \in [1..Len(s) + 1 -> Labels] :
    /\ lab[1] = first /\ lab[Len(s) + 1] = last
    /\ \A k \in 1..Len(s) : s[k] = TokenOf(lab[k]) /\ lab[k + 1] = NextLabel(lab[k])
    /\ \A k \in 1..Len(s) : lab[k].job <= Len(Script)
    /\ \A k \in 1..Len(s) :
         lab[k].at = "rd" => k = Len(s) /\ AckUnits(Script[lab[k].job]) > 0

(* The chip has executed everything before the label l. *)
ChipAt(l) ==
  /\ regs = l.m
  /\ cs = IF l.at \in {"div", "loop", "enable"} THEN "high" ELSE "low"
  /\ need = IF l.at = "dat" THEN Len(Command(Script[l.job])) - l.k + 1 ELSE 0
  /\ l.at = "wr" => frame = <<>>
  /\ l.at = "dat" => /\ l.k \in 1..Len(Command(Script[l.job]))
                     /\ frame = SubSeq(Command(Script[l.job]), 1, l.k - 1)
  /\ l.at \in {"rd", "disable"} => frame = Command(Script[l.job])

(* What the host writes next. *)
InStream == {"baud", "loopback", "access"} \cup InAccess

StageOf ==
  CASE pc = "baud" -> "div"
    [] pc = "loopback" -> "loop"
    [] pc = "access" -> "enable"
    [] pc = "wo_header" -> "wr"
    [] pc = "wo_data" -> "dat"
    [] pc = "ro_header" -> "rd"
    [] pc \in {"ro_read", "disable"} -> "disable"

HostLabel == Label(job, StageOf, IF pc = "wo_data" THEN 1 ELSE 0, shadow)

(* The value an access asks for: the device's answer when it has the whole  *)
(* command and its registers are m.                                         *)
Reply(j, m) ==
  CASE j.op = "id" -> Id [] j.op = "read" -> m[j.addr] [] j.op = "write" -> "none"

Wanted == Parts(Reply(Job, shadow), AckUnits(Job))

(* The chip works its way to the label l. *)
OnStream(l) == mode = "mpsse" /\ \E f \in Labels : InOrder(tx, f, l) /\ ChipAt(f)

AccessInv ==
  /\ pc \in {"ro_header", "ro_read"} => AckUnits(Job) > 0
  /\ pc \notin {"disable", "close"} => got = <<>>
  /\ pc \in Calls \ (InAccess \cup {"access", "close"}) => job = 1

StreamInv ==
  /\ pc \in InStream /\ ~disturbed
     => OnStream(HostLabel) /\ (pc # "ro_read" => rx = <<>> /\ usb = <<>>)
  /\ pc = "ro_read" /\ ~disturbed
     => IF tx = <<>> THEN rx \o usb = Wanted ELSE rx = <<>> /\ usb = <<>>
  /\ pc = "disable" /\ ~disturbed => got = Wanted /\ (AckUnits(Job) > 0 => tx = <<>>)
  /\ pc = "close" /\ ~disturbed
     => \/ tx = <<>>
        \/ tx \in Seq(EarlyTokens) /\ need = 0 /\ cs = "high"
        \/ \E l \in Labels : OnStream(l)

-----------------------------------------------------------------------------
(* Types.                                                                   *)

LEMMA ScriptFacts ==
  /\ Script \in Seq(Access) /\ Len(Script) \in Nat \ {0}
  /\ \A j \in 1..Len(Script) : Script[j] \in Access
<1>1. Round \in Seq(Access) /\ Len(Round) \in Nat \ {0}
  BY RoundAssumption, LenProperties
<1>2. Script \in Seq(Access) /\ Len(Script) = Len(Round) + Len(Round)
  BY <1>1, ConcatProperties DEF Script
<1>3. Len(Script) \in Nat \ {0}
  BY <1>1, <1>2
<1> HIDE DEF Script
<1>4. \A j \in 1..Len(Script) : Script[j] \in Access
  BY <1>2, ElementOfSeq
<1>. QED
  BY <1>2, <1>3, <1>4

(* An access is one of three kinds. *)
LEMMA AccessFacts ==
  ASSUME NEW j \in Access
  PROVE  /\ j.op \in {"id", "read", "write"}
         /\ j.op \in {"read", "write"} => j.addr \in Addresses
         /\ j.op = "write" => j.val \in Data
  BY DEF Access

LEMMA TokenType ==
  ASSUME NEW t \in {"cfg", "bad", "wr", "rd", "dat"}, NEW n \in Nat, NEW v \in Words
  PROVE  Token(t, n, v) \in Tokens
  BY DEF Token, Tokens

LEMMA GpioType ==
  ASSUME NEW l \in {"low", "high"}
  PROVE  Token("gpio", 0, l) \in Tokens
  BY DEF Token, Tokens, Words

LEMMA LevelType ==
  ASSUME NEW e
  PROVE  CsLevel(e) \in {"low", "high"}
  BY DEF CsLevel

LEMMA TokenParts ==
  ASSUME NEW c \in Tokens
  PROVE  /\ c.t \in {"cfg", "bad", "gpio", "wr", "rd", "dat"} /\ c.n \in Nat /\ c.v \in Words
         /\ c.t = "gpio" => c.v \in {"low", "high"}
  BY DEF Tokens

LEMMA OneToken ==
  ASSUME NEW S, NEW c \in S
  PROVE  <<c>> \in Seq(S) /\ Len(<<c>>) = 1 /\ <<c>>[1] = c
  OBVIOUS

LEMMA CommandFacts ==
  ASSUME NEW j \in Access
  PROVE  /\ Command(j) \in Seq(Words)
         /\ Len(Command(j)) = CASE j.op = "id" -> 1 [] j.op = "read" -> 2 [] j.op = "write" -> 3
         /\ Len(Command(j)) \in 1..3
         /\ AckUnits(j) = CASE j.op = "id" -> 1 [] j.op = "read" -> 2 [] j.op = "write" -> 0
<1>1. CASE j.op = "id"
  <2>1. Command(j) = <<"id">>
    BY <1>1 DEF Command
  <2>. QED
    BY <1>1, <2>1 DEF AckUnits, Words
<1>2. CASE j.op = "read"
  <2>1. Command(j) = <<"read", j.addr>> /\ j.addr \in Addresses
    BY <1>2, AccessFacts DEF Command
  <2>. QED
    BY <1>2, <2>1 DEF AckUnits, Words
<1>3. CASE j.op = "write"
  <2>1. Command(j) = <<"write", j.addr, j.val>> /\ j.addr \in Addresses /\ j.val \in Data
    BY <1>3, AccessFacts DEF Command
  <2>. QED
    BY <1>3, <2>1 DEF AckUnits, Words
<1>. QED
  BY <1>1, <1>2, <1>3, AccessFacts

(* The tokens of the command of an access. *)
CommandTokens(j) == [k \in 1..Len(Command(j)) |-> Dat(Command(j)[k])]

LEMMA CommandTokensFacts ==
  ASSUME NEW j \in Access
  PROVE  /\ CommandTokens(j) \in Seq(Tokens)
         /\ Len(CommandTokens(j)) = Len(Command(j))
         /\ \A k \in 1..Len(Command(j)) : CommandTokens(j)[k] = Dat(Command(j)[k])
<1>1. Command(j) \in Seq(Words) /\ Len(Command(j)) \in Nat
  BY CommandFacts, LenProperties
<1> DEFINE c == Command(j)
<1>2. \A k \in 1..Len(c) : Dat(c[k]) \in Tokens
  <2>1. TAKE k \in 1..Len(c)
  <2>2. c[k] \in Words
    BY <1>1, <2>1, ElementOfSeq
  <2>. QED
    BY <2>2, TokenType DEF Dat
<1> HIDE DEF c
<1>3. [k \in 1..Len(c) |-> Dat(c[k])] \in Seq(Tokens)
  BY <1>1, <1>2 DEF c
<1>. QED
  BY <1>1, <1>3 DEF c, CommandTokens


(* The first n elements. *)
LEMMA FirstFacts ==
  ASSUME NEW S, NEW s \in Seq(S), NEW n \in 0..Len(s)
  PROVE  /\ SubSeq(s, 1, n) \in Seq(S) /\ Len(SubSeq(s, 1, n)) = n
         /\ \A i \in 1..n : SubSeq(s, 1, n)[i] = s[i]
<1>1. Len(s) \in Nat /\ n \in Int /\ 1 \in Int /\ n \in Nat
  BY LenProperties
<1>2. \A i \in 1..n : s[i] \in S
  BY <1>1, ElementOfSeq
<1> DEFINE r == SubSeq(s, 1, n)
<1>3. /\ r \in Seq(S) /\ Len(r) = IF 1 <= n THEN n - 1 + 1 ELSE 0
      /\ \A i \in 1..n - 1 + 1 : r[i] = s[1 + i - 1]
  BY <1>1, <1>2, SubSeqProperties
<1> HIDE DEF r
<1>4. Len(r) = n /\ n - 1 + 1 = n
  BY <1>1, <1>3
<1>5. \A i \in 1..n : r[i] = s[i]
  <2>1. TAKE i \in 1..n
  <2>2. 1 + i - 1 = i
    BY <1>1
  <2>. QED
    BY <1>3, <1>4, <2>2
<1>. QED
  BY <1>3, <1>4, <1>5 DEF r

(* What FT_Read leaves. *)
LEMMA TakeFacts ==
  ASSUME NEW S, NEW s \in Seq(S), NEW n \in Nat
  PROVE  /\ SubSeq(s, n + 1, Len(s)) \in Seq(S)
         /\ n <= Len(s) => Len(SubSeq(s, n + 1, Len(s))) = Len(s) - n
         /\ n >= Len(s) => SubSeq(s, n + 1, Len(s)) = <<>>
<1>1. Len(s) \in Nat /\ n + 1 \in Int /\ Len(s) \in Int
  BY LenProperties
<1>2. \A i \in n + 1..Len(s) : s[i] \in S
  <2>1. TAKE i \in n + 1..Len(s)
  <2>2. i \in 1..Len(s)
    BY <1>1
  <2>. QED
    BY <2>2, ElementOfSeq
<1>3. /\ SubSeq(s, n + 1, Len(s)) \in Seq(S)
      /\ Len(SubSeq(s, n + 1, Len(s)))
           = IF n + 1 <= Len(s) THEN Len(s) - (n + 1) + 1 ELSE 0
  BY <1>1, <1>2, SubSeqProperties, Zenon
<1>4. n >= Len(s) => SubSeq(s, n + 1, Len(s)) = <<>>
  BY <1>1, SubSeqEmpty
<1>. QED
  BY <1>1, <1>3, <1>4

LEMMA WrittenTypes ==
  ASSUME ChipTypes, NEW ts \in Seq(Tokens), Written(ts)
  PROVE  ChipTypes'
<1>1. tx \o ts \in Seq(Tokens)
  BY ConcatProperties DEF ChipTypes
<1>. QED
  BY <1>1 DEF ChipTypes, Written

LEMMA WrittenShortTypes ==
  ASSUME ChipTypes, NEW ts \in Seq(Tokens), WrittenShort(ts)
  PROVE  ChipTypes'
<1>1. PICK n \in 0..(Len(ts) - 1) : tx' = tx \o SubSeq(ts, 1, n)
  BY DEF WrittenShort
<1>2. n \in 0..Len(ts)
  BY <1>1, LenProperties
<1>3. SubSeq(ts, 1, n) \in Seq(Tokens)
  BY <1>2, FirstFacts
<1>4. tx' \in Seq(Tokens)
  BY <1>1, <1>3, ConcatProperties DEF ChipTypes
<1>. QED
  BY <1>4 DEF ChipTypes, WrittenShort

LEMMA FaultType ==
  ASSUME faults \in 0..MaxFaults, Fault
  PROVE  faults' \in 0..MaxFaults
  BY BoundsAssumption DEF Fault

LEMMA WriteTypes ==
  ASSUME ChipTypes, NEW ts \in Seq(Tokens), Write(ts),
         faults \in 0..MaxFaults, disturbed \in BOOLEAN
  PROVE  ChipTypes' /\ faults' \in 0..MaxFaults /\ disturbed' \in BOOLEAN
<1>1. CASE Written(ts)
  BY <1>1, WrittenTypes DEF Written
<1>2. CASE WrittenShort(ts)
  BY <1>2, WrittenShortTypes, FaultType DEF WrittenShort
<1>. QED
  BY <1>1, <1>2 DEF Write

LEMMA TakeTypes ==
  ASSUME ChipTypes, NEW n \in Nat, Take(n)
  PROVE  ChipTypes'
<1>1. rx' \in Seq(Tokens)
  BY TakeFacts DEF ChipTypes, Take
<1>. QED
  BY <1>1 DEF ChipTypes, Take

LEMMA SameChipTypes ==
  ASSUME ChipTypes, UNCHANGED chipVars
  PROVE  ChipTypes'
  BY DEF ChipTypes, chipVars

LEMMA CommittedType ==
  ASSUME regs \in [Addresses -> Data]
  PROVE  Committed \in [Addresses -> Data]
  BY DEF Committed

LEMMA HeadFacts ==
  ASSUME NEW S, NEW s \in Seq(S), s # <<>>
  PROVE  /\ Head(s) \in S /\ Tail(s) \in Seq(S) /\ Head(s) = s[1]
         /\ Len(s) \in Nat \ {0} /\ Len(Tail(s)) = Len(s) - 1
         /\ \A i \in 1..Len(s) - 1 : Tail(s)[i] = s[i + 1]
<1>1. /\ Head(s) \in S /\ Tail(s) \in Seq(S) /\ Len(Tail(s)) = Len(s) - 1
      /\ \A i \in 1..Len(Tail(s)) : Tail(s)[i] = s[i + 1]
  BY HeadTailProperties
<1>2. Len(s) \in Nat \ {0}
  BY EmptySeq, LenProperties
<1>. QED
  BY <1>1, <1>2

LEMMA AnswerType ==
  ASSUME regs \in [Addresses -> Data], NEW f
  PROVE  Answer(f) \in Words
  BY DEF Answer, Words, Id

LEMMA PartsFacts ==
  ASSUME NEW v \in Words, NEW n \in Nat
  PROVE  /\ Parts(v, n) \in Seq(Tokens) /\ Len(Parts(v, n)) = n
         /\ \A k \in 1..n : Parts(v, n)[k] = Token("dat", k, v)
<1>1. \A k \in 1..n : Token("dat", k, v) \in Tokens
  BY TokenType
<1>. QED
  BY <1>1 DEF Parts


LEMMA ChipStepTypes ==
  ASSUME ChipTypes, Chip
  PROVE  ChipTypes'
<1>1. CASE StartUp
  BY <1>1 DEF ChipTypes, StartUp
<1>2. CASE Lose
  <2>1. tx' \in Seq(Tokens)
    BY <1>2, HeadFacts DEF ChipTypes, Lose
  <2>. QED
    BY <1>2, <2>1 DEF ChipTypes, Lose
<1>3. CASE ShiftOut
  <2>1. Head(tx) \in Tokens /\ tx' \in Seq(Tokens)
    BY <1>3, HeadFacts DEF ChipTypes, ShiftOut
  <2>2. frame' \in Seq(Words)
    <3>1. Head(tx).v \in Words
      BY <2>1, TokenParts
    <3>2. Append(frame, Head(tx).v) \in Seq(Words)
      BY <3>1, AppendProperties DEF ChipTypes
    <3>. QED
      BY <1>3, <3>2 DEF ChipTypes, ShiftOut
  <2>. QED
    BY <1>3, <2>1, <2>2 DEF ChipTypes, ShiftOut
<1>4. CASE Execute
  <2> DEFINE c == Head(tx)
  <2>1. c \in Tokens /\ tx' \in Seq(Tokens)
    BY <1>4, HeadFacts DEF ChipTypes, Execute
  <2>2. /\ c.n \in Nat /\ c.v \in Words
        /\ c.t = "gpio" => c.v \in {"low", "high"}
    BY <2>1, TokenParts
  <2>3. UNCHANGED <<rx, mode>>
    BY <1>4 DEF Execute
  <2> HIDE DEF c
  <2>4. CASE c.t = "gpio" /\ SetCs(c.v) /\ UNCHANGED <<usb, need>>
    <3>1. cs' \in {"low", "high"}
      BY <2>2, <2>4 DEF SetCs
    <3>2. frame' \in Seq(Words)
      BY <2>4, EmptySeq DEF SetCs, ChipTypes
    <3>3. regs' \in [Addresses -> Data]
      BY <2>4, CommittedType DEF SetCs, ChipTypes
    <3>. QED
      BY <2>1, <2>3, <2>4, <3>1, <3>2, <3>3 DEF ChipTypes
  <2>5. CASE c.t = "wr" /\ need' = c.n /\ UNCHANGED <<usb, cs, frame, regs>>
    BY <2>1, <2>2, <2>3, <2>5 DEF ChipTypes
  <2>6. CASE /\ c.t = "rd"
             /\ usb' = usb \o Parts(Answer(frame), c.n)
             /\ UNCHANGED <<need, cs, frame, regs>>
    <3>1. Parts(Answer(frame), c.n) \in Seq(Tokens)
      BY <2>2, AnswerType, PartsFacts DEF ChipTypes
    <3>2. usb' \in Seq(Tokens)
      BY <2>6, <3>1, ConcatProperties DEF ChipTypes
    <3>. QED
      BY <2>1, <2>3, <2>6, <3>2 DEF ChipTypes
  <2>7. CASE c.t = "cfg" /\ UNCHANGED <<usb, need, cs, frame, regs>>
    BY <2>1, <2>3, <2>7 DEF ChipTypes
  <2>8. CASE /\ c.t \in {"bad", "dat"}
             /\ usb' = usb \o <<Dat(BadAck), Dat(c.v)>>
             /\ UNCHANGED <<need, cs, frame, regs>>
    <3>1. Dat(BadAck) \in Tokens /\ Dat(c.v) \in Tokens
      BY <2>2, TokenType DEF Dat, Words
    <3>2. <<Dat(BadAck), Dat(c.v)>> \in Seq(Tokens)
      BY <3>1
    <3>3. usb' \in Seq(Tokens)
      BY <2>8, <3>2, ConcatProperties DEF ChipTypes
    <3>. QED
      BY <2>1, <2>3, <2>8, <3>3 DEF ChipTypes
  <2>. QED
    BY <1>4, <2>4, <2>5, <2>6, <2>7, <2>8 DEF Execute, c
<1>5. CASE Deliver
  <2>1. Head(usb) \in Tokens /\ usb' \in Seq(Tokens)
    BY <1>5, HeadFacts DEF ChipTypes, Deliver
  <2>2. rx' \in Seq(Tokens)
    BY <1>5, <2>1, AppendProperties DEF ChipTypes, Deliver
  <2>. QED
    BY <1>5, <2>1, <2>2 DEF ChipTypes, Deliver
<1>. QED
  BY <1>1, <1>2, <1>3, <1>4, <1>5 DEF Chip

LEMMA TypeInit == Init => TypeInv
<1> SUFFICES ASSUME Init PROVE TypeInv
  OBVIOUS
<1>1. rx \in Seq(Tokens)
  <2>1. PICK n \in 0..MaxStale : rx = [k \in 1..n |-> Dat("junk")]
    BY DEF Init, ChipInit
  <2>2. Dat("junk") \in Tokens
    BY TokenType DEF Dat, Words
  <2>. QED
    BY <2>1, <2>2, MaxStaleAssumption
<1>2. tx \in Seq(Tokens) /\ usb \in Seq(Tokens) /\ frame \in Seq(Words)
  BY EmptySeq DEF Init, ChipInit
<1>3. ChipTypes
  BY <1>1, <1>2 DEF ChipTypes, Init, ChipInit
<1>4. HostTypes
  <2>1. /\ pc = "closed" /\ echo = "AA" /\ count = 0 /\ job = 1 /\ faults = 0 /\ runs = 0
        /\ disturbed = FALSE /\ shadow = regs /\ regs \in [Addresses -> Data]
    BY DEF Init, ChipInit
  <2>2. job \in 1..(Len(Script) + 1) /\ 0 \in 0..MaxFaults /\ 0 \in 0..MaxRuns
    BY <2>1, ScriptFacts, BoundsAssumption
  <2>. QED
    BY <2>1, <2>2 DEF HostTypes, Calls, InAccess
<1>. QED
  BY <1>3, <1>4 DEF TypeInv


LEMMA HostStepTypes ==
  ASSUME HostTypes, pc' \in Calls \ {"purge_read"},
         pc' \in InAccess => job <= Len(Script),
         job' = job, runs' = runs,
         echo' \in {"AA", "AB"}, count' \in Nat, shadow' \in [Addresses -> Data],
         faults' \in 0..MaxFaults, disturbed' \in BOOLEAN
  PROVE  HostTypes'
  BY DEF HostTypes

LEMMA FailsTypes ==
  ASSUME TypeInv, Fails
  PROVE  TypeInv'
<1>1. ChipTypes'
  BY SameChipTypes DEF Fails, TypeInv
<1>2. faults' \in 0..MaxFaults
  BY FaultType DEF Fails, TypeInv, HostTypes
<1>3. HostTypes'
  BY <1>2, HostStepTypes DEF Fails, TypeInv, HostTypes, Calls, InAccess
<1>. QED
  BY <1>1, <1>3 DEF TypeInv

(* A call that writes ts and nothing else. *)
LEMMA WriteCallTypes ==
  ASSUME TypeInv, NEW ts \in Seq(Tokens), Write(ts),
         pc' \in Calls \ {"purge_read"}, pc' \in InAccess => job <= Len(Script),
         UNCHANGED <<echo, count, job, got, runs, shadow>>
  PROVE  TypeInv'
<1>1. ChipTypes' /\ faults' \in 0..MaxFaults /\ disturbed' \in BOOLEAN
  BY WriteTypes DEF TypeInv, HostTypes
<1>2. HostTypes'
  BY <1>1, HostStepTypes DEF TypeInv, HostTypes
<1>. QED
  BY <1>1, <1>2 DEF TypeInv

(* A call that leaves everything but pc and count alone. *)
LEMMA PlainCallTypes ==
  ASSUME TypeInv, pc' \in Calls \ {"purge_read"}, pc' \in InAccess => job <= Len(Script),
         count' \in Nat, echo' \in {"AA", "AB"}, disturbed' \in BOOLEAN,
         UNCHANGED <<chipVars, job, faults, runs, shadow>>
  PROVE  TypeInv'
<1>1. ChipTypes'
  BY SameChipTypes DEF TypeInv
<1>2. HostTypes'
  BY HostStepTypes DEF TypeInv, HostTypes
<1>. QED
  BY <1>1, <1>2 DEF TypeInv

LEMMA WrittenTokens ==
  /\ <<Token("cfg", 0, "clk"), Token("gpio", 0, "high")>> \in Seq(Tokens)
  /\ \A e \in {"AA", "AB"} : <<Token("bad", 0, e)>> \in Seq(Tokens)
  /\ <<Token("cfg", 0, "div")>> \in Seq(Tokens) /\ <<Token("cfg", 0, "loop")>> \in Seq(Tokens)
  /\ <<Token("gpio", 0, CsLevel(TRUE))>> \in Seq(Tokens)
  /\ <<Token("gpio", 0, CsLevel(FALSE))>> \in Seq(Tokens)
<1>1. /\ Token("cfg", 0, "clk") \in Tokens /\ Token("cfg", 0, "div") \in Tokens
      /\ Token("cfg", 0, "loop") \in Tokens
      /\ \A e \in {"AA", "AB"} : Token("bad", 0, e) \in Tokens
  BY TokenType DEF Words
<1>2. /\ Token("gpio", 0, "high") \in Tokens
      /\ Token("gpio", 0, CsLevel(TRUE)) \in Tokens
      /\ Token("gpio", 0, CsLevel(FALSE)) \in Tokens
  BY GpioType, LevelType
<1>3. \A c \in Tokens : <<c>> \in Seq(Tokens)
  OBVIOUS
<1>4. \A c, d \in Tokens : <<c, d>> \in Seq(Tokens)
  OBVIOUS
<1>5. <<Token("cfg", 0, "clk"), Token("gpio", 0, "high")>> \in Seq(Tokens)
  BY <1>1, <1>2, <1>4
<1>. QED
  BY <1>1, <1>2, <1>3, <1>5, Zenon

LEMMA AccessTokens ==
  ASSUME NEW j \in Access
  PROVE  /\ <<Token("wr", WriteAsked(j), "wr")>> \in Seq(Tokens)
         /\ <<Token("rd", ReadAsked(j), "rd")>> \in Seq(Tokens)
<1>1. WriteAsked(j) \in Nat
  BY CommandFacts DEF WriteAsked
<1>2. ReadAsked(j) \in Nat
  BY AccessFacts DEF ReadAsked, AckUnits
<1>3. Token("wr", WriteAsked(j), "wr") \in Tokens /\ Token("rd", ReadAsked(j), "rd") \in Tokens
  BY <1>1, <1>2, TokenType DEF Words
<1>. QED
  BY <1>3

LEMMA JobFacts ==
  ASSUME HostTypes, pc \in InAccess
  PROVE  Job \in Access /\ job <= Len(Script) /\ Job = Script[job]
  BY ScriptFacts DEF HostTypes, Job

LEMMA PurgeTypes ==
  ASSUME TypeInv, PurgeQueue, ~Fails
  PROVE  TypeInv'
<1>1. CASE PurgeDone
  BY <1>1, PlainCallTypes DEF PurgeQueue, TypeInv, HostTypes, Calls, InAccess
<1>2. CASE ~PurgeDone
  <2>1. Len(rx) \in Nat \ {0}
    BY <1>2, EmptySeq DEF PurgeDone, TypeInv, ChipTypes
  <2>2. Clamped(Len(rx)) \in 1..Trash
    BY <2>1, BoundsAssumption DEF Clamped
  <2>3. count' \in 1..Trash /\ pc' = "purge_read"
    BY <1>2, <2>2 DEF PurgeQueue
  <2>4. ChipTypes'
    BY SameChipTypes DEF PurgeQueue, TypeInv
  <2>5. UNCHANGED <<echo, job, faults, runs, disturbed, shadow>>
    BY DEF PurgeQueue
  <2>6. count' \in Nat
    BY <2>3, BoundsAssumption
  <2>7. HostTypes'
    BY <2>3, <2>5, <2>6 DEF HostTypes, TypeInv, Calls, InAccess
  <2>. QED
    BY <2>4, <2>7 DEF TypeInv
<1>. QED
  BY <1>1, <1>2


LEMMA TypeStep == TypeInv /\ [Next]_vars => TypeInv'
<1> SUFFICES ASSUME TypeInv, [Next]_vars PROVE TypeInv'
  OBVIOUS
<1> USE DEF Calls, InAccess
<1>1. CASE UNCHANGED vars
  BY <1>1 DEF TypeInv, ChipTypes, HostTypes, vars, chipVars, hostVars
<1>2. CASE Start
  <2>1. ChipTypes'
    BY <1>2, SameChipTypes DEF Start, TypeInv
  <2>2. runs' \in 0..MaxRuns
    BY <1>2, BoundsAssumption DEF Start, TypeInv, HostTypes
  <2>3. HostTypes'
    BY <1>2, <2>2 DEF Start, TypeInv, HostTypes
  <2>. QED
    BY <2>1, <2>3 DEF TypeInv
<1>25. CASE CountDevices
  <2>1. ChipTypes'
    BY <1>25, SameChipTypes DEF CountDevices, TypeInv
  <2>2. faults' \in 0..MaxFaults
    BY <1>25, FaultType DEF CountDevices, TypeInv, HostTypes
  <2>3. HostTypes'
    BY <1>25, <2>2 DEF CountDevices, TypeInv, HostTypes
  <2>. QED
    BY <2>1, <2>3 DEF TypeInv
<1>3. CASE Fails
  BY <1>3, FailsTypes
<1>4. CASE Open /\ ~Fails
  BY <1>4, PlainCallTypes DEF Open, TypeInv, HostTypes
<1>5. CASE PurgeQueue /\ ~Fails
  BY <1>5, PurgeTypes
<1>6. CASE PurgeRead /\ ~Fails
  <2>1. Take(count) /\ count \in Nat
    BY <1>6 DEF PurgeRead, TypeInv, HostTypes
  <2>2. ChipTypes'
    BY <2>1, TakeTypes DEF TypeInv
  <2>3. HostTypes'
    BY <1>6, HostStepTypes DEF PurgeRead, TypeInv, HostTypes
  <2>. QED
    BY <2>2, <2>3 DEF TypeInv
<1>7. CASE Setup /\ ~Fails
  <2>1. Committed \in [Addresses -> Data]
    BY CommittedType DEF TypeInv, ChipTypes
  <2>2. ChipTypes'
    <3>1. tx' = <<>> /\ frame' = <<>> /\ mode' = "off" /\ need' = 0 /\ cs' = "high"
      BY <1>7 DEF Setup, BitModeReset
    <3>2. usb' = usb /\ rx' = rx /\ regs' = Committed
      BY <1>7 DEF Setup, BitModeReset
    <3>3. tx' \in Seq(Tokens) /\ frame' \in Seq(Words)
      BY <3>1, EmptySeq
    <3>. QED
      BY <2>1, <3>1, <3>2, <3>3 DEF TypeInv, ChipTypes
  <2>3. HostTypes'
    BY <1>7, <2>1, HostStepTypes DEF Setup, TypeInv, HostTypes
  <2>. QED
    BY <2>2, <2>3 DEF TypeInv
<1>8. CASE EnableMpsse /\ ~Fails
  <2>1. ChipTypes'
    BY <1>8 DEF EnableMpsse, BitModeMpsse, TypeInv, ChipTypes
  <2>2. HostTypes'
    BY <1>8, HostStepTypes DEF EnableMpsse, TypeInv, HostTypes
  <2>. QED
    BY <2>1, <2>2 DEF TypeInv
<1>9. CASE Settle
  BY <1>9, PlainCallTypes DEF Settle, TypeInv, HostTypes
<1>10. CASE Gpio /\ ~Fails
  BY <1>10, WrittenTokens, WriteCallTypes DEF Gpio
<1>11. CASE EchoWrite /\ ~Fails
  <2>1. <<Token("bad", 0, echo)>> \in Seq(Tokens)
    BY WrittenTokens DEF TypeInv, HostTypes
  <2>. QED
    BY <1>11, <2>1, WriteCallTypes DEF EchoWrite
<1>12. CASE EchoQueue /\ ~Fails
  <2>1. Len(rx) \in Nat
    BY DEF TypeInv, ChipTypes
  <2>. QED
    BY <1>12, <2>1, PlainCallTypes DEF EchoQueue, TypeInv, HostTypes
<1>13. CASE EchoRead /\ ~Fails
  <2>1. Take(count) /\ count \in Nat
    BY <1>13 DEF EchoRead, TypeInv, HostTypes
  <2>2. ChipTypes'
    BY <2>1, TakeTypes DEF TypeInv
  <2>3. PICK pass \in Verdict(SubSeq(rx, 1, count)) :
          /\ pc' = IF ~pass THEN "close" ELSE IF echo = "AA" THEN "echo" ELSE "baud"
          /\ echo' = IF pass THEN "AB" ELSE echo
          /\ IF pass /\ FALSE \in Verdict(SubSeq(rx, 1, count))
             THEN Fault /\ disturbed' = TRUE ELSE UNCHANGED <<faults, disturbed>>
    BY <1>13 DEF EchoRead
  <2>4. faults' \in 0..MaxFaults /\ disturbed' \in BOOLEAN
    BY <2>3, FaultType DEF TypeInv, HostTypes
  <2>5. pc' \in {"close", "echo", "baud"} /\ echo' \in {"AA", "AB"}
    BY <2>3 DEF TypeInv, HostTypes
  <2>6. UNCHANGED <<count, job, got, runs, shadow>>
    BY <1>13 DEF EchoRead
  <2>7. HostTypes'
    BY <2>4, <2>5, <2>6, HostStepTypes DEF TypeInv, HostTypes
  <2>. QED
    BY <2>2, <2>7 DEF TypeInv
<1>14. CASE Baudrate /\ ~Fails
  <2>1. Write(<<Token("cfg", 0, "div")>>)
    BY <1>14 DEF Baudrate, Write
  <2>2. UNCHANGED <<echo, count, job, got, runs, shadow>> /\ pc' \in {"loopback", "close"}
    BY <1>14 DEF Baudrate
  <2>. QED
    BY <2>1, <2>2, WrittenTokens, WriteCallTypes
<1>15. CASE Loopback /\ ~Fails
  BY <1>15, WrittenTokens, WriteCallTypes DEF Loopback
<1>16. CASE CsEnable /\ ~Fails
  BY <1>16, WrittenTokens, WriteCallTypes DEF CsEnable
<1>17. CASE WoHeader /\ ~Fails
  BY <1>17, JobFacts, AccessTokens, WriteCallTypes DEF WoHeader, TypeInv
<1>18. CASE WoData /\ ~Fails
  <2>1. Job \in Access /\ job <= Len(Script)
    BY <1>18, JobFacts DEF WoData, TypeInv
  <2>2. CommandTokens(Job) \in Seq(Tokens) /\ Write(CommandTokens(Job))
    BY <1>18, <2>1, CommandTokensFacts DEF WoData, CommandTokens
  <2>3. /\ pc' \in {"disable", "ro_header"}
        /\ UNCHANGED <<echo, count, job, got, runs, shadow>>
    BY <1>18 DEF WoData
  <2>. QED
    BY <2>1, <2>2, <2>3, WriteCallTypes
<1>19. CASE RoHeader /\ ~Fails
  BY <1>19, JobFacts, AccessTokens, WriteCallTypes DEF RoHeader, TypeInv
<1>20. CASE RoRead /\ ~Fails
  <2>1. Job \in Access /\ job <= Len(Script)
    BY <1>20, JobFacts DEF RoRead, TypeInv
  <2>2. AckUnits(Job) \in Nat /\ Len(rx) \in Nat
    BY <2>1, AccessFacts DEF AckUnits, TypeInv, ChipTypes
  <2>3. ChipTypes'
    BY <1>20, <2>2, TakeTypes DEF RoRead, RoTimeout, TypeInv
  <2>4. /\ pc' = "disable" /\ faults' \in 0..MaxFaults /\ disturbed' \in BOOLEAN
        /\ UNCHANGED <<echo, count, job, runs, shadow>>
    BY <1>20, FaultType DEF RoRead, RoTimeout, TypeInv, HostTypes
  <2>5. HostTypes'
    BY <2>1, <2>4, HostStepTypes DEF TypeInv, HostTypes
  <2>. QED
    BY <2>3, <2>5 DEF TypeInv
<1>21. CASE CsDisable /\ ~Fails
  <2>1. Job \in Access /\ job <= Len(Script)
    BY <1>21, JobFacts DEF CsDisable, TypeInv
  <2>2. ChipTypes' /\ faults' \in 0..MaxFaults /\ disturbed' \in BOOLEAN
    BY <1>21, WrittenTokens, WriteTypes DEF CsDisable, TypeInv, HostTypes
  <2>3. shadow' \in [Addresses -> Data]
    BY <1>21, <2>1, AccessFacts DEF CsDisable, TypeInv, HostTypes
  <2>4. job' \in 1..(Len(Script) + 1)
    BY <1>21, <2>1, ScriptFacts DEF CsDisable, TypeInv, HostTypes
  <2>5. HostTypes'
    BY <1>21, <2>2, <2>3, <2>4 DEF CsDisable, TypeInv, HostTypes
  <2>. QED
    BY <2>2, <2>5 DEF TypeInv
<1>22. CASE Finish
  BY <1>22, PlainCallTypes DEF Finish, TypeInv, HostTypes
<1>23. CASE Close
  <2>1. ChipTypes'
    BY <1>23, SameChipTypes DEF Close, TypeInv
  <2>2. 1 \in 1..(Len(Script) + 1)
    BY ScriptFacts
  <2>3. HostTypes'
    BY <1>23, <2>2 DEF Close, TypeInv, HostTypes
  <2>. QED
    BY <2>1, <2>3 DEF TypeInv
<1>24. CASE Chip /\ UNCHANGED hostVars
  <2>1. ChipTypes'
    BY <1>24, ChipStepTypes DEF TypeInv
  <2>2. HostTypes'
    BY <1>24 DEF hostVars, TypeInv, HostTypes
  <2>. QED
    BY <2>1, <2>2 DEF TypeInv
<1>. QED
  BY <1>1, <1>2, <1>3, <1>4, <1>5, <1>6, <1>7, <1>8, <1>9, <1>10, <1>11, <1>12, <1>13,
     <1>14, <1>15, <1>16, <1>17, <1>18, <1>19, <1>20, <1>21, <1>22, <1>23, <1>24, <1>25
  DEF Next, Host

LEMMA TypeInvariant == Spec => []TypeInv
<1>1. Init => TypeInv
  BY TypeInit
<1>2. TypeInv /\ [Next]_vars => TypeInv'
  BY TypeStep
<1>. QED
  BY <1>1, <1>2, PTL DEF Spec

(* The host and the chip keep their types, and the purge never asks for     *)
(* more than its buffer holds: spi_inital's loop of FT_GetQueueStatus and   *)
(* FT_Read, whatever was left in the queue.                                 *)
THEOREM TypeCorrect == Spec => []TypeOK
<1>1. TypeInv => TypeOK
  BY DEF TypeInv, ChipTypes, HostTypes, TypeOK
<1>. QED
  BY <1>1, TypeInvariant, PTL


-----------------------------------------------------------------------------
(* Opening the device.                                                      *)

(* What a step of the chip does while it only has early commands to do. *)
EarlyEffect ==
  \/ UNCHANGED <<tx, usb, rx>> /\ mode' \in {mode, "mpsse"}
  \/ tx # <<>> /\ tx' = Tail(tx) /\ UNCHANGED <<usb, rx, mode>>
  \/ /\ mode = "mpsse"
     /\ tx # <<>> /\ tx' = Tail(tx) /\ Head(tx) \notin QuietTokens
     /\ Len(usb') = Len(usb) + 2
     /\ UNCHANGED <<rx, mode>>
  \/ /\ usb # <<>>
     /\ Len(usb') = Len(usb) - 1 /\ Len(rx') = Len(rx) + 1
     /\ UNCHANGED <<tx, mode>>

LEMMA EarlyTokenParts ==
  ASSUME NEW c \in EarlyTokens
  PROVE  /\ c.t \in {"cfg", "gpio", "bad"}
         /\ c.t = "gpio" => c.v = "high"
         /\ c.t = "bad" => c \notin QuietTokens
  BY DEF EarlyTokens, QuietTokens, Token

LEMMA EarlyChip ==
  ASSUME ChipTypes, tx \in Seq(EarlyTokens), need = 0, cs = "high", Chip
  PROVE  /\ tx' \in Seq(EarlyTokens) /\ need' = 0 /\ cs' = "high" /\ regs' = regs
         /\ EarlyEffect
<1>1. CASE StartUp
  BY <1>1 DEF StartUp, EarlyEffect
<1>2. CASE Lose
  <2>1. tx' \in Seq(EarlyTokens)
    BY <1>2, HeadFacts DEF Lose
  <2>. QED
    BY <1>2, <2>1 DEF Lose, EarlyEffect
<1>3. CASE ShiftOut
  BY <1>3 DEF ShiftOut
<1>4. CASE Execute
  <2>1. tx # <<>> /\ tx' = Tail(tx) /\ mode = "mpsse" /\ UNCHANGED <<rx, mode>>
    BY <1>4 DEF Execute
  <2>2. Head(tx) \in EarlyTokens /\ tx' \in Seq(EarlyTokens)
    BY <2>1, HeadFacts
  <2> DEFINE c == Head(tx)
  <2>3. /\ c.t \in {"cfg", "gpio", "bad"}
        /\ c.t = "gpio" => c.v = "high"
        /\ c.t = "bad" => c \notin QuietTokens
    BY <2>2, EarlyTokenParts
  <2>4. \/ c.t = "gpio" /\ SetCs(c.v) /\ UNCHANGED <<usb, need>>
        \/ c.t \in {"wr", "rd"}
        \/ c.t = "cfg" /\ UNCHANGED <<usb, need, cs, frame, regs>>
        \/ /\ c.t \in {"bad", "dat"}
           /\ usb' = usb \o <<Dat(BadAck), Dat(c.v)>>
           /\ UNCHANGED <<need, cs, frame, regs>>
    BY <1>4 DEF Execute
  <2> HIDE DEF c
  <2>5. \/ c.t = "gpio" /\ SetCs(c.v) /\ UNCHANGED <<usb, need>>
        \/ c.t = "cfg" /\ UNCHANGED <<usb, need, cs, frame, regs>>
        \/ /\ c.t = "bad"
           /\ usb' = usb \o <<Dat(BadAck), Dat(c.v)>>
           /\ UNCHANGED <<need, cs, frame, regs>>
    BY <2>3, <2>4
  <2>6. CASE c.t = "gpio" /\ SetCs(c.v) /\ UNCHANGED <<usb, need>>
    BY <2>1, <2>2, <2>3, <2>6 DEF SetCs, Committed, EarlyEffect
  <2>7. CASE c.t = "cfg" /\ UNCHANGED <<usb, need, cs, frame, regs>>
    BY <2>1, <2>2, <2>7 DEF EarlyEffect
  <2>8. CASE /\ c.t = "bad"
             /\ usb' = usb \o <<Dat(BadAck), Dat(c.v)>>
             /\ UNCHANGED <<need, cs, frame, regs>>
    <3> DEFINE two == <<Dat(BadAck), Dat(c.v)>>
    <3>1. c \in Tokens
      BY <2>1, HeadFacts DEF ChipTypes, c
    <3>2. Dat(BadAck) \in Tokens /\ Dat(c.v) \in Tokens
      BY <3>1, TokenParts, TokenType DEF Dat, Words
    <3>3. two \in Seq(Tokens) /\ Len(two) = 2
      BY <3>2
    <3> HIDE DEF two
    <3>4. Len(usb') = Len(usb) + 2
      BY <2>8, <3>3, ConcatProperties DEF ChipTypes, two
    <3>5. rx' = rx /\ mode' = mode /\ tx' = Tail(tx) /\ need' = 0
      BY <2>1, <2>8
    <3>6. c \notin QuietTokens
      BY <2>3, <2>8
    <3>. QED
      BY <2>1, <2>2, <2>8, <3>4, <3>5, <3>6 DEF EarlyEffect, c
  <2>. QED
    BY <2>5, <2>6, <2>7, <2>8 DEF c
<1>5. CASE Deliver
  <2>1. usb # <<>> /\ Head(usb) \in Tokens /\ Len(usb') = Len(usb) - 1
    BY <1>5, HeadFacts DEF Deliver, ChipTypes
  <2>2. Len(rx') = Len(rx) + 1
    BY <1>5, <2>1, AppendProperties DEF Deliver, ChipTypes
  <2>. QED
    BY <1>5, <2>1, <2>2 DEF Deliver, EarlyEffect
<1>. QED
  BY <1>1, <1>2, <1>3, <1>4, <1>5 DEF Chip

(* Only the start-up is left to a chip that has nothing to do. *)
LEMMA IdleChip ==
  ASSUME tx = <<>>, usb = <<>>, Chip
  PROVE  UNCHANGED <<tx, usb, rx, need, cs, frame, regs>> /\ mode' = "mpsse"
  BY DEF Chip, StartUp, Lose, ShiftOut, Execute, Deliver

LEMMA AtMostChip ==
  ASSUME ChipTypes, ChipTypes', NEW b \in Nat, AtMost(b), EarlyEffect
  PROVE  AtMost(b)'
<1>1. PICK q \in 0..Len(tx) : (\A i \in 1..q : tx[i] \in QuietTokens) /\ InFlight(q) <= b
  BY DEF AtMost
<1>2. /\ Len(tx) \in Nat /\ Len(usb) \in Nat /\ Len(rx) \in Nat
      /\ Len(tx') \in Nat /\ Len(usb') \in Nat /\ Len(rx') \in Nat
  BY LenProperties DEF ChipTypes
<1>3. CASE UNCHANGED <<tx, usb, rx>>
  BY <1>1, <1>3 DEF AtMost, InFlight
<1>4. ASSUME tx # <<>>, tx' = Tail(tx), Len(rx') = Len(rx),
             \/ Len(usb') = Len(usb)
             \/ Head(tx) \notin QuietTokens /\ Len(usb') = Len(usb) + 2
      PROVE  AtMost(b)'
  <2>1. /\ Len(tx') = Len(tx) - 1 /\ Head(tx) = tx[1] /\ Len(tx) > 0
        /\ \A i \in 1..Len(tx) - 1 : tx'[i] = tx[i + 1]
    BY <1>4, HeadFacts DEF ChipTypes
  <2>2. CASE q = 0
    <3>1. InFlight(0)' <= b
      BY <1>1, <1>2, <1>4, <2>1, <2>2 DEF InFlight
    <3>2. 0 \in 0..Len(tx') /\ \A i \in 1..0 : tx'[i] \in QuietTokens
      BY <1>2
    <3>. QED
      BY <3>1, <3>2 DEF AtMost
  <2>3. CASE q > 0
    <3>1. 1 \in 1..q
      BY <2>3
    <3>2. tx[1] \in QuietTokens
      BY <1>1, <3>1
    <3>3. Len(usb') = Len(usb)
      BY <1>4, <2>1, <3>2
    <3>4. InFlight(q - 1)' <= b /\ q - 1 \in 0..Len(tx')
      BY <1>1, <1>2, <1>4, <2>1, <2>3, <3>3 DEF InFlight
    <3>5. ASSUME NEW i \in 1..q - 1 PROVE tx'[i] \in QuietTokens
      <4>1. i \in 1..Len(tx) - 1 /\ i + 1 \in 1..q
        BY <1>1, <1>2, <2>3
      <4>. QED
        BY <1>1, <2>1, <4>1
    <3>. QED
      BY <3>4, <3>5 DEF AtMost
  <2>. QED
    BY <1>1, <2>2, <2>3
<1>5. CASE Len(usb') = Len(usb) - 1 /\ Len(rx') = Len(rx) + 1 /\ UNCHANGED tx
  <2>1. InFlight(q)' <= b
    BY <1>1, <1>2, <1>5 DEF InFlight
  <2>. QED
    BY <1>1, <1>5, <2>1 DEF AtMost
<1>. QED
  BY <1>3, <1>4, <1>5 DEF EarlyEffect


(* Outside the opening OpenInv asks for nothing. *)
LEMMA OpenOutside ==
  ASSUME pc' \notin {"closed"} \cup BeforeReset \cup BeforeEcho \cup InEcho
  PROVE  OpenInv'
  BY DEF OpenInv, BeforeReset, BeforeEcho, InEcho

LEMMA OpenInit == Init => OpenInv
  BY DEF Init, OpenInv, BeforeReset, BeforeEcho, InEcho

LEMMA OpenChip ==
  ASSUME TypeInv, TypeInv', OpenInv, Chip, UNCHANGED hostVars
  PROVE  OpenInv'
<1>1. /\ pc' = pc /\ echo' = echo /\ count' = count /\ shadow' = shadow
      /\ ChipTypes /\ ChipTypes'
  BY DEF hostVars, TypeInv
<1>2. pc \in BeforeReset \cup BeforeEcho
      => UNCHANGED <<tx, usb, rx, need, cs, frame, regs>>
  BY IdleChip DEF OpenInv
<1>3. ASSUME pc \in InEcho
      PROVE  /\ tx' \in Seq(EarlyTokens) /\ need' = 0 /\ cs' = "high" /\ regs' = regs
             /\ EarlyEffect
  BY <1>1, <1>3, EarlyChip DEF OpenInv
<1>4. pc \in InEcho => AtMost(Allowed)'
  <2>1. HAVE pc \in InEcho
  <2>2. Allowed \in Nat /\ Allowed' = Allowed
    BY <1>1 DEF Allowed
  <2>3. AtMost(Allowed)
    BY <2>1 DEF OpenInv
  <2>4. PICK b \in Nat : b = Allowed
    BY <2>2
  <2>5. AtMost(b)
    BY <2>3, <2>4
  <2>6. AtMost(b)'
    BY <1>1, <1>3, <2>1, <2>5, AtMostChip
  <2>. QED
    BY <2>2, <2>4, <2>6 DEF AtMost
<1>5. pc = "echo_read" => count <= Len(rx')
  <2>1. HAVE pc = "echo_read"
  <2>2. EarlyEffect /\ count <= Len(rx)
    BY <1>3, <2>1 DEF InEcho, OpenInv
  <2>3. Len(rx) \in Nat /\ Len(rx') \in Nat /\ count \in Nat
    BY <1>1, LenProperties DEF ChipTypes, TypeInv, HostTypes
  <2>4. Len(rx') = Len(rx) \/ Len(rx') = Len(rx) + 1
    BY <2>2 DEF EarlyEffect
  <2>. QED
    BY <2>2, <2>3, <2>4
<1>6. /\ pc \in BeforeReset => tx' = <<>> /\ usb' = <<>>
      /\ pc = "setup" => rx' = <<>>
      /\ pc \in BeforeEcho => tx' = <<>> /\ usb' = <<>> /\ rx' = <<>>
      /\ pc \in {"closed"} \cup BeforeReset \cup BeforeEcho => echo = "AA"
  BY <1>2 DEF OpenInv, BeforeReset
<1>7. pc \in BeforeEcho \cup InEcho
      => /\ tx' \in Seq(EarlyTokens)
         /\ need' = 0 /\ cs' = "high" /\ regs' = shadow
  BY <1>2, <1>3 DEF OpenInv
<1>. QED
  BY <1>1, <1>4, <1>5, <1>6, <1>7 DEF OpenInv

LEMMA EarlySeqs ==
  /\ <<>> \in Seq(EarlyTokens)
  /\ \A e \in {"AA", "AB"} : <<Token("bad", 0, e)>> \in Seq(EarlyTokens)
  /\ <<Token("cfg", 0, "clk"), Token("gpio", 0, "high")>> \in Seq(QuietTokens)
<1>1. \A e \in {"AA", "AB"} : Token("bad", 0, e) \in EarlyTokens
  BY DEF EarlyTokens
<1>2. \A c \in EarlyTokens : <<c>> \in Seq(EarlyTokens)
  OBVIOUS
<1>3. Token("cfg", 0, "clk") \in QuietTokens /\ Token("gpio", 0, "high") \in QuietTokens
  BY DEF QuietTokens
<1>4. \A c, d \in QuietTokens : <<c, d>> \in Seq(QuietTokens)
  OBVIOUS
<1>. QED
  BY <1>1, <1>2, <1>3, <1>4, EmptySeq

LEMMA QuietSeq ==
  ASSUME NEW s \in Seq(QuietTokens)
  PROVE  s \in Seq(EarlyTokens) /\ \A i \in 1..Len(s) : s[i] \in QuietTokens
<1>1. QuietTokens \subseteq EarlyTokens
  BY DEF EarlyTokens
<1>2. s \in Seq(EarlyTokens)
  BY <1>1, SeqMonotonic
<1>3. \A i \in 1..Len(s) : s[i] \in QuietTokens
  BY ElementOfSeq
<1>. QED
  BY <1>2, <1>3

(* What FT_Write leaves in tx: all of ts, or the first few of it. *)
LEMMA WriteEffect ==
  ASSUME NEW S, tx \in Seq(S), NEW ts \in Seq(S), Write(ts)
  PROVE  /\ UNCHANGED <<usb, rx, mode, need, cs, frame, regs>>
         /\ \E n \in 0..Len(ts) :
              /\ tx' = tx \o SubSeq(ts, 1, n)
              /\ n = Len(ts) \/ disturbed'
         /\ ~disturbed' => Written(ts)
<1>1. CASE Written(ts)
  <2>1. SubSeq(ts, 1, Len(ts)) = ts /\ Len(ts) \in 0..Len(ts)
    BY SubSeqFull, LenProperties
  <2>. QED
    BY <1>1, <2>1 DEF Written
<1>2. CASE WrittenShort(ts)
  <2>1. PICK n \in 0..Len(ts) - 1 : tx' = tx \o SubSeq(ts, 1, n)
    BY <1>2 DEF WrittenShort
  <2>2. n \in 0..Len(ts)
    BY <2>1, LenProperties
  <2>. QED
    BY <1>2, <2>1, <2>2 DEF WrittenShort
<1>. QED
  BY <1>1, <1>2 DEF Write

LEMMA EmptyConcat ==
  ASSUME NEW S, NEW s \in Seq(S)
  PROVE  <<>> \o s = s /\ s \o <<>> = s
  BY ConcatEmptySeq


LEMMA OpenGpio ==
  ASSUME TypeInv, TypeInv', OpenInv, Gpio, ~Fails
  PROVE  OpenInv'
<1> DEFINE ts == <<Token("cfg", 0, "clk"), Token("gpio", 0, "high")>>
<1>1. /\ pc = "gpio" /\ pc' = "echo" /\ Write(ts)
      /\ UNCHANGED <<echo, count, shadow>>
  BY DEF Gpio
<1>2. /\ tx = <<>> /\ usb = <<>> /\ rx = <<>> /\ echo = "AA"
      /\ need = 0 /\ cs = "high" /\ regs = shadow
  BY <1>1 DEF OpenInv, BeforeEcho
<1>3. ts \in Seq(QuietTokens) /\ tx \in Seq(QuietTokens)
  BY <1>2, EarlySeqs, EmptySeq
<1> HIDE DEF ts
<1>4. /\ UNCHANGED <<usb, rx, mode, need, cs, frame, regs>>
      /\ \E n \in 0..Len(ts) : tx' = tx \o SubSeq(ts, 1, n)
  BY <1>1, <1>3, WriteEffect
<1>5. PICK n \in 0..Len(ts) : tx' = tx \o SubSeq(ts, 1, n)
  BY <1>4
<1>6. SubSeq(ts, 1, n) \in Seq(QuietTokens)
  BY <1>3, FirstFacts
<1>7. tx' \in Seq(QuietTokens)
  BY <1>2, <1>5, <1>6, EmptyConcat
<1>8. /\ tx' \in Seq(EarlyTokens) /\ Len(tx') \in Nat
      /\ \A i \in 1..Len(tx') : tx'[i] \in QuietTokens
  BY <1>7, QuietSeq, LenProperties
<1>9. InFlight(Len(tx))' = 0
  <2>1. Len(rx') = 0 /\ Len(usb') = 0
    BY <1>2, <1>4
  <2>. QED
    BY <1>8, <2>1 DEF InFlight
<1>10. Allowed' = 0
  BY <1>1, <1>2 DEF Allowed
<1>11. AtMost(Allowed)'
  <2>1. Len(tx') \in 0..Len(tx')
    BY <1>8
  <2>. QED
    BY <1>8, <1>9, <1>10, <2>1 DEF AtMost, InFlight
<1>. QED
  BY <1>1, <1>2, <1>4, <1>8, <1>11 DEF OpenInv, BeforeReset, BeforeEcho, InEcho

LEMMA OpenEchoWrite ==
  ASSUME TypeInv, TypeInv', OpenInv, EchoWrite, ~Fails
  PROVE  OpenInv'
<1> DEFINE ts == <<Token("bad", 0, echo)>>
<1>1. /\ pc = "echo" /\ pc' = "echo_queue" /\ Write(ts)
      /\ UNCHANGED <<echo, count, shadow>>
  BY DEF EchoWrite
<1>2. /\ tx \in Seq(EarlyTokens) /\ need = 0 /\ cs = "high" /\ regs = shadow
      /\ AtMost(Allowed)
  BY <1>1 DEF OpenInv, InEcho
<1>3. ts \in Seq(EarlyTokens) /\ Len(ts) = 1
  BY EarlySeqs DEF TypeInv, HostTypes
<1> HIDE DEF ts
<1>4. /\ UNCHANGED <<usb, rx, mode, need, cs, frame, regs>>
      /\ \E n \in 0..Len(ts) : tx' = tx \o SubSeq(ts, 1, n)
  BY <1>1, <1>2, <1>3, WriteEffect
<1>5. PICK n \in 0..Len(ts) : tx' = tx \o SubSeq(ts, 1, n)
  BY <1>4
<1> DEFINE r == SubSeq(ts, 1, n)
<1>6. r \in Seq(EarlyTokens) /\ Len(r) = n
  BY <1>3, <1>5, FirstFacts
<1> HIDE DEF r
<1>7. tx' = tx \o r
  BY <1>5 DEF r
<1>8. /\ tx' \in Seq(EarlyTokens) /\ Len(tx') = Len(tx) + n /\ Len(tx) \in Nat
      /\ \A i \in 1..Len(tx) : tx'[i] = tx[i]
  <2>1. /\ tx \o r \in Seq(EarlyTokens) /\ Len(tx \o r) = Len(tx) + Len(r)
        /\ \A i \in 1..Len(tx) + Len(r) :
             (tx \o r)[i] = IF i <= Len(tx) THEN tx[i] ELSE r[i - Len(tx)]
    BY <1>2, <1>6, ConcatProperties
  <2>2. Len(tx) \in Nat /\ n \in 0..1
    BY <1>2, <1>3, <1>5, LenProperties
  <2>3. ASSUME NEW i \in 1..Len(tx) PROVE tx'[i] = tx[i]
    <3>1. i \in 1..Len(tx) + Len(r) /\ i <= Len(tx)
      BY <1>6, <2>2
    <3>. QED
      BY <1>7, <2>1, <3>1
  <2>. QED
    BY <1>6, <1>7, <2>1, <2>2, <2>3
<1>9. AtMost(Allowed)'
  <2>1. PICK q \in 0..Len(tx) : (\A i \in 1..q : tx[i] \in QuietTokens) /\ InFlight(q) <= Allowed
    BY <1>2 DEF AtMost
  <2>2. Allowed' = Allowed + 2 /\ Allowed \in Nat
    BY <1>1 DEF Allowed
  <2>3. Len(rx) \in Nat /\ Len(usb) \in Nat /\ n \in 0..1 /\ rx' = rx /\ usb' = usb
    BY <1>3, <1>4, <1>5, LenProperties DEF TypeInv, ChipTypes
  <2>4. Len(rx') + Len(usb') + 2 * (Len(tx') - q) <= Allowed'
    BY <1>8, <2>1, <2>2, <2>3 DEF InFlight
  <2>5. q \in 0..Len(tx')
    BY <1>8, <2>1, <2>3
  <2>6. \A i \in 1..q : tx'[i] \in QuietTokens
    BY <1>8, <2>1
  <2>. QED
    BY <2>4, <2>5, <2>6 DEF AtMost, InFlight
<1>. QED
  BY <1>1, <1>2, <1>4, <1>8, <1>9 DEF OpenInv, BeforeReset, BeforeEcho, InEcho

LEMMA OpenEchoRead ==
  ASSUME TypeInv, TypeInv', OpenInv, EchoRead, ~Fails
  PROVE  OpenInv'
<1>1. /\ pc = "echo_read" /\ Take(count) /\ shadow' = shadow
      /\ \/ pc' \in {"close", "baud"}
         \/ pc' = "echo" /\ echo = "AA" /\ echo' = "AB"
  BY DEF EchoRead
<1>2. CASE pc' \in {"close", "baud"}
  BY <1>2, OpenOutside DEF BeforeReset, BeforeEcho, InEcho
<1>3. CASE pc' = "echo" /\ echo = "AA" /\ echo' = "AB"
  <2>1. /\ tx \in Seq(EarlyTokens) /\ need = 0 /\ cs = "high" /\ regs = shadow
        /\ AtMost(Allowed) /\ count <= Len(rx)
    BY <1>1 DEF OpenInv, InEcho
  <2>2. UNCHANGED <<tx, usb, mode, need, cs, frame, regs>>
    BY <1>1 DEF Take
  <2>3. Allowed' = Allowed
    BY <1>1, <1>3 DEF Allowed
  <2>4. Len(rx') = Len(rx) - count /\ count \in Nat /\ Len(rx) \in Nat /\ Len(usb) \in Nat
    BY <1>1, <2>1, TakeFacts, LenProperties DEF Take, TypeInv, ChipTypes, HostTypes
  <2>5. PICK q \in 0..Len(tx) : (\A i \in 1..q : tx[i] \in QuietTokens) /\ InFlight(q) <= Allowed
    BY <2>1 DEF AtMost
  <2>6. Allowed \in Nat /\ Len(tx) \in Nat
    BY <2>1, LenProperties DEF Allowed
  <2>7. Len(rx') + Len(usb') + 2 * (Len(tx') - q) <= Allowed'
    BY <2>2, <2>3, <2>4, <2>5, <2>6 DEF InFlight
  <2>8. AtMost(Allowed)'
    BY <2>2, <2>5, <2>7 DEF AtMost, InFlight
  <2>. QED
    BY <1>1, <1>3, <2>1, <2>2, <2>8 DEF OpenInv, BeforeReset, BeforeEcho, InEcho
<1>. QED
  BY <1>1, <1>2, <1>3

LEMMA OpenStep == TypeInv /\ TypeInv' /\ OpenInv /\ [Next]_vars => OpenInv'
<1> SUFFICES ASSUME TypeInv, TypeInv', OpenInv, [Next]_vars PROVE OpenInv'
  OBVIOUS
<1> DEFINE Phases == {"closed"} \cup BeforeReset \cup BeforeEcho \cup InEcho
<1>1. CASE UNCHANGED vars
  BY <1>1 DEF OpenInv, AtMost, InFlight, Allowed, vars, chipVars, hostVars
<1>2. CASE Start
  BY <1>2 DEF Start, OpenInv, chipVars, BeforeReset, BeforeEcho, InEcho
<1>18. CASE CountDevices
  BY <1>18 DEF CountDevices, OpenInv, chipVars, BeforeReset, BeforeEcho, InEcho
<1>3. CASE Fails
  BY <1>3, OpenOutside DEF Fails, BeforeReset, BeforeEcho, InEcho
<1>4. CASE Open /\ ~Fails
  BY <1>4 DEF Open, OpenInv, chipVars, BeforeReset, BeforeEcho, InEcho
<1>5. CASE PurgeQueue /\ ~Fails
  BY <1>5 DEF PurgeQueue, PurgeDone, OpenInv, chipVars, BeforeReset, BeforeEcho, InEcho
<1>6. CASE PurgeRead /\ ~Fails
  BY <1>6 DEF PurgeRead, Take, OpenInv, BeforeReset, BeforeEcho, InEcho
<1>7. CASE Setup /\ ~Fails
  <2>1. /\ pc = "setup" /\ pc' = "mpsse" /\ tx' = <<>> /\ need' = 0 /\ cs' = "high"
        /\ regs' = Committed /\ shadow' = Committed
        /\ UNCHANGED <<usb, rx, echo>>
    BY <1>7 DEF Setup, BitModeReset
  <2>2. usb = <<>> /\ rx = <<>> /\ echo = "AA"
    BY <2>1 DEF OpenInv, BeforeReset
  <2>. QED
    BY <2>1, <2>2, EarlySeqs DEF OpenInv, BeforeReset, BeforeEcho, InEcho
<1>8. CASE EnableMpsse /\ ~Fails
  BY <1>8 DEF EnableMpsse, BitModeMpsse, OpenInv, BeforeReset, BeforeEcho, InEcho
<1>9. CASE Settle
  BY <1>9 DEF Settle, OpenInv, chipVars, BeforeReset, BeforeEcho, InEcho
<1>10. CASE Gpio /\ ~Fails
  BY <1>10, OpenGpio
<1>11. CASE EchoWrite /\ ~Fails
  BY <1>11, OpenEchoWrite
<1>12. CASE EchoQueue /\ ~Fails
  <2>1. /\ pc = "echo_queue" /\ pc' = "echo_read" /\ count' = Len(rx)
        /\ UNCHANGED <<chipVars, echo, shadow>>
    BY <1>12 DEF EchoQueue
  <2>2. /\ tx \in Seq(EarlyTokens) /\ need = 0 /\ cs = "high" /\ regs = shadow
        /\ AtMost(Allowed)
    BY <2>1 DEF OpenInv, InEcho
  <2>3. UNCHANGED <<tx, usb, rx, need, cs, regs>> /\ Len(rx) \in Nat
    BY <2>1, LenProperties DEF chipVars, TypeInv, ChipTypes
  <2>4. Allowed' = Allowed
    BY <2>1 DEF Allowed
  <2>5. AtMost(Allowed)'
    BY <2>2, <2>3, <2>4 DEF AtMost, InFlight
  <2>. QED
    BY <2>1, <2>2, <2>3, <2>5 DEF OpenInv, BeforeReset, BeforeEcho, InEcho
<1>13. CASE EchoRead /\ ~Fails
  BY <1>13, OpenEchoRead
<1>14. ASSUME pc' \notin Phases PROVE OpenInv'
  BY <1>14, OpenOutside
<1>15. CASE Close
  BY <1>15 DEF Close, OpenInv, BeforeReset, BeforeEcho, InEcho
<1>16. CASE \/ Baudrate \/ Loopback \/ CsEnable \/ WoHeader \/ WoData \/ RoHeader
            \/ RoRead \/ CsDisable \/ Finish
  <2>1. pc' \in {"loopback", "close", "access", "wo_header", "wo_data", "disable",
                 "ro_header", "ro_read"}
    BY <1>3, <1>16 DEF Fails, Baudrate, Loopback, CsEnable, WoHeader, WoData, RoHeader,
       RoRead, RoTimeout, CsDisable, Finish
  <2>. QED
    BY <1>14, <2>1 DEF BeforeReset, BeforeEcho, InEcho
<1>17. CASE Chip /\ UNCHANGED hostVars
  BY <1>17, OpenChip
<1>. QED
  BY <1>1, <1>2, <1>3, <1>4, <1>5, <1>6, <1>7, <1>8, <1>9, <1>10, <1>11, <1>12, <1>13,
     <1>15, <1>16, <1>17, <1>18 DEF Next, Host

LEMMA OpenInvariant == Spec => []OpenInv
<1>1. Init => OpenInv
  BY OpenInit
<1>2. TypeInv /\ TypeInv' /\ OpenInv /\ [Next]_vars => OpenInv'
  BY OpenStep
<1>. QED
  BY <1>1, <1>2, TypeInvariant, PTL DEF Spec

(* The acknowledgement FTDI_SPI_open reads into ack_buf fits there: the     *)
(* purge has emptied the queue, each echo check can be answered with two    *)
(* bytes, and the second check may find the answer to the first.            *)
THEOREM AckBufSuffices == Spec => []AckFits
<1>1. TypeInv /\ OpenInv => AckFits
  <2> SUFFICES ASSUME TypeInv, OpenInv, pc = "echo_read" PROVE count <= AckBuf
    BY DEF AckFits
  <2>1. AtMost(Allowed) /\ count <= Len(rx)
    BY DEF OpenInv, InEcho
  <2>2. PICK q \in 0..Len(tx) : InFlight(q) <= Allowed
    BY <2>1 DEF AtMost
  <2>3. Len(tx) \in Nat /\ Len(usb) \in Nat /\ Len(rx) \in Nat /\ count \in Nat
    BY LenProperties DEF TypeInv, ChipTypes, HostTypes
  <2>4. Allowed <= 4
    BY DEF Allowed
  <2>. QED
    BY <2>1, <2>2, <2>3, <2>4 DEF InFlight, Allowed, AckBuf
<1>. QED
  BY <1>1, TypeInvariant, OpenInvariant, PTL


(* The two bytes of an answer are there only once everything is executed.  *)
LEMMA AnswerComplete ==
  ASSUME ChipTypes, OneAnswer, NEW n \in Nat, 2 <= n, n <= Len(rx)
  PROVE  tx = <<>> /\ usb = <<>> /\ mode = "mpsse" /\ Len(rx) = n
<1>1. Len(rx) \in Nat /\ Len(usb) \in Nat
  BY LenProperties DEF ChipTypes
<1>2. Len(rx) + Len(usb) <= 2
  BY DEF OneAnswer
<1>3. Len(usb) = 0 /\ Len(rx) = 2 /\ n = 2
  <2>1. \A a, b, c \in Nat : a + b <= 2 /\ 2 <= c /\ c <= a => b = 0 /\ a = 2 /\ c = 2
    OBVIOUS
  <2>. QED
    BY <1>1, <1>2, <2>1
<1>4. rx # <<>>
  BY <1>3
<1>5. usb = <<>>
  BY <1>3, EmptySeq DEF ChipTypes
<1>. QED
  BY <1>3, <1>4, <1>5 DEF OneAnswer

LEMMA SyncOutside ==
  ASSUME pc' \notin InEcho \cup {"baud"}
  PROVE  SyncInv'
  BY DEF SyncInv, InEcho

LEMMA SyncChip ==
  ASSUME TypeInv, TypeInv', OpenInv, SyncInv, Chip, UNCHANGED hostVars
  PROVE  SyncInv'
<1>1. /\ pc' = pc /\ echo' = echo /\ shadow' = shadow /\ disturbed' = disturbed
      /\ ChipTypes /\ ChipTypes'
  BY DEF hostVars, TypeInv
<1>2. CASE pc = "baud" /\ ~disturbed
  <2>1. /\ mode = "mpsse" /\ tx = <<>> /\ usb = <<>> /\ need = 0 /\ rx = <<>>
        /\ cs = "high" /\ regs = shadow
    BY <1>2 DEF SyncInv, Drained
  <2>2. UNCHANGED <<tx, usb, rx, need, cs, frame, regs>> /\ mode' = "mpsse"
    BY <2>1, IdleChip
  <2>. QED
    BY <1>1, <1>2, <2>1, <2>2 DEF SyncInv, Drained
<1>3. ASSUME pc \in InEcho PROVE tx \in Seq(EarlyTokens) /\ EarlyEffect
  BY <1>1, <1>3, EarlyChip DEF OpenInv
<1>4. CASE pc = "echo" /\ ~disturbed
  <2>1. /\ tx \in Seq(QuietTokens) /\ usb = <<>> /\ rx = <<>>
        /\ echo = "AB" => tx = <<>> /\ mode = "mpsse"
    BY <1>4 DEF SyncInv
  <2>2. EarlyEffect
    BY <1>3, <1>4 DEF InEcho
  <2>3. tx # <<>> => Head(tx) \in QuietTokens /\ Tail(tx) \in Seq(QuietTokens)
    BY <2>1, HeadFacts
  <2>4. \/ UNCHANGED <<tx, usb, rx>> /\ mode' \in {mode, "mpsse"}
        \/ tx # <<>> /\ tx' = Tail(tx) /\ UNCHANGED <<usb, rx, mode>>
    BY <2>1, <2>2, <2>3 DEF EarlyEffect
  <2>. QED
    BY <1>1, <1>4, <2>1, <2>3, <2>4 DEF SyncInv
<1>5. CASE pc \in {"echo_queue", "echo_read"} /\ ~disturbed
  <2>1. OneAnswer /\ \A i \in 1..Len(tx) - 1 : tx[i] \in QuietTokens
    BY <1>5 DEF SyncInv
  <2>2. EarlyEffect /\ tx \in Seq(EarlyTokens)
    BY <1>3, <1>5 DEF InEcho
  <2>3. /\ Len(tx) \in Nat /\ Len(usb) \in Nat /\ Len(rx) \in Nat
        /\ Len(tx') \in Nat /\ Len(usb') \in Nat /\ Len(rx') \in Nat
    BY <1>1, LenProperties DEF ChipTypes
  <2> DEFINE Good == OneAnswer /\ \A i \in 1..Len(tx) - 1 : tx[i] \in QuietTokens
  <2>4. ASSUME UNCHANGED <<tx, usb, rx>>, mode' \in {mode, "mpsse"} PROVE Good'
    <3>1. OneAnswer'
      BY <2>1, <2>4 DEF OneAnswer
    <3>. QED
      BY <2>1, <2>4, <3>1
  <2>5. ASSUME tx # <<>>, tx' = Tail(tx), UNCHANGED rx
        PROVE  /\ Len(tx) >= 1 /\ Len(tx') = Len(tx) - 1 /\ rx' = <<>> /\ usb = <<>>
               /\ \A i \in 1..Len(tx') - 1 : tx'[i] \in QuietTokens
    <3>1. /\ Len(tx') = Len(tx) - 1 /\ Len(tx) >= 1
          /\ \A i \in 1..Len(tx) - 1 : tx'[i] = tx[i + 1]
      BY <2>2, <2>5, HeadFacts
    <3>2. ASSUME NEW i \in 1..Len(tx') - 1 PROVE tx'[i] \in QuietTokens
      <4>1. i \in 1..Len(tx) - 1 /\ i + 1 \in 1..Len(tx) - 1
        BY <2>3, <3>1
      <4>. QED
        BY <2>1, <3>1, <4>1
    <3>. QED
      BY <2>1, <2>5, <3>1, <3>2 DEF OneAnswer
  <2>6. ASSUME tx # <<>>, tx' = Tail(tx), UNCHANGED <<usb, rx, mode>> PROVE Good'
    <3>1. OneAnswer'
      BY <2>1, <2>5, <2>6 DEF OneAnswer
    <3>. QED
      BY <2>5, <2>6, <3>1
  <2>7. ASSUME mode = "mpsse", tx # <<>>, tx' = Tail(tx), Head(tx) \notin QuietTokens,
               Len(usb') = Len(usb) + 2, UNCHANGED <<rx, mode>>
        PROVE  Good'
    <3>1. Len(tx) = 1
      <4>1. Head(tx) = tx[1]
        BY <2>2, <2>7, HeadFacts
      <4>2. ~ (1 \in 1..Len(tx) - 1)
        BY <2>1, <2>7, <4>1
      <4>3. Len(tx) >= 1
        BY <2>5, <2>7
      <4>4. \A n \in Nat : n >= 1 /\ 1 \notin 1..n - 1 => n = 1
        OBVIOUS
      <4>. QED
        BY <2>3, <4>2, <4>3, <4>4
    <3>2. tx' = <<>>
      BY <1>1, <2>5, <2>7, <3>1, EmptySeq DEF ChipTypes
    <3>3. Len(rx') + Len(usb') <= 2 /\ mode' = "mpsse"
      BY <2>5, <2>7
    <3>4. OneAnswer'
      BY <3>2, <3>3 DEF OneAnswer
    <3>. QED
      BY <2>5, <2>7, <3>4
  <2>8. ASSUME usb # <<>>, Len(usb') = Len(usb) - 1, Len(rx') = Len(rx) + 1,
               UNCHANGED <<tx, mode>>
        PROVE  Good'
    <3>1. tx = <<>>
      BY <2>1, <2>8 DEF OneAnswer
    <3>2. Len(rx) + Len(usb) > 0
      <4>1. Len(usb) # 0
        BY <1>1, <2>8, EmptySeq DEF ChipTypes
      <4>. QED
        BY <2>3, <4>1
    <3>3. OneAnswer'
      BY <2>1, <2>3, <2>8, <3>1, <3>2 DEF OneAnswer
    <3>. QED
      BY <2>1, <2>8, <3>3
  <2>9. Good'
    BY <2>2, <2>4, <2>6, <2>7, <2>8 DEF EarlyEffect
  <2>. QED
    BY <1>1, <1>5, <2>9 DEF SyncInv
<1>6. CASE ~(pc \in InEcho \cup {"baud"}) \/ disturbed
  BY <1>1, <1>6 DEF SyncInv, InEcho
<1>. QED
  BY <1>2, <1>4, <1>5, <1>6 DEF InEcho


LEMMA SyncInit == Init => SyncInv
  BY DEF Init, SyncInv

LEMMA SyncGpio ==
  ASSUME TypeInv, OpenInv, Gpio, ~Fails
  PROVE  SyncInv'
<1> DEFINE ts == <<Token("cfg", 0, "clk"), Token("gpio", 0, "high")>>
<1>1. /\ pc = "gpio" /\ pc' = "echo" /\ Write(ts) /\ echo' = echo
  BY DEF Gpio
<1>2. tx = <<>> /\ usb = <<>> /\ rx = <<>> /\ echo = "AA"
  BY <1>1 DEF OpenInv, BeforeEcho
<1>3. ts \in Seq(QuietTokens) /\ tx \in Seq(QuietTokens)
  BY <1>2, EarlySeqs, EmptySeq
<1> HIDE DEF ts
<1>4. UNCHANGED <<usb, rx, mode, need, cs, frame, regs>> /\ (~disturbed' => Written(ts))
  BY <1>1, <1>3, WriteEffect
<1>5. ~disturbed' => tx' \in Seq(QuietTokens)
  BY <1>2, <1>3, <1>4, EmptyConcat DEF Written
<1>. QED
  BY <1>1, <1>2, <1>4, <1>5 DEF SyncInv

LEMMA SyncEchoWrite ==
  ASSUME TypeInv, OpenInv, SyncInv, EchoWrite, ~Fails
  PROVE  SyncInv'
<1> DEFINE c == Token("bad", 0, echo)
<1>1. /\ pc = "echo" /\ pc' = "echo_queue" /\ Write(<<c>>)
  BY DEF EchoWrite
<1> SUFFICES ASSUME ~disturbed' PROVE SyncInv'
  BY <1>1 DEF SyncInv
<1>2. c \in EarlyTokens /\ tx \in Seq(EarlyTokens)
  BY <1>1 DEF EarlyTokens, TypeInv, HostTypes, OpenInv, InEcho
<1> HIDE DEF c
<1>3. <<c>> \in Seq(EarlyTokens)
  BY <1>2, OneToken
<1>4. Written(<<c>>) /\ UNCHANGED <<usb, rx, mode, need, cs, frame, regs>>
  BY <1>1, <1>2, <1>3, WriteEffect
<1>5. disturbed' = disturbed /\ tx' = tx \o <<c>>
  BY <1>4 DEF Written
<1>6. tx \in Seq(QuietTokens) /\ usb = <<>> /\ rx = <<>>
  BY <1>1, <1>5 DEF SyncInv
<1>7. OneAnswer'
  <2>1. Len(rx') = 0 /\ Len(usb') = 0 /\ rx' = <<>> /\ usb' = <<>>
    BY <1>4, <1>6
  <2>. QED
    BY <2>1 DEF OneAnswer
<1>8. \A i \in 1..Len(tx') - 1 : tx'[i] \in QuietTokens
  <2>1. tx' = Append(tx, c)
    BY <1>2, <1>5, AppendIsConcat
  <2>2. Len(tx') = Len(tx) + 1 /\ \A i \in 1..Len(tx) : tx'[i] = tx[i]
    BY <1>2, <2>1, AppendProperties
  <2>3. Len(tx) \in Nat /\ \A i \in 1..Len(tx) : tx[i] \in QuietTokens
    BY <1>6, QuietSeq, LenProperties
  <2>4. Len(tx') - 1 = Len(tx)
    BY <2>2, <2>3
  <2>. QED
    BY <2>2, <2>3, <2>4
<1>. QED
  BY <1>1, <1>7, <1>8 DEF SyncInv

LEMMA SyncEchoRead ==
  ASSUME TypeInv, OpenInv, SyncInv, EchoRead, ~Fails
  PROVE  SyncInv'
<1> DEFINE a == SubSeq(rx, 1, count)
<1>1. PICK pass \in Verdict(a) :
        /\ pc' = IF ~pass THEN "close" ELSE IF echo = "AA" THEN "echo" ELSE "baud"
        /\ echo' = IF pass THEN "AB" ELSE echo
        /\ IF pass /\ FALSE \in Verdict(a)
           THEN Fault /\ disturbed' = TRUE ELSE UNCHANGED <<faults, disturbed>>
  BY DEF EchoRead
<1>2. pc = "echo_read" /\ Take(count) /\ shadow' = shadow
  BY DEF EchoRead
<1>3. CASE pass /\ ~disturbed'
  <2>1. FALSE \notin Verdict(a) /\ ~disturbed
    BY <1>1, <1>3
  <2>2. /\ count <= Len(rx) /\ tx \in Seq(EarlyTokens)
        /\ need = 0 /\ cs = "high" /\ regs = shadow
    BY <1>2 DEF OpenInv, InEcho
  <2>3. OneAnswer /\ count \in Nat /\ ChipTypes
    BY <1>2, <2>1 DEF SyncInv, TypeInv, HostTypes
  <2>4. Len(a) = count
    <3>1. count \in 0..Len(rx)
      BY <2>2, <2>3, LenProperties DEF ChipTypes
    <3>. QED
      BY <2>3, <3>1, FirstFacts DEF ChipTypes
  <2>5. Len(a) \in 2..AckBuf
    BY <2>1 DEF Verdict
  <2>6. 2 <= count
    BY <2>3, <2>4, <2>5 DEF AckBuf
  <2>7. tx = <<>> /\ usb = <<>> /\ mode = "mpsse" /\ Len(rx) = count
    BY <2>2, <2>3, <2>6, AnswerComplete
  <2>8. rx' = <<>>
    BY <1>2, <2>3, <2>7, TakeFacts DEF Take, ChipTypes
  <2>9. UNCHANGED <<tx, usb, mode, need, cs, frame, regs>>
    BY <1>2 DEF Take
  <2>10. pc' \in {"echo", "baud"}
    BY <1>1, <1>3
  <2>. QED
    BY <1>2, <2>2, <2>7, <2>8, <2>9, <2>10, EmptySeq DEF SyncInv, Drained
<1>4. CASE ~pass
  BY <1>1, <1>4, SyncOutside DEF InEcho
<1>5. CASE pass /\ disturbed'
  BY <1>5 DEF SyncInv
<1>. QED
  BY <1>3, <1>4, <1>5

LEMMA SyncStep == TypeInv /\ TypeInv' /\ OpenInv /\ SyncInv /\ [Next]_vars => SyncInv'
<1> SUFFICES ASSUME TypeInv, TypeInv', OpenInv, SyncInv, [Next]_vars PROVE SyncInv'
  OBVIOUS
<1>1. CASE UNCHANGED vars
  BY <1>1 DEF SyncInv, OneAnswer, Drained, vars, chipVars, hostVars
<1>2. CASE Fails
  BY <1>2, SyncOutside DEF Fails, InEcho
<1>3. CASE Gpio /\ ~Fails
  BY <1>3, SyncGpio
<1>4. CASE EchoWrite /\ ~Fails
  BY <1>4, SyncEchoWrite
<1>5. CASE EchoQueue /\ ~Fails
  BY <1>5 DEF EchoQueue, SyncInv, OneAnswer, chipVars
<1>6. CASE EchoRead /\ ~Fails
  BY <1>6, SyncEchoRead
<1>7. CASE \/ Start \/ CountDevices \/ Open \/ PurgeQueue \/ PurgeRead \/ Setup \/ EnableMpsse \/ Settle
  <2>1. pc' \notin InEcho \cup {"baud"}
    BY <1>2, <1>7
    DEF Fails, Start, CountDevices, Open, PurgeQueue, PurgeRead, Setup, EnableMpsse, Settle, InEcho
  <2>. QED
    BY <2>1, SyncOutside
<1>8. CASE \/ Baudrate \/ Loopback \/ CsEnable \/ WoHeader \/ WoData \/ RoHeader
           \/ RoRead \/ CsDisable \/ Finish \/ Close
  <2>1. pc' \in {"loopback", "close", "access", "wo_header", "wo_data", "disable",
                 "ro_header", "ro_read", "closed"}
    BY <1>8 DEF Fails, Baudrate, Loopback, CsEnable, WoHeader, WoData, RoHeader,
       RoRead, RoTimeout, CsDisable, Finish, Close
  <2>. QED
    BY <2>1, SyncOutside DEF InEcho
<1>9. CASE Chip /\ UNCHANGED hostVars
  BY <1>9, SyncChip
<1>. QED
  BY <1>1, <1>2, <1>3, <1>4, <1>5, <1>6, <1>7, <1>8, <1>9 DEF Next, Host

LEMMA SyncInvariant == Spec => []SyncInv
<1>1. Init => SyncInv
  BY SyncInit
<1>2. TypeInv /\ TypeInv' /\ OpenInv /\ SyncInv /\ [Next]_vars => SyncInv'
  BY SyncStep
<1>. QED
  BY <1>1, <1>2, TypeInvariant, OpenInvariant, PTL DEF Spec

(* When FTDI_SPI_open gets past its two echo checks on bytes it really      *)
(* read, the chip has started up and is in step with the host: a bad        *)
(* command is answered only after everything before it was executed.        *)
THEOREM OpenedInSync == Spec => []SyncedAfterOpen
<1>1. SyncInv => SyncedAfterOpen
  BY DEF SyncInv, SyncedAfterOpen
<1>. QED
  BY <1>1, SyncInvariant, PTL


-----------------------------------------------------------------------------
(* The stream of commands.                                                  *)

LEMMA LabelParts ==
  ASSUME NEW l \in Labels
  PROVE  /\ l.job \in 1..(Len(Script) + 1) /\ l.at \in Stages /\ l.k \in Nat
         /\ l.m \in [Addresses -> Data]
  BY DEF Labels

LEMMA LabelType ==
  ASSUME NEW j \in 1..(Len(Script) + 1), NEW at \in Stages, NEW k \in Nat,
         NEW m \in [Addresses -> Data]
  PROVE  /\ Label(j, at, k, m) \in Labels
         /\ Label(j, at, k, m).job = j /\ Label(j, at, k, m).at = at
         /\ Label(j, at, k, m).k = k /\ Label(j, at, k, m).m = m
  BY DEF Label, Labels

LEMMA AfterType ==
  ASSUME NEW j \in Access, NEW m \in [Addresses -> Data]
  PROVE  After(j, m) \in [Addresses -> Data]
  BY AccessFacts DEF After

LEMMA NextLabelType ==
  ASSUME NEW l \in Labels, l.job <= Len(Script)
  PROVE  NextLabel(l) \in Labels
<1>1. /\ l.job \in 1..Len(Script) /\ l.job + 1 \in 1..(Len(Script) + 1)
      /\ l.job \in 1..(Len(Script) + 1) /\ l.at \in Stages
      /\ l.k \in Nat /\ l.k + 1 \in Nat /\ l.m \in [Addresses -> Data]
  BY LabelParts, ScriptFacts
<1>2. After(Script[l.job], l.m) \in [Addresses -> Data]
  BY <1>1, ScriptFacts, AfterType
<1>3. /\ 0 \in Nat /\ 1 \in Nat
      /\ \A at \in {"loop", "enable", "wr", "dat", "rd", "disable"} : at \in Stages
  BY DEF Stages
<1>4. /\ \A at \in Stages, k \in {0, 1, l.k + 1} : Label(l.job, at, k, l.m) \in Labels
      /\ Label(l.job + 1, "enable", 0, After(Script[l.job], l.m)) \in Labels
  <2>1. ASSUME NEW at \in Stages, NEW k \in {0, 1, l.k + 1}
        PROVE  Label(l.job, at, k, l.m) \in Labels
    <3>1. k \in Nat
      BY <1>1
    <3>. QED
      BY <1>1, <3>1, LabelType
  <2>2. "enable" \in Stages
    BY <1>3
  <2>3. Label(l.job + 1, "enable", 0, After(Script[l.job], l.m)) \in Labels
    BY <1>1, <1>2, <1>3, <2>2, LabelType
  <2>. QED
    BY <2>1, <2>3
<1>. QED
  BY <1>1, <1>3, <1>4 DEF NextLabel, Stages

LEMMA InOrderEmpty ==
  ASSUME NEW l \in Labels
  PROVE  InOrder(<<>>, l, l)
<1> DEFINE lab == [k \in 1..1 |-> l]
<1>1. lab \in [1..Len(<<>>) + 1 -> Labels]
  BY EmptySeq
<1>2. lab[1] = l /\ Len(<<>>) = 0
  OBVIOUS
<1> HIDE DEF lab
<1>. QED
  BY <1>1, <1>2 DEF InOrder

LEMMA InOrderNone ==
  ASSUME NEW f, NEW l, InOrder(<<>>, f, l)
  PROVE  f = l
<1>1. Len(<<>>) = 0
  OBVIOUS
<1>. QED
  BY <1>1 DEF InOrder

LEMMA InOrderAppend ==
  ASSUME NEW S, NEW s \in Seq(S), NEW f \in Labels, NEW l \in Labels, InOrder(s, f, l),
         l.job <= Len(Script), TokenOf(l) \in S,
         l.at = "rd" => AckUnits(Script[l.job]) > 0,
         l.at = "disable" /\ AckUnits(Script[l.job]) > 0 => s = <<>>
  PROVE  InOrder(Append(s, TokenOf(l)), f, NextLabel(l))
<1>1. PICK lab \in [1..Len(s) + 1 -> Labels] :
        /\ lab[1] = f /\ lab[Len(s) + 1] = l
        /\ \A k \in 1..Len(s) : s[k] = TokenOf(lab[k]) /\ lab[k + 1] = NextLabel(lab[k])
        /\ \A k \in 1..Len(s) : lab[k].job <= Len(Script)
        /\ \A k \in 1..Len(s) :
             lab[k].at = "rd" => k = Len(s) /\ AckUnits(Script[lab[k].job]) > 0
  BY DEF InOrder
<1> DEFINE t == Append(s, TokenOf(l))
           n == Len(s)
           ext == [k \in 1..n + 2 |-> IF k <= n + 1 THEN lab[k] ELSE NextLabel(l)]
<1>2. /\ n \in Nat /\ Len(t) = n + 1 /\ t[n + 1] = TokenOf(l)
      /\ \A k \in 1..n : t[k] = s[k]
  BY AppendProperties, LenProperties
<1> HIDE DEF t, n
<1>3. ext \in [1..Len(t) + 1 -> Labels]
  <2>1. Len(t) + 1 = n + 2 /\ NextLabel(l) \in Labels
    BY <1>2, NextLabelType
  <2>2. \A k \in 1..n + 2 : k <= n + 1 => lab[k] \in Labels
    BY <1>1, <1>2 DEF n
  <2>. QED
    BY <2>1, <2>2
<1>4. /\ \A k \in 1..n + 1 : ext[k] = lab[k]
      /\ ext[n + 2] = NextLabel(l)
  BY <1>2
<1> HIDE DEF ext
<1>5. ext[1] = f /\ ext[n + 1] = l
  BY <1>1, <1>2, <1>4 DEF n
<1>6. ASSUME NEW k \in 1..n + 1
      PROVE  t[k] = TokenOf(ext[k]) /\ ext[k + 1] = NextLabel(ext[k]) /\ ext[k].job <= Len(Script)
  <2>1. CASE k = n + 1
    <3>1. k + 1 = n + 2
      BY <1>2, <2>1
    <3>. QED
      BY <1>2, <1>4, <1>5, <2>1, <3>1, Zenon
  <2>2. CASE k \in 1..n
    <3>1. ext[k] = lab[k] /\ ext[k + 1] = lab[k + 1]
      BY <1>2, <1>4, <2>2
    <3>. QED
      BY <1>1, <1>2, <2>2, <3>1 DEF n
  <2>. QED
    BY <1>2, <2>1, <2>2
<1>7. ASSUME NEW k \in 1..n + 1, ext[k].at = "rd"
      PROVE  k = n + 1 /\ AckUnits(Script[ext[k].job]) > 0
  <2>1. CASE k = n + 1
    BY <1>5, <1>7, <2>1
  <2>2. CASE k \in 1..n
    <3>1. lab[k].at = "rd"
      BY <1>4, <1>7, <2>2
    <3>2. k = n /\ AckUnits(Script[lab[k].job]) > 0 /\ lab[k + 1] = NextLabel(lab[k])
      BY <1>1, <2>2, <3>1 DEF n
    <3>3. l = NextLabel(lab[k])
      BY <1>1, <3>2 DEF n
    <3>4. l = Label(lab[k].job, "disable", 0, lab[k].m)
      BY <3>1, <3>3 DEF NextLabel
    <3>5. l.at = "disable" /\ l.job = lab[k].job
      BY <3>4 DEF Label
    <3>6. s = <<>>
      BY <3>2, <3>5
    <3>7. n = 0
      BY <3>6 DEF n
    <3>. QED
      BY <2>2, <3>7
  <2>. QED
    BY <1>2, <2>1, <2>2
<1>8. Len(t) + 1 = n + 2 /\ 1..Len(t) = 1..n + 1 /\ Len(t) = n + 1
  BY <1>2
<1>9. InOrder(t, f, NextLabel(l))
  <2>1. ext[1] = f /\ ext[Len(t) + 1] = NextLabel(l)
    BY <1>4, <1>5, <1>8
  <2>2. /\ \A k \in 1..Len(t) : t[k] = TokenOf(ext[k]) /\ ext[k + 1] = NextLabel(ext[k])
        /\ \A k \in 1..Len(t) : ext[k].job <= Len(Script)
    BY <1>6, <1>8
  <2>3. \A k \in 1..Len(t) :
          ext[k].at = "rd" => k = Len(t) /\ AckUnits(Script[ext[k].job]) > 0
    BY <1>7, <1>8
  <2>. QED
    BY <1>3, <2>1, <2>2, <2>3, Zenon DEF InOrder
<1>. QED
  BY <1>9 DEF t

LEMMA InOrderTail ==
  ASSUME NEW S, NEW s \in Seq(S), s # <<>>, NEW f, NEW l, InOrder(s, f, l)
  PROVE  /\ f \in Labels /\ NextLabel(f) \in Labels /\ l \in Labels
         /\ Head(s) = TokenOf(f) /\ f.job <= Len(Script)
         /\ InOrder(Tail(s), NextLabel(f), l)
         /\ f.at = "rd"
            => Tail(s) = <<>> /\ l = NextLabel(f) /\ AckUnits(Script[f.job]) > 0
<1>1. PICK lab \in [1..Len(s) + 1 -> Labels] :
        /\ lab[1] = f /\ lab[Len(s) + 1] = l
        /\ \A k \in 1..Len(s) : s[k] = TokenOf(lab[k]) /\ lab[k + 1] = NextLabel(lab[k])
        /\ \A k \in 1..Len(s) : lab[k].job <= Len(Script)
        /\ \A k \in 1..Len(s) :
             lab[k].at = "rd" => k = Len(s) /\ AckUnits(Script[lab[k].job]) > 0
  BY DEF InOrder
<1> DEFINE t == Tail(s)
           n == Len(s)
           rest == [k \in 1..n |-> lab[k + 1]]
<1>2. /\ t \in Seq(S) /\ Head(s) = s[1] /\ n \in Nat \ {0} /\ Len(t) = n - 1
      /\ \A k \in 1..n - 1 : t[k] = s[k + 1]
  BY HeadFacts
<1> HIDE DEF t, n
<1>3. /\ f \in Labels /\ NextLabel(f) \in Labels /\ l \in Labels
      /\ Head(s) = TokenOf(f) /\ lab[2] = NextLabel(f) /\ f.job <= Len(Script)
  <2>1. 1 \in 1..n /\ 1 \in 1..n + 1 /\ 2 \in 1..n + 1 /\ n + 1 \in 1..n + 1 /\ 1 + 1 = 2
    BY <1>2
  <2>2. lab[1] \in Labels /\ lab[2] \in Labels /\ lab[n + 1] \in Labels
    BY <1>1, <2>1 DEF n
  <2>. QED
    BY <1>1, <1>2, <2>1, <2>2 DEF n
<1>4. rest \in [1..Len(t) + 1 -> Labels]
  <2>1. Len(t) + 1 = n /\ \A k \in 1..n : k + 1 \in 1..n + 1
    BY <1>2
  <2>. QED
    BY <1>1, <2>1 DEF n
<1>5. \A k \in 1..n : rest[k] = lab[k + 1]
  OBVIOUS
<1> HIDE DEF rest
<1>6. rest[1] = NextLabel(f) /\ rest[n] = l
  BY <1>1, <1>2, <1>3, <1>5 DEF n
<1>7. ASSUME NEW k \in 1..n - 1
      PROVE  /\ t[k] = TokenOf(rest[k]) /\ rest[k + 1] = NextLabel(rest[k])
             /\ rest[k].job <= Len(Script)
             /\ rest[k].at = "rd" => k = n - 1 /\ AckUnits(Script[rest[k].job]) > 0
  <2>1. k \in 1..n /\ k + 1 \in 1..n /\ (k + 1 = n => k = n - 1)
    BY <1>2
  <2>2. rest[k] = lab[k + 1] /\ rest[k + 1] = lab[(k + 1) + 1] /\ t[k] = s[k + 1]
    BY <1>2, <1>5, <2>1
  <2>3. /\ s[k + 1] = TokenOf(lab[k + 1]) /\ lab[(k + 1) + 1] = NextLabel(lab[k + 1])
        /\ lab[k + 1].job <= Len(Script)
    BY <1>1, <2>1 DEF n
  <2>4. lab[k + 1].at = "rd" => k + 1 = n /\ AckUnits(Script[lab[k + 1].job]) > 0
    BY <1>1, <2>1 DEF n
  <2>. QED
    BY <2>1, <2>2, <2>3, <2>4
<1>8. InOrder(t, NextLabel(f), l)
  <2>1. Len(t) + 1 = n /\ Len(t) = n - 1
    BY <1>2
  <2>2. rest[1] = NextLabel(f) /\ rest[Len(t) + 1] = l
    BY <1>6, <2>1
  <2>3. /\ \A k \in 1..Len(t) : t[k] = TokenOf(rest[k]) /\ rest[k + 1] = NextLabel(rest[k])
        /\ \A k \in 1..Len(t) : rest[k].job <= Len(Script)
    BY <1>7, <2>1
  <2>4. \A k \in 1..Len(t) :
          rest[k].at = "rd" => k = Len(t) /\ AckUnits(Script[rest[k].job]) > 0
    BY <1>7, <2>1
  <2>. QED
    BY <1>4, <2>2, <2>3, <2>4, Zenon DEF InOrder
<1>9. ASSUME f.at = "rd" PROVE t = <<>> /\ l = NextLabel(f) /\ AckUnits(Script[f.job]) > 0
  <2>1. 1 = n /\ AckUnits(Script[f.job]) > 0
    BY <1>1, <1>2, <1>9 DEF n
  <2>2. t = <<>>
    BY <1>2, <2>1, EmptySeq
  <2>3. Len(s) + 1 = 2
    <3>1. 1 + 1 = 2
      OBVIOUS
    <3>. QED
      BY <2>1, <3>1 DEF n
  <2>4. l = lab[2]
    BY <1>1, <2>3
  <2>. QED
    BY <1>3, <2>1, <2>2, <2>4
<1>. QED
  BY <1>3, <1>8, <1>9 DEF t


LEMMA PrefixAppend ==
  ASSUME NEW S, NEW s \in Seq(S), NEW k \in 1..Len(s)
  PROVE  Append(SubSeq(s, 1, k - 1), s[k]) = SubSeq(s, 1, k)
<1>1. Len(s) \in Nat /\ 1 \in 1..Len(s) /\ k \in 1..Len(s) /\ k - 1 \in 0..Len(s) /\ s[k] \in S
  BY LenProperties, ElementOfSeq
<1>2. SubSeq(s, 1, k) = SubSeq(s, 1, k - 1) \o <<s[k]>>
  BY <1>1, SubSeqRecursiveSecond
<1>3. SubSeq(s, 1, k - 1) \in Seq(S)
  BY <1>1, FirstFacts
<1>. QED
  BY <1>1, <1>2, <1>3, AppendIsConcat

LEMMA CommittedIsAfter ==
  ASSUME NEW j \in Access, regs \in [Addresses -> Data], cs = "low", frame = Command(j)
  PROVE  Committed = After(j, regs)
<1>1. CASE j.op = "id"
  <2>1. Len(frame) = 1
    BY <1>1, CommandFacts
  <2>. QED
    BY <1>1, <2>1 DEF Committed, After
<1>2. CASE j.op = "read"
  <2>1. Len(frame) = 2
    BY <1>2, CommandFacts
  <2>. QED
    BY <1>2, <2>1 DEF Committed, After
<1>3. CASE j.op = "write"
  <2>1. Len(frame) = 3
    BY <1>3, CommandFacts
  <2>2. frame[1] = "write" /\ frame[2] = j.addr /\ frame[3] = j.val
    BY <1>3 DEF Command
  <2>. QED
    BY <1>3, <2>1, <2>2, AccessFacts DEF Committed, After
<1>. QED
  BY <1>1, <1>2, <1>3, AccessFacts

LEMMA AnswerIsReply ==
  ASSUME NEW j \in Access, AckUnits(j) > 0, cs = "low", frame = Command(j)
  PROVE  Answer(frame) = Reply(j, regs)
<1>1. CASE j.op = "id"
  BY <1>1 DEF Command, Answer, Reply
<1>2. CASE j.op = "read"
  <2>1. Len(frame) = 2
    BY <1>2, CommandFacts
  <2>2. frame[1] = "read" /\ frame[2] = j.addr
    BY <1>2 DEF Command
  <2>3. frame # <<"id">>
    <3>1. Len(<<"id">>) = 1
      OBVIOUS
    <3>. QED
      BY <2>1, <3>1
  <2>. QED
    BY <1>2, <2>1, <2>2, <2>3, AccessFacts DEF Answer, Reply
<1>3. j.op # "write"
  BY DEF AckUnits
<1>. QED
  BY <1>1, <1>2, <1>3, AccessFacts

LEMMA NextAfterDat ==
  ASSUME NEW l \in Labels, l.at = "dat", l.k = Len(Command(Script[l.job]))
  PROVE  \E at \in {"rd", "disable"} : NextLabel(l) = Label(l.job, at, 0, l.m)
<1>1. ~ (l.k < Len(Command(Script[l.job])))
  <2>1. l.k \in Nat
    BY LabelParts
  <2>. QED
    BY <2>1
<1>. QED
  BY <1>1 DEF NextLabel

(* A data token of the stream. *)
LEMMA StreamData ==
  ASSUME ChipTypes, ChipTypes', mode = "mpsse", tx # <<>>, NEW f \in Labels, ChipAt(f),
         Head(tx) = TokenOf(f), f.job <= Len(Script), f.at = "dat", ShiftOut \/ Execute
  PROVE  ChipAt(NextLabel(f))' /\ UNCHANGED <<usb, rx, mode>>
<1> DEFINE C == Command(Script[f.job])
<1>1. C \in Seq(Words) /\ Len(C) \in 1..3 /\ f.job \in 1..(Len(Script) + 1) /\ f.k \in Nat
  BY LabelParts, ScriptFacts, CommandFacts
<1>2. /\ regs = f.m /\ cs = "low" /\ need = Len(C) - f.k + 1
      /\ f.k \in 1..Len(C) /\ frame = SubSeq(C, 1, f.k - 1)
  BY DEF ChipAt
<1>3. Head(tx).v = C[f.k]
  BY DEF TokenOf, Dat, Token
<1> HIDE DEF C
<1>4. need > 0
  BY <1>1, <1>2
<1>5. ShiftOut
  BY <1>4 DEF Execute
<1>6. need' = need - 1 /\ frame' = Append(frame, C[f.k]) /\ UNCHANGED <<usb, rx, mode, cs, regs>>
  BY <1>2, <1>3, <1>5 DEF ShiftOut
<1>7. frame' = SubSeq(C, 1, f.k)
  BY <1>1, <1>2, <1>6, PrefixAppend
<1>8. CASE f.k < Len(C)
  <2>1. NextLabel(f) = Label(f.job, "dat", f.k + 1, f.m)
    BY <1>8 DEF NextLabel, C
  <2>2. /\ NextLabel(f).job = f.job /\ NextLabel(f).at = "dat" /\ NextLabel(f).k = f.k + 1
        /\ NextLabel(f).m = f.m
    BY <2>1 DEF Label
  <2>3. /\ need' = Len(C) - (f.k + 1) + 1 /\ f.k + 1 \in 1..Len(C) /\ (f.k + 1) - 1 = f.k
    <3>1. \A n, k \in Nat :
            k \in 1..n /\ k < n
            => (n - k + 1) - 1 = n - (k + 1) + 1 /\ k + 1 \in 1..n /\ (k + 1) - 1 = k
      OBVIOUS
    <3>2. Len(C) \in Nat
      BY <1>1
    <3>. QED
      BY <1>1, <1>2, <1>6, <1>8, <3>1, <3>2
  <2>4. frame' = SubSeq(C, 1, (f.k + 1) - 1) /\ regs' = f.m /\ cs' = "low"
    BY <1>2, <1>6, <1>7, <2>3
  <2>. QED
    BY <1>6, <2>2, <2>3, <2>4 DEF ChipAt, C
<1>9. CASE f.k = Len(C)
  <2>1. PICK at \in {"rd", "disable"} : NextLabel(f) = Label(f.job, at, 0, f.m)
    BY <1>9, NextAfterDat DEF C
  <2>2. /\ NextLabel(f).job = f.job /\ NextLabel(f).at = at /\ NextLabel(f).m = f.m
    BY <2>1 DEF Label
  <2>3. need' = 0 /\ frame' = C /\ regs' = f.m /\ cs' = "low"
    <3>1. need' = 0
      BY <1>1, <1>2, <1>6, <1>9
    <3>2. frame' = C
      BY <1>1, <1>7, <1>9, SubSeqFull
    <3>. QED
      BY <1>2, <1>6, <3>1, <3>2
  <2>. QED
    BY <1>6, <2>1, <2>2, <2>3 DEF ChipAt, C
<1>. QED
  BY <1>1, <1>2, <1>8, <1>9


(* A command of the stream. *)
LEMMA StreamCommand ==
  ASSUME ChipTypes, tx # <<>>, NEW f \in Labels, ChipAt(f), CsBit < 8,
         Head(tx) = TokenOf(f), f.job <= Len(Script), f.at # "dat", ShiftOut \/ Execute,
         f.at = "rd" => AckUnits(Script[f.job]) > 0
  PROVE  /\ ChipAt(NextLabel(f))' /\ UNCHANGED <<rx, mode>>
         /\ f.at # "rd" => usb' = usb
         /\ f.at = "rd"
            => usb' = usb \o Parts(Reply(Script[f.job], f.m), AckUnits(Script[f.job]))
<1> DEFINE j == Script[f.job]
           c == Head(tx)
           n == NextLabel(f)
<1>1. /\ f.job \in 1..(Len(Script) + 1) /\ f.at \in Stages
      /\ f.m \in [Addresses -> Data] /\ j \in Access
  BY LabelParts, ScriptFacts
<1>2. regs = f.m /\ need = 0 /\ cs = IF f.at \in {"div", "loop", "enable"} THEN "high" ELSE "low"
  BY DEF ChipAt
<1>3. Execute
  BY <1>2 DEF ShiftOut
<1>4. /\ \/ c.t = "gpio" /\ SetCs(c.v) /\ UNCHANGED <<usb, need>>
         \/ c.t = "wr" /\ need' = c.n /\ UNCHANGED <<usb, cs, frame, regs>>
         \/ /\ c.t = "rd"
            /\ usb' = usb \o Parts(Answer(frame), c.n)
            /\ UNCHANGED <<need, cs, frame, regs>>
         \/ c.t = "cfg" /\ UNCHANGED <<usb, need, cs, frame, regs>>
         \/ c.t \in {"bad", "dat"}
      /\ UNCHANGED <<rx, mode>>
  BY <1>3 DEF Execute
<1>5. c = TokenOf(f)
  OBVIOUS
<1> HIDE DEF c, n
<1>6. CASE f.at \in {"div", "loop"}
  <2>1. c.t = "cfg"
    BY <1>5, <1>6 DEF TokenOf, Token
  <2>2. UNCHANGED <<usb, need, cs, frame, regs>>
    BY <1>4, <2>1
  <2>3. n.at \in {"loop", "enable"} /\ n.m = f.m
    BY <1>6 DEF n, NextLabel, Label
  <2>4. ChipAt(n)'
    BY <1>2, <1>6, <2>2, <2>3 DEF ChipAt
  <2>. QED
    BY <1>4, <1>6, <2>2, <2>4 DEF n
<1>7. CASE f.at = "enable"
  <2>1. c.t = "gpio" /\ c.v = "low"
    BY <1>5, <1>7 DEF TokenOf, Token, CsLevel
  <2>2. SetCs("low") /\ UNCHANGED <<usb, need>>
    BY <1>4, <2>1
  <2>3. cs' = "low" /\ frame' = <<>> /\ regs' = regs
    BY <1>2, <1>7, <2>2 DEF SetCs
  <2>4. n.at = "wr" /\ n.m = f.m
    BY <1>7 DEF n, NextLabel, Label
  <2>5. ChipAt(n)'
    BY <1>2, <2>2, <2>3, <2>4 DEF ChipAt
  <2>. QED
    BY <1>4, <1>7, <2>2, <2>5 DEF n
<1>8. CASE f.at = "wr"
  <2>1. c.t = "wr" /\ c.n = Len(Command(j))
    BY <1>5, <1>8 DEF TokenOf, Token, WriteAsked
  <2>2. need' = Len(Command(j)) /\ UNCHANGED <<usb, cs, frame, regs>>
    BY <1>4, <2>1
  <2>3. n.at = "dat" /\ n.m = f.m /\ n.k = 1 /\ n.job = f.job
    BY <1>8 DEF n, NextLabel, Label
  <2>4. frame' = <<>> /\ Len(Command(j)) \in 1..3
    BY <1>1, <1>8, <2>2, CommandFacts DEF ChipAt
  <2>5. /\ need' = Len(Command(j)) - 1 + 1 /\ 1 \in 1..Len(Command(j))
        /\ frame' = SubSeq(Command(j), 1, 1 - 1)
    <3>1. \A k \in 1..3 : k = k - 1 + 1 /\ 1 \in 1..k
      OBVIOUS
    <3>2. 1 - 1 = 0 /\ 0 \in Int /\ 1 \in Int /\ 0 < 1
      OBVIOUS
    <3>3. SubSeq(Command(j), 1, 1 - 1) = <<>>
      BY <3>2, SubSeqEmpty
    <3>. QED
      BY <2>2, <2>4, <3>1, <3>3
  <2>6. ChipAt(n)'
    BY <1>2, <1>8, <2>2, <2>3, <2>5 DEF ChipAt
  <2>. QED
    BY <1>4, <1>8, <2>2, <2>6 DEF n
<1>9. CASE f.at = "rd"
  <2>1. c.t = "rd" /\ c.n = AckUnits(j)
    BY <1>5, <1>9 DEF TokenOf, Token, ReadAsked
  <2>2. usb' = usb \o Parts(Answer(frame), AckUnits(j)) /\ UNCHANGED <<need, cs, frame, regs>>
    BY <1>4, <2>1
  <2>3. frame = Command(j) /\ cs = "low"
    BY <1>2, <1>9 DEF ChipAt
  <2>4. Answer(frame) = Reply(j, f.m)
    BY <1>1, <1>2, <1>9, <2>3, AnswerIsReply
  <2>5. n.at = "disable" /\ n.m = f.m /\ n.job = f.job
    BY <1>9 DEF n, NextLabel, Label
  <2>6. ChipAt(n)'
    BY <1>2, <1>9, <2>2, <2>3, <2>5 DEF ChipAt
  <2>. QED
    BY <1>4, <1>9, <2>2, <2>4, <2>6 DEF n
<1>10. CASE f.at = "disable"
  <2>1. c.t = "gpio" /\ c.v = "high"
    BY <1>5, <1>10 DEF TokenOf, Token, CsLevel
  <2>2. SetCs("high") /\ UNCHANGED <<usb, need>>
    BY <1>4, <2>1
  <2>3. cs' = "high" /\ regs' = Committed
    BY <2>2 DEF SetCs
  <2>4. Committed = After(j, f.m)
    <3>1. frame = Command(j) /\ cs = "low"
      BY <1>2, <1>10 DEF ChipAt
    <3>. QED
      BY <1>1, <1>2, <3>1, CommittedIsAfter
  <2>5. n.at = "enable" /\ n.m = After(j, f.m)
    BY <1>10 DEF n, NextLabel, Label
  <2>6. ChipAt(n)'
    BY <1>2, <2>2, <2>3, <2>4, <2>5 DEF ChipAt
  <2>. QED
    BY <1>4, <1>10, <2>2, <2>6 DEF n
<1>. QED
  BY <1>1, <1>6, <1>7, <1>8, <1>9, <1>10 DEF Stages


LEMMA StreamChip ==
  ASSUME ChipTypes, ChipTypes', CsBit < 8, mode = "mpsse",
         NEW f \in Labels, NEW l \in Labels, InOrder(tx, f, l), ChipAt(f), Chip
  PROVE  /\ mode' = "mpsse"
         /\ \E g \in Labels : InOrder(tx', g, l) /\ ChipAt(g)'
         /\ \/ /\ UNCHANGED <<usb, rx>>
               /\ tx # <<>> /\ tx' = <<>> => f.at # "rd" /\ l = NextLabel(f)
            \/ /\ usb # <<>> /\ usb' = Tail(usb) /\ rx' = Append(rx, Head(usb))
               /\ tx' = tx
            \/ /\ tx # <<>> /\ tx' = <<>> /\ rx' = rx
               /\ f.at = "rd" /\ l = NextLabel(f) /\ AckUnits(Script[f.job]) > 0
               /\ usb' = usb \o Parts(Reply(Script[f.job], f.m), AckUnits(Script[f.job]))
<1>1. CASE Deliver
  <2>1. ChipAt(f)'
    BY <1>1 DEF Deliver, ChipAt
  <2>2. tx' = tx /\ mode' = mode /\ usb # <<>> /\ usb' = Tail(usb) /\ rx' = Append(rx, Head(usb))
    BY <1>1 DEF Deliver
  <2>. QED
    BY <2>1, <2>2
<1>2. CASE ShiftOut \/ Execute
  <2>1. tx # <<>> /\ tx' = Tail(tx)
    BY <1>2 DEF ShiftOut, Execute
  <2>2. /\ NextLabel(f) \in Labels /\ Head(tx) = TokenOf(f) /\ f.job <= Len(Script)
        /\ InOrder(Tail(tx), NextLabel(f), l)
        /\ f.at = "rd"
           => Tail(tx) = <<>> /\ l = NextLabel(f) /\ AckUnits(Script[f.job]) > 0
    BY <2>1, InOrderTail DEF ChipTypes
  <2>3. tx' = <<>> => l = NextLabel(f)
    BY <2>1, <2>2, InOrderNone
  <2>4. CASE f.at = "dat"
    <3>1. ChipAt(NextLabel(f))' /\ UNCHANGED <<usb, rx, mode>>
      BY <1>2, <2>1, <2>2, <2>4, StreamData
    <3>. QED
      BY <2>1, <2>2, <2>3, <2>4, <3>1
  <2>5. CASE f.at # "dat"
    <3>1. /\ ChipAt(NextLabel(f))' /\ UNCHANGED <<rx, mode>>
          /\ f.at # "rd" => usb' = usb
          /\ f.at = "rd"
             => usb' = usb \o Parts(Reply(Script[f.job], f.m), AckUnits(Script[f.job]))
      BY <1>2, <2>1, <2>2, <2>5, StreamCommand
    <3>. QED
      BY <2>1, <2>2, <2>3, <3>1
  <2>. QED
    BY <2>4, <2>5
<1>. QED
  BY <1>1, <1>2 DEF Chip, StartUp, Lose

(* The host writes the token of the label it has come to. *)
LEMMA StreamWrite ==
  ASSUME tx \in Seq(Tokens), NEW l \in Labels, OnStream(l), Written(<<TokenOf(l)>>),
         l.job <= Len(Script), TokenOf(l) \in Tokens,
         l.at = "rd" => AckUnits(Script[l.job]) > 0,
         l.at = "disable" /\ AckUnits(Script[l.job]) > 0 => tx = <<>>
  PROVE  OnStream(NextLabel(l))' /\ UNCHANGED <<usb, rx, disturbed>>
<1>1. tx' = tx \o <<TokenOf(l)>> /\ UNCHANGED <<usb, rx, mode, need, cs, frame, regs, disturbed>>
  BY DEF Written
<1>2. tx' = Append(tx, TokenOf(l))
  BY <1>1, AppendIsConcat
<1>3. PICK f \in Labels : InOrder(tx, f, l) /\ ChipAt(f)
  BY DEF OnStream
<1>4. InOrder(tx', f, NextLabel(l))
  BY <1>2, <1>3, InOrderAppend
<1>5. ChipAt(f)' /\ mode' = "mpsse"
  BY <1>1, <1>3 DEF ChipAt, OnStream
<1>. QED
  BY <1>1, <1>4, <1>5 DEF OnStream

LEMMA ConcatLast ==
  ASSUME NEW S, NEW s \in Seq(S), NEW t \in Seq(S), NEW k \in 1..Len(t)
  PROVE  /\ s \o SubSeq(t, 1, k) = Append(s \o SubSeq(t, 1, k - 1), t[k])
         /\ s \o SubSeq(t, 1, k - 1) \in Seq(S)
<1> DEFINE p == SubSeq(t, 1, k - 1)
           q == SubSeq(t, 1, k)
           e == t[k]
<1>1. e \in S /\ k - 1 \in 0..Len(t)
  BY LenProperties, ElementOfSeq
<1>2. p \in Seq(S)
  BY <1>1, FirstFacts
<1>3. q = Append(p, e)
  BY PrefixAppend
<1> HIDE DEF p, q, e
<1>4. q = p \o <<e>> /\ <<e>> \in Seq(S)
  BY <1>1, <1>2, <1>3, AppendIsConcat
<1>5. s \o p \in Seq(S)
  BY <1>2, ConcatProperties
<1>6. s \o q = (s \o p) \o <<e>>
  BY <1>2, <1>4, ConcatAssociative
<1>7. s \o q = Append(s \o p, e)
  BY <1>1, <1>5, <1>6, AppendIsConcat
<1>. QED
  BY <1>5, <1>7 DEF p, q, e


LEMMA DataPush ==
  ASSUME NEW s \in Seq(Tokens), NEW f \in Labels, NEW j \in 1..Len(Script),
         NEW m \in [Addresses -> Data], NEW k \in 1..Len(Command(Script[j])),
         InOrder(s \o SubSeq(CommandTokens(Script[j]), 1, k - 1), f, Label(j, "dat", k, m))
  PROVE  InOrder(s \o SubSeq(CommandTokens(Script[j]), 1, k), f,
                 NextLabel(Label(j, "dat", k, m)))
<1> DEFINE T == CommandTokens(Script[j])
           l == Label(j, "dat", k, m)
<1>1. /\ T \in Seq(Tokens) /\ Len(T) = Len(Command(Script[j]))
      /\ \A i \in 1..Len(Command(Script[j])) : T[i] = Dat(Command(Script[j])[i])
  BY ScriptFacts, CommandTokensFacts
<1>2. /\ l \in Labels /\ l.job = j /\ l.at = "dat" /\ l.k = k
  <2>1. j \in 1..(Len(Script) + 1) /\ k \in Nat /\ "dat" \in Stages
    BY ScriptFacts DEF Stages
  <2>. QED
    BY <2>1, LabelType
<1> HIDE DEF T, l
<1>3. TokenOf(l) = T[k] /\ k \in 1..Len(T)
  BY <1>1, <1>2 DEF TokenOf
<1>4. /\ s \o SubSeq(T, 1, k) = Append(s \o SubSeq(T, 1, k - 1), TokenOf(l))
      /\ s \o SubSeq(T, 1, k - 1) \in Seq(Tokens)
  BY <1>1, <1>3, ConcatLast
<1>5. TokenOf(l) \in Tokens
  BY <1>1, <1>3, ElementOfSeq
<1>6. InOrder(s \o SubSeq(T, 1, k - 1), f, l)
  BY DEF T, l
<1>7. l.job <= Len(Script)
  BY <1>2, ScriptFacts
<1>8. InOrder(s \o SubSeq(T, 1, k), f, NextLabel(l))
  BY <1>2, <1>4, <1>5, <1>6, <1>7, InOrderAppend
<1>. QED
  BY <1>8 DEF T, l

LEMMA DataAll ==
  ASSUME NEW s \in Seq(Tokens), NEW f \in Labels, NEW j \in 1..Len(Script),
         NEW m \in [Addresses -> Data], InOrder(s, f, Label(j, "dat", 1, m))
  PROVE  InOrder(s \o CommandTokens(Script[j]), f,
                 NextLabel(Label(j, "dat", Len(Command(Script[j])), m)))
<1> DEFINE T == CommandTokens(Script[j])
           n == Len(Command(Script[j]))
           At(k) == InOrder(s \o SubSeq(T, 1, k - 1), f, Label(j, "dat", k, m))
           To(k) == InOrder(s \o SubSeq(T, 1, k), f, NextLabel(Label(j, "dat", k, m)))
<1>1. T \in Seq(Tokens) /\ Len(T) = n /\ n \in 1..3
  BY ScriptFacts, CommandTokensFacts, CommandFacts
<1>2. At(1)
  <2>1. SubSeq(T, 1, 1 - 1) = <<>>
    <3>1. 1 - 1 = 0 /\ 0 \in Int /\ 1 \in Int /\ 0 < 1
      OBVIOUS
    <3>. QED
      BY <3>1, SubSeqEmpty
  <2>2. s \o <<>> = s
    BY EmptyConcat
  <2>. QED
    BY <2>1, <2>2
<1>3. ASSUME NEW k \in 1..n, At(k) PROVE To(k)
  BY <1>3, DataPush
<1>4. ASSUME NEW k \in 1..n, k < n, To(k) PROVE At(k + 1)
  <2> DEFINE l == Label(j, "dat", k, m)
  <2>1. l.job = j /\ l.at = "dat" /\ l.k = k /\ l.m = m
    BY DEF Label
  <2>2. NextLabel(l) = Label(j, "dat", k + 1, m)
    BY <1>4, <2>1 DEF NextLabel
  <2>3. (k + 1) - 1 = k
    BY <1>1
  <2>. QED
    BY <1>4, <2>2, <2>3
<1> HIDE DEF At, To
<1>5. To(n)
  <2>1. CASE n = 1
    BY <1>2, <1>3, <2>1
  <2>2. CASE n = 2
    <3>1. 1 \in 1..n /\ 2 \in 1..n /\ 1 < n /\ 1 + 1 = 2
      BY <2>2
    <3>. QED
      BY <1>2, <1>3, <1>4, <2>2, <3>1
  <2>3. CASE n = 3
    <3>1. 1 \in 1..n /\ 2 \in 1..n /\ 3 \in 1..n /\ 1 < n /\ 2 < n /\ 1 + 1 = 2 /\ 2 + 1 = 3
      BY <2>3
    <3>2. At(2)
      BY <1>2, <1>3, <1>4, <3>1
    <3>3. At(3)
      BY <1>3, <1>4, <3>1, <3>2
    <3>. QED
      BY <1>3, <2>3, <3>1, <3>3
  <2>. QED
    BY <1>1, <2>1, <2>2, <2>3
<1>6. SubSeq(T, 1, n) = T
  BY <1>1, SubSeqFull
<1>. QED
  BY <1>5, <1>6 DEF To


LEMMA HostLabelFacts ==
  ASSUME HostTypes, pc \in InStream
  PROVE  /\ HostLabel \in Labels
         /\ HostLabel = Label(job, StageOf, IF pc = "wo_data" THEN 1 ELSE 0, shadow)
         /\ HostLabel.job = job /\ HostLabel.at = StageOf /\ HostLabel.m = shadow
<1>1. StageOf \in Stages
  BY DEF StageOf, Stages, InStream, InAccess
<1>2. (IF pc = "wo_data" THEN 1 ELSE 0) \in Nat
  OBVIOUS
<1>3. job \in 1..(Len(Script) + 1) /\ shadow \in [Addresses -> Data]
  BY DEF HostTypes
<1>. QED
  BY <1>1, <1>2, <1>3, LabelType DEF HostLabel

LEMMA HostLabelSame ==
  ASSUME UNCHANGED <<pc, job, shadow>>
  PROVE  HostLabel' = HostLabel
  BY DEF HostLabel, StageOf

(* A call of the host that writes the token its label names. *)
LEMMA HostWrites ==
  ASSUME TypeInv, AccessInv, StreamInv, ~disturbed', pc \in InStream \ {"ro_read"},
         job <= Len(Script),
         Write(<<TokenOf(HostLabel)>>), TokenOf(HostLabel) \in Tokens,
         HostLabel' = NextLabel(HostLabel)
  PROVE  OnStream(HostLabel)' /\ UNCHANGED <<usb, rx>> /\ ~disturbed /\ rx = <<>> /\ usb = <<>>
<1>1. PICK l \in Labels : l = HostLabel
  BY HostLabelFacts DEF TypeInv
<1>2. l.job = job /\ l.at = StageOf
  BY <1>1, HostLabelFacts DEF TypeInv
<1>3. tx \in Seq(Tokens) /\ <<TokenOf(l)>> \in Seq(Tokens) /\ TokenOf(l) \in Tokens
  BY <1>1, OneToken DEF TypeInv, ChipTypes
<1>4. Written(<<TokenOf(l)>>)
  BY <1>1, <1>3, WriteEffect
<1>5. ~disturbed
  BY <1>4 DEF Written
<1>6. OnStream(l) /\ rx = <<>> /\ usb = <<>>
  BY <1>1, <1>5 DEF StreamInv
<1>7. l.at = "rd" => AckUnits(Script[l.job]) > 0
  <2>1. l.at = "rd" => pc = "ro_header"
    BY <1>2 DEF StageOf, InStream, InAccess
  <2>. QED
    BY <1>2, <2>1 DEF AccessInv, Job
<1>8. l.at = "disable" /\ AckUnits(Script[l.job]) > 0 => tx = <<>>
  <2>1. l.at = "disable" => pc = "disable"
    BY <1>2 DEF StageOf, InStream, InAccess
  <2>. QED
    BY <1>2, <1>5, <2>1 DEF StreamInv, Job
<1>9. OnStream(NextLabel(l))' /\ UNCHANGED <<usb, rx, disturbed>>
  BY <1>2, <1>3, <1>4, <1>6, <1>7, <1>8, StreamWrite
<1>10. OnStream(HostLabel)'
  BY <1>1, <1>9 DEF OnStream
<1>. QED
  BY <1>5, <1>6, <1>9, <1>10

LEMMA WantedFacts ==
  ASSUME TypeInv, pc \in InAccess
  PROVE  /\ Wanted \in Seq(Tokens) /\ Len(Wanted) = AckUnits(Job)
         /\ AckUnits(Job) \in Nat
         /\ AckUnits(Job) = 0 => Wanted = <<>>
<1>1. Job \in Access /\ AckUnits(Job) \in Nat
  BY JobFacts, AccessFacts DEF TypeInv, AckUnits
<1>2. Reply(Job, shadow) \in Words
  <2>1. shadow \in [Addresses -> Data]
    BY DEF TypeInv, HostTypes
  <2>. QED
    BY <1>1, <2>1, AccessFacts DEF Reply, Words
<1>3. Wanted \in Seq(Tokens) /\ Len(Wanted) = AckUnits(Job)
  BY <1>1, <1>2, PartsFacts DEF Wanted
<1>. QED
  BY <1>1, <1>3, EmptySeq

LEMMA MoveOne ==
  ASSUME NEW S, NEW r \in Seq(S), NEW u \in Seq(S), u # <<>>
  PROVE  Append(r, Head(u)) \o Tail(u) = r \o u
<1> DEFINE h == Head(u)
           t == Tail(u)
<1>1. h \in S /\ t \in Seq(S) /\ u = <<h>> \o t
  BY HeadTailProperties
<1> HIDE DEF h, t
<1>2. <<h>> \in Seq(S) /\ Append(r, h) = r \o <<h>>
  BY <1>1, AppendIsConcat
<1>3. (r \o <<h>>) \o t = r \o (<<h>> \o t)
  BY <1>1, <1>2, ConcatAssociative
<1>. QED
  BY <1>1, <1>2, <1>3 DEF h, t


LEMMA StreamInvChip ==
  ASSUME TypeInv, TypeInv', AccessInv, StreamInv, CsBit < 8, Chip, UNCHANGED hostVars
  PROVE  StreamInv'
<1>1. /\ UNCHANGED <<pc, job, shadow, got, disturbed>>
      /\ ChipTypes /\ ChipTypes' /\ HostTypes
  BY DEF hostVars, TypeInv
<1>2. HostLabel' = HostLabel /\ Job' = Job /\ Wanted' = Wanted
  BY <1>1, HostLabelSame DEF Job, Wanted
<1>3. tx = <<>> => tx' = <<>>
  BY DEF Chip, StartUp, Lose, ShiftOut, Execute, Deliver
<1>4. ASSUME pc \in InStream, ~disturbed
      PROVE  /\ OnStream(HostLabel)'
             /\ pc # "ro_read" => rx' = <<>> /\ usb' = <<>>
             /\ pc = "ro_read"
                => IF tx' = <<>> THEN rx' \o usb' = Wanted ELSE rx' = <<>> /\ usb' = <<>>
  <2>1. PICK l \in Labels : l = HostLabel
    BY <1>1, <1>4, HostLabelFacts
  <2>2. l.job = job /\ l.at = StageOf /\ l.m = shadow
    BY <1>1, <1>4, <2>1, HostLabelFacts
  <2>3. mode = "mpsse" /\ \E f \in Labels : InOrder(tx, f, l) /\ ChipAt(f)
    BY <1>4, <2>1 DEF StreamInv, OnStream
  <2>4. PICK f \in Labels : InOrder(tx, f, l) /\ ChipAt(f)
    BY <2>3
  <2>5. /\ mode' = "mpsse"
        /\ \E g \in Labels : InOrder(tx', g, l) /\ ChipAt(g)'
        /\ \/ /\ UNCHANGED <<usb, rx>>
              /\ tx # <<>> /\ tx' = <<>> => f.at # "rd" /\ l = NextLabel(f)
           \/ /\ usb # <<>> /\ usb' = Tail(usb) /\ rx' = Append(rx, Head(usb))
              /\ tx' = tx
           \/ /\ tx # <<>> /\ tx' = <<>> /\ rx' = rx
              /\ f.at = "rd" /\ l = NextLabel(f) /\ AckUnits(Script[f.job]) > 0
              /\ usb' = usb \o Parts(Reply(Script[f.job], f.m), AckUnits(Script[f.job]))
    BY <1>1, <2>3, <2>4, StreamChip
  <2>6. OnStream(HostLabel)'
    BY <1>2, <2>1, <2>5 DEF OnStream
  <2>7. ASSUME tx # <<>>, f.at = "rd", l = NextLabel(f), AckUnits(Script[f.job]) > 0
        PROVE  pc = "ro_read" /\ f.job = job /\ f.m = shadow
    <3>1. l = Label(f.job, "disable", 0, f.m)
      BY <2>7 DEF NextLabel
    <3>2. l.job = f.job /\ l.at = "disable" /\ l.m = f.m
      BY <3>1 DEF Label
    <3>3. pc \in {"ro_read", "disable"}
      BY <1>4, <2>2, <3>2 DEF StageOf, InStream, InAccess
    <3>4. pc # "disable"
      BY <1>4, <2>2, <2>7, <3>2 DEF StreamInv, Job
    <3>. QED
      BY <2>2, <3>2, <3>3, <3>4
  <2>8. ASSUME pc # "ro_read" PROVE rx' = <<>> /\ usb' = <<>>
    BY <1>4, <2>5, <2>7, <2>8 DEF StreamInv
  <2>9. ASSUME pc = "ro_read"
        PROVE  IF tx' = <<>> THEN rx' \o usb' = Wanted ELSE rx' = <<>> /\ usb' = <<>>
    <3>1. IF tx = <<>> THEN rx \o usb = Wanted ELSE rx = <<>> /\ usb = <<>>
      BY <1>4, <2>9 DEF StreamInv
    <3>2. CASE /\ UNCHANGED <<usb, rx>>
               /\ tx # <<>> /\ tx' = <<>> => f.at # "rd" /\ l = NextLabel(f)
      <4>1. CASE tx = <<>>
        BY <1>3, <3>1, <3>2, <4>1
      <4>2. CASE tx # <<>> /\ tx' # <<>>
        BY <3>1, <3>2, <4>2
      <4>3. CASE tx # <<>> /\ tx' = <<>>
        <5>1. f.at # "rd" /\ l = NextLabel(f) /\ l.at = "disable" /\ AckUnits(Job) > 0
          BY <2>2, <2>9, <3>2, <4>3 DEF StageOf, AccessInv
        <5>2. f.at = "dat" /\ AckUnits(Script[f.job]) = 0 /\ l = Label(f.job, "disable", 0, f.m)
          <6>1. f.at \in Stages
            BY LabelParts
          <6>. QED
            BY <5>1, <6>1 DEF Stages, NextLabel, Label
        <5>3. l.job = f.job
          BY <5>2 DEF Label
        <5>. QED
          BY <2>2, <5>1, <5>2, <5>3 DEF Job
      <4>. QED
        BY <4>1, <4>2, <4>3
    <3>3. CASE /\ usb # <<>> /\ usb' = Tail(usb) /\ rx' = Append(rx, Head(usb))
               /\ tx' = tx
      <4>1. tx = <<>> /\ rx \o usb = Wanted
        BY <3>1, <3>3
      <4>2. Append(rx, Head(usb)) \o Tail(usb) = rx \o usb
        BY <1>1, <3>3, MoveOne DEF ChipTypes
      <4>. QED
        BY <3>3, <4>1, <4>2
    <3>4. CASE /\ tx # <<>> /\ tx' = <<>> /\ rx' = rx
               /\ f.at = "rd" /\ l = NextLabel(f) /\ AckUnits(Script[f.job]) > 0
               /\ usb' = usb \o Parts(Reply(Script[f.job], f.m), AckUnits(Script[f.job]))
      <4>1. f.job = job /\ f.m = shadow /\ rx = <<>> /\ usb = <<>>
        BY <2>7, <3>1, <3>4
      <4>2. usb' = <<>> \o Wanted /\ rx' = <<>>
        BY <3>4, <4>1 DEF Wanted, Job
      <4>3. Wanted \in Seq(Tokens)
        BY <2>9, WantedFacts DEF InAccess
      <4>4. <<>> \o Wanted = Wanted
        BY <4>3, EmptyConcat
      <4>. QED
        BY <3>4, <4>2, <4>4
    <3>. QED
      BY <2>5, <3>2, <3>3, <3>4
  <2>. QED
    BY <2>6, <2>8, <2>9
<1>5. ASSUME pc = "close", ~disturbed
      PROVE  (\/ tx = <<>>
              \/ tx \in Seq(EarlyTokens) /\ need = 0 /\ cs = "high"
              \/ \E l \in Labels : OnStream(l))'
  <2>1. CASE tx = <<>>
    BY <1>3, <2>1
  <2>2. CASE tx \in Seq(EarlyTokens) /\ need = 0 /\ cs = "high"
    BY <1>1, <2>2, EarlyChip
  <2>3. CASE \E l \in Labels : OnStream(l)
    <3>1. PICK l \in Labels, f \in Labels : mode = "mpsse" /\ InOrder(tx, f, l) /\ ChipAt(f)
      BY <2>3 DEF OnStream
    <3>2. mode' = "mpsse" /\ \E g \in Labels : InOrder(tx', g, l) /\ ChipAt(g)'
      BY <1>1, <3>1, StreamChip
    <3>3. OnStream(l)'
      BY <3>2 DEF OnStream
    <3>. QED
      BY <3>3
  <2>. QED
    BY <1>5, <2>1, <2>2, <2>3 DEF StreamInv
<1>6. pc = "disable" /\ ~disturbed => got = Wanted /\ (AckUnits(Job) > 0 => tx' = <<>>)
  BY <1>3 DEF StreamInv
<1>. QED
  BY <1>1, <1>2, <1>4, <1>5, <1>6 DEF StreamInv, InStream, InAccess


LEMMA AccessInit == Init => AccessInv
  BY DEF Init, AccessInv

LEMMA AccessFails ==
  ASSUME Fails
  PROVE  AccessInv'
  BY DEF Fails, AccessInv, InAccess

(* A call of the opening goes on in the opening. *)
LEMMA AccessOpening ==
  ASSUME AccessInv, pc \in Calls \ (InAccess \cup {"access", "close"}),
         pc' \in Calls \ {"ro_header", "ro_read"}, UNCHANGED <<job, got>>
  PROVE  AccessInv'
  BY DEF AccessInv, InAccess

LEMMA AccessStep == TypeInv /\ AccessInv /\ [Next]_vars => AccessInv'
<1> SUFFICES ASSUME TypeInv, AccessInv, [Next]_vars PROVE AccessInv'
  OBVIOUS
<1> USE DEF Calls, InAccess
<1>1. CASE UNCHANGED vars
  BY <1>1 DEF AccessInv, Job, vars, hostVars
<1>2. CASE Fails
  BY <1>2, AccessFails
<1>3. CASE \/ Open \/ PurgeQueue \/ PurgeRead \/ Setup \/ EnableMpsse
  BY <1>2, <1>3, AccessOpening DEF Open, PurgeQueue, PurgeRead, Setup, EnableMpsse
<1>4. CASE \/ Start \/ CountDevices \/ Settle \/ Gpio \/ EchoWrite \/ EchoQueue \/ EchoRead \/ Baudrate
  <2>1. /\ pc \in {"closed", "devices", "settle", "gpio", "echo", "echo_queue", "echo_read",
                   "baud"}
        /\ ~Fails
           => /\ pc' \in {"closed", "devices", "open", "gpio", "echo", "echo_queue", "echo_read", "close", "baud",
                          "loopback"}
              /\ UNCHANGED <<job, got>>
    BY <1>4 DEF Start, CountDevices, Settle, Gpio, EchoWrite, EchoQueue, EchoRead, Baudrate
  <2>. QED
    BY <1>2, <2>1, AccessOpening
<1>5. CASE (Loopback \/ CsEnable \/ WoHeader) /\ ~Fails
  BY <1>5 DEF Loopback, CsEnable, WoHeader, AccessInv
<1>6. CASE WoData /\ ~Fails
  <2>1. Job \in Access /\ Job' = Job
    BY <1>6, JobFacts DEF WoData, TypeInv, Job
  <2>2. AckUnits(Job) # 0 => AckUnits(Job) > 0
    BY <2>1, AccessFacts DEF AckUnits
  <2>. QED
    BY <1>6, <2>1, <2>2 DEF WoData, AccessInv
<1>7. CASE RoHeader /\ ~Fails
  BY <1>7 DEF RoHeader, AccessInv, Job
<1>8. CASE RoRead /\ ~Fails
  BY <1>8 DEF RoRead, RoTimeout, AccessInv
<1>9. CASE CsDisable /\ ~Fails
  BY <1>9 DEF CsDisable, AccessInv
<1>10. CASE Finish
  BY <1>10 DEF Finish, AccessInv
<1>11. CASE Close
  BY <1>11 DEF Close, AccessInv
<1>12. CASE Chip /\ UNCHANGED hostVars
  BY <1>12 DEF hostVars, AccessInv, Job
<1>. QED
  BY <1>1, <1>2, <1>3, <1>4, <1>5, <1>6, <1>7, <1>8, <1>9, <1>10, <1>11, <1>12 DEF Next, Host


(* The stream begins when FTDI_SPI_open has got past its echo checks. *)
LEMMA StreamBegins ==
  ASSUME TypeInv', SyncInv', AccessInv', pc' = "baud"
  PROVE  StreamInv'
<1> SUFFICES ASSUME ~disturbed' PROVE StreamInv'
  BY DEF StreamInv, InAccess
<1>1. /\ mode' = "mpsse" /\ tx' = <<>> /\ usb' = <<>> /\ need' = 0 /\ rx' = <<>>
      /\ cs' = "high" /\ regs' = shadow'
  BY DEF SyncInv, Drained
<1>2. PICK l \in Labels : l = HostLabel' /\ l.at = "div" /\ l.m = shadow'
  <2>1. HostLabel' = Label(job', "div", 0, shadow')
    BY DEF HostLabel, StageOf
  <2>2. job' \in 1..(Len(Script) + 1) /\ shadow' \in [Addresses -> Data] /\ "div" \in Stages
    BY DEF TypeInv, HostTypes, Stages
  <2>. QED
    BY <2>1, <2>2, LabelType
<1>3. InOrder(tx', l, l)
  BY <1>1, InOrderEmpty
<1>4. ChipAt(l)'
  BY <1>1, <1>2 DEF ChipAt
<1>5. OnStream(HostLabel)'
  BY <1>1, <1>2, <1>3, <1>4 DEF OnStream
<1>. QED
  BY <1>1, <1>5 DEF StreamInv, InAccess

LEMMA StreamFails ==
  ASSUME TypeInv, OpenInv, StreamInv, Fails, pc \in Calls \ {"closed", "close"}
  PROVE  StreamInv'
<1> SUFFICES ASSUME ~disturbed' PROVE StreamInv'
  BY DEF Fails, StreamInv, InStream, InAccess
<1>1. pc' = "close" /\ ~disturbed /\ UNCHANGED <<tx, usb, rx, mode, need, cs, frame, regs>>
  BY DEF Fails, chipVars
<1>2. CASE pc \in BeforeReset \cup BeforeEcho
  <2>1. tx' = <<>>
    BY <1>1, <1>2 DEF OpenInv
  <2>. QED
    BY <1>1, <2>1 DEF StreamInv, InStream, InAccess
<1>3. CASE pc \in InEcho
  <2>1. tx' \in Seq(EarlyTokens) /\ need' = 0 /\ cs' = "high"
    BY <1>1, <1>3 DEF OpenInv
  <2>. QED
    BY <1>1, <2>1 DEF StreamInv, InStream, InAccess
<1>4. CASE pc \in InStream
  <2>1. PICK l \in Labels : l = HostLabel
    BY <1>4, HostLabelFacts DEF TypeInv
  <2>2. OnStream(l)
    BY <1>1, <1>4, <2>1 DEF StreamInv
  <2>3. OnStream(l)'
    BY <1>1, <2>2 DEF OnStream, ChipAt
  <2>. QED
    BY <1>1, <2>3 DEF StreamInv, InStream, InAccess
<1>. QED
  BY <1>2, <1>3, <1>4 DEF Calls, BeforeReset, BeforeEcho, InEcho, InStream, InAccess

(* Outside the accesses and the close StreamInv asks for nothing. *)
LEMMA StreamOutside ==
  ASSUME pc' \notin InStream \cup {"close"}
  PROVE  StreamInv'
  BY DEF StreamInv, InStream, InAccess

(* The host has written the token of its label: it is at the next one.     *)
LEMMA StreamGoesOn ==
  ASSUME TypeInv, AccessInv, StreamInv, pc \in InStream \ {"ro_read"}, job <= Len(Script),
         Write(<<TokenOf(HostLabel)>>), TokenOf(HostLabel) \in Tokens,
         ~disturbed' => HostLabel' = NextLabel(HostLabel),
         pc' \in InStream \ {"disable", "ro_read"}
  PROVE  StreamInv'
<1>1. ASSUME ~disturbed'
      PROVE  OnStream(HostLabel)' /\ rx' = <<>> /\ usb' = <<>>
  BY <1>1, HostWrites
<1>. QED
  BY <1>1 DEF StreamInv, InStream, InAccess

LEMMA StreamBaudrate ==
  ASSUME TypeInv, AccessInv, StreamInv, Baudrate, ~Fails
  PROVE  StreamInv'
<1> DEFINE ts == <<Token("cfg", 0, "div")>>
<1>1. /\ pc = "baud" /\ UNCHANGED <<job, shadow>>
      /\ \/ Written(ts) /\ pc' = "loopback"
         \/ disturbed' = TRUE /\ pc' = "close"
  BY DEF Baudrate, WrittenShort
<1>2. CASE Written(ts) /\ pc' = "loopback"
  <2>1. job = 1 /\ job <= Len(Script)
    BY <1>1, ScriptFacts DEF AccessInv, Calls, InAccess
  <2>2. HostLabel = Label(job, "div", 0, shadow) /\ HostLabel' = Label(job, "loop", 0, shadow)
    BY <1>1, <1>2 DEF HostLabel, StageOf
  <2>3. TokenOf(HostLabel) = Token("cfg", 0, "div") /\ HostLabel' = NextLabel(HostLabel)
    BY <2>2 DEF TokenOf, NextLabel, Label
  <2>4. Token("cfg", 0, "div") \in Tokens
    BY TokenType DEF Words
  <2>5. Write(<<TokenOf(HostLabel)>>)
    BY <1>2, <2>3 DEF Write
  <2>. QED
    BY <1>1, <1>2, <2>1, <2>3, <2>4, <2>5, StreamGoesOn DEF InStream, InAccess
<1>3. CASE disturbed' = TRUE /\ pc' = "close"
  BY <1>3 DEF StreamInv, InStream, InAccess
<1>. QED
  BY <1>1, <1>2, <1>3

LEMMA StreamLoopback ==
  ASSUME TypeInv, AccessInv, StreamInv, Loopback, ~Fails
  PROVE  StreamInv'
<1>1. /\ pc = "loopback" /\ pc' = "access" /\ UNCHANGED <<job, shadow>>
      /\ Write(<<Token("cfg", 0, "loop")>>)
  BY DEF Loopback
<1>2. job = 1 /\ job <= Len(Script)
  BY <1>1, ScriptFacts DEF AccessInv, Calls, InAccess
<1>3. HostLabel = Label(job, "loop", 0, shadow) /\ HostLabel' = Label(job, "enable", 0, shadow)
  BY <1>1 DEF HostLabel, StageOf
<1>4. TokenOf(HostLabel) = Token("cfg", 0, "loop") /\ HostLabel' = NextLabel(HostLabel)
  BY <1>3 DEF TokenOf, NextLabel, Label
<1>5. Token("cfg", 0, "loop") \in Tokens
  BY TokenType DEF Words
<1>. QED
  BY <1>1, <1>2, <1>4, <1>5, StreamGoesOn DEF InStream, InAccess

LEMMA StreamEnable ==
  ASSUME TypeInv, AccessInv, StreamInv, CsEnable, ~Fails
  PROVE  StreamInv'
<1>1. /\ pc = "access" /\ pc' = "wo_header" /\ UNCHANGED <<job, shadow>> /\ job <= Len(Script)
      /\ Write(<<Token("gpio", 0, CsLevel(TRUE))>>)
  BY DEF CsEnable
<1>2. HostLabel = Label(job, "enable", 0, shadow) /\ HostLabel' = Label(job, "wr", 0, shadow)
  BY <1>1 DEF HostLabel, StageOf
<1>3. TokenOf(HostLabel) = Token("gpio", 0, CsLevel(TRUE)) /\ HostLabel' = NextLabel(HostLabel)
  BY <1>2 DEF TokenOf, NextLabel, Label
<1>4. Token("gpio", 0, CsLevel(TRUE)) \in Tokens
  BY LevelType, GpioType
<1>. QED
  BY <1>1, <1>3, <1>4, StreamGoesOn DEF InStream, InAccess

LEMMA StreamWoHeader ==
  ASSUME TypeInv, AccessInv, StreamInv, WoHeader, ~Fails
  PROVE  StreamInv'
<1>1. /\ pc = "wo_header" /\ pc' = "wo_data" /\ UNCHANGED <<job, shadow>>
      /\ Write(<<Token("wr", WriteAsked(Job), "wr")>>)
  BY DEF WoHeader
<1>2. Job \in Access /\ job <= Len(Script) /\ Job = Script[job]
  BY <1>1, JobFacts DEF TypeInv, InAccess
<1>3. HostLabel = Label(job, "wr", 0, shadow) /\ HostLabel' = Label(job, "dat", 1, shadow)
  BY <1>1 DEF HostLabel, StageOf
<1>4. TokenOf(HostLabel) = Token("wr", WriteAsked(Job), "wr") /\ HostLabel' = NextLabel(HostLabel)
  BY <1>2, <1>3 DEF TokenOf, NextLabel, Label
<1>5. Token("wr", WriteAsked(Job), "wr") \in Tokens
  <2>1. WriteAsked(Job) \in Nat
    BY <1>2, CommandFacts DEF WriteAsked
  <2>. QED
    BY <2>1, TokenType DEF Words
<1>. QED
  BY <1>1, <1>2, <1>4, <1>5, StreamGoesOn DEF InStream, InAccess

LEMMA StreamDisable ==
  ASSUME TypeInv, AccessInv, StreamInv, CsDisable, ~Fails
  PROVE  StreamInv'
<1>1. /\ pc = "disable" /\ pc' = "access" /\ job' = job + 1
      /\ shadow' = IF Job.op = "write" THEN [shadow EXCEPT ![Job.addr] = Job.val] ELSE shadow
      /\ Write(<<Token("gpio", 0, CsLevel(FALSE))>>)
  BY DEF CsDisable
<1>2. Job \in Access /\ job <= Len(Script) /\ Job = Script[job]
  BY <1>1, JobFacts DEF TypeInv, InAccess
<1>3. HostLabel = Label(job, "disable", 0, shadow) /\ shadow' = After(Script[job], shadow)
  BY <1>1, <1>2 DEF HostLabel, StageOf, After
<1>4. HostLabel' = Label(job + 1, "enable", 0, After(Script[job], shadow))
  BY <1>1, <1>3 DEF HostLabel, StageOf
<1>5. TokenOf(HostLabel) = Token("gpio", 0, CsLevel(FALSE)) /\ HostLabel' = NextLabel(HostLabel)
  BY <1>3, <1>4 DEF TokenOf, NextLabel, Label
<1>6. Token("gpio", 0, CsLevel(FALSE)) \in Tokens
  BY LevelType, GpioType
<1>. QED
  BY <1>1, <1>2, <1>5, <1>6, StreamGoesOn DEF InStream, InAccess


LEMMA StreamWoData ==
  ASSUME TypeInv, AccessInv, StreamInv, WoData, ~Fails
  PROVE  StreamInv'
<1> DEFINE C == Command(Job)
           T == CommandTokens(Job)
<1>1. /\ pc = "wo_data" /\ UNCHANGED <<job, got, shadow>> /\ Write(T)
      /\ pc' = IF AckUnits(Job) = 0 THEN "disable" ELSE "ro_header"
  BY DEF WoData, CommandTokens
<1>2. Job \in Access /\ job \in 1..Len(Script) /\ Job = Script[job] /\ Job' = Job
  <2>1. Job \in Access /\ job <= Len(Script) /\ Job = Script[job]
    BY <1>1, JobFacts DEF TypeInv, InAccess
  <2>2. job \in 1..(Len(Script) + 1) /\ Len(Script) \in Nat
    BY ScriptFacts DEF TypeInv, HostTypes
  <2>. QED
    BY <1>1, <2>1, <2>2 DEF Job
<1>3. T \in Seq(Tokens) /\ tx \in Seq(Tokens) /\ shadow \in [Addresses -> Data]
  BY <1>2, CommandTokensFacts DEF TypeInv, ChipTypes, HostTypes
<1> SUFFICES ASSUME ~disturbed' PROVE StreamInv'
  BY <1>1 DEF StreamInv, InStream, InAccess
<1>4. Written(T)
  BY <1>1, <1>3, WriteEffect
<1>5. /\ tx' = tx \o T /\ disturbed' = disturbed
      /\ UNCHANGED <<usb, rx, mode, need, cs, frame, regs>>
  BY <1>4 DEF Written
<1>6. OnStream(HostLabel) /\ rx = <<>> /\ usb = <<>>
  BY <1>1, <1>5 DEF StreamInv, InStream, InAccess
<1>7. HostLabel = Label(job, "dat", 1, shadow)
  BY <1>1 DEF HostLabel, StageOf
<1>8. PICK f \in Labels : InOrder(tx, f, Label(job, "dat", 1, shadow)) /\ ChipAt(f)
  BY <1>6, <1>7 DEF OnStream
<1>9. InOrder(tx', f, NextLabel(Label(job, "dat", Len(Command(Script[job])), shadow)))
  BY <1>2, <1>3, <1>5, <1>8, DataAll
<1>10. HostLabel' = NextLabel(Label(job, "dat", Len(Command(Script[job])), shadow))
  <2> DEFINE l == Label(job, "dat", Len(Command(Script[job])), shadow)
  <2>1. l.job = job /\ l.at = "dat" /\ l.k = Len(Command(Script[job])) /\ l.m = shadow
    BY DEF Label
  <2>2. ~ (Len(Command(Script[job])) < Len(Command(Script[job])))
    <3>1. Len(Command(Script[job])) \in 1..3
      BY <1>2, CommandFacts
    <3>. QED
      BY <3>1
  <2>3. NextLabel(l) = IF AckUnits(Script[job]) = 0 THEN Label(job, "disable", 0, shadow)
                       ELSE Label(job, "rd", 0, shadow)
    BY <2>1, <2>2 DEF NextLabel
  <2>4. HostLabel' = IF AckUnits(Script[job]) = 0 THEN Label(job, "disable", 0, shadow)
                     ELSE Label(job, "rd", 0, shadow)
    BY <1>1, <1>2 DEF HostLabel, StageOf
  <2>. QED
    BY <2>3, <2>4
<1>11. OnStream(HostLabel)'
  <2>1. ChipAt(f)' /\ mode' = "mpsse"
    BY <1>5, <1>6, <1>8 DEF ChipAt, OnStream
  <2>. QED
    BY <1>9, <1>10, <2>1 DEF OnStream
<1>12. pc' = "disable" => got' = Wanted' /\ AckUnits(Job)' = 0
  <2>1. Wanted' = Wanted
    BY <1>1, <1>2 DEF Wanted
  <2>2. AckUnits(Job) = 0 => Wanted = <<>>
    BY <1>1, WantedFacts DEF InAccess
  <2>3. got = <<>>
    BY <1>1 DEF AccessInv
  <2>. QED
    BY <1>1, <1>2, <2>1, <2>2, <2>3
<1>. QED
  BY <1>1, <1>5, <1>6, <1>11, <1>12 DEF StreamInv, InStream, InAccess

LEMMA StreamRoHeader ==
  ASSUME TypeInv, AccessInv, StreamInv, RoHeader, ~Fails
  PROVE  StreamInv'
<1>1. /\ pc = "ro_header" /\ pc' = "ro_read" /\ UNCHANGED <<job, shadow>>
      /\ Write(<<Token("rd", ReadAsked(Job), "rd")>>)
  BY DEF RoHeader
<1>2. Job \in Access /\ job <= Len(Script) /\ Job = Script[job] /\ AckUnits(Job) > 0
  BY <1>1, JobFacts DEF TypeInv, InAccess, AccessInv
<1>3. HostLabel = Label(job, "rd", 0, shadow) /\ HostLabel' = Label(job, "disable", 0, shadow)
  BY <1>1 DEF HostLabel, StageOf
<1>4. TokenOf(HostLabel) = Token("rd", ReadAsked(Job), "rd") /\ HostLabel' = NextLabel(HostLabel)
  BY <1>2, <1>3 DEF TokenOf, NextLabel, Label
<1> SUFFICES ASSUME ~disturbed' PROVE StreamInv'
  BY <1>1 DEF StreamInv, InStream, InAccess
<1>5. Token("rd", ReadAsked(Job), "rd") \in Tokens
  <2>1. ReadAsked(Job) \in Nat
    BY <1>2, AccessFacts DEF ReadAsked, AckUnits
  <2>. QED
    BY <2>1, TokenType DEF Words
<1>6. OnStream(HostLabel)' /\ rx' = <<>> /\ usb' = <<>>
  BY <1>1, <1>2, <1>4, <1>5, HostWrites DEF InStream, InAccess
<1>7. tx' # <<>>
  <2> DEFINE c == Token("rd", ReadAsked(Job), "rd")
  <2>1. c \in Tokens /\ tx \in Seq(Tokens) /\ Write(<<c>>)
    BY <1>1, <1>5 DEF TypeInv, ChipTypes
  <2> HIDE DEF c
  <2>2. <<c>> \in Seq(Tokens)
    BY <2>1, OneToken
  <2>3. tx' = tx \o <<c>>
    BY <2>1, <2>2, WriteEffect DEF Written
  <2>4. tx' = Append(tx, c)
    BY <2>1, <2>3, AppendIsConcat
  <2>. QED
    BY <2>1, <2>4, AppendProperties
<1>. QED
  BY <1>1, <1>6, <1>7 DEF StreamInv, InStream, InAccess

LEMMA StreamRoRead ==
  ASSUME TypeInv, AccessInv, StreamInv, RoRead, ~Fails
  PROVE  StreamInv'
<1>1. pc = "ro_read" /\ pc' = "disable" /\ UNCHANGED <<job, shadow>>
  BY DEF RoRead, RoTimeout
<1> SUFFICES ASSUME ~disturbed' PROVE StreamInv'
  BY <1>1 DEF StreamInv, InStream, InAccess
<1> DEFINE n == AckUnits(Job)
<1>2. /\ Len(rx) >= n /\ Take(n) /\ got' = SubSeq(rx, 1, n)
      /\ disturbed' = disturbed
  BY DEF RoRead, RoTimeout
<1>3. UNCHANGED <<tx, usb, mode, need, cs, frame, regs>> /\ rx' = SubSeq(rx, n + 1, Len(rx))
  BY <1>2 DEF Take
<1>4. /\ Wanted \in Seq(Tokens) /\ Len(Wanted) = n /\ n \in Nat /\ n > 0
      /\ rx \in Seq(Tokens) /\ usb \in Seq(Tokens)
  BY <1>1, WantedFacts DEF InAccess, AccessInv, TypeInv, ChipTypes
<1> HIDE DEF n
<1>5. tx = <<>> /\ rx \o usb = Wanted
  <2>1. IF tx = <<>> THEN rx \o usb = Wanted ELSE rx = <<>> /\ usb = <<>>
    BY <1>1, <1>2 DEF StreamInv
  <2>2. rx # <<>>
    BY <1>2, <1>4
  <2>. QED
    BY <2>1, <2>2
<1>6. Len(rx) = n /\ Len(usb) = 0
  <2>1. Len(rx) + Len(usb) = n
    BY <1>4, <1>5, ConcatProperties
  <2>2. Len(rx) \in Nat /\ Len(usb) \in Nat
    BY <1>4, LenProperties
  <2>3. \A a, b, c \in Nat : a + b = c /\ a >= c => a = c /\ b = 0
    OBVIOUS
  <2>. QED
    BY <1>2, <1>4, <2>1, <2>2, <2>3
<1>7. usb = <<>> /\ rx = Wanted
  <2>1. usb = <<>>
    BY <1>4, <1>6, EmptySeq
  <2>2. rx \o <<>> = rx
    BY <1>4, EmptyConcat
  <2>. QED
    BY <1>5, <2>1, <2>2
<1>8. rx' = <<>> /\ got' = Wanted
  <2>1. rx' = <<>>
    BY <1>3, <1>4, <1>6, TakeFacts
  <2>2. SubSeq(rx, 1, Len(rx)) = rx
    BY <1>4, SubSeqFull
  <2>. QED
    BY <1>2, <1>6, <1>7, <2>1, <2>2 DEF n
<1>9. HostLabel' = HostLabel /\ Wanted' = Wanted
  BY <1>1 DEF HostLabel, StageOf, Wanted, Job
<1>10. OnStream(HostLabel)'
  <2>1. OnStream(HostLabel)
    BY <1>1, <1>2 DEF StreamInv, InStream, InAccess
  <2>2. PICK f \in Labels : InOrder(tx, f, HostLabel) /\ ChipAt(f)
    BY <2>1 DEF OnStream
  <2>3. ChipAt(f)' /\ mode' = "mpsse"
    BY <1>3, <2>1, <2>2 DEF ChipAt, OnStream
  <2>. QED
    BY <1>3, <1>9, <2>2, <2>3 DEF OnStream
<1>. QED
  BY <1>1, <1>3, <1>5, <1>7, <1>8, <1>9, <1>10 DEF StreamInv, InStream, InAccess


LEMMA StreamInit == Init => StreamInv
  BY DEF Init, StreamInv, InStream, InAccess

LEMMA StreamStep ==
  ASSUME CsBit < 8, TypeInv, TypeInv', OpenInv, SyncInv', AccessInv, AccessInv', StreamInv,
         [Next]_vars
  PROVE  StreamInv'
<1>1. CASE UNCHANGED vars
  <2>1. /\ UNCHANGED <<tx, usb, rx, mode, need, cs, frame, regs>>
        /\ UNCHANGED <<pc, job, got, disturbed, shadow>>
    BY <1>1 DEF vars, chipVars, hostVars
  <2>2. HostLabel' = HostLabel /\ Job' = Job /\ Wanted' = Wanted
    BY <2>1, HostLabelSame DEF Job, Wanted
  <2>3. \A l \in Labels : OnStream(l)' <=> OnStream(l)
    BY <2>1 DEF OnStream, ChipAt
  <2>4. OnStream(HostLabel) => OnStream(HostLabel)'
    BY <2>1, <2>2 DEF OnStream, ChipAt
  <2>. QED
    BY <2>1, <2>2, <2>3, <2>4 DEF StreamInv
<1>2. ASSUME Fails, Host PROVE StreamInv'
  <2>1. pc \in Calls \ {"closed", "close"}
    BY <1>2 DEF Host, Fails, Open, PurgeQueue, PurgeRead, Setup, EnableMpsse, Settle, Gpio,
       EchoWrite, EchoQueue, EchoRead, Baudrate, Loopback, CsEnable, WoHeader, WoData,
       RoHeader, RoRead, CsDisable, Finish, Close, Calls
  <2>. QED
    BY <1>2, <2>1, StreamFails
<1>3. CASE \/ Start \/ CountDevices
           \/ ((Open \/ PurgeQueue \/ PurgeRead \/ Setup \/ EnableMpsse \/ Settle) /\ ~Fails)
  <2>1. pc' \in {"closed", "devices", "open", "purge", "purge_read", "setup", "mpsse",
                "settle", "gpio"}
    BY <1>3 DEF Start, CountDevices, Open, PurgeQueue, PurgeRead, Setup, EnableMpsse, Settle
  <2>. QED
    BY <2>1, StreamOutside DEF InStream, InAccess
<1>4. CASE (Gpio \/ EchoWrite \/ EchoQueue) /\ ~Fails
  <2>1. pc' \in InEcho
    BY <1>4 DEF Gpio, EchoWrite, EchoQueue, InEcho
  <2>. QED
    BY <2>1, StreamOutside DEF InStream, InAccess, InEcho
<1>5. CASE EchoRead /\ ~Fails
  <2>1. /\ pc = "echo_read" /\ pc' \in {"close", "echo", "baud"}
        /\ UNCHANGED <<tx, need, cs>>
    BY <1>5 DEF EchoRead, Take
  <2>2. CASE pc' = "close"
    <3>1. tx' \in Seq(EarlyTokens) /\ need' = 0 /\ cs' = "high"
      BY <2>1 DEF OpenInv, InEcho
    <3>. QED
      BY <2>2, <3>1 DEF StreamInv, InStream, InAccess
  <2>3. CASE pc' = "echo"
    BY <2>3, StreamOutside DEF InStream, InAccess
  <2>4. CASE pc' = "baud"
    BY <2>4, StreamBegins
  <2>. QED
    BY <2>1, <2>2, <2>3, <2>4
<1>6. CASE Baudrate /\ ~Fails
  BY <1>6, StreamBaudrate
<1>7. CASE Loopback /\ ~Fails
  BY <1>7, StreamLoopback
<1>8. CASE CsEnable /\ ~Fails
  BY <1>8, StreamEnable
<1>9. CASE WoHeader /\ ~Fails
  BY <1>9, StreamWoHeader
<1>10. CASE WoData /\ ~Fails
  BY <1>10, StreamWoData
<1>11. CASE RoHeader /\ ~Fails
  BY <1>11, StreamRoHeader
<1>12. CASE RoRead /\ ~Fails
  BY <1>12, StreamRoRead
<1>13. CASE CsDisable /\ ~Fails
  BY <1>13, StreamDisable
<1>14. CASE Finish
  <2>1. /\ pc = "access" /\ pc' = "close" /\ disturbed' = disturbed
        /\ UNCHANGED <<tx, mode, need, cs, frame, regs>>
    BY <1>14 DEF Finish, chipVars
  <2>2. PICK l \in Labels : l = HostLabel
    BY <2>1, HostLabelFacts DEF TypeInv, InStream
  <2>3. ~disturbed => OnStream(l)
    BY <2>1, <2>2 DEF StreamInv, InStream
  <2>4. OnStream(l) => OnStream(l)'
    BY <2>1 DEF OnStream, ChipAt
  <2>. QED
    BY <2>1, <2>3, <2>4 DEF StreamInv, InStream, InAccess
<1>15. CASE Close
  BY <1>15, StreamOutside DEF Close, InStream, InAccess
<1>16. CASE Chip /\ UNCHANGED hostVars
  BY <1>16, StreamInvChip
<1>. QED
  BY <1>1, <1>2, <1>3, <1>4, <1>5, <1>6, <1>7, <1>8, <1>9, <1>10, <1>11, <1>12, <1>13,
     <1>14, <1>15, <1>16 DEF Next, Host

LEMMA StreamInvariant ==
  ASSUME CsBit < 8
  PROVE  Spec => [](TypeInv /\ OpenInv /\ AccessInv /\ StreamInv)
<1>1. Init => AccessInv /\ StreamInv
  BY AccessInit, StreamInit
<1>2. TypeInv /\ AccessInv /\ [Next]_vars => AccessInv'
  BY AccessStep
<1>3. /\ TypeInv /\ TypeInv' /\ OpenInv /\ SyncInv' /\ AccessInv /\ AccessInv' /\ StreamInv
      /\ [Next]_vars
      => StreamInv'
  BY StreamStep
<1>. QED
  BY <1>1, <1>2, <1>3, TypeInvariant, OpenInvariant, SyncInvariant, PTL DEF Spec

(* With a chip select on one of the pins __CS_set drives: in a run in which *)
(* no short count was taken for a success, what __exch_rw reads is the      *)
(* whole answer to its own command and holds the register's present value,  *)
(* whatever an earlier run, program or failed call has left behind.         *)
THEOREM ReadsFresh ==
  ASSUME CsBit < 8
  PROVE  Spec => []ReadsAreFresh
<1>1. StreamInv => ReadsAreFresh
  BY DEF StreamInv, ReadsAreFresh, Wanted, Reply
<1>. QED
  BY <1>1, StreamInvariant, PTL

(* With such a chip select: whenever the chip has caught up between two     *)
(* accesses, the device is released and all writes of the run are in its    *)
(* registers.                                                               *)
THEOREM WritesArrive ==
  ASSUME CsBit < 8
  PROVE  Spec => []EveryWriteArrives
<1>1. TypeInv /\ StreamInv => EveryWriteArrives
  <2> SUFFICES ASSUME TypeInv, StreamInv, pc = "access", Drained, ~disturbed
               PROVE  cs = "high" /\ regs = shadow
    BY DEF EveryWriteArrives
  <2>1. PICK l \in Labels : l = HostLabel
    BY HostLabelFacts DEF TypeInv, InStream
  <2>2. l.at = "enable" /\ l.m = shadow
    BY <2>1, HostLabelFacts DEF TypeInv, InStream, StageOf
  <2>3. PICK f \in Labels : InOrder(tx, f, l) /\ ChipAt(f)
    BY <2>1 DEF StreamInv, OnStream, InStream
  <2>4. f = l
    BY <2>3, InOrderNone DEF Drained
  <2>. QED
    BY <2>2, <2>3, <2>4 DEF ChipAt
<1>. QED
  BY <1>1, StreamInvariant, PTL


(* With such a chip select: the device is selected whenever a byte of a     *)
(* command is shifted out to it, and has taken in the whole command when    *)
(* its answer is clocked in.                                                *)
THEOREM CsFrames ==
  ASSUME CsBit < 8
  PROVE  Spec => []CsFramesData
<1> DEFINE Framed == /\ need > 0 => cs = "low"
                     /\ need = 0 /\ Head(tx).t = "rd" => cs = "low" /\ Answer(frame) # "junk"
<1>1. ASSUME TypeInv, tx # <<>>, tx \in Seq(EarlyTokens), need = 0 PROVE Framed
  <2>1. Head(tx) \in EarlyTokens
    BY <1>1, HeadFacts
  <2>. QED
    BY <1>1, <2>1, EarlyTokenParts
<1>2. ASSUME TypeInv, tx # <<>>, NEW l \in Labels, OnStream(l) PROVE Framed
  <2>1. PICK f \in Labels : InOrder(tx, f, l) /\ ChipAt(f)
    BY <1>2 DEF OnStream
  <2>2. /\ Head(tx) = TokenOf(f) /\ f.job <= Len(Script)
        /\ f.at = "rd" => AckUnits(Script[f.job]) > 0
    BY <1>2, <2>1, InOrderTail DEF TypeInv, ChipTypes
  <2>3. need > 0 => f.at = "dat"
    BY <2>1 DEF ChipAt
  <2>4. cs = "low" <=> f.at \notin {"div", "loop", "enable"}
    BY <2>1 DEF ChipAt
  <2>5. ASSUME need = 0, Head(tx).t = "rd" PROVE cs = "low" /\ Answer(frame) # "junk"
    <3>1. f.at = "rd"
      BY <2>2, <2>5, LabelParts DEF TokenOf, Token, Dat, Stages
    <3>2. cs = "low" /\ frame = Command(Script[f.job]) /\ Script[f.job] \in Access
      BY <2>1, <2>2, <3>1, LabelParts, ScriptFacts DEF ChipAt
    <3>3. PICK j \in Access : j = Script[f.job]
      BY <3>2
    <3>4. AckUnits(j) > 0 /\ frame = Command(j)
      BY <2>2, <3>1, <3>2, <3>3
    <3>5. Answer(frame) = Reply(j, regs)
      BY <3>2, <3>4, AnswerIsReply
    <3>6. j.op \in {"id", "read"}
      BY <3>4, AccessFacts DEF AckUnits
    <3>7. Reply(j, regs) \in {Id} \cup Data
      BY <1>2, <3>6, AccessFacts DEF Reply, TypeInv, ChipTypes
    <3>. QED
      BY <3>2, <3>5, <3>7, DataAssumption DEF Id
  <2>. QED
    BY <2>3, <2>4, <2>5
<1>3. TypeInv /\ OpenInv /\ StreamInv => CsFramesData
  <2> SUFFICES ASSUME TypeInv, OpenInv, StreamInv, tx # <<>>, ~disturbed, pc # "closed"
               PROVE  Framed
    BY DEF CsFramesData
  <2> HIDE DEF Framed
  <2>1. CASE pc \in InStream
    <3>1. PICK l \in Labels : l = HostLabel
      BY <2>1, HostLabelFacts DEF TypeInv
    <3>2. OnStream(l)
      BY <2>1, <3>1 DEF StreamInv
    <3>. QED
      BY <1>2, <3>2
  <2>2. CASE pc \in InEcho
    BY <1>1, <2>2 DEF OpenInv
  <2>3. CASE pc = "close"
    BY <1>1, <1>2, <2>3 DEF StreamInv
  <2>4. pc \in InStream \cup InEcho \cup {"close"}
    BY DEF OpenInv, TypeInv, HostTypes, Calls, InStream, InAccess, InEcho, BeforeEcho, BeforeReset
  <2>. QED
    BY <2>1, <2>2, <2>3, <2>4
<1>. QED
  BY <1>3, StreamInvariant, PTL

=============================================================================
