---------------------------- MODULE SpiPort_proof ----------------------------
(***************************************************************************)
(* Proofs about the port, for every clock, byte, word, length and rate:    *)
(* what open takes is released, the variables keep their types, the rates  *)
(* that can be expressed come out right, and the port implements SpiMaster *)
(* by BusInv, which says at each step of a transfer which of its bits have *)
(* crossed and which are still in the receive queue.                       *)
(***************************************************************************)
EXTENDS SpiPort, SequenceTheorems, WellFoundedInduction, TLAPS

-----------------------------------------------------------------------------
(* Arithmetic of quotients and of the two bytes of a length.               *)

LEMMA Quotient ==
  ASSUME NEW a \in Nat, NEW b \in Nat \ {0}
  PROVE  a \div b \in Nat /\ b * (a \div b) <= a /\ a < b * (a \div b) + b
  OBVIOUS

(* A quotient lies below what its dividend lies below a multiple of. *)
LEMMA QuotientBelow ==
  ASSUME NEW a \in Nat, NEW b \in Nat \ {0}, NEW c \in Nat, a < b * c
  PROVE  a \div b < c
<1> DEFINE q == a \div b
<1>1. q \in Nat /\ b * q <= a
  BY Quotient
<1> HIDE DEF q
<1>2. SUFFICES ASSUME q >= c PROVE FALSE
  BY <1>1 DEF q
<1>3. b * q >= b * c
  BY <1>1, <1>2
<1>. QED
  BY <1>1, <1>3

(* Two bytes hold less than the square of the radix. *)
LEMMA TwoBytesRange ==
  ASSUME NEW x \in Int
  PROVE  TwoBytes(x) \in 0..(Radix * Radix - 1)
<1> DEFINE low == x % Radix
           high == (x \div Radix) % Radix
<1>1. low \in 0..(Radix - 1) /\ high \in 0..(Radix - 1)
  BY BitsAssumption
<1>2. TwoBytes(x) = low + Radix * high
  BY DEF TwoBytes
<1> HIDE DEF low, high
<1>3. Radix \in Nat /\ Radix * high \in 0..(Radix * (Radix - 1))
  BY <1>1, BitsAssumption
<1>4. Radix * (Radix - 1) = Radix * Radix - Radix /\ Radix * Radix \in Nat
  BY <1>3
<1>. QED
  BY <1>1, <1>2, <1>3, <1>4

(* Below the square of the radix nothing is cut off. *)
LEMMA TwoBytesExact ==
  ASSUME NEW x \in 0..(Radix * Radix - 1)
  PROVE  TwoBytes(x) = x
<1> DEFINE q == x \div Radix
<1>1. x \in Nat /\ Radix \in Nat \ {0} /\ x < Radix * Radix
  BY BitsAssumption
<1>2. q \in Nat /\ q < Radix
  BY <1>1, Quotient, QuotientBelow
<1>3. x = Radix * q + (x % Radix)
  BY <1>1
<1> HIDE DEF q
<1>4. q % Radix = q
  BY <1>1, <1>2
<1>5. x % Radix \in Nat /\ Radix * q \in Nat
  BY <1>1, <1>2
<1>. QED
  BY <1>3, <1>4, <1>5 DEF TwoBytes, q

-----------------------------------------------------------------------------
(* What is taken, by where the port is. *)
PortInv ==
  /\ handle \in {"null", "open"}
  /\ handle = "null" => pc \in {"idle", "malloc", "inital", "echo", "close_ft", "undo"}
  /\ handle = "open" => pc \notin {"malloc", "inital", "echo", "close_ft", "undo"}
  /\ taken = [ft  |-> IF handle = "open" \/ pc # "idle" THEN 1 ELSE 0,
              mem |-> IF handle = "open" \/ pc \in {"inital", "echo", "undo"} THEN 1 ELSE 0]

LEMMA PortInit == Init => PortInv
  BY DEF Init, PortInv

(* A step of open or close moves what is taken with pc and handle. *)
LEMMA PortStep == PortInv /\ [Next]_vars => PortInv'
<1> SUFFICES ASSUME PortInv, [Next]_vars PROVE PortInv'
  OBVIOUS
<1>1. CASE FTDI_SPI_open
  BY <1>1 DEF FTDI_SPI_open, PortInv
<1>2. CASE Malloc
  BY <1>2 DEF Malloc, PortInv
<1>3. CASE spi_inital
  BY <1>3 DEF spi_inital, PortInv
<1>4. CASE check_echo
  BY <1>4 DEF check_echo, PortInv
<1>5. CASE Undo
  BY <1>5 DEF Undo, PortInv
<1>6. CASE FTDI_SPI_close
  BY <1>6 DEF FTDI_SPI_close, PortInv
<1>7. CASE FTDI_SPI_mode_set \/ FTDI_SPI_baudrate_set \/ CsSet
  BY <1>7 DEF FTDI_SPI_mode_set, FTDI_SPI_baudrate_set, CsSet, CommandLost, Astray,
              Call, PortInv
<1>8. CASE FTDI_SPI_wo \/ FTDI_SPI_ro
  BY <1>8 DEF FTDI_SPI_wo, FTDI_SPI_ro, Transfer, Out, In, Call, PortInv
<1>9. CASE WoHeader \/ WoData \/ WoTail
  BY <1>9 DEF WoHeader, WoData, WoTail, TransferStep, CommandLost, Astray, AfterBytes, Out, PortInv
<1>10. CASE RoHeader \/ RoData \/ RoTail \/ RoBit
  BY <1>10 DEF RoHeader, RoData, RoTail, RoBit, Read, TransferStep, CommandLost, Astray,
               AfterBytes, In, PortInv
<1>11. CASE CallFails
  BY <1>11 DEF CallFails, PortInv
<1>12. CASE UNCHANGED vars
  BY <1>12 DEF vars, PortInv
<1>. QED
  BY <1>1, <1>2, <1>3, <1>4, <1>5, <1>6, <1>7, <1>8, <1>9, <1>10, <1>11, <1>12 DEF Next

(***************************************************************************)
(* Wherever open stops and whatever fails, the FT handle and the memory    *)
(* are given back, and an open port has one of each.                       *)
(***************************************************************************)
THEOREM OpenReleases == Spec => []PortReleases
<1>1. PortInv => PortReleases
  BY DEF PortInv, PortReleases
<1>. QED
  BY PortInit, PortStep, <1>1, PTL DEF Spec

-----------------------------------------------------------------------------
(* The half period of the last rate is computed from it. *)
RateInv ==
  \/ rate = NoRate
  \/ /\ rate.bps \in 1..(Word - 1) /\ (2 * rate.bps) % Word # 0
     /\ rate = [bps |-> rate.bps, half |-> HalfPeriod(DivF(rate.bps))]

(* Only a rate set changes it, and it sets both. *)
LEMMA RateStep == RateInv /\ [Next]_vars => RateInv'
<1> SUFFICES ASSUME RateInv, [Next]_vars PROVE RateInv'
  OBVIOUS
<1>1. CASE UNCHANGED rate
  BY <1>1 DEF RateInv
<1>2. CASE FTDI_SPI_baudrate_set
  <2>1. PICK bps \in Rates \ {0} :
          \/ UNCHANGED rate
          \/ /\ (2 * bps) % Word # 0
             /\ rate' = [bps |-> bps, half |-> HalfPeriod(DivF(bps))]
    BY <1>2 DEF FTDI_SPI_baudrate_set
  <2>2. bps \in 1..(Word - 1)
    BY RequestsAssumption, WordAssumption
  <2>3. ASSUME (2 * bps) % Word # 0, rate' = [bps |-> bps, half |-> HalfPeriod(DivF(bps))]
        PROVE  RateInv'
    <3>1. rate'.bps = bps
      BY <2>3
    <3>. QED
      BY <3>1, <2>2, <2>3 DEF RateInv
  <2>. QED
    BY <1>1, <2>1, <2>3
<1>3. CASE FTDI_SPI_open \/ Malloc \/ spi_inital \/ check_echo \/ Undo \/ FTDI_SPI_close
           \/ FTDI_SPI_mode_set \/ CsSet \/ CallFails
  BY <1>1, <1>3 DEF FTDI_SPI_open, Malloc, spi_inital, check_echo, Undo, FTDI_SPI_close,
                    FTDI_SPI_mode_set, CsSet, CallFails
<1>4. CASE FTDI_SPI_wo \/ FTDI_SPI_ro
  BY <1>1, <1>4 DEF FTDI_SPI_wo, FTDI_SPI_ro, Transfer
<1>5. CASE WoHeader \/ WoData \/ WoTail \/ RoHeader \/ RoData \/ RoTail \/ RoBit
  BY <1>1, <1>5 DEF WoHeader, WoData, WoTail, RoHeader, RoData, RoTail, RoBit, TransferStep
<1>6. CASE UNCHANGED vars
  BY <1>1, <1>6 DEF vars
<1>. QED
  BY <1>2, <1>3, <1>4, <1>5, <1>6 DEF Next

(* Up to the master clock nothing wraps, and div_f is a true quotient. *)
LEMMA DivFOfRate ==
  ASSUME NEW bps \in 1..Freq
  PROVE  /\ Freq + bps \in Nat /\ 2 * bps \in Nat \ {0}
         /\ DivF(bps) = (Freq + bps) \div (2 * bps)
<1>1. Freq + bps \in 0..(Word - 1) /\ 2 * bps \in 1..(Word - 1) /\ Word \in Nat \ {0}
  BY WordAssumption
<1>2. (Freq + bps) % Word = Freq + bps /\ (2 * bps) % Word = 2 * bps
  BY <1>1
<1>. QED
  BY <1>1, <1>2 DEF DivF

(* The divider loses nothing while it fits: with the clock as it is the     *)
(* half period is the quotient, with the clock divided the quotient cut to  *)
(* a multiple of five.                                                      *)
LEMMA HalfOfDivF ==
  ASSUME NEW q \in Nat \ {0}, q < 5 * (Radix * Radix + 1)
  PROVE  HalfPeriod(q) = IF q > Radix * Radix THEN 5 * (q \div 5) ELSE q
<1> DEFINE R2 == Radix * Radix
<1>1. R2 \in Nat /\ R2 >= 4
  <2>1. Radix \in Nat /\ Radix >= 2
    BY BitsAssumption
  <2>2. Radix * Radix >= 2 * Radix
    BY <2>1
  <2>. QED
    BY <2>1, <2>2
<1>2. \A x \in 0..(R2 - 1) : TwoBytes(x) = x
  BY TwoBytesExact
<1>3. CASE q > R2
  <2> DEFINE f == q \div 5
  <2>1. f \in Nat /\ 5 * f <= q /\ q < 5 * f + 5
    BY Quotient
  <2>2. q < 5 * (R2 + 1)
    OBVIOUS
  <2> HIDE DEF f, R2
  <2>3. f - 1 \in 0..(R2 - 1)
    BY <1>1, <1>3, <2>1, <2>2
  <2>4. TwoBytes(f - 1) + 1 = f
    BY <1>2, <2>1, <2>3
  <2>. QED
    BY <1>3, <2>4 DEF HalfPeriod, f, R2
<1>4. CASE ~(q > R2)
  <2> HIDE DEF R2
  <2>1. q - 1 \in 0..(R2 - 1)
    BY <1>1, <1>4
  <2>2. TwoBytes(q - 1) + 1 = q
    BY <1>2, <2>1
  <2>. QED
    BY <1>4, <2>2 DEF HalfPeriod, R2
<1>. QED
  BY <1>3, <1>4

(* What was computed from a rate that can be expressed is right. *)
LEMMA RateFollows == RateInv => RateIsRight
<1> DEFINE bps == rate.bps
           half == rate.half
           asExact == Freq + bps < 2 * bps * (Radix * Radix + 1)
           expressible == Freq + bps < 2 * bps * 5 * (Radix * Radix + 1)
<1>1. SUFFICES ASSUME RateInv, bps \in 1..Freq, expressible
               PROVE  /\ 2 * bps * half <= Freq + bps
                      /\ Freq + bps < 2 * bps * (half + IF asExact THEN 1 ELSE 5)
  BY DEF RateIsRight
<1>2. rate # NoRate
  BY <1>1 DEF NoRate
<1>3. half = HalfPeriod(DivF(bps))
  <2>1. rate = [bps |-> bps, half |-> HalfPeriod(DivF(bps))]
    BY <1>1, <1>2 DEF RateInv
  <2>. QED
    BY <2>1
<1> DEFINE a == Freq + bps
           b == 2 * bps
           q == a \div b
           R2 == Radix * Radix
<1>4. a \in Nat /\ b \in Nat \ {0} /\ DivF(bps) = q
  BY <1>1, DivFOfRate
<1>5. R2 \in Nat
  BY BitsAssumption
<1>6. q \in Nat /\ b * q <= a /\ a < b * q + b
  BY <1>4, Quotient
<1>7. b <= a
  BY <1>1, WordAssumption
<1>8. a < b * (5 * (R2 + 1)) /\ (asExact <=> a < b * (R2 + 1))
  <2>1. bps \in Nat /\ R2 + 1 \in Nat
    BY <1>1, <1>5, WordAssumption
  <2> HIDE DEF bps, R2
  <2>2. 2 * bps * 5 * (R2 + 1) = 2 * bps * (5 * (R2 + 1))
    BY <2>1
  <2>. QED
    BY <1>1, <2>2 DEF R2, bps
<1>9. HalfPeriod(q) = IF q > R2 THEN 5 * (q \div 5) ELSE q
  <2>1. 5 * (R2 + 1) \in Nat
    BY <1>5
  <2>2. q < 5 * (R2 + 1)
    BY <1>4, <1>8, <2>1, QuotientBelow
  <2>3. q # 0
    BY <1>4, <1>6, <1>7
  <2>. QED
    BY <1>6, <2>2, <2>3, HalfOfDivF
<1>10. CASE q > R2
  <2> DEFINE f == q \div 5
  <2>1. f \in Nat /\ 5 * f <= q /\ q < 5 * f + 5
    BY <1>6, Quotient
  <2>2. half = 5 * f
    BY <1>3, <1>4, <1>9, <1>10
  <2>3. ~ asExact
    BY <1>4, <1>5, <1>8, <1>10, QuotientBelow
  <2> HIDE DEF f, q, a, b, R2
  <2>4. b * (5 * f) <= b * q /\ b * (q + 1) <= b * (5 * f + 5)
    BY <1>4, <1>6, <2>1
  <2>5. b * (q + 1) = b * q + b
    BY <1>4, <1>6
  <2>6. b * half <= a /\ a < b * (half + 5)
    BY <1>4, <1>6, <2>1, <2>2, <2>4, <2>5
  <2>. QED
    BY <2>3, <2>6 DEF a, b
<1>11. CASE ~(q > R2)
  <2>1. half = q
    BY <1>3, <1>4, <1>9, <1>11
  <2> HIDE DEF q, a, b, R2
  <2>2. b * (q + 1) = b * q + b /\ b * (q + 1) <= b * (q + 5)
    BY <1>4, <1>6
  <2>3. b * half <= a /\ a < b * (half + 1) /\ a < b * (half + 5)
    BY <1>4, <1>6, <2>1, <2>2
  <2>. QED
    BY <2>3 DEF a, b
<1>. QED
  BY <1>10, <1>11

(***************************************************************************)
(* For every master clock, every width of the divider and every rate it    *)
(* can express, the period chosen is the nearest from below, or less than  *)
(* five ticks of the master clock from it.                                 *)
(***************************************************************************)
THEOREM RatesAreRight == Spec => []RateIsRight
<1>1. Init => RateInv
  BY DEF Init, RateInv
<1>. QED
  BY <1>1, RateStep, RateFollows, PTL DEF Spec

-----------------------------------------------------------------------------
(* Types.  That what was asked for is as long as the last transfer and what *)
(* came before it needs that asked is a sequence.                           *)
Bit == [dir : {"in", "out"}, pos : Nat, edge : Edges]

TypeInv == TypeOK /\ asked \in Seq(Bit)

(* The divider bounds the half period. *)
LEMMA HalfPeriodRange ==
  ASSUME NEW f \in Int
  PROVE  HalfPeriod(f) \in 1..(5 * Radix * Radix)
<1> DEFINE R2 == Radix * Radix
<1>1. TwoBytes(f - 1) \in 0..(R2 - 1) /\ TwoBytes((f \div 5) - 1) \in 0..(R2 - 1)
  BY TwoBytesRange
<1>2. R2 \in Nat /\ 5 * Radix * Radix = 5 * R2
  BY BitsAssumption
<1> HIDE DEF R2
<1>. QED
  BY <1>1, <1>2 DEF HalfPeriod, R2

(* A header announces no more than the square of the radix. *)
LEMMA HeaderRange ==
  ASSUME NEW n \in Int
  PROVE  HeaderLength(n) \in 0..(Radix * Radix)
<1>1. Bytes(n) - 1 \in Int
  BY BitsAssumption DEF Bytes
<1>2. TwoBytes(Bytes(n) - 1) \in 0..(Radix * Radix - 1)
  BY <1>1, TwoBytesRange
<1>3. Radix * Radix \in Nat
  BY BitsAssumption
<1>. QED
  BY <1>2, <1>3 DEF HeaderLength

(* A transfer asks for as many bits as it is long. *)
LEMMA AskedGrows ==
  ASSUME NEW s \in Seq(Bit), NEW n \in Nat, NEW d \in {"in", "out"}, NEW e \in Edges
  PROVE  LET t == s \o Run(d, Len(s) + 1, Len(s) + n, e)
         IN  t \in Seq(Bit) /\ Len(t) = Len(s) + n
<1> DEFINE r == Run(d, Len(s) + 1, Len(s) + n, e)
<1>1. Len(s) \in Nat /\ (Len(s) + n) - (Len(s) + 1) + 1 = n
  OBVIOUS
<1>2. r = [i \in 1..n |-> [dir |-> d, pos |-> (Len(s) + 1) + i - 1, edge |-> e]]
  BY <1>1 DEF Run
<1>3. \A i \in 1..n : [dir |-> d, pos |-> (Len(s) + 1) + i - 1, edge |-> e] \in Bit
  BY <1>1 DEF Bit
<1>4. r \in [1..n -> Bit]
  BY <1>2, <1>3
<1> HIDE DEF r
<1>5. r \in Seq(Bit) /\ Len(r) = n
  BY <1>4
<1>. QED
  BY <1>5 DEF r

(* A transfer has a natural number of bits. *)
LEMMA JobLength ==
  ASSUME TypeOK
  PROVE  job.n \in Nat
<1>1. job.n \in Requests \cup {0}
  BY DEF TypeOK
<1>2. \A x \in Requests : x \in Nat
  BY RequestsAssumption, WordAssumption
<1>. QED
  BY <1>1, <1>2

(* Every step keeps the types. *)
LEMMA TypeStep == TypeInv /\ PortInv' /\ [Next]_vars => TypeInv'
<1> SUFFICES ASSUME TypeInv, PortInv', [Next]_vars PROVE TypeInv'
  OBVIOUS
<1>1. taken' \in [ft : 0..1, mem : 0..1] /\ handle' \in {"null", "open"}
  BY DEF PortInv
<1> USE DEF TypeInv, TypeOK
<1>2. CASE FTDI_SPI_open \/ Malloc \/ check_echo \/ Undo \/ CallFails
  BY <1>1, <1>2 DEF FTDI_SPI_open, Malloc, check_echo, Undo, CallFails, chipVars, busVars, NoMode
<1>3. CASE spi_inital
  <2>1. 0 \in 0..(Radix * Radix)
    BY BitsAssumption
  <2>. QED
    BY <1>1, <1>3, <2>1 DEF spi_inital, chipVars, busVars
<1>4. CASE FTDI_SPI_close \/ CsSet
  <2>1. job' = NoJob /\ asked' = <<>>
    BY <1>4 DEF FTDI_SPI_close, CsSet
  <2>2. /\ job' \in [n : Requests \cup {0}, base : Nat, nth : 0..MaxTransfers]
        /\ Len(asked') = job'.base + job'.n /\ asked' \in Seq(Bit)
    BY <2>1, RequestsAssumption DEF NoJob
  <2>3. pc' \in {"idle", "astray"} /\ need' = need
    BY <1>4 DEF FTDI_SPI_close, CsSet, CommandLost, Astray, Call, chipVars
  <2>. QED
    BY <1>1, <1>4, <2>2, <2>3 DEF FTDI_SPI_close, CsSet
<1>5. CASE FTDI_SPI_mode_set
  BY <1>1, <1>5 DEF FTDI_SPI_mode_set, Call, __cmd, NoMode, chipVars, busVars
<1>6. CASE FTDI_SPI_baudrate_set
  <2>1. PICK bps \in Rates \ {0} :
          \/ UNCHANGED rate
          \/ /\ (2 * bps) % Word # 0
             /\ rate' = [bps |-> bps, half |-> HalfPeriod(DivF(bps))]
    BY <1>6 DEF FTDI_SPI_baudrate_set
  <2>2. bps \in 0..(Word - 1)
    BY RequestsAssumption
  <2>3. ASSUME (2 * bps) % Word # 0, rate' = [bps |-> bps, half |-> HalfPeriod(DivF(bps))]
        PROVE  rate' \in [bps : 0..(Word - 1), half : 1..(5 * Radix * Radix)]
    <3>1. (2 * bps) % Word \in Nat \ {0} /\ (Freq + bps) % Word \in Nat
      BY <2>2, <2>3, WordAssumption
    <3>2. DivF(bps) \in Int
      BY <3>1 DEF DivF
    <3>3. HalfPeriod(DivF(bps)) \in 1..(5 * Radix * Radix)
      BY <3>2, HalfPeriodRange
    <3>. QED
      BY <2>2, <2>3, <3>3
  <2>4. rate' \in [bps : 0..(Word - 1), half : 1..(5 * Radix * Radix)]
    BY <2>1, <2>3
  <2>5. pc' \in {"idle", "undef", "astray"} /\ need' = need
    BY <1>6 DEF FTDI_SPI_baudrate_set, Call, Astray, chipVars
  <2>. QED
    BY <1>1, <1>6, <2>4, <2>5 DEF FTDI_SPI_baudrate_set, Call, busVars
<1>7. ASSUME NEW d \in {Out, In}, NEW n \in Requests, NEW e \in Edges, Transfer(d, n, e)
      PROVE  TypeInv'
  <2>1. CASE p_cmd = NoMode
    BY <1>1, <1>7, <2>1 DEF Transfer, Call, chipVars, busVars
  <2>2. CASE p_cmd # NoMode
    <3>1. n \in Nat /\ d.dir \in {"in", "out"}
      BY RequestsAssumption, WordAssumption DEF Out, In
    <3>2. asked' = asked \o Run(d.dir, Len(asked) + 1, Len(asked) + n, e)
      BY <1>7, <2>2 DEF Transfer
    <3>3. asked' \in Seq(Bit) /\ Len(asked') = Len(asked) + n
      BY <3>1, <3>2, AskedGrows
    <3>4. job' = [n |-> n, base |-> Len(asked), nth |-> job.nth + 1]
      BY <1>7, <2>2 DEF Transfer
    <3>5. job' \in [n : Requests \cup {0}, base : Nat, nth : 0..MaxTransfers]
      BY <1>7, <3>4, RequestsAssumption DEF Transfer
    <3>6. pc' \in {"out_header", "out_tail", "in_header", "in_tail"}
      BY <1>7, <2>2 DEF Transfer, Out, In
    <3>. QED
      BY <1>1, <1>7, <3>3, <3>4, <3>5, <3>6 DEF Transfer, chipVars
  <2>. QED
    BY <2>1, <2>2
<1>8. CASE FTDI_SPI_wo \/ FTDI_SPI_ro
  <2>1. OutEdge(p_cmd) \in Edges /\ InEdge(p_cmd) \in Edges
    BY DEF OutEdge, InEdge, Edges
  <2>. QED
    BY <1>7, <1>8, <2>1 DEF FTDI_SPI_wo, FTDI_SPI_ro
<1>9. CASE WoHeader \/ RoHeader
  <2>1. job.n \in Int
    BY JobLength
  <2>2. HeaderLength(job.n) \in 0..(Radix * Radix)
    BY <2>1, HeaderRange
  <2>. QED
    BY <1>1, <1>9, <2>2 DEF WoHeader, RoHeader, TransferStep, CommandLost, Astray, chipVars
<1>10. CASE WoData
  <2>1. job.n \in Nat
    BY JobLength
  <2>2. Bytes(job.n) \in Nat
    BY <2>1, BitsAssumption, Quotient DEF Bytes
  <2>3. Radix * Radix \in Nat
    BY BitsAssumption
  <2>4. need' \in 0..(Radix * Radix)
    <3>1. PICK m \in 0..Bytes(job.n) :
            need' = need \/ (~(m > need) /\ need' = need - m)
      BY <1>10 DEF WoData, Astray, chipVars
    <3>. QED
      BY <2>2, <2>3, <3>1
  <2>. QED
    BY <1>1, <1>10, <2>4 DEF WoData, TransferStep, Astray, AfterBytes, Out
<1>11. CASE WoTail \/ RoData \/ RoTail \/ RoBit
  BY <1>1, <1>11
    DEF WoTail, RoData, RoTail, RoBit, Read, TransferStep, CommandLost, Astray, AfterBytes, In,
        chipVars
<1>12. CASE UNCHANGED vars
  BY <1>12 DEF vars, chipVars, busVars
<1>. QED
  BY <1>2, <1>3, <1>4, <1>5, <1>6, <1>8, <1>9, <1>10, <1>11, <1>12 DEF Next

(* The types at the start. *)
LEMMA TypesInit == Init => TypeInv
<1> SUFFICES ASSUME Init PROVE TypeInv
  OBVIOUS
<1>1. job = NoJob /\ asked = <<>>
  BY DEF Init
<1>2. /\ job \in [n : Requests \cup {0}, base : Nat, nth : 0..MaxTransfers]
      /\ Len(asked) = job.base + job.n /\ asked \in Seq(Bit)
  BY <1>1, RequestsAssumption DEF NoJob
<1>3. Radix * Radix \in Nat /\ 5 * Radix * Radix \in Nat \ {0}
  <2>1. Radix \in Nat /\ Radix >= 2
    BY BitsAssumption
  <2>2. Radix * Radix \in Nat \ {0}
    BY <2>1
  <2>. QED
    BY <2>1, <2>2
<1>4. 0 \in 0..(Word - 1) /\ 1 \in 1..(5 * Radix * Radix) /\ 0 \in 0..(Radix * Radix)
  BY <1>3, WordAssumption
<1>. QED
  BY <1>4, <1>2 DEF Init, TypeInv, TypeOK, NoRate, NoMode

(* The types, for every byte and word: no header announces more than its    *)
(* two bytes can, and no half period is longer than the divider makes it.   *)
THEOREM PortTypes == Spec => []TypeOK
<1>1. TypeInv => TypeOK
  BY DEF TypeInv
<1>. QED
  BY <1>1, TypesInit, PortInit, PortStep, TypeStep, PTL DEF Spec

-----------------------------------------------------------------------------
(* The port implements SpiMaster.  While what it promises holds, the bits   *)
(* that have crossed are the first Crossed ones of those asked for, the     *)
(* chip takes as data what the host sends as data, and what the host has    *)
(* not read yet is Coming.                                                  *)

OfBytes == {"out_header", "out_data", "in_header", "in_data"}
OfTail == {"out_tail", "in_tail", "in_bit"}
Outward == {"out_header", "out_data", "out_tail"}
Transferring == OfBytes \cup OfTail

Crossed ==
  IF pc \in OfBytes THEN job.base ELSE IF pc \in OfTail THEN LastOfBytes ELSE Len(asked)

(* The bytes of m times W bits from position b on. *)
InBytes(b, m, e) == [k \in 1..m |-> Run("in", b + W * (k - 1), b + W * k - 1, e)]

Coming ==
  IF pc = "in_data" THEN InBytes(job.base + 1, Bytes(job.n), InEdge(p_cmd))
  ELSE IF pc = "in_bit" THEN <<Run("in", LastOfBytes + 1, LastOfJob, InEdge(p_cmd))>>
  ELSE <<>>

(* The bits a + 1 to b are those of a transfer in one direction. *)
Asks(s, a, b, d, e) == \A i \in (a + 1)..b : s[i] = [dir |-> d, pos |-> i, edge |-> e]

JobAsked ==
  IF pc \in Outward THEN Asks(asked, job.base, LastOfJob, "out", OutEdge(p_cmd))
                    ELSE Asks(asked, job.base, LastOfJob, "in", InEdge(p_cmd))

(* w is the first c members of s. *)
Begins(w, s, c) == w \in Seq(Bit) /\ Len(w) = c /\ c <= Len(s) /\ \A i \in 1..c : w[i] = s[i]

BusInv ==
  /\ handle = "null" => asked = <<>> /\ wire = <<>> /\ good
  /\ pc = "echo" => need = 0 /\ rx = <<>>
  /\ good => pc # "astray"
  /\ good /\ handle = "open" /\ pc \in Transferring \cup {"idle"} =>
       /\ Begins(wire, asked, Crossed)
       /\ need = (IF pc = "out_data" THEN Bytes(job.n) ELSE 0)
       /\ rx = Coming
  /\ good /\ pc \in Transferring =>
       /\ p_cmd \in 0..3 /\ job.n \in 1..Limit
       /\ pc \in OfBytes => Bytes(job.n) > 0
       /\ pc \in OfTail => TailBits(job.n) > 0
       /\ JobAsked

(* A set of numbers that is not empty has a least one. *)
LEMMA LeastNumber ==
  ASSUME NEW S \in SUBSET Nat, S # {}
  PROVE  \E x \in S : \A y \in S : x <= y
<1> DEFINE Less == OpToRel(<, Nat)
<1>1. IsWellFoundedOn(Less, Nat)
  BY NatLessThanWellFounded, Zenon
<1>2. \A x, y \in Nat : x < y => <<x, y>> \in Less
  BY Zenon DEF OpToRel
<1> HIDE DEF Less
<1>3. PICK x \in S : \A y \in S : ~ (<<y, x>> \in Less)
  BY <1>1, WFMin
<1>4. ASSUME NEW y \in S
      PROVE  x <= y
  <2>1. x \in Nat /\ y \in Nat /\ ~(y < x)
    BY <1>2, <1>3
  <2>. QED
    BY <2>1
<1>. QED
  BY <1>4

(* Induction over a set of numbers, given as a set. *)
LEMMA NumberInduction ==
  ASSUME NEW X, 0 \in X, \A i \in Nat : i \in X => i + 1 \in X
  PROVE  \A i \in Nat : i \in X
<1> DEFINE Left == Nat \ X
<1>1. SUFFICES ASSUME Left # {} PROVE FALSE
  OBVIOUS
<1>2. PICK x \in Left : \A y \in Left : x <= y
  BY <1>1, LeastNumber
<1>3. x - 1 \in Nat /\ x - 1 < x
  BY <1>2
<1>4. x - 1 \in X
  BY <1>2, <1>3
<1>. QED
  BY <1>2, <1>3, <1>4

(* v, of length m, is the n bits of s and then those of t. *)
IsJoined(v, s, t, n, m) ==
  /\ v \in Seq(Bit) /\ Len(v) = m
  /\ \A i \in 1..m : i <= n => v[i] = s[i]
  /\ \A i \in 1..m : ~(i <= n) => v[i] = t[i - n]

(* Two sequences, one after the other. *)
LEMMA Joined ==
  ASSUME NEW s \in Seq(Bit), NEW t \in Seq(Bit)
  PROVE  IsJoined(s \o t, s, t, Len(s), Len(s) + Len(t))
<1>1. /\ s \o t \in Seq(Bit) /\ Len(s \o t) = Len(s) + Len(t)
      /\ \A i \in 1..(Len(s) + Len(t)) :
           (s \o t)[i] = IF i <= Len(s) THEN s[i] ELSE t[i - Len(s)]
  BY ConcatProperties, Zenon
<1>. QED
  BY <1>1 DEF IsJoined

(* r is the bits a to b, one after the other. *)
IsRun(r, d, a, b, e) ==
  /\ r \in Seq(Bit) /\ Len(r) = b - a + 1
  /\ \A i \in 1..(b - a + 1) : r[i] = [dir |-> d, pos |-> a + i - 1, edge |-> e]

(* Run makes a run. *)
LEMMA RunFacts ==
  ASSUME NEW d \in {"in", "out"}, NEW e \in Edges, NEW a \in Nat \ {0}, NEW b \in Nat, a <= b + 1
  PROVE  IsRun(Run(d, a, b, e), d, a, b, e)
<1> DEFINE m == b - a + 1
           r == Run(d, a, b, e)
<1>1. m \in Nat
  OBVIOUS
<1>2. r = [i \in 1..m |-> [dir |-> d, pos |-> a + i - 1, edge |-> e]]
  BY DEF Run
<1>3. \A i \in 1..m : [dir |-> d, pos |-> a + i - 1, edge |-> e] \in Bit
  BY <1>1 DEF Bit
<1> HIDE DEF m, r
<1>4. r \in [1..m -> Bit]
  BY <1>2, <1>3
<1>5. r \in Seq(Bit) /\ Len(r) = m
  BY <1>1, <1>4
<1>. QED
  BY <1>2, <1>5 DEF IsRun, m, r

(* Two runs that meet are one. *)
LEMMA RunsJoin ==
  ASSUME NEW d \in {"in", "out"}, NEW e \in Edges,
         NEW a \in Nat \ {0}, NEW b \in Nat, NEW c \in Nat, a <= b + 1, b <= c
  PROVE  Run(d, a, b, e) \o Run(d, b + 1, c, e) = Run(d, a, c, e)
<1> DEFINE r == Run(d, a, b, e)
           s == Run(d, b + 1, c, e)
           t == Run(d, a, c, e)
           n == b - a + 1
           m == c - a + 1
<1>1. IsRun(r, d, a, b, e) /\ IsRun(t, d, a, c, e)
  BY RunFacts
<1>2. IsRun(s, d, b + 1, c, e)
  <2>1. b + 1 \in Nat \ {0} /\ b + 1 <= c + 1
    OBVIOUS
  <2>. QED
    BY <2>1, RunFacts
<1>3. /\ n \in Nat /\ m \in Nat /\ n <= m /\ c - (b + 1) + 1 = m - n
      /\ \A i \in (n + 1)..m : i - n \in 1..(m - n) /\ (b + 1) + (i - n) - 1 = a + i - 1
  OBVIOUS
<1> HIDE DEF r, s, t
<1>4. /\ r \in Seq(Bit) /\ Len(r) = n
      /\ \A i \in 1..n : r[i] = [dir |-> d, pos |-> a + i - 1, edge |-> e]
  BY <1>1 DEF IsRun
<1>5. /\ t \in Seq(Bit) /\ Len(t) = m
      /\ \A i \in 1..m : t[i] = [dir |-> d, pos |-> a + i - 1, edge |-> e]
  BY <1>1 DEF IsRun
<1>6. /\ s \in Seq(Bit) /\ Len(s) = m - n
      /\ \A i \in 1..(m - n) : s[i] = [dir |-> d, pos |-> (b + 1) + i - 1, edge |-> e]
  BY <1>2, <1>3 DEF IsRun
<1> HIDE DEF n, m
<1>7. /\ r \o s \in Seq(Bit) /\ Len(r \o s) = m
      /\ \A i \in 1..m : i <= n => (r \o s)[i] = r[i]
      /\ \A i \in 1..m : ~(i <= n) => (r \o s)[i] = s[i - n]
  <2>1. n = Len(r) /\ m = Len(r) + Len(s)
    BY <1>3, <1>4, <1>6
  <2>2. r \in Seq(Bit) /\ s \in Seq(Bit)
    BY <1>4, <1>6
  <2>3. IsJoined(r \o s, r, s, n, m)
    BY <2>1, <2>2, Joined
  <2>. QED
    BY <2>3 DEF IsJoined
<1>8. ASSUME NEW i \in 1..m PROVE (r \o s)[i] = t[i]
  <2>1. CASE i <= n
    BY <1>3, <1>4, <1>5, <1>7, <2>1
  <2>2. CASE ~(i <= n)
    <3>1. i \in (n + 1)..m
      BY <1>3, <2>2
    <3>. QED
      BY <1>3, <1>5, <1>6, <1>7, <2>2, <3>1
  <2>. QED
    BY <2>1, <2>2
<1>9. r \o s = t
  BY <1>5, <1>7, <1>8, SeqEqual
<1>. QED
  BY <1>9 DEF r, s, t

(* FlattenSeq is the last member of any sequence that adds up its argument. *)
IsFlat(g, seqs) ==
  g = [i \in 1..Len(seqs) |-> IF i = 1 THEN seqs[i] ELSE g[i - 1] \o seqs[i]]

(* FlattenSeq's recursion has one solution, and g is it. *)
LEMMA FlatIs ==
  ASSUME NEW S, NEW seqs \in Seq(S), Len(seqs) # 0, NEW g, IsFlat(g, seqs)
  PROVE  FlattenSeq(seqs) = g[Len(seqs)]
<1> DEFINE f == CHOOSE h : IsFlat(h, seqs)
           m == Len(seqs)
<1>1. IsFlat(f, seqs)
  OBVIOUS
<1>2. FlattenSeq(seqs) = f[m]
  BY Zenon DEF FlattenSeq, IsFlat
<1>3. m \in Nat \ {0}
  OBVIOUS
<1> HIDE DEF f, m
<1> DEFINE Same == {i \in Nat : i + 1 \in 1..m => f[i + 1] = g[i + 1]}
<1>4. \A i \in 1..m : /\ f[i] = IF i = 1 THEN seqs[i] ELSE f[i - 1] \o seqs[i]
                      /\ g[i] = IF i = 1 THEN seqs[i] ELSE g[i - 1] \o seqs[i]
  BY <1>1 DEF IsFlat, m
<1>5. 0 \in Same
  BY <1>4
<1>6. \A i \in Nat : i \in Same => i + 1 \in Same
  <2> SUFFICES ASSUME NEW i \in Nat, i \in Same, (i + 1) + 1 \in 1..m
               PROVE  f[(i + 1) + 1] = g[(i + 1) + 1]
    OBVIOUS
  <2>1. f[i + 1] = g[i + 1] /\ ((i + 1) + 1) - 1 = i + 1 /\ (i + 1) + 1 # 1
    BY <1>3
  <2>. QED
    BY <1>4, <2>1
<1>7. \A i \in Nat : i \in Same
  <2> HIDE DEF Same
  <2>. QED
    BY <1>5, <1>6, NumberInduction
<1>8. m - 1 \in Nat /\ (m - 1) + 1 = m
  BY <1>3
<1>9. f[m] = g[m]
  <2>1. m - 1 \in Same /\ m \in 1..m
    BY <1>3, <1>7, <1>8
  <2>. QED
    BY <1>8, <2>1
<1>. QED
  BY <1>2, <1>9 DEF m

(* The bytes clocked in are their bits. *)
LEMMA BytesFlat ==
  ASSUME NEW b \in Nat \ {0}, NEW m \in Nat \ {0}, NEW e \in Edges
  PROVE  /\ InBytes(b, m, e) \in Seq(Seq(Bit)) /\ Len(InBytes(b, m, e)) = m
         /\ FlattenSeq(InBytes(b, m, e)) = Run("in", b, b + W * m - 1, e)
<1> DEFINE s == InBytes(b, m, e)
           Start(k) == b + W * (k - 1)
           End(k) == b + W * k - 1
           g == [k \in 1..m |-> Run("in", b, End(k), e)]
<1>1. \A k \in 1..m : /\ Start(k) \in Nat \ {0} /\ End(k) \in Nat /\ Start(k) = End(k - 1) + 1
                      /\ Start(k) <= End(k) + 1 /\ b <= End(k) + 1 /\ End(k - 1) <= End(k)
                      /\ k # 1 => End(k - 1) \in Nat /\ b <= End(k - 1) + 1
  <2> SUFFICES ASSUME NEW k \in 1..m
               PROVE  /\ Start(k) \in Nat \ {0} /\ End(k) \in Nat /\ Start(k) = End(k - 1) + 1
                      /\ Start(k) <= End(k) + 1 /\ b <= End(k) + 1 /\ End(k - 1) <= End(k)
                      /\ k # 1 => End(k - 1) \in Nat /\ b <= End(k - 1) + 1
    OBVIOUS
  <2>1. W \in Nat /\ W * (k - 1) \in Nat /\ W * k = W * (k - 1) + W
    BY BitsAssumption
  <2>. QED
    BY <2>1
<1>2. s = [k \in 1..m |-> Run("in", Start(k), End(k), e)]
  BY DEF InBytes
<1> HIDE DEF s, Start, End
<1>3. \A k \in 1..m : Run("in", Start(k), End(k), e) \in Seq(Bit)
  BY <1>1, RunFacts DEF IsRun
<1>4. s \in [1..m -> Seq(Bit)]
  BY <1>2, <1>3
<1>5. s \in Seq(Seq(Bit)) /\ Len(s) = m
  BY <1>4
<1>6. \A k \in 1..m : g[k] = IF k = 1 THEN s[k] ELSE g[k - 1] \o s[k]
  <2> SUFFICES ASSUME NEW k \in 1..m PROVE g[k] = IF k = 1 THEN s[k] ELSE g[k - 1] \o s[k]
    OBVIOUS
  <2>1. s[k] = Run("in", Start(k), End(k), e) /\ g[k] = Run("in", b, End(k), e)
    BY <1>2
  <2>2. CASE k = 1
    <3>1. Start(1) = b
      BY BitsAssumption DEF Start
    <3>. QED
      BY <2>1, <2>2, <3>1
  <2>3. CASE k # 1
    <3>1. k - 1 \in 1..m /\ g[k - 1] = Run("in", b, End(k - 1), e)
      BY <2>3
    <3>2. Run("in", b, End(k - 1), e) \o Run("in", End(k - 1) + 1, End(k), e)
            = Run("in", b, End(k), e)
      BY <1>1, <2>3, RunsJoin
    <3>3. Start(k) = End(k - 1) + 1
      BY <1>1
    <3> HIDE DEF g
    <3>. QED
      BY <2>1, <2>3, <3>1, <3>2, <3>3
  <2>. QED
    BY <2>2, <2>3
<1>7. IsFlat(g, s)
  <2>1. g = [k \in 1..m |-> g[k]]
    OBVIOUS
  <2> HIDE DEF g
  <2>. QED
    BY <1>5, <1>6, <2>1 DEF IsFlat
<1>8. FlattenSeq(s) = g[m]
  <2> HIDE DEF g
  <2>. QED
    BY <1>5, <1>7, FlatIs
<1>9. g[m] = Run("in", b, End(m), e)
  OBVIOUS
<1>. QED
  BY <1>5, <1>8, <1>9 DEF s, End

(* So are the bits of a tail. *)
LEMMA OneFlat ==
  ASSUME NEW r \in Seq(Bit)
  PROVE  <<r>> \in Seq(Seq(Bit)) /\ Len(<<r>>) = 1 /\ FlattenSeq(<<r>>) = r
<1> DEFINE s == <<r>>
<1>1. s \in Seq(Seq(Bit)) /\ Len(s) = 1 /\ s[1] = r
  OBVIOUS
<1> HIDE DEF s
<1>2. s = [i \in 1..1 |-> s[i]]
  BY <1>1
<1>3. IsFlat(s, s)
  <2>1. \A i \in 1..1 : s[i] = IF i = 1 THEN s[i] ELSE s[i - 1] \o s[i]
    OBVIOUS
  <2>. QED
    BY <1>1, <1>2, <2>1 DEF IsFlat
<1>4. FlattenSeq(s) = s[1]
  BY <1>1, <1>3, FlatIs
<1>. QED
  BY <1>1, <1>4 DEF s

(* Nothing read adds no bit. *)
LEMMA NoneFlat == FlattenSeq(<<>>) = <<>>
BY DEF FlattenSeq

(* More of a transfer crosses. *)
LEMMA MoreCrosses ==
  ASSUME NEW s \in Seq(Bit), NEW w, NEW c \in Nat, Begins(w, s, c),
         NEW m \in Nat, c < m, m <= Len(s), NEW d \in {"in", "out"}, NEW e \in Edges,
         Asks(s, c, m, d, e), NEW v, v = w \o Run(d, c + 1, m, e)
  PROVE  Begins(v, s, m) /\ Master!IsStrictPrefix(w, v) /\ Master!IsPrefix(v, s)
<1> DEFINE r == Run(d, c + 1, m, e)
<1>1. /\ r \in Seq(Bit) /\ Len(r) = m - c
      /\ \A i \in 1..(m - c) : r[i] = [dir |-> d, pos |-> c + i, edge |-> e]
  <2>1. /\ c + 1 \in Nat \ {0} /\ c + 1 <= m + 1 /\ m - (c + 1) + 1 = m - c
        /\ \A i \in 1..(m - c) : (c + 1) + i - 1 = c + i
    OBVIOUS
  <2>2. IsRun(r, d, c + 1, m, e)
    BY <2>1, RunFacts
  <2> HIDE DEF r
  <2>. QED
    BY <2>1, <2>2 DEF IsRun
<1>2. w \in Seq(Bit) /\ Len(w) = c /\ \A i \in 1..c : w[i] = s[i]
  BY DEF Begins
<1>3. v = w \o r
  OBVIOUS
<1> HIDE DEF r
<1>4. /\ v \in Seq(Bit) /\ Len(v) = m
      /\ \A i \in 1..m : i <= c => v[i] = w[i]
      /\ \A i \in 1..m : ~(i <= c) => v[i] = r[i - c]
  <2>1. c = Len(w) /\ m = Len(w) + Len(r)
    BY <1>1, <1>2
  <2>2. r \in Seq(Bit) /\ w \in Seq(Bit)
    BY <1>1, <1>2
  <2>3. IsJoined(v, w, r, c, m)
    BY <1>3, <2>1, <2>2, Joined
  <2>. QED
    BY <2>3 DEF IsJoined
<1>5. \A i \in 1..c : v[i] = w[i]
  BY <1>4
<1>6. \A i \in (c + 1)..m : v[i] = s[i]
  <2> SUFFICES ASSUME NEW i \in (c + 1)..m PROVE v[i] = s[i]
    OBVIOUS
  <2>1. i - c \in 1..(m - c) /\ c + (i - c) = i /\ i \in 1..m /\ ~(i <= c)
    OBVIOUS
  <2>2. v[i] = r[i - c]
    BY <1>4, <2>1
  <2>. QED
    BY <1>1, <2>1, <2>2 DEF Asks
<1>7. \A i \in 1..m : v[i] = s[i]
  <2>1. \A i \in 1..m : i \in 1..c \/ i \in (c + 1)..m
    OBVIOUS
  <2>. QED
    BY <1>2, <1>5, <1>6, <2>1
<1>8. Begins(v, s, m)
  BY <1>4, <1>7 DEF Begins
<1>9. Master!IsPrefix(v, s)
  BY <1>4, <1>7 DEF Master!IsPrefix
<1>10. Master!IsPrefix(w, v) /\ w # v
  BY <1>2, <1>4, <1>5 DEF Master!IsPrefix
<1>. QED
  BY <1>8, <1>9, <1>10 DEF Master!IsStrictPrefix

(* A transfer that is not too long fits in its header. *)
LEMMA JobParts ==
  ASSUME NEW n \in 1..Limit
  PROVE  /\ Bytes(n) \in Nat /\ TailBits(n) \in 0..(W - 1) /\ n = W * Bytes(n) + TailBits(n)
         /\ W * Bytes(n) \in Nat
         /\ Bytes(n) > 0 => HeaderLength(n) = Bytes(n) /\ W * Bytes(n) > 0
         /\ Bytes(n) = 0 => TailBits(n) > 0
<1> DEFINE R2 == Radix * Radix
           q == n \div W
           t == n % W
<1>1. R2 \in Nat /\ W \in Nat \ {0, 1} /\ W * R2 \in Nat /\ n \in Nat
  <2>1. R2 \in Nat /\ W \in Nat \ {0, 1}
    BY BitsAssumption
  <2>. QED
    BY <2>1
<1>2. n <= W * R2 + W - 1
  <2>1. W * Radix * Radix = W * R2
    BY BitsAssumption
  <2>. QED
    BY <2>1 DEF Limit
<1>3. q \in Nat /\ t \in 0..(W - 1) /\ n = W * q + t
  BY <1>1
<1> HIDE DEF q, t, R2
<1>4. n < W * (R2 + 1)
  <2>1. W * (R2 + 1) = W * R2 + W
    BY <1>1
  <2>. QED
    BY <1>1, <1>2, <2>1
<1>5. q < R2 + 1
  BY <1>1, <1>4, QuotientBelow DEF q
<1>6. W * q \in Nat /\ (q > 0 => W * q > 0) /\ (q = 0 => W * q = 0)
  BY <1>1, <1>3
<1>7. q > 0 => TwoBytes(q - 1) + 1 = q
  <2>1. q > 0 => q - 1 \in 0..(Radix * Radix - 1)
    BY <1>1, <1>3, <1>5 DEF R2
  <2>. QED
    BY <1>3, <2>1, TwoBytesExact
<1>8. Bytes(n) = q /\ TailBits(n) = t /\ HeaderLength(n) = TwoBytes(q - 1) + 1
  BY DEF Bytes, TailBits, HeaderLength, q, t
<1>9. q = 0 => t > 0
  <2>1. n > 0 /\ n \in Nat
    BY <1>1
  <2>. QED
    BY <1>3, <1>6, <2>1
<1>. QED
  BY <1>3, <1>6, <1>7, <1>8, <1>9

(* The commands of a mode clock on the edges its name promises. *)
LEMMA EdgesRight ==
  ASSUME p_cmd \in 0..3
  PROVE  /\ EdgeOf(__cmd[p_cmd].wr_byte) = OutEdge(p_cmd) /\ OutEdge(p_cmd) \in Edges
         /\ EdgeOf(__cmd[p_cmd].wr_bit) = OutEdge(p_cmd)
         /\ EdgeOf(__cmd[p_cmd].rd_byte) = InEdge(p_cmd) /\ InEdge(p_cmd) \in Edges
         /\ EdgeOf(__cmd[p_cmd].rd_bit) = InEdge(p_cmd)
<1>1. p_cmd = 0 \/ p_cmd = 1 \/ p_cmd = 2 \/ p_cmd = 3
  OBVIOUS
<1> USE DEF __cmd, Row, EdgeOf, OutEdge, InEdge, Edges, MSB_OUT_BYTE, MSB_OUT_BIT, MSB_IN_BYTE, MSB_IN_BIT
<1>2. CASE p_cmd = 0
  BY <1>2
<1>3. CASE p_cmd = 1
  BY <1>3
<1>4. CASE p_cmd = 2
  BY <1>4
<1>5. CASE p_cmd = 3
  BY <1>5
<1>. QED
  BY <1>1, <1>2, <1>3, <1>4, <1>5

-----------------------------------------------------------------------------
(* What SpiMaster sees of the port. *)
Mapped == <<handle = "open", asked, IF pc = "astray" THEN WildBits ELSE wire, good>>

Refines == Master!Next \/ UNCHANGED Mapped

(* Once nothing is promised any more, only a close matters. *)
LEMMA Unpromised ==
  ASSUME PortInv, PortInv', BusInv, ~good, [Next]_vars
  PROVE  BusInv' /\ Refines
<1>2. handle = "open"
  BY DEF BusInv, PortInv
<1>3. CASE FTDI_SPI_close
  <2>1. handle' = "null" /\ pc' = "idle" /\ asked' = <<>> /\ wire' = <<>> /\ good' = TRUE
    BY <1>3 DEF FTDI_SPI_close
  <2>2. Master!Close
    BY <1>2, <2>1 DEF Master!Close
  <2>. QED
    BY <2>1, <2>2 DEF BusInv, Refines, Master!Next, Transferring, OfBytes, OfTail
<1>4. CASE ~FTDI_SPI_close
  <2>1. ~FTDI_SPI_open
    BY <1>2 DEF FTDI_SPI_open
  <2>2. ~Malloc /\ ~spi_inital /\ ~check_echo /\ ~Undo
    BY <1>2 DEF PortInv, Malloc, spi_inital, check_echo, Undo
  <2>3. FTDI_SPI_mode_set \/ FTDI_SPI_baudrate_set \/ CsSet \/ CallFails
        => handle' = "open" /\ ~good'
    BY <1>2 DEF FTDI_SPI_mode_set, FTDI_SPI_baudrate_set, CsSet, CommandLost, CallFails, busVars
  <2>4. FTDI_SPI_wo \/ FTDI_SPI_ro => handle' = "open" /\ ~good'
    BY <1>2 DEF FTDI_SPI_wo, FTDI_SPI_ro, Transfer, busVars
  <2>5. WoHeader \/ WoData \/ WoTail \/ RoHeader \/ RoData \/ RoTail \/ RoBit
        => handle' = "open" /\ ~good'
    <3>1. WoHeader \/ WoTail \/ RoHeader \/ RoTail => ~good'
      BY DEF WoHeader, WoTail, RoHeader, RoTail, CommandLost
    <3>2. WoData \/ RoData \/ RoBit => ~good'
      BY DEF WoData, RoData, RoBit, Read
    <3>. QED
      BY <1>2, <3>1, <3>2 DEF WoHeader, WoData, WoTail, RoHeader, RoData, RoTail, RoBit, TransferStep
  <2>6. UNCHANGED vars => handle' = "open" /\ ~good'
    BY <1>2 DEF vars, busVars
  <2>7. handle' = "open" /\ ~good'
    BY <1>4, <2>1, <2>2, <2>3, <2>4, <2>5, <2>6 DEF Next
  <2>8. pc' # "echo"
    BY <2>7 DEF PortInv
  <2>9. Master!Next
    BY <2>7 DEF Master!Next
  <2>. QED
    BY <2>7, <2>8, <2>9 DEF BusInv, Refines
<1>. QED
  BY <1>3, <1>4

(* A part is lost unnoticed: from here on nothing is promised. *)
LEMMA Lapses ==
  ASSUME PortInv', good, ~good', handle = "open", UNCHANGED handle, asked' \in {asked, <<>>}
  PROVE  BusInv' /\ Refines
<1>1. Master!Lapse
  BY DEF Master!Lapse
<1>2. pc' # "echo"
  BY DEF PortInv
<1>. QED
  BY <1>1, <1>2 DEF BusInv, Refines, Master!Next

(* The steps of open and close. *)
LEMMA HandleSteps ==
  ASSUME PortInv, BusInv, good,
         FTDI_SPI_open \/ Malloc \/ spi_inital \/ check_echo \/ Undo \/ FTDI_SPI_close
  PROVE  BusInv' /\ Refines
<1>1. ASSUME handle = "null", handle' = "null", UNCHANGED busVars, pc # "astray", pc' # "astray",
             pc' = "echo" => need' = 0 /\ rx' = <<>>, pc' \notin Transferring
      PROVE  BusInv' /\ Refines
  <2>1. UNCHANGED Mapped
    BY <1>1 DEF Mapped, busVars
  <2>. QED
    BY <1>1, <2>1 DEF BusInv, Refines, busVars
<1>2. pc # "astray"
  BY DEF BusInv
<1> USE DEF Transferring, OfBytes, OfTail
<1>3. CASE FTDI_SPI_open
  BY <1>1, <1>2, <1>3 DEF FTDI_SPI_open
<1>4. CASE Malloc
  BY <1>1, <1>2, <1>4 DEF Malloc, PortInv
<1>5. CASE spi_inital
  BY <1>1, <1>2, <1>5 DEF spi_inital, PortInv
<1>6. CASE check_echo
  <2>1. handle = "null" /\ asked = <<>> /\ wire = <<>>
    BY <1>6 DEF check_echo, PortInv, BusInv
  <2>2. CASE pc' = "undo"
    BY <1>1, <1>2, <1>6, <2>1, <2>2 DEF check_echo
  <2>3. CASE pc' = "idle"
    <3>1. /\ handle' = "open" /\ asked' = <<>> /\ wire' = <<>> /\ good'
          /\ need' = 0 /\ rx' = <<>>
      BY <1>6, <2>1, <2>3 DEF check_echo, BusInv, busVars, chipVars
    <3>2. Master!Open
      BY <2>1, <2>3, <3>1 DEF Master!Open
    <3>3. Begins(wire, asked, Crossed)'
      BY <2>3, <3>1 DEF Begins, Crossed
    <3>4. Coming' = <<>>
      BY <2>3 DEF Coming
    <3>. QED
      BY <2>3, <3>1, <3>2, <3>3, <3>4 DEF BusInv, Refines, Master!Next
  <2>. QED
    BY <1>6, <2>2, <2>3 DEF check_echo
<1>7. CASE Undo
  BY <1>1, <1>2, <1>7 DEF Undo, PortInv
<1>8. CASE FTDI_SPI_close
  <2>1. /\ handle = "open" /\ handle' = "null" /\ pc' = "idle"
        /\ asked' = <<>> /\ wire' = <<>> /\ good' = TRUE
    BY <1>8 DEF FTDI_SPI_close
  <2>2. Master!Close
    BY <2>1 DEF Master!Close
  <2>. QED
    BY <2>1, <2>2 DEF BusInv, Refines, Master!Next
<1>. QED
  BY <1>3, <1>4, <1>5, <1>6, <1>7, <1>8

(* Between two calls everything asked for has crossed. *)
LEMMA IdleFacts ==
  ASSUME TypeInv, BusInv, good, Call
  PROVE  /\ asked \in Seq(Bit) /\ Len(asked) \in Nat /\ wire = asked
         /\ need = 0 /\ rx = <<>> /\ pc # "astray"
<1>1. asked \in Seq(Bit) /\ Len(asked) \in Nat
  BY LenProperties DEF TypeInv
<1>2. pc = "idle" /\ handle = "open"
  BY DEF Call
<1>3. Begins(wire, asked, Crossed) /\ need = 0 /\ rx = Coming
  BY <1>2 DEF BusInv
<1>4. Crossed = Len(asked) /\ Coming = <<>>
  BY <1>2 DEF Crossed, Coming, OfBytes, OfTail
<1>5. wire = asked
  BY <1>1, <1>3, <1>4, SeqEqual DEF Begins
<1>. QED
  BY <1>1, <1>2, <1>3, <1>4, <1>5

(* After a step that ends or begins a frame. *)
LEMMA IdleKept ==
  ASSUME NEW s \in Seq(Bit), pc' = "idle", asked' = s, wire' = s, need' = 0, rx' = <<>>,
         handle' = "open"
  PROVE  BusInv'
<1>1. Len(s) \in Nat
  BY LenProperties
<1>2. Crossed' = Len(s) /\ Coming' = <<>>
  BY DEF Crossed, Coming, OfBytes, OfTail
<1>3. Begins(wire, asked, Crossed)'
  BY <1>1, <1>2 DEF Begins
<1>. QED
  BY <1>2, <1>3 DEF BusInv, Transferring, OfBytes, OfTail

(* The calls that clock nothing. *)
LEMMA SettingSteps ==
  ASSUME TypeInv, BusInv, good, good', FTDI_SPI_mode_set \/ FTDI_SPI_baudrate_set \/ CsSet
  PROVE  BusInv' /\ Refines
<1>1. Call /\ pc = "idle" /\ handle = "open" /\ handle' = handle
  BY DEF FTDI_SPI_mode_set, FTDI_SPI_baudrate_set, CsSet, Call
<1>2. /\ asked \in Seq(Bit) /\ Len(asked) \in Nat /\ wire = asked
      /\ need = 0 /\ rx = <<>>
  BY <1>1, IdleFacts
<1>3. need' = 0 /\ rx' = <<>> /\ good' = good
  BY <1>2 DEF FTDI_SPI_mode_set, FTDI_SPI_baudrate_set, CsSet, CommandLost, chipVars, busVars
<1>4. CASE FTDI_SPI_mode_set \/ FTDI_SPI_baudrate_set
  <2>1. UNCHANGED busVars /\ pc' \in {"idle", "undef"}
    BY <1>1, <1>2, <1>4 DEF FTDI_SPI_mode_set, FTDI_SPI_baudrate_set
  <2>2. UNCHANGED Mapped
    BY <1>1, <2>1 DEF Mapped, busVars
  <2>3. CASE pc' = "idle"
    BY <1>1, <1>2, <1>3, <2>1, <2>2, <2>3, IdleKept DEF Refines, busVars
  <2>4. CASE pc' = "undef"
    BY <1>1, <2>2, <2>4 DEF BusInv, Refines, Transferring, OfBytes, OfTail
  <2>. QED
    BY <2>1, <2>3, <2>4
<1>5. CASE CsSet
  <2>1. pc' = "idle" /\ asked' = <<>> /\ wire' = <<>>
    BY <1>1, <1>2, <1>5, <1>3 DEF CsSet, CommandLost
  <2>2. Master!Select
    BY <1>1, <1>2, <1>3, <2>1 DEF Master!Select
  <2>3. <<>> \in Seq(Bit)
    OBVIOUS
  <2>4. BusInv'
    BY <1>1, <1>3, <2>1, <2>3, IdleKept
  <2>. QED
    BY <2>2, <2>4 DEF Refines, Master!Next
<1>. QED
  BY <1>4, <1>5

(* A transfer asks for its bits; none of them has crossed. *)
LEMMA AskSteps ==
  ASSUME TypeInv, TypeInv', PortInv', BusInv, good, FTDI_SPI_wo \/ FTDI_SPI_ro
  PROVE  BusInv' /\ Refines
<1>1. PICK d \in {Out, In}, n \in Requests, e \in Edges :
        Transfer(d, n, e) /\ e = IF d = Out THEN OutEdge(p_cmd) ELSE InEdge(p_cmd)
  <2>1. OutEdge(p_cmd) \in Edges /\ InEdge(p_cmd) \in Edges /\ Out # In
    BY DEF OutEdge, InEdge, Edges, Out, In
  <2>. QED
    BY <2>1 DEF FTDI_SPI_wo, FTDI_SPI_ro
<1>2. Call /\ pc = "idle" /\ handle = "open" /\ handle' = handle /\ UNCHANGED chipVars /\ p_cmd' = p_cmd
  BY <1>1 DEF Transfer, Call
<1>3. /\ asked \in Seq(Bit) /\ Len(asked) \in Nat /\ wire = asked
      /\ need = 0 /\ rx = <<>>
  BY <1>2, IdleFacts
<1>4. CASE p_cmd = NoMode
  <2>1. pc' = "undef" /\ UNCHANGED busVars
    BY <1>1, <1>4 DEF Transfer
  <2>2. UNCHANGED Mapped
    BY <1>2, <2>1 DEF Mapped, busVars
  <2>. QED
    BY <1>2, <2>1, <2>2 DEF BusInv, Refines, Transferring, OfBytes, OfTail
<1>5. CASE p_cmd # NoMode
  <2> DEFINE c == Len(asked)
             r == Run(d.dir, c + 1, c + n, e)
  <2>1. /\ n \in Nat /\ n > 0 /\ d.dir \in {"in", "out"} /\ c \in Nat
        /\ p_cmd \in 0..3
    <3>1. n \in Nat /\ n > 0
      BY <1>1, RequestsAssumption, WordAssumption DEF Transfer
    <3>2. p_cmd \in 0..3
      BY <1>5 DEF TypeInv, TypeOK, NoMode
    <3>. QED
      BY <1>3, <3>1, <3>2 DEF Out, In
  <2>2. /\ pc' = IF Bytes(n) > 0 THEN d.header ELSE d.tail
        /\ job' = [n |-> n, base |-> c, nth |-> job.nth + 1]
        /\ asked' = asked \o r /\ good' = (good /\ n <= Limit) /\ wire' = wire
    BY <1>1, <1>5 DEF Transfer
  <2>3. IsJoined(asked', asked, r, c, c + n) /\ IsRun(r, d.dir, c + 1, c + n, e)
    <3>1. IsRun(r, d.dir, c + 1, c + n, e)
      <4>1. c + 1 \in Nat \ {0} /\ c + n \in Nat /\ c + 1 <= (c + n) + 1
        BY <2>1
      <4> HIDE DEF c
      <4>. QED
        BY <2>1, <4>1, RunFacts
    <3>2. r \in Seq(Bit) /\ Len(r) = n
      <4>1. (c + n) - (c + 1) + 1 = n
        BY <2>1
      <4>. QED
        BY <3>1, <4>1 DEF IsRun
    <3> HIDE DEF r
    <3>. QED
      BY <1>3, <2>2, <3>1, <3>2, Joined
  <2> HIDE DEF r
  <2>4. /\ asked' \in Seq(Bit) /\ Len(asked') = c + n
        /\ \A i \in 1..c : asked'[i] = asked[i]
        /\ Asks(asked', c, c + n, d.dir, e)
    <3>1. /\ asked' \in Seq(Bit) /\ Len(asked') = c + n
          /\ \A i \in 1..(c + n) : i <= c => asked'[i] = asked[i]
          /\ \A i \in 1..(c + n) : ~(i <= c) => asked'[i] = r[i - c]
      BY <2>3 DEF IsJoined
    <3>2. \A i \in 1..n : r[i] = [dir |-> d.dir, pos |-> (c + 1) + i - 1, edge |-> e]
      <4>1. (c + n) - (c + 1) + 1 = n
        BY <2>1
      <4>. QED
        BY <2>3, <4>1 DEF IsRun
    <3>3. \A i \in 1..c : i \in 1..(c + n) /\ i <= c
      BY <2>1
    <3>4. \A i \in (c + 1)..(c + n) :
            i \in 1..(c + n) /\ ~(i <= c) /\ i - c \in 1..n /\ (c + 1) + (i - c) - 1 = i
      BY <2>1
    <3> HIDE DEF c
    <3>5. Asks(asked', c, c + n, d.dir, e)
      BY <3>1, <3>2, <3>4 DEF Asks
    <3>. QED
      BY <3>1, <3>3, <3>5
  <2>5. pc' \in {"out_header", "out_tail", "in_header", "in_tail"}
    BY <1>1, <2>2 DEF Out, In
  <2>6. Master!Ask
    <3>1. (handle = "open") /\ (handle = "open")' /\ pc # "astray" /\ pc' # "astray"
      BY <1>2, <2>5
    <3>2. Master!IsStrictPrefix(asked, asked')
      <4>1. c < c + n /\ c <= c + n
        BY <2>1
      <4>. QED
        BY <1>3, <2>1, <2>4, <4>1 DEF Master!IsStrictPrefix, Master!IsPrefix
    <3>3. good' = (Len(asked') - Len(asked) <= Limit)
      BY <2>1, <2>2, <2>4
    <3>4. \A i \in (Len(asked) + 1)..Len(asked') : asked'[i] = [dir |-> d.dir, pos |-> i, edge |-> e]
      BY <2>4 DEF Asks
    <3>. QED
      BY <1>3, <2>1, <2>2, <3>1, <3>2, <3>3, <3>4 DEF Master!Ask
  <2>7. ASSUME good'
        PROVE  /\ Begins(wire, asked, Crossed)' /\ need' = 0 /\ rx' = <<>> /\ Coming' = <<>>
               /\ p_cmd' \in 0..3 /\ job'.n \in 1..Limit /\ JobAsked'
               /\ pc' \in OfBytes => Bytes(job'.n) > 0
               /\ pc' \in OfTail => TailBits(job'.n) > 0
    <3>1. n \in 1..Limit /\ job'.n = n /\ job'.base = c
      <4>1. n <= Limit
        BY <2>2, <2>7, Zenon
      <4>2. Limit \in Int
        BY BitsAssumption DEF Limit
      <4>. QED
        BY <2>1, <2>2, <4>1, <4>2
    <3>2. /\ Bytes(n) \in Nat /\ (Bytes(n) = 0 => TailBits(n) > 0)
          /\ (Bytes(n) = 0 => W * Bytes(n) = 0)
      BY <3>1, JobParts, BitsAssumption
    <3>3. pc' \in OfBytes => Bytes(n) > 0
      BY <1>1, <2>2 DEF Out, In, OfBytes
    <3>4. pc' \in OfTail => Bytes(n) = 0
      BY <1>1, <2>2, <3>2 DEF Out, In, OfTail
    <3>5. Crossed' = c
      BY <2>1, <2>5, <3>1, <3>2, <3>4 DEF Crossed, OfBytes, OfTail, LastOfBytes
    <3>6. Begins(wire, asked, Crossed)'
      <4>1. wire' = asked /\ c <= c + n
        BY <1>3, <2>1, <2>2
      <4>. QED
        BY <1>3, <2>4, <3>5, <4>1 DEF Begins
    <3>7. JobAsked'
      <4>1. LastOfJob' = c + n
        BY <3>1 DEF LastOfJob
      <4>2. pc' \in Outward => d = Out
        BY <1>1, <2>2 DEF Outward, Out, In
      <4>3. pc' \notin Outward => d = In
        BY <1>1, <2>2 DEF Outward, Out, In
      <4>4. d = Out => d.dir = "out" /\ e = OutEdge(p_cmd)'
        BY <1>1, <1>2 DEF Out, OutEdge
      <4>5. d = In => d.dir = "in" /\ e = InEdge(p_cmd)'
        BY <1>1, <1>2 DEF Out, In, InEdge
      <4>. QED
        BY <2>4, <3>1, <4>1, <4>2, <4>3, <4>4, <4>5 DEF JobAsked, Asks
    <3>. QED
      BY <1>2, <1>3, <2>1, <2>5, <3>1, <3>2, <3>3, <3>4, <3>6, <3>7 DEF chipVars, Coming
  <2>8. BusInv'
    BY <1>2, <2>5, <2>7 DEF BusInv
  <2>. QED
    BY <2>6, <2>8 DEF Refines, Master!Next
<1>. QED
  BY <1>4, <1>5

(* A transfer under way. *)
LEMMA UnderWay ==
  ASSUME TypeInv, PortInv, BusInv, good, pc \in Transferring
  PROVE  /\ handle = "open" /\ pc # "astray"
         /\ asked \in Seq(Bit) /\ Len(asked) = LastOfJob
         /\ job.base \in Nat /\ LastOfBytes \in Nat /\ LastOfJob \in Nat
         /\ job.base <= LastOfBytes /\ LastOfBytes <= LastOfJob
         /\ (Bytes(job.n) > 0 => job.base < LastOfBytes)
         /\ (TailBits(job.n) > 0 <=> LastOfBytes < LastOfJob)
         /\ LastOfJob = LastOfBytes + TailBits(job.n)
         /\ Bytes(job.n) \in Nat /\ TailBits(job.n) \in Nat
         /\ (Bytes(job.n) > 0 => HeaderLength(job.n) = Bytes(job.n))
         /\ (pc \in OfBytes => Bytes(job.n) > 0) /\ (pc \in OfTail => TailBits(job.n) > 0)
         /\ p_cmd \in 0..3 /\ job.n \in 1..Limit /\ JobAsked
         /\ Begins(wire, asked, Crossed) /\ rx = Coming
         /\ need = (IF pc = "out_data" THEN Bytes(job.n) ELSE 0)
<1>1. handle = "open" /\ pc # "astray"
  BY DEF PortInv, Transferring, OfBytes, OfTail
<1>2. /\ p_cmd \in 0..3 /\ job.n \in 1..Limit /\ JobAsked
      /\ (pc \in OfBytes => Bytes(job.n) > 0) /\ (pc \in OfTail => TailBits(job.n) > 0)
      /\ Begins(wire, asked, Crossed) /\ rx = Coming
      /\ need = (IF pc = "out_data" THEN Bytes(job.n) ELSE 0)
  BY <1>1 DEF BusInv
<1>3. asked \in Seq(Bit) /\ Len(asked) = job.base + job.n /\ job.base \in Nat
  BY DEF TypeInv, TypeOK
<1> DEFINE q == Bytes(job.n)
           t == TailBits(job.n)
           wq == W * q
<1>4. /\ q \in Nat /\ t \in 0..(W - 1) /\ job.n = wq + t /\ wq \in Nat
      /\ q > 0 => HeaderLength(job.n) = q /\ wq > 0
  BY <1>2, JobParts
<1>5. W \in Nat
  BY BitsAssumption
<1>6. LastOfBytes = job.base + wq /\ LastOfJob = job.base + job.n
  BY DEF LastOfBytes, LastOfJob
<1> HIDE DEF q, t, wq
<1>7. /\ LastOfBytes \in Nat /\ LastOfJob \in Nat /\ t \in Nat
      /\ job.base <= LastOfBytes /\ LastOfBytes <= LastOfJob
      /\ (q > 0 => job.base < LastOfBytes) /\ (t > 0 <=> LastOfBytes < LastOfJob)
      /\ LastOfJob = LastOfBytes + t
  BY <1>3, <1>4, <1>5, <1>6
<1>. QED
  BY <1>1, <1>2, <1>3, <1>4, <1>6, <1>7 DEF q, t

(* Where a step of a transfer leads, when it is not the last. *)
LEMMA StillUnderWay ==
  ASSUME TypeInv, PortInv, BusInv, good, pc \in Transferring,
         UNCHANGED <<handle, p_cmd, job, asked, good>>,
         pc' \in Transferring, pc' \in Outward <=> pc \in Outward,
         pc' \in OfBytes => Bytes(job.n) > 0, pc' \in OfTail => TailBits(job.n) > 0,
         NEW c, Begins(wire', asked, c),
         c = (IF pc' \in OfBytes THEN job.base ELSE LastOfBytes),
         need' = (IF pc' = "out_data" THEN Bytes(job.n) ELSE 0),
         rx' = (IF pc' = "in_data" THEN InBytes(job.base + 1, Bytes(job.n), InEdge(p_cmd))
                ELSE IF pc' = "in_bit" THEN <<Run("in", LastOfBytes + 1, LastOfJob, InEdge(p_cmd))>>
                ELSE <<>>)
  PROVE  BusInv'
<1>1. handle' = "open" /\ p_cmd' \in 0..3 /\ job'.n \in 1..Limit /\ JobAsked
  BY UnderWay
<1>2. JobAsked'
  BY <1>1 DEF JobAsked, Asks, LastOfJob, OutEdge, InEdge
<1>3. Crossed' = c
  BY DEF Crossed, LastOfBytes, Transferring
<1>4. rx' = Coming'
  BY DEF Coming, InBytes, LastOfBytes, LastOfJob, InEdge
<1>5. Begins(wire, asked, Crossed)'
  BY <1>3 DEF Begins
<1>6. pc' # "echo" /\ pc' # "astray"
  BY DEF Transferring, OfBytes, OfTail
<1>. QED
  BY <1>1, <1>2, <1>4, <1>5, <1>6 DEF BusInv

(* The last bit has crossed. *)
LEMMA AllCrossed ==
  ASSUME TypeInv, NEW c, Begins(wire', asked, c), c = Len(asked),
         UNCHANGED <<handle, asked>>, handle = "open", pc' = "idle", need' = 0, rx' = <<>>
  PROVE  BusInv'
<1>1. asked \in Seq(Bit) /\ Len(asked) \in Nat
  BY LenProperties DEF TypeInv
<1>2. wire' = asked
  BY <1>1, SeqEqual DEF Begins
<1>. QED
  BY <1>1, <1>2, IdleKept

(* More bits cross: SpiMaster's Clock. *)
LEMMA Crosses ==
  ASSUME pc # "astray", pc' # "astray", UNCHANGED <<handle, asked, good>>, good,
         Master!IsStrictPrefix(wire, wire'), Master!IsPrefix(wire', asked)
  PROVE  Refines
BY DEF Refines, Master!Next, Master!Clock

(* A step SpiMaster does not see. *)
LEMMA Stays ==
  ASSUME pc # "astray", pc' # "astray", UNCHANGED <<handle, asked, wire, good>>
  PROVE  Refines
BY DEF Refines, Mapped

(* The bytes and the tail of what was asked. *)
LEMMA PartsAsked ==
  ASSUME TypeInv, PortInv, BusInv, good, pc \in Transferring,
         NEW d, NEW e, Asks(asked, job.base, LastOfJob, d, e)
  PROVE  Asks(asked, job.base, LastOfBytes, d, e) /\ Asks(asked, LastOfBytes, LastOfJob, d, e)
<1>1. /\ job.base \in Nat /\ LastOfBytes \in Nat /\ LastOfJob \in Nat
      /\ job.base <= LastOfBytes /\ LastOfBytes <= LastOfJob
  BY UnderWay
<1>2. /\ \A i \in (job.base + 1)..LastOfBytes : i \in (job.base + 1)..LastOfJob
      /\ \A i \in (LastOfBytes + 1)..LastOfJob : i \in (job.base + 1)..LastOfJob
  BY <1>1
<1>. QED
  BY <1>2 DEF Asks

(* A transfer out: header, bytes, tail. *)
LEMMA OutSteps ==
  ASSUME TypeInv, PortInv, BusInv, good, good', WoHeader \/ WoData \/ WoTail
  PROVE  BusInv' /\ Refines
<1>1. pc \in Transferring /\ pc \in Outward /\ UNCHANGED <<handle, p_cmd, job, asked, good>>
  <2>1. pc \in Transferring /\ pc \in Outward /\ UNCHANGED <<handle, p_cmd, job, asked>>
    BY DEF WoHeader, WoData, WoTail, TransferStep, Transferring, OfBytes, OfTail, Outward
  <2>2. good' = good
    BY DEF WoHeader, WoData, WoTail, CommandLost
  <2>. QED
    BY <2>1, <2>2
<1> DEFINE q == Bytes(job.n)
           t == TailBits(job.n)
<1>2. /\ handle = "open" /\ pc # "astray" /\ asked \in Seq(Bit) /\ Len(asked) = LastOfJob
      /\ job.base \in Nat /\ LastOfBytes \in Nat /\ LastOfJob \in Nat
      /\ job.base <= LastOfBytes /\ LastOfBytes <= LastOfJob
      /\ (q > 0 => job.base < LastOfBytes) /\ (t > 0 <=> LastOfBytes < LastOfJob)
      /\ LastOfJob = LastOfBytes + t /\ q \in Nat /\ t \in Nat
      /\ (q > 0 => HeaderLength(job.n) = q)
      /\ (pc \in OfBytes => q > 0) /\ (pc \in OfTail => t > 0)
      /\ Begins(wire, asked, Crossed) /\ rx = Coming
      /\ need = (IF pc = "out_data" THEN q ELSE 0) /\ p_cmd \in 0..3 /\ JobAsked
  BY <1>1, UnderWay
<1>3. /\ EdgeOf(__cmd[p_cmd].wr_byte) = OutEdge(p_cmd)
      /\ EdgeOf(__cmd[p_cmd].wr_bit) = OutEdge(p_cmd) /\ OutEdge(p_cmd) \in Edges
  BY <1>2, EdgesRight
<1>4. /\ Asks(asked, job.base, LastOfBytes, "out", OutEdge(p_cmd))
      /\ Asks(asked, LastOfBytes, LastOfJob, "out", OutEdge(p_cmd))
  BY <1>1, <1>2, PartsAsked DEF JobAsked
<1>5. rx = <<>>
  BY <1>1, <1>2 DEF Coming, Outward
<1> HIDE DEF q, t
<1>6. CASE WoHeader
  <2>1. /\ pc = "out_header" /\ pc' = "out_data" /\ need' = q /\ rx' = rx /\ wire' = wire
    BY <1>2, <1>6 DEF WoHeader, CommandLost, TransferStep, OfBytes, q
  <2>2. Begins(wire', asked, job.base)
    BY <1>2, <2>1 DEF Crossed, OfBytes
  <2>3. BusInv'
    BY <1>1, <1>2, <1>5, <2>1, <2>2, StillUnderWay
      DEF Transferring, OfBytes, OfTail, Outward, q
  <2>. QED
    BY <1>1, <1>2, <2>1, <2>3, Stays
<1>7. CASE WoData
  <2>1. /\ pc = "out_data" /\ need = q
    BY <1>2, <1>7 DEF WoData, TransferStep
  <2>2. /\ wire' = wire \o Run("out", job.base + 1, LastOfBytes, OutEdge(p_cmd))
        /\ need' = 0 /\ rx' = <<>> /\ pc' = AfterBytes(Out)
    <3>1. PICK m \in 0..Bytes(job.n) :
            /\ good' = (good /\ m = Bytes(job.n))
            /\ IF m > need
               THEN Astray /\ UNCHANGED wire
               ELSE /\ wire' = wire \o Run("out", job.base + 1, job.base + W * m,
                                            EdgeOf(__cmd[p_cmd].wr_byte))
                    /\ need' = need - m
                    /\ pc' = AfterBytes(Out)
                    /\ UNCHANGED rx
      BY <1>7 DEF WoData
    <3>2. m = q
      BY <3>1 DEF q
    <3>3. ~(m > need) /\ need - m = 0
      BY <1>2, <2>1, <3>2
    <3>. QED
      BY <1>3, <1>5, <3>1, <3>2, <3>3 DEF LastOfBytes, q
  <2>3. Begins(wire, asked, job.base) /\ job.base < LastOfBytes
    BY <1>2, <2>1 DEF Crossed, OfBytes
  <2>4. /\ Begins(wire', asked, LastOfBytes)
        /\ Master!IsStrictPrefix(wire, wire') /\ Master!IsPrefix(wire', asked)
    BY <1>2, <1>3, <1>4, <2>2, <2>3, MoreCrosses
  <2>5. CASE t > 0
    <3>1. pc' = "out_tail"
      BY <2>2, <2>5 DEF AfterBytes, Out, t
    <3>2. BusInv'
      BY <1>1, <1>2, <2>2, <2>4, <2>5, <3>1, StillUnderWay
        DEF Transferring, OfBytes, OfTail, Outward, t
    <3>. QED
      BY <1>1, <1>2, <2>4, <3>1, <3>2, Crosses
  <2>6. CASE ~(t > 0)
    <3>1. pc' = "idle" /\ LastOfBytes = Len(asked)
      BY <1>2, <2>2, <2>6 DEF AfterBytes, t
    <3>2. BusInv'
      BY <1>1, <1>2, <2>2, <2>4, <3>1, AllCrossed
    <3>. QED
      BY <1>1, <1>2, <2>4, <3>1, <3>2, Crosses
  <2>. QED
    BY <2>5, <2>6
<1>8. CASE WoTail
  <2>1. /\ pc = "out_tail" /\ need = 0 /\ t > 0
    BY <1>2, <1>8 DEF WoTail, TransferStep, OfTail
  <2>2. /\ wire' = wire \o Run("out", LastOfBytes + 1, LastOfJob, OutEdge(p_cmd))
        /\ need' = 0 /\ rx' = <<>> /\ pc' = "idle"
    BY <1>3, <1>5, <1>8, <2>1 DEF WoTail, CommandLost, chipVars
  <2>3. Begins(wire, asked, LastOfBytes) /\ LastOfBytes < LastOfJob /\ LastOfJob <= Len(asked)
    BY <1>2, <2>1 DEF Crossed, OfBytes, OfTail
  <2>4. /\ Begins(wire', asked, LastOfJob)
        /\ Master!IsStrictPrefix(wire, wire') /\ Master!IsPrefix(wire', asked)
    <3>1. asked \in Seq(Bit) /\ LastOfBytes \in Nat /\ LastOfJob \in Nat
      BY <1>2
    <3>. QED
      BY <1>3, <1>4, <2>2, <2>3, <3>1, MoreCrosses
  <2>5. BusInv'
    BY <1>1, <1>2, <2>2, <2>4, AllCrossed
  <2>. QED
    BY <1>1, <1>2, <2>2, <2>4, <2>5, Crosses
<1>. QED
  BY <1>6, <1>7, <1>8

(* A transfer in: header, bytes, tail command and tail. *)
LEMMA InSteps ==
  ASSUME TypeInv, PortInv, BusInv, good, good', RoHeader \/ RoData \/ RoTail \/ RoBit
  PROVE  BusInv' /\ Refines
<1>1. pc \in Transferring /\ pc \notin Outward /\ UNCHANGED <<handle, p_cmd, job, asked, good>>
  <2>1. pc \in Transferring /\ pc \notin Outward /\ UNCHANGED <<handle, p_cmd, job, asked>>
    BY DEF RoHeader, RoData, RoTail, RoBit, TransferStep, Transferring, OfBytes, OfTail, Outward
  <2>2. good' = good
    BY DEF RoHeader, RoData, RoTail, RoBit, Read, CommandLost
  <2>. QED
    BY <2>1, <2>2
<1> DEFINE q == Bytes(job.n)
           t == TailBits(job.n)
           e == InEdge(p_cmd)
<1>2. /\ handle = "open" /\ pc # "astray" /\ asked \in Seq(Bit) /\ Len(asked) = LastOfJob
      /\ job.base \in Nat /\ LastOfBytes \in Nat /\ LastOfJob \in Nat
      /\ job.base <= LastOfBytes /\ LastOfBytes <= LastOfJob
      /\ (q > 0 => job.base < LastOfBytes) /\ (t > 0 <=> LastOfBytes < LastOfJob)
      /\ LastOfJob = LastOfBytes + t /\ q \in Nat /\ t \in Nat
      /\ (q > 0 => HeaderLength(job.n) = q)
      /\ (pc \in OfBytes => q > 0) /\ (pc \in OfTail => t > 0)
      /\ Begins(wire, asked, Crossed) /\ rx = Coming
      /\ need = (IF pc = "out_data" THEN q ELSE 0) /\ p_cmd \in 0..3 /\ JobAsked
  BY <1>1, UnderWay
<1>3. /\ EdgeOf(__cmd[p_cmd].rd_byte) = e
      /\ EdgeOf(__cmd[p_cmd].rd_bit) = e /\ e \in Edges
  BY <1>2, EdgesRight
<1>4. /\ Asks(asked, job.base, LastOfBytes, "in", e)
      /\ Asks(asked, LastOfBytes, LastOfJob, "in", e)
  BY <1>1, <1>2, PartsAsked DEF JobAsked
<1>5. need = 0
  BY <1>1, <1>2 DEF Outward
<1>6. job.base + W * q = LastOfBytes
  BY DEF LastOfBytes
<1> HIDE DEF q, t, e
<1>7. ASSUME NEW c \in Nat, Begins(wire, asked, c), rx = <<>> PROVE NextIn = c + 1
  <2>1. Len(wire) = c /\ FlattenSeq(rx) = <<>>
    BY <1>7, NoneFlat DEF Begins
  <2>. QED
    BY <2>1 DEF NextIn
(* The whole of the receive queue is read. *)
<1>8. ASSUME NEW k \in Nat, k = Len(rx), rx \in Seq(Seq(Bit)), Read(k)
      PROVE  wire' = wire \o FlattenSeq(rx) /\ rx' = <<>> /\ need' = 0
  <2>1. PICK got \in 0..k :
          /\ good' = (good /\ got = k)
          /\ wire' = wire \o FlattenSeq(SubSeq(rx, 1, got))
          /\ rx' = SubSeq(rx, got + 1, Len(rx))
          /\ UNCHANGED need
    BY <1>8 DEF Read
  <2>2. got = Len(rx)
    BY <1>8, <2>1
  <2>3. SubSeq(rx, 1, Len(rx)) = rx /\ SubSeq(rx, Len(rx) + 1, Len(rx)) = <<>>
    BY <1>8
  <2>. QED
    BY <1>5, <2>1, <2>2, <2>3
<1>9. CASE RoHeader
  <2>1. pc = "in_header" /\ pc' = "in_data" /\ need' = 0 /\ wire' = wire
    BY <1>5, <1>9 DEF RoHeader, CommandLost, TransferStep
  <2>2. q > 0 /\ rx = <<>> /\ Begins(wire, asked, job.base)
    BY <1>2, <2>1 DEF Coming, Crossed, OfBytes
  <2>3. NextIn = job.base + 1 /\ HeaderLength(job.n) = q
    BY <1>2, <1>7, <2>2
  <2>4. rx' = rx \o [k \in 1..HeaderLength(job.n) |->
                       Run("in", NextIn + W * (k - 1), NextIn + W * k - 1,
                           EdgeOf(__cmd[p_cmd].rd_byte))]
    BY <1>5, <1>9 DEF RoHeader, CommandLost
  <2>5. rx' = InBytes(job.base + 1, q, e)
    <3>1. rx' = rx \o InBytes(job.base + 1, q, e)
      BY <1>3, <2>3, <2>4 DEF InBytes
    <3>2. InBytes(job.base + 1, q, e) \in Seq(Seq(Bit))
      BY <1>2, <1>3, <2>2, BytesFlat
    <3>. QED
      BY <2>2, <3>1, <3>2, ConcatEmptySeq
  <2>6. BusInv'
    BY <1>1, <1>2, <2>1, <2>2, <2>5, StillUnderWay
      DEF Transferring, OfBytes, OfTail, Outward, q, e
  <2>. QED
    BY <1>1, <1>2, <2>1, <2>6, Stays
<1>10. CASE RoData
  <2>1. pc = "in_data" /\ Read(q) /\ pc' = AfterBytes(In)
    BY <1>10 DEF RoData, TransferStep, q
  <2>2. q > 0 /\ rx = InBytes(job.base + 1, q, e) /\ Begins(wire, asked, job.base)
    BY <1>2, <2>1 DEF Coming, Crossed, OfBytes, q, e
  <2>3. /\ rx \in Seq(Seq(Bit)) /\ Len(rx) = q
        /\ FlattenSeq(rx) = Run("in", job.base + 1, LastOfBytes, e)
    <3>1. job.base + 1 \in Nat \ {0} /\ q \in Nat \ {0}
      BY <1>2, <2>2
    <3>2. /\ rx \in Seq(Seq(Bit)) /\ Len(rx) = q
          /\ FlattenSeq(rx) = Run("in", job.base + 1, (job.base + 1) + W * q - 1, e)
      BY <1>3, <2>2, <3>1, BytesFlat
    <3>3. (job.base + 1) + W * q - 1 = LastOfBytes
      <4>1. W * q \in Nat
        BY <1>2, BitsAssumption
      <4>. QED
        BY <1>2, <1>6, <4>1
    <3>. QED
      BY <3>2, <3>3
  <2>4. /\ wire' = wire \o Run("in", job.base + 1, LastOfBytes, e)
        /\ rx' = <<>> /\ need' = 0
    BY <1>2, <1>8, <2>1, <2>3
  <2>5. job.base < LastOfBytes /\ LastOfBytes <= Len(asked)
    BY <1>2, <2>2
  <2>6. /\ Begins(wire', asked, LastOfBytes)
        /\ Master!IsStrictPrefix(wire, wire') /\ Master!IsPrefix(wire', asked)
    <3>1. asked \in Seq(Bit) /\ LastOfBytes \in Nat /\ job.base \in Nat
      BY <1>2
    <3>. QED
      BY <1>3, <1>4, <2>2, <2>4, <2>5, <3>1, MoreCrosses
  <2>7. CASE t > 0
    <3>1. pc' = "in_tail"
      BY <2>1, <2>7 DEF AfterBytes, In, t
    <3>2. BusInv'
      BY <1>1, <1>2, <2>4, <2>6, <2>7, <3>1, StillUnderWay
        DEF Transferring, OfBytes, OfTail, Outward, t
    <3>. QED
      BY <1>1, <1>2, <2>6, <3>1, <3>2, Crosses
  <2>8. CASE ~(t > 0)
    <3>1. pc' = "idle" /\ LastOfBytes = Len(asked)
      BY <1>2, <2>1, <2>8 DEF AfterBytes, t
    <3>2. BusInv'
      BY <1>1, <1>2, <2>4, <2>6, <3>1, AllCrossed
    <3>. QED
      BY <1>1, <1>2, <2>6, <3>1, <3>2, Crosses
  <2>. QED
    BY <2>7, <2>8
<1>11. CASE RoTail
  <2>1. pc = "in_tail" /\ pc' = "in_bit" /\ need' = 0 /\ wire' = wire
    BY <1>5, <1>11 DEF RoTail, CommandLost, TransferStep
  <2>2. t > 0 /\ rx = <<>> /\ Begins(wire, asked, LastOfBytes)
    BY <1>2, <2>1 DEF Coming, Crossed, OfBytes, OfTail
  <2>3. NextIn = LastOfBytes + 1 /\ NextIn + t - 1 = LastOfJob
    BY <1>2, <1>7, <2>2
  <2>4. rx' = Append(rx, Run("in", NextIn, NextIn + t - 1, e))
    BY <1>3, <1>5, <1>11 DEF RoTail, CommandLost, t
  <2>5. rx' = <<Run("in", LastOfBytes + 1, LastOfJob, e)>>
    BY <2>2, <2>3, <2>4
  <2>6. BusInv'
    BY <1>1, <1>2, <2>1, <2>2, <2>5, StillUnderWay
      DEF Transferring, OfBytes, OfTail, Outward, t, e
  <2>. QED
    BY <1>1, <1>2, <2>1, <2>6, Stays
<1>12. CASE RoBit
  <2>1. pc = "in_bit" /\ Read(1) /\ pc' = "idle"
    BY <1>12 DEF RoBit, TransferStep
  <2>2. /\ t > 0 /\ rx = <<Run("in", LastOfBytes + 1, LastOfJob, e)>>
        /\ Begins(wire, asked, LastOfBytes)
    BY <1>2, <2>1 DEF Coming, Crossed, OfBytes, OfTail, e
  <2>3. /\ rx \in Seq(Seq(Bit)) /\ Len(rx) = 1
        /\ FlattenSeq(rx) = Run("in", LastOfBytes + 1, LastOfJob, e)
    <3>1. LastOfBytes + 1 \in Nat \ {0} /\ LastOfJob \in Nat /\ LastOfBytes + 1 <= LastOfJob + 1
      BY <1>2
    <3>2. Run("in", LastOfBytes + 1, LastOfJob, e) \in Seq(Bit)
      BY <1>3, <3>1, RunFacts DEF IsRun
    <3>. QED
      BY <2>2, <3>2, OneFlat
  <2>4. /\ wire' = wire \o Run("in", LastOfBytes + 1, LastOfJob, e)
        /\ rx' = <<>> /\ need' = 0
    BY <1>8, <2>1, <2>3
  <2>5. LastOfBytes < LastOfJob /\ LastOfJob <= Len(asked)
    BY <1>2, <2>2
  <2>6. /\ Begins(wire', asked, LastOfJob)
        /\ Master!IsStrictPrefix(wire, wire') /\ Master!IsPrefix(wire', asked)
    <3>1. asked \in Seq(Bit) /\ LastOfBytes \in Nat /\ LastOfJob \in Nat
      BY <1>2
    <3>. QED
      BY <1>3, <1>4, <2>2, <2>4, <2>5, <3>1, MoreCrosses
  <2>7. BusInv'
    BY <1>1, <1>2, <2>1, <2>4, <2>6, AllCrossed
  <2>. QED
    BY <1>1, <1>2, <2>1, <2>6, <2>7, Crosses
<1>. QED
  BY <1>9, <1>10, <1>11, <1>12

(* Every step of the port. *)
LEMMA BusSteps == TypeInv /\ TypeInv' /\ PortInv /\ PortInv' /\ BusInv /\ [Next]_vars
                  => BusInv' /\ Refines
<1> SUFFICES ASSUME TypeInv, TypeInv', PortInv, PortInv', BusInv, [Next]_vars
             PROVE  BusInv' /\ Refines
  OBVIOUS
<1>1. CASE ~good
  BY <1>1, Unpromised
<1>2. CASE good /\ CallFails
  <2>1. handle' = "open" /\ pc' = "failed" /\ UNCHANGED busVars /\ pc # "astray" /\ handle = "open"
    BY <1>2 DEF CallFails
  <2>2. Refines
    BY <2>1, Stays DEF busVars
  <2>. QED
    BY <2>1, <2>2 DEF BusInv, Transferring, OfBytes, OfTail
<1>3. CASE good /\ UNCHANGED vars
  <2>1. UNCHANGED Mapped
    BY <1>3 DEF vars, busVars, Mapped
  <2>2. BusInv'
    BY <1>3 DEF vars, busVars, chipVars, BusInv, Begins, Crossed, Coming, InBytes, JobAsked, Asks,
                LastOfBytes, LastOfJob, OutEdge, InEdge
  <2>. QED
    BY <2>1, <2>2 DEF Refines
<1>4. CASE good /\ (CsSet \/ FTDI_SPI_mode_set \/ FTDI_SPI_baudrate_set)
  <2>1. CASE ~good'
    <3>1. handle = "open" /\ UNCHANGED handle /\ asked' \in {asked, <<>>}
      BY <1>4 DEF CsSet, FTDI_SPI_mode_set, FTDI_SPI_baudrate_set, Call, busVars
    <3>. QED
      BY <1>4, <2>1, <3>1, Lapses
  <2>. QED
    BY <1>4, <2>1, SettingSteps
<1>5. CASE good /\ (\/ WoHeader \/ WoData \/ WoTail
                   \/ RoHeader \/ RoData \/ RoTail \/ RoBit)
  <2>1. CASE ~good'
    <3>1. UNCHANGED <<handle, asked>>
      BY <1>5 DEF WoHeader, WoData, WoTail, RoHeader, RoData, RoTail, RoBit, TransferStep
    <3>2. pc \in Transferring
      BY <1>5 DEF WoHeader, WoData, WoTail, RoHeader, RoData, RoTail, RoBit, TransferStep,
                  Transferring, OfBytes, OfTail
    <3>3. handle = "open"
      BY <3>2 DEF PortInv, Transferring, OfBytes, OfTail
    <3>. QED
      BY <1>5, <2>1, <3>1, <3>3, Lapses
  <2>. QED
    BY <1>5, <2>1, OutSteps, InSteps
<1>6. CASE good /\ (\/ FTDI_SPI_open \/ Malloc \/ spi_inital \/ check_echo \/ Undo
                   \/ FTDI_SPI_close \/ FTDI_SPI_wo \/ FTDI_SPI_ro)
  BY <1>6, HandleSteps, AskSteps
<1>. QED
  BY <1>1, <1>2, <1>3, <1>4, <1>5, <1>6 DEF Next

(***************************************************************************)
(* For every byte, word and length: cut into whole bytes and a tail, each  *)
(* with its own command, a transfer is its bits in order, each once, on    *)
(* the edge of the mode, and over before the next call, until a transfer   *)
(* is asked for that is longer than its header can say or the USB driver   *)
(* moves less than it was given and reports that all is well; and again    *)
(* from the next open on.                                                  *)
(***************************************************************************)
THEOREM PortImplementsMaster == Spec => MasterSpec
<1>1. Init => BusInv /\ Master!Init
  BY DEF Init, BusInv, Master!Init, Transferring, OfBytes, OfTail, Begins, Crossed, Coming
<1>2. Init => TypeInv
  BY TypesInit
<1>. QED
  BY <1>1, <1>2, PortInit, PortStep, TypeStep, BusSteps, PTL
    DEF Spec, MasterSpec, Master!Spec, Mapped, Refines

=============================================================================
