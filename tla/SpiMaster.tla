------------------------------ MODULE SpiMaster ------------------------------
(***************************************************************************)
(* What the SPI driver promises its client: while the port is open the     *)
(* bits of its transfers cross the wires in the order asked, each once, on *)
(* the clock edge of the mode set, and a transfer is over before the next  *)
(* one or a change of the chip select begins.  Nothing is promised any     *)
(* more, until the port is closed, from a transfer longer than Limit bits  *)
(* on, or once the USB driver moved less than it was asked to and said     *)
(* that all was well: the SPI driver looks at its status alone.            *)
(***************************************************************************)
EXTENDS Naturals, Sequences, SequencesExt

CONSTANTS
  Limit,  (* The longest transfer, in bits.                                *)
  Edges   (* The edges a bit can be clocked on.                            *)

VARIABLES
  on,     (* The port is open.                                             *)
  asked,  (* The bits asked for since the chip select last changed.        *)
  wire,   (* Those that have left, or have come back to the client.        *)
  good    (* No transfer was too long and none was cut short unnoticed.    *)

Init == on = FALSE /\ asked = <<>> /\ wire = <<>> /\ good = TRUE

Open == ~on /\ on' /\ good' /\ asked' = <<>> /\ wire' = <<>>

(* Whatever was asked for and has not left is lost. *)
Close == on /\ ~on' /\ good' /\ asked' = <<>> /\ wire' = <<>>

Ask ==
  /\ on /\ on' /\ wire = asked
  /\ IsStrictPrefix(asked, asked')
  /\ \E d \in {"in", "out"}, e \in Edges :
       \A i \in (Len(asked) + 1)..Len(asked') : asked'[i] = [dir |-> d, pos |-> i, edge |-> e]
  /\ good' = (Len(asked') - Len(asked) <= Limit)
  /\ UNCHANGED wire

Clock ==
  /\ IsStrictPrefix(wire, wire') /\ IsPrefix(wire', asked)
  /\ UNCHANGED <<on, asked, good>>

(* A part of what is asked does not cross, and the driver goes on. *)
Lapse == on /\ on' /\ asked' \in {asked, <<>>} /\ ~good'

Select == on /\ wire = asked /\ asked' = <<>> /\ wire' = <<>> /\ UNCHANGED <<on, good>>

Next ==
  \/ good /\ (Open \/ Close \/ Ask \/ Clock \/ Select \/ Lapse)
  \/ ~good /\ (~good' \/ Close)

Spec == Init /\ [][Next]_<<on, asked, wire, good>>

=============================================================================
