------------------------------ MODULE MCPciList ------------------------------
(* Three buses of two slots of two functions.  Bus 0 holds any mix of       *)
(* devices and bridges; one of its bridges may point back to bus 0, as an   *)
(* unnumbered one does.  Bus 1 may hold a bridge to bus 2, bus 2 a device.  *)
EXTENDS PciList

Answer(k, m, s) == [kind |-> k, multi |-> m, secondary |-> s]
Absent == Answer("none", FALSE, 0)
Device == Answer("device", FALSE, 0)
MultiDevice == Answer("device", TRUE, 0)

MCBuses == 0..2

(* What function 0 and function 1 of a slot of bus 0 can be. *)
First == {Absent, Device, MultiDevice, Answer("bridge", TRUE, 1), Answer("bridge", FALSE, 0)}
Second == {Absent, Device, Answer("bridge", FALSE, 1)}

MCMachines ==
  {[p \in Places |->
      CASE p = <<0, 0, 0>> -> a [] p = <<0, 0, 1>> -> b
        [] p = <<0, 1, 0>> -> c [] p = <<0, 1, 1>> -> d
        [] p = <<1, 0, 0>> -> e [] p = <<1, 1, 0>> -> Device
        [] p = <<2, 1, 0>> -> f [] OTHER -> Absent] :
   a \in First, b \in Second, c \in First, d \in Second,
   e \in {Absent, Device, Answer("bridge", FALSE, 2)}, f \in {Absent, Device}}

=============================================================================
