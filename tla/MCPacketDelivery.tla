-------------------------- MODULE MCPacketDelivery --------------------------
(* Instances of PacketDelivery for TLC. *)
EXTENDS PacketDelivery, TLC

CONSTANTS p1, p2, i1, i2, e1, e2, h1, h2

ProcSymmetry == Permutations(Procs)
=============================================================================
