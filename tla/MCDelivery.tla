----------------------------- MODULE MCDelivery -----------------------------
(* Instances of Delivery for TLC. *)
EXTENDS Delivery, TLC

CONSTANTS m1, m2, alice, bob

MCToOne == [m \in Msgs |-> alice]
MCToEach == m1 :> alice @@ m2 :> bob
=============================================================================
