----------------------------- MODULE MCDelivery -----------------------------
(* A small instance of Delivery for TLC.  The run checks liveness, so it   *)
(* uses no symmetry.                                                       *)
EXTENDS Delivery
=============================================================================
