---------------------------- MODULE MCIdempotency ----------------------------
(* Small instances of Idempotency for TLC: the runs of one key are         *)
(* interchangeable, and so are the request contents.                       *)
EXTENDS Idempotency, TLC

RunSymmetry == Permutations(Runs)
=============================================================================
