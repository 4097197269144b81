------------------------------ MODULE MCOutbox ------------------------------
(* Small instances of Outbox for TLC: workers and handlers are each        *)
(* interchangeable.                                                        *)
EXTENDS Outbox, TLC

OutboxSymmetry == Permutations(Workers) \cup Permutations(Handlers)
=============================================================================
