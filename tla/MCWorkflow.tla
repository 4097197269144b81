----------------------------- MODULE MCWorkflow -----------------------------
(* The seeded approval of sales documents, with the quorum of the steps a   *)
(* designer may ask: two of the role, or all of it.                         *)
EXTENDS Workflow, TLC

CONSTANTS u1, u2, u3, s1, s2

Card(from, to, rule, guarded, negative) ==
    [from |-> from, to |-> to, rule |-> rule, k |-> 2, guarded |-> guarded, negative |-> negative]

Seeded(rule) ==
    { Card("draft", "warehouse_review", "SINGLE", FALSE, FALSE),
      Card("warehouse_review", "accounting_review", rule, TRUE, FALSE),
      Card("accounting_review", "approved", "SINGLE", TRUE, FALSE),
      Card("draft", "approved", "SINGLE", TRUE, FALSE),
      Card("warehouse_review", "rejected", "SINGLE", FALSE, TRUE),
      Card("rejected", "draft", "SINGLE", FALSE, FALSE) }

TwoOrAll == {Seeded("K_OF_N"), Seeded("AND_ALL")}
ASSUME SeedAssumption == RejectedGoesToDraft
Symmetry == Permutations(Sessions) \cup Permutations(InitialHolders)
=============================================================================
