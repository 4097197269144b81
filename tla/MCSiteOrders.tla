---------------------------- MODULE MCSiteOrders ----------------------------
(* Small instances of SiteOrders for TLC: two keys that share a phone, or  *)
(* want the last use of a code, or want the same item.                     *)
EXTENDS SiteOrders, TLC

CONSTANTS k1, k2, p1, p2, i1, i2

ByCard(p, i) == [phone |-> p, item |-> i, onAccount |-> FALSE, withCode |-> TRUE]
OnAccount(p, i) == [phone |-> p, item |-> i, onAccount |-> TRUE, withCode |-> FALSE]
SamePhone == (k1 :> ByCard(p1, i1)) @@ (k2 :> OnAccount(p1, i2))
SameCode == (k1 :> ByCard(p1, i1)) @@ (k2 :> ByCard(p2, i2))
SameItem == (k1 :> ByCard(p1, i1)) @@ (k2 :> OnAccount(p2, i1))

AllRequests == {SamePhone, SameCode, SameItem}
OneRequest == {SameItem}

SessionSymmetry == Permutations(Sessions)
=============================================================================
