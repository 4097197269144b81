-------------------------- MODULE MCStockDocuments --------------------------
(* Small instances of StockDocuments for TLC. *)
EXTENDS StockDocuments, TLC

CONSTANTS w1, w2, r1, v1, v2, t1, t2

OneEach == [i \in Items |-> [w \in Warehouses |-> 1]]
OneOf(i) == [j \in Items |-> [w \in Warehouses |-> IF j = i THEN 1 ELSE 0]]

\* a receipt, two invoices and two returns of the first, in one warehouse
TradeKind == (r1 :> "receipt") @@ (v1 :> "invoice") @@ (v2 :> "invoice") @@ (t1 :> "return") @@ (t2 :> "return")
TradeReturns == (r1 :> NoDoc) @@ (v1 :> NoDoc) @@ (v2 :> NoDoc) @@ (t1 :> v1) @@ (t2 :> v1)
On(lines, day) == [lines |-> lines, day |-> day]
TradeEntries == (r1 :> {On(OneOf(1), 1)}) @@ (v1 :> {On(OneEach, 2)})
             @@ (v2 :> {On(OneOf(1), 1), On(OneOf(2), 2)}) @@ (t1 :> {On(OneOf(1), 1)}) @@ (t2 :> {On(OneOf(1), 2)})
OpeningStock == OneEach

\* two invoices of one item that lies in two warehouses
SplitKind == (v1 :> "invoice") @@ (v2 :> "invoice")
SplitReturns == (v1 :> NoDoc) @@ (v2 :> NoDoc)
OneIn(x) == [i \in Items |-> [w \in Warehouses |-> IF w = x THEN 1 ELSE 0]]
SplitEntries == (v1 :> {On(OneIn(w1), 1)}) @@ (v2 :> {On(OneEach, 1)})

StockSymmetry == Permutations(Sessions)
=============================================================================
