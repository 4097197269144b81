----------------------------- MODULE MCSettlement -----------------------------
(* Small instances of Settlement for TLC: money moving between two accounts, *)
(* receipts on two documents, a cheque and a receipt on one document.        *)
EXTENDS SettlementSerial, TLC

Split(a, b) == (1 :> a) @@ (2 :> b)

Treasury == [ops |-> {"receipt", "transfer", "void"}, banks |-> {1, 2}, docs |-> {},
             rows |-> {1, 2, 3}, splits |-> {NoParts}, start |-> "final"]
ChequeBook == [ops |-> {"payment", "cheque", "step", "deleteCheque"}, banks |-> {1, 2}, docs |-> {},
               rows |-> {1}, splits |-> {NoParts}, start |-> "final"]
Receipts == [ops |-> {"receipt", "void", "relink", "replace"}, banks |-> {1}, docs |-> {1, 2},
             rows |-> {1, 2}, splits |-> {NoParts, Split(1, 1), Split(2, 0)}, start |-> "final"]
ChequeParts == [ops |-> {"receipt", "cheque", "step", "replaceCheque"}, banks |-> {1}, docs |-> {1},
          rows |-> {1}, splits |-> {NoParts, Split(2, 0)}, start |-> "proforma"]
Papers == [ops |-> {"receipt", "void", "replace", "edit", "finalize", "return", "voidDocument"}, banks |-> {1}, docs |-> {1},
           rows |-> {1}, splits |-> {NoParts, Split(1, 0)}, start |-> "proforma"]

AllScenes == {Treasury, ChequeBook, Receipts, ChequeParts, Papers}

SessionSymmetry == Permutations(Sessions)
=============================================================================
