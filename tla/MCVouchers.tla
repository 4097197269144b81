----------------------------- MODULE MCVouchers -----------------------------
(* Small instances of Vouchers for TLC: the voucher page in the current    *)
(* year, the closing and reopening of two years beside automatic vouchers, *)
(* and drafts that move between a year and its closing.                    *)
EXTENDS Vouchers, TLC

Sale == [asset |-> 1, income |-> -1, equity |-> 0]

Staff == Users \ Admins

Entry == [ops |-> {"create", "edit", "status", "delete"}, users |-> Users, years |-> {3}, rows |-> {Sale}, ids |-> {1},
          first |-> "none", kind |-> "manual"]
TakingBack == [ops |-> {"status", "reverse", "correct", "delete"}, users |-> Staff, years |-> {2, 3}, rows |-> {Sale}, ids |-> 1..3,
               first |-> "approved", kind |-> "manual"]
Closing == [ops |-> {"issue", "voidSource", "close"}, users |-> Staff, years |-> {1, 2}, rows |-> {Sale}, ids |-> 1..3,
            first |-> "permanent", kind |-> "sourced"]
Reopening == [ops |-> {"issue", "close", "reopen"}, users |-> Staff, years |-> {1, 2}, rows |-> {Sale}, ids |-> 1..6,
              first |-> "permanent", kind |-> "sourced"]
Moving == [ops |-> {"issue", "edit", "close"}, users |-> Staff, years |-> {1, 2}, rows |-> {Sale}, ids |-> 1..3,
           first |-> "permanent", kind |-> "sourced"]
ManualClosing == [ops |-> {"status", "reverse", "close"}, users |-> Staff, years |-> {1, 2}, rows |-> {Sale}, ids |-> 1..4,
                  first |-> "approved", kind |-> "manual"]

ClosingScene == {Closing}
AllScenes == {Entry, TakingBack, Closing, Reopening, Moving, ManualClosing}

VoucherSymmetry == Permutations(Sessions) \cup Permutations(Staff)
=============================================================================
