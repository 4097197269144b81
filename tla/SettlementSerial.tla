--------------------------- MODULE SettlementSerial ---------------------------
(***************************************************************************)
(* What the transactions of Settlement promise their users: every request  *)
(* is checked and written in one step, with nobody else about.  The records *)
(* are those of Settlement; there are no sessions, no locks, nothing        *)
(* remembered, and a request may be anything its endpoint accepts.          *)
(***************************************************************************)
EXTENDS Settlement

SerialInit ==
    /\ balance = [b \in Banks |-> Opening]
    /\ row = [r \in Rows |-> NoRow]
    /\ cheque = [c \in Cheques |-> NoCheque]
    /\ \E start \in {"proforma", "final"} :
          doc = [d \in Docs |-> [status |-> start, payable |-> MaxPayable, returned |-> 0]]

FreeRows == {r \in Rows : row[r].status = "none"}
FreeCheques == {c \in Cheques : cheque[c].status = "none"}

-----------------------------------------------------------------------------
(* Receipts, payments and transfers. *)

OneReceipt(b, d, parts) ==
    /\ balance' = [balance EXCEPT ![b] = @ + Amount]
    /\ Total(parts) <= Amount
    /\ d = 0 \/ parts = NoParts
    /\ d # 0 => FitsAnew(d, Amount)
    /\ AllFit(parts)
    /\ \E r \in FreeRows :
          row' = [row EXCEPT ![r] = [NoRow EXCEPT !.status = "completed", !.bank = b, !.link = d, !.parts = parts,
                                                  !.vouchers = {<<Bank(b), Party>>}]]

OnePayment(b) ==
    /\ NotOverdrawn(b, 0 - Amount)
    /\ balance' = [balance EXCEPT ![b] = @ - Amount]
    /\ \E r \in FreeRows :
          row' = [row EXCEPT ![r] = [NoRow EXCEPT !.status = "completed", !.type = "payment", !.bank = b,
                                                  !.vouchers = {<<Party, Bank(b)>>}]]

OneTransfer(from, to) ==
    /\ from # to
    /\ NotOverdrawn(from, 0 - Amount)
    /\ balance' = [balance EXCEPT ![from] = @ - Amount, ![to] = @ + Amount]
    /\ \E p, r \in FreeRows :
          /\ p # r
          /\ row' = [row EXCEPT
                ![p] = [NoRow EXCEPT !.status = "completed", !.type = "payment", !.bank = from, !.pair = r,
                                     !.vouchers = {<<Bank(to), Bank(from)>>}],
                ![r] = [NoRow EXCEPT !.status = "completed", !.bank = to, !.pair = p]]

(* A transfer is voided from either side. *)
OneVoid(r) ==
    /\ Live(r)
    /\ \A q \in SidesOf(r) : NotOverdrawn(row[q].bank, Back(q))
    /\ row' = [q \in Rows |-> IF q \in SidesOf(r) THEN [row[q] EXCEPT !.status = "voided", !.vouchers = {}] ELSE row[q]]
    /\ balance' = [b \in Banks |-> IF \E q \in SidesOf(r) : row[q].bank = b
                                   THEN balance[b] + Back(CHOOSE q \in SidesOf(r) : row[q].bank = b) ELSE balance[b]]

OneRelink(r, d) ==
    /\ UNCHANGED balance
    /\ Live(r) /\ row[r].type = "receipt" /\ row[r].pair = 0
    /\ ~ HasParts(r)
    /\ row[r].link # d
    /\ d # 0 => FitsAnew(d, Amount)
    /\ row' = [row EXCEPT ![r].link = d]

OneReplace(r, parts) ==
    /\ UNCHANGED balance
    /\ Live(r) /\ row[r].type = "receipt" /\ row[r].pair = 0
    /\ Total(parts) <= Amount
    /\ \A d \in Chosen(parts) : Fits(d, parts[d], RowShare(r, d), Settled(d) - RowShare(r, d))
    /\ row' = [row EXCEPT ![r].parts = parts, ![r].link = 0]

-----------------------------------------------------------------------------
(* Cheques. *)

OneCheque(type, b, parts) ==
    /\ UNCHANGED balance
    /\ Total(parts) <= Amount
    /\ type = "paid" => parts = NoParts
    /\ AllFit(parts)
    /\ \E c \in FreeCheques :
          cheque' = [cheque EXCEPT ![c] =
              [status |-> IF type = "received" THEN "received" ELSE "in_treasury", type |-> type, bank |-> b,
               parts |-> parts, vouchers |-> IF type = "received" THEN {<<Hand, Party>>} ELSE {<<Party, Payable>>}]]

(* The account a cheque clears at: its own, when it is one we issued. *)
ClearsAt(c, b) == cheque[c].type = "paid" /\ cheque[c].bank # 0 => b = cheque[c].bank

OneClearing(c, b) ==
    /\ "passed" \in chequeNextStatuses(c)
    /\ ClearsAt(c, b)
    /\ NotOverdrawn(b, Clears(c))
    /\ balance' = [balance EXCEPT ![b] = @ + Clears(c)]
    /\ cheque' = [cheque EXCEPT ![c].status = "passed", ![c].bank = b,
                                ![c].vouchers = @ \cup StepVouchers(c, "passed", b)]

(* Sent to an account for collection, or to one not named. *)
OneStep(c, want, b) ==
    /\ UNCHANGED balance
    /\ want \in chequeNextStatuses(c) \ {"passed"}
    /\ b = cheque[c].bank \/ want = "in_collection"
    /\ cheque' = [cheque EXCEPT ![c].status = want, ![c].bank = b,
                                ![c].vouchers = @ \cup StepVouchers(c, want, b)]

OneReplaceCheque(c, parts) ==
    /\ UNCHANGED balance
    /\ ~ Lapsed(c) /\ cheque[c].type = "received"
    /\ Total(parts) <= Amount
    /\ \A d \in Chosen(parts) : Fits(d, parts[d], ChequeShare(c, d), Settled(d) - ChequeShare(c, d))
    /\ cheque' = [cheque EXCEPT ![c].parts = parts]

OneDeleteCheque(c) ==
    /\ UNCHANGED balance
    /\ cheque[c].status \notin {"none", "passed", "spent", "deleted"}
    /\ cheque' = [cheque EXCEPT ![c].status = "deleted", ![c].vouchers = {}]

-----------------------------------------------------------------------------
(* Documents. *)

OneRewrite(d, status, payable) ==
    /\ doc[d].status \in {"draft", "proforma"}
    /\ Covers(d, payable)
    /\ doc' = [doc EXCEPT ![d].status = status, ![d].payable = payable]

OneReturn(d) ==
    /\ doc[d].status = "final"
    /\ doc[d].returned < doc[d].payable
    /\ doc' = [doc EXCEPT ![d].returned = @ + 1]

OneVoidReturn(d) ==
    /\ doc[d].returned > 0
    /\ doc' = [doc EXCEPT ![d].returned = @ - 1]

OneVoidDocument(d) ==
    /\ doc[d].status # "void" /\ doc[d].returned = 0 /\ Settled(d) = 0
    /\ doc' = [doc EXCEPT ![d].status = "void"]

-----------------------------------------------------------------------------
(* One request changes treasury rows, a cheque or a document. *)
OneOfRows ==
    /\ row' # row /\ UNCHANGED <<cheque, doc>>
    /\ \/ \E b \in Banks, d \in Docs \cup {0}, parts \in Parts : OneReceipt(b, d, parts)
       \/ \E b \in Banks : OnePayment(b)
       \/ \E from, to \in Banks : OneTransfer(from, to)
       \/ \E r \in Rows : OneVoid(r)
       \/ \E r \in Rows, d \in Docs \cup {0} : OneRelink(r, d)
       \/ \E r \in Rows, parts \in Parts : OneReplace(r, parts)

OneOfCheques ==
    /\ cheque' # cheque /\ UNCHANGED <<row, doc>>
    /\ \/ \E type \in {"received", "paid"}, b \in Banks \cup {0}, parts \in Parts : OneCheque(type, b, parts)
       \/ \E c \in Cheques, b \in Banks : OneClearing(c, b)
       \/ \E c \in Cheques, want \in ChequeStatus, b \in Banks \cup {0} : OneStep(c, want, b)
       \/ \E c \in Cheques, parts \in Parts : OneReplaceCheque(c, parts)
       \/ \E c \in Cheques : OneDeleteCheque(c)

OneOfDocs ==
    /\ doc' # doc /\ UNCHANGED <<balance, row, cheque>>
    /\ \/ \E d \in Docs, status \in {"draft", "proforma", "final"}, payable \in 1..MaxPayable : OneRewrite(d, status, payable)
       \/ \E d \in Docs : OneReturn(d) \/ OneVoidReturn(d) \/ OneVoidDocument(d)

SerialNext == OneOfRows \/ OneOfCheques \/ OneOfDocs

(* However the transactions of sessions interleave, balances, rows, cheques *)
(* and documents change as if each request ran alone: what a transaction    *)
(* checked still holds when it writes, and it writes from what is there     *)
(* (withTransaction, lockTreasuryBanks, lockSettlementDocuments).           *)
ActsOneAtATime == SerialInit /\ [][SerialNext]_data
=============================================================================
