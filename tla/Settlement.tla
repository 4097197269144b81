------------------------------ MODULE Settlement ------------------------------
(***************************************************************************)
(* Money and what it settles: services/accounting/treasury (receipts and   *)
(* payments, transfers, voids, cheques, the parts of a receipt or cheque   *)
(* put on documents) and the steps of services/documents that must respect *)
(* what settles a document.                                                *)
(*                                                                         *)
(* A session is one database transaction: it begins, takes its row locks   *)
(* one by one (need, held), reads and checks under them, writes and        *)
(* commits.  A refusal, an error, a deadlock abort and a crash all end it  *)
(* without a trace: RollBack.  Locks have PostgreSQL's four row modes.     *)
(*                                                                         *)
(* Followed are the sales documents of one customer; the purchase side is  *)
(* the same code mirrored.  Every receipt, payment and cheque is worth     *)
(* Amount, in one currency and with its voucher.  A reversal row and the   *)
(* row it voids are one voided row here: they cancel in every sum.         *)
(***************************************************************************)
EXTENDS Integers, Sequences, FiniteSetsExt

CONSTANTS Banks,       \* ids of bank accounts
          Docs,        \* ids of documents
          Rows,        \* ids treasury rows may get
          Cheques,     \* ids cheques may get
          Sessions,
          Amount,      \* of every receipt, payment and cheque
          Opening,     \* opening balance of every bank account
          MaxPayable,  \* bound: payable amount of a document
          Scenes       \* what the users of one behaviour do: operations, banks, documents, rows, splits

Parts == [Docs -> 0..Amount]
Operations == {"receipt", "payment", "transfer", "void", "relink", "replace", "cheque", "step",
               "replaceCheque", "deleteCheque", "edit", "finalize", "return", "voidDocument"}

ASSUME SettlementAssumption ==
    /\ Banks \subseteq Nat \ {0} /\ IsFiniteSet(Banks)
    /\ Docs \subseteq Nat \ {0} /\ IsFiniteSet(Docs)
    /\ Rows \subseteq Nat \ {0} /\ IsFiniteSet(Rows)
    /\ Cheques \subseteq Nat \ {0} /\ IsFiniteSet(Cheques)
    /\ Amount \in Nat \ {0}
    /\ Opening \in Nat
    /\ MaxPayable \in Nat \ {0}
    /\ Scenes \subseteq [ops : SUBSET Operations, banks : SUBSET Banks, docs : SUBSET Docs,
                         rows : SUBSET Rows, splits : SUBSET Parts, start : {"proforma", "final"}]

VARIABLES
    scene,    \* what the users do (fixed)
    balance,  \* bank_accounts.current_balance
    row,      \* treasury_transactions, with the live parts and the voucher of each
    cheque,   \* cheques, with their live parts and vouchers
    doc,      \* documents
    tx        \* the transaction of each session

data == <<balance, row, cheque, doc>>
vars == <<scene, data, tx>>

(* A voucher is a pair: the account debited, the account credited. *)
Bank(b) == <<"bank", b>>
Hand == <<"hand">>              \* received cheques at hand
Collection == <<"collection">>
Payable == <<"payable">>        \* cheques we issued
Protest == <<"protest">>
Party == <<"party">>
Creditors == <<"creditors">>
Accounts == {Bank(b) : b \in Banks} \cup {Hand, Collection, Payable, Protest, Party, Creditors}

ChequeStatus == {"received", "in_treasury", "in_collection", "passed", "bounced", "returned", "spent"}
NoParts == [d \in Docs |-> 0]

RowRecords == [status : {"none", "completed", "voided"}, type : {"receipt", "payment"}, bank : Banks \cup {0},
               link : Docs \cup {0}, pair : Rows \cup {0}, parts : Parts, vouchers : SUBSET (Accounts \X Accounts)]
ChequeRecords == [status : ChequeStatus \cup {"none", "deleted"}, type : {"received", "paid"}, bank : Banks \cup {0},
                  parts : Parts, vouchers : SUBSET (Accounts \X Accounts)]
DocRecords == [status : {"draft", "proforma", "final", "void"}, payable : 1..MaxPayable, returned : 0..MaxPayable]

Wants == ChequeStatus \cup {"paid", "draft", "proforma", "final", "void", "none"}
Locks == [on : {"bank", "cheque", "doc", "row"}, id : Nat, mode : 1..4]
Transactions == [op : Operations \cup {"none"}, id : Nat, bank : Banks \cup {0}, to : Banks \cup {0}, doc : Docs \cup {0},
                 parts : Parts, want : Wants, payable : 0..MaxPayable, need : Seq(Locks), held : SUBSET Locks,
                 checked : BOOLEAN, saw : [Banks -> Nat]]

TypeOK ==
    /\ scene \in Scenes
    /\ balance \in [Banks -> Nat]
    /\ row \in [Rows -> RowRecords]
    /\ cheque \in [Cheques -> ChequeRecords]
    /\ doc \in [Docs -> DocRecords]
    /\ tx \in [Sessions -> Transactions]

Nothing == [b \in Banks |-> 0]
Idle == [op |-> "none", id |-> 0, bank |-> 0, to |-> 0, doc |-> 0, parts |-> NoParts, want |-> "none", payable |-> 0,
         need |-> << >>, held |-> {}, checked |-> FALSE, saw |-> Nothing]
NoRow == [status |-> "none", type |-> "receipt", bank |-> 0, link |-> 0, pair |-> 0, parts |-> NoParts, vouchers |-> {}]
NoCheque == [status |-> "none", type |-> "received", bank |-> 0, parts |-> NoParts, vouchers |-> {}]

Init ==
    /\ scene \in Scenes
    /\ balance = [b \in Banks |-> Opening]
    /\ row = [r \in Rows |-> NoRow]
    /\ cheque = [c \in Cheques |-> NoCheque]
    /\ doc = [d \in Docs |-> [status |-> scene.start, payable |-> MaxPayable, returned |-> 0]]
    /\ tx = [s \in Sessions |-> Idle]

-----------------------------------------------------------------------------
(* What settles a document. *)

Live(r) == row[r].status = "completed"
Lapsed(c) == cheque[c].status \in {"none", "deleted", "bounced", "returned"}

LinkShare(r, d) == IF row[r].link = d THEN Amount ELSE 0
RowShare(r, d) == IF Live(r) THEN LinkShare(r, d) + row[r].parts[d] ELSE 0
ChequeShare(c, d) == IF Lapsed(c) THEN 0 ELSE cheque[c].parts[d]

SettledByRows(rs, d) == SumFunctionOnSet([r \in rs |-> RowShare(r, d)], rs)
SettledByCheques(cs, d) == SumFunctionOnSet([c \in cs |-> ChequeShare(c, d)], cs)
Settled(d) == SettledByRows(Rows, d) + SettledByCheques(Cheques, d)

Total(parts) == SumFunctionOnSet(parts, Docs)
Chosen(parts) == {d \in Docs : parts[d] > 0}
PartsIgnored(r) == FALSE
HasParts(r) == Chosen(row[r].parts) # {}

(* assertTreasuryDocumentLink, assertSettleableDocumentStatus and          *)
(* assertWithinDocumentRemaining: others is what other sources settle.     *)
Fits(d, amount, kept, others) ==
    /\ doc[d].status # "void"
    /\ doc[d].status \in {"final", "proforma"} \/ (kept > 0 /\ amount <= kept)
    /\ amount <= doc[d].payable - others - doc[d].returned

FitsAnew(d, amount) == Fits(d, amount, 0, Settled(d))
AllFit(parts) == \A d \in Chosen(parts) : FitsAnew(d, parts[d])

(* documentIsSettled, assertPayableCoversSettlement *)
Covers(d, payable) == Settled(d) = 0 \/ Settled(d) + doc[d].returned <= payable

-----------------------------------------------------------------------------
(* Row locks: FOR KEY SHARE, SHARE, NO KEY UPDATE and UPDATE. *)
KeyShare == 1
Share == 2
NoKeyUpdate == 3
Update == 4
Conflict(a, b) == a.on = b.on /\ a.id = b.id /\ a.mode + b.mode >= 5

InOrder(on, ids, mode) ==
    LET Nth(n) == CHOOSE x \in ids : Cardinality({y \in ids : y < x}) = n - 1 IN
    [n \in 1..Cardinality(ids) |-> [on |-> on, id |-> Nth(n), mode |-> mode]]

NotLocked(ids) == << >>
LockedForUpdate(ids) == InOrder("doc", ids, Update)
lockTreasuryBanks(ids) == InOrder("bank", ids, Update)
lockSettlementDocuments(ids) == InOrder("doc", ids, NoKeyUpdate)
lockRows(ids) == InOrder("row", ids, Update)
lockCheque(c) == InOrder("cheque", {c}, Update)
lockDocument(d) == InOrder("doc", {d}, Update)
shareBank(b) == IF b = 0 THEN << >> ELSE InOrder("bank", {b}, Share)

(* The reversal row of a linked row has a foreign key to the document. *)
referenceDocument(d) == IF d = 0 THEN << >> ELSE InOrder("doc", {d}, KeyShare)

Blockers(s) == {p \in Sessions \ {s} : \E l \in tx[p].held : Conflict(l, Head(tx[s].need))}

Begins(s, t) ==
    /\ tx[s].op = "none"
    /\ t.op \in scene.ops
    /\ tx' = [tx EXCEPT ![s] = t]
    /\ UNCHANGED <<scene, data>>

Ends(s) == tx' = [tx EXCEPT ![s] = Idle]

Ready(s, op) == tx[s].op = op /\ tx[s].checked /\ tx[s].need = << >>

Lock(s) ==
    /\ tx[s].need # << >>
    /\ Blockers(s) = {}
    /\ tx' = [tx EXCEPT ![s].need = Tail(@), ![s].held = @ \cup {Head(tx[s].need)}]
    /\ UNCHANGED <<scene, data>>

(* Everything is read and checked under the locks; writes come later. *)
Checking(s, op) == tx[s].op = op /\ ~ tx[s].checked /\ tx[s].need = << >>

Passes(s, needs) ==
    /\ tx' = [tx EXCEPT ![s].checked = TRUE, ![s].need = needs, ![s].saw = balance]
    /\ UNCHANGED <<scene, data>>

RollBack(s) ==
    /\ tx[s].op # "none"
    /\ Ends(s)
    /\ UNCHANGED <<scene, data>>

(* writeBankBalance: the balance read under the lock, moved; never negative. *)
Moved(s, b, delta) == tx[s].saw[b] + delta
Overdraws(b, delta) == TRUE
NotOverdrawn(b, delta) == balance[b] + delta >= 0
writeBankBalance(s, b, delta) == balance' = [balance EXCEPT ![b] = Moved(s, b, delta)]

Unused == {r \in scene.rows : row[r].status = "none"}
NextRow == {r \in Unused : \A q \in Unused : r <= q}
NextCheque == {c \in Cheques : cheque[c].status = "none" /\ \A q \in Cheques : cheque[q].status = "none" => c <= q}

-----------------------------------------------------------------------------
(* Receipts and payments (createTreasuryTransaction).  Requests that are   *)
(* refused whatever happens meanwhile are left out of every Begin.         *)

BeginReceipt(s, b, d, parts) ==
    /\ Total(parts) <= Amount
    /\ d = 0 \/ parts = NoParts
    /\ Begins(s, [Idle EXCEPT !.op = "receipt", !.bank = b, !.doc = d, !.parts = parts,
                  !.need = lockTreasuryBanks({b}) \o lockSettlementDocuments(({d} \ {0}) \cup Chosen(parts))])

CheckReceipt(s) ==
    /\ Checking(s, "receipt")
    /\ tx[s].doc # 0 => FitsAnew(tx[s].doc, Amount)
    /\ AllFit(tx[s].parts)
    /\ Passes(s, << >>)

Receipt(s) ==
    /\ Ready(s, "receipt")
    /\ \E r \in NextRow :
          row' = [row EXCEPT ![r] = [NoRow EXCEPT !.status = "completed", !.bank = tx[s].bank, !.link = tx[s].doc,
                                     !.parts = tx[s].parts, !.vouchers = {<<Bank(tx[s].bank), Party>>}]]
    /\ writeBankBalance(s, tx[s].bank, Amount)
    /\ Ends(s)
    /\ UNCHANGED <<scene, cheque, doc>>

BeginPayment(s, b) ==
    Begins(s, [Idle EXCEPT !.op = "payment", !.bank = b, !.need = lockTreasuryBanks({b})])

CheckPayment(s) ==
    /\ Checking(s, "payment")
    /\ NotOverdrawn(tx[s].bank, 0 - Amount)
    /\ Passes(s, << >>)

Payment(s) ==
    /\ Ready(s, "payment")
    /\ \E r \in NextRow :
          row' = [row EXCEPT ![r] = [NoRow EXCEPT !.status = "completed", !.type = "payment", !.bank = tx[s].bank,
                                     !.vouchers = {<<Party, Bank(tx[s].bank)>>}]]
    /\ writeBankBalance(s, tx[s].bank, 0 - Amount)
    /\ Ends(s)
    /\ UNCHANGED <<scene, cheque, doc>>

(* createTreasuryTransfer: two rows that share one voucher, kept with the payment. *)
BeginTransfer(s, from, to) ==
    /\ from # to
    /\ Begins(s, [Idle EXCEPT !.op = "transfer", !.bank = from, !.to = to, !.need = lockTreasuryBanks({from, to})])

CheckTransfer(s) ==
    /\ Checking(s, "transfer")
    /\ NotOverdrawn(tx[s].bank, 0 - Amount)
    /\ Passes(s, << >>)

Transfer(s) ==
    LET from == tx[s].bank
        to == tx[s].to
    IN
    /\ Ready(s, "transfer")
    /\ \E p \in NextRow, r \in Unused :
          /\ r # p
          /\ \A q \in Unused \ {p} : r <= q
          /\ row' = [row EXCEPT
                ![p] = [NoRow EXCEPT !.status = "completed", !.type = "payment", !.bank = from, !.pair = r,
                                     !.vouchers = {<<Bank(to), Bank(from)>>}],
                ![r] = [NoRow EXCEPT !.status = "completed", !.bank = to, !.pair = p]]
    /\ balance' = [balance EXCEPT ![from] = Moved(s, from, 0 - Amount), ![to] = Moved(s, to, Amount)]
    /\ Ends(s)
    /\ UNCHANGED <<scene, cheque, doc>>

(* voidTreasuryTransaction: both sides of a transfer with their one voucher. *)
SidesOf(r) == {r, row[r].pair} \ {0}
Back(r) == IF row[r].type = "receipt" THEN 0 - Amount ELSE Amount

BeginVoid(s, r) ==
    /\ row[r].status # "none"
    /\ Begins(s, [Idle EXCEPT !.op = "void", !.id = r,
                  !.need = lockTreasuryBanks({row[q].bank : q \in SidesOf(r)}) \o lockRows(SidesOf(r))])

CheckVoid(s) ==
    LET r == tx[s].id IN
    /\ Checking(s, "void")
    /\ Live(r)
    /\ \A q \in SidesOf(r) : NotOverdrawn(row[q].bank, Back(q))
    /\ Passes(s, referenceDocument(row[r].link))

Void(s) ==
    LET sides == SidesOf(tx[s].id) IN
    /\ Ready(s, "void")
    /\ row' = [q \in Rows |-> IF q \in sides THEN [row[q] EXCEPT !.status = "voided", !.vouchers = {}] ELSE row[q]]
    /\ balance' = [b \in Banks |-> IF \E q \in sides : row[q].bank = b
                                   THEN Moved(s, b, Back(CHOOSE q \in sides : row[q].bank = b)) ELSE balance[b]]
    /\ Ends(s)
    /\ UNCHANGED <<scene, cheque, doc>>

-----------------------------------------------------------------------------
(* Moving a receipt to another document (relinkTreasuryDocument), or none. *)
BeginRelink(s, r, d) ==
    /\ row[r].type = "receipt" /\ row[r].pair = 0
    /\ row[r].status # "none"
    /\ Begins(s, [Idle EXCEPT !.op = "relink", !.id = r, !.doc = d,
                  !.need = lockTreasuryBanks({row[r].bank}) \o lockSettlementDocuments({d} \ {0}) \o lockRows({r})])

CheckRelink(s) ==
    LET r == tx[s].id
        d == tx[s].doc
    IN
    /\ Checking(s, "relink")
    /\ Live(r)
    /\ ~ HasParts(r)
    /\ row[r].link # d
    /\ d # 0 => FitsAnew(d, Amount)
    /\ Passes(s, << >>)

Relink(s) ==
    /\ Ready(s, "relink")
    /\ row' = [row EXCEPT ![tx[s].id].link = tx[s].doc]
    /\ Ends(s)
    /\ UNCHANGED <<scene, balance, cheque, doc>>

(* Putting a receipt on documents in parts (replaceTreasuryAllocations). *)
BeginReplace(s, r, parts) ==
    /\ row[r].type = "receipt" /\ row[r].pair = 0
    /\ row[r].status # "none"
    /\ Total(parts) <= Amount
    /\ Begins(s, [Idle EXCEPT !.op = "replace", !.id = r, !.parts = parts,
                  !.need = lockSettlementDocuments(Chosen(parts)) \o lockRows({r})])

CheckReplace(s) ==
    LET r == tx[s].id
        parts == tx[s].parts
    IN
    /\ Checking(s, "replace")
    /\ Live(r)
    /\ \A d \in Chosen(parts) : Fits(d, parts[d], RowShare(r, d), Settled(d) - RowShare(r, d))
    /\ Passes(s, << >>)

Replace(s) ==
    /\ Ready(s, "replace")
    /\ row' = [row EXCEPT ![tx[s].id].parts = tx[s].parts, ![tx[s].id].link = 0]
    /\ Ends(s)
    /\ UNCHANGED <<scene, balance, cheque, doc>>

-----------------------------------------------------------------------------
(* Cheques (chequeLifecycle.service.ts). *)

BeginCheque(s, type, b, parts) ==
    /\ Total(parts) <= Amount
    /\ type = "paid" => parts = NoParts
    /\ Begins(s, [Idle EXCEPT !.op = "cheque", !.want = type, !.bank = b, !.parts = parts,
                  !.need = shareBank(b) \o lockSettlementDocuments(Chosen(parts))])

CheckCheque(s) ==
    /\ Checking(s, "cheque")
    /\ AllFit(tx[s].parts)
    /\ Passes(s, << >>)

Cheque(s) ==
    LET received == tx[s].want = "received" IN
    /\ Ready(s, "cheque")
    /\ \E c \in NextCheque :
          cheque' = [cheque EXCEPT ![c] =
              [status |-> IF received THEN "received" ELSE "in_treasury", type |-> tx[s].want, bank |-> tx[s].bank,
               parts |-> tx[s].parts, vouchers |-> IF received THEN {<<Hand, Party>>} ELSE {<<Party, Payable>>}]]
    /\ Ends(s)
    /\ UNCHANGED <<scene, balance, row, doc>>

(* chequeNextStatuses *)
FromHand == {"in_collection", "passed", "bounced", "spent"}
chequeNextStatuses(c) ==
    LET all == CASE cheque[c].status = "received" -> FromHand \cup {"in_treasury"}
                 [] cheque[c].status = "in_treasury" -> FromHand
                 [] cheque[c].status = "in_collection" -> {"passed", "bounced"}
                 [] cheque[c].status = "bounced" -> {"returned"}
                 [] OTHER -> {}
    IN IF cheque[c].type = "paid" THEN all \ {"in_collection", "spent"} ELSE all

(* The account of a clearing is chosen before any lock: a paid cheque      *)
(* clears at the account it was issued from.                               *)
ClearingBanks(c) == IF cheque[c].type = "paid" /\ cheque[c].bank # 0 THEN {cheque[c].bank} ELSE scene.banks

BeginStep(s, c, want, b) ==
    /\ want \in chequeNextStatuses(c)
    /\ CASE want = "passed" -> b \in ClearingBanks(c)
         [] want = "in_collection" -> b \in scene.banks \cup {0}
         [] OTHER -> b = 0
    /\ Begins(s, [Idle EXCEPT !.op = "step", !.id = c, !.want = want, !.bank = b,
                  !.need = (IF want = "passed" THEN lockTreasuryBanks({b}) ELSE shareBank(b)) \o lockCheque(c)])

Clears(c) == IF cheque[c].type = "received" THEN Amount ELSE 0 - Amount

CheckStep(s) ==
    LET c == tx[s].id IN
    /\ Checking(s, "step")
    /\ tx[s].want \in chequeNextStatuses(c)
    /\ tx[s].want = "passed" => NotOverdrawn(tx[s].bank, Clears(c))
    /\ Passes(s, << >>)

(* The voucher of a step; in_treasury and a paid cheque's return have none. *)
StepVouchers(c, want, b) ==
    LET from == IF cheque[c].status = "in_collection" THEN Collection ELSE Hand
        received == cheque[c].type = "received"
    IN CASE want = "passed" -> IF received THEN {<<Bank(b), from>>} ELSE {<<Payable, Bank(b)>>}
         [] want = "in_collection" -> {<<Collection, Hand>>}
         [] want = "bounced" -> IF received THEN {<<Protest, from>>} ELSE {<<Payable, Party>>}
         [] want = "returned" /\ received -> {<<Party, Protest>>}
         [] want = "spent" -> {<<Creditors, Hand>>}
         [] OTHER -> {}

(* Going to collection sets the bank it names, leaves it, or clears it. *)
NextBanks(c, want, b) ==
    IF b # 0 THEN {b} ELSE {cheque[c].bank} \cup (IF want = "in_collection" THEN {0} ELSE {})

Step(s) ==
    LET c == tx[s].id
        want == tx[s].want
        b == tx[s].bank
    IN
    /\ Ready(s, "step")
    /\ \E bank \in NextBanks(c, want, b) :
          cheque' = [cheque EXCEPT ![c].status = want, ![c].bank = bank,
                                   ![c].vouchers = @ \cup StepVouchers(c, want, b)]
    /\ IF want = "passed" THEN writeBankBalance(s, b, Clears(c)) ELSE UNCHANGED balance
    /\ Ends(s)
    /\ UNCHANGED <<scene, row, doc>>

(* replaceChequeAllocations *)
BeginReplaceCheque(s, c, parts) ==
    /\ cheque[c].type = "received" /\ cheque[c].status # "none"
    /\ Total(parts) <= Amount
    /\ Begins(s, [Idle EXCEPT !.op = "replaceCheque", !.id = c, !.parts = parts,
                  !.need = lockCheque(c) \o lockSettlementDocuments(Chosen(parts))])

CheckReplaceCheque(s) ==
    LET c == tx[s].id
        parts == tx[s].parts
    IN
    /\ Checking(s, "replaceCheque")
    /\ ~ Lapsed(c)
    /\ \A d \in Chosen(parts) : Fits(d, parts[d], ChequeShare(c, d), Settled(d) - ChequeShare(c, d))
    /\ Passes(s, << >>)

ReplaceCheque(s) ==
    /\ Ready(s, "replaceCheque")
    /\ cheque' = [cheque EXCEPT ![tx[s].id].parts = tx[s].parts]
    /\ Ends(s)
    /\ UNCHANGED <<scene, balance, row, doc>>

(* deleteCheque: its vouchers are voided with it. *)
BeginDeleteCheque(s, c) ==
    /\ cheque[c].status # "none"
    /\ Begins(s, [Idle EXCEPT !.op = "deleteCheque", !.id = c, !.need = lockCheque(c)])

CheckDeleteCheque(s) ==
    /\ Checking(s, "deleteCheque")
    /\ cheque[tx[s].id].status \notin {"passed", "spent", "deleted"}
    /\ Passes(s, << >>)

DeleteCheque(s) ==
    /\ Ready(s, "deleteCheque")
    /\ cheque' = [cheque EXCEPT ![tx[s].id].status = "deleted", ![tx[s].id].vouchers = {}]
    /\ Ends(s)
    /\ UNCHANGED <<scene, balance, row, doc>>

-----------------------------------------------------------------------------
(* The documents' side: what settles a document limits what becomes of it. *)

BeginDocument(s, op, d, status, payable) ==
    Begins(s, [Idle EXCEPT !.op = op, !.doc = d, !.want = status, !.payable = payable, !.need = lockDocument(d)])

(* updateDocument: a draft or a proforma, with new lines. *)
CheckEdit(s) ==
    /\ Checking(s, "edit")
    /\ doc[tx[s].doc].status \in {"draft", "proforma"}
    /\ Covers(tx[s].doc, tx[s].payable)
    /\ Passes(s, << >>)

(* finalizeDocument: the tax sent with it may change the payable. *)
CheckFinalize(s) ==
    /\ Checking(s, "finalize")
    /\ doc[tx[s].doc].status \in {"draft", "proforma"}
    /\ Covers(tx[s].doc, tx[s].payable)
    /\ Passes(s, << >>)

Rewrite(s) ==
    /\ Ready(s, "edit") \/ Ready(s, "finalize")
    /\ doc' = [doc EXCEPT ![tx[s].doc].status = tx[s].want, ![tx[s].doc].payable = tx[s].payable]
    /\ Ends(s)
    /\ UNCHANGED <<scene, balance, row, cheque>>

(* A final sales return credits its invoice; what was settled stays. *)
CheckReturn(s) ==
    /\ Checking(s, "return")
    /\ doc[tx[s].doc].status = "final"
    /\ doc[tx[s].doc].returned < doc[tx[s].doc].payable
    /\ Passes(s, << >>)

Return(s) ==
    /\ Ready(s, "return")
    /\ doc' = [doc EXCEPT ![tx[s].doc].returned = @ + 1]
    /\ Ends(s)
    /\ UNCHANGED <<scene, balance, row, cheque>>

(* The void of a return locks the return, not its invoice. *)
VoidReturn(d) ==
    /\ "return" \in scene.ops
    /\ doc[d].returned > 0
    /\ doc' = [doc EXCEPT ![d].returned = @ - 1]
    /\ UNCHANGED <<scene, balance, row, cheque, tx>>

(* deleteDocument: no live return, receipt, payment or part. *)
CheckVoidDocument(s) ==
    /\ Checking(s, "voidDocument")
    /\ doc[tx[s].doc].status # "void"
    /\ doc[tx[s].doc].returned = 0
    /\ Settled(tx[s].doc) = 0
    /\ Passes(s, << >>)

VoidDocument(s) ==
    /\ Ready(s, "voidDocument")
    /\ doc' = [doc EXCEPT ![tx[s].doc].status = "void"]
    /\ Ends(s)
    /\ UNCHANGED <<scene, balance, row, cheque>>

-----------------------------------------------------------------------------
Begin(s) ==
    \/ \E b \in scene.banks, d \in scene.docs \cup {0}, parts \in scene.splits : BeginReceipt(s, b, d, parts)
    \/ \E b \in scene.banks : BeginPayment(s, b)
    \/ \E from, to \in scene.banks : BeginTransfer(s, from, to)
    \/ \E r \in Rows : BeginVoid(s, r)
    \/ \E r \in Rows, d \in scene.docs \cup {0} : BeginRelink(s, r, d)
    \/ \E r \in Rows, parts \in scene.splits : BeginReplace(s, r, parts)
    \/ \E type \in {"received", "paid"}, b \in scene.banks \cup {0}, parts \in scene.splits : BeginCheque(s, type, b, parts)
    \/ \E c \in Cheques, want \in ChequeStatus, b \in scene.banks \cup {0} : BeginStep(s, c, want, b)
    \/ \E c \in Cheques, parts \in scene.splits : BeginReplaceCheque(s, c, parts)
    \/ \E c \in Cheques : BeginDeleteCheque(s, c)
    \/ \E d \in scene.docs, status \in {"draft", "proforma"}, payable \in 1..MaxPayable : BeginDocument(s, "edit", d, status, payable)
    \/ \E d \in scene.docs, payable \in 1..MaxPayable : BeginDocument(s, "finalize", d, "final", payable)
    \/ \E d \in scene.docs : BeginDocument(s, "return", d, "none", 0)
    \/ \E d \in scene.docs : BeginDocument(s, "voidDocument", d, "void", 0)

Check(s) ==
    \/ CheckReceipt(s) \/ CheckPayment(s) \/ CheckTransfer(s) \/ CheckVoid(s)
    \/ CheckRelink(s) \/ CheckReplace(s)
    \/ CheckCheque(s) \/ CheckStep(s) \/ CheckReplaceCheque(s) \/ CheckDeleteCheque(s)
    \/ CheckEdit(s) \/ CheckFinalize(s) \/ CheckReturn(s) \/ CheckVoidDocument(s)

Write(s) ==
    \/ Receipt(s) \/ Payment(s) \/ Transfer(s) \/ Void(s)
    \/ Relink(s) \/ Replace(s)
    \/ Cheque(s) \/ Step(s) \/ ReplaceCheque(s) \/ DeleteCheque(s)
    \/ Rewrite(s) \/ Return(s) \/ VoidDocument(s)

Next ==
    \/ \E s \in Sessions : Begin(s) \/ Lock(s) \/ Check(s) \/ Write(s) \/ RollBack(s)
    \/ \E d \in scene.docs : VoidReturn(d)

Spec == Init /\ [][Next]_vars

-----------------------------------------------------------------------------
Posted(vouchers, a) == Cardinality({v \in vouchers : v[1] = a}) - Cardinality({v \in vouchers : v[2] = a})
Ledger(a) == Amount * (SumFunctionOnSet([r \in Rows |-> Posted(row[r].vouchers, a)], Rows)
                       + SumFunctionOnSet([c \in Cheques |-> Posted(cheque[c].vouchers, a)], Cheques))

RowsAt(b, type) == {r \in Rows : Live(r) /\ row[r].bank = b /\ row[r].type = type}
ChequesAt(b, type) == {c \in Cheques : cheque[c].status = "passed" /\ cheque[c].bank = b /\ cheque[c].type = type}
Standing(type, statuses) == Amount * Cardinality({c \in Cheques : cheque[c].type = type /\ cheque[c].status \in statuses})

(* The books agree with the records, whatever ran side by side: the        *)
(* balance of a bank account is its opening, its live rows and the cheques *)
(* cleared at it, is what the ledger says, and is never negative; and each *)
(* cheque account of the ledger holds the cheques in that state            *)
(* (writeBankBalance, updateChequeStatus, voidSourceVoucher).              *)
BooksAgree ==
    /\ \A b \in Banks :
          /\ balance[b] >= 0
          /\ balance[b] = Opening + Ledger(Bank(b))
          /\ balance[b] = Opening + Amount *
                (Cardinality(RowsAt(b, "receipt")) - Cardinality(RowsAt(b, "payment"))
                 + Cardinality(ChequesAt(b, "received")) - Cardinality(ChequesAt(b, "paid")))
    /\ Ledger(Hand) = Standing("received", {"received", "in_treasury"})
    /\ Ledger(Collection) = Standing("received", {"in_collection"})
    /\ Ledger(Protest) = Standing("received", {"bounced"})
    /\ Ledger(Payable) = 0 - Standing("paid", {"in_treasury"})

(* A voided document is worth nothing. *)
Worth(d) == IF doc[d].status = "void" THEN 0 ELSE doc[d].payable
Excess(d) == Max({0, Settled(d) + doc[d].returned - Worth(d)})

(* No receipt, cheque, part, edit, finalize or void leaves more settled on *)
(* a document than it is worth; only a return may, since the money is then *)
(* the customer's (assertWithinDocumentRemaining, settledDocumentEdit,     *)
(* assertVoidHasNoTreasuryRows).                                           *)
NoOversettle == [][\A d \in Docs : Excess(d)' > Excess(d) => doc'[d].returned > doc[d].returned]_vars

(* A receipt or cheque settles at most its own amount: it never has a      *)
(* direct link beside its parts (TREASURY_ROW_HAS_ALLOCATIONS).            *)
SourceWithinAmount ==
    /\ \A r \in Rows : SumFunctionOnSet([d \in Docs |-> RowShare(r, d)], Docs) <= Amount
    /\ \A c \in Cheques : SumFunctionOnSet([d \in Docs |-> ChequeShare(c, d)], Docs) <= Amount

(* No transactions wait for each other in a circle: banks, cheques,        *)
(* documents, rows and ids within each are locked in one order, and the    *)
(* key of a document is taken beside a settlement (lib/lockOrder.ts,       *)
(* lockSettlementDocument).                                                *)
Waits == {s \in Sessions : tx[s].need # << >> /\ Blockers(s) # {}}
NoCircularWait == \A S \in (SUBSET Waits) \ {{}} : \E s \in S : Blockers(s) \cap S = {}
=============================================================================
