----------------------------- MODULE SiteOrders -----------------------------
(***************************************************************************)
(* Orders of the shop's own site: services/storefront (placing, the        *)
(* buyer's receipt, the colleagues' decisions, the expiry sweep, the uses  *)
(* of a discount code) and the proforma each order shares with the ERP     *)
(* (services/documents/documentLifecycle.service.ts).                      *)
(*                                                                         *)
(* A session is one request (or one open screen) of a buyer or a           *)
(* colleague; a sweeper is the minute timer of one process.  One database  *)
(* transaction is cut into steps where it may wait for a lock: of the      *)
(* order's row, of the phone (advisory), of the item, of the code's row.   *)
(* A refusal, an error, a timeout and a process death all end a            *)
(* transaction without a trace: RollBack.                                  *)
(*                                                                         *)
(* Every order asks one unit of one item and one code exists; amounts are  *)
(* left out (a receipt of another amount is a refusal), and so are         *)
(* requests that can only be refused or answered from what is there.       *)
(***************************************************************************)
EXTENDS Naturals, FiniteSets, Sequences

CONSTANTS Orders,       \* request keys, each of at most one order
          Phones,
          Items,
          Requests,     \* what the keys may ask: functions from Orders to requests
          Sessions,
          Sweepers,
          OpenLimit,    \* openOrdersPerPhone
          UsageLimit,   \* usageLimit of the code
          MaxReceipts,  \* RECEIPTS_PER_ORDER_MAX
          Window,       \* reservationHours, in ticks
          Batch,        \* STOREFRONT_EXPIRY_BATCH
          MaxStock      \* bound: units of each item when the shop opens

ASSUME SiteOrdersAssumption ==
    /\ IsFiniteSet(Orders) /\ Orders # {}
    /\ Requests \subseteq [Orders -> [phone : Phones, item : Items, onAccount : BOOLEAN, withCode : BOOLEAN]]
    /\ OpenLimit \in Nat
    /\ UsageLimit \in Nat
    /\ MaxReceipts \in Nat \ {0}
    /\ Window \in Nat \ {0}
    /\ Batch \in Nat \ {0}
    /\ MaxStock \in Nat

VARIABLES
    request,    \* what each key asks (fixed)
    order,      \* the rows of storefront_orders
    receipts,   \* statuses of storefront_payment_receipts of each order, oldest first
    use,        \* the order's row of storefront_discount_redemptions
    doc,        \* the order's document in the ERP
    paid,       \* live treasury receipts on that document
    stock,      \* units of each item at hand
    deadlines,  \* the placed orders by reserve_until
    session,    \* what each session does
    sweeper     \* what each sweeper does

rows == <<order, receipts, use, doc, paid, stock, deadlines>>
vars == <<request, rows, session, sweeper>>

Open == {"awaiting_payment", "payment_submitted", "awaiting_approval"}
Expiring == {"awaiting_payment", "awaiting_approval"}
Paid == {"paid", "confirmed", "shipped", "delivered"}
Status == Open \cup Paid \cup {"none", "cancelled"}

OrderRows == [status : Status, version : Nat, left : 0..Window, reason : {"none", "staff", "expired"}]
Placing == {"phone", "items", "code", "insert"}
SessionStates == [pc : Placing \cup {"idle", "receipt", "screen", "confirm", "approve", "void"},
                  order : Orders, seen : Nat, shown : Status, late : BOOLEAN]
SweeperStates == [pc : {"idle", "list", "void"}, list : Seq(Orders)]

TypeOK ==
    /\ request \in Requests
    /\ order \in [Orders -> OrderRows]
    /\ receipts \in [Orders -> Seq({"pending", "accepted", "rejected"})]
    /\ use \in [Orders -> {"none", "live", "released"}]
    /\ doc \in [Orders -> {"none", "proforma", "final", "void"}]
    /\ paid \in [Orders -> Nat]
    /\ stock \in [Items -> Nat]
    /\ deadlines \in Seq(Orders)
    /\ session \in [Sessions -> SessionStates]
    /\ sweeper \in [Sweepers -> SweeperStates]

NoOrder == [status |-> "none", version |-> 0, left |-> 0, reason |-> "none"]
On(o, pc) == [pc |-> pc, order |-> o, seen |-> 0, shown |-> "none", late |-> FALSE]
Idle == On(CHOOSE o \in Orders : TRUE, "idle")

Init ==
    /\ request \in Requests
    /\ order = [o \in Orders |-> NoOrder]
    /\ receipts = [o \in Orders |-> << >>]
    /\ use = [o \in Orders |-> "none"]
    /\ doc = [o \in Orders |-> "none"]
    /\ paid = [o \in Orders |-> 0]
    /\ \E n \in 1..MaxStock : stock = [i \in Items |-> n]
    /\ deadlines = << >>
    /\ session = [s \in Sessions |-> Idle]
    /\ sweeper = [w \in Sweepers |-> [pc |-> "idle", list |-> << >>]]

-----------------------------------------------------------------------------
(* Locks: a transaction keeps what it locked until it ends. *)
OrderFree(o) ==
    /\ \A s \in Sessions : session[s].pc \in {"confirm", "approve", "void"} => session[s].order # o
    /\ \A w \in Sweepers : sweeper[w].pc = "void" => Head(sweeper[w].list) # o
NoLock(p) == TRUE
PhoneFree(p) == \A s \in Sessions : session[s].pc \in {"items", "code", "insert"} => request[session[s].order].phone # p
ItemFree(i) == \A s \in Sessions : session[s].pc \in {"code", "insert"} => request[session[s].order].item # i
CodeFree == \A s \in Sessions : session[s].pc = "insert" => ~ request[session[s].order].withCode

Ends(s) == session' = [session EXCEPT ![s] = Idle]
Continues(s, pc) == session' = [session EXCEPT ![s].pc = pc]

OpenOf(p) == {o \in Orders : request[o].phone = p /\ order[o].status \in Open}
Uses == {o \in Orders : use[o] = "live"}
Reserved(i) == {o \in Orders : doc[o] = "proforma" /\ request[o].item = i}
Sellable(i) == stock[i] > Cardinality(Reserved(i))

Moved(o, status) == order' = [order EXCEPT ![o].status = status, ![o].version = @ + 1]

(* placeOrder: a key that has its order is answered with it (replay), which changes nothing. *)
PlaceBegin(s, o) ==
    /\ session[s].pc = "idle"
    /\ order[o].status = "none"
    /\ session' = [session EXCEPT ![s] = On(o, "phone")]
    /\ UNCHANGED <<request, rows, sweeper>>

PhoneLock(s) ==
    LET p == request[session[s].order].phone IN
    /\ session[s].pc = "phone"
    /\ PhoneFree(p)
    /\ Cardinality(OpenOf(p)) < OpenLimit
    /\ Continues(s, "items")
    /\ UNCHANGED <<request, rows, sweeper>>

ItemLock(s) ==
    /\ session[s].pc = "items"
    /\ ItemFree(request[session[s].order].item)
    /\ Sellable(request[session[s].order].item)
    /\ Continues(s, IF request[session[s].order].withCode THEN "code" ELSE "insert")
    /\ UNCHANGED <<request, rows, sweeper>>

CodeLock(s) ==
    /\ session[s].pc = "code"
    /\ CodeFree
    /\ Cardinality(Uses) < UsageLimit
    /\ Continues(s, "insert")
    /\ UNCHANGED <<request, rows, sweeper>>

(* The commit; an order of the same key that came first is a replay. *)
Replay(s) ==
    /\ session[s].pc = "insert"
    /\ order[session[s].order].status # "none"
    /\ Ends(s)
    /\ UNCHANGED <<request, rows, sweeper>>

Insert(s) ==
    LET o == session[s].order IN
    /\ session[s].pc = "insert"
    /\ order[o].status = "none"
    /\ order' = [order EXCEPT ![o] =
          [status |-> IF request[o].onAccount THEN "awaiting_approval" ELSE "awaiting_payment",
           version |-> 1, left |-> Window, reason |-> "none"]]
    /\ doc' = [doc EXCEPT ![o] = "proforma"]
    /\ use' = [use EXCEPT ![o] = IF request[o].withCode THEN "live" ELSE "none"]
    /\ deadlines' = Append(deadlines, o)
    /\ Ends(s)
    /\ UNCHANGED <<request, receipts, paid, stock, sweeper>>

-----------------------------------------------------------------------------
(* receiptFor: the deadline is compared with the start of the transaction, *)
(* so it has passed if it had then and no rejection has moved it since.    *)
ReceiptBegin(s, o) ==
    /\ session[s].pc = "idle"
    /\ order[o].status \in {"awaiting_payment", "payment_submitted"}
    /\ session' = [session EXCEPT ![s] = [On(o, "receipt") EXCEPT
                     !.seen = order[o].version, !.late = (order[o].left = 0)]]
    /\ UNCHANGED <<request, rows, sweeper>>

SubmittedSilently(o) == order' = [order EXCEPT ![o].status = "payment_submitted"]
SubmittedUnknown(o) == Moved(o, "submitted")
Submitted(o) == Moved(o, "payment_submitted")

Receipt(s) ==
    LET o == session[s].order IN
    /\ session[s].pc = "receipt"
    /\ OrderFree(o)
    /\ order[o].status = "awaiting_payment"
    /\ ~ (session[s].late /\ order[o].version = session[s].seen)
    /\ Len(receipts[o]) < MaxReceipts
    /\ receipts' = [receipts EXCEPT ![o] = Append(@, "pending")]
    /\ Submitted(o)
    /\ Ends(s)
    /\ UNCHANGED <<request, use, doc, paid, stock, deadlines, sweeper>>

-----------------------------------------------------------------------------
(* A colleague opens an order and later decides (lockedOrder). *)
Look(s, o) ==
    /\ session[s].pc = "idle"
    /\ order[o].status \notin {"none", "delivered", "cancelled"}
    /\ session' = [session EXCEPT ![s] = [On(o, "screen") EXCEPT
                     !.seen = order[o].version, !.shown = order[o].status]]
    /\ UNCHANGED <<request, rows, sweeper>>

LockedOrder(s) ==
    /\ session[s].pc = "screen"
    /\ OrderFree(session[s].order)
    /\ order[session[s].order].version = session[s].seen

(* pendingReceipt *)
Pending(o) == \E i \in DOMAIN receipts[o] : receipts[o][i] = "pending"
Reviewed(o, status) ==
    receipts' = [receipts EXCEPT ![o] = [i \in DOMAIN @ |-> IF @[i] = "pending" THEN status ELSE @[i]]]

Confirm(s) ==
    /\ LockedOrder(s)
    /\ order[session[s].order].status \in Open
    /\ Pending(session[s].order)
    /\ Continues(s, "confirm")
    /\ UNCHANGED <<request, rows, sweeper>>

(* assertLiveProforma, finalizeDocument: the item is locked, so the document stays what is read. *)
LiveProforma(o) == ItemFree(request[o].item) /\ doc[o] = "proforma"
Finalized(o) ==
    /\ stock[request[o].item] > 0
    /\ doc' = [doc EXCEPT ![o] = "final"]
    /\ stock' = [stock EXCEPT ![request[o].item] = @ - 1]

ConfirmCommit(s) ==
    LET o == session[s].order IN
    /\ session[s].pc = "confirm"
    /\ LiveProforma(o)
    /\ Finalized(o)
    /\ paid' = [paid EXCEPT ![o] = @ + 1]
    /\ Reviewed(o, "accepted")
    /\ Moved(o, "paid")
    /\ Ends(s)
    /\ UNCHANGED <<request, use, deadlines, sweeper>>

Approve(s) ==
    /\ LockedOrder(s)
    /\ order[session[s].order].status = "awaiting_approval"
    /\ Continues(s, "approve")
    /\ UNCHANGED <<request, rows, sweeper>>

ApproveCommit(s) ==
    LET o == session[s].order IN
    /\ session[s].pc = "approve"
    /\ LiveProforma(o)
    /\ Finalized(o)
    /\ Moved(o, "confirmed")
    /\ Ends(s)
    /\ UNCHANGED <<request, receipts, use, paid, deadlines, sweeper>>

(* rejectReceipt: the buyer gets a fresh window, so every other deadline comes before. *)
Latest(o) ==
    LET at == CHOOSE i \in DOMAIN deadlines : deadlines[i] = o IN
    [i \in DOMAIN deadlines |->
        IF i < at THEN deadlines[i] ELSE IF i < Len(deadlines) THEN deadlines[i + 1] ELSE o]

Reject(s) ==
    LET o == session[s].order IN
    /\ LockedOrder(s)
    /\ order[o].status \in Open
    /\ Pending(o)
    /\ Reviewed(o, "rejected")
    /\ order' = [order EXCEPT ![o].status = "awaiting_payment", ![o].version = @ + 1, ![o].left = Window]
    /\ deadlines' = Latest(o)
    /\ Ends(s)
    /\ UNCHANGED <<request, use, doc, paid, stock, sweeper>>

Fulfil(s) ==
    LET o == session[s].order IN
    /\ LockedOrder(s)
    /\ \/ order[o].status \in {"paid", "confirmed"} /\ Moved(o, "shipped")
       \/ order[o].status = "shipped" /\ Moved(o, "delivered")
    /\ Ends(s)
    /\ UNCHANGED <<request, receipts, use, doc, paid, stock, deadlines, sweeper>>

-----------------------------------------------------------------------------
(* cancelOpenOrder reads the document without a lock; deleteDocument then  *)
(* locks the item and voids whatever the document has become, unless it    *)
(* has treasury rows.                                                      *)
Cancel(s) ==
    /\ LockedOrder(s)
    /\ order[session[s].order].status \in Open
    /\ doc[session[s].order] # "final"
    /\ Continues(s, "void")
    /\ UNCHANGED <<request, rows, sweeper>>

VoidablePaid(o) == ItemFree(request[o].item)
Voidable(o) == ItemFree(request[o].item) /\ paid[o] = 0
Voided(o) ==
    /\ doc' = [doc EXCEPT ![o] = "void"]
    /\ stock' = [stock EXCEPT ![request[o].item] = IF doc[o] = "final" THEN @ + 1 ELSE @]

(* releaseDiscount *)
Released(o) == use' = [use EXCEPT ![o] = IF @ = "live" THEN "released" ELSE @]

Closed(o, reason) ==
    /\ doc[o] # "void" => Voidable(o)
    /\ Voided(o)
    /\ Reviewed(o, "rejected")
    /\ order' = [order EXCEPT ![o].status = "cancelled", ![o].version = @ + 1, ![o].reason = reason]
    /\ Released(o)
    /\ UNCHANGED <<request, paid, deadlines>>

CancelCommit(s) ==
    /\ session[s].pc = "void"
    /\ Closed(session[s].order, "staff")
    /\ Ends(s)
    /\ UNCHANGED sweeper

RollBack(s) ==
    /\ session[s].pc # "idle"
    /\ Ends(s)
    /\ UNCHANGED <<request, rows, sweeper>>

-----------------------------------------------------------------------------
(* expireDueOrdersOnce: a list read once, then one transaction per order. *)
Due(o) == order[o].status \in Expiring /\ order[o].left = 0
Sooner(a, b) == \E i, j \in DOMAIN deadlines : i < j /\ deadlines[i] = a /\ deadlines[j] = b
DueOrders == {o \in Orders : Due(o)}

(* The list holds the due orders by deadline, the last of them left out of a list that is full. *)
DueList(list) ==
    /\ \A i \in DOMAIN list : list[i] \in DueOrders
    /\ \A i, j \in DOMAIN list : i < j => Sooner(list[i], list[j])
    /\ \A o \in DueOrders :
          \/ \E i \in DOMAIN list : list[i] = o
          \/ Len(list) = Batch /\ Sooner(list[Batch], o)

SweepList(w) ==
    /\ sweeper[w].pc = "idle"
    /\ \E n \in 1..Batch : \E list \in [1..n -> Orders] :
          /\ DueList(list)
          /\ sweeper' = [sweeper EXCEPT ![w] = [pc |-> "list", list |-> list]]
    /\ UNCHANGED <<request, rows, session>>

SweepNext(w) ==
    sweeper' = [sweeper EXCEPT ![w] =
        [pc |-> IF Len(@.list) = 1 THEN "idle" ELSE "list", list |-> Tail(@.list)]]

ListedWasDue(o) == order[o].status \notin {"cancelled"} \cup Paid
StillDue(o) == Due(o)

SweepLock(w) ==
    LET o == Head(sweeper[w].list) IN
    /\ sweeper[w].pc = "list"
    /\ OrderFree(o)
    /\ StillDue(o)
    /\ doc[o] # "final"
    /\ sweeper' = [sweeper EXCEPT ![w].pc = "void"]
    /\ UNCHANGED <<request, rows, session>>

SweepSkip(w) ==
    LET o == Head(sweeper[w].list) IN
    /\ sweeper[w].pc = "list"
    /\ OrderFree(o)
    /\ ~ StillDue(o) \/ doc[o] = "final"
    /\ SweepNext(w)
    /\ UNCHANGED <<request, rows, session>>

SweepCommit(w) ==
    /\ sweeper[w].pc = "void"
    /\ Closed(Head(sweeper[w].list), "expired")
    /\ SweepNext(w)
    /\ UNCHANGED session

(* A failure before the locks leaves the order for a later list, like an idle timer. *)
SweepFails(w) ==
    /\ sweeper[w].pc = "void"
    /\ ItemFree(request[Head(sweeper[w].list)].item)
    /\ SweepNext(w)
    /\ UNCHANGED <<request, rows, session>>

-----------------------------------------------------------------------------
(* The order's document in the ERP, by a colleague who does not look at the order. *)
ErpFinalize(o) ==
    /\ LiveProforma(o)
    /\ Finalized(o)
    /\ UNCHANGED <<request, order, receipts, use, paid, deadlines, session, sweeper>>

ErpVoid(o) ==
    /\ doc[o] \in {"proforma", "final"}
    /\ Voidable(o)
    /\ Voided(o)
    /\ UNCHANGED <<request, order, receipts, use, paid, deadlines, session, sweeper>>

(* Time: reserve_until is read of expiring orders only. *)
Tick ==
    /\ \E o \in Orders : order[o].status \in Expiring /\ order[o].left > 0
    /\ order' = [o \in Orders |->
          IF order[o].status \in Expiring /\ order[o].left > 0
          THEN [order[o] EXCEPT !.left = @ - 1] ELSE order[o]]
    /\ UNCHANGED <<request, receipts, use, doc, paid, stock, deadlines, session, sweeper>>

SessionStep(s) ==
    \/ PhoneLock(s) \/ ItemLock(s) \/ CodeLock(s) \/ Replay(s) \/ Insert(s)
    \/ Receipt(s)
    \/ Confirm(s) \/ ConfirmCommit(s)
    \/ Approve(s) \/ ApproveCommit(s)
    \/ Reject(s) \/ Fulfil(s)
    \/ Cancel(s) \/ CancelCommit(s)
    \/ RollBack(s)

SweepStep(w) ==
    SweepList(w) \/ SweepLock(w) \/ SweepSkip(w) \/ SweepCommit(w) \/ SweepFails(w)

Next ==
    \/ \E s \in Sessions, o \in Orders : PlaceBegin(s, o) \/ ReceiptBegin(s, o) \/ Look(s, o)
    \/ \E s \in Sessions : SessionStep(s)
    \/ \E w \in Sweepers : SweepStep(w)
    \/ \E o \in Orders : ErpFinalize(o) \/ ErpVoid(o)
    \/ Tick

Spec == Init /\ [][Next]_vars

-----------------------------------------------------------------------------
(* Money: a card order has an accepted receipt, a treasury row and a final *)
(* invoice together or none of them, a receipt waits for review exactly    *)
(* while the order says so, and a cancelled order has kept nothing         *)
(* (confirmPayment, rejectReceipt, cancelOpenOrder, deleteDocument).       *)
Accepted(o) == {i \in DOMAIN receipts[o] : receipts[o][i] = "accepted"}
MoneyFits(o) ==
    /\ paid[o] = Cardinality(Accepted(o))
    /\ paid[o] = IF order[o].status \in Paid /\ ~ request[o].onAccount THEN 1 ELSE 0
    /\ paid[o] > 0 => doc[o] = "final"
    /\ Pending(o) <=> order[o].status = "payment_submitted"
    /\ order[o].status = "cancelled" => doc[o] = "void" /\ use[o] # "live"

MoneyMeansInvoice == \A o \in Orders : MoneyFits(o)

(* However requests overlap, a phone holds no more open orders than its    *)
(* limit and a code no more uses than its own (placeInTransaction,         *)
(* chooseDiscount), and only cancelled orders gave their use back.         *)
LimitsHold ==
    /\ \A p \in Phones : Cardinality(OpenOf(p)) =< OpenLimit
    /\ Cardinality(Uses) =< UsageLimit
    /\ \A o \in Orders : use[o] = "released" <=> order[o].status = "cancelled" /\ request[o].withCode

(* Every open proforma can still be delivered from what is at hand (the    *)
(* sellable check of placeInTransaction under the item's lock).            *)
ReservedWithinStock == \A i \in Items : Cardinality(Reserved(i)) =< stock[i]

(* What is promised to buyers stays within both. *)
PromisesKept == LimitsHold /\ ReservedWithinStock

(* A colleague's decision never falls on an order in another state than    *)
(* the screen showed: every change of the order counts its version up      *)
(* (lockedOrder, moveOrder, receiptFor).                                   *)
StaffActsOnWhatItSaw ==
    [][\A s \in Sessions : LET o == session[s].order IN
          /\ session[s].pc = "screen"
          /\ \/ session'[s].pc \in {"confirm", "approve", "void"}
             \/ session'[s].pc = "idle" /\ order'[o] # order[o]
          => order[o].status = session[s].shown]_vars

(* The sweep ends only reservations whose time is over, and never one      *)
(* whose receipt a colleague has not answered (expireDueOrdersOnce).       *)
ExpiresOnlyDue ==
    [][\A o \in Orders : order'[o].reason = "expired" /\ order[o].reason # "expired" => Due(o)]_vars

(* An order whose invoice is final is not cancelled: "its cancelling goes  *)
(* by way of a sales return" (cancelOpenOrder).                            *)
FinalInvoiceSurvives ==
    [][\A o \in Orders :
          order[o].status \in Open /\ order'[o].status = "cancelled" => doc[o] # "final"]_vars
=============================================================================
