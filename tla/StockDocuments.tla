--------------------------- MODULE StockDocuments ---------------------------
(***************************************************************************)
(* Stock documents and the stock they move:                                *)
(* services/documents/documentCreation.service.ts,                         *)
(* documentLifecycle.service.ts (finalize and void),                       *)
(* documentStockEngine.service.ts, documentSellableGate.ts,                *)
(* salesReturnCost.ts and voidDependents.ts, with                          *)
(* services/inventory/stockMovementDate.ts, voidStockHistory.ts,           *)
(* stockItemLocks.ts and itemWarehouseStock.service.ts.                    *)
(*                                                                         *)
(* A session is one database transaction.  It locks the items of the       *)
(* document it peeked at in ascending order, then the document, reads it   *)
(* again, checks and commits; it may roll back at any step (a refused      *)
(* check, one of the checks left out here, a deadlock abort or a crash).   *)
(* What a transaction writes is seen by others at its commit, so its       *)
(* writes are one step, taken under its locks.  Costs, vouchers, projects  *)
(* and treasury are left out: they can only refuse, which is a rollback.   *)
(***************************************************************************)
EXTENDS Integers, FiniteSetsExt

CONSTANTS Items,        \* item ids
          Warehouses,
          Docs,         \* documents that may be recorded
          Kind,         \* their types: "receipt", "return" (in), "invoice", "waste" (out)
          ReturnOf,     \* the invoice a return names
          NoDoc,
          Entries,      \* the quantities and the day users enter on each document
          Today,        \* the business day; days are 1..Today
          Opening,      \* ledger balance before the documents followed here
          Sessions,     \* transactions that may be open
          NoSession,
          MaxEdits      \* bound: edits of drafts and proformas

Quantities == [Items -> [Warehouses -> Nat]]
Days == 1..Today

ASSUME StockAssumption ==
    /\ Items \subseteq Nat
    /\ IsFiniteSet(Items) /\ IsFiniteSet(Warehouses) /\ IsFiniteSet(Docs)
    /\ Kind \in [Docs -> {"receipt", "return", "invoice", "waste"}]
    /\ ReturnOf \in [Docs -> Docs \cup {NoDoc}]
    /\ NoDoc \notin Docs
    /\ Entries \in [Docs -> SUBSET [lines : Quantities, day : Days]]
    /\ Today \in Nat \ {0}
    /\ Opening \in Quantities
    /\ NoSession \notin Sessions
    /\ MaxEdits \in Nat

VARIABLES
    doc,       \* rows of documents, with their lines
    kardex,    \* live rows of transactions per document; id 0 when it has none
    stock,     \* item_warehouse_stocks.current_stock
    itemLock,  \* session that holds the item row FOR NO KEY UPDATE
    docLock,   \* session that holds the document row FOR UPDATE
    session,   \* what each session does, and what it read
    gateSaw,   \* history: reserved by other documents per item, as its gate read it
    edits      \* bound: edits so far

vars == <<doc, kardex, stock, itemLock, docLock, session, gateSaw, edits>>

Nothing == [i \in Items |-> [w \in Warehouses |-> 0]]
NoneReserved == [i \in Items |-> 0]
NoRows == [id |-> 0, day |-> 0, lines |-> Nothing]
Voided == [status |-> "void", day |-> 0, lines |-> Nothing]
Idle == [pc |-> "idle", op |-> "none", doc |-> NoDoc, todo |-> {}, missing |-> {}, lines |-> Nothing, day |-> 0]

AnyLines == {e.lines : e \in UNION {Entries[d] : d \in Docs}} \cup {Nothing}
DocStates == [status : {"absent", "draft", "proforma", "final", "void"}, day : 0..Today, lines : AnyLines]
SessionStates == [pc : {"idle", "items", "check", "move", "insert"}, op : {"none", "create", "finalize", "void"},
                  doc : Docs \cup {NoDoc}, todo : SUBSET Items, missing : SUBSET Items,
                  lines : AnyLines, day : 0..Today]

TypeOK ==
    /\ doc \in [Docs -> DocStates]
    /\ kardex \in [Docs -> [id : Nat, day : 0..Today, lines : AnyLines]]
    /\ stock \in Quantities
    /\ itemLock \in [Items -> Sessions \cup {NoSession}]
    /\ docLock \in [Docs -> Sessions \cup {NoSession}]
    /\ session \in [Sessions -> SessionStates]
    /\ DOMAIN gateSaw = Sessions
    /\ edits \in 0..MaxEdits

Init ==
    /\ doc = [d \in Docs |-> [status |-> "absent", day |-> 0, lines |-> Nothing]]
    /\ kardex = [d \in Docs |-> NoRows]
    /\ stock = Opening
    /\ itemLock = [i \in Items |-> NoSession]
    /\ docLock = [d \in Docs |-> NoSession]
    /\ session = [s \in Sessions |-> Idle]
    /\ gateSaw = [s \in Sessions |-> NoneReserved]
    /\ edits = 0

-----------------------------------------------------------------------------
(* Quantities and the stock ledger. *)

ItemsOf(lines) == {i \in Items : \E w \in Warehouses : lines[i][w] > 0}
InAll(row) == SumFunctionOnSet(row, Warehouses)
Total(lines, i) == InAll(lines[i])

Outgoing(d) == Kind[d] \in {"invoice", "waste"}
Returning(d) == Kind[d] = "return" /\ ReturnOf[d] # NoDoc

Signed(d, i, w) == IF Outgoing(d) THEN 0 - kardex[d].lines[i][w] ELSE kardex[d].lines[i][w]

Posted == {d \in Docs : kardex[d].id # 0}

(* transactions.id orders the live rows by the commit that wrote them. *)
NextId == 1 + Max({0} \cup {kardex[d].id : d \in Docs})

(* The ledger is read in the order of (day, id). *)
UpTo(e, d) == kardex[e].day < kardex[d].day \/ (kardex[e].day = kardex[d].day /\ kardex[e].id <= kardex[d].id)

Balance(ds, i, w) == Opening[i][w] + SumFunctionOnSet([e \in Docs |-> Signed(e, i, w)], ds)
BalanceAt(ds, d, i, w) == Balance({e \in ds : UpTo(e, d)}, i, w)

LastDay(i) == Max({0} \cup {kardex[d].day : d \in {e \in Posted : i \in ItemsOf(kardex[e].lines)}})

(* minimumStockFromDay: a new row goes to the end of its day. *)
MinimumFromDay(i, w, day) ==
    Min({Balance({e \in Posted : kardex[e].day <= day}, i, w)}
        \cup {BalanceAt(Posted, e, i, w) : e \in {f \in Posted : kardex[f].day > day}})

(* assertStockMovementDate: a day before the item's last movement takes    *)
(* the backdate permission, which the session may have.                    *)
DateAllowed(d, lines, day) ==
    \A i \in ItemsOf(lines) :
        \/ day >= LastDay(i)
        \/ ~Outgoing(d)
        \/ \A w \in Warehouses : lines[i][w] > 0 => MinimumFromDay(i, w, day) >= lines[i][w]

InStock(lines) == \A i \in Items, w \in Warehouses : stock[i][w] >= lines[i][w]

Add(lines) == [i \in Items |-> [w \in Warehouses |-> stock[i][w] + lines[i][w]]]
Subtract(lines) == [i \in Items |-> [w \in Warehouses |-> stock[i][w] - lines[i][w]]]

(* getReservedStockDetails: only a sales proforma reserves. *)
Reserving == {d \in Docs : Kind[d] = "invoice" /\ doc[d].status = "proforma"}
ReservedByOthers(d, i) == SumFunctionOnSet([e \in Docs |-> Total(doc[e].lines, i)], Reserving \ {d})

(* computeSellable = min(stock of the warehouse, total - reserved by others). *)
WithinSellable(lines, i, w, reserved) ==
    lines[i][w] > 0 => lines[i][w] <= stock[i][w] /\ lines[i][w] <= Total(stock, i) - reserved

(* assertReturnWithinSold *)
Sold(v, i) == IF doc[v].status = "final" THEN Total(kardex[v].lines, i) ELSE 0
ReturnsOf(v) == {d \in Docs : Returning(d) /\ ReturnOf[d] = v}
Returned(v, i) == SumFunctionOnSet([d \in Docs |-> Total(kardex[d].lines, i)], ReturnsOf(v))
WithinSoldAlone(v, lines) == \A i \in ItemsOf(lines) : Total(lines, i) <= Sold(v, i)
WithinSold(v, lines) == \A i \in ItemsOf(lines) : Total(lines, i) <= Sold(v, i) - Returned(v, i)
Returnable(v) == Kind[v] = "invoice" /\ doc[v].status = "final"

KeepsStockNow(d) == Outgoing(d) \/ InStock(kardex[d].lines)

(* assertVoidKeepsStockHistory: without the rows of d, no balance from      *)
(* them on becomes negative; an earlier negative one is not its doing.     *)
KeepsHistory(d) ==
    Outgoing(d) \/ \A i \in ItemsOf(kardex[d].lines), w \in Warehouses :
        \A e \in {f \in Posted : UpTo(d, f)} :
            LET without == BalanceAt(Posted \ {d}, e, i, w) IN
            without >= 0 \/ without >= BalanceAt(Posted, e, i, w)

HasLiveReturns(v) == \E d \in ReturnsOf(v) : doc[d].status \notin {"absent", "void"}

-----------------------------------------------------------------------------
(* Sessions and their locks. *)

Creating == {session[s].doc : s \in {t \in Sessions : session[t].op = "create"}}
Fresh(d) == doc[d].status = "absent" /\ d \notin Creating
Live(d) == doc[d].status \notin {"absent", "void"}
Editable(d) == doc[d].status \in {"draft", "proforma"}

HeldItems(s) == {i \in Items : itemLock[i] = s}
Unheld(s) == session[s].missing \ HeldItems(s)

(* The session ends, and its transaction gives its locks back. *)
Release(s) ==
    /\ session' = [session EXCEPT ![s] = Idle]
    /\ itemLock' = [i \in Items |-> IF itemLock[i] = s THEN NoSession ELSE itemLock[i]]
    /\ docLock' = [d \in Docs |-> IF docLock[d] = s THEN NoSession ELSE docLock[d]]
    /\ gateSaw' = [gateSaw EXCEPT ![s] = NoneReserved]

Begin(s, op, d, its) ==
    /\ session[s].pc = "idle"
    /\ session' = [session EXCEPT ![s] = [Idle EXCEPT !.pc = "items", !.op = op, !.doc = d, !.todo = its]]

(* finalizeDocument: the peek, without a lock. *)
PeekFinalize(s, d) ==
    /\ Editable(d)
    /\ Begin(s, "finalize", d, ItemsOf(doc[d].lines))
    /\ UNCHANGED <<doc, kardex, stock, itemLock, docLock, gateSaw, edits>>

(* deleteDocument: the peek reads the items of the rows and of the lines. *)
PeekVoid(s, d) ==
    /\ Live(d)
    /\ Begin(s, "void", d, ItemsOf(doc[d].lines) \cup ItemsOf(kardex[d].lines))
    /\ UNCHANGED <<doc, kardex, stock, itemLock, docLock, gateSaw, edits>>

(* createDocumentWithDetails with status final *)
BeginFinal(s, d) ==
    /\ Fresh(d)
    /\ session[s].pc = "idle"
    /\ \E e \in Entries[d] :
           session' = [session EXCEPT ![s] = [pc |-> "items", op |-> "create", doc |-> d, todo |-> ItemsOf(e.lines),
                                              missing |-> {}, lines |-> e.lines, day |-> e.day]]
    /\ UNCHANGED <<doc, kardex, stock, itemLock, docLock, gateSaw, edits>>

(* createDocumentWithDetails: the draft of a return reads its invoice, *)
BeginReturnDraft(s, d) ==
    /\ Fresh(d) /\ Returning(d)
    /\ Returnable(ReturnOf[d])
    /\ session[s].pc = "idle"
    /\ \E e \in Entries[d] :
           session' = [session EXCEPT ![s] = [Idle EXCEPT !.pc = "insert", !.op = "create", !.doc = d,
                                                          !.lines = e.lines, !.day = e.day]]
    /\ UNCHANGED <<doc, kardex, stock, itemLock, docLock, gateSaw, edits>>

(* and its insert waits for the key of the invoice, which may be void by then. *)
InsertReturnDraft(s) ==
    LET me == session[s] IN
    /\ me.pc = "insert"
    /\ docLock[ReturnOf[me.doc]] = NoSession
    /\ doc' = [doc EXCEPT ![me.doc] = [status |-> "draft", day |-> me.day, lines |-> me.lines]]
    /\ Release(s)
    /\ UNCHANGED <<kardex, stock, edits>>

(* createDocumentWithDetails: another draft, or a sales proforma; no gate. *)
CreateDraft(d) ==
    /\ Fresh(d) /\ ~Returning(d)
    /\ \E e \in Entries[d], status \in {"draft", "proforma"} :
           /\ status = "proforma" => Kind[d] = "invoice"
           /\ doc' = [doc EXCEPT ![d] = [status |-> status, day |-> e.day, lines |-> e.lines]]
    /\ UNCHANGED <<kardex, stock, itemLock, docLock, session, gateSaw, edits>>

EditUnlocked(d) ==
    /\ Editable(d)
    /\ Returning(d) => Returnable(ReturnOf[d])
    /\ edits < MaxEdits
    /\ \E e \in Entries[d], status \in {"draft", "proforma"} :
           /\ status = "proforma" => Kind[d] = "invoice"
           /\ doc' = [doc EXCEPT ![d] = [status |-> status, day |-> e.day, lines |-> e.lines]]
    /\ edits' = edits + 1
    /\ UNCHANGED <<kardex, stock, itemLock, docLock, session, gateSaw>>

(* updateDocument: one transaction under the row lock of the document; a   *)
(* return's invoice is looked up again (enforceReturnInvoiceTerms).        *)
Edit(d) ==
    /\ docLock[d] = NoSession
    /\ Editable(d)
    /\ Returning(d) => Returnable(ReturnOf[d])
    /\ edits < MaxEdits
    /\ \E e \in Entries[d], status \in {"draft", "proforma"} :
           /\ status = "proforma" => Kind[d] = "invoice"
           /\ doc' = [doc EXCEPT ![d] = [status |-> status, day |-> e.day, lines |-> e.lines]]
    /\ edits' = edits + 1
    /\ UNCHANGED <<kardex, stock, itemLock, docLock, session, gateSaw>>

-----------------------------------------------------------------------------
(* Locking: the items in ascending order, then the document. *)

LockItemUnsorted(s) ==
    /\ session[s].pc = "items"
    /\ \E i \in session[s].todo :
           /\ itemLock[i] = NoSession
           /\ itemLock' = [itemLock EXCEPT ![i] = s]
           /\ session' = [session EXCEPT ![s].todo = @ \ {i}]
    /\ UNCHANGED <<doc, kardex, stock, docLock, gateSaw, edits>>

LockItemShared(s) ==
    LET i == Min(session[s].todo) IN
    /\ session[s].pc = "items" /\ session[s].todo # {}
    /\ itemLock' = [itemLock EXCEPT ![i] = s]
    /\ session' = [session EXCEPT ![s].todo = @ \ {i}]
    /\ UNCHANGED <<doc, kardex, stock, docLock, gateSaw, edits>>

LockItem(s) ==
    LET i == Min(session[s].todo) IN
    /\ session[s].pc = "items" /\ session[s].todo # {}
    /\ itemLock[i] = NoSession
    /\ itemLock' = [itemLock EXCEPT ![i] = s]
    /\ session' = [session EXCEPT ![s].todo = @ \ {i}]
    /\ UNCHANGED <<doc, kardex, stock, docLock, gateSaw, edits>>

(* Where a session goes with its document in hand: out of the stock        *)
(* through the gate, a return to its invoice, other stock straight in.     *)
AfterItems(d) == IF Outgoing(d) \/ Returning(d) THEN "check" ELSE "move"

Checked(s) ==
    /\ session[s].pc = "items" /\ session[s].op = "create" /\ session[s].todo = {}
    /\ session' = [session EXCEPT ![s].pc = AfterItems(session[s].doc)]
    /\ UNCHANGED <<doc, kardex, stock, itemLock, docLock, gateSaw, edits>>

LockFinalizeAsPeeked(s) ==
    LET d == session[s].doc
        day == IF Kind[d] = "invoice" /\ doc[d].status = "proforma" THEN Today ELSE doc[d].day IN
    /\ session[s].pc = "items" /\ session[s].op = "finalize" /\ session[s].todo = {}
    /\ docLock[d] = NoSession
    /\ docLock' = [docLock EXCEPT ![d] = s]
    /\ session' = [session EXCEPT ![s].pc = AfterItems(d), ![s].lines = doc[d].lines, ![s].day = day,
                                  ![s].missing = ItemsOf(doc[d].lines) \ HeldItems(s)]
    /\ UNCHANGED <<doc, kardex, stock, itemLock, gateSaw, edits>>

(* finalizeDocument under its locks: a document voided or finalized since  *)
(* the peek ends the session, and the lines read now count.                *)
LockFinalize(s) ==
    LET d == session[s].doc
        day == IF Kind[d] = "invoice" /\ doc[d].status = "proforma" THEN Today ELSE doc[d].day IN
    /\ session[s].pc = "items" /\ session[s].op = "finalize" /\ session[s].todo = {}
    /\ docLock[d] = NoSession
    /\ Editable(d)
    /\ docLock' = [docLock EXCEPT ![d] = s]
    /\ session' = [session EXCEPT ![s].pc = AfterItems(d), ![s].lines = doc[d].lines, ![s].day = day,
                                  ![s].missing = ItemsOf(doc[d].lines) \ HeldItems(s)]
    /\ UNCHANGED <<doc, kardex, stock, itemLock, gateSaw, edits>>

LockVoid(s) ==
    LET d == session[s].doc IN
    /\ session[s].pc = "items" /\ session[s].op = "void" /\ session[s].todo = {}
    /\ docLock[d] = NoSession
    /\ Live(d)
    /\ docLock' = [docLock EXCEPT ![d] = s]
    /\ session' = [session EXCEPT ![s].pc = "check", ![s].missing = ItemsOf(kardex[d].lines) \ HeldItems(s)]
    /\ UNCHANGED <<doc, kardex, stock, itemLock, gateSaw, edits>>

(* Items that an edit brought in after the peek are locked with the        *)
(* document already held: in ascending order by the void and the return,   *)
(* line by line by a movement.                                             *)
LockMissing(s) ==
    /\ session[s].pc \in {"check", "move"}
    /\ \E i \in Unheld(s) :
           /\ \/ session[s].pc = "move"
              \/ (session[s].op = "void" \/ Returning(session[s].doc)) /\ i = Min(Unheld(s))
           /\ itemLock[i] = NoSession
           /\ itemLock' = [itemLock EXCEPT ![i] = s]
    /\ UNCHANGED <<doc, kardex, stock, docLock, session, gateSaw, edits>>

-----------------------------------------------------------------------------
(* Checks and commits. *)

(* assertOutflowWithinSellable *)
CheckOutflow(s) ==
    LET me == session[s] IN
    /\ me.pc = "check" /\ me.op # "void" /\ Outgoing(me.doc)
    /\ \A i \in Items, w \in Warehouses : WithinSellable(me.lines, i, w, ReservedByOthers(me.doc, i))
    /\ session' = [session EXCEPT ![s].pc = "move"]
    /\ gateSaw' = [gateSaw EXCEPT ![s] = [i \in Items |-> ReservedByOthers(me.doc, i)]]
    /\ UNCHANGED <<doc, kardex, stock, itemLock, docLock, edits>>

(* assertReturnWithinSold: the invoice is locked and stays locked. *)
CheckReturn(s) ==
    LET me == session[s]
        v == ReturnOf[me.doc] IN
    /\ me.pc = "check" /\ me.op # "void" /\ Returning(me.doc)
    /\ Unheld(s) = {}
    /\ docLock[v] = NoSession
    /\ Returnable(v) /\ WithinSold(v, me.lines)
    /\ docLock' = [docLock EXCEPT ![v] = s]
    /\ session' = [session EXCEPT ![s].pc = "move"]
    /\ UNCHANGED <<doc, kardex, stock, itemLock, gateSaw, edits>>

MoveUnchecked(s) ==
    LET me == session[s]
        d == me.doc IN
    /\ me.pc = "move" /\ Unheld(s) = {}
    /\ DateAllowed(d, me.lines, me.day)
    /\ stock' = IF Outgoing(d) THEN Subtract(me.lines) ELSE Add(me.lines)
    /\ kardex' = [kardex EXCEPT ![d] = [id |-> NextId, day |-> me.day, lines |-> me.lines]]
    /\ doc' = IF me.op = "create"
              THEN [doc EXCEPT ![d] = [status |-> "final", day |-> me.day, lines |-> me.lines]]
              ELSE [doc EXCEPT ![d].status = "final", ![d].day = me.day]
    /\ Release(s)
    /\ edits' = edits

(* The movements of every line, the Kardex rows and the final status. *)
Move(s) ==
    LET me == session[s]
        d == me.doc IN
    /\ me.pc = "move" /\ Unheld(s) = {}
    /\ DateAllowed(d, me.lines, me.day)
    /\ Outgoing(d) => InStock(me.lines)
    /\ stock' = IF Outgoing(d) THEN Subtract(me.lines) ELSE Add(me.lines)
    /\ kardex' = [kardex EXCEPT ![d] = [id |-> NextId, day |-> me.day, lines |-> me.lines]]
    /\ doc' = IF me.op = "create"
              THEN [doc EXCEPT ![d] = [status |-> "final", day |-> me.day, lines |-> me.lines]]
              ELSE [doc EXCEPT ![d].status = "final", ![d].day = me.day]
    /\ Release(s)
    /\ edits' = edits

VoidReversesDrafts(s) ==
    LET d == session[s].doc
        lines == doc[d].lines IN
    /\ session[s].pc = "check" /\ session[s].op = "void" /\ Unheld(s) = {}
    /\ KeepsHistory(d)
    /\ ~HasLiveReturns(d)
    /\ doc' = [doc EXCEPT ![d] = Voided]
    /\ kardex' = [kardex EXCEPT ![d] = NoRows]
    /\ \/ Outgoing(d) /\ stock' = Add(lines)
       \/ ~Outgoing(d) /\ InStock(lines) /\ stock' = Subtract(lines)
    /\ Release(s)
    /\ edits' = edits

(* deleteDocument: nothing reads the document and its lines any more, its  *)
(* rows and their reversals leave the ledger, and a final document gives   *)
(* its stock back.                                                         *)
Void(s) ==
    LET d == session[s].doc
        rows == kardex[d].lines IN
    /\ session[s].pc = "check" /\ session[s].op = "void" /\ Unheld(s) = {}
    /\ KeepsHistory(d)
    /\ ~HasLiveReturns(d)
    /\ doc' = [doc EXCEPT ![d] = Voided]
    /\ kardex' = [kardex EXCEPT ![d] = NoRows]
    /\ \/ doc[d].status # "final" /\ stock' = stock
       \/ doc[d].status = "final" /\ Outgoing(d) /\ stock' = Add(rows)
       \/ doc[d].status = "final" /\ ~Outgoing(d) /\ InStock(rows) /\ stock' = Subtract(rows)
    /\ Release(s)
    /\ edits' = edits

(* A rollback at any step: a refusal, a deadlock abort or a crash. *)
RollBack(s) ==
    /\ session[s].pc # "idle"
    /\ Release(s)
    /\ UNCHANGED <<doc, kardex, stock, edits>>

SessionStep(s) ==
    \/ \E d \in Docs : PeekFinalize(s, d) \/ PeekVoid(s, d) \/ BeginFinal(s, d) \/ BeginReturnDraft(s, d)
    \/ InsertReturnDraft(s) \/ LockItem(s) \/ Checked(s) \/ LockFinalize(s) \/ LockVoid(s) \/ LockMissing(s)
    \/ CheckOutflow(s) \/ CheckReturn(s) \/ Move(s) \/ Void(s) \/ RollBack(s)

Next ==
    \/ \E s \in Sessions : SessionStep(s)
    \/ \E d \in Docs : CreateDraft(d) \/ Edit(d)

Spec == Init /\ [][Next]_vars

-----------------------------------------------------------------------------
(* Properties. *)

(* A final document has moved exactly its own lines on its own day, and    *)
(* nothing else has rows: an edit, a finalize and a void of one document   *)
(* may overlap, and a finalize may be asked twice.                         *)
FinalIsPosted ==
    \A d \in Docs :
        /\ doc[d].status = "final" => kardex[d].id # 0 /\ kardex[d].lines = doc[d].lines /\ kardex[d].day = doc[d].day
        /\ doc[d].status # "final" => kardex[d] = NoRows

(* A document posts once: what it posted stays as it is until its void,    *)
(* and a void document never posts again.                                  *)
PostedOnce ==
    [][\A d \in Docs :
        /\ kardex[d].id # 0 => kardex'[d] \in {kardex[d], NoRows}
        /\ doc[d].status = "final" => doc'[d] \in {doc[d], Voided}
        /\ doc[d].status = "void" => doc'[d] = doc[d] /\ kardex'[d] = NoRows]_vars

(* The stock of every warehouse is its Kardex ledger (the three-way        *)
(* invariant of docs/rules/inventory.md).                                  *)
StockIsLedger == \A i \in Items, w \in Warehouses : stock[i][w] = Balance(Posted, i, w)

(* Read by day and id, no warehouse was ever below zero, whatever was      *)
(* backdated and whatever was voided later.                                *)
LedgerNeverNegative ==
    \A d \in Posted : \A i \in ItemsOf(kardex[d].lines), w \in Warehouses : BalanceAt(Posted, d, i, w) >= 0

(* The final returns of an invoice never exceed what it still sells, even  *)
(* when two of them, or a return and the void of the invoice, overlap.     *)
ReturnsWithinSold == \A v \in Docs, i \in Items : ReturnsOf(v) # {} => Returned(v, i) <= Sold(v, i)

(* What the gate concluded for an item the session had locked by then is   *)
(* still so when the stock moves, whatever other sessions have committed.  *)
GateStillTrue ==
    \A s \in Sessions : session[s].pc = "move" /\ Outgoing(session[s].doc) =>
        \A i \in Items \ session[s].missing, w \in Warehouses :
            WithinSellable(session[s].lines, i, w, gateSaw[s][i])

(* lib/lockOrder.ts: no sessions wait for each other in a circle, unless   *)
(* one of them locks an item that an edit brought into its document.       *)
Blockers(s) ==
    LET me == session[s] IN
    IF me.pc = "items" /\ me.todo # {} THEN {itemLock[Min(me.todo)]}
    ELSE IF me.pc = "items" /\ me.op # "create" THEN {docLock[me.doc]}
    ELSE IF me.pc \in {"insert", "check"} /\ Returning(me.doc) /\ me.op # "void" THEN {docLock[ReturnOf[me.doc]]}
    ELSE {}

NoCircularWait ==
    \A circle \in (SUBSET Sessions) \ {{}} :
        \E s \in circle : Unheld(s) # {} \/ Blockers(s) \cap circle = {}

(* The gate as documentSellableGate.ts:17 states it: an outgoing document  *)
(* takes at most the total stock less what others have reserved.           *)
OutflowLeavesReserved ==
    \A s \in Sessions : session[s].pc = "move" /\ Outgoing(session[s].doc) =>
        \A i \in ItemsOf(session[s].lines) \ session[s].missing :
            Total(session[s].lines, i) <= Total(stock, i) - gateSaw[s][i]
=============================================================================
