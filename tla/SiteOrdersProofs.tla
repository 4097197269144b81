-------------------------- MODULE SiteOrdersProofs --------------------------
(***************************************************************************)
(* Proofs about SiteOrders, for every set of orders, phones, items,        *)
(* sessions and sweepers: types, what a colleague decides, what the sweep  *)
(* ends, the money of an order and the limits of what is promised.         *)
(*                                                                         *)
(* The argument is about locks.  A transaction that decides on an order    *)
(* holds its row, so the state it decided on is still there when it        *)
(* commits (DecisionInv); a placing holds the phone, then the item, then   *)
(* the code, so what it counted is still true when it inserts (PlaceInv).  *)
(* Rows and money follow from the first (RowInv), limits from the second.  *)
(***************************************************************************)
EXTENDS SiteOrders, FiniteSetTheorems, SequenceTheorems, TLAPS

Deciding == {"confirm", "approve", "void"}

(* Who holds the row of an order holds it alone. *)
OrderLocks ==
    /\ \A s, t \in Sessions :
          session[s].pc \in Deciding /\ session[t].pc \in Deciding /\ session[s].order = session[t].order => s = t
    /\ \A w, v \in Sweepers :
          sweeper[w].pc = "void" /\ sweeper[v].pc = "void" /\ Head(sweeper[w].list) = Head(sweeper[v].list) => w = v
    /\ \A s \in Sessions, w \in Sweepers :
          session[s].pc \in Deciding /\ sweeper[w].pc = "void" => session[s].order # Head(sweeper[w].list)

(* What a session that shows or has locked an order knows of it. *)
Knows(s) ==
    LET me == session[s]
        row == order[me.order]
    IN  /\ me.pc = "screen" =>
              row.status # "none" /\ me.seen =< row.version /\ (me.seen = row.version => me.shown = row.status)
        /\ me.pc = "confirm" => row.status = "payment_submitted"
        /\ me.pc = "approve" => row.status = "awaiting_approval"
        /\ me.pc = "void" => row.status \in Open

SweepsDue(w) ==
    /\ sweeper[w].pc # "idle" => sweeper[w].list # << >>
    /\ sweeper[w].pc = "void" => Due(Head(sweeper[w].list))

DecisionInv ==
    /\ OrderLocks
    /\ \A s \in Sessions : Knows(s)
    /\ \A w \in Sweepers : SweepsDue(w)

Phone(s) == request[session[s].order].phone
Item(s) == request[session[s].order].item
WithCode(s) == request[session[s].order].withCode

PlaceLocks ==
    \A s, t \in Sessions : s # t =>
        /\ session[s].pc \in {"items", "code", "insert"} /\ session[t].pc \in {"items", "code", "insert"}
             => Phone(s) # Phone(t)
        /\ session[s].pc \in {"code", "insert"} /\ session[t].pc \in {"code", "insert"} => Item(s) # Item(t)
        /\ session[s].pc = "insert" /\ session[t].pc = "insert" => ~ (WithCode(s) /\ WithCode(t))

(* What a placing has counted is still so: there is room for its order. *)
Room(s) ==
    /\ session[s].pc \in {"items", "code", "insert"} => Cardinality(OpenOf(Phone(s))) < OpenLimit
    /\ session[s].pc \in {"code", "insert"} => Sellable(Item(s))
    /\ session[s].pc = "insert" /\ WithCode(s) => Cardinality(Uses) < UsageLimit

PlaceInv == PlaceLocks /\ \A s \in Sessions : Room(s)

(* How the rows of one order go together. *)
RowsFit(o) ==
    /\ order[o].status = "none" <=> doc[o] = "none"
    /\ order[o].status \in {"awaiting_payment", "payment_submitted"} => ~ request[o].onAccount
    /\ order[o].status = "awaiting_approval" => request[o].onAccount
    /\ use[o] = IF order[o].status = "none" \/ ~ request[o].withCode THEN "none"
                ELSE IF order[o].status = "cancelled" THEN "released" ELSE "live"
    /\ \A i, j \in DOMAIN receipts[o] : receipts[o][i] = "pending" /\ receipts[o][j] = "pending" => i = j

RowInv == \A o \in Orders : RowsFit(o)

IInv ==
    /\ TypeOK
    /\ DecisionInv
    /\ RowInv
    /\ MoneyMeansInvoice
    /\ PlaceInv
    /\ ReservedWithinStock
    /\ LimitsHold

-----------------------------------------------------------------------------
(* Types. *)

(* The session that does nothing, and one that starts on an order. *)
LEMMA StartType ==
    ASSUME SiteOrdersAssumption
    PROVE  /\ Idle \in SessionStates
           /\ Idle.pc = "idle"
           /\ \A o \in Orders : On(o, "phone") \in SessionStates
           /\ \A o \in Orders, n \in Nat, m \in Nat, shown \in Status :
                /\ [On(o, "receipt") EXCEPT !.seen = n, !.late = (m = 0)] \in SessionStates
                /\ [On(o, "screen") EXCEPT !.seen = n, !.shown = shown] \in SessionStates
<1>1. (CHOOSE o \in Orders : TRUE) \in Orders
  BY DEF SiteOrdersAssumption
<1>2. Idle \in SessionStates /\ Idle.pc = "idle"
  BY <1>1 DEF Idle, On, SessionStates, Status
<1>3. \A o \in Orders : On(o, "phone") \in SessionStates
  BY DEF On, SessionStates, Status, Placing
<1>4. ASSUME NEW o \in Orders, NEW n \in Nat, NEW m \in Nat, NEW shown \in Status
      PROVE  /\ [On(o, "receipt") EXCEPT !.seen = n, !.late = (m = 0)] \in SessionStates
             /\ [On(o, "screen") EXCEPT !.seen = n, !.shown = shown] \in SessionStates
  <2>1. \A late \in BOOLEAN : [On(o, "receipt") EXCEPT !.seen = n, !.late = late] \in SessionStates
    BY DEF On, SessionStates, Status
  <2>2. [On(o, "screen") EXCEPT !.seen = n, !.shown = shown] \in SessionStates
    BY DEF On, SessionStates
  <2>3. (m = 0) \in BOOLEAN
    OBVIOUS
  <2> QED BY <2>1, <2>2, <2>3
<1> QED BY <1>2, <1>3, <1>4

(* A row of an order stays one in each of the ways it is written, and so   *)
(* does what a session and a sweeper are at.                               *)
LEMMA RowType ==
    ASSUME SiteOrdersAssumption
    PROVE  \A row \in OrderRows :
             /\ row.status \in Status /\ row.version \in Nat /\ row.version + 1 \in Nat /\ row.left \in Nat
             /\ \A status \in Status, n \in Nat, reason \in {"staff", "expired"} :
                  /\ [row EXCEPT !.status = status, !.version = n] \in OrderRows
                  /\ [row EXCEPT !.status = status, !.version = n, !.left = Window] \in OrderRows
                  /\ [row EXCEPT !.status = status, !.version = n, !.reason = reason] \in OrderRows
             /\ row.left > 0 => [row EXCEPT !.left = @ - 1] \in OrderRows
<1> TAKE row \in OrderRows
<1>1. Window \in 0..Window
  BY DEF SiteOrdersAssumption
<1>2. row.left > 0 => row.left - 1 \in 0..Window
  BY DEF SiteOrdersAssumption, OrderRows
<1>3. row.status \in Status /\ row.version \in Nat /\ row.version + 1 \in Nat /\ row.left \in Nat
  BY DEF OrderRows, SiteOrdersAssumption
<1>4. ASSUME NEW status \in Status, NEW n \in Nat, NEW reason \in {"staff", "expired"}
      PROVE  /\ [row EXCEPT !.status = status, !.version = n] \in OrderRows
             /\ [row EXCEPT !.status = status, !.version = n, !.left = Window] \in OrderRows
             /\ [row EXCEPT !.status = status, !.version = n, !.reason = reason] \in OrderRows
  BY <1>1, <1>4 DEF OrderRows
<1>5. row.left > 0 => [row EXCEPT !.left = @ - 1] \in OrderRows
  BY <1>2 DEF OrderRows
<1> QED BY <1>3, <1>4, <1>5

LEMMA PcType ==
    /\ \A me \in SessionStates : \A pc \in Placing \cup {"idle", "receipt", "screen", "confirm", "approve", "void"} :
         [me EXCEPT !.pc = pc] \in SessionStates
    /\ \A me \in SweeperStates : [me EXCEPT !.pc = "void"] \in SweeperStates
  BY DEF SessionStates, SweeperStates

(* A review of the receipts keeps a list of receipts. *)
LEMMA ReviewType ==
    ASSUME receipts \in [Orders -> Seq({"pending", "accepted", "rejected"})], NEW o \in Orders,
           NEW status \in {"accepted", "rejected"}, Reviewed(o, status)
    PROVE  /\ receipts' \in [Orders -> Seq({"pending", "accepted", "rejected"})]
           /\ \A p \in Orders \ {o} : receipts'[p] = receipts[p]
           /\ DOMAIN receipts'[o] = DOMAIN receipts[o]
           /\ \A i \in DOMAIN receipts[o] :
                 receipts'[o][i] = IF receipts[o][i] = "pending" THEN status ELSE receipts[o][i]
<1> DEFINE T == {"pending", "accepted", "rejected"}
           q == [i \in DOMAIN receipts[o] |-> IF receipts[o][i] = "pending" THEN status ELSE receipts[o][i]]
<1>1. receipts[o] \in Seq(T)
  OBVIOUS
<1>2. Len(receipts[o]) \in Nat /\ DOMAIN receipts[o] = 1..Len(receipts[o])
  BY <1>1, LenProperties
<1>3. \A i \in 1..Len(receipts[o]) : receipts[o][i] \in T
  BY <1>1, ElementOfSeq
<1>4. q = [i \in 1..Len(receipts[o]) |-> IF receipts[o][i] = "pending" THEN status ELSE receipts[o][i]]
  BY <1>2
<1>5. q \in Seq(T)
  BY <1>2, <1>3, <1>4, IsASeq
<1>6. receipts' = [receipts EXCEPT ![o] = q]
  BY DEF Reviewed
<1>7. DOMAIN q = DOMAIN receipts[o]
  OBVIOUS
<1>8. \A i \in DOMAIN receipts[o] : q[i] = IF receipts[o][i] = "pending" THEN status ELSE receipts[o][i]
  OBVIOUS
<1> HIDE DEF q
<1> QED BY <1>5, <1>6, <1>7, <1>8

(* The deadlines stay a list of orders when one of them is put last. *)
LEMMA LatestType ==
    ASSUME deadlines \in Seq(Orders), NEW o \in Orders
    PROVE  Latest(o) \in Seq(Orders)
<1> DEFINE at == CHOOSE i \in DOMAIN deadlines : deadlines[i] = o
           f == [i \in 1..Len(deadlines) |->
                   IF i < at THEN deadlines[i] ELSE IF i < Len(deadlines) THEN deadlines[i + 1] ELSE o]
<1>1. Len(deadlines) \in Nat /\ DOMAIN deadlines = 1..Len(deadlines)
  BY LenProperties
<1>2. \A i \in 1..Len(deadlines) : deadlines[i] \in Orders
  BY ElementOfSeq
<1>3. \A i \in 1..Len(deadlines) : i < Len(deadlines) => i + 1 \in 1..Len(deadlines)
  BY <1>1
<1>4. \A i \in 1..Len(deadlines) :
        (IF i < at THEN deadlines[i] ELSE IF i < Len(deadlines) THEN deadlines[i + 1] ELSE o) \in Orders
  <2> HIDE DEF at
  <2> QED BY <1>2, <1>3
<1>5. f \in Seq(Orders)
  <2> HIDE DEF at
  <2> QED BY <1>1, <1>4, IsASeq
<1>6. Latest(o) = f
  BY <1>1 DEF Latest
<1> QED BY <1>5, <1>6

(* Every step keeps the types. *)
LEMMA TypeStep ==
    ASSUME SiteOrdersAssumption, TypeOK, DecisionInv, Next
    PROVE  TypeOK'
<1> USE SiteOrdersAssumption
<1> DEFINE SessionType == session \in [Sessions -> SessionStates]
           SweeperType == sweeper \in [Sweepers -> SweeperStates]
           OrderType == order \in [Orders -> OrderRows]
           DocType == doc \in [Orders -> {"none", "proforma", "final", "void"}] /\ stock \in [Items -> Nat]
           ReceiptsType == receipts \in [Orders -> Seq({"pending", "accepted", "rejected"})]
           UseType == use \in [Orders -> {"none", "live", "released"}]
           PaidType == paid \in [Orders -> Nat]
           DeadlinesType == deadlines \in Seq(Orders)
<1>1. /\ SessionType /\ SweeperType /\ OrderType /\ DocType /\ ReceiptsType /\ UseType /\ PaidType /\ DeadlinesType
      /\ \A s \in Sessions : session[s].order \in Orders /\ session[s] \in SessionStates
      /\ \A o \in Orders : request[o].item \in Items /\ order[o] \in OrderRows
      /\ \A w \in Sweepers : sweeper[w].list \in Seq(Orders)
  <2>1. SessionType /\ SweeperType /\ OrderType /\ DocType /\ ReceiptsType /\ UseType /\ PaidType /\ DeadlinesType
    BY DEF TypeOK
  <2>2. \A s \in Sessions : session[s].order \in Orders /\ session[s] \in SessionStates
    BY <2>1 DEF SessionStates
  <2>3. \A o \in Orders : request[o].item \in Items /\ order[o] \in OrderRows
    BY <2>1 DEF TypeOK, SiteOrdersAssumption
  <2>4. \A w \in Sweepers : sweeper[w].list \in Seq(Orders)
    BY <2>1 DEF SweeperStates
  <2> QED BY <2>1, <2>2, <2>3, <2>4
<1>2. request' = request
  BY DEF Next, SessionStep, SweepStep, PlaceBegin, PhoneLock, ItemLock, CodeLock, Replay, Insert, ReceiptBegin, Receipt,
     Look, Confirm, ConfirmCommit, Approve, ApproveCommit, Reject, Fulfil, Cancel, CancelCommit, Closed, RollBack,
     SweepList, SweepLock, SweepSkip, SweepCommit, SweepFails, ErpFinalize, ErpVoid, Tick, LockedOrder, LiveProforma,
     Finalized, Moved, Submitted, Ends, Continues, Voided, Reviewed, Released, SweepNext
<1>3. Idle \in SessionStates
  BY StartType
<1>4. ASSUME NEW s \in Sessions, Ends(s) PROVE SessionType'
  BY <1>1, <1>3, <1>4 DEF Ends
<1>5. ASSUME NEW s \in Sessions, NEW pc \in {"items", "code", "insert", "confirm", "approve", "void"}, Continues(s, pc)
      PROVE  SessionType'
  BY <1>1, <1>5, PcType DEF Continues, Placing
<1>6. ASSUME NEW o \in Orders, NEW status \in Status, Moved(o, status) PROVE OrderType'
  BY <1>1, <1>6, RowType DEF Moved
<1>7. ASSUME NEW o \in Orders, Finalized(o) PROVE DocType'
  BY <1>1, <1>7 DEF Finalized
<1>8. ASSUME NEW o \in Orders, Voided(o) PROVE DocType'
  BY <1>1, <1>8 DEF Voided
<1>9. ASSUME NEW o \in Orders, NEW status \in {"accepted", "rejected"}, Reviewed(o, status) PROVE ReceiptsType'
  BY <1>1, <1>9, ReviewType
<1>10. ASSUME NEW o \in Orders, NEW reason \in {"staff", "expired"}, Closed(o, reason)
       PROVE  OrderType' /\ DocType' /\ ReceiptsType' /\ UseType' /\ paid' = paid /\ deadlines' = deadlines
  <2>1. OrderType'
    BY <1>1, <1>10, RowType DEF Closed, Status
  <2>2. UseType'
    BY <1>1, <1>10 DEF Closed, Released
  <2> QED BY <1>8, <1>9, <1>10, <2>1, <2>2 DEF Closed
<1>11. ASSUME NEW w \in Sweepers, SweepNext(w), sweeper[w].list # << >> PROVE SweeperType'
  <2>1. Tail(sweeper[w].list) \in Seq(Orders)
    BY <1>1, <1>11, HeadTailProperties
  <2> QED BY <1>1, <1>11, <2>1 DEF SweepNext, SweeperStates
<1>12. \A w \in Sweepers : sweeper[w].pc # "idle" =>
         sweeper[w].list # << >> /\ Head(sweeper[w].list) \in Orders
  BY <1>1, HeadTailProperties DEF DecisionInv, SweepsDue
<1>13. SessionType' /\ SweeperType' /\ OrderType' /\ DocType' /\ ReceiptsType' /\ UseType' /\ PaidType' /\ DeadlinesType' => TypeOK'
  BY <1>2 DEF TypeOK
<1> HIDE DEF SessionType, SweeperType, OrderType, DocType, ReceiptsType, UseType, PaidType, DeadlinesType
<1>14. ASSUME UNCHANGED rows
       PROVE  OrderType' /\ DocType' /\ ReceiptsType' /\ UseType' /\ PaidType' /\ DeadlinesType'
  BY <1>1, <1>14 DEF rows, OrderType, DocType, ReceiptsType, UseType, PaidType, DeadlinesType
<1>15. ASSUME UNCHANGED session PROVE SessionType'
  BY <1>1, <1>15 DEF SessionType
<1>16. ASSUME UNCHANGED sweeper PROVE SweeperType'
  BY <1>1, <1>16 DEF SweeperType
<1>17. ASSUME UNCHANGED <<order>> PROVE OrderType'
  BY <1>1, <1>17 DEF OrderType
<1>18. ASSUME UNCHANGED <<receipts>> PROVE ReceiptsType'
  BY <1>1, <1>18 DEF ReceiptsType
<1>19. ASSUME UNCHANGED <<use>> PROVE UseType'
  BY <1>1, <1>19 DEF UseType
<1>20. ASSUME UNCHANGED <<paid>> PROVE PaidType'
  BY <1>1, <1>20 DEF PaidType
<1>21. ASSUME UNCHANGED <<deadlines>> PROVE DeadlinesType'
  BY <1>1, <1>21 DEF DeadlinesType
<1>22. ASSUME UNCHANGED <<doc, stock>> PROVE DocType'
  BY <1>1, <1>22 DEF DocType
<1>23. ASSUME NEW s \in Sessions, NEW o \in Orders, PlaceBegin(s, o) \/ ReceiptBegin(s, o) \/ Look(s, o) PROVE TypeOK'
  <2>1. order[o].status \in Status /\ order[o].version \in Nat /\ order[o].left \in Nat
    BY <1>1, RowType
  <2>2. SessionType'
    <3>1. CASE PlaceBegin(s, o)
      BY <1>1, <3>1, StartType DEF SessionType, PlaceBegin
    <3>2. CASE ReceiptBegin(s, o)
      BY <1>1, <2>1, <3>2, StartType DEF SessionType, ReceiptBegin
    <3>3. CASE Look(s, o)
      BY <1>1, <2>1, <3>3, StartType DEF SessionType, Look
    <3> QED BY <1>23, <3>1, <3>2, <3>3
  <2> QED BY <1>13, <1>14, <1>16, <1>23, <2>2 DEF PlaceBegin, ReceiptBegin, Look
<1>24. ASSUME NEW s \in Sessions, PhoneLock(s) \/ ItemLock(s) \/ CodeLock(s) \/ Confirm(s) \/ Approve(s) \/ Cancel(s) PROVE TypeOK'
  BY <1>5, <1>13, <1>14, <1>16, <1>24 DEF PhoneLock, ItemLock, CodeLock, Confirm, Approve, Cancel
<1>25. ASSUME NEW s \in Sessions, Replay(s) \/ RollBack(s) PROVE TypeOK'
  BY <1>4, <1>13, <1>14, <1>16, <1>25 DEF Replay, RollBack
<1>26. ASSUME NEW s \in Sessions, Insert(s) PROVE TypeOK'
  <2>1. OrderType'
    BY <1>1, <1>26 DEF OrderType, Insert, OrderRows, Status, Open
  <2>2. DocType' /\ UseType'
    BY <1>1, <1>26 DEF DocType, UseType, Insert
  <2>3. DeadlinesType'
    BY <1>1, <1>26, AppendProperties DEF DeadlinesType, Insert
  <2> QED BY <1>4, <1>13, <1>16, <1>18, <1>20, <1>26, <2>1, <2>2, <2>3 DEF Insert
<1>27. ASSUME NEW s \in Sessions, Receipt(s) PROVE TypeOK'
  <2>1. ReceiptsType'
    BY <1>1, <1>27, AppendProperties DEF ReceiptsType, Receipt
  <2>2. OrderType'
    BY <1>1, <1>6, <1>27 DEF Receipt, Submitted, Status, Open
  <2> QED BY <1>4, <1>13, <1>16, <1>19, <1>20, <1>21, <1>22, <1>27, <2>1, <2>2 DEF Receipt
<1>28. ASSUME NEW s \in Sessions, ConfirmCommit(s) PROVE TypeOK'
  <2>1. PaidType'
    BY <1>1, <1>28 DEF PaidType, ConfirmCommit
  <2>2. OrderType'
    BY <1>1, <1>6, <1>28 DEF ConfirmCommit, Status, Paid
  <2> QED BY <1>1, <1>4, <1>7, <1>9, <1>13, <1>16, <1>19, <1>21, <1>28, <2>1, <2>2 DEF ConfirmCommit
<1>29. ASSUME NEW s \in Sessions, ApproveCommit(s) PROVE TypeOK'
  <2>1. OrderType'
    BY <1>1, <1>6, <1>29 DEF ApproveCommit, Status, Paid
  <2> QED BY <1>1, <1>4, <1>7, <1>13, <1>16, <1>18, <1>19, <1>20, <1>21, <1>29, <2>1 DEF ApproveCommit
<1>30. ASSUME NEW s \in Sessions, Reject(s) PROVE TypeOK'
  <2>1. OrderType'
    BY <1>1, <1>30, RowType DEF OrderType, Reject, Status, Open
  <2>2. DeadlinesType'
    BY <1>1, <1>30, LatestType DEF DeadlinesType, Reject
  <2> QED BY <1>1, <1>4, <1>9, <1>13, <1>16, <1>19, <1>20, <1>22, <1>30, <2>1, <2>2 DEF Reject
<1>31. ASSUME NEW s \in Sessions, Fulfil(s) PROVE TypeOK'
  <2>1. OrderType'
    BY <1>1, <1>6, <1>31 DEF Fulfil, Status, Paid
  <2> QED BY <1>4, <1>13, <1>16, <1>18, <1>19, <1>20, <1>21, <1>22, <1>31, <2>1 DEF Fulfil
<1>32. ASSUME NEW s \in Sessions, CancelCommit(s) PROVE TypeOK'
  BY <1>1, <1>4, <1>10, <1>13, <1>16, <1>20, <1>21, <1>32 DEF CancelCommit
<1>33. ASSUME NEW w \in Sweepers, SweepList(w) PROVE TypeOK'
  <2>1. PICK n \in 1..Batch : \E list \in [1..n -> Orders] :
          sweeper' = [sweeper EXCEPT ![w] = [pc |-> "list", list |-> list]]
    BY <1>33 DEF SweepList
  <2>2. \A list \in [1..n -> Orders] : list \in Seq(Orders)
    OBVIOUS
  <2>3. SweeperType'
    BY <1>1, <2>1, <2>2 DEF SweeperType, SweeperStates
  <2> QED BY <1>13, <1>14, <1>15, <1>33, <2>3 DEF SweepList
<1>34. ASSUME NEW w \in Sweepers, SweepLock(w) PROVE TypeOK'
  <2>1. SweeperType'
    BY <1>1, <1>34, PcType DEF SweeperType, SweepLock
  <2> QED BY <1>13, <1>14, <1>15, <1>34, <2>1 DEF SweepLock
<1>35. ASSUME NEW w \in Sweepers, SweepSkip(w) \/ SweepFails(w) PROVE TypeOK'
  BY <1>11, <1>12, <1>13, <1>14, <1>15, <1>35 DEF SweepSkip, SweepFails
<1>36. ASSUME NEW w \in Sweepers, SweepCommit(w) PROVE TypeOK'
  BY <1>10, <1>11, <1>12, <1>13, <1>15, <1>20, <1>21, <1>36 DEF SweepCommit
<1>37. ASSUME NEW o \in Orders, ErpFinalize(o) \/ ErpVoid(o) PROVE TypeOK'
  BY <1>7, <1>8, <1>13, <1>15, <1>16, <1>17, <1>18, <1>19, <1>20, <1>21, <1>37 DEF ErpFinalize, ErpVoid
<1>38. ASSUME Tick PROVE TypeOK'
  <2>1. OrderType'
    BY <1>1, <1>38, RowType DEF OrderType, Tick
  <2> QED BY <1>13, <1>15, <1>16, <1>18, <1>19, <1>20, <1>21, <1>22, <1>38, <2>1 DEF Tick
<1> QED
  BY <1>23, <1>24, <1>25, <1>26, <1>27, <1>28, <1>29, <1>30, <1>31, <1>32, <1>33, <1>34, <1>35, <1>36, <1>37, <1>38
  DEF Next, SessionStep, SweepStep

-----------------------------------------------------------------------------
(* Decisions. *)

(* Nobody but session s has the row of an order locked. *)
OnlyMine(s, o) ==
    /\ \A t \in Sessions \ {s} : session[t].pc \in Deciding => session[t].order # o
    /\ \A w \in Sweepers : sweeper[w].pc = "void" => Head(sweeper[w].list) # o

(* Of a step of one session: it writes no order but x, which nobody else   *)
(* has locked, counts its version up, and locks no order another has.      *)
LEMMA SessionDecides ==
    ASSUME SiteOrdersAssumption, TypeOK, TypeOK', DecisionInv, NEW s \in Sessions, NEW x \in Orders,
           \A t \in Sessions \ {s} : session'[t] = session[t],
           sweeper' = sweeper,
           \A o \in Orders \ {x} : order'[o] = order[o],
           \/ order'[x] = order[x]
           \/ /\ OnlyMine(s, x)
              /\ order'[x].status # "none"
              /\ order[x].status = "none" \/ order'[x].version > order[x].version,
           session'[s].pc \in Deciding => OnlyMine(s, session'[s].order),
           Knows(s)'
    PROVE  DecisionInv'
<1>1. /\ \A t \in Sessions : session[t].order \in Orders /\ session'[t].order \in Orders /\ session[t].seen \in Nat
      /\ \A o \in Orders : order[o].version \in Nat /\ order'[o].version \in Nat
  <2>1. \A t \in Sessions : session[t] \in SessionStates /\ session'[t] \in SessionStates
    BY DEF TypeOK
  <2>2. \A o \in Orders : order[o] \in OrderRows /\ order'[o] \in OrderRows
    BY DEF TypeOK
  <2> QED BY <2>1, <2>2 DEF SessionStates, OrderRows
<1>2. OrderLocks'
  BY <1>1 DEF DecisionInv, OrderLocks, OnlyMine
<1>3. ASSUME NEW t \in Sessions \ {s} PROVE Knows(t)'
  <2>1. Knows(t) /\ session'[t] = session[t] /\ session[t].order \in Orders
    BY <1>1 DEF DecisionInv
  <2>2. CASE order'[session[t].order] = order[session[t].order]
    BY <2>1, <2>2 DEF Knows
  <2>3. CASE order'[session[t].order] # order[session[t].order]
    <3>1. session[t].order = x /\ OnlyMine(s, x) /\ order'[x].status # "none"
          /\ (order[x].status = "none" \/ order'[x].version > order[x].version)
      BY <2>1, <2>3
    <3>2. session[t].pc \notin Deciding
      BY <3>1 DEF OnlyMine
    <3> QED BY <1>1, <2>1, <3>1, <3>2 DEF Knows, Deciding
  <2> QED BY <2>2, <2>3
<1>4. ASSUME NEW w \in Sweepers PROVE SweepsDue(w)'
  <2>1. SweepsDue(w)
    BY DEF DecisionInv
  <2>2. sweeper[w].pc = "void" => Head(sweeper[w].list) \in Orders /\ order'[Head(sweeper[w].list)] = order[Head(sweeper[w].list)]
    <3> SUFFICES ASSUME sweeper[w].pc = "void"
                 PROVE  Head(sweeper[w].list) \in Orders /\ order'[Head(sweeper[w].list)] = order[Head(sweeper[w].list)]
      OBVIOUS
    <3>1. sweeper[w].list \in Seq(Orders) /\ sweeper[w].list # << >>
      BY <2>1 DEF TypeOK, SweeperStates, SweepsDue
    <3>2. Head(sweeper[w].list) \in Orders
      BY <3>1, HeadTailProperties
    <3>3. OnlyMine(s, x) => Head(sweeper[w].list) # x
      BY DEF OnlyMine
    <3> QED BY <3>2, <3>3
  <2> QED BY <2>1, <2>2 DEF SweepsDue, Due
<1> QED BY <1>2, <1>3, <1>4 DEF DecisionInv

(* Of a step of one sweeper: it writes no order but the one it has locked, *)
(* counts its version up and gives it back, or writes none and locks one   *)
(* that is due and free.                                                   *)
LEMMA SweepDecides ==
    ASSUME SiteOrdersAssumption, TypeOK, TypeOK', DecisionInv, NEW w \in Sweepers,
           session' = session,
           \A v \in Sweepers \ {w} : sweeper'[v] = sweeper[v],
           \/ /\ order' = order
              /\ sweeper'[w].pc = "void" => OrderFree(Head(sweeper'[w].list))
           \/ /\ sweeper[w].pc = "void" /\ sweeper'[w].pc # "void"
              /\ \A o \in Orders \ {Head(sweeper[w].list)} : order'[o] = order[o]
              /\ order'[Head(sweeper[w].list)].status # "none"
              /\ order'[Head(sweeper[w].list)].version > order[Head(sweeper[w].list)].version,
           SweepsDue(w)'
    PROVE  DecisionInv'
<1> DEFINE x == Head(sweeper[w].list)
<1>1. /\ \A t \in Sessions : session[t].order \in Orders /\ session[t].seen \in Nat
      /\ \A o \in Orders : order[o].version \in Nat /\ order'[o].version \in Nat
      /\ \A v \in Sweepers : sweeper[v].pc = "void" => Head(sweeper[v].list) \in Orders
  <2>1. \A t \in Sessions : session[t] \in SessionStates
    BY DEF TypeOK
  <2>2. \A o \in Orders : order[o] \in OrderRows /\ order'[o] \in OrderRows
    BY DEF TypeOK
  <2>3. \A v \in Sweepers : sweeper[v].pc = "void" => sweeper[v].list \in Seq(Orders) /\ sweeper[v].list # << >>
    BY DEF TypeOK, SweeperStates, DecisionInv, SweepsDue
  <2>4. \A v \in Sweepers : sweeper[v].pc = "void" => Head(sweeper[v].list) \in Orders
    BY <2>3, HeadTailProperties
  <2> QED BY <2>1, <2>2, <2>4 DEF SessionStates, OrderRows
<1>2. OrderLocks'
  BY <1>1 DEF DecisionInv, OrderLocks, OrderFree, Deciding
<1>3. ASSUME NEW t \in Sessions PROVE Knows(t)'
  <2>1. Knows(t) /\ session[t].order \in Orders
    BY <1>1 DEF DecisionInv
  <2>2. CASE order'[session[t].order] = order[session[t].order]
    BY <2>1, <2>2 DEF Knows
  <2>3. CASE order'[session[t].order] # order[session[t].order]
    <3>1. /\ session[t].order = x /\ sweeper[w].pc = "void"
          /\ order'[x].status # "none" /\ order'[x].version > order[x].version
      BY <2>1, <2>3
    <3>2. session[t].pc \notin Deciding
      BY <3>1 DEF DecisionInv, OrderLocks
    <3> QED BY <1>1, <2>1, <3>1, <3>2 DEF Knows, Deciding
  <2> QED BY <2>2, <2>3
<1>4. ASSUME NEW v \in Sweepers \ {w} PROVE SweepsDue(v)'
  <2>1. SweepsDue(v) /\ sweeper'[v] = sweeper[v]
    BY DEF DecisionInv
  <2>2. sweeper[v].pc = "void" => order'[Head(sweeper[v].list)] = order[Head(sweeper[v].list)]
    BY <1>1 DEF DecisionInv, OrderLocks
  <2> QED BY <2>1, <2>2 DEF SweepsDue, Due
<1> QED BY <1>2, <1>3, <1>4 DEF DecisionInv

(* Every step keeps the decisions apart. *)
LEMMA DecisionStep ==
    ASSUME SiteOrdersAssumption, TypeOK, TypeOK', DecisionInv, MoneyMeansInvoice, Next
    PROVE  DecisionInv'
<1> USE SiteOrdersAssumption
<1>1. /\ session \in [Sessions -> SessionStates] /\ sweeper \in [Sweepers -> SweeperStates]
      /\ order \in [Orders -> OrderRows]
      /\ \A s \in Sessions : session[s].order \in Orders /\ session[s].seen \in Nat
      /\ \A o \in Orders : order[o].version \in Nat
  <2>1. /\ session \in [Sessions -> SessionStates] /\ sweeper \in [Sweepers -> SweeperStates]
        /\ order \in [Orders -> OrderRows]
    BY DEF TypeOK
  <2> QED BY <2>1 DEF SessionStates, OrderRows
<1>2. ASSUME NEW s \in Sessions, OrderFree(session[s].order) PROVE OnlyMine(s, session[s].order)
  BY <1>2 DEF OrderFree, OnlyMine, Deciding
<1>3. ASSUME NEW s \in Sessions, session[s].pc \in Deciding PROVE OnlyMine(s, session[s].order)
  BY <1>3 DEF DecisionInv, OrderLocks, OnlyMine
<1>4. ASSUME NEW s \in Sessions, order[session[s].order].status = "none" PROVE OnlyMine(s, session[s].order)
  <2>1. \A t \in Sessions : Knows(t)
    BY DEF DecisionInv
  <2>2. \A t \in Sessions \ {s} : session[t].pc \in Deciding => session[t].order # session[s].order
    BY <1>4, <2>1 DEF Knows, Deciding, Open
  <2>3. \A w \in Sweepers : SweepsDue(w)
    BY DEF DecisionInv
  <2>4. \A w \in Sweepers : sweeper[w].pc = "void" => Head(sweeper[w].list) # session[s].order
    BY <1>4, <2>3 DEF SweepsDue, Due, Expiring
  <2> QED BY <2>2, <2>4 DEF OnlyMine
<1>5. ASSUME NEW s \in Sessions, Ends(s), sweeper' = sweeper,
             order' = order \/ /\ OnlyMine(s, session[s].order)
                               /\ \A o \in Orders \ {session[s].order} : order'[o] = order[o]
                               /\ order'[session[s].order].status # "none"
                               /\ \/ order[session[s].order].status = "none"
                                  \/ order'[session[s].order].version > order[session[s].order].version
      PROVE  DecisionInv'
  <2>1. session'[s].pc = "idle" /\ \A t \in Sessions \ {s} : session'[t] = session[t]
    BY <1>1, <1>5, StartType DEF Ends
  <2>2. Knows(s)'
    BY <2>1 DEF Knows
  <2> QED BY <1>1, <1>5, <2>1, <2>2, SessionDecides DEF Deciding
<1>6. ASSUME NEW s \in Sessions, NEW status \in Status \ {"none"}, Moved(session[s].order, status)
      PROVE  /\ \A o \in Orders \ {session[s].order} : order'[o] = order[o]
             /\ order'[session[s].order].status # "none"
             /\ order'[session[s].order].version > order[session[s].order].version
  BY <1>1, <1>6 DEF Moved, OrderRows
<1>7. ASSUME NEW s \in Sessions, NEW o \in Orders, PlaceBegin(s, o) \/ ReceiptBegin(s, o) \/ Look(s, o) PROVE DecisionInv'
  <2>1. /\ sweeper' = sweeper /\ order' = order
        /\ \A t \in Sessions \ {s} : session'[t] = session[t]
    BY <1>1, <1>7 DEF PlaceBegin, ReceiptBegin, Look, rows
  <2>2. session'[s].pc \notin Deciding /\ Knows(s)'
    <3>1. CASE PlaceBegin(s, o)
      BY <1>1, <3>1 DEF PlaceBegin, On, Knows, Deciding
    <3>2. CASE ReceiptBegin(s, o)
      BY <1>1, <3>2 DEF ReceiptBegin, On, Knows, Deciding
    <3>3. CASE Look(s, o)
      <4>1. session'[s] = [On(o, "screen") EXCEPT !.seen = order[o].version, !.shown = order[o].status]
        BY <1>1, <3>3 DEF Look
      <4>2. session'[s].pc = "screen" /\ session'[s].order = o
            /\ session'[s].seen = order[o].version /\ session'[s].shown = order[o].status
        BY <4>1 DEF On
      <4>3. order[o].status # "none" /\ order' = order
        BY <3>3 DEF Look, rows
      <4> QED BY <1>1, <4>2, <4>3 DEF Knows, Deciding
    <3> QED BY <1>7, <3>1, <3>2, <3>3
  <2> QED BY <2>1, <2>2, SessionDecides
<1>8. ASSUME NEW s \in Sessions, NEW pc, Continues(s, pc), sweeper' = sweeper, order' = order,
             pc \in Deciding => OrderFree(session[s].order),
             pc = "confirm" => order[session[s].order].status = "payment_submitted",
             pc = "approve" => order[session[s].order].status = "awaiting_approval",
             pc = "void" => order[session[s].order].status \in Open,
             pc # "screen"
      PROVE  DecisionInv'
  <2>1. /\ session'[s].pc = pc /\ session'[s].order = session[s].order
        /\ \A t \in Sessions \ {s} : session'[t] = session[t]
    BY <1>1, <1>8 DEF Continues, SessionStates
  <2>2. Knows(s)'
    BY <1>8, <2>1 DEF Knows
  <2> QED BY <1>1, <1>2, <1>8, <2>1, <2>2, SessionDecides
<1>9. ASSUME NEW s \in Sessions, PhoneLock(s) \/ ItemLock(s) \/ CodeLock(s) PROVE DecisionInv'
  BY <1>8, <1>9 DEF PhoneLock, ItemLock, CodeLock, Deciding, rows
<1>10. ASSUME NEW s \in Sessions, Confirm(s) \/ Approve(s) \/ Cancel(s) PROVE DecisionInv'
  <2>1. Pending(session[s].order) => order[session[s].order].status = "payment_submitted"
    BY <1>1 DEF MoneyMeansInvoice, MoneyFits
  <2> QED BY <1>8, <1>10, <2>1 DEF Confirm, Approve, Cancel, LockedOrder, rows
<1>11. ASSUME NEW s \in Sessions, Replay(s) \/ RollBack(s) PROVE DecisionInv'
  BY <1>5, <1>11 DEF Replay, RollBack, rows
<1>12. ASSUME NEW s \in Sessions, Insert(s) PROVE DecisionInv'
  <2>1. /\ \A o \in Orders \ {session[s].order} : order'[o] = order[o]
        /\ order'[session[s].order].status # "none"
    BY <1>1, <1>12 DEF Insert
  <2> QED BY <1>4, <1>5, <1>12, <2>1 DEF Insert
<1>13. ASSUME NEW s \in Sessions, Receipt(s) PROVE DecisionInv'
  BY <1>2, <1>5, <1>6, <1>13 DEF Receipt, Submitted, Status, Open
<1>14. ASSUME NEW s \in Sessions, ConfirmCommit(s) \/ ApproveCommit(s) PROVE DecisionInv'
  BY <1>3, <1>5, <1>6, <1>14 DEF ConfirmCommit, ApproveCommit, Status, Paid, Deciding
<1>15. ASSUME NEW s \in Sessions, Reject(s) PROVE DecisionInv'
  <2>1. /\ \A o \in Orders \ {session[s].order} : order'[o] = order[o]
        /\ order'[session[s].order].status # "none"
        /\ order'[session[s].order].version > order[session[s].order].version
    BY <1>1, <1>15 DEF Reject, OrderRows
  <2> QED BY <1>2, <1>5, <1>15, <2>1 DEF Reject, LockedOrder
<1>16. ASSUME NEW s \in Sessions, Fulfil(s) PROVE DecisionInv'
  BY <1>2, <1>5, <1>6, <1>16 DEF Fulfil, LockedOrder, Status, Paid
<1>17. ASSUME NEW o \in Orders, NEW reason, Closed(o, reason)
       PROVE  /\ \A p \in Orders \ {o} : order'[p] = order[p]
              /\ order'[o].status # "none"
              /\ order'[o].version > order[o].version
  BY <1>1, <1>17 DEF Closed, OrderRows
<1>18. ASSUME NEW s \in Sessions, CancelCommit(s) PROVE DecisionInv'
  BY <1>1, <1>3, <1>5, <1>17, <1>18 DEF CancelCommit, Deciding
<1>19. ASSUME NEW w \in Sweepers, SweepNext(w), sweeper[w].list # << >>
       PROVE  /\ sweeper'[w].pc # "void" /\ SweepsDue(w)'
              /\ \A v \in Sweepers \ {w} : sweeper'[v] = sweeper[v]
  <2>1. sweeper[w].list \in Seq(Orders)
    BY <1>1 DEF SweeperStates
  <2>2. Len(sweeper[w].list) \in Nat /\ Len(Tail(sweeper[w].list)) = Len(sweeper[w].list) - 1
    BY <1>19, <2>1, HeadTailProperties, LenProperties
  <2>3. Len(sweeper[w].list) # 1 => Tail(sweeper[w].list) # << >>
    <3>1. Len(<< >>) = 0
      BY EmptySeq
    <3>2. Tail(sweeper[w].list) = << >> => Len(Tail(sweeper[w].list)) = 0
      BY <3>1, Zenon
    <3> QED BY <2>2, <3>2
  <2>4. sweeper' = [sweeper EXCEPT ![w] =
          [pc |-> IF Len(sweeper[w].list) = 1 THEN "idle" ELSE "list", list |-> Tail(sweeper[w].list)]]
    BY <1>19 DEF SweepNext
  <2> QED BY <1>1, <2>3, <2>4 DEF SweepsDue
<1>20. \A w \in Sweepers : sweeper[w].pc # "idle" => sweeper[w].list # << >> /\ Head(sweeper[w].list) \in Orders
  <2>1. \A w \in Sweepers : sweeper[w].pc # "idle" => sweeper[w].list # << >> /\ sweeper[w].list \in Seq(Orders)
    BY <1>1 DEF DecisionInv, SweepsDue, SweeperStates
  <2> QED BY <2>1, HeadTailProperties
<1>21. ASSUME NEW w \in Sweepers, SweepList(w) PROVE DecisionInv'
  <2>1. PICK n \in 1..Batch : \E list \in [1..n -> Orders] :
          sweeper' = [sweeper EXCEPT ![w] = [pc |-> "list", list |-> list]]
    BY <1>21 DEF SweepList
  <2>2. PICK list \in [1..n -> Orders] : sweeper' = [sweeper EXCEPT ![w] = [pc |-> "list", list |-> list]]
    BY <2>1
  <2>3. list # << >>
    <3>1. 1 \in DOMAIN list
      OBVIOUS
    <3> QED BY <3>1
  <2>4. /\ sweeper'[w].pc = "list" /\ sweeper'[w].list = list
        /\ \A v \in Sweepers \ {w} : sweeper'[v] = sweeper[v]
    BY <1>1, <2>2
  <2>5. SweepsDue(w)'
    BY <2>3, <2>4 DEF SweepsDue
  <2> QED BY <1>21, <2>4, <2>5, SweepDecides DEF SweepList, rows
<1>22. ASSUME NEW w \in Sweepers, SweepLock(w) PROVE DecisionInv'
  <2>1. /\ sweeper'[w].list = sweeper[w].list /\ sweeper'[w].pc = "void"
        /\ \A v \in Sweepers \ {w} : sweeper'[v] = sweeper[v]
    BY <1>1, <1>22 DEF SweepLock, SweeperStates
  <2>2. Due(Head(sweeper[w].list)) /\ OrderFree(Head(sweeper[w].list)) /\ order' = order /\ session' = session
    BY <1>22 DEF SweepLock, StillDue, rows
  <2>3. sweeper[w].list # << >>
    BY <1>20, <1>22 DEF SweepLock
  <2>4. SweepsDue(w)'
    BY <2>1, <2>2, <2>3 DEF SweepsDue, Due
  <2> QED BY <2>1, <2>2, <2>4, SweepDecides
<1>23. ASSUME NEW w \in Sweepers, SweepSkip(w) \/ SweepFails(w) PROVE DecisionInv'
  BY <1>19, <1>20, <1>23, SweepDecides DEF SweepSkip, SweepFails, rows
<1>24. ASSUME NEW w \in Sweepers, SweepCommit(w) PROVE DecisionInv'
  BY <1>17, <1>19, <1>20, <1>24, SweepDecides DEF SweepCommit
<1>25. ASSUME UNCHANGED <<order, session, sweeper>> PROVE DecisionInv'
  BY <1>25 DEF DecisionInv, OrderLocks, Knows, SweepsDue, Due
<1>26. ASSUME Tick PROVE DecisionInv'
  <2>1. /\ session' = session /\ sweeper' = sweeper
        /\ \A o \in Orders : /\ order'[o].status = order[o].status /\ order'[o].version = order[o].version
                             /\ order[o].left = 0 => order'[o].left = 0
    <3>1. \A o \in Orders : order'[o] = IF order[o].status \in Expiring /\ order[o].left > 0
                                        THEN [order[o] EXCEPT !.left = @ - 1] ELSE order[o]
      BY <1>26 DEF Tick
    <3>2. \A o \in Orders : order[o] \in OrderRows
      BY <1>1
    <3> QED BY <1>26, <3>1, <3>2 DEF Tick, OrderRows
  <2>2. OrderLocks'
    BY <2>1 DEF DecisionInv, OrderLocks
  <2>3. \A s \in Sessions : Knows(s)'
    BY <1>1, <2>1 DEF DecisionInv, Knows
  <2>4. \A w \in Sweepers : SweepsDue(w)'
    BY <1>20, <2>1 DEF DecisionInv, SweepsDue, Due
  <2> QED BY <2>2, <2>3, <2>4 DEF DecisionInv
<1> QED
  BY <1>7, <1>9, <1>10, <1>11, <1>12, <1>13, <1>14, <1>15, <1>16, <1>18, <1>21, <1>22, <1>23, <1>24, <1>25, <1>26
  DEF Next, SessionStep, SweepStep, ErpFinalize, ErpVoid

-----------------------------------------------------------------------------
(* Money and the rows of an order. *)

(* The accepted receipts of an order are finitely many. *)
LEMMA AcceptedFinite ==
    ASSUME TypeOK, NEW o \in Orders
    PROVE  /\ IsFiniteSet(Accepted(o))
           /\ Cardinality(Accepted(o)) = 0 <=> Accepted(o) = {}
           /\ Len(receipts[o]) \in Nat /\ DOMAIN receipts[o] = 1..Len(receipts[o])
<1>1. receipts[o] \in Seq({"pending", "accepted", "rejected"})
  BY DEF TypeOK
<1>2. Len(receipts[o]) \in Nat /\ DOMAIN receipts[o] = 1..Len(receipts[o])
  BY <1>1, LenProperties
<1>3. IsFiniteSet(1..Len(receipts[o]))
  BY <1>2, FS_Interval
<1>4. IsFiniteSet(Accepted(o))
  BY <1>2, <1>3, FS_Subset DEF Accepted
<1> QED BY <1>2, <1>4, FS_EmptySet

(* A review leaves nothing pending; it adds an accepted receipt when it    *)
(* accepts the pending one, and none when it rejects.                      *)
LEMMA ReviewCounts ==
    ASSUME TypeOK, NEW o \in Orders, RowsFit(o), NEW status \in {"accepted", "rejected"}, Reviewed(o, status)
    PROVE  /\ ~ Pending(o)'
           /\ \A i, j \in DOMAIN receipts'[o] : receipts'[o][i] = "pending" /\ receipts'[o][j] = "pending" => i = j
           /\ status = "rejected" => Accepted(o)' = Accepted(o)
           /\ status = "accepted" /\ Pending(o) /\ Accepted(o) = {} => Cardinality(Accepted(o)') = 1
<1>1. /\ DOMAIN receipts'[o] = DOMAIN receipts[o]
      /\ \A i \in DOMAIN receipts[o] :
            receipts'[o][i] = IF receipts[o][i] = "pending" THEN status ELSE receipts[o][i]
  BY ReviewType DEF TypeOK
<1>2. ~ Pending(o)' /\ \A i, j \in DOMAIN receipts'[o] : receipts'[o][i] = "pending" /\ receipts'[o][j] = "pending" => i = j
  BY <1>1 DEF Pending
<1>3. status = "rejected" => Accepted(o)' = Accepted(o)
  BY <1>1 DEF Accepted
<1>4. ASSUME status = "accepted", Pending(o), Accepted(o) = {} PROVE Cardinality(Accepted(o)') = 1
  <2>1. PICK i \in DOMAIN receipts[o] : receipts[o][i] = "pending"
    BY <1>4 DEF Pending
  <2>2. \A j \in DOMAIN receipts[o] : receipts[o][j] # "accepted" /\ (receipts[o][j] = "pending" => j = i)
    BY <1>4, <2>1 DEF Accepted, RowsFit
  <2>3. Accepted(o)' = {i}
    BY <1>1, <1>4, <2>1, <2>2 DEF Accepted
  <2> QED BY <2>3, FS_Singleton
<1> QED BY <1>2, <1>3, <1>4

(* A receipt that arrives is pending, the only one when none was. *)
LEMMA ArrivalCounts ==
    ASSUME TypeOK, NEW o \in Orders, ~ Pending(o), receipts' = [receipts EXCEPT ![o] = Append(@, "pending")]
    PROVE  /\ Pending(o)'
           /\ \A i, j \in DOMAIN receipts'[o] : receipts'[o][i] = "pending" /\ receipts'[o][j] = "pending" => i = j
           /\ Accepted(o)' = Accepted(o)
<1> DEFINE T == {"pending", "accepted", "rejected"}
           n == Len(receipts[o])
<1>1. receipts[o] \in Seq(T) /\ receipts'[o] = Append(receipts[o], "pending") /\ "pending" \in T
  BY DEF TypeOK
<1>2. /\ n \in Nat /\ DOMAIN receipts[o] = 1..n
      /\ Append(receipts[o], "pending") \in Seq(T)
      /\ Len(Append(receipts[o], "pending")) = n + 1
      /\ \A i \in 1..n : Append(receipts[o], "pending")[i] = receipts[o][i]
      /\ Append(receipts[o], "pending")[n + 1] = "pending"
  <2> HIDE DEF T
  <2> QED BY <1>1, AppendProperties, LenProperties
<1>3. /\ DOMAIN receipts'[o] = 1..(n + 1)
      /\ \A i \in 1..n : receipts'[o][i] = receipts[o][i]
      /\ receipts'[o][n + 1] = "pending"
  <2>1. DOMAIN receipts'[o] = 1..Len(receipts'[o])
    BY <1>1, <1>2, LenProperties
  <2> QED BY <1>1, <1>2, <2>1
<1> HIDE DEF n, T
<1>4. \A i \in 1..n : receipts[o][i] # "pending"
  BY <1>2 DEF Pending
<1>5. \A i \in 1..(n + 1) : i \in 1..n \/ i = n + 1
  BY <1>2
<1>6. n + 1 \in 1..(n + 1) /\ 1..n \subseteq 1..(n + 1)
  BY <1>2
<1>7. Pending(o)'
  BY <1>3, <1>6 DEF Pending
<1>8. \A i, j \in DOMAIN receipts'[o] : receipts'[o][i] = "pending" /\ receipts'[o][j] = "pending" => i = j
  BY <1>3, <1>4, <1>5
<1>9. Accepted(o)' = Accepted(o)
  BY <1>2, <1>3, <1>5, <1>6 DEF Accepted
<1> QED BY <1>7, <1>8, <1>9

(* A step that writes the rows of one order only. *)
LEMMA OneOrder ==
    ASSUME RowInv, MoneyMeansInvoice, NEW x \in Orders, request' = request,
           \A o \in Orders \ {x} : /\ order'[o] = order[o] /\ doc'[o] = doc[o] /\ use'[o] = use[o]
                                   /\ receipts'[o] = receipts[o] /\ paid'[o] = paid[o],
           RowsFit(x)', MoneyFits(x)'
    PROVE  RowInv' /\ MoneyMeansInvoice'
<1>1. ASSUME NEW o \in Orders \ {x} PROVE RowsFit(o)' /\ MoneyFits(o)'
  <2>1. RowsFit(o) /\ MoneyFits(o)
    BY DEF RowInv, MoneyMeansInvoice
  <2>2. Accepted(o)' = Accepted(o) /\ Pending(o)' = Pending(o)
    BY DEF Accepted, Pending
  <2> QED BY <2>1, <2>2 DEF RowsFit, MoneyFits
<1> QED BY <1>1 DEF RowInv, MoneyMeansInvoice

(* Every step keeps the rows of each order, and its money, together. *)
LEMMA MoneyStep ==
    ASSUME SiteOrdersAssumption, TypeOK, TypeOK', DecisionInv, RowInv, MoneyMeansInvoice, Next
    PROVE  RowInv' /\ MoneyMeansInvoice'
<1> USE SiteOrdersAssumption
<1>1. /\ order \in [Orders -> OrderRows] /\ receipts \in [Orders -> Seq({"pending", "accepted", "rejected"})]
      /\ use \in [Orders -> {"none", "live", "released"}]
      /\ doc \in [Orders -> {"none", "proforma", "final", "void"}] /\ paid \in [Orders -> Nat]
      /\ \A s \in Sessions : session[s].order \in Orders
  BY DEF TypeOK, SessionStates
<1>2. \A o \in Orders : RowsFit(o) /\ MoneyFits(o) /\ order[o].status \in Status
  BY <1>1 DEF RowInv, MoneyMeansInvoice, OrderRows
<1>3. \A s \in Sessions : Knows(s)
  BY DEF DecisionInv
<1>4. ASSUME UNCHANGED <<request, receipts, use, doc, paid>>, \A o \in Orders : order'[o].status = order[o].status
      PROVE  RowInv' /\ MoneyMeansInvoice'
  <2>1. \A o \in Orders : Accepted(o)' = Accepted(o) /\ (Pending(o)' <=> Pending(o))
    BY <1>4 DEF Accepted, Pending
  <2> QED BY <1>4, <2>1 DEF RowInv, RowsFit, MoneyMeansInvoice, MoneyFits
<1>5. ASSUME UNCHANGED <<request, rows>> PROVE RowInv' /\ MoneyMeansInvoice'
  BY <1>4, <1>5 DEF rows
<1>6. ASSUME NEW o \in Orders, NEW status, Moved(o, status)
       PROVE  order'[o].status = status /\ \A p \in Orders \ {o} : order'[p] = order[p]
  BY <1>1, <1>6 DEF Moved, OrderRows
<1>7. ASSUME NEW o \in Orders, Finalized(o)
       PROVE  doc'[o] = "final" /\ \A p \in Orders \ {o} : doc'[p] = doc[p]
  BY <1>1, <1>7 DEF Finalized
<1>8. ASSUME NEW o \in Orders, Voided(o)
       PROVE  doc'[o] = "void" /\ \A p \in Orders \ {o} : doc'[p] = doc[p]
  BY <1>1, <1>8 DEF Voided
<1>9. ASSUME NEW s \in Sessions, Insert(s) PROVE RowInv' /\ MoneyMeansInvoice'
  <2>0. PICK x \in Orders : x = session[s].order
    BY <1>1
  <2>1. /\ order[x].status = "none" /\ x \in Orders
        /\ order'[x].status = IF request[x].onAccount THEN "awaiting_approval" ELSE "awaiting_payment"
        /\ doc'[x] = "proforma" /\ use'[x] = (IF request[x].withCode THEN "live" ELSE "none")
        /\ request' = request /\ receipts' = receipts /\ paid' = paid
        /\ \A o \in Orders \ {x} : order'[o] = order[o] /\ doc'[o] = doc[o] /\ use'[o] = use[o]
    BY <1>1, <1>9, <2>0 DEF Insert
  <2>2. Accepted(x)' = Accepted(x) /\ (Pending(x)' <=> Pending(x))
    BY <2>1 DEF Accepted, Pending
  <2>3. RowsFit(x)' /\ MoneyFits(x)'
    BY <1>2, <2>1, <2>2 DEF RowsFit, MoneyFits, Paid
  <2> QED BY <2>1, <2>3, OneOrder
<1>10. ASSUME NEW s \in Sessions, Receipt(s) PROVE RowInv' /\ MoneyMeansInvoice'
  <2>0. PICK x \in Orders : x = session[s].order
    BY <1>1
  <2>1. /\ order[x].status = "awaiting_payment" /\ x \in Orders
        /\ order'[x].status = "payment_submitted"
        /\ UNCHANGED <<request, use, doc, paid>>
        /\ receipts' = [receipts EXCEPT ![x] = Append(@, "pending")]
        /\ \A o \in Orders \ {x} : order'[o] = order[o] /\ receipts'[o] = receipts[o]
    BY <1>1, <1>10, <2>0 DEF Receipt, Submitted, Moved, OrderRows
  <2>2. ~ Pending(x)
    BY <1>2, <2>1 DEF MoneyFits
  <2>3. RowsFit(x)' /\ MoneyFits(x)'
    BY <1>2, <2>1, <2>2, ArrivalCounts DEF RowsFit, MoneyFits, Paid
  <2> QED BY <2>1, <2>3, OneOrder
<1>11. ASSUME NEW s \in Sessions, ConfirmCommit(s) PROVE RowInv' /\ MoneyMeansInvoice'
  <2>0. PICK x \in Orders : x = session[s].order
    BY <1>1
  <2>1. /\ order[x].status = "payment_submitted" /\ x \in Orders
        /\ order'[x].status = "paid" /\ doc'[x] = "final" /\ paid'[x] = paid[x] + 1
        /\ UNCHANGED <<request, use>> /\ Reviewed(x, "accepted")
        /\ \A o \in Orders \ {x} : order'[o] = order[o] /\ doc'[o] = doc[o] /\ paid'[o] = paid[o]
    BY <1>1, <1>3, <1>6, <1>7, <1>11, <2>0 DEF ConfirmCommit, Knows
  <2>2. Pending(x) /\ paid[x] = 0 /\ Accepted(x) = {}
    BY <1>2, <2>1, AcceptedFinite DEF MoneyFits, Paid
  <2>3. ~ Pending(x)' /\ Cardinality(Accepted(x)') = 1
        /\ \A i, j \in DOMAIN receipts'[x] : receipts'[x][i] = "pending" /\ receipts'[x][j] = "pending" => i = j
    BY <1>2, <2>1, <2>2, ReviewCounts
  <2>4. \A o \in Orders \ {x} : receipts'[o] = receipts[o]
    BY <1>1, <2>1, ReviewType
  <2>5. RowsFit(x)' /\ MoneyFits(x)'
    BY <1>2, <2>1, <2>2, <2>3 DEF RowsFit, MoneyFits, Paid
  <2> QED BY <2>1, <2>4, <2>5, OneOrder
<1>12. ASSUME NEW s \in Sessions, ApproveCommit(s) PROVE RowInv' /\ MoneyMeansInvoice'
  <2>0. PICK x \in Orders : x = session[s].order
    BY <1>1
  <2>1. /\ order[x].status = "awaiting_approval" /\ x \in Orders
        /\ order'[x].status = "confirmed" /\ doc'[x] = "final"
        /\ UNCHANGED <<request, use, receipts, paid>>
        /\ \A o \in Orders \ {x} : order'[o] = order[o] /\ doc'[o] = doc[o]
    BY <1>1, <1>3, <1>6, <1>7, <1>12, <2>0 DEF ApproveCommit, Knows
  <2>2. Accepted(x)' = Accepted(x) /\ (Pending(x)' <=> Pending(x))
    BY <2>1 DEF Accepted, Pending
  <2>3. RowsFit(x)' /\ MoneyFits(x)'
    BY <1>2, <2>1, <2>2 DEF RowsFit, MoneyFits, Paid
  <2> QED BY <2>1, <2>3, OneOrder
<1>13. ASSUME NEW s \in Sessions, Reject(s) PROVE RowInv' /\ MoneyMeansInvoice'
  <2>0. PICK x \in Orders : x = session[s].order
    BY <1>1
  <2>1. /\ Pending(x) /\ x \in Orders
        /\ order'[x].status = "awaiting_payment"
        /\ UNCHANGED <<request, use, doc, paid>> /\ Reviewed(x, "rejected")
        /\ \A o \in Orders \ {x} : order'[o] = order[o]
    BY <1>1, <1>13, <2>0 DEF Reject, OrderRows
  <2>2. order[x].status = "payment_submitted"
    BY <1>2, <2>1 DEF MoneyFits
  <2>3. ~ Pending(x)' /\ Accepted(x)' = Accepted(x)
        /\ \A i, j \in DOMAIN receipts'[x] : receipts'[x][i] = "pending" /\ receipts'[x][j] = "pending" => i = j
    BY <1>2, <2>1, ReviewCounts
  <2>4. \A o \in Orders \ {x} : receipts'[o] = receipts[o]
    BY <1>1, <2>1, ReviewType
  <2>5. RowsFit(x)' /\ MoneyFits(x)'
    BY <1>2, <2>1, <2>2, <2>3 DEF RowsFit, MoneyFits, Paid
  <2> QED BY <2>1, <2>4, <2>5, OneOrder
<1>14. ASSUME NEW s \in Sessions, Fulfil(s) PROVE RowInv' /\ MoneyMeansInvoice'
  <2>0. PICK x \in Orders : x = session[s].order
    BY <1>1
  <2>1. /\ order[x].status \in Paid /\ order'[x].status \in {"shipped", "delivered"} /\ x \in Orders
        /\ UNCHANGED <<request, use, receipts, doc, paid>>
        /\ \A o \in Orders \ {x} : order'[o] = order[o]
    BY <1>1, <1>6, <1>14, <2>0 DEF Fulfil, Paid
  <2>2. Accepted(x)' = Accepted(x) /\ (Pending(x)' <=> Pending(x))
    BY <2>1 DEF Accepted, Pending
  <2>3. RowsFit(x)' /\ MoneyFits(x)'
    BY <1>2, <2>1, <2>2 DEF RowsFit, MoneyFits, Paid
  <2> QED BY <2>1, <2>3, OneOrder
<1>15. ASSUME NEW x \in Orders, NEW reason, Closed(x, reason), order[x].status \in Open
       PROVE  RowInv' /\ MoneyMeansInvoice'
  <2>1. /\ order'[x].status = "cancelled" /\ doc'[x] = "void" /\ use'[x] = (IF use[x] = "live" THEN "released" ELSE use[x])
        /\ UNCHANGED <<request, paid>> /\ Reviewed(x, "rejected")
        /\ \A o \in Orders \ {x} : order'[o] = order[o] /\ doc'[o] = doc[o] /\ use'[o] = use[o]
    BY <1>1, <1>15 DEF Closed, Voided, Released, OrderRows
  <2>2. ~ Pending(x)' /\ Accepted(x)' = Accepted(x)
        /\ \A i, j \in DOMAIN receipts'[x] : receipts'[x][i] = "pending" /\ receipts'[x][j] = "pending" => i = j
    BY <1>2, <2>1, ReviewCounts
  <2>3. \A o \in Orders \ {x} : receipts'[o] = receipts[o]
    BY <1>1, <2>1, ReviewType
  <2>4. RowsFit(x)' /\ MoneyFits(x)'
    BY <1>2, <1>15, <2>1, <2>2 DEF RowsFit, MoneyFits, Paid, Open
  <2> QED BY <2>1, <2>3, <2>4, OneOrder
<1>16. ASSUME NEW s \in Sessions, CancelCommit(s) PROVE RowInv' /\ MoneyMeansInvoice'
  BY <1>1, <1>3, <1>15, <1>16 DEF CancelCommit, Knows
<1>17. ASSUME NEW w \in Sweepers, SweepCommit(w) PROVE RowInv' /\ MoneyMeansInvoice'
  <2>1. SweepsDue(w) /\ sweeper[w].list \in Seq(Orders)
    BY DEF DecisionInv, TypeOK, SweeperStates
  <2>2. Head(sweeper[w].list) \in Orders /\ order[Head(sweeper[w].list)].status \in Open
    BY <1>17, <2>1, HeadTailProperties DEF SweepCommit, SweepsDue, Due, Expiring, Open
  <2> QED BY <1>15, <1>17, <2>2 DEF SweepCommit
<1>18. ASSUME NEW x \in Orders, ErpFinalize(x) \/ ErpVoid(x) PROVE RowInv' /\ MoneyMeansInvoice'
  <2>1. /\ doc[x] # "none" /\ doc[x] # "void" /\ doc'[x] \in {"final", "void"}
        /\ doc'[x] = "void" => paid[x] = 0
        /\ UNCHANGED <<request, order, receipts, use, paid>>
        /\ \A o \in Orders \ {x} : doc'[o] = doc[o]
    <3>1. CASE ErpFinalize(x)
      BY <1>7, <3>1 DEF ErpFinalize, LiveProforma
    <3>2. CASE ErpVoid(x)
      BY <1>8, <3>2 DEF ErpVoid, Voidable
    <3> QED BY <1>18, <3>1, <3>2
  <2>2. Accepted(x)' = Accepted(x) /\ (Pending(x)' <=> Pending(x))
    BY <2>1 DEF Accepted, Pending
  <2>3. RowsFit(x)' /\ MoneyFits(x)'
    BY <1>2, <2>1, <2>2 DEF RowsFit, MoneyFits, Paid
  <2> QED BY <2>1, <2>3, OneOrder
<1>19. ASSUME Tick PROVE RowInv' /\ MoneyMeansInvoice'
  BY <1>1, <1>4, <1>19 DEF Tick, OrderRows
<1> QED
  BY <1>5, <1>9, <1>10, <1>11, <1>12, <1>13, <1>14, <1>16, <1>17, <1>18, <1>19
  DEF Next, SessionStep, SweepStep, PlaceBegin, PhoneLock, ItemLock, CodeLock, Replay, ReceiptBegin, Look, Confirm, Approve,
      Cancel, RollBack, SweepList, SweepLock, SweepSkip, SweepFails

-----------------------------------------------------------------------------
(* Limits and reserved stock. *)

Locked == {"items", "code", "insert"}

(* What is counted is finite; fewer orders are no more, and one more order *)
(* is one more.                                                            *)
LEMMA Counts ==
    ASSUME SiteOrdersAssumption, NEW S \in SUBSET Orders
    PROVE  /\ IsFiniteSet(S) /\ Cardinality(S) \in Nat
           /\ \A T \in SUBSET S : Cardinality(T) =< Cardinality(S)
           /\ \A o \in Orders : Cardinality(S \cup {o}) =< Cardinality(S) + 1
           /\ \A o \in S : Cardinality(S \ {o}) = Cardinality(S) - 1
<1>1. IsFiniteSet(S)
  BY FS_Subset DEF SiteOrdersAssumption
<1>2. Cardinality(S) \in Nat
  BY <1>1, FS_CardinalityType
<1>3. \A T \in SUBSET S : Cardinality(T) =< Cardinality(S)
  BY <1>1, FS_Subset
<1>4. ASSUME NEW o \in Orders PROVE Cardinality(S \cup {o}) =< Cardinality(S) + 1
  <2>1. Cardinality(S \cup {o}) = IF o \in S THEN Cardinality(S) ELSE Cardinality(S) + 1
    BY <1>1, FS_AddElement
  <2> QED BY <1>2, <2>1
<1>5. \A o \in S : Cardinality(S \ {o}) = Cardinality(S) - 1
  BY <1>1, FS_RemoveElement
<1> QED BY <1>1, <1>2, <1>3, <1>4, <1>5

(* The stock of an item and what it is promised to: untouched, or changed  *)
(* by one who has the item locked, and then promised within.               *)
ItemsKept ==
    \A i \in Items : \/ Reserved(i)' = Reserved(i) /\ stock'[i] = stock[i]
                     \/ ItemFree(i) /\ Cardinality(Reserved(i)') =< stock'[i]

(* A finalized document takes its unit from the promised and from the      *)
(* stock.                                                                  *)
LEMMA FinalizeKeepsItems ==
    ASSUME SiteOrdersAssumption, TypeOK, ReservedWithinStock, request' = request,
           NEW x \in Orders, LiveProforma(x), Finalized(x)
    PROVE  ItemsKept
<1> DEFINE i == request[x].item
<1>1. /\ doc[x] = "proforma" /\ ItemFree(i) /\ i \in Items /\ stock[i] \in Nat
      /\ doc' = [doc EXCEPT ![x] = "final"] /\ stock' = [stock EXCEPT ![i] = @ - 1]
      /\ doc'[x] = "final" /\ stock'[i] = stock[i] - 1
  BY DEF LiveProforma, Finalized, TypeOK, SiteOrdersAssumption
<1>2. Reserved(i)' = Reserved(i) \ {x} /\ x \in Reserved(i)
  BY <1>1 DEF Reserved, TypeOK
<1>3. Cardinality(Reserved(i)') = Cardinality(Reserved(i)) - 1 /\ Cardinality(Reserved(i)) \in Nat
  <2>1. Reserved(i) \in SUBSET Orders
    BY DEF Reserved
  <2> QED BY <1>2, <2>1, Counts
<1>4. Cardinality(Reserved(i)) =< stock[i]
  BY <1>1 DEF ReservedWithinStock
<1>5. \A j \in Items \ {i} : Reserved(j)' = Reserved(j) /\ stock'[j] = stock[j]
  BY <1>1 DEF Reserved, TypeOK
<1>6. Cardinality(Reserved(i)') =< stock'[i]
  BY <1>1, <1>3, <1>4
<1> QED BY <1>1, <1>5, <1>6 DEF ItemsKept

(* A voided document gives up its promise, and its unit when it was final. *)
LEMMA VoidKeepsItems ==
    ASSUME SiteOrdersAssumption, TypeOK, ReservedWithinStock, request' = request,
           NEW x \in Orders, doc[x] # "void" => Voidable(x), Voided(x)
    PROVE  ItemsKept
<1> DEFINE i == request[x].item
<1>1. /\ i \in Items /\ stock[i] \in Nat
      /\ doc' = [doc EXCEPT ![x] = "void"] /\ doc'[x] = "void"
      /\ stock'[i] = (IF doc[x] = "final" THEN stock[i] + 1 ELSE stock[i])
  BY DEF Voided, TypeOK, SiteOrdersAssumption
<1>2. \A j \in Items \ {i} : Reserved(j)' = Reserved(j) /\ stock'[j] = stock[j]
  BY <1>1 DEF Reserved, TypeOK, Voided
<1>3. CASE doc[x] = "void"
  <2>1. doc' = doc
    BY <1>1, <1>3 DEF TypeOK
  <2>2. Reserved(i)' = Reserved(i)
    BY <2>1 DEF Reserved
  <2> QED BY <1>1, <1>2, <1>3, <2>2 DEF ItemsKept
<1>4. CASE doc[x] # "void"
  <2>1. ItemFree(i)
    BY <1>4 DEF Voidable
  <2>2. Reserved(i)' \in SUBSET Reserved(i)
    BY <1>1 DEF Reserved, TypeOK
  <2>3. Cardinality(Reserved(i)') =< Cardinality(Reserved(i)) /\ Cardinality(Reserved(i)) \in Nat /\ Cardinality(Reserved(i)') \in Nat
    <3>1. Reserved(i) \in SUBSET Orders
      BY DEF Reserved
    <3>2. Reserved(i)' \in SUBSET Orders
      BY <2>2, <3>1
    <3> QED BY <2>2, <3>1, <3>2, Counts
  <2>4. Cardinality(Reserved(i)) =< stock[i]
    BY <1>1 DEF ReservedWithinStock
  <2>5. Cardinality(Reserved(i)') =< stock'[i]
    BY <1>1, <2>3, <2>4
  <2> QED BY <1>2, <2>1, <2>5 DEF ItemsKept
<1> QED BY <1>3, <1>4

(* What a step that places no order does to what is promised: nothing, if  *)
(* no order opens, no code is used, and items are only written by one who  *)
(* has them locked.                                                        *)
LEMMA PromisesStay ==
    ASSUME SiteOrdersAssumption, TypeOK, TypeOK', RowInv', PlaceInv, ReservedWithinStock, LimitsHold,
           request' = request,
           \A o \in Orders : order'[o].status \in Open => order[o].status \in Open,
           \A o \in Orders : use'[o] = "live" => use[o] = "live",
           ItemsKept
    PROVE  /\ \A s \in Sessions : session'[s] = session[s] => Room(s)'
           /\ ReservedWithinStock' /\ LimitsHold'
<1>1. ASSUME NEW p \in Phones
      PROVE  /\ Cardinality(OpenOf(p)') =< Cardinality(OpenOf(p))
             /\ Cardinality(OpenOf(p)') \in Nat /\ Cardinality(OpenOf(p)) \in Nat
  <2>1. OpenOf(p) \in SUBSET Orders /\ OpenOf(p)' \in SUBSET Orders /\ OpenOf(p)' \in SUBSET OpenOf(p)
    BY DEF OpenOf
  <2> QED BY <2>1, Counts
<1>2. Cardinality(Uses') =< Cardinality(Uses) /\ Cardinality(Uses') \in Nat /\ Cardinality(Uses) \in Nat
  <2>1. Uses \in SUBSET Orders /\ Uses' \in SUBSET Orders /\ Uses' \in SUBSET Uses
    BY DEF Uses
  <2> QED BY <2>1, Counts
<1>3. ReservedWithinStock'
  BY DEF ReservedWithinStock, ItemsKept
<1>4. LimitsHold'
  <2>1. \A o \in Orders : use'[o] = "released" <=> order'[o].status = "cancelled" /\ request'[o].withCode
    BY DEF RowInv, RowsFit
  <2>2. \A p \in Phones : Cardinality(OpenOf(p)) =< OpenLimit
    BY DEF LimitsHold
  <2>3. Cardinality(Uses) =< UsageLimit
    BY DEF LimitsHold
  <2>4. \A p \in Phones : Cardinality(OpenOf(p)') =< OpenLimit
    BY <1>1, <2>2 DEF SiteOrdersAssumption
  <2>5. Cardinality(Uses') =< UsageLimit
    BY <1>2, <2>3 DEF SiteOrdersAssumption
  <2> QED BY <2>1, <2>4, <2>5 DEF LimitsHold
<1>5. ASSUME NEW s \in Sessions, session'[s] = session[s] PROVE Room(s)'
  <2>1. /\ Room(s) /\ Phone(s) \in Phones /\ Item(s) \in Items
        /\ Phone(s)' = Phone(s) /\ Item(s)' = Item(s) /\ WithCode(s)' = WithCode(s)
    <3>1. session[s].order \in Orders /\ request \in Requests
      BY DEF TypeOK, SessionStates
    <3>2. request[session[s].order] \in [phone : Phones, item : Items, onAccount : BOOLEAN, withCode : BOOLEAN]
      BY <3>1 DEF SiteOrdersAssumption
    <3> QED BY <1>5, <3>2 DEF PlaceInv, Phone, Item, WithCode
  <2>2. session[s].pc \in {"items", "code", "insert"} => Cardinality(OpenOf(Phone(s))') < OpenLimit
    BY <1>1, <2>1 DEF Room, SiteOrdersAssumption
  <2>3. session[s].pc = "insert" /\ WithCode(s) => Cardinality(Uses') < UsageLimit
    BY <1>2, <2>1 DEF Room, SiteOrdersAssumption
  <2>4. ASSUME session[s].pc \in {"code", "insert"}
        PROVE  stock'[Item(s)] > Cardinality(Reserved(Item(s))')
    <3>1. ~ ItemFree(Item(s))
      BY <2>4 DEF ItemFree, Item
    <3>2. Reserved(Item(s))' = Reserved(Item(s)) /\ stock'[Item(s)] = stock[Item(s)]
      BY <2>1, <3>1 DEF ItemsKept
    <3> QED BY <2>1, <2>4, <3>2 DEF Room, Sellable
  <2> QED BY <1>5, <2>1, <2>2, <2>3, <2>4 DEF Room, Sellable
<1> QED BY <1>3, <1>4, <1>5

(* Every step keeps the promises, and the room of those who place. *)
LEMMA PromiseStep ==
    ASSUME SiteOrdersAssumption, TypeOK, TypeOK', DecisionInv, RowInv, RowInv',
           PlaceInv, ReservedWithinStock, LimitsHold, Next
    PROVE  PlaceInv' /\ ReservedWithinStock' /\ LimitsHold'
<1> USE SiteOrdersAssumption
<1> DEFINE Kept == PlaceInv' /\ ReservedWithinStock' /\ LimitsHold'
<1>1. /\ session \in [Sessions -> SessionStates] /\ order \in [Orders -> OrderRows]
      /\ use \in [Orders -> {"none", "live", "released"}]
      /\ doc \in [Orders -> {"none", "proforma", "final", "void"}] /\ stock \in [Items -> Nat]
      /\ \A s \in Sessions : session[s].order \in Orders
      /\ \A o \in Orders : request[o].phone \in Phones /\ request[o].item \in Items /\ request[o].withCode \in BOOLEAN
  <2>1. /\ session \in [Sessions -> SessionStates] /\ order \in [Orders -> OrderRows]
        /\ use \in [Orders -> {"none", "live", "released"}]
        /\ doc \in [Orders -> {"none", "proforma", "final", "void"}] /\ stock \in [Items -> Nat]
    BY DEF TypeOK
  <2>2. \A o \in Orders : request[o] \in [phone : Phones, item : Items, onAccount : BOOLEAN, withCode : BOOLEAN]
    BY DEF TypeOK, SiteOrdersAssumption
  <2> QED BY <2>1, <2>2 DEF SessionStates
<1>2. ASSUME request' = request, ItemsKept,
             \A o \in Orders : order'[o].status \in Open => order[o].status \in Open,
             \A o \in Orders : use'[o] = "live" => use[o] = "live",
             \A t \in Sessions : session'[t] = session[t] \/ session'[t].pc \notin Locked
      PROVE  Kept
  <2>1. (\A s \in Sessions : session'[s] = session[s] => Room(s)') /\ ReservedWithinStock' /\ LimitsHold'
    BY <1>2, PromisesStay
  <2>2. \A s \in Sessions : Room(s)'
    BY <1>2, <2>1 DEF Room, Locked
  <2>3. PlaceLocks'
    BY <1>2 DEF PlaceInv, PlaceLocks, Phone, Item, WithCode, Locked
  <2> QED BY <2>1, <2>2, <2>3 DEF PlaceInv
<1>3. UNCHANGED <<doc, stock>> /\ request' = request => ItemsKept
  BY DEF ItemsKept, Reserved
<1>4. ASSUME UNCHANGED <<request, rows>>, \A t \in Sessions : session'[t] = session[t] \/ session'[t].pc \notin Locked
      PROVE  Kept
  BY <1>2, <1>3, <1>4 DEF rows
<1>5. ASSUME NEW s \in Sessions, Ends(s)
      PROVE  \A t \in Sessions : session'[t] = session[t] \/ session'[t].pc \notin Locked
  BY <1>1, <1>5, StartType DEF Ends, Locked
<1>6. ASSUME NEW s \in Sessions, NEW pc \in {"confirm", "approve", "void"}, Continues(s, pc)
      PROVE  \A t \in Sessions : session'[t] = session[t] \/ session'[t].pc \notin Locked
  BY <1>1, <1>6 DEF Continues, SessionStates, Locked
<1>7. ASSUME NEW s \in Sessions, NEW o \in Orders, PlaceBegin(s, o) \/ ReceiptBegin(s, o) \/ Look(s, o) PROVE Kept
  <2>1. \A t \in Sessions : session'[t] = session[t] \/ session'[t].pc \notin Locked
    <3>1. \E me : session' = [session EXCEPT ![s] = me] /\ me.pc \notin Locked
      <4>1. /\ On(o, "phone").pc \notin Locked
            /\ [On(o, "receipt") EXCEPT !.seen = order[o].version, !.late = (order[o].left = 0)].pc \notin Locked
            /\ [On(o, "screen") EXCEPT !.seen = order[o].version, !.shown = order[o].status].pc \notin Locked
        BY DEF On, Locked
      <4> QED BY <1>7, <4>1 DEF PlaceBegin, ReceiptBegin, Look
    <3> QED BY <1>1, <3>1
  <2> QED BY <1>4, <1>7, <2>1 DEF PlaceBegin, ReceiptBegin, Look
<1>8. ASSUME NEW s \in Sessions, Confirm(s) \/ Approve(s) \/ Cancel(s) PROVE Kept
  BY <1>4, <1>6, <1>8 DEF Confirm, Approve, Cancel
<1>9. ASSUME NEW s \in Sessions, Replay(s) \/ RollBack(s) PROVE Kept
  BY <1>4, <1>5, <1>9 DEF Replay, RollBack
<1>10. ASSUME NEW s \in Sessions, NEW pc \in Locked, Continues(s, pc), UNCHANGED <<request, rows>>,
              PlaceLocks', Room(s)'
       PROVE  Kept
  <2>1. \A t \in Sessions \ {s} : session'[t] = session[t]
    BY <1>1, <1>10 DEF Continues
  <2>2. (\A t \in Sessions : session'[t] = session[t] => Room(t)') /\ ReservedWithinStock' /\ LimitsHold'
    BY <1>3, <1>10, PromisesStay DEF rows
  <2> QED BY <1>10, <2>1, <2>2 DEF PlaceInv
<1>11. ASSUME NEW s \in Sessions, NEW pc, Continues(s, pc), UNCHANGED <<request, rows>>
       PROVE  /\ session'[s].pc = pc
              /\ \A t \in Sessions \ {s} : session'[t] = session[t]
              /\ \A t \in Sessions : Phone(t)' = Phone(t) /\ Item(t)' = Item(t) /\ WithCode(t)' = WithCode(t)
              /\ \A p : OpenOf(p)' = OpenOf(p)
              /\ \A i : Sellable(i)' <=> Sellable(i)
              /\ Uses' = Uses
  <2>1. /\ session'[s].pc = pc /\ session'[s].order = session[s].order
        /\ \A t \in Sessions \ {s} : session'[t] = session[t]
    BY <1>1, <1>11 DEF Continues, SessionStates
  <2>2. \A t \in Sessions : session'[t].order = session[t].order
    BY <2>1
  <2> QED BY <1>11, <2>1, <2>2 DEF rows, Phone, Item, WithCode, OpenOf, Sellable, Reserved, Uses
<1>12. ASSUME NEW s \in Sessions, PhoneLock(s) PROVE Kept
  <2>1. /\ Continues(s, "items") /\ UNCHANGED <<request, rows>>
        /\ PhoneFree(Phone(s)) /\ Cardinality(OpenOf(Phone(s))) < OpenLimit
    BY <1>12 DEF PhoneLock, Phone
  <2>2. PlaceLocks'
    BY <1>11, <2>1 DEF PlaceInv, PlaceLocks, PhoneFree, Phone
  <2>3. Room(s)'
    BY <1>11, <2>1 DEF Room
  <2> QED BY <1>10, <2>1, <2>2, <2>3 DEF Locked
<1>13. ASSUME NEW s \in Sessions, ItemLock(s) PROVE Kept
  <2>1. PICK pc \in {"code", "insert"} : /\ Continues(s, pc) /\ UNCHANGED <<request, rows>>
                                         /\ pc = "insert" => ~ WithCode(s)
                                         /\ session[s].pc = "items" /\ ItemFree(Item(s)) /\ Sellable(Item(s))
    BY <1>13 DEF ItemLock, Item, WithCode
  <2>2. PlaceLocks'
    BY <1>11, <2>1 DEF PlaceInv, PlaceLocks, ItemFree, Item
  <2>3. Room(s)'
    BY <1>11, <2>1 DEF PlaceInv, Room
  <2> QED BY <1>10, <2>1, <2>2, <2>3 DEF Locked
<1>14. ASSUME NEW s \in Sessions, CodeLock(s) PROVE Kept
  <2>1. /\ Continues(s, "insert") /\ UNCHANGED <<request, rows>>
        /\ session[s].pc = "code" /\ CodeFree /\ Cardinality(Uses) < UsageLimit
    BY <1>14 DEF CodeLock
  <2>2. PlaceLocks'
    BY <1>11, <2>1 DEF PlaceInv, PlaceLocks, CodeFree, WithCode
  <2>3. Room(s)'
    BY <1>11, <2>1 DEF PlaceInv, Room
  <2> QED BY <1>10, <2>1, <2>2, <2>3 DEF Locked
<1> HIDE DEF Kept
<1>15. ASSUME NEW o \in Orders, NEW status, Moved(o, status), status \in Open => order[o].status \in Open
       PROVE  \A p \in Orders : order'[p].status \in Open => order[p].status \in Open
  BY <1>1, <1>15 DEF Moved, OrderRows
<1>16. ASSUME NEW s \in Sessions, Receipt(s) PROVE Kept
  BY <1>1, <1>2, <1>3, <1>5, <1>15, <1>16 DEF Receipt, Submitted, Open
<1>17. ASSUME NEW s \in Sessions, ConfirmCommit(s) \/ ApproveCommit(s) PROVE Kept
  BY <1>1, <1>2, <1>5, <1>15, <1>17, FinalizeKeepsItems DEF ConfirmCommit, ApproveCommit, Open
<1>18. ASSUME NEW s \in Sessions, Reject(s) PROVE Kept
  <2>1. \A p \in Orders : order'[p].status \in Open => order[p].status \in Open
    BY <1>1, <1>18 DEF Reject
  <2> QED BY <1>2, <1>3, <1>5, <1>18, <2>1 DEF Reject
<1>19. ASSUME NEW s \in Sessions, Fulfil(s) PROVE Kept
  BY <1>1, <1>2, <1>3, <1>5, <1>15, <1>19 DEF Fulfil, Open
<1>20. ASSUME NEW o \in Orders, NEW reason, Closed(o, reason),
              \A t \in Sessions : session'[t] = session[t] \/ session'[t].pc \notin Locked
       PROVE  Kept
  <2>1. \A p \in Orders : order'[p].status \in Open => order[p].status \in Open
    BY <1>1, <1>20 DEF Closed, Open, OrderRows
  <2>2. \A p \in Orders : use'[p] = "live" => use[p] = "live"
    BY <1>1, <1>20 DEF Closed, Released
  <2>3. ItemsKept
    BY <1>20, VoidKeepsItems DEF Closed
  <2> QED BY <1>2, <1>20, <2>1, <2>2, <2>3 DEF Closed
<1>21. ASSUME NEW s \in Sessions, CancelCommit(s) PROVE Kept
  BY <1>1, <1>5, <1>20, <1>21 DEF CancelCommit
<1>22. ASSUME NEW w \in Sweepers, SweepCommit(w) PROVE Kept
  <2>1. sweeper[w].list \in Seq(Orders) /\ sweeper[w].list # << >>
    BY <1>22 DEF DecisionInv, SweepsDue, TypeOK, SweeperStates, SweepCommit
  <2>2. Head(sweeper[w].list) \in Orders
    BY <2>1, HeadTailProperties
  <2> QED BY <1>20, <1>22, <2>2 DEF SweepCommit
<1>23. ASSUME NEW w \in Sweepers, SweepList(w) \/ SweepLock(w) \/ SweepSkip(w) \/ SweepFails(w) PROVE Kept
  BY <1>4, <1>23 DEF SweepList, SweepLock, SweepSkip, SweepFails
<1>24. ASSUME NEW o \in Orders, ErpFinalize(o) PROVE Kept
  BY <1>2, <1>24, FinalizeKeepsItems DEF ErpFinalize
<1>25. ASSUME NEW o \in Orders, ErpVoid(o) PROVE Kept
  BY <1>2, <1>25, VoidKeepsItems DEF ErpVoid
<1>26. ASSUME Tick PROVE Kept
  <2>1. \A p \in Orders : order'[p].status = order[p].status
    BY <1>1, <1>26 DEF Tick, OrderRows
  <2> QED BY <1>2, <1>3, <1>26, <2>1 DEF Tick

<1>27. ASSUME NEW s \in Sessions, Insert(s) PROVE Kept
  <2>0. PICK x \in Orders, p \in Phones, i \in Items :
          x = session[s].order /\ p = request[x].phone /\ i = request[x].item
    BY <1>1
  <2>1. /\ session[s].pc = "insert" /\ order[x].status = "none" /\ Ends(s)
        /\ order'[x].status \in Open /\ doc'[x] = "proforma"
        /\ use'[x] = (IF request[x].withCode THEN "live" ELSE "none")
        /\ request' = request /\ stock' = stock
        /\ \A o \in Orders \ {x} : order'[o] = order[o] /\ doc'[o] = doc[o] /\ use'[o] = use[o]
    BY <1>1, <1>27, <2>0 DEF Insert, Open
  <2>2. use[x] = "none" /\ doc[x] = "none"
    BY <2>1 DEF RowInv, RowsFit
  <2>3. Phone(s) = p /\ Item(s) = i /\ WithCode(s) = request[x].withCode /\ p \in Phones /\ i \in Items
    BY <2>0 DEF Phone, Item, WithCode
  <2>4. OpenOf(p)' = OpenOf(p) \cup {x} /\ \A q \in Phones \ {p} : OpenOf(q)' = OpenOf(q)
    BY <2>0, <2>1 DEF OpenOf
  <2>5. Reserved(i)' = Reserved(i) \cup {x} /\ \A j \in Items \ {i} : Reserved(j)' = Reserved(j)
    BY <2>0, <2>1 DEF Reserved
  <2>6. Uses' = IF request[x].withCode THEN Uses \cup {x} ELSE Uses
    BY <2>1, <2>2 DEF Uses
  <2>7. /\ Cardinality(OpenOf(p)) < OpenLimit /\ Sellable(i)
        /\ request[x].withCode => Cardinality(Uses) < UsageLimit
    BY <2>1, <2>3 DEF PlaceInv, Room
  <2>8. /\ Cardinality(OpenOf(p)) \in Nat /\ Cardinality(OpenOf(p)') \in Nat /\ Cardinality(OpenOf(p)') =< Cardinality(OpenOf(p)) + 1
        /\ Cardinality(Reserved(i)) \in Nat /\ Cardinality(Reserved(i)') \in Nat
        /\ Cardinality(Reserved(i)') =< Cardinality(Reserved(i)) + 1
        /\ Cardinality(Uses) \in Nat /\ Cardinality(Uses') \in Nat /\ Cardinality(Uses \cup {x}) =< Cardinality(Uses) + 1
    <3>1. OpenOf(p) \in SUBSET Orders /\ Reserved(i) \in SUBSET Orders /\ Uses \in SUBSET Orders
      BY DEF OpenOf, Reserved, Uses
    <3>2. OpenOf(p)' \in SUBSET Orders /\ Reserved(i)' \in SUBSET Orders /\ Uses' \in SUBSET Orders
      BY <2>4, <2>5, <2>6, <3>1
    <3> QED BY <2>4, <2>5, <3>1, <3>2, Counts
  <2>9. ReservedWithinStock'
    <3>1. Cardinality(Reserved(i)') =< stock'[i]
      BY <1>1, <2>1, <2>7, <2>8 DEF Sellable
    <3> QED BY <2>1, <2>5, <3>1 DEF ReservedWithinStock
  <2>10. LimitsHold'
    <3>1. \A o \in Orders : use'[o] = "released" <=> order'[o].status = "cancelled" /\ request'[o].withCode
      BY DEF RowInv, RowsFit
    <3>2. \A q \in Phones : Cardinality(OpenOf(q)') =< OpenLimit
      <4>1. Cardinality(OpenOf(p)') =< OpenLimit
        BY <2>7, <2>8 DEF SiteOrdersAssumption
      <4>2. \A q \in Phones \ {p} : Cardinality(OpenOf(q)') =< OpenLimit
        BY <2>4 DEF LimitsHold
      <4> QED BY <4>1, <4>2
    <3>3. Cardinality(Uses') =< UsageLimit
      BY <2>6, <2>7, <2>8 DEF LimitsHold, SiteOrdersAssumption
    <3> QED BY <3>1, <3>2, <3>3 DEF LimitsHold
  <2>11. \A t \in Sessions : session'[t] = session[t] \/ session'[t].pc \notin Locked
    BY <1>5, <2>1
  <2>12. PlaceLocks'
    BY <2>1, <2>11 DEF PlaceInv, PlaceLocks, Phone, Item, WithCode, Locked
  <2>13. ASSUME NEW t \in Sessions, session'[t].pc \in Locked PROVE Room(t)'
    <3>1. session'[t] = session[t] /\ t # s
      BY <1>1, <2>1, <2>11, <2>13, StartType DEF Ends, Locked
    <3>2. Phone(t)' = Phone(t) /\ Item(t)' = Item(t) /\ WithCode(t)' = WithCode(t) /\ Phone(t) \in Phones /\ Item(t) \in Items
      BY <1>1, <2>1, <3>1 DEF Phone, Item, WithCode
    <3>3. /\ Phone(t) # p
          /\ session[t].pc \in {"code", "insert"} => Item(t) # i
          /\ session[t].pc = "insert" /\ WithCode(t) => ~ request[x].withCode
      BY <2>1, <2>3, <2>13, <3>1 DEF PlaceInv, PlaceLocks, Locked
    <3>4. OpenOf(Phone(t))' = OpenOf(Phone(t))
      BY <2>0, <2>1, <3>1, <3>2, <3>3 DEF OpenOf
    <3>5. session[t].pc \in {"code", "insert"} => Reserved(Item(t))' = Reserved(Item(t)) /\ stock'[Item(t)] = stock[Item(t)]
      BY <2>0, <2>1, <3>1, <3>2, <3>3 DEF Reserved
    <3>6. session[t].pc = "insert" /\ WithCode(t) => Uses' = Uses
      BY <2>6, <3>3
    <3> QED BY <3>1, <3>2, <3>4, <3>5, <3>6 DEF PlaceInv, Room, Sellable
  <2>14. \A t \in Sessions : Room(t)'
    BY <2>13 DEF Room, Locked
  <2> QED BY <2>9, <2>10, <2>12, <2>14 DEF Kept, PlaceInv
<1>28. Kept
  BY <1>7, <1>8, <1>9, <1>12, <1>13, <1>14, <1>16, <1>17, <1>18, <1>19, <1>21, <1>22, <1>23, <1>24, <1>25, <1>26, <1>27
  DEF Next, SessionStep, SweepStep
<1> QED BY <1>28 DEF Kept

-----------------------------------------------------------------------------
(* Theorems. *)

LEMMA InitHolds == ASSUME SiteOrdersAssumption, Init PROVE IInv
<1>1. Idle \in SessionStates /\ Idle.pc = "idle"
  BY StartType
<1>2. /\ request \in Requests
      /\ \A o \in Orders : /\ order[o] = NoOrder /\ receipts[o] = << >> /\ use[o] = "none" /\ doc[o] = "none" /\ paid[o] = 0
      /\ \A i \in Items : stock[i] \in Nat
      /\ \A s \in Sessions : session[s] = Idle
      /\ \A w \in Sweepers : sweeper[w].pc = "idle"
  BY DEF Init, SiteOrdersAssumption
<1>3. TypeOK
  <2>1. NoOrder \in OrderRows
    BY DEF NoOrder, OrderRows, Status, SiteOrdersAssumption
  <2>2. [pc |-> "idle", list |-> << >>] \in SweeperStates
    BY EmptySeq DEF SweeperStates
  <2>3. << >> \in Seq({"pending", "accepted", "rejected"}) /\ << >> \in Seq(Orders)
    BY EmptySeq
  <2>4. stock \in [Items -> Nat]
    BY DEF Init, SiteOrdersAssumption
  <2>5. order \in [Orders -> OrderRows] /\ session \in [Sessions -> SessionStates] /\ sweeper \in [Sweepers -> SweeperStates]
    BY <1>1, <2>1, <2>2 DEF Init
  <2>6. receipts \in [Orders -> Seq({"pending", "accepted", "rejected"})] /\ deadlines \in Seq(Orders)
    BY <2>3 DEF Init
  <2> QED BY <2>4, <2>5, <2>6 DEF Init, TypeOK
<1>4. DecisionInv
  BY <1>1, <1>2 DEF DecisionInv, OrderLocks, Knows, SweepsDue, Deciding
<1>5. RowInv
  BY <1>2 DEF RowInv, RowsFit, NoOrder
<1>6. MoneyMeansInvoice
  <2>1. \A o \in Orders : Accepted(o) = {} /\ ~ Pending(o)
    BY <1>2 DEF Accepted, Pending
  <2>2. \A o \in Orders : Cardinality(Accepted(o)) = 0
    BY <2>1, FS_EmptySet, Zenon
  <2> QED BY <1>2, <2>1, <2>2 DEF MoneyMeansInvoice, MoneyFits, NoOrder, Paid
<1>7. PlaceInv
  BY <1>1, <1>2 DEF PlaceInv, PlaceLocks, Room
<1>8. ReservedWithinStock /\ LimitsHold
  <2>1. (\A p : OpenOf(p) = {}) /\ Uses = {} /\ \A i : Reserved(i) = {}
    BY <1>2 DEF OpenOf, Uses, Reserved, NoOrder, Open
  <2>2. (\A p : Cardinality(OpenOf(p)) = 0) /\ Cardinality(Uses) = 0 /\ \A i : Cardinality(Reserved(i)) = 0
    BY <2>1, FS_EmptySet, Zenon
  <2>3. ReservedWithinStock
    BY <1>2, <2>2 DEF ReservedWithinStock
  <2>4. \A o \in Orders : use[o] = "released" <=> order[o].status = "cancelled" /\ request[o].withCode
    BY <1>2 DEF NoOrder
  <2> QED BY <2>2, <2>3, <2>4 DEF LimitsHold, SiteOrdersAssumption
<1> QED BY <1>3, <1>4, <1>5, <1>6, <1>7, <1>8 DEF IInv

(* The invariant that the theorems rest on. *)
LEMMA Invariant == Spec => []IInv
<1>1. Init => IInv
  BY SiteOrdersAssumption, InitHolds
<1>2. IInv /\ [Next]_vars => IInv'
  <2> SUFFICES ASSUME IInv, [Next]_vars PROVE IInv'
    OBVIOUS
  <2>1. CASE Next
    <3>1. TypeOK'
      BY <2>1, SiteOrdersAssumption, TypeStep DEF IInv
    <3>2. DecisionInv'
      BY <2>1, <3>1, SiteOrdersAssumption, DecisionStep DEF IInv
    <3>3. RowInv' /\ MoneyMeansInvoice'
      BY <2>1, <3>1, SiteOrdersAssumption, MoneyStep DEF IInv
    <3>4. PlaceInv' /\ ReservedWithinStock' /\ LimitsHold'
      BY <2>1, <3>1, <3>3, SiteOrdersAssumption, PromiseStep DEF IInv
    <3> QED BY <3>1, <3>2, <3>3, <3>4 DEF IInv
  <2>2. CASE UNCHANGED vars
    <3>1. /\ request' = request /\ order' = order /\ receipts' = receipts /\ use' = use /\ doc' = doc /\ paid' = paid
          /\ stock' = stock /\ deadlines' = deadlines /\ session' = session /\ sweeper' = sweeper
      BY <2>2 DEF vars, rows
    <3>2. TypeOK' /\ DecisionInv' /\ PlaceInv'
      BY <3>1 DEF IInv, TypeOK, DecisionInv, OrderLocks, Knows, SweepsDue, Due, PlaceInv, PlaceLocks, Room,
         Phone, Item, WithCode, OpenOf, Sellable, Reserved, Uses
    <3>3. RowInv' /\ MoneyMeansInvoice'
      BY <3>1 DEF IInv, RowInv, RowsFit, MoneyMeansInvoice, MoneyFits, Accepted, Pending
    <3>4. ReservedWithinStock' /\ LimitsHold'
      BY <3>1 DEF IInv, ReservedWithinStock, Reserved, LimitsHold, OpenOf, Uses
    <3> QED BY <3>2, <3>3, <3>4 DEF IInv
  <2> QED BY <2>1, <2>2
<1> QED BY <1>1, <1>2, PTL DEF Spec

(* The rows, requests and screens are of their types (storefrontOrders and *)
(* what placeOrder, receiptFor and the sweep keep of them).                *)
THEOREM TypeCorrect == Spec => []TypeOK
<1>1. IInv => TypeOK
  BY DEF IInv
<1> QED BY <1>1, Invariant, PTL

(* A card order has its accepted receipt, its treasury row and its final   *)
(* invoice together or none of them (confirmPayment, rejectReceipt,        *)
(* cancelOpenOrder, deleteDocument), whatever the ERP does to the invoice. *)
THEOREM MoneyHasItsInvoice == Spec => []MoneyMeansInvoice
<1>1. IInv => MoneyMeansInvoice
  BY DEF IInv
<1> QED BY <1>1, Invariant, PTL

(* The limits of a phone and of a code hold, and every open proforma can   *)
(* be delivered, however requests overlap (placeInTransaction and the      *)
(* locks it takes: phone, items, code).                                    *)
THEOREM PromisesHold == Spec => []PromisesKept
<1>1. IInv => PromisesKept
  BY DEF IInv, PromisesKept
<1> QED BY <1>1, Invariant, PTL

(* A decision of a colleague falls on the state that was on the screen     *)
(* (lockedOrder): the version tells every change.                          *)
THEOREM StaffDecides == Spec => StaffActsOnWhatItSaw
<1> DEFINE Act(s) == LET o == session[s].order IN
             /\ session[s].pc = "screen"
             /\ \/ session'[s].pc \in {"confirm", "approve", "void"}
                \/ session'[s].pc = "idle" /\ order'[o] # order[o]
             => order[o].status = session[s].shown
<1>1. IInv /\ [Next]_vars => [\A s \in Sessions : Act(s)]_vars
  <2> SUFFICES ASSUME IInv, Next, NEW s \in Sessions, session[s].pc = "screen",
                      \/ session'[s].pc \in {"confirm", "approve", "void"}
                      \/ session'[s].pc = "idle" /\ order'[session[s].order] # order[session[s].order]
               PROVE  order[session[s].order].status = session[s].shown
    OBVIOUS
  <2>1. session \in [Sessions -> SessionStates]
    BY DEF IInv, TypeOK
  <2>2. LockedOrder(s) => order[session[s].order].status = session[s].shown
    BY DEF IInv, DecisionInv, Knows, LockedOrder
  <2>3. session'[s] # session[s]
    OBVIOUS
  <2>4. ASSUME NEW t \in Sessions, NEW o \in Orders, PlaceBegin(t, o) \/ ReceiptBegin(t, o) \/ Look(t, o) PROVE FALSE
    BY <2>1, <2>3, <2>4 DEF PlaceBegin, ReceiptBegin, Look
  <2>5. ASSUME NEW t \in Sessions, SessionStep(t) PROVE t = s
    BY <2>1, <2>3, <2>5 DEF SessionStep, PhoneLock, ItemLock, CodeLock, Replay, Insert, Receipt, Confirm, ConfirmCommit, Approve,
       ApproveCommit, Reject, Fulfil, Cancel, CancelCommit, RollBack, Ends, Continues
  <2>6. CASE SessionStep(s)
    <3>1. CASE Confirm(s) \/ Approve(s) \/ Reject(s) \/ Fulfil(s) \/ Cancel(s)
      BY <2>2, <3>1 DEF Confirm, Approve, Reject, Fulfil, Cancel
    <3>2. CASE RollBack(s)
      <4>1. session'[s].pc = "idle" /\ order' = order
        BY <2>1, <3>2, SiteOrdersAssumption, StartType DEF RollBack, Ends, rows
      <4> QED BY <4>1
    <3> QED BY <2>6, <3>1, <3>2 DEF SessionStep, PhoneLock, ItemLock, CodeLock, Replay, Insert, Receipt, ConfirmCommit,
               ApproveCommit, CancelCommit
  <2>7. CASE \E w \in Sweepers : SweepStep(w)
    BY <2>3, <2>7 DEF SweepStep, SweepList, SweepLock, SweepSkip, SweepCommit, SweepFails
  <2>8. CASE \E o \in Orders : ErpFinalize(o) \/ ErpVoid(o)
    BY <2>3, <2>8 DEF ErpFinalize, ErpVoid
  <2>9. CASE Tick
    BY <2>3, <2>9 DEF Tick
  <2> QED BY <2>4, <2>5, <2>6, <2>7, <2>8, <2>9 DEF Next
<1> QED BY <1>1, Invariant, PTL DEF Spec, StaffActsOnWhatItSaw

(* What the sweep ends was due, decided again under the order's lock       *)
(* (expireDueOrdersOnce).                                                  *)
THEOREM SweepEndsOnlyDue == Spec => ExpiresOnlyDue
<1>1. IInv /\ [Next]_vars =>
        [\A o \in Orders : order'[o].reason = "expired" /\ order[o].reason # "expired" => Due(o)]_vars
  <2> SUFFICES ASSUME IInv, Next, NEW o \in Orders, order'[o].reason = "expired", order[o].reason # "expired"
               PROVE  Due(o)
    OBVIOUS
  <2>1. order \in [Orders -> OrderRows] /\ \A s \in Sessions : session[s].order \in Orders
    BY DEF IInv, TypeOK, SessionStates
  <2>2. order' # order
    OBVIOUS
  <2>3. ASSUME NEW p \in Orders, NEW status, Moved(p, status) PROVE FALSE
    BY <2>1, <2>3 DEF Moved, OrderRows
  <2>4. ASSUME NEW s \in Sessions, SessionStep(s) PROVE FALSE
    <3>1. ASSUME Insert(s) PROVE FALSE
      BY <2>1, <3>1 DEF Insert
    <3>2. ASSUME Reject(s) PROVE FALSE
      BY <2>1, <3>2 DEF Reject, OrderRows
    <3>3. ASSUME CancelCommit(s) PROVE FALSE
      BY <2>1, <3>3 DEF CancelCommit, Closed, OrderRows
    <3>4. ASSUME Receipt(s) \/ ConfirmCommit(s) \/ ApproveCommit(s) \/ Fulfil(s) PROVE FALSE
      BY <2>1, <2>3, <3>4 DEF Receipt, Submitted, ConfirmCommit, ApproveCommit, Fulfil
    <3> QED BY <2>2, <2>4, <3>1, <3>2, <3>3, <3>4 DEF SessionStep, PhoneLock, ItemLock, CodeLock, Replay, Confirm, Approve, Cancel,
               RollBack, rows
  <2>5. ASSUME NEW w \in Sweepers, SweepCommit(w) PROVE Due(o)
    <3>1. Closed(Head(sweeper[w].list), "expired") /\ Due(Head(sweeper[w].list))
      BY <2>5 DEF SweepCommit, IInv, DecisionInv, SweepsDue
    <3>2. o = Head(sweeper[w].list)
      BY <2>1, <3>1 DEF Closed
    <3> QED BY <3>1, <3>2
  <2>6. ASSUME Tick PROVE FALSE
    <3>1. order'[o].reason = order[o].reason
      BY <2>1, <2>6 DEF Tick, OrderRows
    <3> QED BY <3>1
  <2> QED BY <2>2, <2>4, <2>5, <2>6 DEF Next, PlaceBegin, ReceiptBegin, Look, SweepStep, SweepList, SweepLock, SweepSkip, SweepFails,
             ErpFinalize, ErpVoid, rows
<1> QED BY <1>1, Invariant, PTL DEF Spec, ExpiresOnlyDue
=============================================================================
