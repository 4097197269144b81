------------------------------ MODULE Vouchers ------------------------------
(***************************************************************************)
(* The journal and its fiscal years: services/accounting/voucher.service,  *)
(* fiscalYear.service (closing), fiscalYearReopen and the period rows that *)
(* keep the two apart (fiscalPeriod.service, fiscalYearOrder).             *)
(*                                                                         *)
(* A session is one database transaction.  It takes its locks one by one   *)
(* (need, held), checks under them, writes and commits; whatever ends it   *)
(* otherwise leaves no trace: RollBack.  A voucher's row is locked before  *)
(* the row of its year, a closing locks its year alone.                    *)
(*                                                                         *)
(* A date is its fiscal year.  A voucher posts to three classes of         *)
(* accounts and sums to zero; the two vouchers that close income and the   *)
(* one that closes the balance sheet are one voucher here.                 *)
(***************************************************************************)
EXTENDS Integers, FiniteSets, Sequences, Functions

CONSTANTS Today,     \* the current fiscal year; the books know the years 1..Today
          Ids,       \* ids vouchers may get
          Users,
          Admins,    \* users the maker rule does not bind
          Sessions,
          Scenes     \* what one behaviour is about: operations, users, years, rows, ids, first voucher

Years == 1..Today
Accounts == {"asset", "income", "equity"}
Operations == {"create", "issue", "edit", "delete", "status", "reverse", "correct", "voidSource", "close", "reopen"}

ASSUME VouchersAssumption ==
    /\ Today \in Nat \ {0, 1}
    /\ Ids \subseteq Nat \ {0} /\ IsFiniteSet(Ids) /\ 1 \in Ids
    /\ Admins \subseteq Users
    /\ Scenes \subseteq [ops : SUBSET Operations, users : SUBSET Users, years : SUBSET Years, rows : SUBSET [Accounts -> Int], ids : SUBSET Ids,
                         first : {"none", "approved", "permanent"}, kind : {"manual", "sourced"}]

VARIABLES
    scene,    \* what the users do (fixed)
    voucher,  \* journal_vouchers with their rows, and who took each out of draft
    closed,   \* fiscal_periods.status: the years that are closed
    late,     \* history: the years whose balances were read while an earlier open year had vouchers
    tx        \* the transaction of each session

data == <<voucher, closed>>
vars == <<scene, late, data, tx>>

NoRows == [a \in Accounts |-> 0]
Nobody == "nobody"
Statuses == {"draft", "approved", "permanent"}

(* run: source_fiscal_year; reverses: the voucher a REV-V reference names. *)
Vouchers == [status : Statuses \cup {"none", "deleted"}, kind : {"manual", "sourced", "closing"}, year : Years,
             rows : [Accounts -> Int], maker : Users \cup {Nobody}, editor : Users \cup {Nobody},
             reviewer : Users \cup {Nobody}, run : 0..Today - 1, reverses : Ids \cup {0}]
Locks == [on : {"sequence", "year", "voucher"}, id : Nat, shared : BOOLEAN]
Transactions == [op : Operations \cup {"none"}, id : Ids \cup {0}, user : Users \cup {Nobody}, year : Years \cup {0},
                 rows : [Accounts -> Int], want : Statuses \cup {""}, opening : BOOLEAN, checked : BOOLEAN,
                 seen : BOOLEAN, balance : [Accounts -> Int], need : Seq(Locks), held : SUBSET Locks]

TypeOK ==
    /\ scene \in Scenes
    /\ voucher \in [Ids -> Vouchers]
    /\ closed \in SUBSET Years
    /\ late \in SUBSET Years
    /\ tx \in [Sessions -> Transactions]

NoVoucher == [status |-> "none", kind |-> "manual", year |-> 1, rows |-> NoRows, maker |-> Nobody, editor |-> Nobody,
              reviewer |-> Nobody, run |-> 0, reverses |-> 0]
Idle == [op |-> "none", id |-> 0, user |-> Nobody, year |-> 0, rows |-> NoRows, want |-> "", opening |-> FALSE,
         checked |-> FALSE, seen |-> FALSE, balance |-> NoRows, need |-> << >>, held |-> {}]

(* Books begin empty or with a voucher of any of the scene's years.        *)
Init ==
    /\ scene \in Scenes
    /\ \E y \in scene.years, rows \in scene.rows :
          voucher = [[v \in Ids |-> NoVoucher] EXCEPT
              ![1] = [@ EXCEPT !.status = scene.first, !.kind = scene.kind, !.year = y, !.rows = rows]]
    /\ closed = {}
    /\ late = {}
    /\ tx = [s \in Sessions |-> Idle]

-----------------------------------------------------------------------------
Live(v) == voucher[v].status \in Statuses
InBooks(v) == voucher[v].status \in {"approved", "permanent"}

(* getTrialBalance: what approved and permanent vouchers up to a year post. *)
Posted(vs) == [a \in Accounts |-> SumFunctionOnSet([v \in Ids |-> voucher[v].rows[a]], vs)]
Balance(y) == Posted({v \in Ids : InBooks(v) /\ voucher[v].year <= y})

findDraftVouchersOfYear(y) == {v \in Ids : voucher[v].status = "draft" /\ voucher[v].year = y}
findEarlierOpenYears(y) == {e \in 1..y - 1 : e \notin closed /\ \E v \in Ids : Live(v) /\ voucher[v].year = e}

IsReversal(v) == voucher[v].reverses # 0
findActiveReversal(v) == {r \in Ids : Live(r) /\ voucher[r].reverses = v}

Manual(v) == voucher[v].kind = "manual"
OpenOrNot(y) == TRUE
assertOpen(y) == y \notin closed

(* assertManualVoucherDate: not before the books' first year, or last year. *)
assertManualVoucherDate(y) == y >= Today - 1 \/ \E v \in Ids : Live(v) /\ voucher[v].year <= y

(* makerApprovalRefusal *)
EditorMayApprove(v, want, user) ==
    ~ (voucher[v].status = "draft" /\ want # "draft" /\ Manual(v) /\ user = voucher[v].maker /\ user \notin Admins)
MayApprove(v, want, user) ==
    ~ /\ voucher[v].status = "draft" /\ want # "draft"
      /\ Manual(v)
      /\ user \in {voucher[v].maker, voucher[v].editor}
      /\ user \notin Admins

-----------------------------------------------------------------------------
(* Locks.  A year is shared by those who write in it. *)
Sequence == [on |-> "sequence", id |-> 0, shared |-> FALSE]
shareYear(y) == [on |-> "year", id |-> y, shared |-> TRUE]
lockYear(y) == [on |-> "year", id |-> y, shared |-> FALSE]
lockVoucher(v) == [on |-> "voucher", id |-> v, shared |-> FALSE]

Conflict(a, b) == a.on = b.on /\ a.id = b.id /\ ~ (a.shared /\ b.shared)
Blockers(s, l) == {p \in Sessions \ {s} : \E h \in tx[p].held : Conflict(h, l)}

Holding(t) == [t EXCEPT !.need = Tail(@), !.held = @ \cup {Head(t.need)}]

(* Nothing is read before the first lock: a transaction begins with it. *)
Begins(s, t) ==
    /\ tx[s].op = "none"
    /\ t.op \in scene.ops
    /\ Blockers(s, Head(t.need)) = {}
    /\ tx' = [tx EXCEPT ![s] = Holding(t)]
    /\ UNCHANGED <<scene, late, data>>

Lock(s) ==
    /\ tx[s].need # << >>
    /\ Blockers(s, Head(tx[s].need)) = {}
    /\ tx' = [tx EXCEPT ![s] = Holding(@)]
    /\ UNCHANGED <<scene, late, data>>

Checking(s, op) == tx[s].op = op /\ ~ tx[s].checked /\ tx[s].need = << >>
Ready(s, op) == tx[s].op = op /\ tx[s].checked /\ tx[s].need = << >>

Passes(s, needs) ==
    /\ tx' = [tx EXCEPT ![s].checked = TRUE, ![s].need = needs]
    /\ UNCHANGED <<scene, late, data>>

Ends(s) == tx' = [tx EXCEPT ![s] = Idle]

RollBack(s) ==
    /\ tx[s].op # "none"
    /\ Ends(s)
    /\ UNCHANGED <<scene, late, data>>

(* Ids come from a sequence: the n-th new voucher of a transaction. *)
Unused == {v \in scene.ids : voucher[v].status = "none"}
NewId(n) == {v \in Unused : Cardinality({u \in Unused : u < v}) = n - 1}

-----------------------------------------------------------------------------
(* createJournalVoucher: a draft from the voucher page (an administrator   *)
(* may approve at once), or the voucher a document, receipt or cheque      *)
(* issues at its own date.                                                 *)

BeginCreate(s, user, y, rows, status) ==
    /\ status = "draft" \/ (status = "approved" /\ user \in Admins)
    /\ Begins(s, [Idle EXCEPT !.op = "create", !.user = user, !.year = y, !.rows = rows, !.want = status,
                  !.checked = TRUE, !.need = <<shareYear(y)>>])

Create(s) ==
    /\ Ready(s, "create")
    /\ assertOpen(tx[s].year)
    /\ assertManualVoucherDate(tx[s].year)
    /\ \E v \in NewId(1) :
          voucher' = [voucher EXCEPT ![v] =
              [NoVoucher EXCEPT !.status = tx[s].want, !.year = tx[s].year, !.rows = tx[s].rows, !.maker = tx[s].user,
                                !.reviewer = IF tx[s].want = "draft" THEN Nobody ELSE tx[s].user]]
    /\ Ends(s)
    /\ UNCHANGED <<scene, late, closed>>

BeginIssue(s, y, rows, status) ==
    /\ status \in {"draft", "approved"}
    /\ Begins(s, [Idle EXCEPT !.op = "issue", !.year = y, !.rows = rows, !.want = status,
                  !.checked = TRUE, !.need = <<shareYear(y)>>])

Issue(s) ==
    /\ Ready(s, "issue")
    /\ assertOpen(tx[s].year)
    /\ \E v \in NewId(1) :
          voucher' = [voucher EXCEPT ![v] = [NoVoucher EXCEPT !.status = tx[s].want, !.kind = "sourced",
                                                              !.year = tx[s].year, !.rows = tx[s].rows]]
    /\ Ends(s)
    /\ UNCHANGED <<scene, late, closed>>

(* updateJournalVoucher: the year checked is the one the draft moves to. *)
BeginEdit(s, user, v, y, rows) ==
    Begins(s, [Idle EXCEPT !.op = "edit", !.id = v, !.user = user, !.year = y, !.rows = rows, !.need = <<lockVoucher(v)>>])

CheckEdit(s) ==
    LET v == tx[s].id IN
    /\ Checking(s, "edit")
    /\ voucher[v].status = "draft"
    /\ Passes(s, <<shareYear(tx[s].year)>>)

Edit(s) ==
    LET v == tx[s].id IN
    /\ Ready(s, "edit")
    /\ assertOpen(tx[s].year)
    /\ Manual(v) => assertManualVoucherDate(tx[s].year)
    /\ voucher' = [voucher EXCEPT ![v].year = tx[s].year, ![v].rows = tx[s].rows,
                                  ![v].editor = IF Manual(v) THEN tx[s].user ELSE Nobody]
    /\ Ends(s)
    /\ UNCHANGED <<scene, late, closed>>

(* deleteJournalVoucher *)
BeginDelete(s, v) ==
    /\ Manual(v)
    /\ Begins(s, [Idle EXCEPT !.op = "delete", !.id = v, !.need = <<lockVoucher(v)>>])

CheckDelete(s) ==
    LET v == tx[s].id IN
    /\ Checking(s, "delete")
    /\ findActiveReversal(v) = {}
    /\ voucher[v].status = "draft"
    /\ Passes(s, <<shareYear(voucher[v].year)>>)

Delete(s) ==
    LET v == tx[s].id IN
    /\ Ready(s, "delete")
    /\ assertOpen(voucher[v].year)
    /\ voucher' = [voucher EXCEPT ![v].status = "deleted"]
    /\ Ends(s)
    /\ UNCHANGED <<scene, late, closed>>

(* applyVoucherStatus, from the page, a batch or a step of a workflow;     *)
(* approving and finalizing are its wants "approved" and "permanent".      *)
BeginStatus(s, user, v, want) ==
    Begins(s, [Idle EXCEPT !.op = "status", !.id = v, !.user = user, !.want = want, !.need = <<lockVoucher(v)>>])

mayReturnToDraft(v) ==
    /\ Manual(v)
    /\ findActiveReversal(v) = {}
    /\ ~ IsReversal(v)

CheckStatus(s) ==
    LET v == tx[s].id
        want == tx[s].want
    IN
    /\ Checking(s, "status")
    /\ Live(v)
    /\ want = "draft" /\ voucher[v].status # "draft" => mayReturnToDraft(v)
    /\ voucher[v].status = "permanent" => want = "permanent"
    /\ MayApprove(v, want, tx[s].user)
    /\ Passes(s, <<shareYear(voucher[v].year)>>)

Status(s) ==
    LET v == tx[s].id IN
    /\ Ready(s, "status")
    /\ assertOpen(voucher[v].year)
    /\ voucher' = [voucher EXCEPT ![v].status = tx[s].want,
                                  ![v].reviewer = IF tx[s].want = "draft" THEN Nobody
                                                  ELSE IF voucher[v].status = "draft" THEN tx[s].user ELSE @]
    /\ Ends(s)
    /\ UNCHANGED <<scene, late, closed>>

-----------------------------------------------------------------------------
(* Reversals.  Nothing leaves the books; its opposite is posted beside it. *)

Negative(rows) == [a \in Accounts |-> 0 - rows[a]]
ReversalOf(v, y, user) ==
    [voucher[v] EXCEPT !.status = "approved", !.year = y, !.rows = Negative(@), !.reverses = v, !.maker = user,
                       !.editor = Nobody, !.reviewer = Nobody]

mayReverse(v) == InBooks(v) /\ findActiveReversal(v) = {}

(* assertVoucherWithoutSource, assertNotYearEndClosing, and no reversal of *)
(* a reversal: facts of a voucher that never change.                       *)
MayTakeBack(v) == Manual(v) /\ ~ IsReversal(v)

(* reverseVoucher from the voucher page *)
BeginReverse(s, user, v, y) ==
    /\ MayTakeBack(v)
    /\ Begins(s, [Idle EXCEPT !.op = "reverse", !.id = v, !.user = user, !.year = y, !.need = <<lockVoucher(v)>>])

CheckReverse(s) ==
    LET v == tx[s].id IN
    /\ Checking(s, "reverse")
    /\ mayReverse(v)
    /\ Passes(s, <<shareYear(tx[s].year)>>)

TakeBack(s) ==
    /\ Ready(s, "reverse")
    /\ assertOpen(tx[s].year)
    /\ assertManualVoucherDate(tx[s].year)
    /\ \E r \in NewId(1) : voucher' = [voucher EXCEPT ![r] = ReversalOf(tx[s].id, tx[s].year, tx[s].user)]
    /\ Ends(s)
    /\ UNCHANGED <<scene, late, closed>>

(* correctVoucher: the reversal, and a draft that replaces the voucher. *)
BeginCorrect(s, user, v, y, rows) ==
    /\ MayTakeBack(v)
    /\ Begins(s, [Idle EXCEPT !.op = "correct", !.id = v, !.user = user, !.year = y, !.rows = rows, !.need = <<lockVoucher(v)>>])

CheckCorrect(s) ==
    LET v == tx[s].id IN
    /\ Checking(s, "correct")
    /\ voucher[v].status = "approved"
    /\ mayReverse(v)
    /\ Passes(s, <<shareYear(tx[s].year)>>)

Correct(s) ==
    LET y == tx[s].year IN
    /\ Ready(s, "correct")
    /\ assertOpen(y)
    /\ assertManualVoucherDate(y)
    /\ \E r \in NewId(1), c \in NewId(2) :
          voucher' = [voucher EXCEPT
              ![r] = ReversalOf(tx[s].id, y, tx[s].user),
              ![c] = [NoVoucher EXCEPT !.status = "draft", !.year = y, !.rows = tx[s].rows, !.maker = tx[s].user]]
    /\ Ends(s)
    /\ UNCHANGED <<scene, late, closed>>

(* voidSourceVoucher, when a document, receipt or cheque is voided: a      *)
(* draft is deleted, a voucher in the books reversed.                      *)
BeginVoidSource(s, v, y) ==
    /\ voucher[v].kind = "sourced" /\ ~ IsReversal(v)
    /\ Begins(s, [Idle EXCEPT !.op = "voidSource", !.id = v, !.year = y, !.need = <<lockVoucher(v)>>])

CheckVoidSource(s) ==
    LET v == tx[s].id IN
    /\ Checking(s, "voidSource")
    /\ voucher[v].status = "draft" \/ mayReverse(v)
    /\ Passes(s, <<shareYear(IF voucher[v].status = "draft" THEN voucher[v].year ELSE tx[s].year)>>)

DeleteSource(s) ==
    LET v == tx[s].id IN
    /\ Ready(s, "voidSource")
    /\ voucher[v].status = "draft"
    /\ assertOpen(voucher[v].year)
    /\ voucher' = [voucher EXCEPT ![v].status = "deleted"]
    /\ Ends(s)
    /\ UNCHANGED <<scene, late, closed>>

ReverseSource(s) ==
    /\ Ready(s, "voidSource")
    /\ voucher[tx[s].id].status # "draft"
    /\ assertOpen(tx[s].year)
    /\ \E r \in NewId(1) : voucher' = [voucher EXCEPT ![r] = ReversalOf(tx[s].id, tx[s].year, Nobody)]
    /\ Ends(s)
    /\ UNCHANGED <<scene, late, closed>>

-----------------------------------------------------------------------------
(* executeFiscalYearClosing: years in order, after their last day.  The    *)
(* year is locked against its writers before its balances are read.        *)

Started(y) == y <= Today
Ended(y) == y < Today

BeginClose(s, y, opening) ==
    /\ Ended(y)
    /\ Begins(s, [Idle EXCEPT !.op = "close", !.year = y, !.opening = opening, !.need = <<Sequence, lockYear(y)>>])

CheckClose(s) ==
    LET y == tx[s].year IN
    /\ Checking(s, "close")
    /\ assertOpen(y)
    /\ findEarlierOpenYears(y) = {}
    /\ Passes(s, << >>)

(* getFiscalYearClosingPreview *)
Preview(s) ==
    LET y == tx[s].year IN
    /\ Ready(s, "close")
    /\ ~ tx[s].seen
    /\ findDraftVouchersOfYear(y) = {}
    /\ tx' = [tx EXCEPT ![s].seen = TRUE, ![s].balance = Balance(y),
                        ![s].need = IF tx[s].opening /\ Balance(y)["asset"] # 0 THEN <<shareYear(y + 1)>> ELSE << >>]
    /\ late' = IF findEarlierOpenYears(y) = {} THEN late \ {y} ELSE late \cup {y}
    /\ UNCHANGED <<scene, data>>

ClosingVoucher(y, balance) ==
    [NoVoucher EXCEPT !.status = "approved", !.kind = "closing", !.year = y, !.rows = Negative(balance), !.run = y]

(* The profit is in the equity carried over. *)
OpeningVoucher(y, balance) ==
    [NoVoucher EXCEPT !.status = "approved", !.kind = "closing", !.year = y + 1, !.run = y,
                      !.rows = [NoRows EXCEPT !["asset"] = balance["asset"], !["equity"] = 0 - balance["asset"]]]

Carries(s) == tx[s].opening /\ tx[s].balance["asset"] # 0

Close(s) ==
    LET y == tx[s].year
        balance == tx[s].balance
    IN
    /\ Ready(s, "close")
    /\ tx[s].seen
    /\ \/ /\ balance = NoRows
          /\ UNCHANGED voucher
       \/ /\ balance # NoRows /\ ~ Carries(s)
          /\ \E c \in NewId(1) : voucher' = [voucher EXCEPT ![c] = ClosingVoucher(y, balance)]
       \/ /\ Carries(s)
          /\ assertOpen(y + 1)
          /\ \E c \in NewId(1), o \in NewId(2) :
                voucher' = [voucher EXCEPT ![c] = ClosingVoucher(y, balance), ![o] = OpeningVoucher(y, balance)]
    /\ closed' = closed \cup {y}
    /\ Ends(s)
    /\ UNCHANGED <<scene, late>>

(* reopenFiscalYear: only the last closed year; its run is reversed, each  *)
(* voucher at its own date, the newest first.                              *)
activeClosingRunVouchers(y) ==
    {v \in Ids : Live(v) /\ voucher[v].run = y /\ ~ IsReversal(v) /\ findActiveReversal(v) = {}}

BeginReopen(s, y) ==
    Begins(s, [Idle EXCEPT !.op = "reopen", !.year = y, !.need = <<Sequence, lockYear(y)>>])

NewestFirst(vs) == [i \in 1..Cardinality(vs) |-> CHOOSE v \in vs : Cardinality({u \in vs : u > v}) = i - 1]

(* Each is locked, and then its year.                                      *)
EachWithItsYear(run) ==
    [i \in 1..2 * Len(run) |-> LET v == run[(i + 1) \div 2] IN
                               IF i % 2 = 1 THEN lockVoucher(v) ELSE shareYear(voucher[v].year)]

CheckReopen(s) ==
    LET y == tx[s].year
        run == NewestFirst(activeClosingRunVouchers(y))
    IN
    /\ Checking(s, "reopen")
    /\ y \in closed
    /\ \A later \in Years : later > y => later \notin closed
    /\ Passes(s, EachWithItsYear(run))

Reopen(s) ==
    LET y == tx[s].year
        run == NewestFirst(activeClosingRunVouchers(y))
        AsReversed(v) == {i \in 1..Len(run) : v \in NewId(i)}
    IN
    /\ Ready(s, "reopen")
    /\ Cardinality(Unused) >= Len(run)
    /\ voucher' = [v \in Ids |-> IF AsReversed(v) = {} THEN voucher[v]
                                 ELSE LET o == run[CHOOSE i \in AsReversed(v) : TRUE] IN
                                      ReversalOf(o, voucher[o].year, Nobody)]
    /\ closed' = closed \ {y}
    /\ Ends(s)
    /\ UNCHANGED <<scene, late>>

-----------------------------------------------------------------------------
Begin(s) ==
    \/ \E u \in scene.users, y \in scene.years, rows \in scene.rows, status \in Statuses : BeginCreate(s, u, y, rows, status)
    \/ \E y \in scene.years, rows \in scene.rows, status \in Statuses : BeginIssue(s, y, rows, status)
    \/ \E v \in {u \in Ids : Live(u)} :
          \/ \E u \in scene.users, y \in scene.years, rows \in scene.rows : BeginEdit(s, u, v, y, rows) \/ BeginCorrect(s, u, v, y, rows)
          \/ BeginDelete(s, v)
          \/ \E u \in scene.users, want \in Statuses : BeginStatus(s, u, v, want)
          \/ \E u \in scene.users, y \in scene.years : BeginReverse(s, u, v, y)
          \/ \E y \in scene.years : BeginVoidSource(s, v, y)
    \/ \E y \in Years, opening \in BOOLEAN : BeginClose(s, y, opening)
    \/ \E y \in Years : BeginReopen(s, y)

Check(s) ==
    \/ CheckEdit(s) \/ CheckDelete(s) \/ CheckStatus(s)
    \/ CheckReverse(s) \/ CheckCorrect(s) \/ CheckVoidSource(s)
    \/ CheckClose(s) \/ Preview(s) \/ CheckReopen(s)

Write(s) ==
    \/ Create(s) \/ Issue(s) \/ Edit(s) \/ Delete(s) \/ Status(s)
    \/ TakeBack(s) \/ Correct(s) \/ DeleteSource(s) \/ ReverseSource(s)
    \/ Close(s) \/ Reopen(s)

Next == \E s \in Sessions : Begin(s) \/ Lock(s) \/ Check(s) \/ Write(s) \/ RollBack(s)

Spec == Init /\ [][Next]_vars

-----------------------------------------------------------------------------
(* A closed year holds no draft and posts nothing: what was entered in it  *)
(* and what its closing took out or another brought in cancel, unless it   *)
(* or a year before it was closed with the balances of an open year        *)
(* (ClosedInOrder).  The closing run of an open year is undone to the last *)
(* row, in this year and the next (executeFiscalYearClosing beside every   *)
(* writer of the year, reopenFiscalYear).                                  *)
PostedIn(y) == Posted({v \in Ids : InBooks(v) /\ voucher[v].year = y})

YearsMatchBooks ==
    \A y \in Years :
        IF y \in closed
        THEN /\ findDraftVouchersOfYear(y) = {}
             /\ late \cap closed \cap 1..y = {} => PostedIn(y) = NoRows
        ELSE Posted({v \in Ids : InBooks(v) /\ voucher[v].run = y}) = NoRows

(* A year is closed only when every earlier year with vouchers is closed   *)
(* (fiscalYearOrder: assertEarlierYearsClosed).                            *)
ClosedInOrder == [][\A y \in closed' \ closed : findEarlierOpenYears(y) = {}]_vars

DatedIn(y) == {<<v, voucher[v]>> : v \in {u \in Ids : Live(u) /\ voucher[u].year = y}}

(* While a year is closed nothing enters it, leaves it or changes in it,   *)
(* whoever began before the closing (assertOpen, lockForClosing).          *)
ClosedYearIsFrozen == [][\A y \in closed \cap closed' : DatedIn(y)' = DatedIn(y)]_vars

(* A voucher is taken back once, stays in the books with what took it      *)
(* back, and the two cancel; and no manual voucher entered the books by    *)
(* the hand of who recorded or last edited it (reverseVoucher and          *)
(* correctVoucher side by side, applyVoucherStatus).                       *)
ReversedOnce ==
    \A v \in Ids : findActiveReversal(v) # {} =>
        /\ InBooks(v)
        /\ Cardinality(findActiveReversal(v)) = 1
        /\ \A r \in findActiveReversal(v) : InBooks(r) /\ voucher[r].rows = Negative(voucher[v].rows)

TwoPeople ==
    \A v \in Ids : InBooks(v) /\ Manual(v) /\ ~ IsReversal(v) =>
        voucher[v].reviewer \notin {voucher[v].maker, voucher[v].editor} \ (Admins \cup {Nobody})

BooksHold == ReversedOnce /\ TwoPeople
=============================================================================
