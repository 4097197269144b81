------------------------------ MODULE Workflow ------------------------------
(* One sales document and the approval workflow it entered when it was       *)
(* recorded: src/src/services/workflow (transition executor, quorum,         *)
(* delegation, termination) with the document side of                       *)
(* src/src/services/documents (workflow action, review lock, direct          *)
(* finalize, void, edit).                                                    *)
(*                                                                           *)
(* A session is one database transaction. The instance row and the document  *)
(* (with the rows of its items) are the two things locked. A transaction     *)
(* that needs one of them only is one step, taken when that lock is free;    *)
(* one that needs both, or reads the instance without a lock, keeps what it  *)
(* read in tx[s]. Writes are seen at the commit.                             *)
EXTENDS Naturals, FiniteSets

CONSTANTS Users, Admins,      \* people, and those who may sign every step
          InitialHolders,     \* who holds the role of the guarded steps at first
          Designs,            \* approval designs: sets of transitions
          Sessions,
          Nobody,
          MaxVisits,          \* bound: steps entered
          MaxEdits,           \* bound: edits of the document
          MaxChanges          \* bound: changes of roles and delegations

ASSUME NobodyAssumption == Nobody \notin Users
ASSUME StaffAssumption == IsFiniteSet(Users) /\ Admins \subseteq Users /\ InitialHolders \subseteq Users
ASSUME BoundsAssumption == MaxVisits \in Nat /\ MaxEdits \in Nat /\ MaxChanges \in Nat

Steps == {"draft", "warehouse_review", "accounting_review", "approved", "rejected"}
Rules == {"SINGLE", "K_OF_N", "AND_ALL"}
Transitions == [from : Steps, to : Steps, rule : Rules, k : Nat, guarded : BOOLEAN, negative : BOOLEAN]
ASSUME DesignAssumption == Designs \subseteq SUBSET Transitions

(* No transition takes a rejected document straight back to its reviewers:  *)
(* the one way out of a rejection in the seeded design is draft. Not assumed *)
(* of every design, since a designer may draw another.                      *)
RejectedGoesToDraft ==
    \A d \in Designs : \A t \in d :
        t.from = "rejected" => t.to \notin {"warehouse_review", "accounting_review"}

VARIABLES design,     \* snapshotDsl of the instance
          step,       \* currentStateId
          status,     \* status of the instance
          progress,   \* approvalProgressJson: signatures of each transition
          pending,    \* workflow_tasks still pending: transition and visit
          doc,        \* the document: status, edits, sent back by a rejection
          holders,    \* users of the role
          deputy,     \* workflow_delegations in force: delegator to deputy
          tx,         \* transactions that are open
          visit,      \* history: steps entered so far
          passed,     \* history: the last transition that fired
          changes     \* bound: role and delegation changes so far

workflow == <<step, status, progress, pending, visit, passed>>
staff == <<holders, deputy, changes>>
vars == <<design, workflow, doc, staff, tx>>

Signatures == [name : Users, actor : Users, visit : 0..MaxVisits]
Statuses == {"IN_PROGRESS", "REJECTED", "COMPLETED", "TERMINATED"}
DocumentStatus == {"draft", "proforma", "final", "void"}
Idle == [op |-> "idle"]
Ops == {"idle", "void", "edit", "edit_checked", "finalize"}
Transactions == [op : Ops]
    \cup [op : {"transition"}, t : Transitions, signatures : SUBSET Signatures, members : SUBSET Users]
NothingPassed == [t |-> Nobody, signatures |-> {}, members |-> {}, visit |-> 0]

-----------------------------------------------------------------------------
(* The design and who may sign.                                             *)

Leaving(st) == {t \in design : t.from = st}

(* One card per forward transition; its form offers the rejections too.     *)
Cards(st) ==
    IF \E t \in Leaving(st) : ~t.negative THEN {t \in Leaving(st) : ~t.negative} ELSE Leaving(st)

TasksOf(st, v) == {<<t, v>> : t \in Cards(st)}

(* The mistake of storing the outcome for the status.                       *)
OutcomeAt(st) == CASE st = "rejected" -> "REJECTED" [] st = "approved" -> "APPROVED" [] OTHER -> "IN_PROGRESS"

StatusAt(st) ==
    CASE st = "rejected" -> "REJECTED"
      [] st = "approved" -> "COMPLETED"
      [] OTHER -> "IN_PROGRESS"

Continues == status \in {"IN_PROGRESS", "REJECTED"}

(* In whose name u signs t: their own, or that of somebody who may sign and *)
(* whose deputy they are.                                                   *)
MaySign(u, t) == ~t.guarded \/ u \in Admins \/ u \in holders
SignsAs(u, t) == IF MaySign(u, t) THEN {u} ELSE {v \in Users : deputy[v] = u /\ MaySign(v, t)}

-----------------------------------------------------------------------------
(* Quorum.                                                                  *)

(* The active users of the role an AND_ALL transition asks.                 *)
Members(t) == IF t.rule = "AND_ALL" /\ t.guarded THEN holders ELSE {}

Required(t, members) ==
    CASE t.rule = "SINGLE" -> 1
      [] t.rule = "AND_ALL" /\ members # {} -> Cardinality(members)
      [] OTHER -> IF t.k > 0 THEN t.k ELSE IF t.rule = "K_OF_N" THEN 2 ELSE 1

Counted(signatures, members) ==
    IF members # {} THEN Cardinality({m \in members : \E s \in signatures : s.name = m})
    ELSE Cardinality(signatures)

QuorumMet(t, signatures, members) == Counted(signatures, members) >= Required(t, members)

(* The mistake of comparing names only: one deputy signs for several people.*)
AlreadySignedByName(signatures, name, actor) == \E s \in signatures : s.name = name

(* Neither the person named nor the person signing signs a second time.     *)
AlreadySigned(signatures, name, actor) ==
    \E s \in signatures : s.name \in {name, actor} \/ s.actor = actor

Signing(u, t, name) == progress[t] \cup {[name |-> name, actor |-> u, visit |-> visit]}

-----------------------------------------------------------------------------
(* Locks: a transition that runs a document action holds the instance while *)
(* it waits for the document; a void the reverse.                           *)

InstanceFree == \A s \in Sessions : tx[s].op # "transition"
DocumentFree == \A s \in Sessions : tx[s].op \notin {"void", "edit", "edit_checked"}

TypeOK ==
    /\ design \in Designs
    /\ step \in Steps
    /\ status \in Statuses
    /\ progress \in [design -> SUBSET Signatures]
    /\ pending \subseteq design \X (0..MaxVisits)
    /\ doc \in [status : DocumentStatus, edits : 0..MaxEdits, returned : BOOLEAN]
    /\ holders \subseteq Users
    /\ deputy \in [Users -> Users \cup {Nobody}]
    /\ tx \in [Sessions -> Transactions]
    /\ visit \in 0..MaxVisits
    /\ passed.t \in design \cup {Nobody}
    /\ changes \in 0..MaxChanges

(* The document is recorded and its workflow started in one transaction.    *)
Init ==
    /\ design \in Designs
    /\ step = "draft"
    /\ status = "IN_PROGRESS"
    /\ progress = [t \in design |-> {}]
    /\ pending = TasksOf("draft", 0)
    /\ \E st \in {"draft", "proforma"} : doc = [status |-> st, edits |-> 0, returned |-> FALSE]
    /\ holders = InitialHolders
    /\ deputy = [u \in Users |-> Nobody]
    /\ tx = [s \in Sessions |-> Idle]
    /\ visit = 0
    /\ passed = NothingPassed
    /\ changes = 0

-----------------------------------------------------------------------------
(* Transitions. One person signs; when that completes the quorum, the step  *)
(* is left and the document's own action runs in the same transaction.      *)

MaySignNow(u, t, name) ==
    /\ Continues
    /\ t \in Leaving(step)
    /\ InstanceFree
    /\ name \in SignsAs(u, t)
    /\ ~AlreadySigned(progress[t], name, u)

Sign(u, t, name) ==
    /\ MaySignNow(u, t, name)
    /\ ~QuorumMet(t, Signing(u, t, name), Members(t))
    /\ progress' = [progress EXCEPT ![t] = Signing(u, t, name)]
    /\ UNCHANGED <<design, step, status, pending, visit, passed, doc, staff, tx>>

(* Signatures of the transitions of the step entered start anew.            *)
KeptProgress(t, signatures) ==
    [o \in design |-> IF o.from = t.to THEN {} ELSE IF o = t THEN signatures ELSE progress[o]]

Advance(t, signatures, members) ==
    /\ step' = t.to
    /\ status' = StatusAt(t.to)
    /\ progress' = KeptProgress(t, signatures)
    /\ visit' = visit + 1
    /\ pending' = IF StatusAt(t.to) = "IN_PROGRESS" THEN TasksOf(t.to, visit') ELSE {}
    /\ passed' = [t |-> t, signatures |-> signatures, members |-> members, visit |-> visit]

(* The mistake of locking the document at the ends of the workflow only.    *)
NeedsDocumentAtTheEnd(t) == t.to \in {"rejected", "approved"}

(* A rejection, an approval and a submission lock the document.             *)
NeedsDocument(t) == t.to \in {"rejected", "approved"} \/ t.from = "draft"

Completes(u, t, name) ==
    /\ visit < MaxVisits
    /\ MaySignNow(u, t, name)
    /\ QuorumMet(t, Signing(u, t, name), Members(t))

MoveWithoutDocument(u, t, name) ==
    /\ Completes(u, t, name)
    /\ ~NeedsDocument(t)
    /\ Advance(t, Signing(u, t, name), Members(t))
    /\ UNCHANGED <<design, doc, staff, tx>>

TakeStep(s, u, t, name) ==
    /\ tx[s] = Idle
    /\ Completes(u, t, name)
    /\ NeedsDocument(t)
    /\ tx' = [tx EXCEPT ![s] = [op |-> "transition", t |-> t,
                               signatures |-> Signing(u, t, name), members |-> Members(t)]]
    /\ UNCHANGED <<design, workflow, doc, staff>>

Rejected ==
    IF doc.status = "proforma" THEN [doc EXCEPT !.status = "draft", !.returned = TRUE] ELSE doc

Resent ==
    IF doc.status = "draft" /\ doc.returned THEN [doc EXCEPT !.status = "proforma"] ELSE doc

Approved == [doc EXCEPT !.status = "final"]

(* Approving a document that was voided is refused (RollBack); rejecting or *)
(* submitting one changes the workflow only.                                *)
RunAction(s) ==
    /\ tx[s].op = "transition"
    /\ doc.status # "void" => DocumentFree
    /\ LET t == tx[s].t IN
       /\ t.to = "approved" => doc.status # "void"
       /\ Advance(t, tx[s].signatures, tx[s].members)
       /\ doc' = CASE t.to = "rejected" -> Rejected
                   [] t.to = "approved" -> Approved
                   [] OTHER -> Resent
    /\ tx' = [tx EXCEPT ![s] = Idle]
    /\ UNCHANGED <<design, staff>>

(* A refusal after the locks (stock, sellable gate, voided document), or    *)
(* the transaction PostgreSQL chose to end a deadlock.                      *)
RollBack(s) ==
    /\ tx[s] # Idle
    /\ tx' = [tx EXCEPT ![s] = Idle]
    /\ UNCHANGED <<design, workflow, doc, staff>>

-----------------------------------------------------------------------------
(* The document's own operations.                                           *)

Open == doc.status \in {"draft", "proforma"}

Begin(s, op) ==
    /\ tx[s] = Idle
    /\ tx' = [tx EXCEPT ![s] = [op |-> op]]
    /\ UNCHANGED <<design, workflow, doc, staff>>

Terminated ==
    /\ status' = "TERMINATED"
    /\ pending' = {}
    /\ UNCHANGED <<step, progress, visit, passed>>

VoidLock(s) ==
    /\ doc.status # "void"
    /\ DocumentFree
    /\ Begin(s, "void")

(* A running workflow is closed with the document; its row is locked last.  *)
VoidCommit(s) ==
    /\ tx[s].op = "void"
    /\ IF status = "IN_PROGRESS" THEN InstanceFree /\ Terminated ELSE UNCHANGED workflow
    /\ doc' = [doc EXCEPT !.status = "void"]
    /\ tx' = [tx EXCEPT ![s] = Idle]
    /\ UNCHANGED <<design, staff>>

EditLock(s) ==
    /\ Open
    /\ doc.edits < MaxEdits
    /\ DocumentFree
    /\ Begin(s, "edit")

(* assertDocumentNotInReview, reading the instance without a lock.          *)
InReview == status = "IN_PROGRESS" /\ step # "draft"

EditRead(s) ==
    /\ tx[s].op = "edit"
    /\ ~InReview
    /\ tx' = [tx EXCEPT ![s].op = "edit_checked"]
    /\ UNCHANGED <<design, workflow, doc, staff>>

EditCommit(s) ==
    /\ tx[s].op = "edit_checked"
    /\ \E st \in {"draft", "proforma"} :
          doc' = [doc EXCEPT !.status = st, !.edits = doc.edits + 1]
    /\ tx' = [tx EXCEPT ![s] = Idle]
    /\ UNCHANGED <<design, workflow, staff>>

(* The mistake of looking at running workflows only.                        *)
InARunningWorkflow == status = "IN_PROGRESS"

(* assertDocumentWorkflowClosed, also without a lock: a running workflow, or *)
(* a rejected one the design sends again, refuses the direct finalization.  *)
InItsWorkflow == status = "IN_PROGRESS" \/ (status = "REJECTED" /\ Leaving(step) # {})

FinalizeRead(s) ==
    /\ Open
    /\ ~InItsWorkflow
    /\ Begin(s, "finalize")

FinalizeCommit(s) ==
    /\ tx[s].op = "finalize"
    /\ DocumentFree
    /\ doc.status # "void"
    /\ doc' = Approved
    /\ tx' = [tx EXCEPT ![s] = Idle]
    /\ UNCHANGED <<design, workflow, staff>>

-----------------------------------------------------------------------------
(* Administration.                                                          *)

TerminateByAdmin ==
    /\ status = "IN_PROGRESS"
    /\ InstanceFree
    /\ Terminated
    /\ UNCHANGED <<design, doc, staff, tx>>

Administer ==
    /\ changes < MaxChanges
    /\ changes' = changes + 1
    /\ UNCHANGED <<design, workflow, doc, tx>>

Join(u) ==
    /\ u \notin holders
    /\ holders' = holders \cup {u}
    /\ UNCHANGED deputy
    /\ Administer

Leave(u) ==
    /\ u \in holders
    /\ holders' = holders \ {u}
    /\ UNCHANGED deputy
    /\ Administer

(* One delegator has one deputy at a time.                                  *)
Delegate(u, v) ==
    /\ u # v
    /\ deputy[u] = Nobody
    /\ deputy' = [deputy EXCEPT ![u] = v]
    /\ UNCHANGED holders
    /\ Administer

(* Revoked, or past its last day.                                           *)
Revoke(u) ==
    /\ deputy[u] # Nobody
    /\ deputy' = [deputy EXCEPT ![u] = Nobody]
    /\ UNCHANGED holders
    /\ Administer

Signer(u) ==
    \E t \in design, name \in Users :
        \/ Sign(u, t, name)
        \/ MoveWithoutDocument(u, t, name)
        \/ \E s \in Sessions : TakeStep(s, u, t, name)

Session(s) ==
    \/ RunAction(s)
    \/ RollBack(s)
    \/ VoidLock(s)
    \/ VoidCommit(s)
    \/ EditLock(s)
    \/ EditRead(s)
    \/ EditCommit(s)
    \/ FinalizeRead(s)
    \/ FinalizeCommit(s)

Staff ==
    \E u \in Users : Join(u) \/ Leave(u) \/ Revoke(u) \/ (\E v \in Users : Delegate(u, v))

Next ==
    \/ \E u \in Users : Signer(u)
    \/ \E s \in Sessions : Session(s)
    \/ TerminateByAdmin
    \/ Staff

Spec == Init /\ [][Next]_vars

-----------------------------------------------------------------------------
(* Properties.                                                              *)

(* The transition that fired last was carried by as many different people   *)
(* as its rule asks (every member of the role, for AND_ALL), named once and *)
(* acting once each, and all of them signed since the step was last entered: *)
(* no signature of an earlier round and no deputy for several people counts *)
(* (evaluateAndAddSignature, executeTransition).                            *)
QuorumReallyMet ==
    LET signed == passed.signatures
        names == {s.name : s \in signed}
        actors == {s.actor : s \in signed}
    IN passed.t # Nobody =>
         /\ \A s \in signed : s.visit = passed.visit
         /\ Cardinality(names) = Cardinality(signed)
         /\ Cardinality(actors) = Cardinality(signed)
         /\ IF passed.members # {} THEN passed.members \subseteq names
            ELSE Cardinality(signed) >= Required(passed.t, {})

(* What the reviewers approve is what they saw: between the submission and  *)
(* the end of the review no edit of the document takes effect, although the *)
(* edit reads the workflow without locking it (assertDocumentNotInReview).  *)
NoEditInReview ==
    [][doc'.edits # doc.edits => status # "IN_PROGRESS" \/ step = "draft"]_vars

(* The document follows its workflow: an approval that ended left the       *)
(* document final (or voided since), a final document has no workflow that  *)
(* can still move, and the inbox holds the cards of the step the workflow   *)
(* is at, of this visit (executeTransition, assertDocumentWorkflowClosed).  *)
DocumentAndInboxAgree ==
    /\ status = "COMPLETED" => doc.status \in {"final", "void"}
    /\ doc.status = "final" => ~(Continues /\ Leaving(step) # {})
    /\ pending = IF status = "IN_PROGRESS" THEN TasksOf(step, visit) ELSE {}
=============================================================================
