--------------------------- MODULE WorkflowProofs ---------------------------
(* Proofs about Workflow, for any people, any approval designs and any      *)
(* number of transactions.                                                  *)
EXTENDS Workflow, FiniteSetTheorems, TLAPS

(* What evaluateAndAddSignature keeps true of the signatures it stores:     *)
(* they are of this visit, and nobody is named or acts in two of them.      *)
SignedHere(signatures) ==
    /\ IsFiniteSet(signatures)
    /\ \A a \in signatures : a.visit = visit
    /\ \A a, b \in signatures : a.name = b.name \/ a.actor = b.actor => a = b

(* The workflow has nowhere to go.                                          *)
Ended ==
    /\ status # "IN_PROGRESS"
    /\ status = "REJECTED" => Leaving(step) = {}

(* A transaction that holds the instance: what it saw when it decided that  *)
(* the quorum is met is still so, and no other holds the instance.          *)
MayFire(t, signatures, members) ==
    /\ Continues
    /\ visit < MaxVisits
    /\ t \in Leaving(step)
    /\ SignedHere(signatures)
    /\ QuorumMet(t, signatures, members)
    /\ members # {} => t.rule = "AND_ALL"

InstanceInv ==
    /\ \A s \in Sessions :
          tx[s].op = "transition" => MayFire(tx[s].t, tx[s].signatures, tx[s].members)
    /\ \A s, r \in Sessions : tx[s].op = "transition" /\ tx[r].op = "transition" => s = r

(* A transaction that holds the document, and what an edit may count on.    *)
Holding == {"void", "edit", "edit_checked"}

DocumentInv ==
    /\ \A s, r \in Sessions : tx[s].op \in Holding /\ tx[r].op \in Holding => s = r
    /\ \A s \in Sessions :
          tx[s].op \in {"edit", "edit_checked"} => Open /\ doc.edits < MaxEdits

OutcomeInv ==
    /\ status \in {StatusAt(step), "TERMINATED"}
    /\ doc.status = "final" => Ended
    /\ status = "COMPLETED" => doc.status \in {"final", "void"}
    /\ \A s \in Sessions : tx[s].op = "finalize" => Ended

InboxInv == pending = IF status = "IN_PROGRESS" THEN TasksOf(step, visit) ELSE {}

SignatureInv == \A t \in Leaving(step) : SignedHere(progress[t])

IInv ==
    /\ TypeOK
    /\ InstanceInv
    /\ DocumentInv
    /\ OutcomeInv
    /\ InboxInv
    /\ SignatureInv
    /\ QuorumReallyMet

(* An edit that found no review running commits before one can start.       *)
ReviewInv == \A s \in Sessions : tx[s].op = "edit_checked" => ~InReview

-----------------------------------------------------------------------------
(* The values the steps write.                                              *)

LEMMA StatusType ==
    ASSUME NEW st \in Steps
    PROVE  /\ StatusAt(st) \in Statuses
           /\ StatusAt(st) = "COMPLETED" <=> st = "approved"
           /\ StatusAt(st) = "REJECTED" <=> st = "rejected"
           /\ StatusAt(st) # "TERMINATED"
BY DEF StatusAt, Statuses, Steps

LEMMA IdleType ==
    /\ Idle \in Transactions
    /\ Idle.op = "idle"
BY DEF Idle, Transactions, Ops

LEMMA BegunType ==
    ASSUME NEW op \in {"void", "edit", "finalize"}
    PROVE  [op |-> op] \in Transactions
BY DEF Transactions, Ops

LEMMA MovingType ==
    ASSUME NEW t \in Transitions, NEW signatures \in SUBSET Signatures, NEW members \in SUBSET Users
    PROVE  [op |-> "transition", t |-> t, signatures |-> signatures, members |-> members] \in Transactions
BY DEF Transactions

LEMMA OpenType ==
    ASSUME NEW x \in Transactions, x.op = "transition"
    PROVE  x.t \in Transitions /\ x.signatures \in SUBSET Signatures /\ x.members \in SUBSET Users
BY DEF Transactions, Ops

LEMMA CheckedType ==
    ASSUME NEW x \in Transactions, x.op = "edit"
    PROVE  /\ [x EXCEPT !.op = "edit_checked"] \in Transactions
           /\ [x EXCEPT !.op = "edit_checked"].op = "edit_checked"
BY DEF Transactions, Ops

(* What the actions and the edits leave of a document.                      *)
DocumentRows == [status : DocumentStatus, edits : 0..MaxEdits, returned : BOOLEAN]

LEMMA DocumentType ==
    ASSUME doc \in DocumentRows
    PROVE  /\ \A row \in {Rejected, Resent, Approved, [doc EXCEPT !.status = "void"]} :
                 row \in DocumentRows /\ row.edits = doc.edits
           /\ Approved.status = "final"
           /\ Rejected.status = "final" => doc.status = "final"
           /\ Resent.status = "final" => doc.status = "final"
           /\ doc.status = "void" => Rejected = doc /\ Resent = doc
           /\ [doc EXCEPT !.status = "void"].status = "void"
<1>1. Rejected \in DocumentRows /\ Rejected.edits = doc.edits
      BY DEF DocumentRows, DocumentStatus, Rejected
<1>2. Resent \in DocumentRows /\ Resent.edits = doc.edits
      BY DEF DocumentRows, DocumentStatus, Resent
<1>3. Approved \in DocumentRows /\ Approved.edits = doc.edits
      BY DEF DocumentRows, DocumentStatus, Approved
<1>4. [doc EXCEPT !.status = "void"] \in DocumentRows /\ [doc EXCEPT !.status = "void"].edits = doc.edits
      BY DEF DocumentRows, DocumentStatus
<1>5. \A row \in {Rejected, Resent, Approved, [doc EXCEPT !.status = "void"]} :
                 row \in DocumentRows /\ row.edits = doc.edits
      BY <1>1, <1>2, <1>3, <1>4
<1>6. Approved.status = "final" /\ [doc EXCEPT !.status = "void"].status = "void"
      BY DEF DocumentRows, Approved
<1>7. /\ Rejected.status = "final" => doc.status = "final"
      /\ Resent.status = "final" => doc.status = "final"
      BY DEF DocumentRows, Rejected, Resent
<1>8. doc.status = "void" => Rejected = doc /\ Resent = doc
      BY DEF Rejected, Resent
<1>9. QED
      BY <1>5, <1>6, <1>7, <1>8

LEMMA EditedType ==
    ASSUME doc \in DocumentRows, doc.edits < MaxEdits, NEW st \in {"draft", "proforma"}
    PROVE  [doc EXCEPT !.status = st, !.edits = doc.edits + 1] \in DocumentRows
<1>1. doc.edits + 1 \in 0..MaxEdits
      BY BoundsAssumption DEF DocumentRows
<1>2. QED
      BY <1>1 DEF DocumentRows, DocumentStatus

-----------------------------------------------------------------------------
(* Signatures and quorum.                                                   *)

LEMMA StaffFinite ==
    ASSUME NEW S \in SUBSET Users
    PROVE  IsFiniteSet(S) /\ Cardinality(S) \in Nat
BY StaffAssumption, FS_Subset, FS_CardinalityType

(* As many are named, and as many act, as there are signatures.             *)
LEMMA OneSignatureEach ==
    ASSUME NEW S \in SUBSET Signatures, SignedHere(S)
    PROVE  /\ Cardinality({a.name : a \in S}) = Cardinality(S)
           /\ Cardinality({a.actor : a \in S}) = Cardinality(S)
<1> DEFINE names == {a.name : a \in S}
           actors == {a.actor : a \in S}
           named == [a \in S |-> a.name]
           acting == [a \in S |-> a.actor]
<1>1. IsFiniteSet(S) /\ \A a, b \in S : a.name = b.name \/ a.actor = b.actor => a = b
      BY DEF SignedHere
<1>2. named \in Surjection(S, names) /\ acting \in Surjection(S, actors)
      BY DEF Surjection
<1>3. named \in Injection(S, names) /\ acting \in Injection(S, actors)
      BY <1>1 DEF Injection, IsInjective
<1>4. Cardinality(names) = Cardinality(S)
      BY <1>1, <1>2, <1>3, FS_Surjection
<1>5. Cardinality(actors) = Cardinality(S)
      BY <1>1, <1>2, <1>3, FS_Surjection
<1>6. QED
      BY <1>4, <1>5

LEMMA EmptySigned == SignedHere({})
<1>1. IsFiniteSet({})
      BY FS_EmptySet
<1>2. QED
      BY <1>1 DEF SignedHere

(* A signature that AlreadySigned lets through is a new person on both sides. *)
LEMMA SigningKeeps ==
    ASSUME TypeOK, NEW u \in Users, NEW t \in design, NEW name \in Users,
           SignedHere(progress[t]), ~AlreadySigned(progress[t], name, u)
    PROVE  /\ Signing(u, t, name) \in SUBSET Signatures
           /\ SignedHere(Signing(u, t, name))
<1> DEFINE new == [name |-> name, actor |-> u, visit |-> visit]
<1>1. new \in Signatures /\ progress[t] \in SUBSET Signatures
      BY DEF TypeOK, Signatures
<1>2. Signing(u, t, name) = progress[t] \cup {new}
      BY DEF Signing
<1>3. IsFiniteSet(progress[t] \cup {new})
      BY FS_AddElement DEF SignedHere
<1>4. \A a \in progress[t] : a.name # name /\ a.actor # u
      BY DEF AlreadySigned
<1>5. new.name = name /\ new.actor = u /\ new.visit = visit
      OBVIOUS
<1> HIDE DEF new
<1>6. \A a, b \in progress[t] \cup {new} : a.name = b.name \/ a.actor = b.actor => a = b
      BY <1>4, <1>5 DEF SignedHere
<1>7. QED
      BY <1>1, <1>2, <1>3, <1>5, <1>6 DEF SignedHere

LEMMA MembersType ==
    ASSUME TypeOK, NEW t \in Transitions
    PROVE  /\ Members(t) \in SUBSET Users
           /\ Members(t) # {} => t.rule = "AND_ALL"
BY DEF Members, TypeOK

(* With everybody of the role asked, a met quorum is the whole role.        *)
LEMMA WholeRole ==
    ASSUME NEW t \in Transitions, NEW S \in SUBSET Signatures, NEW M \in SUBSET Users,
           M # {}, t.rule = "AND_ALL", QuorumMet(t, S, M)
    PROVE  M \subseteq {a.name : a \in S}
<1> DEFINE counted == {m \in M : \E a \in S : a.name = m}
<1>1. Cardinality(counted) >= Cardinality(M)
      BY DEF QuorumMet, Counted, Required
<1>2. IsFiniteSet(M) /\ counted \in SUBSET M
      BY StaffFinite
<1>3. Cardinality(counted) <= Cardinality(M) /\ (Cardinality(M) = Cardinality(counted) => M = counted)
      BY <1>2, FS_Subset
<1>4. Cardinality(M) \in Nat /\ Cardinality(counted) \in Nat
      BY <1>2, StaffFinite
<1>5. M = counted
      BY <1>1, <1>3, <1>4
<1>6. QED
      BY <1>5

(* What may fire has met its quorum in the sense of the property.           *)
LEMMA FiringIsCarried ==
    ASSUME NEW t \in Transitions, NEW S \in SUBSET Signatures, NEW M \in SUBSET Users,
           MayFire(t, S, M)
    PROVE  /\ \A a \in S : a.visit = visit
           /\ Cardinality({a.name : a \in S}) = Cardinality(S)
           /\ Cardinality({a.actor : a \in S}) = Cardinality(S)
           /\ IF M # {} THEN M \subseteq {a.name : a \in S}
              ELSE Cardinality(S) >= Required(t, {})
<1>1. SignedHere(S) /\ QuorumMet(t, S, M) /\ (M # {} => t.rule = "AND_ALL")
      BY DEF MayFire
<1>2. \A a \in S : a.visit = visit
      BY <1>1 DEF SignedHere
<1>3. /\ Cardinality({a.name : a \in S}) = Cardinality(S)
      /\ Cardinality({a.actor : a \in S}) = Cardinality(S)
      BY <1>1, OneSignatureEach
<1>4. CASE M # {}
  <2>1. M \subseteq {a.name : a \in S}
        BY <1>1, <1>4, WholeRole
  <2>2. QED
        BY <1>2, <1>3, <1>4, <2>1
<1>5. CASE M = {}
  <2>1. Cardinality(S) >= Required(t, {})
        BY <1>1, <1>5 DEF QuorumMet, Counted
  <2>2. QED
        BY <1>2, <1>3, <1>5, <2>1
<1>6. QED
      BY <1>4, <1>5

-----------------------------------------------------------------------------
(* A step of the workflow: the signatures of the step entered start anew,   *)
(* the inbox holds its cards, and the workflow was not at its end.          *)

LEMMA CanMove ==
    ASSUME NEW t \in Leaving(step), Continues
    PROVE  ~Ended
BY DEF Ended, Continues

LEMMA Advanced ==
    ASSUME TypeOK, NEW t \in Transitions, NEW S \in SUBSET Signatures, NEW M \in SUBSET Users,
           MayFire(t, S, M), Advance(t, S, M), UNCHANGED design
    PROVE  /\ step' \in Steps /\ status' \in Statuses /\ visit' \in 0..MaxVisits
           /\ progress' \in [design -> SUBSET Signatures]
           /\ pending' \subseteq design \X (0..MaxVisits)
           /\ passed'.t \in design
           /\ status' = StatusAt(step')
           /\ InboxInv'
           /\ SignatureInv'
           /\ QuorumReallyMet'
<1>1. t \in design /\ t.from = step /\ visit < MaxVisits /\ t.to \in Steps
      BY DEF MayFire, Leaving, Transitions
<1>2. /\ step' = t.to /\ status' = StatusAt(t.to) /\ visit' = visit + 1
      /\ progress' = KeptProgress(t, S)
      /\ pending' = IF StatusAt(t.to) = "IN_PROGRESS" THEN TasksOf(t.to, visit') ELSE {}
      /\ passed' = [t |-> t, signatures |-> S, members |-> M, visit |-> visit]
      /\ design' = design
      BY DEF Advance
<1>3. visit' \in 0..MaxVisits
      BY <1>1, <1>2, BoundsAssumption DEF TypeOK
<1>4. status' \in Statuses /\ status' = StatusAt(step')
      BY <1>1, <1>2, StatusType
<1>5. progress' \in [design -> SUBSET Signatures]
      BY <1>2 DEF KeptProgress, TypeOK
<1>6. TasksOf(t.to, visit') \subseteq design \X (0..MaxVisits)
      BY <1>3 DEF TasksOf, Cards, Leaving
<1>7. pending' \subseteq design \X (0..MaxVisits)
      BY <1>2, <1>6
<1>8. InboxInv'
  <2>1. (TasksOf(step, visit))' = TasksOf(t.to, visit')
        BY <1>2 DEF TasksOf, Cards, Leaving
  <2>2. QED
        BY <1>2, <2>1 DEF InboxInv
<1>9. SignatureInv'
  <2>1. SUFFICES ASSUME NEW o \in (Leaving(step))'
                 PROVE  (SignedHere(progress[o]))'
        BY DEF SignatureInv
  <2>2. o \in design /\ o.from = t.to
        BY <1>2, <2>1 DEF Leaving
  <2>3. progress'[o] = {}
        BY <1>2, <2>2 DEF KeptProgress
  <2>4. QED
        BY <2>3, EmptySigned DEF SignedHere
<1>10. QuorumReallyMet'
  <2>1. /\ \A a \in S : a.visit = visit
        /\ Cardinality({a.name : a \in S}) = Cardinality(S)
        /\ Cardinality({a.actor : a \in S}) = Cardinality(S)
        /\ IF M # {} THEN M \subseteq {a.name : a \in S}
           ELSE Cardinality(S) >= Required(t, {})
        BY FiringIsCarried
  <2>2. passed'.t = t /\ passed'.signatures = S /\ passed'.members = M /\ passed'.visit = visit
        BY <1>2
  <2>3. QED
        BY <2>1, <2>2 DEF QuorumReallyMet
<1>11. QED
      BY <1>1, <1>2, <1>3, <1>4, <1>5, <1>7, <1>8, <1>9, <1>10

-----------------------------------------------------------------------------
(* What a step leaves alone.                                                *)

LEMMA WorkflowUnmoved ==
    ASSUME InstanceInv, InboxInv, SignatureInv, QuorumReallyMet, UNCHANGED <<design, workflow>>,
           \A r \in Sessions : tx'[r].op = "transition" => tx'[r] = tx[r]
    PROVE  InstanceInv' /\ InboxInv' /\ SignatureInv' /\ QuorumReallyMet' /\ Ended' = Ended
<1> USE DEF workflow
<1>1. InstanceInv'
      BY DEF InstanceInv, MayFire, Continues, Leaving, SignedHere
<1>2. InboxInv'
      BY DEF InboxInv, TasksOf, Cards, Leaving
<1>3. SignatureInv'
      BY DEF SignatureInv, SignedHere, Leaving
<1>4. QuorumReallyMet'
      BY DEF QuorumReallyMet
<1>5. Ended' = Ended
      BY DEF Ended, Leaving
<1>6. QED
      BY <1>1, <1>2, <1>3, <1>4, <1>5

LEMMA InstanceHeldByNone ==
    ASSUME \A r \in Sessions : tx'[r].op # "transition"
    PROVE  InstanceInv'
BY DEF InstanceInv

(* No lock of the document is taken and the document is as it was.          *)
LEMMA DocumentUntouched ==
    ASSUME DocumentInv, UNCHANGED doc,
           \A r \in Sessions :
               /\ tx'[r].op \in Holding => tx[r].op \in Holding
               /\ tx'[r].op \in {"edit", "edit_checked"} => tx[r].op \in {"edit", "edit_checked"}
    PROVE  DocumentInv'
BY DEF DocumentInv, Open

LEMMA DocumentHeldByNone ==
    ASSUME \A r \in Sessions : tx'[r].op \notin Holding
    PROVE  DocumentInv'
BY DEF DocumentInv, Holding

(* Ending a transaction, whatever it was.                                   *)
LEMMA Ends ==
    ASSUME TypeOK, NEW s \in Sessions, tx' = [tx EXCEPT ![s] = Idle]
    PROVE  /\ tx' \in [Sessions -> Transactions]
           /\ \A r \in Sessions : r # s => tx'[r] = tx[r]
           /\ tx'[s].op = "idle"
BY IdleType DEF TypeOK

(* Beginning one.                                                           *)
LEMMA Begins ==
    ASSUME TypeOK, NEW s \in Sessions, NEW op \in {"void", "edit", "finalize"}, Begin(s, op)
    PROVE  /\ tx' \in [Sessions -> Transactions]
           /\ \A r \in Sessions : r # s => tx'[r] = tx[r]
           /\ tx'[s].op = op
           /\ tx[s].op = "idle"
           /\ UNCHANGED <<design, workflow, doc, staff>>
<1>1. tx' = [tx EXCEPT ![s] = [op |-> op]]
      BY DEF Begin
<1>2. [op |-> op] \in Transactions /\ [op |-> op].op = op
      BY BegunType
<1>3. QED
      BY <1>1, <1>2, IdleType DEF Begin, TypeOK

-----------------------------------------------------------------------------
(* Signing and moving.                                                      *)

LEMMA NowType ==
    ASSUME IInv, NEW u \in Users, NEW t \in design, NEW name \in Users, MaySignNow(u, t, name)
    PROVE  /\ t \in Transitions /\ t \in Leaving(step) /\ Continues
           /\ Signing(u, t, name) \in SUBSET Signatures
           /\ SignedHere(Signing(u, t, name))
           /\ Members(t) \in SUBSET Users
           /\ Members(t) # {} => t.rule = "AND_ALL"
           /\ \A r \in Sessions : tx[r].op # "transition"
<1>1. t \in Transitions
      BY DesignAssumption DEF IInv, TypeOK
<1>2. /\ t \in Leaving(step) /\ Continues /\ ~AlreadySigned(progress[t], name, u)
      /\ \A r \in Sessions : tx[r].op # "transition"
      BY DEF MaySignNow, InstanceFree
<1>3. SignedHere(progress[t])
      BY <1>2 DEF IInv, SignatureInv
<1>4. QED
      BY <1>1, <1>2, <1>3, SigningKeeps, MembersType DEF IInv

LEMMA FiresNow ==
    ASSUME IInv, NEW u \in Users, NEW t \in design, NEW name \in Users, Completes(u, t, name)
    PROVE  MayFire(t, Signing(u, t, name), Members(t))
BY NowType DEF Completes, MayFire

LEMMA SignStep ==
    ASSUME IInv, NEW u \in Users, NEW t \in design, NEW name \in Users, Sign(u, t, name)
    PROVE  IInv'
<1>1. MaySignNow(u, t, name)
      BY DEF Sign
<1>2. /\ Signing(u, t, name) \in SUBSET Signatures
      /\ SignedHere(Signing(u, t, name))
      /\ \A r \in Sessions : tx[r].op # "transition"
      BY <1>1, NowType
<1>3. progress' = [progress EXCEPT ![t] = Signing(u, t, name)]
      /\ UNCHANGED <<design, step, status, pending, visit, passed, doc, staff, tx>>
      BY DEF Sign
<1>4. progress \in [design -> SUBSET Signatures]
      BY DEF IInv, TypeOK
<1>5. TypeOK'
      BY <1>2, <1>3, <1>4 DEF IInv, TypeOK, staff
<1>6. InstanceInv'
      BY <1>2, <1>3, InstanceHeldByNone
<1>7. DocumentInv'
      BY <1>3 DEF IInv, DocumentInv, Open
<1>8. OutcomeInv'
      BY <1>3 DEF IInv, OutcomeInv, Ended, Leaving
<1>9. InboxInv'
      BY <1>3 DEF IInv, InboxInv, TasksOf, Cards, Leaving
<1>10. SignatureInv'
  <2>1. SUFFICES ASSUME NEW o \in Leaving(step) PROVE SignedHere(progress'[o])
        BY <1>3 DEF SignatureInv, SignedHere, Leaving
  <2>2. o \in design
        BY DEF Leaving
  <2>3. CASE o = t
        BY <1>2, <1>3, <1>4, <2>3
  <2>4. CASE o # t
        BY <1>3, <1>4, <2>2, <2>4 DEF IInv, SignatureInv
  <2>5. QED
        BY <2>3, <2>4
<1>11. QuorumReallyMet'
      BY <1>3 DEF IInv, QuorumReallyMet
<1>12. QED
      BY <1>5, <1>6, <1>7, <1>8, <1>9, <1>10, <1>11 DEF IInv

LEMMA MoveStep ==
    ASSUME IInv, NEW u \in Users, NEW t \in design, NEW name \in Users,
           MoveWithoutDocument(u, t, name)
    PROVE  IInv'
<1> DEFINE S == Signing(u, t, name)
           M == Members(t)
<1>1. Completes(u, t, name) /\ ~NeedsDocument(t) /\ Advance(t, S, M)
      /\ UNCHANGED <<design, doc, staff, tx>>
      BY DEF MoveWithoutDocument
<1>2. MayFire(t, S, M)
      BY <1>1, FiresNow
<1>3. /\ t \in Transitions /\ S \in SUBSET Signatures /\ M \in SUBSET Users
      /\ t \in Leaving(step) /\ Continues
      /\ \A r \in Sessions : tx[r].op # "transition"
      BY <1>1, NowType DEF Completes
<1> HIDE DEF S, M
<1>4. /\ step' \in Steps /\ status' \in Statuses /\ visit' \in 0..MaxVisits
      /\ progress' \in [design -> SUBSET Signatures]
      /\ pending' \subseteq design \X (0..MaxVisits)
      /\ passed'.t \in design
      /\ status' = StatusAt(step') /\ InboxInv' /\ SignatureInv' /\ QuorumReallyMet'
      BY <1>1, <1>2, <1>3, Advanced DEF IInv
<1>5. TypeOK'
      BY <1>1, <1>4 DEF IInv, TypeOK, staff
<1>6. InstanceInv'
      BY <1>1, <1>3, InstanceHeldByNone
<1>7. DocumentInv'
      BY <1>1 DEF IInv, DocumentInv, Open
<1>8. OutcomeInv'
  <2>1. step' = t.to /\ t.to \in Steps /\ t.to # "approved"
        BY <1>1, <1>3 DEF Advance, NeedsDocument, Transitions
  <2>2. status' # "COMPLETED"
        BY <1>4, <2>1, StatusType
  <2>3. ~Ended
        BY <1>3, CanMove
  <2>4. doc'.status # "final" /\ \A r \in Sessions : tx'[r].op # "finalize"
        BY <1>1, <2>3 DEF IInv, OutcomeInv
  <2>5. QED
        BY <1>4, <2>2, <2>4 DEF OutcomeInv
<1>9. QED
      BY <1>4, <1>5, <1>6, <1>7, <1>8 DEF IInv

LEMMA TakeStepStep ==
    ASSUME IInv, NEW s \in Sessions, NEW u \in Users, NEW t \in design, NEW name \in Users,
           TakeStep(s, u, t, name)
    PROVE  IInv'
<1> DEFINE S == Signing(u, t, name)
           M == Members(t)
           open == [op |-> "transition", t |-> t, signatures |-> S, members |-> M]
<1>1. Completes(u, t, name) /\ tx' = [tx EXCEPT ![s] = open]
      /\ UNCHANGED <<design, workflow, doc, staff>>
      BY DEF TakeStep
<1>2. MayFire(t, S, M)
      BY <1>1, FiresNow
<1>3. /\ t \in Transitions /\ S \in SUBSET Signatures /\ M \in SUBSET Users
      /\ \A r \in Sessions : tx[r].op # "transition"
      BY <1>1, NowType DEF Completes
<1>4. open \in Transactions
      BY <1>3, MovingType
<1>5. open.op = "transition" /\ open.t = t /\ open.signatures = S /\ open.members = M
      OBVIOUS
<1> HIDE DEF S, M, open
<1>6. /\ tx' \in [Sessions -> Transactions] /\ tx'[s] = open
      /\ \A r \in Sessions : r # s => tx'[r] = tx[r]
      BY <1>1, <1>4 DEF IInv, TypeOK
<1>7. TypeOK'
      BY <1>1, <1>6 DEF IInv, TypeOK, workflow, staff
<1>8. InstanceInv'
  <2>1. \A r \in Sessions : tx'[r].op = "transition" => r = s
        BY <1>3, <1>6
  <2>2. (MayFire(tx[s].t, tx[s].signatures, tx[s].members))'
        BY <1>1, <1>2, <1>5, <1>6 DEF MayFire, workflow, Continues, Leaving, SignedHere
  <2>3. QED
        BY <2>1, <2>2 DEF InstanceInv
<1>9. DocumentInv'
  <2>1. \A r \in Sessions : tx'[r].op \in Holding => tx'[r].op = tx[r].op
        BY <1>5, <1>6 DEF Holding
  <2>2. QED
        BY <1>1, <2>1, DocumentUntouched DEF IInv, Holding
<1>10. OutcomeInv'
  <2>1. \A r \in Sessions : tx'[r].op = "finalize" => tx[r].op = "finalize"
        BY <1>5, <1>6
  <2>2. QED
        BY <1>1, <2>1 DEF IInv, OutcomeInv, workflow, Ended, Leaving
<1>11. InboxInv' /\ SignatureInv' /\ QuorumReallyMet'
      BY <1>1 DEF IInv, InboxInv, TasksOf, Cards, Leaving, SignatureInv, SignedHere,
                  QuorumReallyMet, workflow
<1>12. QED
      BY <1>7, <1>8, <1>9, <1>10, <1>11 DEF IInv

LEMMA RunActionStep ==
    ASSUME IInv, NEW s \in Sessions, RunAction(s)
    PROVE  IInv'
<1> DEFINE t == tx[s].t
           S == tx[s].signatures
           M == tx[s].members
<1>1. /\ tx[s].op = "transition"
      /\ doc.status # "void" => DocumentFree
      /\ t.to = "approved" => doc.status # "void"
      /\ Advance(t, S, M)
      /\ doc' = CASE t.to = "rejected" -> Rejected
                  [] t.to = "approved" -> Approved
                  [] OTHER -> Resent
      /\ tx' = [tx EXCEPT ![s] = Idle]
      /\ UNCHANGED <<design, staff>>
      BY DEF RunAction
<1>2. MayFire(t, S, M) /\ \A r \in Sessions : tx[r].op = "transition" => r = s
      BY <1>1 DEF IInv, InstanceInv
<1>3. t \in Transitions /\ S \in SUBSET Signatures /\ M \in SUBSET Users
      BY <1>1, OpenType DEF IInv, TypeOK
<1>4. Continues /\ t \in Leaving(step)
      BY <1>2 DEF MayFire
<1>5. /\ tx' \in [Sessions -> Transactions] /\ tx'[s].op = "idle"
      /\ \A r \in Sessions : r # s => tx'[r] = tx[r]
      BY <1>1, Ends DEF IInv
<1>6. ~Ended
      BY <1>4, CanMove
<1>7. t.to \in Steps /\ step' = t.to
      BY <1>1, <1>3 DEF Transitions, Advance
<1>8. doc \in DocumentRows
      BY DEF IInv, TypeOK, DocumentRows
<1> HIDE DEF t, S, M
<1>9. /\ step' \in Steps /\ status' \in Statuses /\ visit' \in 0..MaxVisits
      /\ progress' \in [design -> SUBSET Signatures]
      /\ pending' \subseteq design \X (0..MaxVisits)
      /\ passed'.t \in design
      /\ status' = StatusAt(step') /\ InboxInv' /\ SignatureInv' /\ QuorumReallyMet'
      BY <1>1, <1>2, <1>3, Advanced DEF IInv
<1>10. doc' \in DocumentRows /\ doc'.edits = doc.edits /\ (doc.status = "void" => doc' = doc)
      BY <1>1, <1>8, DocumentType
<1>11. TypeOK'
      BY <1>1, <1>5, <1>9, <1>10 DEF IInv, TypeOK, staff, DocumentRows
<1>12. InstanceInv'
      BY <1>2, <1>5, InstanceHeldByNone
<1>13. DocumentInv'
  <2>1. CASE doc.status = "void"
    <3>1. \A r \in Sessions : tx'[r].op \in Holding => tx'[r].op = tx[r].op
          BY <1>5 DEF Holding
    <3>2. QED
          BY <1>10, <2>1, <3>1, DocumentUntouched DEF IInv, Holding
  <2>2. CASE doc.status # "void"
    <3>1. \A r \in Sessions : tx'[r].op \notin Holding
          BY <1>1, <1>5, <2>2 DEF DocumentFree, Holding
    <3>2. QED
          BY <3>1, DocumentHeldByNone
  <2>3. QED
        BY <2>1, <2>2
<1>14. OutcomeInv'
  <2>1. doc.status # "final" /\ \A r \in Sessions : tx[r].op # "finalize"
        BY <1>6 DEF IInv, OutcomeInv
  <2>2. \A r \in Sessions : tx'[r].op # "finalize"
        BY <1>5, <2>1
  <2>3. CASE t.to = "approved"
    <3>1. doc'.status = "final"
          BY <1>1, <1>8, <2>3, DocumentType
    <3>2. status' = "COMPLETED"
          BY <1>7, <1>9, <2>3, StatusType
    <3>3. QED
          BY <1>9, <2>2, <3>1, <3>2 DEF OutcomeInv, Ended
  <2>4. CASE t.to # "approved"
    <3>1. doc'.status # "final"
          BY <1>1, <1>8, <2>1, <2>4, DocumentType
    <3>2. status' # "COMPLETED"
          BY <1>7, <1>9, <2>4, StatusType
    <3>3. QED
          BY <1>9, <2>2, <3>1, <3>2 DEF OutcomeInv
  <2>5. QED
        BY <2>3, <2>4
<1>15. QED
      BY <1>9, <1>11, <1>12, <1>13, <1>14 DEF IInv

-----------------------------------------------------------------------------
(* The document's own operations, and a transaction that gives up.          *)

LEMMA RollBackStep ==
    ASSUME IInv, NEW s \in Sessions, RollBack(s)
    PROVE  IInv'
<1>1. tx' = [tx EXCEPT ![s] = Idle] /\ UNCHANGED <<design, workflow, doc, staff>>
      BY DEF RollBack
<1>2. /\ tx' \in [Sessions -> Transactions] /\ tx'[s].op = "idle"
      /\ \A r \in Sessions : r # s => tx'[r] = tx[r]
      BY <1>1, Ends DEF IInv
<1>3. TypeOK'
      BY <1>1, <1>2 DEF IInv, TypeOK, workflow, staff
<1>4. InstanceInv' /\ InboxInv' /\ SignatureInv' /\ QuorumReallyMet' /\ Ended' = Ended
      BY <1>1, <1>2, WorkflowUnmoved DEF IInv
<1>5. DocumentInv'
  <2>1. \A r \in Sessions : tx'[r].op \in Holding => tx'[r].op = tx[r].op
        BY <1>2 DEF Holding
  <2>2. QED
        BY <1>1, <2>1, DocumentUntouched DEF IInv, Holding
<1>6. OutcomeInv'
  <2>1. \A r \in Sessions : tx'[r].op = "finalize" => tx[r].op = "finalize"
        BY <1>2
  <2>2. QED
        BY <1>1, <1>4, <2>1 DEF IInv, OutcomeInv, workflow
<1>7. QED
      BY <1>3, <1>4, <1>5, <1>6 DEF IInv

(* The lock of the document is taken: nobody held it.                       *)
LEMMA LockStep ==
    ASSUME IInv, NEW s \in Sessions, NEW op \in {"void", "edit"}, DocumentFree, Begin(s, op),
           op = "edit" => Open /\ doc.edits < MaxEdits
    PROVE  IInv'
<1>1. /\ tx' \in [Sessions -> Transactions] /\ tx'[s].op = op
      /\ \A r \in Sessions : r # s => tx'[r] = tx[r]
      /\ UNCHANGED <<design, workflow, doc, staff>>
      BY Begins DEF IInv
<1>2. TypeOK'
      BY <1>1 DEF IInv, TypeOK, workflow, staff
<1>3. InstanceInv' /\ InboxInv' /\ SignatureInv' /\ QuorumReallyMet' /\ Ended' = Ended
      BY <1>1, WorkflowUnmoved DEF IInv
<1>4. DocumentInv'
  <2>1. \A r \in Sessions : tx'[r].op \in Holding => r = s
        BY <1>1 DEF DocumentFree, Holding
  <2>2. tx'[s].op \in {"edit", "edit_checked"} => Open' /\ doc'.edits < MaxEdits
        BY <1>1 DEF Open
  <2>3. \A r \in Sessions : tx'[r].op \in {"edit", "edit_checked"} => Open' /\ doc'.edits < MaxEdits
        BY <2>1, <2>2 DEF Holding
  <2>4. QED
        BY <2>1, <2>3 DEF DocumentInv
<1>5. OutcomeInv'
  <2>1. \A r \in Sessions : tx'[r].op = "finalize" => tx[r].op = "finalize"
        BY <1>1
  <2>2. QED
        BY <1>1, <1>3, <2>1 DEF IInv, OutcomeInv, workflow
<1>6. QED
      BY <1>2, <1>3, <1>4, <1>5 DEF IInv

LEMMA FinalizeReadStep ==
    ASSUME IInv, NEW s \in Sessions, FinalizeRead(s)
    PROVE  IInv'
<1>1. /\ tx' \in [Sessions -> Transactions] /\ tx'[s].op = "finalize"
      /\ \A r \in Sessions : r # s => tx'[r] = tx[r]
      /\ UNCHANGED <<design, workflow, doc, staff>>
      BY Begins DEF IInv, FinalizeRead
<1>2. TypeOK'
      BY <1>1 DEF IInv, TypeOK, workflow, staff
<1>3. InstanceInv' /\ InboxInv' /\ SignatureInv' /\ QuorumReallyMet' /\ Ended' = Ended
      BY <1>1, WorkflowUnmoved DEF IInv
<1>4. DocumentInv'
  <2>1. \A r \in Sessions : tx'[r].op \in Holding => tx'[r].op = tx[r].op
        BY <1>1 DEF Holding
  <2>2. QED
        BY <1>1, <2>1, DocumentUntouched DEF IInv, Holding
<1>5. OutcomeInv'
  <2>1. Ended
        BY DEF FinalizeRead, InItsWorkflow, Ended
  <2>2. QED
        BY <1>1, <1>3, <2>1 DEF IInv, OutcomeInv, workflow
<1>6. QED
      BY <1>2, <1>3, <1>4, <1>5 DEF IInv

LEMMA EditReadStep ==
    ASSUME IInv, NEW s \in Sessions, EditRead(s)
    PROVE  IInv'
<1>1. /\ tx[s].op = "edit" /\ tx' = [tx EXCEPT ![s].op = "edit_checked"]
      /\ UNCHANGED <<design, workflow, doc, staff>>
      BY DEF EditRead
<1>2. tx \in [Sessions -> Transactions]
      BY DEF IInv, TypeOK
<1>3. tx'[s] = [tx[s] EXCEPT !.op = "edit_checked"] /\ tx'[s] \in Transactions
      BY <1>1, <1>2, CheckedType
<1>4. tx'[s].op = "edit_checked"
      BY <1>1, <1>2, <1>3, CheckedType
<1>5. tx' \in [Sessions -> Transactions] /\ \A r \in Sessions : r # s => tx'[r] = tx[r]
      BY <1>1, <1>2, <1>3
<1>6. TypeOK'
      BY <1>1, <1>5 DEF IInv, TypeOK, workflow, staff
<1>7. InstanceInv' /\ InboxInv' /\ SignatureInv' /\ QuorumReallyMet' /\ Ended' = Ended
      BY <1>1, <1>4, <1>5, WorkflowUnmoved DEF IInv
<1>8. DocumentInv'
  <2>1. \A r \in Sessions :
            /\ tx'[r].op \in Holding => tx[r].op \in Holding
            /\ tx'[r].op \in {"edit", "edit_checked"} => tx[r].op \in {"edit", "edit_checked"}
        BY <1>1, <1>4, <1>5 DEF Holding
  <2>2. QED
        BY <1>1, <2>1, DocumentUntouched DEF IInv
<1>9. OutcomeInv'
  <2>1. \A r \in Sessions : tx'[r].op = "finalize" => tx[r].op = "finalize"
        BY <1>4, <1>5
  <2>2. QED
        BY <1>1, <1>7, <2>1 DEF IInv, OutcomeInv, workflow
<1>10. QED
      BY <1>6, <1>7, <1>8, <1>9 DEF IInv

(* The edit holds the document alone, and the document is still open.       *)
LEMMA EditCommitStep ==
    ASSUME IInv, NEW s \in Sessions, EditCommit(s)
    PROVE  IInv'
<1>1. tx[s].op = "edit_checked" /\ tx' = [tx EXCEPT ![s] = Idle]
      /\ UNCHANGED <<design, workflow, staff>>
      BY DEF EditCommit
<1>2. PICK st \in {"draft", "proforma"} :
          doc' = [doc EXCEPT !.status = st, !.edits = doc.edits + 1]
      BY DEF EditCommit
<1>3. Open /\ doc.edits < MaxEdits
      BY <1>1 DEF IInv, DocumentInv
<1>4. \A r \in Sessions : tx[r].op \in Holding => r = s
      BY <1>1 DEF IInv, DocumentInv, Holding
<1>5. /\ tx' \in [Sessions -> Transactions] /\ tx'[s].op = "idle"
      /\ \A r \in Sessions : r # s => tx'[r] = tx[r]
      BY <1>1, Ends DEF IInv
<1>6. doc' \in DocumentRows /\ doc'.status = st
  <2>1. doc \in DocumentRows
        BY DEF IInv, TypeOK, DocumentRows
  <2>2. doc' \in DocumentRows
        BY <1>2, <1>3, <2>1, EditedType
  <2>3. doc'.status = st
        BY <1>2, <2>1 DEF DocumentRows
  <2>4. QED
        BY <2>2, <2>3
<1>7. TypeOK'
      BY <1>1, <1>5, <1>6 DEF IInv, TypeOK, workflow, staff, DocumentRows
<1>8. InstanceInv' /\ InboxInv' /\ SignatureInv' /\ QuorumReallyMet' /\ Ended' = Ended
      BY <1>1, <1>5, WorkflowUnmoved DEF IInv
<1>9. DocumentInv'
  <2>1. \A r \in Sessions : tx'[r].op \notin Holding
        BY <1>4, <1>5 DEF Holding
  <2>2. QED
        BY <2>1, DocumentHeldByNone
<1>10. OutcomeInv'
  <2>1. \A r \in Sessions : tx'[r].op = "finalize" => tx[r].op = "finalize"
        BY <1>5
  <2>2. status # "COMPLETED"
        BY <1>3 DEF IInv, OutcomeInv, Open
  <2>3. QED
        BY <1>1, <1>6, <1>8, <2>1, <2>2 DEF IInv, OutcomeInv, workflow
<1>11. QED
      BY <1>7, <1>8, <1>9, <1>10 DEF IInv

(* The workflow was at its end when the finalization looked, and still is.  *)
LEMMA FinalizeCommitStep ==
    ASSUME IInv, NEW s \in Sessions, FinalizeCommit(s)
    PROVE  IInv'
<1>1. tx[s].op = "finalize" /\ DocumentFree /\ tx' = [tx EXCEPT ![s] = Idle] /\ doc' = Approved
      /\ UNCHANGED <<design, workflow, staff>>
      BY DEF FinalizeCommit
<1>2. Ended
      BY <1>1 DEF IInv, OutcomeInv
<1>3. /\ tx' \in [Sessions -> Transactions] /\ tx'[s].op = "idle"
      /\ \A r \in Sessions : r # s => tx'[r] = tx[r]
      BY <1>1, Ends DEF IInv
<1>4. doc' \in DocumentRows /\ doc'.status = "final"
  <2>1. doc \in DocumentRows
        BY DEF IInv, TypeOK, DocumentRows
  <2>2. QED
        BY <1>1, <2>1, DocumentType
<1>5. TypeOK'
      BY <1>1, <1>3, <1>4 DEF IInv, TypeOK, workflow, staff, DocumentRows
<1>6. InstanceInv' /\ InboxInv' /\ SignatureInv' /\ QuorumReallyMet' /\ Ended' = Ended
      BY <1>1, <1>3, WorkflowUnmoved DEF IInv
<1>7. DocumentInv'
  <2>1. \A r \in Sessions : tx'[r].op \notin Holding
        BY <1>1, <1>3 DEF DocumentFree, Holding
  <2>2. QED
        BY <2>1, DocumentHeldByNone
<1>8. OutcomeInv'
  <2>1. \A r \in Sessions : tx'[r].op = "finalize" => tx[r].op = "finalize"
        BY <1>3
  <2>2. QED
        BY <1>1, <1>2, <1>4, <1>6, <2>1 DEF IInv, OutcomeInv, workflow
<1>9. QED
      BY <1>5, <1>6, <1>7, <1>8 DEF IInv

(* Closing a running workflow that nobody is moving.                        *)
LEMMA TerminatedStep ==
    ASSUME IInv, status = "IN_PROGRESS", InstanceFree, Terminated, UNCHANGED design
    PROVE  /\ \A r \in Sessions : tx[r].op # "transition"
           /\ step' \in Steps /\ status' \in Statuses /\ visit' \in 0..MaxVisits
           /\ progress' \in [design -> SUBSET Signatures]
           /\ pending' \subseteq design \X (0..MaxVisits)
           /\ passed'.t \in design \cup {Nobody}
           /\ status' = "TERMINATED" /\ InboxInv' /\ SignatureInv' /\ QuorumReallyMet'
<1>1. /\ status' = "TERMINATED" /\ pending' = {}
      /\ UNCHANGED <<design, step, progress, visit, passed>>
      BY DEF Terminated
<1>2. status' \in Statuses
      BY <1>1 DEF Statuses
<1>3. InboxInv'
      BY <1>1 DEF InboxInv
<1>4. SignatureInv' /\ QuorumReallyMet'
      BY <1>1 DEF IInv, SignatureInv, SignedHere, Leaving, QuorumReallyMet
<1>5. QED
      BY <1>1, <1>2, <1>3, <1>4 DEF IInv, TypeOK, InstanceFree

LEMMA VoidCommitStep ==
    ASSUME IInv, NEW s \in Sessions, VoidCommit(s)
    PROVE  IInv'
<1>1. /\ tx[s].op = "void" /\ tx' = [tx EXCEPT ![s] = Idle] /\ doc' = [doc EXCEPT !.status = "void"]
      /\ IF status = "IN_PROGRESS" THEN InstanceFree /\ Terminated ELSE UNCHANGED workflow
      /\ UNCHANGED <<design, staff>>
      BY DEF VoidCommit
<1>2. \A r \in Sessions : tx[r].op \in Holding => r = s
      BY <1>1 DEF IInv, DocumentInv, Holding
<1>3. /\ tx' \in [Sessions -> Transactions] /\ tx'[s].op = "idle"
      /\ \A r \in Sessions : r # s => tx'[r] = tx[r]
      BY <1>1, Ends DEF IInv
<1>4. doc' \in DocumentRows /\ doc'.status = "void"
  <2>1. doc \in DocumentRows
        BY DEF IInv, TypeOK, DocumentRows
  <2>2. QED
        BY <1>1, <2>1, DocumentType
<1>5. DocumentInv'
  <2>1. \A r \in Sessions : tx'[r].op \notin Holding
        BY <1>2, <1>3 DEF Holding
  <2>2. QED
        BY <2>1, DocumentHeldByNone
<1>6. \A r \in Sessions : tx'[r].op = "finalize" => tx[r].op = "finalize"
      BY <1>3
<1>7. CASE status = "IN_PROGRESS"
  <2>1. /\ \A r \in Sessions : tx[r].op # "transition"
        /\ step' \in Steps /\ status' \in Statuses /\ visit' \in 0..MaxVisits
        /\ progress' \in [design -> SUBSET Signatures]
        /\ pending' \subseteq design \X (0..MaxVisits)
        /\ passed'.t \in design \cup {Nobody}
        /\ status' = "TERMINATED" /\ InboxInv' /\ SignatureInv' /\ QuorumReallyMet'
        BY <1>1, <1>7, TerminatedStep
  <2>2. TypeOK'
        BY <1>1, <1>3, <1>4, <2>1 DEF IInv, TypeOK, staff, DocumentRows
  <2>3. InstanceInv'
        BY <1>3, <2>1, InstanceHeldByNone
  <2>4. OutcomeInv'
        BY <1>4, <1>6, <2>1 DEF OutcomeInv, Ended
  <2>5. QED
        BY <1>5, <2>1, <2>2, <2>3, <2>4 DEF IInv
<1>8. CASE status # "IN_PROGRESS"
  <2>1. UNCHANGED <<design, workflow>>
        BY <1>1, <1>8
  <2>2. InstanceInv' /\ InboxInv' /\ SignatureInv' /\ QuorumReallyMet' /\ Ended' = Ended
        BY <1>3, <2>1, WorkflowUnmoved DEF IInv
  <2>3. TypeOK'
        BY <1>1, <1>3, <1>4, <2>1 DEF IInv, TypeOK, workflow, staff, DocumentRows
  <2>4. OutcomeInv'
        BY <1>4, <1>6, <2>1, <2>2 DEF IInv, OutcomeInv, workflow
  <2>5. QED
        BY <1>5, <2>2, <2>3, <2>4 DEF IInv
<1>9. QED
      BY <1>7, <1>8

LEMMA TerminateStep ==
    ASSUME IInv, TerminateByAdmin
    PROVE  IInv'
<1>1. status = "IN_PROGRESS" /\ InstanceFree /\ Terminated /\ UNCHANGED <<design, doc, staff, tx>>
      BY DEF TerminateByAdmin
<1>2. /\ \A r \in Sessions : tx[r].op # "transition"
      /\ step' \in Steps /\ status' \in Statuses /\ visit' \in 0..MaxVisits
      /\ progress' \in [design -> SUBSET Signatures]
      /\ pending' \subseteq design \X (0..MaxVisits)
      /\ passed'.t \in design \cup {Nobody}
      /\ status' = "TERMINATED" /\ InboxInv' /\ SignatureInv' /\ QuorumReallyMet'
      BY <1>1, TerminatedStep
<1>3. TypeOK'
      BY <1>1, <1>2 DEF IInv, TypeOK, staff
<1>4. InstanceInv'
      BY <1>1, <1>2, InstanceHeldByNone
<1>5. DocumentInv'
      BY <1>1 DEF IInv, DocumentInv, Open
<1>6. OutcomeInv'
      BY <1>1, <1>2 DEF IInv, OutcomeInv, Ended
<1>7. QED
      BY <1>2, <1>3, <1>4, <1>5, <1>6 DEF IInv

-----------------------------------------------------------------------------
(* Roles and delegations.                                                   *)

LEMMA StaffStep ==
    ASSUME IInv, Staff
    PROVE  IInv'
<1>1. UNCHANGED <<design, workflow, doc, tx>> /\ changes < MaxChanges /\ changes' = changes + 1
      BY DEF Staff, Join, Leave, Delegate, Revoke, Administer
<1>2. holders' \subseteq Users /\ deputy' \in [Users -> Users \cup {Nobody}]
      BY DEF IInv, TypeOK, Staff, Join, Leave, Delegate, Revoke
<1>3. changes' \in 0..MaxChanges
      BY <1>1, BoundsAssumption DEF IInv, TypeOK
<1>4. TypeOK'
      BY <1>1, <1>2, <1>3 DEF IInv, TypeOK, workflow
<1>5. InstanceInv' /\ InboxInv' /\ SignatureInv' /\ QuorumReallyMet' /\ Ended' = Ended
      BY <1>1, WorkflowUnmoved DEF IInv
<1>6. DocumentInv' /\ OutcomeInv'
      BY <1>1, <1>5 DEF IInv, DocumentInv, Open, OutcomeInv, workflow
<1>7. QED
      BY <1>4, <1>5, <1>6 DEF IInv

-----------------------------------------------------------------------------
(* The invariant.                                                           *)

LEMMA InitHolds == Init => IInv
<1> SUFFICES ASSUME Init PROVE IInv
    OBVIOUS
<1>1. \A s \in Sessions : tx[s].op = "idle" /\ tx[s] \in Transactions
      BY IdleType DEF Init
<1>2. step = "draft" /\ status = "IN_PROGRESS" /\ StatusAt("draft") = "IN_PROGRESS"
      /\ progress = [t \in design |-> {}] /\ visit = 0 /\ passed = NothingPassed
      BY DEF Init, StatusAt
<1>3. doc \in DocumentRows /\ doc.status \in {"draft", "proforma"}
      BY BoundsAssumption DEF Init, DocumentRows, DocumentStatus
<1>4. pending \subseteq design \X (0..MaxVisits)
      BY BoundsAssumption DEF Init, TasksOf, Cards, Leaving
<1>5. tx \in [Sessions -> Transactions]
      BY <1>1 DEF Init
<1>6. TypeOK
      BY <1>2, <1>3, <1>4, <1>5, BoundsAssumption, StaffAssumption
      DEF Init, TypeOK, Steps, Statuses, DocumentRows, NothingPassed
<1>7. InstanceInv /\ DocumentInv
      BY <1>1 DEF InstanceInv, DocumentInv, Holding
<1>8. OutcomeInv
      BY <1>1, <1>2, <1>3 DEF OutcomeInv
<1>9. InboxInv
      BY DEF Init, InboxInv
<1>10. SignatureInv
      BY <1>2, EmptySigned DEF SignatureInv, Leaving
<1>11. QuorumReallyMet
      BY <1>2 DEF QuorumReallyMet, NothingPassed
<1>12. QED
      BY <1>6, <1>7, <1>8, <1>9, <1>10, <1>11 DEF IInv

LEMMA StutterStep ==
    ASSUME IInv, UNCHANGED vars
    PROVE  IInv'
<1>1. UNCHANGED <<design, workflow, doc, staff, tx>>
      BY DEF vars
<1>2. InstanceInv' /\ InboxInv' /\ SignatureInv' /\ QuorumReallyMet' /\ Ended' = Ended
      BY <1>1, WorkflowUnmoved DEF IInv
<1>3. TypeOK' /\ DocumentInv' /\ OutcomeInv'
      BY <1>1, <1>2 DEF IInv, TypeOK, workflow, staff, DocumentInv, Open, OutcomeInv
<1>4. QED
      BY <1>2, <1>3 DEF IInv

LEMMA SignerStep ==
    ASSUME IInv, NEW u \in Users, Signer(u)
    PROVE  IInv'
<1>1. PICK t \in design, name \in Users :
          \/ Sign(u, t, name)
          \/ MoveWithoutDocument(u, t, name)
          \/ \E s \in Sessions : TakeStep(s, u, t, name)
      BY DEF Signer
<1>2. CASE Sign(u, t, name)
      BY <1>2, SignStep
<1>3. CASE MoveWithoutDocument(u, t, name)
      BY <1>3, MoveStep
<1>4. ASSUME NEW s \in Sessions, TakeStep(s, u, t, name) PROVE IInv'
      BY <1>4, TakeStepStep
<1>5. QED
      BY <1>1, <1>2, <1>3, <1>4

LEMMA SessionStep ==
    ASSUME IInv, NEW s \in Sessions, Session(s)
    PROVE  IInv'
<1>1. CASE RunAction(s)
      BY <1>1, RunActionStep
<1>2. CASE RollBack(s)
      BY <1>2, RollBackStep
<1>3. CASE VoidLock(s)
      BY <1>3, LockStep DEF VoidLock
<1>4. CASE VoidCommit(s)
      BY <1>4, VoidCommitStep
<1>5. CASE EditLock(s)
      BY <1>5, LockStep DEF EditLock
<1>6. CASE EditRead(s)
      BY <1>6, EditReadStep
<1>7. CASE EditCommit(s)
      BY <1>7, EditCommitStep
<1>8. CASE FinalizeRead(s)
      BY <1>8, FinalizeReadStep
<1>9. CASE FinalizeCommit(s)
      BY <1>9, FinalizeCommitStep
<1>10. QED
      BY <1>1, <1>2, <1>3, <1>4, <1>5, <1>6, <1>7, <1>8, <1>9 DEF Session

LEMMA Invariant == Spec => []IInv
<1>1. Init => IInv
      BY InitHolds
<1>2. IInv /\ [Next]_vars => IInv'
      BY SessionStep, SignerStep, StaffStep, StutterStep, TerminateStep DEF Next
<1>3. QED
      BY <1>1, <1>2, PTL DEF Spec

(* Every variable keeps the values its column can hold, and no counter of   *)
(* the model passes its bound.                                              *)
THEOREM TypeCorrect == Spec => []TypeOK
<1>1. IInv => TypeOK
      BY DEF IInv
<1>2. QED
      BY <1>1, Invariant, PTL

(* Whatever the design asks and whoever stands in for whom, the transition  *)
(* that fired last was carried by as many people as its rule wants, each    *)
(* named once and acting once, all of them since the step was last entered  *)
(* (evaluateAndAddSignature, executeTransition).                            *)
THEOREM QuorumHolds == Spec => []QuorumReallyMet
<1>1. IInv => QuorumReallyMet
      BY DEF IInv
<1>2. QED
      BY <1>1, Invariant, PTL

(* Under any interleaving of transitions, direct finalizations, edits, voids *)
(* and terminations, the document follows its workflow and the inbox holds  *)
(* the cards of the step the workflow is at.                                *)
THEOREM DocumentFollowsWorkflow == Spec => []DocumentAndInboxAgree
<1>1. IInv => DocumentAndInboxAgree
      BY DEF IInv, OutcomeInv, InboxInv, DocumentAndInboxAgree, Ended, Continues
<1>2. QED
      BY <1>1, Invariant, PTL

-----------------------------------------------------------------------------
(* Edits and reviews.                                                       *)

(* A review begins with a document nobody is editing: the submission waited *)
(* for the document, and nothing else opens one.                            *)
LEMMA ReviewOpens ==
    ASSUME IInv, RejectedGoesToDraft, Next, ~InReview, InReview',
           NEW s \in Sessions, tx[s].op \in {"edit", "edit_checked"}
    PROVE  FALSE
<1>1. step' # step \/ status' # status
      BY DEF InReview
<1>2. status' = "IN_PROGRESS" /\ step' # "draft"
      BY DEF InReview
<1>3. doc.status # "void" /\ ~DocumentFree
      BY DEF IInv, DocumentInv, Open, DocumentFree
<1>4. (\E r \in Sessions : RunAction(r))
      \/ \E u \in Users, t \in design, name \in Users : MoveWithoutDocument(u, t, name)
  <2>1. ASSUME NEW r \in Sessions, Session(r), ~RunAction(r) PROVE FALSE
        BY <1>1, <1>2, <2>1 DEF Session, RollBack, VoidLock, VoidCommit, EditLock, EditRead, EditCommit,
           FinalizeRead, FinalizeCommit, Begin, Terminated, workflow
  <2>2. ~TerminateByAdmin
        BY <1>2 DEF TerminateByAdmin, Terminated
  <2>3. ASSUME NEW u \in Users, NEW t \in design, NEW name \in Users, Sign(u, t, name) PROVE FALSE
        BY <1>1, <2>3 DEF Sign
  <2>4. ASSUME NEW u \in Users, NEW t \in design, NEW name \in Users, NEW r \in Sessions,
               TakeStep(r, u, t, name)
        PROVE  FALSE
        BY <1>1, <2>4 DEF TakeStep, workflow
  <2>5. ~Staff
        BY <1>1 DEF Staff, Join, Leave, Delegate, Revoke, Administer, workflow
  <2>6. QED
        BY <2>1, <2>2, <2>3, <2>4, <2>5 DEF Next, Signer
<1>5. \A r \in Sessions : ~RunAction(r)
      BY <1>3 DEF RunAction
<1>6. PICK u \in Users, t \in design, name \in Users : MoveWithoutDocument(u, t, name)
      BY <1>4, <1>5
<1>7. /\ t \in Transitions /\ t.from = step /\ Continues /\ step' = t.to /\ status' = StatusAt(t.to)
      /\ t.from # "draft"
      BY <1>6, NowType DEF MoveWithoutDocument, Completes, NeedsDocument, Advance, Leaving
<1>8. t.to \in {"warehouse_review", "accounting_review"}
      BY <1>2, <1>6, <1>7 DEF MoveWithoutDocument, NeedsDocument, Transitions, Steps
<1>9. status # "IN_PROGRESS"
      BY <1>7 DEF InReview
<1>10. step = "rejected"
  <2>1. status = "REJECTED" /\ step \in Steps
        BY <1>7, <1>9 DEF Continues, IInv, TypeOK
  <2>2. status = StatusAt(step)
        BY <2>1 DEF IInv, OutcomeInv
  <2>3. QED
        BY <2>1, <2>2, StatusType
<1>11. design \in Designs
      BY DEF IInv, TypeOK
<1>12. QED
      BY <1>7, <1>8, <1>10, <1>11 DEF RejectedGoesToDraft

(* Only the reading of the instance lets an edit on.                        *)
LEMMA CheckedByReading ==
    ASSUME IInv, Next, NEW s \in Sessions, tx'[s].op = "edit_checked"
    PROVE  tx[s].op = "edit_checked" \/ EditRead(s)
<1>1. tx \in [Sessions -> Transactions]
      BY DEF IInv, TypeOK
<1>2. ASSUME UNCHANGED tx PROVE tx[s].op = "edit_checked"
      BY <1>2
<1>3. ASSUME NEW r \in Sessions, tx' = [tx EXCEPT ![r] = Idle] PROVE tx[s].op = "edit_checked"
      BY <1>1, <1>3, IdleType
<1>4. ASSUME NEW r \in Sessions, NEW op \in {"void", "edit", "finalize"}, Begin(r, op)
      PROVE  tx[s].op = "edit_checked"
      BY <1>4, Begins DEF IInv
<1>5. ASSUME NEW r \in Sessions, EditRead(r) PROVE tx[s].op = "edit_checked" \/ EditRead(s)
      BY <1>1, <1>5 DEF EditRead
<1>6. ASSUME NEW u \in Users, NEW t \in design, NEW name \in Users, NEW r \in Sessions, TakeStep(r, u, t, name)
      PROVE  tx[s].op = "edit_checked"
      BY <1>1, <1>6 DEF TakeStep
<1>7. ASSUME NEW u \in Users, Signer(u) PROVE tx[s].op = "edit_checked"
      BY <1>2, <1>6, <1>7 DEF Signer, Sign, MoveWithoutDocument
<1>8. ASSUME NEW r \in Sessions, Session(r) PROVE tx[s].op = "edit_checked" \/ EditRead(s)
      BY <1>3, <1>4, <1>5, <1>8
      DEF Session, RunAction, RollBack, VoidLock, VoidCommit, EditLock, EditCommit, FinalizeRead, FinalizeCommit
<1>9. Staff \/ TerminateByAdmin => UNCHANGED tx
      BY DEF Staff, Join, Leave, Delegate, Revoke, Administer, TerminateByAdmin
<1>10. QED
      BY <1>2, <1>7, <1>8, <1>9 DEF Next

LEMMA ReviewStep ==
    ASSUME IInv, RejectedGoesToDraft, ReviewInv, Next
    PROVE  ReviewInv'
<1>1. SUFFICES ASSUME NEW s \in Sessions, tx'[s].op = "edit_checked", InReview'
               PROVE  FALSE
      BY DEF ReviewInv
<1>2. tx[s].op \in {"edit", "edit_checked"} /\ ~InReview
      BY <1>1, CheckedByReading DEF EditRead, ReviewInv
<1>3. QED
      BY <1>1, <1>2, ReviewOpens

LEMMA ReviewsKept ==
    ASSUME RejectedGoesToDraft
    PROVE  Spec => []ReviewInv
<1>1. Init => ReviewInv
      BY DEF Init, ReviewInv, Idle
<1>2. IInv /\ ReviewInv /\ [Next]_vars => ReviewInv'
  <2>1. ASSUME IInv, ReviewInv, Next PROVE ReviewInv'
        BY <2>1, ReviewStep
  <2>2. ASSUME ReviewInv, UNCHANGED vars PROVE ReviewInv'
        BY <2>2 DEF ReviewInv, InReview, vars, workflow
  <2>3. QED
        BY <2>1, <2>2
<1>3. QED
      BY <1>1, <1>2, Invariant, PTL DEF Spec

(* Where a rejected document goes back to draft before it is reviewed again, *)
(* no edit takes effect between the submission and the end of the review,   *)
(* although the edit looks at the workflow without a lock                   *)
(* (assertDocumentNotInReview).                                             *)
THEOREM EditsStayOutOfReview ==
    ASSUME RejectedGoesToDraft
    PROVE  Spec => NoEditInReview
<1>1. ASSUME IInv, ReviewInv, Next, doc'.edits # doc.edits
      PROVE  status # "IN_PROGRESS" \/ step = "draft"
  <2>1. doc \in DocumentRows
        BY <1>1 DEF IInv, TypeOK, DocumentRows
  <2>2. ASSUME NEW s \in Sessions, Session(s), ~EditCommit(s) PROVE doc'.edits = doc.edits
    <3>1. doc' \in {doc, Rejected, Resent, Approved, [doc EXCEPT !.status = "void"]}
          BY <2>2 DEF Session, RunAction, RollBack, VoidLock, VoidCommit, EditLock, EditRead,
             FinalizeRead, FinalizeCommit, Begin
    <3>2. QED
          BY <2>1, <3>1, DocumentType
  <2>3. Staff \/ TerminateByAdmin \/ (\E u \in Users : Signer(u)) => UNCHANGED doc
        BY DEF Staff, Join, Leave, Delegate, Revoke, Administer, TerminateByAdmin,
           Signer, Sign, MoveWithoutDocument, TakeStep
  <2>4. PICK s \in Sessions : EditCommit(s)
        BY <1>1, <2>2, <2>3 DEF Next
  <2>5. ~InReview
        BY <1>1, <2>4 DEF EditCommit, ReviewInv
  <2>6. QED
        BY <2>5 DEF InReview
<1>2. IInv /\ ReviewInv /\ [Next]_vars
      => [doc'.edits # doc.edits => status # "IN_PROGRESS" \/ step = "draft"]_vars
      BY <1>1
<1>3. QED
      BY <1>2, Invariant, ReviewsKept, PTL DEF NoEditInReview, Spec
=============================================================================
