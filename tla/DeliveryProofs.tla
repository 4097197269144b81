--------------------------- MODULE DeliveryProofs ---------------------------
(* Proofs about Delivery, for any finite sets of runners and               *)
(* administrators and any number of attempts, stalls and crashes.          *)
EXTENDS Delivery, FiniteSetTheorems, TLAPS

(* An attempt more stays within the limit the model counts to. *)
LEMMA CountedType ==
    ASSUME NEW n \in Attempts
    PROVE  Counted(n) \in Attempts
BY DeliveryAssumption DEF Counted, Attempts

(* The statements that write the row keep it a row. *)
LEMMA JobUpdate ==
    ASSUME job \in Jobs
    PROVE  /\ [job EXCEPT !.status = "succeeded", !.old = FALSE] \in Jobs
           /\ [job EXCEPT !.status = "cancelled", !.old = FALSE] \in Jobs
           /\ [job EXCEPT !.status = "failed", !.old = FALSE] \in Jobs
           /\ [job EXCEPT !.status = "pending", !.due = TRUE] \in Jobs
           /\ [job EXCEPT !.status = "pending", !.due = FALSE, !.old = FALSE] \in Jobs
           /\ [job EXCEPT !.status = "pending", !.due = TRUE, !.old = FALSE] \in Jobs
           /\ [job EXCEPT !.due = TRUE] \in Jobs
           /\ [job EXCEPT !.old = TRUE] \in Jobs
           /\ \A n \in Attempts :
                 [job EXCEPT !.status = "processing", !.attempts = n, !.old = FALSE] \in Jobs
BY DEF Jobs, JobStatus

(* Moving an actor to another step, with what it learned, keeps its type. *)
LEMMA RunnerUpdate ==
    ASSUME runner \in [Runners -> RunnerStates], NEW r \in Runners,
           NEW p \in {"idle", "send", "write", "bury", "rebury", "reinsert"}, NEW out \in Outcomes
    PROVE  /\ [runner EXCEPT ![r].pc = p] \in [Runners -> RunnerStates]
           /\ [runner EXCEPT ![r].pc = p, ![r].outcome = out] \in [Runners -> RunnerStates]
           /\ IdleRunner \in RunnerStates
           /\ [IdleRunner EXCEPT !.pc = p] \in RunnerStates
<1>1. runner[r] \in RunnerStates
      OBVIOUS
<1>2. [runner[r] EXCEPT !.pc = p] \in RunnerStates
      BY <1>1 DEF RunnerStates
<1>3. [[runner[r] EXCEPT !.pc = p] EXCEPT !.outcome = out] \in RunnerStates
      BY <1>1 DEF RunnerStates
<1>4. IdleRunner \in RunnerStates /\ [IdleRunner EXCEPT !.pc = p] \in RunnerStates
      BY DeliveryAssumption DEF IdleRunner, RunnerStates, Attempts, Outcomes
<1>5. QED
      BY <1>2, <1>3, <1>4

LEMMA OperatorUpdate ==
    ASSUME operator \in [Operators -> OperatorStates], NEW o \in Operators,
           NEW p \in {"idle", "locked", "claim", "send", "write", "resolve"}, NEW out \in Outcomes
    PROVE  /\ [operator EXCEPT ![o].pc = p] \in [Operators -> OperatorStates]
           /\ [operator EXCEPT ![o].pc = p, ![o].outcome = out] \in [Operators -> OperatorStates]
           /\ IdleOperator \in OperatorStates
<1>1. operator[o] \in OperatorStates
      OBVIOUS
<1>2. [operator[o] EXCEPT !.pc = p] \in OperatorStates
      BY <1>1 DEF OperatorStates
<1>3. [[operator[o] EXCEPT !.pc = p] EXCEPT !.outcome = out] \in OperatorStates
      BY <1>1 DEF OperatorStates
<1>4. IdleOperator \in OperatorStates
      BY DeliveryAssumption DEF IdleOperator, OperatorStates, Attempts, Outcomes, JobStatus
<1>5. QED
      BY <1>2, <1>3, <1>4

-----------------------------------------------------------------------------
(* Type correctness, one lemma per actor. *)
LEMMA RunnerTypes ==
    ASSUME TypeOK, NEW r \in Runners, RunnerStep(r) \/ CrashRunner(r)
    PROVE  TypeOK'
<1> USE DEF TypeOK
<1>1. CASE Claim(r)
  <2>1. Counted(job.attempts) \in Attempts
        BY CountedType DEF Jobs
  <2>2. job' \in Jobs
        BY <1>1, <2>1, JobUpdate DEF Claim
  <2>3. [pc |-> "send", attempts |-> Counted(job.attempts), outcome |-> "none"] \in RunnerStates
        BY <2>1 DEF RunnerStates, Outcomes
  <2>4. QED
        BY <1>1, <2>2, <2>3 DEF Claim
<1>2. CASE Send(r)
  <2>1. PICK out \in SendOutcomes :
           /\ CountSent(out)
           /\ CloseBlocked(out)
           /\ runner' = [runner EXCEPT ![r].pc = "write", ![r].outcome = out]
        BY <1>2 DEF Send
  <2>2. out \in Outcomes
        BY DEF SendOutcomes, Outcomes
  <2>3. runner' \in [Runners -> RunnerStates]
        BY <2>1, <2>2, RunnerUpdate
  <2>4. sent' \in Nat /\ target' \in {"active", "inactive", "gone"}
        BY <2>1 DEF CountSent, CloseBlocked
  <2>5. QED
        BY <1>2, <2>3, <2>4 DEF Send
<1>3. CASE WriteDone(r)
  <2>1. job' \in Jobs
        BY <1>3, JobUpdate DEF WriteDone, Result
  <2>2. IdleRunner \in RunnerStates
        BY RunnerUpdate DEF Outcomes
  <2>3. QED
        BY <1>3, <2>1, <2>2 DEF WriteDone
<1>4. CASE WriteRetry(r)
  <2>1. job' \in Jobs
        BY <1>4, JobUpdate DEF WriteRetry
  <2>2. IdleRunner \in RunnerStates
        BY RunnerUpdate DEF Outcomes
  <2>3. QED
        BY <1>4, <2>1, <2>2 DEF WriteRetry
<1>5. CASE WriteFailed(r)
  <2>1. job' \in Jobs
        BY <1>5, JobUpdate DEF WriteFailed, Result
  <2>2. [IdleRunner EXCEPT !.pc = "bury"] \in RunnerStates
        BY RunnerUpdate DEF Outcomes
  <2>3. QED
        BY <1>5, <2>1, <2>2 DEF WriteFailed
<1>6. CASE BurySelect(r)
  <2>1. runner' \in [Runners -> RunnerStates]
        BY <1>6, RunnerUpdate DEF BurySelect, Outcomes, NoDeadLetter
  <2>2. QED
        BY <1>6, <2>1 DEF BurySelect, NoDeadLetter
<1>7. CASE Bury(r) \/ BuryFails(r)
  <2>1. IdleRunner \in RunnerStates
        BY RunnerUpdate DEF Outcomes
  <2>2. QED
        BY <1>7, <2>1 DEF Bury, BuryFails, Requarantine, NoDeadLetter
<1>8. CASE CrashRunner(r)
  <2>1. IdleRunner \in RunnerStates
        BY RunnerUpdate DEF Outcomes
  <2>2. crashes' \in 0..MaxCrashes
        BY <1>8, DeliveryAssumption DEF CrashRunner
  <2>3. QED
        BY <1>8, <2>1, <2>2 DEF CrashRunner
<1>9. QED
      BY <1>1, <1>2, <1>3, <1>4, <1>5, <1>6, <1>7, <1>8 DEF RunnerStep

LEMMA OperatorTypes ==
    ASSUME TypeOK, NEW o \in Operators, ReplayLock(o) \/ ReplayStep(o) \/ CrashOperator(o)
    PROVE  TypeOK'
<1> USE DEF TypeOK
<1>0. IdleOperator \in OperatorStates
      BY OperatorUpdate DEF Outcomes
<1>1. CASE ReplayLock(o)
  <2>1. operator' \in [Operators -> OperatorStates]
        BY <1>1, OperatorUpdate DEF ReplayLock, Outcomes
  <2>2. QED
        BY <1>1, <2>1 DEF ReplayLock, NoDeadLetter
<1>2. CASE ReplayRefused(o)
      BY <1>0, <1>2 DEF ReplayRefused
<1>3. CASE ReplayRead(o)
  <2>1. [pc |-> IF job.status = "succeeded" THEN "resolve" ELSE "claim",
         seen |-> job.status, attempts |-> job.attempts, outcome |-> "none"] \in OperatorStates
        BY DEF OperatorStates, Jobs, Outcomes
  <2>2. QED
        BY <1>3, <2>1 DEF ReplayRead
<1>4. CASE ReplayClaim(o)
  <2>1. Counted(operator[o].attempts) \in Attempts
        BY CountedType DEF OperatorStates
  <2>2. job' \in Jobs
        BY <1>4, <2>1, JobUpdate DEF ReplayClaim
  <2>3. operator' \in [Operators -> OperatorStates]
        BY <1>4, OperatorUpdate DEF ReplayClaim, Outcomes
  <2>4. QED
        BY <1>4, <2>2, <2>3 DEF ReplayClaim
<1>5. CASE ReplayConflict(o)
      BY <1>0, <1>5 DEF ReplayConflict
<1>6. CASE ReplayGone(o)
  <2>1. job' \in Jobs
        BY <1>6, JobUpdate DEF ReplayGone
  <2>2. QED
        BY <1>0, <1>6, <2>1 DEF ReplayGone
<1>7. CASE ReplaySend(o)
  <2>1. PICK out \in SendOutcomes :
           /\ CountSent(out)
           /\ CloseBlocked(out)
           /\ operator' = [operator EXCEPT ![o].pc = "write", ![o].outcome = out]
        BY <1>7 DEF ReplaySend
  <2>2. out \in Outcomes
        BY DEF SendOutcomes, Outcomes
  <2>3. operator' \in [Operators -> OperatorStates]
        BY <2>1, <2>2, OperatorUpdate
  <2>4. sent' \in Nat /\ target' \in {"active", "inactive", "gone"}
        BY <2>1 DEF CountSent, CloseBlocked
  <2>5. QED
        BY <1>7, <2>3, <2>4 DEF ReplaySend
<1>8. CASE ReplayWrite(o)
  <2>1. job' \in Jobs
        BY <1>8, JobUpdate DEF ReplayWrite, Result
  <2>2. operator' \in [Operators -> OperatorStates]
    <3>1. CASE operator' = [operator EXCEPT ![o].pc = "resolve"]
          BY <3>1, OperatorUpdate DEF Outcomes
    <3>2. CASE operator' = [operator EXCEPT ![o] = IdleOperator]
          BY <1>0, <3>2
    <3>3. QED
          BY <1>8, <3>1, <3>2 DEF ReplayWrite
  <2>3. QED
        BY <1>8, <2>1, <2>2 DEF ReplayWrite
<1>9. CASE ReplayResolve(o)
      BY <1>0, <1>9 DEF ReplayResolve, NoDeadLetter
<1>10. CASE CrashOperator(o)
  <2>1. crashes' \in 0..MaxCrashes
        BY <1>10, DeliveryAssumption DEF CrashOperator
  <2>2. QED
        BY <1>0, <1>10, <2>1 DEF CrashOperator
<1>11. QED
      BY <1>1, <1>2, <1>3, <1>4, <1>5, <1>6, <1>7, <1>8, <1>9, <1>10 DEF ReplayStep

(* The steps no actor waits for: the first record, the dead-letter         *)
(* screen's transactions, the target and time.                             *)
Elsewhere ==
    Enqueue \/ Requeue \/ Dismiss \/ PurgeResolved \/ DeleteTarget \/ SwitchTarget \/ TimeStep

LEMMA ElsewhereTypes ==
    ASSUME TypeOK, Elsewhere
    PROVE  TypeOK'
<1> USE DEF TypeOK
<1>1. CASE Enqueue
      BY <1>1, JobUpdate DEF Enqueue
<1>2. CASE Requeue
  <2>1. job' \in Jobs
        BY <1>2, DeliveryAssumption DEF Requeue, Jobs, JobStatus, Attempts
  <2>2. QED
        BY <1>2, <2>1 DEF Requeue
<1>3. CASE Dismiss
      BY <1>3 DEF Dismiss
<1>4. CASE PurgeResolved
      BY <1>4 DEF PurgeResolved
<1>5. CASE DeleteTarget
  <2>1. job' \in Jobs
        BY <1>5, JobUpdate DEF DeleteTarget
  <2>2. QED
        BY <1>5, <2>1 DEF DeleteTarget
<1>6. CASE SwitchTarget
      BY <1>6 DEF SwitchTarget
<1>7. CASE BackoffEnds
      BY <1>7, JobUpdate DEF BackoffEnds
<1>8. CASE LockAges
  <2>1. job' \in Jobs
        BY <1>8, JobUpdate DEF LockAges
  <2>2. stalls' \in 0..MaxStalls
        BY <1>8, DeliveryAssumption DEF LockAges
  <2>3. QED
        BY <1>8, <2>1, <2>2 DEF LockAges
<1>9. CASE RecoverStuck
  <2>1. job' \in Jobs
        BY <1>9, JobUpdate DEF RecoverStuck
  <2>2. QED
        BY <1>9, <2>1 DEF RecoverStuck
<1>10. QED
      BY <1>1, <1>2, <1>3, <1>4, <1>5, <1>6, <1>7, <1>8, <1>9 DEF Elsewhere, TimeStep

LEMMA InitTypes == Init => TypeOK
<1> SUFFICES ASSUME Init PROVE TypeOK
    OBVIOUS
<1> USE DeliveryAssumption DEF Init, Attempts, Outcomes, JobStatus
<1>1. job \in Jobs
      BY DEF Jobs
<1>2. runner \in [Runners -> RunnerStates] /\ operator \in [Operators -> OperatorStates]
      BY DEF RunnerStates, OperatorStates, IdleRunner, IdleOperator
<1>3. sent \in Nat /\ stalls \in 0..MaxStalls /\ crashes \in 0..MaxCrashes
      OBVIOUS
<1>4. dlq \in {"absent"} /\ target \in {"active"} /\ lost \in BOOLEAN
      OBVIOUS
<1>5. QED
      BY <1>1, <1>2, <1>3, <1>4 DEF TypeOK

LEMMA NextTypes == TypeOK /\ [Next]_vars => TypeOK'
<1> SUFFICES ASSUME TypeOK, [Next]_vars PROVE TypeOK'
    OBVIOUS
<1>1. CASE UNCHANGED vars
      BY <1>1 DEF vars, TypeOK
<1>2. CASE \E r \in Runners : RunnerStep(r) \/ CrashRunner(r)
      BY <1>2, RunnerTypes
<1>3. CASE \E o \in Operators : ReplayLock(o) \/ ReplayStep(o) \/ CrashOperator(o)
      BY <1>3, OperatorTypes
<1>4. CASE Elsewhere
      BY <1>4, ElsewhereTypes
<1>5. QED
      BY <1>1, <1>2, <1>3, <1>4 DEF Next, Elsewhere

(* Every reachable state of the delivery, its runners and its replays is   *)
(* well-typed (integrationDelivery.service.ts, the dead-letter row).       *)
THEOREM DeliveryTypes == Spec => []TypeOK
<1>1. QED
      BY InitTypes, NextTypes, PTL DEF Spec

-----------------------------------------------------------------------------
(* The budget.  One attempt that starts or stops being unsent moves the    *)
(* count by one.                                                           *)
LEMMA RunnerCount ==
    ASSUME TypeOK, TypeOK', NEW r \in Runners, \A s \in Runners \ {r} : runner'[s] = runner[s]
    PROVE  /\ Cardinality(UnsentRunners) \in Nat
           /\ Cardinality(UnsentRunners') \in Nat
           /\ ~ Unsent(runner'[r]) /\ Unsent(runner[r])
                => Cardinality(UnsentRunners') = Cardinality(UnsentRunners) - 1
           /\ Unsent(runner'[r]) /\ ~ Unsent(runner[r])
                => Cardinality(UnsentRunners') = Cardinality(UnsentRunners) + 1
           /\ (Unsent(runner'[r]) <=> Unsent(runner[r]))
                => Cardinality(UnsentRunners') = Cardinality(UnsentRunners)
<1>1. IsFiniteSet(UnsentRunners) /\ IsFiniteSet(UnsentRunners')
      BY DeliveryAssumption, FS_Subset DEF UnsentRunners
<1>2. Cardinality(UnsentRunners) \in Nat /\ Cardinality(UnsentRunners') \in Nat
      BY <1>1, FS_CardinalityType
<1>3. ASSUME ~ Unsent(runner'[r]), Unsent(runner[r])
      PROVE  Cardinality(UnsentRunners') = Cardinality(UnsentRunners) - 1
  <2>1. UnsentRunners' = UnsentRunners \ {r} /\ r \in UnsentRunners
        BY <1>3 DEF UnsentRunners, Unsent
  <2>2. QED
        BY <1>1, <2>1, FS_RemoveElement
<1>4. ASSUME Unsent(runner'[r]), ~ Unsent(runner[r])
      PROVE  Cardinality(UnsentRunners') = Cardinality(UnsentRunners) + 1
  <2>1. UnsentRunners' = UnsentRunners \cup {r} /\ r \notin UnsentRunners
        BY <1>4 DEF UnsentRunners, Unsent
  <2>2. QED
        BY <1>1, <2>1, FS_AddElement
<1>5. ASSUME Unsent(runner'[r]) <=> Unsent(runner[r])
      PROVE  Cardinality(UnsentRunners') = Cardinality(UnsentRunners)
  <2>1. UnsentRunners' = UnsentRunners
        BY <1>5 DEF UnsentRunners, Unsent
  <2>2. QED
        BY <2>1
<1>6. QED
      BY <1>2, <1>3, <1>4, <1>5

LEMMA OperatorCount ==
    ASSUME TypeOK, TypeOK', NEW o \in Operators, \A p \in Operators \ {o} : operator'[p] = operator[p]
    PROVE  /\ Cardinality(UnsentOperators) \in Nat
           /\ Cardinality(UnsentOperators') \in Nat
           /\ ~ Unsent(operator'[o]) /\ Unsent(operator[o])
                => Cardinality(UnsentOperators') = Cardinality(UnsentOperators) - 1
           /\ Unsent(operator'[o]) /\ ~ Unsent(operator[o])
                => Cardinality(UnsentOperators') = Cardinality(UnsentOperators) + 1
           /\ (Unsent(operator'[o]) <=> Unsent(operator[o]))
                => Cardinality(UnsentOperators') = Cardinality(UnsentOperators)
<1>1. IsFiniteSet(UnsentOperators) /\ IsFiniteSet(UnsentOperators')
      BY DeliveryAssumption, FS_Subset DEF UnsentOperators
<1>2. Cardinality(UnsentOperators) \in Nat /\ Cardinality(UnsentOperators') \in Nat
      BY <1>1, FS_CardinalityType
<1>3. ASSUME ~ Unsent(operator'[o]), Unsent(operator[o])
      PROVE  Cardinality(UnsentOperators') = Cardinality(UnsentOperators) - 1
  <2>1. UnsentOperators' = UnsentOperators \ {o} /\ o \in UnsentOperators
        BY <1>3 DEF UnsentOperators, Unsent
  <2>2. QED
        BY <1>1, <2>1, FS_RemoveElement
<1>4. ASSUME Unsent(operator'[o]), ~ Unsent(operator[o])
      PROVE  Cardinality(UnsentOperators') = Cardinality(UnsentOperators) + 1
  <2>1. UnsentOperators' = UnsentOperators \cup {o} /\ o \notin UnsentOperators
        BY <1>4 DEF UnsentOperators, Unsent
  <2>2. QED
        BY <1>1, <2>1, FS_AddElement
<1>5. ASSUME Unsent(operator'[o]) <=> Unsent(operator[o])
      PROVE  Cardinality(UnsentOperators') = Cardinality(UnsentOperators)
  <2>1. UnsentOperators' = UnsentOperators
        BY <1>5 DEF UnsentOperators, Unsent
  <2>2. QED
        BY <2>1
<1>6. QED
      BY <1>2, <1>3, <1>4, <1>5

(* Both counts are numbers, and stay when nobody moves. *)
LEMMA Counts ==
    ASSUME TypeOK
    PROVE  /\ Cardinality(UnsentRunners) \in Nat
           /\ Cardinality(UnsentOperators) \in Nat
           /\ sent \in Nat /\ stalls \in Nat /\ crashes \in Nat
           /\ OpenSends \in Nat
<1>1. IsFiniteSet(UnsentRunners) /\ IsFiniteSet(UnsentOperators)
      BY DeliveryAssumption, FS_Subset DEF UnsentRunners, UnsentOperators
<1>2. QED
      BY <1>1, FS_CardinalityType, DeliveryAssumption DEF TypeOK, OpenSends

LEMMA SameRunners == ASSUME runner' = runner PROVE UnsentRunners' = UnsentRunners
BY DEF UnsentRunners, Unsent

LEMMA SameOperators == ASSUME operator' = operator PROVE UnsentOperators' = UnsentOperators
BY DEF UnsentOperators, Unsent

LEMMA RunnerBudget ==
    ASSUME TypeOK, TypeOK', SendBudget, NEW r \in Runners, RunnerStep(r) \/ CrashRunner(r)
    PROVE  SendBudget'
<1> DEFINE N == Cardinality(UnsentRunners)
           M == Cardinality(UnsentOperators)
           N2 == Cardinality(UnsentRunners')
           M2 == Cardinality(UnsentOperators')
           P == OpenSends
           P2 == OpenSends'
           Others == \A s \in Runners \ {r} : runner'[s] = runner[s]
           Sending(a) == a.pc \in {"send", "write"}
<1>1. /\ N \in Nat /\ M \in Nat /\ N2 \in Nat /\ M2 \in Nat
      /\ sent \in Nat /\ stalls \in Nat /\ crashes \in Nat
      /\ P \in Nat
      /\ sent + N + M + P <= 1 + stalls + crashes
  <2>1. N2 \in Nat /\ M2 \in Nat
    <3>1. IsFiniteSet(UnsentRunners') /\ IsFiniteSet(UnsentOperators')
          BY DeliveryAssumption, FS_Subset DEF UnsentRunners, UnsentOperators
    <3>2. QED
          BY <3>1, FS_CardinalityType
  <2>2. QED
        BY <2>1, Counts DEF SendBudget
<1>2. P2 \in Nat /\ P2 <= 1
      BY DEF OpenSends
<1>3. SUFFICES sent' + N2 + M2 + P2 <= 1 + stalls' + crashes'
      BY DEF SendBudget
<1>4. operator' = operator /\ M2 = M
  <2>1. operator' = operator
        BY DEF RunnerStep, Claim, Send, WriteDone, WriteRetry, WriteFailed, BurySelect, Bury, BuryFails, CrashRunner
  <2>2. QED
        BY <2>1, SameOperators
<1>5. Others
      BY DEF TypeOK, RunnerStep, Claim, Send, WriteDone, WriteRetry, WriteFailed, BurySelect, Bury, BuryFails, CrashRunner
<1> HIDE DEF N, M, N2, M2, P, P2
<1>6. CASE Claim(r)
  <2>1. runner'[r].pc = "send" /\ runner[r].pc = "idle"
        BY <1>6 DEF Claim, TypeOK
  <2>2. N2 = N + 1
        BY <2>1, <1>5, RunnerCount DEF Unsent, N, N2
  <2>3. P = 1
        BY <1>6 DEF Claim, Claimable, OpenSends, Open, P, P2
  <2>4. P2 = 0
    <3>1. Attempting'
          BY <2>1 DEF Attempting
    <3>2. job'.status = "processing" /\ ~ job'.old
          BY <1>6 DEF Claim, TypeOK, Jobs
    <3>3. QED
          BY <3>1, <3>2 DEF OpenSends, Open, P, P2
  <2>5. UNCHANGED <<sent, stalls, crashes>>
        BY <1>6 DEF Claim
  <2>6. QED
        BY <1>1, <1>4, <2>2, <2>3, <2>4, <2>5
<1>7. CASE Send(r)
  <2>1. PICK out \in SendOutcomes :
           /\ CountSent(out)
           /\ runner' = [runner EXCEPT ![r].pc = "write", ![r].outcome = out]
        BY <1>7 DEF Send
  <2>2. runner[r].pc = "send" /\ runner'[r].pc = "write" /\ runner'[r].outcome = out
        BY <1>7, <2>1 DEF Send, TypeOK, RunnerStates
  <2>3. Attempting /\ Attempting'
        BY <2>2 DEF Attempting
  <2>4. P2 = P
        BY <1>7, <2>3 DEF Send, OpenSends, Open, P, P2
  <2>5. out = "ok" => N2 = N - 1 /\ sent' = sent + 1
        BY <1>5, <2>1, <2>2, RunnerCount DEF Unsent, CountSent, N, N2
  <2>6. out # "ok" => N2 = N /\ sent' = sent
        BY <1>5, <2>1, <2>2, RunnerCount DEF Unsent, CountSent, N, N2
  <2>7. UNCHANGED <<stalls, crashes>>
        BY <1>7 DEF Send
  <2>8. QED
        BY <1>1, <1>4, <2>4, <2>5, <2>6, <2>7
<1>8. CASE WriteDone(r)
  <2>1. runner[r].pc = "write" /\ runner'[r] = IdleRunner
        BY <1>8 DEF WriteDone, TypeOK
  <2>2. UNCHANGED <<sent, stalls, crashes>>
        BY <1>8 DEF WriteDone
  <2>3. CASE runner[r].outcome = "ok"
    <3>1. N2 = N
          BY <1>5, <2>1, <2>3, RunnerCount DEF Unsent, IdleRunner, N, N2
    <3>2. job'.status = "succeeded"
          BY <1>8, <2>3 DEF WriteDone, Result, TypeOK, Jobs
    <3>3. P2 = 0
          BY <3>2 DEF OpenSends, Open, P, P2
    <3>4. QED
          BY <1>1, <1>4, <2>2, <3>1, <3>3
  <2>4. CASE runner[r].outcome = "cancelled"
    <3>1. N2 = N - 1
          BY <1>5, <2>1, <2>4, RunnerCount DEF Unsent, IdleRunner, N, N2
    <3>2. QED
          BY <1>1, <1>2, <1>4, <2>2, <3>1
  <2>5. QED
        BY <1>8, <2>3, <2>4 DEF WriteDone
<1>9. CASE WriteRetry(r) \/ WriteFailed(r)
  <2>1. /\ runner[r].pc = "write" /\ runner[r].outcome # "ok"
        /\ runner'[r].pc \in {"idle", "bury"}
        /\ UNCHANGED <<sent, stalls, crashes>>
        BY <1>9 DEF WriteRetry, WriteFailed, TypeOK, IdleRunner
  <2>2. N2 = N - 1
        BY <1>5, <2>1, RunnerCount DEF Unsent, N, N2
  <2>3. QED
        BY <1>1, <1>2, <1>4, <2>1, <2>2
<1>10. CASE BurySelect(r) \/ Bury(r) \/ BuryFails(r)
  <2>1. /\ ~ Sending(runner[r]) /\ ~ Sending(runner'[r])
        /\ UNCHANGED <<job, sent, stalls, crashes>>
        BY <1>10 DEF BurySelect, Bury, BuryFails, Burying, TypeOK, RunnerStates, IdleRunner
  <2>2. N2 = N
        BY <1>5, <2>1, RunnerCount DEF Unsent, N, N2
  <2>3. Attempting' <=> Attempting
        BY <1>4, <1>5, <2>1 DEF Attempting
  <2>4. P2 = P
        BY <2>1, <2>3 DEF OpenSends, Open, P, P2
  <2>5. QED
        BY <1>1, <1>4, <2>1, <2>2, <2>4
<1>11. CASE CrashRunner(r)
  <2>1. /\ runner'[r] = IdleRunner
        /\ UNCHANGED <<job, sent, stalls>>
        /\ crashes' = crashes + 1
        BY <1>11 DEF CrashRunner, TypeOK
  <2>2. N2 = N \/ N2 = N - 1
        BY <1>5, <2>1, RunnerCount DEF Unsent, IdleRunner, N, N2
  <2>3. QED
        BY <1>1, <1>2, <1>4, <2>1, <2>2
<1>12. QED
      BY <1>6, <1>7, <1>8, <1>9, <1>10, <1>11 DEF RunnerStep

LEMMA OperatorBudget ==
    ASSUME TypeOK, TypeOK', SendBudget, NEW o \in Operators,
           ReplayLock(o) \/ ReplayStep(o) \/ CrashOperator(o)
    PROVE  SendBudget'
<1> DEFINE N == Cardinality(UnsentRunners)
           M == Cardinality(UnsentOperators)
           N2 == Cardinality(UnsentRunners')
           M2 == Cardinality(UnsentOperators')
           P == OpenSends
           P2 == OpenSends'
           Others == \A p \in Operators \ {o} : operator'[p] = operator[p]
           Sending(a) == a.pc \in {"send", "write"}
<1>1. /\ N \in Nat /\ M \in Nat /\ N2 \in Nat /\ M2 \in Nat
      /\ sent \in Nat /\ stalls \in Nat /\ crashes \in Nat
      /\ P \in Nat
      /\ sent + N + M + P <= 1 + stalls + crashes
  <2>1. N2 \in Nat /\ M2 \in Nat
    <3>1. IsFiniteSet(UnsentRunners') /\ IsFiniteSet(UnsentOperators')
          BY DeliveryAssumption, FS_Subset DEF UnsentRunners, UnsentOperators
    <3>2. QED
          BY <3>1, FS_CardinalityType
  <2>2. QED
        BY <2>1, Counts DEF SendBudget
<1>2. P2 \in Nat /\ P2 <= 1
      BY DEF OpenSends
<1>3. SUFFICES sent' + N2 + M2 + P2 <= 1 + stalls' + crashes'
      BY DEF SendBudget
<1>4. runner' = runner /\ N2 = N
  <2>1. runner' = runner
        BY DEF ReplayLock, ReplayStep, ReplayRefused, ReplayRead, ReplayClaim, ReplayConflict,
               ReplayGone, ReplaySend, ReplayWrite, ReplayResolve, CrashOperator
  <2>2. QED
        BY <2>1, SameRunners
<1>5. Others
      BY DEF TypeOK, ReplayLock, ReplayStep, ReplayRefused, ReplayRead, ReplayClaim, ReplayConflict,
             ReplayGone, ReplaySend, ReplayWrite, ReplayResolve, CrashOperator
<1> HIDE DEF N, M, N2, M2, P, P2
<1>6. CASE ReplayClaim(o)
  <2>1. operator'[o].pc = "send" /\ operator[o].pc = "claim"
        BY <1>6 DEF ReplayClaim, TypeOK, OperatorStates
  <2>2. M2 = M + 1
        BY <2>1, <1>5, OperatorCount DEF Unsent, M, M2
  <2>3. P = 1
        BY <1>6 DEF ReplayClaim, ReplayClaimable, Replayable, OpenSends, Open, P
  <2>4. P2 = 0
    <3>1. Attempting'
          BY <2>1 DEF Attempting
    <3>2. job'.status = "processing" /\ ~ job'.old
          BY <1>6 DEF ReplayClaim, TypeOK, Jobs
    <3>3. QED
          BY <3>1, <3>2 DEF OpenSends, Open, P2
  <2>5. UNCHANGED <<sent, stalls, crashes>>
        BY <1>6 DEF ReplayClaim
  <2>6. QED
        BY <1>1, <1>4, <2>2, <2>3, <2>4, <2>5
<1>7. CASE ReplaySend(o)
  <2>1. PICK out \in SendOutcomes :
           /\ CountSent(out)
           /\ operator' = [operator EXCEPT ![o].pc = "write", ![o].outcome = out]
        BY <1>7 DEF ReplaySend
  <2>2. operator[o].pc = "send" /\ operator'[o].pc = "write" /\ operator'[o].outcome = out
        BY <1>7, <2>1 DEF ReplaySend, TypeOK, OperatorStates
  <2>3. Attempting /\ Attempting'
        BY <2>2 DEF Attempting
  <2>4. P2 = P
        BY <1>7, <2>3 DEF ReplaySend, OpenSends, Open, P, P2
  <2>5. out = "ok" => M2 = M - 1 /\ sent' = sent + 1
        BY <1>5, <2>1, <2>2, OperatorCount DEF Unsent, CountSent, M, M2
  <2>6. out # "ok" => M2 = M /\ sent' = sent
        BY <1>5, <2>1, <2>2, OperatorCount DEF Unsent, CountSent, M, M2
  <2>7. UNCHANGED <<stalls, crashes>>
        BY <1>7 DEF ReplaySend
  <2>8. QED
        BY <1>1, <1>4, <2>4, <2>5, <2>6, <2>7
<1>8. CASE ReplayWrite(o)
  <2>1. operator[o].pc = "write" /\ operator'[o].pc \in {"idle", "resolve"}
        BY <1>8 DEF ReplayWrite, TypeOK, OperatorStates, IdleOperator
  <2>2. UNCHANGED <<sent, stalls, crashes>>
        BY <1>8 DEF ReplayWrite
  <2>3. CASE operator[o].outcome = "ok"
    <3>1. M2 = M
          BY <1>5, <2>1, <2>3, OperatorCount DEF Unsent, M, M2
    <3>2. job'.status = "succeeded"
          BY <1>8, <2>3 DEF ReplayWrite, Result, TypeOK, Jobs
    <3>3. P2 = 0
          BY <3>2 DEF OpenSends, Open, P2
    <3>4. QED
          BY <1>1, <1>4, <2>2, <3>1, <3>3
  <2>4. CASE operator[o].outcome # "ok"
    <3>1. M2 = M - 1
          BY <1>5, <2>1, <2>4, OperatorCount DEF Unsent, M, M2
    <3>2. QED
          BY <1>1, <1>2, <1>4, <2>2, <3>1
  <2>5. QED
        BY <2>3, <2>4
<1>9. CASE \/ ReplayLock(o) \/ ReplayRefused(o) \/ ReplayRead(o) \/ ReplayConflict(o)
           \/ ReplayGone(o) \/ ReplayResolve(o)
  <2>1. ~ Sending(operator[o]) /\ ~ Sending(operator'[o])
        BY <1>9 DEF ReplayLock, ReplayRefused, ReplayRead, ReplayConflict, ReplayGone, ReplayResolve,
                    TypeOK, OperatorStates, IdleOperator
  <2>2. M2 = M
        BY <1>5, <2>1, OperatorCount DEF Unsent, M, M2
  <2>3. Attempting' <=> Attempting
        BY <1>4, <1>5, <2>1 DEF Attempting
  <2>4. P2 = P
    <3>1. CASE job' = job
          BY <2>3, <3>1 DEF OpenSends, Open, P, P2
    <3>2. CASE job.status \in Replayable /\ job'.status = "cancelled"
          BY <3>2 DEF OpenSends, Open, Replayable, P, P2
    <3>3. QED
          BY <1>9, <3>1, <3>2 DEF ReplayLock, ReplayRefused, ReplayRead, ReplayConflict, ReplayGone,
                                  ReplayResolve, TypeOK, Jobs
  <2>5. UNCHANGED <<sent, stalls, crashes>>
        BY <1>9 DEF ReplayLock, ReplayRefused, ReplayRead, ReplayConflict, ReplayGone, ReplayResolve
  <2>6. QED
        BY <1>1, <1>4, <2>2, <2>4, <2>5
<1>10. CASE CrashOperator(o)
  <2>1. /\ operator'[o] = IdleOperator
        /\ UNCHANGED <<sent, stalls>>
        /\ crashes' = crashes + 1
        BY <1>10 DEF CrashOperator, TypeOK
  <2>2. M2 = M \/ M2 = M - 1
        BY <1>5, <2>1, OperatorCount DEF Unsent, IdleOperator, M, M2
  <2>3. QED
        BY <1>1, <1>2, <1>4, <2>1, <2>2
<1>11. QED
      BY <1>6, <1>7, <1>8, <1>9, <1>10 DEF ReplayStep

LEMMA ElsewhereBudget ==
    ASSUME TypeOK, SendBudget, Elsewhere
    PROVE  SendBudget'
<1> DEFINE N == Cardinality(UnsentRunners)
           M == Cardinality(UnsentOperators)
           P == OpenSends
           P2 == OpenSends'
<1>1. runner' = runner /\ operator' = operator /\ UNCHANGED <<sent, crashes>>
      BY DEF Elsewhere, Enqueue, Requeue, Dismiss, PurgeResolved, DeleteTarget, SwitchTarget,
             TimeStep, BackoffEnds, LockAges, RecoverStuck
<1>2. /\ Cardinality(UnsentRunners') = N /\ Cardinality(UnsentOperators') = M
      /\ Attempting' <=> Attempting
      BY <1>1, SameRunners, SameOperators DEF Attempting
<1>3. /\ N \in Nat /\ M \in Nat /\ P \in Nat
      /\ sent \in Nat /\ stalls \in Nat /\ crashes \in Nat
      /\ sent + N + M + P <= 1 + stalls + crashes
      BY Counts DEF SendBudget
<1>4. P2 \in Nat /\ P2 <= 1
      BY DEF OpenSends
<1>5. SUFFICES sent + N + M + P2 <= 1 + stalls' + crashes
      BY <1>1, <1>2 DEF SendBudget
<1> HIDE DEF N, M, P, P2
<1>6. CASE LockAges /\ Attempting
  <2>1. stalls' = stalls + 1
        BY <1>6 DEF LockAges
  <2>2. QED
        BY <1>3, <1>4, <2>1
<1>7. CASE ~ (LockAges /\ Attempting)
  <2>1. stalls' = stalls
        BY <1>7 DEF Elsewhere, Enqueue, Requeue, Dismiss, PurgeResolved, DeleteTarget, SwitchTarget,
                    TimeStep, BackoffEnds, LockAges, RecoverStuck
  <2>2. P = 1 \/ P2 = P
    <3>1. CASE job' = job
          BY <1>2, <3>1 DEF OpenSends, Open, P, P2
    <3>2. CASE job.status \notin {"succeeded", "processing"}
          BY <3>2 DEF OpenSends, Open, P
    <3>3. CASE job.status = "processing" /\ (job.old \/ ~ Attempting)
          BY <3>3 DEF OpenSends, Open, P
    <3>4. QED
          BY <1>7, <3>1, <3>2, <3>3
          DEF Elsewhere, Enqueue, Requeue, Requeueable, Dismiss, PurgeResolved, DeleteTarget, SwitchTarget,
              TimeStep, BackoffEnds, LockAges, RecoverStuck
  <2>3. QED
        BY <1>3, <1>4, <2>1, <2>2
<1>8. QED
      BY <1>6, <1>7

LEMMA InitBudget == Init => SendBudget
<1> SUFFICES ASSUME Init PROVE SendBudget
    OBVIOUS
<1>1. UnsentRunners = {} /\ UnsentOperators = {}
      BY DEF Init, UnsentRunners, UnsentOperators, Unsent, IdleRunner, IdleOperator
<1>2. Cardinality(UnsentRunners) = 0 /\ Cardinality(UnsentOperators) = 0
      BY <1>1, FS_EmptySet
<1>3. OpenSends = 1
      BY DEF Init, OpenSends, Open
<1>4. QED
      BY <1>2, <1>3 DEF Init, SendBudget

LEMMA NextBudget == TypeOK /\ TypeOK' /\ SendBudget /\ [Next]_vars => SendBudget'
<1> SUFFICES ASSUME TypeOK, TypeOK', SendBudget, [Next]_vars PROVE SendBudget'
    OBVIOUS
<1>1. CASE UNCHANGED vars
  <2>1. UnsentRunners' = UnsentRunners /\ UnsentOperators' = UnsentOperators
        BY <1>1, SameRunners, SameOperators DEF vars
  <2>2. OpenSends' = OpenSends
        BY <1>1 DEF vars, OpenSends, Open, Attempting
  <2>3. QED
        BY <1>1, <2>1, <2>2 DEF vars, SendBudget
<1>2. CASE \E r \in Runners : RunnerStep(r) \/ CrashRunner(r)
      BY <1>2, RunnerBudget
<1>3. CASE \E o \in Operators : ReplayLock(o) \/ ReplayStep(o) \/ CrashOperator(o)
      BY <1>3, OperatorBudget
<1>4. CASE Elsewhere
      BY <1>4, ElsewhereBudget
<1>5. QED
      BY <1>1, <1>2, <1>3, <1>4 DEF Next, Elsewhere

(* The inductive invariant: successful sends, attempts that may still      *)
(* succeed and a row that may still be taken never exceed one plus the     *)
(* locks lost and the processes dead (claim, replayDeadJob,                *)
(* recoverStuckJobs).                                                      *)
THEOREM BudgetInvariant == Spec => []SendBudget
<1>1. QED
      BY InitTypes, NextTypes, InitBudget, NextBudget, PTL DEF Spec

(* No delivery is sent twice without a stall or a crash to blame, whatever *)
(* the interleaving of workers, retries, requeues, replays and deletions   *)
(* (integrationDelivery.service.ts).                                       *)
THEOREM DuplicateSendsHaveCauses == Spec => []DuplicatesHaveCauses
<1>1. TypeOK /\ SendBudget => DuplicatesHaveCauses
  <2> SUFFICES ASSUME TypeOK, SendBudget PROVE DuplicatesHaveCauses
      OBVIOUS
  <2>1. /\ Cardinality(UnsentRunners) \in Nat /\ Cardinality(UnsentOperators) \in Nat
        /\ sent \in Nat /\ stalls \in Nat /\ crashes \in Nat /\ OpenSends \in Nat
        BY Counts
  <2>2. QED
        BY <2>1 DEF SendBudget, DuplicatesHaveCauses
<1>2. QED
      BY <1>1, DeliveryTypes, BudgetInvariant, PTL

-----------------------------------------------------------------------------
(* Dead letters.  A failure without a letter has its cause, and so has a   *)
(* replay that may still record one: its letter cannot be resolved under   *)
(* it.                                                                     *)
LetterInv == FailureHasLetter /\ ReplayHasLetter

LEMMA LetterSame ==
    ASSUME LetterOrCause, UNCHANGED <<sent, dlq, lost, runner>>
    PROVE  LetterOrCause'
BY DEF LetterOrCause, HasLetter, LetterComing, NoDeadLetter

LEMMA RunnerLetters ==
    ASSUME TypeOK, LetterInv, NEW r \in Runners, RunnerStep(r) \/ CrashRunner(r)
    PROVE  LetterInv'
<1> USE DEF TypeOK, LetterInv, FailureHasLetter, ReplayHasLetter, LetterOrCause, LetterComing, HasLetter, NoDeadLetter
<1>1. operator' = operator
      BY DEF RunnerStep, Claim, Send, WriteDone, WriteRetry, WriteFailed, BurySelect, Bury, BuryFails, CrashRunner
<1>2. CASE Claim(r)
      BY <1>1, <1>2 DEF Claim, Claimable, Jobs, RunnerStates
<1>3. CASE Send(r)
  <2>1. PICK out \in SendOutcomes :
           /\ CountSent(out)
           /\ runner' = [runner EXCEPT ![r].pc = "write", ![r].outcome = out]
        BY <1>3 DEF Send
  <2>2. UNCHANGED <<job, dlq, lost>> /\ runner[r].pc = "send"
        BY <1>3 DEF Send
  <2>3. sent' > 0 \/ (sent' = sent /\ out # "ok")
        BY <2>1 DEF CountSent
  <2>4. sent > 0 => sent' > 0
        BY <2>1 DEF CountSent
  <2>5. \A s \in Runners : s # r => runner'[s] = runner[s]
        BY <2>1
  <2>6. LetterOrCause => LetterOrCause'
    <3>1. LetterComing => LetterComing'
          BY <2>2, <2>5
    <3>2. QED
          BY <2>2, <2>3, <3>1
  <2>7. \A s \in Runners : runner'[s].outcome = "ok" => sent' > 0
        BY <2>1, <2>3, <2>4, <2>5 DEF RunnerStates
  <2>8. QED
        BY <1>1, <2>2, <2>4, <2>6, <2>7
<1>4. CASE WriteDone(r) \/ WriteRetry(r)
  <2>1. /\ UNCHANGED <<dlq, sent, lost>> /\ runner[r].pc = "write"
        /\ runner' = [runner EXCEPT ![r] = IdleRunner]
        BY <1>4 DEF WriteDone, WriteRetry
  <2>2. job'.status # "failed" /\ (job'.status = "succeeded" => sent > 0)
        BY <1>4 DEF WriteDone, WriteRetry, Result, Jobs
  <2>3. LetterOrCause => LetterOrCause'
        BY <2>1
  <2>4. \A s \in Runners : runner'[s].outcome = "ok" => sent' > 0
        BY <2>1 DEF IdleRunner
  <2>5. QED
        BY <1>1, <2>1, <2>2, <2>3, <2>4
<1>5. CASE WriteFailed(r)
  <2>1. /\ runner' = [runner EXCEPT ![r] = [IdleRunner EXCEPT !.pc = "bury"]]
        /\ sent' = sent
        BY <1>5 DEF WriteFailed
  <2>2. job'.status = "failed"
        BY <1>5 DEF WriteFailed, Result, Jobs
  <2>3. runner'[r].pc = "bury"
        BY <2>1 DEF IdleRunner
  <2>4. LetterComing'
        BY <2>3
  <2>5. \A s \in Runners : runner'[s].outcome = "ok" => sent' > 0
        BY <2>1 DEF IdleRunner
  <2>6. QED
        BY <1>1, <2>1, <2>2, <2>4, <2>5
<1>6. CASE BurySelect(r)
  <2>1. /\ UNCHANGED <<job, dlq, sent, lost>> /\ runner[r].pc = "bury"
        /\ runner' = [runner EXCEPT ![r].pc = IF NoDeadLetter THEN "reinsert" ELSE "rebury"]
        BY <1>6 DEF BurySelect
  <2>2. LetterComing'
        BY <2>1 DEF RunnerStates
  <2>3. \A s \in Runners : runner'[s].outcome = "ok" => sent' > 0
        BY <2>1 DEF RunnerStates
  <2>4. QED
        BY <1>1, <2>1, <2>2, <2>3
<1>7. CASE Bury(r)
  <2>1. /\ UNCHANGED <<job, sent>>
        /\ runner' = [runner EXCEPT ![r] = IdleRunner]
        BY <1>7 DEF Bury
  <2>2. CASE NoDeadLetter
    <3>1. dlq' = "quarantined" \/ lost'
          BY <1>7, <2>2 DEF Bury, Requarantine
    <3>2. QED
          BY <1>1, <2>1, <3>1 DEF IdleRunner
  <2>3. CASE ~ NoDeadLetter
    <3>1. dlq' = "quarantined" \/ (runner[r].pc = "reinsert" /\ dlq' = dlq)
          BY <1>7, <2>3 DEF Bury, Requarantine
    <3>2. lost' = (dlq' # "quarantined" /\ (lost \/ NoDeadLetter))
          BY <1>7 DEF Bury
    <3>3. CASE dlq' = "quarantined"
          BY <1>1, <2>1, <3>3 DEF IdleRunner
    <3>4. CASE runner[r].pc = "reinsert" /\ dlq' = dlq /\ dlq' # "quarantined"
      <4>1. LetterComing => LetterComing'
            BY <2>1, <2>3, <3>4
      <4>2. LetterOrCause => LetterOrCause'
            BY <2>1, <3>4, <3>2, <4>1
      <4>3. QED
            BY <1>1, <2>1, <4>2 DEF IdleRunner
    <3>5. QED
          BY <3>1, <3>3, <3>4
  <2>4. QED
        BY <2>2, <2>3
<1>8. CASE BuryFails(r) \/ CrashRunner(r)
  <2>1. /\ UNCHANGED <<job, dlq, sent>>
        /\ runner' = [runner EXCEPT ![r] = IdleRunner]
        /\ lost' = (lost \/ (runner[r].pc \in Burying /\ ~ HasLetter))
        BY <1>8 DEF BuryFails, CrashRunner
  <2>2. LetterOrCause => LetterOrCause'
        BY <2>1 DEF Burying
  <2>3. \A s \in Runners : runner'[s].outcome = "ok" => sent' > 0
        BY <2>1 DEF IdleRunner
  <2>4. QED
        BY <1>1, <2>1, <2>2, <2>3
<1>9. QED
      BY <1>2, <1>3, <1>4, <1>5, <1>6, <1>7, <1>8 DEF RunnerStep

LEMMA OperatorLetters ==
    ASSUME TypeOK, LetterInv, NEW o \in Operators, ReplayLock(o) \/ ReplayStep(o) \/ CrashOperator(o)
    PROVE  LetterInv'
<1> USE DEF TypeOK, LetterInv, FailureHasLetter, ReplayHasLetter
<1>1. runner' = runner
      BY DEF ReplayLock, ReplayStep, ReplayRefused, ReplayRead, ReplayClaim, ReplayConflict,
             ReplayGone, ReplaySend, ReplayWrite, ReplayResolve, CrashOperator
<1>2. \A p \in Operators \ {o} : operator'[p] = operator[p]
      BY DEF ReplayLock, ReplayStep, ReplayRefused, ReplayRead, ReplayClaim, ReplayConflict,
             ReplayGone, ReplaySend, ReplayWrite, ReplayResolve, CrashOperator
<1>3. CASE ReplayLock(o)
  <2>1. UNCHANGED <<job, sent, dlq, lost>> /\ operator' = [operator EXCEPT ![o].pc = "locked"]
        /\ \A p \in Operators : operator[p].pc = "idle"
        BY <1>3 DEF ReplayLock, RowBusy
  <2>2. operator'[o].pc = "locked" /\ operator'[o].outcome = operator[o].outcome
        BY <2>1 DEF OperatorStates
  <2>3. LetterOrCause => LetterOrCause'
        BY <1>1, <2>1, LetterSame
  <2>4. QED
        BY <1>1, <1>2, <2>1, <2>2, <2>3
<1>4. CASE ReplayRefused(o) \/ ReplayConflict(o) \/ CrashOperator(o)
  <2>1. UNCHANGED <<job, sent, dlq, lost>> /\ operator' = [operator EXCEPT ![o] = IdleOperator]
        BY <1>4 DEF ReplayRefused, ReplayConflict, CrashOperator
  <2>2. operator'[o] = IdleOperator
        BY <2>1
  <2>3. LetterOrCause => LetterOrCause'
        BY <1>1, <2>1, LetterSame
  <2>4. QED
        BY <1>1, <1>2, <2>1, <2>2, <2>3 DEF IdleOperator
<1>5. CASE ReplayRead(o)
  <2>1. UNCHANGED <<job, sent, dlq, lost>> /\ HasLetter /\ operator[o].pc = "locked"
        BY <1>5 DEF ReplayRead, HasLetter
  <2>2. /\ operator'[o].pc = IF job.status = "succeeded" THEN "resolve" ELSE "claim"
        /\ operator'[o].outcome = "none"
        BY <1>5 DEF ReplayRead
  <2>3. LetterOrCause'
        BY <1>1, <2>1 DEF LetterOrCause, HasLetter
  <2>4. QED
        BY <1>1, <1>2, <2>1, <2>2, <2>3
<1>6. CASE ReplayClaim(o)
  <2>1. UNCHANGED <<sent, dlq, lost>> /\ operator[o].pc = "claim" /\ operator' = [operator EXCEPT ![o].pc = "send"]
        BY <1>6 DEF ReplayClaim
  <2>2. job'.status = "processing"
        BY <1>6 DEF ReplayClaim, Jobs
  <2>3. operator'[o].pc = "send" /\ operator'[o].outcome = operator[o].outcome
        BY <2>1 DEF OperatorStates
  <2>4. LetterOrCause => LetterOrCause'
        BY <1>1, <2>1, LetterSame
  <2>5. QED
        BY <1>1, <1>2, <2>1, <2>2, <2>3, <2>4
<1>7. CASE ReplayGone(o)
  <2>1. UNCHANGED <<sent, dlq, lost>> /\ operator' = [operator EXCEPT ![o] = IdleOperator]
        BY <1>7 DEF ReplayGone
  <2>2. job' = job \/ job'.status = "cancelled"
        BY <1>7 DEF ReplayGone, Jobs
  <2>3. operator'[o] = IdleOperator
        BY <2>1
  <2>4. LetterOrCause => LetterOrCause'
        BY <1>1, <2>1, LetterSame
  <2>5. QED
        BY <1>1, <1>2, <2>1, <2>2, <2>3, <2>4 DEF IdleOperator
<1>8. CASE ReplaySend(o)
  <2>1. PICK out \in SendOutcomes :
           /\ CountSent(out)
           /\ operator' = [operator EXCEPT ![o].pc = "write", ![o].outcome = out]
        BY <1>8 DEF ReplaySend
  <2>2. UNCHANGED <<job, dlq, lost>> /\ operator[o].pc = "send"
        BY <1>8 DEF ReplaySend
  <2>3. operator'[o].pc = "write" /\ operator'[o].outcome = out
        BY <2>1 DEF OperatorStates
  <2>4. (sent > 0 => sent' > 0) /\ (out = "ok" => sent' > 0) /\ (sent' = 0 => sent = 0)
        BY <2>1 DEF CountSent
  <2>5. LetterOrCause => LetterOrCause'
        BY <1>1, <2>2, <2>4 DEF LetterOrCause, LetterComing, HasLetter, NoDeadLetter
  <2>6. QED
        BY <1>1, <1>2, <2>2, <2>3, <2>4, <2>5
<1>9. CASE ReplayWrite(o)
  <2>1. UNCHANGED <<sent, dlq, lost>> /\ operator[o].pc = "write"
        BY <1>9 DEF ReplayWrite
  <2>2. job'.status = "succeeded" => sent > 0
        BY <1>9 DEF ReplayWrite, Result, Jobs
  <2>3. \/ operator'[o] = IdleOperator
        \/ sent > 0 /\ operator'[o].pc = "resolve"
        BY <1>9 DEF ReplayWrite, OperatorStates
  <2>4. LetterOrCause /\ LetterOrCause'
        BY <1>1, <2>1, LetterSame
  <2>5. QED
        BY <1>1, <1>2, <2>1, <2>2, <2>3, <2>4 DEF IdleOperator
<1>10. CASE ReplayResolve(o)
  <2>1. UNCHANGED <<job, sent, lost>> /\ operator[o].pc = "resolve" /\ operator' = [operator EXCEPT ![o] = IdleOperator]
        BY <1>10 DEF ReplayResolve
  <2>2. sent > 0 /\ LetterOrCause'
        BY <2>1 DEF LetterOrCause
  <2>3. operator'[o] = IdleOperator
        BY <2>1
  <2>4. QED
        BY <1>1, <1>2, <2>1, <2>2, <2>3 DEF IdleOperator
<1>11. QED
      BY <1>3, <1>4, <1>5, <1>6, <1>7, <1>8, <1>9, <1>10 DEF ReplayStep

LEMMA ElsewhereLetters ==
    ASSUME TypeOK, LetterInv, Elsewhere
    PROVE  LetterInv'
<1> USE DEF TypeOK, LetterInv, FailureHasLetter, ReplayHasLetter
<1>1. runner' = runner /\ operator' = operator /\ sent' = sent
      BY DEF Elsewhere, Enqueue, Requeue, Dismiss, PurgeResolved, DeleteTarget, SwitchTarget,
             TimeStep, BackoffEnds, LockAges, RecoverStuck
<1>2. CASE Enqueue \/ DeleteTarget \/ SwitchTarget \/ TimeStep
  <2>1. UNCHANGED <<dlq, lost>>
        BY <1>2 DEF Enqueue, DeleteTarget, SwitchTarget, TimeStep, BackoffEnds, LockAges, RecoverStuck
  <2>2. job'.status \in {"failed", "succeeded"} => job.status = job'.status
        BY <1>2 DEF Enqueue, DeleteTarget, SwitchTarget, TimeStep, BackoffEnds, LockAges, RecoverStuck, Jobs
  <2>3. LetterOrCause => LetterOrCause'
        BY <1>1, <2>1, LetterSame
  <2>4. QED
        BY <1>1, <2>2, <2>3
<1>3. CASE Requeue
  <2>1. \A o \in Operators : operator[o].pc = "idle"
        BY <1>3 DEF Requeue, RowBusy
  <2>2. job'.status # "failed" /\ (job'.status = "succeeded" => job.status = "succeeded")
        BY <1>3 DEF Requeue, Requeueable
  <2>3. QED
        BY <1>1, <2>1, <2>2
<1>4. CASE Dismiss
      BY <1>1, <1>4 DEF Dismiss, LetterOrCause, HasLetter
<1>5. CASE PurgeResolved
  <2>1. /\ dlq \in {"replayed", "dismissed"} /\ dlq' = "purged"
        /\ lost' = (lost \/ dlq = "dismissed") /\ job' = job
        BY <1>5 DEF PurgeResolved
  <2>2. LetterOrCause => LetterOrCause'
        BY <1>1, <2>1 DEF LetterOrCause, HasLetter, LetterComing, NoDeadLetter
  <2>3. QED
        BY <1>1, <2>1, <2>2
<1>6. QED
      BY <1>2, <1>3, <1>4, <1>5 DEF Elsewhere

LEMMA NextLetters == TypeOK /\ LetterInv /\ [Next]_vars => LetterInv'
<1> SUFFICES ASSUME TypeOK, LetterInv, [Next]_vars PROVE LetterInv'
    OBVIOUS
<1>1. CASE UNCHANGED vars
      BY <1>1, LetterSame DEF vars, LetterInv, FailureHasLetter, ReplayHasLetter
<1>2. CASE \E r \in Runners : RunnerStep(r) \/ CrashRunner(r)
      BY <1>2, RunnerLetters
<1>3. CASE \E o \in Operators : ReplayLock(o) \/ ReplayStep(o) \/ CrashOperator(o)
      BY <1>3, OperatorLetters
<1>4. CASE Elsewhere
      BY <1>4, ElsewhereLetters
<1>5. QED
      BY <1>1, <1>2, <1>3, <1>4 DEF Next, Elsewhere

(* A delivery that failed and was never sent has its letter, or its burial *)
(* is under way, or the letter is lost in one of the ways the code has of  *)
(* losing it (attempt, moveToDeadLetter, purgeResolved).                   *)
THEOREM FailuresHaveLetters == Spec => []FailureHasLetter
<1>1. Init => LetterInv
      BY DEF Init, LetterInv, FailureHasLetter, ReplayHasLetter, IdleRunner, IdleOperator
<1>2. LetterInv => FailureHasLetter
      BY DEF LetterInv
<1>3. QED
      BY <1>1, <1>2, DeliveryTypes, NextLetters, PTL DEF Spec
=============================================================================
