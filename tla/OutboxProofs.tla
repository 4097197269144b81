---------------------------- MODULE OutboxProofs ----------------------------
(* Proofs about Outbox, for any sets of workers, recovery timers,          *)
(* administrators and handlers, and any limits and delays.                 *)
EXTENDS Outbox, TLAPS

(* The retry counts and types are preserved together: a count below the    *)
(* limit when the event is claimed is what keeps the next one within it.   *)
TypeInv == TypeOK /\ RetryInv

(* Moving an actor to another step, with what it learned, keeps its type. *)
LEMMA WorkerUpdate ==
    ASSUME worker \in [Workers -> WorkerStates], NEW w \in Workers, NEW p \in WorkerPcs
    PROVE  /\ [worker EXCEPT ![w].pc = p] \in [Workers -> WorkerStates]
           /\ \A hs \in SUBSET Handlers :
                 [worker EXCEPT ![w].pc = p, ![w].done = hs] \in [Workers -> WorkerStates]
           /\ \A a \in 0..MaxBatchAge :
                 [worker EXCEPT ![w].pc = p, ![w].age = a] \in [Workers -> WorkerStates]
<1>1. worker[w] \in WorkerStates
      OBVIOUS
<1>2. [worker[w] EXCEPT !.pc = p] \in WorkerStates
      BY <1>1 DEF WorkerStates
<1>3. ASSUME NEW hs \in SUBSET Handlers
      PROVE  [[worker[w] EXCEPT !.pc = p] EXCEPT !.done = hs] \in WorkerStates
      BY <1>1 DEF WorkerStates
<1>4. ASSUME NEW a \in 0..MaxBatchAge
      PROVE  [[worker[w] EXCEPT !.pc = p] EXCEPT !.age = a] \in WorkerStates
      BY <1>1 DEF WorkerStates
<1>5. QED
      BY <1>2, <1>3, <1>4

(* The rows that a finished worker and a recovery timer write. *)
LEMMA EventUpdate ==
    ASSUME ev \in Events, NEW hs \in SUBSET Handlers, NEW n \in Retries
    PROVE  /\ [ev EXCEPT !.status = "completed", !.lockAge = 0, !.done = hs] \in Events
           /\ [ev EXCEPT !.status = "failed", !.retry = n, !.lockAge = 0] \in Events
           /\ [ev EXCEPT !.status = "pending", !.retry = n, !.lockAge = 0, !.due = Always] \in Events
<1>1. 0 \in 0..StuckAfter /\ Always \in (0 - Backoff)..Always
      BY OutboxAssumption DEF Always
<1>2. "completed" \in EventStatus /\ "failed" \in EventStatus /\ "pending" \in EventStatus
      BY DEF EventStatus
<1>3. QED
      BY <1>1, <1>2 DEF Events

LEMMA CompletedRowType ==
    ASSUME TypeOK, NEW w \in Workers
    PROVE  [ev EXCEPT !.status = "completed", !.lockAge = 0, !.done = worker[w].done] \in Events
<1>1. worker[w].done \in SUBSET Handlers /\ 0 \in Retries
      BY OutboxAssumption DEF TypeOK, WorkerStates, Retries
<1>2. QED
      BY <1>1, EventUpdate DEF TypeOK

LEMMA RecoveredRowType ==
    ASSUME TypeOK, NEW n \in Retries
    PROVE  /\ [ev EXCEPT !.status = "failed", !.retry = n, !.lockAge = 0] \in Events
           /\ [ev EXCEPT !.status = "pending", !.retry = n, !.lockAge = 0, !.due = Always] \in Events
<1>1. {} \in SUBSET Handlers
      OBVIOUS
<1>2. QED
      BY <1>1, EventUpdate DEF TypeOK

LEMMA RequeuedType ==
    ASSUME TypeOK
    PROVE  /\ Requeued \in Events
           /\ [Requeued EXCEPT !.since = 0, !.done = {}] \in Events
           /\ [ev EXCEPT !.status = "pending", !.retry = 0] \in Events
<1>1. 0 \in 0..StuckAfter /\ Always \in (0 - Backoff)..Always /\ 0 \in Retries /\ "pending" \in EventStatus
      BY OutboxAssumption DEF Always, Retries, EventStatus
<1>2. QED
      BY <1>1 DEF TypeOK, Requeued, Events

LEMMA RecoveryUpdate ==
    ASSUME recovery \in [Recoverers -> RecoveryStates], NEW c \in Recoverers, NEW p \in {"rebury", "reinsert"}
    PROVE  [recovery EXCEPT ![c].pc = p] \in [Recoverers -> RecoveryStates]
<1>1. [recovery[c] EXCEPT !.pc = p] \in RecoveryStates
      BY DEF RecoveryStates
<1>2. QED
      BY <1>1

LEMMA OperatorUpdate ==
    ASSUME operator \in [Operators -> OperatorStates], NEW o \in Operators, NEW hs \in SUBSET Handlers
    PROVE  [operator EXCEPT ![o].pc = "save", ![o].done = hs] \in [Operators -> OperatorStates]
<1>1. [[operator[o] EXCEPT !.pc = "save"] EXCEPT !.done = hs] \in OperatorStates
      BY DEF OperatorStates
<1>2. QED
      BY <1>1

LEMMA OperatorPc ==
    ASSUME operator \in [Operators -> OperatorStates], NEW o \in Operators
    PROVE  [operator EXCEPT ![o].pc = "complete"] \in [Operators -> OperatorStates]
<1>1. [operator[o] EXCEPT !.pc = "complete"] \in OperatorStates
      BY DEF OperatorStates
<1>2. QED
      BY <1>1

LEMMA TypeInvStep == TypeInv /\ [Next]_vars => TypeInv'
<1> SUFFICES ASSUME TypeInv, [Next]_vars
             PROVE  TypeInv'
    OBVIOUS
<1> USE OutboxAssumption DEF TypeInv, TypeOK, RetryInv, Events, EventStatus, DlqStatus, Retries, Always,
        WorkerStates, WorkerPcs, RecoveryStates, OperatorStates, IdleWorker, IdleRecovery, IdleOperator
<1>1. ASSUME NEW w \in Workers, StartBatch(w)
      PROVE  TypeInv'
      BY <1>1 DEF StartBatch, Due
<1>2. ASSUME NEW w \in Workers, Claim(w)
      PROVE  TypeInv'
      <2>1. Least(worker[w].age, StuckAfter) \in 0..StuckAfter
            BY DEF Least
      <2>2. ev' \in Events
            BY <1>2, <2>1 DEF Claim
      <2>3. worker' \in [Workers -> WorkerStates]
            <3>1. "dispatch" \in WorkerPcs /\ 0 \in 0..MaxBatchAge
                  OBVIOUS
            <3>2. worker' = [worker EXCEPT ![w].pc = "dispatch", ![w].age = 0]
                  BY <1>2 DEF Claim
            <3>3. QED
                  BY ONLY TypeOK, <3>1, <3>2, WorkerUpdate, w \in Workers DEF TypeOK
      <2>4. RetryInv'
            BY <1>2 DEF Claim, Due
      <2>5. QED
            BY <1>2, <2>2, <2>3, <2>4 DEF Claim
<1>3. ASSUME NEW w \in Workers, ClaimLost(w)
      PROVE  TypeInv'
      BY <1>3 DEF ClaimLost
<1>4. ASSUME NEW w \in Workers, Dispatch(w)
      PROVE  TypeInv'
      <2>1. PICK succeeded \in SUBSET (Handlers \ worker[w].done) :
               /\ RunHandlers(succeeded)
               /\ worker' = [worker EXCEPT ![w].pc = "write", ![w].done = @ \cup succeeded]
            BY <1>4 DEF Dispatch
      <2>2. worker' \in [Workers -> WorkerStates]
            <3>1. worker[w].done \cup succeeded \in SUBSET Handlers
                  OBVIOUS
            <3>2. QED
                  BY <2>1, <3>1, WorkerUpdate
      <2>3. ran' \in [Handlers -> 0..2]
            BY <2>1 DEF RunHandlers, Least
      <2>4. RetryInv'
            BY <1>4, <2>1 DEF Dispatch
      <2>5. QED
            BY <1>4, <2>2, <2>3, <2>4 DEF Dispatch
<1>5. ASSUME NEW w \in Workers, MarkCompleted(w)
      PROVE  TypeInv'
      <2>1. ev' \in Events
            <3>1. [ev EXCEPT !.status = "completed", !.lockAge = 0, !.done = worker[w].done] \in Events
                  BY CompletedRowType
            <3>2. QED
                  BY <1>5, <3>1 DEF MarkCompleted, Write
      <2>2. worker' \in [Workers -> WorkerStates]
            BY <1>5 DEF MarkCompleted
      <2>3. RetryInv'
            BY <1>5 DEF MarkCompleted, Write
      <2>4. QED
            BY <1>5, <2>1, <2>2, <2>3 DEF MarkCompleted
<1>6. ASSUME NEW w \in Workers, MarkRetry(w)
      PROVE  TypeInv'
      BY <1>6 DEF MarkRetry, Write, FinalFailure
<1>7. ASSUME NEW w \in Workers, MarkFailed(w)
      PROVE  TypeInv'
      <2>1. /\ Write([status |-> "failed", retry |-> worker[w].retry + 1, due |-> Always,
                      since |-> ev.since, lockAge |-> 0, done |-> worker[w].done])
            /\ worker' = [worker EXCEPT ![w] = [IdleWorker EXCEPT !.pc = "bury"]]
            /\ worker[w].pc = "write" /\ lost' = FALSE
            /\ UNCHANGED <<dlq, recovery, operator, ran, taken, crashes>>
            BY <1>7 DEF MarkFailed
      <2>2. ev' \in Events
            BY <2>1 DEF Write
      <2>3. worker' \in [Workers -> WorkerStates]
            BY <2>1
      <2>4. RetryInv'
            BY <2>1 DEF Write
      <2>5. QED
            BY <2>1, <2>2, <2>3, <2>4
<1>8. ASSUME NEW w \in Workers, BurySelect(w) \/ Bury(w) \/ BuryFails(w)
      PROVE  TypeInv'
      <2>1. worker' \in [Workers -> WorkerStates]
            <3>1. BuryNext \in WorkerPcs
                  BY DEF BuryNext
            <3>2. CASE BurySelect(w)
                  BY ONLY TypeOK, <3>1, <3>2, WorkerUpdate, w \in Workers DEF BurySelect, TypeOK
            <3>3. CASE Bury(w) \/ BuryFails(w)
                  BY <3>3 DEF Bury, BuryFails
            <3>4. QED
                  BY <1>8, <3>2, <3>3
      <2>2. RetryInv'
            <3>1. /\ UNCHANGED <<ev, recovery>>
                  /\ worker' = [worker EXCEPT ![w].pc = BuryNext] \/ worker' = [worker EXCEPT ![w] = IdleWorker]
                  BY <1>8 DEF BurySelect, Bury, BuryFails
            <3>2. BuryNext \in {"rebury", "reinsert"}
                  BY DEF BuryNext
            <3>3. QED
                  BY <3>1, <3>2
      <2>3. QED
            BY <1>8, <2>1, <2>2 DEF BurySelect, Bury, BuryFails, Requarantine, InsertQuarantined
<1>9. ASSUME NEW c \in Recoverers, RecoverSelect(c)
      PROVE  TypeInv'
      BY <1>9 DEF RecoverSelect, Stuck
<1>10. ASSUME NEW c \in Recoverers, RecoverPending(c)
      PROVE  TypeInv'
      <2>1. recovery[c].retry \in Nat /\ recovery[c].retry + 1 \in Retries
            BY <1>10 DEF RecoverPending, FinalFailure
      <2>2. ev' \in Events
            <3>1. [ev EXCEPT !.status = "pending", !.retry = recovery[c].retry + 1, !.lockAge = 0, !.due = Always] \in Events
                  BY <2>1, RecoveredRowType
            <3>2. QED
                  BY <1>10, <3>1 DEF RecoverPending, Write
      <2>3. recovery' \in [Recoverers -> RecoveryStates]
            BY <1>10 DEF RecoverPending
      <2>4. RetryInv'
            BY <1>10 DEF RecoverPending, Write
      <2>5. QED
            BY <1>10, <2>2, <2>3, <2>4 DEF RecoverPending
<1>11. ASSUME NEW c \in Recoverers, RecoverFailed(c)
      PROVE  TypeInv'
      <2>1. recovery[c].retry \in Nat /\ recovery[c].retry + 1 \in Retries
            BY <1>11 DEF RecoverFailed, FinalFailure
      <2>2. ev' \in Events
            <3>1. [ev EXCEPT !.status = "failed", !.retry = recovery[c].retry + 1, !.lockAge = 0] \in Events
                  BY <2>1, RecoveredRowType
            <3>2. QED
                  BY <1>11, <3>1 DEF RecoverFailed, Write
      <2>3. recovery' \in [Recoverers -> RecoveryStates]
            BY <1>11 DEF RecoverFailed
      <2>4. RetryInv'
            BY <1>11 DEF RecoverFailed, Write
      <2>5. QED
            BY <1>11, <2>2, <2>3, <2>4 DEF RecoverFailed
<1>12. ASSUME NEW c \in Recoverers, RecoverBurySelect(c) \/ RecoverBury(c) \/ RecoverBuryFails(c)
      PROVE  TypeInv'
      <2>1. /\ UNCHANGED <<ev, worker>>
            /\ \/ recovery' = [recovery EXCEPT ![c].pc = BuryNext]
               \/ recovery' = [recovery EXCEPT ![c] = IdleRecovery]
            BY <1>12 DEF RecoverBurySelect, RecoverBury, RecoverBuryFails
      <2>2. BuryNext \in {"rebury", "reinsert"}
            BY DEF BuryNext
      <2>3. recovery' \in [Recoverers -> RecoveryStates]
            <3>1. CASE recovery' = [recovery EXCEPT ![c].pc = BuryNext]
                  BY ONLY TypeOK, <3>1, <2>2, RecoveryUpdate, c \in Recoverers DEF TypeOK
            <3>2. CASE recovery' = [recovery EXCEPT ![c] = IdleRecovery]
                  BY <3>2
            <3>3. QED
                  BY <2>1, <3>1, <3>2
      <2>4. RetryInv'
            BY <2>1, <2>2
      <2>5. QED
            BY <1>12, <2>3, <2>4 DEF RecoverBurySelect, RecoverBury, RecoverBuryFails, Requarantine, InsertQuarantined
<1>13. ASSUME NEW o \in Operators, ReplayLock(o) \/ ReplayRefused(o) \/ ReplayRead(o)
      PROVE  TypeInv'
      <2>1. operator' \in [Operators -> OperatorStates]
            BY <1>13 DEF ReplayLock, ReplayRefused, ReplayRead
      <2>2. QED
            BY <1>13, <2>1 DEF ReplayLock, ReplayRefused, ReplayRead
<1>14. ASSUME NEW o \in Operators, ReplayDispatch(o)
      PROVE  TypeInv'
      <2>1. PICK succeeded \in SUBSET (Handlers \ operator[o].done) :
               /\ RunHandlers(succeeded)
               /\ operator' = [operator EXCEPT ![o].pc = "save", ![o].done = @ \cup succeeded]
            BY <1>14 DEF ReplayDispatch
      <2>2. operator' \in [Operators -> OperatorStates]
            <3>1. operator[o].done \cup succeeded \in SUBSET Handlers
                  OBVIOUS
            <3>2. operator' = [operator EXCEPT ![o].pc = "save", ![o].done = operator[o].done \cup succeeded]
                  BY <2>1
            <3>3. QED
                  BY ONLY TypeOK, <3>1, <3>2, OperatorUpdate, o \in Operators DEF TypeOK
      <2>3. ran' \in [Handlers -> 0..2]
            BY <2>1 DEF RunHandlers, Least
      <2>4. QED
            BY <1>14, <2>2, <2>3 DEF ReplayDispatch
<1>15. ASSUME NEW o \in Operators, ReplaySave(o)
      PROVE  TypeInv'
      BY <1>15 DEF ReplaySave, ReplayOutcome, Write
<1>16. ASSUME NEW o \in Operators, ReplayResolve(o) \/ ReplayComplete(o)
      PROVE  TypeInv'
      <2>1. operator' \in [Operators -> OperatorStates]
            <3>1. CASE ReplayResolve(o)
                  BY ONLY TypeOK, <3>1, OperatorPc, o \in Operators DEF ReplayResolve, TypeOK
            <3>2. CASE ReplayComplete(o)
                  BY <3>2 DEF ReplayComplete
            <3>3. QED
                  BY <1>16, <3>1, <3>2
      <2>2. ev' \in Events
            BY <1>16 DEF ReplayResolve, ReplayComplete, Write
      <2>3. RetryInv'
            BY <1>16 DEF ReplayResolve, ReplayComplete, Write
      <2>4. QED
            BY <1>16, <2>1, <2>2, <2>3 DEF ReplayResolve, ReplayComplete
<1>17. ASSUME AdminStep
      PROVE  TypeInv'
      <2>1. ev' \in Events
            <3>1. CASE RetryFailed \/ RequeueUnresolved \/ ResetStuck
                  BY <3>1, RequeuedType DEF RetryFailed, RequeueUnresolved, ResetStuck
            <3>2. CASE Dismiss \/ PurgeResolved
                  BY <3>2 DEF Dismiss, PurgeResolved
            <3>3. QED
                  BY <1>17, <3>1, <3>2 DEF AdminStep
      <2>2. dlq' \in DlqStatus
            BY <1>17 DEF AdminStep, RetryFailed, RequeueUnresolved, ResetStuck, Dismiss, PurgeResolved
      <2>3. RetryInv'
            BY <1>17 DEF AdminStep, RetryFailed, RequeueUnresolved, ResetStuck, Dismiss, PurgeResolved, Requeued
      <2>4. QED
            BY <1>17, <2>1, <2>2, <2>3 DEF AdminStep, RetryFailed, RequeueUnresolved, ResetStuck, Dismiss, PurgeResolved
<1>18. ASSUME RecordEvent \/ PurgeProcessed
      PROVE  TypeInv'
      BY <1>18 DEF RecordEvent, PurgeProcessed
<1>19. ASSUME NEW w \in Workers, CrashWorker(w)
      PROVE  TypeInv'
      BY <1>19 DEF CrashWorker
<1>20. ASSUME NEW c \in Recoverers, CrashRecovery(c)
      PROVE  TypeInv'
      BY <1>20 DEF CrashRecovery
<1>21. ASSUME NEW o \in Operators, CrashOperator(o)
      PROVE  TypeInv'
      BY <1>21 DEF CrashOperator
<1>22. ASSUME Tick
      PROVE  TypeInv'
      <2>1. ev' \in Events
            <3>1. (IF ev.due < MaxBatchAge THEN ev.due + 1 ELSE ev.due) \in (0 - Backoff)..Always
                  OBVIOUS
            <3>2. (IF ev.status = "processing" THEN Least(ev.lockAge + 1, StuckAfter) ELSE ev.lockAge) \in 0..StuckAfter
                  BY DEF Least
            <3>3. (IF ev.status = "unrecorded" THEN ev.since ELSE Least(ev.since + 1, StuckAfter)) \in 0..StuckAfter
                  BY DEF Least
            <3>4. QED
                  BY <1>22, <3>1, <3>2, <3>3 DEF Tick
      <2>2. worker' \in [Workers -> WorkerStates]
            BY <1>22 DEF Tick
      <2>3. RetryInv'
            BY <1>22 DEF Tick
      <2>4. QED
            BY <1>22, <2>1, <2>2, <2>3 DEF Tick
<1>23. CASE UNCHANGED vars
      BY <1>23 DEF vars
<1>24. QED
      BY <1>1, <1>2, <1>3, <1>4, <1>5, <1>6, <1>7, <1>8, <1>9, <1>10, <1>11, <1>12, <1>13, <1>14, <1>15, <1>16, <1>17, <1>18, <1>19, <1>20, <1>21, <1>22, <1>23
      DEF Next, WorkerStep, RecoveryStep, ReplayStep

LEMMA HandlersStep == TypeOK /\ HandlersInv /\ [Next]_vars => HandlersInv'
<1> SUFFICES ASSUME TypeOK, HandlersInv, [Next]_vars
             PROVE  HandlersInv'
    OBVIOUS
<1> USE DEF TypeOK, HandlersInv, Ran, Events, WorkerStates, OperatorStates,
        IdleWorker, IdleOperator
<1>1. ASSUME NEW w \in Workers, StartBatch(w)
      PROVE  HandlersInv'
      BY <1>1 DEF StartBatch, Due
<1>2. ASSUME NEW w \in Workers, Claim(w)
      PROVE  HandlersInv'
      BY <1>2 DEF Claim, Due, Least
<1>3. ASSUME NEW w \in Workers, ClaimLost(w)
      PROVE  HandlersInv'
      BY <1>3 DEF ClaimLost
<1>4. ASSUME NEW w \in Workers, Dispatch(w)
      PROVE  HandlersInv'
      BY <1>4 DEF Dispatch, RunHandlers, Least
<1>5. ASSUME NEW w \in Workers, MarkCompleted(w)
      PROVE  HandlersInv'
      <2>1. worker[w].done = Handlers /\ Ran = Handlers
            BY <1>5 DEF MarkCompleted, AllRan
      <2>2. Ran' = Handlers
            BY <1>5, <2>1 DEF MarkCompleted
      <2>3. ev'.done \subseteq Ran' /\ \A v \in Workers : worker'[v].done \subseteq Ran'
            BY <1>5, <2>1, <2>2 DEF MarkCompleted, Write
      <2>4. QED
            BY <1>5, <2>2, <2>3 DEF MarkCompleted
<1>6. ASSUME NEW w \in Workers, MarkRetry(w)
      PROVE  HandlersInv'
      BY <1>6 DEF MarkRetry, Write, FinalFailure
<1>7. ASSUME NEW w \in Workers, MarkFailed(w)
      PROVE  HandlersInv'
      BY <1>7 DEF MarkFailed, Write
<1>8. ASSUME NEW w \in Workers, BurySelect(w) \/ Bury(w) \/ BuryFails(w)
      PROVE  HandlersInv'
      BY <1>8 DEF BurySelect, Bury, BuryFails, BuryNext, Requarantine, InsertQuarantined
<1>9. ASSUME NEW c \in Recoverers, RecoverSelect(c)
      PROVE  HandlersInv'
      BY <1>9 DEF RecoverSelect, Stuck
<1>10. ASSUME NEW c \in Recoverers, RecoverPending(c)
      PROVE  HandlersInv'
      BY <1>10 DEF RecoverPending, Write, FinalFailure
<1>11. ASSUME NEW c \in Recoverers, RecoverFailed(c)
      PROVE  HandlersInv'
      BY <1>11 DEF RecoverFailed, Write
<1>12. ASSUME NEW c \in Recoverers, RecoverBurySelect(c) \/ RecoverBury(c) \/ RecoverBuryFails(c)
      PROVE  HandlersInv'
      BY <1>12 DEF RecoverBurySelect, RecoverBury, RecoverBuryFails, BuryNext, Requarantine, InsertQuarantined
<1>13. ASSUME NEW o \in Operators, ReplayLock(o) \/ ReplayRefused(o) \/ ReplayRead(o)
      PROVE  HandlersInv'
      <2>1. CASE ReplayLock(o)
            BY <2>1 DEF ReplayLock
      <2>2. CASE ReplayRefused(o)
            BY <2>2 DEF ReplayRefused
      <2>3. CASE ReplayRead(o)
            BY <2>3 DEF ReplayRead
      <2>4. QED
            BY <1>13, <2>1, <2>2, <2>3
<1>14. ASSUME NEW o \in Operators, ReplayDispatch(o)
      PROVE  HandlersInv'
      BY <1>14 DEF ReplayDispatch, RunHandlers, Least
<1>15. ASSUME NEW o \in Operators, ReplaySave(o)
      PROVE  HandlersInv'
      BY <1>15 DEF ReplaySave, ReplayOutcome, Write
<1>16. ASSUME NEW o \in Operators, ReplayResolve(o) \/ ReplayComplete(o)
      PROVE  HandlersInv'
      <2>1. operator[o].done = Handlers /\ Ran = Handlers
            BY <1>16 DEF ReplayResolve, ReplayComplete
      <2>2. Ran' = Ran
            BY <1>16 DEF ReplayResolve, ReplayComplete
      <2>3. ev'.done \subseteq Ran'
            BY <1>16, <2>2 DEF ReplayResolve, ReplayComplete, Write
      <2>4. \A p \in Operators : /\ operator'[p].done \subseteq Ran'
                                 /\ operator'[p].pc \in {"resolve", "complete"} => operator'[p].done = Handlers
            <3>1. \/ operator' = [operator EXCEPT ![o].pc = "complete"]
                  \/ operator' = [operator EXCEPT ![o] = IdleOperator]
                  BY <1>16 DEF ReplayResolve, ReplayComplete
            <3>2. CASE operator' = [operator EXCEPT ![o].pc = "complete"]
                  BY <2>1, <2>2, <3>2
            <3>3. CASE operator' = [operator EXCEPT ![o] = IdleOperator]
                  BY <2>2, <3>3
            <3>4. QED
                  BY <3>1, <3>2, <3>3
      <2>5. QED
            BY <1>16, <2>1, <2>2, <2>3, <2>4 DEF ReplayResolve, ReplayComplete
<1>17. ASSUME AdminStep
      PROVE  HandlersInv'
      BY <1>17 DEF AdminStep, RetryFailed, RequeueUnresolved, ResetStuck, Dismiss, PurgeResolved, Requeued
<1>18. ASSUME RecordEvent \/ PurgeProcessed
      PROVE  HandlersInv'
      BY <1>18 DEF RecordEvent, PurgeProcessed
<1>19. ASSUME NEW w \in Workers, CrashWorker(w)
      PROVE  HandlersInv'
      BY <1>19 DEF CrashWorker
<1>20. ASSUME NEW c \in Recoverers, CrashRecovery(c)
      PROVE  HandlersInv'
      BY <1>20 DEF CrashRecovery
<1>21. ASSUME NEW o \in Operators, CrashOperator(o)
      PROVE  HandlersInv'
      BY <1>21 DEF CrashOperator
<1>22. ASSUME Tick
      PROVE  HandlersInv'
      BY <1>22 DEF Tick, Least
<1>23. CASE UNCHANGED vars
      BY <1>23 DEF vars
<1>24. QED
      BY <1>1, <1>2, <1>3, <1>4, <1>5, <1>6, <1>7, <1>8, <1>9, <1>10, <1>11, <1>12, <1>13, <1>14, <1>15, <1>16, <1>17, <1>18, <1>19, <1>20, <1>21, <1>22, <1>23
      DEF Next, WorkerStep, RecoveryStep, ReplayStep

(* Type correctness: no retry count passes the limit, whatever stale        *)
(* writes, recoveries and replays overlap.                                  *)
THEOREM OutboxTypes == Spec => [](TypeOK /\ RetryInv)
<1>1. Init => TypeInv
      <2> SUFFICES ASSUME Init
                   PROVE  TypeInv
          OBVIOUS
      <2> USE OutboxAssumption DEF Init, Retries, Always
      <2>1. ev \in Events
            BY DEF Events, EventStatus
      <2>2. /\ worker \in [Workers -> WorkerStates]
            /\ recovery \in [Recoverers -> RecoveryStates]
            /\ operator \in [Operators -> OperatorStates]
            BY DEF WorkerStates, WorkerPcs, RecoveryStates, OperatorStates, IdleWorker, IdleRecovery, IdleOperator
      <2>3. RetryInv
            BY DEF RetryInv, IdleWorker, IdleRecovery
      <2>4. ran \in [Handlers -> 0..2] /\ crashes \in 0..MaxCrashes
            OBVIOUS
      <2>5. dlq \in DlqStatus /\ taken \in BOOLEAN /\ lost \in BOOLEAN
            BY DEF DlqStatus
      <2>6. QED
            BY ONLY <2>1, <2>2, <2>3, <2>4, <2>5 DEF TypeInv, TypeOK
<1>2. QED
      BY <1>1, TypeInvStep, PTL DEF Spec, TypeInv

(* The handlers the row, a worker or a replay counts as succeeded really    *)
(* succeeded (the completed_handlers of the outbox).                        *)
THEOREM HandlersInvariant == Spec => []HandlersInv
<1>1. Init => HandlersInv
      BY DEF Init, HandlersInv, Ran, IdleWorker, IdleOperator
<1>2. QED
      BY <1>1, OutboxTypes, HandlersStep, PTL DEF Spec

(* An event is marked completed, by a worker or by a replay, only after     *)
(* every one of its handlers succeeded.                                     *)
THEOREM CompletedEventsRan == Spec => []CompletedMeansAllRan
<1>1. HandlersInv => CompletedMeansAllRan
      BY DEF HandlersInv, CompletedMeansAllRan, Ran
<1>2. QED
      BY <1>1, HandlersInvariant, PTL

(* Nobody took the event back: then at most one worker is at an attempt, the *)
(* row counts every handler that succeeded in an attempt that has ended, and *)
(* a worker that can still claim the event read all of them.                 *)
Attempting(w) == worker[w].pc \in {"dispatch", "write"}
OnceInv ==
    ~ taken =>
       /\ \A o \in Operators : operator[o].pc \in {"idle", "locked"}
       /\ \A c \in Recoverers : recovery[c].pc \in {"idle", "selected"}
       /\ \A h \in Handlers : ran[h] <= 1
       /\ ev.status = "unrecorded" => Ran = {} /\ \A w \in Workers : worker[w].pc = "idle"
       /\ ev.status \in {"pending", "failed"} => Ran \subseteq ev.done
       /\ \A w \in Workers :
             /\ worker[w].pc = "selected" /\ Due(worker[w].age) => Ran \subseteq worker[w].done
             /\ Attempting(w) =>
                   /\ ev.status = "processing"
                   /\ Ran \subseteq worker[w].done
                   /\ \A v \in Workers \ {w} : ~ Attempting(v)

LEMMA OnceStep == TypeOK /\ OnceInv /\ [Next]_vars => OnceInv'
<1> SUFFICES ASSUME TypeOK, OnceInv, [Next]_vars
             PROVE  OnceInv'
    OBVIOUS
<1> USE OutboxAssumption DEF TypeOK, OnceInv, Attempting, Ran, Due, Events, WorkerStates, RecoveryStates, OperatorStates,
        Least, IdleWorker, IdleRecovery, IdleOperator
<1>1. ASSUME NEW w \in Workers, StartBatch(w)
      PROVE  OnceInv'
      BY <1>1 DEF StartBatch
<1>2. ASSUME NEW w \in Workers, Claim(w)
      PROVE  OnceInv'
      BY <1>2 DEF Claim
<1>3. ASSUME NEW w \in Workers, ClaimLost(w)
      PROVE  OnceInv'
      BY <1>3 DEF ClaimLost
<1>4. ASSUME NEW w \in Workers, Dispatch(w)
      PROVE  OnceInv'
      BY <1>4 DEF Dispatch, RunHandlers
<1>5. ASSUME NEW w \in Workers, MarkCompleted(w)
      PROVE  OnceInv'
      BY <1>5 DEF MarkCompleted, Write, RowExists, AllRan
<1>6. ASSUME NEW w \in Workers, MarkRetry(w)
      PROVE  OnceInv'
      BY <1>6 DEF MarkRetry, Write, RowExists
<1>7. ASSUME NEW w \in Workers, MarkFailed(w)
      PROVE  OnceInv'
      <2>1. SUFFICES ASSUME ~ taken
                     PROVE  OnceInv'
            BY <1>7 DEF MarkFailed
      <2>2. worker[w].pc = "write" /\ ev.status = "processing" /\ Ran \subseteq worker[w].done
            BY <1>7, <2>1 DEF MarkFailed
      <2>3. /\ ev'.status = "failed" /\ ev'.done = worker[w].done /\ ev'.retry = worker[w].retry + 1
            /\ worker' = [worker EXCEPT ![w] = [IdleWorker EXCEPT !.pc = "bury"]]
            /\ UNCHANGED <<operator, recovery, ran>>
            <3>1. RowExists
                  BY <2>2 DEF RowExists
            <3>2. ev' = [status |-> "failed", retry |-> worker[w].retry + 1, due |-> Always,
                         since |-> ev.since, lockAge |-> 0, done |-> worker[w].done]
                  BY <1>7, <3>1 DEF MarkFailed, Write
            <3>3. worker' = [worker EXCEPT ![w] = [IdleWorker EXCEPT !.pc = "bury"]]
                  BY <1>7 DEF MarkFailed
            <3>4. UNCHANGED <<operator, recovery, ran>>
                  BY <1>7 DEF MarkFailed
            <3>5. QED
                  BY ONLY <3>2, <3>3, <3>4
      <2>4. ~ (ev'.retry < MaxAttempts)
            <3>1. worker[w].retry \in Nat /\ MaxAttempts \in Nat
                  BY DEF Retries
            <3>2. QED
                  BY <1>7, <2>3, <3>1 DEF MarkFailed, FinalFailure
      <2>5. \A v \in Workers : v # w => worker'[v] = worker[v] /\ ~ Attempting(v)
            BY <2>1, <2>2, <2>3
      <2>6. worker'[w].pc = "bury"
            BY <2>3
      <2>7. \A v \in Workers : ~ Due(worker[v].age)' /\ ~ Attempting(v)'
            BY <2>4, <2>5, <2>6
      <2>8. operator' = operator /\ recovery' = recovery /\ Ran' = Ran /\ ran' = ran
            BY <2>3
      <2>9. Ran' \subseteq ev'.done
            BY <2>2, <2>3, <2>8
      <2>10. QED
            BY <2>1, <2>3, <2>7, <2>8, <2>9
<1>8. ASSUME NEW w \in Workers, BurySelect(w)
      PROVE  OnceInv'
      BY <1>8 DEF BurySelect, BuryNext
<1>9. ASSUME NEW w \in Workers, Bury(w) \/ BuryFails(w)
      PROVE  OnceInv'
      <2>1. /\ worker' = [worker EXCEPT ![w] = IdleWorker]
            /\ UNCHANGED <<ev, recovery, operator, ran, taken>>
            BY <1>9 DEF Bury, BuryFails
      <2>2. QED
            BY <2>1
<1>10. ASSUME NEW w \in Workers, CrashWorker(w)
      PROVE  OnceInv'
      BY <1>10 DEF CrashWorker
<1>11. ASSUME NEW c \in Recoverers, RecoverSelect(c)
      PROVE  OnceInv'
      BY <1>11 DEF RecoverSelect
<1>12. ASSUME NEW c \in Recoverers, RecoverPending(c)
      PROVE  OnceInv'
      BY <1>12 DEF RecoverPending
<1>13. ASSUME NEW c \in Recoverers, RecoverFailed(c)
      PROVE  OnceInv'
      BY <1>13 DEF RecoverFailed
<1>14. ASSUME NEW c \in Recoverers, RecoverBurySelect(c) \/ RecoverBury(c) \/ RecoverBuryFails(c) \/ CrashRecovery(c)
      PROVE  OnceInv'
      BY <1>14 DEF RecoverBurySelect, RecoverBury, RecoverBuryFails, CrashRecovery, BuryNext
<1>15. ASSUME NEW o \in Operators, ReplayLock(o)
      PROVE  OnceInv'
      BY <1>15 DEF ReplayLock
<1>16. ASSUME NEW o \in Operators, ReplayRefused(o) \/ CrashOperator(o)
      PROVE  OnceInv'
      BY <1>16 DEF ReplayRefused, CrashOperator
<1>17. ASSUME NEW o \in Operators, ReplayRead(o)
      PROVE  OnceInv'
      BY <1>17 DEF ReplayRead
<1>18. ASSUME NEW o \in Operators, ReplayDispatch(o) \/ ReplaySave(o) \/ ReplayResolve(o) \/ ReplayComplete(o)
      PROVE  OnceInv'
      BY <1>18 DEF ReplayDispatch, ReplaySave, ReplayResolve, ReplayComplete
<1>19. ASSUME AdminStep
      PROVE  OnceInv'
      BY <1>19 DEF AdminStep, RetryFailed, RequeueUnresolved, ResetStuck, Dismiss, PurgeResolved
<1>20. ASSUME RecordEvent
      PROVE  OnceInv'
      BY <1>20 DEF RecordEvent
<1>21. ASSUME PurgeProcessed
      PROVE  OnceInv'
      BY <1>21 DEF PurgeProcessed, Quiet
<1>22. ASSUME Tick
      PROVE  OnceInv'
      BY <1>22 DEF Tick
<1>23. CASE UNCHANGED vars
      BY <1>23 DEF vars
<1>24. QED
      BY <1>1, <1>2, <1>3, <1>4, <1>5, <1>6, <1>7, <1>8, <1>9, <1>10, <1>11, <1>12, <1>13, <1>14, <1>15, <1>16, <1>17, <1>18, <1>19, <1>20, <1>21, <1>22, <1>23 DEF Next, WorkerStep, RecoveryStep, ReplayStep

(* No handler that succeeded runs again unless a recovery or an administrator *)
(* took the event back: the claim repeats the due condition of the batch's    *)
(* start, so a worker that read the event before another one's attempt does   *)
(* not claim it after (processPendingBatch, completed_handlers).              *)
THEOREM HandlersRunOnce == Spec => []HandlerRunsOnce
<1>1. Init => OnceInv
      BY DEF Init, OnceInv, Attempting, Ran, IdleWorker, IdleRecovery, IdleOperator
<1>2. OnceInv => HandlerRunsOnce
      BY DEF OnceInv, HandlerRunsOnce
<1>3. QED
      BY <1>1, <1>2, OutboxTypes, OnceStep, PTL DEF Spec

(* The cause of a missing letter is inductive by itself: every step that     *)
(* removes one of the causes leaves another.                                 *)
LEMMA LetterStep == TypeOK /\ FailureHasLetter /\ [Next]_vars => FailureHasLetter'
<1> SUFFICES ASSUME TypeOK, FailureHasLetter, [Next]_vars
             PROVE  FailureHasLetter'
    OBVIOUS
<1> USE DEF TypeOK, FailureHasLetter, LetterComing, HasLetter, DlqStatus, Events, WorkerStates, RecoveryStates,
        OperatorStates, IdleWorker, IdleRecovery, IdleOperator
<1>1. ASSUME NEW w \in Workers, StartBatch(w) \/ Claim(w) \/ ClaimLost(w) \/ Dispatch(w)
      PROVE  FailureHasLetter'
      BY <1>1 DEF StartBatch, Claim, ClaimLost, Dispatch
<1>2. ASSUME NEW w \in Workers, MarkCompleted(w) \/ MarkRetry(w)
      PROVE  FailureHasLetter'
      <2>1. ev'.status # "failed"
            <3>1. CASE MarkCompleted(w) /\ RowExists
                  <4>1. ev' = [ev EXCEPT !.status = "completed", !.lockAge = 0, !.done = worker[w].done]
                        BY <3>1 DEF MarkCompleted, Write
                  <4>2. ev'.status = "completed"
                        BY <4>1
                  <4>3. QED
                        BY <4>2
            <3>2. CASE MarkRetry(w) /\ RowExists
                  BY <3>2 DEF MarkRetry, Write
            <3>3. CASE ~ RowExists
                  BY <1>2, <3>3 DEF MarkCompleted, MarkRetry, Write, RowExists
            <3>4. QED
                  BY <1>2, <3>1, <3>2, <3>3
      <2>2. QED
            BY <2>1
<1>3. ASSUME NEW w \in Workers, MarkFailed(w)
      PROVE  FailureHasLetter'
      <2>1. worker'[w].pc = "bury"
            BY <1>3 DEF MarkFailed
      <2>2. QED
            BY <2>1
<1>4. ASSUME NEW w \in Workers, BurySelect(w)
      PROVE  FailureHasLetter'
      BY <1>4 DEF BurySelect, BuryNext
<1>5. ASSUME NEW w \in Workers, Bury(w)
      PROVE  FailureHasLetter'
      BY <1>5 DEF Bury, Requarantine, InsertQuarantined
<1>6. ASSUME NEW w \in Workers, BuryFails(w) \/ CrashWorker(w)
      PROVE  FailureHasLetter'
      BY <1>6 DEF BuryFails, CrashWorker, Burying
<1>7. ASSUME NEW c \in Recoverers, RecoverSelect(c) \/ RecoverPending(c)
      PROVE  FailureHasLetter'
      BY <1>7 DEF RecoverSelect, RecoverPending, Write, RowExists
<1>8. ASSUME NEW c \in Recoverers, RecoverFailed(c)
      PROVE  FailureHasLetter'
      <2>1. recovery'[c].pc = "bury"
            BY <1>8 DEF RecoverFailed
      <2>2. QED
            BY <2>1
<1>9. ASSUME NEW c \in Recoverers, RecoverBurySelect(c)
      PROVE  FailureHasLetter'
      BY <1>9 DEF RecoverBurySelect, BuryNext
<1>10. ASSUME NEW c \in Recoverers, RecoverBury(c)
      PROVE  FailureHasLetter'
      BY <1>10 DEF RecoverBury, Requarantine, InsertQuarantined
<1>11. ASSUME NEW c \in Recoverers, RecoverBuryFails(c) \/ CrashRecovery(c)
      PROVE  FailureHasLetter'
      BY <1>11 DEF RecoverBuryFails, CrashRecovery, Burying
<1>12. ASSUME NEW o \in Operators, ReplayLock(o) \/ ReplayRefused(o) \/ ReplayRead(o) \/ ReplayDispatch(o)
      PROVE  FailureHasLetter'
      BY <1>12 DEF ReplayLock, ReplayRefused, ReplayRead, ReplayDispatch
<1>13. ASSUME NEW o \in Operators, ReplaySave(o)
      PROVE  FailureHasLetter'
      BY <1>13 DEF ReplaySave, ReplayOutcome, Write, RowExists
<1>14. ASSUME NEW o \in Operators, ReplayResolve(o) \/ ReplayComplete(o)
      PROVE  FailureHasLetter'
      BY <1>14 DEF ReplayResolve, ReplayComplete, Write, RowExists
<1>15. ASSUME NEW o \in Operators, CrashOperator(o)
      PROVE  FailureHasLetter'
      BY <1>15 DEF CrashOperator
<1>16. ASSUME AdminStep
      PROVE  FailureHasLetter'
      BY <1>16 DEF AdminStep, RetryFailed, RequeueUnresolved, ResetStuck, Dismiss, PurgeResolved, Requeued, Unresolved
<1>17. ASSUME RecordEvent \/ PurgeProcessed
      PROVE  FailureHasLetter'
      BY <1>17 DEF RecordEvent, PurgeProcessed
<1>18. ASSUME Tick
      PROVE  FailureHasLetter'
      BY <1>18 DEF Tick
<1>19. CASE UNCHANGED vars
      BY <1>19 DEF vars
<1>20. QED
      BY <1>1, <1>2, <1>3, <1>4, <1>5, <1>6, <1>7, <1>8, <1>9, <1>10, <1>11, <1>12, <1>13, <1>14, <1>15, <1>16, <1>17, <1>18, <1>19
      DEF Next, WorkerStep, RecoveryStep, ReplayStep

(* A failed event has its letter, or its burial or the end of its replay is *)
(* under way, or the letter is lost in one of the ways the code has of      *)
(* losing it (moveToDeadLetter, replayLocked, purgeResolved).               *)
THEOREM FailuresHaveLetters == Spec => []FailureHasLetter
<1>1. Init => FailureHasLetter
      BY DEF Init, FailureHasLetter
<1>2. QED
      BY <1>1, OutboxTypes, LetterStep, PTL DEF Spec
=============================================================================
