------------------------------- MODULE Outbox -------------------------------
(***************************************************************************)
(* The transactional outbox and its dead-letter queue:                     *)
(* services/events/outboxService.ts, outboxRetry.ts,                       *)
(* deadLetterQueueService.ts and deadLetterRowLock.ts, with the tracked    *)
(* dispatch of domainEventBus.ts and the reset of stuck events of          *)
(* services/system/systemReconciliation.service.ts.                        *)
(*                                                                         *)
(* One event is followed from its record to its purge; events share        *)
(* nothing but the batch that processes them one after another, and that   *)
(* is why a worker may claim its candidate long after it read it.  Every   *)
(* database statement is one step of the worker, recovery timer or         *)
(* administrator that runs it.                                             *)
(*                                                                         *)
(* Times are kept relative: how long ago the event occurred and became     *)
(* due, how old its lock is, how long ago a batch started.  Each saturates *)
(* at a bound, so the clock may tick for ever.                             *)
(***************************************************************************)
EXTENDS Integers, FiniteSets

CONSTANTS Workers,      \* processes that run processPendingBatch
          Recoverers,   \* their recoverStuckEvents timers
          Operators,    \* administrators on the outbox and dead-letter screens
          Handlers,     \* the handlers registered for the event
          MaxAttempts,  \* OUTBOX_MAX_ATTEMPTS
          Backoff,      \* ticks of an exponential backoff
          StuckAfter,   \* ticks after which a lock counts as stuck
          MaxBatchAge,  \* bound: ticks between a batch's read of the event and its claim
          MaxCrashes    \* bound: process deaths

ASSUME OutboxAssumption ==
    /\ IsFiniteSet(Handlers)
    /\ MaxAttempts \in Nat \ {0}
    /\ Backoff \in Nat \ {0}
    /\ StuckAfter \in Nat
    /\ MaxBatchAge \in Nat
    /\ MaxCrashes \in Nat

VARIABLES
    ev,        \* the row of outbox_events
    dlq,       \* status of the row of dead_letter_events
    worker,    \* what each worker does, and what it remembers of the row
    recovery,  \* what each recovery timer does
    operator,  \* what each administrator's replay does
    ran,       \* history: how often each handler succeeded, 2 meaning more than once
    taken,     \* history: a recovery or an administrator took the event back or replayed it
    lost,      \* history: the dead letter of the latest failure was never written, or is gone
    crashes    \* process deaths so far

vars == <<ev, dlq, worker, recovery, operator, ran, taken, lost, crashes>>

EventStatus == {"unrecorded", "pending", "processing", "completed", "failed", "purged"}
DlqStatus == {"absent", "quarantined", "replayed", "dismissed"}
Always == MaxBatchAge + 1   \* next_retry_at IS NULL: due for every batch

Retries == 0..MaxAttempts
Events == [status : EventStatus, retry : Retries, due : (0 - Backoff)..Always,
           since : 0..StuckAfter, lockAge : 0..StuckAfter, done : SUBSET Handlers]
WorkerPcs == {"idle", "selected", "dispatch", "write", "bury", "rebury", "reinsert"}
WorkerStates == [pc : WorkerPcs, retry : Retries, done : SUBSET Handlers, age : 0..MaxBatchAge]
RecoveryStates == [pc : {"idle", "selected", "bury", "rebury", "reinsert"}, retry : Retries]
OperatorStates == [pc : {"idle", "locked", "dispatch", "save", "resolve", "complete"}, done : SUBSET Handlers]

TypeOK ==
    /\ ev \in Events
    /\ dlq \in DlqStatus
    /\ worker \in [Workers -> WorkerStates]
    /\ recovery \in [Recoverers -> RecoveryStates]
    /\ operator \in [Operators -> OperatorStates]
    /\ ran \in [Handlers -> 0..2]
    /\ taken \in BOOLEAN
    /\ lost \in BOOLEAN
    /\ crashes \in 0..MaxCrashes

IdleWorker == [pc |-> "idle", retry |-> 0, done |-> {}, age |-> 0]
IdleRecovery == [pc |-> "idle", retry |-> 0]
IdleOperator == [pc |-> "idle", done |-> {}]

Init ==
    /\ ev = [status |-> "unrecorded", retry |-> 0, due |-> Always, since |-> 0, lockAge |-> 0, done |-> {}]
    /\ dlq = "absent"
    /\ worker = [w \in Workers |-> IdleWorker]
    /\ recovery = [c \in Recoverers |-> IdleRecovery]
    /\ operator = [o \in Operators |-> IdleOperator]
    /\ ran = [h \in Handlers |-> 0]
    /\ taken = FALSE
    /\ lost = FALSE
    /\ crashes = 0

Least(a, b) == IF a < b THEN a ELSE b

(* saveToOutbox / recordEventOnce, in the transaction of the business write. *)
RecordEvent ==
    /\ ev.status = "unrecorded"
    /\ ev' = [ev EXCEPT !.status = "pending"]
    /\ UNCHANGED <<dlq, worker, recovery, operator, ran, taken, lost, crashes>>

-----------------------------------------------------------------------------
(* processPendingBatch *)

(* dueCondition for a batch that started `age` ticks ago. *)
DueByNow(age) == ev.status \in {"pending", "failed"} /\ ev.due >= 0 /\ ev.retry < MaxAttempts
DueForEver(age) == ev.status \in {"pending", "failed"} /\ ev.due >= age
Due(age) ==
    /\ ev.status \in {"pending", "failed"}
    /\ ev.due >= age
    /\ ev.retry < MaxAttempts

StartBatch(w) ==
    /\ worker[w].pc = "idle"
    /\ Due(0)
    /\ worker' = [worker EXCEPT ![w] = [pc |-> "selected", retry |-> ev.retry, done |-> ev.done, age |-> 0]]
    /\ UNCHANGED <<ev, dlq, recovery, operator, ran, taken, lost, crashes>>

(* The claim stamps the lock with the start of the batch. *)
Claim(w) ==
    /\ worker[w].pc = "selected"
    /\ Due(worker[w].age)
    /\ ev' = [ev EXCEPT !.status = "processing", !.lockAge = Least(worker[w].age, StuckAfter)]
    /\ worker' = [worker EXCEPT ![w].pc = "dispatch", ![w].age = 0]
    /\ UNCHANGED <<dlq, recovery, operator, ran, taken, lost, crashes>>

ClaimLost(w) ==
    /\ worker[w].pc = "selected"
    /\ ~ Due(worker[w].age)
    /\ worker' = [worker EXCEPT ![w] = IdleWorker]
    /\ UNCHANGED <<ev, dlq, recovery, operator, ran, taken, lost, crashes>>

(* dispatchTracked: every handler that is not known to have succeeded runs; *)
(* any of them may fail.                                                    *)
RunHandlers(succeeded) ==
    ran' = [h \in Handlers |-> IF h \in succeeded THEN Least(ran[h] + 1, 2) ELSE ran[h]]

Dispatch(w) ==
    /\ worker[w].pc = "dispatch"
    /\ \E succeeded \in SUBSET (Handlers \ worker[w].done) :
          /\ RunHandlers(succeeded)
          /\ worker' = [worker EXCEPT ![w].pc = "write", ![w].done = @ \cup succeeded]
    /\ UNCHANGED <<ev, dlq, recovery, operator, taken, lost, crashes>>

(* The result is written by id alone, whatever the row has become; a purged *)
(* row is not touched.                                                      *)
RowExists == ev.status \notin {"unrecorded", "purged"}
Write(row) == ev' = IF RowExists THEN row ELSE ev

AllRan(w) == worker[w].done = Handlers

MarkCompleted(w) ==
    /\ worker[w].pc = "write"
    /\ AllRan(w)
    /\ Write([ev EXCEPT !.status = "completed", !.lockAge = 0, !.done = worker[w].done])
    /\ worker' = [worker EXCEPT ![w] = IdleWorker]
    /\ UNCHANGED <<dlq, recovery, operator, ran, taken, lost, crashes>>

FinalFailureLate(retry) == retry + 1 > MaxAttempts
FinalFailure(retry) == retry + 1 >= MaxAttempts

MarkRetry(w) ==
    /\ worker[w].pc = "write"
    /\ ~ AllRan(w)
    /\ ~ FinalFailure(worker[w].retry)
    /\ Write([status |-> "pending", retry |-> worker[w].retry + 1, due |-> 0 - Backoff,
              since |-> ev.since, lockAge |-> 0, done |-> worker[w].done])
    /\ worker' = [worker EXCEPT ![w] = IdleWorker]
    /\ UNCHANGED <<dlq, recovery, operator, ran, taken, lost, crashes>>

MarkFailed(w) ==
    /\ worker[w].pc = "write"
    /\ ~ AllRan(w)
    /\ FinalFailure(worker[w].retry)
    /\ Write([status |-> "failed", retry |-> worker[w].retry + 1, due |-> Always,
              since |-> ev.since, lockAge |-> 0, done |-> worker[w].done])
    /\ worker' = [worker EXCEPT ![w] = [IdleWorker EXCEPT !.pc = "bury"]]
    /\ lost' = FALSE
    /\ UNCHANGED <<dlq, recovery, operator, ran, taken, crashes>>

(* moveToDeadLetter reads the row of the event and then updates it, or     *)
(* inserts one; an update of a row purged meanwhile, and an insert beside  *)
(* one inserted meanwhile (the event id is unique), change nothing and are *)
(* errors (a row purged and inserted again between the two is taken for    *)
(* the one that was read).  Any statement of it may fail, and its errors   *)
(* are caught and logged: the event is then left without a letter.         *)
BuryNext == IF dlq = "absent" THEN "reinsert" ELSE "rebury"
RequarantineNever == dlq
Requarantine == IF dlq = "absent" THEN dlq ELSE "quarantined"
InsertQuarantined == IF dlq = "absent" THEN "quarantined" ELSE dlq

Burying == {"bury", "rebury", "reinsert"}
HasLetter == dlq \in {"quarantined", "dismissed"}

BurySelect(w) ==
    /\ worker[w].pc = "bury"
    /\ worker' = [worker EXCEPT ![w].pc = BuryNext]
    /\ UNCHANGED <<ev, dlq, recovery, operator, ran, taken, lost, crashes>>

Bury(w) ==
    /\ \/ worker[w].pc = "rebury" /\ dlq' = Requarantine
       \/ worker[w].pc = "reinsert" /\ dlq' = InsertQuarantined
    /\ worker' = [worker EXCEPT ![w] = IdleWorker]
    /\ lost' = (dlq' # "quarantined" /\ (lost \/ dlq = "absent"))
    /\ UNCHANGED <<ev, recovery, operator, ran, taken, crashes>>

BuryFails(w) ==
    /\ worker[w].pc \in Burying
    /\ worker' = [worker EXCEPT ![w] = IdleWorker]
    /\ lost' = (lost \/ ~ HasLetter)
    /\ UNCHANGED <<ev, dlq, recovery, operator, ran, taken, crashes>>

-----------------------------------------------------------------------------
(* recoverStuckEvents: the stuck rows are read, then each is written by id. *)
Stuck == ev.status = "processing" /\ ev.lockAge >= StuckAfter

RecoverSelect(c) ==
    /\ recovery[c].pc = "idle"
    /\ Stuck
    /\ recovery' = [recovery EXCEPT ![c] = [pc |-> "selected", retry |-> ev.retry]]
    /\ UNCHANGED <<ev, dlq, worker, operator, ran, taken, lost, crashes>>

RecoverPending(c) ==
    /\ recovery[c].pc = "selected"
    /\ ~ FinalFailure(recovery[c].retry)
    /\ Write([ev EXCEPT !.status = "pending", !.retry = recovery[c].retry + 1, !.lockAge = 0, !.due = Always])
    /\ recovery' = [recovery EXCEPT ![c] = IdleRecovery]
    /\ taken' = TRUE
    /\ UNCHANGED <<dlq, worker, operator, ran, lost, crashes>>

RecoverFailed(c) ==
    /\ recovery[c].pc = "selected"
    /\ FinalFailure(recovery[c].retry)
    /\ Write([ev EXCEPT !.status = "failed", !.retry = recovery[c].retry + 1, !.lockAge = 0])
    /\ recovery' = [recovery EXCEPT ![c] = [pc |-> "bury", retry |-> 0]]
    /\ taken' = TRUE
    /\ lost' = FALSE
    /\ UNCHANGED <<dlq, worker, operator, ran, crashes>>

RecoverBurySelect(c) ==
    /\ recovery[c].pc = "bury"
    /\ recovery' = [recovery EXCEPT ![c].pc = BuryNext]
    /\ UNCHANGED <<ev, dlq, worker, operator, ran, taken, lost, crashes>>

RecoverBury(c) ==
    /\ \/ recovery[c].pc = "rebury" /\ dlq' = Requarantine
       \/ recovery[c].pc = "reinsert" /\ dlq' = InsertQuarantined
    /\ recovery' = [recovery EXCEPT ![c] = IdleRecovery]
    /\ lost' = (dlq' # "quarantined" /\ (lost \/ dlq = "absent"))
    /\ UNCHANGED <<ev, worker, operator, ran, taken, crashes>>

RecoverBuryFails(c) ==
    /\ recovery[c].pc \in Burying
    /\ recovery' = [recovery EXCEPT ![c] = IdleRecovery]
    /\ lost' = (lost \/ ~ HasLetter)
    /\ UNCHANGED <<ev, dlq, worker, operator, ran, taken, crashes>>

-----------------------------------------------------------------------------
(* Administrators.  The advisory lock of the dead-letter row is held by    *)
(* the administrator whose replay is under way; a second one gets a 409.   *)
RowBusy == \E o \in Operators : operator[o].pc # "idle"
Unresolved == dlq = "quarantined"

Requeued == [ev EXCEPT !.status = "pending", !.retry = 0, !.due = Always, !.lockAge = 0]

(* retryFailedOutboxEvents: one transaction over the failed event and its  *)
(* unresolved dead-letter row; the event is left alone when that row is    *)
(* busy.                                                                   *)
RetryFailed ==
    /\ Operators # {}
    /\ ev.status = "failed"
    /\ ~ (Unresolved /\ RowBusy)
    /\ ev' = Requeued
    /\ dlq' = IF Unresolved THEN "replayed" ELSE dlq
    /\ taken' = TRUE
    /\ UNCHANGED <<worker, recovery, operator, ran, lost, crashes>>

(* requeueUnresolvedToOutbox: the row goes back to pending whatever its    *)
(* status; a purged one is inserted again without its completed handlers.  *)
RequeueUnresolved ==
    /\ Operators # {}
    /\ Unresolved
    /\ ~ RowBusy
    /\ ev' = IF RowExists THEN Requeued ELSE [Requeued EXCEPT !.since = 0, !.done = {}]
    /\ dlq' = "replayed"
    /\ taken' = TRUE
    /\ UNCHANGED <<worker, recovery, operator, ran, lost, crashes>>

(* resetStuckOutboxEvents, the button of the system health page: "stuck" *)
(* is judged by when the event occurred, not by its lock.                 *)
StuckOutbox == ev.status = "processing" /\ ev.since >= StuckAfter

ResetStuck ==
    /\ Operators # {}
    /\ StuckOutbox
    /\ ev' = [ev EXCEPT !.status = "pending", !.retry = 0]
    /\ taken' = TRUE
    /\ UNCHANGED <<dlq, worker, recovery, operator, ran, lost, crashes>>

Dismiss ==
    /\ Operators # {}
    /\ Unresolved
    /\ ~ RowBusy
    /\ dlq' = "dismissed"
    /\ UNCHANGED <<ev, worker, recovery, operator, ran, taken, lost, crashes>>

PurgeResolved ==
    /\ Operators # {}
    /\ dlq \in {"replayed", "dismissed"}
    /\ dlq' = "absent"
    /\ lost' = (lost \/ dlq = "dismissed")
    /\ UNCHANGED <<ev, worker, recovery, operator, ran, taken, crashes>>

(* replayEvent: take the advisory lock of the row, or 409. *)
ReplayLock(o) ==
    /\ operator[o].pc = "idle"
    /\ dlq # "absent"
    /\ ~ RowBusy
    /\ operator' = [operator EXCEPT ![o].pc = "locked"]
    /\ UNCHANGED <<ev, dlq, worker, recovery, ran, taken, lost, crashes>>

(* replayLocked: a row that is gone or replayed is refused. *)
ReplayRefused(o) ==
    /\ operator[o].pc = "locked"
    /\ dlq \in {"absent", "replayed"}
    /\ operator' = [operator EXCEPT ![o] = IdleOperator]
    /\ UNCHANGED <<ev, dlq, worker, recovery, ran, taken, lost, crashes>>

ReplayRead(o) ==
    /\ operator[o].pc = "locked"
    /\ dlq \in {"quarantined", "dismissed"}
    /\ operator' = [operator EXCEPT ![o] = [pc |-> "dispatch", done |-> IF RowExists THEN ev.done ELSE {}]]
    /\ taken' = TRUE
    /\ UNCHANGED <<ev, dlq, worker, recovery, ran, lost, crashes>>

ReplayDispatch(o) ==
    /\ operator[o].pc = "dispatch"
    /\ \E succeeded \in SUBSET (Handlers \ operator[o].done) :
          /\ RunHandlers(succeeded)
          /\ operator' = [operator EXCEPT ![o].pc = "save", ![o].done = @ \cup succeeded]
    /\ UNCHANGED <<ev, dlq, worker, recovery, taken, lost, crashes>>

(* The completed handlers are stored; failures end the replay (the failure *)
(* text of the dead-letter row is not modelled).                           *)
ReplaySucceedsAnyway(o) == [operator[o] EXCEPT !.pc = "resolve"]
ReplayOutcome(o) == IF operator[o].done = Handlers THEN [operator[o] EXCEPT !.pc = "resolve"] ELSE IdleOperator

ReplaySave(o) ==
    /\ operator[o].pc = "save"
    /\ Write([ev EXCEPT !.done = operator[o].done])
    /\ operator' = [operator EXCEPT ![o] = ReplayOutcome(o)]
    /\ UNCHANGED <<dlq, worker, recovery, ran, taken, lost, crashes>>

ReplayResolve(o) ==
    /\ operator[o].pc = "resolve"
    /\ dlq' = IF dlq = "absent" THEN dlq ELSE "replayed"
    /\ operator' = [operator EXCEPT ![o].pc = "complete"]
    /\ UNCHANGED <<ev, worker, recovery, ran, taken, lost, crashes>>

(* The outbox row is completed whatever its status, and the lock given up. *)
(* It also gets the retry count of the dead-letter row, which nothing      *)
(* reads: every statement that makes the event due again sets its own.     *)
ReplayComplete(o) ==
    /\ operator[o].pc = "complete"
    /\ Write([ev EXCEPT !.status = "completed"])
    /\ operator' = [operator EXCEPT ![o] = IdleOperator]
    /\ UNCHANGED <<dlq, worker, recovery, ran, taken, lost, crashes>>

-----------------------------------------------------------------------------
(* purgeProcessedEvents, OUTBOX_COMPLETED_RETENTION_DAYS after the event    *)
(* completed: no process still works on what it read of it before.          *)
Quiet ==
    /\ \A w \in Workers : worker[w].pc = "idle"
    /\ \A c \in Recoverers : recovery[c].pc = "idle"
    /\ ~ RowBusy

PurgeProcessed ==
    /\ ev.status = "completed"
    /\ Quiet
    /\ dlq \in {"absent", "replayed"}
    /\ ev' = [ev EXCEPT !.status = "purged"]
    /\ UNCHANGED <<dlq, worker, recovery, operator, ran, taken, lost, crashes>>

(* A process dies: what it remembered is gone and its session lock with it. *)
CrashWorker(w) ==
    /\ worker[w].pc # "idle"
    /\ crashes < MaxCrashes
    /\ crashes' = crashes + 1
    /\ worker' = [worker EXCEPT ![w] = IdleWorker]
    /\ lost' = (lost \/ (worker[w].pc \in Burying /\ ~ HasLetter))
    /\ UNCHANGED <<ev, dlq, recovery, operator, ran, taken>>

CrashRecovery(c) ==
    /\ recovery[c].pc # "idle"
    /\ crashes < MaxCrashes
    /\ crashes' = crashes + 1
    /\ recovery' = [recovery EXCEPT ![c] = IdleRecovery]
    /\ lost' = (lost \/ (recovery[c].pc \in Burying /\ ~ HasLetter))
    /\ UNCHANGED <<ev, dlq, worker, operator, ran, taken>>

CrashOperator(o) ==
    /\ operator[o].pc # "idle"
    /\ crashes < MaxCrashes
    /\ crashes' = crashes + 1
    /\ operator' = [operator EXCEPT ![o] = IdleOperator]
    /\ lost' = (lost \/ (operator[o].pc = "complete" /\ ~ HasLetter))
    /\ UNCHANGED <<ev, dlq, worker, recovery, ran, taken>>

Tick ==
    /\ \A w \in Workers : worker[w].pc = "selected" => worker[w].age < MaxBatchAge
    /\ ev' = [ev EXCEPT !.due = IF @ < MaxBatchAge THEN @ + 1 ELSE @,
                        !.since = IF ev.status = "unrecorded" THEN @ ELSE Least(@ + 1, StuckAfter),
                        !.lockAge = IF ev.status = "processing" THEN Least(@ + 1, StuckAfter) ELSE @]
    /\ worker' = [w \in Workers |-> IF worker[w].pc = "selected"
                                    THEN [worker[w] EXCEPT !.age = @ + 1]
                                    ELSE worker[w]]
    /\ UNCHANGED <<dlq, recovery, operator, ran, taken, lost, crashes>>

-----------------------------------------------------------------------------
WorkerStep(w) ==
    \/ StartBatch(w) \/ Claim(w) \/ ClaimLost(w) \/ Dispatch(w)
    \/ MarkCompleted(w) \/ MarkRetry(w) \/ MarkFailed(w) \/ BurySelect(w) \/ Bury(w) \/ BuryFails(w)

RecoveryStep(c) ==
    \/ RecoverSelect(c) \/ RecoverPending(c) \/ RecoverFailed(c)
    \/ RecoverBurySelect(c) \/ RecoverBury(c) \/ RecoverBuryFails(c)

ReplayStep(o) ==
    \/ ReplayRefused(o) \/ ReplayRead(o) \/ ReplayDispatch(o)
    \/ ReplaySave(o) \/ ReplayResolve(o) \/ ReplayComplete(o)

AdminStep == RetryFailed \/ RequeueUnresolved \/ ResetStuck \/ Dismiss \/ PurgeResolved

Next ==
    \/ RecordEvent
    \/ \E w \in Workers : WorkerStep(w) \/ CrashWorker(w)
    \/ \E c \in Recoverers : RecoveryStep(c) \/ CrashRecovery(c)
    \/ \E o \in Operators : ReplayLock(o) \/ ReplayStep(o) \/ CrashOperator(o)
    \/ AdminStep
    \/ PurgeProcessed
    \/ Tick

Spec == Init /\ [][Next]_vars

(* The polling timer starts a batch again and again and a batch runs to    *)
(* its end, the recovery timer likewise, and the clock advances.           *)
Fairness ==
    /\ \A w \in Workers : WF_vars(WorkerStep(w))
    /\ \A c \in Recoverers : WF_vars(RecoveryStep(c))
    /\ WF_vars(Tick)

FairSpec == Spec /\ Fairness

-----------------------------------------------------------------------------
(* Properties *)

(* A claimed event, and what a worker or a recovery timer read of it, has  *)
(* an attempt left, so no retry count exceeds the limit (it makes TypeOK   *)
(* inductive).                                                             *)
RetryInv ==
    /\ ev.status = "processing" => ev.retry < MaxAttempts
    /\ \A w \in Workers : worker[w].pc \in {"selected", "dispatch", "write"} => worker[w].retry < MaxAttempts
    /\ \A c \in Recoverers : recovery[c].pc = "selected" => recovery[c].retry < MaxAttempts

(* What the row, a worker or a replay counts as a succeeded handler has    *)
(* really succeeded, and a replay resolves the dead letter only after all  *)
(* of them (the inductive invariant behind CompletedMeansAllRan): a late   *)
(* unconditional UPDATE may lose handlers but never invent one.            *)
Ran == {h \in Handlers : ran[h] > 0}
HandlersInv ==
    /\ ev.done \subseteq Ran
    /\ \A w \in Workers : worker[w].done \subseteq Ran
    /\ \A o \in Operators :
          /\ operator[o].done \subseteq Ran
          /\ operator[o].pc \in {"resolve", "complete"} => operator[o].done = Handlers
    /\ ev.status \in {"completed", "purged"} => Ran = Handlers

(* An event is completed, and so purged, only when every handler succeeded *)
(* at least once, through any retries, recoveries, replays and crashes     *)
(* (processPendingBatch and replayLocked mark 'completed').                *)
CompletedMeansAllRan == ev.status \in {"completed", "purged"} => \A h \in Handlers : ran[h] > 0

(* No handler that succeeded is run again (completed_handlers) unless the  *)
(* recovery or an administrator took the event back.  The claim repeats    *)
(* the due condition of the batch's start, so a worker that read the event *)
(* before another one's attempt does not claim it after it.                *)
HandlerRunsOnce == ~ taken => \A h \in Handlers : ran[h] <= 1

(* Whatever crashes, stalls and failures happen, an event that was recorded *)
(* in the end stays completed (or purged) or failed: retries end, and no   *)
(* stale write keeps the row going for ever.                               *)
Settled == ev.status \in {"completed", "failed", "purged"}
EventSettles == (ev.status = "pending") ~> []Settled

(* A failed event has its letter in the dead-letter queue, unresolved or   *)
(* dismissed (moveToDeadLetter after the last attempt), or its burial is   *)
(* still under way, or a replay has resolved the letter and is about to    *)
(* complete the event: however burials, replays, dismissals and purges     *)
(* interleave, and through any number of retries and requeues.  `lost' is  *)
(* what the code does lose: since the latest failure the process died or a *)
(* statement failed before the letter was written (no transaction joins it *)
(* to the failed status, and the error is swallowed) or between resolving  *)
(* the letter and completing the event, or the letter was purged under its *)
(* update, or dismissed and purged.                                        *)
LetterComing ==
    \/ \E w \in Workers : worker[w].pc \in {"bury", "rebury"} \/ (worker[w].pc = "reinsert" /\ dlq = "absent")
    \/ \E c \in Recoverers : recovery[c].pc \in {"bury", "rebury"} \/ (recovery[c].pc = "reinsert" /\ dlq = "absent")
    \/ \E o \in Operators : operator[o].pc = "complete"
FailureHasLetter == ev.status = "failed" => HasLetter \/ LetterComing \/ lost
=============================================================================
