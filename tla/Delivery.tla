------------------------------ MODULE Delivery ------------------------------
(***************************************************************************)
(* Durable deliveries of an event to an integration (a webhook             *)
(* subscription, a rule's action or a messenger link):                     *)
(* services/events/integrationDelivery.service.ts,                         *)
(* integrationParentDelete.ts and deadLetterDelivery.ts, with the          *)
(* dead-letter row of the delivery.                                        *)
(*                                                                         *)
(* One row of integration_delivery_jobs, unique per (kind, target, event), *)
(* is followed.  A runner is one runJob in flight: a first attempt or one  *)
(* of the worker's pass, in any process.  Of the clock only two facts      *)
(* matter: whether the next attempt is due, and whether the lock is older  *)
(* than the stuck threshold.                                               *)
(***************************************************************************)
EXTENDS Naturals, FiniteSets

CONSTANTS Runners,      \* runJob calls that may be in flight
          Operators,    \* administrators on the dead-letter screen
          MaxAttempts,  \* max_attempts of the row
          MaxStalls,    \* bound: locks that grow old while their attempt still runs
          MaxCrashes    \* bound: process deaths

ASSUME DeliveryAssumption ==
    /\ IsFiniteSet(Runners)
    /\ IsFiniteSet(Operators)
    /\ MaxAttempts \in Nat \ {0}
    /\ MaxStalls \in Nat
    /\ MaxCrashes \in Nat

VARIABLES
    job,       \* the row of integration_delivery_jobs
    dlq,       \* status of its row of dead_letter_events; "purged": it had one
    target,    \* the subscription, rule or link
    runner,    \* what each runner does
    operator,  \* what each administrator's replay does
    sent,      \* history: sends that the attempt saw succeed
    stalls,    \* history: locks that grew old during their attempt
    lost,      \* history: the dead letter of the latest failure was never written, or is gone
    crashes    \* history: process deaths

vars == <<job, dlq, target, runner, operator, sent, stalls, lost, crashes>>

JobStatus == {"absent", "pending", "processing", "succeeded", "failed", "cancelled"}
Outcomes == {"none", "ok", "cancelled", "retry", "fatal"}
Attempts == 0..MaxAttempts   \* a count past the limit acts like one at it

Jobs == [status : JobStatus, attempts : Attempts, due : BOOLEAN, old : BOOLEAN]
RunnerStates == [pc : {"idle", "send", "write", "bury", "rebury", "reinsert"}, attempts : Attempts, outcome : Outcomes]
OperatorStates == [pc : {"idle", "locked", "claim", "send", "write", "resolve"},
                   seen : JobStatus, attempts : Attempts, outcome : Outcomes]

TypeOK ==
    /\ job \in Jobs
    /\ dlq \in {"absent", "quarantined", "replayed", "dismissed", "purged"}
    /\ target \in {"active", "inactive", "gone"}
    /\ runner \in [Runners -> RunnerStates]
    /\ operator \in [Operators -> OperatorStates]
    /\ sent \in Nat
    /\ stalls \in 0..MaxStalls
    /\ lost \in BOOLEAN
    /\ crashes \in 0..MaxCrashes

IdleRunner == [pc |-> "idle", attempts |-> 0, outcome |-> "none"]
IdleOperator == [pc |-> "idle", seen |-> "absent", attempts |-> 0, outcome |-> "none"]

Init ==
    /\ job = [status |-> "absent", attempts |-> 0, due |-> FALSE, old |-> FALSE]
    /\ dlq = "absent"
    /\ target = "active"
    /\ runner = [r \in Runners |-> IdleRunner]
    /\ operator = [o \in Operators |-> IdleOperator]
    /\ sent = 0
    /\ stalls = 0
    /\ lost = FALSE
    /\ crashes = 0

(* enqueue: a row of the same (kind, target, event) is kept as it is. *)
EnqueueUnknownStatus ==
    /\ job.status = "absent"
    /\ job' = [job EXCEPT !.status = "queued", !.due = TRUE]
    /\ UNCHANGED <<dlq, target, runner, operator, sent, stalls, lost, crashes>>

Enqueue ==
    /\ job.status = "absent"
    /\ job' = [job EXCEPT !.status = "pending", !.due = TRUE]
    /\ UNCHANGED <<dlq, target, runner, operator, sent, stalls, lost, crashes>>

Counted(n) == IF n < MaxAttempts THEN n + 1 ELSE n

(* claim: one transaction that takes a pending row whose time has come. *)
ClaimProcessingToo == job.status \in {"pending", "processing"} /\ job.due
Claimable == job.status = "pending" /\ job.due

Claim(r) ==
    /\ runner[r].pc = "idle"
    /\ Claimable
    /\ job' = [job EXCEPT !.status = "processing", !.attempts = Counted(@), !.old = FALSE]
    /\ runner' = [runner EXCEPT ![r] = [pc |-> "send", attempts |-> Counted(job.attempts), outcome |-> "none"]]
    /\ UNCHANGED <<dlq, target, operator, sent, stalls, lost, crashes>>

(* execute: a target that is gone or inactive closes the row; else the     *)
(* send succeeds, fails with or without hope, or finds the link closed.    *)
SendOutcomes == IF target = "active" THEN Outcomes \ {"none"} ELSE {"cancelled"}

(* A bot the user blocked closes the messenger link it was sent to. *)
CloseBlocked(outcome) ==
    target' \in IF outcome = "cancelled" /\ target = "active" THEN {"active", "inactive"} ELSE {target}
CountSent(outcome) == sent' = IF outcome = "ok" THEN sent + 1 ELSE sent

Send(r) ==
    /\ runner[r].pc = "send"
    /\ \E outcome \in SendOutcomes :
          /\ CountSent(outcome)
          /\ CloseBlocked(outcome)
          /\ runner' = [runner EXCEPT ![r].pc = "write", ![r].outcome = outcome]
    /\ UNCHANGED <<job, dlq, operator, stalls, lost, crashes>>

-----------------------------------------------------------------------------
(* attempt: the result is written by id, whatever the row has become. *)
Result(status) == job' = [job EXCEPT !.status = status, !.old = FALSE]

WriteDone(r) ==
    /\ runner[r].pc = "write"
    /\ \/ runner[r].outcome = "ok" /\ Result("succeeded")
       \/ runner[r].outcome = "cancelled" /\ Result("cancelled")
    /\ runner' = [runner EXCEPT ![r] = IdleRunner]
    /\ UNCHANGED <<dlq, target, operator, sent, stalls, lost, crashes>>

FinalOnlyByCount(r) == runner[r].attempts > MaxAttempts
Final(r) == runner[r].outcome = "fatal" \/ runner[r].attempts >= MaxAttempts

WriteRetry(r) ==
    /\ runner[r].pc = "write"
    /\ runner[r].outcome \in {"retry", "fatal"}
    /\ ~ Final(r)
    /\ job' = [job EXCEPT !.status = "pending", !.due = FALSE, !.old = FALSE]
    /\ runner' = [runner EXCEPT ![r] = IdleRunner]
    /\ UNCHANGED <<dlq, target, operator, sent, stalls, lost, crashes>>

WriteFailed(r) ==
    /\ runner[r].pc = "write"
    /\ runner[r].outcome \in {"retry", "fatal"}
    /\ Final(r)
    /\ Result("failed")
    /\ runner' = [runner EXCEPT ![r] = [IdleRunner EXCEPT !.pc = "bury"]]
    /\ lost' = FALSE
    /\ UNCHANGED <<dlq, target, operator, sent, stalls, crashes>>

(* moveToDeadLetter: a read, then an update or an insert.  An update of a  *)
(* row purged meanwhile, and an insert beside one inserted meanwhile,      *)
(* change nothing and are errors; any statement may fail, and the errors   *)
(* are caught and logged: the delivery is then left without a letter.      *)
NoDeadLetter == dlq \in {"absent", "purged"}
HasLetter == dlq \in {"quarantined", "dismissed"}
Burying == {"bury", "rebury", "reinsert"}

RequarantineNever == dlq
Requarantine == IF NoDeadLetter THEN dlq ELSE "quarantined"

BurySelect(r) ==
    /\ runner[r].pc = "bury"
    /\ runner' = [runner EXCEPT ![r].pc = IF NoDeadLetter THEN "reinsert" ELSE "rebury"]
    /\ UNCHANGED <<job, dlq, target, operator, sent, stalls, lost, crashes>>

Bury(r) ==
    /\ \/ runner[r].pc = "rebury" /\ dlq' = Requarantine
       \/ runner[r].pc = "reinsert" /\ dlq' = IF NoDeadLetter THEN "quarantined" ELSE dlq
    /\ runner' = [runner EXCEPT ![r] = IdleRunner]
    /\ lost' = (dlq' # "quarantined" /\ (lost \/ NoDeadLetter))
    /\ UNCHANGED <<job, target, operator, sent, stalls, crashes>>

BuryFails(r) ==
    /\ runner[r].pc \in Burying
    /\ runner' = [runner EXCEPT ![r] = IdleRunner]
    /\ lost' = (lost \/ ~ HasLetter)
    /\ UNCHANGED <<job, dlq, target, operator, sent, stalls, crashes>>

-----------------------------------------------------------------------------
(* Administrators: the replay runs under the lock of the dead-letter row. *)
RowBusy == \E o \in Operators : operator[o].pc # "idle"

ReplayLock(o) ==
    /\ operator[o].pc = "idle"
    /\ ~ NoDeadLetter
    /\ ~ RowBusy
    /\ operator' = [operator EXCEPT ![o].pc = "locked"]
    /\ UNCHANGED <<job, dlq, target, runner, sent, stalls, lost, crashes>>

ReplayRefused(o) ==
    /\ operator[o].pc = "locked"
    /\ (NoDeadLetter \/ dlq = "replayed")
    /\ operator' = [operator EXCEPT ![o] = IdleOperator]
    /\ UNCHANGED <<job, dlq, target, runner, sent, stalls, lost, crashes>>

(* replayDeadJob reads the row; a delivered one needs nothing. *)
ReplayRead(o) ==
    /\ operator[o].pc = "locked"
    /\ dlq \in {"quarantined", "dismissed"}
    /\ operator' = [operator EXCEPT ![o] =
                       [pc |-> IF job.status = "succeeded" THEN "resolve" ELSE "claim",
                        seen |-> job.status, attempts |-> job.attempts, outcome |-> "none"]]
    /\ UNCHANGED <<job, dlq, target, runner, sent, stalls, lost, crashes>>

Replayable == {"pending", "failed", "cancelled"}

ReplayClaimable(o) == job.status = operator[o].seen /\ job.status \in Replayable

ReplayClaim(o) ==
    /\ operator[o].pc = "claim"
    /\ ReplayClaimable(o)
    /\ job' = [job EXCEPT !.status = "processing", !.attempts = Counted(operator[o].attempts), !.old = FALSE]
    /\ operator' = [operator EXCEPT ![o].pc = "send"]
    /\ UNCHANGED <<dlq, target, runner, sent, stalls, lost, crashes>>

ReplayConflict(o) ==
    /\ operator[o].pc = "claim"
    /\ ~ ReplayClaimable(o)
    /\ operator' = [operator EXCEPT ![o] = IdleOperator]
    /\ UNCHANGED <<job, dlq, target, runner, sent, stalls, lost, crashes>>

(* The notification or the link of a messenger delivery is gone. *)
ReplayGone(o) ==
    /\ operator[o].pc = "claim"
    /\ job' = IF job.status \in Replayable THEN [job EXCEPT !.status = "cancelled", !.old = FALSE] ELSE job
    /\ operator' = [operator EXCEPT ![o] = IdleOperator]
    /\ UNCHANGED <<dlq, target, runner, sent, stalls, lost, crashes>>

ReplaySend(o) ==
    /\ operator[o].pc = "send"
    /\ \E outcome \in SendOutcomes :
          /\ CountSent(outcome)
          /\ CloseBlocked(outcome)
          /\ operator' = [operator EXCEPT ![o].pc = "write", ![o].outcome = outcome]
    /\ UNCHANGED <<job, dlq, runner, stalls, lost, crashes>>

(* A failed replay is final at once and stays in its dead-letter row. *)
ReplayWrite(o) ==
    /\ operator[o].pc = "write"
    /\ \/ /\ operator[o].outcome = "ok"
          /\ Result("succeeded")
          /\ operator' = [operator EXCEPT ![o].pc = "resolve"]
       \/ /\ operator[o].outcome = "cancelled"
          /\ Result("cancelled")
          /\ operator' = [operator EXCEPT ![o] = IdleOperator]
       \/ /\ operator[o].outcome \in {"retry", "fatal"}
          /\ Result("failed")
          /\ operator' = [operator EXCEPT ![o] = IdleOperator]
    /\ UNCHANGED <<dlq, target, runner, sent, stalls, lost, crashes>>

(* replayLocked marks the row replayed; no outbox row has its suffixed id. *)
ReplayResolve(o) ==
    /\ operator[o].pc = "resolve"
    /\ dlq' = IF NoDeadLetter THEN dlq ELSE "replayed"
    /\ operator' = [operator EXCEPT ![o] = IdleOperator]
    /\ UNCHANGED <<job, target, runner, sent, stalls, lost, crashes>>

(* requeueUnresolvedToOutbox with requeueDeadJobs, in one transaction. *)
Requeueable == job.status \in {"failed", "cancelled"}

Requeue ==
    /\ Operators # {}
    /\ dlq = "quarantined"
    /\ ~ RowBusy
    /\ dlq' = "replayed"
    /\ job' = IF Requeueable THEN [status |-> "pending", attempts |-> 0, due |-> TRUE, old |-> FALSE] ELSE job
    /\ UNCHANGED <<target, runner, operator, sent, stalls, lost, crashes>>

Dismiss ==
    /\ Operators # {}
    /\ dlq = "quarantined"
    /\ ~ RowBusy
    /\ dlq' = "dismissed"
    /\ UNCHANGED <<job, target, runner, operator, sent, stalls, lost, crashes>>

PurgeResolved ==
    /\ Operators # {}
    /\ dlq \in {"replayed", "dismissed"}
    /\ dlq' = "purged"
    /\ lost' = (lost \/ dlq = "dismissed")
    /\ UNCHANGED <<job, target, runner, operator, sent, stalls, crashes>>

(* deleteWebhookSubscription, deleteEventActionRule: a pending row is      *)
(* closed with its target; a row being sent is not touched.                *)
DeleteTarget ==
    /\ target # "gone"
    /\ target' = "gone"
    /\ job' = IF job.status = "pending" THEN [job EXCEPT !.status = "cancelled", !.old = FALSE] ELSE job
    /\ UNCHANGED <<dlq, runner, operator, sent, stalls, lost, crashes>>

SwitchTarget ==
    /\ target # "gone"
    /\ target' = IF target = "active" THEN "inactive" ELSE "active"
    /\ UNCHANGED <<job, dlq, runner, operator, sent, stalls, lost, crashes>>

-----------------------------------------------------------------------------
(* Time and processes. *)
BackoffEnds ==
    /\ job.status = "pending"
    /\ ~ job.due
    /\ job' = [job EXCEPT !.due = TRUE]
    /\ UNCHANGED <<dlq, target, runner, operator, sent, stalls, lost, crashes>>

Attempting ==
    \/ \E r \in Runners : runner[r].pc \in {"send", "write"}
    \/ \E o \in Operators : operator[o].pc \in {"send", "write"}

(* The lock of a dead process grows old, and within a bound that of a      *)
(* slow one.                                                               *)
LockAges ==
    /\ job.status = "processing"
    /\ ~ job.old
    /\ job' = [job EXCEPT !.old = TRUE]
    /\ \/ ~ Attempting /\ UNCHANGED stalls
       \/ Attempting /\ stalls < MaxStalls /\ stalls' = stalls + 1
    /\ UNCHANGED <<dlq, target, runner, operator, sent, lost, crashes>>

(* recoverStuckJobs: one UPDATE; the attempt stays counted. *)
RecoverStuck ==
    /\ job.status = "processing"
    /\ job.old
    /\ job' = [job EXCEPT !.status = "pending", !.due = TRUE, !.old = FALSE]
    /\ UNCHANGED <<dlq, target, runner, operator, sent, stalls, lost, crashes>>

CrashRunner(r) ==
    /\ runner[r].pc # "idle"
    /\ crashes < MaxCrashes
    /\ crashes' = crashes + 1
    /\ runner' = [runner EXCEPT ![r] = IdleRunner]
    /\ lost' = (lost \/ (runner[r].pc \in Burying /\ ~ HasLetter))
    /\ UNCHANGED <<job, dlq, target, operator, sent, stalls>>

CrashOperator(o) ==
    /\ operator[o].pc # "idle"
    /\ crashes < MaxCrashes
    /\ crashes' = crashes + 1
    /\ operator' = [operator EXCEPT ![o] = IdleOperator]
    /\ UNCHANGED <<job, dlq, target, runner, sent, stalls, lost>>

-----------------------------------------------------------------------------
RunnerStep(r) ==
    \/ Claim(r) \/ Send(r) \/ WriteDone(r) \/ WriteRetry(r) \/ WriteFailed(r)
    \/ BurySelect(r) \/ Bury(r) \/ BuryFails(r)

ReplayStep(o) ==
    \/ ReplayRefused(o) \/ ReplayRead(o) \/ ReplayClaim(o) \/ ReplayConflict(o)
    \/ ReplayGone(o) \/ ReplaySend(o) \/ ReplayWrite(o) \/ ReplayResolve(o)

TimeStep == BackoffEnds \/ LockAges \/ RecoverStuck

Next ==
    \/ Enqueue
    \/ \E r \in Runners : RunnerStep(r) \/ CrashRunner(r)
    \/ \E o \in Operators : ReplayLock(o) \/ ReplayStep(o) \/ CrashOperator(o)
    \/ Requeue \/ Dismiss \/ PurgeResolved
    \/ DeleteTarget \/ SwitchTarget
    \/ TimeStep

Spec == Init /\ [][Next]_vars

(* The worker polls for ever, an attempt, and a replay under way, end      *)
(* (their request has a timeout), time passes and the recovery timer runs. *)
Fairness ==
    /\ \A r \in Runners : WF_vars(RunnerStep(r))
    /\ \A o \in Operators : WF_vars(ReplayStep(o))
    /\ WF_vars(TimeStep)

FairSpec == Spec /\ Fairness

-----------------------------------------------------------------------------
(* Properties *)

(* A second successful send of one delivery always has a cause of its own: *)
(* an attempt that outlived its lock or a process that died between the    *)
(* send and its record.  Retries, requeues, replays and the deletion of    *)
(* the target never send twice by themselves (claim, replayDeadJob).       *)
DuplicatesHaveCauses == sent <= 1 + stalls + crashes

(* Its inductive form: an attempt that has not succeeded yet, and a row    *)
(* somebody may still take or take over, are each worth one more send.     *)
Unsent(a) == a.pc = "send" \/ (a.pc = "write" /\ a.outcome # "ok")
UnsentRunners == {r \in Runners : Unsent(runner[r])}
UnsentOperators == {o \in Operators : Unsent(operator[o])}
Open == job.status # "succeeded" /\ (job.status # "processing" \/ job.old \/ ~ Attempting)
OpenSends == IF Open THEN 1 ELSE 0

SendBudget ==
    sent + Cardinality(UnsentRunners) + Cardinality(UnsentOperators) + OpenSends <= 1 + stalls + crashes

(* Whatever processes die or stall, and once nobody requeues or replays it *)
(* any more, a recorded delivery in the end stays succeeded, failed or     *)
(* cancelled (max_attempts, recoverStuckJobs).                             *)
Settled == job.status \in {"succeeded", "failed", "cancelled"}
PutBack == Requeue \/ \E o \in Operators : ReplayClaim(o)
DeliverySettles == <>[][~ PutBack]_vars => ((job.status = "pending") ~> []Settled)

(* A delivery that failed for good, and was never sent, has its letter in  *)
(* the dead-letter queue, unresolved or dismissed, or its burial is still  *)
(* under way (attempt, moveToDeadLetter): however attempts, burials,       *)
(* replays, requeues, dismissals and purges interleave, and however often  *)
(* it is put back and fails again.  `lost' is what the code does lose:     *)
(* since the latest failure the process died or a statement failed before  *)
(* the letter was written (no transaction joins it to the failed status,   *)
(* and the error is swallowed), or the letter was purged under its update, *)
(* or dismissed and purged.  One that was sent may be failed without a     *)
(* letter: a late attempt fails after the replay that delivered it, and    *)
(* that replay resolves the letter of the late failure.                    *)
LetterComing ==
    \E r \in Runners : runner[r].pc \in {"bury", "rebury"} \/ (runner[r].pc = "reinsert" /\ NoDeadLetter)
LetterOrCause == sent = 0 => HasLetter \/ LetterComing \/ lost
FailureHasLetter == job.status = "failed" => LetterOrCause

(* Its inductive form: a replay keeps the letter it works on until the     *)
(* delivery is sent.                                                       *)
ReplayHasLetter ==
    /\ job.status = "succeeded" => sent > 0
    /\ \A r \in Runners : runner[r].outcome = "ok" => sent > 0
    /\ \A o \in Operators :
          /\ operator[o].pc \in {"claim", "send", "write"} => LetterOrCause
          /\ operator[o].pc = "resolve" \/ operator[o].outcome = "ok" => sent > 0
          /\ \A p \in Operators : operator[o].pc # "idle" /\ operator[p].pc # "idle" => o = p
=============================================================================
