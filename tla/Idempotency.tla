----------------------------- MODULE Idempotency -----------------------------
(***************************************************************************)
(* The resubmission guard of the money and stock routes:                   *)
(* services/idempotency.service.ts (the rows of `idempotency_keys`) and    *)
(* middleware/idempotency.ts (the life of a request that carries a key).   *)
(*                                                                         *)
(* One key of one user and scope is modelled: rows of different keys never *)
(* touch each other.  A run is one HTTP request that carries the key, so   *)
(* the resends of a submission are several runs.  Every database statement *)
(* is one step; a statement that must wait for the row lock of a run that  *)
(* completed the key in its open transaction is not enabled until then.    *)
(***************************************************************************)
EXTENDS Naturals

CONSTANTS Runs,         \* the runs that may carry the key
          Nobody,       \* not a run
          Bodies,       \* request contents (method, path, body) told apart by their fingerprint
          LockTimeout,  \* lockTimeoutSeconds
          Ttl,          \* ttlSeconds
          MaxTime       \* bound of the clock

ASSUME NobodyAssumption == Nobody \notin Runs
ASSUME TimeAssumption ==
    /\ LockTimeout \in Nat
    /\ Ttl \in Nat
    /\ MaxTime \in Nat
ASSUME BodiesAssumption == Bodies # {}

VARIABLES
    row,      \* the row of the key; status "absent" when there is none
    nextId,   \* the serial id of the next row
    now,      \* server clock
    pc,       \* where each run is
    local,    \* what the code of each run remembers (Locals below)
    answer,   \* what the caller of each run got
    life,     \* history: which lifetime of the key this is, from 1
    wrote     \* history: the lifetime each run committed its write in, 0 for none

rowVars == <<row, nextId>>
history == <<life, wrote>>
vars == <<row, nextId, now, pc, local, answer, life, wrote>>

RowStatus == {"absent", "processing", "completed"}
Rows == [id : Nat, status : RowStatus, body : Bodies, lockedUntil : Nat, expiresAt : Nat, response : Bodies]
Pcs == {"idle", "insert", "select", "reacquire", "recheck", "running", "committing", "finalize", "answered", "dead"}
Answers == {"none", "mismatch", "cached_own", "cached_other", "in_flight", "success", "failure"}

Locals == [body : Bodies,           \* what the run asks for
           began : Nat,             \* `now` of its acquireKey
           started : Nat,           \* when its heartbeat started
           seen : Rows,             \* the row it read before taking it over
           ok : BOOLEAN,            \* its handler ended with a 2xx status
           completedInTx : BOOLEAN] \* RequestIdempotencyKey.completedInTx

TypeOK ==
    /\ row \in Rows
    /\ nextId \in Nat
    /\ now \in Nat
    /\ pc \in [Runs -> Pcs]
    /\ local \in [Runs -> Locals]
    /\ answer \in [Runs -> Answers]
    /\ life \in Nat \ {0}
    /\ wrote \in [Runs -> Nat]

SomeBody == CHOOSE b \in Bodies : TRUE
NoRow == [id |-> 0, status |-> "absent", body |-> SomeBody, lockedUntil |-> 0, expiresAt |-> 0, response |-> SomeBody]
NoLocals == [body |-> SomeBody, began |-> 0, started |-> 0, seen |-> NoRow, ok |-> FALSE, completedInTx |-> FALSE]

Init ==
    /\ row = NoRow
    /\ nextId = 1
    /\ now = 0
    /\ pc = [r \in Runs |-> "idle"]
    /\ local = [r \in Runs |-> NoLocals]
    /\ answer = [r \in Runs |-> "none"]
    /\ life = 1
    /\ wrote = [r \in Runs |-> 0]

-----------------------------------------------------------------------------
(* A run whose transaction has completed the key and not ended yet holds   *)
(* the row lock: other statements that write the row wait for it, readers  *)
(* still see the row as it was.                                            *)
RowLocked == \E r \in Runs : pc[r] = "committing"

Goto(r, label) == pc' = [pc EXCEPT ![r] = label]
Answered(r, what) ==
    /\ Goto(r, "answered")
    /\ local' = [local EXCEPT ![r] = NoLocals]
    /\ answer' = [answer EXCEPT ![r] = what]

(* The row as completeInTransaction and saveResponse leave it. *)
CompletedRow(r) == [row EXCEPT !.status = "completed", !.response = local[r].body]

(* The kept answer of a completed key belongs to the content it was        *)
(* recorded for, or to another one.                                        *)
Cached(r) == IF row.response = local[r].body THEN "cached_own" ELSE "cached_other"

(* 'acquired': the request goes to its handler and the heartbeat starts. *)
Acquired(r) ==
    /\ Goto(r, "running")
    /\ local' = [local EXCEPT ![r].started = now]

Arrive(r, b) ==
    /\ pc[r] = "idle"
    /\ Goto(r, "insert")
    /\ local' = [local EXCEPT ![r].body = b, ![r].began = now]
    /\ UNCHANGED <<rowVars, now, answer, history>>

(* acquireKey, step 1: INSERT ... ON CONFLICT DO NOTHING. *)
InsertNew(r) ==
    /\ pc[r] = "insert"
    /\ row.status = "absent"
    /\ row' = [id |-> nextId, status |-> "processing", body |-> local[r].body, response |-> local[r].body,
               lockedUntil |-> local[r].began + LockTimeout, expiresAt |-> local[r].began + Ttl]
    /\ nextId' = nextId + 1
    /\ Acquired(r)
    /\ UNCHANGED <<now, answer, history>>

InsertConflict(r) ==
    /\ pc[r] = "insert"
    /\ row.status # "absent"
    /\ Goto(r, "select")
    /\ UNCHANGED <<rowVars, now, local, answer, history>>

(* acquireKey, step 2: the row is gone again when it is read; the run      *)
(* goes on without one.                                                    *)
SelectNothing(r) ==
    /\ pc[r] = "select"
    /\ row.status = "absent"
    /\ Acquired(r)
    /\ UNCHANGED <<rowVars, now, answer, history>>

SameRequest(r) == row.body = local[r].body

LockLapsed == row.lockedUntil <= now

(* handleExistingKey: the answers that need no further statement. *)
SelectAnswered(r) ==
    /\ pc[r] = "select"
    /\ row.status # "absent"
    /\ \/ /\ ~ SameRequest(r)
          /\ Answered(r, "mismatch")
       \/ /\ SameRequest(r)
          /\ row.status = "completed"
          /\ Answered(r, Cached(r))
       \/ /\ SameRequest(r)
          /\ row.status = "processing"
          /\ ~ LockLapsed
          /\ Answered(r, "in_flight")
    /\ UNCHANGED <<rowVars, now, history>>

(* handleExistingKey: a lapsed lock is taken over by reacquireWithOcc. *)
SelectLapsed(r) ==
    /\ pc[r] = "select"
    /\ row.status = "processing"
    /\ SameRequest(r)
    /\ LockLapsed
    /\ local' = [local EXCEPT ![r].seen = row]
    /\ Goto(r, "reacquire")
    /\ UNCHANGED <<rowVars, now, answer, history>>

(* The WHERE of reacquireWithOcc: the row as it was read. *)
OccMatch(r) ==
    /\ row.id = local[r].seen.id
    /\ row.status = local[r].seen.status
    /\ row.lockedUntil = local[r].seen.lockedUntil

ReacquireWithOcc(r) ==
    /\ pc[r] = "reacquire"
    /\ ~ RowLocked
    /\ row.status # "absent" /\ OccMatch(r)
    /\ row' = [row EXCEPT !.status = "processing", !.body = local[r].body,
                          !.lockedUntil = local[r].began + LockTimeout, !.expiresAt = local[r].began + Ttl]
    /\ Acquired(r)
    /\ UNCHANGED <<nextId, now, answer, history>>

ReacquireCollision(r) ==
    /\ pc[r] = "reacquire"
    /\ ~ RowLocked
    /\ ~ (row.status # "absent" /\ OccMatch(r))
    /\ Goto(r, "recheck")
    /\ UNCHANGED <<rowVars, now, local, answer, history>>

(* getResponseForRecord, by the id read before: a row that is gone, or was *)
(* replaced by one with another id, makes the run 'acquired'.              *)
RecheckAnswered(r) ==
    /\ pc[r] = "recheck"
    /\ row.id = local[r].seen.id
    /\ \/ row.status = "completed" /\ Answered(r, Cached(r))
       \/ row.status = "processing" /\ Answered(r, "in_flight")
    /\ UNCHANGED <<rowVars, now, history>>

RecheckOnlyReplaced(r) ==
    /\ pc[r] = "recheck"
    /\ row.status # "absent" /\ row.id # local[r].seen.id
    /\ Acquired(r)
    /\ UNCHANGED <<rowVars, now, answer, history>>
RecheckNothing(r) ==
    /\ pc[r] = "recheck"
    /\ row.status = "absent" \/ row.id # local[r].seen.id
    /\ Acquired(r)
    /\ UNCHANGED <<rowVars, now, answer, history>>

(* A statement of acquireKey fails: the error goes to the error handler of  *)
(* the route, the handler does not run and no row is touched.              *)
AcquireFails(r) ==
    /\ pc[r] \in {"insert", "select", "reacquire", "recheck"}
    /\ Answered(r, "failure")
    /\ UNCHANGED <<rowVars, now, history>>

-----------------------------------------------------------------------------
(* The heartbeat of startLockHeartbeat: extendLock by key, whichever run   *)
(* the row belongs to, until the key's lifetime has passed.  It may be     *)
(* late or fail (its errors are only logged), so nothing forces it.        *)
ExtendLock(r) ==
    /\ pc[r] = "running"
    /\ now <= local[r].started + Ttl
    /\ ~ RowLocked
    /\ row.status = "processing"
    /\ row.lockedUntil # now + LockTimeout
    /\ row' = [row EXCEPT !.lockedUntil = now + LockTimeout]
    /\ UNCHANGED <<nextId, now, pc, local, answer, history>>

(* completeInTransaction, the last statement of idempotentTransaction:     *)
(* UPDATE ... WHERE key AND status = 'processing', whichever run the row   *)
(* belongs to; no row updated rolls the run's write back with a 409.       *)
CompleteAnyStatus == row.status # "absent"
Completable == row.status = "processing"

CompleteInTransaction(r) ==
    /\ pc[r] = "running"
    /\ ~ RowLocked
    /\ Completable
    /\ Goto(r, "committing")
    /\ UNCHANGED <<rowVars, now, local, answer, history>>

HandlerEnds(r, success) ==
    /\ Goto(r, "finalize")
    /\ local' = [local EXCEPT ![r].ok = success]

CompleteRefused(r) ==
    /\ pc[r] = "running"
    /\ ~ RowLocked
    /\ ~ Completable
    /\ HandlerEnds(r, FALSE)
    /\ UNCHANGED <<rowVars, now, answer, history>>

(* COMMIT: the write and the completed key become visible together.  The   *)
(* handler then answers, or fails after it; or the acknowledgement of the  *)
(* commit is lost and the transaction call throws.                         *)
Commit(r) ==
    /\ pc[r] = "committing"
    /\ row' = CompletedRow(r)
    /\ wrote' = [wrote EXCEPT ![r] = life]
    /\ \E acknowledged, success \in BOOLEAN :
          /\ success => acknowledged
          /\ local' = [local EXCEPT ![r].completedInTx = acknowledged, ![r].ok = success]
    /\ Goto(r, "finalize")
    /\ UNCHANGED <<nextId, now, answer, life>>

Rollback(r) ==
    /\ pc[r] = "committing"
    /\ HandlerEnds(r, FALSE)
    /\ UNCHANGED <<rowVars, now, answer, history>>

(* The handler refuses the request or throws before its write is complete, *)
(* or (a route that writes nothing) succeeds without a transaction.        *)
EndWithoutWrite(r) ==
    /\ pc[r] = "running"
    /\ \E success \in BOOLEAN : HandlerEnds(r, success)
    /\ UNCHANGED <<rowVars, now, answer, history>>

-----------------------------------------------------------------------------
(* finalize, before the answer is sent. *)
SaveResponse(r) ==
    /\ pc[r] = "finalize"
    /\ local[r].ok
    /\ ~ RowLocked
    /\ row' = IF row.status = "absent" THEN row ELSE CompletedRow(r)
    /\ Answered(r, "success")
    /\ UNCHANGED <<nextId, now, history>>

KeepKey(r) ==
    /\ pc[r] = "finalize"
    /\ ~ local[r].ok
    /\ local[r].completedInTx
    /\ Answered(r, "failure")
    /\ UNCHANGED <<rowVars, now, history>>

(* releaseKey: DELETE ... WHERE key AND status = 'processing'. *)
Releasable == row.status = "processing"

ReleaseKey(r) ==
    /\ pc[r] = "finalize"
    /\ ~ local[r].ok
    /\ ~ local[r].completedInTx
    /\ ~ RowLocked
    /\ row' = IF Releasable THEN NoRow ELSE row
    /\ Answered(r, "failure")
    /\ UNCHANGED <<nextId, now, history>>

(* saveResponse and releaseKey only log an error of their statement; the   *)
(* answer is sent all the same.                                            *)
FinalizeLost(r) ==
    /\ pc[r] = "finalize"
    /\ Answered(r, IF local[r].ok THEN "success" ELSE "failure")
    /\ UNCHANGED <<rowVars, now, history>>

-----------------------------------------------------------------------------
(* The process dies under the run; PostgreSQL rolls an open transaction    *)
(* back, and nobody finalizes the key.                                     *)
Crash(r) ==
    /\ pc[r] \notin {"idle", "answered", "dead"}
    /\ Goto(r, "dead")
    /\ local' = [local EXCEPT ![r] = NoLocals]
    /\ UNCHANGED <<rowVars, now, answer, history>>

(* cleanupExpired, the daily purge. *)
StillRunning == row.status = "processing" /\ row.lockedUntil > now

CleanupExpired ==
    /\ ~ RowLocked
    /\ row.status # "absent"
    /\ row.expiresAt < now
    /\ ~ StillRunning
    /\ row' = NoRow
    /\ life' = IF row.status = "completed" THEN life + 1 ELSE life
    /\ UNCHANGED <<nextId, now, pc, local, answer, wrote>>

Tick ==
    /\ now < MaxTime
    /\ now' = now + 1
    /\ UNCHANGED <<rowVars, pc, local, answer, history>>

AcquireKey(r) ==
    \/ InsertNew(r) \/ InsertConflict(r)
    \/ SelectNothing(r) \/ SelectAnswered(r) \/ SelectLapsed(r)
    \/ ReacquireWithOcc(r) \/ ReacquireCollision(r)
    \/ RecheckAnswered(r) \/ RecheckNothing(r)

RunHandler(r) ==
    \/ CompleteInTransaction(r) \/ CompleteRefused(r)
    \/ Commit(r) \/ Rollback(r) \/ EndWithoutWrite(r)

Finalize(r) == SaveResponse(r) \/ KeepKey(r) \/ ReleaseKey(r)

(* Everything the process of a run does by itself, in program order. *)
Progress(r) == AcquireKey(r) \/ RunHandler(r) \/ Finalize(r)

Next ==
    \/ \E r \in Runs : \/ \E b \in Bodies : Arrive(r, b)
                       \/ Progress(r)
                       \/ ExtendLock(r)
                       \/ AcquireFails(r) \/ FinalizeLost(r) \/ Crash(r)
    \/ CleanupExpired
    \/ Tick

Spec == Init /\ [][Next]_vars

(* A request that has arrived is carried on by its process until it is     *)
(* answered (or the process dies); arrivals, heartbeats, failing            *)
(* statements, crashes, the purge and the clock are not forced.            *)
Fairness == \A r \in Runs : WF_vars(Progress(r))

FairSpec == Spec /\ Fairness

-----------------------------------------------------------------------------
(* Two runs of one submission never both commit their write during one     *)
(* lifetime of the key, however the lock lapses, a stale run releases or   *)
(* completes the row of its successor, a process dies or a commit's        *)
(* acknowledgement is lost ("so only one commits", completeInTransaction). *)
AtMostOneWrite ==
    \A r, s \in Runs : wrote[r] # 0 /\ wrote[r] = wrote[s] => r = s

(* A committed write is remembered: until the purge ends the lifetime of   *)
(* the key its row is there and completed, so a resend is answered from it *)
(* and never runs (idempotentTransaction, releaseKey, reacquireWithOcc).   *)
WriteIsRemembered ==
    \A r \in Runs : wrote[r] = life => row.status = "completed"

(* A run on its way to a takeover read a processing row. *)
TakesOverProcessing == \A r \in Runs : pc[r] = "reacquire" => local[r].seen.status = "processing"

(* The inductive strengthening of the two: a run that completed the key in *)
(* its open transaction is the only one that did and still finds the row   *)
(* processing, since the row lock keeps every other statement away.        *)
KeyInv ==
    /\ \A r \in Runs : pc[r] = "committing" => row.status = "processing"
    /\ \A r, s \in Runs : pc[r] = "committing" /\ pc[s] = "committing" => r = s
    /\ \A r \in Runs : wrote[r] <= life
    /\ TakesOverProcessing
    /\ WriteIsRemembered
    /\ AtMostOneWrite

(* No step reopens, replaces or deletes a completed key before its         *)
(* lifetime has passed (saveResponse, releaseKey, reacquireWithOcc,        *)
(* cleanupExpired and a crash at any point between them).                  *)
CompletedKeyStays ==
    [][row.status = "completed" =>
          \/ row'.status = "completed" /\ row'.id = row.id
          \/ row.expiresAt < now]_vars

(* Every request that arrives is answered unless its process dies: no run  *)
(* waits for ever for the row lock of another.                             *)
EveryRequestEnds ==
    \A r \in Runs : pc[r] = "insert" ~> pc[r] \in {"answered", "dead"}

(* The key implements WriteOnce: its writer is the run that committed in   *)
(* the present lifetime.                                                   *)
Writer == IF \E r \in Runs : wrote[r] = life THEN CHOOSE r \in Runs : wrote[r] = life ELSE Nobody
Abstract == INSTANCE WriteOnce WITH writer <- Writer
ImplementsWriteOnce == Abstract!Spec
=============================================================================
