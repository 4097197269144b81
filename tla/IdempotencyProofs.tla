-------------------------- MODULE IdempotencyProofs --------------------------
(* Proofs about Idempotency, for any number of runs, request contents,     *)
(* lock windows, lifetimes and clock bound.                                *)
EXTENDS Idempotency, TLAPS

LEMMA SomeBodyType == SomeBody \in Bodies
BY BodiesAssumption DEF SomeBody

LEMMA NoRowType == NoRow \in Rows /\ NoRow.status = "absent"
BY SomeBodyType DEF NoRow, Rows, RowStatus

LEMMA NoLocalsType == NoLocals \in Locals
BY SomeBodyType, NoRowType DEF NoLocals, Locals

(* The updates of a run's locals that the actions make keep their types. *)
LEMMA LocalsStep ==
    ASSUME local \in [Runs -> Locals], NEW r \in Runs, NEW n \in Nat, NEW f \in BOOLEAN, NEW g \in BOOLEAN
    PROVE  /\ [local EXCEPT ![r].started = n] \in [Runs -> Locals]
           /\ [local EXCEPT ![r].ok = f] \in [Runs -> Locals]
           /\ [local EXCEPT ![r].completedInTx = g, ![r].ok = f] \in [Runs -> Locals]
<1>1. local[r] \in Locals
      OBVIOUS
<1>2. [local[r] EXCEPT !.started = n] \in Locals
      BY <1>1 DEF Locals
<1>3. [local[r] EXCEPT !.ok = f] \in Locals
      BY <1>1 DEF Locals
<1>4. [[local[r] EXCEPT !.completedInTx = g] EXCEPT !.ok = f] \in Locals
      BY <1>1 DEF Locals
<1>5. QED
      BY <1>2, <1>3, <1>4

(* What every action of the specification may do to the fields that the    *)
(* types speak of is read off its definition, one action at a time.        *)
LEMMA TypeStep == TypeOK /\ [Next]_vars => TypeOK'
<1> SUFFICES ASSUME TypeOK, [Next]_vars
             PROVE  TypeOK'
    OBVIOUS
<1> USE SomeBodyType, NoRowType, NoLocalsType, TimeAssumption DEF TypeOK
<1>1. ASSUME NEW r \in Runs, NEW b \in Bodies, Arrive(r, b)
      PROVE  TypeOK'
      BY <1>1 DEF Arrive, Goto, Pcs, Locals, rowVars, history
<1>2. ASSUME NEW r \in Runs, InsertNew(r)
      PROVE  TypeOK'
      <2>1. local' \in [Runs -> Locals]
            BY <1>2, LocalsStep DEF InsertNew, Acquired
      <2>2. row' \in Rows
            <3>1. local[r].body \in Bodies /\ local[r].began \in Nat
                  BY DEF Locals
            <3>2. QED
                  BY <1>2, <3>1 DEF InsertNew, Rows, RowStatus
      <2>3. QED
            BY <1>2, <2>1, <2>2 DEF InsertNew, Acquired, Goto, Pcs, history
<1>3. ASSUME NEW r \in Runs, InsertConflict(r) \/ ReacquireCollision(r)
      PROVE  TypeOK'
      BY <1>3 DEF InsertConflict, ReacquireCollision, Goto, Pcs, rowVars, history
<1>4. ASSUME NEW r \in Runs, SelectNothing(r) \/ RecheckNothing(r)
      PROVE  TypeOK'
      <2>1. local' \in [Runs -> Locals]
            <3>1. local' = [local EXCEPT ![r].started = now]
                  BY <1>4 DEF SelectNothing, RecheckNothing, Acquired
            <3>2. QED
                  BY <3>1, LocalsStep
      <2>2. QED
            BY <1>4, <2>1 DEF SelectNothing, RecheckNothing, Acquired, Goto, Pcs, rowVars, history
<1>5. ASSUME NEW r \in Runs, SelectAnswered(r) \/ RecheckAnswered(r) \/ AcquireFails(r) \/ FinalizeLost(r) \/ KeepKey(r)
      PROVE  TypeOK'
      BY <1>5 DEF SelectAnswered, RecheckAnswered, AcquireFails, FinalizeLost, KeepKey,
                  Answered, Cached, Goto, Pcs, Answers, rowVars, history
<1>6. ASSUME NEW r \in Runs, SelectLapsed(r)
      PROVE  TypeOK'
      BY <1>6 DEF SelectLapsed, Goto, Pcs, Locals, rowVars, history
<1>7. ASSUME NEW r \in Runs, ReacquireWithOcc(r)
      PROVE  TypeOK'
      <2>1. local' \in [Runs -> Locals]
            BY <1>7, LocalsStep DEF ReacquireWithOcc, Acquired
      <2>2. row' \in Rows
            <3>1. local[r].body \in Bodies /\ local[r].began \in Nat
                  BY DEF Locals
            <3>2. local[r].began + LockTimeout \in Nat /\ local[r].began + Ttl \in Nat
                  BY <3>1
            <3>3. row' = [row EXCEPT !.status = "processing", !.body = local[r].body,
                                     !.lockedUntil = local[r].began + LockTimeout, !.expiresAt = local[r].began + Ttl]
                  BY <1>7 DEF ReacquireWithOcc
            <3>4. QED
                  BY <3>1, <3>2, <3>3 DEF Rows, RowStatus
      <2>3. QED
            BY <1>7, <2>1, <2>2 DEF ReacquireWithOcc, Acquired, Goto, Pcs, history
<1>8. ASSUME NEW r \in Runs, ExtendLock(r)
      PROVE  TypeOK'
      BY <1>8 DEF ExtendLock, Rows, history
<1>9. ASSUME NEW r \in Runs, CompleteInTransaction(r)
      PROVE  TypeOK'
      BY <1>9 DEF CompleteInTransaction, Goto, Pcs, rowVars, history
<1>10. ASSUME NEW r \in Runs, CompleteRefused(r) \/ Rollback(r) \/ EndWithoutWrite(r)
       PROVE  TypeOK'
       <2>1. local' \in [Runs -> Locals]
             <3>1. PICK f \in BOOLEAN : local' = [local EXCEPT ![r].ok = f]
                   BY <1>10 DEF CompleteRefused, Rollback, EndWithoutWrite, HandlerEnds
             <3>2. QED
                   BY <3>1, LocalsStep
       <2>2. QED
             BY <1>10, <2>1 DEF CompleteRefused, Rollback, EndWithoutWrite, HandlerEnds, Goto, Pcs, rowVars, history
<1>11. ASSUME NEW r \in Runs, Commit(r)
       PROVE  TypeOK'
       <2>1. local' \in [Runs -> Locals]
             <3>1. PICK f, g \in BOOLEAN : local' = [local EXCEPT ![r].completedInTx = g, ![r].ok = f]
                   BY <1>11 DEF Commit
             <3>2. QED
                   BY <3>1, LocalsStep
       <2>2. row' \in Rows
             BY <1>11 DEF Commit, CompletedRow, Locals, Rows, RowStatus
       <2>3. QED
             BY <1>11, <2>1, <2>2 DEF Commit, Goto, Pcs
<1>12. ASSUME NEW r \in Runs, SaveResponse(r) \/ ReleaseKey(r)
       PROVE  TypeOK'
       <2>1. row' \in Rows
             BY <1>12 DEF SaveResponse, ReleaseKey, CompletedRow, Locals, Rows, RowStatus
       <2>2. QED
             BY <1>12, <2>1 DEF SaveResponse, ReleaseKey, Answered, Goto, Pcs, Answers, history
<1>13. ASSUME NEW r \in Runs, Crash(r)
       PROVE  TypeOK'
       BY <1>13 DEF Crash, Goto, Pcs, rowVars, history
<1>14. CASE CleanupExpired
       BY <1>14 DEF CleanupExpired
<1>15. CASE Tick
       BY <1>15 DEF Tick, rowVars, history
<1>16. CASE UNCHANGED vars
       BY <1>16 DEF vars
<1>17. QED
       BY <1>1, <1>2, <1>3, <1>4, <1>5, <1>6, <1>7, <1>8, <1>9, <1>10, <1>11, <1>12, <1>13, <1>14, <1>15, <1>16
       DEF Next, Progress, AcquireKey, RunHandler, Finalize

(* Every reachable state of the key and its runs is well-typed. *)
THEOREM TypeCorrect == Spec => []TypeOK
<1>1. Init => TypeOK
      BY SomeBodyType, NoRowType, NoLocalsType DEF Init, TypeOK, Pcs, Answers
<1>2. QED
      BY <1>1, TypeStep, PTL DEF Spec

-----------------------------------------------------------------------------
(* A step that neither enters "committing" nor writes the row, like every  *)
(* read and every move of the control, preserves the key invariant.        *)
LEMMA QuietStep ==
    ASSUME TypeOK, KeyInv, NEW r \in Runs, NEW label \in Pcs \ {"committing"},
           Goto(r, label), UNCHANGED <<row, life, wrote>>, TakesOverProcessing'
    PROVE  KeyInv'
BY DEF TypeOK, KeyInv, Goto, WriteIsRemembered, AtMostOneWrite

(* A statement that writes the row waits for the row lock; when it leaves  *)
(* a completed row completed it preserves the key invariant.               *)
LEMMA WritingStep ==
    ASSUME TypeOK, KeyInv, ~ RowLocked, ~ RowLocked', UNCHANGED <<life, wrote>>,
           row.status = "completed" => row'.status = "completed", TakesOverProcessing'
    PROVE  KeyInv'
BY DEF TypeOK, KeyInv, RowLocked, WriteIsRemembered, AtMostOneWrite

LEMMA GotoUnlocked ==
    ASSUME TypeOK, ~ RowLocked, NEW r \in Runs, NEW label \in Pcs \ {"committing"}, Goto(r, label)
    PROVE  ~ RowLocked'
BY DEF TypeOK, RowLocked, Goto

(* Only handleExistingKey, on a processing row, sends a run to a takeover. *)
LEMMA TakeoverStep == TypeOK /\ TakesOverProcessing /\ [Next]_vars => TakesOverProcessing'
<1> SUFFICES ASSUME TypeOK, TakesOverProcessing, [Next]_vars
             PROVE  TakesOverProcessing'
    OBVIOUS
<1> DEFINE Moves(r) == \A s \in Runs \ {r} : pc'[s] = pc[s] /\ local'[s] = local[s]
<1>1. ASSUME NEW r \in Runs, SelectLapsed(r)
      PROVE  TakesOverProcessing'
      BY <1>1 DEF SelectLapsed, Goto, TakesOverProcessing, TypeOK, Locals
<1>2. ASSUME NEW r \in Runs, Moves(r), pc'[r] # "reacquire"
      PROVE  TakesOverProcessing'
      BY <1>2 DEF TakesOverProcessing
<1>3. ASSUME NEW r \in Runs, NEW b \in Bodies, Arrive(r, b)
      PROVE  TakesOverProcessing'
      BY <1>3, <1>2 DEF Arrive, Goto, TypeOK
<1>4. ASSUME NEW r \in Runs, \/ InsertNew(r) \/ SelectNothing(r) \/ ReacquireWithOcc(r) \/ RecheckNothing(r)
      PROVE  TakesOverProcessing'
      BY <1>4, <1>2 DEF InsertNew, SelectNothing, ReacquireWithOcc, RecheckNothing, Acquired, Goto, TypeOK
<1>5. ASSUME NEW r \in Runs, InsertConflict(r) \/ ReacquireCollision(r) \/ CompleteInTransaction(r) \/ Crash(r)
      PROVE  TakesOverProcessing'
      BY <1>5, <1>2 DEF InsertConflict, ReacquireCollision, CompleteInTransaction, Crash, Goto, TypeOK
<1>6. ASSUME NEW r \in Runs,
             \/ SelectAnswered(r) \/ RecheckAnswered(r) \/ AcquireFails(r) \/ FinalizeLost(r)
             \/ SaveResponse(r) \/ KeepKey(r) \/ ReleaseKey(r)
      PROVE  TakesOverProcessing'
      <2>1. pc' = [pc EXCEPT ![r] = "answered"] /\ local' = [local EXCEPT ![r] = NoLocals]
            BY <1>6 DEF SelectAnswered, RecheckAnswered, AcquireFails, FinalizeLost, SaveResponse, KeepKey, ReleaseKey,
                        Answered, Goto
      <2>2. QED
            BY <2>1, <1>2 DEF TypeOK
<1>7. ASSUME NEW r \in Runs, CompleteRefused(r) \/ Rollback(r) \/ EndWithoutWrite(r) \/ Commit(r)
      PROVE  TakesOverProcessing'
      <2>1. pc' = [pc EXCEPT ![r] = "finalize"]
            BY <1>7 DEF CompleteRefused, Rollback, EndWithoutWrite, Commit, HandlerEnds, Goto
      <2>2. \A s \in Runs \ {r} : local'[s] = local[s]
            BY <1>7 DEF CompleteRefused, Rollback, EndWithoutWrite, Commit, HandlerEnds, TypeOK
      <2>3. QED
            BY <2>1, <2>2, <1>2 DEF TypeOK
<1>8. CASE UNCHANGED <<pc, local>>
      BY <1>8 DEF TakesOverProcessing
<1>9. QED
      BY <1>1, <1>3, <1>4, <1>5, <1>6, <1>7, <1>8
      DEF Next, Progress, AcquireKey, RunHandler, Finalize, ExtendLock, CleanupExpired, Tick, vars

LEMMA KeyStep == TypeOK /\ KeyInv /\ [Next]_vars => KeyInv'
<1> SUFFICES ASSUME TypeOK, KeyInv, [Next]_vars
             PROVE  KeyInv'
    OBVIOUS
<1>0. TakesOverProcessing'
      BY TakeoverStep DEF KeyInv
<1>1. ASSUME NEW r \in Runs, NEW b \in Bodies, Arrive(r, b)
      PROVE  KeyInv'
      BY <1>1, <1>0, QuietStep DEF Arrive, Pcs, rowVars, history
<1>2. ASSUME NEW r \in Runs, InsertNew(r)
      PROVE  KeyInv'
      <2>1. ~ RowLocked
            BY <1>2 DEF InsertNew, KeyInv, RowLocked
      <2>2. ~ RowLocked'
            BY <1>2, <2>1, GotoUnlocked DEF InsertNew, Acquired, Pcs
      <2>3. QED
            BY <1>2, <2>1, <2>2, <1>0, WritingStep DEF InsertNew, history
<1>3. ASSUME NEW r \in Runs, InsertConflict(r) \/ ReacquireCollision(r) \/ SelectLapsed(r)
      PROVE  KeyInv'
      BY <1>3, <1>0, QuietStep DEF InsertConflict, ReacquireCollision, SelectLapsed, Pcs, rowVars, history
<1>4. ASSUME NEW r \in Runs, SelectNothing(r) \/ RecheckNothing(r)
      PROVE  KeyInv'
      BY <1>4, <1>0, QuietStep DEF SelectNothing, RecheckNothing, Acquired, Pcs, rowVars, history
<1>5. ASSUME NEW r \in Runs, SelectAnswered(r) \/ RecheckAnswered(r) \/ AcquireFails(r) \/ FinalizeLost(r) \/ KeepKey(r)
      PROVE  KeyInv'
      <2>1. Goto(r, "answered") /\ UNCHANGED <<row, life, wrote>>
            BY <1>5 DEF SelectAnswered, RecheckAnswered, AcquireFails, FinalizeLost, KeepKey, Answered, rowVars, history
      <2>2. QED
            BY <2>1, <1>0, QuietStep DEF Pcs
<1>6. ASSUME NEW r \in Runs, ReacquireWithOcc(r)
      PROVE  KeyInv'
      <2>1. ~ RowLocked'
            BY <1>6, GotoUnlocked DEF ReacquireWithOcc, Acquired, Pcs
      <2>2. QED
            BY <1>6, <2>1, <1>0, WritingStep DEF ReacquireWithOcc, OccMatch, KeyInv, TakesOverProcessing, history
<1>7. ASSUME NEW r \in Runs, ExtendLock(r)
      PROVE  KeyInv'
      <2>1. row'.status = row.status
            BY <1>7 DEF ExtendLock, TypeOK, Rows
      <2>2. ~ RowLocked'
            BY <1>7 DEF ExtendLock, RowLocked
      <2>3. QED
            BY <1>7, <2>1, <2>2, <1>0, WritingStep DEF ExtendLock, history
<1>8. ASSUME NEW r \in Runs, CompleteInTransaction(r)
      PROVE  KeyInv'
      BY <1>0, <1>8 DEF CompleteInTransaction, Completable, RowLocked, Goto, rowVars, history,
                  TypeOK, KeyInv, WriteIsRemembered, AtMostOneWrite
<1>9. ASSUME NEW r \in Runs, CompleteRefused(r) \/ Rollback(r) \/ EndWithoutWrite(r)
      PROVE  KeyInv'
      <2>1. Goto(r, "finalize") /\ UNCHANGED <<row, life, wrote>>
            BY <1>9 DEF CompleteRefused, Rollback, EndWithoutWrite, HandlerEnds, rowVars, history
      <2>2. QED
            BY <2>1, <1>0, QuietStep DEF Pcs
<1>10. ASSUME NEW r \in Runs, Commit(r)
       PROVE  KeyInv'
       <2>1. /\ row'.status = "completed"
             /\ pc' = [pc EXCEPT ![r] = "finalize"]
             /\ wrote' = [wrote EXCEPT ![r] = life]
             /\ life' = life
             BY <1>10 DEF Commit, CompletedRow, Goto, TypeOK, Rows
       <2>2. \A s \in Runs : wrote[s] # life
             BY <1>10 DEF Commit, KeyInv, WriteIsRemembered
       <2>3. \A s \in Runs : pc'[s] # "committing"
             BY <1>10, <2>1 DEF Commit, KeyInv, TypeOK
       <2>4. AtMostOneWrite'
             BY <2>1, <2>2 DEF AtMostOneWrite, KeyInv, TypeOK
       <2>5. \A s \in Runs : wrote'[s] <= life'
             BY <2>1 DEF KeyInv, TypeOK
       <2>6. QED
             BY <1>0, <2>1, <2>3, <2>4, <2>5 DEF KeyInv, WriteIsRemembered
<1>11. ASSUME NEW r \in Runs, SaveResponse(r) \/ ReleaseKey(r)
       PROVE  KeyInv'
       <2>1. ~ RowLocked /\ Goto(r, "answered") /\ UNCHANGED <<life, wrote>>
             BY <1>11 DEF SaveResponse, ReleaseKey, Answered, history
       <2>2. ~ RowLocked'
             BY <2>1, GotoUnlocked DEF Pcs
       <2>3. row.status = "completed" => row'.status = "completed"
             BY <1>11 DEF SaveResponse, ReleaseKey, Releasable, CompletedRow, TypeOK, Rows
       <2>4. QED
             BY <2>1, <2>2, <2>3, <1>0, WritingStep
<1>12. ASSUME NEW r \in Runs, Crash(r)
       PROVE  KeyInv'
       BY <1>12, <1>0, QuietStep DEF Crash, Pcs, rowVars, history
<1>13. CASE CleanupExpired
       <2>1. \A r \in Runs : pc[r] # "committing" /\ pc'[r] # "committing"
             BY <1>13 DEF CleanupExpired, RowLocked
       <2>2. \A r \in Runs : wrote'[r] # life'
             <3>1. CASE row.status = "completed"
                   BY <1>13, <3>1 DEF CleanupExpired, KeyInv, TypeOK
             <3>2. CASE row.status # "completed"
                   BY <1>13, <3>2 DEF CleanupExpired, KeyInv, WriteIsRemembered
             <3>3. QED
                   BY <3>1, <3>2
       <2>3. \A r \in Runs : wrote'[r] <= life'
             BY <1>13 DEF CleanupExpired, KeyInv, TypeOK
       <2>4. AtMostOneWrite'
             BY <1>13 DEF CleanupExpired, KeyInv, AtMostOneWrite
       <2>5. QED
             BY <1>0, <2>1, <2>2, <2>3, <2>4 DEF KeyInv, WriteIsRemembered
<1>14. CASE Tick
       BY <1>0, <1>14 DEF Tick, rowVars, history, KeyInv, WriteIsRemembered, AtMostOneWrite
<1>15. CASE UNCHANGED vars
       BY <1>0, <1>15 DEF vars, KeyInv, WriteIsRemembered, AtMostOneWrite
<1>16. QED
       BY <1>1, <1>2, <1>3, <1>4, <1>5, <1>6, <1>7, <1>8, <1>9, <1>10, <1>11, <1>12, <1>13, <1>14, <1>15
       DEF Next, Progress, AcquireKey, RunHandler, Finalize

(* The inductive invariant of the key. *)
THEOREM KeyInvariant == Spec => []KeyInv
<1>1. Init => KeyInv
      BY DEF Init, KeyInv, TakesOverProcessing, WriteIsRemembered, AtMostOneWrite
<1>2. QED
      BY <1>1, TypeCorrect, KeyStep, PTL DEF Spec

(* At most one run commits its write during one lifetime of the key, for   *)
(* any number of resends and any pattern of lapsed locks, takeovers,       *)
(* crashes and lost acknowledgements.                                      *)
THEOREM OnlyOneCommits == Spec => []AtMostOneWrite
<1>1. KeyInv => AtMostOneWrite
      BY DEF KeyInv
<1>2. QED
      BY <1>1, KeyInvariant, PTL

(* A committed write keeps its key completed until the purge. *)
THEOREM CommittedWriteRemembered == Spec => []WriteIsRemembered
<1>1. KeyInv => WriteIsRemembered
      BY DEF KeyInv
<1>2. QED
      BY <1>1, KeyInvariant, PTL

-----------------------------------------------------------------------------
(* Which actions touch the history at all. *)
LEMMA HistoryStep ==
    ASSUME [Next]_vars
    PROVE  UNCHANGED <<life, wrote>> \/ CleanupExpired \/ \E r \in Runs : Commit(r)
<1>1. ASSUME NEW r \in Runs, AcquireKey(r)
      PROVE  UNCHANGED <<life, wrote>>
      BY <1>1 DEF AcquireKey, InsertNew, InsertConflict, SelectNothing, SelectAnswered, SelectLapsed,
                  ReacquireWithOcc, ReacquireCollision, RecheckAnswered, RecheckNothing, history
<1>2. ASSUME NEW r \in Runs, RunHandler(r), ~ Commit(r)
      PROVE  UNCHANGED <<life, wrote>>
      BY <1>2 DEF RunHandler, CompleteInTransaction, CompleteRefused, Rollback, EndWithoutWrite, history
<1>3. ASSUME NEW r \in Runs, Finalize(r)
      PROVE  UNCHANGED <<life, wrote>>
      BY <1>3 DEF Finalize, SaveResponse, KeepKey, ReleaseKey, history
<1>4. ASSUME NEW r \in Runs,
             \/ \E b \in Bodies : Arrive(r, b)
             \/ ExtendLock(r) \/ AcquireFails(r) \/ FinalizeLost(r) \/ Crash(r)
      PROVE  UNCHANGED <<life, wrote>>
      BY <1>4 DEF Arrive, ExtendLock, AcquireFails, FinalizeLost, Crash, history
<1>5. CASE Tick \/ UNCHANGED vars
      BY <1>5 DEF Tick, vars, history
<1>6. QED
      BY <1>1, <1>2, <1>3, <1>4, <1>5 DEF Next, Progress

(* Nobody is the writer exactly when no run wrote in this lifetime. *)
LEMMA WriterNobody ==
    ASSUME \A r \in Runs : wrote[r] # life
    PROVE  Writer = Nobody
BY DEF Writer

LEMMA WriteOnceStep == TypeOK /\ KeyInv /\ [Next]_vars => [Abstract!Next]_Writer
<1> SUFFICES ASSUME TypeOK, KeyInv, [Next]_vars
             PROVE  [Abstract!Next]_Writer
    OBVIOUS
<1>1. CASE UNCHANGED <<life, wrote>>
      BY <1>1 DEF Writer
<1>2. ASSUME NEW r \in Runs, Commit(r)
      PROVE  Abstract!Write(r)
      <2>1. \A s \in Runs : wrote[s] # life
            BY <1>2 DEF Commit, KeyInv, WriteIsRemembered
      <2>2. Writer = Nobody
            BY <2>1, WriterNobody
      <2>3. wrote' = [wrote EXCEPT ![r] = life] /\ life' = life
            BY <1>2 DEF Commit
      <2>4. wrote'[r] = life' /\ \A s \in Runs : wrote'[s] = life' => s = r
            BY <2>1, <2>3 DEF TypeOK
      <2>5. (CHOOSE s \in Runs : wrote'[s] = life') = r
            BY <2>4
      <2>6. Writer' = r
            BY <2>4, <2>5 DEF Writer
      <2>7. QED
            BY <2>2, <2>6 DEF Abstract!Write
<1>3. CASE CleanupExpired
      <2>1. CASE row.status = "completed"
            <3>1. \A r \in Runs : wrote'[r] # life'
                  BY <1>3, <2>1 DEF CleanupExpired, KeyInv, TypeOK
            <3>2. Writer' = Nobody
                  BY <3>1 DEF Writer
            <3>3. QED
                  BY <3>2 DEF Abstract!Next, Abstract!Expire
      <2>2. CASE row.status # "completed"
            <3>1. UNCHANGED <<life, wrote>>
                  BY <1>3, <2>2 DEF CleanupExpired
            <3>2. QED
                  BY <3>1 DEF Writer
      <2>3. QED
            BY <2>1, <2>2
<1>4. QED
      BY <1>1, <1>2, <1>3, HistoryStep DEF Abstract!Next

(* The key, its runs, its takeovers and its purge implement WriteOnce. *)
THEOREM KeyImplementsWriteOnce == Spec => ImplementsWriteOnce
<1>1. Init => Abstract!Init
      <2> SUFFICES ASSUME Init
                   PROVE  Abstract!Init
          OBVIOUS
      <2>1. \A r \in Runs : wrote[r] # life
            <3>1. life = 1 /\ wrote = [r \in Runs |-> 0]
                  BY DEF Init
            <3>2. \A r \in Runs : wrote[r] = 0
                  BY <3>1
            <3>3. 0 # 1
                  OBVIOUS
            <3>4. QED
                  BY <3>1, <3>2, <3>3
      <2>2. QED
            BY <2>1, WriterNobody DEF Abstract!Init
<1>2. QED
      BY <1>1, TypeCorrect, KeyInvariant, WriteOnceStep, PTL DEF Spec, ImplementsWriteOnce, Abstract!Spec

-----------------------------------------------------------------------------
(* One step of CompletedKeyStays. *)
CompletedStays ==
    row.status = "completed" =>
        \/ row'.status = "completed" /\ row'.id = row.id
        \/ row.expiresAt < now

LEMMA CompletedStep == TypeOK /\ KeyInv /\ [Next]_vars => [CompletedStays]_vars
<1> SUFFICES ASSUME TypeOK, KeyInv, Next, row.status = "completed"
             PROVE  (row'.status = "completed" /\ row'.id = row.id) \/ row.expiresAt < now
    BY DEF CompletedStays
<1>1. CASE UNCHANGED row
      BY <1>1
<1>2. ASSUME NEW r \in Runs, AcquireKey(r)
      PROVE  UNCHANGED row
      BY <1>2 DEF AcquireKey, InsertNew, InsertConflict, SelectNothing, SelectAnswered, SelectLapsed,
                  ReacquireWithOcc, OccMatch, KeyInv, TakesOverProcessing,
                  ReacquireCollision, RecheckAnswered, RecheckNothing, rowVars
<1>3. ASSUME NEW r \in Runs, RunHandler(r)
      PROVE  UNCHANGED row
      BY <1>3 DEF RunHandler, CompleteInTransaction, CompleteRefused, Commit, Rollback, EndWithoutWrite, KeyInv, rowVars
<1>4. ASSUME NEW r \in Runs, Finalize(r)
      PROVE  row'.status = "completed" /\ row'.id = row.id
      BY <1>4 DEF Finalize, SaveResponse, CompletedRow, KeepKey, ReleaseKey, Releasable, rowVars, TypeOK, Rows
<1>5. ASSUME NEW r \in Runs,
             \/ \E b \in Bodies : Arrive(r, b)
             \/ ExtendLock(r) \/ AcquireFails(r) \/ FinalizeLost(r) \/ Crash(r)
      PROVE  UNCHANGED row
      BY <1>5 DEF Arrive, ExtendLock, AcquireFails, FinalizeLost, Crash, rowVars
<1>6. CASE CleanupExpired
      BY <1>6 DEF CleanupExpired
<1>7. CASE Tick
      BY <1>7 DEF Tick, rowVars
<1>8. QED
      BY <1>1, <1>2, <1>3, <1>4, <1>5, <1>6, <1>7 DEF Next, Progress

(* A completed key is never reopened, replaced or deleted before its       *)
(* lifetime has passed.                                                    *)
THEOREM CompletedKeySurvives == Spec => CompletedKeyStays
<1>1. Spec => [][CompletedStays]_vars
      BY TypeCorrect, KeyInvariant, CompletedStep, PTL DEF Spec
<1>2. QED
      BY <1>1 DEF CompletedKeyStays, CompletedStays
=============================================================================
