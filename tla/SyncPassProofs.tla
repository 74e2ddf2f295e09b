---------------------------- MODULE SyncPassProofs ----------------------------
(***************************************************************************)
(* For any passes, jobs, records and faults, and however the source        *)
(* changes: one pass at a time is inside the lock, a pass that has reaped  *)
(* leaves exactly the records it found, a commit that reads `completed`    *)
(* was done, and SyncPass implements OwnedTable.  A pass at work keeps its *)
(* instance unless passes stall and throw in one behaviour, and a draft    *)
(* whose work was begun leaves no `pending` instance behind unless a       *)
(* process died or the write of the status failed.                         *)
(***************************************************************************)
EXTENDS SyncPass, TLAPS

\* A pass other than an idle one has a job.
AtWork == \A p \in Passes : pc[p] # "idle" => job[p] \in Jobs

\* The lock is held by the pass that is inside it.
LockHeld == \A p \in Passes : holder = p <=> pc[p] \in Working

\* Before its work a pass has fetched nothing.  During it, the records stamped
\* with its watermark, which no stamp exceeds, are the ones it has flushed; it
\* reaps once all are, and marks once no older one is left.
WorkOf(p) ==
    /\ pc[p] \in {"idle", "try", "owned"} => buf[p] = {} /\ seen[p] = {}
    /\ pc[p] \in {"write", "reap", "mark"} =>
           /\ wm[p] > 0 /\ buf[p] \subseteq seen[p] /\ seen[p] \cap page[p] = {}
           /\ \A k \in Keys :
                  /\ stamp[k] <= wm[p]
                  /\ stamp[k] = wm[p] <=> k \in KeysOf(p, seen[p] \ buf[p])
           /\ pc[p] # "write" => page[p] = {} /\ buf[p] = {}
           /\ pc[p] = "reap" => ~Emptied(p)
           /\ pc[p] = "mark" /\ ~Emptied(p) => Stale(p) = {}

WorkRight == \A p \in Passes : WorkOf(p)

\* A commit's pass that returned is one of a finished job.
DoneIsFinished ==
    \A p \in Passes : pc[p] = "done" /\ job[p] \in Commits => job[p] \in finished

PassInv ==
    /\ SyncTypeOK /\ AtWork /\ LockHeld /\ WorkRight
    /\ CommitCompletedIsDone /\ DoneIsFinished

-----------------------------------------------------------------------------
(* Names and keys. *)

\* Jobs, passes and records do not meet the values that stand for none of them.
LEMMA Distinct == NoPass \notin Passes /\ NoJob \notin Jobs /\ Commits \subseteq Jobs
                  /\ Syncs \subseteq Jobs /\ Commits \cap Syncs = {}
BY SyncAssumption DEF Jobs

\* A record of a working pass has a key.
LEMMA KeysTyped ==
    ASSUME SyncTypeOK, NEW p \in Passes, job[p] \in Jobs, NEW found \in SUBSET Records
    PROVE  KeysOf(p, found) \subseteq Keys
BY DEF KeysOf, Key, Keys

-----------------------------------------------------------------------------
(* Types. *)

\* Init is well-typed.
LEMMA SyncInitTyped == Init => SyncTypeOK
BY Distinct, SyncAssumption DEF Init, SyncTypeOK, Steps, Live, Over, Keys, Sheet

\* Every step keeps the types.
LEMMA SyncStepTyped == SyncTypeOK /\ AtWork /\ [Next]_vars => SyncTypeOK'
<1> SUFFICES ASSUME SyncTypeOK, AtWork, [Next]_vars PROVE SyncTypeOK'
  OBVIOUS
<1> USE Distinct DEF SyncTypeOK, Steps, Working, Live, Over, jobVars, passVars, sourceVars, history
<1>1. ASSUME NEW p \in Passes, Acquire(p) PROVE SyncTypeOK'
  BY <1>1 DEF Acquire, Goto, AtWork
<1>2. ASSUME NEW p \in Passes, Superseded(p) PROVE SyncTypeOK'
  BY <1>2 DEF Superseded, Goto
<1>3. ASSUME NEW p \in Passes, TimeOut(p) PROVE SyncTypeOK'
  BY <1>3 DEF TimeOut, Goto
<1>4. ASSUME NEW p \in Passes, Echo(p) PROVE SyncTypeOK'
  BY <1>4 DEF Echo, Goto, ReleaseLock
<1>5. ASSUME NEW p \in Passes, Begin(p) PROVE SyncTypeOK'
  BY <1>5 DEF Begin, Goto
<1>6. ASSUME NEW p \in Passes, Fetch(p) PROVE SyncTypeOK'
  BY <1>6 DEF Fetch
<1>7. ASSUME NEW p \in Passes, Flush(p) PROVE SyncTypeOK'
  BY <1>7 DEF Flush
<1>8. ASSUME NEW p \in Passes, EndWrites(p) PROVE SyncTypeOK'
  BY <1>8 DEF EndWrites, Goto
<1>9. ASSUME NEW p \in Passes, ReapChunk(p) PROVE SyncTypeOK'
  BY <1>9 DEF ReapChunk, Goto
<1>10. ASSUME NEW p \in Passes, Mark(p) PROVE SyncTypeOK'
  BY <1>10 DEF Mark, Goto, ReleaseLock, AtWork
<1>11. ASSUME NEW p \in Passes, Fail(p) PROVE SyncTypeOK'
  BY <1>11 DEF Fail, Goto, ReleaseLock
<1>12. ASSUME NEW p \in Passes, Catch(p) PROVE SyncTypeOK'
  BY <1>12 DEF Catch, Goto, RollsBack
<1>13. ASSUME NEW p \in Passes, Complete(p) PROVE SyncTypeOK'
  BY <1>13 DEF Complete, Leave, Requeue, Goto, AtWork
<1>14. ASSUME NEW p \in Passes, RecordFailure(p) PROVE SyncTypeOK'
  BY <1>14, SyncAssumption DEF RecordFailure, Leave, Requeue, Goto, AtWork
<1>15. ASSUME NEW p \in Passes, Crash(p) PROVE SyncTypeOK'
  BY <1>15 DEF Crash, Leave, Goto, ReleaseLock
<1>16. ASSUME NEW p \in Passes, NEW j \in Jobs, Deliver(p, j) PROVE SyncTypeOK'
  BY <1>16 DEF Deliver, Goto
<1>17. ASSUME NEW p \in Passes, NEW j \in Jobs, Skip(p, j) PROVE SyncTypeOK'
  BY <1>17 DEF Skip
<1>18. ASSUME NEW j \in Jobs, Enqueue(j) PROVE SyncTypeOK'
  BY <1>18 DEF Enqueue
<1>19. ASSUME NEW j \in Jobs, Stall(j) PROVE SyncTypeOK'
  BY <1>19 DEF Stall, Requeue
<1>20. CASE RemoteChange
  BY <1>20 DEF RemoteChange
<1>21. CASE UNCHANGED vars
  BY <1>21 DEF vars
<1> QED
  BY <1>1, <1>2, <1>3, <1>4, <1>5, <1>6, <1>7, <1>8, <1>9, <1>10, <1>11, <1>12, <1>13,
     <1>14, <1>15, <1>16, <1>17, <1>18, <1>19, <1>20, <1>21 DEF Next, PassStep

-----------------------------------------------------------------------------
(* Who has a job, who has the lock, and what is finished. *)

\* A pass leaves `idle` with a job and gives it up when it is idle again.
LEMMA AtWorkStep == SyncTypeOK /\ AtWork /\ [Next]_vars => AtWork'
<1> SUFFICES ASSUME SyncTypeOK, AtWork, [Next]_vars PROVE AtWork'
  OBVIOUS
<1> USE DEF SyncTypeOK, AtWork, Working, jobVars, passVars, sourceVars, history
<1>1. ASSUME NEW p \in Passes, Acquire(p) PROVE AtWork'
  BY <1>1 DEF Acquire, Goto
<1>2. ASSUME NEW p \in Passes, Superseded(p) PROVE AtWork'
  BY <1>2 DEF Superseded, Goto
<1>3. ASSUME NEW p \in Passes, TimeOut(p) PROVE AtWork'
  BY <1>3 DEF TimeOut, Goto
<1>4. ASSUME NEW p \in Passes, Echo(p) PROVE AtWork'
  BY <1>4 DEF Echo, Goto, ReleaseLock
<1>5. ASSUME NEW p \in Passes, Begin(p) PROVE AtWork'
  BY <1>5 DEF Begin, Goto
<1>6. ASSUME NEW p \in Passes, Fetch(p) PROVE AtWork'
  BY <1>6 DEF Fetch
<1>7. ASSUME NEW p \in Passes, Flush(p) PROVE AtWork'
  BY <1>7 DEF Flush
<1>8. ASSUME NEW p \in Passes, EndWrites(p) PROVE AtWork'
  BY <1>8 DEF EndWrites, Goto
<1>9. ASSUME NEW p \in Passes, ReapChunk(p) PROVE AtWork'
  BY <1>9 DEF ReapChunk, Goto
<1>10. ASSUME NEW p \in Passes, Mark(p) PROVE AtWork'
  BY <1>10 DEF Mark, Goto, ReleaseLock
<1>11. ASSUME NEW p \in Passes, Fail(p) PROVE AtWork'
  BY <1>11 DEF Fail, Goto, ReleaseLock
<1>12. ASSUME NEW p \in Passes, Catch(p) PROVE AtWork'
  BY <1>12 DEF Catch, Goto, RollsBack
<1>13. ASSUME NEW p \in Passes, Complete(p) PROVE AtWork'
  BY <1>13 DEF Complete, Leave, Requeue, Goto
<1>14. ASSUME NEW p \in Passes, RecordFailure(p) PROVE AtWork'
  BY <1>14 DEF RecordFailure, Leave, Requeue, Goto
<1>15. ASSUME NEW p \in Passes, Crash(p) PROVE AtWork'
  BY <1>15 DEF Crash, Leave, Goto, ReleaseLock
<1>16. ASSUME NEW p \in Passes, NEW j \in Jobs, Deliver(p, j) PROVE AtWork'
  BY <1>16 DEF Deliver, Goto
<1>17. ASSUME NEW p \in Passes, NEW j \in Jobs, Skip(p, j) PROVE AtWork'
  BY <1>17 DEF Skip
<1>18. ASSUME NEW j \in Jobs, Enqueue(j) PROVE AtWork'
  BY <1>18 DEF Enqueue
<1>19. ASSUME NEW j \in Jobs, Stall(j) PROVE AtWork'
  BY <1>19 DEF Stall, Requeue
<1>20. ASSUME RemoteChange \/ UNCHANGED vars PROVE AtWork'
  BY <1>20 DEF RemoteChange, vars
<1> QED
  BY <1>1, <1>2, <1>3, <1>4, <1>5, <1>6, <1>7, <1>8, <1>9, <1>10, <1>11, <1>12, <1>13,
     <1>14, <1>15, <1>16, <1>17, <1>18, <1>19, <1>20 DEF Next, PassStep

\* Only Acquire enters the lock, when nobody holds it, and every way out of the
\* work gives it back.
LEMMA LockHeldStep == SyncTypeOK /\ LockHeld /\ [Next]_vars => LockHeld'
<1> SUFFICES ASSUME SyncTypeOK, LockHeld, [Next]_vars PROVE LockHeld'
  OBVIOUS
<1> USE Distinct DEF SyncTypeOK, LockHeld, Working, jobVars, passVars, sourceVars, history
<1>1. ASSUME NEW p \in Passes, Acquire(p) PROVE LockHeld'
  BY <1>1 DEF Acquire, Goto
<1>2. ASSUME NEW p \in Passes, Superseded(p) PROVE LockHeld'
  BY <1>2 DEF Superseded, Goto
<1>3. ASSUME NEW p \in Passes, TimeOut(p) PROVE LockHeld'
  BY <1>3 DEF TimeOut, Goto
<1>4. ASSUME NEW p \in Passes, Echo(p) PROVE LockHeld'
  BY <1>4 DEF Echo, Goto, ReleaseLock
<1>5. ASSUME NEW p \in Passes, Begin(p) PROVE LockHeld'
  BY <1>5 DEF Begin, Goto
<1>6. ASSUME NEW p \in Passes, Fetch(p) PROVE LockHeld'
  BY <1>6 DEF Fetch
<1>7. ASSUME NEW p \in Passes, Flush(p) PROVE LockHeld'
  BY <1>7 DEF Flush
<1>8. ASSUME NEW p \in Passes, EndWrites(p) PROVE LockHeld'
  BY <1>8 DEF EndWrites, Goto
<1>9. ASSUME NEW p \in Passes, ReapChunk(p) PROVE LockHeld'
  BY <1>9 DEF ReapChunk, Goto
<1>10. ASSUME NEW p \in Passes, Mark(p) PROVE LockHeld'
  BY <1>10 DEF Mark, Goto, ReleaseLock
<1>11. ASSUME NEW p \in Passes, Fail(p) PROVE LockHeld'
  <2>1. pc[p] \in {"owned", "write", "reap", "mark"} /\ holder = p /\ p # NoPass
    BY <1>11 DEF Fail
  <2>2. /\ \A q \in Passes : q # p => pc'[q] = pc[q]
        /\ pc'[p] \in {"threw", "failed"}
    BY <1>11 DEF Fail, Goto
  <2>3. holder' = NoPass
    BY <1>11, <2>1 DEF Fail, ReleaseLock
  <2> QED
    BY <2>1, <2>2, <2>3
<1>12. ASSUME NEW p \in Passes, Catch(p) PROVE LockHeld'
  BY <1>12 DEF Catch, Goto, RollsBack
<1>13. ASSUME NEW p \in Passes, Complete(p) PROVE LockHeld'
  BY <1>13 DEF Complete, Leave, Requeue, Goto
<1>14. ASSUME NEW p \in Passes, RecordFailure(p) PROVE LockHeld'
  BY <1>14 DEF RecordFailure, Leave, Requeue, Goto
<1>15. ASSUME NEW p \in Passes, Crash(p) PROVE LockHeld'
  BY <1>15 DEF Crash, Leave, Goto, ReleaseLock
<1>16. ASSUME NEW p \in Passes, NEW j \in Jobs, Deliver(p, j) PROVE LockHeld'
  BY <1>16 DEF Deliver, Goto
<1>17. ASSUME NEW p \in Passes, NEW j \in Jobs, Skip(p, j) PROVE LockHeld'
  BY <1>17 DEF Skip
<1>18. ASSUME NEW j \in Jobs, Enqueue(j) PROVE LockHeld'
  BY <1>18 DEF Enqueue
<1>19. ASSUME NEW j \in Jobs, Stall(j) PROVE LockHeld'
  BY <1>19 DEF Stall, Requeue
<1>20. ASSUME RemoteChange \/ UNCHANGED vars PROVE LockHeld'
  BY <1>20 DEF RemoteChange, vars
<1> QED
  BY <1>1, <1>2, <1>3, <1>4, <1>5, <1>6, <1>7, <1>8, <1>9, <1>10, <1>11, <1>12, <1>13,
     <1>14, <1>15, <1>16, <1>17, <1>18, <1>19, <1>20 DEF Next, PassStep

\* A pass returns from a commit it finished, or found completed; only returning
\* passes complete a row.
LEMMA FinishedStep ==
    SyncTypeOK /\ AtWork /\ CommitCompletedIsDone /\ DoneIsFinished /\ [Next]_vars
        => CommitCompletedIsDone' /\ DoneIsFinished'
<1> SUFFICES ASSUME SyncTypeOK, AtWork, CommitCompletedIsDone, DoneIsFinished, [Next]_vars
             PROVE  CommitCompletedIsDone' /\ DoneIsFinished'
  OBVIOUS
<1> USE Distinct DEF SyncTypeOK, AtWork, CommitCompletedIsDone, DoneIsFinished, jobVars,
                     passVars, sourceVars, history
<1>1. ASSUME NEW p \in Passes, Acquire(p) PROVE CommitCompletedIsDone' /\ DoneIsFinished'
  BY <1>1 DEF Acquire, Goto
<1>2. ASSUME NEW p \in Passes, Superseded(p)
      PROVE  CommitCompletedIsDone' /\ DoneIsFinished'
  BY <1>2 DEF Superseded, Goto
<1>3. ASSUME NEW p \in Passes, TimeOut(p) PROVE CommitCompletedIsDone' /\ DoneIsFinished'
  BY <1>3 DEF TimeOut, Goto
<1>4. ASSUME NEW p \in Passes, Echo(p) PROVE CommitCompletedIsDone' /\ DoneIsFinished'
  BY <1>4 DEF Echo, Goto, ReleaseLock
<1>5. ASSUME NEW p \in Passes, Begin(p) PROVE CommitCompletedIsDone' /\ DoneIsFinished'
  BY <1>5 DEF Begin, Goto
<1>6. ASSUME NEW p \in Passes, Fetch(p) PROVE CommitCompletedIsDone' /\ DoneIsFinished'
  BY <1>6 DEF Fetch
<1>7. ASSUME NEW p \in Passes, Flush(p) PROVE CommitCompletedIsDone' /\ DoneIsFinished'
  BY <1>7 DEF Flush
<1>8. ASSUME NEW p \in Passes, EndWrites(p)
      PROVE  CommitCompletedIsDone' /\ DoneIsFinished'
  BY <1>8 DEF EndWrites, Goto
<1>9. ASSUME NEW p \in Passes, ReapChunk(p)
      PROVE  CommitCompletedIsDone' /\ DoneIsFinished'
  BY <1>9 DEF ReapChunk, Goto
<1>10. ASSUME NEW p \in Passes, Mark(p) PROVE CommitCompletedIsDone' /\ DoneIsFinished'
  BY <1>10 DEF Mark, Goto, ReleaseLock
<1>11. ASSUME NEW p \in Passes, Fail(p) PROVE CommitCompletedIsDone' /\ DoneIsFinished'
  BY <1>11 DEF Fail, Goto, ReleaseLock
<1>12. ASSUME NEW p \in Passes, Catch(p) PROVE CommitCompletedIsDone' /\ DoneIsFinished'
  BY <1>12 DEF Catch, Goto, RollsBack
<1>13. ASSUME NEW p \in Passes, Complete(p)
       PROVE  CommitCompletedIsDone' /\ DoneIsFinished'
  BY <1>13 DEF Complete, Leave, Requeue, Goto
<1>14. ASSUME NEW p \in Passes, RecordFailure(p)
       PROVE  CommitCompletedIsDone' /\ DoneIsFinished'
  BY <1>14 DEF RecordFailure, Leave, Requeue, Goto
<1>15. ASSUME NEW p \in Passes, Crash(p) PROVE CommitCompletedIsDone' /\ DoneIsFinished'
  BY <1>15 DEF Crash, Leave, Goto, ReleaseLock
<1>16. ASSUME NEW p \in Passes, NEW j \in Jobs, Deliver(p, j)
       PROVE  CommitCompletedIsDone' /\ DoneIsFinished'
  BY <1>16 DEF Deliver, Goto
<1>17. ASSUME NEW p \in Passes, NEW j \in Jobs, Skip(p, j)
       PROVE  CommitCompletedIsDone' /\ DoneIsFinished'
  BY <1>17 DEF Skip
<1>18. ASSUME NEW j \in Jobs, Enqueue(j) PROVE CommitCompletedIsDone' /\ DoneIsFinished'
  BY <1>18 DEF Enqueue
<1>19. ASSUME NEW j \in Jobs, Stall(j) PROVE CommitCompletedIsDone' /\ DoneIsFinished'
  BY <1>19 DEF Stall, Requeue
<1>20. ASSUME RemoteChange \/ UNCHANGED vars
       PROVE  CommitCompletedIsDone' /\ DoneIsFinished'
  BY <1>20 DEF RemoteChange, vars
<1> QED
  BY <1>1, <1>2, <1>3, <1>4, <1>5, <1>6, <1>7, <1>8, <1>9, <1>10, <1>11, <1>12, <1>13,
     <1>14, <1>15, <1>16, <1>17, <1>18, <1>19, <1>20 DEF Next, PassStep

-----------------------------------------------------------------------------
(* The work. *)

\* A pass's work stands while neither its context nor the records change.
LEMMA WorkFrame ==
    ASSUME NEW q \in Passes, WorkOf(q), UNCHANGED <<setting, stamp>>,
           pc'[q] = pc[q], job'[q] = job[q], wm'[q] = wm[q], page'[q] = page[q],
           buf'[q] = buf[q], seen'[q] = seen[q]
    PROVE  WorkOf(q)'
BY DEF WorkOf, KeysOf, Key, Emptied, Stale, LiveKeys, Sheet

\* So it does when another pass, inside the lock, changes the records.
LEMMA WorkApart ==
    ASSUME SyncTypeOK, LockHeld, NEW p \in Passes, NEW q \in Passes \ {p}, WorkOf(q),
           pc[p] \in Working, pc'[q] = pc[q], buf'[q] = buf[q], seen'[q] = seen[q]
    PROVE  WorkOf(q)'
BY DEF WorkOf, LockHeld, Working

\* A pass moves on outside its work, or enters the lock.
LEMMA WorkMoves ==
    ASSUME SyncTypeOK, WorkRight, NEW p \in Passes,
           \/ Acquire(p) \/ Superseded(p) \/ TimeOut(p) \/ Echo(p) \/ Mark(p) \/ Fail(p)
           \/ Catch(p) \/ Complete(p) \/ RecordFailure(p) \/ Crash(p)
    PROVE  WorkRight'
<1> SUFFICES ASSUME NEW q \in Passes PROVE WorkOf(q)'
  BY DEF WorkRight
<1>1. WorkOf(q)
  BY DEF WorkRight
<1>2. UNCHANGED <<setting, stamp>>
  BY DEF Acquire, Superseded, TimeOut, Echo, Mark, Fail, Catch, Complete, RecordFailure,
         Crash, sourceVars, history
<1>3. CASE q # p
  <2>1. /\ pc'[q] = pc[q] /\ job'[q] = job[q] /\ wm'[q] = wm[q] /\ page'[q] = page[q]
        /\ buf'[q] = buf[q] /\ seen'[q] = seen[q]
    BY <1>3 DEF SyncTypeOK, Acquire, Superseded, TimeOut, Echo, Mark, Fail, Catch, Complete,
                RecordFailure, Crash, Goto, Leave
  <2> QED
    BY <2>1, <1>1, <1>2, WorkFrame
<1>4. CASE q = p /\ Acquire(p)
  BY <1>1, <1>4 DEF Acquire, Goto, WorkOf, SyncTypeOK
<1>5. CASE q = p /\ (Superseded(p) \/ TimeOut(p) \/ Echo(p) \/ Mark(p) \/ Fail(p) \/ Catch(p))
  <2>1. pc'[p] \in {"done", "failed", "threw"}
    BY <1>5 DEF Superseded, TimeOut, Echo, Mark, Fail, Catch, Goto, SyncTypeOK
  <2> QED
    BY <2>1, <1>5 DEF WorkOf
<1>6. CASE q = p /\ (Complete(p) \/ RecordFailure(p) \/ Crash(p))
  <2>1. pc'[p] = "idle" /\ buf'[p] = {} /\ seen'[p] = {}
    BY <1>6 DEF Complete, RecordFailure, Crash, Leave, Goto, SyncTypeOK
  <2> QED
    BY <2>1, <1>6 DEF WorkOf
<1> QED
  BY <1>3, <1>4, <1>5, <1>6

\* A pass begins with a watermark above every stamp, and nothing fetched.
LEMMA WorkBegins ==
    ASSUME SyncTypeOK, WorkRight, NEW p \in Passes, Begin(p)
    PROVE  WorkRight'
<1> SUFFICES ASSUME NEW q \in Passes PROVE WorkOf(q)'
  BY DEF WorkRight
<1>1. WorkOf(q)
  BY DEF WorkRight
<1>2. CASE q # p
  <2>1. /\ pc'[q] = pc[q] /\ job'[q] = job[q] /\ wm'[q] = wm[q] /\ page'[q] = page[q]
        /\ buf'[q] = buf[q] /\ seen'[q] = seen[q] /\ UNCHANGED <<setting, stamp>>
    BY <1>2 DEF SyncTypeOK, Begin, Goto
  <2> QED
    BY <2>1, <1>1, WorkFrame
<1>3. CASE q = p
  <2>1. PICK t \in 1..MaxTime : Later(t) /\ wm' = [wm EXCEPT ![p] = t]
    BY DEF Begin
  <2>2. /\ pc'[p] = "write" /\ wm'[p] = t /\ t > 0 /\ buf'[p] = {} /\ seen'[p] = {}
        /\ stamp' = stamp
    BY <1>1, <1>3, <2>1, SyncAssumption DEF SyncTypeOK, Begin, Goto, WorkOf
  <2>3. \A k \in Keys : stamp'[k] < wm'[p] /\ stamp'[k] \in Nat
    BY <2>1, <2>2 DEF Later, SyncTypeOK
  <2>4. KeysOf(p, seen[p] \ buf[p])' = {}
    BY <2>2 DEF KeysOf
  <2>5. t \in Nat
    BY <2>1, SyncAssumption
  <2> QED
    BY <1>3, <2>2, <2>3, <2>4, <2>5 DEF WorkOf
<1> QED
  BY <1>2, <1>3

\* What is fetched waits in the buffer, whose records are not the flushed ones.
LEMMA WorkFetches ==
    ASSUME SyncTypeOK, WorkRight, NEW p \in Passes, Fetch(p)
    PROVE  WorkRight'
<1> SUFFICES ASSUME NEW q \in Passes PROVE WorkOf(q)'
  BY DEF WorkRight
<1>1. WorkOf(q)
  BY DEF WorkRight
<1>2. CASE q # p
  <2>1. /\ pc'[q] = pc[q] /\ job'[q] = job[q] /\ wm'[q] = wm[q] /\ page'[q] = page[q]
        /\ buf'[q] = buf[q] /\ seen'[q] = seen[q] /\ UNCHANGED <<setting, stamp>>
    BY <1>2 DEF SyncTypeOK, Fetch
  <2> QED
    BY <2>1, <1>1, WorkFrame
<1>3. CASE q = p
  <2>1. PICK asked \in SUBSET page[p] :
            /\ page' = [page EXCEPT ![p] = @ \ asked]
            /\ buf' = [buf EXCEPT ![p] = @ \cup (asked \cap remote)]
            /\ seen' = [seen EXCEPT ![p] = @ \cup (asked \cap remote)]
    BY ZenonT(60) DEF Fetch
  <2>2. /\ pc[p] = "write" /\ pc'[p] = "write" /\ wm'[p] = wm[p]
        /\ UNCHANGED <<stamp, setting, job>>
        /\ page'[p] = page[p] \ asked
        /\ buf'[p] = buf[p] \cup (asked \cap remote)
        /\ seen'[p] = seen[p] \cup (asked \cap remote)
    BY <2>1 DEF Fetch, SyncTypeOK
  <2>3. seen'[p] \ buf'[p] = seen[p] \ buf[p] /\ seen'[p] \cap page'[p] = {}
    BY <1>1, <1>3, <2>2 DEF WorkOf
  <2>4. KeysOf(p, seen[p] \ buf[p])' = KeysOf(p, seen[p] \ buf[p])
    BY <2>2, <2>3 DEF KeysOf, Key
  <2> QED
    BY <1>1, <1>3, <2>2, <2>3, <2>4 DEF WorkOf
<1> QED
  BY <1>2, <1>3

\* Flushed records get the watermark, and the buffer is empty.
LEMMA WorkFlushes ==
    ASSUME SyncTypeOK, AtWork, LockHeld, WorkRight, NEW p \in Passes, Flush(p)
    PROVE  WorkRight'
<1> SUFFICES ASSUME NEW q \in Passes PROVE WorkOf(q)'
  BY DEF WorkRight
<1>1. WorkOf(q)
  BY DEF WorkRight
<1>2. CASE q # p
  <2>1. pc[p] \in Working /\ pc' = pc /\ seen' = seen /\ buf'[q] = buf[q]
    BY <1>2 DEF SyncTypeOK, Flush, Working
  <2> QED
    BY <2>1, <1>1, <1>2, WorkApart
<1>3. CASE q = p
  <2>1. /\ pc[p] = "write" /\ UNCHANGED <<pc, setting, job, wm, page, seen>>
        /\ buf'[p] = {} /\ wm[p] \in Nat
        /\ \A k \in Keys : stamp'[k] = IF k \in KeysOf(p, buf[p]) THEN wm[p] ELSE stamp[k]
    BY DEF Flush, SyncTypeOK
  <2>2. \A k : k \in KeysOf(p, seen[p] \ buf[p])'
                 <=> k \in KeysOf(p, seen[p] \ buf[p]) \/ k \in KeysOf(p, buf[p])
    BY <1>1, <1>3, <2>1 DEF KeysOf, Key, WorkOf
  <2>3. \A k \in Keys : /\ stamp'[k] <= wm'[p]
                        /\ stamp'[k] = wm'[p] <=> k \in KeysOf(p, seen[p] \ buf[p])'
    <3> SUFFICES ASSUME NEW k \in Keys
                 PROVE  /\ stamp'[k] <= wm[p]
                        /\ stamp'[k] = wm[p] <=> k \in KeysOf(p, seen[p] \ buf[p])'
      BY <2>1
    <3>1. /\ stamp[k] \in Nat /\ stamp[k] <= wm[p]
          /\ stamp[k] = wm[p] <=> k \in KeysOf(p, seen[p] \ buf[p])
      BY <1>1, <1>3, <2>1 DEF WorkOf, SyncTypeOK
    <3>2. stamp'[k] = IF k \in KeysOf(p, buf[p]) THEN wm[p] ELSE stamp[k]
      BY <2>1
    <3>3. k \in KeysOf(p, seen[p] \ buf[p])'
              <=> k \in KeysOf(p, seen[p] \ buf[p]) \/ k \in KeysOf(p, buf[p])
      BY <2>2
    <3> QED
      BY <3>1, <3>2, <3>3, <2>1
  <2> QED
    BY <1>1, <1>3, <2>1, <2>3 DEF WorkOf
<1> QED
  BY <1>2, <1>3

\* The writes end with everything flushed.
LEMMA WorkEndsWrites ==
    ASSUME SyncTypeOK, WorkRight, NEW p \in Passes, EndWrites(p)
    PROVE  WorkRight'
<1> SUFFICES ASSUME NEW q \in Passes PROVE WorkOf(q)'
  BY DEF WorkRight
<1>1. WorkOf(q)
  BY DEF WorkRight
<1>2. CASE q # p
  <2>1. /\ pc'[q] = pc[q] /\ job'[q] = job[q] /\ wm'[q] = wm[q] /\ page'[q] = page[q]
        /\ buf'[q] = buf[q] /\ seen'[q] = seen[q] /\ UNCHANGED <<setting, stamp>>
    BY <1>2 DEF SyncTypeOK, EndWrites, Goto
  <2> QED
    BY <2>1, <1>1, WorkFrame
<1>3. CASE q = p
  <2>1. /\ pc[p] = "write" /\ page[p] = {} /\ buf[p] = {}
        /\ pc'[p] = IF Emptied(p) THEN "mark" ELSE "reap"
        /\ UNCHANGED <<setting, job, wm, page, buf, seen, stamp>>
    BY DEF EndWrites, Goto, SyncTypeOK
  <2>2. /\ KeysOf(p, seen[p] \ buf[p])' = KeysOf(p, seen[p] \ buf[p])
        /\ Emptied(p)' <=> Emptied(p)
    BY <2>1 DEF KeysOf, Key, Emptied, Sheet
  <2> QED
    BY <1>1, <1>3, <2>1, <2>2 DEF WorkOf
<1> QED
  BY <1>2, <1>3

\* A chunk of the reap holds only records with an older stamp; the last leaves
\* none.
LEMMA WorkReaps ==
    ASSUME SyncTypeOK, LockHeld, WorkRight, NEW p \in Passes, ReapChunk(p)
    PROVE  WorkRight'
<1> SUFFICES ASSUME NEW q \in Passes PROVE WorkOf(q)'
  BY DEF WorkRight
<1>1. WorkOf(q)
  BY DEF WorkRight
<1>2. CASE q # p
  <2>1. pc[p] \in Working /\ pc'[q] = pc[q] /\ seen' = seen /\ buf' = buf
    BY <1>2 DEF SyncTypeOK, ReapChunk, Working, Goto
  <2> QED
    BY <2>1, <1>1, <1>2, WorkApart
<1>3. CASE q = p
  <2>1. PICK chunk \in SUBSET Stale(p) :
            /\ stamp' = [k \in Keys |-> IF k \in chunk THEN 0 ELSE stamp[k]]
            /\ Goto(p, IF chunk = Stale(p) THEN "mark" ELSE "reap")
    BY DEF ReapChunk
  <2>2. /\ pc[p] = "reap" /\ UNCHANGED <<setting, job, wm, page, buf, seen>>
        /\ pc'[p] = IF chunk = Stale(p) THEN "mark" ELSE "reap"
        /\ \A k \in Keys : stamp'[k] = IF k \in chunk THEN 0 ELSE stamp[k]
        /\ wm[p] \in Nat /\ \A k \in Keys : stamp[k] \in Nat
    BY <2>1 DEF ReapChunk, Goto, SyncTypeOK
  <2>3. /\ KeysOf(p, seen[p] \ buf[p])' = KeysOf(p, seen[p] \ buf[p])
        /\ Emptied(p)' <=> Emptied(p)
    BY <2>2 DEF KeysOf, Key, Emptied, Sheet
  <2>4. \A k \in Keys : k \in chunk => stamp[k] < wm[p] /\ stamp[k] # wm[p]
    BY <2>2 DEF Stale
  <2>5. \A k \in Keys : /\ stamp'[k] <= wm'[p]
                        /\ stamp'[k] = wm'[p] <=> k \in KeysOf(p, seen[p] \ buf[p])'
    <3> SUFFICES ASSUME NEW k \in Keys
                 PROVE  /\ stamp'[k] <= wm[p]
                        /\ stamp'[k] = wm[p] <=> k \in KeysOf(p, seen[p] \ buf[p])
      BY <2>2, <2>3
    <3>1. /\ stamp[k] \in Nat /\ stamp[k] <= wm[p] /\ wm[p] > 0
          /\ stamp[k] = wm[p] <=> k \in KeysOf(p, seen[p] \ buf[p])
      BY <1>1, <1>3, <2>2 DEF WorkOf
    <3> QED
      BY <3>1, <2>2, <2>4
  <2>6. pc'[p] = "mark" => Stale(p)' = {}
    BY <2>2 DEF Stale, LiveKeys
  <2> QED
    BY <1>1, <1>3, <2>2, <2>3, <2>5, <2>6 DEF WorkOf
<1> QED
  BY <1>2, <1>3

\* Every step keeps every pass's work right.
LEMMA WorkStep ==
    SyncTypeOK /\ AtWork /\ LockHeld /\ WorkRight /\ [Next]_vars => WorkRight'
<1> SUFFICES ASSUME SyncTypeOK, AtWork, LockHeld, WorkRight, [Next]_vars PROVE WorkRight'
  OBVIOUS
<1>1. ASSUME NEW p \in Passes, PassStep(p) \/ Crash(p) PROVE WorkRight'
  BY <1>1, WorkMoves, WorkBegins, WorkFetches, WorkFlushes, WorkEndsWrites, WorkReaps
     DEF PassStep
<1>2. ASSUME NEW p \in Passes, NEW j \in Jobs, Deliver(p, j) PROVE WorkRight'
  <2> SUFFICES ASSUME NEW q \in Passes PROVE WorkOf(q)'
    BY DEF WorkRight
  <2>1. CASE q # p
    BY <1>2, <2>1, WorkFrame DEF WorkRight, Deliver, Goto, SyncTypeOK, sourceVars, history
  <2>2. CASE q = p
    BY <1>2, <2>2 DEF WorkRight, WorkOf, Deliver, Goto, SyncTypeOK
  <2> QED
    BY <2>1, <2>2
<1>3. CASE \/ \E p \in Passes, j \in Jobs : Skip(p, j)
           \/ \E j \in Jobs : Enqueue(j) \/ Stall(j)
           \/ RemoteChange \/ UNCHANGED vars
  <2>1. UNCHANGED <<setting, passVars, stamp>>
    BY <1>3 DEF Skip, Enqueue, Stall, RemoteChange, vars
  <2> QED
    BY <2>1, WorkFrame DEF WorkRight, passVars
<1> QED
  BY <1>1, <1>2, <1>3 DEF Next

-----------------------------------------------------------------------------
(* The theorems. *)

\* The invariant holds initially: nobody works.
LEMMA PassInvInit == Init => PassInv
<1> SUFFICES ASSUME Init PROVE PassInv
  OBVIOUS
<1>1. SyncTypeOK
  BY SyncInitTyped
<1>2. AtWork /\ LockHeld /\ CommitCompletedIsDone /\ DoneIsFinished
  BY Distinct DEF Init, AtWork, LockHeld, Working, CommitCompletedIsDone, DoneIsFinished
<1>3. WorkRight
  BY DEF Init, WorkRight, WorkOf
<1> QED
  BY <1>1, <1>2, <1>3 DEF PassInv

\* The invariant is inductive.
LEMMA PassInvStep == PassInv /\ [Next]_vars => PassInv'
BY SyncStepTyped, AtWorkStep, LockHeldStep, WorkStep, FinishedStep DEF PassInv

\* Every behaviour satisfies it.
LEMMA PassInvHolds == Spec => []PassInv
BY PassInvInit, PassInvStep, PTL DEF Spec

\* A pass that has reaped leaves exactly the records it found.
LEMMA MarkedIsExact == PassInv => SnapshotKept
<1> SUFFICES ASSUME PassInv, NEW p \in Passes, pc[p] = "mark", ~Emptied(p)
             PROVE  LiveKeys = KeysOf(p, seen[p])
  BY DEF SnapshotKept
<1>1. /\ WorkOf(p) /\ SyncTypeOK /\ job[p] \in Jobs /\ seen[p] \in SUBSET Records
      /\ wm[p] \in Nat
  BY DEF PassInv, WorkRight, AtWork, SyncTypeOK
<1>2. buf[p] = {} /\ seen[p] \ buf[p] = seen[p] /\ wm[p] > 0 /\ Stale(p) = {}
  BY <1>1 DEF WorkOf
<1>3. KeysOf(p, seen[p]) \subseteq Keys
  BY <1>1, KeysTyped
<1>4. \A k \in Keys : stamp[k] \in Nat /\ (stamp[k] > 0 <=> stamp[k] = wm[p])
  BY <1>1, <1>2 DEF WorkOf, Stale, LiveKeys, SyncTypeOK
<1>5. \A k \in Keys : stamp[k] = wm[p] <=> k \in KeysOf(p, seen[p])
  BY <1>1, <1>2 DEF WorkOf
<1> QED
  BY <1>3, <1>4, <1>5 DEF LiveKeys

\* The state of every pass, job and record is well-typed.
THEOREM SyncTypesHold == Spec => []SyncTypeOK
BY PassInvHolds, PTL DEF PassInv

\* Whatever passes run beside each other, none loses a record it wrote and none
\* leaves one behind: the table after a reap is what the pass found.
THEOREM SnapshotAlwaysKept == Spec => []SnapshotKept
BY PassInvHolds, MarkedIsExact, PTL

\* A commit's row never reads `completed` unless a pass of it ran to its end.
THEOREM CompletedCommitIsDone == Spec => []CommitCompletedIsDone
BY PassInvHolds, PTL DEF PassInv


-----------------------------------------------------------------------------
(* SyncPass implements OwnedTable. *)

\* The holder of the lock is a pass inside it.
LEMMA HolderWorks ==
    ASSUME PassInv, holder # NoPass PROVE holder \in Passes /\ pc[holder] \in Working
BY DEF PassInv, SyncTypeOK, LockHeld

\* A step that changes neither the lock, nor the holder's context, nor the records
\* is a stutter of the table.
LEMMA TableStutters ==
    ASSUME PassInv, UNCHANGED <<setting, holder, stamp, finished>>,
           holder # NoPass => /\ pc'[holder] = pc[holder] /\ job'[holder] = job[holder]
                              /\ page'[holder] = page[holder]
                              /\ seen'[holder] = seen[holder]
    PROVE  UNCHANGED <<LiveKeys, holder, finished, Goal>>
<1>1. LiveKeys' = LiveKeys
  BY DEF LiveKeys
<1>2. CASE holder = NoPass
  BY <1>1, <1>2 DEF Goal
<1>3. CASE holder # NoPass
  <2>1. Found(holder)' = Found(holder)
    BY <1>1, <1>3 DEF Found, Emptied, KeysOf, Key, Sheet
  <2> QED
    BY <1>1, <1>3, <2>1 DEF Goal
<1> QED
  BY <1>2, <1>3

\* Every step is one of the table's, or changes nothing of it.
LEMMA TableStep ==
    ASSUME PassInv, PassInv', [Next]_vars
    PROVE  [Table!TableNext]_<<LiveKeys, holder, Goal, finished>>
<1> DEFINE stutter == UNCHANGED <<LiveKeys, holder, finished, Goal>>
<1>1. /\ SyncTypeOK /\ AtWork /\ LockHeld /\ NoPass \notin Passes
      /\ \A p \in Passes : holder = p <=> pc[p] \in Working
  BY Distinct DEF PassInv, LockHeld
<1> USE <1>1 DEF Working
<1>2. ASSUME NEW p \in Passes, Acquire(p)
      PROVE  Table!TakeTable(p)
  <2>1. /\ holder = NoPass /\ holder' = p /\ pc'[p] = "owned"
        /\ UNCHANGED <<stamp, finished>>
    BY <1>2 DEF Acquire, Goto, SyncTypeOK
  <2> QED
    BY <2>1 DEF Table!TakeTable, Goal, Found, LiveKeys
<1>3. ASSUME NEW p \in Passes, Begin(p) \/ Fetch(p)
      PROVE  Table!Aim
  <2>1. /\ pc[p] \in {"owned", "write"} /\ holder = p /\ holder # NoPass
        /\ UNCHANGED <<holder, stamp, finished, setting, job>>
    BY <1>3 DEF Begin, Fetch, history
  <2>2. LiveKeys' = LiveKeys
    BY <2>1 DEF LiveKeys
  <2>3. Goal' \subseteq Keys
    <3>1. job[p] \in Jobs /\ seen'[p] \in SUBSET Records
      BY <2>1 DEF PassInv, AtWork, SyncTypeOK
    <3>2. KeysOf(p, seen[p])' \subseteq Keys /\ LiveKeys' \subseteq Keys
      BY <3>1, <2>1 DEF KeysOf, Key, Keys, LiveKeys
    <3> QED
      BY <3>2, <2>1 DEF Goal, Found
  <2>4. Goal \subseteq Goal'
    <3>1. CASE Begin(p)
      BY <3>1, <2>1 DEF Goal, Found, Begin
    <3>2. CASE Fetch(p)
      <4>1. /\ pc[p] = "write" /\ pc' = pc /\ page[p] # {} /\ seen[p] \subseteq seen'[p]
        BY <3>2 DEF Fetch, SyncTypeOK
      <4>2. Goal = KeysOf(p, seen[p]) /\ (Emptied(p)' => seen[p] = {})
        BY <4>1, <2>1 DEF Goal, Found, Emptied
      <4>3. KeysOf(p, seen[p]) \subseteq KeysOf(p, seen[p])'
        BY <4>1, <2>1 DEF KeysOf, Key
      <4>4. \/ Goal' = LiveKeys' /\ Emptied(p)'
            \/ Goal' = KeysOf(p, seen[p])'
        BY <4>1, <2>1 DEF Goal, Found
      <4>5. seen[p] = {} => KeysOf(p, seen[p]) = {}
        BY DEF KeysOf
      <4> QED
        BY <4>2, <4>3, <4>4, <4>5
    <3> QED
      BY <1>3, <3>1, <3>2
  <2> QED
    BY <2>1, <2>2, <2>3, <2>4 DEF Table!Aim
<1>4. ASSUME NEW p \in Passes, Flush(p)
      PROVE  Table!Fill
  <2>1. /\ pc[p] = "write" /\ holder = p /\ holder # NoPass /\ buf[p] # {}
        /\ UNCHANGED <<holder, finished, setting, job, pc, page, seen>>
        /\ \A k \in Keys : stamp'[k] = IF k \in KeysOf(p, buf[p]) THEN wm[p] ELSE stamp[k]
    BY <1>4 DEF Flush, history
  <2>2. /\ buf[p] \subseteq seen[p] /\ wm[p] > 0 /\ job[p] \in Jobs
        /\ buf[p] \in SUBSET Records
    BY <2>1 DEF PassInv, WorkRight, WorkOf, AtWork, SyncTypeOK
  <2>3. Goal = KeysOf(p, seen[p]) /\ Goal' = Goal
    BY <2>1, <2>2 DEF Goal, Found, Emptied, KeysOf, Key
  <2>4. KeysOf(p, buf[p]) \subseteq Goal /\ KeysOf(p, buf[p]) \subseteq Keys
    BY <2>2, <2>3, KeysTyped DEF KeysOf
  <2>5. LiveKeys' = LiveKeys \cup KeysOf(p, buf[p])
    BY <2>1, <2>2, <2>4 DEF LiveKeys
  <2> QED
    BY <2>1, <2>3, <2>4, <2>5 DEF Table!Fill
<1>5. ASSUME NEW p \in Passes, ReapChunk(p)
      PROVE  Table!Trim
  <2>1. PICK chunk \in SUBSET Stale(p) :
            /\ stamp' = [k \in Keys |-> IF k \in chunk THEN 0 ELSE stamp[k]]
            /\ Goto(p, IF chunk = Stale(p) THEN "mark" ELSE "reap")
    BY <1>5 DEF ReapChunk
  <2>2. /\ pc[p] = "reap" /\ pc'[p] \in {"reap", "mark"} /\ holder = p /\ holder # NoPass
        /\ UNCHANGED <<holder, finished, setting, job, page, seen>>
        /\ \A k \in Keys : stamp'[k] = IF k \in chunk THEN 0 ELSE stamp[k]
    BY <1>5, <2>1 DEF ReapChunk, Goto, SyncTypeOK, history
  <2>3. WorkOf(p) /\ job[p] \in Jobs /\ seen[p] \in SUBSET Records
    BY <2>2 DEF PassInv, WorkRight, AtWork, SyncTypeOK
  <2>4. /\ ~Emptied(p) /\ seen[p] \ buf[p] = seen[p] /\ wm[p] > 0
        /\ \A k \in Keys : stamp[k] = wm[p] <=> k \in KeysOf(p, seen[p])
    BY <2>2, <2>3 DEF WorkOf
  <2>5. Goal = KeysOf(p, seen[p]) /\ Goal \subseteq Keys
    BY <2>2, <2>3, <2>4, KeysTyped DEF Goal, Found
  <2>6. Goal' = Goal
    BY <2>2, <2>4, <2>5 DEF Goal, Found, Emptied, KeysOf, Key, Sheet
  <2>7. Goal \subseteq LiveKeys
    BY <2>4, <2>5 DEF LiveKeys
  <2>8. wm[p] \in Nat /\ \A k \in Keys : stamp[k] \in Nat
    BY DEF SyncTypeOK
  <2>9. chunk \subseteq LiveKeys /\ chunk \cap Goal = {}
    BY <2>4, <2>5, <2>8 DEF Stale, LiveKeys
  <2>10. LiveKeys' = LiveKeys \ chunk
    BY <2>2 DEF LiveKeys
  <2>11. chunk \in SUBSET (LiveKeys \ Goal)
    BY <2>9
  <2> QED
    BY <2>2, <2>6, <2>7, <2>10, <2>11 DEF Table!Trim
<1>6. ASSUME NEW p \in Passes, Mark(p)
      PROVE  Table!Publish(job[p]) /\ job[p] \in Jobs
  <2>1. /\ pc[p] = "mark" /\ holder = p /\ holder # NoPass /\ holder' = NoPass
        /\ UNCHANGED stamp /\ finished' = finished \cup {job[p]}
    BY <1>6 DEF Mark, ReleaseLock
  <2>2. job[p] \in Jobs /\ page[p] = {}
    BY <2>1 DEF PassInv, WorkRight, WorkOf, AtWork
  <2>3. ~Emptied(p) => LiveKeys = KeysOf(p, seen[p])
    BY <2>1, MarkedIsExact DEF SnapshotKept
  <2>4. Goal = LiveKeys /\ Goal' = {} /\ LiveKeys' = LiveKeys
    BY <2>1, <2>2, <2>3 DEF Goal, Found, LiveKeys
  <2> QED
    BY <2>1, <2>2, <2>4 DEF Table!Publish
<1>7. ASSUME NEW p \in Passes, Echo(p) \/ Fail(p) \/ Crash(p), holder = p
      PROVE  Table!GiveUp
  <2>1. holder # NoPass /\ holder' = NoPass /\ UNCHANGED <<stamp, finished>>
    BY <1>7 DEF Echo, Fail, Crash, ReleaseLock, history
  <2> QED
    BY <2>1 DEF Table!GiveUp, Goal, LiveKeys
<1>8. ASSUME NEW p \in Passes, EndWrites(p)
      PROVE  stutter
  <2>1. /\ pc[p] = "write" /\ pc'[p] \in {"reap", "mark"} /\ holder = p /\ holder # NoPass
        /\ UNCHANGED <<holder, finished, setting, job, page, seen, stamp>>
    BY <1>8 DEF EndWrites, Goto, SyncTypeOK, history
  <2>2. LiveKeys' = LiveKeys /\ Goal' = Goal
    BY <2>1 DEF Goal, Found, Emptied, KeysOf, Key, Sheet, LiveKeys
  <2> QED
    BY <2>1, <2>2
<1>9. ASSUME NEW p \in Passes,
             \/ Superseded(p) \/ TimeOut(p) \/ Catch(p) \/ Complete(p) \/ RecordFailure(p)
             \/ Crash(p) /\ holder # p
      PROVE  stutter
  <2>1. pc[p] \notin Working \/ holder # p
    BY <1>9 DEF Superseded, TimeOut, Catch, Complete, RecordFailure
  <2>2. holder # p
    BY <2>1
  <2>3. /\ UNCHANGED <<setting, holder, stamp, finished>>
        /\ \A q \in Passes \ {p} : /\ pc'[q] = pc[q] /\ job'[q] = job[q]
                                   /\ page'[q] = page[q] /\ seen'[q] = seen[q]
    BY <1>9, <2>2 DEF Superseded, TimeOut, Catch, Complete, RecordFailure, Crash, Leave,
                      Goto, ReleaseLock, SyncTypeOK, history
  <2> QED
    BY <2>2, <2>3, HolderWorks, TableStutters
<1>10. ASSUME NEW p \in Passes, NEW j \in Jobs, Deliver(p, j)
       PROVE  stutter
  <2>1. /\ holder # p /\ UNCHANGED <<setting, holder, stamp, finished>>
        /\ \A q \in Passes \ {p} : /\ pc'[q] = pc[q] /\ job'[q] = job[q]
                                   /\ page'[q] = page[q] /\ seen'[q] = seen[q]
    BY <1>10 DEF Deliver, Goto, SyncTypeOK, history
  <2> QED
    BY <2>1, HolderWorks, TableStutters
<1>11. ASSUME \/ \E p \in Passes, j \in Jobs : Skip(p, j)
              \/ \E j \in Jobs : Enqueue(j) \/ Stall(j)
              \/ RemoteChange \/ UNCHANGED vars
       PROVE  stutter
  <2>1. UNCHANGED <<setting, holder, stamp, finished, passVars>>
    BY <1>11 DEF Skip, Enqueue, Stall, RemoteChange, vars, history
  <2> QED
    BY <2>1, TableStutters DEF passVars
<1>12. ASSUME NEW p \in Passes, PassStep(p) \/ Crash(p)
       PROVE  Table!TableNext \/ stutter
  <2>1. Echo(p) \/ Fail(p) => holder = p
    BY DEF Echo, Fail
  <2> HIDE DEF stutter
  <2> QED
    BY <1>12, <1>2, <1>3, <1>4, <1>5, <1>6, <1>7, <1>8, <1>9, <2>1 DEF PassStep,
       Table!TableNext
<1>13. Table!TableNext \/ stutter
  <2>1. \/ \E p \in Passes : PassStep(p) \/ Crash(p)
        \/ \E p \in Passes, j \in Jobs : Deliver(p, j)
        \/ \/ \E p \in Passes, j \in Jobs : Skip(p, j)
           \/ \E j \in Jobs : Enqueue(j) \/ Stall(j)
           \/ RemoteChange \/ UNCHANGED vars
    BY DEF Next
  <2> HIDE DEF stutter
  <2>2. CASE \E p \in Passes : PassStep(p) \/ Crash(p)
    BY <2>2, <1>12
  <2>3. CASE \E p \in Passes, j \in Jobs : Deliver(p, j)
    BY <2>3, <1>10
  <2>4. CASE \/ \E p \in Passes, j \in Jobs : Skip(p, j)
             \/ \E j \in Jobs : Enqueue(j) \/ Stall(j)
             \/ RemoteChange \/ UNCHANGED vars
    BY <2>4, <1>11
  <2> QED
    BY <2>1, <2>2, <2>3, <2>4
<1> QED
  BY <1>13

\* SyncPass implements OwnedTable: whatever the passes, jobs and faults, the
\* records change only under one owner at a time, towards what it found, and a job
\* counts as finished only with the table exactly that.
THEOREM PassesImplementOwnedTable == Spec => ImplementsOwnedTable
<1>1. Init => Table!TableInit
  BY DEF Init, Table!TableInit, LiveKeys, Goal
<1>2. PassInv /\ PassInv' /\ [Next]_vars => [Table!TableNext]_(Table!tableVars)
  <2> SUFFICES ASSUME PassInv, PassInv', [Next]_vars
               PROVE  Table!TableNext \/ UNCHANGED Table!tableVars
    OBVIOUS
  <2>1. Table!TableNext \/ UNCHANGED <<LiveKeys, holder, Goal, finished>>
    BY TableStep
  <2> QED
    BY <2>1 DEF Table!tableVars
<1> QED
  BY <1>1, <1>2, PassInvHolds, PTL DEF Spec, ImplementsOwnedTable, Table!TableSpec

-----------------------------------------------------------------------------
(* The instance: kept for a pass at work, and told of a draft that failed. *)

\* Nothing fails, nothing is cleaned up.
NothingThrows == ~Fault("throw") => instance # "gone" /\ \A p \in Passes : pc[p] # "threw"

\* Without stalls a pass that is not idle is the one that owns its job's entry, no
\* other job of the instance is live, and a sync past its start has its instance.
OnlyPass ==
    ~Fault("stall") =>
        /\ \A p \in Passes : pc[p] # "idle" =>
               owner[job[p]] = p /\ queue[job[p]] = "running" /\ row[job[p]] = "active"
        /\ \A j, k \in Jobs : row[j] \in Live /\ row[k] \in Live => j = k
        /\ \A p \in Passes :
               job[p] \in Syncs /\ pc[p] \in Working \cup {"try"} => instance # "gone"

\* Without crashes and failed writes of the status: where a draft's work was done the
\* instance is not `pending`; where it was begun, a pass of the draft is still at it,
\* or about to clean up after it, as long as the instance is.
Told ==
    ~Fault("crash") /\ ~Fault("status") /\ instance = "pending" =>
        \A d \in Drafts :
            /\ d \notin finished
            /\ d \in worked =>
                   \E p \in Passes : job[p] = d /\ pc[p] \in Working \cup {"threw"}

\* The connector and the faults of a behaviour do not change.
LEMMA SettingFixed == [Next]_vars => setting' = setting
BY DEF Next, PassStep, Acquire, Superseded, TimeOut, Echo, Begin, Fetch, Flush, EndWrites,
       ReapChunk, Mark, Fail, Catch, Complete, RecordFailure, Crash, Deliver, Skip,
       Enqueue, Stall, RemoteChange, vars

\* Only a failure of the work leads to the cleanup that takes the instance.
LEMMA NothingThrowsStep ==
    ASSUME SyncTypeOK, AtWork, NothingThrows, [Next]_vars
    PROVE  NothingThrows'
<1> USE DEF NothingThrows, SyncTypeOK, AtWork, Fault, jobVars, passVars, sourceVars, history
<1>1. ASSUME NEW p \in Passes, Acquire(p) PROVE NothingThrows'
  BY <1>1 DEF Acquire, Goto
<1>2. ASSUME NEW p \in Passes, Superseded(p) PROVE NothingThrows'
  BY <1>2 DEF Superseded, Goto
<1>3. ASSUME NEW p \in Passes, TimeOut(p) PROVE NothingThrows'
  BY <1>3 DEF TimeOut, Goto
<1>4. ASSUME NEW p \in Passes, Echo(p) PROVE NothingThrows'
  BY <1>4 DEF Echo, Goto, ReleaseLock
<1>5. ASSUME NEW p \in Passes, Begin(p) PROVE NothingThrows'
  BY <1>5 DEF Begin, Goto
<1>6. ASSUME NEW p \in Passes, Fetch(p) PROVE NothingThrows'
  BY <1>6 DEF Fetch
<1>7. ASSUME NEW p \in Passes, Flush(p) PROVE NothingThrows'
  BY <1>7 DEF Flush
<1>8. ASSUME NEW p \in Passes, EndWrites(p) PROVE NothingThrows'
  BY <1>8 DEF EndWrites, Goto
<1>9. ASSUME NEW p \in Passes, ReapChunk(p) PROVE NothingThrows'
  BY <1>9 DEF ReapChunk, Goto
<1>10. ASSUME NEW p \in Passes, Mark(p) PROVE NothingThrows'
  BY <1>10 DEF Mark, Goto, ReleaseLock
<1>11. ASSUME NEW p \in Passes, Fail(p) PROVE NothingThrows'
  BY <1>11 DEF Fail, Goto, ReleaseLock, InstanceMissing, WorkThrows
<1>12. ASSUME NEW p \in Passes, Catch(p) PROVE NothingThrows'
  BY <1>12 DEF Catch, Goto, RollsBack
<1>13. ASSUME NEW p \in Passes, Complete(p) PROVE NothingThrows'
  BY <1>13 DEF Complete, Leave, Requeue, Goto
<1>14. ASSUME NEW p \in Passes, RecordFailure(p) PROVE NothingThrows'
  BY <1>14 DEF RecordFailure, Leave, Requeue, Goto
<1>15. ASSUME NEW p \in Passes, Crash(p) PROVE NothingThrows'
  BY <1>15 DEF Crash, Leave, Goto, ReleaseLock
<1>16. ASSUME NEW p \in Passes, NEW j \in Jobs, Deliver(p, j) PROVE NothingThrows'
  BY <1>16 DEF Deliver, Goto
<1>17. ASSUME NEW p \in Passes, NEW j \in Jobs, Skip(p, j) PROVE NothingThrows'
  BY <1>17 DEF Skip
<1>18. ASSUME NEW j \in Jobs, Enqueue(j) PROVE NothingThrows'
  BY <1>18 DEF Enqueue
<1>19. ASSUME NEW j \in Jobs, Stall(j) PROVE NothingThrows'
  BY <1>19 DEF Stall, Requeue, OwnerGone
<1>20. CASE RemoteChange \/ UNCHANGED vars
  BY <1>20 DEF RemoteChange, vars
<1> QED
  BY <1>1, <1>2, <1>3, <1>4, <1>5, <1>6, <1>7, <1>8, <1>9, <1>10, <1>11, <1>12, <1>13,
     <1>14, <1>15, <1>16, <1>17, <1>18, <1>19, <1>20 DEF Next, PassStep

\* Without stalls one job of the instance is live, one pass works on it, and a sync
\* under way has its instance.
LEMMA OnlyPassStep ==
    ASSUME SyncTypeOK, AtWork, LockHeld, OnlyPass, [Next]_vars
    PROVE  OnlyPass'
<1> USE Distinct DEF OnlyPass, Live, Over, Working, SyncTypeOK, AtWork, Fault, jobVars,
                     passVars, sourceVars, history
<1>1. ASSUME NEW p \in Passes, Acquire(p) PROVE OnlyPass'
  BY <1>1 DEF Acquire, Goto
<1>2. ASSUME NEW p \in Passes, Superseded(p) PROVE OnlyPass'
  BY <1>2 DEF Superseded, Goto
<1>3. ASSUME NEW p \in Passes, TimeOut(p) PROVE OnlyPass'
  BY <1>3 DEF TimeOut, Goto
<1>4. ASSUME NEW p \in Passes, Echo(p) PROVE OnlyPass'
  BY <1>4 DEF Echo, Goto, ReleaseLock
<1>5. ASSUME NEW p \in Passes, Begin(p) PROVE OnlyPass'
  BY <1>5 DEF Begin, Goto
<1>6. ASSUME NEW p \in Passes, Fetch(p) PROVE OnlyPass'
  BY <1>6 DEF Fetch
<1>7. ASSUME NEW p \in Passes, Flush(p) PROVE OnlyPass'
  BY <1>7 DEF Flush
<1>8. ASSUME NEW p \in Passes, EndWrites(p) PROVE OnlyPass'
  BY <1>8 DEF EndWrites, Goto
<1>9. ASSUME NEW p \in Passes, ReapChunk(p) PROVE OnlyPass'
  BY <1>9 DEF ReapChunk, Goto
<1>10. ASSUME NEW p \in Passes, Mark(p) PROVE OnlyPass'
  BY <1>10 DEF Mark, Goto, ReleaseLock
<1>11. ASSUME NEW p \in Passes, Fail(p) PROVE OnlyPass'
  BY <1>11 DEF Fail, Goto, ReleaseLock, InstanceMissing
<1>12. ASSUME NEW p \in Passes, Catch(p) PROVE OnlyPass'
  BY <1>12 DEF Catch, Goto, RollsBack
<1>13. ASSUME NEW p \in Passes, Complete(p) PROVE OnlyPass'
  BY <1>13 DEF Complete, Leave, Requeue, Goto
<1>14. ASSUME NEW p \in Passes, RecordFailure(p) PROVE OnlyPass'
  BY <1>14 DEF RecordFailure, Leave, Requeue, Goto
<1>15. ASSUME NEW p \in Passes, Crash(p) PROVE OnlyPass'
  BY <1>15 DEF Crash, Leave, Goto, ReleaseLock
<1>16. ASSUME NEW p \in Passes, NEW j \in Jobs, Deliver(p, j) PROVE OnlyPass'
  BY <1>16 DEF Deliver, Goto
<1>17. ASSUME NEW p \in Passes, NEW j \in Jobs, Skip(p, j) PROVE OnlyPass'
  BY <1>17 DEF Skip
<1>18. ASSUME NEW j \in Jobs, Enqueue(j) PROVE OnlyPass'
  BY <1>18 DEF Enqueue
<1>19. ASSUME NEW j \in Jobs, Stall(j) PROVE OnlyPass'
  BY <1>19 DEF Stall, Requeue, OwnerGone
<1>20. CASE RemoteChange \/ UNCHANGED vars
  BY <1>20 DEF RemoteChange, vars
<1> QED
  BY <1>1, <1>2, <1>3, <1>4, <1>5, <1>6, <1>7, <1>8, <1>9, <1>10, <1>11, <1>12, <1>13,
     <1>14, <1>15, <1>16, <1>17, <1>18, <1>19, <1>20 DEF Next, PassStep

\* A pass at work has its instance: the cleanup needs a failure, and without stalls
\* no other pass is under way then.
LEMMA InstanceKept ==
    ASSUME SyncTypeOK, AtWork, NothingThrows, OnlyPass, WorkKeepsInstance, [Next]_vars
    PROVE  WorkKeepsInstance'
<1> SUFFICES ASSUME ~(Fault("stall") /\ Fault("throw")) PROVE WorkKeepsInstance'
  BY SettingFixed DEF WorkKeepsInstance, Fault
<1> USE DEF WorkKeepsInstance, SyncTypeOK, AtWork, jobVars, passVars, sourceVars, history
<1>1. ASSUME NEW p \in Passes, Acquire(p) PROVE WorkKeepsInstance'
  BY <1>1 DEF Acquire, Goto
<1>2. ASSUME NEW p \in Passes, Superseded(p) PROVE WorkKeepsInstance'
  BY <1>2 DEF Superseded, Goto
<1>3. ASSUME NEW p \in Passes, TimeOut(p) PROVE WorkKeepsInstance'
  BY <1>3 DEF TimeOut, Goto
<1>4. ASSUME NEW p \in Passes, Echo(p) PROVE WorkKeepsInstance'
  BY <1>4 DEF Echo, Goto, ReleaseLock
<1>5. ASSUME NEW p \in Passes, Begin(p) PROVE WorkKeepsInstance'
  <2>1. pc[p] = "owned" /\ job[p] \in Jobs /\ pc' = [pc EXCEPT ![p] = "write"]
        /\ instance' = instance
    BY <1>5 DEF Begin, Goto
  <2>2. instance # "gone"
    <3>1. CASE job[p] \in Commits
      BY <3>1, <1>5 DEF Begin, InstanceMissing
    <3>2. CASE job[p] \in Syncs
      BY <2>1, <3>2 DEF OnlyPass, NothingThrows, Working
    <3> QED  BY <2>1, <3>1, <3>2 DEF Jobs
  <2> QED  BY <2>1, <2>2
<1>6. ASSUME NEW p \in Passes, Fetch(p) PROVE WorkKeepsInstance'
  BY <1>6 DEF Fetch
<1>7. ASSUME NEW p \in Passes, Flush(p) PROVE WorkKeepsInstance'
  BY <1>7 DEF Flush
<1>8. ASSUME NEW p \in Passes, EndWrites(p) PROVE WorkKeepsInstance'
  BY <1>8 DEF EndWrites, Goto
<1>9. ASSUME NEW p \in Passes, ReapChunk(p) PROVE WorkKeepsInstance'
  BY <1>9 DEF ReapChunk, Goto
<1>10. ASSUME NEW p \in Passes, Mark(p) PROVE WorkKeepsInstance'
  BY <1>10 DEF Mark, Goto, ReleaseLock
<1>11. ASSUME NEW p \in Passes, Fail(p) PROVE WorkKeepsInstance'
  BY <1>11 DEF Fail, Goto, ReleaseLock, InstanceMissing
<1>12. ASSUME NEW p \in Passes, Catch(p) PROVE WorkKeepsInstance'
  <2>1. CASE ~Fault("throw")
    BY <2>1, <1>12 DEF Catch, NothingThrows
  <2>2. CASE ~Fault("stall")
    <3>1. \A q \in Passes : pc[q] # "idle" => q = p
      <4> SUFFICES ASSUME NEW q \in Passes, pc[q] # "idle" PROVE q = p
        OBVIOUS
      <4>1. pc[p] # "idle" /\ job[p] \in Jobs /\ job[q] \in Jobs
        BY <1>12 DEF Catch
      <4>2. job[p] = job[q]
        BY <2>2, <4>1 DEF OnlyPass, Live
      <4> QED  BY <2>2, <4>1, <4>2 DEF OnlyPass
    <3> QED  BY <3>1, <1>12 DEF Catch, Goto
  <2> QED  BY <2>1, <2>2
<1>13. ASSUME NEW p \in Passes, Complete(p) PROVE WorkKeepsInstance'
  BY <1>13 DEF Complete, Leave, Requeue, Goto
<1>14. ASSUME NEW p \in Passes, RecordFailure(p) PROVE WorkKeepsInstance'
  BY <1>14 DEF RecordFailure, Leave, Requeue, Goto
<1>15. ASSUME NEW p \in Passes, Crash(p) PROVE WorkKeepsInstance'
  BY <1>15 DEF Crash, Leave, Goto, ReleaseLock
<1>16. ASSUME NEW p \in Passes, NEW j \in Jobs, Deliver(p, j) PROVE WorkKeepsInstance'
  BY <1>16 DEF Deliver, Goto
<1>17. ASSUME NEW p \in Passes, NEW j \in Jobs, Skip(p, j) PROVE WorkKeepsInstance'
  BY <1>17 DEF Skip
<1>18. ASSUME NEW j \in Jobs, Enqueue(j) PROVE WorkKeepsInstance'
  BY <1>18 DEF Enqueue
<1>19. ASSUME NEW j \in Jobs, Stall(j) PROVE WorkKeepsInstance'
  BY <1>19 DEF Stall, Requeue, OwnerGone
<1>20. CASE RemoteChange \/ UNCHANGED vars
  BY <1>20 DEF RemoteChange, vars
<1> QED
  BY <1>1, <1>2, <1>3, <1>4, <1>5, <1>6, <1>7, <1>8, <1>9, <1>10, <1>11, <1>12, <1>13,
     <1>14, <1>15, <1>16, <1>17, <1>18, <1>19, <1>20 DEF Next, PassStep

\* The draft whose pass leaves the work has its instance marked, or its failure is
\* cleaned up: a commit's failure is always its last.
LEMMA ToldStep ==
    ASSUME SyncTypeOK, AtWork, CommitCompletedIsDone, Told, [Next]_vars
    PROVE  Told'
<1> SUFFICES ASSUME ~Fault("crash"), ~Fault("status"), instance' = "pending", NEW d \in Drafts
             PROVE  /\ d \notin finished'
                    /\ d \in worked' =>
                           \E p \in Passes : job'[p] = d /\ pc'[p] \in Working \cup {"threw"}
  BY SettingFixed DEF Told, Fault
<1> DEFINE Cared(q) == job[q] = d /\ pc[q] \in Working \cup {"threw"}
           Same(q) == job'[q] = job[q] /\ pc'[q] = pc[q]
           Kept == /\ d \notin finished'
                   /\ d \in worked' =>
                          \E q \in Passes : job'[q] = d /\ pc'[q] \in Working \cup {"threw"}
<1>1. d \in Jobs /\ d \in Commits /\ d \notin Syncs
  BY Distinct DEF Commits
<1>2. instance = "pending"
  BY DEF Next, PassStep, Acquire, Superseded, TimeOut, Echo, Begin, Fetch, Flush, EndWrites,
         ReapChunk, Mark, Fail, Catch, Complete, RecordFailure, Crash, Deliver, Skip,
         Enqueue, Stall, RemoteChange, vars
<1>3. d \notin finished /\ (d \in worked => \E q \in Passes : Cared(q))
  BY <1>2 DEF Told
<1>4. ASSUME UNCHANGED history, \A q \in Passes : Cared(q) => Cared(q)' PROVE Kept
  BY <1>3, <1>4 DEF history
<1>5. ASSUME NEW p \in Passes, ~Cared(p), UNCHANGED history,
             \A q \in Passes \ {p} : Same(q)
      PROVE  Kept
  BY <1>4, <1>5
<1>6. ASSUME NEW p \in Passes, Acquire(p) PROVE Kept
  <2>1. /\ pc'[p] \in Working /\ UNCHANGED <<job, finished>> /\ worked' = worked \cup {job[p]}
        /\ \A q \in Passes \ {p} : Same(q)
    BY <1>6 DEF Acquire, Goto, Working, SyncTypeOK
  <2>2. CASE job[p] = d
    BY <1>3, <2>1, <2>2
  <2>3. CASE job[p] # d
    BY <1>3, <2>1, <2>3
  <2> QED  BY <2>2, <2>3
<1>7. ASSUME NEW p \in Passes, Superseded(p) \/ TimeOut(p) PROVE Kept
  <2>1. ~Cared(p) /\ UNCHANGED history /\ \A q \in Passes \ {p} : Same(q)
    BY <1>7 DEF Superseded, TimeOut, Goto, Working, SyncTypeOK
  <2> QED  BY <1>5, <2>1
<1>8. ASSUME NEW p \in Passes, Echo(p) PROVE Kept
  <2>1. job[p] \in finished
    BY <1>8 DEF Echo, CommitCompletedIsDone
  <2>2. ~Cared(p) /\ UNCHANGED history /\ \A q \in Passes \ {p} : Same(q)
    BY <1>3, <1>8, <2>1 DEF Echo, Goto, SyncTypeOK
  <2> QED  BY <1>5, <2>2
<1>9. ASSUME NEW p \in Passes,
             Begin(p) \/ Fetch(p) \/ Flush(p) \/ EndWrites(p) \/ ReapChunk(p)
      PROVE  Kept
  <2>1. /\ UNCHANGED <<job, history>> /\ pc'[p] \in Working
        /\ \A q \in Passes \ {p} : Same(q)
    BY <1>9 DEF Begin, Fetch, Flush, EndWrites, ReapChunk, Goto, Working, SyncTypeOK
  <2>2. \A q \in Passes : Cared(q) => Cared(q)'
    BY <2>1
  <2> QED  BY <1>4, <2>1, <2>2
<1>10. ASSUME NEW p \in Passes, Mark(p) PROVE Kept
  <2>1. job[p] # d
    BY <1>2, <1>10 DEF Mark
  <2>2. /\ worked' = worked /\ finished' = finished \cup {job[p]}
        /\ \A q \in Passes \ {p} : Same(q)
    BY <1>10 DEF Mark, Goto, SyncTypeOK
  <2> QED  BY <1>3, <2>1, <2>2
<1>11. ASSUME NEW p \in Passes, Fail(p) PROVE Kept
  <2>1. /\ UNCHANGED <<job, history>> /\ \A q \in Passes \ {p} : Same(q)
        /\ job[p] \in Commits => pc'[p] = "threw"
    BY <1>11 DEF Fail, Goto, SyncTypeOK
  <2>2. \A q \in Passes : Cared(q) => Cared(q)'
    BY <1>1, <2>1
  <2> QED  BY <1>4, <2>1, <2>2
<1>12. ASSUME NEW p \in Passes, Catch(p) PROVE Kept
  <2>1. job[p] = d => RollsBack(p)
    BY <1>1, <1>2 DEF RollsBack, IsFinal, Attempts, SyncTypeOK
  <2>2. job[p] # d
    BY <1>12, <2>1 DEF Catch
  <2>3. ~Cared(p) /\ UNCHANGED history /\ \A q \in Passes \ {p} : Same(q)
    BY <1>12, <2>2 DEF Catch, Goto, SyncTypeOK
  <2> QED  BY <1>5, <2>3
<1>13. ASSUME NEW p \in Passes, Complete(p) \/ RecordFailure(p) PROVE Kept
  <2>1. ~Cared(p) /\ UNCHANGED history /\ \A q \in Passes \ {p} : Same(q)
    BY <1>13 DEF Complete, RecordFailure, Leave, Goto, Working, SyncTypeOK
  <2> QED  BY <1>5, <2>1
<1>14. ASSUME NEW p \in Passes, NEW j \in Jobs, Deliver(p, j) PROVE Kept
  <2>1. ~Cared(p) /\ UNCHANGED history /\ \A q \in Passes \ {p} : Same(q)
    BY <1>14 DEF Deliver, Goto, Working, SyncTypeOK
  <2> QED  BY <1>5, <2>1
<1>15. ASSUME \/ \E p \in Passes, j \in Jobs : Skip(p, j)
              \/ \E j \in Jobs : Enqueue(j) \/ Stall(j)
              \/ RemoteChange \/ UNCHANGED vars
       PROVE  Kept
  <2>1. UNCHANGED <<pc, job, history>>
    BY <1>15 DEF Skip, Enqueue, Stall, RemoteChange, passVars, vars
  <2> QED  BY <1>4, <2>1
<1>16. ASSUME NEW p \in Passes, Crash(p) PROVE FALSE
  BY <1>16 DEF Crash
<1> HIDE DEF Kept
<1>17. ASSUME NEW p \in Passes, PassStep(p) \/ Crash(p) PROVE Kept
  BY <1>6, <1>7, <1>8, <1>9, <1>10, <1>11, <1>12, <1>13, <1>16, <1>17 DEF PassStep
<1>18. Kept
  BY <1>14, <1>15, <1>17 DEF Next
<1> QED
  BY <1>18 DEF Kept

\* The instance stays with a pass at work, a sync included, wherever an execution that
\* outlives its queue lock and a failure of the work do not meet.
THEOREM WorkAlwaysKeepsInstance == Spec => []WorkKeepsInstance
<1> DEFINE Inv == PassInv /\ NothingThrows /\ OnlyPass /\ WorkKeepsInstance
<1>1. Init => Inv
  BY PassInvInit, ZenonT(60) DEF Init, NothingThrows, OnlyPass, WorkKeepsInstance, Live
<1>2. Inv /\ [Next]_vars => Inv'
  BY PassInvStep, NothingThrowsStep, OnlyPassStep, InstanceKept DEF PassInv
<1>3. Inv => WorkKeepsInstance
  OBVIOUS
<1> HIDE DEF Inv
<1> QED
  BY <1>1, <1>2, <1>3, PTL DEF Spec

\* Whatever passes stall, are re-delivered, throw or give up waiting: once one of a
\* draft's passes got to the work, and none is left, the instance is active, marked
\* failed or gone.
THEOREM WorkedDraftAlwaysTold == Spec => []WorkedDraftIsTold
<1>1. Init => Told
  BY DEF Init, Told
<1>2. PassInv /\ Told /\ [Next]_vars => Told'
  BY ToldStep DEF PassInv
<1>3. Told => WorkedDraftIsTold
  BY DEF Told, WorkedDraftIsTold
<1> QED
  BY <1>1, <1>2, <1>3, PassInvHolds, PTL DEF Spec

=============================================================================
