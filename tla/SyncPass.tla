------------------------------- MODULE SyncPass -------------------------------
(***************************************************************************)
(* The passes of connector_sync and layout_plan_commit jobs over one       *)
(* connector instance (#439, #460, #461, #968): the session lock that      *)
(* keeps them apart, the record writes, the watermark reap that removes    *)
(* what a pass did not write, the echo of a commit already done, and the   *)
(* rollback of a draft that failed for good.                               *)
(*                                                                         *)
(* BullMQ re-delivers a job whose lock expired without spending an         *)
(* attempt, so two passes of ONE job can run at once.  The instance has    *)
(* one entity here.  The rest of a job's life is JobLifecycle's.           *)
(***************************************************************************)
EXTENDS Naturals

CONSTANTS
    Passes,        \* executions at once, over all replicas
    NoPass,        \* the holder of the free lock
    Drafts,        \* draft commits of the instance
    Fresh,         \* those whose route created the instance
    Recommits,     \* commits of an edited plan
    Syncs,         \* connector_sync jobs
    NoJob,         \* what an idle worker slot runs; the generation of a record
                   \* the source identifies
    Records,       \* what the source may hold
    Settings,      \* the instance's connector and the faults of a behaviour
    MaxAttempts,   \* BullMQ `attempts` of a sync (3)
    MaxStalls,     \* BullMQ maxStalledCount (1)
    MaxChanges,    \* bound: changes of the source
    MaxTime        \* bound: of the clock

Commits == Drafts \cup Recommits
Jobs == Commits \cup Syncs

\* "sheet": Google Sheets, Microsoft Excel, uploaded files.  "rest", "keyless":
\* a REST endpoint with and without an idField.
Connectors == {"sheet", "rest", "keyless"}

\* "crash": a process dies.  "stall": an execution outlives its BullMQ lock.
\* "throw": the work of a commit fails.  "retry": that of a sync does.
\* "status": a write of the instance's status does.
FaultKinds == {"crash", "stall", "throw", "retry", "status"}

ASSUME SyncAssumption ==
    /\ NoPass \notin Passes
    /\ NoJob \notin Jobs
    /\ Fresh \subseteq Drafts
    /\ Drafts \cap Recommits = {} /\ Commits \cap Syncs = {}
    /\ Settings \subseteq [connector : Connectors, faults : SUBSET FaultKinds]
    /\ MaxAttempts \in Nat \ {0}
    /\ MaxStalls \in Nat
    /\ MaxChanges \in Nat /\ MaxTime \in Nat

VARIABLES
    setting,       \* fixed: the connector and the faults that may happen
    row,           \* jobs.status; "none" before the insert
    queue,         \* the BullMQ entry
    made, stalls,  \* its attemptsMade and stall count
    owner,         \* the pass that holds its BullMQ lock
    pc, job, at,   \* a pass: where it stands, its job, attemptsMade as handed
    wm,            \* runStartedAt, the watermark
    page,          \* records it has not asked the source for yet
    buf,           \* records fetched and not written yet
    seen,          \* records it found at the source
    holder,        \* of the instance's session lock
    stamp,         \* syncedAt of each live record, 0 where none is live
    remote,        \* what the source holds now
    changes,       \* how often it changed
    instance,      \* connector_instances.status; "gone" once deleted
    worked,        \* history: the jobs a pass of which got the lock
    finished       \* history: those a pass of which ran to its end

jobVars == <<row, queue, made, stalls, owner>>
passVars == <<pc, job, at, wm, page, buf, seen>>
sourceVars == <<remote, changes>>
history == <<worked, finished>>
vars == <<setting, jobVars, passVars, sourceVars, holder, stamp, instance,
          history>>

Live == {"pending", "active"}
Over == {"completed", "failed"}
Working == {"owned", "write", "reap", "mark"}     \* inside the session lock
Steps == Working \cup {"idle", "try", "done", "threw", "fatal", "failed"}

\* A record is known by the source's id or, without one, by its place in one
\* job's run (deriveSourceId).
Keys == (Jobs \cup {NoJob}) \X Records

-----------------------------------------------------------------------------
(* Helpers *)

Sheet == setting.connector = "sheet"
Fault(f) == f \in setting.faults

Key(p, r) == <<IF setting.connector = "keyless" THEN job[p] ELSE NoJob, r>>
KeysOf(p, found) == {Key(p, r) : r \in found}

LiveKeys == {k \in Keys : stamp[k] > 0}
Stale(p) == {k \in LiveKeys : stamp[k] < wm[p]}

\* Date.now() reads t: after every time in use.
Later(t) == (\A k \in Keys : stamp[k] < t) /\ (\A p \in Passes : wm[p] < t)

\* A sheet without a record claims nothing of its entity: the entities to reap
\* are those the records name.
Emptied(p) == Sheet /\ seen[p] = {}

\* A live record keeps its entity, whose foreign key keeps the instance.
Anchored == LiveKeys # {}

\* A commit's failures are deterministic: it has one attempt.
Attempts(j) == IF j \in Commits THEN 1 ELSE MaxAttempts

IsFinal(p) == at[p] + 1 >= Attempts(job[p])

Goto(p, step) == pc' = [pc EXCEPT ![p] = step]

Leave(p) ==
    /\ Goto(p, "idle")
    /\ job' = [job EXCEPT ![p] = NoJob]
    /\ at' = [at EXCEPT ![p] = 0]
    /\ wm' = [wm EXCEPT ![p] = 0]
    /\ page' = [page EXCEPT ![p] = {}]
    /\ buf' = [buf EXCEPT ![p] = {}]
    /\ seen' = [seen EXCEPT ![p] = {}]

ReleaseLock(p) == holder' = IF holder = p THEN NoPass ELSE holder

\* The entry of j leaves its pass for q, with m attempts made.
Requeue(j, q, m) ==
    /\ queue' = [queue EXCEPT ![j] = q]
    /\ made' = [made EXCEPT ![j] = m]
    /\ owner' = [owner EXCEPT ![j] = NoPass]

\* An endpoint may have been synced before; the generation of that sync is none
\* of Jobs.
Init ==
    /\ setting \in Settings
    /\ row = [j \in Jobs |-> "none"]
    /\ queue = [j \in Jobs |-> "none"]
    /\ made = [j \in Jobs |-> 0]
    /\ stalls = [j \in Jobs |-> 0]
    /\ owner = [j \in Jobs |-> NoPass]
    /\ pc = [p \in Passes |-> "idle"]
    /\ job = [p \in Passes |-> NoJob]
    /\ at = [p \in Passes |-> 0]
    /\ wm = [p \in Passes |-> 0]
    /\ page = [p \in Passes |-> {}]
    /\ buf = [p \in Passes |-> {}]
    /\ seen = [p \in Passes |-> {}]
    /\ holder = NoPass
    /\ \E old \in SUBSET Records :
           stamp = [k \in Keys |-> IF ~Sheet /\ k \in {NoJob} \X old THEN 1 ELSE 0]
    /\ remote \in SUBSET Records
    /\ changes = 0
    /\ instance = IF Sheet THEN "pending" ELSE "active"
    /\ worked = {} /\ finished = {}

-----------------------------------------------------------------------------
(* The job's row and its queue entry. *)

\* A fresh instance is made by its draft's route; another draft takes any there is.
\* A plan is there to sync or to commit again once a draft brought one.
Eligible(j) ==
    CASE j \in Fresh     -> Sheet /\ \A k \in Jobs : row[k] = "none"
      [] j \in Drafts \ Fresh -> Sheet /\ instance # "gone"
      [] j \in Recommits -> Sheet /\ instance # "gone"
                              /\ \E d \in Drafts : row[d] # "none"
      [] j \in Syncs     -> instance # "gone"
                              /\ (Sheet => \E d \in Drafts : row[d] # "none")

\* Job starts refuse an instance with a live job on it (JobLock).
Enqueue(j) ==
    /\ row[j] = "none" /\ \A k \in Jobs : row[k] \notin Live
    /\ Eligible(j)
    /\ row' = [row EXCEPT ![j] = "pending"]
    /\ queue' = [queue EXCEPT ![j] = "waiting"]
    /\ UNCHANGED <<setting, made, stalls, owner, passVars, sourceVars, holder,
                   stamp, instance, history>>

\* A pass takes the entry up.  A sync finds its instance gone, and never
\* retries, or goes on to the lock.
Deliver(p, j) ==
    /\ pc[p] = "idle" /\ queue[j] = "waiting" /\ row[j] \in Live
    /\ row' = [row EXCEPT ![j] = "active"]
    /\ queue' = [queue EXCEPT ![j] = "running"]
    /\ owner' = [owner EXCEPT ![j] = p]
    /\ Goto(p, IF j \in Syncs /\ instance = "gone" THEN "fatal" ELSE "try")
    /\ job' = [job EXCEPT ![p] = j]
    /\ at' = [at EXCEPT ![p] = made[j]]
    /\ UNCHANGED <<setting, made, stalls, wm, page, buf, seen, sourceVars,
                   holder, stamp, instance, history>>

\* The pre-read of a re-delivered job finds its row over.
Skip(p, j) ==
    /\ pc[p] = "idle" /\ queue[j] = "waiting" /\ row[j] \in Over
    /\ queue' = [queue EXCEPT ![j] = "over"]
    /\ UNCHANGED <<setting, row, made, stalls, owner, passVars, sourceVars,
                   holder, stamp, instance, history>>

OwnerGone(j) == queue[j] = "running" /\ job[owner[j]] # j

\* BullMQ's lock on j expired: back to the queue, or failed at the stall limit.
Stall(j) ==
    /\ OwnerGone(j) \/ (Fault("stall") /\ queue[j] = "running")
    /\ IF stalls[j] < MaxStalls
       THEN /\ Requeue(j, "waiting", made[j])
            /\ stalls' = [stalls EXCEPT ![j] = @ + 1]
            /\ UNCHANGED row
       ELSE /\ Requeue(j, "over", made[j])
            /\ row' = [row EXCEPT ![j] = IF @ = "active" THEN "failed" ELSE @]
            /\ UNCHANGED stalls
    /\ UNCHANGED <<setting, passVars, sourceVars, holder, stamp, instance,
                   history>>

\* The process dies, and its database session with it.
Crash(p) ==
    /\ Fault("crash") /\ pc[p] # "idle"
    /\ Leave(p)
    /\ ReleaseLock(p)
    /\ UNCHANGED <<setting, jobVars, sourceVars, stamp, instance, history>>

RemoteChange ==
    /\ changes < MaxChanges
    /\ remote' \in SUBSET Records /\ remote' # remote
    /\ changes' = changes + 1
    /\ UNCHANGED <<setting, jobVars, passVars, holder, stamp, instance,
                   history>>

-----------------------------------------------------------------------------
(* withInstanceLock, withInstanceLockWait: a PostgreSQL session lock. *)

\* Mutant: no lock; every pass goes straight to its work.
MutantAcquire(p) ==
    /\ pc[p] = "try"
    /\ holder' = p
    /\ Goto(p, "owned")
    /\ worked' = worked \cup {job[p]}
    /\ UNCHANGED <<setting, jobVars, job, at, wm, page, buf, seen, sourceVars,
                   stamp, instance, finished>>

Acquire(p) ==
    /\ pc[p] = "try" /\ holder = NoPass
    /\ holder' = p
    /\ Goto(p, "owned")
    /\ worked' = worked \cup {job[p]}
    /\ UNCHANGED <<setting, jobVars, job, at, wm, page, buf, seen, sourceVars,
                   stamp, instance, finished>>

\* Mutant: a commit that meets a holder returns as superseded, like a sync.
MutantSuperseded(p) ==
    /\ pc[p] = "try" /\ holder # NoPass
    /\ Goto(p, "done")
    /\ UNCHANGED <<setting, jobVars, job, at, wm, page, buf, seen, sourceVars,
                   holder, stamp, instance, history>>

\* A sync that meets a holder has nothing to do: it returns, and succeeds.
Superseded(p) ==
    /\ pc[p] = "try" /\ job[p] \in Syncs /\ holder # NoPass
    /\ Goto(p, "done")
    /\ UNCHANGED <<setting, jobVars, job, at, wm, page, buf, seen, sourceVars,
                   holder, stamp, instance, history>>

\* Mutant: a timeout is handled like any failure of the work.
MutantTimeOut(p) ==
    /\ pc[p] = "try" /\ job[p] \in Commits /\ holder # NoPass
    /\ Goto(p, "threw")
    /\ UNCHANGED <<setting, jobVars, job, at, wm, page, buf, seen, sourceVars,
                   holder, stamp, instance, history>>

\* A commit waits for the holder; SyncLockWaitTimeoutError spends the attempt,
\* without the cleanup of a draft.
TimeOut(p) ==
    /\ pc[p] = "try" /\ job[p] \in Commits /\ holder # NoPass
    /\ Goto(p, "failed")
    /\ UNCHANGED <<setting, jobVars, job, at, wm, page, buf, seen, sourceVars,
                   holder, stamp, instance, history>>

-----------------------------------------------------------------------------
(* The work, under the lock. *)

\* A commit first reads its row: another pass may have done the work.
Echo(p) ==
    /\ pc[p] = "owned" /\ job[p] \in Commits /\ row[job[p]] = "completed"
    /\ Goto(p, "done")
    /\ ReleaseLock(p)
    /\ UNCHANGED <<setting, jobVars, job, at, wm, page, buf, seen, sourceVars,
                   stamp, instance, history>>

InstanceMissing(p) == job[p] \in Commits /\ instance = "gone"

\* runStartedAt is taken and the source is about to be asked.
Begin(p) ==
    /\ pc[p] = "owned" /\ ~InstanceMissing(p)
    /\ ~(job[p] \in Commits /\ row[job[p]] = "completed")
    /\ \E t \in 1..MaxTime :
           /\ Later(t) /\ ~Later(t - 1)
           /\ wm' = [wm EXCEPT ![p] = t]
    /\ page' = [page EXCEPT ![p] = Records]
    /\ Goto(p, "write")
    /\ UNCHANGED <<setting, jobVars, job, at, buf, seen, sourceVars, holder,
                   stamp, instance, history>>

\* A workbook is fetched and replayed as a whole, an endpoint page by page,
\* while it changes.
Fetch(p) ==
    /\ pc[p] = "write" /\ page[p] # {}
    /\ \E asked \in IF Sheet THEN {page[p]} ELSE {{r} : r \in page[p]} :
           /\ page' = [page EXCEPT ![p] = @ \ asked]
           /\ buf' = [buf EXCEPT ![p] = @ \cup (asked \cap remote)]
           /\ seen' = [seen EXCEPT ![p] = @ \cup (asked \cap remote)]
    /\ UNCHANGED <<setting, jobVars, pc, job, at, wm, sourceVars, holder,
                   stamp, instance, history>>

\* A batch is written, whether it changed or not, stamped with the watermark:
\* an entity's records of a workbook in one transaction, an endpoint's whenever
\* the buffer is full.
Flush(p) ==
    /\ pc[p] = "write" /\ buf[p] # {} /\ ~InstanceMissing(p)
    /\ stamp' = [k \in Keys |-> IF k \in KeysOf(p, buf[p]) THEN wm[p]
                                                          ELSE stamp[k]]
    /\ buf' = [buf EXCEPT ![p] = {}]
    /\ UNCHANGED <<setting, jobVars, pc, job, at, wm, page, seen, sourceVars,
                   holder, instance, history>>

\* Mutant: the last batch is not flushed before the reap.
MutantEndWrites(p) ==
    /\ pc[p] = "write" /\ page[p] = {}
    /\ Goto(p, IF Emptied(p) THEN "mark" ELSE "reap")
    /\ UNCHANGED <<setting, jobVars, job, at, wm, page, buf, seen, sourceVars,
                   holder, stamp, instance, history>>

EndWrites(p) ==
    /\ pc[p] = "write" /\ page[p] = {} /\ buf[p] = {}
    /\ Goto(p, IF Emptied(p) THEN "mark" ELSE "reap")
    /\ UNCHANGED <<setting, jobVars, job, at, wm, page, buf, seen, sourceVars,
                   holder, stamp, instance, history>>

\* softDeleteBeforeWatermark: chunk after chunk of the records with an older
\* stamp, until none is left.
ReapChunk(p) ==
    /\ pc[p] = "reap"
    /\ \E chunk \in SUBSET Stale(p) :
           /\ Stale(p) # {} => chunk # {}
           /\ stamp' = [k \in Keys |-> IF k \in chunk THEN 0 ELSE stamp[k]]
           /\ Goto(p, IF chunk = Stale(p) THEN "mark" ELSE "reap")
    /\ UNCHANGED <<setting, jobVars, job, at, wm, page, buf, seen, sourceVars,
                   holder, instance, history>>

\* lastSyncAt, or a draft's instance made active (best effort); the lock is
\* given up before anyone hears of it.
Mark(p) ==
    /\ pc[p] = "mark"
    /\ \/ instance' = IF job[p] \in Drafts /\ instance # "gone"
                      THEN "active" ELSE instance
       \/ Fault("status") /\ job[p] \in Drafts /\ UNCHANGED instance
    /\ finished' = finished \cup {job[p]}
    /\ Goto(p, "done")
    /\ ReleaseLock(p)
    /\ UNCHANGED <<setting, jobVars, job, at, wm, page, buf, seen, sourceVars,
                   stamp, worked>>

WorkThrows(p) == Fault(IF job[p] \in Commits THEN "throw" ELSE "retry")

\* Mutant: the lock is not released when the work throws.
MutantFail(p) ==
    /\ pc[p] \in Working \ {"mark"} /\ WorkThrows(p)
    /\ Goto(p, IF job[p] \in Commits THEN "threw" ELSE "failed")
    /\ UNCHANGED <<setting, jobVars, job, at, wm, page, buf, seen, sourceVars,
                   holder, stamp, instance, history>>

\* The work throws.  What a target or batch wrote stays; `finally` unlocks.
Fail(p) ==
    /\ \/ pc[p] \in Working /\ WorkThrows(p)
             /\ (pc[p] = "mark" => job[p] \in Syncs)
       \/ pc[p] \in {"owned", "write"} /\ InstanceMissing(p)
    /\ Goto(p, IF job[p] \in Commits THEN "threw" ELSE "failed")
    /\ ReleaseLock(p)
    /\ UNCHANGED <<setting, jobVars, job, at, wm, page, buf, seen, sourceVars,
                   stamp, instance, history>>

-----------------------------------------------------------------------------
(* After the lock. *)

\* Mutant: the final attempt is missed by one.
MutantRollsBack(p) ==
    job[p] \in Drafts /\ at[p] >= Attempts(job[p]) /\ instance # "gone"

RollsBack(p) == job[p] \in Drafts /\ IsFinal(p) /\ instance # "gone"

\* Mutant: the failed draft's instance gets the status of its job.
MutantCatch(p) ==
    /\ pc[p] = "threw"
    /\ IF RollsBack(p) THEN instance' = "failed" ELSE UNCHANGED instance
    /\ Goto(p, "failed")
    /\ UNCHANGED <<setting, jobVars, job, at, wm, page, buf, seen, sourceVars,
                   holder, stamp, history>>

\* The processor's catch: the final failure of a draft deletes the instance its
\* route made, or marks it failed where it was there before, an entity keeps it or
\* the delete fails.  No failure of the cleanup is reported.
Catch(p) ==
    /\ pc[p] = "threw"
    /\ \/ ~RollsBack(p) /\ UNCHANGED instance
       \/ RollsBack(p) /\ job[p] \in Fresh /\ ~Anchored /\ instance' = "gone"
       \/ /\ RollsBack(p) /\ (job[p] \notin Fresh \/ Anchored \/ Fault("status"))
          /\ instance' = "error"
       \/ RollsBack(p) /\ Fault("status") /\ UNCHANGED instance
    /\ Goto(p, "failed")
    /\ UNCHANGED <<setting, jobVars, job, at, wm, page, buf, seen, sourceVars,
                   holder, stamp, history>>

\* The worker writes `completed`, whatever the row holds, and the entry is over
\* if the pass still has it.
Complete(p) ==
    /\ pc[p] = "done"
    /\ row' = [row EXCEPT ![job[p]] = "completed"]
    /\ IF owner[job[p]] = p
       THEN Requeue(job[p], "over", made[job[p]])
       ELSE UNCHANGED <<queue, made, owner>>
    /\ Leave(p)
    /\ UNCHANGED <<setting, stalls, sourceVars, holder, stamp, instance,
                   history>>

\* It writes `pending` or `failed`, and BullMQ retries while attempts are left.
RecordFailure(p) ==
    LET final == IsFinal(p) \/ pc[p] = "fatal"
    IN  /\ pc[p] \in {"failed", "fatal"}
        /\ row' = [row EXCEPT ![job[p]] = IF final THEN "failed" ELSE "pending"]
        /\ IF owner[job[p]] = p
           THEN Requeue(job[p], IF final THEN "over" ELSE "waiting", at[p] + 1)
           ELSE UNCHANGED <<queue, made, owner>>
        /\ Leave(p)
        /\ UNCHANGED <<setting, stalls, sourceVars, holder, stamp, instance,
                       history>>

-----------------------------------------------------------------------------

PassStep(p) ==
    \/ Acquire(p) \/ Superseded(p) \/ TimeOut(p)
    \/ Echo(p) \/ Begin(p) \/ Fetch(p) \/ Flush(p) \/ EndWrites(p)
    \/ ReapChunk(p) \/ Mark(p) \/ Fail(p)
    \/ Catch(p) \/ Complete(p) \/ RecordFailure(p)

Next ==
    \/ \E p \in Passes : PassStep(p) \/ Crash(p)
    \/ \E p \in Passes, j \in Jobs : Deliver(p, j) \/ Skip(p, j)
    \/ \E j \in Jobs : Enqueue(j) \/ Stall(j)
    \/ RemoteChange

Spec == Init /\ [][Next]_vars

\* An execution that is not killed goes on.
Fairness == \A p \in Passes : WF_vars(PassStep(p))

FairSpec == Spec /\ Fairness

-----------------------------------------------------------------------------
(* Properties *)

SyncTypeOK ==
    /\ setting \in Settings
    /\ row \in [Jobs -> Live \cup Over \cup {"none"}]
    /\ queue \in [Jobs -> {"none", "waiting", "running", "over"}]
    /\ made \in [Jobs -> Nat] /\ stalls \in [Jobs -> Nat]
    /\ owner \in [Jobs -> Passes \cup {NoPass}]
    /\ pc \in [Passes -> Steps]
    /\ job \in [Passes -> Jobs \cup {NoJob}]
    /\ at \in [Passes -> Nat] /\ wm \in [Passes -> Nat]
    /\ page \in [Passes -> SUBSET Records]
    /\ buf \in [Passes -> SUBSET Records]
    /\ seen \in [Passes -> SUBSET Records]
    /\ holder \in Passes \cup {NoPass}
    /\ stamp \in [Keys -> Nat]
    /\ remote \subseteq Records /\ changes \in Nat
    /\ instance \in {"pending", "active", "error", "gone"}
    /\ worked \subseteq Jobs /\ finished \subseteq Jobs

\* When a pass has reaped, the live records are exactly those it found at the
\* source: it lost none of what it wrote, in this attempt or beside another
\* pass of its job, and left none behind (#460: 34,000 records lost).  Only an
\* emptied sheet is left as it was.
SnapshotKept ==
    \A p \in Passes :
        pc[p] = "mark" /\ ~Emptied(p) => LiveKeys = KeysOf(p, seen[p])

\* A commit that reads `completed` was done by a pass that ran to its end: none
\* was passed over for another still at work, and none echoed a result that was
\* not there (#461).
CommitCompletedIsDone ==
    \A j \in Commits : row[j] = "completed" => j \in finished

\* A pass that has begun never loses its instance to a rollback, which runs after
\* the lock is released: only a failure of the work runs it, and a pass that waited
\* in vain has not failed (#461).  A re-delivered pass beside one that throws may.
WorkKeepsInstance ==
    ~(Fault("stall") /\ Fault("throw")) =>
        \A p \in Passes : pc[p] \in {"write", "reap", "mark"} => instance # "gone"

\* The instance's lock is released on every path, so a waiting commit, and the
\* next sync, get their turn.
LockComesFree == holder # NoPass ~> holder = NoPass

\* Once a pass of a draft got to the work, its instance does not stay `pending`:
\* when no pass of the draft is left it is active, marked failed or gone, however
\* passes stalled, were re-delivered, threw or gave up waiting.  Only a dead process
\* and a failed write of the status leave it (jobs.service.ts:25,
\* layout-plan-draft.service.ts:397).
WorkedDraftIsTold ==
    ~Fault("crash") /\ ~Fault("status") =>
        \A d \in Drafts \cap worked :
            (\A p \in Passes : job[p] # d) => instance # "pending"

\* What the pass that owns the table has found: for an emptied sheet, the table
\* as it is.
Found(p) ==
    IF pc[p] \notin {"write", "reap", "mark"} THEN {}
    ELSE IF page[p] = {} /\ Emptied(p) THEN LiveKeys
    ELSE KeysOf(p, seen[p])

Goal == IF holder = NoPass THEN {} ELSE Found(holder)

Table == INSTANCE OwnedTable WITH
    Owners <- Passes, Nobody <- NoPass, Rows <- Keys, Tasks <- Jobs,
    table <- LiveKeys, owner <- holder, goal <- Goal,
    finished <- finished

\* The passes keep the promise of OwnedTable: the records change only under the
\* lock's holder, go only when all it found is in, and are what it found when its
\* job's work counts as finished.
ImplementsOwnedTable == Table!TableSpec
===============================================================================
