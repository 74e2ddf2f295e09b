----------------------------- MODULE JobLifecycle -----------------------------
(***************************************************************************)
(* One background job of the API: its row in PostgreSQL, its entry in the  *)
(* BullMQ queue (Redis), the worker executions that run it, and everybody  *)
(* else who writes the row: the dispatcher, a user's cancel, the stranded- *)
(* job sweep, and the operator's re-dispatch after a Redis replacement.    *)
(*                                                                         *)
(* Every await of the code that lets another actor in is a step boundary   *)
(* here.  Left out: the result, error text, progress percent, timestamps   *)
(* and lostExecutions columns (no guard reads them), the bulk_transform    *)
(* terminal hook, the SSE stream, and the statuses `stalled` and           *)
(* `awaiting_confirmation`, which no code writes.                          *)
(*                                                                         *)
(* Time is abstracted to two facts: a row whose last write is older than   *)
(* JOB_STRANDED_THRESHOLD_MS is `stale`, and (unless "slowHandler" is a    *)
(* fault) BullMQ's retry backoff, at least two seconds, outlasts the       *)
(* worker's `failed` callback.                                             *)
(***************************************************************************)
EXTENDS Naturals

CONSTANTS
    Jobs,         \* job rows
    Execs,        \* worker contexts: queue slots of every API replica
    NoExec,       \* "nobody": the owner of an unlocked entry
    NoJob,        \* what an idle worker context runs
    MaxAttempts,  \* jobs.maxAttempts, BullMQ `attempts` (3 in the code)
    MaxStalls,    \* BullMQ maxStalledCount: stalls tolerated (1 in BullMQ)
    MaxOutages,   \* bound: scale-downs and live Redis losses in a behaviour
    Cancels,      \* BOOLEAN: users cancel jobs
    Settings      \* the sets of failures of the environment behaviours may see

\* "crash": a worker process dies.  "zombie": an execution loses BullMQ's lock
\* and lives on.  "redisLoss": the keyspace is lost under a running API.
\* "readError", "writeError": a row read or queue lookup, a row update fails.
\* "publishError": the Redis publish after an update fails.  "dispatchError",
\* "dispatchCrash": add or the reference update fails, dispatch dies or hangs.
\* "slowHandler": the `failed` callback outlasts the retry backoff.
FaultKinds == {"crash", "zombie", "redisLoss", "readError", "writeError",
               "publishError", "dispatchError", "dispatchCrash",
               "slowHandler"}

ASSUME ConstantsAssumption ==
    /\ NoExec \notin Execs
    /\ NoJob \notin Jobs
    /\ MaxAttempts \in Nat \ {0}
    /\ MaxStalls \in Nat
    /\ MaxOutages \in Nat
    /\ Cancels \in BOOLEAN
    /\ Settings \subseteq SUBSET FaultKinds

VARIABLES
    \* the jobs row; status "absent" before the insert
    status, bullRef, attempts, heartbeat,
    \* the BullMQ entry stored under the row's id
    queue, made, budget, offset, stalls, owner,
    \* a worker context: where it stands, its job, the attempt as it was handed
    \* over, and what the attempt came to
    pc, job, xmade, xbudget, xoffset, outcome,
    \* the steps of create, cancel, the stranded-job sweep and the re-dispatch
    disp, canc, swp, redisp,
    \* is the API scaled above zero; scale-downs and live Redis losses so far
    api, outages,
    \* the failures that may happen in this behaviour: a member of Settings
    faults

rowVars == <<status, bullRef, attempts, heartbeat>>
entryVars == <<queue, made, budget, offset, stalls, owner>>
execVars == <<pc, job, xmade, xbudget, xoffset, outcome>>
serviceVars == <<disp, canc, swp>>
operatorVars == <<redisp, api, outages, faults>>
vars == <<rowVars, entryVars, execVars, serviceVars, operatorVars>>

Live == {"pending", "active"}                       \* NON_TERMINAL, as written
Terminal == {"completed", "failed", "cancelled"}    \* TERMINAL_JOB_STATUSES
Status == Live \cup Terminal \cup {"absent"}

QueueStates == {"none", "waiting", "delayed", "locked", "completed", "failed"}
LiveEntry == {"waiting", "delayed", "locked"}       \* LIVE_STATES

InProcessor == {"read", "start", "run", "finish", "catch", "ack", "nack"}
InHandler == {"event", "eventWrite"}
Outcomes == {"none", "completed", "failed", "error", "fatal"}

-----------------------------------------------------------------------------
(* Helpers *)

\* JobEventsService.transition's UPDATE: unconditional, by id.
Write(j, s) ==
    /\ status' = [status EXCEPT ![j] = IF @ = "absent" THEN @ ELSE s]
    /\ heartbeat' = [heartbeat EXCEPT ![j] = "fresh"]

\* transitionIfNonTerminal's UPDATE: only while the row is not terminal.
WriteIfLive(j, s) ==
    IF status[j] \in Live THEN Write(j, s) ELSE UNCHANGED <<status, heartbeat>>

\* statusForFailedAttempt: what an attempt's failure leaves in the row.
FailedStatus(out, m, max) ==
    IF out = "fatal" \/ m + 1 >= max THEN "failed" ELSE "pending"

\* The entry of j becomes a fresh one: state q, max attempts, off spent earlier.
FreshEntry(j, q, max, off) ==
    /\ queue' = [queue EXCEPT ![j] = q]
    /\ made' = [made EXCEPT ![j] = 0]
    /\ budget' = [budget EXCEPT ![j] = max]
    /\ offset' = [offset EXCEPT ![j] = off]
    /\ stalls' = [stalls EXCEPT ![j] = 0]
    /\ owner' = [owner EXCEPT ![j] = NoExec]

Enqueue(j, max, off) == FreshEntry(j, "waiting", max, off)
Dequeue(j) == FreshEntry(j, "none", MaxAttempts, 0)

\* The entry of j loses its lock and moves to q with m attempts made.
Unlock(j, q, m) ==
    /\ queue' = [queue EXCEPT ![j] = q]
    /\ owner' = [owner EXCEPT ![j] = NoExec]
    /\ made' = [made EXCEPT ![j] = m]
    /\ UNCHANGED <<budget, offset>>

\* Context e takes up j's entry as it stands, at step p, m attempts made.
Take(e, j, p, m, out) ==
    /\ pc' = [pc EXCEPT ![e] = p]
    /\ job' = [job EXCEPT ![e] = j]
    /\ xmade' = [xmade EXCEPT ![e] = m]
    /\ xbudget' = [xbudget EXCEPT ![e] = budget[j]]
    /\ xoffset' = [xoffset EXCEPT ![e] = offset[j]]
    /\ outcome' = [outcome EXCEPT ![e] = out]

Goto(e, p) ==
    /\ pc' = [pc EXCEPT ![e] = p]
    /\ UNCHANGED <<job, xmade, xbudget, xoffset, outcome>>

GotoWith(e, p, out) ==
    /\ pc' = [pc EXCEPT ![e] = p]
    /\ outcome' = [outcome EXCEPT ![e] = out]
    /\ UNCHANGED <<job, xmade, xbudget, xoffset>>

Leave(e) ==
    /\ pc' = [pc EXCEPT ![e] = "idle"]
    /\ job' = [job EXCEPT ![e] = NoJob]
    /\ xmade' = [xmade EXCEPT ![e] = 0]
    /\ xbudget' = [xbudget EXCEPT ![e] = MaxAttempts]
    /\ xoffset' = [xoffset EXCEPT ![e] = 0]
    /\ outcome' = [outcome EXCEPT ![e] = "none"]

\* The execution holds BullMQ's lock on its job's entry.
Holds(e) == queue[job[e]] = "locked" /\ owner[job[e]] = e

DispatchInFlight(j) == disp[j] \in {"add", "ref", "fail"}
HandlerBusy(j) == \E e \in Execs : pc[e] \in InHandler /\ job[e] = j

Init ==
    /\ status = [j \in Jobs |-> "absent"]
    /\ bullRef = [j \in Jobs |-> "null"]
    /\ attempts = [j \in Jobs |-> 0]
    /\ heartbeat = [j \in Jobs |-> "fresh"]
    /\ queue = [j \in Jobs |-> "none"]
    /\ made = [j \in Jobs |-> 0]
    /\ budget = [j \in Jobs |-> MaxAttempts]
    /\ offset = [j \in Jobs |-> 0]
    /\ stalls = [j \in Jobs |-> 0]
    /\ owner = [j \in Jobs |-> NoExec]
    /\ pc = [e \in Execs |-> "idle"]
    /\ job = [e \in Execs |-> NoJob]
    /\ xmade = [e \in Execs |-> 0]
    /\ xbudget = [e \in Execs |-> MaxAttempts]
    /\ xoffset = [e \in Execs |-> 0]
    /\ outcome = [e \in Execs |-> "none"]
    /\ disp = [j \in Jobs |-> "new"]
    /\ canc = [j \in Jobs |-> "idle"]
    /\ swp = [j \in Jobs |-> "idle"]
    /\ redisp = [j \in Jobs |-> "idle"]
    /\ api = "up"
    /\ outages = 0
    /\ faults \in Settings

-----------------------------------------------------------------------------
(* JobsService.create: insertRow, then dispatch. *)

CreateRow(j) ==
    /\ api = "up" /\ disp[j] = "new"
    /\ status' = [status EXCEPT ![j] = "pending"]
    /\ disp' = [disp EXCEPT ![j] = "add"]
    /\ UNCHANGED <<bullRef, attempts, heartbeat, entryVars, execVars, canc, swp,
                   operatorVars>>

\* queue.add under the row's id.
AddToQueue(j) ==
    /\ disp[j] = "add"
    /\ Enqueue(j, MaxAttempts, 0)
    /\ disp' = [disp EXCEPT ![j] = "ref"]
    /\ UNCHANGED <<rowVars, execVars, canc, swp, operatorVars>>

\* The add throws, with or without having added.
AddThrows(j) ==
    /\ "dispatchError" \in faults /\ disp[j] = "add"
    /\ Enqueue(j, MaxAttempts, 0) \/ UNCHANGED entryVars
    /\ disp' = [disp EXCEPT ![j] = "fail"]
    /\ UNCHANGED <<rowVars, execVars, canc, swp, operatorVars>>

\* Store the BullMQ id.  The UPDATE sets no other column, `updated` included.
StoreReference(j) ==
    /\ disp[j] = "ref"
    /\ bullRef' = [bullRef EXCEPT ![j] = "id"]
    /\ disp' = [disp EXCEPT ![j] = "done"]
    /\ UNCHANGED <<status, attempts, heartbeat, entryVars, execVars, canc, swp,
                   operatorVars>>

ReferenceThrows(j) ==
    /\ "dispatchError" \in faults /\ disp[j] = "ref"
    /\ disp' = [disp EXCEPT ![j] = "fail"]
    /\ UNCHANGED <<rowVars, entryVars, execVars, canc, swp, operatorVars>>

\* The catch of dispatch: the row is marked failed whatever it holds by now.
FailDispatch(j) ==
    /\ disp[j] = "fail"
    /\ status' = [status EXCEPT ![j] = "failed"]
    /\ disp' = [disp EXCEPT ![j] = "done"]
    /\ UNCHANGED <<bullRef, attempts, heartbeat, entryVars, execVars, canc, swp,
                   operatorVars>>

\* The process dies between two steps of dispatch.
CrashDispatch(j) ==
    /\ "dispatchCrash" \in faults
    /\ DispatchInFlight(j)
    /\ disp' = [disp EXCEPT ![j] = "done"]
    /\ UNCHANGED <<rowVars, entryVars, execVars, canc, swp, operatorVars>>

-----------------------------------------------------------------------------
(* BullMQ, as the worker uses it. *)

\* A free slot takes the next waiting entry and locks it.
Pick(e, j) ==
    /\ api = "up" /\ pc[e] = "idle" /\ queue[j] = "waiting"
    /\ queue' = [queue EXCEPT ![j] = "locked"]
    /\ owner' = [owner EXCEPT ![j] = e]
    /\ Take(e, j, "read", made[j], "none")
    /\ UNCHANGED <<rowVars, made, budget, offset, stalls, serviceVars,
                   operatorVars>>

\* The retry backoff ends.
Promote(j) ==
    /\ api = "up" /\ queue[j] = "delayed"
    /\ "slowHandler" \in faults \/ ~HandlerBusy(j)
    /\ queue' = [queue EXCEPT ![j] = "waiting"]
    /\ UNCHANGED <<rowVars, made, budget, offset, stalls, owner, execVars,
                   serviceVars, operatorVars>>

\* The lock of an entry ran out: its execution is dead, or (a zombie) alive
\* but unable to renew it.
LockLapsed(j) ==
    /\ api = "up" /\ queue[j] = "locked"
    /\ "zombie" \in faults \/ job[owner[j]] # j

\* A stalled entry goes back to the queue without spending an attempt ...
Redeliver(j) ==
    /\ LockLapsed(j) /\ stalls[j] < MaxStalls
    /\ Unlock(j, "waiting", made[j])
    /\ stalls' = [stalls EXCEPT ![j] = @ + 1]
    /\ UNCHANGED <<rowVars, execVars, serviceVars, operatorVars>>

\* ... until the stall limit, which fails it with an UnrecoverableError and
\* runs the worker's `failed` callback.
FailStalled(e, j) ==
    /\ LockLapsed(j) /\ stalls[j] >= MaxStalls /\ pc[e] = "idle"
    /\ Unlock(j, "failed", made[j] + 1)
    /\ Take(e, j, "event", made[j] + 1, "fatal")
    /\ UNCHANGED <<rowVars, stalls, serviceVars, operatorVars>>

\* removeOnComplete / removeOnFail: a finished entry is dropped by age.
Expire(j) ==
    /\ api = "up" /\ queue[j] \in {"completed", "failed"}
    /\ Dequeue(j)
    /\ UNCHANGED <<rowVars, execVars, serviceVars, operatorVars>>

-----------------------------------------------------------------------------
(* The worker's processor wrapper, one execution of one attempt. *)

\* The pre-read.  A terminal row ends the execution; a failed read does not.
ReadRow(e) ==
    /\ pc[e] = "read"
    /\ \/ Goto(e, IF status[job[e]] \in Terminal THEN "ack" ELSE "start")
       \/ "readError" \in faults /\ Goto(e, "start")
    /\ UNCHANGED <<rowVars, entryVars, serviceVars, operatorVars>>

\* transition(active).  It stands outside the try: a throw here goes straight
\* to BullMQ, after the row was written when only the publish failed.
MarkActive(e) ==
    /\ pc[e] = "start"
    /\ Write(job[e], "active")
    /\ attempts' = [attempts EXCEPT ![job[e]] = xoffset[e] + xmade[e] + 1]
    /\ \/ Goto(e, "run")
       \/ "publishError" \in faults /\ GotoWith(e, "nack", "error")
    /\ UNCHANGED <<bullRef, entryVars, serviceVars, operatorVars>>

MarkActiveThrows(e) ==
    /\ "writeError" \in faults /\ pc[e] = "start"
    /\ GotoWith(e, "nack", "error")
    /\ UNCHANGED <<rowVars, entryVars, serviceVars, operatorVars>>

\* The processor reports progress, which bumps the row's heartbeat.
Progress(e) ==
    /\ pc[e] = "run" /\ heartbeat[job[e]] = "stale"
    /\ heartbeat' = [heartbeat EXCEPT ![job[e]] = "fresh"]
    /\ UNCHANGED <<status, bullRef, attempts, entryVars, execVars, serviceVars,
                   operatorVars>>

\* The processor returns (a batch whose every item failed is classified
\* `failed`) or throws, finally (asFinal, UnrecoverableError) or not.
RunProcessor(e) ==
    /\ pc[e] = "run"
    /\ \/ \E out \in {"completed", "failed"} : GotoWith(e, "finish", out)
       \/ \E out \in {"error", "fatal"} : GotoWith(e, "catch", out)
    /\ UNCHANGED <<rowVars, entryVars, serviceVars, operatorVars>>

\* transition(outcome), inside the try: whatever it throws is caught below.
WriteOutcome(e) ==
    /\ pc[e] = "finish"
    /\ Write(job[e], outcome[e])
    /\ \/ Goto(e, "ack")
       \/ "publishError" \in faults /\ GotoWith(e, "catch", "error")
    /\ UNCHANGED <<bullRef, attempts, entryVars, serviceVars, operatorVars>>

WriteOutcomeThrows(e) ==
    /\ "writeError" \in faults /\ pc[e] = "finish"
    /\ GotoWith(e, "catch", "error")
    /\ UNCHANGED <<rowVars, entryVars, serviceVars, operatorVars>>

\* The catch: transition(failed or pending).
WriteFailure(e) ==
    /\ pc[e] = "catch"
    /\ Write(job[e], FailedStatus(outcome[e], xmade[e], xbudget[e]))
    /\ \/ Goto(e, "nack")
       \/ "publishError" \in faults /\ GotoWith(e, "nack", "error")
    /\ UNCHANGED <<bullRef, attempts, entryVars, serviceVars, operatorVars>>

\* When that transition throws, BullMQ sees its error, an ordinary one, in place
\* of the processor's.
WriteFailureThrows(e) ==
    /\ "writeError" \in faults /\ pc[e] = "catch"
    /\ GotoWith(e, "nack", "error")
    /\ UNCHANGED <<rowVars, entryVars, serviceVars, operatorVars>>

\* The wrapper returned: BullMQ completes the entry if this execution still
\* holds its lock.
Ack(e) ==
    /\ pc[e] = "ack"
    /\ IF Holds(e)
       THEN Unlock(job[e], "completed", made[job[e]]) /\ UNCHANGED stalls
       ELSE UNCHANGED entryVars
    /\ Leave(e)
    /\ UNCHANGED <<rowVars, serviceVars, operatorVars>>

\* The wrapper threw: BullMQ spends the attempt and retries after a delay, or
\* fails the entry, then runs the `failed` callback on the same in-memory job,
\* whose attemptsMade by then counts this attempt.
Nack(e) ==
    LET final == outcome[e] = "fatal" \/ xmade[e] + 1 >= xbudget[e]
    IN  /\ pc[e] = "nack" /\ Holds(e)
        /\ Unlock(job[e], IF final THEN "failed" ELSE "delayed", xmade[e] + 1)
        /\ pc' = [pc EXCEPT ![e] = "event"]
        /\ xmade' = [xmade EXCEPT ![e] = @ + 1]
        /\ UNCHANGED <<rowVars, stalls, job, xbudget, xoffset, outcome,
                       serviceVars, operatorVars>>

\* A zombie's failure: without the lock BullMQ neither retries nor calls back.
NackWithoutLock(e) ==
    /\ pc[e] = "nack" /\ ~Holds(e)
    /\ Leave(e)
    /\ UNCHANGED <<rowVars, entryVars, serviceVars, operatorVars>>

\* Mutant: the callback records the failure whatever the row says.
MutantHandleFailed(e) ==
    /\ pc[e] = "event"
    /\ Goto(e, "eventWrite")
    /\ UNCHANGED <<rowVars, entryVars, serviceVars, operatorVars>>

\* worker.on("failed"): a terminal or pending row was handled by the catch.
HandleFailed(e) ==
    /\ pc[e] = "event"
    /\ IF status[job[e]] = "active" THEN Goto(e, "eventWrite") ELSE Leave(e)
    /\ UNCHANGED <<rowVars, entryVars, serviceVars, operatorVars>>

RecordDeath(e) ==
    /\ pc[e] = "eventWrite"
    /\ \/ Write(job[e], FailedStatus(outcome[e], xmade[e], xbudget[e]))
       \/ "writeError" \in faults /\ UNCHANGED <<status, heartbeat>>
    /\ Leave(e)
    /\ UNCHANGED <<bullRef, attempts, entryVars, serviceVars, operatorVars>>

\* The worker's process is killed.
Crash(e) ==
    /\ "crash" \in faults /\ pc[e] # "idle"
    /\ Leave(e)
    /\ UNCHANGED <<rowVars, entryVars, serviceVars, operatorVars>>

-----------------------------------------------------------------------------
(* JobsService.cancel. *)

\* A terminal row is refused; without a stored BullMQ id the queue is skipped.
CancelRead(j) ==
    /\ Cancels /\ api = "up" /\ canc[j] = "idle" /\ status[j] \in Live
    /\ canc' = [canc EXCEPT ![j] = IF bullRef[j] = "id" THEN "remove" ELSE "write"]
    /\ UNCHANGED <<rowVars, entryVars, execVars, disp, swp, operatorVars>>

\* Job.remove throws while the entry's lock stands (and when the queue cannot be
\* reached), and the throw is swallowed.
CancelRemove(j) ==
    /\ canc[j] = "remove"
    /\ \/ (queue[j] # "locked" \/ LockLapsed(j)) /\ Dequeue(j)
       \/ (queue[j] = "locked" \/ "readError" \in faults) /\ UNCHANGED entryVars
    /\ canc' = [canc EXCEPT ![j] = "write"]
    /\ UNCHANGED <<rowVars, execVars, disp, swp, operatorVars>>

CancelWrite(j) ==
    /\ canc[j] = "write"
    /\ Write(j, "cancelled")
    /\ canc' = [canc EXCEPT ![j] = "idle"]
    /\ UNCHANGED <<bullRef, attempts, entryVars, execVars, disp, swp, operatorVars>>

-----------------------------------------------------------------------------
(* JobReconciliationService.sweepStrandedJobs, per candidate row. *)

\* JOB_STRANDED_THRESHOLD_MS passes without a write to the row.
GrowStale(j) ==
    /\ status[j] \in Live /\ heartbeat[j] = "fresh"
    /\ "dispatchCrash" \in faults \/ ~DispatchInFlight(j)
    /\ heartbeat' = [heartbeat EXCEPT ![j] = "stale"]
    /\ UNCHANGED <<status, bullRef, attempts, entryVars, execVars, serviceVars,
                   operatorVars>>

\* Mutants: a stale row is reaped unseen; a row without a BullMQ id is passed over.
MutantSweepFindReaps(j) ==
    /\ api = "up" /\ swp[j] = "idle"
    /\ status[j] \in Live /\ heartbeat[j] = "stale"
    /\ swp' = [swp EXCEPT ![j] = "reap"]
    /\ UNCHANGED <<rowVars, entryVars, execVars, disp, canc, operatorVars>>

MutantSweepFindById(j) ==
    /\ api = "up" /\ swp[j] = "idle" /\ bullRef[j] = "id"
    /\ status[j] \in Live /\ heartbeat[j] = "stale"
    /\ swp' = [swp EXCEPT ![j] = "check"]
    /\ UNCHANGED <<rowVars, entryVars, execVars, disp, canc, operatorVars>>

\* findStrandedCandidates: the row, its bullJobId included, as read here.
SweepFind(j) ==
    /\ api = "up" /\ swp[j] = "idle"
    /\ status[j] \in Live /\ heartbeat[j] = "stale"
    /\ swp' = [swp EXCEPT ![j] = IF bullRef[j] = "id" THEN "check" ELSE "reap"]
    /\ UNCHANGED <<rowVars, entryVars, execVars, disp, canc, operatorVars>>

\* Mutant: only an entry being processed counts as presence.
MutantSweepCheck(j) ==
    /\ swp[j] = "check"
    /\ swp' = [swp EXCEPT ![j] = IF queue[j] # "locked" THEN "reap" ELSE "idle"]
    /\ UNCHANGED <<rowVars, entryVars, execVars, disp, canc, operatorVars>>

\* queue.getJob: an entry in any state is presence.
SweepCheck(j) ==
    /\ swp[j] = "check"
    /\ swp' = [swp EXCEPT ![j] = IF queue[j] = "none" THEN "reap" ELSE "idle"]
    /\ UNCHANGED <<rowVars, entryVars, execVars, disp, canc, operatorVars>>

\* An unreachable queue is not evidence that the job is gone: skip it.
SweepSkip(j) ==
    /\ "readError" \in faults /\ swp[j] = "check"
    /\ swp' = [swp EXCEPT ![j] = "idle"]
    /\ UNCHANGED <<rowVars, entryVars, execVars, disp, canc, operatorVars>>

SweepReap(j) ==
    /\ swp[j] = "reap"
    /\ WriteIfLive(j, "failed")
    /\ swp' = [swp EXCEPT ![j] = "idle"]
    /\ UNCHANGED <<bullRef, attempts, entryVars, execVars, disp, canc, operatorVars>>

-----------------------------------------------------------------------------
(* The operator's Redis replacement: scale the API to zero, replace, run      *)
(* `portalops jobs redispatch`, scale up.                                     *)

\* Every process of the API stops where it stands.
ScaleDown ==
    /\ api = "up" /\ outages < MaxOutages
    /\ "dispatchCrash" \in faults \/ \A j \in Jobs : ~DispatchInFlight(j)
    /\ api' = "down"
    /\ pc' = [e \in Execs |-> "idle"]
    /\ job' = [e \in Execs |-> NoJob]
    /\ xmade' = [e \in Execs |-> 0]
    /\ xbudget' = [e \in Execs |-> MaxAttempts]
    /\ xoffset' = [e \in Execs |-> 0]
    /\ outcome' = [e \in Execs |-> "none"]
    /\ disp' = [j \in Jobs |-> IF DispatchInFlight(j) THEN "done" ELSE disp[j]]
    /\ canc' = [j \in Jobs |-> "idle"]
    /\ swp' = [j \in Jobs |-> "idle"]
    /\ outages' = outages + 1
    /\ UNCHANGED <<rowVars, entryVars, redisp, faults>>

\* The keyspace is gone: by replacement while the API is down, or under it.
LoseRedis ==
    /\ api = "down" \/ ("redisLoss" \in faults /\ outages < MaxOutages)
    /\ queue' = [j \in Jobs |-> "none"]
    /\ made' = [j \in Jobs |-> 0]
    /\ budget' = [j \in Jobs |-> MaxAttempts]
    /\ offset' = [j \in Jobs |-> 0]
    /\ stalls' = [j \in Jobs |-> 0]
    /\ owner' = [j \in Jobs |-> NoExec]
    /\ outages' = IF api = "up" THEN outages + 1 ELSE outages
    /\ UNCHANGED <<rowVars, execVars, serviceVars, redisp, api, faults>>

\* isQueued: a live entry leaves the row alone, a finished one is removed; then
\* markRedispatched flips a row that is still not terminal.
MarkRedispatched(j) ==
    /\ api = "down" /\ redisp[j] = "idle" /\ status[j] \in Live
    /\ queue[j] \notin LiveEntry
    /\ Dequeue(j)
    /\ bullRef' = [bullRef EXCEPT ![j] = "id"]
    /\ heartbeat' = [heartbeat EXCEPT ![j] = "fresh"]
    /\ redisp' = [redisp EXCEPT ![j] = "add"]
    /\ UNCHANGED <<status, attempts, execVars, serviceVars, api, outages, faults>>

\* Mutants: a full budget on the new queue; a spent budget leaves no attempt.
MutantRedispatchAfresh(j) ==
    /\ redisp[j] = "add"
    /\ Enqueue(j, MaxAttempts, attempts[j])
    /\ redisp' = [redisp EXCEPT ![j] = "idle"]
    /\ UNCHANGED <<rowVars, execVars, serviceVars, api, outages, faults>>

MutantRedispatchSpent(j) ==
    /\ redisp[j] = "add"
    /\ Enqueue(j, MaxAttempts - attempts[j], attempts[j])
    /\ redisp' = [redisp EXCEPT ![j] = "idle"]
    /\ UNCHANGED <<rowVars, execVars, serviceVars, api, outages, faults>>

\* add, with what the row has left of its budget.
Redispatch(j) ==
    LET spent == IF attempts[j] < MaxAttempts THEN attempts[j] ELSE MaxAttempts - 1
    IN  /\ redisp[j] = "add"
        /\ Enqueue(j, MaxAttempts - spent, spent)
        /\ redisp' = [redisp EXCEPT ![j] = "idle"]
        /\ UNCHANGED <<rowVars, execVars, serviceVars, api, outages, faults>>

\* The operator starts the API again, whether or not the pass ran through.
ScaleUp ==
    /\ api = "down"
    /\ api' = "up"
    /\ redisp' = [j \in Jobs |-> "idle"]
    /\ UNCHANGED <<rowVars, entryVars, execVars, serviceVars, outages, faults>>

-----------------------------------------------------------------------------
(* The next-state relation, by actor. *)

DispatchNext(j) ==
    \/ CreateRow(j) \/ AddToQueue(j) \/ AddThrows(j)
    \/ StoreReference(j) \/ ReferenceThrows(j) \/ FailDispatch(j)

QueueNext(j) == Promote(j) \/ Redeliver(j) \/ Expire(j)

ExecNext(e) ==
    \/ ReadRow(e) \/ MarkActive(e) \/ MarkActiveThrows(e) \/ RunProcessor(e)
    \/ WriteOutcome(e) \/ WriteOutcomeThrows(e)
    \/ WriteFailure(e) \/ WriteFailureThrows(e)
    \/ Ack(e) \/ Nack(e) \/ NackWithoutLock(e) \/ HandleFailed(e) \/ RecordDeath(e)

CancelNext(j) == CancelRead(j) \/ CancelRemove(j) \/ CancelWrite(j)

SweepNext(j) == SweepFind(j) \/ SweepCheck(j) \/ SweepSkip(j) \/ SweepReap(j)

OperatorNext ==
    \/ ScaleDown \/ LoseRedis \/ ScaleUp
    \/ \E j \in Jobs : MarkRedispatched(j) \/ Redispatch(j)

Next ==
    \/ \E j \in Jobs : \/ DispatchNext(j) \/ CrashDispatch(j) \/ QueueNext(j)
                       \/ CancelNext(j) \/ GrowStale(j) \/ SweepNext(j)
    \/ \E e \in Execs : ExecNext(e) \/ Progress(e) \/ Crash(e)
    \/ \E e \in Execs, j \in Jobs : Pick(e, j) \/ FailStalled(e, j)
    \/ OperatorNext

Spec == Init /\ [][Next]_vars

-----------------------------------------------------------------------------
(* Properties *)

\* Type invariant of the rows, the queue, the worker contexts and the steps of
\* every service; a locked entry, and only it, has an owner, and a worker context
\* stands at a job exactly while it is busy.
TypeOK ==
    /\ status \in [Jobs -> Status]
    /\ bullRef \in [Jobs -> {"null", "id"}]
    /\ attempts \in [Jobs -> Nat]
    /\ heartbeat \in [Jobs -> {"fresh", "stale"}]
    /\ queue \in [Jobs -> QueueStates]
    /\ made \in [Jobs -> Nat]
    /\ budget \in [Jobs -> 1..MaxAttempts]
    /\ offset \in [Jobs -> Nat]
    /\ stalls \in [Jobs -> 0..MaxStalls]
    /\ owner \in [Jobs -> Execs \cup {NoExec}]
    /\ \A j \in Jobs : queue[j] = "locked" <=> owner[j] # NoExec
    /\ pc \in [Execs -> {"idle"} \cup InProcessor \cup InHandler]
    /\ job \in [Execs -> Jobs \cup {NoJob}]
    /\ \A e \in Execs : pc[e] = "idle" <=> job[e] = NoJob
    /\ xmade \in [Execs -> Nat]
    /\ xbudget \in [Execs -> 1..MaxAttempts]
    /\ xoffset \in [Execs -> Nat]
    /\ outcome \in [Execs -> Outcomes]
    /\ \A e \in Execs : pc[e] = "finish" => outcome[e] \in {"completed", "failed"}
    /\ disp \in [Jobs -> {"new", "add", "ref", "fail", "done"}]
    /\ canc \in [Jobs -> {"idle", "remove", "write"}]
    /\ swp \in [Jobs -> {"idle", "check", "reap"}]
    /\ redisp \in [Jobs -> {"idle", "add"}]
    /\ api \in {"up", "down"}
    /\ outages \in 0..MaxOutages
    /\ faults \in Settings

\* While a processor runs, its job's row is not terminal: the scope locks, which
\* every other writer checks against the non-terminal rows, stay held for as
\* long as a worker may still write under them, across retries and crashes
\* (jobs.worker.ts, #441).
RunningHoldsLock ==
    \A e \in Execs : pc[e] = "run" => status[job[e]] \in Live

\* The budget is one budget: the attempts a row spent on earlier queues plus
\* those its entry still allows never exceed maxAttempts, whatever the sequence
\* of retries, stalls and re-dispatches, and an execution's attempt number
\* never exceeds it (job-redispatch.service.ts, #852).
BudgetKept ==
    /\ \A j \in Jobs : /\ offset[j] + budget[j] <= MaxAttempts
                      /\ attempts[j] <= MaxAttempts
    /\ \A e \in Execs : pc[e] \in InProcessor =>
          xoffset[e] + xmade[e] + 1 <= MaxAttempts

\* The first terminal status of a row is its last, as job-events.service.ts:136 says;
\* a cancel and the worker write theirs without that guard.
FirstTerminalWins ==
    [][\A j \in Jobs : status[j] \in Terminal => status'[j] = status[j]]_vars

\* A row is settled when it is terminal and no execution has passed its pre-read
\* (or is about to record a death): whatever a canceller, the sweep, the
\* dispatcher or a re-dispatch is still about to do, and whatever stale entry the
\* queue holds.
Settled(j) ==
    /\ status[j] \in Terminal
    /\ \A e \in Execs : job[e] = j => pc[e] \in {"read", "ack", "event"}

\* A settled row is settled for good: a stale entry, a re-delivery, a re-dispatch
\* or a late callback finds it terminal and neither runs it nor moves it back to
\* a live status (jobs.worker.ts pre-read, #852).
SettledIsFinal == [][\A j \in Jobs : Settled(j) => Settled(j)']_vars

\* The sweep only fails a job the queue no longer holds: when it is about to
\* write, the row's entry will not run again.
ReapedIsGone ==
    \A j \in Jobs : swp[j] = "reap" /\ status[j] \in Live =>
        queue[j] \notin LiveEntry

-----------------------------------------------------------------------------
(* Fairness: the API's processes are scheduled, BullMQ delivers, promotes and  *)
(* checks for stalls, the sweep's timer ticks, clocks advance, and an API that *)
(* was scaled down is scaled up again.  A queue lookup that is tried again and *)
(* again succeeds in the end (strong fairness of SweepCheck).  Nothing obliges *)
(* a user to cancel, a worker to crash or an operator to act.                  *)

FairSpec ==
    /\ Spec
    /\ WF_vars(ScaleUp)
    /\ \A e \in Execs : WF_vars(ExecNext(e))
    /\ \A j \in Jobs :
        /\ WF_vars(disp[j] # "new" /\ DispatchNext(j))
        /\ WF_vars(\E e \in Execs : Pick(e, j))
        /\ WF_vars(\E e \in Execs : FailStalled(e, j))
        /\ WF_vars(Promote(j))
        /\ WF_vars(Redeliver(j))
        /\ WF_vars(Expire(j))
        /\ WF_vars(CancelRemove(j) \/ CancelWrite(j))
        /\ WF_vars(GrowStale(j))
        /\ WF_vars(SweepNext(j))
        /\ SF_vars(SweepCheck(j))

\* Every row that is not terminal becomes terminal, so no scope stays locked
\* forever: through completion, failure, cancel, or the sweep's reap after a
\* lost queue, a dead dispatch or a dead worker (job-reconciliation, #391).
EventuallyTerminal ==
    \A j \in Jobs : status[j] \in Live ~> status[j] \notin Live
=============================================================================
