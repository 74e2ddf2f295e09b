-------------------------- MODULE JobLifecycleProofs --------------------------
(***************************************************************************)
(* Theorems about JobLifecycle for every set of jobs and worker contexts,  *)
(* every budget and every combination of faults the statement allows.      *)
(***************************************************************************)
EXTENDS JobLifecycle, TLAPS

USE ConstantsAssumption

-----------------------------------------------------------------------------
(* Type correctness *)

\* A busy worker context stands at a job.
LEMMA BusyContext ==
    ASSUME TypeOK, NEW e \in Execs, pc[e] # "idle"
    PROVE  job[e] \in Jobs
  BY DEF TypeOK

LEMMA TypeInit == Init => TypeOK
  BY DEF Init, TypeOK, Status, Live, Terminal, QueueStates, Outcomes

LEMMA TypeDispatch ==
    ASSUME TypeOK, NEW j \in Jobs, DispatchNext(j) \/ CrashDispatch(j)
    PROVE  TypeOK'
  <1> USE DEF TypeOK, rowVars, entryVars, execVars, serviceVars, operatorVars
  <1>1. CASE CreateRow(j)
    BY <1>1 DEF CreateRow, Status, Live
  <1>2. CASE AddToQueue(j)
    BY <1>2 DEF AddToQueue, Enqueue, FreshEntry, QueueStates
  <1>3. CASE AddThrows(j)
    <2>1. CASE Enqueue(j, MaxAttempts, 0)
      BY <1>3, <2>1 DEF AddThrows, Enqueue, FreshEntry, QueueStates
    <2>2. CASE UNCHANGED entryVars
      BY <1>3, <2>2 DEF AddThrows
    <2> QED BY <1>3, <2>1, <2>2 DEF AddThrows
  <1>4. CASE StoreReference(j) \/ ReferenceThrows(j) \/ CrashDispatch(j)
    BY <1>4 DEF StoreReference, ReferenceThrows, CrashDispatch
  <1>5. CASE FailDispatch(j)
    BY <1>5 DEF FailDispatch, Status, Terminal
  <1> QED BY <1>1, <1>2, <1>3, <1>4, <1>5 DEF DispatchNext

LEMMA TypeQueue ==
    ASSUME TypeOK, NEW j \in Jobs, QueueNext(j)
    PROVE  TypeOK'
  <1> USE DEF TypeOK, rowVars, execVars, serviceVars, operatorVars, QueueStates
  <1>1. CASE Promote(j)
    BY <1>1 DEF Promote
  <1>2. CASE Redeliver(j)
    BY <1>2 DEF Redeliver, LockLapsed, Unlock
  <1>3. CASE Expire(j)
    BY <1>3 DEF Expire, Dequeue, FreshEntry
  <1> QED BY <1>1, <1>2, <1>3 DEF QueueNext

LEMMA TypePick ==
    ASSUME TypeOK, NEW j \in Jobs, NEW e \in Execs,
           Pick(e, j) \/ FailStalled(e, j)
    PROVE  TypeOK'
  <1> USE DEF TypeOK, rowVars, serviceVars, operatorVars, QueueStates, Outcomes,
              Take
  <1>1. CASE Pick(e, j)
    BY <1>1 DEF Pick, InProcessor
  <1>2. CASE FailStalled(e, j)
    BY <1>2 DEF FailStalled, LockLapsed, Unlock, InHandler
  <1> QED BY <1>1, <1>2

LEMMA TypeExec ==
    ASSUME TypeOK, NEW e \in Execs, ExecNext(e) \/ Progress(e) \/ Crash(e)
    PROVE  TypeOK'
  <1> USE DEF TypeOK, rowVars, entryVars, serviceVars, operatorVars,
              Goto, GotoWith, Leave, Write, InProcessor, InHandler, Outcomes
  <1>1. CASE ReadRow(e)
    BY <1>1 DEF ReadRow
  <1>2. CASE MarkActive(e)
    <2>1. job[e] \in Jobs
      BY <1>2, BusyContext DEF MarkActive
    <2>2. CASE Goto(e, "run")
      BY <1>2, <2>1, <2>2, SMTT(30) DEF MarkActive, Status, Live
    <2>3. CASE GotoWith(e, "nack", "error")
      BY <1>2, <2>1, <2>3, SMTT(30) DEF MarkActive, Status, Live
    <2> QED BY <1>2, <2>2, <2>3 DEF MarkActive
  <1>3. CASE RunProcessor(e)
    BY <1>3, SMTT(30) DEF RunProcessor
  <1>4. CASE WriteOutcome(e)
    <2>1. job[e] \in Jobs /\ outcome[e] \in {"completed", "failed"}
      BY <1>4, BusyContext DEF WriteOutcome
    <2>2. CASE Goto(e, "ack")
      BY <1>4, <2>1, <2>2 DEF WriteOutcome, Status, Terminal
    <2>3. CASE GotoWith(e, "catch", "error")
      BY <1>4, <2>1, <2>3 DEF WriteOutcome, Status, Terminal
    <2> QED BY <1>4, <2>2, <2>3 DEF WriteOutcome
  <1>5. CASE WriteFailure(e)
    <2> DEFINE s == FailedStatus(outcome[e], xmade[e], xbudget[e])
    <2>1. job[e] \in Jobs /\ s \in Status
      BY <1>5, BusyContext DEF WriteFailure, FailedStatus, Status, Terminal, Live
    <2> HIDE DEF s
    <2>2. CASE Goto(e, "nack")
      BY <1>5, <2>1, <2>2 DEF WriteFailure, s
    <2>3. CASE GotoWith(e, "nack", "error")
      BY <1>5, <2>1, <2>3 DEF WriteFailure, s
    <2> QED BY <1>5, <2>2, <2>3 DEF WriteFailure
  <1>12. CASE MarkActiveThrows(e) \/ WriteOutcomeThrows(e) \/ WriteFailureThrows(e)
    <2>1. CASE MarkActiveThrows(e)
      BY <2>1 DEF MarkActiveThrows
    <2>2. CASE WriteOutcomeThrows(e)
      BY <2>2 DEF WriteOutcomeThrows
    <2>3. CASE WriteFailureThrows(e)
      BY <2>3 DEF WriteFailureThrows
    <2> QED BY <1>12, <2>1, <2>2, <2>3
  <1>6. CASE Ack(e)
    <2>1. job[e] \in Jobs
      BY <1>6, BusyContext DEF Ack
    <2>2. CASE Holds(e)
      BY <1>6, <2>1, <2>2, SMTT(30) DEF Ack, Unlock, QueueStates
    <2>3. CASE ~Holds(e)
      BY <1>6, <2>3 DEF Ack
    <2> QED BY <2>2, <2>3
  <1>7. CASE Nack(e)
    <2>1. job[e] \in Jobs /\ queue[job[e]] = "locked"
      BY <1>7, BusyContext DEF Nack, Holds
    <2> QED BY <1>7, <2>1 DEF Nack, Unlock, QueueStates
  <1>13. CASE NackWithoutLock(e)
    BY <1>13 DEF NackWithoutLock
  <1>8. CASE HandleFailed(e)
    <2>1. CASE Goto(e, "eventWrite")
      BY <1>8, <2>1 DEF HandleFailed
    <2>2. CASE Leave(e)
      BY <1>8, <2>2 DEF HandleFailed
    <2> QED BY <1>8, <2>1, <2>2 DEF HandleFailed
  <1>9. CASE RecordDeath(e)
    <2> DEFINE s == FailedStatus(outcome[e], xmade[e], xbudget[e])
    <2>1. s \in Status
      BY DEF FailedStatus, Status, Terminal, Live
    <2> HIDE DEF s
    <2>2. CASE Write(job[e], s)
      BY <1>9, <2>1, <2>2 DEF RecordDeath
    <2>3. CASE UNCHANGED <<status, heartbeat>>
      BY <1>9, <2>3 DEF RecordDeath
    <2> QED BY <1>9, <2>2, <2>3 DEF RecordDeath, s
  <1>10. CASE Progress(e)
    BY <1>10 DEF Progress, execVars
  <1>11. CASE Crash(e)
    BY <1>11 DEF Crash
  <1> QED BY <1>1, <1>2, <1>3, <1>4, <1>5, <1>6, <1>7, <1>8, <1>9, <1>10, <1>11,
         <1>12, <1>13 DEF ExecNext

LEMMA TypeService ==
    ASSUME TypeOK, NEW j \in Jobs,
           CancelNext(j) \/ GrowStale(j) \/ SweepNext(j)
    PROVE  TypeOK'
  <1> USE DEF TypeOK, rowVars, entryVars, execVars, serviceVars, operatorVars
  <1>1. CASE CancelRead(j)
    BY <1>1 DEF CancelRead
  <1>2. CASE CancelRemove(j)
    <2>1. CASE Dequeue(j)
      BY <1>2, <2>1 DEF CancelRemove, Dequeue, FreshEntry, QueueStates
    <2>2. CASE UNCHANGED entryVars
      BY <1>2, <2>2 DEF CancelRemove
    <2> QED BY <1>2, <2>1, <2>2 DEF CancelRemove
  <1>3. CASE CancelWrite(j)
    BY <1>3 DEF CancelWrite, Write, Status, Terminal
  <1>4. CASE GrowStale(j)
    BY <1>4 DEF GrowStale
  <1>5. CASE SweepFind(j) \/ SweepCheck(j) \/ SweepSkip(j)
    BY <1>5 DEF SweepFind, SweepCheck, SweepSkip
  <1>6. CASE SweepReap(j)
    BY <1>6 DEF SweepReap, WriteIfLive, Write, Status, Terminal
  <1> QED BY <1>1, <1>2, <1>3, <1>4, <1>5, <1>6 DEF CancelNext, SweepNext

LEMMA TypeOperator ==
    ASSUME TypeOK, OperatorNext
    PROVE  TypeOK'
  <1> USE DEF TypeOK, rowVars, entryVars, execVars, serviceVars, operatorVars,
              QueueStates
  <1>1. CASE ScaleDown
    BY <1>1 DEF ScaleDown, DispatchInFlight, Outcomes
  <1>2. CASE LoseRedis
    BY <1>2 DEF LoseRedis
  <1>3. CASE ScaleUp
    BY <1>3 DEF ScaleUp
  <1>4. ASSUME NEW j \in Jobs, MarkRedispatched(j) PROVE TypeOK'
    BY <1>4 DEF MarkRedispatched, Dequeue, FreshEntry
  <1>5. ASSUME NEW j \in Jobs, Redispatch(j) PROVE TypeOK'
    BY <1>5 DEF Redispatch, Enqueue, FreshEntry
  <1> QED BY <1>1, <1>2, <1>3, <1>4, <1>5 DEF OperatorNext

LEMMA TypeNext ==
    ASSUME TypeOK, [Next]_vars
    PROVE  TypeOK'
  <1>1. CASE \E j \in Jobs : DispatchNext(j) \/ CrashDispatch(j)
    BY <1>1, TypeDispatch
  <1>2. CASE \E j \in Jobs : CancelNext(j) \/ GrowStale(j) \/ SweepNext(j)
    BY <1>2, TypeService
  <1>3. CASE \E e \in Execs : ExecNext(e) \/ Progress(e) \/ Crash(e)
    BY <1>3, TypeExec
  <1>4. CASE \E e \in Execs, j \in Jobs : Pick(e, j) \/ FailStalled(e, j)
    BY <1>4, TypePick
  <1>5. CASE \E j \in Jobs : QueueNext(j)
    BY <1>5, TypeQueue
  <1>6. CASE OperatorNext
    BY <1>6, TypeOperator
  <1>7. CASE UNCHANGED vars
    BY <1>7 DEF TypeOK, vars, rowVars, entryVars, execVars, serviceVars, operatorVars
  <1> QED BY <1>1, <1>2, <1>3, <1>4, <1>5, <1>6, <1>7 DEF Next

\* Every reachable state is well typed; a queue entry has an owner exactly while
\* it is locked.
THEOREM TypeCorrect == Spec => []TypeOK
  <1>1. TypeOK /\ [Next]_vars => TypeOK'
    BY TypeNext
  <1> QED BY TypeInit, <1>1, PTL DEF Spec

-----------------------------------------------------------------------------
(* One retry budget *)

\* BudgetKept is not inductive: that an execution's attempt fits the budget needs
\* that an entry which will run again has an attempt left, and that the attempt a
\* lock holder was handed is the one its entry still counts.
AttemptLeft ==
    \A j \in Jobs : queue[j] \in LiveEntry => made[j] < budget[j]

HandedOver ==
    \A e \in Execs : pc[e] \in InProcessor =>
        /\ xoffset[e] + xbudget[e] <= MaxAttempts
        /\ xmade[e] < xbudget[e]
        /\ Holds(e) => budget[job[e]] = xbudget[e]

EntriesFit ==
    \A j \in Jobs : offset[j] + budget[j] <= MaxAttempts /\ attempts[j] <= MaxAttempts

BudgetInv == EntriesFit /\ AttemptLeft /\ HandedOver

LEMMA BudgetInit == Init => BudgetInv
  BY DEF Init, BudgetInv, AttemptLeft, HandedOver, EntriesFit, LiveEntry, InProcessor

LEMMA BudgetImplies == TypeOK /\ BudgetInv => BudgetKept
  BY DEF TypeOK, BudgetInv, HandedOver, EntriesFit, BudgetKept

LEMMA BudgetDispatch ==
    ASSUME TypeOK, BudgetInv, NEW j \in Jobs, DispatchNext(j) \/ CrashDispatch(j)
    PROVE  BudgetInv'
  <1> USE DEF TypeOK, BudgetInv, EntriesFit, AttemptLeft, HandedOver, Holds,
              LiveEntry, InProcessor
  <1>1. CASE Enqueue(j, MaxAttempts, 0) /\ UNCHANGED <<rowVars, execVars>>
    BY <1>1 DEF Enqueue, FreshEntry, rowVars, execVars
  <1>2. CASE UNCHANGED <<attempts, entryVars, execVars>>
    BY <1>2 DEF entryVars, execVars
  <1> QED
    BY <1>1, <1>2 DEF DispatchNext, CrashDispatch, CreateRow, AddToQueue, AddThrows,
       StoreReference, ReferenceThrows, FailDispatch, rowVars

LEMMA BudgetQueue ==
    ASSUME TypeOK, BudgetInv, NEW j \in Jobs, QueueNext(j)
    PROVE  BudgetInv'
  <1> USE DEF TypeOK, BudgetInv, EntriesFit, AttemptLeft, HandedOver, Holds,
              LiveEntry, InProcessor, rowVars, execVars
  <1>1. CASE Promote(j)
    BY <1>1 DEF Promote
  <1>2. CASE Redeliver(j)
    BY <1>2 DEF Redeliver, LockLapsed, Unlock
  <1>3. CASE Expire(j)
    BY <1>3 DEF Expire, Dequeue, FreshEntry
  <1> QED BY <1>1, <1>2, <1>3 DEF QueueNext

LEMMA BudgetPick ==
    ASSUME TypeOK, BudgetInv, NEW j \in Jobs, NEW e \in Execs,
           Pick(e, j) \/ FailStalled(e, j)
    PROVE  BudgetInv'
  <1> USE DEF TypeOK, BudgetInv, EntriesFit, AttemptLeft, HandedOver, Holds,
              LiveEntry, InProcessor, rowVars, Take
  <1>1. CASE Pick(e, j)
    BY <1>1 DEF Pick
  <1>2. CASE FailStalled(e, j)
    BY <1>2 DEF FailStalled, LockLapsed, Unlock, InHandler
  <1> QED BY <1>1, <1>2

LEMMA BudgetExec ==
    ASSUME TypeOK, BudgetInv, NEW e \in Execs,
           ExecNext(e) \/ Progress(e) \/ Crash(e)
    PROVE  BudgetInv'
  <1> USE DEF TypeOK, BudgetInv, EntriesFit, AttemptLeft, HandedOver, Holds,
              LiveEntry, InProcessor
  <1>1. CASE MarkActive(e)
    <2>1. /\ job[e] \in Jobs
          /\ xoffset[e] + xmade[e] + 1 <= MaxAttempts
      BY <1>1, BusyContext DEF MarkActive
    <2>2. EntriesFit'
      BY <1>1, <2>1 DEF MarkActive, entryVars
    <2>3. CASE Goto(e, "run")
      BY <1>1, <2>2, <2>3 DEF MarkActive, Goto, entryVars
    <2>4. CASE GotoWith(e, "nack", "error")
      BY <1>1, <2>2, <2>4 DEF MarkActive, GotoWith, entryVars
    <2> QED BY <1>1, <2>3, <2>4 DEF MarkActive
  <1>2. CASE Ack(e)
    <2>1. CASE Holds(e)
      BY <1>2, <2>1, BusyContext, SMTT(30) DEF Ack, Unlock, Leave, rowVars
    <2>2. CASE UNCHANGED entryVars
      BY <1>2, <2>2 DEF Ack, Leave, rowVars, entryVars
    <2> QED BY <1>2, <2>1, <2>2 DEF Ack
  <1>3. CASE Nack(e)
    <2>1. /\ job[e] \in Jobs
          /\ budget[job[e]] = xbudget[e]
      BY <1>3, BusyContext DEF Nack
    <2> QED BY <1>3, <2>1 DEF Nack, Unlock, rowVars
  <1>4. ASSUME UNCHANGED <<attempts, entryVars>>, pc[e] \in InProcessor,
               NEW p \in InProcessor, NEW out,
               Goto(e, p) \/ GotoWith(e, p, out)
        PROVE  BudgetInv'
    BY <1>4 DEF Goto, GotoWith, entryVars
  <1>5. ASSUME UNCHANGED <<attempts, entryVars>>, Leave(e)
        PROVE  BudgetInv'
    BY <1>5 DEF Leave, entryVars
  <1>6. CASE ReadRow(e) \/ MarkActiveThrows(e) \/ RunProcessor(e)
    BY <1>4, <1>6 DEF ReadRow, MarkActiveThrows, RunProcessor, rowVars
  <1>7. CASE WriteOutcome(e) \/ WriteOutcomeThrows(e)
    BY <1>4, <1>7 DEF WriteOutcome, WriteOutcomeThrows, rowVars
  <1>8. CASE WriteFailure(e) \/ WriteFailureThrows(e)
    BY <1>4, <1>8 DEF WriteFailure, WriteFailureThrows, rowVars
  <1>9. CASE NackWithoutLock(e) \/ RecordDeath(e) \/ Crash(e)
    BY <1>5, <1>9 DEF NackWithoutLock, RecordDeath, Crash, rowVars
  <1>10. CASE HandleFailed(e)
    <2>1. CASE Goto(e, "eventWrite")
      BY <1>10, <2>1 DEF HandleFailed, Goto, rowVars, entryVars
    <2> QED BY <1>5, <1>10, <2>1 DEF HandleFailed, rowVars
  <1>11. CASE Progress(e)
    BY <1>11 DEF Progress, entryVars, execVars
  <1> QED BY <1>1, <1>2, <1>3, <1>6, <1>7, <1>8, <1>9, <1>10, <1>11 DEF ExecNext

LEMMA BudgetService ==
    ASSUME TypeOK, BudgetInv, NEW j \in Jobs,
           CancelNext(j) \/ GrowStale(j) \/ SweepNext(j)
    PROVE  BudgetInv'
  <1> USE DEF TypeOK, BudgetInv, EntriesFit, AttemptLeft, HandedOver, Holds,
              LiveEntry, InProcessor
  <1>1. CASE Dequeue(j) /\ UNCHANGED <<rowVars, execVars>>
    BY <1>1 DEF Dequeue, FreshEntry, rowVars, execVars
  <1>2. CASE UNCHANGED <<attempts, entryVars, execVars>>
    BY <1>2 DEF entryVars, execVars
  <1> QED
    BY <1>1, <1>2 DEF CancelNext, CancelRead, CancelRemove, CancelWrite, GrowStale,
       SweepNext, SweepFind, SweepCheck, SweepSkip, SweepReap, rowVars

LEMMA BudgetOperator ==
    ASSUME TypeOK, BudgetInv, OperatorNext
    PROVE  BudgetInv'
  <1> USE DEF TypeOK, BudgetInv, EntriesFit, AttemptLeft, HandedOver, Holds,
              LiveEntry, InProcessor, rowVars, execVars
  <1>1. CASE ScaleDown
    BY <1>1 DEF ScaleDown, entryVars
  <1>2. CASE LoseRedis
    BY <1>2 DEF LoseRedis
  <1>3. CASE ScaleUp
    BY <1>3 DEF ScaleUp, entryVars
  <1>4. ASSUME NEW j \in Jobs, MarkRedispatched(j) PROVE BudgetInv'
    BY <1>4 DEF MarkRedispatched, Dequeue, FreshEntry
  <1>5. ASSUME NEW j \in Jobs, Redispatch(j) PROVE BudgetInv'
    BY <1>5 DEF Redispatch, Enqueue, FreshEntry
  <1> QED BY <1>1, <1>2, <1>3, <1>4, <1>5 DEF OperatorNext

LEMMA BudgetNext ==
    ASSUME TypeOK, BudgetInv, [Next]_vars
    PROVE  BudgetInv'
  <1>1. CASE UNCHANGED vars
    BY <1>1 DEF BudgetInv, EntriesFit, AttemptLeft, HandedOver, Holds, vars, rowVars,
                entryVars, execVars
  <1>2. CASE \E j \in Jobs : DispatchNext(j) \/ CrashDispatch(j)
    BY <1>2, BudgetDispatch
  <1>3. CASE \E j \in Jobs : CancelNext(j) \/ GrowStale(j) \/ SweepNext(j)
    BY <1>3, BudgetService
  <1>4. CASE \E e \in Execs : ExecNext(e) \/ Progress(e) \/ Crash(e)
    BY <1>4, BudgetExec
  <1>5. CASE \E e \in Execs, j \in Jobs : Pick(e, j) \/ FailStalled(e, j)
    BY <1>5, BudgetPick
  <1>6. CASE \E j \in Jobs : QueueNext(j)
    BY <1>6, BudgetQueue
  <1> QED BY <1>1, <1>2, <1>3, <1>4, <1>5, <1>6, BudgetOperator DEF Next

\* Whatever fails, and however often a job stalls, retries or is re-dispatched
\* onto a new Redis, its attempts come out of one budget of maxAttempts.
THEOREM BudgetAlwaysKept == Spec => []BudgetKept
  <1>1. TypeOK /\ BudgetInv /\ [Next]_vars => BudgetInv'
    BY BudgetNext
  <1> QED BY BudgetInit, <1>1, BudgetImplies, TypeCorrect, PTL DEF Spec

-----------------------------------------------------------------------------
(* A settled row stays settled *)

\* A row not yet created is absent: create never overwrites a settled one.
NewIsAbsent == \A j \in Jobs : disp[j] = "new" => status[j] = "absent"

LEMMA AbsentNext ==
    ASSUME TypeOK, NewIsAbsent, [Next]_vars
    PROVE  NewIsAbsent'
  <1> USE DEF TypeOK, NewIsAbsent, rowVars, serviceVars, Write, WriteIfLive
  <1>1. ASSUME NEW j \in Jobs, DispatchNext(j) \/ CrashDispatch(j)
        PROVE  NewIsAbsent'
    BY <1>1 DEF DispatchNext, CrashDispatch, CreateRow, AddToQueue, AddThrows,
       StoreReference, ReferenceThrows, FailDispatch, DispatchInFlight
  <1>2. ASSUME NEW j \in Jobs, CancelNext(j) \/ GrowStale(j) \/ SweepNext(j)
        PROVE  NewIsAbsent'
    BY <1>2 DEF CancelNext, CancelRead, CancelRemove, CancelWrite, GrowStale,
       SweepNext, SweepFind, SweepCheck, SweepSkip, SweepReap, Live
  <1>3. ASSUME NEW e \in Execs, ExecNext(e) \/ Progress(e) \/ Crash(e)
        PROVE  NewIsAbsent'
    <2>1. UNCHANGED disp
      BY <1>3 DEF ExecNext, ReadRow, MarkActive, MarkActiveThrows, RunProcessor,
         WriteOutcome, WriteOutcomeThrows, WriteFailure, WriteFailureThrows, Ack,
         Nack, NackWithoutLock, HandleFailed, RecordDeath, Progress, Crash
    <2>2. UNCHANGED status \/ \E s \in Status : Write(job[e], s)
      BY <1>3 DEF ExecNext, ReadRow, MarkActive, MarkActiveThrows, RunProcessor,
         WriteOutcome, WriteOutcomeThrows, WriteFailure, WriteFailureThrows, Ack,
         Nack, NackWithoutLock, HandleFailed, RecordDeath, Progress, Crash,
         Status, Live, Terminal, FailedStatus
    <2> QED BY <2>1, <2>2
  <1>4. ASSUME NEW e \in Execs, NEW j \in Jobs, Pick(e, j) \/ FailStalled(e, j)
        PROVE  NewIsAbsent'
    BY <1>4 DEF Pick, FailStalled
  <1>5. ASSUME NEW j \in Jobs, QueueNext(j) PROVE NewIsAbsent'
    BY <1>5 DEF QueueNext, Promote, Redeliver, Expire
  <1>6. CASE OperatorNext
    BY <1>6 DEF OperatorNext, ScaleDown, LoseRedis, ScaleUp, MarkRedispatched,
       Redispatch, DispatchInFlight
  <1>7. CASE UNCHANGED vars
    BY <1>7 DEF vars
  <1> QED BY <1>1, <1>2, <1>3, <1>4, <1>5, <1>6, <1>7 DEF Next

LEMMA SettledByServices ==
    ASSUME TypeOK, NewIsAbsent, NEW j \in Jobs, Settled(j), NEW k \in Jobs,
           \/ DispatchNext(k) \/ CrashDispatch(k) \/ QueueNext(k)
           \/ CancelNext(k) \/ GrowStale(k) \/ SweepNext(k)
    PROVE  Settled(j)'
  <1> USE DEF TypeOK, NewIsAbsent, Settled, Terminal, Live, rowVars, execVars
  <1>1. UNCHANGED <<pc, job>>
    BY DEF DispatchNext, CrashDispatch, CreateRow, AddToQueue, AddThrows,
       StoreReference, ReferenceThrows, FailDispatch, QueueNext, Promote,
       Redeliver, Expire, CancelNext, CancelRead, CancelRemove, CancelWrite,
       GrowStale, SweepNext, SweepFind, SweepCheck, SweepSkip, SweepReap
  <1>2. status'[j] \in Terminal
    <2>1. CASE DispatchNext(k) \/ CrashDispatch(k)
      BY <2>1 DEF DispatchNext, CrashDispatch, CreateRow, AddToQueue, AddThrows,
         StoreReference, ReferenceThrows, FailDispatch
    <2>2. CASE QueueNext(k)
      BY <2>2 DEF QueueNext, Promote, Redeliver, Expire
    <2>3. CASE CancelNext(k) \/ GrowStale(k) \/ SweepNext(k)
      BY <2>3 DEF CancelNext, CancelRead, CancelRemove, CancelWrite, GrowStale,
         SweepNext, SweepFind, SweepCheck, SweepSkip, SweepReap, Write, WriteIfLive
    <2> QED BY <2>1, <2>2, <2>3
  <1> QED BY <1>1, <1>2

LEMMA SettledByExec ==
    ASSUME "readError" \notin faults, TypeOK, NEW j \in Jobs, Settled(j),
           NEW e \in Execs, ExecNext(e) \/ Progress(e) \/ Crash(e)
    PROVE  Settled(j)'
  <1> USE DEF TypeOK, Settled, rowVars, Goto, GotoWith, Leave
  <1>1. CASE job[e] # j
    \* An execution of another job writes another row and stays at its job.
    <2>1. UNCHANGED status \/ \E s \in Status : Write(job[e], s)
      BY DEF ExecNext, ReadRow, MarkActive, MarkActiveThrows, RunProcessor,
         WriteOutcome, WriteOutcomeThrows, WriteFailure, WriteFailureThrows, Ack,
         Nack, NackWithoutLock, HandleFailed, RecordDeath, Progress, Crash,
         Status, Live, Terminal, FailedStatus
    <2>2. status'[j] = status[j]
      BY <1>1, <2>1 DEF Write
    <2>3. /\ job' \in {job, [job EXCEPT ![e] = NoJob]}
          /\ \A f \in Execs \ {e} : pc'[f] = pc[f]
      BY DEF ExecNext, ReadRow, MarkActive, MarkActiveThrows, RunProcessor,
         WriteOutcome, WriteOutcomeThrows, WriteFailure, WriteFailureThrows, Ack,
         Nack, NackWithoutLock, HandleFailed, RecordDeath, Progress, Crash, execVars
    <2> QED BY <1>1, <2>2, <2>3
  <1>2. CASE job[e] = j
    <2>1. pc[e] \in {"read", "ack", "event"} /\ status[j] \in Terminal
      BY <1>2
    <2>2. UNCHANGED status
      BY <2>1 DEF ExecNext, ReadRow, MarkActive, MarkActiveThrows, RunProcessor,
         WriteOutcome, WriteOutcomeThrows, WriteFailure, WriteFailureThrows, Ack,
         Nack, NackWithoutLock, HandleFailed, RecordDeath, Progress, Crash
    <2>3. Goto(e, "ack") \/ Leave(e)
      BY <1>2, <2>1 DEF ExecNext, ReadRow, MarkActive, MarkActiveThrows,
         RunProcessor, WriteOutcome, WriteOutcomeThrows, WriteFailure,
         WriteFailureThrows, Ack, Nack, NackWithoutLock, HandleFailed, RecordDeath,
         Progress, Crash, Terminal
    <2> QED BY <2>1, <2>2, <2>3
  <1> QED BY <1>1, <1>2

LEMMA SettledNext ==
    ASSUME "readError" \notin faults, TypeOK, NewIsAbsent, [Next]_vars,
           NEW j \in Jobs, Settled(j)
    PROVE  Settled(j)'
  <1> USE DEF Settled, rowVars
  <1>1. CASE \E k \in Jobs : \/ DispatchNext(k) \/ CrashDispatch(k) \/ QueueNext(k)
                             \/ CancelNext(k) \/ GrowStale(k) \/ SweepNext(k)
    BY <1>1, SettledByServices
  <1>2. CASE \E e \in Execs : ExecNext(e) \/ Progress(e) \/ Crash(e)
    BY <1>2, SettledByExec
  <1>3. ASSUME NEW e \in Execs, NEW k \in Jobs, Pick(e, k) \/ FailStalled(e, k)
        PROVE  Settled(j)'
    BY <1>3 DEF Pick, FailStalled, Take, TypeOK
  <1>4. CASE ScaleDown
    BY <1>4 DEF ScaleDown, TypeOK
  <1>5. CASE LoseRedis \/ ScaleUp \/ \E k \in Jobs : MarkRedispatched(k) \/ Redispatch(k)
    BY <1>5 DEF LoseRedis, ScaleUp, MarkRedispatched, Redispatch, execVars
  <1>6. CASE UNCHANGED vars
    BY <1>6 DEF vars, execVars
  <1> QED BY <1>1, <1>2, <1>3, <1>4, <1>5, <1>6 DEF Next, OperatorNext

\* A row that is terminal while no execution has got past its pre-read stays so,
\* whatever stale entry, cancel, sweep, re-dispatch or late callback comes; all it
\* takes is that the pre-read itself does not fail.
THEOREM SettledForGood ==
    ASSUME \A F \in Settings : "readError" \notin F
    PROVE  Spec => SettledIsFinal
  <1>1. Init => NewIsAbsent
    BY DEF Init, NewIsAbsent
  <1>2. TypeOK /\ NewIsAbsent /\ [Next]_vars => NewIsAbsent'
    BY AbsentNext
  <1>3. TypeOK /\ NewIsAbsent /\ [Next]_vars
        => [\A j \in Jobs : Settled(j) => Settled(j)']_vars
    BY SettledNext DEF TypeOK
  <1> QED BY <1>1, <1>2, <1>3, TypeCorrect, PTL DEF Spec, SettledIsFinal

-----------------------------------------------------------------------------
(* A running job holds its scope *)

\* What the next theorem assumes away of a setting F, each of which can release a
\* scope under a running processor: users' cancels, an execution that outlives its
\* lock, a Redis loss under a running API, a dispatch that fails or dies, and a
\* `failed` callback that outlasts the retry backoff.  Crashes, failing reads,
\* updates and publishes, stalls, retries and planned re-dispatches remain.
Sheltered(F) ==
    /\ ~Cancels
    /\ F \cap {"zombie", "redisLoss", "dispatchError", "dispatchCrash",
              "slowHandler"} = {}

\* An execution holds its job's lock, and the `failed` callback runs alone.
LockHolder == \A e \in Execs : pc[e] \in InProcessor => Holds(e)
HandlerAlone ==
    \A e \in Execs : pc[e] \in InHandler =>
        queue[job[e]] \in {"delayed", "failed", "none"}
ActiveRow == \A e \in Execs : pc[e] \in {"run", "finish"} => status[job[e]] = "active"

\* The sweep reaps only rows without an entry; a scaled-down API does nothing, and
\* only then does the operator re-dispatch.
ReapGone == \A j \in Jobs : swp[j] = "reap" => queue[j] = "none"
DownIsQuiet ==
    /\ api = "down" => /\ \A e \in Execs : pc[e] = "idle"
                       /\ \A j \in Jobs : swp[j] = "idle" /\ disp[j] \in {"new", "done"}
    /\ \A j \in Jobs : redisp[j] = "add" => api = "down" /\ disp[j] = "done"

\* Before its dispatch ends a job is nobody else's; after, its BullMQ id is stored.
DispatchFirst ==
    \A j \in Jobs :
        /\ canc[j] = "idle" /\ disp[j] # "fail"
        /\ disp[j] \in {"new", "add"} =>
              queue[j] = "none" /\ \A e \in Execs : job[e] # j
        /\ disp[j] = "new" <=> status[j] = "absent"
        /\ heartbeat[j] = "stale" => disp[j] = "done"
        /\ swp[j] # "idle" => disp[j] = "done"
        /\ disp[j] = "done" => bullRef[j] = "id"

LockInv ==
    /\ LockHolder /\ HandlerAlone /\ ActiveRow
    /\ ReapGone /\ DownIsQuiet /\ DispatchFirst

LEMMA LockInit == Init => LockInv
  BY DEF Init, LockInv, LockHolder, HandlerAlone, ActiveRow, ReapGone, DownIsQuiet,
     DispatchFirst, InProcessor, InHandler

LEMMA LockImplies == TypeOK /\ LockInv => RunningHoldsLock /\ ReapedIsGone
  BY DEF TypeOK, LockInv, ActiveRow, ReapGone, RunningHoldsLock, ReapedIsGone, Live,
     LiveEntry

LEMMA LockDispatch ==
    ASSUME Sheltered(faults), TypeOK, LockInv, NEW j \in Jobs,
           DispatchNext(j) \/ CrashDispatch(j)
    PROVE  LockInv'
  <1> USE DEF Sheltered, TypeOK, LockInv, LockHolder, HandlerAlone, ActiveRow,
              ReapGone, DownIsQuiet, DispatchFirst, Holds, InProcessor, InHandler
  <1>1. CASE CreateRow(j)
    BY <1>1 DEF CreateRow, entryVars, execVars, operatorVars
  <1>2. CASE AddToQueue(j)
    BY <1>2 DEF AddToQueue, Enqueue, FreshEntry, rowVars, execVars, operatorVars
  <1>3. CASE StoreReference(j)
    BY <1>3 DEF StoreReference, entryVars, execVars, operatorVars
  <1>4. ~(AddThrows(j) \/ ReferenceThrows(j) \/ FailDispatch(j) \/ CrashDispatch(j))
    BY DEF AddThrows, ReferenceThrows, FailDispatch, CrashDispatch
  <1> QED BY <1>1, <1>2, <1>3, <1>4 DEF DispatchNext

LEMMA LockQueue ==
    ASSUME Sheltered(faults), TypeOK, LockInv, NEW j \in Jobs, QueueNext(j)
    PROVE  LockInv'
  <1> USE DEF Sheltered, TypeOK, LockInv, LockHolder, HandlerAlone, ActiveRow,
              ReapGone, DownIsQuiet, DispatchFirst, Holds, InProcessor, InHandler,
              rowVars, execVars, serviceVars, operatorVars
  <1>1. CASE Promote(j)
    BY <1>1 DEF Promote, HandlerBusy
  <1>2. CASE Redeliver(j)
    BY <1>2 DEF Redeliver, LockLapsed, Unlock
  <1>3. CASE Expire(j)
    BY <1>3 DEF Expire, Dequeue, FreshEntry
  <1> QED BY <1>1, <1>2, <1>3 DEF QueueNext

LEMMA LockPick ==
    ASSUME Sheltered(faults), TypeOK, LockInv, NEW j \in Jobs, NEW e \in Execs,
           Pick(e, j) \/ FailStalled(e, j)
    PROVE  LockInv'
  <1> USE DEF Sheltered, TypeOK, LockInv, LockHolder, HandlerAlone, ActiveRow,
              ReapGone, DownIsQuiet, DispatchFirst, Holds, InProcessor, InHandler,
              rowVars, serviceVars, operatorVars, Take
  <1>1. CASE Pick(e, j)
    BY <1>1 DEF Pick
  <1>2. CASE FailStalled(e, j)
    BY <1>2 DEF FailStalled, LockLapsed, Unlock
  <1> QED BY <1>1, <1>2

LEMMA LockExec ==
    ASSUME Sheltered(faults), TypeOK, LockInv, NEW e \in Execs,
           ExecNext(e) \/ Progress(e) \/ Crash(e)
    PROVE  LockInv'
  <1> USE DEF Sheltered, TypeOK, LockInv, LockHolder, HandlerAlone, ActiveRow,
              ReapGone, DownIsQuiet, DispatchFirst, Holds, InProcessor, InHandler,
              Goto, GotoWith, Leave
  <1>1. ASSUME UNCHANGED <<status, heartbeat, bullRef, entryVars, serviceVars, operatorVars>>,
               pc[e] \in InProcessor, NEW p \in InProcessor,
               p \in {"run", "finish"} => pc[e] = "run",
               NEW out, Goto(e, p) \/ GotoWith(e, p, out)
        PROVE  LockInv'
    BY <1>1 DEF entryVars, serviceVars, operatorVars
  <1>2. ASSUME UNCHANGED <<status, heartbeat, bullRef, entryVars, serviceVars, operatorVars>>,
               Leave(e)
        PROVE  LockInv'
    BY <1>2 DEF entryVars, serviceVars, operatorVars
  \* The lock makes a context the only one to write its job's row.
  <1>3. ASSUME UNCHANGED <<bullRef, entryVars, serviceVars, operatorVars>>,
               pc[e] \in InProcessor, NEW s, s # "absent", NEW p \in InProcessor,
               p \notin {"run", "finish"} \/ (p = "run" /\ s = "active"),
               Write(job[e], s), NEW out, Goto(e, p) \/ GotoWith(e, p, out)
        PROVE  LockInv'
    <2>1. job[e] \in Jobs
      BY <1>3, BusyContext
    <2>2. \A f \in Execs \ {e} : pc[f] \in InProcessor => job[f] # job[e]
      BY <1>3
    <2> QED BY <1>3, <2>1, <2>2 DEF Write, entryVars, serviceVars, operatorVars
  <1>4. CASE ReadRow(e) \/ MarkActiveThrows(e) \/ RunProcessor(e)
    BY <1>1, <1>4 DEF ReadRow, MarkActiveThrows, RunProcessor, rowVars
  <1>5. CASE WriteOutcomeThrows(e) \/ WriteFailureThrows(e)
    BY <1>1, <1>5 DEF WriteOutcomeThrows, WriteFailureThrows, rowVars
  <1>6. CASE MarkActive(e)
    BY <1>3, <1>6 DEF MarkActive
  <1>7. CASE WriteOutcome(e)
    BY <1>3, <1>7 DEF WriteOutcome
  <1>8. CASE WriteFailure(e)
    <2>1. FailedStatus(outcome[e], xmade[e], xbudget[e]) # "absent"
      BY DEF FailedStatus
    <2> QED BY <1>3, <1>8, <2>1 DEF WriteFailure
  <1>9. CASE NackWithoutLock(e) \/ Crash(e)
    BY <1>2, <1>9 DEF NackWithoutLock, Crash, rowVars
  <1>10. CASE Ack(e)
    <2>1. job[e] \in Jobs /\ Holds(e)
      BY <1>10, BusyContext DEF Ack
    <2> QED BY <1>10, <2>1 DEF Ack, Unlock, rowVars, serviceVars, operatorVars
  <1>11. CASE Nack(e)
    <2>1. job[e] \in Jobs
      BY <1>11, BusyContext DEF Nack
    <2> QED BY <1>11, <2>1 DEF Nack, Unlock, rowVars, serviceVars, operatorVars
  <1>12. CASE HandleFailed(e)
    <2>1. CASE Goto(e, "eventWrite")
      BY <1>12, <2>1 DEF HandleFailed, rowVars, entryVars, serviceVars, operatorVars
    <2> QED BY <1>2, <1>12, <2>1 DEF HandleFailed, rowVars
  <1>13. CASE RecordDeath(e)
    <2>1. job[e] \in Jobs
      BY <1>13, BusyContext DEF RecordDeath
    <2>2. \A f \in Execs : pc[f] \in InProcessor => job[f] # job[e]
      BY <1>13 DEF RecordDeath
    <2>3. CASE Write(job[e], FailedStatus(outcome[e], xmade[e], xbudget[e]))
      <3>1. FailedStatus(outcome[e], xmade[e], xbudget[e]) # "absent"
        BY DEF FailedStatus
      <3> QED BY <1>13, <2>1, <2>2, <2>3, <3>1 DEF RecordDeath, Write, entryVars,
             serviceVars, operatorVars
    <2> QED BY <1>2, <1>13, <2>3 DEF RecordDeath
  <1>14. CASE Progress(e)
    BY <1>14 DEF Progress, entryVars, execVars, serviceVars, operatorVars
  <1> QED BY <1>4, <1>5, <1>6, <1>7, <1>8, <1>9, <1>10, <1>11, <1>12, <1>13, <1>14
         DEF ExecNext

LEMMA LockService ==
    ASSUME Sheltered(faults), TypeOK, LockInv, NEW j \in Jobs,
           CancelNext(j) \/ GrowStale(j) \/ SweepNext(j)
    PROVE  LockInv'
  <1> USE DEF Sheltered, TypeOK, LockInv, LockHolder, HandlerAlone, ActiveRow,
              ReapGone, DownIsQuiet, DispatchFirst, Holds, InProcessor, InHandler,
              rowVars, entryVars, execVars, operatorVars
  <1>1. ~CancelNext(j)
    BY DEF CancelNext, CancelRead, CancelRemove, CancelWrite
  <1>2. CASE GrowStale(j)
    <2>1. disp[j] = "done"
      BY <1>2 DEF GrowStale, DispatchInFlight, Live
    <2> QED BY <1>2, <2>1 DEF GrowStale, serviceVars
  <1>3. CASE SweepFind(j) \/ SweepCheck(j) \/ SweepSkip(j)
    BY <1>3 DEF SweepFind, SweepCheck, SweepSkip
  <1>4. CASE SweepReap(j)
    BY <1>4 DEF SweepReap, WriteIfLive, Write
  <1> QED BY <1>1, <1>2, <1>3, <1>4 DEF SweepNext

LEMMA LockOperator ==
    ASSUME Sheltered(faults), TypeOK, LockInv, OperatorNext
    PROVE  LockInv'
  <1> USE DEF Sheltered, TypeOK, LockInv, LockHolder, HandlerAlone, ActiveRow,
              ReapGone, DownIsQuiet, DispatchFirst, Holds, InProcessor, InHandler,
              rowVars, execVars, serviceVars
  <1>1. CASE ScaleDown
    BY <1>1 DEF ScaleDown, entryVars, DispatchInFlight
  <1>2. CASE LoseRedis
    BY <1>2 DEF LoseRedis
  <1>3. CASE ScaleUp
    BY <1>3 DEF ScaleUp, entryVars
  <1>4. ASSUME NEW j \in Jobs, MarkRedispatched(j) PROVE LockInv'
    BY <1>4 DEF MarkRedispatched, Dequeue, FreshEntry, Live
  <1>5. ASSUME NEW j \in Jobs, Redispatch(j) PROVE LockInv'
    BY <1>5 DEF Redispatch, Enqueue, FreshEntry
  <1> QED BY <1>1, <1>2, <1>3, <1>4, <1>5 DEF OperatorNext

LEMMA LockNext ==
    ASSUME Sheltered(faults), TypeOK, LockInv, [Next]_vars
    PROVE  LockInv'
  <1>1. CASE UNCHANGED vars
    BY <1>1 DEF LockInv, LockHolder, HandlerAlone, ActiveRow, ReapGone, DownIsQuiet,
       DispatchFirst, Holds, vars, rowVars, entryVars, execVars, serviceVars,
       operatorVars
  <1>2. CASE \E j \in Jobs : DispatchNext(j) \/ CrashDispatch(j)
    BY <1>2, LockDispatch
  <1>3. CASE \E j \in Jobs : CancelNext(j) \/ GrowStale(j) \/ SweepNext(j)
    BY <1>3, LockService
  <1>4. CASE \E e \in Execs : ExecNext(e) \/ Progress(e) \/ Crash(e)
    BY <1>4, LockExec
  <1>5. CASE \E e \in Execs, j \in Jobs : Pick(e, j) \/ FailStalled(e, j)
    BY <1>5, LockPick
  <1>6. CASE \E j \in Jobs : QueueNext(j)
    BY <1>6, LockQueue
  <1> QED BY <1>1, <1>2, <1>3, <1>4, <1>5, <1>6, LockOperator DEF Next

LEMMA LockStays ==
    ASSUME \A F \in Settings : Sheltered(F)
    PROVE  Spec => [](RunningHoldsLock /\ ReapedIsGone)
  <1>1. TypeOK /\ LockInv /\ [Next]_vars => LockInv'
    BY LockNext DEF TypeOK
  <1> QED BY LockInit, <1>1, LockImplies, TypeCorrect, PTL DEF Spec

\* As long as nobody cancels and no dispatch or lock is lost, a processor runs
\* only under a live row, so the scopes its job locked stay locked until it is
\* done.
THEOREM RunningAlwaysHoldsLock ==
    ASSUME \A F \in Settings : Sheltered(F)
    PROVE  Spec => []RunningHoldsLock
  BY LockStays, PTL

\* In the same conditions the sweep never fails a job that is still to run: a row
\* about to be reaped has no entry left in the queue.
THEOREM ReapedAlwaysGone ==
    ASSUME \A F \in Settings : Sheltered(F)
    PROVE  Spec => []ReapedIsGone
  BY LockStays, PTL
=============================================================================
