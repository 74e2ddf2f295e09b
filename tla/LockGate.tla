-------------------------------- MODULE LockGate --------------------------------
(***************************************************************************)
(* Agent tool calls under the lock gate (lock-gate.service.ts, #769),      *)
(* beside the route writes and job starts of JobLock.  A call that names a *)
(* write target passes LOCK_GATE_ADMISSION before it opens the withUnlocked *)
(* transaction, and keeps its slot until that transaction is over.         *)
(***************************************************************************)
EXTENDS JobLock

CONSTANTS GateKeys, KeyOf, Concurrency, PerKeyLimit, MaxQueue

VARIABLES active, activeByKey, queue, gate

INSTANCE AdmissionGate WITH Callers <- Tools

ASSUME LockGateAssumption ==
    /\ KeyOf \in [Tools -> GateKeys]
    /\ Concurrency \in Nat \ {0}
    /\ PerKeyLimit \in Nat \ {0}
    /\ MaxQueue \in Nat

gateState == <<active, activeByKey, queue, gate>>
lockGateVars == <<lockVars, gateState>>

LockGateInit == LockInit /\ GateInit

-----------------------------------------------------------------------------

\* wrapWithLockGate calls LOCK_GATE_ADMISSION.run.
CallTool(t) == (Admit(t) \/ Wait(t)) /\ UNCHANGED lockVars

\* Mutant: the 30 seconds count for a call that was let in, too.
MutantBusy(t) == (Reject(t) \/ Release(t)) /\ UNCHANGED lockVars

\* The call comes back as TOOL_WRITE_BUSY.
Busy(t) == Reject(t) /\ UNCHANGED lockVars

\* Routes and job starts open their transaction at once, a tool once admitted.
Open(t) ==
    /\ t \in Tools => gate[t] = "in"
    /\ \E r \in RequestsOf[t] : Begin(t, r)
    /\ UNCHANGED gateState

Step(t) == TxnStep(t) /\ UNCHANGED gateState

\* withUnlocked settles, and the finally of run gives the slot back.
Finish(t) ==
    /\ TxnEnd(t)
    /\ IF t \in Tools THEN Release(t) ELSE UNCHANGED gateState

JobMoves(j) == JobStep(j) /\ UNCHANGED gateState

LockGateNext ==
    \/ \E t \in Tools : CallTool(t) \/ Busy(t)
    \/ \E t \in Txns : Open(t) \/ Step(t) \/ Finish(t)
    \/ \E j \in Jobs : JobMoves(j)

LockGateSpec == LockGateInit /\ [][LockGateNext]_lockGateVars

\* The connections that the tool calls in T use: one for the locks, one for the
\* writing.
ConnectionsOf(T) ==
    Cardinality({t \in T : pc[t] # "idle"}) + Cardinality({t \in T : pc[t] = "query"})

\* Whatever the tools and the gate's callers do, a tool call holds a connection only
\* while it has its slot, and so the calls together, and those of one organization,
\* use at most twice the connections of their limit: the routes, the job starts and
\* the workers that share the pool keep the rest (lock-gate.service.ts:37).
ToolsBounded ==
    /\ \A t \in Tools : pc[t] # "idle" => gate[t] = "in"
    /\ ConnectionsOf(Tools) <= 2 * Concurrency
    /\ \A k \in GateKeys :
          ConnectionsOf({t \in Tools : KeyOf[t] = k}) <= 2 * PerKeyLimit

-----------------------------------------------------------------------------
(* Fairness: PostgreSQL and the API's event loop run, a write or a tool returns  *)
(* once it has its connections, and the pool serves waiting callers in order, so *)
(* a caller is not passed over forever (strong fairness of the two steps that    *)
(* take a connection).  Nothing obliges anybody to open a transaction, or a      *)
(* waiting call to give up.                                                      *)

FairLockGateSpec ==
    /\ LockGateSpec
    /\ \A t \in Txns : WF_lockGateVars(Step(t) \/ Finish(t))
    /\ \A t \in Tools :
          /\ SF_lockGateVars(Open(t))
          /\ SF_lockGateVars(ToolQuery(t) /\ UNCHANGED gateState)

\* Every transaction, and every tool call the gate let in or made wait, ends: no
\* two lockers wait for each other's keys (lockKeys sorts them), no waiter of a key
\* is overtaken for ever, and a tool that holds a connection for its locks gets the
\* one it writes over (lock-gate.service.ts:39, job-lock.service.ts:165).
EveryCallEnds ==
    /\ \A t \in Txns : pc[t] # "idle" ~> pc[t] = "idle"
    /\ \A t \in Tools : gate[t] # "out" ~> gate[t] = "out"
=============================================================================
