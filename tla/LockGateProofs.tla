----------------------------- MODULE LockGateProofs -----------------------------
(***************************************************************************)
(* For any tools, organizations, limits and keys: under the lock gate the  *)
(* job lock is the job lock still, and the agent's tool calls use no more  *)
(* connections than the gate's limits allow.  The gate's own invariant     *)
(* comes from AdmissionGateProofs, with the tool calls for its callers.    *)
(***************************************************************************)
EXTENDS LockGate, JobLockProofs, FiniteSetTheorems

Gate == INSTANCE AdmissionGateProofs WITH Callers <- Tools

\* A tool call's transaction is open only while the call has its slot.
ToolsSeated == \A t \in Tools : pc[t] # "idle" => gate[t] = "in"

LockGateInv == LockInv /\ Gate!GateInv /\ ToolsSeated

-----------------------------------------------------------------------------
(* Each step is one of the lock's, of the gate's, or of both. *)

LEMMA StepOfLock ==
    ASSUME [LockGateNext]_lockGateVars
    PROVE  [LockNext]_lockVars
<1>1. CASE UNCHANGED lockGateVars
  BY <1>1 DEF lockGateVars
<1>2. ASSUME NEW t \in Tools, CallTool(t) \/ Busy(t) PROVE UNCHANGED lockVars
  BY <1>2 DEF CallTool, Busy
<1>3. ASSUME NEW t \in Txns, Open(t) \/ Step(t) \/ Finish(t) PROVE LockNext
  BY <1>3 DEF Open, Step, Finish, LockNext
<1>4. ASSUME NEW j \in Jobs, JobMoves(j) PROVE LockNext
  BY <1>4 DEF JobMoves, LockNext
<1> QED BY <1>1, <1>2, <1>3, <1>4 DEF LockGateNext

LEMMA StepOfGate ==
    ASSUME [LockGateNext]_lockGateVars
    PROVE  [Gate!GateNext]_Gate!gateVars
<1> USE DEF gateState, Gate!gateVars
<1>1. CASE UNCHANGED lockGateVars
  BY <1>1 DEF lockGateVars
<1>2. ASSUME NEW t \in Tools, CallTool(t) \/ Busy(t) PROVE Gate!GateNext
  <2>1. Admit(t) \/ Wait(t) \/ Reject(t)
    BY <1>2 DEF CallTool, Busy
  <2>2. Gate!Admit(t) \/ Gate!Wait(t) \/ Gate!Reject(t)
    BY <2>1 DEF Admit, Wait, Reject, CanAdmit, Gate!Admit, Gate!Wait, Gate!Reject,
       RemoveAt, Gate!RemoveAt,
       Gate!CanAdmit
  <2> QED BY <2>2 DEF Gate!GateNext
<1>3. ASSUME NEW t \in Txns, Open(t) \/ Step(t) PROVE UNCHANGED gateState
  BY <1>3 DEF Open, Step
<1>4. ASSUME NEW t \in Txns, Finish(t) PROVE [Gate!GateNext]_gateState
  <2>1. CASE t \in Tools
    <3>1. Gate!Release(t)
      BY <1>4, <2>1 DEF Finish, Release, Drain, DrainOne, Gate!Release, Gate!Drain,
         Gate!DrainOne
    <3> QED BY <2>1, <3>1 DEF Gate!GateNext
  <2>2. CASE t \notin Tools
    BY <1>4, <2>2 DEF Finish
  <2> QED BY <2>1, <2>2
<1>5. ASSUME NEW j \in Jobs, JobMoves(j) PROVE UNCHANGED gateState
  BY <1>5 DEF JobMoves
<1> QED BY <1>1, <1>2, <1>3, <1>4, <1>5 DEF LockGateNext

-----------------------------------------------------------------------------
(* The invariant holds at first and is kept. *)

LEMMA LockGateStarts == LockGateInit => LockGateInv
<1> SUFFICES ASSUME LockGateInit PROVE LockGateInv
  OBVIOUS
<1>1. LockInv
  BY LockInit_Inv DEF LockGateInit
<1>2. Gate!GateInit
  BY DEF LockGateInit, GateInit, Gate!GateInit
<1>3. Gate!GateInv
  BY <1>2, LockGateAssumption, Gate!GateStarts
<1>4. ToolsSeated
  BY LockAssumption DEF LockGateInit, LockInit, ToolsSeated
<1> QED BY <1>1, <1>3, <1>4 DEF LockGateInv

LEMMA SeatedKept ==
    ASSUME LockGateInv, [LockGateNext]_lockGateVars
    PROVE  ToolsSeated'
<1>1. /\ pc \in [Txns -> TxnStates] /\ Tools \subseteq Txns
      /\ gate \in [Tools -> {"out", "queued", "in"}]
      /\ ToolsSeated
  BY LockAssumption DEF LockGateInv, LockInv, LockTypeOK, Gate!GateInv, Gate!GateTypeOK
<1>2. CASE UNCHANGED <<pc, gate>>
  BY <1>1, <1>2 DEF ToolsSeated
<1>3. ASSUME NEW t \in Tools, CallTool(t) \/ Busy(t) PROVE ToolsSeated'
  <2>1. /\ pc' = pc /\ gate[t] # "in"
        /\ \E s : gate' = [gate EXCEPT ![t] = s]
    BY <1>3 DEF CallTool, Busy, Admit, Wait, Reject, lockVars, txnVars
  <2> QED BY <1>1, <2>1 DEF ToolsSeated
<1>4. ASSUME NEW t \in Txns, Open(t) PROVE ToolsSeated'
  <2>1. /\ t \in Tools => gate[t] = "in"
        /\ pc' = [pc EXCEPT ![t] = "resolve"] /\ gate' = gate
    BY <1>4 DEF Open, Begin, gateState
  <2> QED BY <1>1, <2>1 DEF ToolsSeated
<1>5. ASSUME NEW t \in Txns, Step(t) PROVE ToolsSeated'
  <2>1. /\ pc[t] # "idle" /\ gate' = gate
        /\ \E s : pc' = [pc EXCEPT ![t] = s]
    BY <1>5 DEF Step, TxnStep, Resolve, RequestLock, Grant, CheckClear, ToolQuery,
       ToolReturns, gateState
  <2> QED BY <1>1, <2>1 DEF ToolsSeated
<1>6. ASSUME NEW t \in Txns, Finish(t) PROVE ToolsSeated'
  <2>1. pc' = [pc EXCEPT ![t] = "idle"]
    BY <1>6 DEF Finish, TxnEnd, CheckRefuse, Commit, Rollback, ToolEnds, End
  <2>2. \A d \in Tools \ {t} : gate[d] = "in" => gate'[d] = "in"
    <3>1. CASE t \in Tools
      <4>1. \E a : gate' = [d \in Tools |-> IF d = t THEN "out"
                                            ELSE IF d \in a THEN "in" ELSE gate[d]]
        BY <1>6, <3>1 DEF Finish, Release
      <4> QED BY <4>1
    <3>2. CASE t \notin Tools
      BY <1>6, <3>2 DEF Finish, gateState
    <3> QED BY <3>1, <3>2
  <2> QED BY <1>1, <2>1, <2>2 DEF ToolsSeated
<1>7. ASSUME NEW j \in Jobs, JobMoves(j) PROVE ToolsSeated'
  BY <1>2, <1>7 DEF JobMoves, JobStep, EndJob, Supersede, Revive, Abandon, txnVars, gateState
<1> QED BY <1>2, <1>3, <1>4, <1>5, <1>6, <1>7 DEF LockGateNext, lockGateVars, lockVars, txnVars, gateState

LEMMA LockGateKept == LockGateInv /\ [LockGateNext]_lockGateVars => LockGateInv'
<1> SUFFICES ASSUME LockGateInv, [LockGateNext]_lockGateVars
             PROVE  LockGateInv'
  OBVIOUS
<1>1. LockInv'
  BY StepOfLock, LockNext_Inv DEF LockGateInv
<1>2. Gate!GateInv'
  BY StepOfGate, LockGateAssumption, Gate!GateKept DEF LockGateInv
<1> QED BY <1>1, <1>2, SeatedKept DEF LockGateInv

LEMMA LockGateInvariant == LockGateSpec => []LockGateInv
BY LockGateStarts, LockGateKept, PTL DEF LockGateSpec

\* Finite sets are the same on both sides of the instance.
LEMMA SameCounts ==
    ASSUME NEW S
    PROVE  /\ Gate!IsFiniteSet(S) <=> IsFiniteSet(S)
           /\ Gate!Cardinality(S) = Cardinality(S)
<1>1. Gate!IsFiniteSet(S) <=> IsFiniteSet(S)
  BY DEF IsFiniteSet, Gate!IsFiniteSet
<1>2. Gate!Cardinality(S) = Cardinality(S)
  BY DEF Cardinality, Gate!Cardinality
<1> QED BY <1>1, <1>2

\* Each open tool transaction is one of the holders the gate counts, and is one or
\* two connections.
LEMMA Bounded == LockGateInv => ToolsBounded
<1> SUFFICES ASSUME LockGateInv PROVE ToolsBounded
  OBVIOUS
<1> DEFINE H == Gate!Holders
<1>0. /\ active \in 0..Concurrency /\ activeByKey \in [GateKeys -> 0..PerKeyLimit]
      /\ IsFiniteSet(H) /\ active = Cardinality(H)
      /\ \A k \in GateKeys : activeByKey[k] = Cardinality({c \in H : KeyOf[c] = k})
  BY SameCounts DEF LockGateInv, Gate!GateInv, Gate!GateTypeOK, Gate!SlotsCounted
<1>1. /\ IsFiniteSet(H) /\ Cardinality(H) <= Concurrency
      /\ H = {c \in Tools : gate[c] = "in"}
  BY <1>0, LockGateAssumption DEF Gate!Holders
<1> HIDE DEF H
<1>2. \A k \in GateKeys : Cardinality({c \in H : KeyOf[c] = k}) <= PerKeyLimit
  BY <1>0, LockGateAssumption
<1>3. ASSUME NEW T \in SUBSET Tools, NEW S \in SUBSET H, NEW n \in Nat,
             {t \in T : pc[t] # "idle"} \subseteq S, Cardinality(S) <= n
      PROVE  ConnectionsOf(T) <= 2 * n
  <2> DEFINE Opened == {t \in T : pc[t] # "idle"}
             Querying == {t \in T : pc[t] = "query"}
  <2>1. IsFiniteSet(S) /\ Cardinality(S) \in Nat
    BY <1>1, FS_Subset, FS_CardinalityType
  <2>2. Opened \subseteq S /\ Querying \subseteq S
    BY <1>3
  <2>3. /\ Cardinality(Opened) \in Nat /\ Cardinality(Opened) <= Cardinality(S)
        /\ Cardinality(Querying) \in Nat /\ Cardinality(Querying) <= Cardinality(S)
    BY <2>1, <2>2, FS_Subset, FS_CardinalityType
  <2>4. ConnectionsOf(T) = Cardinality(Opened) + Cardinality(Querying)
    BY DEF ConnectionsOf
  <2> HIDE DEF Opened, Querying
  <2> QED BY <1>3, <2>1, <2>3, <2>4
<1>4. \A t \in Tools : pc[t] # "idle" => gate[t] = "in"
  BY DEF LockGateInv, ToolsSeated
<1>5. ConnectionsOf(Tools) <= 2 * Concurrency
  <2>1. {t \in Tools : pc[t] # "idle"} \subseteq H
    BY <1>1, <1>4
  <2> QED BY <1>1, <1>3, <2>1, LockGateAssumption
<1>6. ASSUME NEW k \in GateKeys
      PROVE  ConnectionsOf({t \in Tools : KeyOf[t] = k}) <= 2 * PerKeyLimit
  <2> DEFINE T == {t \in Tools : KeyOf[t] = k}
             S == {c \in H : KeyOf[c] = k}
  <2>1. {t \in T : pc[t] # "idle"} \subseteq S
    BY <1>1, <1>4
  <2>2. T \in SUBSET Tools /\ S \in SUBSET H /\ Cardinality(S) <= PerKeyLimit
    BY <1>2
  <2> HIDE DEF T, S
  <2>3. ConnectionsOf(T) <= 2 * PerKeyLimit
    BY <1>3, <2>1, <2>2, LockGateAssumption
  <2> QED BY <2>3 DEF T
<1> QED BY <1>4, <1>5, <1>6 DEF ToolsBounded

-----------------------------------------------------------------------------
(* The theorems. *)

\* The gate only delays: what goes on under it is a behaviour of the job lock, so
\* that every safety theorem about the lock holds of the tool calls too.
THEOREM LockUnderGate == LockGateSpec => LockSpec
BY StepOfLock, PTL DEF LockGateSpec, LockGateInit, LockSpec

\* The lock's types hold with tool calls, job starts and routes side by side.
THEOREM LockGateTypesHold == LockGateSpec => []LockTypeOK
BY LockUnderGate, LockTypesHold, PTL

\* However the tools and the gate's callers interleave, time out or fail, a tool call
\* holds connections only with its slot, and the calls together at most twice the
\* gate's limits.
THEOREM ToolConnectionsBounded == LockGateSpec => []ToolsBounded
BY LockGateInvariant, Bounded, PTL
=============================================================================
