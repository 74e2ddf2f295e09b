----------------------------- MODULE AdmissionGate -----------------------------
(***************************************************************************)
(* The admission gate (admission-gate.util.ts, #698): at most Concurrency  *)
(* callers run at once, at most PerKeyLimit of them for one key (an        *)
(* organization), at most MaxQueue wait, first come first served but for   *)
(* the keys at their limit.  The gate is one process's memory, and a call  *)
(* runs without an await up to its admission or its place in the queue, so *)
(* every method is one step.                                               *)
(***************************************************************************)
EXTENDS Naturals, Sequences, SequencesExt, FiniteSets

CONSTANTS
    Callers,       \* callers at once
    GateKeys,      \* what they share slots by
    KeyOf,         \* the key of each caller
    Concurrency,   \* opts.concurrency (3 for the lock gate)
    PerKeyLimit,   \* opts.perKeyLimit (2)
    MaxQueue       \* opts.maxQueue (50)

ASSUME GateAssumption ==
    /\ KeyOf \in [Callers -> GateKeys]
    /\ Concurrency \in Nat \ {0}
    /\ PerKeyLimit \in Nat \ {0}
    /\ MaxQueue \in Nat

VARIABLES
    active,        \* this.active
    activeByKey,   \* this.activeByKey; 0 where the map has no entry
    queue,         \* this.queue, in order of arrival
    gate           \* where each caller is: outside, waiting, or running its fn

gateVars == <<active, activeByKey, queue, gate>>

GateInit ==
    /\ active = 0
    /\ activeByKey = [k \in GateKeys |-> 0]
    /\ queue = <<>>
    /\ gate = [c \in Callers |-> "out"]

-----------------------------------------------------------------------------

CanAdmit(k) == active < Concurrency /\ activeByKey[k] < PerKeyLimit

\* run: straight in, ...
Admit(c) ==
    /\ gate[c] = "out" /\ CanAdmit(KeyOf[c])
    /\ active' = active + 1
    /\ activeByKey' = [activeByKey EXCEPT ![KeyOf[c]] = @ + 1]
    /\ gate' = [gate EXCEPT ![c] = "in"]
    /\ UNCHANGED queue

\* ... or into the queue while it has room (otherwise queue_full is thrown and
\* nothing changes).
Wait(c) ==
    /\ gate[c] = "out" /\ ~CanAdmit(KeyOf[c]) /\ Len(queue) < MaxQueue
    /\ queue' = Append(queue, c)
    /\ gate' = [gate EXCEPT ![c] = "queued"]
    /\ UNCHANGED <<active, activeByKey>>

\* Mutant: a rejected waiter stays in the queue.
MutantReject(c) ==
    /\ gate[c] = "queued"
    /\ gate' = [gate EXCEPT ![c] = "out"]
    /\ UNCHANGED <<active, activeByKey, queue>>

\* maxWaitMs passes or the caller's signal aborts: out of the queue.  Aborting a
\* holder does nothing.
Reject(c) ==
    /\ gate[c] = "queued"
    /\ \E i \in DOMAIN queue : queue[i] = c /\ queue' = RemoveAt(queue, i)
    /\ gate' = [gate EXCEPT ![c] = "out"]
    /\ UNCHANGED <<active, activeByKey>>

\* Mutant: an admitted waiter is not counted under its key.
MutantDrainOne(g, c) ==
    IF g.active < Concurrency /\ g.byKey[KeyOf[c]] < PerKeyLimit
    THEN [g EXCEPT !.active = @ + 1, !.admitted = @ \cup {c}]
    ELSE [g EXCEPT !.waiting = Append(@, c)]

\* One round of drain's loop: c is admitted and spliced out, or stays.  g holds the
\* counts, who was admitted and who was left waiting so far.
DrainOne(g, c) ==
    IF g.active < Concurrency /\ g.byKey[KeyOf[c]] < PerKeyLimit
    THEN [active |-> g.active + 1,
          byKey |-> [g.byKey EXCEPT ![KeyOf[c]] = @ + 1],
          admitted |-> g.admitted \cup {c},
          waiting |-> g.waiting]
    ELSE [g EXCEPT !.waiting = Append(@, c)]

\* Mutants: only the head of the queue is looked at; the last to come is first.
MutantDrainHead(freed) ==
    IF queue = <<>> THEN freed
    ELSE LET g == DrainOne(freed, Head(queue))
         IN  [g EXCEPT !.waiting = @ \o Tail(queue)]

MutantDrainBack(freed) ==
    LET g == FoldLeft(DrainOne, freed, Reverse(queue))
    IN  [g EXCEPT !.waiting = Reverse(@)]

\* drain goes through the queue in order, past the waiters it cannot admit.
Drain(freed) ==
    LET after[i \in 0..Len(queue)] ==
            IF i = 0 THEN freed ELSE DrainOne(after[i - 1], queue[i])
    IN  after[Len(queue)]

\* Mutant: the slot is freed and the queue left alone.
MutantRelease(c) ==
    /\ gate[c] = "in"
    /\ active' = active - 1
    /\ activeByKey' = [activeByKey EXCEPT ![KeyOf[c]] = @ - 1]
    /\ gate' = [gate EXCEPT ![c] = "out"]
    /\ UNCHANGED queue

\* fn settles: its slot is free, and drain admits whom it can.
Release(c) ==
    LET freed == [active |-> active - 1,
                  byKey |-> [activeByKey EXCEPT ![KeyOf[c]] = @ - 1],
                  admitted |-> {},
                  waiting |-> <<>>]
        g == Drain(freed)
    IN  /\ gate[c] = "in"
        /\ active' = g.active
        /\ activeByKey' = g.byKey
        /\ queue' = g.waiting
        /\ gate' = [d \in Callers |->
                        IF d = c THEN "out"
                        ELSE IF d \in g.admitted THEN "in" ELSE gate[d]]

GateNext == \E c \in Callers : Admit(c) \/ Wait(c) \/ Reject(c) \/ Release(c)

\* The work of a holder ends; nobody is sure to time out.
GateSpec ==
    GateInit /\ [][GateNext]_gateVars /\ \A c \in Callers : WF_gateVars(Release(c))

-----------------------------------------------------------------------------
(* Properties *)

Holders == {c \in Callers : gate[c] = "in"}

\* Type invariant; the queue holds each waiting caller once and nobody else.
GateTypeOK ==
    /\ active \in 0..Concurrency
    /\ activeByKey \in [GateKeys -> 0..PerKeyLimit]
    /\ gate \in [Callers -> {"out", "queued", "in"}]
    /\ queue \in Seq(Callers) /\ Len(queue) <= MaxQueue
    /\ IsInjective(queue)
    /\ ToSet(queue) = {c \in Callers : gate[c] = "queued"}

\* The counters count: no slot leaks or is given twice, through any sequence of
\* admissions, timeouts, aborts and releases.
SlotsCounted ==
    /\ active = Cardinality(Holders)
    /\ \A k \in GateKeys :
          activeByKey[k] = Cardinality({c \in Holders : KeyOf[c] = k})

\* No lost wake-up: whenever the gate is at rest, no waiter could be admitted.  A
\* slot freed while the head of the queue is capped by its key has gone to the
\* next waiter (drain, admission-gate.util.ts:109).
NoIdleSlot == \A i \in DOMAIN queue : ~CanAdmit(KeyOf[queue[i]])

\* Within a key nobody overtakes: a caller that gets in leaves no earlier waiter of
\* its key behind, whether it waited too or just arrived.
NoOvertaking ==
    [][\A c \in Callers : gate[c] # "in" /\ gate'[c] = "in" =>
          \A i \in DOMAIN queue :
             /\ KeyOf[queue[i]] = KeyOf[c]
             /\ \A h \in DOMAIN queue : queue[h] = c => i < h
             => gate'[queue[i]] # "queued"]_gateVars

\* Every waiter is admitted or gives up, whatever keys the others have: nobody waits
\* forever behind a capped key or behind callers of its own.
NobodyStarves == \A c \in Callers : gate[c] = "queued" ~> gate[c] # "queued"
=============================================================================
