------------------------------- MODULE CostGate -------------------------------
(***************************************************************************)
(* What a tool call costs an organization (cost-gate.service.ts, #169,     *)
(* #179, #183): admission against the tier's allocation, the work, and the *)
(* charge after it, one transaction over the period's balance (usage) and  *)
(* the itemized ledger (tool_usage_ledger).  A direct call is charged by   *)
(* the wrap around the tool; a deferred one (bulk_transform, bulk_geocode) *)
(* by its job's processor, which the queue may run again, or twice at once *)
(* after a stall (module JobLifecycle).                                    *)
(*                                                                         *)
(* One organization and one cost class: balances of others are other rows. *)
(* The per-minute window is shared with calls outside the model, so a      *)
(* refusal by it is a choice.  The unlimited class (a null allocation),    *)
(* which no charge is refused for, is left out.  The tier's definition is  *)
(* taken as it stands; what changes is the organization's tier.            *)
(***************************************************************************)
EXTENDS Naturals, FiniteSets, FiniteSetsExt

CONSTANTS
    Calls,       \* tool calls; a call is its toolCallId, or job:<jobId>
    Deferred,    \* those with deferChargeToJob
    Geocoders,   \* bulk_geocode jobs among them, all over the same addresses
    Cost,        \* resolveCallCost of each call; 0 for a free or org-paid tool
    Addresses,   \* number of addresses a geocoding job goes through
    MaxRuns,     \* bound: runs of each job's processor; 1 for a direct call
    MaxPeriod,   \* bound: billing periods
    Plans        \* allocations (unitsPerPeriod) the tier may have

ASSUME CostAssumption ==
    /\ IsFiniteSet(Calls)
    /\ Geocoders \subseteq Deferred /\ Deferred \subseteq Calls
    /\ Cost \in [Calls -> Nat]
    /\ Addresses \in Nat
    /\ MaxRuns \in [Calls -> Nat \ {0}] /\ \A c \in Calls \ Deferred : MaxRuns[c] = 1
    /\ MaxPeriod \in Nat \ {0}
    /\ Plans \subseteq Nat /\ Plans # {}

Periods == 1..MaxPeriod
Runs(c) == 1..MaxRuns[c]
Processes == UNION {{c} \X Runs(c) : c \in Calls}   \* a call and one of its runs
NoRow == [units |-> 0, period |-> 0]

VARIABLES
    period,    \* the billing period containing now
    plan,      \* the organization's allocation now
    used,      \* usage.unitsUsed, by period
    ledger,    \* the tool_usage_ledger row of each call, or NoRow
    verdict,   \* how far admission has got with each call
    run,       \* each run: where it is, its next address, the units it counted,
               \* and the period and allocation its commit resolved
    settled,   \* deferred calls whose job has been recorded as over
    cache,     \* addresses in the geocode cache
    answers    \* successful answers of the provider, each of which it bills

costVars == <<period, plan, used, ledger, verdict, run, settled, cache, answers>>

\* A call or a run that holds nothing it has read or counted.
Pending(v) == [at |-> v, bill |-> 1, cap |-> 0]
Fresh(s) == [at |-> s, next |-> 1, units |-> 0, bill |-> 1, cap |-> 0]

CostInit ==
    /\ period = 1 /\ plan \in Plans
    /\ used = [p \in Periods |-> 0]
    /\ ledger = [c \in Calls |-> NoRow]
    /\ verdict = [c \in Calls |-> Pending("new")]
    /\ run = [q \in Processes |-> Fresh("idle")]
    /\ settled = {} /\ cache = {} /\ answers = 0

-----------------------------------------------------------------------------
(* Admission (checkAdmission): nothing is reserved by it. *)

admissionUnchanged == UNCHANGED <<period, plan, used, ledger, run, settled, cache, answers>>

Decide(c, v) == verdict' = [verdict EXCEPT ![c] = Pending(v)] /\ admissionUnchanged

\* Free and organization-paid tools, and a resolver that finds nothing to pay (an
\* address in the cache); the deferred tools register none.
Immune(c) ==
    verdict[c].at = "new" /\ (Cost[c] = 0 \/ c \notin Deferred) /\ Decide(c, "uncharged")

\* The organization and its policy are read at the call's own now, and the
\* window counts the call (or Redis is out, and the count is skipped).
PassRate(c) ==
    /\ verdict[c].at = "new" /\ Cost[c] > 0
    /\ verdict' = [verdict EXCEPT ![c] = [at |-> "rated", bill |-> period, cap |-> plan]]
    /\ admissionUnchanged

OverRate(c) == verdict[c].at = "new" /\ Cost[c] > 0 /\ Decide(c, "denied")

\* A database error anywhere: allowed, with no charge to commit.
AdmissionFails(c) ==
    verdict[c].at \in {"new", "rated"} /\ Cost[c] > 0 /\ Decide(c, "uncharged")

\* getBalance, read later than the policy: available is never negative.
CheckBalance(c) ==
    /\ verdict[c].at = "rated"
    /\ LET v == verdict[c]
       IN  Decide(c, IF used[v.bill] + Cost[c] > v.cap THEN "denied" ELSE "charged")

-----------------------------------------------------------------------------
(* The work: the tool itself, or the job it enqueued. *)

workUnchanged == UNCHANGED <<period, plan, used, ledger, verdict, settled>>

Admitted(c) == verdict[c].at \in {"charged", "uncharged"}

\* The wrap calls the tool once; the queue runs a job until it is recorded as
\* over, again after a failure and also while a stalled run still goes on.
StartRun(q) ==
    /\ Admitted(q[1]) /\ run[q].at = "idle"
    /\ q[2] > 1 => q[1] \notin settled /\ run[<<q[1], q[2] - 1>>].at # "idle"
    /\ run' = [run EXCEPT ![q].at = "working"]
    /\ workUnchanged /\ UNCHANGED <<cache, answers>>

\* A tool or a transform returns.  A call admitted with a null charge commits
\* none; a job's processor commits whatever admission said.
Return(q) ==
    /\ run[q].at = "working" /\ q[1] \notin Geocoders
    /\ run' = [run EXCEPT
         ![q].at = IF q[1] \in Deferred \/ verdict[q[1]].at = "charged" THEN "commit" ELSE "over",
         ![q].units = Cost[q[1]]]
    /\ workUnchanged /\ UNCHANGED <<cache, answers>>

\* Mutant: a cache hit counts as geocoded.
MutantLookUp(q) ==
    /\ run[q].at = "working" /\ q[1] \in Geocoders /\ run[q].next <= Addresses
    /\ run' = IF run[q].next \in cache
              THEN [run EXCEPT ![q].next = @ + 1, ![q].units = @ + 1]
              ELSE [run EXCEPT ![q].at = "asking"]
    /\ workUnchanged /\ UNCHANGED <<cache, answers>>

\* Mutant: the loop goes one row too far.
MutantLookUpPast(q) ==
    /\ run[q].at = "working" /\ q[1] \in Geocoders /\ run[q].next <= Addresses + 1
    /\ run' = IF run[q].next \in cache
              THEN [run EXCEPT ![q].next = @ + 1]
              ELSE [run EXCEPT ![q].at = "asking"]
    /\ workUnchanged /\ UNCHANGED <<cache, answers>>

\* runBulkGeocode's loop: the cache first, the provider where it misses.
LookUp(q) ==
    /\ run[q].at = "working" /\ q[1] \in Geocoders /\ run[q].next <= Addresses
    /\ run' = IF run[q].next \in cache
              THEN [run EXCEPT ![q].next = @ + 1]
              ELSE [run EXCEPT ![q].at = "asking"]
    /\ workUnchanged /\ UNCHANGED <<cache, answers>>

\* No address in the row, the cache cannot be read, or the provider fails: the
\* row is counted as failed and the loop goes on.
RowFails(q) ==
    /\ q[1] \in Geocoders /\ run[q].at \in {"working", "asking"} /\ run[q].next <= Addresses
    /\ run' = [run EXCEPT ![q].at = "working", ![q].next = @ + 1]
    /\ workUnchanged /\ UNCHANGED <<cache, answers>>

\* The provider answers; the row is counted once the answer is cached, whether
\* or not the geometry can be written after it.
Answer(q) ==
    /\ run[q].at = "asking"
    /\ answers' = answers + 1
    /\ \/ /\ cache' = cache \cup {run[q].next}
          /\ run' = [run EXCEPT ![q].at = "working", ![q].next = @ + 1,
                                ![q].units = @ + 1]
       \/ /\ run' = [run EXCEPT ![q].at = "working", ![q].next = @ + 1]
          /\ UNCHANGED cache
    /\ workUnchanged

LoopEnds(q) ==
    /\ run[q].at = "working" /\ q[1] \in Geocoders /\ run[q].next > Addresses
    /\ run' = [run EXCEPT ![q].at = "commit", ![q].next = 1]
    /\ workUnchanged /\ UNCHANGED <<cache, answers>>

\* The tool or the job throws, or its process dies before the charge.
RunFails(q) ==
    /\ run[q].at \in {"working", "asking", "commit", "priced"}
    /\ run' = [run EXCEPT ![q] = Fresh("failed")]
    /\ workUnchanged /\ UNCHANGED <<cache, answers>>

-----------------------------------------------------------------------------
(* The charge (commitCharge). *)

\* The policy and the period are resolved again, at the end of the work.
Price(q) ==
    /\ run[q].at = "commit" /\ run[q].units > 0
    /\ run' = [run EXCEPT ![q].at = "priced", ![q].bill = period, ![q].cap = plan]
    /\ workUnchanged /\ UNCHANGED <<cache, answers>>

\* Mutant: the balance is compared, the units of this charge are not.
MutantFits(x) == used[x.bill] < x.cap

\* chargeConditional: the increment lands only where the total stays within the
\* allocation, in one statement.
Fits(x) == used[x.bill] + x.units <= x.cap

\* insertIfNew: the first row of a toolCallId stays.
InsertIfNew(c, x) ==
    ledger' = IF ledger[c] # NoRow THEN ledger
              ELSE [ledger EXCEPT ![c] = [units |-> x.units, period |-> x.bill]]

\* Mutant: the row goes in outside the transaction, before the charge is known to land.
MutantCharge(q) ==
    LET x == run[q] IN
    /\ x.at = "priced"
    /\ used' = IF Fits(x) THEN [used EXCEPT ![x.bill] = @ + x.units] ELSE used
    /\ InsertIfNew(q[1], x)
    /\ run' = [run EXCEPT ![q].at = IF Fits(x) THEN "charged" ELSE "over"]
    /\ UNCHANGED <<period, plan, verdict, settled, cache, answers>>

\* The balance and the ledger row in one transaction.
Charge(q) ==
    LET x == run[q] IN
    /\ x.at = "priced" /\ Fits(x)
    /\ used' = [used EXCEPT ![x.bill] = @ + x.units]
    /\ InsertIfNew(q[1], x)
    /\ run' = [run EXCEPT ![q].at = "charged", ![q].next = 1, ![q].cap = 0]
    /\ UNCHANGED <<period, plan, verdict, settled, cache, answers>>

\* Mutant: the balance keeps an increment whose ledger row could not be written.
MutantMissCharge(q) ==
    LET x == run[q] IN
    /\ x.at \in {"commit", "priced"}
    /\ \/ UNCHANGED used
       \/ x.at = "priced" /\ Fits(x) /\ used' = [used EXCEPT ![x.bill] = @ + x.units]
    /\ run' = [run EXCEPT ![q] = Fresh("over")]
    /\ UNCHANGED <<period, plan, ledger, verdict, settled, cache, answers>>

\* The charge would exceed the allocation, there is nothing to charge, or the
\* transaction failed as a whole: the completed work is free.
MissCharge(q) ==
    /\ run[q].at \in {"commit", "priced"}
    /\ run' = [run EXCEPT ![q] = Fresh("over")]
    /\ workUnchanged /\ UNCHANGED <<cache, answers>>

\* The worker records the job as over, which stops the queue; it may die first.
Settle(c) ==
    /\ c \in Deferred \ settled
    /\ \E r \in Runs(c) : run[<<c, r>>].at \in {"charged", "over"}
    /\ settled' = settled \cup {c}
    /\ UNCHANGED <<period, plan, used, ledger, verdict, run, cache, answers>>

-----------------------------------------------------------------------------

NewPeriod ==
    /\ period < MaxPeriod /\ period' = period + 1
    /\ UNCHANGED <<plan, used, ledger, verdict, run, settled, cache, answers>>

\* A Stripe webhook or an administrator moves the organization to another tier.
ChangePlan ==
    /\ plan' \in Plans \ {plan}
    /\ UNCHANGED <<period, used, ledger, verdict, run, settled, cache, answers>>

Admission(c) == Immune(c) \/ PassRate(c) \/ OverRate(c) \/ AdmissionFails(c) \/ CheckBalance(c)
Work(q) ==
    \/ StartRun(q) \/ Return(q) \/ LookUp(q) \/ RowFails(q)
    \/ Answer(q) \/ LoopEnds(q) \/ RunFails(q)
Commit(q) == Price(q) \/ Charge(q) \/ MissCharge(q)

CostNext ==
    \/ NewPeriod \/ ChangePlan
    \/ \E c \in Calls : Admission(c) \/ Settle(c)
    \/ \E q \in Processes : Work(q) \/ Commit(q)

CostSpec == CostInit /\ [][CostNext]_costVars

-----------------------------------------------------------------------------
(* What the gate promises. *)

RunState == {"idle", "working", "asking", "commit", "priced", "charged", "over", "failed"}

\* Every variable has its type, and a run that asks the provider has an address.
CostTypeOK ==
    /\ period \in Periods /\ plan \in Plans
    /\ used \in [Periods -> Nat]
    /\ ledger \in [Calls -> [units : Nat, period : 0..MaxPeriod]]
    /\ verdict \in [Calls -> [at : {"new", "rated", "charged", "uncharged", "denied"},
                              bill : Periods, cap : Plans \cup {0}]]
    /\ run \in [Processes -> [at : RunState, next : 1..(Addresses + 1), units : Nat,
                               bill : Periods, cap : Plans \cup {0}]]
    /\ \A q \in Processes : run[q].at = "asking" => run[q].next <= Addresses
    /\ settled \subseteq Deferred
    /\ cache \subseteq 1..Addresses
    /\ answers \in Nat

\* However many calls were admitted on the same balance, and wherever the plan
\* changed under a commit, no period's balance is above every allocation the
\* tier can have (chargeConditional, "cannot overshoot the allocation").
BalanceCapped == \A p \in Periods : \E a \in Plans : used[p] <= a

\* The itemization is the work that was charged: a call has a ledger row exactly
\* when a run of it was charged, and the row is that of one of those runs.  No
\* row for a failed, denied, free or skipped call, whatever its other runs did.
LedgerRowsEarned ==
    \A c \in Calls :
        LET charged == {r \in Runs(c) : run[<<c, r>>].at = "charged"}
        IN  IF ledger[c] = NoRow THEN charged = {}
            ELSE \E r \in charged :
                    ledger[c] = [units |-> run[<<c, r>>].units, period |-> run[<<c, r>>].bill]

Itemized(p) ==
    SumFunctionOnSet([c \in Calls |-> ledger[c].units],
                     {c \in Calls : ledger[c].period = p})

\* "The itemization provably sums to the billed balance" (commitCharge), in every
\* period, whatever else was charged at the same time.
LedgerSums == \A p \in Periods : Itemized(p) = used[p]

\* What is left of LedgerSums with jobs that are run again: the balance is never
\* below the itemization, and above it only when some job was charged twice.
SumsUnlessRerun ==
    /\ \A p \in Periods : Itemized(p) <= used[p]
    /\ LedgerSums \/ \E c \in Deferred :
          Cardinality({r \in Runs(c) : run[<<c, r>>].at = "charged"}) > 1

\* However often geocoding jobs are run and however their runs overlap, they are
\* charged for no more than the provider answered (runBulkGeocode: only the
\* uncached successes cost units).
ProviderPays ==
    SumFunctionOnSet([q \in Processes |-> run[q].units],
                     {q \in Processes : q[1] \in Geocoders /\ run[q].at = "charged"})
      <= answers

=============================================================================
