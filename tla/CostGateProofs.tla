---------------------------- MODULE CostGateProofs ----------------------------
(***************************************************************************)
(* For any calls, costs, plans, numbers of runs and of addresses: the      *)
(* balance stays under the tier's allocations, and the ledger holds the    *)
(* rows of charged work only.  That no run is charged for nothing is what  *)
(* makes the second inductive: a row of no units could not be told from    *)
(* its absence.                                                            *)
(***************************************************************************)
EXTENDS CostGate, FiniteSetTheorems, TLAPS

RunRecord == [at : RunState, next : 1..(Addresses + 1), units : Nat,
              bill : Periods, cap : Plans \cup {0}]

\* A run that has a price, or was charged, counted at least one unit.
SomethingPriced ==
    \A q \in Processes : run[q].at \in {"priced", "charged"} => run[q].units > 0

\* A process is a call and one of its runs, and the other way around.
LEMMA ProcessesArePairs ==
    /\ \A q \in Processes : q[1] \in Calls /\ q[2] \in Runs(q[1]) /\ q = <<q[1], q[2]>>
    /\ \A c \in Calls : \A r \in Runs(c) : <<c, r>> \in Processes
BY DEF Processes

-----------------------------------------------------------------------------
(* Types. *)

\* The gate starts well-typed.
LEMMA CostInitTyped == CostInit => CostTypeOK
<1> SUFFICES ASSUME CostInit PROVE CostTypeOK
  OBVIOUS
<1>1. 1 \in Periods /\ 1 \in 1..(Addresses + 1) /\ 0 \in 0..MaxPeriod
  BY CostAssumption DEF Periods
<1>2. run \in [Processes -> RunRecord] /\ \A q \in Processes : run[q].at = "idle"
  BY <1>1 DEF CostInit, Fresh, RunRecord, RunState
<1> QED
  BY <1>1, <1>2, CostAssumption DEF CostInit, CostTypeOK, Pending, NoRow, RunRecord

\* No step of admission leaves the types.
LEMMA AdmissionTyped ==
    ASSUME CostTypeOK, NEW c \in Calls, Admission(c)
    PROVE  CostTypeOK'
<1> DEFINE Verdict == [at : {"new", "rated", "charged", "uncharged", "denied"},
                       bill : Periods, cap : Plans \cup {0}]
<1>1. UNCHANGED <<period, plan, used, ledger, run, settled, cache, answers>>
  BY DEF Admission, Immune, PassRate, OverRate, AdmissionFails, CheckBalance, Decide,
         admissionUnchanged
<1>2. \E v \in Verdict : verdict' = [verdict EXCEPT ![c] = v]
  <2>1. CASE PassRate(c)
    BY <2>1 DEF PassRate, CostTypeOK
  <2>2. CASE Immune(c) \/ OverRate(c) \/ AdmissionFails(c) \/ CheckBalance(c)
    <3>1. \E v \in {"denied", "charged", "uncharged"} : verdict' = [verdict EXCEPT ![c] = Pending(v)]
      BY <2>2 DEF Immune, OverRate, AdmissionFails, CheckBalance, Decide
    <3>2. \A v \in {"denied", "charged", "uncharged"} : Pending(v) \in Verdict
      BY CostAssumption DEF Pending, Periods
    <3> QED
      BY <3>1, <3>2
  <2> QED
    BY <2>1, <2>2 DEF Admission
<1>3. verdict' \in [Calls -> Verdict]
  BY <1>2 DEF CostTypeOK
<1> QED
  BY <1>1, <1>3 DEF CostTypeOK

\* A step of the work or of a commit gives its own run a new record and leaves the
\* other runs alone.
LEMMA RunStepTyped ==
    ASSUME CostTypeOK, NEW q \in Processes, Work(q) \/ Commit(q)
    PROVE  \E x \in RunRecord : /\ x.at = "asking" => x.next <= Addresses
                                /\ run' = [run EXCEPT ![q] = x]
<1> DEFINE Good(x) == x \in RunRecord /\ (x.at = "asking" => x.next <= Addresses)
<1>1. /\ run \in [Processes -> RunRecord] /\ run[q] \in RunRecord
      /\ period \in Periods /\ plan \in Plans
      /\ run[q].at = "asking" => run[q].next <= Addresses
  BY DEF CostTypeOK, RunRecord
<1>2. /\ 1 \in Periods /\ 1 \in 1..(Addresses + 1) /\ Addresses \in Nat
      /\ q[1] \in Calls /\ Cost[q[1]] \in Nat
  BY CostAssumption, ProcessesArePairs DEF Periods
<1>3. run[q].next \in 1..(Addresses + 1) /\ run[q].units \in Nat
  BY <1>1 DEF RunRecord
<1> DEFINE On(a, n, u) == [run[q] EXCEPT !.at = a, !.next = n, !.units = u]
<1>4. \A a \in RunState \ {"asking"}, n \in 1..(Addresses + 1), u \in Nat : Good(On(a, n, u))
  BY <1>1 DEF RunRecord
<1>5. CASE StartRun(q)
  <2>1. run' = [run EXCEPT ![q] = On("working", run[q].next, run[q].units)]
    BY <1>5, <1>1 DEF StartRun, RunRecord
  <2> QED
    BY <2>1, <1>3, <1>4 DEF RunState
<1>6. CASE Return(q)
  <2>1. \E a \in {"commit", "over"} : run' = [run EXCEPT ![q] = On(a, run[q].next, Cost[q[1]])]
    BY <1>6, <1>1 DEF Return, RunRecord
  <2> QED
    BY <2>1, <1>2, <1>3, <1>4 DEF RunState
<1>7. CASE LookUp(q)
  <2>1. run[q].next + 1 \in 1..(Addresses + 1) /\ run[q].next <= Addresses
    BY <1>7, <1>2, <1>3 DEF LookUp
  <2>2. CASE run[q].next \in cache
    <3>1. run' = [run EXCEPT ![q] = On("working", run[q].next + 1, run[q].units)]
      BY <2>2, <1>7, <1>1 DEF LookUp, RunRecord
    <3> QED
      BY <3>1, <2>1, <1>3, <1>4 DEF RunState
  <2>3. CASE run[q].next \notin cache
    <3>1. run' = [run EXCEPT ![q] = [run[q] EXCEPT !.at = "asking"]]
      BY <2>3, <1>7 DEF LookUp
    <3>2. Good([run[q] EXCEPT !.at = "asking"])
      BY <2>1, <1>1 DEF RunRecord, RunState
    <3> QED
      BY <3>1, <3>2
  <2> QED
    BY <2>2, <2>3
<1>8. CASE RowFails(q)
  <2>1. run[q].next + 1 \in 1..(Addresses + 1)
    BY <1>8, <1>2, <1>3 DEF RowFails
  <2>2. run' = [run EXCEPT ![q] = On("working", run[q].next + 1, run[q].units)]
    BY <1>8, <1>1 DEF RowFails, RunRecord
  <2> QED
    BY <2>1, <2>2, <1>3, <1>4 DEF RunState
<1>9. CASE Answer(q)
  <2>1. run[q].next + 1 \in 1..(Addresses + 1)
    BY <1>9, <1>1, <1>2, <1>3 DEF Answer
  <2>2. \E u \in {run[q].units, run[q].units + 1} :
           run' = [run EXCEPT ![q] = On("working", run[q].next + 1, u)]
    BY <1>9, <1>1 DEF Answer, RunRecord
  <2>3. run[q].units + 1 \in Nat
    BY <1>3
  <2> QED
    BY <2>1, <2>2, <2>3, <1>3, <1>4 DEF RunState
<1>10. CASE LoopEnds(q)
  <2>1. run' = [run EXCEPT ![q] = On("commit", 1, run[q].units)]
    BY <1>10, <1>1 DEF LoopEnds, RunRecord
  <2> QED
    BY <2>1, <1>2, <1>3, <1>4 DEF RunState
<1>11. CASE RunFails(q) \/ MissCharge(q)
  <2>1. \E s \in {"failed", "over"} : run' = [run EXCEPT ![q] = Fresh(s)]
    BY <1>11 DEF RunFails, MissCharge
  <2>2. \A s \in {"failed", "over"} : Good(Fresh(s))
    BY <1>2 DEF Fresh, RunRecord, RunState
  <2> QED
    BY <2>1, <2>2
<1>12. CASE Price(q)
  <2>1. run' = [run EXCEPT ![q] = [run[q] EXCEPT !.at = "priced", !.bill = period, !.cap = plan]]
    BY <1>12, <1>1 DEF Price, RunRecord
  <2>2. Good([run[q] EXCEPT !.at = "priced", !.bill = period, !.cap = plan])
    BY <1>1 DEF RunRecord, RunState
  <2> QED
    BY <2>1, <2>2
<1>13. CASE Charge(q)
  <2>1. run' = [run EXCEPT ![q] = [run[q] EXCEPT !.at = "charged", !.next = 1, !.cap = 0]]
    BY <1>13, <1>1 DEF Charge, RunRecord
  <2>2. Good([run[q] EXCEPT !.at = "charged", !.next = 1, !.cap = 0])
    BY <1>1, <1>2 DEF RunRecord, RunState
  <2> QED
    BY <2>1, <2>2
<1> QED
  BY <1>5, <1>6, <1>7, <1>8, <1>9, <1>10, <1>11, <1>12, <1>13 DEF Work, Commit

\* No step of the work or of a commit leaves the types.
LEMMA ProcessTyped ==
    ASSUME CostTypeOK, NEW q \in Processes, Work(q) \/ Commit(q)
    PROVE  CostTypeOK'
<1>1. PICK x \in RunRecord : /\ x.at = "asking" => x.next <= Addresses
                             /\ run' = [run EXCEPT ![q] = x]
  BY RunStepTyped
<1>2. run \in [Processes -> RunRecord] /\ run[q] \in RunRecord
  BY DEF CostTypeOK, RunRecord
<1>3. /\ run' \in [Processes -> RunRecord]
      /\ \A w \in Processes : run'[w].at = "asking" => run'[w].next <= Addresses
  BY <1>1, <1>2 DEF CostTypeOK
<1>4. UNCHANGED <<period, plan, verdict, settled>>
  BY DEF Work, Commit, StartRun, Return, LookUp, RowFails, Answer, LoopEnds, RunFails,
         Price, Charge, MissCharge, workUnchanged
<1>5. cache' \subseteq 1..Addresses /\ answers' \in Nat
  <2>1. CASE Answer(q)
    <3>1. run[q].next \in 1..Addresses
      BY <2>1, <1>2, CostAssumption DEF Answer, CostTypeOK, RunRecord
    <3> QED
      BY <2>1, <3>1 DEF Answer, CostTypeOK
  <2>2. CASE ~Answer(q)
    <3>1. UNCHANGED <<cache, answers>>
      BY <2>2 DEF Work, Commit, StartRun, Return, LookUp, RowFails, LoopEnds, RunFails,
                  Price, Charge, MissCharge
    <3> QED
      BY <3>1 DEF CostTypeOK
  <2> QED
    BY <2>1, <2>2
<1>6. used' \in [Periods -> Nat] /\ ledger' \in [Calls -> [units : Nat, period : 0..MaxPeriod]]
  <2>1. CASE Charge(q)
    <3>1. run[q].bill \in Periods /\ run[q].units \in Nat /\ run[q].bill \in 0..MaxPeriod
      BY <1>2, CostAssumption DEF RunRecord, Periods
    <3>2. used' = [used EXCEPT ![run[q].bill] = used[run[q].bill] + run[q].units]
      BY <2>1 DEF Charge
    <3>3. used[run[q].bill] + run[q].units \in Nat
      BY <3>1 DEF CostTypeOK
    <3>4. used' \in [Periods -> Nat]
      BY <3>2, <3>3 DEF CostTypeOK
    <3>5. ledger' \in {ledger, [ledger EXCEPT ![q[1]] = [units |-> run[q].units, period |-> run[q].bill]]}
      BY <2>1 DEF Charge, InsertIfNew
    <3> QED
      BY <3>1, <3>4, <3>5 DEF CostTypeOK
  <2>2. CASE ~Charge(q)
    <3>1. UNCHANGED <<used, ledger>>
      BY <2>2 DEF Work, Commit, StartRun, Return, LookUp, RowFails, Answer, LoopEnds, RunFails,
                  Price, MissCharge, workUnchanged
    <3> QED
      BY <3>1 DEF CostTypeOK
  <2> QED
    BY <2>1, <2>2
<1> QED
  BY <1>3, <1>4, <1>5, <1>6 DEF CostTypeOK, RunRecord

\* Every step of the gate keeps the types.
LEMMA StepTyped == CostTypeOK /\ [CostNext]_costVars => CostTypeOK'
<1> SUFFICES ASSUME CostTypeOK, [CostNext]_costVars PROVE CostTypeOK'
  OBVIOUS
<1>1. ASSUME NEW c \in Calls, Admission(c) PROVE CostTypeOK'
  BY <1>1, AdmissionTyped
<1>2. ASSUME NEW c \in Calls, Settle(c) PROVE CostTypeOK'
  BY <1>2 DEF Settle, CostTypeOK
<1>3. ASSUME NEW q \in Processes, Work(q) \/ Commit(q) PROVE CostTypeOK'
  BY <1>3, ProcessTyped
<1>4. CASE NewPeriod
  <2>1. period' \in Periods
    BY <1>4, CostAssumption DEF NewPeriod, CostTypeOK, Periods
  <2> QED
    BY <1>4, <2>1 DEF NewPeriod, CostTypeOK
<1>5. CASE ChangePlan
  BY <1>5 DEF ChangePlan, CostTypeOK
<1>6. CASE UNCHANGED costVars
  BY <1>6 DEF costVars, CostTypeOK
<1> QED
  BY <1>1, <1>2, <1>3, <1>4, <1>5, <1>6 DEF CostNext

\* The cost gate is type-correct.
THEOREM CostTypesHold == CostSpec => []CostTypeOK
BY CostInitTyped, StepTyped, PTL DEF CostSpec

-----------------------------------------------------------------------------
(* What a step can do to the balance, the ledger and the runs. *)

\* Only a charge touches the balance or the ledger, or makes a run charged; and
\* only a price makes a run priced.
LEMMA OnlyCharges ==
    ASSUME CostTypeOK, [CostNext]_costVars, ~\E q \in Processes : Charge(q)
    PROVE  /\ UNCHANGED <<used, ledger>>
           /\ \A w \in Processes :
                 /\ run[w].at = "charged" => run'[w] = run[w]
                 /\ run'[w].at = "charged" => run[w].at = "charged"
                 /\ run'[w].at = "priced" /\ run'[w] # run[w] => run'[w].units > 0
<1>0. run \in [Processes -> RunRecord]
  BY DEF CostTypeOK, RunRecord
<1>1. CASE UNCHANGED run /\ UNCHANGED <<used, ledger>>
  BY <1>1
<1> DEFINE Goal == /\ UNCHANGED <<used, ledger>>
                   /\ \A w \in Processes :
                        /\ run[w].at = "charged" => run'[w] = run[w]
                        /\ run'[w].at = "charged" => run[w].at = "charged"
                        /\ run'[w].at = "priced" /\ run'[w] # run[w] => run'[w].units > 0
<1>2. ASSUME NEW q \in Processes, Work(q) \/ Price(q) \/ MissCharge(q) PROVE Goal
  <2>1. UNCHANGED <<used, ledger>>
    BY <1>2 DEF Work, StartRun, Return, LookUp, RowFails, Answer, LoopEnds, RunFails,
                Price, MissCharge, workUnchanged
  <2>2. PICK x \in RunRecord : run' = [run EXCEPT ![q] = x]
    BY <1>2, RunStepTyped DEF Commit
  <2>3. \A w \in Processes \ {q} : run'[w] = run[w]
    BY <2>2, <1>0
  <2>4. run[q].at # "charged"
    BY <1>2 DEF Work, StartRun, Return, LookUp, RowFails, Answer, LoopEnds, RunFails,
                Price, MissCharge
  <2>5. run'[q].at # "charged" /\ (run'[q].at = "priced" => run'[q].units > 0)
    <3>1. CASE Price(q)
      BY <3>1, <1>0 DEF Price, RunRecord
    <3>2. CASE StartRun(q) \/ Return(q) \/ LookUp(q) \/ LoopEnds(q)
      <4>1. run[q] \in RunRecord
        BY <1>0
      <4> QED
        BY <3>2, <4>1, <1>0 DEF StartRun, Return, LookUp, LoopEnds, RunRecord
    <3>3. CASE RowFails(q) \/ Answer(q)
      <4>1. run'[q].at = "working"
        BY <3>3, <1>0 DEF RowFails, Answer, RunRecord
      <4> QED
        BY <4>1
    <3>4. CASE RunFails(q) \/ MissCharge(q)
      BY <3>4, <1>0 DEF RunFails, MissCharge, Fresh
    <3> QED
      BY <1>2, <3>1, <3>2, <3>3, <3>4 DEF Work
  <2> QED
    BY <2>1, <2>3, <2>4, <2>5
<1>3. CASE \E c \in Calls : Admission(c) \/ Settle(c)
  BY <1>3, <1>1 DEF Admission, Immune, PassRate, OverRate, AdmissionFails, CheckBalance,
                    Decide, admissionUnchanged, Settle
<1>4. CASE NewPeriod \/ ChangePlan \/ UNCHANGED costVars
  BY <1>4, <1>1 DEF NewPeriod, ChangePlan, costVars
<1> QED
  BY <1>2, <1>3, <1>4 DEF CostNext, Commit

-----------------------------------------------------------------------------
(* The balance. *)

\* No plan has a balance above all of its allocations, whatever was admitted.
THEOREM BalanceAlwaysCapped == CostSpec => []BalanceCapped
<1>1. CostInit => BalanceCapped
  BY CostAssumption DEF CostInit, BalanceCapped
<1>2. CostTypeOK /\ BalanceCapped /\ [CostNext]_costVars => BalanceCapped'
  <2> SUFFICES ASSUME CostTypeOK, BalanceCapped, [CostNext]_costVars PROVE BalanceCapped'
    OBVIOUS
  <2>1. ASSUME NEW q \in Processes, Charge(q) PROVE BalanceCapped'
    <3>1. /\ run[q].cap \in Plans \cup {0} /\ run[q].bill \in Periods /\ run[q].units \in Nat
          /\ used \in [Periods -> Nat]
      BY DEF CostTypeOK
    <3>2. used' = [used EXCEPT ![run[q].bill] = used[run[q].bill] + run[q].units]
          /\ used[run[q].bill] + run[q].units <= run[q].cap
      BY <2>1 DEF Charge, Fits
    <3>3. used'[run[q].bill] <= run[q].cap /\ used'[run[q].bill] \in Nat
      BY <3>1, <3>2
    <3>4. \E a \in Plans : used'[run[q].bill] <= a
      <4>1. CASE run[q].cap \in Plans
        BY <4>1, <3>3
      <4>2. CASE run[q].cap = 0
        <5>1. PICK a \in Plans : a \in Nat
          BY CostAssumption
        <5> QED
          BY <4>2, <3>3, <5>1
      <4> QED
        BY <3>1, <4>1, <4>2
    <3>5. \A p \in Periods \ {run[q].bill} : used'[p] = used[p]
      BY <3>1, <3>2
    <3> QED
      BY <3>4, <3>5 DEF BalanceCapped
  <2>2. CASE ~\E q \in Processes : Charge(q)
    BY <2>2, OnlyCharges DEF BalanceCapped
  <2> QED
    BY <2>1, <2>2
<1> QED
  BY <1>1, <1>2, CostTypesHold, PTL DEF CostSpec

-----------------------------------------------------------------------------
(* The ledger. *)

\* Every step keeps what is priced worth something.
LEMMA PricesStayPositive ==
    ASSUME CostTypeOK, SomethingPriced, [CostNext]_costVars
    PROVE  SomethingPriced'
<1>1. ASSUME NEW q \in Processes, Charge(q) PROVE SomethingPriced'
  <2>1. run[q].units > 0
    BY <1>1 DEF Charge, SomethingPriced
  <2>2. run' = [run EXCEPT ![q] = [run[q] EXCEPT !.at = "charged", !.next = 1, !.cap = 0]]
    BY <1>1 DEF Charge, CostTypeOK
  <2>3. run'[q].units = run[q].units /\ \A w \in Processes \ {q} : run'[w] = run[w]
    BY <2>2 DEF CostTypeOK
  <2> QED
    BY <2>1, <2>3 DEF SomethingPriced
<1>2. CASE ~\E q \in Processes : Charge(q)
  BY <1>2, OnlyCharges DEF SomethingPriced
<1> QED
  BY <1>1, <1>2

\* Every step keeps the ledger the record of the charged work.
LEMMA LedgerStaysEarned ==
    ASSUME CostTypeOK, SomethingPriced, LedgerRowsEarned, [CostNext]_costVars
    PROVE  LedgerRowsEarned'
<1>1. ASSUME NEW q \in Processes, Charge(q) PROVE LedgerRowsEarned'
  <2> DEFINE d == q[1]
             row == [units |-> run[q].units, period |-> run[q].bill]
  <2>1. d \in Calls /\ q[2] \in Runs(d) /\ q = <<d, q[2]>>
    BY ProcessesArePairs
  <2>2. run[q].at = "priced" /\ row # NoRow
    BY <1>1 DEF Charge, SomethingPriced, NoRow
  <2>3. /\ run'[q].at = "charged" /\ run'[q].units = run[q].units /\ run'[q].bill = run[q].bill
        /\ \A w \in Processes \ {q} : run'[w] = run[w]
    BY <1>1 DEF Charge, CostTypeOK
  <2>4. ledger' = IF ledger[d] # NoRow THEN ledger ELSE [ledger EXCEPT ![d] = row]
    BY <1>1 DEF Charge, InsertIfNew
  <2>5. ledger \in [Calls -> [units : Nat, period : 0..MaxPeriod]]
    BY DEF CostTypeOK
  <2> SUFFICES ASSUME NEW c \in Calls
               PROVE  LET charged == {r \in Runs(c) : run'[<<c, r>>].at = "charged"}
                      IN  IF ledger'[c] = NoRow THEN charged = {}
                          ELSE \E r \in charged :
                                 ledger'[c] = [units |-> run'[<<c, r>>].units,
                                               period |-> run'[<<c, r>>].bill]
    BY DEF LedgerRowsEarned, Runs
  <2>6. CASE c = d /\ ledger[d] = NoRow
    <3>1. ledger'[c] = row
      BY <2>4, <2>5, <2>6
    <3> QED
      BY <2>1, <2>2, <2>3, <2>6, <3>1
  <2>7. CASE c = d /\ ledger[d] # NoRow
    <3>1. PICK r \in Runs(c) : /\ run[<<c, r>>].at = "charged"
                               /\ ledger[c] = [units |-> run[<<c, r>>].units,
                                              period |-> run[<<c, r>>].bill]
      BY <2>7 DEF LedgerRowsEarned
    <3>2. run'[<<c, r>>] = run[<<c, r>>]
      BY <2>2, <2>3, <3>1, ProcessesArePairs
    <3> QED
      BY <2>4, <2>7, <3>1, <3>2
  <2>8. CASE c # d
    <3>1. ledger'[c] = ledger[c]
      BY <2>4, <2>5, <2>8
    <3>2. \A r \in Runs(c) : run'[<<c, r>>] = run[<<c, r>>]
      <4> SUFFICES ASSUME NEW r \in Runs(c) PROVE run'[<<c, r>>] = run[<<c, r>>]
        OBVIOUS
      <4>1. <<c, r>> # q
        BY <2>8
      <4> QED
        BY <4>1, <2>3, ProcessesArePairs
    <3> QED
      BY <3>1, <3>2 DEF LedgerRowsEarned
  <2> QED
    BY <2>6, <2>7, <2>8
<1>2. CASE ~\E q \in Processes : Charge(q)
  <2>1. UNCHANGED ledger
    BY <1>2, OnlyCharges
  <2> SUFFICES ASSUME NEW c \in Calls
               PROVE  LET charged == {r \in Runs(c) : run'[<<c, r>>].at = "charged"}
                      IN  IF ledger'[c] = NoRow THEN charged = {}
                          ELSE \E r \in charged :
                                 ledger'[c] = [units |-> run'[<<c, r>>].units,
                                               period |-> run'[<<c, r>>].bill]
    BY DEF LedgerRowsEarned, Runs
  <2>2. \A r \in Runs(c) : /\ run'[<<c, r>>].at = "charged" <=> run[<<c, r>>].at = "charged"
                           /\ run[<<c, r>>].at = "charged" => run'[<<c, r>>] = run[<<c, r>>]
    BY <1>2, OnlyCharges, ProcessesArePairs
  <2>3. CASE ledger[c] = NoRow
    <3>1. \A r \in Runs(c) : run[<<c, r>>].at # "charged"
      BY <2>3 DEF LedgerRowsEarned
    <3> QED
      BY <2>1, <2>2, <2>3, <3>1
  <2>4. CASE ledger[c] # NoRow
    <3>1. PICK r \in Runs(c) : /\ run[<<c, r>>].at = "charged"
                               /\ ledger[c] = [units |-> run[<<c, r>>].units,
                                              period |-> run[<<c, r>>].bill]
      BY <2>4 DEF LedgerRowsEarned
    <3> QED
      BY <2>1, <2>2, <2>4, <3>1
  <2> QED
    BY <2>3, <2>4
<1> QED
  BY <1>1, <1>2

\* A call is in the ledger exactly when work of its was charged, with that work's
\* units and period, however often and however simultaneously its job was run.
THEOREM LedgerAlwaysEarned == CostSpec => []LedgerRowsEarned
<1>1. CostInit => SomethingPriced /\ LedgerRowsEarned
  <2>1. CostInit => \A q \in Processes : run[q].at = "idle"
    BY DEF CostInit, Fresh
  <2> QED
    BY <2>1, ProcessesArePairs DEF CostInit, SomethingPriced, LedgerRowsEarned
<1>2. CostTypeOK /\ SomethingPriced /\ LedgerRowsEarned /\ [CostNext]_costVars
        => SomethingPriced' /\ LedgerRowsEarned'
  BY PricesStayPositive, LedgerStaysEarned
<1> QED
  BY <1>1, <1>2, CostTypesHold, PTL DEF CostSpec

-----------------------------------------------------------------------------
(* Sums over finite sets *)

LEMMA LeastSet ==
    ASSUME NEW S, IsFiniteSet(S), NEW F \in SUBSET SUBSET S, F # {}
    PROVE  \E A \in F : \A B \in F : B \subseteq A => B = A
<1> DEFINE R == StrictSubsetOrdering(S)
<1>1. IsWellFoundedOn(R, SUBSET S)
  BY FS_StrictSubsetOrderingWellFounded, FS_FiniteSubsetsOfFinite
<1>2. \A A, B \in SUBSET S : B \subseteq A /\ B # A => <<B, A>> \in R
  BY DEF StrictSubsetOrdering
<1> HIDE DEF R
<1>3. \E A \in F : \A B \in F : ~ (<<B, A>> \in R)
  BY <1>1, WFMin
<1> QED  BY <1>2, <1>3

\* The element a sum over s takes next, and the equation of its recursion.
Picked(s) == CHOOSE x \in s : TRUE

SumsUp(g, f, S) ==
    g = [s \in SUBSET S |-> IF s = {} THEN 0 ELSE f[Picked(s)] + g[s \ {Picked(s)}]]

LEMMA SumsAgree ==
    ASSUME NEW f, NEW S, NEW T, IsFiniteSet(S), NEW g, NEW h,
           SumsUp(g, f, S), SumsUp(h, f, T), NEW A \in SUBSET (S \cap T)
    PROVE  g[A] = h[A]
<1> DEFINE F == {B \in SUBSET (S \cap T) : g[B] # h[B]}
<1> SUFFICES ASSUME F # {} PROVE FALSE
  OBVIOUS
<1>1. IsFiniteSet(S \cap T)
  BY FS_Intersection
<1>2. PICK B \in F : \A C \in F : C \subseteq B => C = B
  <2>1. F \in SUBSET SUBSET (S \cap T)
    OBVIOUS
  <2> HIDE DEF F
  <2> QED  BY <1>1, <2>1, LeastSet
<1>3. /\ g[B] = IF B = {} THEN 0 ELSE f[Picked(B)] + g[B \ {Picked(B)}]
      /\ h[B] = IF B = {} THEN 0 ELSE f[Picked(B)] + h[B \ {Picked(B)}]
  BY DEF SumsUp
<1>4. B # {}
  BY <1>3
<1>5. Picked(B) \in B
  BY <1>4 DEF Picked
<1>6. g[B \ {Picked(B)}] = h[B \ {Picked(B)}]
  BY <1>2, <1>5
<1> QED  BY <1>3, <1>4, <1>6

LEMMA SumsExist ==
    ASSUME NEW f, NEW S, IsFiniteSet(S)
    PROVE  \E g : SumsUp(g, f, S)
<1> DEFINE F == {A \in SUBSET S : ~ \E g : SumsUp(g, f, A)}
<1> SUFFICES ASSUME F # {} PROVE FALSE
  OBVIOUS
<1>1. PICK A \in F : \A B \in F : B \subseteq A => B = A
  <2>1. F \in SUBSET SUBSET S
    OBVIOUS
  <2> HIDE DEF F
  <2> QED  BY <2>1, LeastSet
<1> DEFINE G(s) == CHOOSE g : SumsUp(g, f, s)
           value(s) == IF s = {} THEN 0 ELSE f[Picked(s)] + G(s \ {Picked(s)})[s \ {Picked(s)}]
           h == [s \in SUBSET A |-> value(s)]
<1>2. \A s \in SUBSET A : s # A => SumsUp(G(s), f, s)
  BY <1>1
<1>3. \A s \in SUBSET S : s # {} => Picked(s) \in s
  BY DEF Picked
<1>4. \A s \in SUBSET A : IsFiniteSet(s)
  BY FS_Subset
<1> HIDE DEF G
<1>5. ASSUME NEW s \in SUBSET A, s # A PROVE G(s)[s] = value(s)
  <2>1. G(s)[s] = IF s = {} THEN 0 ELSE f[Picked(s)] + G(s)[s \ {Picked(s)}]
    BY <1>2, <1>5 DEF SumsUp
  <2>2. CASE s # {}
    <3> DEFINE r == s \ {Picked(s)}
    <3>1. r \in SUBSET (s \cap r) /\ r \in SUBSET A /\ r # A
      BY <1>3, <1>5, <2>2
    <3>2. SumsUp(G(s), f, s) /\ SumsUp(G(r), f, r)
      BY <1>2, <1>5, <3>1
    <3>3. G(s)[r] = G(r)[r]
      BY <1>4, <3>1, <3>2, SumsAgree
    <3> QED  BY <2>1, <2>2, <3>3
  <2> QED  BY <2>1, <2>2
<1>6. ASSUME NEW s \in SUBSET A
      PROVE  h[s] = IF s = {} THEN 0 ELSE f[Picked(s)] + h[s \ {Picked(s)}]
  <2>1. CASE s # {}
    <3> DEFINE r == s \ {Picked(s)}
    <3>1. r \in SUBSET A /\ r # A
      BY <1>3, <2>1
    <3>2. h[r] = G(r)[r]
      BY <1>5, <3>1
    <3> QED  BY <2>1, <3>2
  <2> QED  BY <2>1
<1> HIDE DEF value
<1>7. SumsUp(h, f, A)
  <2>1. h = [s \in SUBSET A |-> h[s]]
    OBVIOUS
  <2> HIDE DEF h
  <2> QED  BY <1>6, <2>1 DEF SumsUp
<1> QED  BY <1>1, <1>7

LEMMA SumIsSum ==
    ASSUME NEW f, NEW S, IsFiniteSet(S)
    PROVE  \E g : SumsUp(g, f, S) /\ SumFunctionOnSet(f, S) = g[S]
<1> DEFINE g == CHOOSE g : SumsUp(g, f, S)
<1>1. SumsUp(g, f, S)
  BY SumsExist
<1>2. SumFunctionOnSet(f, S) = g[S]
  BY DEF SumFunctionOnSet, FoldFunctionOnSet, MapThenFoldSet, SumsUp, Picked
<1> QED  BY <1>1, <1>2

\* The sum of nothing, and the sum unfolded once.
LEMMA SumUnfolds ==
    ASSUME NEW f, NEW S, IsFiniteSet(S)
    PROVE  /\ SumFunctionOnSet(f, {}) = 0
           /\ S # {} => /\ Picked(S) \in S
                        /\ SumFunctionOnSet(f, S)
                             = f[Picked(S)] + SumFunctionOnSet(f, S \ {Picked(S)})
<1>1. SumFunctionOnSet(f, {}) = 0
  <2>1. PICK g : SumsUp(g, f, {}) /\ SumFunctionOnSet(f, {}) = g[{}]
    BY SumIsSum, FS_EmptySet
  <2> QED  BY <2>1 DEF SumsUp
<1>2. ASSUME S # {}
      PROVE  /\ Picked(S) \in S
             /\ SumFunctionOnSet(f, S)
                  = f[Picked(S)] + SumFunctionOnSet(f, S \ {Picked(S)})
  <2> DEFINE T == S \ {Picked(S)}
  <2>1. Picked(S) \in S
    BY <1>2 DEF Picked
  <2>2. IsFiniteSet(T)
    BY FS_RemoveElement
  <2>3. PICK g : SumsUp(g, f, S) /\ SumFunctionOnSet(f, S) = g[S]
    BY SumIsSum
  <2>4. PICK h : SumsUp(h, f, T) /\ SumFunctionOnSet(f, T) = h[T]
    BY <2>2, SumIsSum
  <2>5. g[T] = h[T]
    <3>1. T \in SUBSET (S \cap T)
      OBVIOUS
    <3> HIDE DEF T
    <3> QED  BY <2>3, <2>4, <3>1, SumsAgree
  <2>6. g[S] = f[Picked(S)] + g[T]
    BY <1>2, <2>3 DEF SumsUp
  <2> QED  BY <2>1, <2>3, <2>4, <2>5, <2>6
<1> QED  BY <1>1, <1>2

LEMMA SumIsNat ==
    ASSUME NEW f, NEW S, IsFiniteSet(S), \A x \in S : f[x] \in Nat
    PROVE  SumFunctionOnSet(f, S) \in Nat
<1> DEFINE F == {A \in SUBSET S : SumFunctionOnSet(f, A) \notin Nat}
<1> SUFFICES ASSUME F # {} PROVE FALSE
  OBVIOUS
<1>1. PICK A \in F : \A B \in F : B \subseteq A => B = A
  <2>1. F \in SUBSET SUBSET S
    OBVIOUS
  <2> HIDE DEF F
  <2> QED  BY <2>1, LeastSet
<1>2. IsFiniteSet(A)
  BY FS_Subset
<1>3. A # {}
  <2>1. SumFunctionOnSet(f, {}) = 0
    BY FS_EmptySet, SumUnfolds
  <2> QED  BY <2>1
<1>4. /\ Picked(A) \in A
      /\ SumFunctionOnSet(f, A) = f[Picked(A)] + SumFunctionOnSet(f, A \ {Picked(A)})
  BY <1>2, <1>3, SumUnfolds
<1>5. SumFunctionOnSet(f, A \ {Picked(A)}) \in Nat
  BY <1>1, <1>4
<1> QED  BY <1>1, <1>4, <1>5

\* Equal terms have equal sums.
LEMMA SumsEqual ==
    ASSUME NEW f, NEW g, NEW S, IsFiniteSet(S), \A x \in S : f[x] = g[x]
    PROVE  SumFunctionOnSet(f, S) = SumFunctionOnSet(g, S)
<1> DEFINE F == {A \in SUBSET S : SumFunctionOnSet(f, A) # SumFunctionOnSet(g, A)}
<1> SUFFICES ASSUME F # {} PROVE FALSE
  OBVIOUS
<1>1. PICK A \in F : \A B \in F : B \subseteq A => B = A
  <2>1. F \in SUBSET SUBSET S
    OBVIOUS
  <2> HIDE DEF F
  <2> QED  BY <2>1, LeastSet
<1>2. IsFiniteSet(A)
  BY FS_Subset
<1>3. A # {}
  BY <1>1, <1>2, SumUnfolds
<1>4. /\ Picked(A) \in A
      /\ SumFunctionOnSet(f, A) = f[Picked(A)] + SumFunctionOnSet(f, A \ {Picked(A)})
      /\ SumFunctionOnSet(g, A) = g[Picked(A)] + SumFunctionOnSet(g, A \ {Picked(A)})
  BY <1>2, <1>3, SumUnfolds
<1>5. SumFunctionOnSet(f, A \ {Picked(A)}) = SumFunctionOnSet(g, A \ {Picked(A)})
  BY <1>1, <1>4
<1> QED  BY <1>1, <1>4, <1>5

\* Any element may be taken first.
LEMMA SumTakes ==
    ASSUME NEW f, NEW S, IsFiniteSet(S), \A x \in S : f[x] \in Nat, NEW a \in S
    PROVE  SumFunctionOnSet(f, S) = f[a] + SumFunctionOnSet(f, S \ {a})
<1> DEFINE F == {A \in SUBSET S : \E x \in A :
                   SumFunctionOnSet(f, A) # f[x] + SumFunctionOnSet(f, A \ {x})}
<1> SUFFICES ASSUME F # {} PROVE FALSE
  OBVIOUS
<1>1. PICK A \in F : \A B \in F : B \subseteq A => B = A
  <2>1. F \in SUBSET SUBSET S
    OBVIOUS
  <2> HIDE DEF F
  <2> QED  BY <2>1, LeastSet
<1>2. PICK x \in A : SumFunctionOnSet(f, A) # f[x] + SumFunctionOnSet(f, A \ {x})
  BY <1>1
<1>3. \A B \in SUBSET A : B # A =>
        \A y \in B : SumFunctionOnSet(f, B) = f[y] + SumFunctionOnSet(f, B \ {y})
  BY <1>1
<1>4. \A B \in SUBSET A : IsFiniteSet(B) /\ SumFunctionOnSet(f, B) \in Nat
  <2> SUFFICES ASSUME NEW B \in SUBSET A
               PROVE  IsFiniteSet(B) /\ SumFunctionOnSet(f, B) \in Nat
    OBVIOUS
  <2>1. IsFiniteSet(B) /\ \A y \in B : f[y] \in Nat
    BY FS_Subset
  <2> QED  BY <2>1, SumIsNat
<1> DEFINE c == Picked(A)
<1>5. c \in A /\ SumFunctionOnSet(f, A) = f[c] + SumFunctionOnSet(f, A \ {c})
  BY <1>2, <1>4, SumUnfolds
<1>6. x # c
  BY <1>2, <1>5
<1> HIDE DEF c
<1>7. /\ SumFunctionOnSet(f, A \ {c}) = f[x] + SumFunctionOnSet(f, (A \ {c}) \ {x})
      /\ SumFunctionOnSet(f, A \ {x}) = f[c] + SumFunctionOnSet(f, (A \ {x}) \ {c})
  BY <1>3, <1>5, <1>6
<1>8. (A \ {c}) \ {x} = (A \ {x}) \ {c}
  OBVIOUS
<1>9. /\ f[x] \in Nat /\ f[c] \in Nat
      /\ SumFunctionOnSet(f, (A \ {x}) \ {c}) \in Nat
  BY <1>4, <1>5
<1> DEFINE rest == SumFunctionOnSet(f, (A \ {x}) \ {c})
<1>10. SumFunctionOnSet(f, A) = f[c] + (f[x] + rest)
  BY <1>5, <1>7, <1>8
<1>11. f[x] + SumFunctionOnSet(f, A \ {x}) = f[x] + (f[c] + rest)
  BY <1>7
<1>12. f[c] + (f[x] + rest) = f[x] + (f[c] + rest)
  BY <1>9
<1> QED  BY <1>2, <1>10, <1>11, <1>12

\* A part sums to no more than the whole.
LEMMA SumOfPart ==
    ASSUME NEW f, NEW S, IsFiniteSet(S), \A x \in S : f[x] \in Nat, NEW T \in SUBSET S
    PROVE  SumFunctionOnSet(f, T) <= SumFunctionOnSet(f, S)
<1> DEFINE F == {A \in SUBSET S : /\ T \subseteq A
                                  /\ ~(SumFunctionOnSet(f, T) <= SumFunctionOnSet(f, A))}
<1> SUFFICES ASSUME F # {} PROVE FALSE
  OBVIOUS
<1>1. PICK A \in F : \A B \in F : B \subseteq A => B = A
  <2>1. F \in SUBSET SUBSET S
    OBVIOUS
  <2> HIDE DEF F
  <2> QED  BY <2>1, LeastSet
<1>2. \A B \in SUBSET S : IsFiniteSet(B) /\ SumFunctionOnSet(f, B) \in Nat
  <2> SUFFICES ASSUME NEW B \in SUBSET S
               PROVE  IsFiniteSet(B) /\ SumFunctionOnSet(f, B) \in Nat
    OBVIOUS
  <2>1. IsFiniteSet(B) /\ \A y \in B : f[y] \in Nat
    BY FS_Subset
  <2> QED  BY <2>1, SumIsNat
<1>3. PICK x \in A : x \notin T
  <2>1. SumFunctionOnSet(f, T) <= SumFunctionOnSet(f, T)
    BY <1>2
  <2>2. T \subseteq A /\ T # A
    BY <2>1
  <2> QED  BY <2>2
<1>4. SumFunctionOnSet(f, A) = f[x] + SumFunctionOnSet(f, A \ {x})
  BY <1>2, SumTakes
<1>5. SumFunctionOnSet(f, T) <= SumFunctionOnSet(f, A \ {x})
  BY <1>1, <1>3
<1>6. f[x] \in Nat
  OBVIOUS
<1> QED  BY <1>1, <1>2, <1>4, <1>5, <1>6

-----------------------------------------------------------------------------
(* The itemization. *)

\* A call of whose runs more than one was charged.
ChargedTwice(c) ==
    /\ c \in Deferred
    /\ Cardinality({r \in Runs(c) : run[<<c, r>>].at = "charged"}) > 1

\* Charged runs stay charged, so a call charged twice stays so.
LEMMA TwiceIsForGood ==
    ASSUME NEW c \in Calls, ChargedTwice(c),
           \A r \in Runs(c) : run[<<c, r>>].at = "charged" => run'[<<c, r>>].at = "charged"
    PROVE  ChargedTwice(c)'
<1> DEFINE old == {r \in Runs(c) : run[<<c, r>>].at = "charged"}
           new == {r \in Runs(c) : run'[<<c, r>>].at = "charged"}
<1>1. IsFiniteSet(Runs(c))
  BY CostAssumption, FS_Interval DEF Runs
<1>2. IsFiniteSet(new) /\ old \in SUBSET new
  BY <1>1, FS_Subset
<1>3. Cardinality(old) <= Cardinality(new)
  BY <1>2, FS_Subset
<1>4. Cardinality(old) \in Nat /\ Cardinality(new) \in Nat
  BY <1>2, FS_Subset, FS_CardinalityType
<1>5. Cardinality(old) > 1
  BY DEF ChargedTwice
<1>6. Cardinality(new) > 1
  BY <1>3, <1>4, <1>5
<1> QED  BY <1>6 DEF ChargedTwice, Runs

\* Two different runs of a call were charged.
LEMMA TwoRunsAreTwice ==
    ASSUME NEW c \in Calls, NEW r \in Runs(c), NEW s \in Runs(c), r # s,
           run'[<<c, r>>].at = "charged", run'[<<c, s>>].at = "charged"
    PROVE  ChargedTwice(c)'
<1> DEFINE new == {t \in Runs(c) : run'[<<c, t>>].at = "charged"}
<1>1. c \in Deferred
  <2> SUFFICES ASSUME c \notin Deferred PROVE FALSE
    OBVIOUS
  <2>1. MaxRuns[c] = 1
    BY CostAssumption
  <2> QED  BY <2>1 DEF Runs
<1>2. IsFiniteSet(new)
  <2>1. IsFiniteSet(Runs(c))
    BY CostAssumption, FS_Interval DEF Runs
  <2> QED  BY <2>1, FS_Subset
<1>3. IsFiniteSet({r, s}) /\ Cardinality({r, s}) = 2
  <2>1. IsFiniteSet({r}) /\ Cardinality({r}) = 1
    BY FS_Singleton
  <2>2. /\ IsFiniteSet({r} \cup {s})
        /\ Cardinality({r} \cup {s}) = IF s \in {r} THEN Cardinality({r}) ELSE Cardinality({r}) + 1
    BY <2>1, FS_AddElement
  <2>3. {r} \cup {s} = {r, s} /\ s \notin {r}
    OBVIOUS
  <2> QED  BY <2>1, <2>2, <2>3
<1>4. {r, s} \in SUBSET new
  OBVIOUS
<1>5. Cardinality({r, s}) <= Cardinality(new) /\ Cardinality(new) \in Nat
  BY <1>2, <1>4, FS_Subset, FS_CardinalityType
<1>6. Cardinality(new) > 1
  BY <1>3, <1>5
<1> QED  BY <1>1, <1>6 DEF ChargedTwice, Runs

Units == [c \in Calls |-> ledger[c].units]
RowsOf(p) == {c \in Calls : ledger[c].period = p}

\* A new row adds its units to its period.
LEMMA NewRowAdds ==
    ASSUME CostTypeOK, NEW d \in Calls, ledger[d] = NoRow,
           NEW row \in [units : Nat, period : Periods],
           ledger' = [ledger EXCEPT ![d] = row], NEW p \in Periods
    PROVE  Itemized(p)' = Itemized(p) + (IF p = row.period THEN row.units ELSE 0)
<1>0. /\ Itemized(p) = SumFunctionOnSet(Units, RowsOf(p))
      /\ Itemized(p)' = SumFunctionOnSet(Units', RowsOf(p)')
  BY DEF Itemized, Units, RowsOf
<1>1. /\ ledger \in [Calls -> [units : Nat, period : 0..MaxPeriod]]
      /\ ledger' \in [Calls -> [units : Nat, period : 0..MaxPeriod]]
      /\ p # 0 /\ ledger[d].period = 0 /\ ledger'[d] = row
      /\ \A c \in Calls \ {d} : ledger'[c] = ledger[c]
  BY CostAssumption DEF CostTypeOK, NoRow, Periods
<1>2. /\ d \notin RowsOf(p) /\ IsFiniteSet(RowsOf(p)) /\ RowsOf(p) \subseteq Calls
      /\ \A c \in RowsOf(p) : Units[c] \in Nat
  BY <1>1, CostAssumption, FS_Subset DEF RowsOf, Units
<1>3. SumFunctionOnSet(Units', RowsOf(p)) = SumFunctionOnSet(Units, RowsOf(p))
  <2>1. \A c \in RowsOf(p) : Units'[c] = Units[c]
    BY <1>1, <1>2 DEF Units
  <2> QED  BY <1>2, <2>1, SumsEqual
<1>4. SumFunctionOnSet(Units, RowsOf(p)) \in Nat
  BY <1>2, SumIsNat
<1>5. CASE p = row.period
  <2>1. RowsOf(p)' = RowsOf(p) \cup {d}
    BY <1>1, <1>5 DEF RowsOf
  <2>2. /\ IsFiniteSet(RowsOf(p) \cup {d}) /\ (RowsOf(p) \cup {d}) \ {d} = RowsOf(p)
        /\ \A c \in RowsOf(p) \cup {d} : Units'[c] \in Nat
        /\ Units'[d] = row.units
    BY <1>1, <1>2, FS_AddElement DEF Units
  <2>3. SumFunctionOnSet(Units', RowsOf(p) \cup {d})
          = Units'[d] + SumFunctionOnSet(Units', (RowsOf(p) \cup {d}) \ {d})
    BY <2>2, SumTakes
  <2>4. Itemized(p)' = row.units + SumFunctionOnSet(Units, RowsOf(p))
    BY <1>0, <1>3, <2>1, <2>2, <2>3
  <2>5. Itemized(p)' = row.units + Itemized(p)
    BY <1>0, <2>4
  <2>6. row.units \in Nat /\ Itemized(p) \in Nat
    BY <1>0, <1>4
  <2> QED  BY <1>5, <2>5, <2>6
<1>6. CASE p # row.period
  <2>1. RowsOf(p)' = RowsOf(p)
    BY <1>1, <1>6 DEF RowsOf
  <2> QED  BY <1>0, <1>3, <1>4, <1>6, <2>1
<1> QED  BY <1>5, <1>6

LEMMA ItemizedIsNat ==
    ASSUME CostTypeOK, NEW p \in Periods
    PROVE  Itemized(p) \in Nat
<1>1. /\ IsFiniteSet(RowsOf(p))
      /\ \A c \in RowsOf(p) : Units[c] \in Nat
  BY CostAssumption, FS_Subset DEF RowsOf, Units, CostTypeOK
<1> QED  BY <1>1, SumIsNat DEF Itemized, Units, RowsOf

\* SumsUnlessRerun with the call charged twice by its name.
SumsOrTwice ==
    /\ \A p \in Periods : Itemized(p) <= used[p]
    /\ LedgerSums \/ \E c \in Calls : ChargedTwice(c)

LEMMA SumsKept ==
    ASSUME CostTypeOK, SomethingPriced, LedgerRowsEarned, SumsOrTwice, [CostNext]_costVars
    PROVE  SumsOrTwice'
<1>1. CASE ~\E q \in Processes : Charge(q)
  <2>1. /\ UNCHANGED <<used, ledger>>
        /\ \A w \in Processes : run[w].at = "charged" => run'[w] = run[w]
    BY <1>1, OnlyCharges
  <2>2. \A p : Itemized(p)' = Itemized(p)
    BY <2>1 DEF Itemized
  <2>3. \A c \in Calls : ChargedTwice(c) => ChargedTwice(c)'
    BY <2>1, TwiceIsForGood, ProcessesArePairs
  <2> QED  BY <2>1, <2>2, <2>3 DEF SumsOrTwice, LedgerSums, Periods
<1>2. ASSUME NEW q \in Processes, Charge(q) PROVE SumsOrTwice'
  <2> DEFINE d == q[1]
             row == [units |-> run[q].units, period |-> run[q].bill]
  <2>1. d \in Calls /\ q[2] \in Runs(d) /\ q = <<d, q[2]>>
    BY ProcessesArePairs
  <2>2. run[q].at = "priced" /\ row \in [units : Nat, period : Periods]
    BY <1>2 DEF Charge, CostTypeOK
  <2>3. /\ run'[q].at = "charged"
        /\ \A w \in Processes \ {q} : run'[w] = run[w]
    BY <1>2 DEF Charge, CostTypeOK
  <2>4. /\ used' = [used EXCEPT ![row.period] = @ + row.units]
        /\ used \in [Periods -> Nat] /\ used' \in [Periods -> Nat]
    BY <1>2, <2>2 DEF Charge, CostTypeOK
  <2>5. ledger' = IF ledger[d] # NoRow THEN ledger ELSE [ledger EXCEPT ![d] = row]
    BY <1>2 DEF Charge, InsertIfNew
  <2>6. \A c \in Calls : ChargedTwice(c) => ChargedTwice(c)'
    <3> SUFFICES ASSUME NEW c \in Calls, ChargedTwice(c) PROVE ChargedTwice(c)'
      OBVIOUS
    <3>1. \A r \in Runs(c) : run[<<c, r>>].at = "charged" => run'[<<c, r>>].at = "charged"
      BY <2>2, <2>3, ProcessesArePairs
    <3> QED  BY <3>1, TwiceIsForGood
  <2> HIDE DEF d, row
  <2>7. CASE ledger[d] = NoRow
    <3>1. \A p \in Periods : Itemized(p)' = Itemized(p) + (IF p = row.period THEN row.units ELSE 0)
      BY <2>1, <2>2, <2>5, <2>7, NewRowAdds
    <3>2. \A p \in Periods : used'[p] = used[p] + (IF p = row.period THEN row.units ELSE 0)
      BY <2>2, <2>4
    <3>3. \A p \in Periods : Itemized(p) \in Nat /\ used[p] \in Nat
      BY <2>4, ItemizedIsNat
    <3>4. \A p \in Periods : Itemized(p)' <= used'[p]
      BY <2>2, <3>1, <3>2, <3>3 DEF SumsOrTwice
    <3>5. LedgerSums => LedgerSums'
      BY <3>1, <3>2 DEF LedgerSums, Periods
    <3> QED  BY <2>6, <3>4, <3>5 DEF SumsOrTwice, Periods
  <2>8. CASE ledger[d] # NoRow
    <3>1. \A p \in Periods : Itemized(p)' = Itemized(p) /\ Itemized(p) \in Nat
      BY <2>5, <2>8, ItemizedIsNat DEF Itemized
    <3>2. \A p \in Periods : used'[p] >= used[p]
      BY <2>2, <2>4
    <3>3. \A p \in Periods : Itemized(p)' <= used'[p]
      BY <2>4, <3>1, <3>2 DEF SumsOrTwice
    <3>4. PICK r \in Runs(d) : run[<<d, r>>].at = "charged"
      BY <2>1, <2>8 DEF LedgerRowsEarned
    <3>5. r # q[2] /\ run'[<<d, r>>].at = "charged"
      BY <2>1, <2>2, <2>3, <3>4, ProcessesArePairs
    <3>6. ChargedTwice(d)'
      BY <2>1, <2>3, <3>5, TwoRunsAreTwice
    <3> QED  BY <2>1, <3>3, <3>6 DEF SumsOrTwice, Periods
  <2> QED  BY <2>7, <2>8
<1> QED  BY <1>1, <1>2

\* The itemization is never above the balance, and below it only where some job
\* was charged twice: work that was charged is never missing from it otherwise.
THEOREM SumsHoldUnlessRerun == CostSpec => []SumsUnlessRerun
<1>1. CostInit => SomethingPriced /\ LedgerRowsEarned /\ SumsOrTwice
  <2> SUFFICES ASSUME CostInit PROVE SomethingPriced /\ LedgerRowsEarned /\ SumsOrTwice
    OBVIOUS
  <2>1. \A q \in Processes : run[q].at = "idle"
    BY DEF CostInit, Fresh
  <2>2. SomethingPriced /\ LedgerRowsEarned
    BY <2>1, ProcessesArePairs DEF CostInit, SomethingPriced, LedgerRowsEarned
  <2>3. ASSUME NEW p \in Periods PROVE Itemized(p) = 0 /\ used[p] = 0
    <3>1. {c \in Calls : ledger[c].period = p} = {}
      BY <2>3 DEF CostInit, NoRow, Periods
    <3>2. \A f : SumFunctionOnSet(f, {}) = 0
      BY SumUnfolds, FS_EmptySet
    <3> QED  BY <2>3, <3>1, <3>2 DEF Itemized, CostInit
  <2> QED  BY <2>2, <2>3 DEF SumsOrTwice, LedgerSums
<1>2. CostTypeOK /\ SomethingPriced /\ LedgerRowsEarned /\ SumsOrTwice /\ [CostNext]_costVars
        => SomethingPriced' /\ LedgerRowsEarned' /\ SumsOrTwice'
  BY PricesStayPositive, LedgerStaysEarned, SumsKept
<1>3. SumsOrTwice => SumsUnlessRerun
  BY CostAssumption DEF SumsOrTwice, SumsUnlessRerun, ChargedTwice
<1> QED
  BY <1>1, <1>2, <1>3, CostTypesHold, PTL DEF CostSpec

-----------------------------------------------------------------------------
(* What the provider billed. *)

LEMMA ProcessesFinite == IsFiniteSet(Processes)
<1> DEFINE RunsOf(c) == {c} \X Runs(c)
           all == {RunsOf(c) : c \in Calls}
           f == [c \in Calls |-> RunsOf(c)]
<1>1. f \in Surjection(Calls, all)
  BY DEF Surjection
<1>2. IsFiniteSet(all)
  BY <1>1, CostAssumption, FS_Surjection
<1>3. \A c \in Calls : IsFiniteSet(RunsOf(c))
  <2> SUFFICES ASSUME NEW c \in Calls PROVE IsFiniteSet(RunsOf(c))
    OBVIOUS
  <2>1. IsFiniteSet(Runs(c))
    BY CostAssumption, FS_Interval DEF Runs
  <2> QED  BY <2>1, FS_Singleton, FS_Product
<1>4. Processes = UNION all
  BY DEF Processes
<1> HIDE DEF RunsOf
<1> QED  BY <1>2, <1>3, <1>4, FS_UNION

\* One term changes: the sum changes by as much.
LEMMA SumChanges ==
    ASSUME NEW f, NEW g, NEW S, IsFiniteSet(S), NEW a \in S,
           \A x \in S : f[x] \in Nat /\ g[x] \in Nat,
           \A x \in S \ {a} : f[x] = g[x]
    PROVE  SumFunctionOnSet(f, S) + g[a] = SumFunctionOnSet(g, S) + f[a]
<1>1. IsFiniteSet(S \ {a})
  BY FS_RemoveElement
<1>2. SumFunctionOnSet(f, S \ {a}) = SumFunctionOnSet(g, S \ {a})
  BY <1>1, SumsEqual
<1>3. SumFunctionOnSet(f, S \ {a}) \in Nat /\ SumFunctionOnSet(g, S \ {a}) \in Nat
  BY <1>1, SumIsNat
<1>4. /\ SumFunctionOnSet(f, S) = f[a] + SumFunctionOnSet(f, S \ {a})
      /\ SumFunctionOnSet(g, S) = g[a] + SumFunctionOnSet(g, S \ {a})
  BY SumTakes
<1>5. f[a] \in Nat /\ g[a] \in Nat
  OBVIOUS
<1> QED  BY <1>2, <1>3, <1>4, <1>5

RunUnits == [q \in Processes |-> run[q].units]
Geocodings == {q \in Processes : q[1] \in Geocoders}

\* The units every geocoding run holds, charged or not yet, are answers of the
\* provider: a run that fails, or whose charge is missed, lets go of them.
GeocodedPaid == SumFunctionOnSet(RunUnits, Geocodings) <= answers

LEMMA UnitsTyped ==
    ASSUME CostTypeOK
    PROVE  /\ IsFiniteSet(Geocodings) /\ Geocodings \subseteq Processes
           /\ \A q \in Processes : RunUnits[q] = run[q].units /\ RunUnits[q] \in Nat
           /\ SumFunctionOnSet(RunUnits, Geocodings) \in Nat
<1>1. IsFiniteSet(Geocodings) /\ Geocodings \subseteq Processes
  BY ProcessesFinite, FS_Subset DEF Geocodings
<1>2. \A q \in Processes : RunUnits[q] = run[q].units /\ RunUnits[q] \in Nat
  BY DEF RunUnits, CostTypeOK
<1> QED  BY <1>1, <1>2, SumIsNat

\* A geocoding run gains a unit only by an answer.
LEMMA UnitsAreAnswers ==
    ASSUME CostTypeOK, NEW q \in Processes, Work(q) \/ Commit(q)
    PROVE  /\ answers' >= answers
           /\ q \in Geocodings => run'[q].units + answers <= run[q].units + answers'
<1>1. run \in [Processes -> RunRecord] /\ run[q] \in RunRecord /\ answers \in Nat
  BY DEF CostTypeOK, RunRecord
<1>2. run[q].units \in Nat
  BY <1>1 DEF RunRecord
<1>3. CASE Answer(q)
  <2>1. answers' = answers + 1
    BY <1>3 DEF Answer
  <2>2. run'[q].units \in {run[q].units, run[q].units + 1}
    BY <1>1, <1>3 DEF Answer, RunRecord
  <2> QED  BY <1>1, <1>2, <2>1, <2>2
<1>4. CASE StartRun(q) \/ LookUp(q) \/ RowFails(q) \/ LoopEnds(q) \/ Price(q) \/ Charge(q)
  <2>1. answers' = answers
    BY <1>4 DEF StartRun, LookUp, RowFails, LoopEnds, Price, Charge, workUnchanged
  <2>2. run'[q].units = run[q].units
    BY <1>1, <1>4 DEF StartRun, LookUp, RowFails, LoopEnds, Price, Charge, RunRecord
  <2> QED  BY <1>1, <1>2, <2>1, <2>2
<1>5. CASE RunFails(q) \/ MissCharge(q)
  <2>1. answers' = answers /\ run'[q].units = 0
    BY <1>1, <1>5 DEF RunFails, MissCharge, Fresh
  <2> QED  BY <1>1, <1>2, <2>1
<1>6. CASE Return(q)
  BY <1>1, <1>6 DEF Return, Geocodings
<1> QED
  BY <1>3, <1>4, <1>5, <1>6 DEF Work, Commit

LEMMA PaidKept ==
    ASSUME CostTypeOK, CostTypeOK', GeocodedPaid, [CostNext]_costVars
    PROVE  GeocodedPaid'
<1>1. Geocodings' = Geocodings /\ answers \in Nat /\ answers' \in Nat
  BY DEF Geocodings, Processes, Runs, CostTypeOK
<1>2. /\ IsFiniteSet(Geocodings) /\ Geocodings \subseteq Processes
      /\ \A q \in Processes : RunUnits[q] = run[q].units /\ RunUnits[q] \in Nat
      /\ \A q \in Processes : RunUnits'[q] = run'[q].units /\ RunUnits'[q] \in Nat
      /\ SumFunctionOnSet(RunUnits, Geocodings) \in Nat
      /\ SumFunctionOnSet(RunUnits', Geocodings) \in Nat
  <2>1. \A q \in Processes : RunUnits'[q] = run'[q].units /\ RunUnits'[q] \in Nat
    BY DEF RunUnits, CostTypeOK, Processes, Runs
  <2>2. /\ IsFiniteSet(Geocodings) /\ Geocodings \subseteq Processes
        /\ \A q \in Processes : RunUnits[q] = run[q].units /\ RunUnits[q] \in Nat
        /\ SumFunctionOnSet(RunUnits, Geocodings) \in Nat
    BY UnitsTyped
  <2> QED  BY <2>1, <2>2, SumIsNat
<1>3. CASE UNCHANGED <<run, answers>>
  BY <1>3 DEF GeocodedPaid, RunUnits, Geocodings, Processes, Runs
<1>4. ASSUME NEW q \in Processes, Work(q) \/ Commit(q) PROVE GeocodedPaid'
  <2>1. \A w \in Processes \ {q} : run'[w] = run[w]
    <3>1. PICK x \in RunRecord : run' = [run EXCEPT ![q] = x]
      BY <1>4, RunStepTyped
    <3> QED  BY <3>1 DEF CostTypeOK
  <2>2. /\ answers' >= answers
        /\ q \in Geocodings => run'[q].units + answers <= run[q].units + answers'
    BY <1>4, UnitsAreAnswers
  <2>3. CASE q \in Geocodings
    <3>1. \A w \in Geocodings \ {q} : RunUnits'[w] = RunUnits[w]
      BY <1>2, <2>1
    <3>2. SumFunctionOnSet(RunUnits', Geocodings) + RunUnits[q]
            = SumFunctionOnSet(RunUnits, Geocodings) + RunUnits'[q]
      BY <1>2, <2>3, <3>1, SumChanges
    <3>3. RunUnits'[q] + answers <= RunUnits[q] + answers'
      BY <1>2, <2>2, <2>3
    <3>4. RunUnits[q] \in Nat /\ RunUnits'[q] \in Nat
      BY <1>2
    <3>5. SumFunctionOnSet(RunUnits', Geocodings) <= answers'
      BY <1>1, <1>2, <3>2, <3>3, <3>4 DEF GeocodedPaid
    <3> QED  BY <1>1, <3>5 DEF GeocodedPaid
  <2>4. CASE q \notin Geocodings
    <3>1. \A w \in Geocodings : RunUnits[w] = RunUnits'[w]
      BY <1>2, <2>1, <2>4
    <3>2. SumFunctionOnSet(RunUnits, Geocodings) = SumFunctionOnSet(RunUnits', Geocodings)
      BY <1>2, <3>1, SumsEqual
    <3> QED  BY <1>1, <1>2, <2>2, <3>2 DEF GeocodedPaid
  <2> QED  BY <2>3, <2>4
<1>5. CASE \E c \in Calls : Admission(c) \/ Settle(c)
  BY <1>3, <1>5 DEF Admission, Immune, PassRate, OverRate, AdmissionFails, CheckBalance,
                    Decide, admissionUnchanged, Settle
<1>6. CASE NewPeriod \/ ChangePlan \/ UNCHANGED costVars
  BY <1>3, <1>6 DEF NewPeriod, ChangePlan, costVars
<1> QED
  BY <1>4, <1>5, <1>6 DEF CostNext

\* Geocoding is charged for nothing the provider was not asked and answered,
\* however often its jobs are run and however their runs overlap.
THEOREM ProviderAlwaysPays == CostSpec => []ProviderPays
<1>1. CostInit => GeocodedPaid
  <2> SUFFICES ASSUME CostInit PROVE GeocodedPaid
    OBVIOUS
  <2> DEFINE F == {A \in SUBSET Geocodings : SumFunctionOnSet(RunUnits, A) # 0}
  <2>1. IsFiniteSet(Geocodings) /\ Geocodings \subseteq Processes
    BY ProcessesFinite, FS_Subset DEF Geocodings
  <2>2. \A q \in Geocodings : RunUnits[q] = 0
    BY DEF CostInit, Fresh, RunUnits, Geocodings
  <2>3. F = {}
    <3> SUFFICES ASSUME F # {} PROVE FALSE
      OBVIOUS
    <3>1. PICK A \in F : \A B \in F : B \subseteq A => B = A
      <4>1. F \in SUBSET SUBSET Geocodings
        OBVIOUS
      <4> HIDE DEF F
      <4> QED  BY <2>1, <4>1, LeastSet
    <3>2. IsFiniteSet(A) /\ A # {}
      BY <2>1, FS_Subset, SumUnfolds
    <3>3. /\ Picked(A) \in A
          /\ SumFunctionOnSet(RunUnits, A)
               = RunUnits[Picked(A)] + SumFunctionOnSet(RunUnits, A \ {Picked(A)})
      BY <3>2, SumUnfolds
    <3>4. SumFunctionOnSet(RunUnits, A \ {Picked(A)}) = 0
      BY <3>1, <3>3
    <3> QED  BY <2>2, <3>3, <3>4
  <2>4. SumFunctionOnSet(RunUnits, Geocodings) = 0
    BY <2>3
  <2> QED  BY <2>4 DEF GeocodedPaid, CostInit
<1>2. CostTypeOK /\ CostTypeOK' /\ GeocodedPaid /\ [CostNext]_costVars => GeocodedPaid'
  BY PaidKept
<1>3. CostTypeOK /\ GeocodedPaid => ProviderPays
  <2> SUFFICES ASSUME CostTypeOK, GeocodedPaid PROVE ProviderPays
    OBVIOUS
  <2> DEFINE charged == {q \in Processes : q[1] \in Geocoders /\ run[q].at = "charged"}
  <2>1. charged \in SUBSET Geocodings /\ IsFiniteSet(charged)
    BY UnitsTyped, FS_Subset DEF Geocodings
  <2>2. /\ \A q \in Geocodings : RunUnits[q] \in Nat
        /\ SumFunctionOnSet(RunUnits, Geocodings) \in Nat
    BY UnitsTyped
  <2>3. SumFunctionOnSet(RunUnits, charged) \in Nat
    BY <2>1, <2>2, SumIsNat
  <2>4. SumFunctionOnSet(RunUnits, charged) <= SumFunctionOnSet(RunUnits, Geocodings)
    BY <2>1, <2>2, UnitsTyped, SumOfPart
  <2>5. answers \in Nat
    BY DEF CostTypeOK
  <2>6. SumFunctionOnSet(RunUnits, charged) <= answers
    BY <2>2, <2>3, <2>4, <2>5 DEF GeocodedPaid
  <2> QED  BY <2>6 DEF ProviderPays, RunUnits
<1> QED
  BY <1>1, <1>2, <1>3, CostTypesHold, PTL DEF CostSpec

=============================================================================
