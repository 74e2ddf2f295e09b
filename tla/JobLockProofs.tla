----------------------------- MODULE JobLockProofs -----------------------------
(***************************************************************************)
(* Proofs about JobLock: for any number of keys, jobs and transactions, a  *)
(* write is alone with the keys it resolved, and running jobs declared     *)
(* disjoint scopes.  Neither follows from the locks alone or the check     *)
(* alone; LockInv says how the two fit together.  And lockers, however     *)
(* many, never wait for each other in a circle: OrderInv adds the order    *)
(* the keys are taken in.                                                  *)
(***************************************************************************)
EXTENDS JobLock, WellFoundedInduction, SequenceTheorems, TLAPS

\* The parts of the inductive invariant.

\* Until its keys are resolved a transaction has none.
NothingYet ==
    \A t \in Txns : pc[t] \in {"idle", "resolve"} =>
        keys[t] = {} /\ excl[t] = {} /\ held[t] = {}

\* Two holders of one key both hold it shared.
HoldersCompatible ==
    \A t, u \in Txns : t # u =>
        \A k \in held[t] \cap held[u] : k \notin excl[t] /\ k \notin excl[u]

\* Past the check a transaction holds every key it resolved.
AllHeld == \A t \in Txns : pc[t] \in Writing => held[t] = keys[t]

\* A job start takes the scopes its job declares exclusive.
ScopesExclusive ==
    \A t \in Txns :
        req[t].kind = "start" /\ pc[t] \notin {"idle", "resolve"} =>
            req[t].target \subseteq excl[t] /\ req[t].target \subseteq keys[t]

\* A row is inserted once, and never by a tool's own connection.
StartsApart ==
    /\ \A t \in Txns : req[t].kind = "start" =>
          t \notin Tools /\ req[t].job \notin live \cup attended
    /\ \A t, u \in Txns :
          t # u /\ req[t].kind = "start" /\ req[u].kind = "start" =>
              req[t].job # req[u].job

\* A write past its check has no job under it whose row never was over.
OldJobsApart ==
    \A t \in Txns : pc[t] \in Writing =>
        \A j \in live \ revived : scopes[j] \cap keys[t] = {}

\* Only a tool works over a connection of its own.
ToolsQuery == \A t \in Txns : pc[t] \in {"query", "leave"} => t \in Tools

\* Who waits for a lock still lacks one.
StillLacks == \A t \in Txns : pc[t] = "wait" => held[t] # keys[t]

\* The queue holds each waiting transaction once.
WaitersQueue ==
    /\ \A t \in Txns : pc[t] = "wait" => \E i \in 1..Len(lockQueue) : lockQueue[i] = t
    /\ \A i \in 1..Len(lockQueue) : pc[lockQueue[i]] = "wait"
    /\ \A i, j \in 1..Len(lockQueue) : lockQueue[i] = lockQueue[j] => i = j

\* Keys are taken in their order: what a transaction lacks comes after all it holds.
InOrder ==
    \A t \in Txns : \A k \in held[t] : \A l \in keys[t] \ held[t] : Rank[k] < Rank[l]

LockInv ==
    /\ LockTypeOK
    /\ StillLacks
    /\ ToolsQuery
    /\ NothingYet
    /\ HoldersCompatible
    /\ AllHeld
    /\ ScopesExclusive
    /\ StartsApart
    /\ OldJobsApart
    /\ JobsDisjoint

-----------------------------------------------------------------------------
(* Lemmas about the helpers. *)

\* What a request is made of.
LEMMA RequestShape ==
    ASSUME NEW r \in Request
    PROVE  /\ r.kind \in {"write", "create", "delete", "start"}
           /\ r.kind = "write" => r.target \in Keys \cup {Column}
           /\ r.kind = "create" => r.target \in Entities
           /\ r.kind = "delete" => r.target \in Keys
           /\ r.kind = "start" => r.target \in Starts /\ r.job \in Jobs
           /\ r # NoRequest
BY DEF Request, NoRequest

\* Dropping an element of a sequence leaves a sequence over the same set.
LEMMA RemoveAtSeq ==
    ASSUME NEW S, NEW s \in Seq(S), NEW i \in 1..Len(s)
    PROVE  RemoveAt(s, i) \in Seq(S)
<1>1. SubSeq(s, 1, i - 1) \in Seq(S) /\ SubSeq(s, i + 1, Len(s)) \in Seq(S)
  OBVIOUS
<1> QED BY <1>1 DEF RemoveAt

\* A set of naturals has a least element, ...
LEMMA Least ==
    ASSUME NEW T \in SUBSET Nat, T # {}
    PROVE  \E m \in T : \A n \in T : m <= n
<1> DEFINE Less == {p \in Nat \X Nat : p[1] < p[2]}
<1>1. IsWellFoundedOn(Less, Nat)
  BY NatLessThanWellFounded DEF OpToRel
<1> HIDE DEF Less
<1>2. PICK m \in T : \A n \in T : ~(<<n, m>> \in Less)
  BY <1>1, WFMin
<1>3. \A n \in T : m <= n
  <2> TAKE n \in T
  <2>1. m \in Nat /\ n \in Nat /\ <<n, m>> \notin Less
    BY <1>2
  <2> QED BY <2>1 DEF Less
<1> QED BY <1>3

\* ... so there is a next key, and it is the least of those lacking, by rank.
LEMMA NextKeyLeast ==
    ASSUME LockTypeOK, NEW t \in Txns, held[t] # keys[t]
    PROVE  /\ NextKey(t) \in keys[t] \ held[t]
           /\ \A l \in keys[t] \ held[t] : Rank[NextKey(t)] <= Rank[l]
<1> DEFINE S == keys[t] \ held[t]
           T == {Rank[k] : k \in S}
<1>1. S # {} /\ S \subseteq Keys
  BY DEF LockTypeOK
<1>2. T \in SUBSET Nat /\ T # {}
  BY <1>1, LockAssumption
<1>3. PICK m \in T : \A n \in T : m <= n
  BY <1>2, Least
<1>4. PICK k \in S : m = Rank[k]
  BY <1>3
<1>5. \A l \in S : Rank[k] <= Rank[l]
  BY <1>3, <1>4
<1> QED BY <1>4, <1>5 DEF NextKey

\* Keys resolve to keys.
LEMMA ResolveKeys ==
    ASSUME objects \subseteq Keys, NEW r \in Request
    PROVE  ResolveScopeKeys(r) \subseteq Keys
<1> USE LockAssumption DEF Keys
<1>1. \A es \in SUBSET Entities : EntityKeys(es) \subseteq Keys
  BY DEF EntityKeys
<1>2. \A e \in Entities : ResolveEntity(e) \subseteq Keys
  BY <1>1 DEF ResolveEntity
<1>3. \A i \in Instances : ResolveInstance(i) \subseteq Keys
  BY DEF ResolveInstance, Under
<1>4. CASE r.kind = "create"
  BY <1>3, <1>4, RequestShape DEF ResolveScopeKeys
<1>5. CASE r.kind \in {"write", "delete"}
  BY <1>1, <1>2, <1>3, <1>5, RequestShape DEF ResolveScopeKeys
<1>6. CASE r.kind = "start"
  BY <1>1, <1>2, <1>3, <1>6, RequestShape DEF ResolveScopeKeys, Starts
<1> QED BY <1>4, <1>5, <1>6, RequestShape

\* A job's declared scopes are among the keys its start locks, and exclusive.
LEMMA DeclaredExclusive ==
    ASSUME NEW r, r.kind = "start", NEW ks
    PROVE  /\ r.target \subseteq ResolveScopeKeys(r)
           /\ r.target \subseteq Exclusive(r, ks)
BY DEF ResolveScopeKeys, Exclusive

-----------------------------------------------------------------------------
(* The invariant holds at first and is kept by every action. *)

LEMMA LockInit_Inv == LockInit => LockInv
BY LockAssumption
   DEF LockInit, LockInv, LockTypeOK, NothingYet, StillLacks, HoldersCompatible, AllHeld,
       ScopesExclusive, StartsApart, ToolsQuery, OldJobsApart, JobsDisjoint, Keys, Writing,
       TxnStates, NoRequest

\* The end of a transaction that at most changed objects leaves the others alone.
LEMMA End_Inv ==
    ASSUME LockInv, NEW t \in Txns, End(t), pc[t] # "idle",
           objects' \subseteq Keys, UNCHANGED jobVars
    PROVE  LockInv'
<1> USE DEF LockInv, End, jobVars
<1>1. LockTypeOK'
  BY DEF LockTypeOK, TxnStates, NoRequest, Request
<1>2. NothingYet' /\ StillLacks' /\ HoldersCompatible' /\ AllHeld'
  BY DEF LockTypeOK, NothingYet, StillLacks, HoldersCompatible, AllHeld, Writing
<1>3. ScopesExclusive' /\ StartsApart' /\ ToolsQuery'
  BY DEF LockTypeOK, ScopesExclusive, StartsApart, ToolsQuery, NoRequest
<1>4. OldJobsApart' /\ JobsDisjoint'
  BY DEF LockTypeOK, OldJobsApart, JobsDisjoint, Writing
<1> QED BY <1>1, <1>2, <1>3, <1>4

LEMMA Begin_Inv ==
    ASSUME LockInv, NEW t \in Txns, NEW r \in RequestsOf[t], Begin(t, r)
    PROVE  LockInv'
<1> USE DEF LockInv, Begin, jobVars
<1>0. r \in Request /\ (r.kind = "start" => t \notin Tools)
  BY LockAssumption
<1>1. LockTypeOK'
  BY <1>0, RequestShape DEF LockTypeOK, TxnStates
<1>2. NothingYet' /\ StillLacks' /\ HoldersCompatible' /\ AllHeld'
  BY DEF LockTypeOK, NothingYet, StillLacks, HoldersCompatible, AllHeld, Writing
<1>3. ScopesExclusive' /\ StartsApart' /\ ToolsQuery'
  BY <1>0 DEF LockTypeOK, ScopesExclusive, StartsApart, ToolsQuery
<1>4. OldJobsApart' /\ JobsDisjoint'
  BY DEF LockTypeOK, OldJobsApart, JobsDisjoint, Writing
<1> QED BY <1>1, <1>2, <1>3, <1>4

LEMMA Resolve_Inv ==
    ASSUME LockInv, NEW t \in Txns, Resolve(t)
    PROVE  LockInv'
<1> DEFINE ks == ResolveScopeKeys(req[t])
           ex == Exclusive(req[t], ks)
<1> USE DEF LockInv, Resolve, jobVars
<1>0. req[t] \in Request /\ held[t] = {}
  BY DEF LockTypeOK, NothingYet
<1>1. ks \subseteq Keys
  BY <1>0, ResolveKeys DEF LockTypeOK
<1>2. ex \subseteq Keys
  BY <1>0, <1>1, RequestShape DEF Exclusive, Keys, Starts
<1> HIDE DEF ks, ex
<1>3. keys' = [keys EXCEPT ![t] = ks] /\ excl' = [excl EXCEPT ![t] = ex]
  BY DEF ks, ex
<1>4. LockTypeOK'
  BY <1>0, <1>1, <1>2, <1>3, RequestShape DEF LockTypeOK, TxnStates
<1>5. NothingYet' /\ StillLacks' /\ HoldersCompatible' /\ AllHeld'
  BY <1>0, <1>3 DEF LockTypeOK, NothingYet, StillLacks, HoldersCompatible, AllHeld, Writing
<1>6. req[t].kind = "start" => req[t].target \subseteq ks /\ req[t].target \subseteq ex
  BY DeclaredExclusive DEF ks, ex
<1>7. ScopesExclusive' /\ StartsApart' /\ ToolsQuery'
  BY <1>3, <1>6 DEF LockTypeOK, ScopesExclusive, StartsApart, ToolsQuery
<1>8. OldJobsApart' /\ JobsDisjoint'
  BY <1>3 DEF LockTypeOK, OldJobsApart, JobsDisjoint, Writing
<1> QED BY <1>4, <1>5, <1>7, <1>8

LEMMA RequestLock_Inv ==
    ASSUME LockInv, NEW t \in Txns, RequestLock(t)
    PROVE  LockInv'
<1> USE DEF LockInv, RequestLock, jobVars
<1>1. LockTypeOK'
  BY DEF LockTypeOK, TxnStates
<1>2. NothingYet' /\ StillLacks' /\ HoldersCompatible' /\ AllHeld'
  BY DEF LockTypeOK, NothingYet, StillLacks, HoldersCompatible, AllHeld, Writing
<1>3. ScopesExclusive' /\ StartsApart' /\ ToolsQuery'
  BY DEF LockTypeOK, ScopesExclusive, StartsApart, ToolsQuery
<1>4. OldJobsApart' /\ JobsDisjoint'
  BY DEF LockTypeOK, OldJobsApart, JobsDisjoint, Writing
<1> QED BY <1>1, <1>2, <1>3, <1>4

\* A lock is granted only beside compatible holders.
LEMMA Grant_Inv ==
    ASSUME LockInv, NEW t \in Txns, Grant(t)
    PROVE  LockInv'
<1> DEFINE k == NextKey(t)
<1> USE DEF LockInv, jobVars
<1>0. /\ pc[t] = "wait"
      /\ \A u \in Txns \ {t} : k \in held[u] => Compatible(t, u, k)
      /\ held' = [held EXCEPT ![t] = @ \cup {k}]
      /\ pc' = [pc EXCEPT ![t] = "lock"]
      /\ UNCHANGED <<objects, jobVars, req, keys, excl>>
  BY DEF Grant
<1>1. \E i \in 1..Len(lockQueue) : lockQueue' = RemoveAt(lockQueue, i)
  BY DEF Grant
<1>2. lockQueue' \in Seq(Txns)
  BY <1>1, RemoveAtSeq DEF LockTypeOK
<1>3. k \in keys[t]
  BY <1>0, NextKeyLeast DEF StillLacks
<1> HIDE DEF k
<1>4. LockTypeOK'
  BY <1>0, <1>2, <1>3 DEF LockTypeOK, TxnStates
<1>5. NothingYet' /\ StillLacks' /\ AllHeld'
  BY <1>0 DEF LockTypeOK, NothingYet, StillLacks, AllHeld, Writing
<1>6. HoldersCompatible'
  BY <1>0 DEF LockTypeOK, HoldersCompatible, Compatible
<1>7. ScopesExclusive' /\ StartsApart' /\ ToolsQuery'
  BY <1>0 DEF LockTypeOK, ScopesExclusive, StartsApart, ToolsQuery
<1>8. OldJobsApart' /\ JobsDisjoint'
  BY <1>0 DEF LockTypeOK, OldJobsApart, JobsDisjoint, Writing
<1> QED BY <1>4, <1>5, <1>6, <1>7, <1>8

LEMMA CheckClear_Inv ==
    ASSUME LockInv, NEW t \in Txns, CheckClear(t)
    PROVE  LockInv'
<1> USE DEF LockInv, CheckClear, jobVars
<1>1. LockTypeOK'
  BY DEF LockTypeOK, TxnStates
<1>2. NothingYet' /\ StillLacks' /\ HoldersCompatible' /\ AllHeld'
  BY DEF LockTypeOK, NothingYet, StillLacks, HoldersCompatible, AllHeld, Writing
<1>3. ScopesExclusive' /\ StartsApart' /\ ToolsQuery'
  BY DEF LockTypeOK, ScopesExclusive, StartsApart, ToolsQuery
<1>4. OldJobsApart' /\ JobsDisjoint'
  BY DEF LockTypeOK, OldJobsApart, JobsDisjoint, Writing
<1> QED BY <1>1, <1>2, <1>3, <1>4

LEMMA ToolQuery_Inv ==
    ASSUME LockInv, NEW t \in Txns, ToolQuery(t)
    PROVE  LockInv'
<1> USE DEF LockInv, ToolQuery, jobVars
<1>1. LockTypeOK'
  BY DEF LockTypeOK, TxnStates
<1>2. NothingYet' /\ StillLacks' /\ HoldersCompatible' /\ AllHeld'
  BY DEF LockTypeOK, NothingYet, StillLacks, HoldersCompatible, AllHeld, Writing
<1>3. ScopesExclusive' /\ StartsApart' /\ ToolsQuery'
  BY DEF LockTypeOK, ScopesExclusive, StartsApart, ToolsQuery
<1>4. OldJobsApart' /\ JobsDisjoint'
  BY DEF LockTypeOK, OldJobsApart, JobsDisjoint, Writing
<1> QED BY <1>1, <1>2, <1>3, <1>4

\* The heart of the matter.  The scopes the new job declared are held exclusive by
\* the transaction that inserts it, so no writer past its check resolved one, and
\* its own check saw no running job over them.
LEMMA Insert_Inv ==
    ASSUME LockInv, NEW t \in Txns, t \notin Tools, pc[t] = "write",
           req[t].kind = "start", End(t),
           live' = live \cup {req[t].job},
           scopes' = [scopes EXCEPT ![req[t].job] = req[t].target],
           UNCHANGED <<objects, attended, revived>>
    PROVE  LockInv'
<1> DEFINE j == req[t].job
           s == req[t].target
<1> USE DEF LockInv, jobVars
<1>1. j \in Jobs /\ s \subseteq Keys /\ j \notin live \cup attended
  BY RequestShape DEF LockTypeOK, StartsApart, NoRequest, Starts, Keys
<1>2. s \subseteq excl[t] /\ s \subseteq keys[t] /\ held[t] = keys[t]
  BY DEF ScopesExclusive, AllHeld, Writing
<1>3. \A k \in live \ revived : scopes[k] \cap s = {}
  BY <1>2 DEF OldJobsApart, Writing
<1>4. \A u \in Txns \ {t} : pc[u] \in Writing => keys[u] \cap s = {}
  BY <1>2 DEF HoldersCompatible, AllHeld
<1>5. \A u \in Txns \ {t} : req[u].kind = "start" => req[u].job # j
  BY DEF StartsApart
<1> HIDE DEF j, s
<1>6. live' = live \cup {j} /\ scopes' = [scopes EXCEPT ![j] = s]
  BY DEF j, s
<1>7. LockTypeOK'
  BY <1>1, <1>6 DEF End, LockTypeOK, TxnStates, NoRequest, Request
<1>8. NothingYet' /\ StillLacks' /\ HoldersCompatible' /\ AllHeld'
  BY DEF End, LockTypeOK, NothingYet, StillLacks, HoldersCompatible, AllHeld, Writing
<1>9. ScopesExclusive' /\ StartsApart' /\ ToolsQuery'
  BY <1>5, <1>6 DEF End, LockTypeOK, ScopesExclusive, StartsApart, ToolsQuery, NoRequest
<1>10. OldJobsApart'
  BY <1>1, <1>4, <1>6 DEF End, LockTypeOK, OldJobsApart, Writing
<1>11. JobsDisjoint'
  BY <1>1, <1>3, <1>6 DEF LockTypeOK, JobsDisjoint
<1> QED BY <1>7, <1>8, <1>9, <1>10, <1>11

LEMMA JobStep_Inv ==
    ASSUME LockInv, NEW j \in Jobs, JobStep(j)
    PROVE  LockInv'
<1> USE DEF LockInv
<1>1. /\ UNCHANGED <<objects, txnVars>>
      /\ live' \ revived' \subseteq live \ revived
      /\ live' \cup attended' \subseteq live \cup attended
      /\ \A k \in live' \ revived' : scopes'[k] = scopes[k]
  BY DEF LockTypeOK, JobStep, EndJob, Supersede, Revive, Abandon
<1>2. LockTypeOK'
  BY DEF LockTypeOK, JobStep, EndJob, Supersede, Revive, Abandon, txnVars
<1>3. NothingYet' /\ StillLacks' /\ HoldersCompatible' /\ AllHeld'
  BY <1>1 DEF NothingYet, StillLacks, HoldersCompatible, AllHeld, txnVars
<1>4. ScopesExclusive' /\ StartsApart' /\ ToolsQuery'
  BY <1>1 DEF ScopesExclusive, StartsApart, ToolsQuery, txnVars
<1>5. OldJobsApart' /\ JobsDisjoint'
  BY <1>1 DEF OldJobsApart, JobsDisjoint, txnVars
<1> QED BY <1>2, <1>3, <1>4, <1>5

\* What a write that starts no job leaves behind: objects only.
LEMMA EffectOnObjects ==
    ASSUME LockTypeOK, NEW t \in Txns, pc[t] # "idle", Effect(t),
           req[t].kind # "start"
    PROVE  objects' \subseteq Keys /\ UNCHANGED jobVars
<1>1. req[t] \in Request
  BY DEF LockTypeOK
<1> QED BY <1>1, RequestShape DEF Effect, LockTypeOK, Keys

LEMMA Commit_Inv ==
    ASSUME LockInv, NEW t \in Txns, Commit(t)
    PROVE  LockInv'
<1>0. pc[t] = "write" /\ t \notin Tools /\ Effect(t) /\ End(t)
  BY DEF Commit
<1>1. CASE req[t].kind = "start"
  <2>1. /\ live' = live \cup {req[t].job}
        /\ scopes' = [scopes EXCEPT ![req[t].job] = req[t].target]
        /\ UNCHANGED <<objects, attended, revived>>
    BY <1>0, <1>1 DEF Effect
  <2> QED BY <1>0, <1>1, <2>1, Insert_Inv
<1>2. CASE req[t].kind # "start"
  BY <1>0, <1>2, EffectOnObjects, End_Inv DEF LockInv
<1> QED BY <1>1, <1>2

LEMMA ToolReturns_Inv ==
    ASSUME LockInv, NEW t \in Txns, ToolReturns(t)
    PROVE  LockInv'
<1>0. /\ pc[t] = "query"
      /\ Effect(t) \/ UNCHANGED <<objects, jobVars>>
      /\ pc' = [pc EXCEPT ![t] = "leave"]
      /\ UNCHANGED <<req, keys, excl, held, lockQueue>>
  BY DEF ToolReturns
<1>1. req[t].kind # "start"
  BY <1>0 DEF LockInv, StartsApart, ToolsQuery
<1>2. objects' \subseteq Keys /\ UNCHANGED jobVars
  BY <1>0, <1>1, EffectOnObjects DEF LockInv, LockTypeOK
<1> USE DEF LockInv, jobVars
<1>3. LockTypeOK'
  BY <1>0, <1>2 DEF LockTypeOK, TxnStates
<1>4. NothingYet' /\ StillLacks' /\ HoldersCompatible' /\ AllHeld'
  BY <1>0 DEF LockTypeOK, NothingYet, StillLacks, HoldersCompatible, AllHeld, Writing
<1>5. ScopesExclusive' /\ StartsApart' /\ ToolsQuery'
  BY <1>0, <1>2 DEF LockTypeOK, ScopesExclusive, StartsApart, ToolsQuery
<1>6. OldJobsApart' /\ JobsDisjoint'
  BY <1>0, <1>2 DEF LockTypeOK, OldJobsApart, JobsDisjoint, Writing
<1> QED BY <1>3, <1>4, <1>5, <1>6

LEMMA LockNext_Inv == LockInv /\ [LockNext]_lockVars => LockInv'
<1> SUFFICES ASSUME LockInv, [LockNext]_lockVars
             PROVE  LockInv'
  OBVIOUS
<1>1. CASE UNCHANGED lockVars
  BY <1>1 DEF lockVars, jobVars, txnVars, LockInv, LockTypeOK, NothingYet, StillLacks,
     HoldersCompatible, AllHeld, ScopesExclusive, StartsApart, ToolsQuery, OldJobsApart,
     JobsDisjoint
<1>2. ASSUME NEW j \in Jobs, JobStep(j) PROVE LockInv'
  BY <1>2, JobStep_Inv
<1>3. ASSUME NEW t \in Txns, NEW r \in RequestsOf[t], Begin(t, r) PROVE LockInv'
  BY <1>3, Begin_Inv
<1>4. ASSUME NEW t \in Txns, TxnStep(t) PROVE LockInv'
  <2>1. CASE Resolve(t)
    BY <2>1, Resolve_Inv
  <2>2. CASE RequestLock(t)
    BY <2>2, RequestLock_Inv
  <2>3. CASE Grant(t)
    BY <2>3, Grant_Inv
  <2>4. CASE CheckClear(t)
    BY <2>4, CheckClear_Inv
  <2>5. CASE ToolQuery(t)
    BY <2>5, ToolQuery_Inv
  <2>6. CASE ToolReturns(t)
    BY <2>6, ToolReturns_Inv
  <2> QED BY <1>4, <2>1, <2>2, <2>3, <2>4, <2>5, <2>6 DEF TxnStep
<1>5. ASSUME NEW t \in Txns, TxnEnd(t) PROVE LockInv'
  <2>1. CASE CheckRefuse(t)
    BY <2>1, End_Inv DEF CheckRefuse, LockInv, LockTypeOK
  <2>2. CASE Commit(t)
    BY <2>2, Commit_Inv
  <2>3. CASE Rollback(t)
    BY <2>3, End_Inv DEF Rollback, LockInv, LockTypeOK
  <2>4. CASE ToolEnds(t)
    BY <2>4, End_Inv DEF ToolEnds, LockInv, LockTypeOK
  <2> QED BY <1>5, <2>1, <2>2, <2>3, <2>4 DEF TxnEnd
<1> QED BY <1>1, <1>2, <1>3, <1>4, <1>5 DEF LockNext

-----------------------------------------------------------------------------
(* Which steps put a write beside a running job. *)

\* A transaction past its check stays with the keys it resolved; it got there past a
\* check that saw no job over them, and no start inserts one while it holds them.
LEMMA NoNewMeeting ==
    ASSUME LockInv, [LockNext]_lockVars, NEW t \in Txns, NEW j \in Jobs,
           Meets(t, j)', ~Meets(t, j)
    PROVE  j \in attended
<1> SUFFICES ASSUME j \notin attended PROVE FALSE
  OBVIOUS
<1> USE DEF LockInv
<1>0. ASSUME pc'[t] \in Writing => pc[t] \in Writing /\ keys'[t] = keys[t], UNCHANGED jobVars
      PROVE  FALSE
  BY <1>0 DEF Meets, jobVars
<1>1. CASE UNCHANGED lockVars
  BY <1>0, <1>1 DEF lockVars, txnVars
<1>2. ASSUME NEW k \in Jobs, JobStep(k) PROVE FALSE
  <2>1. UNCHANGED txnVars /\ j \in live' /\ scopes' \in [Jobs -> SUBSET Keys]
    BY <1>2, JobStep_Inv
       DEF Meets, JobStep, EndJob, Supersede, Revive, Abandon, LockTypeOK
  <2>2. j \in live /\ scopes'[j] = scopes[j]
    BY <1>2, <2>1 DEF JobStep, EndJob, Supersede, Revive, Abandon, LockTypeOK
  <2> QED BY <2>1, <2>2 DEF Meets, txnVars
<1>3. ASSUME NEW u \in Txns, NEW r \in RequestsOf[u], Begin(u, r) PROVE FALSE
  BY <1>0, <1>3 DEF Begin, LockTypeOK, Writing
<1>4. ASSUME NEW u \in Txns, CheckClear(u) PROVE FALSE
  <2>1. CASE u = t
    BY <1>4, <2>1 DEF CheckClear, Meets, jobVars
  <2>2. CASE u # t
    BY <1>0, <1>4, <2>2 DEF CheckClear, LockTypeOK
  <2> QED BY <2>1, <2>2
<1>5. ASSUME NEW u \in Txns, Resolve(u) \/ RequestLock(u) \/ Grant(u) \/ ToolQuery(u)
      PROVE  FALSE
  BY <1>0, <1>5 DEF Resolve, RequestLock, Grant, ToolQuery, LockTypeOK, Writing
<1>6. ASSUME NEW u \in Txns, ToolReturns(u) PROVE FALSE
  <2>1. req[u].kind # "start"
    BY <1>6 DEF ToolReturns, StartsApart, ToolsQuery
  <2>2. UNCHANGED jobVars
    BY <1>6, <2>1, EffectOnObjects DEF ToolReturns
  <2> QED BY <1>0, <1>6, <2>2 DEF ToolReturns, LockTypeOK, Writing
<1>7. ASSUME NEW u \in Txns, End(u), UNCHANGED jobVars PROVE FALSE
  BY <1>0, <1>7 DEF End, LockTypeOK, Writing
<1>8. ASSUME NEW u \in Txns, Commit(u) PROVE FALSE
  <2>1. CASE req[u].kind # "start"
    BY <1>7, <1>8, <2>1, EffectOnObjects DEF Commit
  <2>2. CASE req[u].kind = "start"
    <3>1. /\ live' = live \cup {req[u].job}
          /\ scopes' = [scopes EXCEPT ![req[u].job] = req[u].target]
          /\ pc[u] = "write" /\ End(u)
      BY <1>8, <2>2 DEF Commit, Effect
    <3>2. req[u].job \in Jobs /\ t # u /\ pc[t] \in Writing /\ keys'[t] = keys[t]
      BY <2>2, <3>1, RequestShape DEF Meets, End, LockTypeOK, Writing, NoRequest
    <3>3. j = req[u].job
      BY <3>1, <3>2 DEF Meets, LockTypeOK
    <3>4. scopes'[j] = req[u].target
      BY <3>1, <3>2, <3>3 DEF LockTypeOK
    <3>5. req[u].target \subseteq excl[u] /\ req[u].target \subseteq held[u]
      BY <2>2, <3>1 DEF ScopesExclusive, AllHeld, Writing
    <3>6. keys[t] \cap req[u].target = {}
      BY <3>2, <3>5 DEF HoldersCompatible, AllHeld
    <3> QED BY <3>2, <3>4, <3>6 DEF Meets
  <2> QED BY <2>1, <2>2
<1>9. ASSUME NEW u \in Txns, TxnEnd(u) PROVE FALSE
  BY <1>7, <1>8, <1>9 DEF TxnEnd, CheckRefuse, Rollback, ToolEnds
<1> QED BY <1>1, <1>2, <1>3, <1>4, <1>5, <1>6, <1>9 DEF LockNext, TxnStep

-----------------------------------------------------------------------------
(* Queue and order.  They need LockInv and are kept beside it. *)

OrderInv == LockInv /\ WaitersQueue /\ InOrder

\* Dropping an element moves those behind it one place to the front.
LEMMA RemovedAt ==
    ASSUME NEW S, NEW s \in Seq(S), NEW i \in 1..Len(s)
    PROVE  /\ Len(RemoveAt(s, i)) = Len(s) - 1
           /\ \A j \in 1..(Len(s) - 1) :
                 RemoveAt(s, i)[j] = IF j < i THEN s[j] ELSE s[j + 1]
<1> DEFINE a == SubSeq(s, 1, i - 1)
           b == SubSeq(s, i + 1, Len(s))
<1>1. /\ a \in Seq(S) /\ Len(a) = i - 1
      /\ \A j \in 1..(i - 1) : a[j] = s[j]
  OBVIOUS
<1>2. /\ b \in Seq(S) /\ Len(b) = Len(s) - i
      /\ \A j \in 1..(Len(s) - i) : b[j] = s[i + j]
  OBVIOUS
<1> HIDE DEF a, b
<1>3. /\ Len(a \o b) = Len(s) - 1
      /\ \A j \in 1..(Len(s) - 1) :
            (a \o b)[j] = IF j <= Len(a) THEN a[j] ELSE b[j - Len(a)]
  <2>1. /\ Len(a \o b) = Len(a) + Len(b)
        /\ \A j \in 1..(Len(a) + Len(b)) :
              (a \o b)[j] = IF j <= Len(a) THEN a[j] ELSE b[j - Len(a)]
    BY <1>1, <1>2, ConcatProperties
  <2>2. Len(a) + Len(b) = Len(s) - 1
    BY <1>1, <1>2
  <2> QED BY <2>1, <2>2
<1>4. \A j \in 1..(Len(s) - 1) : (a \o b)[j] = IF j < i THEN s[j] ELSE s[j + 1]
  <2> TAKE j \in 1..(Len(s) - 1)
  <2>1. CASE j < i
    BY <1>1, <1>3, <2>1
  <2>2. CASE ~(j < i)
    <3>1. j - (i - 1) \in 1..(Len(s) - i) /\ i + (j - (i - 1)) = j + 1
      BY <2>2
    <3>2. (a \o b)[j] = b[j - (i - 1)]
      BY <1>1, <1>3, <2>2
    <3> QED BY <1>2, <2>2, <3>1, <3>2
  <2> QED BY <2>1, <2>2
<1> QED BY <1>3, <1>4 DEF RemoveAt, a, b

\* Who stays in the queue when t is granted its lock: all but t, once each.
LEMMA Dequeued ==
    ASSUME LockTypeOK, WaitersQueue, NEW t \in Txns, NEW i \in 1..Len(lockQueue),
           lockQueue[i] = t, lockQueue' = RemoveAt(lockQueue, i),
           pc' = [pc EXCEPT ![t] = "lock"]
    PROVE  WaitersQueue'
<1> DEFINE n == Len(lockQueue)
           old(j) == IF j < i THEN j ELSE j + 1
<1>1. /\ lockQueue \in Seq(Txns) /\ n \in Nat
      /\ \A j \in 1..n : lockQueue[j] \in Txns
  BY DEF LockTypeOK
<1>2. Len(lockQueue') = n - 1 /\ \A j \in 1..(n - 1) : lockQueue'[j] = lockQueue[old(j)]
  BY <1>1, RemovedAt
<1>3. \A j \in 1..(n - 1) : old(j) \in 1..n /\ old(j) # i
  OBVIOUS
<1>4. \A j, h \in 1..(n - 1) : old(j) = old(h) => j = h
  OBVIOUS
<1>5. \A h \in 1..n : h # i => \E j \in 1..(n - 1) : old(j) = h
  <2> TAKE h \in 1..n
  <2> HAVE h # i
  <2>1. CASE h < i
    <3>1. h \in 1..(n - 1) /\ old(h) = h
      BY <2>1
    <3> QED BY <3>1
  <2>2. CASE h > i
    <3>1. h - 1 \in 1..(n - 1) /\ old(h - 1) = h
      BY <2>2
    <3> QED BY <3>1
  <2> QED BY <2>1, <2>2
<1> HIDE DEF old, n
<1>6. ASSUME NEW u \in Txns, pc'[u] = "wait"
      PROVE  \E j \in 1..Len(lockQueue') : lockQueue'[j] = u
  <2>1. u # t /\ pc[u] = "wait"
    BY <1>6 DEF LockTypeOK
  <2>2. PICK h \in 1..n : lockQueue[h] = u
    BY <2>1 DEF WaitersQueue, n
  <2>3. PICK j \in 1..(n - 1) : old(j) = h
    BY <1>5, <2>1, <2>2
  <2> QED BY <1>2, <2>2, <2>3
<1>7. ASSUME NEW j \in 1..Len(lockQueue') PROVE pc'[lockQueue'[j]] = "wait"
  <2>1. lockQueue'[j] = lockQueue[old(j)] /\ old(j) \in 1..n /\ old(j) # i
    BY <1>2, <1>3
  <2>2. lockQueue[old(j)] # t /\ pc[lockQueue[old(j)]] = "wait"
    BY <2>1 DEF WaitersQueue, n
  <2> QED BY <1>1, <2>1, <2>2 DEF LockTypeOK
<1>8. ASSUME NEW j \in 1..Len(lockQueue'), NEW h \in 1..Len(lockQueue'),
             lockQueue'[j] = lockQueue'[h]
      PROVE  j = h
  <2>1. lockQueue[old(j)] = lockQueue[old(h)] /\ old(j) \in 1..n /\ old(h) \in 1..n
    BY <1>2, <1>3, <1>8
  <2>2. old(j) = old(h)
    BY <2>1 DEF WaitersQueue, n
  <2> QED BY <1>2, <1>4, <2>2
<1> QED BY <1>6, <1>7, <1>8 DEF WaitersQueue

LEMMA OrderStarts == LockInit => OrderInv
<1> SUFFICES ASSUME LockInit PROVE OrderInv
  OBVIOUS
<1>1. WaitersQueue
  BY DEF LockInit, WaitersQueue
<1>2. InOrder
  BY DEF LockInit, InOrder
<1> QED BY <1>1, <1>2, LockInit_Inv DEF OrderInv

\* A transaction that holds nothing yet, or nothing any more, waits for nothing.
LEMMA EndOrder ==
    ASSUME OrderInv, NEW t \in Txns, End(t), pc[t] # "wait"
    PROVE  WaitersQueue' /\ InOrder'
<1> USE DEF OrderInv, LockInv, End
<1>1. WaitersQueue'
  BY DEF LockTypeOK, WaitersQueue
<1>2. InOrder'
  BY DEF LockTypeOK, InOrder
<1> QED BY <1>1, <1>2

LEMMA RequestLockOrder ==
    ASSUME OrderInv, NEW t \in Txns, RequestLock(t)
    PROVE  WaitersQueue' /\ InOrder'
<1> USE DEF OrderInv, LockInv, RequestLock
<1>1. /\ lockQueue \in Seq(Txns) /\ Len(lockQueue) \in Nat
      /\ Len(lockQueue') = Len(lockQueue) + 1
      /\ lockQueue'[Len(lockQueue) + 1] = t
      /\ \A i \in 1..Len(lockQueue) : lockQueue[i] \in Txns /\ lockQueue'[i] = lockQueue[i]
  BY DEF LockTypeOK
<1>2. \A i \in 1..Len(lockQueue) : lockQueue[i] # t
  BY DEF WaitersQueue
<1>3. \A i \in 1..(Len(lockQueue) + 1) : i \in 1..Len(lockQueue) \/ i = Len(lockQueue) + 1
  BY <1>1
<1>4. /\ 1..Len(lockQueue) \subseteq 1..(Len(lockQueue) + 1)
      /\ Len(lockQueue) + 1 \in 1..(Len(lockQueue) + 1)
  BY <1>1
<1>5. pc \in [Txns -> TxnStates] /\ pc' = [pc EXCEPT ![t] = "wait"]
  BY DEF LockTypeOK
<1>6. \A u \in Txns : pc'[u] = "wait" => \E i \in 1..Len(lockQueue') : lockQueue'[i] = u
  BY <1>1, <1>4, <1>5 DEF WaitersQueue
<1>7. \A i \in 1..Len(lockQueue') : pc'[lockQueue'[i]] = "wait"
  BY <1>1, <1>3, <1>5 DEF WaitersQueue
<1>8. \A i, j \in 1..Len(lockQueue') : lockQueue'[i] = lockQueue'[j] => i = j
  BY <1>1, <1>2, <1>3 DEF WaitersQueue
<1>9. InOrder'
  BY DEF InOrder
<1> QED BY <1>6, <1>7, <1>8, <1>9 DEF WaitersQueue

LEMMA GrantOrder ==
    ASSUME OrderInv, NEW t \in Txns, Grant(t)
    PROVE  WaitersQueue' /\ InOrder'
<1> DEFINE k == NextKey(t)
<1> USE DEF OrderInv, LockInv
<1>1. /\ pc[t] = "wait"
      /\ held' = [held EXCEPT ![t] = @ \cup {k}]
      /\ pc' = [pc EXCEPT ![t] = "lock"]
      /\ UNCHANGED keys
      /\ \E i \in 1..Len(lockQueue) : /\ lockQueue[i] = t
                                     /\ lockQueue' = RemoveAt(lockQueue, i)
  BY DEF Grant
<1>2. WaitersQueue'
  BY <1>1, Dequeued
<1>3. /\ k \in keys[t] \ held[t]
      /\ \A l \in keys[t] \ held[t] : Rank[k] <= Rank[l]
  BY <1>1, NextKeyLeast DEF StillLacks
<1> HIDE DEF k
<1>4. \A l \in keys[t] \ (held[t] \cup {k}) : Rank[k] < Rank[l]
  <2> TAKE l \in keys[t] \ (held[t] \cup {k})
  <2>1. k \in Keys /\ l \in Keys /\ k # l /\ Rank[k] <= Rank[l]
    BY <1>3 DEF LockTypeOK
  <2>2. Rank[k] \in Nat /\ Rank[l] \in Nat /\ Rank[k] # Rank[l]
    BY <2>1, LockAssumption
  <2> QED BY <2>1, <2>2
<1>5. held'[t] = held[t] \cup {k} /\ \A u \in Txns \ {t} : held'[u] = held[u]
  BY <1>1 DEF LockTypeOK
<1>6. InOrder'
  BY <1>1, <1>4, <1>5 DEF InOrder
<1> QED BY <1>2, <1>6

LEMMA OrderKept == OrderInv /\ [LockNext]_lockVars => OrderInv'
<1> SUFFICES ASSUME OrderInv, [LockNext]_lockVars
             PROVE  OrderInv'
  OBVIOUS
<1>0. LockInv'
  BY LockNext_Inv DEF OrderInv
<1> SUFFICES WaitersQueue' /\ InOrder'
  BY <1>0 DEF OrderInv
<1>1. CASE UNCHANGED <<pc, keys, held, lockQueue>>
  BY <1>1 DEF OrderInv, WaitersQueue, InOrder
<1>2. ASSUME NEW t \in Txns, NEW r \in RequestsOf[t], Begin(t, r)
      PROVE  WaitersQueue' /\ InOrder'
  BY <1>2 DEF Begin, OrderInv, LockInv, LockTypeOK, WaitersQueue, InOrder
<1>3. ASSUME NEW t \in Txns, Resolve(t) PROVE WaitersQueue' /\ InOrder'
  <2>1. held[t] = {} /\ held' = held /\ lockQueue' = lockQueue
    BY <1>3 DEF Resolve, OrderInv, LockInv, NothingYet
  <2>2. \A u \in Txns \ {t} : keys'[u] = keys[u]
    BY <1>3 DEF Resolve, OrderInv, LockInv, LockTypeOK
  <2>3. InOrder'
    BY <2>1, <2>2 DEF OrderInv, InOrder
  <2>4. pc[t] # "wait" /\ pc' = [pc EXCEPT ![t] = "lock"]
    BY <1>3 DEF Resolve
  <2>5. WaitersQueue'
    BY <2>1, <2>4 DEF OrderInv, LockInv, LockTypeOK, WaitersQueue
  <2> QED BY <2>3, <2>5
<1>4. ASSUME NEW t \in Txns, RequestLock(t) PROVE WaitersQueue' /\ InOrder'
  BY <1>4, RequestLockOrder
<1>5. ASSUME NEW t \in Txns, Grant(t) PROVE WaitersQueue' /\ InOrder'
  BY <1>5, GrantOrder
<1>6. ASSUME NEW t \in Txns, CheckClear(t) \/ ToolQuery(t) \/ ToolReturns(t)
      PROVE  WaitersQueue' /\ InOrder'
  <2>1. /\ pc[t] # "wait" /\ UNCHANGED <<keys, held, lockQueue>>
        /\ \E s : s # "wait" /\ pc' = [pc EXCEPT ![t] = s]
    BY <1>6 DEF CheckClear, ToolQuery, ToolReturns
  <2> QED BY <2>1 DEF OrderInv, LockInv, LockTypeOK, WaitersQueue, InOrder
<1>7. ASSUME NEW t \in Txns, TxnEnd(t) PROVE WaitersQueue' /\ InOrder'
  <2>1. End(t) /\ pc[t] # "wait"
    BY <1>7 DEF TxnEnd, CheckRefuse, Commit, Rollback, ToolEnds
  <2> QED BY <2>1, EndOrder
<1>8. ASSUME NEW j \in Jobs, JobStep(j) PROVE WaitersQueue' /\ InOrder'
  BY <1>1, <1>8 DEF JobStep, EndJob, Supersede, Revive, Abandon, txnVars
<1> QED BY <1>1, <1>2, <1>3, <1>4, <1>5, <1>6, <1>7, <1>8 DEF LockNext, TxnStep, lockVars, txnVars

-----------------------------------------------------------------------------
(* No cycle of waiters. *)

\* Finitely many numbers have a largest one.  The places of the sequence are the
\* finitely many; the first of them that the claim would fail at cannot be.
LEMMA Largest ==
    ASSUME NEW n \in Nat, NEW P \in SUBSET (1..n), P # {}, NEW f \in [P -> Nat]
    PROVE  \E p \in P : \A q \in P : f[q] <= f[p]
<1> DEFINE Upto(m) == {q \in P : q <= m}
           Bad == {m \in 0..n : /\ Upto(m) # {}
                                /\ \A p \in Upto(m) : \E q \in Upto(m) : ~(f[q] <= f[p])}
<1>0. \A q \in P : q \in Nat /\ 1 <= q /\ q <= n
  OBVIOUS
<1>1. SUFFICES Bad = {}
  <2>1. Upto(n) = P
    BY <1>0
  <2>2. n \notin Bad /\ n \in 0..n
    BY <1>1
  <2>3. ~(Upto(n) # {} /\ \A p \in Upto(n) : \E q \in Upto(n) : ~(f[q] <= f[p]))
    BY <2>2
  <2> HIDE DEF Upto, Bad
  <2> QED BY <2>1, <2>3
<1>2. SUFFICES ASSUME Bad # {} PROVE FALSE
  OBVIOUS
<1>3. PICK m \in Bad : \A h \in Bad : m <= h
  <2>1. Bad \in SUBSET Nat
    OBVIOUS
  <2> HIDE DEF Bad
  <2> QED BY <1>2, <2>1, Least
<1>4. m \in 1..n /\ m - 1 \in 0..n /\ m - 1 \notin Bad
  <2>1. m \in 0..n /\ Upto(m) # {}
    BY <1>3
  <2>2. m \in 1..n
    <3>1. PICK q \in P : q <= m
      BY <2>1
    <3>2. q \in Nat /\ 1 <= q
      BY <1>0
    <3> HIDE DEF Upto, Bad
    <3> QED BY <2>1, <3>1, <3>2
  <2>3. m - 1 \in 0..n /\ ~(m <= m - 1)
    BY <2>2
  <2> HIDE DEF Bad
  <2> QED BY <1>3, <2>2, <2>3
<1>5. Upto(m) = Upto(m - 1) \cup (IF m \in P THEN {m} ELSE {})
  <2>1. \A q \in P : q <= m <=> q <= m - 1 \/ q = m
    BY <1>4
  <2> QED BY <2>1
<1>6. Upto(m) # {} /\ \A p \in Upto(m) : \E q \in Upto(m) : ~(f[q] <= f[p])
  BY <1>3
<1>7. m \in P
  BY <1>4, <1>5, <1>6
<1>8. CASE Upto(m - 1) = {}
  <2>1. Upto(m) = {m} /\ f[m] \in Nat
    BY <1>5, <1>7, <1>8
  <2> QED BY <1>6, <2>1
<1>9. CASE Upto(m - 1) # {}
  <2>1. PICK p \in Upto(m - 1) : \A q \in Upto(m - 1) : f[q] <= f[p]
    BY <1>4, <1>9
  <2>2. f[p] \in Nat /\ f[m] \in Nat /\ p \in Upto(m) /\ m \in Upto(m)
    BY <1>5, <1>7, <2>1
  <2>3. \A q \in Upto(m - 1) : f[q] \in Nat
    OBVIOUS
  <2> HIDE DEF Upto, Bad
  <2>4. CASE f[m] <= f[p]
    <3>1. \A q \in Upto(m) : f[q] <= f[p]
      BY <1>5, <1>7, <2>1, <2>4
    <3> QED BY <1>6, <2>2, <3>1
  <2>5. CASE f[p] < f[m]
    <3>1. \A q \in Upto(m) : f[q] <= f[m]
      BY <1>5, <1>7, <2>1, <2>2, <2>3, <2>5
    <3> QED BY <1>6, <2>2, <3>1
  <2> QED BY <2>2, <2>4, <2>5
<1> QED BY <1>8, <1>9

\* Of a group of waiters take those whose next key ranks highest, and of them the
\* one that asked first.  Nobody in the group holds its key, because a holder waits
\* for a key beyond all it holds; and nobody in the group asked for it before.
LEMMA SomeoneNotBlocked ==
    ASSUME OrderInv, NEW S \in (SUBSET {t \in Txns : pc[t] = "wait"}) \ {{}}
    PROVE  \E t \in S : \A u \in S : ~Blocks(u, t)
<1> DEFINE n == Len(lockQueue)
           P == {i \in 1..n : lockQueue[i] \in S}
           f == [i \in P |-> Rank[NextKey(lockQueue[i])]]
<1> USE DEF OrderInv, LockInv
<1>1. n \in Nat /\ \A i \in 1..n : lockQueue[i] \in Txns
  BY DEF LockTypeOK
<1>2. \A u \in S : u \in Txns /\ pc[u] = "wait" /\ held[u] # keys[u]
  BY DEF StillLacks
<1>3. \A u \in S : NextKey(u) \in keys[u] \ held[u]
  BY <1>2, NextKeyLeast
<1>4. \A u \in S : NextKey(u) \in Keys /\ Rank[NextKey(u)] \in Nat
  BY <1>2, <1>3, LockAssumption DEF LockTypeOK
<1>5. \A u \in S : \E i \in P : lockQueue[i] = u
  BY <1>2 DEF WaitersQueue
<1>6. P # {} /\ P \in SUBSET (1..n) /\ f \in [P -> Nat]
  <2>1. \A i \in P : Rank[NextKey(lockQueue[i])] \in Nat
    BY <1>4
  <2>2. P # {}
    <3>1. PICK u \in S : TRUE
      OBVIOUS
    <3> HIDE DEF P
    <3> QED BY <1>5, <3>1
  <2> QED BY <2>1, <2>2
<1>7. PICK p \in P : \A q \in P : f[q] <= f[p]
  <2> HIDE DEF n, P, f
  <2> QED BY <1>1, <1>6, Largest
<1> DEFINE T == {i \in P : f[i] = f[p]}
<1>8. PICK i \in T : \A j \in T : i <= j
  <2>1. T \in SUBSET Nat /\ T # {}
    BY <1>1, <1>7
  <2> HIDE DEF T
  <2> QED BY <2>1, Least
<1> DEFINE t == lockQueue[i]
<1>9. i \in P /\ t \in S /\ t \in Txns
  BY <1>1, <1>8
<1>10. \A u \in S : Rank[NextKey(u)] <= Rank[NextKey(t)]
  <2> TAKE u \in S
  <2>1. PICK j \in P : lockQueue[j] = u
    BY <1>5
  <2>2. f[j] <= f[p] /\ f[i] = f[p]
    BY <1>7, <1>8, <2>1
  <2> QED BY <1>9, <2>1, <2>2
<1>11. ASSUME NEW u \in S, Blocks(u, t) PROVE FALSE
  <2>1. CASE NextKey(t) \in held[u]
    <3>1. Rank[NextKey(t)] < Rank[NextKey(u)]
      BY <1>2, <1>3, <2>1 DEF InOrder
    <3>2. Rank[NextKey(u)] <= Rank[NextKey(t)]
      BY <1>10
    <3>3. Rank[NextKey(u)] \in Nat /\ Rank[NextKey(t)] \in Nat
      BY <1>4, <1>9
    <3> HIDE DEF t
    <3> QED BY <3>1, <3>2, <3>3
  <2>2. CASE NextKey(u) = NextKey(t) /\ Ahead(u, t)
    <3>1. PICK h, j \in 1..n : h < j /\ lockQueue[h] = u /\ lockQueue[j] = t
      BY <1>1, <2>2 DEF Ahead, LockTypeOK
    <3>2. j = i
      BY <1>9, <3>1 DEF WaitersQueue
    <3>3. h \in P /\ f[h] = f[i] /\ f[i] = f[p]
      BY <1>8, <1>9, <2>2, <3>1
    <3>4. i <= h
      BY <1>8, <3>3
    <3>5. i \in Nat /\ h \in Nat
      BY <1>1, <1>9, <3>1
    <3> HIDE DEF t, T, P, n
    <3> QED BY <3>1, <3>2, <3>4, <3>5
  <2> QED BY <1>11, <2>1, <2>2 DEF Blocks
<1> QED BY <1>9, <1>11

LEMMA OrderInvariant == LockSpec => []OrderInv
BY OrderStarts, OrderKept, PTL DEF LockSpec

-----------------------------------------------------------------------------
(* The theorems. *)

LEMMA LockInvariant == LockSpec => []LockInv
BY LockInit_Inv, LockNext_Inv, PTL DEF LockSpec

\* The types of the lock's state hold in every reachable state.
THEOREM LockTypesHold == LockSpec => []LockTypeOK
BY LockInvariant, PTL DEF LockInv

\* However many writers, tool calls and job starts interleave, and however often the
\* rows of jobs that are over come back, nothing but such a row coming back puts a
\* running job under a write that is past its check.
THEOREM WritesRunAlone == LockSpec => NoJobUnderWrite
<1> DEFINE A == \A t \in Txns, j \in Jobs : Meets(t, j)' /\ ~Meets(t, j) => j \in attended
<1>1. LockInv /\ [LockNext]_lockVars => [A]_lockVars
  BY NoNewMeeting
<1> HIDE DEF A
<1>2. LockSpec => [][A]_lockVars
  BY <1>1, LockInvariant, PTL DEF LockSpec
<1> QED BY <1>2 DEF A, NoJobUnderWrite

\* Of any number of job starts at once, those admitted declared disjoint scopes, and so
\* did all running jobs whose rows were never over.
THEOREM RunningJobsDisjoint == LockSpec => []JobsDisjoint
BY LockInvariant, PTL DEF LockInv

\* Lockers never deadlock: of any transactions that wait for locks, one waits for
\* none of the others.
THEOREM LockersNeverDeadlock == LockSpec => []NoLockCycle
<1>1. OrderInv => NoLockCycle
  BY SomeoneNotBlocked DEF NoLockCycle
<1> QED BY <1>1, OrderInvariant, PTL
=============================================================================
