-------------------------------- MODULE JobLock --------------------------------
(***************************************************************************)
(* The job lock (job-lock.service.ts, #769): a running job makes the       *)
(* connector entities or instances it declared read-only.  Every write     *)
(* goes through withUnlocked and every locking job starts through          *)
(* enqueueExclusive; both are PostgreSQL transactions that resolve their   *)
(* targets to scope keys, take a transaction-scoped advisory lock on each  *)
(* key, look for running jobs over those keys, and only then write.        *)
(*                                                                         *)
(* A scope key is the entity or instance it names.  Statements read what   *)
(* was committed when they run (READ COMMITTED), so an entity may be       *)
(* created or deleted between the statement that resolved the keys and the *)
(* one that locks them.  An agent's tool call keeps its transaction open   *)
(* around the tool, which writes over connections of its own, from the     *)
(* same pool.                                                              *)
(*                                                                         *)
(* Only these transactions look before they lock.  The statuses of a job's *)
(* row are written by its worker, by cancels and by the sweep, without an  *)
(* advisory lock and whatever the row holds, so a row that was over may    *)
(* run again, its scopes as declared (Revive).                             *)
(*                                                                         *)
(* Left out: the org scoping (one organization), the 409's text,           *)
(* assertNoneRunning (a pre-flight that changes nothing), and hashtext     *)
(* collisions between keys.                                                *)
(***************************************************************************)
EXTENDS Naturals, Sequences, SequencesExt, FiniteSets

CONSTANTS
    Instances,      \* connector instances
    Entities,       \* connector entities that may ever exist
    InstanceOf,     \* the instance of each entity
    Mapped,         \* entities with a live mapping to "the" column definition
    Initially,      \* the entities that exist at first
    Rank,           \* the sort order of the keys
    RequestsOf,     \* what each transaction may be asked for, within its organization
    Jobs,           \* slots for job rows; an ended job's slot is used again
    Txns,           \* transactions at once: route writes, job starts, tool calls
    Tools,          \* those of them that are agent tool calls
    PoolSize        \* the process's PostgreSQL connections (10 in the code)

Keys == Entities \cup Instances

\* What a transaction may be asked for.  A write names an entity, an instance or
\* the column definition; creating an entity names its instance, deleting names the
\* entity or the instance; a job starts over its declared scopes.
Starts == {{i} : i \in Instances} \cup {s \in SUBSET Entities : s # {}}
Column == "column"

Request ==
    [kind : {"write"}, target : Keys \cup {Column}]
    \cup [kind : {"create"}, target : Entities]
    \cup [kind : {"delete"}, target : Keys]
    \cup [kind : {"start"}, target : Starts, job : Jobs]
NoRequest == [kind |-> "none"]

ASSUME LockAssumption ==
    /\ Entities \cap Instances = {}
    /\ InstanceOf \in [Entities -> Instances]
    /\ Mapped \subseteq Entities
    /\ Initially \subseteq Entities
    /\ Rank \in [Keys -> Nat]
    /\ \A k, l \in Keys : Rank[k] = Rank[l] => k = l
    /\ RequestsOf \in [Txns -> SUBSET Request]
    /\ Tools \subseteq Txns
    /\ \A t \in Tools : \A r \in RequestsOf[t] : r.kind # "start"
    /\ PoolSize \in Nat \ {0}

VARIABLES
    objects,     \* entities and instances that are not deleted
    live,        \* job slots whose row is not terminal
    attended,    \* slots whose row is over while a worker may still write it
    revived,     \* live slots whose row was over before
    scopes,      \* lock_scopes of each job row
    pc,          \* where each transaction stands
    req,         \* what it was asked to do
    keys,        \* the scope keys it resolved
    excl,        \* those of them it takes exclusive
    held,        \* the advisory locks it holds
    lockQueue    \* transactions waiting for an advisory lock, in order of arrival

jobVars == <<live, attended, revived, scopes>>
txnVars == <<pc, req, keys, excl, held, lockQueue>>
lockVars == <<objects, jobVars, txnVars>>

TxnStates == {"idle", "resolve", "lock", "wait", "write", "query", "leave"}

Writing == {"write", "query", "leave"}   \* past the check, before the end

-----------------------------------------------------------------------------
(* Helpers *)

EntityKeys(es) == es \cup {InstanceOf[e] : e \in es}
Under(i) == {e \in objects \cap Entities : InstanceOf[e] = i}

\* resolveScopeKeys of an entity and of an instance, as the rows stand.
ResolveEntity(e) == EntityKeys({e} \cap objects)
ResolveInstance(i) == IF i \in objects THEN {i} \cup Under(i) ELSE {}

\* The keys a request locks: what its targets resolve to, and a job's declared
\* scopes whether or not they resolve.
ResolveScopeKeys(r) ==
    CASE r.kind = "create" -> ResolveInstance(InstanceOf[r.target])
      [] r.kind \in {"write", "delete"} ->
            IF r.target = Column THEN EntityKeys(Mapped \cap objects)
            ELSE IF r.target \in Instances THEN ResolveInstance(r.target)
            ELSE ResolveEntity(r.target)
      [] r.kind = "start" ->
            r.target \cup UNION {IF k \in Instances THEN ResolveInstance(k)
                                 ELSE ResolveEntity(k) : k \in r.target}

\* A job takes its own scopes exclusive, an instance job its entities too; an
\* entity job its instance only shared.
Exclusive(r, ks) ==
    IF r.kind # "start" THEN {}
    ELSE r.target \cup (ks \cap Entities)

\* The connections in use: one per open transaction, one more per tool at work.
InUse == Cardinality({t \in Txns : pc[t] # "idle"})
         + Cardinality({t \in Txns : pc[t] = "query"})

\* Mutant: a job start locks its declared scopes first.
MutantNextKey(t) ==
    LET todo == keys[t] \ held[t]
        first == IF req[t].kind = "start" /\ req[t].target \cap todo # {}
                 THEN req[t].target \cap todo ELSE todo
    IN  CHOOSE k \in first : \A l \in first : Rank[k] <= Rank[l]

\* lockKeys goes through the keys in sorted order.
NextKey(t) == CHOOSE k \in keys[t] \ held[t] :
                  \A l \in keys[t] \ held[t] : Rank[k] <= Rank[l]

\* Mutant: job starts take their locks shared, like everybody else.
MutantCompatible(t, u, k) == TRUE

Compatible(t, u, k) == k \notin excl[t] /\ k \notin excl[u]

\* Mutant: the locks are the session's and outlive the transaction.
MutantEnd(t) ==
    /\ pc' = [pc EXCEPT ![t] = "idle"]
    /\ req' = [req EXCEPT ![t] = NoRequest]
    /\ keys' = [keys EXCEPT ![t] = {}]
    /\ excl' = [excl EXCEPT ![t] = {}]
    /\ UNCHANGED <<held, lockQueue>>

\* The transaction t is over: its locks and its connection are free again.
End(t) ==
    /\ pc' = [pc EXCEPT ![t] = "idle"]
    /\ req' = [req EXCEPT ![t] = NoRequest]
    /\ keys' = [keys EXCEPT ![t] = {}]
    /\ excl' = [excl EXCEPT ![t] = {}]
    /\ held' = [held EXCEPT ![t] = {}]
    /\ UNCHANGED lockQueue

LockInit ==
    /\ objects = Instances \cup Initially
    /\ live = {} /\ attended = {} /\ revived = {}
    /\ scopes = [j \in Jobs |-> {}]
    /\ pc = [t \in Txns |-> "idle"]
    /\ req = [t \in Txns |-> NoRequest]
    /\ keys = [t \in Txns |-> {}]
    /\ excl = [t \in Txns |-> {}]
    /\ held = [t \in Txns |-> {}]
    /\ lockQueue = <<>>

-----------------------------------------------------------------------------
(* Actions *)

\* A caller opens a transaction, on a free connection.  Whoever starts a job has
\* looked its target up before.
Begin(t, r) ==
    /\ pc[t] = "idle" /\ InUse < PoolSize
    /\ r.kind = "start" =>
          /\ r.target \subseteq objects
          /\ r.job \notin live \cup attended
          /\ \A u \in Txns : req[u].kind = "start" => req[u].job # r.job
    /\ r.kind = "create" => r.target \notin objects
    /\ pc' = [pc EXCEPT ![t] = "resolve"]
    /\ req' = [req EXCEPT ![t] = r]
    /\ UNCHANGED <<objects, jobVars, keys, excl, held, lockQueue>>

Resolve(t) ==
    /\ pc[t] = "resolve"
    /\ keys' = [keys EXCEPT ![t] = ResolveScopeKeys(req[t])]
    /\ excl' = [excl EXCEPT ![t] = Exclusive(req[t], ResolveScopeKeys(req[t]))]
    /\ pc' = [pc EXCEPT ![t] = "lock"]
    /\ UNCHANGED <<objects, jobVars, req, held, lockQueue>>

\* pg_advisory_xact_lock(_shared) on the next key: first come, first served, ...
RequestLock(t) ==
    /\ pc[t] = "lock" /\ held[t] # keys[t]
    /\ pc' = [pc EXCEPT ![t] = "wait"]
    /\ lockQueue' = Append(lockQueue, t)
    /\ UNCHANGED <<objects, jobVars, req, keys, excl, held>>

\* ... granted once no holder of the key, and nobody who waits for it longer, is in
\* the way.
Grant(t) ==
    LET k == NextKey(t)
    IN  /\ pc[t] = "wait"
        /\ \A u \in Txns \ {t} : k \in held[u] => Compatible(t, u, k)
        /\ \E i \in 1..Len(lockQueue) :
              /\ lockQueue[i] = t
              /\ \A h \in 1..(i - 1) :
                    NextKey(lockQueue[h]) = k => Compatible(t, lockQueue[h], k)
              /\ lockQueue' = RemoveAt(lockQueue, i)
        /\ held' = [held EXCEPT ![t] = @ \cup {k}]
        /\ pc' = [pc EXCEPT ![t] = "lock"]
        /\ UNCHANGED <<objects, jobVars, req, keys, excl>>

\* Mutant: the running jobs are looked up before the last lock is taken.
MutantCheckClear(t) ==
    /\ pc[t] = "lock"
    /\ \A j \in live : scopes[j] \cap keys[t] = {}
    /\ pc' = [pc EXCEPT ![t] = "write"]
    /\ UNCHANGED <<objects, jobVars, req, keys, excl, held, lockQueue>>

\* findRunningByScopeKeys, with every lock in hand: go on if no running job
\* declared one of the keys, ...
CheckClear(t) ==
    /\ pc[t] = "lock" /\ held[t] = keys[t]
    /\ \A j \in live : scopes[j] \cap keys[t] = {}
    /\ pc' = [pc EXCEPT ![t] = "write"]
    /\ UNCHANGED <<objects, jobVars, req, keys, excl, held, lockQueue>>

\* ... and refuse with 409 ENTITY_LOCKED_BY_JOB (or hand back the same job that is
\* already running) otherwise.
CheckRefuse(t) ==
    /\ pc[t] = "lock" /\ held[t] = keys[t]
    /\ \E j \in live : scopes[j] \cap keys[t] # {}
    /\ End(t)
    /\ UNCHANGED <<objects, jobVars>>

\* What the write leaves behind when it commits.
Effect(t) ==
    LET r == req[t]
    IN  \/ r.kind = "write" /\ UNCHANGED <<objects, jobVars>>
        \/ /\ r.kind = "create"
           /\ objects' = objects \cup {r.target}
           /\ UNCHANGED jobVars
        \/ /\ r.kind = "delete"
           /\ objects' = objects \ ({r.target} \cup
                            IF r.target \in Instances THEN Under(r.target) ELSE {})
           /\ UNCHANGED jobVars
        \/ /\ r.kind = "start"
           /\ live' = live \cup {r.job}
           /\ scopes' = [scopes EXCEPT ![r.job] = r.target]
           /\ UNCHANGED <<objects, attended, revived>>

\* The write commits with the transaction, or throws and rolls it back.
Commit(t) ==
    /\ pc[t] = "write" /\ t \notin Tools
    /\ Effect(t)
    /\ End(t)

Rollback(t) ==
    /\ pc[t] = "write" /\ t \notin Tools
    /\ End(t)
    /\ UNCHANGED <<objects, jobVars>>

\* A tool writes over a connection of its own, in a transaction of its own, ...
ToolQuery(t) ==
    /\ t \in Tools /\ pc[t] = "write" /\ InUse < PoolSize
    /\ pc' = [pc EXCEPT ![t] = "query"]
    /\ UNCHANGED <<objects, jobVars, req, keys, excl, held, lockQueue>>

\* ... which commits, or throws, before the one around it ends.
ToolReturns(t) ==
    /\ pc[t] = "query"
    /\ Effect(t) \/ UNCHANGED <<objects, jobVars>>
    /\ pc' = [pc EXCEPT ![t] = "leave"]
    /\ UNCHANGED <<req, keys, excl, held, lockQueue>>

ToolEnds(t) ==
    /\ pc[t] = "leave"
    /\ End(t)
    /\ UNCHANGED <<objects, jobVars>>

\* A job's row goes terminal, for good, ...
EndJob(j) ==
    /\ j \in live
    /\ live' = live \ {j}
    /\ revived' = revived \ {j}
    /\ scopes' = [scopes EXCEPT ![j] = {}]
    /\ UNCHANGED <<objects, attended, txnVars>>

\* ... or while a worker has the job in hand: a cancel, the sweep or another
\* execution writes the status, lock_scopes stay.
Supersede(j) ==
    /\ j \in live
    /\ live' = live \ {j}
    /\ revived' = revived \ {j}
    /\ attended' = attended \cup {j}
    /\ UNCHANGED <<objects, scopes, txnVars>>

\* The worker's transition to `active` after its pre-read, or its catch's to
\* `pending`, asks neither what the row holds nor for a lock: the job runs again.
Revive(j) ==
    /\ j \in attended
    /\ attended' = attended \ {j}
    /\ live' = live \cup {j}
    /\ revived' = revived \cup {j}
    /\ UNCHANGED <<objects, scopes, txnVars>>

\* The worker's last word is a terminal status, too.
Abandon(j) ==
    /\ j \in attended
    /\ attended' = attended \ {j}
    /\ scopes' = [scopes EXCEPT ![j] = {}]
    /\ UNCHANGED <<objects, live, revived, txnVars>>

JobStep(j) == EndJob(j) \/ Supersede(j) \/ Revive(j) \/ Abandon(j)

TxnStep(t) ==
    \/ Resolve(t) \/ RequestLock(t) \/ Grant(t) \/ CheckClear(t)
    \/ ToolQuery(t) \/ ToolReturns(t)
TxnEnd(t) == CheckRefuse(t) \/ Commit(t) \/ Rollback(t) \/ ToolEnds(t)

LockNext ==
    \/ \E t \in Txns : \/ \E r \in RequestsOf[t] : Begin(t, r)
                       \/ TxnStep(t) \/ TxnEnd(t)
    \/ \E j \in Jobs : JobStep(j)

LockSpec == LockInit /\ [][LockNext]_lockVars

-----------------------------------------------------------------------------
(* Properties *)

\* Type invariant; a transaction waits in the queue exactly while it asked for a
\* lock, and holds only keys it resolved.
LockTypeOK ==
    /\ objects \subseteq Keys
    /\ live \subseteq Jobs /\ attended \subseteq Jobs \ live /\ revived \subseteq live
    /\ scopes \in [Jobs -> SUBSET Keys]
    /\ pc \in [Txns -> TxnStates]
    /\ req \in [Txns -> Request \cup {NoRequest}]
    /\ keys \in [Txns -> SUBSET Keys]
    /\ excl \in [Txns -> SUBSET Keys]
    /\ held \in [Txns -> SUBSET Keys]
    /\ \A t \in Txns : held[t] \subseteq keys[t] /\ (pc[t] = "idle" <=> req[t] = NoRequest)
    /\ lockQueue \in Seq(Txns)

\* A running job locks a key of a write that is past its check.
Meets(t, j) == pc[t] \in Writing /\ j \in live /\ scopes[j] \cap keys[t] # {}

\* From its check to its commit a write, or a tool call, is alone: no step of any
\* transaction or job puts it beside a running job that locks one of its keys
\* (withUnlocked, job-lock.service.ts:343), but one: that a worker brings back a job
\* whose row was over when the write looked (jobs.worker.ts:207 and :291).
NoJobUnderWrite ==
    [][\A t \in Txns, j \in Jobs : Meets(t, j)' /\ ~Meets(t, j) => j \in attended]_lockVars

\* Two running jobs never declared a common scope, unless the row of one of them was
\* over before: of two syncs of one instance, or two transforms that share an entity,
\* one is refused.
JobsDisjoint ==
    \A j, k \in live \ revived : j # k => scopes[j] \cap scopes[k] = {}

\* u keeps t from the key t waits for: u holds it, or asked for it first, and one of
\* the two wants it exclusive.
Ahead(u, t) ==
    \E i, j \in DOMAIN lockQueue : i < j /\ lockQueue[i] = u /\ lockQueue[j] = t

Blocks(u, t) ==
    LET k == NextKey(t)
    IN  /\ u # t /\ ~Compatible(t, u, k)
        /\ k \in held[u] \/ (pc[u] = "wait" /\ NextKey(u) = k /\ Ahead(u, t))

\* No deadlock: the transactions that wait for locks never wait only for each other.
\* In any group of waiters one waits for nobody of the group, because all take
\* their keys in one order (lockKeys, job-lock.service.ts:165).
NoLockCycle ==
    \A S \in (SUBSET {t \in Txns : pc[t] = "wait"}) \ {{}} :
        \E t \in S : \A u \in S : ~Blocks(u, t)
=============================================================================
