------------------------------ MODULE PortalTurn ------------------------------
(***************************************************************************)
(* The turns of one portal (#504): user messages posted to it, the stream  *)
(* connections that answer them, over all API processes, and the Redis     *)
(* lock per pending message that sends a reconnect to wait for the answer  *)
(* and replay it.  A client that cancels its stream, or loses it, may post *)
(* again while the turn runs on (portal-stream.util.ts).                   *)
(***************************************************************************)
EXTENDS Naturals, Sequences

CONSTANTS
    Connections,   \* GETs of /stream
    NoConnection,  \* the holder of a free turn lock
    Messages,      \* the messages the user posts
    Unknown,       \* the pending message of an empty portal
    Settings       \* what may go wrong in a behaviour

\* "redis": a call to Redis fails.  "slow": a turn outlives the lock's TTL.
\* "die": the process of a connection dies.  "notice": a bulk job of the portal
\* ends and writes its row.  "reset": the portal's rows are deleted.
FaultKinds == {"redis", "slow", "die", "notice", "reset"}

ASSUME TurnAssumption ==
    /\ NoConnection \notin Connections
    /\ Unknown \notin Messages
    /\ Settings \subseteq SUBSET FaultKinds

VARIABLES
    faults,        \* fixed: the faults that may happen
    posted,        \* the messages posted so far
    log,           \* portal_messages, oldest first
    lock,          \* of each pending message: who set the key
    pc,            \* a connection: where it stands
    pending,       \* the user's newest message when it read the portal
    replayed,      \* the row it replayed
    beside         \* history: pairs of messages, the second posted while a
                   \* stream of the first was open

vars == <<faults, posted, log, lock, pc, pending, replayed, beside>>

Asked == Messages \cup {Unknown}

\* "answer": a turn's; "notice": notifyJobTerminal's, an assistant row as well.
Row == [role : {"user", "answer", "notice"}, of : Asked]
NoRow == [role |-> "none", of |-> Unknown]

Steps == {"new", "claim", "wait", "turn", "generate", "release", "done", "dead"}
Open == {"claim", "wait", "turn", "generate", "release"}
Owning == {"turn", "generate", "release"}

Fault(f) == f \in faults

Goto(c, step) == pc' = [pc EXCEPT ![c] = step]

Assistant(row) == row.role \in {"answer", "notice"}

IsNewest(i) ==
    /\ log[i].role = "user"
    /\ \A j \in DOMAIN log : j > i => log[j].role # "user"

\* The user's newest message in the portal.
Newest ==
    IF \E i \in DOMAIN log : IsNewest(i)
    THEN log[CHOOSE i \in DOMAIN log : IsNewest(i)].of
    ELSE Unknown

Answered == log # <<>> /\ Assistant(log[Len(log)])

Init ==
    /\ faults \in Settings
    /\ posted = {}
    /\ log = <<>>
    /\ lock = [m \in Asked |-> NoConnection]
    /\ pc = [c \in Connections |-> "new"]
    /\ pending = [c \in Connections |-> Unknown]
    /\ replayed = [c \in Connections |-> NoRow]
    /\ beside = {}

-----------------------------------------------------------------------------
(* The portal *)

\* m becomes the newest message beside the streams that are open.
Newer(m) ==
    beside' = beside \cup {<<pending[c], m>> : c \in {d \in Connections : pc[d] \in Open}}

\* POST /messages: nothing in it looks for a turn under way.
Post(m) ==
    /\ m \notin posted
    /\ posted' = posted \cup {m}
    /\ Newer(m)
    /\ log' = Append(log, [role |-> "user", of |-> m])
    /\ UNCHANGED <<faults, lock, pc, pending, replayed>>

\* Bound: one notice.
Notice ==
    /\ Fault("notice")
    /\ \A i \in DOMAIN log : log[i].role # "notice"
    /\ log' = Append(log, [role |-> "notice", of |-> Unknown])
    /\ UNCHANGED <<faults, posted, lock, pc, pending, replayed, beside>>

\* Deletes the rows of a turn under way as well.
Reset ==
    /\ Fault("reset") /\ log # <<>>
    /\ log' = <<>>
    /\ Newer(Unknown)
    /\ UNCHANGED <<faults, posted, lock, pc, pending, replayed>>

-----------------------------------------------------------------------------
(* A stream *)

\* One read of the history: an answered turn is replayed, a pending one claimed.
\* No client opens the stream of an empty portal, but for a reset it missed.
Read(c) ==
    /\ pc[c] = "new"
    /\ log # <<>> \/ (Fault("reset") /\ posted # {})
    /\ pending' = [pending EXCEPT ![c] = Newest]
    /\ \/ /\ Answered
          /\ replayed' = [replayed EXCEPT ![c] = log[Len(log)]]
          /\ Goto(c, "done")
       \/ /\ ~Answered
          /\ Goto(c, "claim")
          /\ UNCHANGED replayed
    /\ UNCHANGED <<faults, posted, log, lock, beside>>

\* Mutant: SET without NX.
MutantClaim(c) ==
    /\ pc[c] = "claim"
    /\ lock' = [lock EXCEPT ![pending[c]] = c]
    /\ Goto(c, "turn")
    /\ UNCHANGED <<faults, posted, log, pending, replayed, beside>>

\* SET NX PX by the message read; an error fails open.  The history is not read
\* again.
Claim(c) ==
    /\ pc[c] = "claim"
    /\ \/ /\ lock[pending[c]] = NoConnection
          /\ lock' = [lock EXCEPT ![pending[c]] = c]
          /\ Goto(c, "turn")
       \/ /\ lock[pending[c]] # NoConnection
          /\ Goto(c, "wait")
          /\ UNCHANGED lock
       \/ /\ Fault("redis")
          /\ Goto(c, "turn")
          /\ UNCHANGED lock
    /\ UNCHANGED <<faults, posted, log, pending, replayed, beside>>

\* Mutants: the replay takes any assistant row, or whatever row is newest.
MutantReplay(c) ==
    /\ pc[c] = "wait"
    /\ \E i \in DOMAIN log :
         /\ Assistant(log[i])
         /\ replayed' = [replayed EXCEPT ![c] = log[i]]
    /\ Goto(c, "done")
    /\ UNCHANGED <<faults, posted, log, lock, pending, beside>>

MutantPoll(c) ==
    /\ pc[c] = "wait" /\ log # <<>>
    /\ replayed' = [replayed EXCEPT ![c] = log[Len(log)]]
    /\ Goto(c, "done")
    /\ UNCHANGED <<faults, posted, log, lock, pending, beside>>

\* A poll of waitForAnswer finds an assistant row newest, whatever it answers.
Replay(c) ==
    /\ pc[c] = "wait" /\ Answered
    /\ replayed' = [replayed EXCEPT ![c] = log[Len(log)]]
    /\ Goto(c, "done")
    /\ UNCHANGED <<faults, posted, log, lock, pending, beside>>

\* Mutant: the polls have no bound.
MutantGiveUp(c) == FALSE /\ UNCHANGED vars

\* The polls are used up: "still being answered".
GiveUp(c) ==
    /\ pc[c] = "wait" /\ ~Answered
    /\ Goto(c, "done")
    /\ UNCHANGED <<faults, posted, log, lock, pending, replayed, beside>>

\* The write check, the station, its author's access and its context; each may
\* refuse or throw.
Prepare(c) ==
    /\ pc[c] = "turn"
    /\ \E step \in {"generate", "release"} : Goto(c, step)
    /\ UNCHANGED <<faults, posted, log, lock, pending, replayed, beside>>

\* The reply is stored when the model has ended.
Answer(c) ==
    /\ pc[c] = "generate"
    /\ log' = Append(log, [role |-> "answer", of |-> pending[c]])
    /\ Goto(c, "release")
    /\ UNCHANGED <<faults, posted, lock, pending, replayed, beside>>

\* An error of the model or the stream: nothing is stored.
Falter(c) ==
    /\ pc[c] = "generate"
    /\ Goto(c, "release")
    /\ UNCHANGED <<faults, posted, log, lock, pending, replayed, beside>>

\* DEL, whoever holds the key; an error leaves the key to its TTL.
Release(c) ==
    /\ pc[c] = "release"
    /\ \/ lock' = [lock EXCEPT ![pending[c]] = NoConnection]
       \/ Fault("redis") /\ UNCHANGED lock
    /\ Goto(c, "done")
    /\ UNCHANGED <<faults, posted, log, pending, replayed, beside>>

Die(c) ==
    /\ Fault("die") /\ pc[c] \in Open
    /\ Goto(c, "dead")
    /\ UNCHANGED <<faults, posted, log, lock, pending, replayed, beside>>

\* Mutant: the key is set without PX.
MutantLapse(m) == FALSE /\ UNCHANGED vars

\* The TTL, longer than a turn unless "slow".
Lapse(m) ==
    /\ lock[m] # NoConnection
    /\ Fault("slow") \/ pc[lock[m]] \notin Owning
    /\ lock' = [lock EXCEPT ![m] = NoConnection]
    /\ UNCHANGED <<faults, posted, log, pc, pending, replayed, beside>>

-----------------------------------------------------------------------------
Serve(c) ==
    Claim(c) \/ Replay(c) \/ GiveUp(c) \/ Prepare(c) \/ Answer(c) \/ Falter(c)
        \/ Release(c)

Next ==
    \/ \E m \in Messages : Post(m)
    \/ Notice \/ Reset
    \/ \E c \in Connections : Read(c) \/ Serve(c) \/ Die(c)
    \/ \E m \in Asked : Lapse(m)

Spec == Init /\ [][Next]_vars

\* A handler that runs makes its next step, polls included, and keys expire.
FairSpec ==
    /\ Spec
    /\ \A c \in Connections : WF_vars(Serve(c))
    /\ \A m \in Asked : WF_vars(Lapse(m))

-----------------------------------------------------------------------------
(* Properties *)

\* The types of the variables; a row of the user's is never replayed to them.
TurnTypeOK ==
    /\ faults \in Settings
    /\ posted \subseteq Messages
    /\ log \in Seq(Row)
    /\ lock \in [Asked -> Connections \cup {NoConnection}]
    /\ pc \in [Connections -> Steps]
    /\ pending \in [Connections -> Asked]
    /\ replayed \in [Connections -> {row \in Row : Assistant(row)} \cup {NoRow}]
    /\ beside \subseteq Asked \X Asked

\* Two connections never run one message's turn at once, unless Redis fails or a
\* turn outlives the TTL, after which a DEL frees another's key.
OneGeneration ==
    faults \cap {"redis", "slow"} = {} =>
        \A c, d \in Connections :
            pc[c] \in Owning /\ pc[d] \in Owning /\ pending[c] = pending[d]
                => c = d

\* Two messages met: one was posted while a stream of the other was open.
Met(m, n) == m = n \/ <<m, n>> \in beside \/ <<n, m>> \in beside

\* An answer that is replayed is the one to the message the stream was opened for,
\* or to one whose turn ran beside it: the newest assistant row, which is all the
\* code looks at, is never the answer of an exchange that was over before.
ReplayIsRecent ==
    \A c \in Connections :
        replayed[c].role = "answer" => Met(replayed[c].of, pending[c])

\* A message is answered once (portal-turn-guard.service.ts: "the reconnect
\* replays the persisted answer instead of re-generating").
AnsweredOnce ==
    \A i, j \in DOMAIN log :
        log[i].role = "answer" /\ log[j] = log[i] => i = j

\* Every stream ends, those that wait on a turn that never answers too.
EveryStreamEnds ==
    \A c \in Connections : pc[c] \in Open ~> pc[c] \in {"done", "dead"}

\* A turn is never locked for good, whoever dies holding it.
TurnComesFree ==
    \A m \in Asked : lock[m] # NoConnection ~> lock[m] = NoConnection
===============================================================================
