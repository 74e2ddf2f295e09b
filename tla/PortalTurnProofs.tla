--------------------------- MODULE PortalTurnProofs ---------------------------
(***************************************************************************)
(* Proofs about PortalTurn: its types; that two connections never run one  *)
(* message's turn at once while Redis works and no turn outlives its lock; *)
(* and that no replay is of an exchange that never met its stream's.       *)
(***************************************************************************)
EXTENDS PortalTurn, TLAPS

\* Under those assumptions the connection that runs a turn is the one that set
\* its key.
KeyIsOwners ==
    faults \cap {"redis", "slow"} = {} =>
        \A c \in Connections : pc[c] \in Owning => lock[pending[c]] = c

TurnInv == TurnTypeOK /\ KeyIsOwners

-----------------------------------------------------------------------------
(* Types *)

LEMMA NewestIsAsked == TurnTypeOK => Newest \in Asked
<1> SUFFICES ASSUME TurnTypeOK PROVE Newest \in Asked
  OBVIOUS
<1>1. \A i \in DOMAIN log : log[i].of \in Asked
  <2>1. \A i \in DOMAIN log : log[i] \in Row
    BY DEF TurnTypeOK
  <2> QED  BY <2>1 DEF Row
<1>2. CASE \E i \in DOMAIN log : IsNewest(i)
  <2>1. (CHOOSE i \in DOMAIN log : IsNewest(i)) \in DOMAIN log
    BY <1>2
  <2> QED  BY <1>1, <1>2, <2>1 DEF Newest
<1>3. CASE ~ \E i \in DOMAIN log : IsNewest(i)
  BY <1>3 DEF Newest, Asked
<1> QED  BY <1>2, <1>3

LEMMA LastIsRow ==
    TurnTypeOK /\ Answered => log[Len(log)] \in {row \in Row : Assistant(row)}
BY DEF TurnTypeOK, Answered

LEMMA NewerIsAsked ==
    ASSUME TurnTypeOK, NEW m \in Asked, Newer(m) PROVE beside' \subseteq Asked \X Asked
BY DEF TurnTypeOK, Newer

LEMMA TypesInitially == Init => TurnTypeOK
BY TurnAssumption DEF Init, TurnTypeOK, Row, Asked, Steps

LEMMA TypesKept == TurnTypeOK /\ [Next]_vars => TurnTypeOK'
<1> SUFFICES ASSUME TurnTypeOK, [Next]_vars PROVE TurnTypeOK'
  OBVIOUS
<1> USE DEF TurnTypeOK, Steps, Goto
<1>1. ASSUME NEW m \in Messages, Post(m) PROVE TurnTypeOK'
  <2>1. [role |-> "user", of |-> m] \in Row
    BY DEF Row, Asked
  <2>2. beside' \subseteq Asked \X Asked
    BY <1>1, NewerIsAsked DEF Post, Asked
  <2> QED  BY <1>1, <2>1, <2>2 DEF Post
<1>2. CASE Notice
  <2>1. [role |-> "notice", of |-> Unknown] \in Row
    BY DEF Row, Asked
  <2> QED  BY <1>2, <2>1 DEF Notice
<1>3. CASE Reset
  <2>1. beside' \subseteq Asked \X Asked
    BY <1>3, NewerIsAsked DEF Reset, Asked
  <2> QED  BY <1>3, <2>1 DEF Reset
<1>4. ASSUME NEW c \in Connections, Read(c) PROVE TurnTypeOK'
  BY <1>4, NewestIsAsked, LastIsRow DEF Read
<1>5. ASSUME NEW c \in Connections, Claim(c) PROVE TurnTypeOK'
  BY <1>5 DEF Claim
<1>6. ASSUME NEW c \in Connections, Replay(c) PROVE TurnTypeOK'
  BY <1>6, LastIsRow DEF Replay
<1>7. ASSUME NEW c \in Connections, GiveUp(c) \/ Prepare(c) \/ Falter(c) \/ Die(c)
      PROVE TurnTypeOK'
  BY <1>7 DEF GiveUp, Prepare, Falter, Die
<1>8. ASSUME NEW c \in Connections, Answer(c) PROVE TurnTypeOK'
  <2>1. [role |-> "answer", of |-> pending[c]] \in Row
    BY DEF Row
  <2> QED  BY <1>8, <2>1 DEF Answer
<1>9. ASSUME NEW c \in Connections, Release(c) PROVE TurnTypeOK'
  BY <1>9 DEF Release
<1>10. ASSUME NEW m \in Asked, Lapse(m) PROVE TurnTypeOK'
  BY <1>10 DEF Lapse
<1>11. CASE UNCHANGED vars
  BY <1>11 DEF vars
<1> QED
  BY <1>1, <1>2, <1>3, <1>4, <1>5, <1>6, <1>7, <1>8, <1>9, <1>10, <1>11
  DEF Next, Serve

\* TurnTypeOK: the variables keep their types, and no row of the user's is
\* replayed to them.
THEOREM TurnTypesHold == Spec => []TurnTypeOK
<1>1. Init => TurnTypeOK
  BY TypesInitially
<1>2. TurnTypeOK /\ [Next]_vars => TurnTypeOK'
  BY TypesKept
<1> QED  BY <1>1, <1>2, PTL DEF Spec

-----------------------------------------------------------------------------
(* One generation *)

LEMMA KeysKept == TurnInv /\ [Next]_vars => KeyIsOwners'
<1> SUFFICES ASSUME TurnTypeOK, KeyIsOwners, [Next]_vars,
                    (faults \cap {"redis", "slow"} = {})',
                    NEW d \in Connections, (pc[d] \in Owning)'
             PROVE  (lock[pending[d]] = d)'
  BY DEF TurnInv, KeyIsOwners
<1>0. faults' = faults
  BY DEF Next, Serve, Post, Notice, Reset, Read, Claim, Replay, GiveUp, Prepare,
         Answer, Falter, Release, Die, Lapse, vars
<1>1. /\ ~Fault("redis") /\ ~Fault("slow")
      /\ \A c \in Connections : pc[c] \in Owning => lock[pending[c]] = c
  BY <1>0 DEF KeyIsOwners, Fault
<1> USE DEF TurnTypeOK, Goto, Owning
<1>2. ASSUME UNCHANGED <<lock, pc, pending>> PROVE (lock[pending[d]] = d)'
  BY <1>1, <1>2
<1>3. ASSUME NEW c \in Connections, Read(c) PROVE (lock[pending[d]] = d)'
  BY <1>1, <1>3 DEF Read
<1>4. ASSUME NEW c \in Connections, Claim(c) PROVE (lock[pending[d]] = d)'
  BY <1>1, <1>4, TurnAssumption DEF Claim
<1>5. ASSUME NEW c \in Connections,
             \/ Replay(c) \/ GiveUp(c) \/ Prepare(c) \/ Answer(c) \/ Falter(c)
             \/ Die(c)
      PROVE (lock[pending[d]] = d)'
  BY <1>1, <1>5 DEF Replay, GiveUp, Prepare, Answer, Falter, Die
<1>6. ASSUME NEW c \in Connections, Release(c) PROVE (lock[pending[d]] = d)'
  BY <1>1, <1>6 DEF Release
<1>7. ASSUME NEW m \in Asked, Lapse(m) PROVE (lock[pending[d]] = d)'
  BY <1>1, <1>7 DEF Lapse
<1> QED
  BY <1>2, <1>3, <1>4, <1>5, <1>6, <1>7
  DEF Next, Serve, Post, Notice, Reset, vars

\* OneGeneration: the turn guard keeps a message's turn to one connection.
THEOREM OneGenerationAtATime == Spec => []OneGeneration
<1>1. Init => TurnInv
  BY TypesInitially DEF Init, TurnInv, KeyIsOwners, Owning
<1>2. TurnInv /\ [Next]_vars => TurnInv'
  BY TypesKept, KeysKept DEF TurnInv
<1>3. TurnInv => OneGeneration
  BY DEF TurnInv, KeyIsOwners, OneGeneration
<1> QED  BY <1>1, <1>2, <1>3, PTL DEF Spec

-----------------------------------------------------------------------------
(* Replays *)

\* The newest question of a history.
NewestIn(l, i) == l[i].role = "user" /\ \A j \in DOMAIN l : j > i => l[j].role # "user"
NewestOf(l) ==
    IF \E i \in DOMAIN l : NewestIn(l, i)
    THEN l[CHOOSE i \in DOMAIN l : NewestIn(l, i)].of
    ELSE Unknown

LEMMA NewestOfLog == Newest = NewestOf(log) /\ Newest' = NewestOf(log')
BY DEF Newest, NewestOf, IsNewest, NewestIn

\* It is the row of the user's that none of theirs follows.
LEMMA NewestIs ==
    ASSUME NEW l \in Seq(Row), NEW i \in DOMAIN l, NewestIn(l, i)
    PROVE  NewestOf(l) = l[i].of
<1> DEFINE k == CHOOSE j \in DOMAIN l : NewestIn(l, j)
<1>1. k \in DOMAIN l /\ NewestIn(l, k)
  OBVIOUS
<1>2. NewestOf(l) = l[k].of
  BY DEF NewestOf
<1> HIDE DEF k
<1>3. ~(k > i) /\ ~(i > k)
  BY <1>1 DEF NewestIn
<1>4. k = i
  BY <1>1, <1>3
<1> QED  BY <1>2, <1>4

\* A new row of the user's becomes the newest question.
LEMMA PostIsNewest ==
    ASSUME NEW l \in Seq(Row), NEW row \in Row, row.role = "user"
    PROVE  NewestOf(Append(l, row)) = row.of
<1> DEFINE a == Append(l, row)
           n == Len(l) + 1
<1>1. a \in Seq(Row) /\ n \in DOMAIN a /\ a[n] = row /\ \A j \in DOMAIN a : ~(j > n)
  OBVIOUS
<1> HIDE DEF a, n
<1>2. NewestIn(a, n)
  BY <1>1 DEF NewestIn
<1>3. NewestOf(a) = row.of
  BY <1>1, <1>2, NewestIs
<1> QED  BY <1>3 DEF a

\* A row of the assistant's does not change it.
LEMMA AnswerKeepsNewest ==
    ASSUME NEW l \in Seq(Row), NEW row \in Row, row.role # "user"
    PROVE  NewestOf(Append(l, row)) = NewestOf(l)
<1> DEFINE a == Append(l, row)
           n == Len(l) + 1
<1>1. /\ a \in Seq(Row) /\ DOMAIN a = DOMAIN l \cup {n} /\ n \notin DOMAIN l
      /\ a[n] = row /\ \A i \in DOMAIN l : a[i] = l[i]
  OBVIOUS
<1> HIDE DEF a, n
<1>2. \A i \in DOMAIN l : NewestIn(a, i) <=> NewestIn(l, i)
  BY <1>1 DEF NewestIn
<1>3. ~NewestIn(a, n)
  BY <1>1 DEF NewestIn
<1>4. CASE ~\E i \in DOMAIN l : NewestIn(l, i)
  <2>1. ~\E i \in DOMAIN a : NewestIn(a, i)
    BY <1>1, <1>2, <1>3, <1>4
  <2> QED  BY <1>4, <2>1 DEF NewestOf, a
<1>5. ASSUME NEW i \in DOMAIN l, NewestIn(l, i) PROVE NewestOf(a) = NewestOf(l)
  <2>1. i \in DOMAIN a /\ NewestIn(a, i) /\ a[i] = l[i]
    BY <1>1, <1>2, <1>5
  <2>2. NewestOf(l) = l[i].of
    BY <1>5, NewestIs
  <2>3. NewestOf(a) = a[i].of
    BY <1>1, <2>1, NewestIs
  <2> QED  BY <2>1, <2>2, <2>3
<1> QED  BY <1>4, <1>5 DEF a

\* The open streams and the newest question are of messages that met; an answer that
\* is the newest row is to one that met all of these; and a replay is of one that met
\* the stream's own.
LastMeets(m) == Answered /\ log[Len(log)].role = "answer" => Met(log[Len(log)].of, m)

Recent ==
    /\ LastMeets(Newest)
    /\ \A c \in Connections :
           /\ pc[c] = "new" => replayed[c] = NoRow
           /\ pc[c] \in Open => Met(pending[c], Newest) /\ LastMeets(pending[c])
    /\ \A c, d \in Connections :
           pc[c] \in Open /\ pc[d] \in Open => Met(pending[c], pending[d])
    /\ ReplayIsRecent

\* Steps that write no row and open no stream.
LEMMA RecentUndisturbed ==
    ASSUME Recent, UNCHANGED <<log, pending, replayed>>, beside \subseteq beside',
           \A c \in Connections : /\ pc'[c] \in Open => pc[c] \in Open
                                  /\ pc'[c] = "new" => pc[c] = "new"
    PROVE  Recent'
BY DEF Recent, LastMeets, Newest, IsNewest, Answered, Assistant, Met, ReplayIsRecent

\* A question, or a reset, becomes the newest beside the streams that are open.
LEMMA RecentAfterNewer ==
    ASSUME Recent, NEW m \in Asked, Newer(m), Newest' = m, ~Answered',
           UNCHANGED <<pc, pending, replayed>>
    PROVE  Recent'
<1>1. beside \subseteq beside' /\ \A c \in Connections : pc[c] \in Open => <<pending[c], m>> \in beside'
  BY DEF Newer
<1> QED  BY <1>1 DEF Recent, LastMeets, Met, ReplayIsRecent

LEMMA RecentAfterRead ==
    ASSUME TurnTypeOK, Recent, NEW c \in Connections, Read(c) PROVE Recent'
<1>1. /\ UNCHANGED <<log, beside>> /\ pc[c] = "new" /\ pending' = [pending EXCEPT ![c] = Newest]
      /\ Newest' = Newest /\ (Answered' <=> Answered)
  BY DEF Read, Newest, IsNewest, Answered, Assistant
<1>2. \A m : LastMeets(m)' <=> LastMeets(m)
  BY <1>1 DEF LastMeets, Met
<1>3. \A m, n : Met(m, n)' <=> Met(m, n)
  BY <1>1 DEF Met
<1>4. \A m, n : Met(m, n) <=> Met(n, m)
  BY DEF Met
<1>5. Met(Newest, Newest)
  BY DEF Met
<1> USE DEF TurnTypeOK, Goto
<1>6. CASE Answered /\ replayed' = [replayed EXCEPT ![c] = log[Len(log)]]
                    /\ pc' = [pc EXCEPT ![c] = "done"]
  <2>1. ReplayIsRecent'
    BY <1>1, <1>3, <1>6 DEF Recent, LastMeets, ReplayIsRecent, Met
  <2>2. /\ LastMeets(Newest)'
        /\ \A d \in Connections :
               /\ pc'[d] = "new" => replayed'[d] = NoRow
               /\ pc'[d] \in Open => Met(pending[d], Newest)' /\ LastMeets(pending[d])'
    BY <1>1, <1>2, <1>3, <1>6 DEF Recent, Open
  <2> QED  BY <1>1, <1>3, <1>6, <2>1, <2>2 DEF Recent, Open
<1>7. CASE ~Answered /\ UNCHANGED replayed /\ pc' = [pc EXCEPT ![c] = "claim"]
  <2>1. ReplayIsRecent'
    BY <1>1, <1>3, <1>7 DEF Recent, ReplayIsRecent, NoRow
  <2>2. \A m : LastMeets(m)'
    BY <1>1, <1>7 DEF LastMeets
  <2>3. \A d \in Connections : pc'[d] \in Open => Met(pending'[d], Newest)
    BY <1>1, <1>5, <1>7 DEF Recent
  <2>4. \A d, e \in Connections :
            pc'[d] \in Open /\ pc'[e] \in Open => Met(pending'[d], pending'[e])
    BY <1>1, <1>4, <1>5, <1>7 DEF Recent
  <2> QED  BY <1>1, <1>3, <1>7, <2>1, <2>2, <2>3, <2>4 DEF Recent
<1> QED  BY <1>6, <1>7 DEF Read

LEMMA RecentAfterReplay ==
    ASSUME TurnTypeOK, Recent, NEW c \in Connections, Replay(c) PROVE Recent'
<1>1. /\ UNCHANGED <<log, pending, beside>> /\ pc[c] = "wait" /\ Answered
      /\ replayed' = [replayed EXCEPT ![c] = log[Len(log)]]
      /\ pc' = [pc EXCEPT ![c] = "done"]
      /\ Newest' = Newest /\ (Answered' <=> Answered)
  BY DEF Replay, Goto, Newest, IsNewest, Answered, Assistant
<1>2. \A m : LastMeets(m)' <=> LastMeets(m)
  BY <1>1 DEF LastMeets, Met
<1>3. \A m, n : Met(m, n)' <=> Met(m, n)
  BY <1>1 DEF Met
<1> USE DEF TurnTypeOK
<1>4. ReplayIsRecent'
  BY <1>1, <1>3 DEF Recent, LastMeets, ReplayIsRecent, Open
<1>5. /\ LastMeets(Newest)'
      /\ \A d \in Connections :
             /\ pc'[d] = "new" => replayed'[d] = NoRow
             /\ pc'[d] \in Open => Met(pending[d], Newest)' /\ LastMeets(pending[d])'
  BY <1>1, <1>2, <1>3 DEF Recent, Open
<1> QED  BY <1>1, <1>3, <1>4, <1>5 DEF Recent, Open

\* A row of the assistant's: the notice of a job, or the answer of an open stream.
LEMMA RecentAfterRow ==
    ASSUME TurnTypeOK, Recent, NEW row \in Row, row.role # "user",
           log' = Append(log, row), UNCHANGED <<pending, replayed, beside>>,
           \A c \in Connections : /\ pc'[c] \in Open => pc[c] \in Open
                                  /\ pc'[c] = "new" => pc[c] = "new",
           row.role = "answer" =>
               \E c \in Connections : pc[c] \in Open /\ row.of = pending[c]
    PROVE  Recent'
<1>1. Newest' = Newest
  BY AnswerKeepsNewest, NewestOfLog DEF TurnTypeOK
<1>2. \A m, n : Met(m, n)' <=> Met(m, n)
  BY DEF Met
<1>3. log'[Len(log')] = row
  BY DEF TurnTypeOK
<1>4. LastMeets(Newest)'
  BY <1>1, <1>2, <1>3 DEF Recent, LastMeets
<1>5. \A d \in Connections : pc'[d] \in Open => LastMeets(pending[d])'
  BY <1>2, <1>3 DEF Recent, LastMeets
<1> QED  BY <1>1, <1>2, <1>4, <1>5 DEF Recent, ReplayIsRecent

LEMMA RecentKept == TurnTypeOK /\ Recent /\ [Next]_vars => Recent'
<1> SUFFICES ASSUME TurnTypeOK, Recent, [Next]_vars PROVE Recent'
  OBVIOUS
<1> USE DEF TurnTypeOK, Goto
<1>1. ASSUME NEW m \in Messages, Post(m) PROVE Recent'
  <2> DEFINE row == [role |-> "user", of |-> m]
  <2>1. row \in Row /\ row.role = "user" /\ row.of = m /\ log' = Append(log, row)
    BY <1>1 DEF Post, Row, Asked
  <2> HIDE DEF row
  <2>2. Newest' = m
    BY <2>1, PostIsNewest, NewestOfLog
  <2>3. ~Answered'
    BY <2>1 DEF Answered, Assistant
  <2> QED  BY <1>1, <2>2, <2>3, RecentAfterNewer DEF Post, Asked
<1>2. CASE Notice
  <2> DEFINE row == [role |-> "notice", of |-> Unknown]
  <2>1. row \in Row /\ row.role = "notice" /\ log' = Append(log, row)
    BY <1>2 DEF Notice, Row, Asked
  <2>2. UNCHANGED <<pc, pending, replayed, beside>>
    BY <1>2 DEF Notice
  <2> HIDE DEF row
  <2> QED  BY <2>1, <2>2, RecentAfterRow
<1>3. CASE Reset
  <2>1. Newest' = Unknown /\ ~Answered'
    BY <1>3 DEF Reset, Newest, IsNewest, Answered
  <2> QED  BY <1>3, <2>1, RecentAfterNewer DEF Reset, Asked
<1>4. ASSUME NEW c \in Connections, Read(c) PROVE Recent'
  BY <1>4, RecentAfterRead
<1>5. ASSUME NEW c \in Connections, Replay(c) PROVE Recent'
  BY <1>5, RecentAfterReplay
<1>6. ASSUME NEW c \in Connections, Answer(c) PROVE Recent'
  <2>1. PICK row \in Row : row = [role |-> "answer", of |-> pending[c]]
    BY DEF Row
  <2>2. row.role # "user" /\ row.of = pending[c]
    BY <2>1
  <2>3. log' = Append(log, row) /\ pc[c] \in Open
    BY <1>6, <2>1 DEF Answer, Open
  <2>4. UNCHANGED <<pending, replayed, beside>>
    BY <1>6 DEF Answer
  <2>5. \A d \in Connections : /\ pc'[d] \in Open => pc[d] \in Open
                               /\ pc'[d] = "new" => pc[d] = "new"
    BY <1>6 DEF Answer, Open
  <2> QED  BY <2>2, <2>3, <2>4, <2>5, RecentAfterRow
<1>7. ASSUME NEW c \in Connections,
             Claim(c) \/ GiveUp(c) \/ Prepare(c) \/ Falter(c) \/ Release(c) \/ Die(c)
      PROVE Recent'
  <2>1. /\ UNCHANGED <<log, pending, replayed, beside>> /\ pc[c] \in Open
        /\ \E step \in Steps \ {"new"} : pc' = [pc EXCEPT ![c] = step]
    BY <1>7 DEF Claim, GiveUp, Prepare, Falter, Release, Die, Steps, Open
  <2>2. \A d \in Connections : /\ pc'[d] \in Open => pc[d] \in Open
                               /\ pc'[d] = "new" => pc[d] = "new"
    BY <2>1
  <2> QED  BY <2>1, <2>2, RecentUndisturbed
<1>8. CASE (\E m \in Asked : Lapse(m)) \/ UNCHANGED vars
  <2>1. UNCHANGED <<log, pending, replayed, pc, beside>>
    BY <1>8 DEF Lapse, vars
  <2> QED  BY <2>1, RecentUndisturbed
<1> QED
  BY <1>1, <1>2, <1>3, <1>4, <1>5, <1>6, <1>7, <1>8 DEF Next, Serve

\* ReplayIsRecent: whatever is posted, reset or noted over the open streams, and
\* whatever Redis does, a stream replays the answer to its own message or to one
\* whose turn ran beside it.
THEOREM ReplaysAreRecent == Spec => []ReplayIsRecent
<1> DEFINE Inv == TurnTypeOK /\ Recent
<1>1. Init => Inv
  BY TypesInitially DEF Init, Recent, LastMeets, Answered, Open, ReplayIsRecent, NoRow
<1>2. Inv /\ [Next]_vars => Inv'
  BY TypesKept, RecentKept
<1>3. Inv => ReplayIsRecent
  BY DEF Recent
<1> HIDE DEF Inv
<1> QED  BY <1>1, <1>2, <1>3, PTL DEF Spec

===============================================================================
