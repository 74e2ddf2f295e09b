------------------------------ MODULE SeatsProofs ------------------------------
(***************************************************************************)
(* Proofs about Seats: its types, that an invitation seats one user, that  *)
(* invitations keep the cap where nothing is accepted or resent, and that  *)
(* an owner stays.                                                         *)
(***************************************************************************)
EXTENDS Seats, FiniteSetTheorems, FunctionTheorems, TLAPS

\* What a request does between the lock and its unlock.
Locked == {"count", "admit", "create", "target", "heal", "owners", "drop",
           "strip", "assign", "unlock"}

Accepting == {"consume", "attach", "join", "grant", "touch"}

\* The lock's holder is the request inside it, on its own connection.
LockInv ==
    \A r \in Requests :
        /\ req[r].pc \in Locked <=> holder = r
        /\ req[r].pc = "wait" => r \in reserved

\* A request has the arguments of its operation, one of the setting's.
AskInv ==
    \A r \in Requests :
        /\ req[r].op # "none" => req[r].op \in setting.ops
        /\ req[r].pc \in Accepting =>
             /\ req[r].op = "accept"
             /\ req[r].user \in Users /\ req[r].row \in Invites
        /\ req[r].pc \in {"find", "update"} =>
             /\ req[r].op \in {"revoke", "resend"}
             /\ req[r].row \in Invites

\* An invitation with a membership, or about to give one, is spent by its user.
SpentBy(i, u) ==
    invite[i].status \notin {"none", "pending"} /\ invite[i].by = u

SpentAfter(i, u) ==
    invite'[i].status \notin {"none", "pending"} /\ invite'[i].by = u

SpentInv ==
    /\ \A m \in members : m.via \in Invites => SpentBy(m.via, m.user)
    /\ \A r \in Requests :
         req[r].pc \in {"attach", "join"} => SpentBy(req[r].row, req[r].user)

SeatInv == SeatTypeOK /\ LockInv /\ AskInv

-----------------------------------------------------------------------------
(* Memberships are finitely many *)

LEMMA MembershipIsFinite == IsFiniteSet(Membership)
<1> DEFINE Sources == Invites \cup {Founding}
           Triples == (Users \X Sources) \X Roles
           f == [t \in Triples |->
                   [user |-> t[1][1], via |-> t[1][2], role |-> t[2]]]
<1>1. IsFiniteSet(Sources) /\ IsFiniteSet(Users)
  BY FS_AddElement, SeatAssumption
<1>2. IsFiniteSet(Roles)
  <2>1. Roles = {"owner"} \cup {"member"}
    BY DEF Roles
  <2> QED  BY <2>1, FS_Singleton, FS_AddElement
<1> HIDE DEF Sources
<1>3. IsFiniteSet(Triples)
  BY <1>1, <1>2, FS_Product
<1>4. f \in Surjection(Triples, Membership)
  <2>1. \A t \in Triples : f[t] \in Membership
    BY DEF Membership, Sources
  <2>2. ASSUME NEW m \in Membership PROVE \E t \in Triples : f[t] = m
    <3>1. <<<<m.user, m.via>>, m.role>> \in Triples
      BY DEF Membership, Sources
    <3>2. f[<<<<m.user, m.via>>, m.role>>] = m
      BY <3>1 DEF Membership
    <3> QED  BY <3>1, <3>2
  <2> HIDE DEF Triples
  <2>3. f \in [Triples -> Membership]
    BY <2>1
  <2> QED  BY <2>2, <2>3 DEF Surjection
<1> QED  BY <1>3, <1>4, FS_Surjection

LEMMA MembersAreFinite ==
    SeatTypeOK => IsFiniteSet(members) /\ Cardinality(members) \in Nat
BY MembershipIsFinite, FS_Subset, FS_CardinalityType DEF SeatTypeOK

-----------------------------------------------------------------------------
(* A request's next step *)

LEMMA NoteSteps ==
    ASSUME SeatTypeOK, NEW r \in Requests, NEW q \in Request, NEW step \in Steps,
           Note(r, q, step)
    PROVE  /\ req' \in [Requests -> Request]
           /\ \A d \in Requests : d # r => req'[d] = req[d]
           /\ req'[r].pc = step
           /\ step # "done" =>
                /\ req'[r].op = q.op /\ req'[r].user = q.user
                /\ req'[r].row = q.row /\ req'[r].want = q.want
                /\ req'[r].counted = q.counted
           /\ step = "done" => req'[r].op = "none"
<1>1. After(q, step) \in Request
  <2>1. CASE step = "done"
    <3>1. At("done") \in Request
      BY DEF At, Request, Steps, Roles
    <3> QED  BY <2>1, <3>1 DEF After
  <2>2. CASE step # "done"
    BY <2>2 DEF After, Request
  <2> QED  BY <2>1, <2>2
<1>2. /\ After(q, step).pc = step
      /\ step # "done" =>
           /\ After(q, step).op = q.op /\ After(q, step).user = q.user
           /\ After(q, step).row = q.row /\ After(q, step).want = q.want
           /\ After(q, step).counted = q.counted
      /\ step = "done" => After(q, step).op = "none"
  BY DEF After, At, Request
<1>3. req' = [req EXCEPT ![r] = After(q, step)]
  BY DEF Note
<1>4. req \in [Requests -> Request]
  BY DEF SeatTypeOK
<1> HIDE DEF Request
<1> QED  BY <1>1, <1>2, <1>3, <1>4

\* How a request moves: the lock and the kinds of steps it goes through.
Moves(r, q, step) ==
    /\ q \in Request /\ step \in Steps
    /\ q.op = req[r].op /\ q.user = req[r].user
    /\ req[r].pc # "target" => q.row = req[r].row
    /\ step \in Accepting => req[r].pc \in Accepting
    /\ step \in {"find", "update"} => req[r].pc \in {"find", "update"}
    /\ step = "join" => req[r].pc = "attach"
    /\ step = "attach" => req[r].pc = "consume"
    /\ step = "create" => req[r].pc = "admit"
    /\ step = "admit" => req[r].pc = "count"
    /\ step \in Locked => req[r].pc \in Locked \cup {"wait"}
    /\ req[r].pc \in Locked /\ step \notin Locked =>
         req[r].pc = "unlock" \/ Die(r)
    /\ step = "wait" => req[r].pc = "reserve"
    /\ step # "new" /\ req[r].pc # "new"

LEMMA ServeMoves ==
    ASSUME SeatTypeOK, NEW r \in Requests, Serve(r) \/ Die(r)
    PROVE  \E q, step : Note(r, q, step) /\ Moves(r, q, step)
<1> DEFINE Still(step) ==
      /\ step \in Steps
      /\ step \in Accepting => req[r].pc \in Accepting
      /\ step \in {"find", "update"} => req[r].pc \in {"find", "update"}
      /\ step = "join" => req[r].pc = "attach"
      /\ step = "attach" => req[r].pc = "consume"
      /\ step = "create" => req[r].pc = "admit"
      /\ step = "admit" => req[r].pc = "count"
      /\ step \in Locked => req[r].pc \in Locked \cup {"wait"}
      /\ req[r].pc \in Locked /\ step \notin Locked =>
           req[r].pc = "unlock" \/ Die(r)
      /\ step = "wait" => req[r].pc = "reserve"
      /\ step # "new" /\ req[r].pc # "new"
<1>0. req[r] \in Request
  BY DEF SeatTypeOK
<1>1. ASSUME NEW step, Goto(r, step), Still(step)
      PROVE \E q, s : Note(r, q, s) /\ Moves(r, q, s)
  <2>1. Note(r, req[r], step) /\ Moves(r, req[r], step)
    BY <1>0, <1>1 DEF Goto, Moves
  <2> QED  BY <2>1
<1> HIDE DEF Still
<1> DEFINE Moved == \E step : Goto(r, step) /\ Still(step)
<1>2. Check(r) => Moved
  <2>1. Check(r) => Still(IF Member(req[r].user) THEN "done" ELSE "reserve")
    BY DEF Check, Still, Steps, Accepting, Locked
  <2> QED  BY <2>1 DEF Check
<1>3. Reserve(r) => Moved
  <2>1. Reserve(r) => Still("wait")
    BY DEF Reserve, Still, Steps, Accepting, Locked
  <2> QED  BY <2>1 DEF Reserve
<1>4. Acquire(r) => Moved
  <2>1. Acquire(r) => Still(IF req[r].op = "invite" THEN "count" ELSE "target")
    BY DEF Acquire, Still, Steps, Accepting, Locked
  <2> QED  BY <2>1 DEF Acquire
<1>5. TimeOut(r) \/ Unlock(r) \/ Grant(r) \/ Touch(r) \/ Update(r) \/ Die(r) => Moved
  <2>1. TimeOut(r) \/ Unlock(r) \/ Grant(r) \/ Touch(r) \/ Update(r) \/ Die(r)
        => Still("done") /\ Goto(r, "done")
    BY DEF TimeOut, Unlock, Grant, Touch, Update, Die, Still, Steps, Accepting, Locked
  <2> QED  BY <2>1
<1>6. Admit(r) => Moved
  <2>1. Admit(r) =>
          Still(IF req[r].counted + Cardinality(PendingActive) < MaxSeats
                THEN "create" ELSE "unlock")
    BY DEF Admit, Still, Steps, Accepting, Locked
  <2> QED  BY <2>1 DEF Admit
<1>7. Create(r) \/ Strip(r) \/ Assign(r) => Moved
  <2>1. Create(r) \/ Strip(r) \/ Assign(r) => Still("unlock") /\ Goto(r, "unlock")
    BY DEF Create, Strip, Assign, Still, Steps, Accepting, Locked
  <2> QED  BY <2>1
<1>8. HealTarget(r) => Moved
  <2>1. HealTarget(r) => Still("owners") /\ Goto(r, "owners")
    BY DEF HealTarget, Still, Steps, Accepting, Locked
  <2> QED  BY <2>1
<1>9. CountOwners(r) => Moved
  <2>1. CountOwners(r) => Still("unlock") /\ Still("drop") /\ Still("assign")
    BY DEF CountOwners, Still, Steps, Accepting, Locked
  <2>2. CountOwners(r) =>
          Goto(r, "unlock") \/ Goto(r, "drop") \/ Goto(r, "assign")
    BY DEF CountOwners
  <2> QED  BY <2>1, <2>2
<1>10. Drop(r) => Moved
  <2>1. Drop(r) => Still("strip") /\ Goto(r, "strip")
    BY DEF Drop, Still, Steps, Accepting, Locked
  <2> QED  BY <2>1
<1>11. Consume(r) => Moved
  <2>1. Consume(r) => Still("attach") /\ Still("done")
    BY DEF Consume, Still, Steps, Accepting, Locked
  <2>2. Consume(r) => Goto(r, "attach") \/ Goto(r, "done")
    BY DEF Consume
  <2> QED  BY <2>1, <2>2
<1>12. Join(r) => Moved
  <2>1. Join(r) => Still("grant") /\ Goto(r, "grant")
    BY DEF Join, Still, Steps, Accepting, Locked
  <2> QED  BY <2>1
<1>13. Find(r) => Moved
  <2>1. Find(r) => Still(IF invite[req[r].row].status = "pending"
                         THEN "update" ELSE "done")
    BY DEF Find, Still, Steps, Accepting, Locked
  <2> QED  BY <2>1 DEF Find
<1>14. ASSUME Count(r)
       PROVE  \E q, step : Note(r, q, step) /\ Moves(r, q, step)
  <2> DEFINE q == [req[r] EXCEPT !.counted = Cardinality(members)]
             s == IF \E i \in Invites : /\ invite[i].status = "pending"
                                        /\ invite[i].email = req[r].user
                  THEN "unlock" ELSE "admit"
  <2>0. Cardinality(members) \in Nat
    BY MembersAreFinite
  <2>1. q \in Request /\ q.op = req[r].op /\ q.user = req[r].user
        /\ q.row = req[r].row
    BY <1>0, <2>0 DEF Request
  <2>2. Note(r, q, s) /\ Still(s)
    BY <1>14 DEF Count, Still, Steps, Accepting, Locked
  <2> HIDE DEF q, s
  <2>3. Moves(r, q, s)
    BY <2>1, <2>2 DEF Moves, Still
  <2> QED  BY <2>2, <2>3
<1>15. ASSUME Target(r)
       PROVE  \E q, step : Note(r, q, step) /\ Moves(r, q, step)
  <2>1. CASE Goto(r, "unlock")
    <3>1. Still("unlock")
      BY <1>15 DEF Target, Still, Steps, Accepting, Locked
    <3> QED  BY <1>1, <2>1, <3>1
  <2>2. CASE \E m \in members :
               Note(r, [req[r] EXCEPT !.row = m.via],
                    IF req[r].op = "remove" /\ m.role # "owner"
                    THEN "drop" ELSE "heal")
    <3>1. PICK m \in members :
               Note(r, [req[r] EXCEPT !.row = m.via],
                    IF req[r].op = "remove" /\ m.role # "owner"
                    THEN "drop" ELSE "heal")
      BY <2>2
    <3> DEFINE q == [req[r] EXCEPT !.row = m.via]
               s == IF req[r].op = "remove" /\ m.role # "owner"
                    THEN "drop" ELSE "heal"
    <3>2. m.via \in Invites \cup {Founding}
      BY DEF SeatTypeOK, Membership
    <3>3. q \in Request /\ q.op = req[r].op /\ q.user = req[r].user
      BY <1>0, <3>2 DEF Request
    <3>4. Note(r, q, s) /\ Still(s) /\ req[r].pc = "target"
      BY <1>15, <3>1 DEF Target, Still, Steps, Accepting, Locked
    <3> HIDE DEF q, s
    <3>5. Moves(r, q, s)
      BY <3>3, <3>4 DEF Moves, Still
    <3> QED  BY <3>4, <3>5
  <2> QED  BY <1>15, <2>1, <2>2 DEF Target
<1>16. ASSUME Attach(r)
       PROVE  \E q, step : Note(r, q, step) /\ Moves(r, q, step)
  <2>1. CASE Goto(r, "join")
    <3>1. Still("join")
      BY <1>16 DEF Attach, Still, Steps, Accepting, Locked
    <3> QED  BY <1>1, <2>1, <3>1
  <2>2. CASE \E m \in members :
               Note(r, [req[r] EXCEPT !.want = m.role], "touch")
    <3>1. PICK m \in members :
               Note(r, [req[r] EXCEPT !.want = m.role], "touch")
      BY <2>2
    <3> DEFINE q == [req[r] EXCEPT !.want = m.role]
    <3>2. m.role \in Roles
      BY DEF SeatTypeOK, Membership
    <3>3. /\ q \in Request /\ q.op = req[r].op /\ q.user = req[r].user
          /\ q.row = req[r].row
      BY <1>0, <3>2 DEF Request
    <3>4. Note(r, q, "touch") /\ Still("touch")
      BY <1>16, <3>1 DEF Attach, Still, Steps, Accepting, Locked
    <3> HIDE DEF q
    <3>5. Moves(r, q, "touch")
      BY <3>3, <3>4 DEF Moves, Still
    <3> QED  BY <3>4, <3>5
  <2> QED  BY <1>16, <2>1, <2>2 DEF Attach
<1> HIDE DEF Moved
<1>17. Moved => \E q, step : Note(r, q, step) /\ Moves(r, q, step)
  BY <1>1 DEF Moved
<1> QED
  BY <1>2, <1>3, <1>4, <1>5, <1>6, <1>7, <1>8, <1>9, <1>10, <1>11, <1>12,
     <1>13, <1>14, <1>15, <1>16, <1>17
  DEF Serve

\* What a new request is.
Asks(q) ==
    /\ q \in Request /\ q.op \in setting.ops
    /\ q.pc \in {"check", "consume", "find", "reserve"}
    /\ q.pc = "consume" =>
         /\ q.op = "accept" /\ q.row \in Invites
         /\ q.user \in Users /\ q.user \in setting.accepters
    /\ q.pc \in {"check", "reserve"} => q.op \in Queued /\ q.user \in Users
    /\ q.pc = "find" => q.op \in {"revoke", "resend"} /\ q.row \in Invites

LEMMA AskingAsks ==
    ASSUME SeatTypeOK, NEW r \in Requests, Asking(r)
    PROVE  /\ UNCHANGED <<setting, tables, lock>>
           /\ req[r].pc = "new"
           /\ \E q : req' = [req EXCEPT ![r] = q] /\ Asks(q)
<1>1. ASSUME NEW o \in Operations, NEW u \in Users \cup {NoUser},
             NEW i \in Invites \cup {Founding}, NEW k \in Nat, NEW w \in Roles,
             Ask(r, o, u, i, k, w),
             o = "accept" =>
               u \in Users /\ u \in setting.accepters /\ i \in Invites,
             o \in Queued => u \in Users,
             o \in {"revoke", "resend"} => i \in Invites
      PROVE  /\ UNCHANGED <<setting, tables, lock>>
             /\ req[r].pc = "new"
             /\ \E q : req' = [req EXCEPT ![r] = q] /\ Asks(q)
  <2> DEFINE q == [pc |-> First(o), op |-> o, user |-> u, row |-> i, token |-> k,
                   want |-> w, counted |-> 0]
  <2>1. /\ First(o) \in {"check", "consume", "find", "reserve"}
        /\ First(o) = "consume" => o = "accept"
        /\ First(o) = "find" => o \in {"revoke", "resend"}
        /\ First(o) \in {"check", "reserve"} => o \in Queued
    BY DEF First, Operations, Queued
  <2>2. q \in Request
    BY <2>1 DEF Request, Steps
  <2>3. Asks(q)
    BY <1>1, <2>1, <2>2 DEF Asks, Ask
  <2>4. req' = [req EXCEPT ![r] = q]
    BY <1>1 DEF Ask
  <2> HIDE DEF q
  <2> QED  BY <1>1, <2>3, <2>4 DEF Ask
<1>2. "member" \in Roles /\ "owner" \in Roles
  BY DEF Roles
<1> USE DEF Operations, Queued
<1>3. CASE AskInvite(r)
  BY <1>1, <1>2, <1>3 DEF AskInvite
<1>4. CASE AskRemove(r)
  BY <1>1, <1>2, <1>4 DEF AskRemove
<1>5. CASE AskRoles(r)
  BY <1>1, <1>5 DEF AskRoles
<1>6. CASE AskChange(r)
  BY <1>1, <1>2, <1>6 DEF AskChange
<1>7. CASE AskAccept(r)
  <2>1. setting.accepters \subseteq Users
    BY SeatAssumption DEF SeatTypeOK
  <2>2. \A i \in Invites : 1..invite[i].token \subseteq Nat
    BY DEF SeatTypeOK, Invitation
  <2> QED  BY <1>1, <1>2, <1>7, <2>1, <2>2 DEF AskAccept
<1> QED  BY <1>3, <1>4, <1>5, <1>6, <1>7 DEF Asking

-----------------------------------------------------------------------------
(* The requests *)

LEMMA RequestsKept ==
    SeatTypeOK /\ AskInv /\ [Next]_vars
        => AskInv' /\ req' \in [Requests -> Request] /\ setting' = setting
<1> SUFFICES ASSUME SeatTypeOK, AskInv, [Next]_vars
             PROVE  /\ AskInv' /\ req' \in [Requests -> Request]
                    /\ setting' = setting
  OBVIOUS
<1>0. req \in [Requests -> Request]
  BY DEF SeatTypeOK
<1>1. CASE UNCHANGED <<setting, req>>
  BY <1>0, <1>1 DEF AskInv
<1>2. ASSUME NEW r \in Requests, Asking(r)
      PROVE  /\ AskInv' /\ req' \in [Requests -> Request]
             /\ setting' = setting
  <2>1. PICK q : req' = [req EXCEPT ![r] = q] /\ Asks(q)
    BY <1>2, AskingAsks
  <2>2. setting' = setting
    BY <1>2, AskingAsks
  <2>3. req' \in [Requests -> Request] /\ req'[r] = q
        /\ \A d \in Requests : d # r => req'[d] = req[d]
    BY <1>0, <2>1 DEF Asks
  <2> QED  BY <2>1, <2>2, <2>3 DEF AskInv, Asks, Accepting
<1>3. ASSUME NEW r \in Requests, Serve(r) \/ Die(r)
      PROVE  /\ AskInv' /\ req' \in [Requests -> Request]
             /\ setting' = setting
  <2>1. PICK q, step : Note(r, q, step) /\ Moves(r, q, step)
    BY <1>3, ServeMoves
  <2>2. setting' = setting
    BY <1>3 DEF Serve, Check, Reserve, Acquire, TimeOut, Unlock, Count, Admit,
       Create, Target, HealTarget, CountOwners, Drop, Strip, Assign, Consume,
       Attach, Join, Grant, Touch, Find, Update, Die
  <2>3. /\ req' \in [Requests -> Request]
        /\ \A d \in Requests : d # r => req'[d] = req[d]
        /\ req'[r].pc = step
        /\ step # "done" => req'[r].op = q.op /\ req'[r].user = q.user
                            /\ req'[r].row = q.row
        /\ step = "done" => req'[r].op = "none"
    BY <2>1, NoteSteps DEF Moves
  <2>4. /\ (req[r].op # "none" => req[r].op \in setting.ops)
        /\ (req[r].pc \in Accepting =>
              /\ req[r].op = "accept"
              /\ req[r].user \in Users /\ req[r].row \in Invites)
        /\ (req[r].pc \in {"find", "update"} =>
              /\ req[r].op \in {"revoke", "resend"}
              /\ req[r].row \in Invites)
    BY DEF AskInv
  <2>5. /\ (req'[r].op # "none" => req'[r].op \in setting.ops)
        /\ (req'[r].pc \in Accepting =>
              /\ req'[r].op = "accept"
              /\ req'[r].user \in Users /\ req'[r].row \in Invites)
        /\ (req'[r].pc \in {"find", "update"} =>
              /\ req'[r].op \in {"revoke", "resend"}
              /\ req'[r].row \in Invites)
    BY <2>1, <2>3, <2>4 DEF Moves, Accepting
  <2> QED  BY <2>2, <2>3, <2>5 DEF AskInv
<1>4. CASE Expire
  BY <1>1, <1>4 DEF Expire
<1>5. CASE UNCHANGED vars
  BY <1>1, <1>5 DEF vars
<1> QED  BY <1>2, <1>3, <1>4, <1>5 DEF Next

LEMMA LockKept == SeatInv /\ [Next]_vars => LockInv'
<1> SUFFICES ASSUME SeatTypeOK, LockInv, [Next]_vars PROVE LockInv'
  BY DEF SeatInv
<1>0. req \in [Requests -> Request] /\ NoRequest \notin Requests
  BY SeatAssumption DEF SeatTypeOK
<1>1. CASE UNCHANGED <<req, lock>>
  BY <1>1 DEF LockInv, lock
<1>2. ASSUME NEW r \in Requests, Asking(r) PROVE LockInv'
  <2>1. PICK q : req' = [req EXCEPT ![r] = q] /\ Asks(q)
    BY <1>2, AskingAsks
  <2>2. UNCHANGED lock /\ req[r].pc = "new"
    BY <1>2, AskingAsks
  <2>3. req'[r] = q /\ \A d \in Requests : d # r => req'[d] = req[d]
    BY <1>0, <2>1
  <2>4. q.pc \notin Locked /\ q.pc # "wait"
    BY <2>1 DEF Asks, Locked
  <2> QED  BY <2>2, <2>3, <2>4 DEF LockInv, lock, Locked
<1>3. ASSUME NEW r \in Requests, Serve(r) \/ Die(r) PROVE LockInv'
  <2>1. PICK q, step : Note(r, q, step) /\ Moves(r, q, step)
    BY <1>3, ServeMoves
  <2>2. /\ \A d \in Requests : d # r => req'[d] = req[d]
        /\ req'[r].pc = step
    BY <2>1, NoteSteps DEF Moves
  <2>3. /\ step \in Locked => req[r].pc \in Locked \cup {"wait"}
        /\ req[r].pc \in Locked /\ step \notin Locked =>
             req[r].pc = "unlock" \/ Die(r)
        /\ step = "wait" => req[r].pc = "reserve"
    BY <2>1 DEF Moves
  <2>4. \A d \in Requests :
          /\ req[d].pc \in Locked <=> holder = d
          /\ req[d].pc = "wait" => d \in reserved
    BY DEF LockInv
  <2>5. CASE Reserve(r)
    <3>1. step = "wait" /\ UNCHANGED holder /\ reserved' = reserved \cup {r}
          /\ req[r].pc = "reserve"
      <4>1. req[r] \in Request /\ "wait" \in Steps
        BY <1>0 DEF Steps
      <4> QED  BY <2>2, <2>5, <4>1, NoteSteps DEF Reserve, Goto
    <3> QED  BY <2>2, <2>4, <3>1 DEF LockInv, Locked
  <2>6. CASE Acquire(r)
    <3>1. step \in Locked
      <4> DEFINE next == IF req[r].op = "invite" THEN "count" ELSE "target"
      <4>1. req[r] \in Request /\ next \in Steps /\ Note(r, req[r], next)
        BY <1>0, <2>6 DEF Steps, Acquire, Goto
      <4>2. req'[r].pc = next
        BY <4>1, NoteSteps
      <4> QED  BY <2>2, <4>2 DEF Locked
    <3>2. holder' = r /\ holder = NoRequest /\ UNCHANGED reserved
      BY <2>6 DEF Acquire
    <3> QED  BY <1>0, <2>2, <2>4, <3>1, <3>2 DEF LockInv, Locked
  <2>7. CASE TimeOut(r) \/ Unlock(r) \/ Die(r)
    <3>1. Goto(r, "done")
      BY <2>7 DEF TimeOut, Unlock, Die
    <3>2. req'[r].pc = "done"
      BY <1>0, <3>1, NoteSteps DEF Goto, Steps
    <3>3. reserved' = reserved \ {r}
      BY <2>7 DEF TimeOut, Unlock, Die
    <3>4. \/ holder' = NoRequest /\ holder = r
          \/ holder' = holder /\ holder # r
      BY <2>4, <2>7 DEF TimeOut, Unlock, Die, Locked
    <3> QED  BY <1>0, <2>2, <2>4, <3>2, <3>3, <3>4 DEF LockInv, Locked
  <2>8. CASE ~(Reserve(r) \/ Acquire(r) \/ TimeOut(r) \/ Unlock(r) \/ Die(r))
    <3>1. UNCHANGED lock /\ req[r].pc \notin {"reserve", "wait", "unlock"}
      BY <1>3, <2>8
      DEF Serve, Check, Count, Admit, Create, Target, HealTarget, CountOwners,
          Drop, Strip, Assign, Consume, Attach, Join, Grant, Touch, Find, Update
    <3> QED  BY <2>2, <2>3, <2>4, <2>8, <3>1 DEF LockInv, lock
  <2> QED  BY <2>5, <2>6, <2>7, <2>8
<1>4. CASE Expire
  BY <1>1, <1>4 DEF Expire
<1>5. CASE UNCHANGED vars
  BY <1>1, <1>5 DEF vars
<1> QED  BY <1>2, <1>3, <1>4, <1>5 DEF Next

-----------------------------------------------------------------------------
(* Types *)

LEMMA ConnectionsKept ==
    SeatInv /\ [Next]_vars =>
        /\ reserved' \subseteq Requests /\ Cardinality(reserved') <= Pool
        /\ holder' \in reserved' \cup {NoRequest}
<1> SUFFICES ASSUME SeatTypeOK, LockInv, [Next]_vars
             PROVE  /\ reserved' \subseteq Requests /\ Cardinality(reserved') <= Pool
                    /\ holder' \in reserved' \cup {NoRequest}
  BY DEF SeatInv
<1>0. /\ reserved \subseteq Requests /\ IsFiniteSet(reserved)
      /\ Cardinality(reserved) \in Nat /\ Cardinality(reserved) <= Pool
      /\ holder \in reserved \cup {NoRequest} /\ Pool \in Nat
  BY FS_Subset, FS_CardinalityType, SeatAssumption DEF SeatTypeOK
<1>1. CASE UNCHANGED lock
  BY <1>0, <1>1 DEF lock
<1>2. ASSUME NEW r \in Requests, Reserve(r)
      PROVE  /\ reserved' \subseteq Requests /\ Cardinality(reserved') <= Pool
             /\ holder' \in reserved' \cup {NoRequest}
  <2>1. Cardinality(reserved \cup {r}) <= Cardinality(reserved) + 1
    <3>1. \/ Cardinality(reserved \cup {r}) = Cardinality(reserved)
          \/ Cardinality(reserved \cup {r}) = Cardinality(reserved) + 1
      <4>1. CASE r \in reserved
        <5>1. reserved \cup {r} = reserved
          BY <4>1
        <5> QED  BY <5>1
      <4>2. CASE r \notin reserved
        BY <1>0, <4>2, FS_AddElement
      <4> QED  BY <4>1, <4>2
    <3> QED  BY <1>0, <3>1
  <2>2. Cardinality(reserved \cup {r}) \in Nat
    BY <1>0, FS_AddElement, FS_CardinalityType
  <2> QED  BY <1>0, <1>2, <2>1, <2>2 DEF Reserve, CanQuery
<1>3. ASSUME NEW r \in Requests, Acquire(r)
      PROVE  /\ reserved' \subseteq Requests /\ Cardinality(reserved') <= Pool
             /\ holder' \in reserved' \cup {NoRequest}
  BY <1>0, <1>3 DEF Acquire, LockInv
<1>4. ASSUME NEW r \in Requests, TimeOut(r) \/ Unlock(r) \/ Die(r)
      PROVE  /\ reserved' \subseteq Requests /\ Cardinality(reserved') <= Pool
             /\ holder' \in reserved' \cup {NoRequest}
  <2>1. Cardinality(reserved \ {r}) <= Cardinality(reserved)
    BY <1>0, FS_Subset
  <2>2. Cardinality(reserved \ {r}) \in Nat
    BY <1>0, FS_RemoveElement, FS_CardinalityType
  <2>3. reserved' = reserved \ {r} /\ holder' \in (reserved \ {r}) \cup {NoRequest}
    <3>1. req[r].pc = "wait" => holder # r
      BY DEF LockInv, Locked
    <3> QED  BY <1>0, <1>4, <3>1 DEF TimeOut, Unlock, Die
  <2> QED  BY <1>0, <2>1, <2>2, <2>3
<1>5. ASSUME NEW r \in Requests,
             Serve(r), ~(Reserve(r) \/ Acquire(r) \/ TimeOut(r) \/ Unlock(r))
      PROVE  UNCHANGED lock
  BY <1>5
  DEF Serve, Check, Count, Admit, Create, Target, HealTarget, CountOwners,
      Drop, Strip, Assign, Consume, Attach, Join, Grant, Touch, Find, Update
<1>6. ASSUME NEW r \in Requests, Asking(r) PROVE UNCHANGED lock
  BY <1>6, AskingAsks
<1>7. CASE Expire
  BY <1>1, <1>7 DEF Expire
<1>8. CASE UNCHANGED vars
  BY <1>1, <1>8 DEF vars
<1> QED  BY <1>1, <1>2, <1>3, <1>4, <1>5, <1>6, <1>7, <1>8 DEF Next

LEMMA TablesKept ==
    SeatInv /\ [Next]_vars =>
        /\ members' \subseteq Membership
        /\ roles' \in [Users -> SUBSET Roles]
        /\ invite' \in [Invites -> Invitation]
<1> SUFFICES ASSUME SeatTypeOK, AskInv, [Next]_vars
             PROVE  /\ members' \subseteq Membership
                    /\ roles' \in [Users -> SUBSET Roles]
                    /\ invite' \in [Invites -> Invitation]
  BY DEF SeatInv
<1> DEFINE Typed == /\ members' \subseteq Membership
                    /\ roles' \in [Users -> SUBSET Roles]
                    /\ invite' \in [Invites -> Invitation]
<1>0. /\ members \subseteq Membership /\ roles \in [Users -> SUBSET Roles]
      /\ invite \in [Invites -> Invitation] /\ req \in [Requests -> Request]
      /\ "owner" \in Roles /\ "member" \in Roles
  BY DEF SeatTypeOK, Roles
<1>1. CASE UNCHANGED tables
  BY <1>0, <1>1 DEF tables
<1>2. ASSUME NEW r \in Requests, Create(r) PROVE Typed
  <2>1. [status |-> "pending", email |-> req[r].user, live |-> TRUE,
         token |-> 1, by |-> NoUser] \in Invitation
    <3>1. req[r].user \in Users \cup {NoUser}
      BY <1>0 DEF Request
    <3> QED  BY <3>1 DEF Invitation
  <2> QED  BY <1>0, <1>2, <2>1 DEF Create
<1>3. ASSUME NEW r \in Requests, HealTarget(r) PROVE Typed
  BY <1>0, <1>3 DEF HealTarget, Heal, Membership
<1>4. ASSUME NEW r \in Requests, Drop(r) \/ Strip(r) PROVE Typed
  BY <1>0, <1>4 DEF Drop, Strip
<1>5. ASSUME NEW r \in Requests, Assign(r) PROVE Typed
  <2>1. req[r].want \in Roles
    BY <1>0 DEF Request
  <2>2. \A m \in members : [m EXCEPT !.role = req[r].want] \in Membership
    BY <1>0, <2>1 DEF Membership
  <2> QED  BY <1>0, <1>5, <2>1, <2>2 DEF Assign
<1>6. ASSUME NEW r \in Requests, Consume(r) PROVE Typed
  <2>1. req[r].user \in Users /\ req[r].row \in Invites
    BY <1>6 DEF Consume, AskInv, Accepting
  <2>2. [invite[req[r].row] EXCEPT !.status = "accepted", !.by = req[r].user]
          \in Invitation
    BY <1>0, <2>1, ZenonT(60) DEF Invitation
  <2>3. \/ UNCHANGED invite
        \/ invite' = [invite EXCEPT ![req[r].row] =
              [invite[req[r].row] EXCEPT !.status = "accepted", !.by = req[r].user]]
    BY <1>0, <1>6, <2>1 DEF Consume, Invitation
  <2> QED  BY <1>0, <1>6, <2>1, <2>2, <2>3 DEF Consume
<1>7. ASSUME NEW r \in Requests, Join(r) PROVE Typed
  <2>1. req[r].user \in Users /\ req[r].row \in Invites
    BY <1>7 DEF Join, AskInv, Accepting
  <2> QED  BY <1>0, <1>7, <2>1 DEF Join, Membership
<1>8. ASSUME NEW r \in Requests, Grant(r) PROVE Typed
  BY <1>0, <1>8 DEF Grant
<1>9. ASSUME NEW r \in Requests, Touch(r) PROVE Typed
  <2>1. req[r].want \in Roles
    BY <1>0 DEF Request
  <2> QED  BY <1>0, <1>9, <2>1 DEF Touch, Heal
<1>10. ASSUME NEW r \in Requests, Update(r) PROVE Typed
  <2>1. req[r].row \in Invites
    BY <1>10 DEF Update, AskInv
  <2> DEFINE row == invite[req[r].row]
  <2>2. /\ [row EXCEPT !.status = "revoked"] \in Invitation
        /\ [row EXCEPT !.token = row.token + 1, !.live = TRUE] \in Invitation
    <3>1. row \in Invitation
      BY <1>0, <2>1
    <3>2. row.token + 1 \in Nat
      BY <3>1 DEF Invitation
    <3> HIDE DEF row
    <3> QED  BY <3>1, <3>2 DEF Invitation
  <2>3. \/ invite' = [invite EXCEPT ![req[r].row] = [row EXCEPT !.status = "revoked"]]
        \/ invite' = [invite EXCEPT ![req[r].row] =
                        [row EXCEPT !.token = row.token + 1, !.live = TRUE]]
    BY <1>0, <1>10, <2>1 DEF Update, Invitation
  <2> HIDE DEF row
  <2> QED  BY <1>0, <1>10, <2>1, <2>2, <2>3 DEF Update
<1>11. CASE Expire
  <2>1. PICK i \in PendingActive : invite' = [invite EXCEPT ![i].live = FALSE]
    BY <1>11 DEF Expire
  <2>2. i \in Invites /\ [invite[i] EXCEPT !.live = FALSE] \in Invitation
    BY <1>0 DEF PendingActive, Invitation
  <2> QED  BY <1>0, <1>11, <2>1, <2>2 DEF Expire
<1>12. ASSUME NEW r \in Requests,
              \/ Check(r) \/ Reserve(r) \/ Acquire(r) \/ TimeOut(r) \/ Unlock(r)
              \/ Count(r) \/ Admit(r) \/ Target(r) \/ CountOwners(r)
              \/ Attach(r) \/ Find(r) \/ Die(r)
       PROVE UNCHANGED tables
  BY <1>12 DEF Check, Reserve, Acquire, TimeOut, Unlock, Count, Admit, Target,
               CountOwners, Attach, Find, Die
<1>13. ASSUME NEW r \in Requests, Asking(r) PROVE UNCHANGED tables
  BY <1>13, AskingAsks
<1>14. CASE UNCHANGED vars
  BY <1>1, <1>14 DEF vars
<1> QED
  BY <1>1, <1>2, <1>3, <1>4, <1>5, <1>6, <1>7, <1>8, <1>9, <1>10, <1>11, <1>12,
     <1>13, <1>14
  DEF Next, Serve

LEMMA SeatInvHolds == Spec => []SeatInv
<1>1. Init => SeatInv
  <2> SUFFICES ASSUME Init PROVE SeatInv
    OBVIOUS
  <2>1. members \subseteq Membership
    BY SeatAssumption DEF Init, Membership, Roles
  <2>2. roles \in [Users -> SUBSET Roles]
    BY DEF Init, Roles
  <2>3. invite \in [Invites -> Invitation]
    BY DEF Init, Invitation
  <2>4. req \in [Requests -> Request]
    BY DEF Init, At, Request, Steps, Roles
  <2>5. reserved \subseteq Requests /\ Cardinality(reserved) <= Pool
        /\ holder \in reserved \cup {NoRequest}
    BY FS_EmptySet, SeatAssumption DEF Init
  <2>6. \A r \in Requests : req[r].pc = "new" /\ req[r].op = "none"
    BY DEF Init, At
  <2>7. \A r \in Requests : holder # r
    BY SeatAssumption DEF Init
  <2> QED
    BY <2>1, <2>2, <2>3, <2>4, <2>5, <2>6, <2>7
    DEF Init, SeatInv, SeatTypeOK, LockInv, AskInv, Locked, Accepting
<1>2. SeatInv /\ [Next]_vars => SeatInv'
  BY RequestsKept, LockKept, ConnectionsKept, TablesKept DEF SeatInv, SeatTypeOK
<1> QED  BY <1>1, <1>2, PTL DEF Spec

\* SeatTypeOK: the types, the reserved connections within the pool, and the lock
\* held on one of them.
THEOREM SeatTypesHold == Spec => []SeatTypeOK
<1>1. SeatInv => SeatTypeOK
  BY DEF SeatInv
<1> QED  BY <1>1, SeatInvHolds, PTL

-----------------------------------------------------------------------------
(* An invitation seats one user *)

\* No statement makes an invitation pending again, or changes who accepted it.
LEMMA SpentStays ==
    ASSUME SeatTypeOK, [Next]_vars, NEW i \in Invites, NEW u, SpentBy(i, u)
    PROVE  SpentAfter(i, u)
<1>0. invite \in [Invites -> Invitation]
  BY DEF SeatTypeOK
<1>1. CASE UNCHANGED invite
  BY <1>1 DEF SpentBy, SpentAfter
<1>2. ASSUME NEW r \in Requests, Create(r) PROVE SpentAfter(i, u)
  BY <1>0, <1>2 DEF Create, SpentBy, SpentAfter
<1>3. ASSUME NEW r \in Requests, Consume(r) PROVE SpentAfter(i, u)
  BY <1>0, <1>3 DEF Consume, SpentBy, SpentAfter, PendingActive
<1>4. ASSUME NEW r \in Requests, Update(r) PROVE SpentAfter(i, u)
  <2> DEFINE row == invite[req[r].row]
  <2>1. CASE i # req[r].row
    BY <1>0, <1>4, <2>1 DEF Update, SpentBy, SpentAfter
  <2>2. CASE i = req[r].row /\ req[r].op = "revoke"
    BY <1>0, <1>4, <2>2 DEF Update, SpentBy, SpentAfter, Invitation
  <2>3. CASE i = req[r].row /\ req[r].op # "revoke"
    BY <1>0, <1>4, <2>3 DEF Update, SpentBy, SpentAfter, Invitation
  <2> QED  BY <2>1, <2>2, <2>3
<1>5. CASE Expire
  <2>1. PICK j \in PendingActive : invite' = [invite EXCEPT ![j].live = FALSE]
    BY <1>5 DEF Expire
  <2> QED  BY <1>0, <2>1 DEF SpentBy, SpentAfter, PendingActive
<1>6. ASSUME NEW r \in Requests, Serve(r) \/ Die(r),
             ~(Create(r) \/ Consume(r) \/ Update(r))
      PROVE  UNCHANGED invite
  BY <1>6
  DEF Serve, Check, Reserve, Acquire, TimeOut, Unlock, Count, Admit, Target,
      HealTarget, CountOwners, Drop, Strip, Assign, Attach, Join, Grant, Touch,
      Find, Die, tables
<1>7. ASSUME NEW r \in Requests, Asking(r) PROVE UNCHANGED invite
  BY <1>7, AskingAsks DEF tables
<1>8. CASE UNCHANGED vars
  BY <1>1, <1>8 DEF vars, tables
<1> QED
  BY <1>1, <1>2, <1>3, <1>4, <1>5, <1>6, <1>7, <1>8 DEF Next

\* Memberships come from a join, and keep user and source for good.
LEMMA MembersComeFromJoins ==
    ASSUME SeatTypeOK, [Next]_vars, NEW m \in members'
    PROVE  \/ \E n \in members : n.user = m.user /\ n.via = m.via
           \/ \E r \in Requests : /\ req[r].pc = "join"
                                   /\ m.user = req[r].user /\ m.via = req[r].row
<1>1. CASE UNCHANGED members
  BY <1>1
<1>2. ASSUME NEW r \in Requests, Drop(r)
      PROVE  \E n \in members : n.user = m.user /\ n.via = m.via
  BY <1>2 DEF Drop
<1>3. ASSUME NEW r \in Requests, Assign(r)
      PROVE  \E n \in members : n.user = m.user /\ n.via = m.via
  <2>1. PICK n \in members :
           m = IF n.user = req[r].user /\ n.via = req[r].row
               THEN [n EXCEPT !.role = req[r].want] ELSE n
    BY <1>3 DEF Assign
  <2>2. n \in Membership
    BY DEF SeatTypeOK
  <2> QED  BY <2>1, <2>2 DEF Membership
<1>4. ASSUME NEW r \in Requests, Join(r)
      PROVE  \/ m \in members
             \/ req[r].pc = "join" /\ m.user = req[r].user /\ m.via = req[r].row
  BY <1>4 DEF Join
<1>5. ASSUME NEW r \in Requests, Serve(r) \/ Die(r),
             ~(Drop(r) \/ Assign(r) \/ Join(r))
      PROVE  UNCHANGED members
  BY <1>5
  DEF Serve, Check, Reserve, Acquire, TimeOut, Unlock, Count, Admit, Create,
      Target, HealTarget, CountOwners, Strip, Consume, Attach, Grant, Touch,
      Find, Update, Die, tables
<1>6. ASSUME NEW r \in Requests, Asking(r) PROVE UNCHANGED members
  BY <1>6, AskingAsks DEF tables
<1>7. CASE Expire \/ UNCHANGED vars
  BY <1>1, <1>7 DEF Expire, vars, tables
<1> QED  BY <1>1, <1>2, <1>3, <1>4, <1>5, <1>6, <1>7 DEF Next

LEMMA SpentKept == SeatInv /\ SpentInv /\ [Next]_vars => SpentInv'
<1> SUFFICES ASSUME SeatTypeOK, AskInv, SpentInv, [Next]_vars PROVE SpentInv'
  BY DEF SeatInv
<1>0. req \in [Requests -> Request]
  BY DEF SeatTypeOK
<1>1. ASSUME NEW m \in members', m.via \in Invites PROVE SpentAfter(m.via, m.user)
  <2>1. SpentBy(m.via, m.user)
    BY <1>1, MembersComeFromJoins DEF SpentInv
  <2> QED  BY <1>1, <2>1, SpentStays
<1>2. ASSUME NEW d \in Requests, req[d].pc \in {"attach", "join"},
             req'[d].user = req[d].user, req'[d].row = req[d].row
      PROVE  SpentAfter(req'[d].row, req'[d].user)
  <2>1. req[d].row \in Invites
    BY <1>2 DEF AskInv, Accepting
  <2>2. SpentBy(req[d].row, req[d].user)
    BY <1>2 DEF SpentInv
  <2>3. SpentAfter(req[d].row, req[d].user)
    BY <2>1, <2>2, SpentStays
  <2> QED  BY <1>2, <2>3
<1>3. ASSUME NEW d \in Requests, req'[d].pc \in {"attach", "join"}
      PROVE  SpentAfter(req'[d].row, req'[d].user)
  <2>1. CASE req'[d] = req[d]
    BY <1>2, <1>3, <2>1
  <2>2. ASSUME NEW r \in Requests, Asking(r)
        PROVE  SpentAfter(req'[d].row, req'[d].user)
    <3>1. PICK q : req' = [req EXCEPT ![r] = q] /\ Asks(q)
      BY <2>2, AskingAsks
    <3>2. d # r
      BY <1>0, <1>3, <3>1 DEF Asks
    <3>3. req'[d] = req[d]
      BY <1>0, <3>1, <3>2
    <3> QED  BY <2>1, <3>3
  <2>3. ASSUME NEW r \in Requests, Serve(r) \/ Die(r)
        PROVE  SpentAfter(req'[d].row, req'[d].user)
    <3>1. PICK q, step : Note(r, q, step) /\ Moves(r, q, step)
      BY <2>3, ServeMoves
    <3>2. /\ \A c \in Requests : c # r => req'[c] = req[c]
          /\ req'[r].pc = step
          /\ step # "done" => req'[r].user = q.user /\ req'[r].row = q.row
      BY <3>1, NoteSteps DEF Moves
    <3>3. CASE d # r
      BY <2>1, <3>2, <3>3
    <3>4. CASE d = r /\ step = "join"
      <4>1. req[r].pc = "attach" /\ q.user = req[r].user /\ q.row = req[r].row
        BY <3>1, <3>4 DEF Moves
      <4> QED  BY <1>2, <3>2, <3>4, <4>1
    <3>5. CASE d = r /\ step = "attach"
      <4>1. /\ req[r].pc = "consume" /\ q.user = req[r].user
            /\ q.row = req[r].row
        BY <3>1, <3>5 DEF Moves
      <4>2. Consume(r)
        <5>1. ~Die(r)
          <6>1. ASSUME Die(r) PROVE req'[r].pc = "done"
            BY <1>0, <6>1, NoteSteps DEF Die, Goto, Steps
          <6> QED  BY <3>2, <3>5, <6>1
        <5> QED
          BY <2>3, <4>1, <5>1
          DEF Serve, Check, Reserve, Acquire, TimeOut, Unlock, Count, Admit,
              Create, Target, HealTarget, CountOwners, Drop, Strip, Assign,
              Attach, Join, Grant, Touch, Find, Update
      <4>3. req[r].row \in Invites
        BY <4>1 DEF AskInv, Accepting
      <4>4. invite' = [invite EXCEPT ![req[r].row].status = "accepted",
                                     ![req[r].row].by = req[r].user]
        <5>1. ASSUME Goto(r, "done") PROVE FALSE
          <6>1. req'[r].pc = "done"
            BY <1>0, <5>1, NoteSteps DEF Goto, Steps
          <6> QED  BY <3>2, <3>5, <6>1
        <5> QED  BY <4>2, <5>1 DEF Consume
      <4>5. SpentAfter(req[r].row, req[r].user)
        <5>1. invite \in [Invites -> Invitation]
          BY DEF SeatTypeOK
        <5>2. /\ invite'[req[r].row].status = "accepted"
              /\ invite'[req[r].row].by = req[r].user
          BY <4>3, <4>4, <5>1 DEF Invitation
        <5> QED  BY <5>2 DEF SpentAfter
      <4>6. req'[r].row = req[r].row /\ req'[r].user = req[r].user
        BY <3>2, <3>5, <4>1
      <4> QED  BY <3>5, <4>5, <4>6
    <3> QED  BY <1>3, <3>2, <3>3, <3>4, <3>5
  <2>4. CASE Expire \/ UNCHANGED vars
    BY <2>1, <2>4 DEF Expire, vars
  <2> QED  BY <2>2, <2>3, <2>4 DEF Next
<1> QED  BY <1>1, <1>3 DEF SpentInv, SpentBy, SpentAfter

\* InviteSeatsOne: whoever opens a link, and however often it is revoked, resent
\* or expires, an invitation seats the one user it records.
THEOREM InvitationsSeatOne == Spec => []InviteSeatsOne
<1>1. Init => SpentInv
  BY SeatAssumption DEF Init, SpentInv, At
<1>2. SpentInv => InviteSeatsOne
  BY DEF SpentInv, SpentBy, InviteSeatsOne
<1> QED  BY <1>1, <1>2, SeatInvHolds, SpentKept, PTL DEF Spec

-----------------------------------------------------------------------------
(* Invitations keep the cap where nothing is accepted or resent *)

Quiet == setting.ops \cap {"accept", "resend"} = {}

\* Between count and insert the memberships have not grown; between admission
\* and insert there is still a seat.
CapInv ==
    Quiet =>
      /\ SeatCapKept
      /\ \A r \in Requests :
           /\ req[r].pc = "admit" => Cardinality(members) <= req[r].counted
           /\ req[r].pc = "create" =>
                Cardinality(members) + Cardinality(PendingActive) < MaxSeats

LEMMA PendingIsFinite ==
    IsFiniteSet(PendingActive) /\ Cardinality(PendingActive) \in Nat
BY FS_Subset, FS_CardinalityType, SeatAssumption DEF PendingActive

PendingAfter ==
    {i \in Invites : invite'[i].status = "pending" /\ invite'[i].live}

\* But for an insert, nothing takes a seat.
LEMMA SeatsOnlyShrink ==
    ASSUME SeatTypeOK, AskInv, Quiet, [Next]_vars,
           \A r \in Requests : ~Create(r)
    PROVE  PendingAfter \subseteq PendingActive
<1>0. invite \in [Invites -> Invitation]
  BY DEF SeatTypeOK
<1>1. CASE UNCHANGED invite
  BY <1>1 DEF PendingActive, PendingAfter
<1>2. ASSUME NEW r \in Requests, Update(r)
      PROVE  PendingAfter \subseteq PendingActive
  <2>1. req[r].row \in Invites /\ req[r].op \in setting.ops
        /\ req[r].op \in {"revoke", "resend"}
    BY <1>2 DEF Update, AskInv
  <2>2. req[r].op = "revoke"
    BY <2>1 DEF Quiet
  <2>3. invite' = [invite EXCEPT ![req[r].row].status = "revoked"]
    BY <1>2, <2>2 DEF Update
  <2>4. ASSUME NEW i \in PendingAfter PROVE i \in PendingActive
    <3>1. i # req[r].row
      BY <1>0, <2>1, <2>3, <2>4 DEF PendingAfter, Invitation
    <3> QED  BY <1>0, <2>3, <2>4, <3>1 DEF PendingAfter, PendingActive
  <2> QED  BY <2>4
<1>3. CASE Expire
  <2>1. PICK j \in PendingActive : invite' = [invite EXCEPT ![j].live = FALSE]
    BY <1>3 DEF Expire
  <2>2. ASSUME NEW i \in PendingAfter PROVE i \in PendingActive
    BY <1>0, <2>1, <2>2 DEF PendingAfter, PendingActive
  <2> QED  BY <2>2
<1>4. ASSUME NEW r \in Requests, Serve(r) \/ Die(r), ~(Consume(r) \/ Update(r))
      PROVE  UNCHANGED invite
  <2>1. ~Create(r)
    OBVIOUS
  <2> QED
    BY <1>4, <2>1
    DEF Serve, Check, Reserve, Acquire, TimeOut, Unlock, Count, Admit, Target,
        HealTarget, CountOwners, Drop, Strip, Assign, Attach, Join, Grant,
        Touch, Find, Die, tables
<1>5. ASSUME NEW r \in Requests, Consume(r) PROVE FALSE
  <2>1. req[r].op = "accept" /\ req[r].op \in setting.ops
    BY <1>5 DEF Consume, AskInv, Accepting
  <2> QED  BY <2>1 DEF Quiet
<1>6. ASSUME NEW r \in Requests, Asking(r) PROVE UNCHANGED invite
  BY <1>6, AskingAsks DEF tables
<1>7. CASE UNCHANGED vars
  BY <1>1, <1>7 DEF vars, tables
<1> QED  BY <1>1, <1>2, <1>3, <1>4, <1>5, <1>6, <1>7 DEF Next

LEMMA MembersOnlyShrink ==
    ASSUME SeatTypeOK, AskInv, Quiet, [Next]_vars
    PROVE  /\ IsFiniteSet(members')
           /\ Cardinality(members') \in Nat
           /\ Cardinality(members') <= Cardinality(members)
<1>0. IsFiniteSet(members) /\ Cardinality(members) \in Nat
  BY MembersAreFinite
<1>1. CASE members' \subseteq members
  BY <1>0, <1>1, FS_Subset, FS_CardinalityType
<1>2. ASSUME NEW r \in Requests, Assign(r)
      PROVE  /\ IsFiniteSet(members')
             /\ Cardinality(members') \in Nat
             /\ Cardinality(members') <= Cardinality(members)
  <2> DEFINE f == [m \in members |->
                     IF m.user = req[r].user /\ m.via = req[r].row
                     THEN [m EXCEPT !.role = req[r].want] ELSE m]
  <2>1. members' = {f[m] : m \in members}
    BY <1>2 DEF Assign
  <2>2. f \in Surjection(members, members')
    BY <2>1 DEF Surjection
  <2> HIDE DEF f
  <2> QED  BY <1>0, <2>2, FS_Surjection, FS_CardinalityType
<1>3. ASSUME NEW r \in Requests, Join(r) PROVE FALSE
  <2>1. req[r].op = "accept" /\ req[r].op \in setting.ops
    BY <1>3 DEF Join, AskInv, Accepting
  <2> QED  BY <2>1 DEF Quiet
<1>4. ASSUME NEW r \in Requests, Serve(r) \/ Die(r), ~(Assign(r) \/ Join(r))
      PROVE  members' \subseteq members
  BY <1>4
  DEF Serve, Check, Reserve, Acquire, TimeOut, Unlock, Count, Admit, Create,
      Target, HealTarget, CountOwners, Drop, Strip, Consume, Attach, Grant,
      Touch, Find, Update, Die, tables
<1>5. ASSUME NEW r \in Requests, Asking(r) PROVE members' \subseteq members
  BY <1>5, AskingAsks DEF tables
<1>6. CASE Expire \/ UNCHANGED vars
  BY <1>1, <1>6 DEF Expire, vars, tables
<1> QED  BY <1>1, <1>2, <1>3, <1>4, <1>5, <1>6 DEF Next

LEMMA CapKept == SeatInv /\ CapInv /\ [Next]_vars => CapInv'
<1> SUFFICES ASSUME SeatTypeOK, LockInv, AskInv, CapInv, [Next]_vars, Quiet'
             PROVE  /\ SeatCapKept'
                    /\ \A r \in Requests :
                         /\ req'[r].pc = "admit" =>
                              Cardinality(members') <= req'[r].counted
                         /\ req'[r].pc = "create" =>
                              Cardinality(members') + Cardinality(PendingAfter)
                                < MaxSeats
  BY DEF SeatInv, CapInv, PendingActive, PendingAfter
<1>a. Quiet
  BY RequestsKept DEF Quiet
<1>b. /\ SeatCapKept
      /\ \A r \in Requests :
           /\ req[r].pc = "admit" => Cardinality(members) <= req[r].counted
           /\ req[r].pc = "create" =>
                Cardinality(members) + Cardinality(PendingActive) < MaxSeats
  BY <1>a DEF CapInv
<1>c. /\ Cardinality(members) \in Nat
      /\ Cardinality(members') \in Nat
      /\ Cardinality(members') <= Cardinality(members)
  BY <1>a, MembersAreFinite, MembersOnlyShrink
<1>d. /\ IsFiniteSet(PendingActive) /\ Cardinality(PendingActive) \in Nat
      /\ MaxSeats \in Nat
  BY PendingIsFinite, SeatAssumption
<1>e. req \in [Requests -> Request] /\ invite \in [Invites -> Invitation]
  BY DEF SeatTypeOK
<1>f. \A r \in Requests : req[r].counted \in Nat
  BY <1>e DEF Request
<1>g. SeatCapKept' <=> Cardinality(members') + Cardinality(PendingAfter) <= MaxSeats
  BY DEF SeatCapKept, PendingActive, PendingAfter
<1>1. CASE \A r \in Requests : ~Create(r)
  <2>1. /\ IsFiniteSet(PendingAfter) /\ Cardinality(PendingAfter) \in Nat
        /\ Cardinality(PendingAfter) <= Cardinality(PendingActive)
    BY <1>1, <1>a, <1>d, SeatsOnlyShrink, FS_Subset, FS_CardinalityType
  <2>2. Cardinality(members') + Cardinality(PendingAfter) <= MaxSeats
    BY <1>b, <1>c, <1>d, <2>1 DEF SeatCapKept
  <2> DEFINE Kept(d) ==
        /\ req'[d].pc = "admit" => Cardinality(members') <= req'[d].counted
        /\ req'[d].pc = "create" =>
             Cardinality(members') + Cardinality(PendingAfter) < MaxSeats
  <2>3. ASSUME NEW d \in Requests, req'[d] = req[d] PROVE Kept(d)
    BY <1>b, <1>c, <1>d, <1>f, <2>1, <2>3
  <2>4. ASSUME NEW r \in Requests, Asking(r), NEW d \in Requests PROVE Kept(d)
    <3>1. PICK q : req' = [req EXCEPT ![r] = q] /\ Asks(q)
      BY <2>4, AskingAsks
    <3>2. CASE d # r
      BY <1>e, <2>3, <3>1, <3>2
    <3>3. CASE d = r
      BY <1>e, <3>1, <3>3 DEF Asks
    <3> QED  BY <3>2, <3>3
  <2>5. ASSUME NEW r \in Requests, Serve(r) \/ Die(r), NEW d \in Requests
        PROVE  Kept(d)
    <3>1. PICK q, step : Note(r, q, step) /\ Moves(r, q, step)
      BY <2>5, ServeMoves
    <3>2. /\ \A c \in Requests : c # r => req'[c] = req[c]
          /\ req'[r].pc = step
      BY <3>1, NoteSteps DEF Moves
    <3>3. CASE d # r
      BY <2>3, <3>2, <3>3
    <3>4. ASSUME Die(r) PROVE req'[r].pc = "done"
      BY <1>e, <3>4, NoteSteps DEF Die, Goto, Steps
    <3>5. CASE d = r /\ step = "admit"
      <4>1. req[r].pc = "count"
        BY <3>1, <3>5 DEF Moves
      <4>2. Count(r)
        BY <2>5, <3>2, <3>4, <3>5, <4>1
        DEF Serve, Check, Reserve, Acquire, TimeOut, Unlock, Admit, Create,
            Target, HealTarget, CountOwners, Drop, Strip, Assign, Consume,
            Attach, Join, Grant, Touch, Find, Update
      <4> DEFINE c == [req[r] EXCEPT !.counted = Cardinality(members)]
                 s == IF \E i \in Invites : /\ invite[i].status = "pending"
                                            /\ invite[i].email = req[r].user
                      THEN "unlock" ELSE "admit"
      <4>3. c \in Request /\ c.counted = Cardinality(members)
        <5>1. req[r] \in Request
          BY <1>e
        <5> QED  BY <1>c, <5>1 DEF Request
      <4>4. Note(r, c, s) /\ s \in Steps /\ s # "done"
        BY <4>2 DEF Count, Steps
      <4> HIDE DEF c, s
      <4>5. req'[r].counted = Cardinality(members)
        BY <4>3, <4>4, NoteSteps
      <4> QED  BY <1>c, <3>2, <3>5, <4>5
    <3>6. CASE d = r /\ step = "create"
      <4>1. req[r].pc = "admit"
        BY <3>1, <3>6 DEF Moves
      <4>2. Admit(r)
        BY <2>5, <3>2, <3>4, <3>6, <4>1
        DEF Serve, Check, Reserve, Acquire, TimeOut, Unlock, Count, Create,
            Target, HealTarget, CountOwners, Drop, Strip, Assign, Consume,
            Attach, Join, Grant, Touch, Find, Update
      <4>3. req[r].counted + Cardinality(PendingActive) < MaxSeats
        <5>1. ASSUME Goto(r, "unlock") PROVE FALSE
          <6>1. req'[r].pc = "unlock"
            BY <1>e, <5>1, NoteSteps DEF Goto, Steps
          <6> QED  BY <3>2, <3>6, <6>1
        <5> QED  BY <4>2, <5>1 DEF Admit
      <4>4. Cardinality(members) <= req[r].counted
        BY <1>b, <4>1
      <4>5. Cardinality(members') + Cardinality(PendingAfter) < MaxSeats
        BY <1>c, <1>d, <1>f, <2>1, <4>3, <4>4
      <4> QED  BY <3>2, <3>6, <4>5
    <3> QED  BY <3>2, <3>3, <3>5, <3>6
  <2>6. ASSUME Expire \/ UNCHANGED vars, NEW d \in Requests PROVE Kept(d)
    BY <2>3, <2>6 DEF Expire, vars
  <2>7. \A d \in Requests : Kept(d)
    BY <2>4, <2>5, <2>6 DEF Next
  <2> QED  BY <1>g, <2>2, <2>7
<1>2. ASSUME NEW r \in Requests, Create(r)
      PROVE  /\ SeatCapKept'
             /\ \A d \in Requests : req'[d].pc \notin {"admit", "create"}
  <2>1. PICK i \in Invites :
          invite' = [invite EXCEPT ![i] =
                       [status |-> "pending", email |-> req[r].user,
                        live |-> TRUE, token |-> 1, by |-> NoUser]]
    BY <1>2 DEF Create
  <2>2. PendingAfter \subseteq PendingActive \cup {i}
    BY <1>e, <2>1 DEF PendingAfter, PendingActive
  <2>3. /\ IsFiniteSet(PendingActive \cup {i})
        /\ \/ Cardinality(PendingActive \cup {i}) = Cardinality(PendingActive)
           \/ Cardinality(PendingActive \cup {i}) = Cardinality(PendingActive) + 1
    <3>1. CASE i \in PendingActive
      <4>1. PendingActive \cup {i} = PendingActive
        BY <3>1
      <4> QED  BY <1>d, <4>1
    <3>2. CASE i \notin PendingActive
      BY <1>d, <3>2, FS_AddElement
    <3> QED  BY <3>1, <3>2
  <2>4. /\ Cardinality(PendingAfter) \in Nat
        /\ Cardinality(PendingAfter) <= Cardinality(PendingActive \cup {i})
    BY <2>2, <2>3, FS_Subset, FS_CardinalityType
  <2>5. req[r].pc = "create" /\ UNCHANGED members
    BY <1>2 DEF Create
  <2>6. Cardinality(members) + Cardinality(PendingActive) < MaxSeats
    BY <1>b, <2>5
  <2>7. Cardinality(members') + Cardinality(PendingAfter) <= MaxSeats
    BY <1>c, <1>d, <2>3, <2>4, <2>5, <2>6
  <2>8. ASSUME NEW d \in Requests PROVE req'[d].pc \notin {"admit", "create"}
    <3>1. Goto(r, "unlock")
      BY <1>2 DEF Create
    <3>2. req'[r].pc = "unlock" /\ (d # r => req'[d] = req[d])
      BY <1>e, <3>1, NoteSteps DEF Goto, Steps
    <3>3. d # r => req[d].pc \notin Locked
      BY <2>5 DEF LockInv, Locked
    <3> QED  BY <3>2, <3>3 DEF Locked
  <2> QED  BY <1>g, <2>7, <2>8
<1> QED  BY <1>1, <1>2

\* InvitesKeepCap: where nothing is accepted or resent, however many invitations
\* are made at once, members and reserved seats stay within the tier's.
THEOREM InvitationsKeepTheCap == Spec => []InvitesKeepCap
<1>1. Init => CapInv
  <2> SUFFICES ASSUME Init PROVE CapInv
    OBVIOUS
  <2> DEFINE f == [u \in Founders |->
                     [user |-> u, via |-> Founding, role |-> "owner"]]
  <2>1. IsFiniteSet(Founders)
    BY FS_Subset, SeatAssumption
  <2>2. f \in Surjection(Founders, members)
    <3>1. members = [user : Founders, via : {Founding}, role : {"owner"}]
      BY DEF Init
    <3>2. \A u \in Founders : f[u] \in members
      BY <3>1
    <3>3. ASSUME NEW m \in members PROVE \E u \in Founders : f[u] = m
      <4>1. m.user \in Founders /\ f[m.user] = m
        BY <3>1
      <4> QED  BY <4>1
    <3>4. f \in [Founders -> members]
      BY <3>2
    <3> QED  BY <3>3, <3>4 DEF Surjection
  <2> HIDE DEF f
  <2>3. /\ IsFiniteSet(members) /\ Cardinality(members) \in Nat
        /\ Cardinality(members) <= Cardinality(Founders)
    BY <2>1, <2>2, FS_Surjection, FS_CardinalityType
  <2>4. PendingActive = {}
    BY DEF Init, PendingActive
  <2>5. Cardinality(PendingActive) = 0
    BY <2>4, FS_EmptySet
  <2>6. Cardinality(Founders) \in Nat /\ MaxSeats \in Nat
        /\ Cardinality(Founders) <= MaxSeats
    BY <2>1, FS_CardinalityType, SeatAssumption
  <2>7. SeatCapKept
    BY <2>3, <2>5, <2>6 DEF SeatCapKept
  <2>8. \A r \in Requests : req[r].pc = "new"
    BY DEF Init, At
  <2> QED  BY <2>7, <2>8 DEF CapInv
<1>2. CapInv => InvitesKeepCap
  BY DEF CapInv, Quiet, InvitesKeepCap
<1> QED  BY <1>1, <1>2, SeatInvHolds, CapKept, PTL DEF Spec
-----------------------------------------------------------------------------
(* An owner stays *)

\* Where members are removed, no request dies half-way, and whoever opens links
\* is neither an owner nor made one meanwhile: the role rows of a removed member
\* are not written again, nor left behind, and counted as an owner's.
RemovalsApart ==
    \A s \in Settings :
        "remove" \in s.ops =>
          /\ ~s.faults
          /\ "accept" \in s.ops =>
               "roles" \notin s.ops /\ s.accepters \cap Founders = {}

Removes == "remove" \in setting.ops
Accepts == "accept" \in setting.ops

IsOwner(m) == "owner" \in Effective(m)

\* Another member than u is an owner.
OtherOwner(u) == \E m \in members : m.user # u /\ IsOwner(m)

\* Whom the role rows name an owner is a member, or on his way out.
HoldersSit ==
    \A u \in Users :
        "owner" \in roles[u] =>
          \/ Member(u)
          \/ \E r \in Requests : req[r].pc = "strip" /\ req[r].user = u

\* A member without role rows has the mirror the organization's start or the
\* invitation gave it.
UnassignedMirrors ==
    \A m \in members :
        roles[m.user] = {} => (m.role = "owner" <=> m.user \in Founders)

\* Where members are removed, the mirror shows who is an owner.
MirrorsTell ==
    Removes =>
      /\ \A m \in members : "owner" \in roles[m.user] => m.role = "owner"
      /\ \A m, n \in members : m.user = n.user => m.role = n.role
      /\ ~Accepts => \A m \in members : m.via = Founding
      /\ Accepts =>
           /\ \A m \in members : m.role = "owner" <=> m.user \in Founders
           /\ \A u \in Users : "owner" \in roles[u] => u \in Founders

FoundersSit == ~Removes => \A u \in Founders : Member(u)

\* An acceptance: who makes it, and what the role it has read is worth.
Opens(r) ==
    /\ req[r].pc \in Accepting => req[r].user \in setting.accepters
    /\ req[r].pc \in {"join", "grant"} => req[r].user \notin Founders
    /\ req[r].pc = "touch" =>
         /\ req[r].want = "owner" => ~Removes /\ Member(req[r].user)
         /\ req[r].user \in Founders /\ roles[req[r].user] = {} =>
              req[r].want = "owner"

\* A removal or a role change: the member it found is still one, and once the
\* owners are counted there is another.
Changes(r) ==
    /\ req[r].pc \in {"check", "reserve", "wait"} =>
         req[r].op \in Queued /\ req[r].user \in Users
    /\ req[r].pc \in {"target", "heal", "owners", "assign", "drop", "strip"} =>
         req[r].op \in {"remove", "roles"} /\ req[r].user \in Users
    /\ req[r].pc \in {"drop", "strip"} =>
         req[r].op = "remove" /\ OtherOwner(req[r].user)
    /\ req[r].pc = "assign" =>
         /\ req[r].op = "roles"
         /\ req[r].want # "owner" => OtherOwner(req[r].user)
    /\ req[r].pc \in {"heal", "owners", "assign"} => Member(req[r].user)
    /\ req[r].pc \in {"owners", "assign"} => roles[req[r].user] # {}
    /\ req[r].pc \in {"heal", "owners", "assign", "drop"} /\ Removes /\ ~Accepts =>
         req[r].row = Founding
    /\ req[r].pc = "strip" /\ ~Accepts => ~Member(req[r].user)

RolesInv ==
    LastOwnerStays /\ HoldersSit /\ UnassignedMirrors /\ MirrorsTell /\ FoundersSit

OwnerInv == RolesInv /\ \A r \in Requests : Opens(r) /\ Changes(r)

LEMMA RemovalsAreApart ==
    ASSUME RemovalsApart, SeatTypeOK, Removes
    PROVE  /\ ~setting.faults
           /\ Accepts =>
                "roles" \notin setting.ops /\ setting.accepters \cap Founders = {}
BY DEF RemovalsApart, SeatTypeOK, Removes, Accepts

LEMMA GotoSteps ==
    ASSUME SeatTypeOK, NEW r \in Requests, NEW step \in Steps, Goto(r, step)
    PROVE  /\ \A d \in Requests : d # r => req'[d] = req[d]
           /\ req'[r].pc = step
           /\ step # "done" =>
                /\ req'[r].op = req[r].op /\ req'[r].user = req[r].user
                /\ req'[r].row = req[r].row /\ req'[r].want = req[r].want
<1>1. req[r] \in Request
  BY DEF SeatTypeOK
<1> QED  BY <1>1, NoteSteps DEF Goto

\* Only the holder of the lock is between the lock and its unlock.
LEMMA HolderAlone ==
    ASSUME LockInv, NEW r \in Requests, req[r].pc \in Locked,
           NEW d \in Requests, d # r
    PROVE  req[d].pc \notin Locked
BY DEF LockInv

\* Of two owners, one is another.
LEMMA TwoOwners ==
    ASSUME SeatTypeOK, HoldersSit, NEW u \in Users,
           ~(Cardinality(Holders("owner")) <= 1),
           \A r \in Requests : req[r].pc # "strip"
    PROVE  OtherOwner(u)
<1>1. PICK v \in Holders("owner") : v # u
  <2>1. CASE Holders("owner") \subseteq {u}
    <3>1. Cardinality(Holders("owner")) <= Cardinality({u}) /\ Cardinality({u}) = 1
      BY <2>1, FS_Singleton, FS_Subset
    <3> QED  BY <3>1
  <2> QED  BY <2>1
<1>2. v \in Users /\ "owner" \in roles[v]
  BY DEF Holders
<1>3. Member(v)
  BY <1>2 DEF HoldersSit
<1>4. PICK m \in members : m.user = v
  BY <1>3 DEF Member
<1> QED  BY <1>1, <1>2, <1>4 DEF OtherOwner, IsOwner, Effective

\* A step that leaves the members and their roles alone, and is not the end of a
\* removal between its two statements.
LEMMA TablesStill ==
    ASSUME SeatTypeOK, OwnerInv, UNCHANGED <<setting, members, roles>>,
           NEW r \in Requests, req[r].pc # "strip",
           \A d \in Requests : d # r => req'[d] = req[d],
           Opens(r)', Changes(r)'
    PROVE  OwnerInv'
<1>1. /\ LastOwnerStays' /\ UnassignedMirrors' /\ MirrorsTell' /\ FoundersSit'
      /\ (Removes' <=> Removes) /\ (Accepts' <=> Accepts)
      /\ \A u \in Users : Member(u)' <=> Member(u)
  BY DEF OwnerInv, RolesInv, LastOwnerStays, IsOwner, Effective, UnassignedMirrors,
         MirrorsTell, FoundersSit, Removes, Accepts, Member
<1>2. HoldersSit'
  <2> SUFFICES ASSUME NEW u \in Users, "owner" \in roles'[u], ~Member(u)'
               PROVE  \E d \in Requests : req'[d].pc = "strip" /\ req'[d].user = u
    BY DEF HoldersSit
  <2>1. PICK d \in Requests : req[d].pc = "strip" /\ req[d].user = u
    BY <1>1 DEF OwnerInv, RolesInv, HoldersSit
  <2>2. req'[d] = req[d]
    BY <2>1
  <2> QED  BY <2>1, <2>2
<1>3. ASSUME NEW d \in Requests PROVE Opens(d)' /\ Changes(d)'
  <2>1. CASE d = r
    BY <2>1
  <2>2. CASE d # r
    <3>1. req'[d] = req[d] /\ Opens(d) /\ Changes(d)
      BY <2>2 DEF OwnerInv
    <3> QED
      BY <3>1
      DEF Opens, Changes, OtherOwner, IsOwner, Effective, Member, Removes, Accepts
  <2> QED  BY <2>1, <2>2
<1> QED  BY <1>1, <1>2, <1>3 DEF OwnerInv, RolesInv

\* The steps at which nothing is claimed of a request.
Idle == {"new", "count", "admit", "create", "unlock", "find", "update", "done"}

LEMMA IdleClaimsNothing ==
    ASSUME NEW r \in Requests, req'[r].pc \in Idle
    PROVE  Opens(r)' /\ Changes(r)'
BY DEF Idle, Opens, Changes, Accepting

LEMMA OwnersKeptIdle ==
    ASSUME SeatTypeOK, OwnerInv, UNCHANGED <<setting, members, roles>>,
           NEW r \in Requests, NEW q \in Request, NEW step \in Idle,
           Note(r, q, step), req[r].pc # "strip"
    PROVE  OwnerInv'
<1>1. step \in Steps
  BY DEF Idle, Steps
<1>2. req'[r].pc = step /\ \A d \in Requests : d # r => req'[d] = req[d]
  BY <1>1, NoteSteps
<1> QED  BY <1>2, IdleClaimsNothing, TablesStill

LEMMA OwnersKeptAsking ==
    ASSUME SeatTypeOK, OwnerInv, NEW r \in Requests, Asking(r)
    PROVE  OwnerInv'
<1>1. PICK q : req' = [req EXCEPT ![r] = q] /\ Asks(q)
  BY AskingAsks
<1>2. UNCHANGED <<setting, members, roles>> /\ req[r].pc = "new"
  BY AskingAsks DEF tables
<1>3. req'[r] = q /\ \A d \in Requests : d # r => req'[d] = req[d]
  BY <1>1 DEF SeatTypeOK
<1>4. Opens(r)' /\ Changes(r)'
  BY <1>1, <1>2, <1>3 DEF Asks, Opens, Changes, Accepting
<1> QED  BY <1>2, <1>3, <1>4, TablesStill

\* Requests that only wait, count seats or touch invitations.
LEMMA OwnersKeptApart ==
    ASSUME SeatTypeOK, OwnerInv, NEW r \in Requests,
           \/ Check(r) \/ Reserve(r) \/ Acquire(r) \/ TimeOut(r) \/ Unlock(r)
           \/ Count(r) \/ Admit(r) \/ Create(r) \/ Consume(r) \/ Find(r)
           \/ Update(r)
    PROVE  OwnerInv'
<1>0. req[r] \in Request /\ Opens(r) /\ Changes(r)
  BY DEF SeatTypeOK, OwnerInv
<1>1. UNCHANGED <<setting, members, roles>> /\ req[r].pc # "strip"
  BY DEF Check, Reserve, Acquire, TimeOut, Unlock, Count, Admit, Create, Consume,
         Find, Update, tables
<1>2. ASSUME NEW step \in Idle, Goto(r, step) PROVE OwnerInv'
  BY <1>0, <1>1, <1>2, OwnersKeptIdle DEF Goto
<1>3. ASSUME NEW step \in Steps, Goto(r, step), step # "done",
             step \in Accepting => step = "attach" /\ req[r].pc = "consume",
             step \in {"check", "reserve", "wait"} =>
               req[r].pc \in {"check", "reserve", "wait"},
             step \in {"target", "heal", "owners", "assign", "drop", "strip"} =>
               step = "target" /\ req[r].pc = "wait" /\ req[r].op # "invite"
      PROVE  OwnerInv'
  <2>1. /\ \A d \in Requests : d # r => req'[d] = req[d]
        /\ req'[r].pc = step /\ req'[r].op = req[r].op
        /\ req'[r].user = req[r].user
    BY <1>3, GotoSteps
  <2>2. Opens(r)'
    BY <1>0, <1>1, <1>3, <2>1 DEF Opens, Accepting
  <2>3. Changes(r)'
    BY <1>0, <1>3, <2>1 DEF Changes, Queued
  <2> QED  BY <1>1, <2>1, <2>2, <2>3, TablesStill
<1>4. CASE Check(r)
  <2>1. Goto(r, "done") \/ Goto(r, "reserve")
    BY <1>4 DEF Check
  <2> QED  BY <1>2, <1>3, <1>4, <2>1 DEF Check, Steps, Idle, Accepting
<1>5. CASE Reserve(r)
  BY <1>3, <1>5 DEF Reserve, Steps, Accepting
<1>6. CASE Acquire(r)
  <2>1. Goto(r, "count") \/ (Goto(r, "target") /\ req[r].op # "invite")
    BY <1>6 DEF Acquire
  <2> QED  BY <1>2, <1>3, <1>6, <2>1 DEF Acquire, Steps, Idle, Accepting
<1>7. CASE TimeOut(r) \/ Unlock(r) \/ Update(r)
  BY <1>2, <1>7 DEF TimeOut, Unlock, Update, Idle
<1>8. CASE Count(r)
  <2> DEFINE c == [req[r] EXCEPT !.counted = Cardinality(members)]
             s == IF \E i \in Invites : /\ invite[i].status = "pending"
                                        /\ invite[i].email = req[r].user
                  THEN "unlock" ELSE "admit"
  <2>1. c \in Request
    BY <1>0, MembersAreFinite DEF Request
  <2>2. Note(r, c, s) /\ s \in Idle
    BY <1>8 DEF Count, Idle
  <2> HIDE DEF c, s
  <2> QED  BY <1>1, <2>1, <2>2, OwnersKeptIdle
<1>9. CASE Admit(r)
  <2>1. Goto(r, "create") \/ Goto(r, "unlock")
    BY <1>9 DEF Admit
  <2> QED  BY <1>2, <2>1 DEF Idle
<1>10. CASE Create(r)
  BY <1>2, <1>10 DEF Create, Idle
<1>11. CASE Consume(r)
  <2>1. Goto(r, "attach") \/ Goto(r, "done")
    BY <1>11 DEF Consume
  <2> QED  BY <1>2, <1>3, <1>11, <2>1 DEF Consume, Steps, Idle, Accepting
<1>12. CASE Find(r)
  <2>1. Goto(r, "update") \/ Goto(r, "done")
    BY <1>12 DEF Find
  <2> QED  BY <1>2, <2>1 DEF Idle
<1> QED
  BY <1>4, <1>5, <1>6, <1>7, <1>8, <1>9, <1>10, <1>11, <1>12

\* Where members are removed nothing dies: no removal ends between its statements.
LEMMA OwnersKeptDying ==
    ASSUME RemovalsApart, SeatInv, OwnerInv, NEW r \in Requests, Die(r)
    PROVE  OwnerInv'
<1>1. SeatTypeOK /\ AskInv /\ Changes(r)
  BY DEF SeatInv, OwnerInv
<1>2. req[r].pc # "strip"
  <2> SUFFICES ASSUME req[r].pc = "strip" PROVE FALSE
    OBVIOUS
  <2>1. req[r].op = "remove"
    BY <1>1 DEF Changes
  <2>2. Removes
    BY <1>1, <2>1 DEF AskInv, Removes
  <2> QED  BY <1>1, <2>2, RemovalsAreApart DEF Die
<1>3. UNCHANGED <<setting, members, roles>> /\ Note(r, req[r], "done")
  BY DEF Die, tables, Goto
<1>4. req[r] \in Request /\ "done" \in Idle
  BY <1>1 DEF SeatTypeOK, Idle
<1> QED  BY <1>1, <1>2, <1>3, <1>4, OwnersKeptIdle

\* removeMember and setMemberRoles read the member: whoever is not an owner by
\* his mirror leaves another who is.
LEMMA OwnersKeptTarget ==
    ASSUME RemovalsApart, SeatInv, OwnerInv, NEW r \in Requests, Target(r)
    PROVE  OwnerInv'
<1>0. /\ SeatTypeOK /\ AskInv /\ Opens(r) /\ Changes(r) /\ req[r] \in Request
      /\ RolesInv
  BY DEF SeatInv, OwnerInv, SeatTypeOK
<1>1. UNCHANGED <<setting, members, roles>> /\ req[r].pc = "target"
  BY DEF Target, tables
<1>2. CASE Goto(r, "unlock")
  BY <1>0, <1>1, <1>2, OwnersKeptIdle DEF Goto, Idle
<1>3. ASSUME NEW m \in members, m.user = req[r].user,
             Note(r, [req[r] EXCEPT !.row = m.via],
                  IF req[r].op = "remove" /\ m.role # "owner"
                  THEN "drop" ELSE "heal")
      PROVE  OwnerInv'
  <2> DEFINE q == [req[r] EXCEPT !.row = m.via]
             s == IF req[r].op = "remove" /\ m.role # "owner"
                  THEN "drop" ELSE "heal"
  <2>1. m.via \in Invites \cup {Founding}
    BY <1>0 DEF SeatTypeOK, Membership
  <2>2. /\ q \in Request /\ q.row = m.via
        /\ q.op = req[r].op /\ q.user = req[r].user
    BY <1>0, <2>1 DEF Request
  <2>3. /\ Note(r, q, s) /\ s \in Steps /\ s \in {"drop", "heal"}
        /\ s = "drop" => req[r].op = "remove" /\ m.role # "owner"
    BY <1>3 DEF Steps
  <2> HIDE DEF q, s
  <2>4. /\ \A d \in Requests : d # r => req'[d] = req[d]
        /\ req'[r].pc = s /\ req'[r].op = req[r].op
        /\ req'[r].user = req[r].user /\ req'[r].row = m.via
    BY <1>0, <2>2, <2>3, NoteSteps
  <2>5. Member(req[r].user)
    BY <1>3 DEF Member
  <2>6. s = "drop" => OtherOwner(req[r].user)
    <3> SUFFICES ASSUME s = "drop" PROVE OtherOwner(req[r].user)
      OBVIOUS
    <3>1. req[r].op = "remove" /\ m.role # "owner"
      BY <2>3
    <3>2. Removes
      BY <1>0, <3>1 DEF AskInv, Removes
    <3>3. PICK n \in members : IsOwner(n)
      BY <1>0 DEF RolesInv, LastOwnerStays, IsOwner
    <3>4. n.role = "owner"
      BY <1>0, <3>2, <3>3 DEF IsOwner, Effective, RolesInv, MirrorsTell
    <3>5. n.user # m.user
      BY <1>0, <3>1, <3>2, <3>4 DEF RolesInv, MirrorsTell
    <3> QED  BY <1>3, <3>3, <3>5 DEF OtherOwner
  <2>7. Removes /\ ~Accepts => m.via = Founding
    BY <1>0 DEF RolesInv, MirrorsTell
  <2>8. Opens(r)'
    BY <2>3, <2>4 DEF Opens, Accepting
  <2>9. Changes(r)'
    BY <1>0, <1>1, <2>3, <2>4, <2>5, <2>6, <2>7
    DEF Changes, Member, OtherOwner, IsOwner, Effective, Removes, Accepts
  <2> QED  BY <1>0, <1>1, <2>4, <2>8, <2>9, TablesStill
<1> QED  BY <1>2, <1>3 DEF Target

\* The owners are counted while nobody else is between two statements.
LEMMA OwnersKeptCount ==
    ASSUME RemovalsApart, SeatInv, OwnerInv, NEW r \in Requests, CountOwners(r)
    PROVE  OwnerInv'
<1>0. /\ SeatTypeOK /\ LockInv /\ Changes(r) /\ req[r] \in Request
      /\ RolesInv
  BY DEF SeatInv, OwnerInv, SeatTypeOK
<1>1. UNCHANGED <<setting, members, roles>> /\ req[r].pc = "owners"
  BY DEF CountOwners, tables
<1>2. /\ req[r].op \in {"remove", "roles"} /\ req[r].user \in Users
      /\ Member(req[r].user) /\ roles[req[r].user] # {}
      /\ Removes /\ ~Accepts => req[r].row = Founding
  BY <1>0, <1>1 DEF Changes
<1>3. \A d \in Requests : req[d].pc # "strip"
  BY <1>0, <1>1, HolderAlone DEF Locked
<1>4. ~(Cardinality(Holders("owner")) <= 1) => OtherOwner(req[r].user)
  BY <1>0, <1>2, <1>3, TwoOwners DEF RolesInv
<1>5. CASE Goto(r, "unlock")
  BY <1>0, <1>1, <1>5, OwnersKeptIdle DEF Goto, Idle
<1>6. ASSUME NEW step \in {"drop", "assign"}, Goto(r, step),
             step = "drop" => req[r].op = "remove" /\ OtherOwner(req[r].user),
             step = "assign" =>
               /\ req[r].op = "roles"
               /\ req[r].want # "owner" => OtherOwner(req[r].user)
      PROVE  OwnerInv'
  <2>1. /\ \A d \in Requests : d # r => req'[d] = req[d]
        /\ req'[r].pc = step /\ req'[r].op = req[r].op
        /\ req'[r].user = req[r].user /\ req'[r].row = req[r].row
        /\ req'[r].want = req[r].want
    <3>1. step \in Steps /\ step # "done"
      BY <1>6 DEF Steps
    <3> QED  BY <1>0, <1>6, <3>1, GotoSteps
  <2>2. Opens(r)'
    BY <1>6, <2>1 DEF Opens, Accepting
  <2>3. Changes(r)'
    BY <1>1, <1>2, <1>6, <2>1
    DEF Changes, Member, OtherOwner, IsOwner, Effective, Removes, Accepts
  <2> QED  BY <1>0, <1>1, <2>1, <2>2, <2>3, TablesStill
<1>7. CASE req[r].op = "remove"
  <2>1. \/ Goto(r, "unlock")
        \/ Goto(r, "drop") /\ ~(Cardinality(Holders("owner")) <= 1)
    BY <1>7 DEF CountOwners
  <2> QED  BY <1>4, <1>5, <1>6, <1>7, <2>1
<1>8. CASE req[r].op = "roles"
  <2>1. \/ Goto(r, "unlock")
        \/ /\ Goto(r, "assign")
           /\ \/ req[r].want = "owner"
              \/ "owner" \notin roles[req[r].user]
              \/ ~(Cardinality(Holders("owner")) <= 1)
    BY <1>8 DEF CountOwners
  <2>2. ASSUME "owner" \notin roles[req[r].user] PROVE OtherOwner(req[r].user)
    <3>1. PICK n \in members : IsOwner(n)
      BY <1>0 DEF RolesInv, LastOwnerStays, IsOwner
    <3>2. n.user # req[r].user
      BY <1>2, <2>2, <3>1 DEF IsOwner, Effective
    <3> QED  BY <3>1, <3>2 DEF OtherOwner
  <2> QED  BY <1>4, <1>5, <1>6, <1>8, <2>1, <2>2
<1> QED  BY <1>2, <1>7, <1>8

\* An acceptance by a member reads a role that is still his, or that nobody
\* writes over.
LEMMA OwnersKeptAttach ==
    ASSUME RemovalsApart, SeatInv, OwnerInv, NEW r \in Requests, Attach(r)
    PROVE  OwnerInv'
<1>0. /\ SeatTypeOK /\ AskInv /\ Opens(r) /\ req[r] \in Request /\ RolesInv
  BY DEF SeatInv, OwnerInv, SeatTypeOK
<1>1. UNCHANGED <<setting, members, roles>> /\ req[r].pc = "attach"
  BY DEF Attach, tables
<1>2. req[r].user \in setting.accepters /\ Accepts /\ req[r].user \in Users
  BY <1>0, <1>1 DEF Opens, AskInv, Accepting, Accepts
<1>3. Removes => req[r].user \notin Founders
  BY <1>0, <1>2, RemovalsAreApart
<1>4. CASE ~Member(req[r].user) /\ Goto(r, "join")
  <2>1. /\ \A d \in Requests : d # r => req'[d] = req[d]
        /\ req'[r].pc = "join" /\ req'[r].user = req[r].user
    BY <1>0, <1>4, GotoSteps DEF Steps
  <2>2. req[r].user \notin Founders
    BY <1>0, <1>3, <1>4 DEF RolesInv, FoundersSit
  <2>3. Opens(r)' /\ Changes(r)'
    BY <1>1, <1>2, <2>1, <2>2 DEF Opens, Changes
  <2> QED  BY <1>0, <1>1, <2>1, <2>3, TablesStill
<1>5. ASSUME NEW m \in members, m.user = req[r].user,
             Note(r, [req[r] EXCEPT !.want = m.role], "touch")
      PROVE  OwnerInv'
  <2> DEFINE q == [req[r] EXCEPT !.want = m.role]
  <2>1. m.role \in Roles
    BY <1>0 DEF SeatTypeOK, Membership
  <2>2. q \in Request /\ q.want = m.role /\ q.user = req[r].user
    BY <1>0, <2>1 DEF Request
  <2>3. Note(r, q, "touch")
    BY <1>5
  <2> HIDE DEF q
  <2>4. /\ \A d \in Requests : d # r => req'[d] = req[d]
        /\ req'[r].pc = "touch" /\ req'[r].user = req[r].user
        /\ req'[r].want = m.role
    BY <1>0, <2>2, <2>3, NoteSteps DEF Steps
  <2>5. m.role = "owner" => ~Removes /\ Member(req[r].user)
    BY <1>0, <1>2, <1>3, <1>5 DEF RolesInv, MirrorsTell, Member
  <2>6. req[r].user \in Founders /\ roles[req[r].user] = {} => m.role = "owner"
    BY <1>0, <1>5 DEF RolesInv, UnassignedMirrors
  <2>7. Opens(r)' /\ Changes(r)'
    BY <1>1, <1>2, <2>4, <2>5, <2>6 DEF Opens, Changes, Removes, Member
  <2> QED  BY <1>0, <1>1, <2>4, <2>7, TablesStill
<1> QED  BY <1>4, <1>5 DEF Attach

\* A step that only adds members and role rows, and takes no owner's role.
LEMMA OthersKeptGrowing ==
    ASSUME SeatInv, OwnerInv, NEW r \in Requests, setting' = setting,
           \A d \in Requests : d # r => req'[d] = req[d],
           members \subseteq members', members' = members \/ Accepts,
           \A u \in Users : roles[u] # {} => roles'[u] # {},
           \A m \in members : IsOwner(m) =>
             "owner" \in (IF roles'[m.user] = {} THEN {m.role} ELSE roles'[m.user])
    PROVE  /\ LastOwnerStays'
           /\ \A u : OtherOwner(u) => OtherOwner(u)'
           /\ \A u : Member(u) => Member(u)'
           /\ \A d \in Requests : d # r => Opens(d)' /\ Changes(d)'
<1>1. LastOwnerStays' /\ \A u : OtherOwner(u) => OtherOwner(u)'
  BY DEF OwnerInv, RolesInv, LastOwnerStays, OtherOwner, IsOwner, Effective
<1>2. \A u : Member(u) => Member(u)'
  BY DEF Member
<1>3. ASSUME NEW d \in Requests, d # r PROVE Opens(d)' /\ Changes(d)'
  <2>1. req'[d] = req[d] /\ Opens(d) /\ Changes(d)
    BY <1>3 DEF OwnerInv
  <2>2. req[d].pc = "touch" => req[d].user \in Users
    BY DEF SeatInv, AskInv, Accepting
  <2>3. Opens(d)'
    BY <1>2, <2>1, <2>2 DEF Opens, Removes
  <2>4. ASSUME ~Accepts, ~Member(req[d].user) PROVE ~Member(req[d].user)'
    BY <2>1, <2>4 DEF Member
  <2>5. Changes(d)'
    BY <1>1, <1>2, <2>1, <2>4 DEF Changes, Removes, Accepts
  <2> QED  BY <2>3, <2>5
<1> QED  BY <1>1, <1>2, <1>3

LEMMA OwnersKeptJoin ==
    ASSUME RemovalsApart, SeatInv, OwnerInv, NEW r \in Requests, Join(r)
    PROVE  OwnerInv'
<1>0. /\ SeatTypeOK /\ AskInv /\ Opens(r) /\ RolesInv
  BY DEF SeatInv, OwnerInv
<1>1. /\ UNCHANGED <<setting, roles>> /\ req[r].pc = "join"
      /\ members' = members \cup
           {[user |-> req[r].user, via |-> req[r].row, role |-> "member"]}
  BY DEF Join
<1>2. /\ req[r].user \in setting.accepters /\ req[r].user \notin Founders
      /\ Accepts /\ req[r].user \in Users
  BY <1>0, <1>1 DEF Opens, AskInv, Accepting, Accepts
<1>3. /\ \A d \in Requests : d # r => req'[d] = req[d]
      /\ req'[r].pc = "grant" /\ req'[r].user = req[r].user
  BY <1>0, GotoSteps DEF Join, Steps
<1>4. /\ LastOwnerStays'
      /\ \A u : Member(u) => Member(u)'
      /\ \A d \in Requests : d # r => Opens(d)' /\ Changes(d)'
  BY <1>1, <1>2, <1>3, OthersKeptGrowing DEF IsOwner, Effective
<1>5. HoldersSit'
  <2> SUFFICES ASSUME NEW u \in Users, "owner" \in roles[u], ~Member(u)'
               PROVE  \E d \in Requests : req'[d].pc = "strip" /\ req'[d].user = u
    BY <1>1 DEF HoldersSit
  <2>1. PICK d \in Requests : req[d].pc = "strip" /\ req[d].user = u
    BY <1>0, <1>4 DEF RolesInv, HoldersSit
  <2> QED  BY <1>1, <1>3, <2>1
<1>6. UnassignedMirrors' /\ FoundersSit'
  BY <1>0, <1>1, <1>2, <1>4
  DEF RolesInv, UnassignedMirrors, FoundersSit, Removes
<1>7. MirrorsTell'
  <2> SUFFICES ASSUME Removes PROVE MirrorsTell'
    BY <1>1 DEF MirrorsTell, Removes
  <2>1. \A m \in members : m.role \in Roles
    BY <1>0 DEF SeatTypeOK, Membership
  <2>2. /\ \A m \in members : m.role = "owner" <=> m.user \in Founders
        /\ \A u \in Users : "owner" \in roles[u] => u \in Founders
        /\ \A m \in members : "owner" \in roles[m.user] => m.role = "owner"
        /\ \A m, n \in members : m.user = n.user => m.role = n.role
    BY <1>0, <1>2 DEF RolesInv, MirrorsTell
  <2>3. \A m \in members : m.user = req[r].user => m.role = "member"
    BY <1>2, <2>1, <2>2 DEF Roles
  <2>4. Accepts'
    BY <1>1, <1>2 DEF Accepts
  <2>5. /\ \A m \in members' : m.role = "owner" <=> m.user \in Founders
        /\ \A u \in Users : "owner" \in roles'[u] => u \in Founders
        /\ \A m \in members' : "owner" \in roles'[m.user] => m.role = "owner"
    BY <1>1, <1>2, <2>2
  <2>6. \A m, n \in members' : m.user = n.user => m.role = n.role
    BY <1>1, <2>2, <2>3
  <2> QED  BY <2>4, <2>5, <2>6 DEF MirrorsTell
<1>8. Opens(r)' /\ Changes(r)'
  BY <1>1, <1>2, <1>3 DEF Opens, Changes
<1> QED  BY <1>4, <1>5, <1>6, <1>7, <1>8 DEF OwnerInv, RolesInv

\* A statement that writes role rows of one user, none of them an owner's that
\* was not one before.
LEMMA OwnersKeptWriting ==
    ASSUME SeatInv, OwnerInv, NEW r \in Requests, NEW u \in Users,
           UNCHANGED <<setting, members>>, req[r].pc # "strip",
           NEW R \in SUBSET Roles, R # {}, roles' = [roles EXCEPT ![u] = R],
           \A d \in Requests : d # r => req'[d] = req[d],
           "owner" \in R => Member(u),
           Removes /\ "owner" \in R =>
             /\ \A m \in members : m.user = u => m.role = "owner"
             /\ Accepts => u \in Founders,
           \A m \in members : m.user = u /\ IsOwner(m) => "owner" \in R,
           Opens(r)', Changes(r)'
    PROVE  OwnerInv'
<1>0. SeatTypeOK /\ RolesInv
  BY DEF SeatInv, OwnerInv
<1>1. /\ roles'[u] = R /\ \A v \in Users : v # u => roles'[v] = roles[v]
      /\ \A m \in members : m.user \in Users
  BY <1>0 DEF SeatTypeOK, Membership
<1>2. /\ LastOwnerStays'
      /\ \A v : Member(v) => Member(v)'
      /\ \A d \in Requests : d # r => Opens(d)' /\ Changes(d)'
  <2>1. \A m \in members : IsOwner(m) =>
          "owner" \in (IF roles'[m.user] = {} THEN {m.role} ELSE roles'[m.user])
    <3> SUFFICES ASSUME NEW m \in members, IsOwner(m)
                 PROVE  "owner" \in (IF roles'[m.user] = {} THEN {m.role}
                                     ELSE roles'[m.user])
      OBVIOUS
    <3>1. CASE m.user = u
      BY <1>1, <3>1
    <3>2. CASE m.user # u
      BY <1>1, <3>2 DEF IsOwner, Effective
    <3> QED  BY <3>1, <3>2
  <2>2. \A v \in Users : roles[v] # {} => roles'[v] # {}
    BY <1>1
  <2> QED  BY <2>1, <2>2, OthersKeptGrowing
<1>3. HoldersSit'
  <2> SUFFICES ASSUME NEW v \in Users, "owner" \in roles'[v], ~Member(v)
               PROVE  \E d \in Requests : req'[d].pc = "strip" /\ req'[d].user = v
    BY <1>2 DEF HoldersSit
  <2>1. v # u /\ "owner" \in roles[v]
    BY <1>1
  <2>2. PICK d \in Requests : req[d].pc = "strip" /\ req[d].user = v
    BY <1>0, <2>1 DEF RolesInv, HoldersSit
  <2> QED  BY <2>2
<1>4. UnassignedMirrors' /\ FoundersSit'
  BY <1>0, <1>1, <1>2 DEF RolesInv, UnassignedMirrors, FoundersSit, Removes
<1>5. MirrorsTell'
  BY <1>0, <1>1 DEF RolesInv, MirrorsTell, Removes, Accepts
<1> QED  BY <1>2, <1>3, <1>4, <1>5 DEF OwnerInv, RolesInv

LEMMA OwnersKeptGrant ==
    ASSUME RemovalsApart, SeatInv, OwnerInv, NEW r \in Requests, Grant(r)
    PROVE  OwnerInv'
<1>0. /\ SeatTypeOK /\ AskInv /\ Opens(r) /\ RolesInv
  BY DEF SeatInv, OwnerInv
<1>1. UNCHANGED <<setting, members>> /\ req[r].pc = "grant"
  BY DEF Grant
<1>2. /\ req[r].user \in setting.accepters /\ req[r].user \notin Founders
      /\ Accepts /\ req[r].user \in Users
  BY <1>0, <1>1 DEF Opens, AskInv, Accepting, Accepts
<1>3. /\ \A d \in Requests : d # r => req'[d] = req[d]
      /\ req'[r].pc = "done"
  BY <1>0, GotoSteps DEF Grant, Steps
<1> DEFINE u == req[r].user
           R == roles[u] \cup {"member"}
<1>4. R \in SUBSET Roles /\ R # {}
  BY <1>0, <1>2 DEF SeatTypeOK, Roles
<1>5. roles' = [roles EXCEPT ![u] = R]
  BY <1>0, <1>2 DEF Grant, SeatTypeOK
<1>6. Opens(r)' /\ Changes(r)'
  BY <1>3, IdleClaimsNothing DEF Idle
<1>7. "owner" \in R => "owner" \in roles[u]
  OBVIOUS
<1>8. "owner" \in R => Member(u)
  <2> SUFFICES ASSUME "owner" \in roles[u], ~Member(u) PROVE FALSE
    BY <1>7
  <2>1. PICK d \in Requests : req[d].pc = "strip" /\ req[d].user = u
    BY <1>0, <1>2 DEF RolesInv, HoldersSit
  <2>2. Removes
    <3>1. req[d].op = "remove"
      BY <2>1 DEF OwnerInv, Changes
    <3> QED  BY <1>0, <3>1 DEF AskInv, Removes
  <2>3. u \in Founders
    BY <1>0, <1>2, <2>2 DEF RolesInv, MirrorsTell
  <2> QED  BY <1>2, <2>3
<1>9. Removes /\ "owner" \in R =>
        /\ \A m \in members : m.user = u => m.role = "owner"
        /\ Accepts => u \in Founders
  BY <1>0, <1>2, <1>7 DEF RolesInv, MirrorsTell
<1>10. \A m \in members : m.user = u /\ IsOwner(m) => "owner" \in R
  BY <1>0, <1>2 DEF RolesInv, UnassignedMirrors, IsOwner, Effective
<1> HIDE DEF u, R
<1>11. u \in Users /\ req[r].pc # "strip"
  BY <1>1, <1>2 DEF u
<1> QED
  BY <1>1, <1>3, <1>4, <1>5, <1>6, <1>8, <1>9, <1>10, <1>11, OwnersKeptWriting

LEMMA OwnersKeptTouch ==
    ASSUME RemovalsApart, SeatInv, OwnerInv, NEW r \in Requests, Touch(r)
    PROVE  OwnerInv'
<1>0. /\ SeatTypeOK /\ AskInv /\ Opens(r) /\ RolesInv /\ req[r] \in Request
  BY DEF SeatInv, OwnerInv, SeatTypeOK
<1>1. UNCHANGED <<setting, members>> /\ req[r].pc = "touch"
  BY DEF Touch
<1>2. /\ \A d \in Requests : d # r => req'[d] = req[d]
      /\ req'[r].pc = "done"
  BY <1>0, GotoSteps DEF Touch, Steps
<1> DEFINE u == req[r].user
<1>3. /\ u \in Users
      /\ req[r].want = "owner" => ~Removes /\ Member(u)
      /\ u \in Founders /\ roles[u] = {} => req[r].want = "owner"
  BY <1>0, <1>1 DEF Opens, AskInv, Accepting
<1>4. Opens(r)' /\ Changes(r)'
  BY <1>2, IdleClaimsNothing DEF Idle
<1>5. CASE roles[u] # {}
  <2>1. roles' = roles
    BY <1>0, <1>3, <1>5 DEF Touch, Heal, SeatTypeOK
  <2> QED  BY <1>0, <1>1, <1>2, <1>4, <2>1, TablesStill
<1>6. CASE roles[u] = {}
  <2> DEFINE R == {req[r].want}
  <2>1. R \in SUBSET Roles /\ R # {}
    BY <1>0 DEF Request
  <2>2. roles' = [roles EXCEPT ![u] = R]
    BY <1>0, <1>3, <1>6 DEF Touch, Heal, SeatTypeOK
  <2>3. "owner" \in R => ~Removes /\ Member(u)
    BY <1>3
  <2>4. \A m \in members : m.user = u /\ IsOwner(m) => "owner" \in R
    BY <1>0, <1>3, <1>6 DEF RolesInv, UnassignedMirrors, IsOwner, Effective
  <2> HIDE DEF u, R
  <2>5. req[r].pc # "strip"
    BY <1>1
  <2> QED
    BY <1>1, <1>2, <1>3, <1>4, <2>1, <2>2, <2>3, <2>4, <2>5, OwnersKeptWriting
<1> QED  BY <1>5, <1>6

LEMMA OwnersKeptHeal ==
    ASSUME RemovalsApart, SeatInv, OwnerInv, NEW r \in Requests, HealTarget(r)
    PROVE  OwnerInv'
<1>0. /\ SeatTypeOK /\ AskInv /\ Changes(r) /\ RolesInv /\ req[r] \in Request
  BY DEF SeatInv, OwnerInv, SeatTypeOK
<1>1. /\ UNCHANGED <<setting, members>> /\ req[r].pc = "heal"
  BY DEF HealTarget
<1>2. /\ \A d \in Requests : d # r => req'[d] = req[d]
      /\ req'[r].pc = "owners" /\ req'[r].user = req[r].user
      /\ req'[r].op = req[r].op /\ req'[r].row = req[r].row
  BY <1>0, GotoSteps DEF HealTarget, Steps
<1> DEFINE u == req[r].user
<1>3. PICK m \in members : m.user = u /\ Heal(u, m.role)
  BY DEF HealTarget
<1>4. /\ u \in Users /\ req[r].op \in {"remove", "roles"} /\ Member(u)
      /\ Removes /\ ~Accepts => req[r].row = Founding
  BY <1>0, <1>1 DEF Changes
<1>5. roles'[u] # {}
  BY <1>0, <1>3, <1>4 DEF Heal, SeatTypeOK
<1>6. Opens(r)' /\ Changes(r)'
  BY <1>1, <1>2, <1>4, <1>5
  DEF Opens, Changes, Accepting, Removes, Accepts, Member
<1>7. CASE roles[u] # {}
  <2>1. roles' = roles
    BY <1>0, <1>3, <1>4, <1>7 DEF Heal, SeatTypeOK
  <2> QED  BY <1>0, <1>1, <1>2, <1>6, <2>1, TablesStill
<1>8. CASE roles[u] = {}
  <2> DEFINE R == {m.role}
  <2>1. R \in SUBSET Roles /\ R # {}
    BY <1>0 DEF SeatTypeOK, Membership
  <2>2. roles' = [roles EXCEPT ![u] = R]
    BY <1>0, <1>3, <1>4, <1>8 DEF Heal, SeatTypeOK
  <2>3. Removes /\ "owner" \in R =>
          /\ \A n \in members : n.user = u => n.role = "owner"
          /\ Accepts => u \in Founders
    BY <1>0, <1>3 DEF RolesInv, MirrorsTell
  <2>4. \A n \in members : n.user = u /\ IsOwner(n) => "owner" \in R
    <3> SUFFICES ASSUME NEW n \in members, n.user = u, IsOwner(n)
                 PROVE  m.role = "owner"
      OBVIOUS
    <3>1. n.role = "owner"
      BY <1>8 DEF IsOwner, Effective
    <3> QED  BY <1>0, <1>3, <1>8, <3>1 DEF RolesInv, UnassignedMirrors
  <2> HIDE DEF u, R
  <2>5. req[r].pc # "strip"
    BY <1>1
  <2> QED
    BY <1>1, <1>2, <1>4, <1>6, <2>1, <2>2, <2>3, <2>4, <2>5, OwnersKeptWriting
<1> QED  BY <1>7, <1>8

\* A removal or role change under way, and the other requests beside it: none of
\* them is between the lock and its unlock.
LEMMA OthersKeptLocked ==
    ASSUME RemovalsApart, SeatInv, OwnerInv, NEW r \in Requests,
           req[r].pc \in {"drop", "strip", "assign"}, setting' = setting,
           \A d \in Requests : d # r => req'[d] = req[d],
           ~Removes => \A v : Member(v) => Member(v)',
           ~Removes => \A v \in Users : roles[v] # {} => roles'[v] # {}
    PROVE  \A d \in Requests : d # r => Opens(d)' /\ Changes(d)'
<1> SUFFICES ASSUME NEW d \in Requests, d # r PROVE Opens(d)' /\ Changes(d)'
  OBVIOUS
<1>1. SeatTypeOK /\ AskInv /\ LockInv /\ Opens(d) /\ Changes(d) /\ req'[d] = req[d]
  BY DEF SeatInv, OwnerInv
<1>2. req[d].pc \notin Locked
  BY <1>1, HolderAlone DEF Locked
<1>3. Changes(d)'
  BY <1>1, <1>2 DEF Changes, Locked
<1>4. CASE req[d].pc = "touch"
  <2>1. /\ req[d].user \in Users /\ req[d].user \in setting.accepters /\ Accepts
        /\ req[d].want = "owner" => ~Removes /\ Member(req[d].user)
        /\ req[d].user \in Founders /\ roles[req[d].user] = {} =>
             req[d].want = "owner"
    BY <1>1, <1>4 DEF Opens, AskInv, Accepting, Accepts
  <2>2. Removes => req[d].user \notin Founders
    BY <1>1, <2>1, RemovalsAreApart
  <2>3. req[d].want = "owner" => ~Removes' /\ Member(req[d].user)'
    BY <2>1 DEF Removes
  <2>4. req[d].user \in Founders /\ roles'[req[d].user] = {} =>
          req[d].want = "owner"
    BY <2>1, <2>2
  <2> QED  BY <1>1, <1>3, <1>4, <2>1, <2>3, <2>4 DEF Opens, Member
<1>5. CASE req[d].pc # "touch"
  BY <1>1, <1>3, <1>5 DEF Opens
<1> QED  BY <1>4, <1>5

LEMMA OwnersKeptDrop ==
    ASSUME RemovalsApart, SeatInv, OwnerInv, NEW r \in Requests, Drop(r)
    PROVE  OwnerInv'
<1>0. /\ SeatTypeOK /\ AskInv /\ LockInv /\ Changes(r) /\ RolesInv
  BY DEF SeatInv, OwnerInv
<1> DEFINE u == req[r].user
<1>1. /\ UNCHANGED <<setting, roles>> /\ req[r].pc = "drop"
      /\ members' = {m \in members : ~(m.user = u /\ m.via = req[r].row)}
  BY DEF Drop
<1>2. /\ u \in Users /\ req[r].op = "remove" /\ OtherOwner(u) /\ Removes
      /\ ~Accepts => req[r].row = Founding
  <2>1. u \in Users /\ req[r].op = "remove" /\ OtherOwner(u)
        /\ (Removes /\ ~Accepts => req[r].row = Founding)
    BY <1>0, <1>1 DEF Changes
  <2> QED  BY <1>0, <2>1 DEF AskInv, Removes
<1>3. /\ \A d \in Requests : d # r => req'[d] = req[d]
      /\ req'[r].pc = "strip" /\ req'[r].user = u
      /\ req'[r].op = "remove" /\ req'[r].row = req[r].row
  BY <1>0, <1>2, GotoSteps DEF Drop, Steps
<1>4. \A d \in Requests : d # r => Opens(d)' /\ Changes(d)'
  BY <1>1, <1>2, <1>3, OthersKeptLocked
<1>5. OtherOwner(u)' /\ LastOwnerStays'
  <2>1. PICK m \in members : m.user # u /\ IsOwner(m)
    BY <1>2 DEF OtherOwner
  <2>2. m \in members'
    BY <1>1, <2>1
  <2> QED
    BY <1>1, <1>3, <2>1, <2>2 DEF OtherOwner, LastOwnerStays, IsOwner, Effective
<1>6. HoldersSit'
  <2> SUFFICES ASSUME NEW v \in Users, "owner" \in roles[v], ~Member(v)'
               PROVE  \E d \in Requests : req'[d].pc = "strip" /\ req'[d].user = v
    BY <1>1 DEF HoldersSit
  <2>1. \A d \in Requests : req[d].pc # "strip"
    BY <1>0, <1>1, HolderAlone DEF Locked
  <2>2. PICK m \in members : m.user = v
    BY <1>0, <2>1 DEF RolesInv, HoldersSit, Member
  <2>3. m.user = u
    BY <1>1, <2>2 DEF Member
  <2> QED  BY <1>3, <2>2, <2>3
<1>7. UnassignedMirrors' /\ FoundersSit'
  BY <1>0, <1>1, <1>2 DEF RolesInv, UnassignedMirrors, FoundersSit, Removes
<1>8. MirrorsTell'
  BY <1>0, <1>1 DEF RolesInv, MirrorsTell, Removes, Accepts
<1>9. ~Accepts => ~Member(u)'
  BY <1>0, <1>1, <1>2, <1>3 DEF RolesInv, MirrorsTell, Member
<1>10. Opens(r)' /\ Changes(r)'
  BY <1>1, <1>2, <1>3, <1>5, <1>9
  DEF Opens, Changes, Accepting, Accepts, OtherOwner, Member, IsOwner, Effective
<1> QED
  BY <1>4, <1>5, <1>6, <1>7, <1>8, <1>10 DEF OwnerInv, RolesInv

LEMMA OwnersKeptStrip ==
    ASSUME RemovalsApart, SeatInv, OwnerInv, NEW r \in Requests, Strip(r)
    PROVE  OwnerInv'
<1>0. /\ SeatTypeOK /\ AskInv /\ LockInv /\ Changes(r) /\ RolesInv
  BY DEF SeatInv, OwnerInv
<1> DEFINE u == req[r].user
<1>1. /\ UNCHANGED <<setting, members>> /\ req[r].pc = "strip"
      /\ roles' = [roles EXCEPT ![u] = {}]
  BY DEF Strip
<1>2. u \in Users /\ OtherOwner(u) /\ Removes /\ (~Accepts => ~Member(u))
  <2>1. u \in Users /\ req[r].op = "remove" /\ OtherOwner(u)
        /\ (~Accepts => ~Member(u))
    BY <1>0, <1>1 DEF Changes
  <2> QED  BY <1>0, <2>1 DEF AskInv, Removes
<1>3. /\ \A d \in Requests : d # r => req'[d] = req[d]
      /\ req'[r].pc = "unlock"
  BY <1>0, GotoSteps DEF Strip, Steps
<1>4. \A d \in Requests : d # r => Opens(d)' /\ Changes(d)'
  BY <1>1, <1>2, <1>3, OthersKeptLocked
<1>5. /\ roles'[u] = {} /\ \A v \in Users : v # u => roles'[v] = roles[v]
      /\ \A m \in members : m.user \in Users
  BY <1>0, <1>1, <1>2 DEF SeatTypeOK, Membership
<1>6. LastOwnerStays'
  <2>1. PICK m \in members : m.user # u /\ IsOwner(m)
    BY <1>2 DEF OtherOwner
  <2>2. roles'[m.user] = roles[m.user] /\ m \in members'
    BY <1>1, <1>5, <2>1
  <2> QED  BY <2>1, <2>2 DEF LastOwnerStays, IsOwner, Effective
<1>7. HoldersSit'
  <2> SUFFICES ASSUME NEW v \in Users, "owner" \in roles'[v], ~Member(v)
               PROVE  FALSE
    BY <1>1 DEF HoldersSit, Member
  <2>1. v # u /\ "owner" \in roles[v]
    BY <1>5
  <2>2. PICK d \in Requests : req[d].pc = "strip" /\ req[d].user = v
    BY <1>0, <2>1 DEF RolesInv, HoldersSit
  <2>3. d = r
    BY <1>0, <1>1, <2>2, HolderAlone DEF Locked
  <2> QED  BY <2>1, <2>2, <2>3
<1>8. UnassignedMirrors' /\ FoundersSit'
  <2>1. \A m \in members : m.user = u => (m.role = "owner" <=> m.user \in Founders)
    BY <1>0, <1>2 DEF RolesInv, MirrorsTell, Member
  <2> QED
    BY <1>0, <1>1, <1>2, <1>5, <2>1
    DEF RolesInv, UnassignedMirrors, FoundersSit, Removes
<1>9. MirrorsTell'
  BY <1>0, <1>1, <1>5 DEF RolesInv, MirrorsTell, Removes, Accepts
<1>10. Opens(r)' /\ Changes(r)'
  BY <1>3, IdleClaimsNothing DEF Idle
<1> QED
  BY <1>3, <1>4, <1>6, <1>7, <1>8, <1>9, <1>10 DEF OwnerInv, RolesInv

LEMMA OwnersKeptAssign ==
    ASSUME RemovalsApart, SeatInv, OwnerInv, NEW r \in Requests, Assign(r)
    PROVE  OwnerInv'
<1>0. /\ SeatTypeOK /\ AskInv /\ LockInv /\ Changes(r) /\ RolesInv
  BY DEF SeatInv, OwnerInv
<1> DEFINE u == req[r].user
           w == req[r].want
           Image(m) == IF m.user = u /\ m.via = req[r].row
                       THEN [m EXCEPT !.role = w] ELSE m
<1>1. /\ UNCHANGED setting /\ req[r].pc = "assign"
      /\ roles' = [roles EXCEPT ![u] = {w}]
      /\ members' = {Image(m) : m \in members}
  BY DEF Assign
<1>2. /\ u \in Users /\ Member(u) /\ (w # "owner" => OtherOwner(u))
      /\ "roles" \in setting.ops
      /\ Removes => ~Accepts /\ req[r].row = Founding
  <2>1. u \in Users /\ Member(u) /\ (w # "owner" => OtherOwner(u))
        /\ req[r].op = "roles" /\ (Removes /\ ~Accepts => req[r].row = Founding)
    BY <1>0, <1>1 DEF Changes
  <2>2. "roles" \in setting.ops
    BY <1>0, <2>1 DEF AskInv
  <2> QED  BY <1>0, <2>1, <2>2, RemovalsAreApart
<1>3. /\ \A d \in Requests : d # r => req'[d] = req[d]
      /\ req'[r].pc = "unlock"
  BY <1>0, GotoSteps DEF Assign, Steps
<1>4. /\ roles'[u] = {w} /\ \A v \in Users : v # u => roles'[v] = roles[v]
      /\ \A m \in members : m.user \in Users
  BY <1>0, <1>1, <1>2 DEF SeatTypeOK, Membership
<1>5. \A m \in members :
        /\ Image(m).user = m.user /\ Image(m).via = m.via
        /\ m.user # u => Image(m) = m
        /\ m.user = u /\ m.via = req[r].row => Image(m).role = w
  BY <1>0 DEF SeatTypeOK, Membership
<1> HIDE DEF Image
<1>6. /\ \A m \in members' : m.user # u => m \in members
      /\ \A m \in members : m.user # u => m \in members'
      /\ \A v : Member(v)' <=> Member(v)
  BY <1>1, <1>5 DEF Member
<1> HIDE DEF u, w
<1>7. \A d \in Requests : d # r => Opens(d)' /\ Changes(d)'
  <2>1. \A v \in Users : roles[v] # {} => roles'[v] # {}
    BY <1>4
  <2> QED  BY <1>1, <1>3, <1>6, <2>1, OthersKeptLocked
<1>8. LastOwnerStays'
  <2>1. CASE w = "owner"
    <3>1. PICK m \in members' : m.user = u
      BY <1>2, <1>6 DEF Member
    <3>2. "owner" \in roles'[m.user]
      BY <1>4, <2>1, <3>1
    <3> QED  BY <3>1, <3>2 DEF LastOwnerStays, Effective
  <2>2. CASE w # "owner"
    <3>1. PICK m \in members : m.user # u /\ IsOwner(m)
      BY <1>2, <2>2 DEF OtherOwner
    <3>2. m \in members' /\ roles'[m.user] = roles[m.user]
      BY <1>4, <1>6, <3>1
    <3> QED  BY <3>1, <3>2 DEF LastOwnerStays, IsOwner, Effective
  <2> QED  BY <2>1, <2>2
<1>9. HoldersSit'
  <2> SUFFICES ASSUME NEW v \in Users, "owner" \in roles'[v] PROVE Member(v)
    BY <1>6 DEF HoldersSit
  <2>1. CASE v = u
    BY <1>2, <2>1
  <2>2. CASE v # u
    <3>1. "owner" \in roles[v] /\ \A d \in Requests : req[d].pc # "strip"
      BY <1>0, <1>1, <1>4, <2>2, HolderAlone DEF Locked
    <3> QED  BY <1>0, <3>1 DEF RolesInv, HoldersSit
  <2> QED  BY <2>1, <2>2
<1>10. UnassignedMirrors' /\ FoundersSit'
  <2>1. ASSUME NEW m \in members', roles'[m.user] = {}
        PROVE  m.role = "owner" <=> m.user \in Founders
    <3>1. m.user # u /\ m \in members
      BY <1>4, <1>6, <2>1
    <3>2. roles[m.user] = {}
      BY <1>4, <2>1, <3>1
    <3> QED  BY <1>0, <3>1, <3>2 DEF RolesInv, UnassignedMirrors
  <2> QED
    BY <1>0, <1>1, <1>6, <2>1
    DEF RolesInv, UnassignedMirrors, FoundersSit, Removes
<1>11. MirrorsTell'
  <2> SUFFICES ASSUME Removes PROVE MirrorsTell'
    BY <1>1 DEF MirrorsTell, Removes
  <2>1. /\ ~Accepts' /\ \A m \in members : m.via = req[r].row
        /\ \A m \in members : "owner" \in roles[m.user] => m.role = "owner"
        /\ \A m, n \in members : m.user = n.user => m.role = n.role
        /\ req[r].row = Founding
    BY <1>0, <1>1, <1>2 DEF RolesInv, MirrorsTell, Accepts
  <2>2. \A m \in members' :
          /\ m.via = Founding
          /\ m.user = u => m.role = w
    BY <1>1, <1>5, <2>1
  <2>3. /\ \A m \in members' : "owner" \in roles'[m.user] => m.role = "owner"
        /\ \A m, n \in members' : m.user = n.user => m.role = n.role
    <3>1. ASSUME NEW m \in members', "owner" \in roles'[m.user]
          PROVE  m.role = "owner"
      BY <1>4, <1>6, <2>1, <2>2, <3>1
    <3>2. ASSUME NEW m \in members', NEW n \in members', m.user = n.user
          PROVE  m.role = n.role
      BY <1>6, <2>1, <2>2, <3>2
    <3> QED  BY <3>1, <3>2
  <2> QED  BY <2>1, <2>2, <2>3 DEF MirrorsTell
<1>12. Opens(r)' /\ Changes(r)'
  BY <1>3, IdleClaimsNothing DEF Idle
<1> QED
  BY <1>3, <1>7, <1>8, <1>9, <1>10, <1>11, <1>12 DEF OwnerInv, RolesInv

LEMMA OwnersKept ==
    ASSUME RemovalsApart
    PROVE  SeatInv /\ OwnerInv /\ [Next]_vars => OwnerInv'
<1> SUFFICES ASSUME SeatInv, OwnerInv, [Next]_vars PROVE OwnerInv'
  OBVIOUS
<1>0. SeatTypeOK
  BY DEF SeatInv
<1>1. CASE UNCHANGED <<setting, members, roles, req>>
  <2>1. RolesInv'
    BY <1>1
    DEF OwnerInv, RolesInv, LastOwnerStays, HoldersSit, UnassignedMirrors,
        MirrorsTell, FoundersSit, Effective, Member, Removes, Accepts
  <2>2. ASSUME NEW d \in Requests PROVE Opens(d)' /\ Changes(d)'
    <3>1. Opens(d) /\ Changes(d)
      BY DEF OwnerInv
    <3> QED
      BY <1>1, <3>1
      DEF Opens, Changes, OtherOwner, IsOwner, Effective, Member, Removes, Accepts
  <2> QED  BY <2>1, <2>2 DEF OwnerInv
<1>2. CASE Expire
  BY <1>1, <1>2 DEF Expire
<1>3. CASE UNCHANGED vars
  BY <1>1, <1>3 DEF vars, tables
<1>4. ASSUME NEW r \in Requests, Asking(r) \/ Serve(r) \/ Die(r) PROVE OwnerInv'
  BY <1>0, <1>4, OwnersKeptAsking, OwnersKeptApart, OwnersKeptDying,
     OwnersKeptTarget, OwnersKeptCount, OwnersKeptAttach, OwnersKeptJoin,
     OwnersKeptGrant, OwnersKeptTouch, OwnersKeptHeal, OwnersKeptDrop,
     OwnersKeptStrip, OwnersKeptAssign
  DEF Serve
<1> QED  BY <1>2, <1>3, <1>4 DEF Next

\* LastOwnerStays: where removals do not die half-way and no owner opens links
\* beside them, an organization keeps an owner through concurrent removals,
\* demotions and acceptances (the count of owners under the seat lock).
THEOREM AnOwnerAlwaysStays ==
    ASSUME RemovalsApart
    PROVE  Spec => []LastOwnerStays
<1>1. Init => OwnerInv
  <2> SUFFICES ASSUME Init PROVE OwnerInv
    OBVIOUS
  <2>1. /\ members = [user : Founders, via : {Founding}, role : {"owner"}]
        /\ \A u \in Users :
             roles[u] = IF u \in Founders \ setting.old THEN {"owner"} ELSE {}
        /\ \A r \in Requests : req[r].pc = "new"
    BY DEF Init, At
  <2>2. /\ \A m \in members : m.user \in Founders /\ m.via = Founding
                              /\ m.role = "owner"
        /\ \A u \in Founders :
             [user |-> u, via |-> Founding, role |-> "owner"] \in members
        /\ Founders \subseteq Users
    BY <2>1, SeatAssumption
  <2>3. \A u \in Founders : Member(u)
    <3> SUFFICES ASSUME NEW u \in Founders PROVE Member(u)
      OBVIOUS
    <3> DEFINE m == [user |-> u, via |-> Founding, role |-> "owner"]
    <3>1. m \in members /\ m.user = u
      BY <2>2
    <3> QED  BY <3>1 DEF Member
  <2>4. \A u \in Users : "owner" \in roles[u] => u \in Founders
    BY <2>1
  <2>5. LastOwnerStays
    <3>1. PICK u \in Founders : TRUE
      BY SeatAssumption
    <3> DEFINE m == [user |-> u, via |-> Founding, role |-> "owner"]
    <3>2. m \in members /\ m.user = u /\ m.role = "owner" /\ u \in Users
      BY <2>2, <3>1
    <3> HIDE DEF m
    <3>3. "owner" \in Effective(m)
      BY <2>1, <2>2, <3>2 DEF Effective
    <3> QED  BY <3>2, <3>3 DEF LastOwnerStays
  <2>6. HoldersSit /\ UnassignedMirrors /\ FoundersSit
    BY <2>2, <2>3, <2>4 DEF HoldersSit, UnassignedMirrors, FoundersSit
  <2>7. MirrorsTell
    BY <2>2, <2>4 DEF MirrorsTell
  <2>8. \A r \in Requests : Opens(r) /\ Changes(r)
    BY <2>1 DEF Opens, Changes, Accepting
  <2> QED  BY <2>5, <2>6, <2>7, <2>8 DEF OwnerInv, RolesInv
<1>2. OwnerInv => LastOwnerStays
  BY DEF OwnerInv, RolesInv
<1> QED  BY <1>1, <1>2, SeatInvHolds, OwnersKept, PTL DEF Spec
===============================================================================
