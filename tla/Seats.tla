--------------------------------- MODULE Seats ---------------------------------
(***************************************************************************)
(* The seats of one organization (#584, #620): invitations, acceptances,   *)
(* removals and role changes, as requests whose statements interleave.     *)
(* Invitations, removals and role changes queue for the organization's     *)
(* session lock (withSeatLock) on a connection reserved from the pool;     *)
(* acceptances, revocations and resends take no lock.                      *)
(***************************************************************************)
EXTENDS Naturals, FiniteSets

CONSTANTS
    Requests,      \* requests of one behaviour, numbered as they arrive
    NoRequest,     \* the holder of the free lock
    Invites,       \* rows of `invitations`, live or still to be inserted
    Users,         \* a user stands for its e-mail address
    NoUser,        \* nobody accepted
    Founders,      \* the owners an organization starts with
    Founding,      \* where their memberships come from
    MaxSeats,      \* tiers.maxSeats
    Pool,          \* connections of the pool (10)
    Settings       \* the requests made, the users that open links, the members
                   \* older than user_role, and whether requests may die

Operations == {"invite", "accept", "revoke", "resend", "remove", "roles"}
Queued == {"invite", "remove", "roles"}           \* under the seat lock

\* The system roles a rule looks at.
Roles == {"owner", "member"}

ASSUME SeatAssumption ==
    /\ Requests \subseteq Nat /\ IsFiniteSet(Requests)
    /\ NoRequest \notin Requests
    /\ NoUser \notin Users
    /\ Founding \notin Invites
    /\ Founders \subseteq Users /\ Founders # {}
    /\ IsFiniteSet(Users) /\ IsFiniteSet(Invites)
    /\ MaxSeats \in Nat /\ Pool \in Nat
    /\ Cardinality(Founders) <= MaxSeats
    /\ Settings \subseteq [ops : SUBSET Operations, accepters : SUBSET Users,
                           old : SUBSET Founders, faults : BOOLEAN]

VARIABLES
    setting,       \* fixed: the requests and faults of the behaviour
    members,       \* live rows of organization_users
    roles,         \* a user's live rows of user_role
    invite,        \* the rows of `invitations`
    req,           \* the requests
    reserved,      \* those that hold a reserved connection
    holder         \* of the seat lock

tables == <<members, roles, invite>>
lock == <<reserved, holder>>
vars == <<setting, tables, req, lock>>

Membership == [user : Users, via : Invites \cup {Founding}, role : Roles]

Invitation ==
    [status : {"none", "pending", "accepted", "revoked"},
     email : Users \cup {NoUser}, live : BOOLEAN,   \* expires_at > now
     token : Nat, by : Users \cup {NoUser}]

Steps == {"new", "check", "reserve", "wait", "count", "admit", "create",
          "target", "heal", "owners", "drop", "strip", "assign", "unlock",
          "consume", "attach", "join", "grant", "touch",
          "find", "update", "done"}

Request ==
    [pc : Steps,                          \* the statement it makes next
     op : Operations \cup {"none"},
     user : Users \cup {NoUser},          \* whom it is about
     row : Invites \cup {Founding},       \* the invitation, or the membership's
     token : Nat,                         \* the link it was opened with
     want : Roles,                        \* the role it sets, or has read
     counted : Nat]                       \* the memberships it counted

At(step) == [pc |-> step, op |-> "none", user |-> NoUser, row |-> Founding,
             token |-> 0, want |-> "member", counted |-> 0]

-----------------------------------------------------------------------------
(* Helpers *)

Member(u) == \E m \in members : m.user = u

\* user_role rows, or the membership's mirror where there is none yet.
Effective(m) == IF roles[m.user] = {} THEN {m.role} ELSE roles[m.user]

PendingActive == {i \in Invites : invite[i].status = "pending" /\ invite[i].live}

\* countUsersWithRole: rows of user_role, whoever they belong to.
Holders(role) == {u \in Users : role \in roles[u]}

\* A statement outside the reserved connections needs one of the rest.
CanQuery == Cardinality(reserved) < Pool

\* A request that is over is forgotten.
After(q, step) == IF step = "done" THEN At("done") ELSE [q EXCEPT !.pc = step]

Note(r, q, step) == req' = [req EXCEPT ![r] = After(q, step)]
Goto(r, step) == Note(r, req[r], step)

\* materializeFromEnum: a user without a row gets the role of the mirror.
Heal(u, role) ==
    roles' = [roles EXCEPT ![u] = IF @ = {} THEN {role} ELSE @]

Init ==
    /\ setting \in Settings
    /\ members = [user : Founders, via : {Founding}, role : {"owner"}]
    /\ roles = [u \in Users |->
                  IF u \in Founders \ setting.old THEN {"owner"} ELSE {}]
    /\ invite = [i \in Invites |->
                   [status |-> "none", email |-> NoUser, live |-> FALSE,
                    token |-> 0, by |-> NoUser]]
    /\ req = [r \in Requests |-> At("new")]
    /\ reserved = {}
    /\ holder = NoRequest

-----------------------------------------------------------------------------
(* Requests *)

First(o) ==
    CASE o = "invite" -> "check"
      [] o = "accept" -> "consume"
      [] o \in {"revoke", "resend"} -> "find"
      [] OTHER -> "reserve"

Ask(r, o, u, i, k, w) ==
    /\ o \in setting.ops
    /\ req[r].pc = "new" /\ \A q \in Requests : q < r => req[q].pc # "new"
    /\ req' = [req EXCEPT ![r] =
                 [pc |-> First(o), op |-> o, user |-> u, row |-> i, token |-> k,
                  want |-> w, counted |-> 0]]
    /\ UNCHANGED <<setting, tables, lock>>

\* Bound: one row of Invites per request.
AskInvite(r) ==
    /\ Cardinality({q \in Requests : req[q].op = "invite"})
         < Cardinality({i \in Invites : invite[i].status = "none"})
    /\ \E u \in Users : Ask(r, "invite", u, Founding, 0, "member")

AskRemove(r) == \E u \in Users : Ask(r, "remove", u, Founding, 0, "member")

AskRoles(r) ==
    \E u \in Users, w \in Roles : Ask(r, "roles", u, Founding, 0, w)

AskChange(r) ==
    \E i \in Invites, o \in {"revoke", "resend"} :
        /\ invite[i].status # "none"
        /\ Ask(r, o, NoUser, i, 0, "member")

\* Whoever has a link may open it; a first login finds the link itself
\* (acceptPendingForEmail).
AskAccept(r) ==
    \E u \in setting.accepters, i \in Invites :
        /\ invite[i].status # "none"
        /\ \E k \in 1..invite[i].token : Ask(r, "accept", u, i, k, "member")

\* Before the lock: an invited address must not be a member's.
Check(r) ==
    /\ req[r].pc = "check" /\ CanQuery
    /\ Goto(r, IF Member(req[r].user) THEN "done" ELSE "reserve")
    /\ UNCHANGED <<setting, tables, lock>>

-----------------------------------------------------------------------------
(* The seat lock *)

Reserve(r) ==
    /\ req[r].pc = "reserve" /\ CanQuery
    /\ reserved' = reserved \cup {r}
    /\ Goto(r, "wait")
    /\ UNCHANGED <<setting, tables, holder>>

\* Mutant: nobody waits for the lock.
MutantAcquire(r) ==
    /\ req[r].pc = "wait"
    /\ holder' = r
    /\ Goto(r, IF req[r].op = "invite" THEN "count" ELSE "target")
    /\ UNCHANGED <<setting, tables, reserved>>

Acquire(r) ==
    /\ req[r].pc = "wait" /\ holder = NoRequest
    /\ holder' = r
    /\ Goto(r, IF req[r].op = "invite" THEN "count" ELSE "target")
    /\ UNCHANGED <<setting, tables, reserved>>

\* Mutant: the wait has no deadline.
MutantTimeOut(r) == FALSE /\ UNCHANGED vars

\* The deadline passed with the lock still held: SeatLockWaitTimeoutError.
TimeOut(r) ==
    /\ req[r].pc = "wait" /\ holder # NoRequest
    /\ reserved' = reserved \ {r}
    /\ Goto(r, "done")
    /\ UNCHANGED <<setting, tables, holder>>

\* Mutant: the connection goes back with the session's lock.
MutantUnlock(r) ==
    /\ req[r].pc = "unlock"
    /\ reserved' = reserved \ {r}
    /\ Goto(r, "done")
    /\ UNCHANGED <<setting, tables, holder>>

\* pg_advisory_unlock and reserved.release(); the unlock needs no other
\* connection.
Unlock(r) ==
    /\ req[r].pc = "unlock"
    /\ holder' = NoRequest
    /\ reserved' = reserved \ {r}
    /\ Goto(r, "done")
    /\ UNCHANGED <<setting, tables>>

-----------------------------------------------------------------------------
(* invite, under the lock *)

\* Any pending row of the address refuses, an expired one too.  The members and
\* the pending invitations are counted by two statements.
Count(r) ==
    /\ req[r].pc = "count" /\ CanQuery
    /\ Note(r, [req[r] EXCEPT !.counted = Cardinality(members)],
            IF \E i \in Invites : /\ invite[i].status = "pending"
                                  /\ invite[i].email = req[r].user
            THEN "unlock" ELSE "admit")
    /\ UNCHANGED <<setting, tables, lock>>

Admit(r) ==
    /\ req[r].pc = "admit" /\ CanQuery
    /\ Goto(r, IF req[r].counted + Cardinality(PendingActive) < MaxSeats
               THEN "create" ELSE "unlock")
    /\ UNCHANGED <<setting, tables, lock>>

Create(r) ==
    /\ req[r].pc = "create" /\ CanQuery
    /\ \E i \in Invites :
         /\ invite[i].status = "none"
         /\ invite' = [invite EXCEPT ![i] =
                         [status |-> "pending", email |-> req[r].user, live |-> TRUE,
                          token |-> 1, by |-> NoUser]]
    /\ Goto(r, "unlock")
    /\ UNCHANGED <<setting, members, roles, lock>>

-----------------------------------------------------------------------------
(* removeMember and setMemberRoles, under the lock *)

\* findByOrganizationAndUser: one live row of the user, if any.
Target(r) ==
    /\ req[r].pc = "target" /\ CanQuery
    /\ \/ /\ ~Member(req[r].user)
          /\ Goto(r, "unlock")
       \/ \E m \in members :
             /\ m.user = req[r].user
             /\ Note(r, [req[r] EXCEPT !.row = m.via],
                     IF req[r].op = "remove" /\ m.role # "owner"
                     THEN "drop" ELSE "heal")
    /\ UNCHANGED <<setting, tables, lock>>

\* The row target found, as it was read: only this lock's holder changes a role.
HealTarget(r) ==
    /\ req[r].pc = "heal" /\ CanQuery
    /\ \E m \in members :
         /\ m.user = req[r].user /\ m.via = req[r].row
         /\ Heal(req[r].user, m.role)
    /\ Goto(r, "owners")
    /\ UNCHANGED <<setting, members, invite, lock>>

\* Mutant: the owners are not counted.
MutantCountOwners(r) ==
    /\ req[r].pc = "owners" /\ CanQuery
    /\ Goto(r, IF req[r].op = "remove" THEN "drop" ELSE "assign")
    /\ UNCHANGED <<setting, tables, lock>>

\* Removing an owner, or the owner role, takes more than one.
CountOwners(r) ==
    /\ req[r].pc = "owners" /\ CanQuery
    /\ LET last == Cardinality(Holders("owner")) <= 1
           strips == req[r].want # "owner" /\ "owner" \in roles[req[r].user]
       IN  Goto(r, IF req[r].op = "remove"
                   THEN (IF last THEN "unlock" ELSE "drop")
                   ELSE IF roles[req[r].user] = {req[r].want} \/ (strips /\ last)
                        THEN "unlock" ELSE "assign")
    /\ UNCHANGED <<setting, tables, lock>>

Drop(r) ==
    /\ req[r].pc = "drop" /\ CanQuery
    /\ members' = {m \in members : ~(m.user = req[r].user /\ m.via = req[r].row)}
    /\ Goto(r, "strip")
    /\ UNCHANGED <<setting, roles, invite, lock>>

\* removeAllForUser; grants, policies and groups follow the same way.
Strip(r) ==
    /\ req[r].pc = "strip" /\ CanQuery
    /\ roles' = [roles EXCEPT ![req[r].user] = {}]
    /\ Goto(r, "unlock")
    /\ UNCHANGED <<setting, members, invite, lock>>

\* One transaction: the role set and the mirror.
Assign(r) ==
    /\ req[r].pc = "assign" /\ CanQuery
    /\ roles' = [roles EXCEPT ![req[r].user] = {req[r].want}]
    /\ members' = {IF m.user = req[r].user /\ m.via = req[r].row
                   THEN [m EXCEPT !.role = req[r].want] ELSE m : m \in members}
    /\ Goto(r, "unlock")
    /\ UNCHANGED <<setting, invite, lock>>

-----------------------------------------------------------------------------
(* acceptByToken, without the lock *)

\* Mutant: the update does not ask for a pending row.
MutantConsume(r) ==
    /\ req[r].pc = "consume" /\ CanQuery
    /\ IF invite[req[r].row].token = req[r].token /\ invite[req[r].row].live
       THEN /\ invite' = [invite EXCEPT ![req[r].row].status = "accepted",
                                        ![req[r].row].by = req[r].user]
            /\ Goto(r, "attach")
       ELSE /\ Goto(r, "done")
            /\ UNCHANGED invite
    /\ UNCHANGED <<setting, members, roles, lock>>

\* UPDATE ... WHERE token_hash = $1 AND status = 'pending' AND expires_at > now.
Consume(r) ==
    /\ req[r].pc = "consume" /\ CanQuery
    /\ IF /\ invite[req[r].row].token = req[r].token
          /\ req[r].row \in PendingActive
       THEN /\ invite' = [invite EXCEPT ![req[r].row].status = "accepted",
                                        ![req[r].row].by = req[r].user]
            /\ Goto(r, "attach")
       ELSE /\ Goto(r, "done")
            /\ UNCHANGED invite
    /\ UNCHANGED <<setting, members, roles, lock>>

\* attachMembership reads; nothing makes (organization, user) unique.
Attach(r) ==
    /\ req[r].pc = "attach" /\ CanQuery
    /\ \/ /\ ~Member(req[r].user)
          /\ Goto(r, "join")
       \/ \E m \in members :
             /\ m.user = req[r].user
             /\ Note(r, [req[r] EXCEPT !.want = m.role], "touch")
    /\ UNCHANGED <<setting, tables, lock>>

\* An invitation's role is never "owner".
Join(r) ==
    /\ req[r].pc = "join" /\ CanQuery
    /\ members' = members \cup
         {[user |-> req[r].user, via |-> req[r].row, role |-> "member"]}
    /\ Goto(r, "grant")
    /\ UNCHANGED <<setting, roles, invite, lock>>

Grant(r) ==
    /\ req[r].pc = "grant" /\ CanQuery
    /\ roles' = [roles EXCEPT ![req[r].user] = @ \cup {"member"}]
    /\ Goto(r, "done")
    /\ UNCHANGED <<setting, members, invite, lock>>

\* A member already: the role it read is materialized if it has none by now.
Touch(r) ==
    /\ req[r].pc = "touch" /\ CanQuery
    /\ Heal(req[r].user, req[r].want)
    /\ Goto(r, "done")
    /\ UNCHANGED <<setting, members, invite, lock>>

-----------------------------------------------------------------------------
(* revoke and resend, without the lock *)

\* requirePending: expired rows are pending too.
Find(r) ==
    /\ req[r].pc = "find" /\ CanQuery
    /\ Goto(r, IF invite[req[r].row].status = "pending" THEN "update" ELSE "done")
    /\ UNCHANGED <<setting, tables, lock>>

\* By id, whatever the row has become.
Update(r) ==
    /\ req[r].pc = "update" /\ CanQuery
    /\ invite' =
         IF req[r].op = "revoke"
         THEN [invite EXCEPT ![req[r].row].status = "revoked"]
         ELSE [invite EXCEPT ![req[r].row].token = @ + 1, ![req[r].row].live = TRUE]
    /\ Goto(r, "done")
    /\ UNCHANGED <<setting, members, roles, lock>>

-----------------------------------------------------------------------------
(* The environment *)

Expire ==
    /\ \E i \in PendingActive :
         invite' = [invite EXCEPT ![i].live = FALSE]
    /\ UNCHANGED <<setting, members, roles, req, lock>>

\* A statement fails or the process dies: what follows is not done, and the
\* session's lock and connection come free.
Die(r) ==
    /\ setting.faults
    /\ req[r].pc \notin {"new", "done"}
    /\ holder' = IF holder = r THEN NoRequest ELSE holder
    /\ reserved' = reserved \ {r}
    /\ Goto(r, "done")
    /\ UNCHANGED <<setting, tables>>

Asking(r) ==
    AskInvite(r) \/ AskRemove(r) \/ AskRoles(r) \/ AskChange(r) \/ AskAccept(r)

Serve(r) ==
    \/ Check(r) \/ Reserve(r) \/ Acquire(r) \/ TimeOut(r) \/ Unlock(r)
    \/ Count(r) \/ Admit(r) \/ Create(r)
    \/ Target(r) \/ HealTarget(r) \/ CountOwners(r) \/ Drop(r) \/ Strip(r)
    \/ Assign(r)
    \/ Consume(r) \/ Attach(r) \/ Join(r) \/ Grant(r) \/ Touch(r)
    \/ Find(r) \/ Update(r)

Next == Expire \/ \E r \in Requests : Asking(r) \/ Serve(r) \/ Die(r)

Spec == Init /\ [][Next]_vars

\* Every statement of a request is run in the end, and a wait ends.
FairSpec == Spec /\ \A r \in Requests : WF_vars(Serve(r))

-----------------------------------------------------------------------------
(* Properties *)

\* The types of the variables: no more connections are reserved than there are,
\* and the lock is held on a reserved one, never by a session back in the pool.
SeatTypeOK ==
    /\ setting \in Settings
    /\ members \subseteq Membership
    /\ roles \in [Users -> SUBSET Roles]
    /\ invite \in [Invites -> Invitation]
    /\ req \in [Requests -> Request]
    /\ reserved \subseteq Requests /\ Cardinality(reserved) <= Pool
    /\ holder \in reserved \cup {NoRequest}

\* Members and reserved seats never exceed the tier's (sync-lock.service.ts:
\* "impossible to overshoot under concurrent invites").
SeatCapKept == Cardinality(members) + Cardinality(PendingActive) <= MaxSeats

\* Where nothing is accepted or resent, concurrent invitations, removals,
\* revocations and expiries keep the cap: the lock serializes count and insert.
InvitesKeepCap == setting.ops \cap {"accept", "resend"} = {} => SeatCapKept

\* The organization keeps a member who is an owner, by its role rows or by the
\* mirror where none were written, through concurrent removals and demotions.
LastOwnerStays == \E m \in members : "owner" \in Effective(m)

\* An invitation seats one user, and only the user it records as having
\* accepted it: through second openings, old links, revocations and expiry
\* (consumeByTokenHash: "the single-winner arbiter").
InviteSeatsOne ==
    \A m, n \in members :
        m.via \in Invites =>
            /\ invite[m.via].by = m.user
            /\ n.via = m.via => n.user = m.user

\* A request that was made ends, though the waiters for the lock may hold every
\* connection its holder needs.
EveryRequestEnds ==
    \A r \in Requests : req[r].pc \notin {"new", "done"} ~> req[r].pc = "done"
===============================================================================
