------------------------------- MODULE MCLockGate -------------------------------
(* Two organizations: oa has instance i1 with its entity e1, two agent tool     *)
(* calls (t1, t2) and one caller that writes or starts jobs (u1); ob has i2, e2 *)
(* and a tool call (t3) of its own.                                             *)
EXTENDS LockGate, TLC

CONSTANTS i1, i2, e1, e2, j1, t1, t2, t3, u1, oa, ob

MCInstanceOf == e1 :> i1 @@ e2 :> i2
MCRank == e1 :> 1 @@ e2 :> 2 @@ i1 :> 3 @@ i2 :> 4
MCKeyOf == t1 :> oa @@ t2 :> oa @@ t3 :> ob

WriteEntity(e) == [kind |-> "write", target |-> e]
Start(s, j) == [kind |-> "start", target |-> s, job |-> j]

MCRequestsOf ==
    t1 :> {WriteEntity(e1)} @@ t2 :> {WriteEntity(e1)} @@ t3 :> {WriteEntity(e2)}
    @@ u1 :> {WriteEntity(e1), Start({i1}, j1)}
=============================================================================
