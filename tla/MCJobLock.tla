------------------------------- MODULE MCJobLock -------------------------------
(* One instance with two entities, e2 created as the system runs; t1 is an agent *)
(* tool call, u1 and u2 are route writes or job starts.                         *)
EXTENDS JobLock, TLC

CONSTANTS i1, e1, e2, j1, j2, t1, u1, u2

MCInstanceOf == e1 :> i1 @@ e2 :> i1
MCRank == e1 :> 1 @@ e2 :> 2 @@ i1 :> 3

WriteColumn == [kind |-> "write", target |-> Column]
Writes ==
    {WriteColumn}
    \cup [kind : {"create"}, target : {e2}]
    \cup [kind : {"delete"}, target : {i1}]
Routes == {WriteColumn} \cup [kind : {"delete"}, target : {e1}]
JobStarts == [kind : {"start"}, target : {{i1}, {e1}, {e1, e2}}, job : {j1, j2}]

MCRequestsOf ==
    t1 :> Writes @@ u1 :> Routes \cup JobStarts @@ u2 :> Routes \cup JobStarts

Symmetry == Permutations({j1, j2}) \cup Permutations({u1, u2})
=============================================================================
