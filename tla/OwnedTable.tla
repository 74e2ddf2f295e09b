------------------------------ MODULE OwnedTable ------------------------------
(***************************************************************************)
(* What the passes over one connector instance promise of its records: the *)
(* table has one owner at a time; it changes only under its owner, towards *)
(* what the owner found at the source; what the owner did not find goes    *)
(* only once all it found is in; and a job's work counts as finished only  *)
(* when the table is exactly what its pass found.                          *)
(***************************************************************************)
CONSTANTS Owners, Nobody, Rows, Tasks

VARIABLES
    table,      \* the live records
    owner,      \* whose pass works on them
    goal,       \* the records the owner has found so far
    finished    \* the jobs whose work is finished

tableVars == <<table, owner, goal, finished>>

TableInit ==
    /\ table \subseteq Rows
    /\ goal = {} /\ finished = {}
    /\ owner = Nobody

TakeTable(p) ==
    /\ owner = Nobody
    /\ owner' = p
    /\ UNCHANGED <<table, goal, finished>>

\* The owner found more.
Aim ==
    /\ owner # Nobody
    /\ goal' \in SUBSET Rows /\ goal \subseteq goal'
    /\ UNCHANGED <<table, owner, finished>>

\* Some of what was found is added, ...
Fill ==
    /\ owner # Nobody
    /\ \E found \in SUBSET goal : table' = table \cup found
    /\ UNCHANGED <<owner, goal, finished>>

\* ... and of the rest removed.
Trim ==
    /\ owner # Nobody /\ goal \subseteq table
    /\ \E gone \in SUBSET (table \ goal) : table' = table \ gone
    /\ UNCHANGED <<owner, goal, finished>>

Publish(t) ==
    /\ owner # Nobody /\ table = goal
    /\ finished' = finished \cup {t}
    /\ owner' = Nobody /\ goal' = {}
    /\ UNCHANGED table

\* The owner fails, dies, or has nothing left to do.
GiveUp ==
    /\ owner # Nobody
    /\ owner' = Nobody /\ goal' = {}
    /\ UNCHANGED <<table, finished>>

TableNext ==
    \/ \E p \in Owners : TakeTable(p)
    \/ \E t \in Tasks : Publish(t)
    \/ Aim \/ Fill \/ Trim \/ GiveUp

TableSpec == TableInit /\ [][TableNext]_tableVars
===============================================================================
