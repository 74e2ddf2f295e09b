-------------------------------- MODULE MCSeats --------------------------------
(* Seats of an organization with two founders and a tier of three seats. *)
EXTENDS Seats

CONSTANTS i1, i2, o1, o2, n1, n2

\* Invitations with everything that needs no acceptance; removals beside role
\* changes; acceptances by newcomers beside removals, and with requests that die.
MCSettings ==
    {[ops |-> {"invite", "remove", "revoke"}, accepters |-> {}, old |-> {},
      faults |-> FALSE],
     [ops |-> {"remove", "roles"}, accepters |-> {}, old |-> {o1},
      faults |-> FALSE],
     [ops |-> {"invite", "accept", "remove"}, accepters |-> {n1}, old |-> {},
      faults |-> FALSE],
     [ops |-> {"invite", "accept", "resend", "revoke"}, accepters |-> {n1, n2, o2},
      old |-> {}, faults |-> TRUE]}

InvitesAndAcceptances ==
    {[ops |-> {"invite", "accept"}, accepters |-> {n1, n2}, old |-> {},
      faults |-> FALSE]}
===============================================================================
