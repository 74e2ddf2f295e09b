----------------------------- MODULE MCPortalTurn -----------------------------
(* Two messages of one portal and three streams. *)
EXTENDS PortalTurn

CONSTANTS c1, c2, c3, m1, m2

MCSettings == {{"die"}, {"redis"}, {"slow"}, {"notice"}, {"reset"}}

Sound == {{}}
===============================================================================
