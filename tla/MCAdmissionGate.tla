----------------------------- MODULE MCAdmissionGate -----------------------------
(* Six callers of three organizations against the lock gate's own limits (three *)
(* at once, two of an organization) and a queue that can be full.                *)
EXTENDS AdmissionGate, TLC

CONSTANTS c1, c2, c3, c4, c5, c6, oa, ob, oc

MCKeyOf == c1 :> oa @@ c2 :> oa @@ c3 :> oa @@ c4 :> oa @@ c5 :> ob @@ c6 :> oc
=============================================================================
