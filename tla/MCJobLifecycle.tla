---------------------------- MODULE MCJobLifecycle ----------------------------
(***************************************************************************)
(* Small instances of JobLifecycle for TLC.  One job is enough for what    *)
(* this module says: its rows and entries do not interact, and the worker  *)
(* contexts are the only thing jobs share.                                 *)
(***************************************************************************)
EXTENDS JobLifecycle, TLC

Symmetry == Permutations(Execs) \cup Permutations(Jobs)
=============================================================================
