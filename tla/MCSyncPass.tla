----------------------------- MODULE MCSyncPass -----------------------------
(* SyncPass with a draft and a sync of one instance. *)
EXTENDS SyncPass

CONSTANTS p1, p2, d1, s1, a, b

\* The faults met together.
MCSettings ==
    [connector : {"sheet"},
     faults : {{"stall"}, {"stall", "throw"}, {"crash", "throw", "retry", "status"}}]
        \cup [connector : {"rest", "keyless"},
              faults : {{"crash"}, {"stall"}, {"retry"}}]

===============================================================================
