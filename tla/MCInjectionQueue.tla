--------------------------- MODULE MCInjectionQueue ---------------------------
(***************************************************************************)
(* Instance of InjectionQueue: two requests of one connection and a single *)
(* response worker.  The middleware of one may panic, which leaves the     *)
(* other its middleware worker and an injection that never comes to rest   *)
(* in front of it or behind it.  Bodies are not what this is about.        *)
(***************************************************************************)
EXTENDS InjectionQueue

CONSTANTS r1, r2, c1

TwoRequests == {r1, r2}
SharedConn == [r \in TwoRequests |-> c1]
PairProfiles ==
    {[kind |-> k, storage |-> "memory", get |-> FALSE, more |-> FALSE, mws |-> 1] :
        k \in {"regular", "stream", "wrong_method"}}
===============================================================================
