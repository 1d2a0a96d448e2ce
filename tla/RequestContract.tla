--------------------------- MODULE RequestContract ----------------------------
(***************************************************************************)
(* What the pipeline of threads promises the two ends of a request: the    *)
(* client, who sees response headers, and the application, whose handler   *)
(* or stream callback is called.  None of the threads, channels and shared *)
(* maps appears here.  RequestLifecycle implements this specification.     *)
(*                                                                         *)
(*   nothing --Refuse----------------------------> error header            *)
(*      |                                                                  *)
(*      +------Promise--> 100 --Serve, both parts-> called and answered    *)
(*                                                                         *)
(* A refused request is never called, a promised one is never refused.     *)
(* The call of a route's handler comes before its answer, the header that  *)
(* opens a stream session before the call of its callback.  The client or  *)
(* the connection may withdraw a request until it is being served.         *)
(***************************************************************************)
EXTENDS Naturals

CONSTANT Requests

VARIABLES
    opens,     \* the request opens a stream session
    interim,   \* 100 responses queued
    final,     \* final response headers queued
    calls,     \* calls of the handler or stream callback
    withdrawn  \* the request was cancelled while it waited

vars == <<opens, interim, final, calls, withdrawn>>

Init ==
    /\ opens \in [Requests -> BOOLEAN]
    /\ interim = [r \in Requests |-> 0]
    /\ final = [r \in Requests |-> 0]
    /\ calls = [r \in Requests |-> 0]
    /\ withdrawn = [r \in Requests |-> FALSE]

\* The routing and the middlewares let the request pass.
Promise(r) ==
    /\ interim[r] = 0 /\ final[r] = 0
    /\ interim' = [interim EXCEPT ![r] = 1]
    /\ UNCHANGED <<opens, final, calls, withdrawn>>

\* They do not: 404 or the error of a middleware.
Refuse(r) ==
    /\ interim[r] = 0 /\ final[r] = 0
    /\ final' = [final EXCEPT ![r] = 1]
    /\ UNCHANGED <<opens, interim, calls, withdrawn>>

\* The request is served: called, and answered, in the order its kind asks for.
Call(r) ==
    /\ interim[r] = 1 /\ ~withdrawn[r]
    /\ calls[r] = 0 /\ (final[r] = 1 <=> opens[r])
    /\ calls' = [calls EXCEPT ![r] = 1]
    /\ UNCHANGED <<opens, interim, final, withdrawn>>

Answer(r) ==
    /\ interim[r] = 1 /\ ~withdrawn[r]
    /\ final[r] = 0 /\ (calls[r] = 1 <=> ~opens[r])
    /\ final' = [final EXCEPT ![r] = 1]
    /\ UNCHANGED <<opens, interim, calls, withdrawn>>

BeingServed(r) == calls[r] = 1 \/ (interim[r] = 1 /\ final[r] = 1)

\* One request is reset, or all those of a connection end with it.
Withdraw(R) ==
    /\ \A r \in R : ~BeingServed(r)
    /\ withdrawn' = [r \in Requests |-> withdrawn[r] \/ r \in R]
    /\ UNCHANGED <<opens, interim, final, calls>>

Next ==
    \/ \E r \in Requests : Promise(r) \/ Refuse(r) \/ Call(r) \/ Answer(r)
    \/ \E R \in SUBSET Requests : Withdraw(R)

Spec == Init /\ [][Next]_vars
===============================================================================
