---------------------------- MODULE InjectionQueue ----------------------------
(***************************************************************************)
(* The channel of the response workers, in its order.  RequestLifecycle    *)
(* keeps no order among the queued injections and is fair to each request; *)
(* here the workers take the oldest injection, put one that is still       *)
(* Pending back behind the others, and only the threads are fair.  An      *)
(* injection whose middleware panicked circulates for ever, so that it     *)
(* competes for the workers with every other request.                      *)
(***************************************************************************)
EXTENDS RequestLifecycle, Sequences

VARIABLE order   \* the injections in the channel, oldest first

queueVars == <<vars, order>>

QueueInit == Init /\ order = <<>>

-------------------------------------------------------------------------------
\* handle_finished_stream, which Event::Finished calls: the network thread sends.
Send(r) ==
    /\ FinishedListed(r)
    /\ order' = Append(order, r)

\* A free worker receives the oldest injection and registers it.
Receive(r) ==
    /\ order # <<>> /\ r = Head(order)
    /\ Register(r)
    /\ order' = Tail(order)

\* Mutant: the worker tries the same injection again at once.
RetriedAtOnce(q, r) == <<r>> \o q

\* The worker sends the injection to the channel it received it from.
Retried(q, r) == Append(q, r)

Retry(r) ==
    /\ Requeue(r)
    /\ inj'[r] = "queued"
    /\ order' = Retried(order, r)

\* Everything that leaves the channel alone.
Elsewhere ==
    /\ Next
    /\ \A r \in Requests : inj'[r] = "queued" <=> inj[r] = "queued"
    /\ UNCHANGED order

QueueNext ==
    \/ \E r \in Requests : Send(r) \/ Receive(r) \/ Retry(r)
    \/ Elsewhere

QueueSpec == QueueInit /\ [][QueueNext]_queueVars

(***************************************************************************)
(* A worker that has an injection goes on with it, and an idle one does    *)
(* not leave a channel waiting that is not empty: recv says nothing about  *)
(* which request is served.  The other threads are as in RequestLifecycle. *)
(***************************************************************************)
QueueFairness ==
    /\ WF_queueVars(\E r \in Requests : Receive(r))
    /\ WF_vars(NetworkRest)
    /\ \A r \in Requests :
          /\ WF_vars(inj[r] # "queued" /\ ResponseWorker(r))
          /\ WF_vars(HeaderProcessor(r)) /\ WF_vars(MiddlewareWorker(r))
          /\ WF_vars(ResultThread(r)) /\ WF_vars(SignalReceiver(r))

FairQueueSpec == QueueSpec /\ QueueFairness

-------------------------------------------------------------------------------
\* Every response worker died in a handler or callback that panicked.
PoolGone == Cardinality({r \in Requests : inj[r] = "panicked"}) = ResponseWorkers

\* An injection that is put back again and again does not keep the workers from
\* the others: a request whose stream finished gets a final response unless its
\* connection closes, its own callback panics or the last worker is gone, even
\* if one worker serves all and the other request stays Pending for ever.
AnsweredInTurn ==
    \A r \in Requests :
       stream[r] = "finished"
          ~> (final[r] > 0 \/ stream[r] = "closed" \/ r \in Panicked \/ PoolGone)
===============================================================================
