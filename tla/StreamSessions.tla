---------------------------- MODULE StreamSessions ----------------------------
(***************************************************************************)
(* The sessions of one stream path: the registry of users, under its lock, *)
(* and the messages the application sends to them.                         *)
(*                                                                         *)
(*   - a response worker opens the stream of a request and runs its        *)
(*     callback, which registers the session of a user;                    *)
(*   - application threads send a message to every session of a user, or   *)
(*     retry a capsule they were given; both hold the registry lock from   *)
(*     the lookup to the last enqueue;                                     *)
(*   - the network thread resets streams, whose callback or opening        *)
(*     failed, which needs no lock and takes their queues away, and        *)
(*     collects closed connections.                                        *)
(*                                                                         *)
(* The registry itself is the application's implementation of UserSessions:*)
(* as in the repository's own, a connection has one session at a time.     *)
(* The capsules themselves are not modelled, only which queue took one.    *)
(***************************************************************************)
EXTENDS Naturals, Sequences, FiniteSets

CONSTANTS
    Users, Conns, StreamIds,
    Targets,   \* the streams that ask for a session, <<connection, stream id>>
    Senders,   \* application threads
    NoSession, \* of a connection without a registered session
    Free,      \* the lock
    MaxOps     \* bound: messages and retries per application thread

ASSUME SessionsAssumption ==
    /\ Targets \subseteq Conns \X StreamIds
    /\ NoSession \notin [user : Users, stream : StreamIds]
    /\ Free \notin Senders
    /\ MaxOps \in Nat
    /\ IsFiniteSet(Conns)

VARIABLES
    lock,     \* the mutex of StreamSessions
    station,  \* chunking_station has been set
    reg,      \* registered_sessions
    queue,    \* the channels of a stream in ChunksDispatchChannel
    cb,       \* the callback of a stream
    conn,     \* the connection in the network thread
    op,       \* what an application thread is doing
    prepared  \* the capsules handed out so far, by target

vars == <<lock, station, reg, queue, cb, conn, op, prepared>>

Sessions == [user : Users, stream : StreamIds] \cup {NoSession}
Idle(n) == [pc |-> "idle", user |-> NoSession, targets |-> <<>>, next |-> 1,
            absent |-> FALSE, accepted |-> <<>>, woke |-> "no",
            res |-> "none", ops |-> n]

TypeOK ==
    /\ lock \in Senders \cup {Free}
    /\ station \in BOOLEAN
    /\ reg \in [Conns -> Sessions]
    /\ queue \in [Targets -> {"none", "open", "gone"}]
    /\ cb \in [Targets -> {"none", "request", "calling", "reset", "done"}]
    /\ conn \in [Conns -> {"up", "collected"}]
    /\ op \in [Senders -> [pc : {"idle", "resolve", "prepare", "send", "wake"},
                           user : Users \cup {NoSession},
                           targets : Seq(Targets), next : Nat \ {0},
                           absent : BOOLEAN, accepted : Seq(Targets),
                           woke : {"no", "yes", "failed"},
                           res : {"none", "ok", "err"}, ops : 0..MaxOps]]
    /\ prepared \subseteq Targets
    /\ \A s \in Senders : op[s].pc # "idle" <=> lock = s

Init ==
    /\ lock = Free
    /\ station = FALSE
    /\ reg = [c \in Conns |-> NoSession]
    /\ queue = [t \in Targets |-> "none"]
    /\ cb = [t \in Targets |-> "none"]
    /\ conn = [c \in Conns |-> "up"]
    /\ op = [s \in Senders |-> Idle(0)]
    /\ prepared = {}

-------------------------------------------------------------------------------
(***************************************************************************)
(* The response worker and the callback.                                   *)
(***************************************************************************)

\* The server starts: set_chunking_station, before any response worker.
SetChunkingStation ==
    /\ lock = Free /\ ~station
    /\ station' = TRUE
    /\ UNCHANGED <<lock, reg, queue, cb, conn, op, prepared>>

\* A Ready request for the stream reaches a response worker; from here on the
\* closing of its connection does not stop it.
TakeRequest(t) ==
    /\ station /\ conn[t[1]] = "up" /\ cb[t] = "none"
    /\ cb' = [cb EXCEPT ![t] = "request"]
    /\ UNCHANGED <<lock, station, reg, queue, conn, op, prepared>>

\* The stream has its entry in ChunksDispatchChannel.
Live(t) == queue[t] = "open"

\* Mutant: the callback runs inside get_stream_from_path.
LockInCallbackKept == CHOOSE s \in Senders : TRUE

\* The callback is cloned under the lock and called after it.
LockInCallback == Free

\* insert_new_channel, get_stream_from_path and the queued opening.
OpenStream(t) ==
    /\ cb[t] = "request" /\ lock = Free
    /\ queue' = [queue EXCEPT ![t] = "open"]
    /\ cb' = [cb EXCEPT ![t] = "calling"]
    /\ lock' = LockInCallback
    /\ UNCHANGED <<station, reg, conn, op, prepared>>

\* The callback registers the session and succeeds.
CallbackRegisters(t, u) ==
    /\ cb[t] = "calling" /\ lock = Free
    /\ reg' = [reg EXCEPT ![t[1]] = [user |-> u, stream |-> t[2]]]
    /\ cb' = [cb EXCEPT ![t] = "done"]
    /\ UNCHANGED <<lock, station, queue, conn, op, prepared>>

\* The callback fails, having registered the session or not: the stream is
\* to be reset, unless its queues are gone already (request_stream_reset).
\* What the callback did is not rolled back.
CallbackFails(t, u) ==
    /\ cb[t] = "calling" /\ lock = Free
    /\ reg' \in {reg, [reg EXCEPT ![t[1]] = [user |-> u, stream |-> t[2]]]}
    /\ cb' = [cb EXCEPT ![t] = IF Live(t) THEN "reset" ELSE "done"]
    /\ UNCHANGED <<lock, station, queue, conn, op, prepared>>

-------------------------------------------------------------------------------
(***************************************************************************)
(* The network thread.                                                     *)
(***************************************************************************)

\* reset_failed_stream: the queues of the stream go, without the lock.  A
\* failed callback asked for it, or the opening failed: it may be retried for
\* any time before that, while the callback runs or long after it succeeded.
ResetStream(t) ==
    /\ conn[t[1]] = "up" /\ Live(t)
    /\ queue' = [queue EXCEPT ![t] = "gone"]
    /\ cb' = [cb EXCEPT ![t] = IF @ = "calling" THEN @ ELSE "done"]
    /\ UNCHANGED <<lock, station, reg, conn, op, prepared>>

\* The session of a collected connection is removed; its queues stay.
CleanClosedConnexions(c) ==
    /\ conn[c] = "up" /\ lock = Free
    /\ conn' = [conn EXCEPT ![c] = "collected"]
    /\ reg' = [reg EXCEPT ![c] = NoSession]
    /\ UNCHANGED <<lock, station, queue, cb, op, prepared>>

-------------------------------------------------------------------------------
(***************************************************************************)
(* The application threads.                                                *)
(***************************************************************************)
MayStart(s) == op[s].pc = "idle" /\ op[s].ops < MaxOps /\ lock = Free

\* Mutant: the guard is dropped after the lookup.
HeldForLookup(s) == Free

\* get_stream_session: the guard lives until the closure returned.
Held(s) == s

\* The result is returned and the lock released.
Return(s, res, woke) ==
    /\ op' = [op EXCEPT ![s].pc = "idle", ![s].res = res, ![s].woke = woke]
    /\ lock' = Free
    /\ UNCHANGED <<station, reg, queue, cb, conn>>

\* The enumerations of a set of targets: nothing orders a registry.
Orders(T) == {f \in [1..Cardinality(T) -> T] :
                 \A i, j \in DOMAIN f : f[i] = f[j] => i = j}

\* The lock is taken and send_one_or_more_message_on_stream begins; with no
\* target, or without a chunking station, it returns an error at once.
Begin(s, u, targets) ==
    LET new == [Idle(op[s].ops + 1) EXCEPT !.user = u, !.targets = targets,
                  !.absent = \E i \in DOMAIN targets : ~Live(targets[i])]
    IN IF targets = <<>> \/ ~station
       THEN /\ op' = [op EXCEPT ![s] = [new EXCEPT !.res = "err"]]
            /\ UNCHANGED lock
       ELSE /\ op' = [op EXCEPT ![s] = [new EXCEPT !.pc = "resolve"]]
            /\ lock' = Held(s)

SessionsOf(u) == {<<c, reg[c].stream>> : c \in
                     {d \in Conns : reg[d] # NoSession /\ reg[d].user = u}}

\* send_message_to_subscriber_on_path, with or without filtered scids.
SendMessage(s, u, excluded) ==
    /\ MayStart(s)
    /\ \E ts \in Orders({t \in SessionsOf(u) : t[1] \notin excluded}) :
          Begin(s, u, ts)
    /\ UNCHANGED <<station, reg, queue, cb, conn, prepared>>

\* Mutant: only the connection has to be registered.
RegisteredConnOnly(u, t) == reg[t[1]] # NoSession

\* A capsule is still for its user: same connection, same stream.
Registered(u, t) == reg[t[1]] = [user |-> u, stream |-> t[2]]

\* retry_send_message_to_subscriber_on_path.
RetryMessage(s, u, t) ==
    /\ MayStart(s)
    /\ t \in prepared
    /\ Begin(s, u, IF Registered(u, t) THEN <<t>> ELSE <<>>)
    /\ UNCHANGED <<station, reg, queue, cb, conn, prepared>>

\* Mutant: an absent queue is noticed when its capsule is sent.
ResolvedLater(t) == TRUE

\* get_body_sender finds the stream.
Resolved(t) == Live(t)

\* Every queue is resolved before anything is encoded or sent.
Resolve(s) ==
    LET o == op[s] IN
    /\ o.pc = "resolve"
    /\ IF Resolved(o.targets[o.next])
       THEN /\ op' = [op EXCEPT ![s] =
                        IF o.next = Len(o.targets)
                        THEN [o EXCEPT !.pc = "prepare"]
                        ELSE [o EXCEPT !.next = @ + 1]]
            /\ UNCHANGED <<lock, station, reg, queue, cb, conn>>
       ELSE Return(s, "err", "no")
    /\ UNCHANGED prepared

\* Every capsule is encoded and framed before anything is sent; the first
\* that fails ends the sending.
Prepare(s) ==
    /\ op[s].pc = "prepare"
    /\ \/ /\ op' = [op EXCEPT ![s].pc = "send", ![s].next = 1]
          /\ UNCHANGED <<lock, station, reg, queue, cb, conn>>
       \/ Return(s, "err", "no")
    /\ UNCHANGED prepared

\* One target after the other gets its capsule; a queue whose receiver has
\* been dropped since ends the sending with an error, after a wake of the
\* poll loop whose own failure is ignored.
Send(s) ==
    LET o == op[s]
        t == o.targets[o.next]
    IN
    /\ o.pc = "send"
    /\ \/ /\ ~Live(t)
          /\ \E w \in {"yes", "failed"} : Return(s, "err", w)
       \/ /\ Live(t)
          /\ op' = [op EXCEPT ![s] =
                      IF o.next = Len(o.targets)
                      THEN [o EXCEPT !.pc = "wake", !.accepted = Append(@, t)]
                      ELSE [o EXCEPT !.next = @ + 1, !.accepted = Append(@, t)]]
          /\ UNCHANGED <<lock, station, reg, queue, cb, conn>>
    /\ UNCHANGED prepared

\* With all capsules queued the poll loop is woken, and only then are they
\* handed out; if that fails the caller gets an error instead.
Wake(s) ==
    /\ op[s].pc = "wake"
    /\ \/ /\ Return(s, "ok", "yes")
          /\ prepared' = prepared \cup
                {op[s].targets[i] : i \in DOMAIN op[s].targets}
       \/ /\ Return(s, "err", "failed")
          /\ UNCHANGED prepared

-------------------------------------------------------------------------------
Callback(t) == \E u \in Users : CallbackRegisters(t, u) \/ CallbackFails(t, u)
Worker(t) == TakeRequest(t) \/ OpenStream(t) \/ Callback(t)
Sending(s) == Resolve(s) \/ Prepare(s) \/ Send(s) \/ Wake(s)
Network == \/ \E t \in Targets : ResetStream(t)
           \/ \E c \in Conns : CleanClosedConnexions(c)

Next ==
    \/ SetChunkingStation
    \/ \E t \in Targets : Worker(t)
    \/ \E s \in Senders, u \in Users :
          \/ \E X \in SUBSET Conns : SendMessage(s, u, X)
          \/ \E t \in Targets : RetryMessage(s, u, t)
    \/ \E s \in Senders : Sending(s)
    \/ Network

Spec == Init /\ [][Next]_vars

(***************************************************************************)
(* Threads keep running and callbacks return.  A mutex that stays free is  *)
(* granted; nobody has to send, close or fail.                             *)
(***************************************************************************)
FairSpec ==
    /\ Spec
    /\ \A t \in Targets : WF_vars(OpenStream(t) \/ Callback(t))
    /\ \A s \in Senders : WF_vars(Sending(s))

-------------------------------------------------------------------------------
\* "A prepared capsule must not escape to a replaced stream or a reassigned
\* connection": a capsule is queued for a user only on the stream that is
\* registered to this user at that moment, however the registry changed since
\* the capsule was made.
QueuedForOwner ==
    [][\A s \in Senders :
          LET a == op'[s].accepted
              t == a[Len(a)]
          IN Len(a) > Len(op[s].accepted)
                => reg[t[1]] = [user |-> op[s].user, stream |-> t[2]]]_vars

\* "Success means every capsule was queued and the poll loop was notified": a
\* sending succeeds if and only if every target accepted its capsule and the
\* wake succeeded, so that an error may come after some or all of them were
\* queued.  What was queued is a prefix of the targets, it is never left
\* without an attempt to wake the poll loop, and nothing is queued at all if a
\* queue was absent when the sending began.
ResultAccountsForQueues ==
    \A s \in Senders :
       LET o == op[s] IN
       /\ o.accepted = SubSeq(o.targets, 1, Len(o.accepted))
       /\ o.res # "none" =>
             /\ o.res = "ok" <=> /\ o.targets # <<>> /\ o.accepted = o.targets
                                /\ o.woke = "yes"
             /\ o.accepted # <<>> => o.woke # "no"
       /\ o.absent => o.accepted = <<>>

\* A callback that uses the registry gets through: it is called outside the
\* lock that its lookup held.
CallbackCompletes == \A t \in Targets : cb[t] = "calling" ~> cb[t] # "calling"
===============================================================================
