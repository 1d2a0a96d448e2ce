# Verification of faces_http3_server

TLA+ models of the HTTP/3 server in `src/`, the TLC runs that check them on
small instances, and TLAPS proofs of the safety properties the runs check, for
every value of the constants. Paths below are relative
to the repository (`src/` in front of a crate file, e.g. `src/route_handler.rs`
of the crate is `src/src/route_handler.rs` in `PROJECT.json`).

## 1. The system

One process, one UDP socket, quiche for QUIC and HTTP/3. Each thread below owns
its loop; they share concurrent maps and unbounded channels.

| Thread | Code | Does |
|---|---|---|
| network thread | `server_init/quiche_http3_server.rs` | receives packets, admits clients, turns HTTP/3 events into map updates, header messages and injections; sends what the stream channels hold; collects closed connections |
| header processor | `header_queue_processing.rs` | parses and routes a header message; rejects with 404 or hands the request to the middleware pool |
| middleware workers (8) | `header_queue_processing/middleware_worker.rs` | run the middlewares of the route, create or complete the table entry, queue the 100, signal Ready; signal Rejected on abort |
| middleware-result thread | `header_queue_processing.rs` | queues the error response of an aborted request |
| signal receiver | `response_queue_processing/response_buffer_table.rs` | moves a request from Pending to Ready or Rejected in the signal map |
| response workers (8) | `response_queue_processing/response_worker.rs` | join the end of the body with the disposition of the request; requeue while Pending; build the route event and call handler or stream callback; queue the answer |
| chunking worker | `request_response.rs` | reads bodies and files in chunks and puts them on the body channel of the stream |
| file writers (8), finishing workers (8) | `file_writer.rs`, `file_writer/event_loop.rs` | write body packets to files, run success callbacks |
| application threads | user code | send capsules through `StreamSessions` |

### Components, state, operations

* **Event handling of the network thread.** State: connections, stream phases
  as quiche reports them. Operations: Headers, Data, Finished, Reset,
  collection of a closed connection.
* **Signal map and injection buffer** (`response_buffer_table.rs`). State: per
  request Pending, Ready or Rejected. Operations: `begin`, `register` (two map
  accesses), `cancel_request`, `cancel_connection`, receipt of a signal.
* **Requests table** (`request_temp_table.rs`). State: per request headers,
  route, storage, packets. Created by whichever of middleware worker and first
  packet comes first; consumed by the route event.
* **In-flight path verifier.** The paths listed at Headers, consumed at
  Finished.
* **Body file writer.** State machine of a handle (open, finishing, completed,
  failed), its queue of packets, pending registry and callbacks.
* **Chunk dispatch channel, chunking station, sending loop.** Per stream two
  channels with a counter, a rest of a partly accepted chunk, a
  `pending_body_queue`, a set of reset requests.
* **Stream sessions.** A registry of user sessions under one mutex; messages
  are prepared as capsules, sent and retried.
* **Admission.** Retry tokens bound to address, original connection id and time;
  the client map.
* **Startup** (`server_init.rs`, `server_config.rs`, first part of `run`).
  State: the worker of each call, the socket, the pools started. Operations:
  checking the configuration, spawning, preparing, starting pools, entering the
  loop, ending, joining.
* **Route manager, builders, dispatcher** (`route_manager.rs`,
  `handler_dispatcher.rs`, `create_stream` of `stream_sessions.rs`). State: the
  forms of routes, global middlewares, one of two stream registries, error
  forms; after `build` the tables made of them. Operations: the builder's calls,
  and the four lookups of a request.
* **Response builder** (`request_response.rs`). From what the last handler
  returns to status, content-length and body.

`PROJECT.json` lists every part, also those not modelled.

### What is hard

The same request is in several threads' hands at once: the first body packet
races the creation of its table entry, a reset races the middlewares, the end
of the body races the decision, the 100 races the final header. quiche may
refuse any call or take part of a chunk. Files fail halfway. Sessions change
hands between preparing and sending. Initial packets are lost, repeated and
late. A callback panics and takes its pool thread along. A start fails halfway,
or while another server has the address. A request is looked up in four tables
that were filled by different calls, and a file is measured three times. `PROJECT.json` lists these as hazards, each with its line and the
properties that would notice it going wrong.

### Which properties make each component correct

* Request pipeline: a handler runs at most once and only for a finished,
  accepted, not cancelled request, with its whole body; at most one final
  answer, no 100 behind it; nothing left behind; every finished request answered.
* File bodies: a success callback means the declared and complete body is on
  disk; a dropped packet means failure; a terminal file is not touched again
  and is not pending; callbacks are settled.
* Sending: bytes leave in order, FIN only after all of them, headers first,
  bounded channel, reset streams forgotten, every response ends.
* Sessions: a capsule only goes to a target registered for its user; the result
  says what was queued; no callback blocks on its own lock.
* Admission: only a fresh token for this address and id of this start admits
  a client; one client per handshake.
* Startup: a failed start leaves nothing in the way of the next one; a caller
  that waits learns of every end.
* Routes: the middlewares, the target and the handlers of a request are those
  its route was registered with; all tables agree; the last handler answers.

## 2. Modules

| Module | Models |
|---|---|
| `RequestLifecycle` | a request from its header event to its queued response: six kinds of threads, the signal map, the requests table, the path verifier |
| `InjectionQueue` | the channel of the response workers in its order, and fairness of threads instead of requests; extends `RequestLifecycle` |
| `RequestContract` | abstract specification: what client and application see of a request |
| `RequestLifecycleProofs` | theorems about `RequestLifecycle`, its refinement of `RequestContract` included |
| `FileBody` | one body file: owner (requests table), writing worker, finishing workers, handlers |
| `FileBodyProofs` | theorems about `FileBody` |
| `ResponseSend` | one stream's answer: header, chunking worker, channel, sending loop, quiche, opening of a stream session, resets |
| `ResponseSendProofs` | theorems about `ResponseSend` |
| `StreamSessions` | registry of sessions, senders, callbacks, collection of connections |
| `StreamSessionsProofs` | theorems about `StreamSessions` |
| `Admission` | Retry tokens and acceptance of Initial packets |
| `ServerRun` | calls of the run functions, their workers and the socket; extends `Admission`, whose server is up while a worker is in its loop |
| `ServerRunProofs` | theorems about `ServerRun` and `Admission`, among them that the composed specification implements `Admission`'s own |
| `Routing` | the route manager's builder, the tables of `build`, the lookups |
| `Answer` | one request through these tables, its handlers, its response and the lengths of its body; extends `Routing` |
| `AnswerProofs` | theorems about `Answer` and the tables of `Routing` |
| `MC*` | instances of these for TLC |

`ServerRun` composes with `Admission` and `Answer` with `Routing`: each pair is
one state space. The others meet at named interfaces: what `RequestLifecycle` queues as a
response is a plan of `ResponseSend`; its storage "file" is a `FileBody`; its
stream callback is the `Callback` of `StreamSessions`, whose queues are the
channels of `ResponseSend`. They are checked separately because each interface
is narrow (a queue or one call) and their product has no new control.

### RequestLifecycle

A stream carries one request, so the request is the key of both maps and has at
most one message in each channel; a channel's content is a phase of the request
(`hdr`, `mw`, `sigq`, ...). One action is one access to a shared map or one
channel operation, so two accesses of one function (`register`, the worker's
check and insertion in the table, Finished) interleave with everything else.
Body packets are counted. What a request asks for is its profile: kind of path,
storage of the route, GET or not, more frames or not, number of middlewares.

Assumptions. A stream carries one well-formed header block; a later block
carries no `:path` and cancels. After `stream_shutdown` no Data events come,
while Finished and Reset may. A route with listener storage has a listener. PUT
routes cannot be registered. A failing `File::create` leaves the body without a
file (mode `nofile`); the code drops such a body silently, and `BodyDelivered`
says nothing of it. The body of a 404 cannot be set through
the form's builder.

A middleware, handler or stream callback may panic (`MaxPanics`). Nothing in the
pools catches it: the thread is gone, so its slot of the pool stays busy, and
the request it held is never decided or answered. The properties excuse that
request and nothing else.

`RequestContract` has five variables per request (opens a session, 100s, final
headers, calls, withdrawn) and none of the threads. A refused request is never
called; a promised one is never refused; route handlers are called before their
answer, session headers are queued before their callback; a request can be
withdrawn until it is being served. `ContractKept` is this specification under
the mapping `opens <- (kind = "stream")`, the other variables being those of
`RequestLifecycle`.

### InjectionQueue

`RequestLifecycle` keeps no order among queued injections, which is sound for
safety, and is fair to every request, which would hide starvation. Here the
response workers receive the oldest injection of their channel, and one that is
still Pending is sent to its end again. Fairness says that a worker goes on with
what it received and that an idle worker receives; which request that serves is
left to the order. With the middleware of one request gone in a panic its
injection circulates for ever, between the worker and the other request.

### FileBody

Packets have size one and a declared length is a number of packets; a declared
length may be absent, short, exact or long. Each section under the file's mutex
is one action, `settle` and the finishing queue come after it. Writes and
flushes may fail, a failed one leaves any prefix of its bytes. The owner's
calls are serialised by the entry lock of the requests table. Left out: the
overflow of the byte counter (a body of 2^64 bytes) and empty packets, which
the owner does not pass. Cancelled requests leave their writer in the pending
map; see hazards.

### ResponseSend

The plan of an answer gives the queued item (SendHeader,
SendAdditionnalHeader, OpenStream), whether a 100 precedes it, the body length
and `is_end`, which every caller sets only for an answer without a body
(`SendAssumption`; `route_handler.rs` 627-637, 659-713, 852-900). `Refusals` names the calls quiche may refuse in a run. Assumed:
the peer sends no STOP_SENDING (the error paths of `stream_writable` and
`send_body` are not modelled), a stream reported writable takes at least one
byte (`stream_writable(_, 512)`), and files do not change while they are sent.
The counter of a channel is checked and incremented by the chunking worker before
it sends, and decremented by the network thread after it received: three steps.
The check and the increment are one of them (`ReadChunk`), because there is a
single chunking worker and no session writes to the stream of a response: nobody
raises the counter in between, and a decrement in between only makes room.

### StreamSessions

One path; `UserSessions` is a trait the application implements, modelled (as
external) with one session per connection, like the implementation in the
repository's own test. A registry operation takes the mutex and is a step, except a
sending, which keeps it over several: resolving the queues target by target,
encoding and framing, sending target by target, waking the poll loop. The network
thread, which needs no lock for it, may take a queue away between any two of
these, because a callback failed or because the opening of the stream did. Every
error return of `send_one_or_more_message_on_stream` is there: no target, no
chunking station yet, an absent queue, a capsule that cannot be encoded, a queue
that went away in between, and a wake that fails although all is queued. The
short lookups of the header processor and the contents of capsules are left out.

### Admission

The HMAC of a token is equality of the values bound by it. A packet may arrive
late, twice, from another address, and after a restart, which changes key, seed
and clock; a token may come with any connection id, the one of its Retry, an
original one or that of another Retry. Packets that change nothing (version negotiation, other types, known
clients) are left out; a `send_to` that would block is a lost packet.

### ServerRun

A call checks the configuration and spawns a worker, or fails on the caller.
The worker takes the preparations of `run` in their order, one action each,
and any of them may fail; then it starts the pools one by one, and
`thread::spawn` may panic at any of them; then it is in its loop, until `poll`
or `recv_from` fails for good or `send_to` panics. The socket is closed with the
frame of `run`; pools are never stopped by anything, and only the starts that
got past their prerequisites have any. A second call may overlap with the first
or follow its end. Entering the loop is `Admission!Boot`, leaving it
`Admission!Stop`. `run_blocking` panics where `try_run_blocking` returns an
error, which is the same to the model; `run` detaches the worker and is never
told of its end, as its comment says.

### Routing, Answer

`Routing` has one action per call of the builder. A route copies the global
middlewares registered so far in front of its own. A stream goes into the
builder's own registry or into one the application shares; a stream without a
handler is not created and the first of a path wins. A second route of the same
path and method panics. `build` makes the verifier's paths, the routes and the
dispatcher's table; the registry stays shared, and another builder may add
streams to it later (`LateStream`).

`Answer` sends one request through: `Headers` asks the verifier, the header
processor asks routes, then streams, the response worker asks them again, the
dispatcher asks its own table. Handlers are called in a chain, each may replace
the response, the last decides. The length of a file is read when the response
is built, again when the network thread pops the header, and again when the
body goes to the chunking station; `FileChanges` happens anywhere in between.
The path may lead to a file, to a file that has metadata but cannot be opened, to
a directory, which counts as empty when the response is built and has a length of
its own when it is opened, or to nothing. What cannot be opened at the second
reading panics the network thread (`server_down`); what cannot be opened at the
third, or opened but not read by the chunking worker (a directory), leaves an
answer without a body (`stuck`).
What `RequestLifecycle` calls the kind of a path is computed here.

`MiddlewaresInOrder` is stated over the log of the builder's calls and not over
the tables: `Owed` says that the call that made the route is owed the global
middleware of each earlier call of `global_middleware`, at the place of that
call among them (`GlobalsAmong`), and then its own. The documentation promises
more, which is `GlobalAffectsAll`, refuted by a run of its own.

## 3. Runs

| Run | Spec | Instance and what it shows |
|---|---|---|
| `lifecycle_one` | FairSpec | one request of every profile but query strings (4 kinds, 3 storages, GET, more frames, 0..2 middlewares), up to 3 packets, failing file creation, a panic: `DispatchSound`, `OneFinalResponse`, `NothingLeaks`, `BodyDelivered`, `FinishedIsAnswered`, `CancelledIsForgotten`, and the refinement `ContractKept` |
| `lifecycle_queue` | FairQueueSpec | two requests of one connection, one response worker, a panic: `AnsweredInTurn`: an injection that is put back for ever does not keep the worker from the other request |
| `file_body` | FairSpec | 3 packets, lengths absent and 0..3, 2 handlers, failing I/O: `SuccessMeansBody`, `DroppedMeansFailed`, `TerminalLeavesPending`, `CompletedImmutable`, `CallbackSettled`, `FileTerminates` |
| `send` | ServerSpec | all plans, bodies up to 7 bytes, chunks of 2, channel limit 2, every refusal: `InOrder`, `FinMeansWhole`, `HeadersFirst`, `ChannelBounded`, `ResetForgets`; `ResetHonoured` without any help of the peer; with its help (`PeerFairness` is a hypothesis of the property) `CapsulesSent`, and `ResponseEndsOrRefused`: only a refused header or a refused FIN leaves a response without its end |
| `sessions` | FairSpec | 2 users, 2 connections, one of them with 2 streams, one sender with 2 operations: `ResultAccountsForQueues`, `QueuedForOwner`, `CallbackCompletes` |
| `server` | ServerSpec | two calls, failing anywhere or overlapping; 2 addresses, 2 legal ids and a short one, tokens that expire or come with another id: `FailureIsClean`, `StartIsDecided`, `AdmittedIsFresh`, `OneClientPerHandshake` |
| `routing` | AnswerSpec | every sequence of 3 builder calls over 2 paths, 2 methods, 2 global middlewares, routes with 0..2 handlers and streams with or without one, then every request and every kind of file: `MiddlewaresInOrder`, `TablesAgree`, `LastHandlerAnswers`, `StableBodyIsWhole` |

Each run also checks the type invariant of its module, except `lifecycle_queue`.
Query strings are left out of `lifecycle_one` because `lifecycle_query` refutes
`FinishedIsAnswered` for them; the safety theorems below cover them.
Fairness does not restrict the reachable states, so invariants checked under a
fair specification hold without it.

The bounds let the interesting cases happen. Three packets fill the three places
a packet can be in (before the entry is complete, flushed, in the open file).
Two middlewares give a first one that continues and a second that aborts. In the
queue run both requests need the one response worker; when the middleware of one
panics, a second middleware worker decides the other, whose injection then waits
behind or before one that never comes to rest. A worker that retried at once
instead of putting it back would never serve the other (the mutant
`RetriedAtOnce`). Without a panic every injection comes to rest; one that takes
the only response worker excuses both (`PoolGone`), as eight would in the code. A body of seven bytes in chunks of two has four
chunks, the last one short, and overfills a channel of limit two. Two sessions
of a user give a partial send, two streams of one connection a replaced one. A clock
of 2 with TTL 2 has a token below and at its limit. Two starts give a token of
the first presented to the second, and a bind while the first has the address.
Three builder calls give a path two routes, a route and a stream, a stream
twice, and one or two global middlewares before, between and behind them, whose
order shows. Files, unreadable files and directories, empty and not, change into
each other and vanish.

`CHECK_DEADLOCK FALSE`: each run ends legally when its bounded inputs are used
up and nothing is in flight; the liveness runs check that it does not end
earlier.

### Fairness

* `RequestLifecycle`: weak fairness for each server thread on each request
  (loops over unbounded channels, no thread waits for the peer) and for the rest
  of a handler the network thread has begun. Nothing is assumed of the peer: it
  may stop at any time.
* `InjectionQueue`: the same, but of the response pool only that a worker goes on
  with what it has and that an idle one receives the oldest injection.
* `FileBody`: weak fairness for owner, worker, settling and callbacks.
* `ResponseSend`: weak fairness for producer, chunking worker and senders;
  strong fairness for a requested reset, which the network thread handles first
  in each round (`ServerFairness`). `PeerFairness`, the hypothesis of the
  properties that need credit from the peer and of no other, says that the peer
  keeps granting credit and that a retried opening is accepted eventually.
* `ServerRun`: weak fairness for the steps of a worker before its loop (a
  straight line of calls that return) and for a join. A worker in its loop may
  stay there.
* `StreamSessions`: weak fairness for callbacks and senders; with finitely many
  operations a waiting thread is granted the mutex.

### Disagreements found

Each is a run that TLC must refute, with the documented promise as its property.

1. `lifecycle_query`: a path with a query string is accepted by routing and
   middlewares, but not listed by the path verifier, which compares the whole
   `:path`; Finished cancels it and it is never answered.
2. `lifecycle_storage`: a first packet between the worker's check and its
   insertion makes the body of a File route stay in memory.
3. `lifecycle_get`: the bodiless answer to a GET whose headers announced more
   frames has no FIN.
4. `send_header`: a header quiche refuses once is kept in `pending_body_queue`,
   where only openings are retried.
5. `routing_globals`: `global_middleware` "will affect all routes"
   (`route_manager.rs:480`), but a route registered before it is served without
   it.

Seen in the models, without a run of their own:

* a FIN that quiche refuses counts as sent (`send_header.cfg` with
  `Refusals = {"fin"}` refutes `ResponseEnds` too); `ResponseEndsOrRefused` names
  this case, `FinSwallowed`, beside the refused header;
* a sending whose capsules are all queued returns an error and no capsules if the
  poll loop cannot be woken (`ResultAccountsForQueues` says so);
* the channels of a closed connection stay, and a body that fills its channel is
  put back by the chunking worker for ever;
* a stream callback that runs after the collection of its connection registers a
  session that nothing removes;
* streams never have the global middlewares;
* `get_routes_from_path_and_method` announces "a 400 error Status"
  (`route_manager.rs:286`), the answer is a 404;
* a stream added to a shared registry after `build` is routed and then cancelled
  at Finished, because the verifier has the paths of `build` only;
* an answer whose file cannot be opened when its header is popped, because it is
  gone or unreadable, panics the network worker
  (`request_response.rs:706-707`), which ends the server;
* an answer whose path is a directory is announced with content-length 0, and if
  the directory has a length of its own the answer never ends: its chunking job
  cannot be read and is dropped.

The comment of `is_occupied`
(`request_response/chunk_dispatch_channel.rs:206`) states the opposite of what
it returns.

## 4. Proofs

Every invariant and every action property a passing run checks is also a theorem,
for every value of the constants. Each proof module has an inductive invariant,
a conjunction of named parts, which TLC checked on the run of its component
before it was proved; one lemma per action says that the action keeps it, and
the properties follow from it.

| Module | Theorem | Property |
|---|---|---|
| `RequestLifecycleProofs` | `Invariance` | `IInv`, the inductive invariant |
| | `TypeCorrect` | `TypeOK` |
| | `Dispatch` | `DispatchSound` |
| | `SingleResponse` | `OneFinalResponse` |
| | `InterimFirst` | `InterimBeforeFinal` (action property) |
| | `Cancellation` | `CancelWins` |
| | `NoLeak` | `NothingLeaks` |
| | `Delivery` | `BodyDelivered` |
| | `Refinement` | `ContractKept`: `RequestLifecycle` implements `RequestContract` |
| `FileBodyProofs` | `Invariance`, `TypeCorrect` | `IInv`, `TypeOK` |
| | `SuccessIsBody` | `SuccessMeansBody` |
| | `DroppedIsFailed` | `DroppedMeansFailed` |
| | `TerminalLeaves` | `TerminalLeavesPending` |
| | `CompletedStays` | `CompletedImmutable` (action property) |
| `ResponseSendProofs` | `Invariance`, `TypeCorrect` | `IInv`, `TypeOK` |
| | `BytesInOrder` | `InOrder` |
| | `FinIsWhole` | `FinMeansWhole` |
| | `HeadersComeFirst` | `HeadersFirst` |
| | `ChannelIsBounded` | `ChannelBounded` |
| | `ResetIsForgotten` | `ResetForgets` |
| `StreamSessionsProofs` | `Invariance`, `TypeCorrect` | `IInv`, `TypeOK` |
| | `ResultAccounts` | `ResultAccountsForQueues` |
| | `QueuedOnlyForOwner` | `QueuedForOwner` (action property) |
| `ServerRunProofs` | `ServerInvariance`, `ServerTypeCorrect` | `ServerInv`, `ServerTypeOK` |
| | `ServerImplementsAdmission` | `ServerSpec` implements `Admission`'s `Spec` |
| | `FailureClean` | `FailureIsClean` |
| | `AdmittedFresh` | `AdmittedIsFresh` (action property) |
| | `OneClient` | `OneClientPerHandshake` (action property) |
| `AnswerProofs` | `Invariance`, `TypeCorrect` | `IInv`, `AnswerTypeOK` |
| | `MiddlewaresAreOrdered` | `MiddlewaresInOrder` |
| | `TablesAlwaysAgree` | `TablesAgree` |
| | `LastHandlerDecides` | `LastHandlerAnswers` |
| | `StableBodyStaysWhole` | `StableBodyIsWhole` |

The proofs rest on the assumptions the modules state about their constants
(`ConstantsAssumption`, `SendAssumption`, `RoutingAssumption`,
`SizesAssumption`, ...): sets of sizes are natural numbers, limits are positive,
markers such as `Missing` are not sizes, `is_end` goes with no body, and
`Admission` counts at least as many starts as `ServerRun` has attempts
(`AttemptsAssumption`).

### The request pipeline

None of the properties is inductive: each speaks of what has been queued or
called, and says nothing of who is about to do it. `IInv` adds that, for each
request:

* `StreamPart`: the phase of the stream bounds what can exist (no injection
  before Finished, nothing before the headers);
* `DecisionPart`: the routing or middleware decision agrees with the signal in
  flight or recorded;
* `HeldPart`: which thread still holds a request whose map entries exist, and
  that a withdrawn request is only held by threads that will drop it;
* `OutputPart`: how many headers and calls were queued, by which phase;
* `BodyPart`: each received packet is in exactly one place;
* `EventPart`: what the built event contains.

Every action touches one request, so the step lemma proves each action's effect
on `RequestInv` of that request and that all others are unchanged.

`Refinement` needs more than the invariants checked by the runs: that the worker
about to queue a 100 finds no header, that whoever queues an error finds no
100, and that a withdrawn request is past or before being served. These are
consequences of `IInv`; each action is then an action of the contract or leaves
its variables alone.

### File bodies

`SuccessMeansBody` speaks of the moment a callback is posted. It follows from
where the packets are before: as long as nothing has failed, the file, its
buffer, the queue of the worker and the prefix still in memory are one run of
packets (`Intact`, `QueuePart`, `OwnerPart`), so that the length check of
`finish_received` compares what it means to. `CallbackPart` says which one thread
is to post a callback, `PendingPart` that a terminal writer is pending only while
a thread has yet to settle it.

### Sending

`InOrder` is not inductive, because it does not say what the item in the network
thread's hands or a refused one in `pending_body_queue` may be. `TakenPart`,
`HeaderPart` and `BodyPart` place each header and each byte: accepted, partly
accepted, popped, refused, in the channel, in the chunking job or not yet read.
`ChannelPart` gives the counter's exact value, one for each chunk in the channel,
one for the chunk the worker has counted and not sent, and one for the popped one:
that is why a counter changed in separate steps of two threads still bounds the
channel. `ConnPart` says what is left of a stream that was reset or collected.
The lemmas before it are about runs of consecutive bytes: cutting a chunk, joining
two runs, popping and pushing.

### Stream sessions

The lock is with the thread that sends (part of `TypeOK`), so the registry cannot change
under a sending, while queues can disappear: `SendingPart` relates the capsules
accepted so far to the ones the sending began with, `ResultPart` carries it over
to the result. `ResultAccounts` is an equivalence: ok exactly if all targets
accepted and the poll loop was woken.

### Startup and admission

`PhasePart` relates the phase of each start to its pools and to the holder of the
socket, `UpPart` says that the server is up exactly while one worker is in its
loop. `RetryPart` and `ClientPart` say that ids are derived from the start and the
original id; the uniqueness of clients is theirs. Every step of `ServerRun` is
one of `Admission` or leaves its variables alone, so the admission properties are
proved of `Admission`'s steps and hold of the composition.

### Routing and answers

`FormsPart` ties every form to the call that made it, and every call of a route
to its form; `GlobalsPart` ties the n-th global middleware to the n-th call that
registered one, by a lemma on how a new call changes the counts
(`CountAfterCall`). `BuiltPart` relates the manager's four tables to the forms and
streams, late ones included. `RequestPart`, `TargetPart` and `ChainPart` say what
of the tables a request at each step relies on, and that a late stream does not
take it away; `BodyPart` what each of the three lengths is worth while the path
leads to the same thing, and what a job that cannot be read, a stopped server or
an unfinished answer says of it once it may have changed.

### Only model-checked

The liveness properties: `FinishedIsAnswered`, `CancelledIsForgotten`,
`CallbackSettled`, `FileTerminates`, `ResetHonoured`,
`ResponseEndsOrRefused`, `CapsulesSent`, `CallbackCompletes`, `StartIsDecided`,
`AnsweredInTurn`. They need fairness and ENABLED, which this prover does not
support. The five refuted
properties are refuted by TLC.

## 5. Not modelled

Route macros and re-exports (syntax over the builder's calls); the getters of
route events, query arguments beyond their presence, and the response channel
of an event, which the server does not use; connection statistics (not read);
event listener stub and reception status (unused); the example program
`main.rs`. STOP_SENDING, a file that changes while the chunking worker reads it,
and packets or timers inside quiche are outside the models.

## 6. Plan

Done, in this order: `RequestLifecycle` and its proofs, `FileBody`,
`ResponseSend`, `StreamSessions`, `Admission`; then the panic faults,
`RequestContract` with its refinement and proof, `ServerRun`, `Routing`,
`Answer`, `InjectionQueue`.

Then the proofs, one component after the other: `ServerRun` with `Admission`,
`FileBody`, `StreamSessions`, `ResponseSend`, `Answer` with `Routing`.

Next: abstract specifications of a body file and of a response stream, in the
manner of `RequestContract`, with the refinements proved from the invariants that
are there; the step lemmas behind the liveness properties (what a fair action
leaves unchanged until it happens), as far as they are free of ENABLED.

## 7. Running

    tlc -workers 2 -config lifecycle_one.cfg MCRequestLifecycle
    tlapm RequestLifecycleProofs.tla

and so on for every configuration and every `*Proofs` module; a proof module
takes up to a few minutes from nothing.
