--------------------------- MODULE RequestLifecycle ---------------------------
(***************************************************************************)
(* The life of a request between the HTTP/3 events of its stream and the   *)
(* queueing of its response.                                               *)
(*                                                                         *)
(* Six kinds of threads share two concurrent maps, the signal map of       *)
(* ResponseInjectionBuffer and the RequestsTable, and talk through         *)
(* unbounded channels:                                                     *)
(*   - the network thread turns HTTP/3 events into map updates, header     *)
(*     messages and response injections, and cancels requests;             *)
(*   - the header processor routes each header message;                    *)
(*   - the middleware workers run the route's middlewares and fill the     *)
(*     table;                                                              *)
(*   - the middleware-result thread queues the error of an aborted request;*)
(*   - the signal receiver records the disposition of a request;           *)
(*   - the response workers join the disposition with the end of the body  *)
(*     and call the handler.                                               *)
(*                                                                         *)
(* A stream carries one request, so a request is the key of both maps, and *)
(* has at most one message in each channel.  What a channel holds is       *)
(* therefore a per-request value (hdr = "queued", sigq = "ready", ...).     *)
(* One action is one access to a shared map or one channel operation.      *)
(* Body packets are counted, not stored.                                   *)
(***************************************************************************)
EXTENDS Naturals, FiniteSets

CONSTANTS
    Requests,           \* streams that may carry a request
    Conns,              \* connections
    ConnOf,             \* the connection of each request
    Profiles,           \* what a request may ask for, see ProfileType
    MaxPackets,         \* bound: body packets per request
    MiddlewareWorkers,  \* size of the middleware pool (8 in the code)
    ResponseWorkers,    \* size of the response pool (8 in the code)
    FileCreateMayFail,  \* whether File::create may return an error
    MaxPanics           \* bound: requests whose middleware or handler panics

(***************************************************************************)
(* kind: what routing finds.  "regular": path and method of a route;       *)
(*   "query": the same with a query string appended to the path;           *)
(*   "stream": the path of a stream session; "wrong_method": the path of a *)
(*   route but not its method; "unknown": none of these.                   *)
(* storage: DataManagement of the route.  get: the method is GET.          *)
(* more: more_frames of the Headers event.  mws: length of the middleware  *)
(* collection.                                                             *)
(***************************************************************************)
Kinds == {"regular", "query", "stream", "wrong_method", "unknown"}
Storages == {"memory", "file", "listener"}
ProfileType == [kind : Kinds, storage : Storages, get : BOOLEAN,
                more : BOOLEAN, mws : Nat]

ASSUME ConstantsAssumption ==
    /\ ConnOf \in [Requests -> Conns]
    /\ Profiles \subseteq ProfileType
    /\ MaxPackets \in Nat
    /\ MiddlewareWorkers \in Nat \ {0}
    /\ ResponseWorkers \in Nat \ {0}
    /\ FileCreateMayFail \in BOOLEAN
    /\ MaxPanics \in Nat

VARIABLES
    prof,       \* the profile of each request
    stream,     \* the receiving side of the stream, as HTTP/3 events tell it
    received,   \* body packets read by recv_body
    net,        \* what the network thread is in the middle of
    inflight,   \* stream_map of InFlightStreamsPathVerifier
    signal,     \* ResponseInjectionBuffer.signal
    table,      \* RequestsTable.table
    hdr,        \* header message, then middleware job and its worker
    passed,     \* middlewares that returned Continue
    sigq,       \* the request's message to the signal receiver
    inj,        \* the request's ResponseInjection and its worker
    event,      \* the RouteEvent a response worker built
    calls,      \* calls of the route handler or stream callback
    interim,    \* 100 responses queued
    final,      \* final response headers queued
    endless,    \* a final header was queued without FIN and without a body
    resetReq,   \* the stream reset was requested by a failed callback
    withdrawn   \* history: a cancellation removed a live signal entry

netVars == <<stream, received, net, inflight>>
hdrVars == <<hdr, passed>>
injVars == <<inj, event, calls>>
outVars == <<interim, final, endless, resetReq>>
vars == <<prof, stream, received, net, inflight, signal, table, hdr, passed,
          sigq, inj, event, calls, interim, final, endless, resetReq, withdrawn>>

-------------------------------------------------------------------------------
NoEntry == [set |-> FALSE, headers |-> FALSE, mode |-> "memory", size |-> 0,
            mem |-> 0, file |-> 0, heard |-> 0, is_end |-> FALSE]

(***************************************************************************)
(* PartialReq.  set: the key is in the table.  headers: headers, path and  *)
(* method are filled in.  mode: data_management_type, where "nofile" is    *)
(* File storage whose file could not be opened.  size: body_written_size.  *)
(* mem, file, heard: packets in body, given to the file writer, given only *)
(* to the route's event listener.                                          *)
(***************************************************************************)
Modes == Storages \cup {"nofile"}
EntryType == [set : BOOLEAN, headers : BOOLEAN, mode : Modes, size : Nat,
              mem : Nat, file : Nat, heard : Nat, is_end : BOOLEAN]

Streams == {"idle", "open", "shut", "finished", "cancelled", "closed"}
Signals == {"none", "Pending", "Ready", "Rejected"}
HdrPhases == {"none", "queued", "send_404", "job", "running", "aborted",
              "complete", "create", "insert", "status", "signal", "done",
              "panicked"}
SigqPhases == {"none", "Ready", "Rejected", "discard"}
InjPhases == {"none", "queued", "missed", "discard", "prepare", "clean",
              "call", "respond", "callback", "done", "panicked"}
NetIdle == [op |-> "poll", on |-> {}]
NetType == [op : {"poll", "write", "discard", "forget"}, on : SUBSET Requests]

TypeOK ==
    /\ prof \in [Requests -> Profiles]
    /\ stream \in [Requests -> Streams]
    /\ received \in [Requests -> Nat]
    /\ net \in NetType
    /\ inflight \in [Requests -> BOOLEAN]
    /\ signal \in [Requests -> Signals]
    /\ table \in [Requests -> EntryType]
    /\ hdr \in [Requests -> HdrPhases]
    /\ passed \in [Requests -> Nat]
    /\ sigq \in [Requests -> SigqPhases]
    /\ inj \in [Requests -> InjPhases]
    /\ event \in [Requests -> EntryType]
    /\ calls \in [Requests -> Nat]
    /\ interim \in [Requests -> Nat]
    /\ final \in [Requests -> Nat]
    /\ endless \in [Requests -> BOOLEAN]
    /\ resetReq \in [Requests -> BOOLEAN]
    /\ withdrawn \in [Requests -> BOOLEAN]

Init ==
    /\ prof \in [Requests -> Profiles]
    /\ stream = [r \in Requests |-> "idle"]
    /\ received = [r \in Requests |-> 0]
    /\ net = NetIdle
    /\ inflight = [r \in Requests |-> FALSE]
    /\ signal = [r \in Requests |-> "none"]
    /\ table = [r \in Requests |-> NoEntry]
    /\ hdr = [r \in Requests |-> "none"]
    /\ passed = [r \in Requests |-> 0]
    /\ sigq = [r \in Requests |-> "none"]
    /\ inj = [r \in Requests |-> "none"]
    /\ event = [r \in Requests |-> NoEntry]
    /\ calls = [r \in Requests |-> 0]
    /\ interim = [r \in Requests |-> 0]
    /\ final = [r \in Requests |-> 0]
    /\ endless = [r \in Requests |-> FALSE]
    /\ resetReq = [r \in Requests |-> FALSE]
    /\ withdrawn = [r \in Requests |-> FALSE]

-------------------------------------------------------------------------------
(***************************************************************************)
(* What the lookups answer.                                                *)
(***************************************************************************)

\* insert_stream_path_for_conn compares the whole :path, query included.
PathListed(r) == prof[r].kind \in {"regular", "stream", "wrong_method"}

\* get_routes_from_path_and_method strips the query first.
RouteFound(r) == prof[r].kind \in {"regular", "query"}

StreamFound(r) == prof[r].kind = "stream"

(***************************************************************************)
(* The network thread.  It handles one HTTP/3 event at a time; net says    *)
(* which part of the event is still to be done.                            *)
(***************************************************************************)

\* Event::Headers with a valid request header: begin_request,
\* insert_stream_path_for_conn, process_header.  No other thread knows the
\* request before the last of the three, which makes them one step.
Headers(r) ==
    /\ net = NetIdle
    /\ stream[r] = "idle"
    /\ stream' = [stream EXCEPT ![r] = "open"]
    /\ signal' = [signal EXCEPT ![r] = IF @ = "none" THEN "Pending" ELSE @]
    /\ inflight' = [inflight EXCEPT ![r] = PathListed(r)]
    /\ hdr' = [hdr EXCEPT ![r] = "queued"]
    /\ UNCHANGED <<prof, received, net, table, passed, sigq, withdrawn>>
    /\ UNCHANGED <<injVars, outVars>>

\* First half of cancel_request: signal.remove.
CancelSignal(R) ==
    /\ signal' = [r \in Requests |-> IF r \in R THEN "none" ELSE signal[r]]
    /\ withdrawn' = [r \in Requests |->
                        withdrawn[r] \/ (r \in R /\ signal[r] # "none")]

\* Mutant: the cancellation forgets the requests table.
DiscardEntriesSkipped(R) == table' = table

\* Second half of cancel_request: discard_request.
DiscardEntries(R) ==
    table' = [r \in Requests |-> IF r \in R THEN NoEntry ELSE table[r]]

\* Event::Headers whose block is no valid request header: a malformed
\* request, or trailers, which carry no :path.  The request is cancelled and
\* both sides of the stream are shut down.
MalformedHeaders(r) ==
    /\ net = NetIdle
    /\ stream[r] = "idle" \/ (stream[r] = "open" /\ prof[r].more)
    /\ stream' = [stream EXCEPT ![r] = "shut"]
    /\ CancelSignal({r})
    /\ net' = [op |-> "forget", on |-> {r}]
    /\ UNCHANGED <<prof, received, inflight, table, hdrVars, sigq>>
    /\ UNCHANGED <<injVars, outVars>>

\* Event::Data, one packet of recv_body: make sure the table has an entry.
\* The check and the insertion under entry() act as one or_insert.
DataEnsure(r) ==
    /\ net = NetIdle
    /\ stream[r] = "open" /\ prof[r].more
    /\ received[r] < MaxPackets
    /\ received' = [received EXCEPT ![r] = @ + 1]
    /\ table' = [table EXCEPT ![r] =
                    IF @.set THEN @ ELSE [NoEntry EXCEPT !.set = TRUE]]
    /\ net' = [op |-> "write", on |-> {r}]
    /\ UNCHANGED <<prof, stream, inflight, signal, hdrVars, sigq, withdrawn>>
    /\ UNCHANGED <<injVars, outVars>>

\* Mutant: the buffered prefix is cleared without reaching the file.
FlushPrefixLost(e) ==
    IF e.mode \in {"file", "nofile"} THEN [e EXCEPT !.mem = 0] ELSE e

\* flush_and_prefix_with_temp_buffer_if_any_bytes: the bytes received before
\* the headers were processed go in front of the file.
FlushPrefix(e) ==
    CASE e.mode = "file"   -> [e EXCEPT !.file = @ + e.mem, !.mem = 0]
      [] e.mode = "nofile" -> [e EXCEPT !.mem = 0]
      [] OTHER             -> e

\* write_body_packet, for each DataManagement.
StorePacket(e) ==
    CASE e.mode = "memory"   -> [e EXCEPT !.mem = @ + 1, !.size = @ + 1,
                                          !.is_end = FALSE]
      [] e.mode = "file"     -> [FlushPrefix(e) EXCEPT !.file = @ + 1,
                                          !.size = @ + 1, !.is_end = FALSE]
      [] e.mode = "nofile"   -> [FlushPrefix(e) EXCEPT !.is_end = FALSE]
      [] e.mode = "listener" -> [e EXCEPT !.heard = @ + 1]

\* The packet is dropped with an error log when the entry is gone.
DataWrite ==
    /\ net.op = "write"
    /\ table' = [r \in Requests |-> IF r \in net.on /\ table[r].set
                                    THEN StorePacket(table[r]) ELSE table[r]]
    /\ net' = NetIdle
    /\ UNCHANGED <<prof, stream, received, inflight, signal, hdrVars, sigq>>
    /\ UNCHANGED <<injVars, outVars, withdrawn>>

\* Event::Finished on a stream whose path was listed: handle_finished_stream
\* sends a ResponseInjection.
FinishedListed(r) ==
    /\ net = NetIdle
    /\ stream[r] = "open" /\ inflight[r]
    /\ stream' = [stream EXCEPT ![r] = "finished"]
    /\ inflight' = [inflight EXCEPT ![r] = FALSE]
    /\ inj' = [inj EXCEPT ![r] = "queued"]
    /\ UNCHANGED <<prof, received, net, signal, table, hdrVars, sigq>>
    /\ UNCHANGED <<event, calls, outVars, withdrawn>>

\* Event::Finished otherwise: cancel_request.
FinishedUnlisted(r) ==
    /\ net = NetIdle
    /\ stream[r] \in {"open", "shut"} /\ ~inflight[r]
    /\ stream' = [stream EXCEPT ![r] = IF @ = "open" THEN "finished"
                                                     ELSE "cancelled"]
    /\ CancelSignal({r})
    /\ net' = [op |-> "discard", on |-> {r}]
    /\ UNCHANGED <<prof, received, inflight, table, hdrVars, sigq>>
    /\ UNCHANGED <<injVars, outVars>>

\* Event::Reset: cancel_request, then the path is forgotten.
Reset(r) ==
    /\ net = NetIdle
    /\ stream[r] \in {"open", "shut"}
    /\ stream' = [stream EXCEPT ![r] = "cancelled"]
    /\ CancelSignal({r})
    /\ net' = [op |-> "forget", on |-> {r}]
    /\ UNCHANGED <<prof, received, inflight, table, hdrVars, sigq>>
    /\ UNCHANGED <<injVars, outVars>>

\* Garbage collection of a closed connection: cancel_connection, then
\* remove_connection.
CloseConnection(c) ==
    LET R == {r \in Requests : ConnOf[r] = c} IN
    /\ net = NetIdle
    /\ \E r \in R : stream[r] # "closed"
    /\ stream' = [r \in Requests |-> IF r \in R THEN "closed" ELSE stream[r]]
    /\ CancelSignal(R)
    /\ net' = [op |-> "forget", on |-> R]
    /\ UNCHANGED <<prof, received, inflight, table, hdrVars, sigq>>
    /\ UNCHANGED <<injVars, outVars>>

\* The rest of a cancellation: the table entry, then the inflight path, which
\* only the network thread reads.
FinishCancel ==
    /\ net.op \in {"discard", "forget"}
    /\ DiscardEntries(net.on)
    /\ inflight' = [r \in Requests |->
                       inflight[r] /\ ~(net.op = "forget" /\ r \in net.on)]
    /\ net' = NetIdle
    /\ UNCHANGED <<prof, stream, received, signal, hdrVars, sigq>>
    /\ UNCHANGED <<injVars, outVars, withdrawn>>

-------------------------------------------------------------------------------
(***************************************************************************)
(* The header processor: one thread.                                       *)
(***************************************************************************)

HeaderThreadIdle == \A r \in Requests : hdr[r] # "send_404"

\* A route or a stream session answers to the path: queue a middleware job.
RouteHeader(r) ==
    /\ hdr[r] = "queued" /\ HeaderThreadIdle
    /\ RouteFound(r) \/ StreamFound(r)
    /\ hdr' = [hdr EXCEPT ![r] = "job"]
    /\ UNCHANGED <<prof, netVars, signal, table, passed, sigq>>
    /\ UNCHANGED <<injVars, outVars, withdrawn>>

\* Nothing answers: send_rejected, then send_404.
RejectHeader(r) ==
    /\ hdr[r] = "queued" /\ HeaderThreadIdle
    /\ ~RouteFound(r) /\ ~StreamFound(r)
    /\ sigq' = [sigq EXCEPT ![r] = "Rejected"]
    /\ hdr' = [hdr EXCEPT ![r] = "send_404"]
    /\ UNCHANGED <<prof, netVars, signal, table, passed>>
    /\ UNCHANGED <<injVars, outVars, withdrawn>>

Send404(r) ==
    /\ hdr[r] = "send_404"
    /\ final' = [final EXCEPT ![r] = @ + 1]
    /\ hdr' = [hdr EXCEPT ![r] = "done"]
    /\ UNCHANGED <<prof, netVars, signal, table, passed, sigq, injVars>>
    /\ UNCHANGED <<interim, endless, resetReq, withdrawn>>

-------------------------------------------------------------------------------
(***************************************************************************)
(* The middleware workers.                                                 *)
(***************************************************************************)

\* A worker whose callback panicked is gone for good: it stays busy.
MiddlewareBusy == {r \in Requests : hdr[r] \in {"running", "complete",
                          "create", "insert", "status", "signal", "panicked"}}

\* The requests that took a pool thread down with them.
Panicked == {r \in Requests : hdr[r] = "panicked" \/ inj[r] = "panicked"}
MayPanic == Cardinality(Panicked) < MaxPanics

TakeJob(r) ==
    /\ hdr[r] = "job"
    /\ Cardinality(MiddlewareBusy) < MiddlewareWorkers
    /\ hdr' = [hdr EXCEPT ![r] = "running"]
    /\ UNCHANGED <<prof, netVars, signal, table, passed, sigq>>
    /\ UNCHANGED <<injVars, outVars, withdrawn>>

MiddlewareContinue(r) ==
    /\ hdr[r] = "running" /\ passed[r] < prof[r].mws
    /\ passed' = [passed EXCEPT ![r] = @ + 1]
    /\ UNCHANGED <<prof, netVars, signal, table, hdr, sigq>>
    /\ UNCHANGED <<injVars, outVars, withdrawn>>

\* Abort, or an Err of the callback: send_rejected, then the Abort result
\* goes to the middleware-result thread.
MiddlewareAbort(r) ==
    /\ hdr[r] = "running" /\ passed[r] < prof[r].mws
    /\ sigq' = [sigq EXCEPT ![r] = "Rejected"]
    /\ hdr' = [hdr EXCEPT ![r] = "aborted"]
    /\ UNCHANGED <<prof, netVars, signal, table, passed>>
    /\ UNCHANGED <<injVars, outVars, withdrawn>>

\* The callback panics: nothing catches it, the thread ends and neither a
\* disposition nor a result is sent.
MiddlewarePanic(r) ==
    /\ hdr[r] = "running" /\ passed[r] < prof[r].mws
    /\ MayPanic
    /\ hdr' = [hdr EXCEPT ![r] = "panicked"]
    /\ UNCHANGED <<prof, netVars, signal, table, passed, sigq>>
    /\ UNCHANGED <<injVars, outVars, withdrawn>>

\* The middleware-result thread: send_error.
SendError(r) ==
    /\ hdr[r] = "aborted"
    /\ final' = [final EXCEPT ![r] = @ + 1]
    /\ hdr' = [hdr EXCEPT ![r] = "done"]
    /\ UNCHANGED <<prof, netVars, signal, table, passed, sigq, injVars>>
    /\ UNCHANGED <<interim, endless, resetReq, withdrawn>>

\* Every middleware returned Continue: is_request_set_in_table.
CheckTable(r) ==
    /\ hdr[r] = "running" /\ passed[r] = prof[r].mws
    /\ hdr' = [hdr EXCEPT ![r] = IF table[r].set THEN "complete" ELSE "create"]
    /\ UNCHANGED <<prof, netVars, signal, table, passed, sigq>>
    /\ UNCHANGED <<injVars, outVars, withdrawn>>

\* Mutant: a stream session gets no DataManagement at all.
ConfiguredUnset(r) == IF StreamFound(r) THEN "unset" ELSE prof[r].storage

\* The DataManagement a worker stores: the route's, InMemory for a stream
\* session.
Configured(r) == IF StreamFound(r) THEN "memory" ELSE prof[r].storage

\* What opening the storage of the request can give.
OpenedModes(r) ==
    IF Configured(r) = "file"
    THEN {"file"} \cup (IF FileCreateMayFail THEN {"nofile"} ELSE {})
    ELSE {Configured(r)}

\* complete_request_entry_in_table: and_modify, nothing when the entry is gone.
CompleteEntry(r) ==
    /\ hdr[r] = "complete"
    /\ \E m \in OpenedModes(r) :
         table' = [table EXCEPT ![r] =
                     IF @.set THEN [@ EXCEPT !.headers = TRUE, !.mode = m]
                              ELSE @]
    /\ hdr' = [hdr EXCEPT ![r] = "status"]
    /\ UNCHANGED <<prof, netVars, signal, passed, sigq>>
    /\ UNCHANGED <<injVars, outVars, withdrawn>>

\* Mutant: the worker's entry replaces the one found.
AddHeadersReplace(e) == [NoEntry EXCEPT !.set = TRUE, !.headers = TRUE]

\* add_partial_request finds an entry made in the meantime: it sets headers,
\* path, length and method, and leaves the DataManagement alone.
AddHeaders(e) == [e EXCEPT !.headers = TRUE]

\* add_partial_request, the get_mut at its start.
CreateCheck(r) ==
    /\ hdr[r] = "create"
    /\ table' = [table EXCEPT ![r] = IF @.set THEN AddHeaders(@) ELSE @]
    /\ hdr' = [hdr EXCEPT ![r] = IF table[r].set THEN "status" ELSE "insert"]
    /\ UNCHANGED <<prof, netVars, signal, passed, sigq>>
    /\ UNCHANGED <<injVars, outVars, withdrawn>>

\* PartialReq::new of a worker; a stream session passes more_frames = true.
WorkerEntry(r, m) ==
    [NoEntry EXCEPT !.set = TRUE, !.headers = TRUE, !.mode = m,
                    !.is_end = ~StreamFound(r) /\ ~prof[r].more]

\* add_partial_request, the entry().and_modify().or_insert() at its end.
InsertEntry(r) ==
    /\ hdr[r] = "insert"
    /\ \E m \in OpenedModes(r) :
         table' = [table EXCEPT ![r] = IF @.set THEN AddHeaders(@)
                                                ELSE WorkerEntry(r, m)]
    /\ hdr' = [hdr EXCEPT ![r] = "status"]
    /\ UNCHANGED <<prof, netVars, signal, passed, sigq>>
    /\ UNCHANGED <<injVars, outVars, withdrawn>>

\* send_reception_status_first.
SendStatus(r) ==
    /\ hdr[r] = "status"
    /\ interim' = [interim EXCEPT ![r] = @ + 1]
    /\ hdr' = [hdr EXCEPT ![r] = "signal"]
    /\ UNCHANGED <<prof, netVars, signal, table, passed, sigq, injVars>>
    /\ UNCHANGED <<final, endless, resetReq, withdrawn>>

SendSignal(r) ==
    /\ hdr[r] = "signal"
    /\ sigq' = [sigq EXCEPT ![r] = "Ready"]
    /\ hdr' = [hdr EXCEPT ![r] = "done"]
    /\ UNCHANGED <<prof, netVars, signal, table, passed>>
    /\ UNCHANGED <<injVars, outVars, withdrawn>>

-------------------------------------------------------------------------------
(***************************************************************************)
(* The signal receiver: one thread.                                        *)
(***************************************************************************)

SignalThreadIdle == \A r \in Requests : sigq[r] # "discard"

\* Mutant: insert instead of get_mut.
HasSignalAlways(r) == TRUE

\* get_mut on the signal map finds the request.
HasSignal(r) == signal[r] # "none"

\* The entry is found: record the disposition.
RecordSignal(r) ==
    /\ sigq[r] \in {"Ready", "Rejected"} /\ SignalThreadIdle
    /\ HasSignal(r)
    /\ signal' = [signal EXCEPT ![r] = sigq[r]]
    /\ sigq' = [sigq EXCEPT ![r] = "none"]
    /\ UNCHANGED <<prof, netVars, table, hdrVars, injVars, outVars, withdrawn>>

\* The request was cancelled: the entry a late worker made is discarded.
LateSignal(r) ==
    /\ sigq[r] \in {"Ready", "Rejected"} /\ SignalThreadIdle
    /\ ~HasSignal(r)
    /\ sigq' = [sigq EXCEPT ![r] = "discard"]
    /\ UNCHANGED <<prof, netVars, signal, table, hdrVars, injVars, outVars,
                   withdrawn>>

DiscardLate(r) ==
    /\ sigq[r] = "discard"
    /\ DiscardEntries({r})
    /\ sigq' = [sigq EXCEPT ![r] = "none"]
    /\ UNCHANGED <<prof, netVars, signal, hdrVars, injVars, outVars, withdrawn>>

-------------------------------------------------------------------------------
(***************************************************************************)
(* The response workers.                                                   *)
(***************************************************************************)

ResponseBusy == {r \in Requests : inj[r] \in {"missed", "discard", "prepare",
                       "clean", "call", "respond", "callback", "panicked"}}

\* Mutants of what register makes of a disposition s.  A rejected request falls
\* through to the handler; a pending one is not waited for; a pending one is
\* not retried.
RegisterOutcomeFallsThrough(s) ==
    CASE s = "Ready" -> "prepare" [] s = "Rejected" -> "call" [] OTHER -> "missed"
RegisterOutcomeNoWait(s) ==
    CASE s = "Rejected" -> "discard" [] s = "none" -> "missed" [] OTHER -> "prepare"
RegisterOutcomeNoRetry(s) ==
    CASE s = "Ready" -> "prepare" [] s = "Rejected" -> "discard" [] OTHER -> "done"

\* What register makes of the disposition s it found.
RegisterOutcome(s) ==
    CASE s = "Ready"    -> "prepare"
      [] s = "Rejected" -> "discard"
      [] OTHER          -> "missed"

\* register, its remove_if: takes a disposition that is not Pending.
Register(r) ==
    /\ inj[r] = "queued"
    /\ Cardinality(ResponseBusy) < ResponseWorkers
    /\ inj' = [inj EXCEPT ![r] = RegisterOutcome(signal[r])]
    /\ signal' = [signal EXCEPT ![r] = IF @ = "Pending" THEN @ ELSE "none"]
    /\ UNCHANGED <<prof, netVars, table, hdrVars, sigq, event, calls, outVars,
                   withdrawn>>

\* register, its contains_key: the worker requeues the injection or drops it.
Requeue(r) ==
    /\ inj[r] = "missed"
    /\ inj' = [inj EXCEPT ![r] = IF signal[r] = "none" THEN "done" ELSE "queued"]
    /\ UNCHANGED <<prof, netVars, signal, table, hdrVars, sigq, event, calls,
                   outVars, withdrawn>>

\* register, Rejected: the body received so far is discarded.
DiscardRejected(r) ==
    /\ inj[r] = "discard"
    /\ DiscardEntries({r})
    /\ inj' = [inj EXCEPT ![r] = "done"]
    /\ UNCHANGED <<prof, netVars, signal, hdrVars, sigq, event, calls, outVars,
                   withdrawn>>

\* build_route_event under the entry's lock: the event takes the body.
\* There is no event without an entry or without headers.
BuildEvent(r) ==
    /\ inj[r] = "prepare"
    /\ LET e == FlushPrefix(table[r]) IN
         IF table[r].set /\ table[r].headers
         THEN /\ event' = [event EXCEPT ![r] = e]
              /\ table' = [table EXCEPT ![r] = [e EXCEPT !.mem = 0]]
         ELSE UNCHANGED <<event, table>>
    /\ inj' = [inj EXCEPT ![r] = "clean"]
    /\ UNCHANGED <<prof, netVars, signal, hdrVars, sigq, calls, outVars,
                   withdrawn>>

\* build_route_event after the lock: the entry is removed.  Without an event
\* the injection ends here, unanswered.
CleanEntry(r) ==
    /\ inj[r] = "clean"
    /\ DiscardEntries({r})
    /\ inj' = [inj EXCEPT ![r] = IF ~event[r].set THEN "done"
                                 ELSE IF RouteFound(r) THEN "call"
                                 ELSE "respond"]
    /\ UNCHANGED <<prof, netVars, signal, hdrVars, sigq, event, calls, outVars,
                   withdrawn>>

\* process_handler: the route's handler runs.
CallHandler(r) ==
    /\ inj[r] = "call"
    /\ calls' = [calls EXCEPT ![r] = @ + 1]
    /\ inj' = [inj EXCEPT ![r] = "respond"]
    /\ UNCHANGED <<prof, netVars, signal, table, hdrVars, sigq, event, outVars,
                   withdrawn>>

\* The response of a route is queued.  The end of a body ends the stream; a
\* bodiless answer ends it with its header, except that GET copies is_end of
\* the request.
QueueResponse(r) ==
    /\ inj[r] = "respond" /\ RouteFound(r)
    /\ final' = [final EXCEPT ![r] = @ + 1]
    /\ \E body \in BOOLEAN :
         endless' = [endless EXCEPT ![r] =
                        ~body /\ prof[r].get /\ ~event[r].is_end]
    /\ inj' = [inj EXCEPT ![r] = "done"]
    /\ UNCHANGED <<prof, netVars, signal, table, hdrVars, sigq, event, calls,
                   interim, resetReq, withdrawn>>

\* open_stream_then_call: the opening header is queued before the callback.
QueueOpening(r) ==
    /\ inj[r] = "respond" /\ ~RouteFound(r)
    /\ final' = [final EXCEPT ![r] = @ + 1]
    /\ inj' = [inj EXCEPT ![r] = "callback"]
    /\ UNCHANGED <<prof, netVars, signal, table, hdrVars, sigq, event, calls,
                   interim, endless, resetReq, withdrawn>>

\* The stream callback runs; an Err requests the reset of the stream.
CallStream(r) ==
    /\ inj[r] = "callback"
    /\ calls' = [calls EXCEPT ![r] = @ + 1]
    /\ \E ok \in BOOLEAN : resetReq' = [resetReq EXCEPT ![r] = ~ok]
    /\ inj' = [inj EXCEPT ![r] = "done"]
    /\ UNCHANGED <<prof, netVars, signal, table, hdrVars, sigq, event, interim,
                   final, endless, withdrawn>>

\* The handler or the stream callback panics: its response worker is gone.
HandlerPanic(r) ==
    /\ inj[r] \in {"call", "callback"}
    /\ MayPanic
    /\ calls' = [calls EXCEPT ![r] = @ + 1]
    /\ inj' = [inj EXCEPT ![r] = "panicked"]
    /\ UNCHANGED <<prof, netVars, signal, table, hdrVars, sigq, event, outVars,
                   withdrawn>>

-------------------------------------------------------------------------------
ClientEvent(r) == \/ Headers(r) \/ MalformedHeaders(r) \/ DataEnsure(r)
                  \/ FinishedListed(r) \/ FinishedUnlisted(r) \/ Reset(r)
NetworkRest == DataWrite \/ FinishCancel
HeaderProcessor(r) == RouteHeader(r) \/ RejectHeader(r) \/ Send404(r)
MiddlewareWorker(r) == \/ TakeJob(r) \/ MiddlewareContinue(r)
                       \/ MiddlewareAbort(r) \/ MiddlewarePanic(r)
                       \/ CheckTable(r)
                       \/ CompleteEntry(r) \/ CreateCheck(r) \/ InsertEntry(r)
                       \/ SendStatus(r) \/ SendSignal(r)
ResultThread(r) == SendError(r)
SignalReceiver(r) == RecordSignal(r) \/ LateSignal(r) \/ DiscardLate(r)
ResponseWorker(r) == \/ Register(r) \/ Requeue(r) \/ DiscardRejected(r)
                     \/ BuildEvent(r) \/ CleanEntry(r) \/ CallHandler(r)
                     \/ QueueResponse(r) \/ QueueOpening(r) \/ CallStream(r)
                     \/ HandlerPanic(r)

Next ==
    \/ \E r \in Requests :
          \/ ClientEvent(r) \/ HeaderProcessor(r) \/ MiddlewareWorker(r)
          \/ ResultThread(r) \/ SignalReceiver(r) \/ ResponseWorker(r)
    \/ \E c \in Conns : CloseConnection(c)
    \/ NetworkRest

Spec == Init /\ [][Next]_vars

(***************************************************************************)
(* Every server thread keeps running: each of its steps is taken once it   *)
(* stays possible.  Nothing obliges the peer to send, finish or close.     *)
(***************************************************************************)
Fairness ==
    /\ WF_vars(NetworkRest)
    /\ \A r \in Requests :
          /\ WF_vars(HeaderProcessor(r)) /\ WF_vars(MiddlewareWorker(r))
          /\ WF_vars(ResultThread(r)) /\ WF_vars(SignalReceiver(r))
          /\ WF_vars(ResponseWorker(r))

FairSpec == Spec /\ Fairness

-------------------------------------------------------------------------------
(***************************************************************************)
(* Properties.                                                             *)
(***************************************************************************)

\* The handler or stream callback of a request runs at most once, only after
\* every middleware of its route returned Continue, and only for a request
\* whose stream was finished on a listed path (register joins the Ready
\* disposition with the injection of the Finished event).
DispatchSound ==
    \A r \in Requests :
       /\ calls[r] <= 1
       /\ calls[r] = 1 => /\ passed[r] = prof[r].mws
                          /\ prof[r].kind \in {"regular", "stream"}
                          /\ stream[r] \in {"finished", "closed"}

\* A request gets at most one final response header, whichever of the header
\* processor (404), the middleware-result thread (error) and the response
\* worker (answer) queues it, and a dispatched one got its 100 before.
OneFinalResponse ==
    \A r \in Requests : /\ final[r] <= 1
                        /\ interim[r] <= 1
                        /\ event[r].set => interim[r] = 1

\* No 100 is queued behind the final header: a worker queues it before it
\* signals Ready, and nobody answers before Ready.
InterimBeforeFinal ==
    [][\A r \in Requests : final[r] > 0 => interim'[r] = interim[r]]_vars

\* "A late middleware result must not resurrect a cancelled request": once
\* cancel_request or cancel_connection removed the live signal entry, the
\* handler never runs, however late the worker, the signal and the injection.
CancelWins == \A r \in Requests : withdrawn[r] => calls[r] = 0

\* When the stream is over and no thread or channel holds anything of the
\* request, the signal map, the requests table and the inflight set have
\* forgotten it.
Quiescent(r) ==
    /\ stream[r] \in {"shut", "finished", "cancelled", "closed"}
    /\ r \notin net.on
    /\ hdr[r] \in {"none", "done"}
    /\ sigq[r] = "none"
    /\ inj[r] \in {"none", "done"}

NothingLeaks ==
    \A r \in Requests :
       Quiescent(r) => /\ signal[r] = "none"
                       /\ ~table[r].set
                       /\ ~inflight[r]

\* The event given to the handler accounts for every body packet read from
\* the stream, whatever the order of the Data events and the middleware
\* worker, and the size announced to the file writer is what it was given.
BodyDelivered ==
    \A r \in Requests :
       event[r].set /\ event[r].mode # "nofile" =>
          /\ event[r].mem + event[r].file + event[r].heard = received[r]
          /\ event[r].mode = "file" => /\ event[r].mem = 0
                                       /\ event[r].size = event[r].file
          /\ event[r].mode = "memory" => event[r].size = event[r].mem

\* A request whose stream finished gets a final response unless its
\* connection closes first or its own callback panics: the injection is
\* retried until the middleware pipeline has decided, and every decision ends in
\* a response.  What requests do to each other is the subject of InjectionQueue.
FinishedIsAnswered ==
    \A r \in Requests :
       stream[r] = "finished"
          ~> (final[r] > 0 \/ stream[r] = "closed" \/ r \in Panicked)

\* A request that was cancelled is eventually forgotten for good: late
\* workers, signals and injections are drained and leave nothing behind.
CancelledIsForgotten ==
    \A r \in Requests :
       stream[r] \in {"cancelled", "closed"}
          ~> [](signal[r] = "none" /\ ~table[r].set /\ ~inflight[r])

(***************************************************************************)
(* The contract these threads keep.  Its variables are this module's, but  *)
(* for the kind of the request, which decides the order of service.        *)
(***************************************************************************)
Contract == INSTANCE RequestContract
            WITH opens <- [r \in Requests |-> StreamFound(r)]

\* Six threads, two maps and four channels later, client and application see
\* what RequestContract allows: at most one 100 and one final header, never an
\* error after a 100, no answer and no call for a withdrawn request, the
\* handler called before its answer and the stream opened before its callback.
ContractKept == Contract!Spec

\* The body of a dispatched request was kept the way its route configured.
StorageHonoured ==
    \A r \in Requests :
       event[r].set => event[r].mode \in OpenedModes(r)

\* Every final response of a route ends: its header carries FIN or a body
\* follows.
FinalResponseEnds == \A r \in Requests : ~endless[r]
===============================================================================
