------------------------------- MODULE FileBody -------------------------------
(***************************************************************************)
(* The body of one request stored in a file: FileWriterHandle, the worker  *)
(* that writes the queued packets, the PartialReq that feeds them, and the *)
(* handlers that wait for the file with on_file_written.                   *)
(*                                                                         *)
(* The owner is whoever holds the PartialReq: the network thread while     *)
(* packets arrive, then the response worker that builds the event; the     *)
(* lock of the table entry makes them one sequential process.  An action   *)
(* is one critical section of the handle's inner lock, or what a thread    *)
(* does after releasing it: settle removes the writer from the pending map *)
(* and posts the callback.                                                 *)
(*                                                                         *)
(* Packets are numbered in the order they were received and have size 1.   *)
(***************************************************************************)
EXTENDS Naturals, Sequences

CONSTANTS
    Handlers,     \* threads that hold the handle and register one callback each
    MaxPackets,   \* bound: packets of the body
    Declared,     \* Content-Length values a request may carry, or NoLength
    NoLength,     \* no Content-Length
    IOMayFail     \* whether reads, writes and flushes may fail

ASSUME FileBodyAssumption ==
    /\ MaxPackets \in Nat
    /\ NoLength \notin Nat
    /\ Declared \subseteq Nat \cup {NoLength}
    /\ IOMayFail \in BOOLEAN
    /\ "owner" \notin Handlers /\ "worker" \notin Handlers

VARIABLES
    stage,      \* what the owner is doing
    received,   \* packets read from the stream
    mem,        \* PartialReq.body
    size,       \* PartialReq.body_written_size
    queue,      \* packets sent to the file worker
    h,          \* State of the handle, file_length, written, and the file
    cb,         \* what became of the callback of each handler
    ran,        \* how often each callback ran
    pending,    \* the writer is in PendingFilesMap
    settling    \* what each thread still has to settle, see Settle

vars == <<stage, received, mem, size, queue, h, cb, ran, pending, settling>>
ownerVars == <<received, mem, size>>

Threads == {"owner", "worker"} \cup Handlers
Packets == 1..MaxPackets
Stages == {"buffering", "open", "append", "flushed", "finish", "length",
           "mismatch", "done", "discarded"}

(***************************************************************************)
(* disk is what the file holds, buf what is still in the BufWriter.  A     *)
(* callback is "held" in finishing_callback, "due" once a thread took it   *)
(* to post it, "queued" for the finishing pool, and ends "ran", "dropped"  *)
(* by a failure, or "replaced" by a later registration.                    *)
(***************************************************************************)
HandleType == [disk : Seq(Packets), buf : Seq(Packets), written : Nat,
               length : Nat \cup {NoLength}, can_close : BOOLEAN,
               failed : BOOLEAN]
CallbackStates == {"none", "held", "due", "queued", "ran", "dropped",
                   "replaced"}
Settlements == [terminal : BOOLEAN, post : SUBSET Handlers]
Settled == [terminal |-> FALSE, post |-> {}]

TypeOK ==
    /\ stage \in Stages
    /\ received \in 0..MaxPackets
    /\ mem \in Seq(Packets)
    /\ size \in Nat
    /\ queue \in Seq(Packets)
    /\ h \in HandleType
    /\ cb \in [Handlers -> CallbackStates]
    /\ ran \in [Handlers -> Nat]
    /\ pending \in BOOLEAN
    /\ settling \in [Threads -> Settlements]

Init ==
    /\ stage = "buffering"
    /\ received = 0
    /\ mem = <<>>
    /\ size = 0
    /\ queue = <<>>
    /\ \E n \in Declared :
          h = [disk |-> <<>>, buf |-> <<>>, written |-> 0, length |-> n,
               can_close |-> FALSE, failed |-> FALSE]
    /\ cb = [c \in Handlers |-> "none"]
    /\ ran = [c \in Handlers |-> 0]
    /\ pending = FALSE
    /\ settling = [t \in Threads |-> Settled]

-------------------------------------------------------------------------------
(***************************************************************************)
(* Operations on the handle, under its lock.  Each is the set of its       *)
(* possible outcomes [h, res], where res is the io::Result<bool>: "ready"  *)
(* for Ok(true), "waiting" for Ok(false), "err" for Err.                   *)
(***************************************************************************)
Outcome(s, r) == [h |-> s, res |-> r]

\* Mutant: the error is returned but not kept.
FailForgotten(s) == s

\* State::fail: the first failure is kept for good.
Fail(s) == [s EXCEPT !.failed = TRUE]

\* What a failing write or flush of the bytes b may leave after d on disk.
Torn(d, b) == {d \o SubSeq(b, 1, k) : k \in 0..Len(b)}

\* State::flush.  Without buffered bytes there is nothing that could fail.
Flush(s) ==
    IF s.failed THEN {Outcome(s, "err")}
    ELSE {Outcome([s EXCEPT !.disk = @ \o s.buf, !.buf = <<>>], "waiting")}
         \cup IF IOMayFail /\ s.buf # <<>>
              THEN {Outcome([Fail(s) EXCEPT !.disk = d], "err") :
                       d \in Torn(s.disk, s.buf)}
              ELSE {}

\* Then(o, F): the operation F follows the outcomes of o that are not errors.
Then(o, F(_)) == UNION {IF x.res = "err" THEN {x} ELSE F(x.h) : x \in o}

Close(s) == {Outcome([s EXCEPT !.can_close = TRUE], "ready")}

\* Mutant: completion without the flush.
CompleteUnflushed(s) ==
    IF s.failed THEN {Outcome(s, "err")}
    ELSE IF s.can_close THEN {Outcome(s, "ready")}
    ELSE IF s.length = NoLength \/ s.written # s.length THEN {Outcome(s, "waiting")}
    ELSE Close(s)

\* complete_if_ready: an exact byte count and a successful flush.
CompleteIfReady(s) ==
    IF s.failed THEN {Outcome(s, "err")}
    ELSE IF s.can_close THEN {Outcome(s, "ready")}
    ELSE IF s.length = NoLength \/ s.written < s.length
         THEN {Outcome(s, "waiting")}
    ELSE IF s.written > s.length THEN {Outcome(Fail(s), "err")}
    ELSE Then(Flush(s), Close)

\* More bytes than the known length.
Exceeds(s, n) == s.length # NoLength /\ n > s.length

\* Mutant: the guard of a completed file is dropped.
WriteOnDiskReopened(s, p) ==
    IF s.failed THEN {Outcome(s, "err")}
    ELSE CompleteIfReady([s EXCEPT !.buf = Append(@, p), !.written = @ + 1])

\* write_on_disk of one packet.  An error is kept unless the file is already
\* complete.  The BufWriter may pass its bytes on at any write.
WriteOnDisk(s, p) ==
    IF s.failed \/ s.can_close THEN {Outcome(s, "err")}
    ELSE IF Exceeds(s, s.written + 1) THEN {Outcome(Fail(s), "err")}
    ELSE CompleteIfReady([s EXCEPT !.buf = Append(@, p), !.written = @ + 1])
         \cup CompleteIfReady([s EXCEPT !.disk = @ \o Append(s.buf, p),
                                        !.buf = <<>>, !.written = @ + 1])
         \cup IF IOMayFail
              THEN {Outcome([Fail(s) EXCEPT !.disk = d], "err") :
                       d \in Torn(s.disk, Append(s.buf, p))}
              ELSE {}

\* The rewrite inside transfert_bytes_from_temp_file, after the flush.  The
\* file may fail to open or to be read, and the rewrite truncates it first.
Rewrite(s, bytes) ==
    LET new == bytes \o s.disk IN
    IF Exceeds(s, Len(new)) THEN {Outcome(Fail(s), "err")}
    ELSE CompleteIfReady([s EXCEPT !.disk = new, !.written = Len(new)])
         \cup IF IOMayFail
              THEN {Outcome([Fail(s) EXCEPT !.disk = d], "err") :
                       d \in {s.disk} \cup Torn(<<>>, new)}
              ELSE {}

\* transfert_bytes_from_temp_file, with bytes that are not empty.
Transfer(s, bytes) ==
    IF s.failed \/ s.can_close THEN {Outcome(s, "err")}
    ELSE LET Rest(x) == Rewrite(x, bytes) IN Then(Flush(s), Rest)

\* Mutants: the length learned at FIN is not used; it is the last index instead
\* of the size.
SetLengthIgnored(s, n) == s
SetLengthShort(s, n) == IF s.length = NoLength THEN [s EXCEPT !.length = n - 1]
                                               ELSE s

\* set_file_length keeps a length that is already known.
SetLength(s, n) == IF s.length = NoLength THEN [s EXCEPT !.length = n] ELSE s

-------------------------------------------------------------------------------
(***************************************************************************)
(* What a thread does with the outcome x of its critical section.          *)
(***************************************************************************)

Free(t) == settling[t] = Settled

\* completion_callback: the callback to post, with k the callbacks known.
CompletionCallback(k, res) ==
    IF res = "ready" THEN {c \in Handlers : k[c] = "held"} ELSE {}

\* Still under the lock: the handle is updated and the callback taken.  What
\* to settle is kept for after the lock; there is nothing for Ok(false).
Conclude(t, x, k) ==
    LET post == CompletionCallback(k, x.res) IN
    /\ h' = x.h
    /\ cb' = [c \in Handlers |->
                 IF c \in post THEN "due"
                 ELSE IF k[c] = "held" /\ x.res = "err" THEN "dropped"
                 ELSE k[c]]
    /\ settling' = [settling EXCEPT ![t] =
                       [terminal |-> x.res # "waiting", post |-> post]]

\* Mutant: only a success leaves the pending map.
LeavesPendingOnSuccess(s) == s.post # {}

\* settle removes the writer from the pending map unless it is waiting.
LeavesPending(s) == s.terminal

\* settle: the callback goes to the finishing pool, or runs here when the
\* pool is gone.
Settle(t) ==
    /\ ~Free(t)
    /\ pending' = (pending /\ ~LeavesPending(settling[t]))
    /\ \E sent \in BOOLEAN :
         LET post == settling[t].post IN
         /\ cb' = [c \in Handlers |-> IF c \notin post THEN cb[c]
                                      ELSE IF sent THEN "queued" ELSE "ran"]
         /\ ran' = [c \in Handlers |-> IF c \in post /\ ~sent THEN ran[c] + 1
                                                             ELSE ran[c]]
    /\ settling' = [settling EXCEPT ![t] = Settled]
    /\ UNCHANGED <<stage, ownerVars, queue, h>>

-------------------------------------------------------------------------------
(***************************************************************************)
(* The owner.                                                              *)
(***************************************************************************)

\* A packet that arrives before the storage is known: extend_data.
BufferPacket ==
    /\ stage = "buffering" /\ received < MaxPackets
    /\ received' = received + 1
    /\ mem' = Append(mem, received + 1)
    /\ size' = size + 1
    /\ UNCHANGED <<stage, queue, h, cb, ran, pending, settling>>

\* create_file_writer_handle: the writer becomes pending.
OpenFile ==
    /\ stage = "buffering"
    /\ stage' = "open"
    /\ pending' = TRUE
    /\ UNCHANGED <<ownerVars, queue, h, cb, ran, settling>>

\* A packet for the file arrives: write_body_packet.
ReceivePacket ==
    /\ stage = "open" /\ received < MaxPackets
    /\ received' = received + 1
    /\ stage' = "append"
    /\ UNCHANGED <<mem, size, queue, h, cb, ran, pending, settling>>

\* flush_and_prefix_with_temp_buffer_if_any_bytes, before a packet is queued
\* and before the event is built.  An error is only logged.
FlushPrefix ==
    /\ stage \in {"append", "finish"} /\ Free("owner")
    /\ mem # <<>>
    /\ mem' = <<>>
    /\ \E x \in Transfer(h, mem) : Conclude("owner", x, cb)
    /\ UNCHANGED <<stage, received, size, queue, ran, pending>>

\* write_file.
AppendPacket ==
    /\ stage = "append" /\ Free("owner") /\ mem = <<>>
    /\ queue' = Append(queue, received)
    /\ size' = size + 1
    /\ stage' = "open"
    /\ UNCHANGED <<received, mem, h, cb, ran, pending, settling>>

\* The stream finished: build_route_event.
FinishBody ==
    /\ stage = "open"
    /\ stage' = "finish"
    /\ UNCHANGED <<ownerVars, queue, h, cb, ran, pending, settling>>

\* The declared length is not what was received.
LengthMismatch == h.length # NoLength /\ h.length # size

\* finish_received, its first critical section.
FinishReceived ==
    /\ stage = "finish" /\ Free("owner") /\ mem = <<>>
    /\ h' = IF LengthMismatch THEN Fail(h) ELSE h
    /\ stage' = IF LengthMismatch THEN "mismatch" ELSE "length"
    /\ UNCHANGED <<ownerVars, queue, cb, ran, pending, settling>>

\* finish_received after a mismatch: take_callback, then settle the error.
DropCallback ==
    /\ stage = "mismatch"
    /\ Conclude("owner", Outcome(h, "err"), cb)
    /\ stage' = "done"
    /\ UNCHANGED <<ownerVars, queue, ran, pending>>

\* finish_received otherwise: set_file_length takes the lock again.
SetFileLength ==
    /\ stage = "length"
    /\ \E x \in CompleteIfReady(SetLength(h, size)) : Conclude("owner", x, cb)
    /\ stage' = "done"
    /\ UNCHANGED <<ownerVars, queue, ran, pending>>

\* The request is cancelled and its entry discarded.  Queued packets are
\* still written.
DiscardBody ==
    /\ stage \in {"buffering", "open"}
    /\ stage' = "discarded"
    /\ UNCHANGED <<ownerVars, queue, h, cb, ran, pending, settling>>

Owner == \/ FlushPrefix \/ AppendPacket \/ FinishReceived \/ DropCallback
         \/ SetFileLength \/ Settle("owner")

-------------------------------------------------------------------------------
(***************************************************************************)
(* The file worker bound to the stream, the handlers, the finishing pool.  *)
(***************************************************************************)

WriteQueued ==
    /\ queue # <<>> /\ Free("worker")
    /\ queue' = Tail(queue)
    /\ \E x \in WriteOnDisk(h, Head(queue)) : Conclude("worker", x, cb)
    /\ UNCHANGED <<stage, ownerVars, ran, pending>>

\* on_file_written: only the latest pending callback is retained.
RegisterFinishingCallback(c) ==
    /\ stage = "done" /\ Free(c) /\ cb[c] = "none"
    /\ \E x \in CompleteIfReady(h) :
         Conclude(c, x, [d \in Handlers |-> IF d = c THEN "held"
                                           ELSE IF cb[d] = "held" THEN "replaced"
                                           ELSE cb[d]])
    /\ UNCHANGED <<stage, ownerVars, queue, ran, pending>>

\* flush, also through close_file.
FlushFile(c) ==
    /\ stage = "done" /\ Free(c)
    /\ \E x \in Then(Flush(h), CompleteIfReady) : Conclude(c, x, cb)
    /\ UNCHANGED <<stage, ownerVars, queue, ran, pending>>

\* manage_file_finishing_ev.
RunCallback(c) ==
    /\ cb[c] = "queued"
    /\ cb' = [cb EXCEPT ![c] = "ran"]
    /\ ran' = [ran EXCEPT ![c] = @ + 1]
    /\ UNCHANGED <<stage, ownerVars, queue, h, pending, settling>>

Worker == WriteQueued \/ Settle("worker")

Next ==
    \/ BufferPacket \/ OpenFile \/ ReceivePacket \/ FinishBody \/ DiscardBody
    \/ Owner \/ Worker
    \/ \E c \in Handlers : \/ RegisterFinishingCallback(c) \/ FlushFile(c)
                            \/ Settle(c) \/ RunCallback(c)

Spec == Init /\ [][Next]_vars

\* The pools keep running, and a handler returns from the calls it makes.
\* Nothing obliges the peer to send or finish, nor a handler to call.
FairSpec ==
    /\ Spec
    /\ WF_vars(Owner) /\ WF_vars(Worker)
    /\ \A c \in Handlers : WF_vars(Settle(c)) /\ WF_vars(RunCallback(c))

-------------------------------------------------------------------------------
(***************************************************************************)
(* Properties.                                                             *)
(***************************************************************************)

\* The callback of on_file_written runs at most once, and when it is posted,
\* queued or running the file holds the whole body, in order, on disk: no
\* failure, no missing prefix, nothing left in the BufWriter.
SuccessMeansBody ==
    \A c \in Handlers :
       /\ ran[c] = IF cb[c] = "ran" THEN 1 ELSE 0
       /\ cb[c] \in {"due", "queued", "ran"} =>
             /\ ~h.failed
             /\ h.disk = [i \in 1..received |-> i]
             /\ h.buf = <<>>
             /\ h.written = received

\* A callback is given up only because the file failed.
DroppedMeansFailed == \A c \in Handlers : cb[c] = "dropped" => h.failed

\* "terminal_writers_leave_the_pending_registry_even_without_a_callback":
\* once nobody is settling, a completed or failed writer is not pending.
TerminalLeavesPending ==
    /\ h.can_close \/ h.failed
    /\ stage # "mismatch"
    /\ \A t \in Threads : Free(t)
    => ~pending

\* "completed_bytes_cannot_be_modified": once the file is complete no late
\* packet, prefix or flush changes what it holds.
CompletedImmutable ==
    [][h.can_close => h'.disk = h.disk /\ h'.written = h.written]_vars

\* A registered callback is eventually run, unless the file failed or a later
\* registration replaced it.
CallbackSettled ==
    \A c \in Handlers :
       cb[c] = "held" ~> cb[c] \in {"ran", "dropped", "replaced"}

\* The file of a finished body is eventually complete, or failed.
FileTerminates == stage = "done" ~> (h.can_close \/ h.failed) /\ ~pending
===============================================================================
