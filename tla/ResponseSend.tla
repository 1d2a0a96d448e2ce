----------------------------- MODULE ResponseSend -----------------------------
(***************************************************************************)
(* The sending side of one stream: from the queueing of a response, or of  *)
(* the capsules of a stream session, to what quiche accepts for the stream.*)
(*                                                                         *)
(*   - a producer (middleware worker, then response worker, header         *)
(*     processor or middleware-result thread) queues headers on the high   *)
(*     priority channel of the stream; the callback of a stream session    *)
(*     may ask for a reset, and sessions queue capsules on the low one;    *)
(*   - the chunking worker reads the attached body and queues its chunks   *)
(*     on the low priority channel, unless that is occupied;               *)
(*   - the network thread pops one item at a time, hands it to quiche, and *)
(*     keeps what quiche refuses in pending_body_queue (whole items) or in *)
(*     partial_responses (the rest of a chunk).                            *)
(*                                                                         *)
(* Streams share no state here and the network thread serves one at a      *)
(* time, so one stream shows every interleaving.  quiche is external: a    *)
(* call to it accepts or refuses, as far as the callers tell the outcomes  *)
(* apart.  The bytes of a body or of the capsules are numbered.            *)
(***************************************************************************)
EXTENDS Naturals, Sequences

CONSTANTS
    Plans,       \* the responses considered, see PlanType
    NoBody,      \* attached_body_len of a header without a body
    ChunkSize,   \* bytes per chunk (8192 in the code) and per capsule
    Limit,       \* counter_limit of the low priority channel (150)
    MaxCapsules, \* bound: capsules of a stream session
    Refusals     \* the calls quiche may refuse, see Refusable

(***************************************************************************)
(* status: a 100 goes first.  mode: HeaderPriority of the final header.    *)
(* len: attached_body_len.  is_end: of the header request, which the       *)
(* producers set only where they attach no body.                           *)
(***************************************************************************)
PlanType == [status : BOOLEAN,
             mode : {"SendHeader", "SendAdditionnalHeader", "OpenStream"},
             len : Nat \cup {NoBody}, is_end : BOOLEAN]
Refusable == {"interim", "final", "open", "fin", "open_error"}

ASSUME SendAssumption ==
    /\ NoBody \notin Nat
    /\ Plans \subseteq PlanType
    /\ \A p \in Plans : p.is_end => p.len = NoBody
    /\ ChunkSize \in Nat \ {0}
    /\ Limit \in Nat \ {0}
    /\ MaxCapsules \in Nat
    /\ Refusals \subseteq Refusable

VARIABLES
    plan,        \* the response of the stream
    prod,        \* the producer
    session,     \* the sender a session holds, and the capsules it queued
    chan,        \* the stream's entry in ChunksDispatchChannel
    high, low,   \* its two channels
    counter,     \* ChunkCounter of the low one
    job,         \* the ChunkableBody of the chunking station
    taken,       \* the item the network thread has popped
    pendingQ,    \* pending_body_queue
    partial,     \* what is left of the chunk in partial_responses
    headersSend, \* headers_sending_tracker
    tracker,     \* body_sending_tracker, total = 0 when there is none
    wire,        \* what quiche accepted
    conn         \* "up"; "shut": the stream was reset; "closed" and collected

prodVars == <<plan, prod, session>>
chanVars == <<chan, high, low, counter>>
clientVars == <<pendingQ, partial, headersSend, tracker>>
vars == <<plan, prod, session, chan, high, low, counter, job, taken, pendingQ,
          partial, headersSend, tracker, wire, conn>>

-------------------------------------------------------------------------------
Items == [kind : {"none", "interim", "final", "open", "body", "capsule"},
          data : Seq(Nat)]
Item(k, d) == [kind |-> k, data |-> d]
NoItem == Item("none", <<>>)
NoJob == [phase |-> "none", read |-> 0, counted |-> FALSE]

TypeOK ==
    /\ plan \in Plans
    /\ prod \in {"status", "final", "callback", "done"}
    /\ session \in [holds : BOOLEAN, queued : 0..MaxCapsules]
    /\ chan \in [set : BOOLEAN, reset : BOOLEAN]
    /\ high \in Seq(Items) /\ low \in Seq(Items)
    /\ counter \in 0..Limit
    /\ job \in [phase : {"none", "station", "send"}, read : Nat,
                counted : BOOLEAN]
    /\ taken \in Items
    /\ pendingQ \in Seq(Items)
    /\ partial \in Seq(Nat)
    /\ headersSend \in BOOLEAN
    /\ tracker \in [written : Nat, total : Nat]
    /\ wire \in [interim : Nat, final : Nat, bytes : Seq(Nat), fin : BOOLEAN]
    /\ conn \in {"up", "shut", "closed"}

Init ==
    /\ plan \in Plans
    /\ prod = IF plan.status THEN "status" ELSE "final"
    /\ session = [holds |-> FALSE, queued |-> 0]
    /\ chan = [set |-> FALSE, reset |-> FALSE]
    /\ high = <<>> /\ low = <<>>
    /\ counter = 0
    /\ job = NoJob
    /\ taken = NoItem
    /\ pendingQ = <<>>
    /\ partial = <<>>
    /\ headersSend = FALSE
    /\ tracker = [written |-> 0, total |-> 0]
    /\ wire = [interim |-> 0, final |-> 0, bytes |-> <<>>, fin |-> FALSE]
    /\ conn = "up"

-------------------------------------------------------------------------------
(***************************************************************************)
(* The producers.                                                          *)
(***************************************************************************)
IsSession == plan.mode = "OpenStream"

\* insert_new_channel leaves an entry that is there alone.
InsertNewChannel(c) == [c EXCEPT !.set = TRUE]

\* insert_new_channel, then send_to_high_priority_queue.
QueueHeader(k) ==
    /\ chan' = InsertNewChannel(chan)
    /\ high' = Append(high, Item(k, <<>>))

\* send_reception_status_first.
SendStatusFirst ==
    /\ prod = "status"
    /\ QueueHeader("interim")
    /\ prod' = "final"
    /\ UNCHANGED <<plan, session, low, counter, job, taken, clientVars, wire,
                   conn>>

\* The final header of send_404, send_error or a route's response.
SendFinal ==
    /\ prod = "final" /\ ~IsSession
    /\ QueueHeader("final")
    /\ prod' = "done"
    /\ UNCHANGED <<plan, session, low, counter, job, taken, clientVars, wire,
                   conn>>

\* open_stream_then_call before the callback.
SendOpening ==
    /\ prod = "final" /\ IsSession
    /\ QueueHeader("open")
    /\ prod' = "callback"
    /\ UNCHANGED <<plan, session, low, counter, job, taken, clientVars, wire,
                   conn>>

\* The callback returns; for an Err, request_stream_reset, which finds no
\* entry if the opening failed and reset the stream already.
CallbackReturns(ok) ==
    /\ prod = "callback"
    /\ chan' = [chan EXCEPT !.reset = @ \/ (chan.set /\ ~ok)]
    /\ prod' = "done"
    /\ UNCHANGED <<plan, session, high, low, counter, job, taken, clientVars,
                   wire, conn>>

\* Mutant: a counter without its limit.
IncrementUnbounded == counter + 1

\* ChunkSender.send counts before it sends, and stops counting at the limit.
Increment == IF counter = Limit THEN counter ELSE counter + 1

\* send_one_or_more_message_on_stream, its get_body_sender.
ResolveSender ==
    /\ prod \in {"callback", "done"} /\ IsSession
    /\ ~session.holds /\ session.queued < MaxCapsules
    /\ chan.set
    /\ session' = [session EXCEPT !.holds = TRUE]
    /\ UNCHANGED <<plan, prod, chanVars, job, taken, clientVars, wire, conn>>

Bytes(from, n) == [i \in 1..n |-> from + i]

\* Its send.  Once the stream was reset the receivers are gone and send fails.
SendCapsule ==
    /\ session.holds
    /\ IF chan.set
       THEN /\ low' = Append(low, Item("capsule",
                                Bytes(session.queued * ChunkSize, ChunkSize)))
            /\ counter' = Increment
            /\ session' = [holds |-> FALSE, queued |-> session.queued + 1]
       ELSE /\ session' = [session EXCEPT !.holds = FALSE]
            /\ UNCHANGED <<low, counter>>
    /\ UNCHANGED <<plan, prod, chan, high, job, taken, clientVars, wire, conn>>

-------------------------------------------------------------------------------
(***************************************************************************)
(* The chunking worker.  An occupied channel puts the job back unchanged,  *)
(* which is a stuttering step here.                                        *)
(***************************************************************************)

\* Mutant: the documented sense of is_occupied.
IsOccupiedNever == FALSE

IsOccupied == Limit <= counter

\* reader.read: the next bytes of the body, at most ChunkSize.
Chunk == Bytes(job.read, IF plan.len - job.read < ChunkSize
                         THEN plan.len - job.read ELSE ChunkSize)

\* is_occupied, then the counting half of ChunkSender.send.  There is one
\* chunking worker and no session on the stream of a response: nobody raises the
\* counter between the two, which makes them one step.
ReadChunk ==
    /\ job.phase = "station" /\ ~IsOccupied
    /\ job' = [job EXCEPT !.phase = "send", !.counted = counter # Limit]
    /\ counter' = Increment
    /\ UNCHANGED <<prodVars, chan, high, low, taken, clientVars, wire, conn>>

\* The sending half; the job goes back to the station until is_end.
SendChunk ==
    /\ job.phase = "send"
    /\ IF chan.set
       THEN low' = Append(low, Item("body", Chunk)) /\ counter' = counter
       ELSE low' = low /\ counter' = IF job.counted THEN counter - 1 ELSE counter
    /\ LET n == job.read + Len(Chunk) IN
         job' = IF n = plan.len THEN NoJob
                ELSE [phase |-> "station", read |-> n, counted |-> FALSE]
    /\ UNCHANGED <<prodVars, chan, high, taken, clientVars, wire, conn>>

-------------------------------------------------------------------------------
(***************************************************************************)
(* The network thread.                                                     *)
(***************************************************************************)

\* quiche lists the stream among the writable ones.
Writable == conn = "up" /\ ~wire.fin
NetIdle == taken = NoItem
MayRefuse(call) == call \in Refusals

\* send_body of quiche: the bytes d are accepted up to the k-th, and fin only
\* with the last.
Accept(w, d, k, fin) == [w EXCEPT !.bytes = @ \o SubSeq(d, 1, k),
                                  !.fin = @ \/ (fin /\ k = Len(d))]

\* send_body of no bytes with FIN, whose Done counts as success.
Finish(w) == {Accept(w, <<>>, 0, TRUE)}
             \cup IF MayRefuse("fin") THEN {w} ELSE {}

\* set_written_to_body_sending_tracker.
Track(t, k) == IF t.total = 0 THEN t ELSE [t EXCEPT !.written = @ + k]

\* Mutant: the entry stays in the map, only its flag is taken back.
RemoveChannelFlagOnly ==
    chan' = [chan EXCEPT !.reset = FALSE] /\ UNCHANGED <<high, low, counter>>

\* remove_stream: both channels go with the entry.
RemoveChannel ==
    /\ chan' = [set |-> FALSE, reset |-> FALSE]
    /\ high' = <<>> /\ low' = <<>> /\ counter' = 0

\* reset_failed_stream.
ResetFailedStream ==
    /\ RemoveChannel
    /\ conn' = "shut"
    /\ headersSend' = FALSE /\ partial' = <<>> /\ pendingQ' = <<>>
    /\ UNCHANGED <<tracker, wire>>

\* Mutant: the reset waits for what quiche refused.
ResetDueLater == chan.set /\ chan.reset /\ pendingQ = <<>>

\* requested_stream_resets lists the stream.
ResetDue == chan.set /\ chan.reset

\* The reset pass, which opens every round over the streams.
RequestedReset ==
    /\ conn = "up" /\ NetIdle
    /\ ResetDue
    /\ ResetFailedStream
    /\ UNCHANGED <<prodVars, job, taken>>

\* Mutant: FIN whenever a partial chunk is done.
WholeSentAlways(t, k) == TRUE

\* The k bytes just accepted complete the body.
WholeSent(t, k) == t.written + k = t.total

\* handle_writable.  stream_writable asked for 512 bytes of capacity, so some
\* of the chunk is accepted.
HandleWritable ==
    /\ Writable /\ NetIdle
    /\ headersSend /\ partial # <<>>
    /\ \E k \in 1..Len(partial) :
         /\ partial' = SubSeq(partial, k + 1, Len(partial))
         /\ tracker' = Track(tracker, k)
         /\ LET w == Accept(wire, partial, k, FALSE) IN
              IF k = Len(partial) /\ WholeSent(tracker, k)
              THEN wire' \in Finish(w)
              ELSE wire' = w
    /\ UNCHANGED <<prodVars, chanVars, job, taken, pendingQ, headersSend, conn>>

\* Mutant: the low priority channel is not held back by a partial chunk.
MayPopAnyway == TRUE

\* Nothing of the stream is popped while a partial chunk waits.
MayPop == partial = <<>>

\* Mutant: a pending item does not hold back the channels.
NothingPendingIgnored == TRUE

\* is_stream_queue_empty.
NothingPending == pendingQ = <<>>

\* The next item: a pending opening, else, with nothing pending, try_pop.
Pop ==
    /\ Writable /\ NetIdle /\ MayPop
    /\ \/ /\ pendingQ # <<>> /\ Head(pendingQ).kind = "open"
          /\ taken' = Head(pendingQ)
          /\ pendingQ' = Tail(pendingQ)
          /\ UNCHANGED <<high, low>>
       \/ /\ NothingPending /\ chan.set /\ high # <<>>
          /\ taken' = Head(high)
          /\ high' = Tail(high)
          /\ UNCHANGED <<pendingQ, low>>
       \/ /\ NothingPending /\ chan.set /\ high = <<>> /\ low # <<>>
          /\ taken' = Head(low)
          /\ low' = Tail(low)
          /\ UNCHANGED <<pendingQ, high>>
    /\ UNCHANGED <<prodVars, chan, counter, job, partial, headersSend, tracker,
                   wire, conn>>

\* The item goes to pending_body_queue.
Refuse ==
    /\ pendingQ' = <<taken>> \o pendingQ
    /\ taken' = NoItem
    /\ UNCHANGED <<prodVars, chanVars, job, partial, headersSend, tracker, wire,
                   conn>>

\* HeaderPriority::SendHeader100.
SendInterim ==
    /\ taken.kind = "interim"
    /\ wire' = [wire EXCEPT !.interim = @ + 1]
    /\ taken' = NoItem
    /\ UNCHANGED <<prodVars, chanVars, job, clientVars, conn>>

InterimRefused == taken.kind = "interim" /\ MayRefuse("interim") /\ Refuse

\* Mutant: an empty attached body does not end the response.
EndOnHeadersExplicit == plan.is_end

\* response_ends_on_headers and non_empty_attached_body.
EndOnHeaders == plan.is_end \/ plan.len = 0
BodyFollows == plan.len # NoBody /\ plan.len > 0

\* HeaderPriority::SendHeader and SendAdditionnalHeader: once the header is
\* accepted its body goes to the chunking station.
SendFinalHeader ==
    /\ taken.kind = "final"
    /\ wire' = [wire EXCEPT !.final = @ + 1, !.fin = EndOnHeaders]
    /\ headersSend' = (headersSend \/ plan.mode = "SendHeader"
                                   \/ plan.len # NoBody)
    /\ tracker' = IF BodyFollows THEN [written |-> 0, total |-> plan.len]
                                 ELSE tracker
    /\ job' = IF BodyFollows
              THEN [phase |-> "station", read |-> 0, counted |-> FALSE] ELSE job
    /\ taken' = NoItem
    /\ UNCHANGED <<prodVars, chanVars, pendingQ, partial, conn>>

FinalRefused == taken.kind = "final" /\ MayRefuse("final") /\ Refuse

\* HeaderPriority::OpenStream.
SendStreamOpening ==
    /\ taken.kind = "open"
    /\ wire' = [wire EXCEPT !.final = @ + 1]
    /\ headersSend' = TRUE
    /\ taken' = NoItem
    /\ UNCHANGED <<prodVars, chanVars, job, pendingQ, partial, tracker, conn>>

OpeningRefused == taken.kind = "open" /\ MayRefuse("open") /\ Refuse

OpeningFailed ==
    /\ taken.kind = "open" /\ MayRefuse("open_error")
    /\ ResetFailedStream
    /\ taken' = NoItem
    /\ UNCHANGED <<prodVars, job>>

\* try_recv counts the item out after the receive, and never below zero.
Decrement == IF counter > 0 THEN counter - 1 ELSE counter

\* QueuedRequest::Body.  A chunk popped before the header went out would wait
\* in partial_responses.  The whole body sent, FIN follows and the queues go.
SendBodyResponse ==
    /\ taken.kind = "body"
    /\ LET data == IF headersSend THEN taken.data ELSE <<>> IN
       \E k \in 0..Len(data) :
         LET t == Track(tracker, k)
             w == Accept(wire, data, k, tracker.written = tracker.total)
         IN /\ tracker' = t
            /\ partial' = IF headersSend THEN SubSeq(data, k + 1, Len(data))
                                         ELSE taken.data
            /\ IF t.total > 0 /\ t.written = t.total
               THEN /\ wire' \in Finish(w)
                    /\ RemoveChannel
                    /\ pendingQ' = <<>>
               ELSE /\ wire' = w
                    /\ counter' = Decrement
                    /\ UNCHANGED <<chan, high, low, pendingQ>>
    /\ taken' = NoItem
    /\ UNCHANGED <<prodVars, job, headersSend, conn>>

\* QueuedRequest::StreamData.
SendStreamData ==
    /\ taken.kind = "capsule"
    /\ \E k \in 0..Len(taken.data) :
         /\ tracker' = Track(tracker, k)
         /\ partial' = SubSeq(taken.data, k + 1, Len(taken.data))
         /\ wire' = Accept(wire, taken.data, k, FALSE)
    /\ counter' = Decrement
    /\ taken' = NoItem
    /\ UNCHANGED <<prodVars, chan, high, low, job, pendingQ, headersSend, conn>>

\* The client of a closed connection is dropped; its channels stay.
CollectConnection ==
    /\ conn # "closed" /\ NetIdle
    /\ conn' = "closed"
    /\ headersSend' = FALSE /\ partial' = <<>> /\ pendingQ' = <<>>
    /\ tracker' = [written |-> 0, total |-> 0]
    /\ UNCHANGED <<prodVars, chanVars, job, taken, wire>>

-------------------------------------------------------------------------------
Producer == SendStatusFirst \/ SendFinal \/ SendOpening
Callback == \E ok \in BOOLEAN : CallbackReturns(ok)
Session == ResolveSender \/ SendCapsule
Chunking == ReadChunk \/ SendChunk
HandTaken == \/ SendInterim \/ InterimRefused \/ SendFinalHeader
             \/ FinalRefused \/ SendStreamOpening \/ OpeningRefused
             \/ OpeningFailed \/ SendBodyResponse \/ SendStreamData
Network == RequestedReset \/ HandleWritable \/ Pop \/ HandTaken

Next == Producer \/ Callback \/ Session \/ Chunking \/ Network
        \/ CollectConnection

Spec == Init /\ [][Next]_vars

(***************************************************************************)
(* The server's threads keep running; requested resets come first in each  *)
(* round of the network thread, so other items cannot starve them.         *)
(***************************************************************************)
ServerFairness ==
    /\ WF_vars(Producer) /\ WF_vars(Callback) /\ WF_vars(Chunking)
    /\ WF_vars(SendCapsule) /\ WF_vars(HandTaken) /\ SF_vars(RequestedReset)

(***************************************************************************)
(* The peer keeps granting flow control credit: the stream is writable     *)
(* again and again, and an opening retried for ever is accepted.           *)
(***************************************************************************)
PeerFairness ==
    WF_vars(HandleWritable) /\ WF_vars(Pop) /\ SF_vars(SendStreamOpening)

ServerSpec == Spec /\ ServerFairness

-------------------------------------------------------------------------------
(***************************************************************************)
(* Properties.                                                             *)
(***************************************************************************)

\* Bytes read from the body, or queued by sessions, so far.
Produced ==
    IF IsSession THEN session.queued * ChunkSize
    ELSE IF job # NoJob THEN job.read
    ELSE IF wire.final = 1 /\ BodyFollows THEN plan.len
    ELSE 0

\* No byte is lost, repeated or reordered on its way: what quiche accepted,
\* the rest of the partial chunk, the popped item and the low priority channel
\* are, one after the other, the bytes produced so far.
InOrder ==
    conn = "up" =>
       LET sent == wire.bytes \o partial \o taken.data
           n == Len(sent)
           Size(i) == Len(low[i].data)
       IN /\ sent = Bytes(0, n)
          /\ \A i \in 1..Len(low) :
                low[i].data = Bytes(n + (i - 1) * ChunkSize, Size(i))
          /\ Produced = IF low = <<>> \/ ~chan.set THEN n
                        ELSE n + (Len(low) - 1) * ChunkSize + Size(Len(low))

\* The stream is finished only with its whole body sent, and the tracker the
\* decision rests on counts exactly the bytes quiche accepted.
FinMeansWhole ==
    /\ wire.fin => /\ wire.final = 1
                   /\ BodyFollows => Len(wire.bytes) = plan.len
                   /\ ~IsSession
    /\ tracker.total > 0 => tracker.written = Len(wire.bytes)

\* The interim header, the final or opening header and the body leave in this
\* order, each header once: a refused opening keeps the capsules behind it.
HeadersFirst ==
    /\ wire.final <= 1 /\ wire.interim <= 1
    /\ wire.final = 1 /\ plan.status => wire.interim = 1
    /\ wire.bytes # <<>> \/ partial # <<>> => wire.final = 1

\* The chunking worker never has more than Limit chunks in the channel, and the
\* counter it consults counts them, although it is updated outside of the
\* channel operations.
ChannelBounded ==
    ~IsSession =>
       /\ Len(low) <= Limit
       /\ chan.set => counter = Len(low) + (IF job.phase = "send" THEN 1 ELSE 0)
                                + (IF taken.kind = "body" THEN 1 ELSE 0)

\* A stream that was reset keeps nothing to send, and late capsules or a
\* failing callback do not bring its channel back.
ResetForgets ==
    conn = "shut" => /\ ~chan.set /\ high = <<>> /\ low = <<>>
                     /\ partial = <<>> /\ pendingQ = <<>>

\* "Cancellation must remain observable even when a header or body is
\* blocked": a requested reset happens even if the peer grants no credit.
ResetHonoured == chan.reset ~> conn # "up"

\* The response is one that ends: its header says so or a body follows.
Ends == ~IsSession /\ (plan.is_end \/ plan.len # NoBody)

\* A queued response is eventually sent with its FIN, unless the connection
\* closes, while the peer keeps granting credit.
ResponseEnds ==
    PeerFairness => (prod = "done" /\ Ends ~> wire.fin \/ conn = "closed")

\* quiche refused a header, which pending_body_queue keeps but only retries if
\* it is an opening; or it refused the empty FIN, which counts as sent.
HeaderStuck == pendingQ # <<>> /\ Head(pendingQ).kind # "open"
FinSwallowed ==
    tracker.total > 0 /\ tracker.written = tracker.total /\ ~wire.fin

\* These are the only two ways to leave a queued response without its FIN:
\* full channels, partial chunks, requeued jobs and blocked streams do not.
ResponseEndsOrRefused ==
    PeerFairness => (prod = "done" /\ Ends ~> \/ wire.fin \/ conn = "closed"
                                              \/ HeaderStuck \/ FinSwallowed)

\* A queued capsule is eventually sent whole, unless the stream is reset, the
\* connection closes or the 100 before its opening was refused, while the peer
\* keeps granting credit.
CapsulesSent ==
    PeerFairness =>
       \A n \in 1..MaxCapsules :
          session.queued >= n ~> \/ Len(wire.bytes) >= n * ChunkSize
                                 \/ conn # "up" \/ HeaderStuck
===============================================================================
