------------------------ MODULE RequestLifecycleProofs ------------------------
(***************************************************************************)
(* Proofs about RequestLifecycle: its type invariant and its safety        *)
(* properties, for any number of requests, connections, workers, body      *)
(* packets and middlewares.                                                *)
(***************************************************************************)
EXTENDS RequestLifecycle, TLAPS

\* Routing found a target and every middleware returned Continue.
Accepted(r) == (RouteFound(r) \/ StreamFound(r)) /\ passed[r] = prof[r].mws

\* The response worker that consumed the Ready disposition is at work.
Preparing(r) == inj[r] \in {"prepare", "clean", "call", "respond", "callback"}

\* The network thread is cancelling the request, or storing its packet.
Cancelling(r) == net.op \in {"discard", "forget"} /\ r \in net.on
Forgetting(r) == net.op = "forget" /\ r \in net.on
Storing(r) == net.op = "write" /\ r \in net.on

\* Where the stream is, and what may exist of the request there.
StreamPart(r) ==
    /\ stream[r] = "idle" => hdr[r] = "none"
    /\ stream[r] = "open" => hdr[r] # "none" /\ signal[r] # "none"
    /\ hdr[r] = "none" => /\ signal[r] = "none" /\ ~table[r].set
                          /\ passed[r] = 0 /\ received[r] = 0
    /\ inj[r] # "none" => /\ stream[r] \in {"finished", "closed"}
                          /\ PathListed(r)
    /\ inflight[r] => /\ stream[r] = "open" \/ Forgetting(r)
                      /\ PathListed(r)
    /\ Storing(r) => stream[r] = "open" /\ table[r].set
    /\ Cancelling(r) => signal[r] = "none"

\* How far routing and middlewares are, and what they have decided.
DecisionPart(r) ==
    /\ hdr[r] \in {"none", "queued"} => passed[r] = 0
    /\ hdr[r] \in {"job", "running"} =>
          (RouteFound(r) \/ StreamFound(r)) /\ passed[r] <= prof[r].mws
    /\ hdr[r] \in {"complete", "create", "insert", "status", "signal"} =>
          Accepted(r)
    /\ hdr[r] \in {"send_404", "aborted", "panicked"} => ~Accepted(r)
    /\ sigq[r] # "none" => hdr[r] \in {"send_404", "aborted", "done"}
    /\ sigq[r] = "Ready" => hdr[r] = "done" /\ Accepted(r)
    /\ sigq[r] = "Rejected" => ~Accepted(r)
    /\ sigq[r] = "discard" => signal[r] = "none"
    /\ signal[r] = "Ready" => hdr[r] = "done" /\ Accepted(r)
    /\ signal[r] = "Rejected" =>
          ~Accepted(r) /\ hdr[r] \in {"send_404", "aborted", "done"}
    /\ Preparing(r) => hdr[r] = "done" /\ Accepted(r)
    /\ event[r].set => /\ hdr[r] = "done" /\ Accepted(r)
                       /\ inj[r] \in {"clean", "call", "respond", "callback",
                                      "done", "panicked"}

\* Who holds the signal entry and the table entry of the request.
HeldPart(r) ==
    /\ signal[r] # "none" => \/ stream[r] = "open"
                             \/ /\ stream[r] = "finished"
                                /\ inj[r] \in {"queued", "missed"}
    /\ table[r].set => \/ stream[r] = "open" \/ Cancelling(r)
                       \/ hdr[r] \in {"status", "signal"}
                       \/ sigq[r] # "none" \/ signal[r] # "none"
                       \/ inj[r] \in {"prepare", "clean", "discard"}
    /\ withdrawn[r] => /\ signal[r] = "none" /\ stream[r] # "idle"
                       /\ inj[r] \in {"none", "queued", "missed", "done"}
                       /\ ~event[r].set /\ calls[r] = 0

\* What has been queued for the peer, and how often the handler ran.
OutputPart(r) ==
    /\ ~Accepted(r) => /\ interim[r] = 0
                       /\ final[r] = IF hdr[r] = "done" THEN 1 ELSE 0
    /\ Accepted(r) => /\ interim[r] = IF hdr[r] \in {"signal", "done"}
                                      THEN 1 ELSE 0
                      /\ final[r] <= 1
                      /\ final[r] = 1 => /\ hdr[r] = "done"
                                         /\ inj[r] \in {"callback", "done",
                                                        "panicked"}
    /\ calls[r] <= 1
    /\ calls[r] = 1 => /\ event[r].set
                       /\ \/ inj[r] \in {"done", "panicked"}
                          \/ inj[r] = "respond" /\ RouteFound(r)
    /\ inj[r] \in {"call", "respond", "callback"} => event[r].set
    /\ inj[r] = "call" => RouteFound(r)
    /\ inj[r] = "callback" => StreamFound(r) /\ final[r] = 1
    /\ inj[r] = "respond" /\ RouteFound(r) => calls[r] = 1

\* Where the body packets read from the stream are.
BodyPart(r) ==
    /\ ~table[r].set => table[r] = NoEntry
    /\ hdr[r] \notin {"status", "signal", "done"} =>
          /\ table[r].mode = "memory" /\ table[r].file = 0
          /\ table[r].heard = 0
    /\ table[r].mode = "memory" => /\ table[r].file = 0 /\ table[r].heard = 0
                                   /\ table[r].size = table[r].mem
                                      \/ inj[r] = "clean"
    /\ table[r].mode = "file" => /\ table[r].heard = 0
                                 /\ table[r].size = table[r].mem + table[r].file
    /\ signal[r] # "none" /\ ~table[r].set => received[r] = 0
    /\ /\ table[r].set /\ table[r].mode # "nofile"
       /\ signal[r] # "none" \/ inj[r] = "prepare"
       => table[r].mem + table[r].file + table[r].heard
             + (IF Storing(r) THEN 1 ELSE 0) = received[r]

\* BodyDelivered, for one request.
EventPart(r) ==
    event[r].set /\ event[r].mode # "nofile" =>
       /\ event[r].mem + event[r].file + event[r].heard = received[r]
       /\ event[r].mode = "file" => /\ event[r].mem = 0
                                    /\ event[r].size = event[r].file
       /\ event[r].mode = "memory" => event[r].size = event[r].mem

RequestInv(r) == /\ StreamPart(r) /\ DecisionPart(r) /\ HeldPart(r)
                 /\ OutputPart(r) /\ BodyPart(r) /\ EventPart(r)

\* The inductive invariant.
IInv == TypeOK /\ \A r \in Requests : RequestInv(r)

-------------------------------------------------------------------------------
(***************************************************************************)
(* Types of the values that several actions build.                         *)
(***************************************************************************)

\* The default entry is an entry, and none of the entry constructors leaves
\* the type.
LEMMA EntryTypes ==
    /\ NoEntry \in EntryType
    /\ [NoEntry EXCEPT !.set = TRUE] \in EntryType
    /\ \A e \in EntryType : /\ FlushPrefix(e) \in EntryType
                            /\ StorePacket(e) \in EntryType
                            /\ AddHeaders(e) \in EntryType
                            /\ [e EXCEPT !.mem = 0] \in EntryType
                            /\ \A m \in Modes :
                                  [e EXCEPT !.headers = TRUE, !.mode = m]
                                     \in EntryType
<1> USE DEF EntryType, Modes, Storages
<1>1. NoEntry \in EntryType /\ [NoEntry EXCEPT !.set = TRUE] \in EntryType
  BY DEF NoEntry
<1>2. ASSUME NEW e \in EntryType
      PROVE  /\ FlushPrefix(e) \in EntryType /\ AddHeaders(e) \in EntryType
             /\ [e EXCEPT !.mem = 0] \in EntryType
  <2>1. e.file + e.mem \in Nat OBVIOUS
  <2>2. CASE e.mode = "file"
    BY <2>1, <2>2 DEF FlushPrefix, AddHeaders
  <2>3. CASE e.mode = "nofile" BY <2>3 DEF FlushPrefix, AddHeaders
  <2>4. CASE e.mode \notin {"file", "nofile"}
    BY <2>4 DEF FlushPrefix, AddHeaders
  <2>5. QED BY <2>2, <2>3, <2>4
<1>3. ASSUME NEW e \in EntryType PROVE StorePacket(e) \in EntryType
  <2> DEFINE f == FlushPrefix(e)
  <2>1. f \in EntryType BY <1>2
  <2>2. CASE e.mode = "memory"
    <3>1. e.mem + 1 \in Nat /\ e.size + 1 \in Nat OBVIOUS
    <3>2. QED BY <2>2, <3>1 DEF StorePacket
  <2>3. CASE e.mode = "file"
    <3>1. StorePacket(e) = [f EXCEPT !.file = @ + 1, !.size = @ + 1,
                                     !.is_end = FALSE]
      BY <2>3 DEF StorePacket
    <3> HIDE DEF f
    <3>2. f.file + 1 \in Nat /\ f.size + 1 \in Nat BY <2>1
    <3>3. QED BY <2>1, <3>1, <3>2
  <2>4. CASE e.mode = "nofile"
    <3>1. StorePacket(e) = [f EXCEPT !.is_end = FALSE]
      BY <2>4 DEF StorePacket
    <3> HIDE DEF f
    <3>2. QED BY <2>1, <3>1
  <2>5. CASE e.mode = "listener" BY <2>5 DEF StorePacket
  <2>6. QED BY <2>2, <2>3, <2>4, <2>5
<1>4. ASSUME NEW e \in EntryType, NEW m \in Modes
      PROVE  [e EXCEPT !.headers = TRUE, !.mode = m] \in EntryType
  OBVIOUS
<1>5. QED BY <1>1, <1>2, <1>3, <1>4

\* The entry a middleware worker creates is an entry.
LEMMA WorkerEntryType ==
    ASSUME NEW r, NEW m \in Modes, prof[r].more \in BOOLEAN
    PROVE  WorkerEntry(r, m) \in EntryType
BY DEF WorkerEntry, NoEntry, EntryType

-------------------------------------------------------------------------------
\* Type correctness: every step of every thread keeps the variables in their
\* types.
LEMMA TypeStep == TypeOK /\ [Next]_vars => TypeOK'
<1> SUFFICES ASSUME TypeOK, [Next]_vars PROVE TypeOK'
  OBVIOUS
<1> USE DEF TypeOK, Streams, Signals, HdrPhases, SigqPhases, InjPhases,
            NetType, NetIdle, netVars, hdrVars, injVars, outVars
<1>1. ASSUME NEW r \in Requests, Headers(r) PROVE TypeOK'
  BY <1>1 DEF Headers, PathListed
<1>2. ASSUME NEW r \in Requests, MalformedHeaders(r) PROVE TypeOK'
  BY <1>2 DEF MalformedHeaders, CancelSignal
<1>3. ASSUME NEW r \in Requests, DataEnsure(r) PROVE TypeOK'
  <2>1. table' \in [Requests -> EntryType]
    BY <1>3, EntryTypes DEF DataEnsure
  <2>2. received' \in [Requests -> Nat] /\ net' \in NetType
    BY <1>3 DEF DataEnsure
  <2>3. QED BY <1>3, <2>1, <2>2 DEF DataEnsure
<1>4. ASSUME NEW r \in Requests, FinishedListed(r) PROVE TypeOK'
  BY <1>4 DEF FinishedListed
<1>5. ASSUME NEW r \in Requests, FinishedUnlisted(r) PROVE TypeOK'
  BY <1>5 DEF FinishedUnlisted, CancelSignal
<1>6. ASSUME NEW r \in Requests, Reset(r) PROVE TypeOK'
  BY <1>6 DEF Reset, CancelSignal
<1>7. ASSUME NEW r \in Requests, RouteHeader(r) PROVE TypeOK'
  BY <1>7 DEF RouteHeader
<1>8. ASSUME NEW r \in Requests, RejectHeader(r) PROVE TypeOK'
  BY <1>8 DEF RejectHeader
<1>9. ASSUME NEW r \in Requests, Send404(r) PROVE TypeOK'
  BY <1>9 DEF Send404
<1>10. ASSUME NEW r \in Requests, TakeJob(r) PROVE TypeOK'
  BY <1>10 DEF TakeJob
<1>11. ASSUME NEW r \in Requests, MiddlewareContinue(r) PROVE TypeOK'
  BY <1>11 DEF MiddlewareContinue
<1>12. ASSUME NEW r \in Requests, MiddlewareAbort(r) PROVE TypeOK'
  BY <1>12 DEF MiddlewareAbort
<1>13. ASSUME NEW r \in Requests, SendError(r) PROVE TypeOK'
  BY <1>13 DEF SendError
<1>14. ASSUME NEW r \in Requests, CheckTable(r) PROVE TypeOK'
  BY <1>14 DEF CheckTable
<1>15. ASSUME NEW r \in Requests, CompleteEntry(r) PROVE TypeOK'
  <2>1. PICK m \in OpenedModes(r) :
           table' = [table EXCEPT ![r] = IF @.set THEN [@ EXCEPT !.headers = TRUE, !.mode = m] ELSE @]
    BY <1>15 DEF CompleteEntry
  <2>2. m \in Modes
    BY <1>15, ConstantsAssumption DEF OpenedModes, Configured, Modes, ProfileType, Storages
  <2>3. table' \in [Requests -> EntryType]
    BY <2>1, <2>2, EntryTypes
  <2>4. QED BY <1>15, <2>3 DEF CompleteEntry
<1>16. ASSUME NEW r \in Requests, CreateCheck(r) PROVE TypeOK'
  BY <1>16, EntryTypes DEF CreateCheck
<1>17. ASSUME NEW r \in Requests, InsertEntry(r) PROVE TypeOK'
  <2>1. PICK m \in OpenedModes(r) :
           table' = [table EXCEPT ![r] = IF @.set THEN AddHeaders(@) ELSE WorkerEntry(r, m)]
    BY <1>17 DEF InsertEntry
  <2>2. m \in Modes
    BY <1>17, ConstantsAssumption DEF OpenedModes, Configured, Modes, ProfileType, Storages
  <2>3. WorkerEntry(r, m) \in EntryType
    BY <2>2, WorkerEntryType, ConstantsAssumption DEF ProfileType
  <2>4. table' \in [Requests -> EntryType]
    BY <2>1, <2>3, EntryTypes
  <2>5. QED BY <1>17, <2>4 DEF InsertEntry
<1>18. ASSUME NEW r \in Requests, SendStatus(r) PROVE TypeOK'
  BY <1>18 DEF SendStatus
<1>19. ASSUME NEW r \in Requests, SendSignal(r) PROVE TypeOK'
  BY <1>19 DEF SendSignal
<1>20. ASSUME NEW r \in Requests, RecordSignal(r) PROVE TypeOK'
  BY <1>20 DEF RecordSignal, HasSignal
<1>21. ASSUME NEW r \in Requests, LateSignal(r) PROVE TypeOK'
  BY <1>21 DEF LateSignal, HasSignal
<1>22. ASSUME NEW r \in Requests, DiscardLate(r) PROVE TypeOK'
  BY <1>22, EntryTypes DEF DiscardLate, DiscardEntries
<1>23. ASSUME NEW r \in Requests, Register(r) PROVE TypeOK'
  BY <1>23 DEF Register, RegisterOutcome
<1>24. ASSUME NEW r \in Requests, Requeue(r) PROVE TypeOK'
  BY <1>24 DEF Requeue
<1>25. ASSUME NEW r \in Requests, DiscardRejected(r) PROVE TypeOK'
  BY <1>25, EntryTypes DEF DiscardRejected, DiscardEntries
<1>26. ASSUME NEW r \in Requests, BuildEvent(r) PROVE TypeOK'
  <2> DEFINE e == FlushPrefix(table[r])
  <2>1. e \in EntryType /\ [e EXCEPT !.mem = 0] \in EntryType
    BY EntryTypes
  <2>2. \/ /\ event' = [event EXCEPT ![r] = e]
           /\ table' = [table EXCEPT ![r] = [e EXCEPT !.mem = 0]]
        \/ UNCHANGED <<event, table>>
    BY <1>26 DEF BuildEvent
  <2> DEFINE f == [e EXCEPT !.mem = 0]
  <2> HIDE DEF e, f
  <2>3. event' \in [Requests -> EntryType]
    BY <2>1, <2>2
  <2>4. table' \in [Requests -> EntryType]
    <3>1. f \in EntryType BY <2>1 DEF f
    <3>2. table' = [table EXCEPT ![r] = f] \/ table' = table BY <2>2 DEF f
    <3>3. QED BY <3>1, <3>2
  <2>5. QED BY <1>26, <2>3, <2>4 DEF BuildEvent
<1>27. ASSUME NEW r \in Requests, CleanEntry(r) PROVE TypeOK'
  BY <1>27, EntryTypes DEF CleanEntry, DiscardEntries
<1>28. ASSUME NEW r \in Requests, CallHandler(r) PROVE TypeOK'
  BY <1>28 DEF CallHandler
<1>29. ASSUME NEW r \in Requests, QueueResponse(r) PROVE TypeOK'
  BY <1>29 DEF QueueResponse, EntryType
<1>30. ASSUME NEW r \in Requests, QueueOpening(r) PROVE TypeOK'
  BY <1>30 DEF QueueOpening
<1>31. ASSUME NEW r \in Requests, CallStream(r) PROVE TypeOK'
  BY <1>31 DEF CallStream
<1>32. CASE \E c \in Conns : CloseConnection(c)
  BY <1>32 DEF CloseConnection, CancelSignal
<1>33. CASE DataWrite
  BY <1>33, EntryTypes DEF DataWrite
<1>34. CASE FinishCancel
  BY <1>34, EntryTypes DEF FinishCancel, DiscardEntries
<1>35. CASE UNCHANGED vars
  BY <1>35 DEF vars
<1>36. ASSUME NEW r \in Requests, MiddlewarePanic(r) PROVE TypeOK'
  BY <1>36 DEF MiddlewarePanic
<1>37. ASSUME NEW r \in Requests, HandlerPanic(r) PROVE TypeOK'
  BY <1>37 DEF HandlerPanic
<1>38. QED
  BY <1>1, <1>2, <1>3, <1>4, <1>5, <1>6, <1>7, <1>8, <1>9, <1>10,
     <1>11, <1>12, <1>13, <1>14, <1>15, <1>16, <1>17, <1>18, <1>19,
     <1>20, <1>21, <1>22, <1>23, <1>24, <1>25, <1>26, <1>27, <1>28,
     <1>29, <1>30, <1>31, <1>32, <1>33, <1>34, <1>35, <1>36, <1>37
     DEF Next, ClientEvent, NetworkRest, HeaderProcessor, MiddlewareWorker,
         ResultThread, SignalReceiver, ResponseWorker

\* The initial state is well typed.
LEMMA InitType == Init => TypeOK
<1> SUFFICES ASSUME Init PROVE TypeOK
  OBVIOUS
<1>1. net \in NetType
  BY DEF Init, NetIdle, NetType
<1>2. table \in [Requests -> EntryType] /\ event \in [Requests -> EntryType]
  BY EntryTypes DEF Init
<1>3. QED BY <1>1, <1>2 DEF Init, TypeOK, Streams, Signals, HdrPhases,
                            SigqPhases, InjPhases

\* Every reachable state is well typed.
THEOREM TypeCorrect == Spec => []TypeOK
BY InitType, TypeStep, PTL DEF Spec

-------------------------------------------------------------------------------
(***************************************************************************)
(* The inductive step.                                                     *)
(***************************************************************************)

\* Everything RequestInv says of a request but what the network thread is
\* doing to it.
Local(r) == <<prof[r], stream[r], received[r], inflight[r], signal[r], table[r],
              hdr[r], passed[r], sigq[r], inj[r], event[r], calls[r],
              interim[r], final[r], withdrawn[r]>>

\* A step that leaves a request alone keeps its invariant.
LEMMA Untouched ==
    ASSUME NEW r, RequestInv(r), Local(r)' = Local(r),
           Storing(r)' <=> Storing(r), Cancelling(r)' <=> Cancelling(r),
           Forgetting(r)' <=> Forgetting(r)
    PROVE  RequestInv(r)'
<1> USE DEF Local, RouteFound, StreamFound, PathListed
<1>1. StreamPart(r)' BY DEF RequestInv, StreamPart
<1>2. DecisionPart(r)' BY DEF RequestInv, DecisionPart, Accepted, Preparing
<1>3. HeldPart(r)' BY DEF RequestInv, HeldPart
<1>4. OutputPart(r)' BY DEF RequestInv, OutputPart, Accepted
<1>5. BodyPart(r)' BY DEF RequestInv, BodyPart
<1>6. EventPart(r)' BY DEF RequestInv, EventPart
<1>7. QED BY <1>1, <1>2, <1>3, <1>4, <1>5, <1>6 DEF RequestInv

\* No handler ran for a request that no response worker has taken.
LEMMA NotCalled ==
    ASSUME TypeOK, NEW q \in Requests, RequestInv(q), inj[q] = "none"
    PROVE  ~event[q].set /\ calls[q] = 0
<1>1. ~event[q].set
  BY DEF RequestInv, DecisionPart
<1>2. calls[q] # 1
  BY <1>1 DEF RequestInv, OutputPart
<1>3. calls[q] \in Nat /\ calls[q] <= 1
  BY DEF TypeOK, RequestInv, OutputPart
<1>4. QED BY <1>1, <1>2, <1>3

\* What flush_and_prefix_with_temp_buffer_if_any_bytes does to an entry: file
\* storage takes the buffered packets, memory and listener keep theirs.
LEMMA Flushed ==
    ASSUME NEW f \in EntryType
    PROVE  LET e == FlushPrefix(f)
           IN  /\ e \in EntryType /\ e.set = f.set /\ e.mode = f.mode
               /\ e.heard = f.heard /\ e.size = f.size
               /\ e.mode = "file" => e.mem = 0 /\ e.file = f.file + f.mem
               /\ e.mode \in {"memory", "listener"} => e = f
<1>1. CASE f.mode = "file"
  BY <1>1, EntryTypes DEF FlushPrefix, EntryType
<1>2. CASE f.mode = "nofile"
  BY <1>2, EntryTypes DEF FlushPrefix, EntryType
<1>3. CASE f.mode \notin {"file", "nofile"}
  BY <1>3, EntryTypes DEF FlushPrefix
<1>4. QED BY <1>1, <1>2, <1>3

\* What write_body_packet does to an entry: one more packet is accounted for,
\* and the announced size follows in memory and in file storage.
LEMMA Stored ==
    ASSUME NEW f \in EntryType
    PROVE  LET g == StorePacket(f)
           IN  /\ g.set = f.set /\ g.mode = f.mode
               /\ g.mode = "memory" =>
                     /\ g.mem = f.mem + 1 /\ g.size = f.size + 1
                     /\ g.file = f.file /\ g.heard = f.heard
               /\ g.mode = "file" =>
                     /\ g.mem = 0 /\ g.file = f.file + f.mem + 1
                     /\ g.size = f.size + 1 /\ g.heard = f.heard
               /\ g.mode = "listener" =>
                     /\ g.mem = f.mem /\ g.file = f.file
                     /\ g.heard = f.heard + 1
<1> DEFINE e == FlushPrefix(f)
<1>1. /\ e \in EntryType /\ e.set = f.set /\ e.mode = f.mode
      /\ e.heard = f.heard /\ e.size = f.size
      /\ e.mode = "file" => e.mem = 0 /\ e.file = f.file + f.mem
  BY Flushed
<1>2. CASE f.mode = "memory" BY <1>2 DEF StorePacket, EntryType
<1>3. CASE f.mode = "file"
  <2>1. StorePacket(f) = [e EXCEPT !.file = @ + 1, !.size = @ + 1,
                                   !.is_end = FALSE]
    BY <1>3 DEF StorePacket
  <2> HIDE DEF e
  <2>2. QED BY <1>1, <1>3, <2>1 DEF EntryType
<1>4. CASE f.mode = "nofile"
  <2>1. StorePacket(f) = [e EXCEPT !.is_end = FALSE]
    BY <1>4 DEF StorePacket
  <2> HIDE DEF e
  <2>2. QED BY <1>1, <1>4, <2>1 DEF EntryType
<1>5. CASE f.mode = "listener" BY <1>5 DEF StorePacket, EntryType
<1>6. QED BY <1>2, <1>3, <1>4, <1>5 DEF EntryType, Modes, Storages

\* The inductive step, thread by thread.  An event of the peer keeps the
\* invariant of its request.
LEMMA ClientEventStep ==
    ASSUME IInv, NEW q \in Requests, ClientEvent(q)
    PROVE  RequestInv(q)'
<1>0. TypeOK /\ RequestInv(q)
  BY DEF IInv
<1> USE DEF TypeOK, netVars, hdrVars, injVars, outVars, RequestInv, StreamPart,
            DecisionPart, HeldPart, OutputPart, BodyPart, EventPart, Accepted,
            Preparing, Storing, Cancelling, Forgetting, RouteFound,
            StreamFound, PathListed, NetIdle, NetType, NoEntry, Signals,
            Streams, InjPhases, SigqPhases, HdrPhases
<1>1. ASSUME Headers(q) PROVE RequestInv(q)'
  BY <1>0, <1>1, SMTT(20) DEF Headers
<1>2. ASSUME MalformedHeaders(q) PROVE RequestInv(q)'
  <2>1. signal'[q] = "none" /\ stream'[q] = "shut" /\ inj[q] = "none"
    BY <1>0, <1>2 DEF MalformedHeaders, CancelSignal
  <2>2. ~event[q].set /\ calls[q] = 0
    BY <1>0, <2>1, NotCalled
  <2>3. withdrawn'[q] => withdrawn[q] \/ signal[q] # "none"
    BY <1>0, <1>2 DEF MalformedHeaders, CancelSignal
  <2>4. HeldPart(q)'
    BY <1>0, <1>2, <2>1, <2>2, <2>3 DEF MalformedHeaders
  <2>5. QED BY <1>0, <1>2, <2>1, <2>2, <2>4 DEF MalformedHeaders
<1>3. ASSUME DataEnsure(q) PROVE RequestInv(q)'
  <2>1. /\ table'[q] = IF table[q].set THEN table[q]
                       ELSE [NoEntry EXCEPT !.set = TRUE]
        /\ received'[q] = received[q] + 1
        /\ Storing(q)' /\ ~Storing(q) /\ ~Cancelling(q)'
    BY <1>0, <1>3 DEF DataEnsure
  <2>2. BodyPart(q)'
    BY <1>0, <1>3, <2>1 DEF DataEnsure, EntryType
  <2>3. QED BY <1>0, <1>3, <2>2 DEF DataEnsure
<1>4. ASSUME FinishedListed(q) PROVE RequestInv(q)'
  BY <1>0, <1>4, SMTT(20) DEF FinishedListed
<1>5. ASSUME FinishedUnlisted(q) PROVE RequestInv(q)'
  <2>1. /\ signal'[q] = "none" /\ inj[q] = "none"
        /\ stream'[q] \in {"finished", "cancelled"}
    BY <1>0, <1>5 DEF FinishedUnlisted, CancelSignal
  <2>2. ~event[q].set /\ calls[q] = 0
    BY <1>0, <2>1, NotCalled
  <2>3. withdrawn'[q] => withdrawn[q] \/ signal[q] # "none"
    BY <1>0, <1>5 DEF FinishedUnlisted, CancelSignal
  <2>4. HeldPart(q)'
    BY <1>0, <1>5, <2>1, <2>2, <2>3 DEF FinishedUnlisted
  <2>5. QED BY <1>0, <1>5, <2>1, <2>2, <2>4 DEF FinishedUnlisted
<1>6. ASSUME Reset(q) PROVE RequestInv(q)'
  <2>1. signal'[q] = "none" /\ stream'[q] = "cancelled" /\ inj[q] = "none"
    BY <1>0, <1>6 DEF Reset, CancelSignal
  <2>2. ~event[q].set /\ calls[q] = 0
    BY <1>0, <2>1, NotCalled
  <2>3. withdrawn'[q] => withdrawn[q] \/ signal[q] # "none"
    BY <1>0, <1>6 DEF Reset, CancelSignal
  <2>4. HeldPart(q)'
    BY <1>0, <1>6, <2>1, <2>2, <2>3 DEF Reset
  <2>5. QED BY <1>0, <1>6, <2>1, <2>2, <2>4 DEF Reset
<1>7. QED
  BY <1>1, <1>2, <1>3, <1>4, <1>5, <1>6 DEF ClientEvent

\* The header processor, the middleware workers and the middleware-result
\* thread keep the invariant of the request they work for.
LEMMA MiddlewareStep ==
    ASSUME IInv, NEW q \in Requests, HeaderProcessor(q) \/ MiddlewareWorker(q)
                                   \/ ResultThread(q)
    PROVE  RequestInv(q)'
<1>0. TypeOK /\ RequestInv(q)
  BY DEF IInv
<1> USE DEF TypeOK, netVars, hdrVars, injVars, outVars, RequestInv, StreamPart,
            DecisionPart, HeldPart, OutputPart, BodyPart, EventPart, Accepted,
            Preparing, Storing, Cancelling, Forgetting, RouteFound,
            StreamFound, PathListed, NetIdle, NetType, NoEntry, Signals,
            Streams, InjPhases, SigqPhases, HdrPhases
<1>1. ASSUME RouteHeader(q) PROVE RequestInv(q)'
  BY <1>0, <1>1, ConstantsAssumption, SMTT(20) DEF RouteHeader, ProfileType
<1>2. ASSUME RejectHeader(q) PROVE RequestInv(q)'
  BY <1>0, <1>2, SMTT(20) DEF RejectHeader
<1>3. ASSUME Send404(q) PROVE RequestInv(q)'
  BY <1>0, <1>3, SMTT(20) DEF Send404
<1>4. ASSUME TakeJob(q) PROVE RequestInv(q)'
  BY <1>0, <1>4, SMTT(20) DEF TakeJob
<1>5. ASSUME MiddlewareContinue(q) PROVE RequestInv(q)'
  BY <1>0, <1>5, ConstantsAssumption, SMTT(20) DEF MiddlewareContinue,
     ProfileType
<1>6. ASSUME MiddlewareAbort(q) PROVE RequestInv(q)'
  BY <1>0, <1>6, ConstantsAssumption, SMTT(20) DEF MiddlewareAbort,
     ProfileType
<1>7. ASSUME SendError(q) PROVE RequestInv(q)'
  BY <1>0, <1>7, SMTT(20) DEF SendError
<1>8. ASSUME CheckTable(q) PROVE RequestInv(q)'
  BY <1>0, <1>8, ConstantsAssumption, SMTT(20) DEF CheckTable, ProfileType
<1>9. ASSUME CompleteEntry(q) PROVE RequestInv(q)'
  <2>1. PICK m \in OpenedModes(q) :
           table' = [table EXCEPT ![q] =
                       IF @.set THEN [@ EXCEPT !.headers = TRUE, !.mode = m]
                                ELSE @]
    BY <1>9 DEF CompleteEntry
  <2>2. BodyPart(q)'
    <3>1. CASE table[q].set
      BY <1>0, <1>9, <2>1, <3>1 DEF CompleteEntry, EntryType
    <3>2. CASE ~table[q].set
      BY <1>0, <1>9, <2>1, <3>2 DEF CompleteEntry
    <3>3. QED BY <3>1, <3>2
  <2>3. QED BY <1>0, <1>9, <2>1, <2>2 DEF CompleteEntry
<1>10. ASSUME CreateCheck(q) PROVE RequestInv(q)'
  <2>1. CASE table[q].set
    <3>1. table'[q] = [table[q] EXCEPT !.headers = TRUE]
      BY <1>0, <1>10, <2>1 DEF CreateCheck, AddHeaders
    <3>2. /\ table'[q].set /\ table'[q].mode = table[q].mode
          /\ table'[q].size = table[q].size /\ table'[q].mem = table[q].mem
          /\ table'[q].file = table[q].file /\ table'[q].heard = table[q].heard
      BY <1>0, <2>1, <3>1 DEF EntryType
    <3>3. BodyPart(q)'
      BY <1>0, <1>10, <2>1, <3>2 DEF CreateCheck
    <3>4. QED BY <1>0, <1>10, <2>1, <3>2, <3>3 DEF CreateCheck
  <2>2. CASE ~table[q].set
    BY <1>0, <1>10, <2>2 DEF CreateCheck
  <2>3. QED BY <2>1, <2>2
<1>11. ASSUME InsertEntry(q) PROVE RequestInv(q)'
  BY <1>0, <1>11, SMTT(20) DEF InsertEntry, AddHeaders, WorkerEntry
<1>12. ASSUME SendStatus(q) PROVE RequestInv(q)'
  BY <1>0, <1>12, SMTT(20) DEF SendStatus
<1>13. ASSUME SendSignal(q) PROVE RequestInv(q)'
  BY <1>0, <1>13, SMTT(20) DEF SendSignal
<1>14. ASSUME MiddlewarePanic(q) PROVE RequestInv(q)'
  BY <1>0, <1>14, ConstantsAssumption, SMTT(20) DEF MiddlewarePanic,
     ProfileType
<1>15. QED
  BY <1>1, <1>2, <1>3, <1>4, <1>5, <1>6, <1>7, <1>8, <1>9, <1>10, <1>11,
     <1>12, <1>13, <1>14 DEF HeaderProcessor, MiddlewareWorker, ResultThread

\* The signal receiver and the response workers keep the invariant of the
\* request they work for.
LEMMA ResponseStep ==
    ASSUME IInv, NEW q \in Requests, SignalReceiver(q) \/ ResponseWorker(q)
    PROVE  RequestInv(q)'
<1>0. TypeOK /\ RequestInv(q)
  BY DEF IInv
<1> USE DEF TypeOK, netVars, hdrVars, injVars, outVars, RequestInv, StreamPart,
            DecisionPart, HeldPart, OutputPart, BodyPart, EventPart, Accepted,
            Preparing, Storing, Cancelling, Forgetting, RouteFound,
            StreamFound, PathListed, NetIdle, NetType, NoEntry, Signals,
            Streams, InjPhases, SigqPhases, HdrPhases
<1>1. ASSUME RecordSignal(q) PROVE RequestInv(q)'
  BY <1>0, <1>1, SMTT(20) DEF RecordSignal, HasSignal
<1>2. ASSUME LateSignal(q) PROVE RequestInv(q)'
  BY <1>0, <1>2, SMTT(20) DEF LateSignal, HasSignal
<1>3. ASSUME DiscardLate(q) PROVE RequestInv(q)'
  BY <1>0, <1>3, SMTT(20) DEF DiscardLate, DiscardEntries
<1>4. ASSUME Register(q) PROVE RequestInv(q)'
  BY <1>0, <1>4, SMTT(20) DEF Register, RegisterOutcome
<1>5. ASSUME Requeue(q) PROVE RequestInv(q)'
  BY <1>0, <1>5, SMTT(20) DEF Requeue
<1>6. ASSUME DiscardRejected(q) PROVE RequestInv(q)'
  BY <1>0, <1>6, SMTT(20) DEF DiscardRejected, DiscardEntries
<1>7. ASSUME BuildEvent(q) PROVE RequestInv(q)'
  <2>1. CASE ~(table[q].set /\ table[q].headers)
    BY <1>0, <1>7, <2>1 DEF BuildEvent
  <2>2. CASE table[q].set /\ table[q].headers
    <3> DEFINE e == FlushPrefix(table[q])
    <3>1. /\ event'[q] = e /\ table'[q] = [e EXCEPT !.mem = 0]
          /\ inj'[q] = "clean"
      BY <1>0, <1>7, <2>2 DEF BuildEvent
    <3>2. /\ e \in EntryType /\ e.set /\ e.mode = table[q].mode
          /\ e.heard = table[q].heard /\ e.size = table[q].size
          /\ e.mode = "file" =>
                e.mem = 0 /\ e.file = table[q].file + table[q].mem
          /\ e.mode \in {"memory", "listener"} => e = table[q]
      BY <1>0, <2>2, Flushed
    <3> HIDE DEF e
    <3>3. /\ table'[q].set /\ table'[q].mode = e.mode /\ table'[q].mem = 0
          /\ table'[q].file = e.file /\ table'[q].heard = e.heard
          /\ table'[q].size = e.size
      BY <3>1, <3>2 DEF EntryType
    <3>4. EventPart(q)'
      BY <1>0, <1>7, <2>2, <3>1, <3>2
         DEF BuildEvent, EntryType, Modes, Storages
    <3>5. BodyPart(q)'
      BY <1>0, <1>7, <2>2, <3>1, <3>2, <3>3 DEF BuildEvent, EntryType
    <3>6. StreamPart(q)' /\ HeldPart(q)' /\ OutputPart(q)' /\ DecisionPart(q)'
      BY <1>0, <1>7, <2>2, <3>1, <3>2, <3>3 DEF BuildEvent
    <3>7. QED BY <3>4, <3>5, <3>6
  <2>3. QED BY <2>1, <2>2
<1>8. ASSUME CleanEntry(q) PROVE RequestInv(q)'
  BY <1>0, <1>8, SMTT(20) DEF CleanEntry, DiscardEntries
<1>9. ASSUME CallHandler(q) PROVE RequestInv(q)'
  <2>1. inj[q] = "call" /\ RouteFound(q) /\ event[q].set
    BY <1>0, <1>9 DEF CallHandler
  <2>2. final[q] = 0 /\ calls[q] = 0
    BY <1>0, <2>1
  <2>3. calls'[q] = 1 /\ inj'[q] = "respond"
    BY <1>0, <1>9, <2>2 DEF CallHandler
  <2>4. OutputPart(q)'
    BY <1>0, <1>9, <2>1, <2>2, <2>3 DEF CallHandler
  <2>5. QED BY <1>0, <1>9, <2>1, <2>3, <2>4 DEF CallHandler
<1>10. ASSUME QueueResponse(q) PROVE RequestInv(q)'
  BY <1>0, <1>10, SMTT(20) DEF QueueResponse
<1>11. ASSUME QueueOpening(q) PROVE RequestInv(q)'
  <2>1. ~RouteFound(q) /\ inj[q] = "respond" /\ event[q].set
    BY <1>0, <1>11 DEF QueueOpening
  <2>2. final[q] = 0 /\ calls[q] = 0
    BY <1>0, <2>1
  <2>3. final'[q] = 1 /\ inj'[q] = "callback"
    BY <1>0, <1>11, <2>2 DEF QueueOpening
  <2>4. OutputPart(q)'
    BY <1>0, <1>11, <2>1, <2>2, <2>3 DEF QueueOpening
  <2>5. QED BY <1>0, <1>11, <2>1, <2>3, <2>4 DEF QueueOpening
<1>12. ASSUME CallStream(q) PROVE RequestInv(q)'
  BY <1>0, <1>12, SMTT(20) DEF CallStream
<1>13. ASSUME HandlerPanic(q) PROVE RequestInv(q)'
  BY <1>0, <1>13, SMTT(20) DEF HandlerPanic
<1>14. QED
  BY <1>1, <1>2, <1>3, <1>4, <1>5, <1>6, <1>7, <1>8, <1>9, <1>10, <1>11, <1>12,
     <1>13 DEF SignalReceiver, ResponseWorker

\* The step of a request is not noticed by the others.
LEMMA OthersStep ==
    ASSUME IInv, NEW q \in Requests, NEW r \in Requests \ {q},
           \/ ClientEvent(q) \/ HeaderProcessor(q) \/ MiddlewareWorker(q)
           \/ ResultThread(q) \/ SignalReceiver(q) \/ ResponseWorker(q)
    PROVE  RequestInv(r)'
<1>1. RequestInv(r)
  BY DEF IInv
<1> USE DEF IInv, TypeOK, Local, Storing, Cancelling, Forgetting, netVars,
            hdrVars, injVars, outVars
<1>2. CASE ClientEvent(q)
  BY <1>1, <1>2, Untouched
     DEF ClientEvent, Headers, MalformedHeaders, DataEnsure, FinishedListed,
         FinishedUnlisted, Reset, CancelSignal, NetIdle, NetType
<1>3. CASE HeaderProcessor(q) \/ MiddlewareWorker(q) \/ ResultThread(q)
  BY <1>1, <1>3, Untouched
     DEF HeaderProcessor, RouteHeader, RejectHeader, Send404,
         MiddlewareWorker, TakeJob, MiddlewareContinue, MiddlewareAbort,
         CheckTable, CompleteEntry, CreateCheck, InsertEntry, SendStatus,
         SendSignal, MiddlewarePanic, ResultThread, SendError
<1>4. CASE SignalReceiver(q) \/ ResponseWorker(q)
  BY <1>1, <1>4, Untouched
     DEF SignalReceiver, RecordSignal, LateSignal, DiscardLate,
         ResponseWorker, Register, Requeue, DiscardRejected, BuildEvent,
         CleanEntry, CallHandler, QueueResponse, QueueOpening, CallStream,
         HandlerPanic, DiscardEntries
<1>5. QED BY <1>2, <1>3, <1>4

\* The steps of the network thread that concern several requests at once, or
\* the request it is holding.
LEMMA NetworkStep ==
    ASSUME IInv, NetworkRest \/ \E c \in Conns : CloseConnection(c),
           NEW q \in Requests
    PROVE  RequestInv(q)'
<1>0. TypeOK /\ RequestInv(q)
  BY DEF IInv
<1> USE DEF TypeOK, netVars, hdrVars, injVars, outVars, Storing, Cancelling,
            Forgetting, NetIdle, NetType
<1>1. CASE DataWrite
  <2>1. CASE q \in net.on /\ table[q].set
    <3> DEFINE g == StorePacket(table[q])
    <3>1. /\ g.set /\ g.mode = table[q].mode
          /\ g.mode = "memory" =>
                /\ g.mem = table[q].mem + 1 /\ g.size = table[q].size + 1
                /\ g.file = table[q].file /\ g.heard = table[q].heard
          /\ g.mode = "file" =>
                /\ g.mem = 0 /\ g.file = table[q].file + table[q].mem + 1
                /\ g.size = table[q].size + 1 /\ g.heard = table[q].heard
          /\ g.mode = "listener" =>
                /\ g.mem = table[q].mem /\ g.file = table[q].file
                /\ g.heard = table[q].heard + 1
      BY <1>0, <2>1, Stored
    <3> HIDE DEF g
    <3>2. /\ table'[q] = g /\ Storing(q) /\ ~Storing(q)'
          /\ ~Cancelling(q) /\ ~Cancelling(q)'
      BY <1>0, <1>1, <2>1 DEF DataWrite, g
    <3>3. table[q] \in EntryType /\ received[q] \in Nat
      BY <1>0
    <3>4. BodyPart(q)'
      <4> USE DEF DataWrite, RequestInv, BodyPart, EntryType
      <4>1. /\ table[q].mode # "nofile"
            /\ signal[q] # "none" \/ inj[q] = "prepare"
            => table[q].mem + table[q].file + table[q].heard + 1 = received[q]
        BY <1>0, <2>1, <3>2
      <4>2. CASE table[q].mode = "memory"
        BY <1>0, <1>1, <2>1, <3>1, <3>2, <3>3, <4>1, <4>2
      <4>3. CASE table[q].mode = "file"
        BY <1>0, <1>1, <2>1, <3>1, <3>2, <3>3, <4>1, <4>3
      <4>4. CASE table[q].mode = "listener"
        <5>1. g.mem + g.file + g.heard =
                 table[q].mem + table[q].file + table[q].heard + 1
          BY <3>1, <3>3, <4>4
        <5>2. g.set /\ g.mode = "listener"
          BY <3>1, <4>4
        <5>3. QED BY <1>0, <1>1, <2>1, <3>2, <4>1, <4>4, <5>1, <5>2
      <4>5. CASE table[q].mode = "nofile"
        BY <1>0, <1>1, <2>1, <3>1, <3>2, <3>3, <4>5
      <4>6. QED BY <3>3, <4>2, <4>3, <4>4, <4>5 DEF Modes, Storages
    <3>5. StreamPart(q)' /\ DecisionPart(q)' /\ HeldPart(q)' /\ OutputPart(q)'
          /\ EventPart(q)'
      BY <1>0, <1>1, <2>1, <3>1, <3>2
         DEF DataWrite, RequestInv, StreamPart, DecisionPart, HeldPart,
             OutputPart, EventPart, Accepted, Preparing, RouteFound,
             StreamFound, PathListed
    <3>6. QED BY <3>4, <3>5 DEF RequestInv
  <2>2. CASE q \notin net.on
    BY <1>0, <1>1, <2>2, Untouched DEF DataWrite, Local
  <2>3. CASE q \in net.on /\ ~table[q].set
    BY <1>0, <1>1, <2>3 DEF DataWrite, RequestInv, StreamPart
  <2>4. QED BY <2>1, <2>2, <2>3
<1>2. CASE FinishCancel
  <2>1. CASE q \in net.on
    <3>1. /\ table'[q] = NoEntry /\ ~Storing(q) /\ ~Storing(q)'
          /\ Cancelling(q) /\ ~Cancelling(q)' /\ ~Forgetting(q)'
      BY <1>0, <1>2, <2>1 DEF FinishCancel, DiscardEntries
    <3>2. StreamPart(q)'
      <4>1. inflight'[q] => inflight[q] /\ ~Forgetting(q)
        BY <1>0, <1>2, <2>1 DEF FinishCancel
      <4>2. inflight'[q] => stream[q] = "open" /\ PathListed(q)
        BY <1>0, <4>1 DEF RequestInv, StreamPart
      <4>3. QED BY <1>0, <1>2, <2>1, <3>1, <4>2
                DEF FinishCancel, NoEntry, RequestInv, StreamPart, PathListed
    <3>3. DecisionPart(q)' /\ HeldPart(q)' /\ OutputPart(q)'
      BY <1>0, <1>2, <3>1
         DEF FinishCancel, NoEntry, RequestInv, DecisionPart, HeldPart,
             OutputPart, Accepted, Preparing, RouteFound, StreamFound
    <3>4. BodyPart(q)' /\ EventPart(q)'
      BY <1>0, <1>2, <3>1
         DEF FinishCancel, NoEntry, RequestInv, StreamPart, BodyPart, EventPart
    <3>5. QED BY <3>2, <3>3, <3>4 DEF RequestInv
  <2>2. CASE q \notin net.on
    BY <1>0, <1>2, <2>2, Untouched DEF FinishCancel, DiscardEntries, Local
  <2>3. QED BY <2>1, <2>2
<1>3. ASSUME NEW c \in Conns, CloseConnection(c) PROVE RequestInv(q)'
  <2>1. CASE ConnOf[q] = c
    <3>1. /\ signal'[q] = "none" /\ stream'[q] = "closed"
          /\ Forgetting(q)' /\ Cancelling(q)' /\ ~Storing(q)'
          /\ ~Storing(q) /\ ~Cancelling(q)
      BY <1>0, <1>3, <2>1 DEF CloseConnection, CancelSignal
    <3>2. withdrawn'[q] => withdrawn[q] \/ signal[q] # "none"
      BY <1>0, <1>3, <2>1 DEF CloseConnection, CancelSignal
    <3>3. signal[q] # "none" =>
             /\ stream[q] # "idle" /\ inj[q] \in {"none", "queued", "missed"}
             /\ ~event[q].set /\ calls[q] = 0
      <4>1. signal[q] # "none" =>
               stream[q] # "idle" /\ inj[q] \in {"none", "queued", "missed"}
        BY <1>0 DEF RequestInv, StreamPart, HeldPart
      <4>2. signal[q] # "none" => ~event[q].set
        BY <1>0, <4>1 DEF RequestInv, DecisionPart
      <4>3. signal[q] # "none" => calls[q] = 0
        BY <1>0, <4>2 DEF RequestInv, OutputPart
      <4>4. QED BY <4>1, <4>2, <4>3
    <3>4. HeldPart(q)'
      BY <1>0, <1>3, <3>1, <3>2, <3>3 DEF CloseConnection, RequestInv, HeldPart
    <3>5. StreamPart(q)' /\ DecisionPart(q)'
      BY <1>0, <1>3, <3>1
         DEF CloseConnection, RequestInv, StreamPart, DecisionPart, Accepted,
             Preparing, RouteFound, StreamFound, PathListed
    <3>6. OutputPart(q)' /\ BodyPart(q)' /\ EventPart(q)'
      BY <1>0, <1>3, <3>1
         DEF CloseConnection, RequestInv, OutputPart, BodyPart, EventPart,
             Accepted, RouteFound, StreamFound
    <3>7. QED BY <3>4, <3>5, <3>6 DEF RequestInv
  <2>2. CASE ConnOf[q] # c
    BY <1>0, <1>3, <2>2, Untouched DEF CloseConnection, CancelSignal, Local
  <2>3. QED BY <2>1, <2>2
<1>4. QED BY <1>1, <1>2, <1>3 DEF NetworkRest

\* The inductive invariant holds in every reachable state.
THEOREM Invariance == Spec => []IInv
<1>1. Init => IInv
  <2> SUFFICES ASSUME Init PROVE IInv
    OBVIOUS
  <2>1. TypeOK
    BY InitType
  <2>2. ASSUME NEW r \in Requests PROVE RequestInv(r)
    BY ConstantsAssumption
       DEF Init, NetIdle, NoEntry, RequestInv, StreamPart, DecisionPart,
           HeldPart, OutputPart, BodyPart, EventPart, Accepted, Preparing,
           Storing, Cancelling, Forgetting
  <2>3. QED BY <2>1, <2>2 DEF IInv
<1>2. IInv /\ [Next]_vars => IInv'
  <2> SUFFICES ASSUME IInv, [Next]_vars, NEW r \in Requests
               PROVE  RequestInv(r)'
    BY TypeStep DEF IInv
  <2>1. ASSUME NEW q \in Requests,
               \/ ClientEvent(q) \/ HeaderProcessor(q) \/ MiddlewareWorker(q)
               \/ ResultThread(q) \/ SignalReceiver(q) \/ ResponseWorker(q)
        PROVE  RequestInv(r)'
    <3>1. CASE r = q
      BY <2>1, <3>1, ClientEventStep, MiddlewareStep, ResponseStep
    <3>2. CASE r # q
      BY <2>1, <3>2, OthersStep
    <3>3. QED BY <3>1, <3>2
  <2>2. CASE NetworkRest \/ \E c \in Conns : CloseConnection(c)
    BY <2>2, NetworkStep
  <2>3. CASE UNCHANGED vars
    BY <2>3, Untouched
       DEF IInv, vars, Local, Storing, Cancelling, Forgetting
  <2>4. QED BY <2>1, <2>2, <2>3 DEF Next
<1>3. QED BY <1>1, <1>2, PTL DEF Spec

-------------------------------------------------------------------------------
(***************************************************************************)
(* The properties, as consequences of the invariant.                       *)
(***************************************************************************)

\* register joins the Ready disposition with the injection of the Finished
\* event: handlers run at most once, after every middleware said Continue,
\* on a finished stream.
THEOREM Dispatch == Spec => []DispatchSound
<1>1. IInv => DispatchSound
  <2> SUFFICES ASSUME IInv, NEW r \in Requests
               PROVE  /\ calls[r] <= 1
                      /\ calls[r] = 1 =>
                           /\ passed[r] = prof[r].mws
                           /\ prof[r].kind \in {"regular", "stream"}
                           /\ stream[r] \in {"finished", "closed"}
    BY DEF DispatchSound
  <2>1. RequestInv(r)
    BY DEF IInv
  <2>2. QED BY <2>1 DEF RequestInv, StreamPart, DecisionPart, OutputPart,
                        Accepted, PathListed, RouteFound, StreamFound
<1>2. QED BY <1>1, Invariance, PTL

\* The 404 of the header processor, the error of the middleware-result thread
\* and the answer of the response worker exclude each other.
THEOREM SingleResponse == Spec => []OneFinalResponse
<1>1. IInv => OneFinalResponse
  <2> SUFFICES ASSUME IInv, NEW r \in Requests
               PROVE  /\ final[r] <= 1 /\ interim[r] <= 1
                      /\ event[r].set => interim[r] = 1
    BY DEF OneFinalResponse
  <2>1. RequestInv(r)
    BY DEF IInv
  <2>2. QED BY <2>1 DEF RequestInv, DecisionPart, OutputPart
<1>2. QED BY <1>1, Invariance, PTL

\* No 100 is queued behind the final header.
THEOREM InterimFirst == Spec => InterimBeforeFinal
<1>1. IInv /\ [Next]_vars =>
         [\A r \in Requests : final[r] > 0 => interim'[r] = interim[r]]_vars
  <2> SUFFICES ASSUME IInv, Next, NEW r \in Requests, final[r] > 0
               PROVE  interim'[r] = interim[r]
    OBVIOUS
  <2>1. RequestInv(r) /\ final \in [Requests -> Nat]
        /\ interim \in [Requests -> Nat]
    BY DEF IInv, TypeOK
  <2>2. ~SendStatus(r)
    BY <2>1 DEF RequestInv, DecisionPart, OutputPart, SendStatus
  <2>3. ASSUME NEW q \in Requests, SendStatus(q) PROVE interim'[r] = interim[r]
    BY <2>1, <2>2, <2>3 DEF SendStatus
  <2>4. CASE ~\E q \in Requests : SendStatus(q)
    BY <2>4 DEF Next, ClientEvent, Headers, MalformedHeaders, DataEnsure,
         FinishedListed, FinishedUnlisted, Reset, HeaderProcessor, RouteHeader,
         RejectHeader, Send404, MiddlewareWorker, TakeJob, MiddlewareContinue,
         MiddlewareAbort, CheckTable, CompleteEntry, CreateCheck, InsertEntry,
         SendSignal, ResultThread, SendError, SignalReceiver, RecordSignal,
         LateSignal, DiscardLate, ResponseWorker, Register, Requeue,
         DiscardRejected, BuildEvent, CleanEntry, CallHandler, QueueResponse,
         QueueOpening, CallStream, HandlerPanic,
         MiddlewarePanic, CloseConnection, NetworkRest, DataWrite,
         FinishCancel, outVars
  <2>5. QED BY <2>3, <2>4
<1>2. QED BY <1>1, Invariance, PTL DEF Spec, InterimBeforeFinal

\* "A late middleware result must not resurrect a cancelled request": however
\* late the worker, the signal and the injection of a cancelled request are.
THEOREM Cancellation == Spec => []CancelWins
<1>1. IInv => CancelWins
  BY DEF IInv, RequestInv, HeldPart, CancelWins
<1>2. QED BY <1>1, Invariance, PTL

\* The signal map, the requests table and the inflight set forget a request
\* whose stream is over once no thread or channel holds anything of it.
THEOREM NoLeak == Spec => []NothingLeaks
<1>1. IInv => NothingLeaks
  <2> SUFFICES ASSUME IInv, NEW r \in Requests, Quiescent(r)
               PROVE  signal[r] = "none" /\ ~table[r].set /\ ~inflight[r]
    BY DEF NothingLeaks
  <2>1. RequestInv(r)
    BY DEF IInv
  <2>2. QED BY <2>1 DEF RequestInv, StreamPart, HeldPart, Quiescent,
                        Cancelling, Forgetting
<1>2. QED BY <1>1, Invariance, PTL

\* The event of a dispatched request accounts for every packet read from its
\* stream.
THEOREM Delivery == Spec => []BodyDelivered
<1>1. IInv => BodyDelivered
  BY DEF IInv, RequestInv, EventPart, BodyDelivered
<1>2. QED BY <1>1, Invariance, PTL

-------------------------------------------------------------------------------
(***************************************************************************)
(* RequestLifecycle implements RequestContract: every step that queues a   *)
(* header, calls the application or withdraws a request is one of its      *)
(* actions, every other step leaves its variables alone.                   *)
(***************************************************************************)

\* What the inductive invariant says at the steps the contract sees.
LEMMA ServiceFacts ==
    ASSUME IInv, NEW r \in Requests
    PROVE  /\ hdr[r] = "status" => interim[r] = 0 /\ final[r] = 0
           /\ hdr[r] \in {"send_404", "aborted"} =>
                 interim[r] = 0 /\ final[r] = 0
           /\ inj[r] \in {"call", "respond", "callback"} =>
                 interim[r] = 1 /\ ~withdrawn[r]
           /\ inj[r] = "call" =>
                 calls[r] = 0 /\ final[r] = 0 /\ ~StreamFound(r)
           /\ inj[r] = "callback" =>
                 calls[r] = 0 /\ final[r] = 1 /\ StreamFound(r)
           /\ inj[r] = "respond" =>
                 /\ final[r] = 0 /\ (RouteFound(r) <=> ~StreamFound(r))
                 /\ calls[r] = IF RouteFound(r) THEN 1 ELSE 0
           /\ signal[r] # "none" =>
                 calls[r] = 0 /\ ~(interim[r] = 1 /\ final[r] = 1)
<1>1. RequestInv(r) /\ TypeOK
  BY DEF IInv
<1> USE DEF RequestInv, TypeOK
<1>2. /\ hdr[r] = "status" => interim[r] = 0 /\ final[r] = 0
      /\ hdr[r] \in {"send_404", "aborted"} => interim[r] = 0 /\ final[r] = 0
  BY <1>1 DEF DecisionPart, OutputPart
<1>3. inj[r] \in {"call", "respond", "callback"} =>
         interim[r] = 1 /\ ~withdrawn[r] /\ Accepted(r)
  BY <1>1 DEF DecisionPart, HeldPart, OutputPart, Preparing
<1>4. /\ inj[r] = "call" => calls[r] = 0 /\ final[r] = 0 /\ RouteFound(r)
      /\ inj[r] = "callback" => calls[r] = 0 /\ final[r] = 1 /\ StreamFound(r)
      /\ inj[r] = "respond" =>
            final[r] = 0 /\ calls[r] = IF RouteFound(r) THEN 1 ELSE 0
  BY <1>1, <1>3 DEF OutputPart
<1>5. signal[r] # "none" =>
         calls[r] = 0 /\ ~(interim[r] = 1 /\ final[r] = 1)
  BY <1>1 DEF StreamPart, HeldPart, DecisionPart, OutputPart
<1>6. RouteFound(r) => ~StreamFound(r)
  BY DEF RouteFound, StreamFound
<1>7. Accepted(r) => RouteFound(r) \/ StreamFound(r)
  BY DEF Accepted
<1>8. QED BY <1>2, <1>3, <1>4, <1>5, <1>6, <1>7

\* Whatever the threads do, client and application see a behaviour of
\* RequestContract.
THEOREM Refinement == Spec => ContractKept
<1>1. Init => Contract!Init
  BY DEF Init, Contract!Init, StreamFound
<1>2. IInv /\ [Next]_vars => [Contract!Next]_(Contract!vars)
  <2> SUFFICES ASSUME IInv, [Next]_vars
               PROVE  [Contract!Next]_(Contract!vars)
    OBVIOUS
  <2> USE DEF netVars, hdrVars, injVars, outVars, StreamFound
  <2>0. TypeOK
    BY DEF IInv
  <2>1. ASSUME NEW r \in Requests, SendStatus(r) PROVE Contract!Promise(r)
    <3>1. interim[r] = 0 /\ final[r] = 0
      BY <2>1, ServiceFacts DEF SendStatus
    <3>2. interim' = [interim EXCEPT ![r] = 1]
      BY <2>1, <3>1 DEF SendStatus
    <3>3. QED BY <2>1, <3>1, <3>2 DEF SendStatus, Contract!Promise
  <2>2. ASSUME NEW r \in Requests, Send404(r) \/ SendError(r)
        PROVE  Contract!Refuse(r)
    BY <2>0, <2>2, ServiceFacts DEF Send404, SendError, Contract!Refuse, TypeOK
  <2>3. ASSUME NEW r \in Requests,
               CallHandler(r) \/ CallStream(r) \/ HandlerPanic(r)
        PROVE  Contract!Call(r)
    <3>1. /\ inj[r] \in {"call", "callback"}
          /\ calls' = [calls EXCEPT ![r] = @ + 1]
          /\ UNCHANGED <<prof, interim, final, withdrawn>>
      BY <2>3 DEF CallHandler, CallStream, HandlerPanic
    <3>2. /\ interim[r] = 1 /\ ~withdrawn[r] /\ calls[r] = 0
          /\ final[r] = 1 <=> StreamFound(r)
      BY <3>1, ServiceFacts
    <3>3. calls' = [calls EXCEPT ![r] = 1]
      BY <3>1, <3>2
    <3>4. QED BY <3>1, <3>2, <3>3 DEF Contract!Call
  <2>4. ASSUME NEW r \in Requests, QueueResponse(r) \/ QueueOpening(r)
        PROVE  Contract!Answer(r)
    <3>1. /\ inj[r] = "respond"
          /\ final' = [final EXCEPT ![r] = @ + 1]
          /\ UNCHANGED <<prof, interim, calls, withdrawn>>
      BY <2>4 DEF QueueResponse, QueueOpening
    <3>2. /\ interim[r] = 1 /\ ~withdrawn[r] /\ final[r] = 0
          /\ calls[r] = 1 <=> ~StreamFound(r)
      BY <3>1, ServiceFacts
    <3>3. final' = [final EXCEPT ![r] = 1]
      BY <3>1, <3>2
    <3>4. QED BY <3>1, <3>2, <3>3 DEF Contract!Answer
  <2>5. ASSUME NEW R \in SUBSET Requests, CancelSignal(R),
               UNCHANGED <<prof, interim, final, calls>>
        PROVE  Contract!Next
    <3> DEFINE Q == {r \in R : signal[r] # "none"}
    <3>1. withdrawn' = [r \in Requests |-> withdrawn[r] \/ r \in Q]
      BY <2>5 DEF CancelSignal
    <3>2. ASSUME NEW r \in Q PROVE ~Contract!BeingServed(r)
      BY <3>2, ServiceFacts DEF Contract!BeingServed
    <3>3. Contract!Withdraw(Q)
      BY <2>5, <3>1, <3>2 DEF Contract!Withdraw
    <3>4. QED BY <3>3 DEF Contract!Next
  <2>6. ASSUME NEW r \in Requests,
               MalformedHeaders(r) \/ FinishedUnlisted(r) \/ Reset(r)
        PROVE  Contract!Next
    BY <2>5, <2>6 DEF MalformedHeaders, FinishedUnlisted, Reset
  <2>7. ASSUME NEW c \in Conns, CloseConnection(c) PROVE Contract!Next
    BY <2>5, <2>7 DEF CloseConnection
  <2>8. CASE UNCHANGED <<prof, interim, final, calls, withdrawn>>
    BY <2>8 DEF Contract!vars
  <2>9. ASSUME NEW r \in Requests,
               \/ Headers(r) \/ DataEnsure(r) \/ FinishedListed(r)
               \/ RouteHeader(r) \/ RejectHeader(r) \/ TakeJob(r)
               \/ MiddlewareContinue(r) \/ MiddlewareAbort(r)
               \/ MiddlewarePanic(r) \/ CheckTable(r) \/ CompleteEntry(r)
               \/ CreateCheck(r) \/ InsertEntry(r) \/ SendSignal(r)
        PROVE  UNCHANGED <<prof, interim, final, calls, withdrawn>>
    BY <2>9 DEF Headers, DataEnsure, FinishedListed, RouteHeader, RejectHeader,
         TakeJob, MiddlewareContinue, MiddlewareAbort, MiddlewarePanic,
         CheckTable, CompleteEntry, CreateCheck, InsertEntry, SendSignal
  <2>10. ASSUME NEW r \in Requests,
                \/ SignalReceiver(r) \/ Register(r) \/ Requeue(r)
                \/ DiscardRejected(r) \/ BuildEvent(r) \/ CleanEntry(r)
         PROVE  UNCHANGED <<prof, interim, final, calls, withdrawn>>
    BY <2>10 DEF SignalReceiver, RecordSignal, LateSignal, DiscardLate,
         Register, Requeue, DiscardRejected, BuildEvent, CleanEntry
  <2>11. ASSUME NetworkRest \/ UNCHANGED vars
         PROVE  UNCHANGED <<prof, interim, final, calls, withdrawn>>
    BY <2>11 DEF NetworkRest, DataWrite, FinishCancel, vars
  <2>12. QED
    BY <2>1, <2>2, <2>3, <2>4, <2>6, <2>7, <2>8, <2>9, <2>10, <2>11
       DEF Next, ClientEvent, HeaderProcessor, MiddlewareWorker, ResultThread,
           ResponseWorker, Contract!Next
<1>3. QED BY <1>1, <1>2, Invariance, PTL DEF Spec, ContractKept, Contract!Spec
===============================================================================
