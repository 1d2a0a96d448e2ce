-------------------------------- MODULE Answer --------------------------------
(***************************************************************************)
(* A request among the tables of Routing, and the making of its answer:    *)
(* the lookups at its headers and at its end, the chain of handlers, the   *)
(* response built of what the last one returns, and the three times the    *)
(* length of a body is taken: for content-length by the response worker,   *)
(* for the tracker of the stream and for the chunking job by the network   *)
(* thread.  What the path of a file leads to may change in between, and    *)
(* need not be a file that can be read.                                    *)
(*                                                                         *)
(* Threads, middlewares that abort and cancellation are those of           *)
(* RequestLifecycle, sending is that of ResponseSend.                      *)
(***************************************************************************)
EXTENDS Routing, FiniteSets

CONSTANTS
    DataSizes, \* lengths of bodies in memory
    FileSizes, \* lengths of regular files
    DirSizes,  \* lengths a directory has when it is opened
    Missing,   \* in place of a file that is not there
    Unset      \* None

\* What the path of an answer leads to: a regular file that can be opened or
\* not, a directory, or nothing that has metadata or can be opened.
Files == [kind : {"file", "unreadable"}, len : FileSizes]
            \cup [kind : {"dir"}, len : DirSizes] \cup {Missing}

ASSUME SizesAssumption ==
    /\ DataSizes \subseteq Nat /\ FileSizes \subseteq Nat /\ DirSizes \subseteq Nat
    /\ Unset \notin Nat \cup Files
    /\ Unset \notin [len : Nat, reads : BOOLEAN]

\* RouteResponse, by the names of its variants.
RouteResponses == {"OK200", "OK200_DATA", "OK200_JSON", "OK200_FILE", "ERROR401",
                   "ERROR403", "ERROR409", "ERROR422", "ERROR428", "ERROR503"}

Lengths == DataSizes \cup FileSizes \cup DirSizes \cup {0}
Jobs == [len : Lengths, reads : BOOLEAN]

VARIABLES
    req,      \* the request, or Unset
    step,     \* where it is
    listed,   \* the verifier knows its stream
    target,   \* what the header processor found
    ran,      \* the middlewares it went through
    called,   \* how many handlers were called
    response, \* what the last one returned
    wire,     \* the answer: its status, content-length and body
    file,     \* what the path of the answer leads to
    touched,  \* that changed since the answer was built
    tracked,  \* the body length the tracker has
    job       \* the chunking job: its body length, and whether it can be read

answerVars == <<req, step, listed, target, ran, called, response, wire, file,
                touched, tracked, job>>
allVars == <<routingVars, answerVars>>

NoWire == [status |-> 0, content_length |-> Unset, body |-> "none"]

Steps == {"none", "headers", "accepted", "calling", "queued", "tracked",
          "chunking", "answered", "opened", "cancelled", "stuck", "server_down"}

AnswerTypeOK ==
    /\ RoutingTypeOK
    /\ req \in Requests \cup {Unset}
    /\ step \in Steps
    /\ listed \in BOOLEAN
    /\ target \in {"none", "route", "stream"}
    /\ called \in Nat
    /\ response \in RouteResponses
    /\ wire \in [status : Nat, content_length : Lengths \cup {Unset},
                 body : {"none", "data", "file"}]
    /\ file \in Files \cup {Unset}
    /\ touched \in BOOLEAN
    /\ tracked \in Lengths \cup {Unset} /\ job \in Jobs \cup {Unset}
    /\ called > 0 => called <= Handlers(req)

AnswerInit ==
    /\ RoutingInit
    /\ req = Unset /\ step = "none" /\ listed = FALSE /\ target = "none"
    /\ ran = <<>> /\ called = 0 /\ response = "OK200" /\ wire = NoWire
    /\ file = Unset /\ touched = FALSE /\ tracked = Unset /\ job = Unset

-------------------------------------------------------------------------------
\* Event::Headers on the network thread.
Headers(r) ==
    /\ phase = "built" /\ step = "none"
    /\ req' = r
    /\ step' = "headers"
    /\ listed' = Listed(r)
    /\ UNCHANGED <<routingVars, target, ran, called, response, wire, file, touched,
                   tracked, job>>

\* The header processor finds a route or a stream, and its middlewares run.
RouteRequest ==
    /\ step = "headers"
    /\ Target(req) # "none"
    /\ step' = "accepted"
    /\ target' = Target(req)
    /\ ran' = Middlewares(req)
    /\ UNCHANGED <<routingVars, req, listed, called, response, wire, file, touched,
                   tracked, job>>

\* send_404, with the headers of the registered form or without: no body.
RejectRequest ==
    /\ step = "headers"
    /\ Target(req) = "none"
    /\ step' = "answered"
    /\ wire' = [NoWire EXCEPT !.status = 404]
    /\ UNCHANGED <<routingVars, req, listed, target, ran, called, response, file,
                   touched, tracked, job>>

\* Event::Finished of a stream the verifier does not know cancels the request.
FinishUnlisted ==
    /\ step = "accepted" /\ ~listed
    /\ step' = "cancelled"
    /\ UNCHANGED <<routingVars, req, listed, target, ran, called, response, wire,
                   file, touched, tracked, job>>

\* The response worker looks the request up again: a stream is opened and its
\* handler called, for a route the dispatcher starts with OK200.
FinishListed ==
    /\ step = "accepted" /\ listed
    /\ \/ /\ HasRoute(req)
          /\ step' = "calling"
          /\ UNCHANGED wire
       \/ /\ ~HasRoute(req) /\ HasStream(req)
          /\ step' = "opened"
          /\ wire' = [NoWire EXCEPT !.status = 200]
    /\ UNCHANGED <<routingVars, req, listed, target, ran, called, response, file,
                   touched, tracked, job>>

\* Mutant: the chain stops at the first handler.
ChainDoneEarly == called = 1 \/ called = Handlers(req)

\* The iteration of dispatch_finished is over.
ChainDone == called = Handlers(req)

\* The next handler is handed the response so far and returns it or another.
CallHandler(out) ==
    /\ step = "calling" /\ ~ChainDone
    /\ called' = called + 1
    /\ response' = out
    /\ UNCHANGED <<routingVars, req, step, listed, target, ran, wire, file, touched,
                   tracked, job>>

\* process_handler: the constructor of RequestResponse for each variant.
WireStatus(r) ==
    CASE r \in {"OK200", "OK200_DATA", "OK200_JSON", "OK200_FILE"} -> 200
      [] r = "ERROR401" -> 401
      [] r = "ERROR403" -> 403
      [] r = "ERROR409" -> 409
      [] r = "ERROR422" -> 422
      [] r = "ERROR428" -> 428
      [] r = "ERROR503" -> 503

\* ResponseBuilder::build takes the length of a regular file from its metadata;
\* what is not a file, or not there, has length 0.
BuiltLength(f) == IF f # Missing /\ f.kind # "dir" THEN f.len ELSE 0

\* process_handler and build_response: an answer without a body.
RespondOk200 ==
    /\ step = "calling" /\ ChainDone
    /\ response = "OK200"
    /\ wire' = [NoWire EXCEPT !.status = WireStatus(response)]
    /\ step' = "answered"
    /\ UNCHANGED <<routingVars, req, listed, target, ran, called, response, file,
                   touched, tracked, job>>

\* One with the file of a path, whatever is there.
RespondWithFile(f) ==
    /\ step = "calling" /\ ChainDone
    /\ response = "OK200_FILE"
    /\ file' = f
    /\ wire' = [status |-> WireStatus(response), body |-> "file",
                content_length |-> BuiltLength(f)]
    /\ step' = "queued"
    /\ UNCHANGED <<routingVars, req, listed, target, ran, called, response, touched,
                   tracked, job>>

\* One with a body in memory.
RespondWithData(size) ==
    /\ step = "calling" /\ ChainDone
    /\ response \notin {"OK200", "OK200_FILE"}
    /\ wire' = [status |-> WireStatus(response), body |-> "data",
                content_length |-> size]
    /\ step' = "queued"
    /\ UNCHANGED <<routingVars, req, listed, target, ran, called, response, file,
                   touched, tracked, job>>

\* Someone writes, truncates, removes, creates or replaces the file of the
\* answer, or it cannot be opened any longer, or again.
FileChanges(f) ==
    /\ wire.body = "file" /\ step \in {"queued", "tracked"}
    /\ f # file
    /\ file' = f
    /\ touched' = TRUE
    /\ UNCHANGED <<routingVars, req, step, listed, target, ran, called, response,
                   wire, tracked, job>>

\* File::open: directories can be opened.
Openable(f) == f # Missing /\ f.kind # "unreadable"
BodyOpens == wire.body = "file" => Openable(file)

\* Mutant: of a file only that it is there.
BytesLenOfPath == IF wire.body = "data" THEN wire.content_length ELSE 1

\* BodyType::bytes_len: a file is opened again, and has the length the opened
\* file or directory has.
BytesLen == IF wire.body = "data" THEN wire.content_length ELSE file.len

\* The network thread pops the header: unwrap on what cannot be opened panics;
\* an empty body ends the stream on the headers.
SendHeader ==
    /\ step = "queued"
    /\ \/ /\ ~BodyOpens
          /\ step' = "server_down"
          /\ UNCHANGED tracked
       \/ /\ BodyOpens /\ BytesLen = 0
          /\ step' = "answered"
          /\ UNCHANGED tracked
       \/ /\ BodyOpens /\ BytesLen # 0
          /\ step' = "tracked"
          /\ tracked' = BytesLen
    /\ UNCHANGED <<routingVars, req, listed, target, ran, called, response, wire,
                   file, touched, job>>

\* send_body_to_chunking_station and new_file: the file is opened a third time;
\* if it cannot be, there is no job.
SendBodyToChunkingStation ==
    /\ step = "tracked"
    /\ \/ /\ ~BodyOpens
          /\ step' = "stuck"
          /\ UNCHANGED job
       \/ /\ BodyOpens
          /\ step' = "chunking"
          /\ job' = [len |-> BytesLen,
                     reads |-> wire.body = "file" => file.kind = "file"]
    /\ UNCHANGED <<routingVars, req, listed, target, ran, called, response, wire,
                   file, touched, tracked>>

\* The chunking worker: a job it cannot read, that of a directory, it drops.
ReadBody ==
    /\ step = "chunking"
    /\ step' = IF job.reads THEN "answered" ELSE "stuck"
    /\ UNCHANGED <<routingVars, req, listed, target, ran, called, response, wire,
                   file, touched, tracked, job>>

AnswerNext ==
    \/ BuilderNext /\ UNCHANGED answerVars
    \/ \E r \in Requests : Headers(r)
    \/ RouteRequest \/ RejectRequest
    \/ FinishUnlisted \/ FinishListed
    \/ \E out \in RouteResponses : CallHandler(out)
    \/ RespondOk200
    \/ \E f \in Files : RespondWithFile(f) \/ FileChanges(f)
    \/ \E size \in DataSizes : RespondWithData(size)
    \/ SendHeader \/ SendBodyToChunkingStation \/ ReadBody

AnswerSpec == AnswerInit /\ [][AnswerNext]_allVars

-------------------------------------------------------------------------------
\* The application's calls, as it may rely on them: the positions of the calls
\* that made the route of a request, and how many of the first n calls
\* registered a global middleware.
RouteCalls(r) == {i \in DOMAIN log : /\ log[i].op = "route"
                                     /\ log[i].path = r.path
                                     /\ log[i].method = r.method}
GlobalsAmong(n) == Cardinality({j \in 1..n : log[j].op = "global"})

\* What the route of call i is owed: the global middlewares registered before
\* it, each in its turn, and then its own.
Owed(mws, i) ==
    LET g == GlobalsAmong(i) IN
    /\ Len(mws) = g + Len(log[i].mws)
    /\ \A j \in 1..i : log[j].op = "global" => mws[GlobalsAmong(j)] = log[j].mw
    /\ \A k \in 1..Len(log[i].mws) : mws[g + k] = log[i].mws[k]

\* A request of a route runs through the global middlewares that were registered
\* before the route, in their order, and then through the route's own, whatever
\* other routes, streams and registries were set up in between.  This is what
\* add_global_middlewares gives a route; the comment of global_middleware says
\* more, see GlobalAffectsAll.
MiddlewaresInOrder ==
    target = "route" => \E i \in RouteCalls(req) : Owed(ran, i)

\* "Add a middleware that will affect all routes": a request of a route runs
\* through every global middleware, also one registered after the route was.
GlobalAffectsAll ==
    target = "route" =>
        \A j \in DOMAIN log : log[j].op = "global" => log[j].mw \in ToSet(ran)

\* Verifier, header processor and dispatcher agree: a plain request whose path
\* no other builder added is not accepted and then cancelled; it reaches exactly
\* what was registered for it, a route of its method before a stream, and is
\* turned away only if there is neither.
TablesAgree ==
    req # Unset /\ ~req.query /\ req.path \notin manager.late =>
        /\ step # "cancelled"
        /\ target = "route" => RouteCalls(req) # {}
        /\ step # "none" /\ RouteCalls(req) # {} => wire.status # 404 /\ step # "opened"
        /\ wire.status = 404 => ~HasStream(req)

\* The codes the variants of RouteResponse are named after.
Promised == [OK200 |-> 200, OK200_DATA |-> 200, OK200_JSON |-> 200,
             OK200_FILE |-> 200, ERROR401 |-> 401, ERROR403 |-> 403,
             ERROR409 |-> 409, ERROR422 |-> 422, ERROR428 |-> 428, ERROR503 |-> 503]

\* What is queued is what the last of the route's handlers returned, under the
\* status its name promises, after every handler the application registered was
\* called once; a route without handlers answers 200.
LastHandlerAnswers ==
    step \in {"queued", "tracked", "chunking", "answered"} /\ target = "route" =>
        /\ \E i \in RouteCalls(req) : called = log[i].handlers
        /\ called = 0 => response = "OK200"
        /\ wire.status = Promised[response]

\* As long as the path of an answer leads to the same thing as when the answer
\* was built, the three lengths of the body agree if that is a file that can be
\* read, and the answer neither takes the server down nor waits for ever.  A
\* directory is announced as empty and answered only if it also has length 0
\* when opened.  Whatever happened to the path, only what cannot be opened when
\* the header is popped takes the server down, and only what cannot be opened
\* or read after that leaves the answer unfinished.
StableBodyIsWhole ==
    /\ ~touched /\ (wire.body = "file" => Openable(file) /\ file.kind = "file") =>
          /\ tracked # Unset => tracked = wire.content_length
          /\ job # Unset => job.len = wire.content_length
          /\ step = "answered" /\ wire.body # "none" /\ wire.content_length # 0
                => job # Unset
          /\ step \notin {"server_down", "stuck"}
    /\ ~touched /\ wire.body = "file" /\ file # Missing /\ file.kind = "dir" =>
          /\ wire.content_length = 0
          /\ step = "answered" => file.len = 0
    /\ step = "server_down" => wire.body = "file" /\ ~Openable(file)
    /\ step = "stuck" => /\ wire.body = "file"
                        /\ IF job = Unset THEN ~Openable(file) ELSE ~job.reads
===============================================================================
