-------------------------------- MODULE Routing -------------------------------
(***************************************************************************)
(* The route manager: the calls of its builder, and the tables that build  *)
(* makes of them.  A request is looked up in four of these: the paths the  *)
(* verifier accepts, the routes, the streams and the dispatcher's handlers. *)
(* The streams are a registry the application may share with another       *)
(* builder; the other tables are fixed by build.  Answer follows a request *)
(* through them.                                                           *)
(*                                                                         *)
(* A route is given middlewares and handlers by the closure of its call, a *)
(* stream middlewares and possibly a handler.  A second build panics on    *)
(* its caller and leaves the first manager alone; it is left out, and so   *)
(* are subscribers, authority and on_finished_callback, which do not take  *)
(* part in routing.                                                        *)
(***************************************************************************)
EXTENDS Naturals, Sequences, SequencesExt

CONSTANTS
    Paths, Methods,
    Globals,      \* middlewares offered to global_middleware
    RouteShapes,  \* what a route is given: [mws : Seq, handlers : Nat]
    StreamShapes, \* what a stream is given: [mws : Seq, handler : BOOLEAN]
    MaxCalls      \* bound: calls of the builder

ASSUME RoutingAssumption ==
    /\ \A s \in RouteShapes : s.mws \in Seq(ToSet(s.mws)) /\ s.handlers \in Nat
    /\ \A s \in StreamShapes : s.handler \in BOOLEAN
    /\ MaxCalls \in Nat

Registries == {"own", "shared"}
Keys == Paths \X Methods

VARIABLES
    phase,    \* of the builder: "building", "panicked", "built"
    forms,    \* routes_formats: its keys are a path and a method
    globals,  \* global_middlewares
    sessions, \* the registry the builder holds
    streams,  \* the sessions maps of both registries, by path
    error404, \* a form is registered for Error404
    manager,  \* what build made
    log       \* the calls so far, for the properties

routingVars == <<phase, forms, globals, sessions, streams, error404, manager, log>>

Empty == [k \in {} |-> {}]

\* insert of a map.
Insert(f, k, v) == [x \in DOMAIN f \cup {k} |-> IF x = k THEN v ELSE f[x]]

RoutingTypeOK ==
    /\ phase \in {"building", "panicked", "built"}
    /\ DOMAIN forms \subseteq Keys
    /\ \A k \in DOMAIN forms : \E s \in RouteShapes :
          IsSuffix(s.mws, forms[k].mws) /\ forms[k].handlers = s.handlers
    /\ ToSet(globals) \subseteq Globals
    /\ sessions \in Registries
    /\ DOMAIN streams = Registries
    /\ \A g \in Registries : /\ DOMAIN streams[g] \subseteq Paths
                             /\ \A p \in DOMAIN streams[g] : streams[g][p].handler
    /\ error404 \in BOOLEAN
    /\ Len(log) <= MaxCalls
    /\ phase # "built" => manager = Empty

\* new_with_app_state; the application has a registry of its own to share.
RoutingInit ==
    /\ phase = "building"
    /\ forms = Empty
    /\ globals = <<>>
    /\ sessions = "own"
    /\ streams = [g \in Registries |-> Empty]
    /\ error404 = FALSE
    /\ manager = Empty
    /\ log = <<>>

-------------------------------------------------------------------------------
\* Each call is logged with what the application asked for.
Called(call) ==
    /\ phase = "building"
    /\ Len(log) < MaxCalls
    /\ log' = Append(log, call)

GlobalMiddleware(mw) ==
    /\ Called([op |-> "global", mw |-> mw])
    /\ globals' = Append(globals, mw)
    /\ UNCHANGED <<phase, forms, sessions, streams, error404, manager>>

\* Mutant: the route's own middlewares come first.
AddGlobalMiddlewaresLast(specific) == specific \o globals

\* add_global_middlewares: the ones registered so far, then the route's own.
AddGlobalMiddlewares(specific) == globals \o specific

\* What RouteFormBuilder builds once the closure of the route was called.
Form(shape) == [mws |-> AddGlobalMiddlewares(shape.mws), handlers |-> shape.handlers]

\* add_route and add_new_route, for route_get, route_post and route_delete; a
\* second route for the same path and method fails an assertion.
AddRoute(path, method, shape) ==
    /\ Called([op |-> "route", path |-> path, method |-> method,
               mws |-> shape.mws, handlers |-> shape.handlers])
    /\ \/ /\ <<path, method>> \in DOMAIN forms
          /\ phase' = "panicked"
          /\ UNCHANGED forms
       \/ /\ <<path, method>> \notin DOMAIN forms
          /\ forms' = Insert(forms, <<path, method>>, Form(shape))
          /\ UNCHANGED phase
    /\ UNCHANGED <<globals, sessions, streams, error404, manager>>

\* StreamBuilder::build; path and type are set for it.
Complete(shape) == shape.handler

\* Mutant: a stream without a handler is kept.
CreateStreamAnyway(registry, path, shape) ==
    streams' = IF path \notin DOMAIN streams[registry]
               THEN [streams EXCEPT ![registry] = Insert(@, path, shape)]
               ELSE streams

\* create_stream: a stream without a handler is not built, and the first of a
\* path stays.
CreateStream(registry, path, shape) ==
    streams' = IF Complete(shape) /\ path \notin DOMAIN streams[registry]
               THEN [streams EXCEPT ![registry] = Insert(@, path, shape)]
               ELSE streams

DownStream(path, shape) ==
    /\ Called([op |-> "stream", path |-> path, mws |-> shape.mws,
               handler |-> shape.handler])
    /\ CreateStream(sessions, path, shape)
    /\ UNCHANGED <<phase, forms, globals, sessions, error404, manager>>

\* The streams of the builder's own registry are left behind.
WithStreamSessions ==
    /\ Called([op |-> "sessions"])
    /\ sessions' = "shared"
    /\ UNCHANGED <<phase, forms, globals, streams, error404, manager>>

SetErrorHandler ==
    /\ Called([op |-> "error"])
    /\ error404' = TRUE
    /\ UNCHANGED <<phase, forms, globals, sessions, streams, manager>>

\* Mutant: the verifier is not told of the streams.
AcceptedPathsNoStreams == {k[1] : k \in DOMAIN forms}

\* The verifier of build: the paths of all routes and of all streams.
AcceptedPaths == {k[1] : k \in DOMAIN forms} \cup DOMAIN streams[sessions]

\* build_route_event_dispatcher: the handlers of each route.
SetHandles == [k \in DOMAIN forms |-> forms[k].handlers]

Build ==
    /\ phase = "building"
    /\ phase' = "built"
    /\ manager' = [routes |-> forms, dispatcher |-> SetHandles,
                   accepted |-> AcceptedPaths, late |-> {}]
    /\ UNCHANGED <<forms, globals, sessions, streams, error404, log>>

\* Another builder holds the shared registry and adds a stream to it, which
\* the verifier of this manager does not see; late remembers it for the
\* properties.
LateStream(path, shape) ==
    /\ phase = "built"
    /\ sessions = "shared"
    /\ CreateStream("shared", path, shape)
    /\ manager' = [manager EXCEPT !.late =
                      @ \cup (DOMAIN streams'["shared"] \ DOMAIN streams["shared"])]
    /\ UNCHANGED <<phase, forms, globals, sessions, error404, log>>

BuilderNext ==
    \/ \E mw \in Globals : GlobalMiddleware(mw)
    \/ \E p \in Paths, m \in Methods, s \in RouteShapes : AddRoute(p, m, s)
    \/ \E p \in Paths, s \in StreamShapes : DownStream(p, s) \/ LateStream(p, s)
    \/ WithStreamSessions
    \/ SetErrorHandler
    \/ Build

-------------------------------------------------------------------------------
\* A request's path is one of Paths, or one with a query string behind it.
Requests == [path : Paths, query : BOOLEAN, method : Methods]

\* insert_stream_path_for_conn compares the path as it came.
Listed(req) == ~req.query /\ req.path \in manager.accepted

\* get_routes_from_path_and_method: parse_args cuts the query string off.
Key(req) == <<req.path, req.method>>
HasRoute(req) == Key(req) \in DOMAIN manager.routes

\* get_stream_from_path looks up the path as it came, for any method.
HasStream(req) == ~req.query /\ req.path \in DOMAIN streams[sessions]

\* The header processor and the response workers ask for a route first.
Target(req) ==
    IF HasRoute(req) THEN "route" ELSE IF HasStream(req) THEN "stream" ELSE "none"

\* to_middleware_coll.
Middlewares(req) ==
    CASE Target(req) = "route" -> manager.routes[Key(req)].mws
      [] Target(req) = "stream" -> streams[sessions][req.path].mws
      [] OTHER -> <<>>

\* What the dispatcher finds under path and method.
Handlers(req) ==
    IF ~req.query /\ Key(req) \in DOMAIN manager.dispatcher
    THEN manager.dispatcher[Key(req)] ELSE 0
===============================================================================
