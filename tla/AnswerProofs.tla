----------------------------- MODULE AnswerProofs -----------------------------
(***************************************************************************)
(* Proofs about Answer and the tables of Routing it reads, for every set   *)
(* of paths, methods, middlewares and shapes, every number of builder      *)
(* calls and every size of bodies and files.                               *)
(***************************************************************************)
EXTENDS Answer, TLAPS, SequenceTheorems, FiniteSetTheorems

\* The calls of the builder, as they are logged.
RouteCall(p, m, s) == [op |-> "route", path |-> p, method |-> m,
                       mws |-> s.mws, handlers |-> s.handlers]
RouteCallSet == {RouteCall(p, m, s) : p \in Paths, m \in Methods, s \in RouteShapes}
GlobalCallSet == {[op |-> "global", mw |-> mw] : mw \in Globals}
StreamCallSet == {[op |-> "stream", path |-> p, mws |-> s.mws, handler |-> s.handler] :
                    p \in Paths, s \in StreamShapes}
Calls == RouteCallSet \cup GlobalCallSet \cup StreamCallSet
         \cup {[op |-> "sessions"], [op |-> "error"]}

LogPart == log \in Seq(Calls)

\* The n-th global middleware is that of the n-th call that registered one.
GlobalsPart ==
    /\ globals \in Seq(Globals)
    /\ Len(globals) = GlobalsAmong(Len(log))
    /\ \A j \in 1..Len(log) : log[j].op = "global" =>
          /\ GlobalsAmong(j) \in 1..Len(globals)
          /\ globals[GlobalsAmong(j)] = log[j].mw

\* Call i made the form of k.
Made(k, i) ==
    /\ log[i].op = "route" /\ k = <<log[i].path, log[i].method>>
    /\ forms[k].handlers = log[i].handlers
    /\ Owed(forms[k].mws, i)

\* Every form is owed to a call, and every call of a route has its form unless
\* the builder has panicked.
FormsPart ==
    /\ \A k \in DOMAIN forms : \E i \in 1..Len(log) : Made(k, i)
    /\ phase # "panicked" => \A i \in 1..Len(log) :
          log[i].op = "route" => <<log[i].path, log[i].method>> \in DOMAIN forms

\* The tables of a manager against those of its builder.
BuiltPart == phase = "built" =>
    /\ manager = [routes |-> forms, dispatcher |-> SetHandles,
                  accepted |-> manager.accepted, late |-> manager.late]
    /\ \A k \in DOMAIN forms : k[1] \in manager.accepted
    /\ DOMAIN streams[sessions] \subseteq manager.accepted \cup manager.late

RoutingInv == RoutingTypeOK /\ LogPart /\ GlobalsPart /\ FormsPart /\ BuiltPart

-------------------------------------------------------------------------------
Early == {"none", "headers", "accepted", "cancelled", "opened"}

\* What is known of a request from the step it is in.
RequestPart ==
    /\ step = "none" => req = Unset
    /\ step # "none" => phase = "built" /\ req \in Requests /\ listed = Listed(req)
    /\ step \in {"none", "headers"} => target = "none"
    /\ step \in {"accepted", "cancelled"} => target # "none"
    /\ step \in {"calling", "queued", "tracked", "chunking", "stuck",
                "server_down"} => target = "route"
    /\ step = "opened" => target = "stream"
    /\ step = "cancelled" => ~listed

\* What the header processor found is still there.
TargetPart ==
    /\ target = "route" => HasRoute(req) /\ ran = manager.routes[Key(req)].mws
    /\ target = "stream" => ~HasRoute(req) /\ HasStream(req)
    /\ wire.status = 404 =>
          step = "answered" /\ ~HasRoute(req) /\ (HasStream(req) => req.path \in manager.late)

\* The chain of handlers.
ChainPart ==
    /\ step \in Early => called = 0 /\ response = "OK200"
    /\ target # "route" => called = 0
    /\ target = "route" /\ step \notin Early =>
          listed /\ called <= Handlers(req) /\ (called = 0 => response = "OK200")
    /\ target = "route" /\ step \in {"queued", "tracked", "chunking", "answered"} =>
          called = Handlers(req) /\ wire.status = WireStatus(response)

\* The answer has its body in memory or in a file that can be read.
Whole == wire.body = "file" => Openable(file) /\ file.kind = "file"
OfDir == wire.body = "file" /\ file # Missing /\ file.kind = "dir"

\* The lengths of the body.
BodyPart ==
    /\ step \in Early \cup {"calling"} => wire.body = "none"
    /\ step \in {"queued", "tracked", "chunking"} => wire.body # "none"
    /\ wire.body = "none" => tracked = Unset /\ job = Unset /\ file = Unset /\ ~touched
    /\ wire.body = "data" => wire.content_length \in DataSizes
    /\ wire.body = "file" => file \in Files
    /\ wire.body = "file" /\ ~touched => wire.content_length = BuiltLength(file)
    /\ step \in {"queued", "tracked"} => job = Unset
    /\ step = "chunking" => job # Unset
    /\ job # Unset /\ ~job.reads => wire.body = "file"
    /\ step = "server_down" => wire.body = "file" /\ ~Openable(file)
    /\ step = "stuck" => /\ wire.body = "file"
                        /\ IF job = Unset THEN ~Openable(file) ELSE ~job.reads
    /\ ~touched /\ Whole =>
          /\ tracked \in {Unset, wire.content_length}
          /\ job # Unset => job.len = wire.content_length /\ job.reads
          /\ step = "answered" /\ wire.body # "none" /\ wire.content_length # 0
                => job # Unset
    /\ ~touched /\ OfDir =>
          /\ job # Unset => ~job.reads
          /\ step = "answered" => file.len = 0

AnswerInv == AnswerTypeOK /\ RequestPart /\ TargetPart /\ ChainPart /\ BodyPart

IInv == RoutingInv /\ AnswerInv

-------------------------------------------------------------------------------
(***************************************************************************)
(* Calls and the counting of global middlewares.                           *)
(***************************************************************************)

\* A logged call is of exactly one of the five kinds.
LEMMA CallKinds ==
    ASSUME NEW c \in Calls
    PROVE  /\ c.op = "route" => \E p \in Paths, m \in Methods, s \in RouteShapes :
                                   c = RouteCall(p, m, s)
           /\ c.op = "global" => c.mw \in Globals
<1>1. CASE c \in RouteCallSet
  BY <1>1 DEF RouteCallSet, RouteCall
<1>2. CASE c \in GlobalCallSet
  BY <1>2 DEF GlobalCallSet
<1>3. CASE c \in StreamCallSet
  BY <1>3 DEF StreamCallSet
<1>4. CASE c \in {[op |-> "sessions"], [op |-> "error"]}
  BY <1>4
<1> QED BY <1>1, <1>2, <1>3, <1>4 DEF Calls

\* A route's call has its own middlewares as a sequence and a number of handlers.
LEMMA RouteCallFields ==
    ASSUME NEW c \in Calls, c.op = "route"
    PROVE  /\ c.path \in Paths /\ c.method \in Methods
           /\ c.handlers \in Nat
           /\ c.mws \in Seq(ToSet(c.mws))
<1>1. PICK p \in Paths, m \in Methods, s \in RouteShapes : c = RouteCall(p, m, s)
  BY CallKinds
<1> QED BY <1>1, RoutingAssumption DEF RouteCall

\* Logging a call keeps the calls before it where they are.
LEMMA LogAppend ==
    ASSUME LogPart, NEW c \in Calls, log' = Append(log, c)
    PROVE  /\ LogPart'
           /\ Len(log) \in Nat
           /\ Len(log') = Len(log) + 1
           /\ \A i \in 1..Len(log) : log'[i] = log[i]
           /\ log'[Len(log) + 1] = c
BY DEF LogPart

\* The positions counted by GlobalsAmong are finitely many.
LEMMA GlobalsFinite ==
    ASSUME NEW n \in Nat
    PROVE  /\ IsFiniteSet({j \in 1..n : log[j].op = "global"})
           /\ GlobalsAmong(n) \in Nat
<1>1. IsFiniteSet(1..n)
  BY FS_Interval
<1>2. IsFiniteSet({j \in 1..n : log[j].op = "global"})
  BY <1>1, FS_Subset
<1> QED BY <1>2, FS_CardinalityType DEF GlobalsAmong

\* A new call does not change the counts up to the calls before it, and is
\* counted itself if it registers a global middleware.
LEMMA CountAfterCall ==
    ASSUME LogPart, NEW c \in Calls, log' = Append(log, c)
    PROVE  /\ \A n \in 0..Len(log) : GlobalsAmong(n)' = GlobalsAmong(n)
           /\ GlobalsAmong(Len(log))' =
                 GlobalsAmong(Len(log)) + IF c.op = "global" THEN 1 ELSE 0
<1> DEFINE L == Len(log)
           S(n) == {j \in 1..n : log[j].op = "global"}
           T(n) == {j \in 1..n : log'[j].op = "global"}
<1>1. /\ L \in Nat
      /\ Len(log') = L + 1
      /\ \A i \in 1..L : log'[i] = log[i]
      /\ log'[L + 1] = c
  BY LogAppend
<1> HIDE DEF L
<1>2. ASSUME NEW n \in 0..L PROVE T(n) = S(n)
  <2>1. ASSUME NEW j \in 1..n PROVE log'[j].op = log[j].op
    <3>1. j \in 1..L
      BY <1>1
    <3> QED BY <3>1, <1>1
  <2> QED BY <2>1
<1>3. ASSUME NEW n \in 0..L PROVE GlobalsAmong(n)' = GlobalsAmong(n)
  BY <1>2 DEF GlobalsAmong
<1>4. \A j \in 1..(L + 1) : j = L + 1 \/ j \in 1..L
  BY <1>1
<1>5. \A j \in 1..L : log'[j].op = log[j].op
  BY <1>1
<1>6. log'[L + 1].op = c.op
  BY <1>1
<1>7. L + 1 \in 1..(L + 1) /\ 1..L \subseteq 1..(L + 1)
  BY <1>1
<1>8. CASE c.op = "global"
  <2>1. T(L + 1) = S(L) \cup {L + 1}
    BY <1>4, <1>5, <1>6, <1>7, <1>8, Zenon
  <2>2. L + 1 \notin S(L)
    BY <1>1
  <2>3. IsFiniteSet(S(L))
    BY <1>1, GlobalsFinite
  <2>4. Cardinality(S(L) \cup {L + 1}) = Cardinality(S(L)) + 1
    BY <2>2, <2>3, FS_AddElement
  <2>5. GlobalsAmong(Len(log))' = Cardinality(T(L + 1))
    BY <1>1 DEF GlobalsAmong
  <2>6. GlobalsAmong(Len(log)) = Cardinality(S(L))
    BY DEF GlobalsAmong, L
  <2> QED BY <2>1, <2>4, <2>5, <2>6, <1>3, <1>8 DEF L
<1>9. CASE c.op # "global"
  <2>1. T(L + 1) = S(L)
    BY <1>4, <1>5, <1>6, <1>7, <1>9, Zenon
  <2>2. GlobalsAmong(Len(log))' = Cardinality(T(L + 1))
    BY <1>1 DEF GlobalsAmong
  <2>3. GlobalsAmong(Len(log)) = Cardinality(S(L))
    BY DEF GlobalsAmong, L
  <2>4. GlobalsAmong(Len(log)) \in Nat
    BY <1>1, GlobalsFinite DEF L
  <2>5. GlobalsAmong(Len(log))' = GlobalsAmong(Len(log))
    BY <2>1, <2>2, <2>3
  <2>6. GlobalsAmong(Len(log))' = GlobalsAmong(Len(log)) + 0
    BY <2>4, <2>5
  <2> QED BY <2>6, <1>3, <1>9 DEF L
<1> QED BY <1>3, <1>8, <1>9 DEF L

\* What a form is owed stays the same when another call is logged.
LEMMA MadeKept ==
    ASSUME LogPart, NEW c \in Calls, log' = Append(log, c),
           NEW k, NEW i \in 1..Len(log), forms'[k] = forms[k], Made(k, i)
    PROVE  Made(k, i)'
<1>1. Len(log) \in Nat /\ i \in 0..Len(log) /\ 1..i \subseteq 1..Len(log)
  BY DEF LogPart
<1>2. \A j \in 1..i : log'[j] = log[j] /\ GlobalsAmong(j)' = GlobalsAmong(j)
  <2>1. \A j \in 1..i : j \in 0..Len(log)
    BY <1>1
  <2>2. \A n \in 0..Len(log) : GlobalsAmong(n)' = GlobalsAmong(n)
    BY CountAfterCall
  <2> QED BY <1>1, <2>1, <2>2, LogAppend
<1>3. i \in 1..i
  BY <1>1
<1>4. log'[i] = log[i] /\ GlobalsAmong(i)' = GlobalsAmong(i)
  BY <1>2, <1>3
<1> QED BY <1>2, <1>4, Zenon DEF Made, Owed

\* A call that registers no global middleware keeps the list of them.
LEMMA GlobalsKept ==
    ASSUME LogPart, GlobalsPart, NEW c \in Calls, c.op # "global",
           log' = Append(log, c), globals' = globals
    PROVE  GlobalsPart'
<1>1. Len(log) \in Nat /\ Len(log') = Len(log) + 1 /\ log'[Len(log) + 1] = c
  BY LogAppend
<1>2. GlobalsAmong(Len(log)) \in Nat
  BY <1>1, GlobalsFinite
<1>3. GlobalsAmong(Len(log))' = GlobalsAmong(Len(log)) + 0
  BY CountAfterCall
<1>4. GlobalsAmong(Len(log))' = GlobalsAmong(Len(log))
  BY <1>2, <1>3
<1>5. ASSUME NEW j \in 1..Len(log'), log'[j].op = "global"
      PROVE  /\ j \in 1..Len(log)
             /\ log'[j] = log[j]
             /\ GlobalsAmong(j)' = GlobalsAmong(j)
  <2>1. j \in 1..Len(log)
    BY <1>1, <1>5
  <2>2. j \in 0..Len(log)
    BY <2>1, <1>1
  <2> QED BY <2>1, <2>2, LogAppend, CountAfterCall
<1> QED BY <1>4, <1>5, Zenon DEF GlobalsPart

\* A call that makes no route keeps what is known of the forms.
LEMMA FormsKept ==
    ASSUME LogPart, FormsPart, NEW c \in Calls, c.op # "route",
           log' = Append(log, c), forms' = forms, phase' = phase
    PROVE  FormsPart'
<1>1. Len(log) \in Nat /\ Len(log') = Len(log) + 1 /\ log'[Len(log) + 1] = c
      /\ \A i \in 1..Len(log) : log'[i] = log[i]
  BY LogAppend
<1>2. ASSUME NEW k \in DOMAIN forms PROVE \E i \in 1..Len(log') : Made(k, i)'
  <2>1. PICK i \in 1..Len(log) : Made(k, i)
    BY DEF FormsPart
  <2>2. Made(k, i)'
    BY <2>1, MadeKept
  <2> QED BY <2>2, <1>1
<1>3. ASSUME phase # "panicked", NEW i \in 1..Len(log'), log'[i].op = "route"
      PROVE  <<log'[i].path, log'[i].method>> \in DOMAIN forms
  <2>1. i \in 1..Len(log)
    BY <1>1, <1>3
  <2> QED BY <2>1, <1>1, <1>3, Zenon DEF FormsPart
<1> QED BY <1>2, <1>3, Zenon DEF FormsPart

-------------------------------------------------------------------------------
(***************************************************************************)
(* The calls of the builder keep the tables right.                         *)
(***************************************************************************)

\* The parts that a logged call outside the built phase cannot disturb.
LEMMA CallBounds ==
    ASSUME RoutingInv, NEW c \in Calls, Called(c)
    PROVE  /\ phase = "building"
           /\ LogPart' /\ log' = Append(log, c)
           /\ Len(log') <= MaxCalls
<1>1. LogPart
  BY DEF RoutingInv
<1>2. log' = Append(log, c) /\ phase = "building" /\ Len(log) < MaxCalls
  BY DEF Called
<1>3. LogPart' /\ Len(log) \in Nat /\ Len(log') = Len(log) + 1
  BY <1>1, <1>2, LogAppend
<1> QED BY <1>2, <1>3, RoutingAssumption

LEMMA GlobalMiddlewareStep ==
    ASSUME RoutingInv, NEW mw \in Globals, GlobalMiddleware(mw)
    PROVE  RoutingInv'
<1> DEFINE c == [op |-> "global", mw |-> mw]
           L == Len(log)
<1>1. c \in Calls /\ c.op = "global" /\ c.mw = mw
  BY DEF Calls, GlobalCallSet
<1> HIDE DEF c
<1>2. /\ Called(c)
      /\ globals' = Append(globals, mw)
      /\ UNCHANGED <<phase, forms, sessions, streams, error404, manager>>
  BY DEF GlobalMiddleware, c
<1>3. /\ phase = "building" /\ LogPart' /\ log' = Append(log, c)
      /\ Len(log') <= MaxCalls
  BY <1>1, <1>2, CallBounds
<1>4. /\ LogPart /\ GlobalsPart /\ FormsPart /\ RoutingTypeOK /\ BuiltPart
  BY DEF RoutingInv
<1>5. FormsPart'
  <2>1. c.op # "route"
    BY <1>1
  <2> QED BY <2>1, <1>1, <1>2, <1>3, <1>4, FormsKept
<1>6. GlobalsPart'
  <2>1. L \in Nat /\ Len(log') = L + 1 /\ log'[L + 1] = c
        /\ \A i \in 1..L : log'[i] = log[i]
    BY <1>1, <1>3, <1>4, LogAppend
  <2>2. GlobalsAmong(Len(log))' = GlobalsAmong(L) + 1
    BY <1>1, <1>3, <1>4, CountAfterCall
  <2>3. globals \in Seq(Globals) /\ Len(globals) = GlobalsAmong(L)
    BY <1>4 DEF GlobalsPart
  <2>4. /\ globals' \in Seq(Globals) /\ Len(globals) \in Nat
        /\ Len(globals') = Len(globals) + 1
        /\ \A i \in 1..Len(globals) : globals'[i] = globals[i]
        /\ globals'[Len(globals) + 1] = mw
    BY <1>2, <2>3
  <2> HIDE DEF L
  <2>5. ASSUME NEW j \in 1..Len(log'), log'[j].op = "global"
        PROVE  /\ GlobalsAmong(j)' \in 1..Len(globals')
               /\ globals'[GlobalsAmong(j)'] = log'[j].mw
    <3>1. CASE j = L + 1
      <4>1. GlobalsAmong(j)' = GlobalsAmong(Len(log))'
        BY <3>1, <2>1
      <4>2. GlobalsAmong(j)' = Len(globals) + 1
        BY <4>1, <2>2, <2>3
      <4>3. log'[j].mw = mw
        BY <3>1, <2>1, <1>1
      <4> QED BY <4>2, <4>3, <2>4
    <3>2. CASE j # L + 1
      <4>1. j \in 1..L /\ j \in 0..L
        BY <3>2, <2>1
      <4>2. GlobalsAmong(j)' = GlobalsAmong(j)
        BY <4>1, <1>1, <1>3, <1>4, CountAfterCall DEF L
      <4>3. log'[j] = log[j]
        BY <4>1, <2>1
      <4>4. GlobalsAmong(j) \in 1..Len(globals) /\ globals[GlobalsAmong(j)] = log[j].mw
        BY <4>1, <4>3, <2>5, <1>4 DEF GlobalsPart, L
      <4> QED BY <4>2, <4>3, <4>4, <2>4
    <3> QED BY <3>1, <3>2
  <2>6. Len(globals') = GlobalsAmong(Len(log))'
    BY <2>2, <2>3, <2>4
  <2> QED BY <2>4, <2>5, <2>6, Zenon DEF GlobalsPart
<1>7. RoutingTypeOK'
  <2>1. ToSet(globals') \subseteq Globals
    BY <1>6 DEF GlobalsPart, ToSet
  <2> QED BY <1>2, <1>3, <1>4, <2>1, Zenon DEF RoutingTypeOK
<1>8. BuiltPart'
  BY <1>2, <1>3 DEF BuiltPart
<1> QED BY <1>3, <1>5, <1>6, <1>7, <1>8 DEF RoutingInv

LEMMA AddRouteStep ==
    ASSUME RoutingInv, NEW path \in Paths, NEW method \in Methods,
           NEW shape \in RouteShapes, AddRoute(path, method, shape)
    PROVE  RoutingInv'
<1> DEFINE c == RouteCall(path, method, shape)
           L == Len(log)
           key == <<path, method>>
           mws == globals \o shape.mws
<1>1. /\ c \in Calls /\ c.op = "route" /\ c.path = path /\ c.method = method
      /\ c.mws = shape.mws /\ c.handlers = shape.handlers
  BY DEF Calls, RouteCallSet, RouteCall
<1>2. Called(c)
  BY DEF AddRoute, RouteCall
<1> HIDE DEF c
<1>3. UNCHANGED <<globals, sessions, streams, error404, manager>>
  BY DEF AddRoute
<1>4. /\ phase = "building" /\ LogPart' /\ log' = Append(log, c)
      /\ Len(log') <= MaxCalls
  BY <1>1, <1>2, CallBounds
<1>5. /\ LogPart /\ GlobalsPart /\ FormsPart /\ RoutingTypeOK /\ BuiltPart
  BY DEF RoutingInv
<1>6. GlobalsPart'
  <2>1. c.op # "global"
    BY <1>1
  <2> QED BY <2>1, <1>1, <1>3, <1>4, <1>5, GlobalsKept
<1>7. L \in Nat /\ Len(log') = L + 1 /\ log'[L + 1] = c
      /\ \A i \in 1..L : log'[i] = log[i]
  BY <1>1, <1>4, <1>5, LogAppend
<1>8. ASSUME NEW k \in DOMAIN forms, forms'[k] = forms[k]
      PROVE  \E i \in 1..Len(log') : Made(k, i)'
  <2>1. PICK i \in 1..Len(log) : Made(k, i)
    BY <1>5 DEF FormsPart
  <2>2. Made(k, i)'
    BY <2>1, <1>1, <1>4, <1>5, <1>8, MadeKept
  <2> QED BY <2>2, <1>7
<1>9. CASE key \in DOMAIN forms
  <2>1. phase' = "panicked" /\ forms' = forms
    BY <1>9 DEF AddRoute
  <2>2. FormsPart'
    BY <2>1, <1>8, Zenon DEF FormsPart
  <2>3. RoutingTypeOK'
    BY <2>1, <1>3, <1>4, <1>5, Zenon DEF RoutingTypeOK
  <2>4. BuiltPart'
    BY <2>1 DEF BuiltPart
  <2> QED BY <2>2, <2>3, <2>4, <1>4, <1>6 DEF RoutingInv
<1>10. CASE key \notin DOMAIN forms
  <2>1. phase' = phase /\ forms' = Insert(forms, key, Form(shape))
    BY <1>10 DEF AddRoute
  <2>2. /\ DOMAIN forms' = DOMAIN forms \cup {key}
        /\ \A k \in DOMAIN forms : forms'[k] = forms[k]
        /\ forms'[key].mws = mws
        /\ forms'[key].handlers = shape.handlers
    BY <2>1, <1>10 DEF Insert, Form, AddGlobalMiddlewares
  <2> DEFINE own == shape.mws
  <2>3. own \in Seq(ToSet(own)) /\ globals \in Seq(Globals)
    BY <1>5, RoutingAssumption DEF GlobalsPart
  <2>4. /\ Len(globals) \in Nat /\ Len(own) \in Nat
        /\ Len(mws) = Len(globals) + Len(own)
        /\ \A i \in 1..Len(globals) : mws[i] = globals[i]
        /\ \A i \in 1..Len(own) : mws[Len(globals) + i] = own[i]
    <3> HIDE DEF own
    <3> DEFINE G == ToSet(own)
    <3> HIDE DEF G
    <3>1. own \in Seq(Globals \cup G) /\ globals \in Seq(Globals \cup G)
      BY <2>3 DEF G
    <3>2. mws = globals \o own
      BY DEF own
    <3> HIDE DEF mws
    <3> QED BY <3>1, <3>2
  <2> HIDE DEF mws
  <2>5. \E i \in 1..Len(log') : Made(key, i)'
    <3>1. GlobalsAmong(Len(log))' = GlobalsAmong(L) + 0
      BY <1>1, <1>4, <1>5, CountAfterCall
    <3>2. GlobalsAmong(L) = Len(globals)
      BY <1>5 DEF GlobalsPart
    <3>3. PICK i : i = L + 1
      OBVIOUS
    <3>4. GlobalsAmong(i)' = Len(globals)
      BY <3>1, <3>2, <3>3, <2>4, <1>7
    <3>5. log'[i] = c
      BY <3>3, <1>7
    <3>6. ASSUME NEW j \in 1..i, log'[j].op = "global"
          PROVE  mws[GlobalsAmong(j)'] = log'[j].mw
      <4>1. j \in 1..L
        BY <3>3, <3>5, <3>6, <1>1, <1>7
      <4>2. j \in 1..Len(log')
        BY <4>1, <1>7
      <4>3. GlobalsAmong(j)' \in 1..Len(globals) /\ globals[GlobalsAmong(j)'] = log'[j].mw
        BY <4>2, <3>6, <1>3, <1>6, Zenon DEF GlobalsPart
      <4> QED BY <4>3, <2>4
    <3>7. Owed(forms[key].mws, i)'
      BY <2>2, <2>4, <3>4, <3>5, <3>6, <1>1, Zenon DEF Owed
    <3>8. Made(key, i)'
      BY <3>7, <3>5, <2>2, <1>1 DEF Made
    <3> QED BY <3>8, <3>3, <1>7
  <2>6. \A k \in DOMAIN forms' : \E i \in 1..Len(log') : Made(k, i)'
    BY <2>2, <2>5, <1>8, Zenon
  <2>7. ASSUME NEW i \in 1..Len(log'), log'[i].op = "route"
        PROVE  <<log'[i].path, log'[i].method>> \in DOMAIN forms'
    <3>1. CASE i = L + 1
      BY <3>1, <2>2, <1>1, <1>7
    <3>2. CASE i # L + 1
      <4>1. i \in 1..L /\ log'[i] = log[i]
        BY <3>2, <1>7
      <4> QED BY <4>1, <2>2, <2>7, <1>4, <1>5 DEF FormsPart
    <3> QED BY <3>1, <3>2
  <2>8. FormsPart'
    BY <2>6, <2>7, Zenon DEF FormsPart
  <2>9. RoutingTypeOK'
    <3>1. DOMAIN forms' \subseteq Keys
      BY <2>2, <1>5 DEF RoutingTypeOK, Keys
    <3>2. IsSuffix(shape.mws, forms'[key].mws)
      <4>1. own \in Seq(Globals \cup ToSet(own)) /\ globals \in Seq(Globals \cup ToSet(own))
        BY <2>3
      <4>2. IsSuffix(own, globals \o own)
        BY <4>1 DEF IsSuffix, IsPrefix, Reverse
      <4> QED BY <4>2, <2>2 DEF mws
    <3>3. \A k \in DOMAIN forms' : \E s \in RouteShapes :
             IsSuffix(s.mws, forms'[k].mws) /\ forms'[k].handlers = s.handlers
      BY <2>2, <3>2, <1>5, Zenon DEF RoutingTypeOK
    <3> QED BY <3>1, <3>3, <2>1, <1>3, <1>4, <1>5, Zenon DEF RoutingTypeOK
  <2>10. BuiltPart'
    BY <2>1, <1>4 DEF BuiltPart
  <2> QED BY <2>8, <2>9, <2>10, <1>4, <1>6 DEF RoutingInv
<1> QED BY <1>9, <1>10

\* create_stream adds at most its own path, with a handler, to one registry.
LEMMA CreateStreamEffect ==
    ASSUME RoutingTypeOK, NEW registry \in Registries, NEW path \in Paths,
           NEW shape \in StreamShapes, CreateStream(registry, path, shape)
    PROVE  /\ DOMAIN streams' = Registries
           /\ \A g \in Registries : /\ DOMAIN streams[g] \subseteq DOMAIN streams'[g]
                                    /\ DOMAIN streams'[g] \subseteq Paths
                                    /\ \A p \in DOMAIN streams'[g] : streams'[g][p].handler
                                    /\ g # registry => streams'[g] = streams[g]
<1>1. /\ DOMAIN streams = Registries
      /\ \A g \in Registries : /\ DOMAIN streams[g] \subseteq Paths
                               /\ \A p \in DOMAIN streams[g] : streams[g][p].handler
  BY DEF RoutingTypeOK
<1>2. CASE streams' = streams
  BY <1>1, <1>2
<1>3. CASE /\ Complete(shape)
           /\ streams' = [streams EXCEPT ![registry] = Insert(@, path, shape)]
  <2> DEFINE new == Insert(streams[registry], path, shape)
  <2>1. shape.handler = TRUE
    BY <1>3, RoutingAssumption DEF Complete
  <2>2. /\ DOMAIN new = DOMAIN streams[registry] \cup {path}
        /\ \A p \in DOMAIN new :
              new[p] = IF p = path THEN shape ELSE streams[registry][p]
    BY DEF Insert
  <2>3. \A p \in DOMAIN new : new[p].handler
    BY <2>1, <2>2, <1>1, Zenon
  <2> HIDE DEF new
  <2>4. /\ DOMAIN streams' = Registries
        /\ streams'[registry] = new
        /\ \A g \in Registries : g # registry => streams'[g] = streams[g]
    BY <1>1, <1>3 DEF new
  <2> QED BY <2>2, <2>3, <2>4, <1>1, Zenon
<1> QED BY <1>2, <1>3 DEF CreateStream

LEMMA DownStreamStep ==
    ASSUME RoutingInv, NEW path \in Paths, NEW shape \in StreamShapes,
           DownStream(path, shape)
    PROVE  RoutingInv'
<1> DEFINE c == [op |-> "stream", path |-> path, mws |-> shape.mws,
                 handler |-> shape.handler]
<1>1. c \in Calls /\ c.op = "stream"
  BY DEF Calls, StreamCallSet
<1>2. c.op # "route" /\ c.op # "global"
  BY <1>1
<1> HIDE DEF c
<1>3. /\ Called(c) /\ CreateStream(sessions, path, shape)
      /\ UNCHANGED <<phase, forms, globals, sessions, error404, manager>>
  BY DEF DownStream, c
<1>4. /\ phase = "building" /\ LogPart' /\ log' = Append(log, c)
      /\ Len(log') <= MaxCalls
  BY <1>1, <1>3, CallBounds
<1>5. /\ LogPart /\ GlobalsPart /\ FormsPart /\ RoutingTypeOK
  BY DEF RoutingInv
<1>6. GlobalsPart' /\ FormsPart'
  BY <1>1, <1>2, <1>3, <1>4, <1>5, GlobalsKept, FormsKept
<1>7. sessions \in Registries
  BY <1>5 DEF RoutingTypeOK
<1>8. /\ DOMAIN streams' = Registries
      /\ \A g \in Registries : /\ DOMAIN streams'[g] \subseteq Paths
                               /\ \A p \in DOMAIN streams'[g] : streams'[g][p].handler
  BY <1>3, <1>5, <1>7, CreateStreamEffect, Zenon
<1>9. RoutingTypeOK'
  BY <1>3, <1>4, <1>5, <1>8, Zenon DEF RoutingTypeOK
<1>10. BuiltPart'
  BY <1>3, <1>4 DEF BuiltPart
<1> QED BY <1>4, <1>6, <1>9, <1>10 DEF RoutingInv

LEMMA WithStreamSessionsStep ==
    ASSUME RoutingInv, WithStreamSessions
    PROVE  RoutingInv'
<1> DEFINE c == [op |-> "sessions"]
<1>1. c \in Calls /\ c.op = "sessions"
  BY DEF Calls
<1>2. c.op # "route" /\ c.op # "global"
  BY <1>1
<1> HIDE DEF c
<1>3. /\ Called(c) /\ sessions' = "shared"
      /\ UNCHANGED <<phase, forms, globals, streams, error404, manager>>
  BY DEF WithStreamSessions, c
<1>4. /\ phase = "building" /\ LogPart' /\ log' = Append(log, c)
      /\ Len(log') <= MaxCalls
  BY <1>1, <1>3, CallBounds
<1>5. /\ LogPart /\ GlobalsPart /\ FormsPart /\ RoutingTypeOK
  BY DEF RoutingInv
<1>6. GlobalsPart' /\ FormsPart'
  BY <1>1, <1>2, <1>3, <1>4, <1>5, GlobalsKept, FormsKept
<1>7. sessions' \in Registries
  BY <1>3 DEF Registries
<1>8. RoutingTypeOK'
  BY <1>3, <1>4, <1>5, <1>7, Zenon DEF RoutingTypeOK
<1>9. BuiltPart'
  BY <1>3, <1>4 DEF BuiltPart
<1> QED BY <1>4, <1>6, <1>8, <1>9 DEF RoutingInv

LEMMA SetErrorHandlerStep ==
    ASSUME RoutingInv, SetErrorHandler
    PROVE  RoutingInv'
<1> DEFINE c == [op |-> "error"]
<1>1. c \in Calls /\ c.op = "error"
  BY DEF Calls
<1>2. c.op # "route" /\ c.op # "global"
  BY <1>1
<1> HIDE DEF c
<1>3. /\ Called(c) /\ error404' = TRUE
      /\ UNCHANGED <<phase, forms, globals, sessions, streams, manager>>
  BY DEF SetErrorHandler, c
<1>4. /\ phase = "building" /\ LogPart' /\ log' = Append(log, c)
      /\ Len(log') <= MaxCalls
  BY <1>1, <1>3, CallBounds
<1>5. /\ LogPart /\ GlobalsPart /\ FormsPart /\ RoutingTypeOK
  BY DEF RoutingInv
<1>6. GlobalsPart' /\ FormsPart'
  BY <1>1, <1>2, <1>3, <1>4, <1>5, GlobalsKept, FormsKept
<1>7. error404' \in BOOLEAN
  BY <1>3
<1>8. RoutingTypeOK'
  BY <1>3, <1>4, <1>5, <1>7, Zenon DEF RoutingTypeOK
<1>9. BuiltPart'
  BY <1>3, <1>4 DEF BuiltPart
<1> QED BY <1>4, <1>6, <1>8, <1>9 DEF RoutingInv

\* The parts about the builder only read its own variables.
LEMMA BuilderFrame ==
    ASSUME LogPart, GlobalsPart, FormsPart, UNCHANGED <<forms, globals, log>>,
           phase' = "panicked" \/ phase # "panicked"
    PROVE  LogPart' /\ GlobalsPart' /\ FormsPart'
<1>1. LogPart'
  BY DEF LogPart
<1>2. GlobalsPart'
  BY DEF GlobalsPart, GlobalsAmong
<1>3. ASSUME NEW k, NEW i PROVE Made(k, i)' <=> Made(k, i)
  BY Zenon DEF Made, Owed, GlobalsAmong
<1>4. FormsPart'
  BY <1>3, Zenon DEF FormsPart
<1> QED BY <1>1, <1>2, <1>4

LEMMA BuildStep ==
    ASSUME RoutingInv, Build
    PROVE  RoutingInv'
<1>1. /\ phase = "building" /\ phase' = "built"
      /\ manager' = [routes |-> forms, dispatcher |-> SetHandles,
                     accepted |-> AcceptedPaths, late |-> {}]
      /\ UNCHANGED <<forms, globals, sessions, streams, error404, log>>
  BY DEF Build
<1>2. /\ LogPart /\ GlobalsPart /\ FormsPart /\ RoutingTypeOK
  BY DEF RoutingInv
<1>3. LogPart' /\ GlobalsPart' /\ FormsPart'
  BY <1>1, <1>2, BuilderFrame
<1>4. RoutingTypeOK'
  BY <1>1, <1>2, Zenon DEF RoutingTypeOK
<1>5. BuiltPart'
  <2>1. manager'.accepted = AcceptedPaths /\ manager'.late = {}
    BY <1>1
  <2>2. SetHandles' = SetHandles
    BY <1>1 DEF SetHandles
  <2>3. \A k \in DOMAIN forms : k[1] \in AcceptedPaths
    BY DEF AcceptedPaths
  <2>4. DOMAIN streams[sessions] \subseteq AcceptedPaths
    BY DEF AcceptedPaths
  <2> QED BY <1>1, <2>1, <2>2, <2>3, <2>4 DEF BuiltPart
<1> QED BY <1>3, <1>4, <1>5 DEF RoutingInv

LEMMA LateStreamStep ==
    ASSUME RoutingInv, NEW path \in Paths, NEW shape \in StreamShapes,
           LateStream(path, shape)
    PROVE  /\ RoutingInv'
           /\ manager.late \subseteq manager'.late
           /\ manager'.routes = manager.routes /\ manager'.accepted = manager.accepted
           /\ manager'.dispatcher = manager.dispatcher
           /\ DOMAIN streams[sessions] \subseteq DOMAIN streams'[sessions]
           /\ DOMAIN streams'[sessions] \subseteq DOMAIN streams[sessions] \cup manager'.late
<1> DEFINE new == DOMAIN streams'["shared"] \ DOMAIN streams["shared"]
<1>1. /\ phase = "built" /\ sessions = "shared" /\ CreateStream("shared", path, shape)
      /\ manager' = [manager EXCEPT !.late = @ \cup new]
      /\ UNCHANGED <<phase, forms, globals, sessions, error404, log>>
  BY DEF LateStream
<1>2. /\ LogPart /\ GlobalsPart /\ FormsPart /\ RoutingTypeOK /\ BuiltPart
  BY DEF RoutingInv
<1>3. LogPart' /\ GlobalsPart' /\ FormsPart'
  BY <1>1, <1>2, BuilderFrame
<1>4. "shared" \in Registries
  BY DEF Registries
<1>5. /\ DOMAIN streams' = Registries
      /\ \A g \in Registries : /\ DOMAIN streams[g] \subseteq DOMAIN streams'[g]
                               /\ DOMAIN streams'[g] \subseteq Paths
                               /\ \A p \in DOMAIN streams'[g] : streams'[g][p].handler
  BY <1>1, <1>2, <1>4, CreateStreamEffect, Zenon
<1>6. RoutingTypeOK'
  BY <1>1, <1>2, <1>5, Zenon DEF RoutingTypeOK
<1> HIDE DEF new
<1>7. /\ manager = [routes |-> forms, dispatcher |-> SetHandles,
                    accepted |-> manager.accepted, late |-> manager.late]
      /\ \A k \in DOMAIN forms : k[1] \in manager.accepted
      /\ DOMAIN streams[sessions] \subseteq manager.accepted \cup manager.late
  BY <1>1, <1>2 DEF BuiltPart
<1>8. manager' = [routes |-> forms, dispatcher |-> SetHandles,
                  accepted |-> manager.accepted, late |-> manager.late \cup new]
  <2>1. PICK m : m = [routes |-> forms, dispatcher |-> SetHandles,
                      accepted |-> manager.accepted, late |-> manager.late]
    OBVIOUS
  <2>2. [m EXCEPT !.late = @ \cup new] =
           [routes |-> forms, dispatcher |-> SetHandles,
            accepted |-> manager.accepted, late |-> manager.late \cup new]
    BY <2>1
  <2>3. manager = m
    BY <2>1, <1>7, Zenon
  <2> QED BY <2>2, <2>3, <1>1
<1>9. /\ manager'.routes = manager.routes /\ manager'.accepted = manager.accepted
      /\ manager'.dispatcher = manager.dispatcher
      /\ manager'.late = manager.late \cup new
  BY <1>7, <1>8
<1>10. /\ DOMAIN streams[sessions] \subseteq DOMAIN streams'[sessions]
       /\ DOMAIN streams'[sessions] \subseteq DOMAIN streams[sessions] \cup manager'.late
  BY <1>1, <1>4, <1>5, <1>9 DEF new
<1>11. BuiltPart'
  <2>1. SetHandles' = SetHandles
    BY <1>1 DEF SetHandles
  <2>2. manager' = [routes |-> forms', dispatcher |-> SetHandles',
                    accepted |-> manager'.accepted, late |-> manager'.late]
    BY <2>1, <1>1, <1>8, <1>9
  <2>3. DOMAIN streams'[sessions'] \subseteq manager'.accepted \cup manager'.late
    BY <1>1, <1>7, <1>9, <1>10
  <2> QED BY <2>2, <2>3, <1>1, <1>7, <1>9, Zenon DEF BuiltPart
<1> QED BY <1>3, <1>6, <1>9, <1>10, <1>11 DEF RoutingInv

\* What is known of the tables, for every step that leaves them alone.
LEMMA RoutingFrame ==
    ASSUME RoutingInv, UNCHANGED routingVars
    PROVE  RoutingInv'
<1>1. UNCHANGED <<phase, forms, globals, sessions, streams, error404, manager, log>>
  BY DEF routingVars
<1>2. /\ LogPart /\ GlobalsPart /\ FormsPart /\ RoutingTypeOK /\ BuiltPart
  BY DEF RoutingInv
<1>3. LogPart' /\ GlobalsPart' /\ FormsPart'
  BY <1>1, <1>2, BuilderFrame
<1>4. RoutingTypeOK'
  BY <1>1, <1>2, Zenon DEF RoutingTypeOK
<1>5. BuiltPart'
  BY <1>1, <1>2 DEF BuiltPart, SetHandles
<1> QED BY <1>3, <1>4, <1>5 DEF RoutingInv

-------------------------------------------------------------------------------
(***************************************************************************)
(* A request among the tables.                                             *)
(***************************************************************************)

\* The route of a request was made by a call for its path and method, which
\* also says how many handlers the dispatcher has for a plain request.
LEMMA RouteIsOwed ==
    ASSUME RoutingInv, phase = "built", NEW r \in Requests, HasRoute(r)
    PROVE  \E i \in RouteCalls(r) : /\ Owed(manager.routes[Key(r)].mws, i)
                                    /\ log[i].handlers \in Nat
                                    /\ ~r.query => Handlers(r) = log[i].handlers
<1>1. /\ LogPart /\ FormsPart
      /\ manager = [routes |-> forms, dispatcher |-> SetHandles,
                    accepted |-> manager.accepted, late |-> manager.late]
  BY DEF RoutingInv, BuiltPart
<1>2. manager.routes = forms /\ manager.dispatcher = SetHandles
  BY <1>1
<1>3. Key(r) \in DOMAIN forms
  BY <1>2 DEF HasRoute
<1>4. PICK i \in 1..Len(log) : Made(Key(r), i)
  BY <1>1, <1>3 DEF FormsPart
<1>5. log[i] \in Calls /\ log[i].op = "route" /\ i \in DOMAIN log
  BY <1>1, <1>4 DEF LogPart, Made
<1>6. log[i].handlers \in Nat
  BY <1>5, RouteCallFields
<1>7. r.path = log[i].path /\ r.method = log[i].method
  BY <1>4 DEF Made, Key
<1>8. i \in RouteCalls(r)
  BY <1>5, <1>7 DEF RouteCalls
<1>9. ~r.query => Handlers(r) = log[i].handlers
  BY <1>2, <1>3, <1>4, Zenon DEF Handlers, SetHandles, Made
<1>10. Owed(manager.routes[Key(r)].mws, i)
  BY <1>2, <1>4 DEF Made
<1> QED BY <1>6, <1>8, <1>9, <1>10

LEMMA HandlersType ==
    ASSUME RoutingInv, phase = "built", NEW r \in Requests
    PROVE  Handlers(r) \in Nat
<1>1. CASE ~r.query /\ Key(r) \in DOMAIN manager.dispatcher
  <2>1. DOMAIN manager.dispatcher = DOMAIN manager.routes
    <3>1. manager = [routes |-> forms, dispatcher |-> SetHandles,
                     accepted |-> manager.accepted, late |-> manager.late]
      BY DEF RoutingInv, BuiltPart
    <3>2. manager.routes = forms /\ manager.dispatcher = SetHandles
      BY <3>1
    <3> QED BY <3>2 DEF SetHandles
  <2>2. HasRoute(r)
    BY <1>1, <2>1 DEF HasRoute
  <2> QED BY <1>1, <2>2, RouteIsOwed
<1>2. CASE ~(~r.query /\ Key(r) \in DOMAIN manager.dispatcher)
  BY <1>2 DEF Handlers
<1> QED BY <1>1, <1>2

\* A route that a call made is found, once the manager is built.
LEMMA CalledIsFound ==
    ASSUME RoutingInv, phase = "built", NEW r \in Requests, RouteCalls(r) # {}
    PROVE  HasRoute(r)
<1>1. /\ LogPart /\ FormsPart
      /\ manager = [routes |-> forms, dispatcher |-> SetHandles,
                    accepted |-> manager.accepted, late |-> manager.late]
  BY DEF RoutingInv, BuiltPart
<1>2. manager.routes = forms
  BY <1>1
<1>3. PICK i \in DOMAIN log : /\ log[i].op = "route"
                              /\ log[i].path = r.path /\ log[i].method = r.method
  BY DEF RouteCalls
<1>4. i \in 1..Len(log)
  BY <1>1 DEF LogPart
<1> QED BY <1>1, <1>2, <1>3, <1>4 DEF FormsPart, HasRoute, Key

\* The verifier accepts the path of every route and of every stream that was
\* there when the manager was built.
LEMMA FoundIsAccepted ==
    ASSUME RoutingInv, phase = "built", NEW r \in Requests
    PROVE  /\ HasRoute(r) => r.path \in manager.accepted
           /\ HasStream(r) => r.path \in manager.accepted \cup manager.late
<1>1. /\ manager = [routes |-> forms, dispatcher |-> SetHandles,
                    accepted |-> manager.accepted, late |-> manager.late]
      /\ \A k \in DOMAIN forms : k[1] \in manager.accepted
      /\ DOMAIN streams[sessions] \subseteq manager.accepted \cup manager.late
  BY DEF RoutingInv, BuiltPart
<1>2. manager.routes = forms
  BY <1>1
<1> QED BY <1>1, <1>2 DEF HasRoute, Key, HasStream

\* The lookups of a request that stays give the same while the tables stay.
LEMMA LookupsKept ==
    ASSUME UNCHANGED routingVars, req' = req
    PROVE  /\ Listed(req)' = Listed(req)
           /\ HasRoute(req)' = HasRoute(req) /\ HasStream(req)' = HasStream(req)
           /\ Key(req)' = Key(req) /\ Handlers(req)' = Handlers(req)
           /\ phase' = phase /\ manager' = manager
BY DEF routingVars, Listed, HasRoute, HasStream, Key, Handlers

\* Another stream in the shared registry changes none of a request's lookups
\* but that of a stream, and that one only for a late path.
LEMMA LateStreamKeeps ==
    ASSUME IInv, RoutingTypeOK', UNCHANGED answerVars, phase' = phase,
           sessions' = sessions, manager'.routes = manager.routes,
           manager'.accepted = manager.accepted,
           manager'.dispatcher = manager.dispatcher,
           manager.late \subseteq manager'.late,
           DOMAIN streams[sessions] \subseteq DOMAIN streams'[sessions],
           DOMAIN streams'[sessions] \subseteq DOMAIN streams[sessions] \cup manager'.late
    PROVE  AnswerInv'
<1>1. UNCHANGED <<req, step, listed, target, ran, called, response, wire, file,
                  touched, tracked, job>>
  BY DEF answerVars
<1>2. /\ AnswerTypeOK /\ RequestPart /\ TargetPart /\ ChainPart /\ BodyPart
  BY DEF IInv, AnswerInv
<1>3. /\ Listed(req)' = Listed(req)
      /\ HasRoute(req)' = HasRoute(req)
      /\ HasStream(req) => HasStream(req)'
      /\ HasStream(req)' => HasStream(req) \/ req.path \in manager'.late
      /\ Key(req)' = Key(req) /\ Handlers(req)' = Handlers(req)
  BY <1>1 DEF Listed, HasRoute, HasStream, Key, Handlers
<1>4. AnswerTypeOK'
  <2>1. (called > 0 => called <= Handlers(req))'
    BY <1>1, <1>2, <1>3 DEF AnswerTypeOK
  <2> QED BY <1>1, <1>2, <2>1 DEF AnswerTypeOK, Requests, Lengths
<1>5. RequestPart'
  BY <1>1, <1>2, <1>3 DEF RequestPart, Requests
<1>6. TargetPart'
  BY <1>1, <1>2, <1>3, Zenon DEF TargetPart
<1>7. ChainPart'
  BY <1>1, <1>2, <1>3 DEF ChainPart, WireStatus
<1>8. BodyPart'
  BY <1>1, <1>2 DEF BodyPart, BuiltLength, Openable, Whole, OfDir
<1> QED BY <1>4, <1>5, <1>6, <1>7, <1>8 DEF AnswerInv

\* A call of the builder finds no request.
LEMMA BuildingKeeps ==
    ASSUME IInv, RoutingTypeOK', UNCHANGED answerVars, phase # "built"
    PROVE  AnswerInv'
<1>1. UNCHANGED <<req, step, listed, target, ran, called, response, wire, file,
                  touched, tracked, job>>
  BY DEF answerVars
<1>2. /\ AnswerTypeOK /\ RequestPart /\ TargetPart /\ ChainPart /\ BodyPart
  BY DEF IInv, AnswerInv
<1>3. step = "none"
  BY <1>2 DEF RequestPart
<1>4. /\ called = 0 /\ target = "none" /\ wire.status # 404
      /\ response = "OK200" /\ req = Unset
  BY <1>2, <1>3 DEF RequestPart, TargetPart, ChainPart, Early
<1>5. AnswerTypeOK'
  <2>1. ~(called > 0)
    BY <1>4
  <2>2. (called > 0 => called <= Handlers(req))'
    BY <1>1, <2>1
  <2> QED BY <1>1, <1>2, <2>2 DEF AnswerTypeOK, Requests, Lengths
<1>6. RequestPart'
  BY <1>1, <1>3, <1>4 DEF RequestPart
<1>7. TargetPart'
  BY <1>1, <1>4 DEF TargetPart
<1>8. ChainPart'
  BY <1>1, <1>3, <1>4 DEF ChainPart
<1>9. BodyPart'
  BY <1>1, <1>2 DEF BodyPart, BuiltLength, Openable, Whole, OfDir
<1> QED BY <1>5, <1>6, <1>7, <1>8, <1>9 DEF AnswerInv

-------------------------------------------------------------------------------
(***************************************************************************)
(* The steps of a request.                                                 *)
(***************************************************************************)

\* The conjuncts of the invariant, as the steps below use them.
LEMMA Parts ==
    ASSUME IInv
    PROVE  /\ RoutingInv /\ RoutingTypeOK
           /\ AnswerTypeOK /\ RequestPart /\ TargetPart /\ ChainPart /\ BodyPart
BY DEF IInv, RoutingInv, AnswerInv

\* A request that is under way has a type, and so has the number of its handlers.
LEMMA UnderWay ==
    ASSUME IInv, step # "none"
    PROVE  /\ phase = "built" /\ req \in Requests /\ listed = Listed(req)
           /\ Handlers(req) \in Nat
BY Parts, HandlersType DEF RequestPart

LEMMA HeadersStep ==
    ASSUME IInv, NEW r \in Requests, Headers(r)
    PROVE  AnswerInv'
<1>1. /\ phase = "built" /\ step = "none" /\ req' = r /\ step' = "headers"
      /\ listed' = Listed(r) /\ UNCHANGED routingVars
      /\ UNCHANGED <<target, ran, called, response, wire, file, touched, tracked, job>>
  BY DEF Headers
<1>2. /\ RoutingInv /\ RoutingTypeOK
      /\ AnswerTypeOK /\ RequestPart /\ TargetPart /\ ChainPart /\ BodyPart
  BY Parts
<1>3. /\ called = 0 /\ target = "none" /\ wire.status # 404 /\ response = "OK200"
  BY <1>1, <1>2 DEF RequestPart, TargetPart, ChainPart, Early
<1>4. RoutingTypeOK' /\ phase' = "built"
  BY <1>1, <1>2, RoutingFrame DEF RoutingInv, routingVars
<1>5. Listed(req)' = Listed(r)
  BY <1>1 DEF Listed, routingVars
<1>6. AnswerTypeOK'
  <2>1. ~(called' > 0)
    BY <1>1, <1>3
  <2>2. listed' \in BOOLEAN
    BY <1>1 DEF Listed
  <2>3. step' \in Steps
    BY <1>1 DEF Steps
  <2> QED BY <1>1, <1>2, <1>4, <2>1, <2>2, <2>3 DEF AnswerTypeOK, Requests, Lengths
<1>7. RequestPart'
  BY <1>1, <1>3, <1>4, <1>5 DEF RequestPart, Requests
<1>8. TargetPart'
  BY <1>1, <1>3 DEF TargetPart
<1>9. ChainPart'
  BY <1>1, <1>3 DEF ChainPart
<1>10. BodyPart'
  BY <1>1, <1>2 DEF BodyPart, BuiltLength, Openable, Whole, OfDir, Early
<1> QED BY <1>6, <1>7, <1>8, <1>9, <1>10 DEF AnswerInv

LEMMA RouteRequestStep ==
    ASSUME IInv, RouteRequest
    PROVE  AnswerInv'
<1>1. /\ step = "headers" /\ Target(req) # "none" /\ step' = "accepted"
      /\ target' = Target(req) /\ ran' = Middlewares(req) /\ UNCHANGED routingVars
      /\ UNCHANGED <<req, listed, called, response, wire, file, touched, tracked, job>>
  BY DEF RouteRequest
<1>2. /\ RoutingInv /\ RoutingTypeOK
      /\ AnswerTypeOK /\ RequestPart /\ TargetPart /\ ChainPart /\ BodyPart
  BY Parts
<1>3. /\ called = 0 /\ wire.status # 404 /\ response = "OK200"
      /\ phase = "built" /\ req \in Requests /\ listed = Listed(req)
  BY <1>1, <1>2 DEF RequestPart, TargetPart, ChainPart, Early
<1>4. RoutingTypeOK'
  BY <1>1, <1>2, RoutingFrame DEF RoutingInv
<1>5. /\ Listed(req)' = Listed(req)
      /\ HasRoute(req)' = HasRoute(req) /\ HasStream(req)' = HasStream(req)
      /\ Key(req)' = Key(req) /\ Handlers(req)' = Handlers(req)
      /\ phase' = phase /\ manager' = manager
  BY <1>1, LookupsKept
<1>6. /\ target' \in {"route", "stream"}
      /\ target' = "route" => HasRoute(req) /\ ran' = manager.routes[Key(req)].mws
      /\ target' = "stream" => ~HasRoute(req) /\ HasStream(req)
  BY <1>1 DEF Target, Middlewares
<1>7. AnswerTypeOK'
  <2>1. ~(called' > 0)
    BY <1>1, <1>3
  <2>2. step' \in Steps
    BY <1>1 DEF Steps
  <2> QED BY <1>1, <1>2, <1>4, <1>6, <2>1, <2>2 DEF AnswerTypeOK, Requests, Lengths
<1>8. RequestPart'
  BY <1>1, <1>3, <1>5, <1>6 DEF RequestPart, Requests
<1>9. TargetPart'
  BY <1>1, <1>3, <1>5, <1>6 DEF TargetPart
<1>10. ChainPart'
  BY <1>1, <1>3 DEF ChainPart, Early
<1>11. BodyPart'
  BY <1>1, <1>2 DEF BodyPart, BuiltLength, Openable, Whole, OfDir, Early
<1> QED BY <1>7, <1>8, <1>9, <1>10, <1>11 DEF AnswerInv

LEMMA RejectRequestStep ==
    ASSUME IInv, RejectRequest
    PROVE  AnswerInv'
<1>1. /\ step = "headers" /\ Target(req) = "none" /\ step' = "answered"
      /\ wire' = [NoWire EXCEPT !.status = 404] /\ UNCHANGED routingVars
      /\ UNCHANGED <<req, listed, target, ran, called, response, file, touched,
                     tracked, job>>
  BY DEF RejectRequest
<1>2. /\ RoutingInv /\ RoutingTypeOK
      /\ AnswerTypeOK /\ RequestPart /\ TargetPart /\ ChainPart /\ BodyPart
  BY Parts
<1>3. /\ called = 0 /\ target = "none" /\ response = "OK200"
      /\ phase = "built" /\ req \in Requests /\ listed = Listed(req)
  BY <1>1, <1>2 DEF RequestPart, ChainPart, Early
<1>4. RoutingTypeOK'
  BY <1>1, <1>2, RoutingFrame DEF RoutingInv
<1>5. /\ Listed(req)' = Listed(req)
      /\ HasRoute(req)' = HasRoute(req) /\ HasStream(req)' = HasStream(req)
      /\ Key(req)' = Key(req) /\ Handlers(req)' = Handlers(req)
      /\ phase' = phase /\ manager' = manager
  BY <1>1, LookupsKept
<1>6. ~HasRoute(req) /\ ~HasStream(req)
  BY <1>1 DEF Target
<1>7. wire' = [status |-> 404, content_length |-> Unset, body |-> "none"]
  BY <1>1 DEF NoWire
<1>8. AnswerTypeOK'
  <2>1. ~(called' > 0)
    BY <1>1, <1>3
  <2>2. step' \in Steps
    BY <1>1 DEF Steps
  <2>3. wire' \in [status : Nat, content_length : Lengths \cup {Unset},
                   body : {"none", "data", "file"}]
    BY <1>7
  <2> QED BY <1>1, <1>2, <1>4, <2>1, <2>2, <2>3 DEF AnswerTypeOK, Requests, Lengths
<1>9. RequestPart'
  BY <1>1, <1>3, <1>5 DEF RequestPart, Requests
<1>10. TargetPart'
  BY <1>1, <1>3, <1>5, <1>6 DEF TargetPart
<1>11. ChainPart'
  BY <1>1, <1>3 DEF ChainPart, Early
<1>12. BodyPart'
  <2>1. wire'.body = "none"
    BY <1>7
  <2>2. tracked = Unset /\ job = Unset /\ file = Unset /\ ~touched
    BY <1>1, <1>2 DEF BodyPart, Early
  <2> QED BY <1>1, <2>1, <2>2 DEF BodyPart, Early, Whole, OfDir
<1> QED BY <1>8, <1>9, <1>10, <1>11, <1>12 DEF AnswerInv

LEMMA FinishUnlistedStep ==
    ASSUME IInv, FinishUnlisted
    PROVE  AnswerInv'
<1>1. /\ step = "accepted" /\ ~listed /\ step' = "cancelled" /\ UNCHANGED routingVars
      /\ UNCHANGED <<req, listed, target, ran, called, response, wire, file, touched,
                     tracked, job>>
  BY DEF FinishUnlisted
<1>2. /\ RoutingInv /\ RoutingTypeOK
      /\ AnswerTypeOK /\ RequestPart /\ TargetPart /\ ChainPart /\ BodyPart
  BY Parts
<1>3. /\ called = 0 /\ wire.status # 404 /\ response = "OK200"
      /\ phase = "built" /\ req \in Requests /\ listed = Listed(req)
      /\ target # "none"
  BY <1>1, <1>2 DEF RequestPart, TargetPart, ChainPart, Early
<1>4. RoutingTypeOK'
  BY <1>1, <1>2, RoutingFrame DEF RoutingInv
<1>5. /\ Listed(req)' = Listed(req)
      /\ HasRoute(req)' = HasRoute(req) /\ HasStream(req)' = HasStream(req)
      /\ Key(req)' = Key(req) /\ Handlers(req)' = Handlers(req)
      /\ phase' = phase /\ manager' = manager
  BY <1>1, LookupsKept
<1>6. AnswerTypeOK'
  <2>1. ~(called' > 0)
    BY <1>1, <1>3
  <2>2. step' \in Steps
    BY <1>1 DEF Steps
  <2> QED BY <1>1, <1>2, <1>4, <2>1, <2>2 DEF AnswerTypeOK, Requests, Lengths
<1>7. RequestPart'
  BY <1>1, <1>3, <1>5 DEF RequestPart, Requests
<1>8. TargetPart'
  BY <1>1, <1>2, <1>3, <1>5 DEF TargetPart
<1>9. ChainPart'
  BY <1>1, <1>3 DEF ChainPart, Early
<1>10. BodyPart'
  BY <1>1, <1>2 DEF BodyPart, BuiltLength, Openable, Whole, OfDir, Early
<1> QED BY <1>6, <1>7, <1>8, <1>9, <1>10 DEF AnswerInv

LEMMA FinishListedStep ==
    ASSUME IInv, FinishListed
    PROVE  AnswerInv'
<1>1. /\ step = "accepted" /\ listed /\ UNCHANGED routingVars
      /\ UNCHANGED <<req, listed, target, ran, called, response, file, touched,
                     tracked, job>>
  BY DEF FinishListed
<1>2. \/ HasRoute(req) /\ step' = "calling" /\ wire' = wire
      \/ /\ ~HasRoute(req) /\ HasStream(req) /\ step' = "opened"
         /\ wire' = [NoWire EXCEPT !.status = 200]
  BY DEF FinishListed
<1>3. /\ RoutingInv /\ RoutingTypeOK
      /\ AnswerTypeOK /\ RequestPart /\ TargetPart /\ ChainPart /\ BodyPart
  BY Parts
<1>4. /\ called = 0 /\ wire.status # 404 /\ response = "OK200"
      /\ phase = "built" /\ req \in Requests /\ listed = Listed(req)
      /\ target # "none" /\ wire.body = "none"
  BY <1>1, <1>3 DEF RequestPart, TargetPart, ChainPart, BodyPart, Early
<1>5. Handlers(req) \in Nat
  BY <1>1, UnderWay
<1>6. RoutingTypeOK'
  BY <1>1, <1>3, RoutingFrame DEF RoutingInv
<1>7. /\ Listed(req)' = Listed(req)
      /\ HasRoute(req)' = HasRoute(req) /\ HasStream(req)' = HasStream(req)
      /\ Key(req)' = Key(req) /\ Handlers(req)' = Handlers(req)
      /\ phase' = phase /\ manager' = manager
  BY <1>1, LookupsKept
<1>8. [NoWire EXCEPT !.status = 200] =
         [status |-> 200, content_length |-> Unset, body |-> "none"]
  BY DEF NoWire
<1>9. /\ wire'.body = "none" /\ wire'.status # 404
      /\ wire' \in [status : Nat, content_length : Lengths \cup {Unset},
                    body : {"none", "data", "file"}]
  <2>1. wire \in [status : Nat, content_length : Lengths \cup {Unset},
                  body : {"none", "data", "file"}]
    BY <1>3 DEF AnswerTypeOK
  <2>2. CASE wire' = wire
    BY <2>1, <2>2, <1>4
  <2>3. CASE wire' = [NoWire EXCEPT !.status = 200]
    BY <2>3, <1>8
  <2> QED BY <1>2, <2>2, <2>3
<1>10. /\ step' \in {"calling", "opened"}
       /\ step' = "calling" => target = "route"
       /\ step' = "opened" => target = "stream"
  <2>1. target \in {"route", "stream"}
    BY <1>3, <1>4 DEF AnswerTypeOK
  <2> QED BY <2>1, <1>2, <1>3 DEF TargetPart
<1>11. AnswerTypeOK'
  <2>1. ~(called' > 0)
    BY <1>1, <1>4
  <2>2. step' \in Steps
    BY <1>10 DEF Steps
  <2> QED BY <1>1, <1>3, <1>6, <1>9, <2>1, <2>2 DEF AnswerTypeOK, Requests, Lengths
<1>12. RequestPart'
  BY <1>1, <1>4, <1>7, <1>10 DEF RequestPart, Requests
<1>13. TargetPart'
  BY <1>1, <1>3, <1>7, <1>9 DEF TargetPart
<1>14. ChainPart'
  <2>1. called' = 0 /\ 0 <= Handlers(req)'
    BY <1>1, <1>4, <1>5, <1>7
  <2> QED BY <1>1, <1>4, <1>10, <2>1 DEF ChainPart, Early
<1>15. BodyPart'
  BY <1>1, <1>3, <1>4, <1>9, <1>10 DEF BodyPart
<1> QED BY <1>11, <1>12, <1>13, <1>14, <1>15 DEF AnswerInv

LEMMA CallHandlerStep ==
    ASSUME IInv, NEW out \in RouteResponses, CallHandler(out)
    PROVE  AnswerInv'
<1>1. /\ step = "calling" /\ called # Handlers(req) /\ called' = called + 1
      /\ response' = out /\ UNCHANGED routingVars
      /\ UNCHANGED <<req, step, listed, target, ran, wire, file, touched, tracked, job>>
  BY DEF CallHandler, ChainDone
<1>2. /\ RoutingInv /\ RoutingTypeOK
      /\ AnswerTypeOK /\ RequestPart /\ TargetPart /\ ChainPart /\ BodyPart
  BY Parts
<1>3. /\ phase = "built" /\ req \in Requests /\ listed = Listed(req)
      /\ Handlers(req) \in Nat /\ target = "route"
  BY <1>1, <1>2, UnderWay DEF RequestPart
<1>4. listed /\ called <= Handlers(req) /\ called \in Nat
  BY <1>1, <1>2, <1>3 DEF ChainPart, Early, AnswerTypeOK
<1>5. RoutingTypeOK'
  BY <1>1, <1>2, RoutingFrame DEF RoutingInv
<1>6. /\ Listed(req)' = Listed(req)
      /\ HasRoute(req)' = HasRoute(req) /\ HasStream(req)' = HasStream(req)
      /\ Key(req)' = Key(req) /\ Handlers(req)' = Handlers(req)
      /\ phase' = phase /\ manager' = manager
  BY <1>1, LookupsKept
<1>7. called' \in Nat /\ called' > 0 /\ called' <= Handlers(req)'
  BY <1>1, <1>3, <1>4, <1>6
<1>8. AnswerTypeOK'
  BY <1>1, <1>2, <1>5, <1>7 DEF AnswerTypeOK, Requests, Lengths
<1>9. RequestPart'
  BY <1>1, <1>3, <1>2, <1>6 DEF RequestPart, Requests
<1>10. TargetPart'
  BY <1>1, <1>2, <1>6 DEF TargetPart
<1>11. ChainPart'
  BY <1>1, <1>3, <1>4, <1>7 DEF ChainPart, Early
<1>12. BodyPart'
  BY <1>1, <1>2 DEF BodyPart, BuiltLength, Openable, Whole, OfDir
<1> QED BY <1>8, <1>9, <1>10, <1>11, <1>12 DEF AnswerInv

\* No variant is answered under a status that is not its own, and none with 404.
LEMMA StatusType ==
    ASSUME NEW r \in RouteResponses
    PROVE  WireStatus(r) \in Nat /\ WireStatus(r) # 404
BY DEF RouteResponses, WireStatus

\* The answer of a finished chain, whatever its body is.
LEMMA ChainAnswered ==
    ASSUME IInv, step = "calling", ChainDone, UNCHANGED routingVars,
           UNCHANGED <<req, listed, target, ran, called, response, touched, tracked, job>>,
           step' \in {"queued", "answered"},
           wire' \in [status : {WireStatus(response)}, content_length : Lengths \cup {Unset},
                      body : {"none", "data", "file"}],
           file' \in Files \cup {Unset}
    PROVE  /\ AnswerTypeOK' /\ RequestPart' /\ TargetPart' /\ ChainPart'
           /\ tracked' = Unset /\ job' = Unset /\ ~touched' /\ file = Unset
<1>1. /\ RoutingInv /\ RoutingTypeOK
      /\ AnswerTypeOK /\ RequestPart /\ TargetPart /\ ChainPart /\ BodyPart
  BY Parts
<1>2. /\ phase = "built" /\ req \in Requests /\ listed = Listed(req)
      /\ Handlers(req) \in Nat /\ target = "route"
  BY <1>1, UnderWay DEF RequestPart
<1>3. /\ listed /\ called = Handlers(req) /\ (called = 0 => response = "OK200")
  BY <1>1, <1>2 DEF ChainPart, Early, ChainDone
<1>4. RoutingTypeOK'
  BY <1>1, RoutingFrame DEF RoutingInv
<1>5. /\ Listed(req)' = Listed(req)
      /\ HasRoute(req)' = HasRoute(req) /\ HasStream(req)' = HasStream(req)
      /\ Key(req)' = Key(req) /\ Handlers(req)' = Handlers(req)
      /\ phase' = phase /\ manager' = manager
  BY LookupsKept
<1>6. response \in RouteResponses
  BY <1>1 DEF AnswerTypeOK
<1>7. wire'.status = WireStatus(response) /\ wire'.status \in Nat /\ wire'.status # 404
  BY <1>6, StatusType
<1>8. wire' \in [status : Nat, content_length : Lengths \cup {Unset},
                 body : {"none", "data", "file"}]
  BY <1>7
<1>9. AnswerTypeOK'
  <2>1. called' <= Handlers(req)'
    BY <1>2, <1>3, <1>5
  <2>2. step' \in Steps
    BY DEF Steps
  <2> QED BY <1>1, <1>4, <1>8, <2>1, <2>2 DEF AnswerTypeOK, Requests, Lengths
<1>10. RequestPart'
  BY <1>2, <1>5 DEF RequestPart, Requests
<1>11. TargetPart'
  BY <1>1, <1>5, <1>7 DEF TargetPart
<1>12. ChainPart'
  <2>1. WireStatus(response)' = WireStatus(response)
    BY DEF WireStatus
  <2>2. called' = Handlers(req)' /\ called' <= Handlers(req)'
    BY <1>2, <1>3, <1>5
  <2> QED BY <1>2, <1>3, <1>7, <2>1, <2>2 DEF ChainPart, Early
<1>13. tracked' = Unset /\ job' = Unset /\ ~touched' /\ file = Unset
  BY <1>1 DEF BodyPart
<1> QED BY <1>9, <1>10, <1>11, <1>12, <1>13

LEMMA RespondOk200Step ==
    ASSUME IInv, RespondOk200
    PROVE  AnswerInv'
<1>1. /\ step = "calling" /\ ChainDone /\ step' = "answered" /\ UNCHANGED routingVars
      /\ wire' = [NoWire EXCEPT !.status = WireStatus(response)]
      /\ UNCHANGED <<req, listed, target, ran, called, response, file, touched,
                     tracked, job>>
  BY DEF RespondOk200
<1>2. wire' = [status |-> WireStatus(response), content_length |-> Unset, body |-> "none"]
  BY <1>1 DEF NoWire
<1>3. wire' \in [status : {WireStatus(response)}, content_length : Lengths \cup {Unset},
                 body : {"none", "data", "file"}]
  BY <1>2
<1>4. file' \in Files \cup {Unset}
  BY <1>1, Parts DEF AnswerTypeOK
<1>5. /\ AnswerTypeOK' /\ RequestPart' /\ TargetPart' /\ ChainPart'
      /\ tracked' = Unset /\ job' = Unset /\ ~touched' /\ file = Unset
  BY <1>1, <1>3, <1>4, ChainAnswered
<1>6. BodyPart'
  <2>1. wire'.body = "none"
    BY <1>2
  <2> QED BY <1>1, <1>5, <2>1 DEF BodyPart, Early, Whole, OfDir
<1> QED BY <1>5, <1>6 DEF AnswerInv

LEMMA RespondWithFileStep ==
    ASSUME IInv, NEW f \in Files, RespondWithFile(f)
    PROVE  AnswerInv'
<1>1. /\ step = "calling" /\ ChainDone /\ step' = "queued" /\ UNCHANGED routingVars
      /\ wire' = [status |-> WireStatus(response), body |-> "file",
                  content_length |-> BuiltLength(f)]
      /\ file' = f
      /\ UNCHANGED <<req, listed, target, ran, called, response, touched, tracked, job>>
  BY DEF RespondWithFile
<1>2. BuiltLength(f) \in Lengths
  BY DEF BuiltLength, Lengths, Files
<1>3. wire' \in [status : {WireStatus(response)}, content_length : Lengths \cup {Unset},
                 body : {"none", "data", "file"}]
  BY <1>1, <1>2
<1>4. file' \in Files \cup {Unset}
  BY <1>1
<1>5. /\ AnswerTypeOK' /\ RequestPart' /\ TargetPart' /\ ChainPart'
      /\ tracked' = Unset /\ job' = Unset /\ ~touched' /\ file = Unset
  BY <1>1, <1>3, <1>4, ChainAnswered
<1>6. BodyPart'
  <2>1. wire'.body = "file" /\ wire'.content_length = BuiltLength(f)
    BY <1>1
  <2>2. BuiltLength(file)' = BuiltLength(f)
    BY <1>1 DEF BuiltLength
  <2> QED BY <1>1, <1>5, <2>1, <2>2 DEF BodyPart, Early, Whole, OfDir, Openable
<1> QED BY <1>5, <1>6 DEF AnswerInv

LEMMA RespondWithDataStep ==
    ASSUME IInv, NEW size \in DataSizes, RespondWithData(size)
    PROVE  AnswerInv'
<1>1. /\ step = "calling" /\ ChainDone /\ step' = "queued" /\ UNCHANGED routingVars
      /\ wire' = [status |-> WireStatus(response), body |-> "data",
                  content_length |-> size]
      /\ UNCHANGED <<req, listed, target, ran, called, response, file, touched,
                     tracked, job>>
  BY DEF RespondWithData
<1>2. wire' \in [status : {WireStatus(response)}, content_length : Lengths \cup {Unset},
                 body : {"none", "data", "file"}]
  BY <1>1 DEF Lengths
<1>3. file' \in Files \cup {Unset}
  BY <1>1, Parts DEF AnswerTypeOK
<1>4. /\ AnswerTypeOK' /\ RequestPart' /\ TargetPart' /\ ChainPart'
      /\ tracked' = Unset /\ job' = Unset /\ ~touched' /\ file = Unset
  BY <1>1, <1>2, <1>3, ChainAnswered
<1>5. BodyPart'
  <2>1. wire'.body = "data" /\ wire'.content_length = size
    BY <1>1
  <2> QED BY <1>1, <1>4, <2>1 DEF BodyPart, Early
<1> QED BY <1>4, <1>5 DEF AnswerInv

\* The steps behind a queued answer change neither the request nor the answer.
LEMMA QueuedFrame ==
    ASSUME IInv, step \in {"queued", "tracked", "chunking"}, UNCHANGED routingVars,
           UNCHANGED <<req, listed, target, ran, called, response, wire>>,
           step' \in {"queued", "tracked", "chunking", "answered", "stuck",
                         "server_down"},
           file' \in Files \cup {Unset}, touched' \in BOOLEAN,
           tracked' \in Lengths \cup {Unset}, job' \in Jobs \cup {Unset}
    PROVE  /\ AnswerTypeOK' /\ RequestPart' /\ TargetPart' /\ ChainPart'
<1>1. /\ RoutingInv /\ RoutingTypeOK
      /\ AnswerTypeOK /\ RequestPart /\ TargetPart /\ ChainPart
  BY Parts
<1>2. /\ phase = "built" /\ req \in Requests /\ listed = Listed(req)
      /\ Handlers(req) \in Nat /\ target = "route"
  BY <1>1, UnderWay DEF RequestPart
<1>3. /\ listed /\ called = Handlers(req) /\ (called = 0 => response = "OK200")
      /\ wire.status = WireStatus(response)
  BY <1>1, <1>2 DEF ChainPart, Early
<1>4. RoutingTypeOK'
  BY <1>1, RoutingFrame DEF RoutingInv
<1>5. /\ Listed(req)' = Listed(req)
      /\ HasRoute(req)' = HasRoute(req) /\ HasStream(req)' = HasStream(req)
      /\ Key(req)' = Key(req) /\ Handlers(req)' = Handlers(req)
      /\ phase' = phase /\ manager' = manager
  BY LookupsKept
<1>6. AnswerTypeOK'
  <2>1. called' <= Handlers(req)'
    BY <1>2, <1>3, <1>5
  <2>2. step' \in Steps
    BY DEF Steps
  <2> QED BY <1>1, <1>4, <2>1, <2>2 DEF AnswerTypeOK, Requests, Lengths
<1>7. RequestPart'
  BY <1>2, <1>5 DEF RequestPart, Requests
<1>8. TargetPart'
  <2>1. wire.status # 404
    BY <1>1 DEF TargetPart
  <2> QED BY <1>1, <1>5, <2>1 DEF TargetPart
<1>9. ChainPart'
  <2>1. WireStatus(response)' = WireStatus(response)
    BY DEF WireStatus
  <2>2. called' = Handlers(req)' /\ called' <= Handlers(req)'
    BY <1>2, <1>3, <1>5
  <2> QED BY <1>2, <1>3, <2>1, <2>2 DEF ChainPart, Early
<1> QED BY <1>6, <1>7, <1>8, <1>9

LEMMA FileChangesStep ==
    ASSUME IInv, NEW f \in Files, FileChanges(f)
    PROVE  AnswerInv'
<1>1. /\ wire.body = "file" /\ step \in {"queued", "tracked"} /\ file' = f
      /\ touched' = TRUE /\ step' = step /\ UNCHANGED routingVars
      /\ UNCHANGED <<req, listed, target, ran, called, response, wire, tracked, job>>
  BY DEF FileChanges
<1>2. AnswerTypeOK /\ BodyPart
  BY Parts
<1>3. /\ step' \in {"queued", "tracked", "chunking", "answered", "stuck", "server_down"}
      /\ file' \in Files \cup {Unset} /\ touched' \in BOOLEAN
      /\ tracked' \in Lengths \cup {Unset} /\ job' \in Jobs \cup {Unset}
  BY <1>1, <1>2 DEF AnswerTypeOK
<1>4. AnswerTypeOK' /\ RequestPart' /\ TargetPart' /\ ChainPart'
  BY <1>1, <1>3, QueuedFrame
<1>5. BodyPart'
  BY <1>1, <1>2 DEF BodyPart, Early
<1> QED BY <1>4, <1>5 DEF AnswerInv

\* What bytes_len gives for the body of a queued answer that can be opened.
LEMMA BytesLenIs ==
    ASSUME IInv, step \in {"queued", "tracked"}, BodyOpens
    PROVE  /\ BytesLen \in Lengths /\ BytesLen # Unset
           /\ ~touched /\ Whole => BytesLen = wire.content_length
           /\ OfDir => BytesLen = file.len
<1>1. BodyPart /\ AnswerTypeOK
  BY Parts
<1>2. wire.body \in {"data", "file"}
  BY <1>1 DEF BodyPart, AnswerTypeOK
<1>3. Lengths \subseteq Nat
  BY SizesAssumption DEF Lengths
<1>4. CASE wire.body = "data"
  BY <1>1, <1>3, <1>4, SizesAssumption DEF BodyPart, BytesLen, Lengths, OfDir
<1>5. CASE wire.body = "file"
  <2>1. file \in Files /\ Openable(file)
    BY <1>1, <1>5 DEF BodyPart, BodyOpens
  <2>2. file # Missing /\ file.len \in FileSizes \cup DirSizes
    BY <2>1 DEF Openable, Files
  <2>3. BytesLen = file.len
    BY <1>5 DEF BytesLen
  <2>4. Whole => BuiltLength(file) = file.len
    BY <1>5, <2>2 DEF Whole, BuiltLength
  <2> QED BY <1>1, <1>3, <1>5, <2>2, <2>3, <2>4, SizesAssumption DEF BodyPart, Lengths
<1> QED BY <1>2, <1>4, <1>5

\* The file, the answer and what is known of them stay.
LEMMA BodyFrame ==
    ASSUME UNCHANGED <<wire, file>>
    PROVE  /\ BuiltLength(file)' = BuiltLength(file) /\ Openable(file)' = Openable(file)
           /\ Whole' = Whole /\ OfDir' = OfDir
BY DEF BuiltLength, Openable, Whole, OfDir

LEMMA SendHeaderStep ==
    ASSUME IInv, SendHeader
    PROVE  AnswerInv'
<1>1. /\ step = "queued" /\ UNCHANGED routingVars
      /\ UNCHANGED <<req, listed, target, ran, called, response, wire, file, touched, job>>
      /\ \/ ~BodyOpens /\ step' = "server_down" /\ tracked' = tracked
         \/ BodyOpens /\ BytesLen = 0 /\ step' = "answered" /\ tracked' = tracked
         \/ BodyOpens /\ BytesLen # 0 /\ step' = "tracked" /\ tracked' = BytesLen
  BY DEF SendHeader
<1>2. AnswerTypeOK /\ BodyPart
  BY Parts
<1>3. BodyOpens => /\ BytesLen \in Lengths /\ BytesLen # Unset
                   /\ ~touched /\ Whole => BytesLen = wire.content_length
                   /\ OfDir => BytesLen = file.len
  BY <1>1, BytesLenIs
<1>4. /\ step' \in {"queued", "tracked", "chunking", "answered", "stuck", "server_down"}
      /\ file' \in Files \cup {Unset} /\ touched' \in BOOLEAN
      /\ tracked' \in Lengths \cup {Unset} /\ job' \in Jobs \cup {Unset}
  BY <1>1, <1>2, <1>3 DEF AnswerTypeOK
<1>5. AnswerTypeOK' /\ RequestPart' /\ TargetPart' /\ ChainPart'
  BY <1>1, <1>4, QueuedFrame
<1>6. BodyPart'
  <2>1. /\ BuiltLength(file)' = BuiltLength(file) /\ Openable(file)' = Openable(file)
        /\ Whole' = Whole /\ OfDir' = OfDir
    BY <1>1, BodyFrame
  <2>2. wire.body # "none" /\ job = Unset
    BY <1>1, <1>2 DEF BodyPart
  <2>3. ~BodyOpens => wire.body = "file" /\ ~Openable(file)
    BY DEF BodyOpens
  <2> QED BY <1>1, <1>2, <1>3, <2>1, <2>2, <2>3 DEF BodyPart, Early
<1> QED BY <1>5, <1>6 DEF AnswerInv

LEMMA SendBodyToChunkingStationStep ==
    ASSUME IInv, SendBodyToChunkingStation
    PROVE  AnswerInv'
<1> DEFINE reads == wire.body = "file" => file.kind = "file"
           made == [len |-> BytesLen, reads |-> reads]
<1>1. /\ step = "tracked" /\ UNCHANGED routingVars
      /\ UNCHANGED <<req, listed, target, ran, called, response, wire, file, touched,
                     tracked>>
      /\ \/ ~BodyOpens /\ step' = "stuck" /\ job' = job
         \/ BodyOpens /\ step' = "chunking" /\ job' = made
  BY DEF SendBodyToChunkingStation
<1>2. AnswerTypeOK /\ BodyPart
  BY Parts
<1>3. BodyOpens => /\ BytesLen \in Lengths /\ BytesLen # Unset
                   /\ ~touched /\ Whole => BytesLen = wire.content_length
                   /\ OfDir => BytesLen = file.len
  BY <1>1, BytesLenIs
<1>4. made.len = BytesLen /\ made.reads = reads
  OBVIOUS
<1>5. (Whole => reads) /\ (OfDir => ~reads) /\ (~reads => wire.body = "file")
  BY DEF Whole, OfDir
<1>6. BodyOpens => made \in Jobs /\ made # Unset
  <2>1. reads \in BOOLEAN /\ Lengths \subseteq Nat
    BY SizesAssumption DEF Lengths
  <2>2. \A l \in Lengths, b \in BOOLEAN :
           /\ [len |-> l, reads |-> b] \in Jobs
           /\ [len |-> l, reads |-> b] \in [len : Nat, reads : BOOLEAN]
    BY <2>1 DEF Jobs
  <2> HIDE DEF reads
  <2> QED BY <1>3, <2>1, <2>2, SizesAssumption
<1> HIDE DEF made, reads
<1>7. /\ step' \in {"queued", "tracked", "chunking", "answered", "stuck", "server_down"}
      /\ file' \in Files \cup {Unset} /\ touched' \in BOOLEAN
      /\ tracked' \in Lengths \cup {Unset} /\ job' \in Jobs \cup {Unset}
  BY <1>1, <1>2, <1>6 DEF AnswerTypeOK
<1>8. AnswerTypeOK' /\ RequestPart' /\ TargetPart' /\ ChainPart'
  BY <1>1, <1>7, QueuedFrame
<1>9. BodyPart'
  <2>1. /\ BuiltLength(file)' = BuiltLength(file) /\ Openable(file)' = Openable(file)
        /\ Whole' = Whole /\ OfDir' = OfDir
    BY <1>1, BodyFrame
  <2>2. wire.body # "none" /\ job = Unset
    BY <1>1, <1>2 DEF BodyPart
  <2>3. ~BodyOpens => wire.body = "file" /\ ~Openable(file)
    BY DEF BodyOpens
  <2> QED BY <1>1, <1>2, <1>3, <1>4, <1>5, <1>6, <2>1, <2>2, <2>3 DEF BodyPart, Early
<1> QED BY <1>8, <1>9 DEF AnswerInv

LEMMA ReadBodyStep ==
    ASSUME IInv, ReadBody
    PROVE  AnswerInv'
<1>1. /\ step = "chunking" /\ UNCHANGED routingVars
      /\ UNCHANGED <<req, listed, target, ran, called, response, wire, file, touched,
                     tracked, job>>
      /\ step' = IF job.reads THEN "answered" ELSE "stuck"
  BY DEF ReadBody
<1>2. AnswerTypeOK /\ BodyPart
  BY Parts
<1>3. /\ step' \in {"queued", "tracked", "chunking", "answered", "stuck", "server_down"}
      /\ file' \in Files \cup {Unset} /\ touched' \in BOOLEAN
      /\ tracked' \in Lengths \cup {Unset} /\ job' \in Jobs \cup {Unset}
  BY <1>1, <1>2 DEF AnswerTypeOK
<1>4. AnswerTypeOK' /\ RequestPart' /\ TargetPart' /\ ChainPart'
  BY <1>1, <1>3, QueuedFrame
<1>5. BodyPart'
  <2>1. /\ BuiltLength(file)' = BuiltLength(file) /\ Openable(file)' = Openable(file)
        /\ Whole' = Whole /\ OfDir' = OfDir
    BY <1>1, BodyFrame
  <2>2. wire.body # "none" /\ job # Unset
    BY <1>1, <1>2 DEF BodyPart
  <2>3. ~job.reads => wire.body = "file"
    BY <1>1, <1>2 DEF BodyPart
  <2> QED BY <1>1, <1>2, <2>1, <2>2, <2>3 DEF BodyPart, Early
<1> QED BY <1>4, <1>5 DEF AnswerInv

-------------------------------------------------------------------------------
(***************************************************************************)
(* The theorems.                                                           *)
(***************************************************************************)

LEMMA InitHolds == AnswerInit => IInv
<1> SUFFICES ASSUME AnswerInit PROVE IInv
  OBVIOUS
<1>1. /\ phase = "building" /\ forms = Empty /\ globals = <<>> /\ sessions = "own"
      /\ streams = [g \in Registries |-> Empty] /\ error404 = FALSE
      /\ manager = Empty /\ log = <<>>
      /\ req = Unset /\ step = "none" /\ listed = FALSE /\ target = "none"
      /\ ran = <<>> /\ called = 0 /\ response = "OK200" /\ wire = NoWire
      /\ file = Unset /\ touched = FALSE /\ tracked = Unset /\ job = Unset
  BY DEF AnswerInit, RoutingInit
<1>2. DOMAIN Empty = {}
  BY DEF Empty
<1>3. Len(log) = 0 /\ log \in Seq(Calls) /\ globals \in Seq(Globals) /\ Len(globals) = 0
  BY <1>1
<1>4. RoutingTypeOK
  <2>1. DOMAIN forms = {} /\ ToSet(globals) = {}
    BY <1>1, <1>2, <1>3 DEF ToSet
  <2>2. DOMAIN streams = Registries /\ \A g \in Registries : DOMAIN streams[g] = {}
    BY <1>1, <1>2
  <2>3. Len(log) <= MaxCalls
    BY <1>3, RoutingAssumption
  <2>4. sessions \in Registries
    BY <1>1 DEF Registries
  <2> QED BY <1>1, <2>1, <2>2, <2>3, <2>4 DEF RoutingTypeOK
<1>5. LogPart
  BY <1>3 DEF LogPart
<1>6. GlobalsPart
  <2>1. {j \in 1..0 : log[j].op = "global"} = {}
    OBVIOUS
  <2>2. GlobalsAmong(0) = 0
    BY <2>1, FS_EmptySet DEF GlobalsAmong
  <2> QED BY <1>3, <2>2 DEF GlobalsPart
<1>7. FormsPart
  BY <1>1, <1>2, <1>3 DEF FormsPart
<1>8. BuiltPart
  BY <1>1 DEF BuiltPart
<1>9. AnswerTypeOK
  <2>1. wire \in [status : Nat, content_length : Lengths \cup {Unset},
                  body : {"none", "data", "file"}]
    BY <1>1 DEF NoWire
  <2>2. called \in Nat /\ ~(called > 0)
    BY <1>1
  <2>3. step \in Steps /\ response \in RouteResponses
    BY <1>1 DEF Steps, RouteResponses
  <2> QED BY <1>1, <1>4, <2>1, <2>2, <2>3, Zenon DEF AnswerTypeOK
<1>10. RequestPart
  BY <1>1 DEF RequestPart
<1>11. TargetPart
  BY <1>1 DEF TargetPart, NoWire
<1>12. ChainPart
  BY <1>1 DEF ChainPart
<1>13. BodyPart
  BY <1>1 DEF BodyPart, NoWire
<1> QED BY <1>4, <1>5, <1>6, <1>7, <1>8, <1>9, <1>10, <1>11, <1>12, <1>13
        DEF IInv, RoutingInv, AnswerInv

\* A step of the builder, of this manager or of another.
LEMMA BuilderStep ==
    ASSUME IInv, BuilderNext, UNCHANGED answerVars
    PROVE  IInv'
<1>1. RoutingInv
  BY Parts
<1>2. CASE \E p \in Paths, s \in StreamShapes : LateStream(p, s)
  <2>1. PICK p \in Paths, s \in StreamShapes : LateStream(p, s)
    BY <1>2
  <2>2. /\ RoutingInv'
        /\ manager.late \subseteq manager'.late
        /\ manager'.routes = manager.routes /\ manager'.accepted = manager.accepted
        /\ manager'.dispatcher = manager.dispatcher
        /\ DOMAIN streams[sessions] \subseteq DOMAIN streams'[sessions]
        /\ DOMAIN streams'[sessions] \subseteq DOMAIN streams[sessions] \cup manager'.late
    BY <1>1, <2>1, LateStreamStep
  <2>3. phase' = phase /\ sessions' = sessions /\ RoutingTypeOK'
    BY <2>1, <2>2 DEF LateStream, RoutingInv
  <2>4. AnswerInv'
    BY <2>2, <2>3, LateStreamKeeps
  <2> QED BY <2>2, <2>4 DEF IInv
<1>3. ASSUME RoutingInv', phase # "built" PROVE IInv'
  BY <1>3, BuildingKeeps DEF IInv, RoutingInv
<1>4. ASSUME NEW mw \in Globals, GlobalMiddleware(mw) PROVE IInv'
  BY <1>1, <1>3, <1>4, GlobalMiddlewareStep DEF GlobalMiddleware, Called
<1>5. ASSUME NEW p \in Paths, NEW m \in Methods, NEW s \in RouteShapes, AddRoute(p, m, s)
      PROVE  IInv'
  BY <1>1, <1>3, <1>5, AddRouteStep DEF AddRoute, Called
<1>6. ASSUME NEW p \in Paths, NEW s \in StreamShapes, DownStream(p, s) PROVE IInv'
  BY <1>1, <1>3, <1>6, DownStreamStep DEF DownStream, Called
<1>7. CASE WithStreamSessions
  BY <1>1, <1>3, <1>7, WithStreamSessionsStep DEF WithStreamSessions, Called
<1>8. CASE SetErrorHandler
  BY <1>1, <1>3, <1>8, SetErrorHandlerStep DEF SetErrorHandler, Called
<1>9. CASE Build
  BY <1>1, <1>3, <1>9, BuildStep DEF Build
<1> QED BY <1>2, <1>4, <1>5, <1>6, <1>7, <1>8, <1>9, Zenon DEF BuilderNext

\* A step of the request leaves the tables alone.
LEMMA StepHolds == IInv /\ [AnswerNext]_allVars => IInv'
<1> SUFFICES ASSUME IInv, [AnswerNext]_allVars PROVE IInv'
  OBVIOUS
<1>1. RoutingInv
  BY Parts
<1>2. ASSUME AnswerInv', UNCHANGED routingVars PROVE IInv'
  BY <1>1, <1>2, RoutingFrame DEF IInv
<1>3. CASE UNCHANGED allVars
  <2>1. UNCHANGED routingVars /\ UNCHANGED answerVars
    BY <1>3 DEF allVars
  <2>2. UNCHANGED <<phase, streams, sessions, manager>>
    BY <2>1 DEF routingVars
  <2>3. RoutingInv'
    BY <1>1, <2>1, RoutingFrame
  <2>4. AnswerInv'
    BY <2>1, <2>2, <2>3, LateStreamKeeps DEF RoutingInv
  <2> QED BY <2>3, <2>4 DEF IInv
<1>4. CASE BuilderNext /\ UNCHANGED answerVars
  BY <1>4, BuilderStep
<1>5. ASSUME NEW r \in Requests, Headers(r) PROVE IInv'
  BY <1>2, <1>5, HeadersStep DEF Headers
<1>6. CASE RouteRequest
  BY <1>2, <1>6, RouteRequestStep DEF RouteRequest
<1>7. CASE RejectRequest
  BY <1>2, <1>7, RejectRequestStep DEF RejectRequest
<1>8. CASE FinishUnlisted
  BY <1>2, <1>8, FinishUnlistedStep DEF FinishUnlisted
<1>9. CASE FinishListed
  BY <1>2, <1>9, FinishListedStep DEF FinishListed
<1>10. ASSUME NEW out \in RouteResponses, CallHandler(out) PROVE IInv'
  BY <1>2, <1>10, CallHandlerStep DEF CallHandler
<1>11. CASE RespondOk200
  BY <1>2, <1>11, RespondOk200Step DEF RespondOk200
<1>12. ASSUME NEW f \in Files, RespondWithFile(f) PROVE IInv'
  BY <1>2, <1>12, RespondWithFileStep DEF RespondWithFile
<1>13. ASSUME NEW f \in Files, FileChanges(f) PROVE IInv'
  BY <1>2, <1>13, FileChangesStep DEF FileChanges
<1>14. ASSUME NEW size \in DataSizes, RespondWithData(size) PROVE IInv'
  BY <1>2, <1>14, RespondWithDataStep DEF RespondWithData
<1>15. CASE SendHeader
  BY <1>2, <1>15, SendHeaderStep DEF SendHeader
<1>16. CASE SendBodyToChunkingStation
  BY <1>2, <1>16, SendBodyToChunkingStationStep DEF SendBodyToChunkingStation
<1>17. CASE ReadBody
  BY <1>2, <1>17, ReadBodyStep DEF ReadBody
<1> QED BY <1>3, <1>4, <1>5, <1>6, <1>7, <1>8, <1>9, <1>10, <1>11, <1>12, <1>13, <1>14,
           <1>15, <1>16, <1>17, Zenon DEF AnswerNext

\* The inductive invariant: the builder's tables are what its calls ask for, and
\* a request is answered from the tables it was looked up in.
THEOREM Invariance == AnswerSpec => []IInv
BY InitHolds, StepHolds, PTL DEF AnswerSpec

\* Every variable keeps its type, and no more handlers are called than the
\* dispatcher has for the request.
THEOREM TypeCorrect == AnswerSpec => []AnswerTypeOK
<1>1. IInv => AnswerTypeOK
  BY Parts
<1> QED BY <1>1, Invariance, PTL

\* A request of a route runs through the global middlewares registered before
\* the route, in their order, and then through the route's own.
THEOREM MiddlewaresAreOrdered == AnswerSpec => []MiddlewaresInOrder
<1>1. IInv => MiddlewaresInOrder
  <2> SUFFICES ASSUME IInv, target = "route" PROVE \E i \in RouteCalls(req) : Owed(ran, i)
    BY DEF MiddlewaresInOrder
  <2>1. RoutingInv /\ RequestPart /\ TargetPart
    BY Parts
  <2>2. phase = "built" /\ req \in Requests
    BY <2>1 DEF RequestPart
  <2>3. HasRoute(req) /\ ran = manager.routes[Key(req)].mws
    BY <2>1 DEF TargetPart
  <2> QED BY <2>1, <2>2, <2>3, RouteIsOwed
<1> QED BY <1>1, Invariance, PTL

\* The tables of verifier, header processor and dispatcher agree for every plain
\* request whose path no other builder added.
THEOREM TablesAlwaysAgree == AnswerSpec => []TablesAgree
<1>1. IInv => TablesAgree
  <2> SUFFICES ASSUME IInv, req # Unset, ~req.query, req.path \notin manager.late
               PROVE  /\ step # "cancelled"
                      /\ target = "route" => RouteCalls(req) # {}
                      /\ step # "none" /\ RouteCalls(req) # {} =>
                            wire.status # 404 /\ step # "opened"
                      /\ wire.status = 404 => ~HasStream(req)
    BY DEF TablesAgree
  <2>1. RoutingInv /\ AnswerTypeOK /\ RequestPart /\ TargetPart
    BY Parts
  <2>2. phase = "built" /\ req \in Requests /\ listed = Listed(req)
    BY <2>1 DEF RequestPart
  <2>3. step # "cancelled"
    <3>1. SUFFICES ASSUME step = "cancelled" PROVE FALSE
      OBVIOUS
    <3>2. target \in {"route", "stream"} /\ ~listed
      BY <2>1, <3>1 DEF RequestPart, AnswerTypeOK
    <3>3. HasRoute(req) \/ HasStream(req)
      BY <2>1, <3>2 DEF TargetPart
    <3>4. req.path \in manager.accepted
      BY <2>1, <2>2, <3>3, FoundIsAccepted
    <3> QED BY <2>2, <3>2, <3>4 DEF Listed
  <2>4. target = "route" => RouteCalls(req) # {}
    BY <2>1, <2>2, RouteIsOwed DEF TargetPart
  <2>5. RouteCalls(req) # {} => wire.status # 404 /\ step # "opened"
    BY <2>1, <2>2, CalledIsFound DEF TargetPart, RequestPart
  <2>6. wire.status = 404 => ~HasStream(req)
    BY <2>1 DEF TargetPart
  <2> QED BY <2>3, <2>4, <2>5, <2>6
<1> QED BY <1>1, Invariance, PTL

\* What is queued for a route is what the last of its handlers returned, under
\* the status the variant is named after, and every handler was called.
THEOREM LastHandlerDecides == AnswerSpec => []LastHandlerAnswers
<1>1. ASSUME NEW r \in RouteResponses PROVE WireStatus(r) = Promised[r]
  <2>1. CASE r \in {"OK200", "OK200_DATA", "OK200_JSON", "OK200_FILE"}
    BY <2>1 DEF WireStatus, Promised
  <2>2. CASE r \in {"ERROR401", "ERROR403", "ERROR409"}
    BY <2>2 DEF WireStatus, Promised
  <2>3. CASE r \in {"ERROR422", "ERROR428", "ERROR503"}
    BY <2>3 DEF WireStatus, Promised
  <2> QED BY <2>1, <2>2, <2>3 DEF RouteResponses
<1>2. IInv => LastHandlerAnswers
  <2> SUFFICES ASSUME IInv, step \in {"queued", "tracked", "chunking", "answered"},
                      target = "route"
               PROVE  /\ \E i \in RouteCalls(req) : called = log[i].handlers
                      /\ called = 0 => response = "OK200"
                      /\ wire.status = Promised[response]
    BY DEF LastHandlerAnswers
  <2>1. RoutingInv /\ AnswerTypeOK /\ RequestPart /\ TargetPart /\ ChainPart
    BY Parts
  <2>2. /\ phase = "built" /\ req \in Requests /\ listed = Listed(req) /\ HasRoute(req)
    BY <2>1 DEF RequestPart, TargetPart
  <2>3. /\ listed /\ called = Handlers(req) /\ (called = 0 => response = "OK200")
        /\ wire.status = WireStatus(response)
    BY <2>1 DEF ChainPart, Early
  <2>4. ~req.query
    BY <2>2, <2>3 DEF Listed
  <2>5. \E i \in RouteCalls(req) : called = log[i].handlers
    BY <2>1, <2>2, <2>3, <2>4, RouteIsOwed
  <2>6. wire.status = Promised[response]
    BY <1>1, <2>1, <2>3 DEF AnswerTypeOK
  <2> QED BY <2>3, <2>5, <2>6
<1> QED BY <1>2, Invariance, PTL

\* The three lengths of a body in memory or in a readable file are the same
\* unless what its path leads to changed after the answer was built; a directory
\* is announced as empty; only what cannot be opened stops the server, and only
\* what cannot be opened or read leaves an answer unfinished.
THEOREM StableBodyStaysWhole == AnswerSpec => []StableBodyIsWhole
<1>1. IInv => StableBodyIsWhole
  <2> SUFFICES ASSUME IInv PROVE StableBodyIsWhole
    OBVIOUS
  <2>1. BodyPart
    BY Parts
  <2>2. ASSUME ~touched, Whole
        PROVE  /\ tracked # Unset => tracked = wire.content_length
               /\ job # Unset => job.len = wire.content_length
               /\ step = "answered" /\ wire.body # "none" /\ wire.content_length # 0
                     => job # Unset
               /\ step \notin {"server_down", "stuck"}
    <3>1. wire.body = "file" => Openable(file)
      BY <2>2 DEF Whole
    <3> QED BY <2>1, <2>2, <3>1 DEF BodyPart
  <2>3. ASSUME ~touched, OfDir
        PROVE  wire.content_length = 0 /\ (step = "answered" => file.len = 0)
    <3>1. BuiltLength(file) = 0 /\ wire.body = "file"
      BY <2>3 DEF OfDir, BuiltLength
    <3> QED BY <2>1, <2>3, <3>1 DEF BodyPart
  <2>4. step = "server_down" => wire.body = "file" /\ ~Openable(file)
    BY <2>1 DEF BodyPart
  <2>5. step = "stuck" => /\ wire.body = "file"
                          /\ IF job = Unset THEN ~Openable(file) ELSE ~job.reads
    BY <2>1 DEF BodyPart
  <2> QED BY <2>2, <2>3, <2>4, <2>5 DEF StableBodyIsWhole, Whole, OfDir
<1> QED BY <1>1, Invariance, PTL
===============================================================================
