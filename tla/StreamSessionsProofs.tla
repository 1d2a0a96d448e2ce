------------------------- MODULE StreamSessionsProofs -------------------------
(***************************************************************************)
(* Proofs about StreamSessions: its type invariant, what the result of a   *)
(* sending says, and for whom a capsule is queued, for any number of       *)
(* users, connections, streams and application threads.                    *)
(***************************************************************************)
EXTENDS StreamSessions, TLAPS, SequenceTheorems, FiniteSetTheorems

\* a is a prefix of ts.
Begins(a, ts) == Len(a) <= Len(ts) /\ \A i \in 1..Len(a) : a[i] = ts[i]

\* Only streams that asked for a session are registered.
RegistryPart ==
    \A c \in Conns : reg[c] # NoSession => <<c, reg[c].stream>> \in Targets

\* Under the lock: all targets are still those of the user; an absent queue is
\* among the ones not resolved yet; what was sent is what comes before next.
SendingPart(o) ==
    o.pc # "idle" =>
        /\ o.next <= Len(o.targets) /\ o.res = "none"
        /\ \A i \in 1..Len(o.targets) : Registered(o.user, o.targets[i])
        /\ o.pc = "resolve" =>
              /\ o.accepted = <<>>
              /\ o.absent => \E j \in o.next..Len(o.targets) :
                                ~Live(o.targets[j])
        /\ o.pc = "prepare" => ~o.absent /\ o.accepted = <<>>
        /\ o.pc = "send" => ~o.absent /\ Len(o.accepted) = o.next - 1
        /\ o.pc = "wake" => ~o.absent /\ Len(o.accepted) = Len(o.targets)

\* What was accepted, and what the result says of it.
ResultPart(o) ==
    /\ Begins(o.accepted, o.targets)
    /\ o.res # "none" =>
          /\ o.res = "ok" <=> /\ o.targets # <<>>
                             /\ Len(o.accepted) = Len(o.targets)
                             /\ o.woke = "yes"
          /\ o.accepted # <<>> => o.woke # "no"
    /\ o.absent => o.accepted = <<>>

\* The inductive invariant.
IInv == /\ TypeOK /\ RegistryPart
        /\ \A s \in Senders : SendingPart(op[s]) /\ ResultPart(op[s])

-------------------------------------------------------------------------------
(***************************************************************************)
(* The targets of a sending.                                               *)
(***************************************************************************)

\* What an application thread is doing.
OpType == [pc : {"idle", "resolve", "prepare", "send", "wake"},
           user : Users \cup {NoSession},
           targets : Seq(Targets), next : Nat \ {0}, absent : BOOLEAN,
           accepted : Seq(Targets), woke : {"no", "yes", "failed"},
           res : {"none", "ok", "err"}, ops : 0..MaxOps]

\* The registered sessions of a user are streams that asked for one, they are
\* finitely many, and each is registered to the user.
LEMMA SessionsOfUser ==
    ASSUME TypeOK, RegistryPart, NEW u \in Users
    PROVE  /\ SessionsOf(u) \subseteq Targets /\ IsFiniteSet(SessionsOf(u))
           /\ \A t \in SessionsOf(u) : Registered(u, t)
<1> DEFINE D == {d \in Conns : reg[d] # NoSession /\ reg[d].user = u}
           f == [c \in D |-> <<c, reg[c].stream>>]
<1>1. SessionsOf(u) = {<<c, reg[c].stream>> : c \in D}
  BY DEF SessionsOf
<1>2. IsFiniteSet(D)
  BY SessionsAssumption, FS_Subset
<1>3. f \in Surjection(D, SessionsOf(u))
  BY <1>1 DEF Surjection
<1>4. IsFiniteSet(SessionsOf(u))
  BY <1>2, <1>3, FS_Surjection
<1>5. SessionsOf(u) \subseteq Targets
  BY <1>1 DEF RegistryPart
<1>6. ASSUME NEW c \in D PROVE Registered(u, <<c, reg[c].stream>>)
  <2>1. reg[c] \in [user : Users, stream : StreamIds] /\ reg[c].user = u
    BY DEF TypeOK, Sessions
  <2>2. reg[c] = [user |-> u, stream |-> reg[c].stream]
    BY <2>1
  <2> QED
    BY <2>2 DEF Registered
<1> QED
  BY <1>1, <1>4, <1>5, <1>6

\* An order of finitely many targets is a sequence of them.
LEMMA OrderIsSequence ==
    ASSUME NEW T \in SUBSET Targets, IsFiniteSet(T), NEW ts \in Orders(T)
    PROVE  /\ ts \in Seq(Targets)
           /\ \A i \in 1..Len(ts) : ts[i] \in T
<1>1. Cardinality(T) \in Nat
  BY FS_CardinalityType
<1>2. ts \in [1..Cardinality(T) -> T]
  BY DEF Orders
<1>3. ts \in Seq(T) /\ Len(ts) = Cardinality(T)
  BY <1>1, <1>2
<1>4. ts \in Seq(Targets)
  BY <1>1, <1>2
<1> QED
  BY <1>2, <1>3, <1>4

\* A prefix as ResultAccountsForQueues writes it.
LEMMA PrefixIsSubSeq ==
    ASSUME NEW a \in Seq(Targets), NEW ts \in Seq(Targets), Begins(a, ts)
    PROVE  /\ a = SubSeq(ts, 1, Len(a))
           /\ Len(a) = Len(ts) => a = ts
<1>1. Len(a) \in Nat /\ Len(ts) \in Nat /\ Len(a) <= Len(ts)
  BY DEF Begins
<1>2. \A i \in 1..Len(a) : ts[i] \in Targets
  BY <1>1, ElementOfSeq
<1>3. /\ SubSeq(ts, 1, Len(a)) \in Seq(Targets)
      /\ Len(SubSeq(ts, 1, Len(a))) = Len(a)
      /\ \A i \in 1..Len(a) : SubSeq(ts, 1, Len(a))[i] = ts[i]
  BY <1>1, <1>2, SubSeqProperties
<1>4. \A i \in 1..Len(a) : a[i] = ts[i]
  BY DEF Begins
<1> QED
  BY <1>1, <1>3, <1>4, SeqEqual

-------------------------------------------------------------------------------
(***************************************************************************)
(* The inductive invariant.                                                *)
(***************************************************************************)

\* It holds initially.
LEMMA InitInv == Init => IInv
<1> SUFFICES ASSUME Init PROVE IInv
  OBVIOUS
<1> USE SessionsAssumption DEF Init
<1>1. /\ Idle(0).pc = "idle" /\ Idle(0).targets = <<>> /\ Idle(0).accepted = <<>>
      /\ Idle(0).res = "none" /\ Idle(0) \in OpType
  BY EmptySeq DEF Idle, OpType
<1>2. TypeOK
  BY <1>1 DEF TypeOK, Sessions, OpType
<1>3. RegistryPart
  BY DEF RegistryPart
<1>4. \A s \in Senders : SendingPart(op[s]) /\ ResultPart(op[s])
  BY <1>1 DEF SendingPart, ResultPart, Begins
<1> QED
  BY <1>2, <1>3, <1>4 DEF IInv

\* A thread that has the lock, or finds it free, takes a step of its own.
LEMMA SenderKeeps ==
    ASSUME IInv, NEW s \in Senders, lock \in {s, Free},
           NEW o \in OpType, op' = [op EXCEPT ![s] = o],
           lock' = IF o.pc = "idle" THEN Free ELSE s,
           UNCHANGED <<station, reg, queue, cb, conn>>,
           prepared' \subseteq Targets, SendingPart(o), ResultPart(o)
    PROVE  IInv'
<1> USE DEF IInv
<1>1. op \in [Senders -> OpType]
  BY DEF TypeOK, OpType
<1>2. op'[s] = o /\ \A r \in Senders \ {s} : op'[r] = op[r]
  BY <1>1
<1>3. \A r \in Senders \ {s} : op[r].pc = "idle"
  BY SessionsAssumption DEF TypeOK
<1>4. TypeOK'
  <2>1. op' \in [Senders -> OpType] /\ lock' \in Senders \cup {Free}
    BY <1>1
  <2>2. \A r \in Senders : op'[r].pc # "idle" <=> lock' = r
    BY <1>2, <1>3, SessionsAssumption
  <2> QED
    BY <2>1, <2>2 DEF TypeOK, OpType
<1>5. RegistryPart'
  BY DEF RegistryPart
<1>6. \A r \in Senders : SendingPart(op[r])' /\ ResultPart(op[r])'
  BY <1>2, <1>3 DEF SendingPart, ResultPart, Begins, Registered, Live
<1> QED
  BY <1>4, <1>5, <1>6

\* A step that leaves the senders alone, and reopens no queue and changes no
\* session while one of them has the lock.
LEMMA OthersKeep ==
    ASSUME IInv, UNCHANGED <<lock, op>>, TypeOK', RegistryPart',
           lock # Free => /\ reg' = reg
                          /\ \A t \in Targets :
                                queue'[t] = "open" => queue[t] = "open"
    PROVE  IInv'
<1> USE DEF IInv
<1>1. ASSUME NEW s \in Senders PROVE SendingPart(op[s])' /\ ResultPart(op[s])'
  <2>1. SendingPart(op[s]) /\ ResultPart(op[s]) /\ op'[s] = op[s]
    OBVIOUS
  <2>2. ResultPart(op[s])'
    BY <2>1 DEF ResultPart, Begins
  <2>3. SendingPart(op[s])'
    <3> SUFFICES ASSUME op[s].pc # "idle" PROVE SendingPart(op[s])'
      BY DEF SendingPart
    <3>1. lock # Free
      BY SessionsAssumption DEF TypeOK
    <3>2. \A i \in 1..Len(op[s].targets) : op[s].targets[i] \in Targets
      <4>1. op[s].targets \in Seq(Targets)
        BY DEF TypeOK
      <4> QED
        BY <4>1, ElementOfSeq
    <3>3. op[s].next \in Nat \ {0}
      BY DEF TypeOK
    <3>4. \A j \in op[s].next..Len(op[s].targets) :
             queue[op[s].targets[j]] # "open" => queue'[op[s].targets[j]] # "open"
      BY <3>1, <3>2, <3>3
    <3> QED
      BY <2>1, <3>1, <3>4 DEF SendingPart, Registered, Live
  <2> QED
    BY <2>2, <2>3
<1> QED
  BY <1>1

\* The steps of the response worker and of the network thread.
LEMMA StreamStep ==
    ASSUME IInv, SetChunkingStation \/ (\E t \in Targets : Worker(t)) \/ Network
    PROVE  IInv'
<1> USE SessionsAssumption DEF IInv
<1>0. \A t \in Targets : t[1] \in Conns /\ t[2] \in StreamIds /\ t = <<t[1], t[2]>>
  OBVIOUS
<1>1. ASSUME NEW t \in Targets, TakeRequest(t) PROVE IInv'
  <2>1. TypeOK' /\ RegistryPart'
    BY <1>1 DEF TakeRequest, TypeOK, RegistryPart
  <2> QED
    BY <1>1, <2>1, OthersKeep DEF TakeRequest
<1>2. ASSUME NEW t \in Targets, OpenStream(t) PROVE IInv'
  <2>1. TypeOK' /\ RegistryPart' /\ UNCHANGED lock
    BY <1>2 DEF OpenStream, LockInCallback, TypeOK, RegistryPart
  <2> QED
    BY <1>2, <2>1, OthersKeep DEF OpenStream
<1>3. ASSUME NEW t \in Targets, NEW u \in Users,
             CallbackRegisters(t, u) \/ CallbackFails(t, u)
      PROVE  IInv'
  <2> DEFINE n == [user |-> u, stream |-> t[2]]
  <2>1. n \in Sessions /\ n.stream = t[2]
    BY <1>0 DEF Sessions
  <2>2. reg' \in {reg, [reg EXCEPT ![t[1]] = n]}
    BY <1>3 DEF CallbackRegisters, CallbackFails
  <2> HIDE DEF n
  <2>3. reg' \in [Conns -> Sessions]
    BY <1>0, <2>1, <2>2 DEF TypeOK
  <2>4. TypeOK'
    BY <1>3, <2>3 DEF CallbackRegisters, CallbackFails, TypeOK
  <2>5. RegistryPart'
    <3> SUFFICES ASSUME NEW c \in Conns, reg'[c] # NoSession
                 PROVE  <<c, reg'[c].stream>> \in Targets
      BY DEF RegistryPart
    <3>1. reg'[c] = reg[c] \/ (c = t[1] /\ reg'[c] = n)
      BY <1>0, <2>2 DEF TypeOK
    <3> QED
      BY <1>0, <2>1, <3>1 DEF RegistryPart
  <2> QED
    BY <1>3, <2>4, <2>5, OthersKeep DEF CallbackRegisters, CallbackFails
<1>4. ASSUME NEW t \in Targets, ResetStream(t) PROVE IInv'
  <2>1. TypeOK' /\ RegistryPart'
    BY <1>4 DEF ResetStream, TypeOK, RegistryPart
  <2>2. \A r \in Targets : queue'[r] = "open" => queue[r] = "open"
    BY <1>4 DEF ResetStream, TypeOK
  <2> QED
    BY <1>4, <2>1, <2>2, OthersKeep DEF ResetStream
<1>5. ASSUME NEW c \in Conns, CleanClosedConnexions(c) PROVE IInv'
  <2>1. TypeOK' /\ RegistryPart'
    BY <1>5 DEF CleanClosedConnexions, TypeOK, RegistryPart, Sessions
  <2> QED
    BY <1>5, <2>1, OthersKeep DEF CleanClosedConnexions
<1>6. ASSUME SetChunkingStation PROVE IInv'
  <2>1. TypeOK' /\ RegistryPart'
    BY <1>6 DEF SetChunkingStation, TypeOK, RegistryPart
  <2> QED
    BY <1>6, <2>1, OthersKeep DEF SetChunkingStation
<1> QED
  BY <1>1, <1>2, <1>3, <1>4, <1>5, <1>6 DEF Worker, Callback, Network

\* A message or a retry begins, for targets that are registered to the user.
LEMMA BeginStep ==
    ASSUME IInv, NEW s \in Senders, NEW u \in Users, NEW ts \in Seq(Targets),
           \A i \in 1..Len(ts) : Registered(u, ts[i]),
           MayStart(s), Begin(s, u, ts),
           UNCHANGED <<station, reg, queue, cb, conn, prepared>>
    PROVE  IInv'
<1> DEFINE absent == \E i \in DOMAIN ts : ~Live(ts[i])
           n == op[s].ops + 1
           new == [Idle(n) EXCEPT !.user = u, !.targets = ts, !.absent = absent]
<1>1. n \in 0..MaxOps /\ lock = Free
  BY SessionsAssumption DEF IInv, TypeOK, MayStart
<1>2. prepared' \subseteq Targets
  BY DEF IInv, TypeOK
<1>3. Len(ts) \in Nat /\ DOMAIN ts = 1..Len(ts) /\ absent \in BOOLEAN
  OBVIOUS
<1>4. /\ new \in OpType /\ new.pc = "idle" /\ new.res = "none" /\ new.user = u
      /\ new.targets = ts /\ new.absent = absent /\ new.accepted = <<>>
      /\ new.next = 1
  <2>1. n \in 0..MaxOps /\ absent \in BOOLEAN
    BY <1>1, <1>3
  <2> HIDE DEF absent, n
  <2>2. /\ Idle(n) \in OpType /\ Idle(n).accepted = <<>> /\ Idle(n).next = 1
        /\ Idle(n).pc = "idle" /\ Idle(n).res = "none"
    BY <2>1, EmptySeq DEF Idle, OpType
  <2> QED
    BY <2>1, <2>2 DEF OpType
<1>5. CASE ts = <<>> \/ ~station
  <2> DEFINE o == [new EXCEPT !.res = "err"]
  <2>1. op' = [op EXCEPT ![s] = o] /\ lock' = lock
    BY <1>5, Zenon DEF Begin
  <2> HIDE DEF new
  <2>2. /\ o \in OpType /\ o.pc = "idle" /\ o.res = "err" /\ o.targets = ts
        /\ o.accepted = <<>>
    BY <1>4 DEF OpType
  <2> HIDE DEF o
  <2>3. SendingPart(o) /\ ResultPart(o)
    BY <1>5, <2>2 DEF SendingPart, ResultPart, Begins
  <2> QED
    BY <1>1, <1>2, <2>1, <2>2, <2>3, SenderKeeps
<1>6. CASE ~(ts = <<>> \/ ~station)
  <2> DEFINE o == [new EXCEPT !.pc = "resolve"]
  <2>1. op' = [op EXCEPT ![s] = o] /\ lock' = s
    BY <1>6, Zenon DEF Begin, Held
  <2> HIDE DEF new
  <2>2. /\ o \in OpType /\ o.pc = "resolve" /\ o.res = "none" /\ o.targets = ts
        /\ o.accepted = <<>> /\ o.next = 1 /\ o.absent = absent /\ o.user = u
    BY <1>4 DEF OpType
  <2> HIDE DEF o
  <2>3. Len(ts) >= 1
    BY <1>3, <1>6, EmptySeq
  <2>4. SendingPart(o)
    BY <1>3, <2>2, <2>3 DEF SendingPart
  <2>5. ResultPart(o)
    BY <1>3, <2>2 DEF ResultPart, Begins
  <2> QED
    BY <1>1, <1>2, <2>1, <2>2, <2>4, <2>5, SenderKeeps
<1> QED
  BY <1>5, <1>6

\* The steps that begin a sending.
LEMMA StartStep ==
    ASSUME IInv, NEW s \in Senders, NEW u \in Users,
           \/ \E X \in SUBSET Conns : SendMessage(s, u, X)
           \/ \E t \in Targets : RetryMessage(s, u, t)
    PROVE  IInv'
<1>1. ASSUME NEW X \in SUBSET Conns, SendMessage(s, u, X) PROVE IInv'
  <2> DEFINE T == {t \in SessionsOf(u) : t[1] \notin X}
  <2>1. /\ SessionsOf(u) \subseteq Targets /\ IsFiniteSet(SessionsOf(u))
        /\ \A t \in SessionsOf(u) : Registered(u, t)
    BY SessionsOfUser DEF IInv
  <2>2. T \in SUBSET Targets /\ IsFiniteSet(T) /\ \A t \in T : Registered(u, t)
    BY <2>1, FS_Subset
  <2>3. PICK ts \in Orders(T) : Begin(s, u, ts)
    BY <1>1 DEF SendMessage
  <2> HIDE DEF T
  <2>4. ts \in Seq(Targets) /\ \A i \in 1..Len(ts) : Registered(u, ts[i])
    BY <2>2, OrderIsSequence
  <2> QED
    BY <1>1, <2>3, <2>4, BeginStep DEF SendMessage
<1>2. ASSUME NEW t \in Targets, RetryMessage(s, u, t) PROVE IInv'
  <2> DEFINE ts == IF Registered(u, t) THEN <<t>> ELSE <<>>
  <2>1. ts \in Seq(Targets) /\ \A i \in 1..Len(ts) : Registered(u, ts[i])
    <3>1. CASE Registered(u, t)
      <4>1. ts = <<t>> /\ Len(<<t>>) = 1 /\ <<t>>[1] = t /\ <<t>> \in Seq(Targets)
        BY <3>1
      <4> QED
        BY <3>1, <4>1
    <3>2. CASE ~Registered(u, t)
      BY <3>2
    <3> QED
      BY <3>1, <3>2
  <2>2. /\ MayStart(s) /\ Begin(s, u, ts)
        /\ UNCHANGED <<station, reg, queue, cb, conn, prepared>>
    BY <1>2 DEF RetryMessage
  <2> HIDE DEF ts
  <2> QED
    BY <2>1, <2>2, BeginStep
<1> QED
  BY <1>1, <1>2

\* A sending ends: nothing was accepted, or the poll loop was tried.
LEMMA ReturnKeeps ==
    ASSUME IInv, NEW s \in Senders, lock = s, NEW res \in {"ok", "err"},
           NEW w \in {"no", "yes", "failed"}, Return(s, res, w),
           prepared' \subseteq Targets,
           res = "ok" <=> /\ op[s].targets # <<>>
                          /\ Len(op[s].accepted) = Len(op[s].targets)
                          /\ w = "yes",
           op[s].accepted # <<>> => w # "no"
    PROVE  IInv'
<1> DEFINE o == op[s]
           n == [o EXCEPT !.pc = "idle", !.res = res, !.woke = w]
<1>1. /\ o \in OpType /\ ResultPart(o) /\ op \in [Senders -> OpType]
  BY DEF IInv, TypeOK, OpType
<1>2. /\ op' = [op EXCEPT ![s].pc = "idle", ![s].res = res, ![s].woke = w]
      /\ lock' = Free /\ UNCHANGED <<station, reg, queue, cb, conn>>
  BY DEF Return
<1>3. op' = [op EXCEPT ![s] = n]
  BY <1>1, <1>2
<1>4. /\ n \in OpType /\ n.pc = "idle" /\ n.res = res /\ n.woke = w
      /\ n.targets = o.targets /\ n.accepted = o.accepted
      /\ n.absent = o.absent
  BY <1>1 DEF OpType
<1>5. /\ res = "ok" <=> /\ o.targets # <<>>
                        /\ Len(o.accepted) = Len(o.targets) /\ w = "yes"
      /\ o.accepted # <<>> => w # "no"
  OBVIOUS
<1> HIDE DEF n, o
<1>6. SendingPart(n) /\ ResultPart(n)
  BY <1>1, <1>4, <1>5 DEF SendingPart, ResultPart
<1> QED
  BY <1>2, <1>3, <1>4, <1>6, SenderKeeps

\* The next queue is looked up, or the sending ends before it sent anything.
LEMMA ResolveStep ==
    ASSUME IInv, NEW s \in Senders, Resolve(s)
    PROVE  IInv'
<1> DEFINE o == op[s]
<1>1. /\ o \in OpType /\ SendingPart(o) /\ ResultPart(o) /\ o.pc = "resolve"
      /\ lock = s /\ op \in [Senders -> OpType]
  BY DEF IInv, TypeOK, OpType, Resolve
<1>2. prepared' \subseteq Targets
  BY DEF IInv, TypeOK, Resolve
<1>3. /\ o.next \in Nat \ {0} /\ Len(o.targets) \in Nat
      /\ o.next <= Len(o.targets) /\ o.accepted = <<>> /\ o.res = "none"
  BY <1>1 DEF OpType, SendingPart
<1>4. CASE ~Resolved(o.targets[o.next])
  <2>1. Return(s, "err", "no")
    BY <1>4 DEF Resolve
  <2> HIDE DEF o
  <2>2. Len(o.accepted) # Len(o.targets) /\ o.accepted = <<>>
    BY <1>3
  <2> QED
    BY <1>1, <1>2, <2>1, <2>2, ReturnKeeps DEF o
<1>5. CASE Resolved(o.targets[o.next]) /\ o.next = Len(o.targets)
  <2> DEFINE n == [o EXCEPT !.pc = "prepare"]
  <2>1. op' = [op EXCEPT ![s] = n] /\ UNCHANGED <<lock, station, reg, queue, cb, conn>>
    BY <1>5 DEF Resolve
  <2>2. /\ n \in OpType /\ n.pc = "prepare" /\ n.next = o.next /\ n.res = o.res
        /\ n.targets = o.targets /\ n.accepted = o.accepted
        /\ n.absent = o.absent /\ n.user = o.user /\ n.woke = o.woke
    <3>1. o \in OpType
      BY <1>1
    <3> HIDE DEF o
    <3> QED
      BY <3>1 DEF OpType
  <2> HIDE DEF n, o
  <2>3. ~o.absent
    BY <1>1, <1>3, <1>5 DEF SendingPart, Resolved
  <2>4. SendingPart(n)
    BY <1>1, <1>3, <2>2, <2>3 DEF SendingPart
  <2>5. ResultPart(n)
    BY <1>1, <2>2 DEF ResultPart
  <2> QED
    BY <1>1, <1>2, <2>1, <2>2, <2>4, <2>5, SenderKeeps
<1>6. CASE Resolved(o.targets[o.next]) /\ o.next # Len(o.targets)
  <2> DEFINE n == [o EXCEPT !.next = o.next + 1]
  <2>1. op' = [op EXCEPT ![s] = n] /\ UNCHANGED <<lock, station, reg, queue, cb, conn>>
    BY <1>6 DEF Resolve
  <2>2. /\ n \in OpType /\ n.pc = "resolve" /\ n.next = o.next + 1
        /\ n.res = o.res /\ n.targets = o.targets /\ n.accepted = o.accepted
        /\ n.absent = o.absent /\ n.user = o.user /\ n.woke = o.woke
    <3> DEFINE m == o.next + 1
    <3>1. m \in Nat \ {0} /\ o \in OpType /\ o.pc = "resolve"
      BY <1>1, <1>3
    <3> HIDE DEF m, o
    <3> QED
      BY <3>1 DEF OpType
  <2> HIDE DEF n, o
  <2>3. o.absent => \E j \in (o.next + 1)..Len(o.targets) :
                       ~Live(o.targets[j])
    BY <1>1, <1>3, <1>6 DEF SendingPart, Resolved
  <2>4. SendingPart(n)
    BY <1>1, <1>3, <1>6, <2>2, <2>3 DEF SendingPart
  <2>5. ResultPart(n)
    BY <1>1, <2>2 DEF ResultPart
  <2> QED
    BY <1>1, <1>2, <2>1, <2>2, <2>4, <2>5, SenderKeeps
<1> QED
  BY <1>4, <1>5, <1>6

\* The capsules are prepared, or one of them cannot be.
LEMMA PrepareStep ==
    ASSUME IInv, NEW s \in Senders, Prepare(s)
    PROVE  IInv'
<1> DEFINE o == op[s]
<1>1. /\ o \in OpType /\ SendingPart(o) /\ ResultPart(o) /\ o.pc = "prepare"
      /\ lock = s /\ op \in [Senders -> OpType]
  BY DEF IInv, TypeOK, OpType, Prepare
<1>2. prepared' \subseteq Targets
  BY DEF IInv, TypeOK, Prepare
<1>3. /\ o.next \in Nat \ {0} /\ Len(o.targets) \in Nat /\ ~o.absent
      /\ o.next <= Len(o.targets) /\ o.accepted = <<>> /\ o.res = "none"
  BY <1>1 DEF OpType, SendingPart
<1>4. CASE Return(s, "err", "no")
  <2> HIDE DEF o
  <2>1. Len(o.accepted) # Len(o.targets) /\ o.accepted = <<>>
    BY <1>3
  <2> QED
    BY <1>1, <1>2, <1>4, <2>1, ReturnKeeps DEF o
<1>5. CASE /\ op' = [op EXCEPT ![s].pc = "send", ![s].next = 1]
           /\ UNCHANGED <<lock, station, reg, queue, cb, conn>>
  <2> DEFINE n == [o EXCEPT !.pc = "send", !.next = 1]
  <2>1. op' = [op EXCEPT ![s] = n]
    BY <1>1, <1>5
  <2>2. /\ n \in OpType /\ n.pc = "send" /\ n.next = 1 /\ n.res = o.res
        /\ n.targets = o.targets /\ n.accepted = o.accepted
        /\ n.absent = o.absent /\ n.user = o.user /\ n.woke = o.woke
    <3>1. o \in OpType
      BY <1>1
    <3> DEFINE one == 1
    <3>2. one \in Nat \ {0}
      OBVIOUS
    <3> HIDE DEF o, one
    <3>3. PICK x : x = [o EXCEPT !.pc = "send", !.next = one]
      OBVIOUS
    <3>4. x \in OpType /\ x.pc = "send" /\ x.next = one /\ x.res = o.res
      BY <3>1, <3>2, <3>3 DEF OpType
    <3>5. /\ x.targets = o.targets /\ x.accepted = o.accepted
          /\ x.absent = o.absent /\ x.user = o.user /\ x.woke = o.woke
      BY <3>1, <3>3 DEF OpType
    <3> QED
      BY <3>3, <3>4, <3>5 DEF one
  <2> HIDE DEF n, o
  <2>3. SendingPart(n)
    BY <1>1, <1>3, <2>2 DEF SendingPart
  <2>4. ResultPart(n)
    BY <1>1, <2>2 DEF ResultPart
  <2> QED
    BY <1>1, <1>2, <1>5, <2>1, <2>2, <2>3, <2>4, SenderKeeps
<1> QED
  BY <1>4, <1>5 DEF Prepare

\* One more target is accepted after those before it.
LEMMA AcceptNext ==
    ASSUME NEW a \in Seq(Targets), NEW ts \in Seq(Targets), Begins(a, ts),
           NEW i \in Nat \ {0}, i <= Len(ts), Len(a) = i - 1
    PROVE  /\ Append(a, ts[i]) \in Seq(Targets) /\ Len(Append(a, ts[i])) = i
           /\ Begins(Append(a, ts[i]), ts) /\ Append(a, ts[i]) # <<>>
<1>1. Len(ts) \in Nat /\ Len(a) \in Nat /\ i \in 1..Len(ts)
  OBVIOUS
<1>2. ts[i] \in Targets
  BY <1>1, ElementOfSeq
<1>3. /\ Append(a, ts[i]) \in Seq(Targets) /\ Len(Append(a, ts[i])) = i
      /\ \A j \in 1..i : Append(a, ts[i])[j] = IF j = i THEN ts[i] ELSE a[j]
  BY <1>1, <1>2, AppendProperties
<1>4. Begins(Append(a, ts[i]), ts)
  BY <1>1, <1>3 DEF Begins
<1> QED
  BY <1>3, <1>4

\* The next target gets its capsule, or the sending ends with an error.
LEMMA SendStep ==
    ASSUME IInv, NEW s \in Senders, Send(s)
    PROVE  IInv'
<1> DEFINE o == op[s]
           t == o.targets[o.next]
<1>1. /\ o \in OpType /\ SendingPart(o) /\ ResultPart(o) /\ o.pc = "send"
      /\ lock = s /\ op \in [Senders -> OpType] /\ prepared \subseteq Targets
  BY DEF IInv, TypeOK, OpType, Send
<1>2. /\ o.next \in Nat \ {0} /\ o.targets \in Seq(Targets)
      /\ o.next <= Len(o.targets) /\ o.accepted \in Seq(Targets)
      /\ Len(o.accepted) = o.next - 1 /\ o.res = "none" /\ ~o.absent
      /\ Begins(o.accepted, o.targets) /\ Len(o.targets) \in Nat
  BY <1>1 DEF OpType, SendingPart, ResultPart
<1>3. CASE ~Live(t)
  <2>1. PICK w \in {"yes", "failed"} : Return(s, "err", w)
    BY <1>3 DEF Send
  <2> HIDE DEF o
  <2>2. Len(o.accepted) # Len(o.targets)
    BY <1>2
  <2> QED
    BY <1>1, <2>1, <2>2, ReturnKeeps DEF o, Send
<1>4. ASSUME Live(t)
      PROVE  IInv'
  <2> DEFINE a == Append(o.accepted, t)
  <2>1. /\ a \in Seq(Targets) /\ Len(a) = o.next /\ Begins(a, o.targets)
    <3> DEFINE b == o.accepted
               ts == o.targets
               i == o.next
    <3>1. /\ b \in Seq(Targets) /\ ts \in Seq(Targets) /\ Begins(b, ts)
          /\ i \in Nat \ {0} /\ i <= Len(ts) /\ Len(b) = i - 1
      BY <1>2
    <3> HIDE DEF b, ts, i
    <3>2. /\ Append(b, ts[i]) \in Seq(Targets) /\ Len(Append(b, ts[i])) = i
          /\ Begins(Append(b, ts[i]), ts)
      BY <3>1, AcceptNext
    <3> QED
      BY <3>2 DEF b, ts, i
  <2>2. CASE o.next # Len(o.targets)
    <3> DEFINE m == o.next + 1
               n == [o EXCEPT !.next = m, !.accepted = a]
    <3>1. /\ op' = [op EXCEPT ![s] = n]
          /\ UNCHANGED <<lock, station, reg, queue, cb, conn, prepared>>
      BY <1>4, <2>2 DEF Send
    <3> HIDE DEF a
    <3>3. /\ n \in OpType /\ n.pc = "send" /\ n.res = o.res
          /\ n.targets = o.targets /\ n.accepted = a /\ n.absent = o.absent
          /\ n.user = o.user /\ n.next = o.next + 1 /\ n.woke = o.woke
      <4>1. /\ m \in Nat \ {0} /\ o \in OpType /\ o.pc = "send"
            /\ a \in Seq(Targets)
        BY <1>1, <1>2, <2>1
      <4> HIDE DEF m, o
      <4>2. n \in OpType /\ n.next = m /\ n.accepted = a
        BY <4>1 DEF OpType
      <4>3. /\ n.pc = "send" /\ n.res = o.res /\ n.targets = o.targets
            /\ n.absent = o.absent /\ n.user = o.user /\ n.woke = o.woke
        BY <4>1 DEF OpType
      <4> QED
        BY <4>2, <4>3 DEF m
    <3> HIDE DEF n, o
    <3>4. SendingPart(n)
      BY <1>1, <1>2, <2>1, <2>2, <3>3 DEF SendingPart
    <3>5. ResultPart(n)
      BY <1>2, <2>1, <3>3 DEF ResultPart
    <3> QED
      BY <1>1, <3>1, <3>3, <3>4, <3>5, SenderKeeps
  <2>3. CASE o.next = Len(o.targets)
    <3> DEFINE n == [o EXCEPT !.pc = "wake", !.accepted = a]
    <3>1. /\ op' = [op EXCEPT ![s] = n]
          /\ UNCHANGED <<lock, station, reg, queue, cb, conn, prepared>>
      BY <1>4, <2>3 DEF Send
    <3> HIDE DEF a
    <3>2. /\ n \in OpType /\ n.pc = "wake" /\ n.res = o.res /\ n.next = o.next
          /\ n.targets = o.targets /\ n.accepted = a /\ n.absent = o.absent
          /\ n.user = o.user /\ n.woke = o.woke
      <4>1. o \in OpType /\ a \in Seq(Targets)
        BY <1>1, <2>1
      <4> HIDE DEF o
      <4> QED
        BY <4>1 DEF OpType
    <3> HIDE DEF n, o
    <3>3. SendingPart(n)
      BY <1>1, <1>2, <2>1, <2>3, <3>2 DEF SendingPart
    <3>4. ResultPart(n)
      BY <1>2, <2>1, <3>2 DEF ResultPart
    <3> QED
      BY <1>1, <3>1, <3>2, <3>3, <3>4, SenderKeeps
  <2> QED
    BY <2>2, <2>3
<1> QED
  BY <1>3, <1>4

\* The poll loop is woken, or that fails.
LEMMA WakeStep ==
    ASSUME IInv, NEW s \in Senders, Wake(s)
    PROVE  IInv'
<1> DEFINE o == op[s]
<1>1. /\ o \in OpType /\ SendingPart(o) /\ o.pc = "wake" /\ lock = s
      /\ prepared \subseteq Targets
  BY DEF IInv, TypeOK, OpType, Wake
<1>2. /\ o.next \in Nat \ {0} /\ o.targets \in Seq(Targets)
      /\ o.next <= Len(o.targets) /\ Len(o.accepted) = Len(o.targets)
  BY <1>1 DEF OpType, SendingPart
<1>3. prepared' \subseteq Targets
  <2>1. \A i \in DOMAIN o.targets : o.targets[i] \in Targets
    BY <1>2, ElementOfSeq
  <2> QED
    BY <1>1, <2>1 DEF Wake
<1> HIDE DEF o
<1>4. o.targets # <<>>
  BY <1>2, EmptySeq
<1>5. CASE Return(s, "ok", "yes")
  BY <1>1, <1>2, <1>3, <1>4, <1>5, ReturnKeeps DEF o
<1>6. CASE Return(s, "err", "failed")
  BY <1>1, <1>2, <1>3, <1>4, <1>6, ReturnKeeps DEF o
<1> QED
  BY <1>5, <1>6 DEF Wake

\* Every step keeps it.
LEMMA StepInv == IInv /\ [Next]_vars => IInv'
<1> SUFFICES ASSUME IInv, [Next]_vars PROVE IInv'
  OBVIOUS
<1>1. ASSUME UNCHANGED vars PROVE IInv'
  <2>1. TypeOK' /\ RegistryPart'
    BY <1>1 DEF IInv, vars, TypeOK, RegistryPart
  <2> QED
    BY <1>1, <2>1, OthersKeep DEF vars
<1> QED
  BY <1>1, StreamStep, StartStep, ResolveStep, PrepareStep, SendStep, WakeStep
  DEF Next, Sending

-------------------------------------------------------------------------------
(***************************************************************************)
(* Theorems.                                                               *)
(***************************************************************************)

\* The inductive invariant holds throughout.
THEOREM Invariance == Spec => []IInv
BY InitInv, StepInv, PTL DEF Spec

\* The registry, the queues and the sendings keep their types.
THEOREM TypeCorrect == Spec => []TypeOK
<1>1. IInv => TypeOK
  BY DEF IInv
<1> QED
  BY <1>1, Invariance, PTL

\* Success means that every capsule was queued and the poll loop notified, and
\* an error that one of these is not so; what was queued is a prefix of the
\* targets and never without a try to wake the poll loop, and it is nothing if a
\* queue was absent when the sending began.
THEOREM ResultAccounts == Spec => []ResultAccountsForQueues
<1>1. IInv => ResultAccountsForQueues
  <2> SUFFICES ASSUME IInv, NEW s \in Senders
               PROVE  LET o == op[s] IN
                      /\ o.accepted = SubSeq(o.targets, 1, Len(o.accepted))
                      /\ o.res # "none" =>
                            /\ o.res = "ok" <=> /\ o.targets # <<>>
                                               /\ o.accepted = o.targets
                                               /\ o.woke = "yes"
                            /\ o.accepted # <<>> => o.woke # "no"
                      /\ o.absent => o.accepted = <<>>
    BY DEF ResultAccountsForQueues
  <2> DEFINE o == op[s]
  <2>1. o.accepted \in Seq(Targets) /\ o.targets \in Seq(Targets)
    BY DEF IInv, TypeOK
  <2>2. ResultPart(o)
    BY DEF IInv
  <2>3. /\ o.accepted = SubSeq(o.targets, 1, Len(o.accepted))
        /\ Len(o.accepted) = Len(o.targets) <=> o.accepted = o.targets
    BY <2>1, <2>2, PrefixIsSubSeq DEF ResultPart
  <2> HIDE DEF o
  <2>4. /\ o.accepted = SubSeq(o.targets, 1, Len(o.accepted))
        /\ o.res # "none" =>
              /\ o.res = "ok" <=> /\ o.targets # <<>> /\ o.accepted = o.targets
                                 /\ o.woke = "yes"
              /\ o.accepted # <<>> => o.woke # "no"
        /\ o.absent => o.accepted = <<>>
    BY <2>2, <2>3, Zenon DEF ResultPart
  <2> QED
    BY <2>4 DEF o
<1> QED
  BY <1>1, Invariance, PTL

\* A capsule is queued only on the stream that is registered to its user at
\* that moment, though the registry may change between any two sendings.
THEOREM QueuedOnlyForOwner == Spec => QueuedForOwner
<1> DEFINE Owned(s) == LET a == op'[s].accepted
                           t == a[Len(a)]
                       IN Len(a) > Len(op[s].accepted)
                             => reg[t[1]] = [user |-> op[s].user, stream |-> t[2]]
           AllOwned == \A s \in Senders : Owned(s)
<1>1. IInv /\ [Next]_vars => [AllOwned]_vars
  <2> SUFFICES ASSUME IInv, Next, NEW s \in Senders PROVE Owned(s)
    OBVIOUS
  <2>0. /\ op \in [Senders -> OpType] /\ op[s].accepted \in Seq(Targets)
        /\ Len(op[s].accepted) \in Nat
    BY DEF IInv, TypeOK, OpType
  <2>1. ASSUME op'[s].accepted = op[s].accepted \/ op'[s].accepted = <<>>
        PROVE  Owned(s)
    BY <2>0, <2>1
  <2>2. ASSUME NEW r \in Senders, r # s, NEW n, op' = [op EXCEPT ![r] = n]
        PROVE  Owned(s)
    BY <2>0, <2>1, <2>2
  <2>3. ASSUME NEW t \in Targets, Worker(t) PROVE Owned(s)
    BY <2>1, <2>3 DEF Worker, TakeRequest, OpenStream, Callback,
                      CallbackRegisters, CallbackFails
  <2>4. ASSUME Network PROVE Owned(s)
    BY <2>1, <2>4 DEF Network, ResetStream, CleanClosedConnexions
  <2>5. ASSUME NEW r \in Senders, NEW u, NEW ts, Begin(r, u, ts) PROVE Owned(s)
    <3>1. PICK n : op' = [op EXCEPT ![r] = n] /\ n.accepted = <<>>
      <4> DEFINE new == [Idle(op[r].ops + 1) EXCEPT !.user = u, !.targets = ts,
                  !.absent = \E i \in DOMAIN ts : ~Live(ts[i])]
      <4>1. /\ [new EXCEPT !.res = "err"].accepted = <<>>
            /\ [new EXCEPT !.pc = "resolve"].accepted = <<>>
        BY DEF Idle
      <4>2. \/ op' = [op EXCEPT ![r] = [new EXCEPT !.res = "err"]]
            \/ op' = [op EXCEPT ![r] = [new EXCEPT !.pc = "resolve"]]
        BY <2>5, Zenon DEF Begin
      <4> HIDE DEF new
      <4> QED
        BY <4>1, <4>2
    <3> QED
      BY <2>0, <2>1, <2>2, <3>1
  <2>6. ASSUME NEW r \in Senders, Resolve(r) PROVE Owned(s)
    <3> DEFINE o == op[r]
    <3>1. \/ op' = [op EXCEPT ![r] = [o EXCEPT !.pc = "prepare"]]
          \/ op' = [op EXCEPT ![r] = [o EXCEPT !.next = @ + 1]]
          \/ Return(r, "err", "no")
      BY <2>6 DEF Resolve
    <3>2. op[r] \in OpType
      BY <2>0
    <3>3. /\ [o EXCEPT !.pc = "prepare"].accepted = o.accepted
          /\ [o EXCEPT !.next = @ + 1].accepted = o.accepted
      BY <3>2 DEF OpType
    <3>4. op'[s].accepted = op[s].accepted
      <4>1. ASSUME NEW n, op' = [op EXCEPT ![r] = n], n.accepted = o.accepted
            PROVE  op'[s].accepted = op[s].accepted
        BY <2>0, <4>1
      <4>2. ASSUME Return(r, "err", "no")
            PROVE  op'[s].accepted = op[s].accepted
        BY <2>0, <4>2 DEF OpType, Return
      <4> HIDE DEF o
      <4> QED
        BY <3>1, <3>3, <4>1, <4>2
    <3> QED
      BY <2>1, <3>4
  <2>7. ASSUME NEW r \in Senders, Prepare(r) \/ Wake(r) PROVE Owned(s)
    <3>1. \/ op' = [op EXCEPT ![r].pc = "send", ![r].next = 1]
          \/ Return(r, "err", "no") \/ Return(r, "ok", "yes")
          \/ Return(r, "err", "failed")
      BY <2>7 DEF Prepare, Wake
    <3>2. ASSUME op' = [op EXCEPT ![r].pc = "send", ![r].next = 1]
          PROVE  op'[s].accepted = op[s].accepted
      BY <2>0, <3>2 DEF OpType
    <3>3. ASSUME NEW res, NEW w, Return(r, res, w)
          PROVE  op'[s].accepted = op[s].accepted
      BY <2>0, <3>3 DEF OpType, Return
    <3> QED
      BY <2>1, <3>1, <3>2, <3>3
  <2>8. ASSUME NEW r \in Senders, Send(r) PROVE Owned(s)
    <3> DEFINE t == op[r].targets[op[r].next]
               o == op[r]
               a == Append(o.accepted, t)
    <3>0. \/ \E w \in {"yes", "failed"} : Return(r, "err", w)
          \/ op' = [op EXCEPT ![r] = [o EXCEPT !.pc = "wake", !.accepted = a]]
          \/ op' = [op EXCEPT ![r] = [o EXCEPT !.next = @ + 1, !.accepted = a]]
      BY <2>8, Zenon DEF Send
    <3>1. CASE r # s
      BY <2>0, <2>1, <3>0, <3>1 DEF Return
    <3>2. CASE r = s
      <4>1. \/ op'[s].accepted = op[s].accepted
            \/ op'[s].accepted = Append(op[s].accepted, t)
        <5>1. o \in OpType
          BY <2>0
        <5>2. /\ [o EXCEPT !.pc = "wake", !.accepted = a].accepted = a
              /\ [o EXCEPT !.next = @ + 1, !.accepted = a].accepted = a
          BY <5>1 DEF OpType
        <5>3. ASSUME NEW n, op' = [op EXCEPT ![r] = n], n.accepted = a
              PROVE  op'[s].accepted = a
          BY <2>0, <3>2, <5>3
        <5>4. ASSUME NEW w \in {"yes", "failed"}, Return(r, "err", w)
              PROVE  op'[s].accepted = op[s].accepted
          BY <2>0, <3>2, <5>4 DEF Return, OpType
        <5>5. a = Append(op[s].accepted, t)
          BY <3>2
        <5> HIDE DEF a, o, t
        <5> QED
          BY <3>0, <5>2, <5>3, <5>4, <5>5
      <4>2. Registered(op[s].user, t) /\ t \in Targets
        <5>1. /\ op[s].pc # "idle" /\ SendingPart(op[s])
              /\ op[s].targets \in Seq(Targets) /\ op[s].next \in Nat \ {0}
          BY <2>8, <3>2 DEF Send, IInv, TypeOK
        <5>2. op[s].next \in 1..Len(op[s].targets)
          BY <5>1 DEF SendingPart
        <5> QED
          BY <3>2, <5>1, <5>2, ElementOfSeq DEF SendingPart
      <4>3. CASE op'[s].accepted = Append(op[s].accepted, t)
        <5> DEFINE b == Append(op[s].accepted, t)
        <5>1. b[Len(b)] = t
          BY <2>0, <4>2, AppendProperties
        <5> HIDE DEF b, t
        <5> QED
          BY <4>2, <4>3, <5>1 DEF Registered, b
      <4> QED
        BY <2>1, <4>1, <4>3
    <3> QED
      BY <3>1, <3>2
  <2>9. ASSUME SetChunkingStation PROVE Owned(s)
    BY <2>1, <2>9 DEF SetChunkingStation
  <2> QED
    BY <2>3, <2>4, <2>5, <2>6, <2>7, <2>8, <2>9
    DEF Next, Sending, SendMessage, RetryMessage
<1> HIDE DEF AllOwned
<1>2. Spec => [][AllOwned]_vars
  BY <1>1, Invariance, PTL DEF Spec
<1> QED
  BY <1>2 DEF AllOwned, QueuedForOwner
===============================================================================
