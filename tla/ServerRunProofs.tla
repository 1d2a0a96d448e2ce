---------------------------- MODULE ServerRunProofs ---------------------------
(***************************************************************************)
(* Proofs about ServerRun and, under it, Admission: what a caller that is  *)
(* told of a failure may rely on, and who gets into the clients map, for   *)
(* any number of starts, addresses, connection ids, ticks and Retries.     *)
(***************************************************************************)
EXTENDS ServerRun, TLAPS

\* A token binds the id its Retry chose, derived by the start that minted it.
RetryPart == \A r \in retries : r.retry_cid = [seed |-> r.key, of |-> r.odcid]

\* Every client has the id derived by the running start from its original id.
ClientPart == \A c \in clients : c.scid = [seed |-> start, of |-> c.odcid]

\* The inductive invariant of Admission.
AdmissionInv == /\ TypeOK /\ RetryPart /\ ClientPart
                /\ up => start > 0

\* udp_bind is the tenth preparation.
Bound == 10

\* What is known of an attempt by the phase its worker is in.
PhasePart(a) ==
    /\ api[a] = "none" => worker[a] = "none" /\ told[a] = "nothing"
    /\ worker[a] \in {"none", "preparing"} => pools[a] = 0
    /\ worker[a] = "preparing" => (holder = a <=> at[a] >= Bound)
    /\ worker[a] \in {"starting", "looping"} => holder = a
    /\ worker[a] \in {"none", "ended"} => holder # a
    /\ worker[a] = "looping" => pools[a] = Len(Pools)

\* Where an error comes from, and what it says of the pools.
ErrorPart(a) ==
    /\ why[a] # "none" => worker[a] = "ended"
    /\ why[a] \in PrepareErrors => pools[a] = 0
    /\ told[a] \in CallerErrors => worker[a] = "none"
    /\ told[a] \notin CallerErrors \cup {"nothing"} =>
          worker[a] = "ended" /\ told[a] = why[a]

\* The server of Admission is up while a worker is in its loop.
UpPart == up <=> \E a \in Attempts : worker[a] = "looping"

\* The inductive invariant.
ServerInv == /\ ServerTypeOK /\ AdmissionInv /\ UpPart
             /\ \A a \in Attempts : PhasePart(a) /\ ErrorPart(a)

-------------------------------------------------------------------------------
(***************************************************************************)
(* Admission.                                                              *)
(***************************************************************************)

\* Every step of Admission keeps its inductive invariant.
LEMMA AdmissionStep == AdmissionInv /\ [Next]_vars => AdmissionInv'
<1> SUFFICES ASSUME AdmissionInv, [Next]_vars PROVE AdmissionInv'
  OBVIOUS
<1> USE AdmissionAssumption
<1> USE DEF AdmissionInv, TypeOK, RetryPart, ClientPart
<1>1. ASSUME NEW d \in Dcids, NEW a \in Addrs, SendRetry(d, a)
      PROVE  AdmissionInv'
  <2>1. Mint(d, Derived(d), a) \in Tokens
    BY <1>1 DEF SendRetry, Mint, Mintable, Derived, Tokens, RetryCids, Odcids
  <2>2. Mint(d, Derived(d), a).retry_cid
          = [seed |-> Mint(d, Derived(d), a).key,
             of |-> Mint(d, Derived(d), a).odcid]
    BY DEF Mint, Derived
  <2> QED
    BY <1>1, <2>1, <2>2 DEF SendRetry
<1>2. ASSUME NEW t \in retries, NEW d \in Cids, NEW a \in Addrs,
             Accept(t, d, a)
      PROVE  AdmissionInv'
  <2> DEFINE n == [scid |-> d, odcid |-> t.odcid, addr |-> a]
  <2>1. t \in Tokens
    OBVIOUS
  <2>2. n \in Clients
    BY <2>1 DEF Clients, Tokens
  <2>3. n.scid = [seed |-> start, of |-> n.odcid]
    BY <1>2 DEF Accept, Validate
  <2>4. \A c \in clients : c.scid # n.scid
    BY <1>2 DEF Accept, Known
  <2>5. clients' = clients \cup {n} /\ UNCHANGED <<up, start, now, retries>>
    BY <1>2 DEF Accept
  <2> HIDE DEF n
  <2> QED
    BY <2>2, <2>3, <2>4, <2>5
<1>3. ASSUME NEW c \in clients, CollectClient(c) PROVE AdmissionInv'
  BY <1>3 DEF CollectClient
<1>4. ASSUME Tick PROVE AdmissionInv'
  BY <1>4 DEF Tick
<1>5. ASSUME Boot PROVE AdmissionInv'
  BY <1>5 DEF Boot
<1>6. ASSUME Stop PROVE AdmissionInv'
  BY <1>6 DEF Stop
<1>7. ASSUME UNCHANGED vars PROVE AdmissionInv'
  BY <1>7 DEF vars
<1> QED
  BY <1>1, <1>2, <1>3, <1>4, <1>5, <1>6, <1>7 DEF Next, Traffic

\* A new client holds a token of this start that has not expired.
LEMMA AdmittedStep ==
    ASSUME AdmissionInv, [Next]_vars, NEW c \in clients' \ clients
    PROVE  \E r \in retries : /\ r.key = start /\ r.source = c.addr
                              /\ r.odcid = c.odcid /\ r.retry_cid = c.scid
                              /\ r.issued <= now /\ now < r.issued + TTL
<1>1. PICK t \in retries, d \in Cids, a \in Addrs : Accept(t, d, a)
  BY DEF Next, Traffic, SendRetry, CollectClient, Tick, Boot, Stop, vars
<1>2. c = [scid |-> d, odcid |-> t.odcid, addr |-> a]
  BY <1>1 DEF Accept
<1>3. t.key = start /\ t.retry_cid = d /\ t.source = a /\ ~Expired(t)
  BY <1>1 DEF Accept, Validate
<1>4. now \in Nat /\ t.issued \in Nat /\ TTL \in Nat
  BY AdmissionAssumption DEF AdmissionInv, TypeOK, Tokens
<1>5. t.issued <= now /\ now < t.issued + TTL
  BY <1>3, <1>4 DEF Expired
<1> QED
  BY <1>2, <1>3, <1>5

\* A Retry is not sent for the original id of a client.
LEMMA RetryStep ==
    ASSUME AdmissionInv, [Next]_vars,
           NEW r \in retries' \ retries, NEW c \in clients
    PROVE  c.odcid # r.odcid
<1>1. PICK d \in Dcids, a \in Addrs : SendRetry(d, a)
  BY DEF Next, Traffic, Accept, CollectClient, Tick, Boot, Stop, vars
<1>2. r.odcid = d
  BY <1>1 DEF SendRetry, Mint
<1>3. c.scid # [seed |-> start, of |-> d]
  BY <1>1 DEF SendRetry, Known, Derived
<1> QED
  BY <1>2, <1>3 DEF AdmissionInv, ClientPart
-------------------------------------------------------------------------------
(***************************************************************************)
(* Starting and ending.                                                    *)
(***************************************************************************)

\* What the proofs use of the two tables, and of the kinds of errors.
LEMMA Tables ==
    /\ Len(Preparations) = 13 /\ Len(Pools) = 6
    /\ \A i \in 1..13 : /\ Preparations[i] \in PrepareErrors \cup {"routes"}
                        /\ Preparations[i] = "udp_bind" <=> i = Bound
    /\ "none" \notin WorkerErrors /\ "nothing" \notin WorkerErrors
    /\ "nothing" \notin CallerErrors
    /\ PrepareErrors \cap (LoopErrors \cup {Panic}) = {}
    /\ CallerErrors \cap WorkerErrors = {}
<1>1. Len(Preparations) = 13 /\ Len(Pools) = 6 /\ DOMAIN Preparations = 1..13
  BY DEF Preparations, Pools
<1>2. \A i \in 1..13 : /\ Preparations[i] \in ToSet(Preparations)
                       /\ Preparations[i] = "udp_bind" <=> i = Bound
  BY <1>1 DEF Preparations, ToSet, Bound
<1>3. ToSet(Preparations) \subseteq
        {"routes", "retry_key", "quic_config", "certificate", "private_key",
         "alpn", "http3_config", "connection_id_key", "poll_setup",
         "udp_bind", "udp_register", "waker", "local_address"}
  BY <1>1 DEF Preparations, ToSet
<1> QED
  BY <1>1, <1>2, <1>3
  DEF PrepareErrors, WorkerErrors, LoopErrors, Panic, CallerErrors

\* Every step of the server is a step of Admission or leaves it alone.
LEMMA ServerStepIsAdmission == [ServerNext]_serverVars => [Next]_vars
BY DEF ServerNext, serverVars, ServerTraffic, Call, Startup, Launch, CallFails,
       Prepare, PrepareFails, Prepared, StartPool, SpawnPanics, EnterLoop,
       LoopEnds, Join, Next

\* The server starts with the inductive invariant.
LEMMA ServerInitInv == ServerInit => ServerInv
<1> SUFFICES ASSUME ServerInit PROVE ServerInv
  OBVIOUS
<1> USE AdmissionAssumption, AttemptsAssumption, Tables
<1>1. AdmissionInv
  <2>1. /\ start \in 0..MaxStarts /\ now \in 0..MaxClock
        /\ retries = {} /\ clients = {} /\ up = FALSE
    BY DEF ServerInit, Init
  <2> QED
    BY <2>1, Zenon DEF AdmissionInv, TypeOK, RetryPart, ClientPart
<1>2. ServerTypeOK
  BY <1>1 DEF ServerInit, ServerTypeOK, AdmissionInv
<1>3. \A a \in Attempts : PhasePart(a) /\ ErrorPart(a)
  BY DEF ServerInit, PhasePart, ErrorPart, Attempts, WorkerErrors
<1>4. UpPart
  BY DEF ServerInit, Init, UpPart
<1> QED
  BY <1>1, <1>2, <1>3, <1>4 DEF ServerInv

\* The end of a worker keeps the invariant of every attempt, whatever ends it.
LEMMA EndKeeps ==
    ASSUME ServerInv, NEW a \in Attempts, NEW error \in WorkerErrors,
           worker[a] \in {"preparing", "starting", "looping"},
           error \in PrepareErrors => worker[a] = "preparing",
           End(a, error)
    PROVE  /\ at' \in [Attempts -> 0..Len(Preparations)]
           /\ worker' \in [Attempts -> {"none", "preparing", "starting",
                                        "looping", "ended"}]
           /\ why' \in [Attempts -> WorkerErrors \cup {"none"}]
           /\ holder' \in Attempts \cup {0}
           /\ \A b \in Attempts : PhasePart(b)' /\ ErrorPart(b)'
<1> USE Tables DEF ServerInv, ServerTypeOK, End, Release, Attempts
<1>1. /\ at' \in [Attempts -> 0..Len(Preparations)]
      /\ worker' \in [Attempts -> {"none", "preparing", "starting",
                                   "looping", "ended"}]
      /\ why' \in [Attempts -> WorkerErrors \cup {"none"}]
      /\ holder' \in Attempts \cup {0}
  OBVIOUS
<1>2. \A b \in Attempts : PhasePart(b)'
  BY DEF PhasePart, Bound
<1>3. \A b \in Attempts : ErrorPart(b)'
  BY DEF PhasePart, ErrorPart
<1> QED
  BY <1>1, <1>2, <1>3

\* Every step of the server keeps the inductive invariant.
LEMMA ServerStep == ServerInv /\ [ServerNext]_serverVars => ServerInv'
<1> SUFFICES ASSUME ServerInv, [ServerNext]_serverVars PROVE ServerInv'
  OBVIOUS
<1> DEFINE Types == /\ api \in [Attempts -> {"none", "joined", "detached"}]
                    /\ worker \in [Attempts -> {"none", "preparing", "starting",
                                                "looping", "ended"}]
                    /\ at \in [Attempts -> 0..Len(Preparations)]
                    /\ pools \in [Attempts -> 0..Len(Pools)]
                    /\ why \in [Attempts -> WorkerErrors \cup {"none"}]
                    /\ told \in [Attempts -> CallerErrors \cup WorkerErrors
                                                \cup {"nothing"}]
                    /\ holder \in Attempts \cup {0}
           Parts == \A b \in Attempts : PhasePart(b) /\ ErrorPart(b)
<1>a. AdmissionInv'
  BY AdmissionStep, ServerStepIsAdmission DEF ServerInv
<1>b. SUFFICES Types' /\ Parts' /\ UpPart'
  BY <1>a DEF ServerInv, ServerTypeOK, AdmissionInv
<1>c. Types /\ Parts /\ UpPart
  BY DEF ServerInv, ServerTypeOK
<1>d. \A b \in Attempts : b \in Nat /\ b # 0
  BY AttemptsAssumption DEF Attempts
<1> USE Tables
<1>1. ASSUME ServerTraffic PROVE Types' /\ Parts' /\ UpPart'
  <2>1. UNCHANGED <<api, worker, at, pools, why, told, holder, up>>
    BY <1>1 DEF ServerTraffic, Traffic, SendRetry, Accept, CollectClient, Tick,
                runVars
  <2> QED
    BY <1>c, <2>1 DEF PhasePart, ErrorPart, UpPart
<1>2. ASSUME NEW a \in Attempts, NEW how \in {"joined", "detached"},
             Launch(a, how)
      PROVE  Types' /\ Parts' /\ UpPart'
  <2> USE <1>c, <1>d, <1>2 DEF Launch, Fresh, vars
  <2>1. Types'
    OBVIOUS
  <2>2. Parts'
    BY DEF PhasePart, ErrorPart, Bound
  <2>3. UpPart'
    BY DEF UpPart, PhasePart
  <2> QED
    BY <2>1, <2>2, <2>3
<1>3. ASSUME NEW a \in Attempts, NEW how \in {"joined", "detached"},
             NEW error \in CallerErrors, CallFails(a, how, error)
      PROVE  Types' /\ Parts' /\ UpPart'
  BY <1>c, <1>3 DEF CallFails, Fresh, vars, PhasePart, ErrorPart, UpPart
<1>4. ASSUME NEW a \in Attempts, Prepare(a)
      PROVE  Types' /\ Parts' /\ UpPart'
  <2> USE <1>c, <1>d, <1>4 DEF Prepare, Bindable, Preparing, vars
  <2>1. at[a] + 1 \in 1..13
    OBVIOUS
  <2>2. Types'
    BY <2>1
  <2>3. Parts'
    BY <2>1 DEF PhasePart, ErrorPart, Bound
  <2> QED
    BY <2>2, <2>3 DEF UpPart
<1>5. ASSUME NEW a \in Attempts, Prepared(a)
      PROVE  Types' /\ Parts' /\ UpPart'
  BY <1>c, <1>5 DEF Prepared, vars, PhasePart, ErrorPart, UpPart, Bound
<1>6. ASSUME NEW a \in Attempts, PrepareFails(a)
      PROVE  Types' /\ Parts' /\ UpPart'
  <2> DEFINE error == IF Preparing(a) = "routes" THEN Panic ELSE Preparing(a)
  <2>1. error \in WorkerErrors
    BY <1>c, <1>6 DEF PrepareFails, Preparing, WorkerErrors
  <2>2. End(a, error) /\ worker[a] = "preparing" /\ UNCHANGED vars
    BY <1>6 DEF PrepareFails
  <2> HIDE DEF error
  <2>3. Types' /\ Parts'
    BY <1>c, <2>1, <2>2, EndKeeps DEF End
  <2>4. UpPart'
    BY <1>c, <2>2 DEF End, UpPart, vars
  <2> QED
    BY <2>3, <2>4
<1>7. ASSUME NEW a \in Attempts, StartPool(a)
      PROVE  Types' /\ Parts' /\ UpPart'
  <2> USE <1>c, <1>7 DEF StartPool, vars
  <2>1. Types'
    OBVIOUS
  <2>2. Parts'
    BY DEF PhasePart, ErrorPart, WorkerErrors
  <2> QED
    BY <2>1, <2>2 DEF UpPart
<1>8. ASSUME NEW a \in Attempts, SpawnPanics(a)
      PROVE  Types' /\ Parts' /\ UpPart'
  <2>1. Panic \in WorkerErrors /\ Panic \notin PrepareErrors
    BY DEF WorkerErrors
  <2>2. End(a, Panic) /\ worker[a] = "starting" /\ UNCHANGED vars
    BY <1>8 DEF SpawnPanics
  <2>3. Types' /\ Parts'
    BY <1>c, <2>1, <2>2, EndKeeps DEF End
  <2>4. UpPart'
    BY <1>c, <2>2 DEF End, UpPart, vars
  <2> QED
    BY <2>3, <2>4
<1>9. ASSUME NEW a \in Attempts, EnterLoop(a)
      PROVE  Types' /\ Parts' /\ UpPart'
  BY <1>c, <1>9 DEF EnterLoop, Boot, PhasePart, ErrorPart, UpPart
<1>10. ASSUME NEW a \in Attempts, NEW error \in LoopErrors \cup {Panic},
              LoopEnds(a, error)
       PROVE  Types' /\ Parts' /\ UpPart'
  <2>1. error \in WorkerErrors /\ error \notin PrepareErrors
    BY DEF WorkerErrors
  <2>2. End(a, error) /\ worker[a] = "looping" /\ up' = FALSE
    BY <1>10 DEF LoopEnds, Stop
  <2>3. Types' /\ Parts'
    BY <1>c, <2>1, <2>2, EndKeeps DEF End
  <2>4. \A b \in Attempts : worker'[b] # "looping"
    BY <1>c, <2>2 DEF End, PhasePart
  <2> QED
    BY <2>2, <2>3, <2>4 DEF UpPart
<1>11. ASSUME NEW a \in Attempts, Join(a)
       PROVE  Types' /\ Parts' /\ UpPart'
  BY <1>c, <1>11 DEF Join, Reportable, vars, PhasePart, ErrorPart, UpPart
<1>12. ASSUME UNCHANGED serverVars PROVE Types' /\ Parts' /\ UpPart'
  BY <1>c, <1>12 DEF serverVars, vars, runVars, PhasePart, ErrorPart, UpPart
<1> QED
  BY <1>1, <1>2, <1>3, <1>4, <1>5, <1>6, <1>7, <1>8, <1>9, <1>10, <1>11, <1>12
  DEF ServerNext, Call, Startup

-------------------------------------------------------------------------------
(***************************************************************************)
(* Theorems.                                                               *)
(***************************************************************************)

\* The inductive invariant holds throughout.
THEOREM ServerInvariance == ServerSpec => []ServerInv
BY ServerInitInv, ServerStep, PTL DEF ServerSpec

\* Starting and stopping the server from its run functions only does to the
\* retry tokens and the clients map what Admission allows: the composed
\* specification implements Admission's own.
THEOREM ServerImplementsAdmission == ServerSpec => Spec
<1>1. ServerInit => Init
  BY DEF ServerInit
<1> QED
  BY <1>1, ServerStepIsAdmission, PTL DEF ServerSpec, Spec

\* The variables of both modules keep their types, and no two clients have the
\* same connection id.
THEOREM ServerTypeCorrect == ServerSpec => []ServerTypeOK
<1>1. ServerInv => ServerTypeOK
  BY DEF ServerInv
<1> QED
  BY <1>1, ServerInvariance, PTL

\* A caller that is told of a failure can start again: the worker is over, the
\* socket is free and a failed prerequisite left no processing thread; the one
\* worker in its loop owns the socket and has all its pools.
THEOREM FailureClean == ServerSpec => []FailureIsClean
<1>1. ServerInv => FailureIsClean
  <2> SUFFICES ASSUME ServerInv PROVE FailureIsClean
    OBVIOUS
  <2> QED
    BY Tables DEF ServerInv, ServerTypeOK, PhasePart, ErrorPart, FailureIsClean
<1> QED
  BY <1>1, ServerInvariance, PTL

\* A client is created only with a token that this start minted less than TTL
\* ago for the same address, original id and Retry id.
THEOREM AdmittedFresh == ServerSpec => AdmittedIsFresh
<1> DEFINE Fresh1 == \A c \in clients' \ clients :
              \E r \in retries : /\ r.key = start /\ r.source = c.addr
                                 /\ r.odcid = c.odcid /\ r.retry_cid = c.scid
                                 /\ r.issued <= now /\ now < r.issued + TTL
<1>1. ServerInv /\ [ServerNext]_serverVars => [Fresh1]_vars
  BY AdmittedStep, ServerStepIsAdmission DEF ServerInv
<1> HIDE DEF Fresh1
<1>2. ServerSpec => [][Fresh1]_vars
  BY <1>1, ServerInvariance, PTL DEF ServerSpec
<1> QED
  BY <1>2 DEF Fresh1, AdmittedIsFresh

\* While a client exists no Retry is sent for its original id, and it is the
\* only client with it.
THEOREM OneClient == ServerSpec => OneClientPerHandshake
<1> DEFINE NoRetry == \A r \in retries' \ retries, c \in clients :
                          c.odcid # r.odcid
           Alone == \A c, d \in clients : c.odcid = d.odcid => c = d
<1>1. ServerInv /\ [ServerNext]_serverVars => [NoRetry]_vars
  BY RetryStep, ServerStepIsAdmission DEF ServerInv
<1>2. ServerInv => Alone
  BY DEF ServerInv, AdmissionInv, TypeOK, ClientPart
<1> HIDE DEF NoRetry, Alone
<1>3. ServerSpec => [][NoRetry]_vars /\ []Alone
  BY <1>1, <1>2, ServerInvariance, PTL DEF ServerSpec
<1> QED
  BY <1>3 DEF NoRetry, Alone, OneClientPerHandshake
===============================================================================
