------------------------------- MODULE ServerRun ------------------------------
(***************************************************************************)
(* Starting the server and reporting its end: the configuration is checked *)
(* on the caller, everything the network needs is prepared on a worker     *)
(* thread, then the processing threads are started and the network loop    *)
(* runs until it fails.  try_run_blocking and run_blocking join the worker *)
(* and report its end (as an error or as a panic of the caller: the same   *)
(* here), run detaches it.  The application may start the server again, at *)
(* the same address, while an earlier start still runs or after it ended.  *)
(*                                                                         *)
(* Composed with Admission: its server is up while a worker is in its loop. *)
(* The worker returns Ok only from a hook of the test build, left out.     *)
(***************************************************************************)
EXTENDS Admission, Sequences, SequencesExt

CONSTANT
    MaxAttempts \* bound: calls of the run functions

ASSUME AttemptsAssumption == MaxAttempts \in Nat \ {0} /\ MaxAttempts <= MaxStarts

Attempts == 1..MaxAttempts

\* What try_build may find wrong, and the thread that cannot be created.
CallerErrors == {"address", "storage_path", "certificate_path", "key_path",
                 "storage", "worker_spawn"}

\* What the worker does before its loop: routes is route_manager_builder.build,
\* of the joined worker only, the others are the prerequisites in their order.
Preparations == <<"routes", "retry_key", "quic_config", "certificate",
                  "private_key", "alpn", "http3_config", "connection_id_key",
                  "poll_setup", "udp_bind", "udp_register", "waker",
                  "local_address">>

\* The processing threads in the order of their start.
Pools == <<"file_writer", "chunking", "signal_receiver", "middleware",
           "header", "response">>

\* What the loop returns, and a panic of the worker as join shows it.
LoopErrors == {"poll", "udp_receive"}
Panic == "network_worker"

PrepareErrors == ToSet(Preparations) \ {"routes"}
WorkerErrors == PrepareErrors \cup LoopErrors \cup {Panic}

VARIABLES
    api,    \* how the attempt was made
    worker, \* its network worker
    at,     \* how many preparations or pools are done
    pools,  \* how many pools it started; they are never stopped
    why,    \* what ended the worker
    told,   \* what the caller knows
    holder  \* the attempt that holds the UDP socket of the address, or 0

runVars == <<api, worker, at, pools, why, told, holder>>
serverVars == <<vars, runVars>>

ServerTypeOK ==
    /\ TypeOK
    /\ api \in [Attempts -> {"none", "joined", "detached"}]
    /\ worker \in [Attempts -> {"none", "preparing", "starting", "looping", "ended"}]
    /\ at \in [Attempts -> 0..Len(Preparations)]
    /\ pools \in [Attempts -> 0..Len(Pools)]
    /\ why \in [Attempts -> WorkerErrors \cup {"none"}]
    /\ told \in [Attempts -> CallerErrors \cup WorkerErrors \cup {"nothing"}]
    /\ holder \in Attempts \cup {0}

ServerInit ==
    /\ Init
    /\ api = [a \in Attempts |-> "none"]
    /\ worker = [a \in Attempts |-> "none"]
    /\ at = [a \in Attempts |-> 0]
    /\ pools = [a \in Attempts |-> 0]
    /\ why = [a \in Attempts |-> "none"]
    /\ told = [a \in Attempts |-> "nothing"]
    /\ holder = 0

-------------------------------------------------------------------------------
\* Attempts are made in order.
Fresh(a) == api[a] = "none" /\ \A b \in Attempts : b < a => api[b] # "none"

\* try_build fails, or the thread cannot be created; build panics with the
\* same error on the caller.
CallFails(a, how, error) ==
    /\ Fresh(a)
    /\ api' = [api EXCEPT ![a] = how]
    /\ told' = [told EXCEPT ![a] = error]
    /\ UNCHANGED <<vars, worker, at, pools, why, holder>>

\* The worker is spawned.  A detached one gets its routes ready made.
Launch(a, how) ==
    /\ Fresh(a)
    /\ api' = [api EXCEPT ![a] = how]
    /\ worker' = [worker EXCEPT ![a] = "preparing"]
    /\ at' = [at EXCEPT ![a] = IF how = "joined" THEN 0 ELSE 1]
    /\ UNCHANGED <<vars, pools, why, told, holder>>

\* The preparation that comes next.
Preparing(a) == Preparations[at[a] + 1]

\* UdpSocket::bind fails while another socket has the address.
Bindable(a) == Preparing(a) = "udp_bind" => holder = 0

\* A preparation succeeds.
Prepare(a) ==
    /\ worker[a] = "preparing"
    /\ at[a] < Len(Preparations)
    /\ Bindable(a)
    /\ at' = [at EXCEPT ![a] = @ + 1]
    /\ holder' = IF Preparing(a) = "udp_bind" THEN a ELSE holder
    /\ UNCHANGED <<vars, api, worker, pools, why, told>>

\* All prerequisites are there.
Prepared(a) ==
    /\ worker[a] = "preparing"
    /\ at[a] = Len(Preparations)
    /\ worker' = [worker EXCEPT ![a] = "starting"]
    /\ UNCHANGED <<vars, api, at, pools, why, told, holder>>

\* Mutant: the socket outlives the worker.
ReleaseLater(a) == UNCHANGED holder

\* The socket is closed with the frame of run, on return and on unwinding.
Release(a) == holder' = IF holder = a THEN 0 ELSE holder

\* The worker ends: nothing of run's frame is left, the pools are.
End(a, error) ==
    /\ worker' = [worker EXCEPT ![a] = "ended"]
    /\ at' = [at EXCEPT ![a] = 0]
    /\ why' = [why EXCEPT ![a] = error]
    /\ Release(a)
    /\ UNCHANGED <<api, pools, told>>

\* A prerequisite fails and run returns it; build of the routes panics.
PrepareFails(a) ==
    /\ worker[a] = "preparing"
    /\ at[a] < Len(Preparations)
    /\ End(a, IF Preparing(a) = "routes" THEN Panic ELSE Preparing(a))
    /\ UNCHANGED vars

\* The next pool is started.
StartPool(a) ==
    /\ worker[a] = "starting"
    /\ pools[a] < Len(Pools)
    /\ pools' = [pools EXCEPT ![a] = @ + 1]
    /\ UNCHANGED <<vars, api, worker, at, why, told, holder>>

\* thread::spawn panics when there is no thread; pools started before stay,
\* and the one that fails may have some of its threads.
SpawnPanics(a) ==
    /\ worker[a] = "starting"
    /\ pools[a] < Len(Pools)
    /\ End(a, Panic)
    /\ UNCHANGED vars

\* network_ready.
EnterLoop(a) ==
    /\ worker[a] = "starting"
    /\ pools[a] = Len(Pools)
    /\ worker' = [worker EXCEPT ![a] = "looping"]
    /\ Boot
    /\ UNCHANGED <<api, at, pools, why, told, holder>>

\* poll or recv_from fails for good, or send_to panics.
LoopEnds(a, error) ==
    /\ worker[a] = "looping"
    /\ End(a, error)
    /\ Stop

\* Mutant: a panic of the worker is taken for its normal end.
ReportablePanicLost(error) == error # Panic

\* What join hands to the caller: the error of run, or that it panicked.
Reportable(error) == error # "none"

\* worker.join in try_run_blocking, and the panic of run_blocking.
Join(a) ==
    /\ api[a] = "joined"
    /\ worker[a] = "ended"
    /\ told[a] = "nothing"
    /\ Reportable(why[a])
    /\ told' = [told EXCEPT ![a] = why[a]]
    /\ UNCHANGED <<vars, api, worker, at, pools, why, holder>>

ServerTraffic == Traffic /\ UNCHANGED runVars

Call(a) ==
    \E how \in {"joined", "detached"} :
        \/ Launch(a, how)
        \/ \E error \in CallerErrors : CallFails(a, how, error)

\* A step of a worker before its loop.
Startup(a) ==
    \/ Prepare(a) \/ PrepareFails(a) \/ Prepared(a)
    \/ StartPool(a) \/ SpawnPanics(a) \/ EnterLoop(a)

ServerNext ==
    \/ ServerTraffic
    \/ \E a \in Attempts :
          \/ Call(a) \/ Startup(a) \/ Join(a)
          \/ \E error \in LoopErrors \cup {Panic} : LoopEnds(a, error)

\* A worker that is not in its loop runs on, and a joining caller wakes up.
ServerFairness == \A a \in Attempts : WF_serverVars(Startup(a)) /\ WF_serverVars(Join(a))

ServerSpec == ServerInit /\ [][ServerNext]_serverVars /\ ServerFairness

-------------------------------------------------------------------------------
\* A caller that is told of a failure can start again: its worker is over and
\* does not hold the socket.  If what failed is a prerequisite, no processing
\* thread was started and the server was never ready.  At most one worker is in
\* the loop, it owns the socket and all its pools run.
FailureIsClean ==
    /\ \A a \in Attempts :
          told[a] # "nothing" =>
              /\ worker[a] \in {"none", "ended"} /\ holder # a
              /\ told[a] \in CallerErrors \cup PrepareErrors => pools[a] = 0
    /\ \A a \in Attempts :
          worker[a] = "looping" => holder = a /\ pools[a] = Len(Pools)

\* A call that waits for its worker either has a server that came up, or is
\* told that it did not; and the end of a server that came up is told as well.
StartIsDecided ==
    \A a \in Attempts :
        /\ worker[a] = "preparing" /\ api[a] = "joined"
              ~> worker[a] = "looping" \/ told[a] # "nothing"
        /\ worker[a] = "ended" /\ api[a] = "joined" ~> told[a] # "nothing"
===============================================================================
