------------------------------ MODULE Process ------------------------------
(***************************************************************************)
(* The life of the process (src/main.cpp, src/api/server.cpp): main brings *)
(* the parts up, waits for a shutdown request and takes them down; the     *)
(* server thread runs httplib's listen, whose workers run the handlers;    *)
(* a shutdown request comes from a console handler, which Windows runs on  *)
(* a thread of its own, or from a POSIX signal handler, which interrupts   *)
(* main or another thread.                                                 *)
(*                                                                         *)
(* What the handlers and the decode thread do meanwhile is the matter of   *)
(* ChatCompletions and Scheduler; here they are only there or not.         *)
(* Scheduler!StopReturns and ChatCompletions!HandlerEnds let scheduler.stop*)
(* be one step and a handler be fair.                                      *)
(***************************************************************************)
EXTENDS Naturals, Sequences, FiniteSets

CONSTANTS
  Signals,      \* the shutdown requests that may come
  MaxHandlers   \* bound: handlers that run at one time (num_threads)

ASSUME ProcessAssumption ==
  /\ IsFiniteSet(Signals) /\ MaxHandlers \in Nat
  /\ Signals \cap {"main", "nobody"} = {}

VARIABLES
  mpc,        \* where main is
  spc,        \* spc[s]: where the handler of the request s is
  stack,      \* the signal handlers that interrupt main, the latest first
  mutex,      \* who holds g_shutdown_mutex
  requested,  \* g_shutdown_requested
  running,    \* Server::running_
  thread,     \* server_thread_: "none", "joinable" or "joined"
  srv,        \* where the server thread is
  failed,     \* listen is going to return false
  closed,     \* http_server.stop() has closed the listening socket
  handlers,   \* the handlers that run
  sched,      \* the scheduler: "none", "running" or "stopped"
  loaded,     \* the backend's loaded_
  exit        \* what main returns, "success" or "failure", or "terminate"

mainVars == <<mpc, thread, sched, loaded, exit>>
signalVars == <<spc, stack, requested>>
serverVars == <<srv, failed, handlers>>
pvars == <<mainVars, signalVars, serverVars, mutex, running, closed>>

\* The steps of main that can end it with "return 1", in order.
Fallible == <<"config", "gpu", "tokenizer", "kv">>

PInit ==
  /\ mpc = "config" /\ thread = "none" /\ sched = "none"
  /\ loaded = FALSE /\ exit = "none"
  /\ spc = [s \in Signals |-> "idle"] /\ stack = <<>> /\ requested = FALSE
  /\ srv = "none" /\ failed = FALSE /\ handlers = 0
  /\ mutex = "nobody" /\ running = FALSE /\ closed = FALSE

-----------------------------------------------------------------------------
(* main: start.                                                            *)

\* The configuration is read and valid, a part is initialised, or main
\* returns 1 with nothing started.
Initialize ==
  /\ \E i \in DOMAIN Fallible :
       /\ mpc = Fallible[i]
       /\ \/ /\ mpc' = IF i < Len(Fallible) THEN Fallible[i + 1] ELSE "backend"
             /\ exit' = exit
          \/ mpc' = "destroy" /\ exit' = "failure"
  /\ UNCHANGED <<signalVars, serverVars, mutex, running, closed, thread, sched,
                 loaded>>

\* backend->load_model(); the null backend always succeeds.
LoadModel ==
  /\ mpc = "backend"
  /\ loaded' = TRUE /\ mpc' = "scheduler"
  /\ UNCHANGED <<signalVars, serverVars, mutex, running, closed, thread, sched,
                 exit>>

StartScheduler ==
  /\ mpc = "scheduler"
  /\ sched' = "running" /\ mpc' = "server"
  /\ UNCHANGED <<signalVars, serverVars, mutex, running, closed, thread,
                 loaded, exit>>

\* Server::start up to the sleep of 100 ms.
StartServer ==
  /\ mpc = "server"
  /\ running' = TRUE /\ thread' = "joinable" /\ srv' = "starting"
  /\ mpc' = "sleep"
  /\ UNCHANGED <<signalVars, mutex, closed, failed, handlers, sched, loaded,
                 exit>>

\* After the sleep a server that does not run any more is an error.
StartReturns ==
  /\ mpc = "sleep"
  /\ \/ running /\ mpc' = "lock" /\ exit' = exit
     \/ ~running /\ mpc' = "destroy" /\ exit' = "failure"
  /\ UNCHANGED <<signalVars, serverVars, mutex, running, closed, thread, sched,
                 loaded>>

-----------------------------------------------------------------------------
(* main: wait for a shutdown request.                                      *)

\* The mutex is taken, at first or when the wait has been woken.
WaitLock ==
  /\ mpc = "lock" /\ mutex = "nobody"
  /\ mutex' = "main" /\ mpc' = "test"
  /\ UNCHANGED <<signalVars, serverVars, running, closed, thread, sched,
                 loaded, exit>>

\* The predicate is read under the mutex.
WaitTest ==
  /\ mpc = "test"
  /\ \/ requested /\ mpc' = "stop" /\ mutex' = "nobody"
     \/ ~requested /\ mpc' = "block" /\ mutex' = mutex
  /\ UNCHANGED <<signalVars, serverVars, running, closed, thread, sched,
                 loaded, exit>>

\* wait: to sleep and to release the mutex are one.
WaitBlock ==
  /\ mpc = "block"
  /\ mutex' = "nobody" /\ mpc' = "waiting"
  /\ UNCHANGED <<signalVars, serverVars, running, closed, thread, sched,
                 loaded, exit>>

\* A condition variable may wake without a notification.
SpuriousWake ==
  /\ mpc = "waiting" /\ stack = <<>>
  /\ mpc' = "lock"
  /\ UNCHANGED <<signalVars, serverVars, mutex, running, closed, thread, sched,
                 loaded, exit>>

-----------------------------------------------------------------------------
(* main: stop.                                                             *)

\* A shutdown that stops the scheduler and leaves the server to its destructor.
MutStopTest ==
  /\ mpc = "stop"
  /\ mpc' = "schedStop"
  /\ UNCHANGED <<signalVars, serverVars, mutex, running, closed, thread, sched,
                 loaded, exit>>

\* Server::stop does nothing when the server does not run any more.
StopTest ==
  /\ mpc = "stop"
  /\ mpc' = IF running THEN "close" ELSE "schedStop"
  /\ UNCHANGED <<signalVars, serverVars, mutex, running, closed, thread, sched,
                 loaded, exit>>

\* http_server.stop() has an effect only on a server that listens.
StopServer ==
  /\ mpc = "close"
  /\ closed' = (srv = "listening")
  /\ running' = FALSE /\ mpc' = "join"
  /\ UNCHANGED <<signalVars, serverVars, mutex, thread, sched, loaded, exit>>

\* A stop that does not wait for the server thread.
MutJoinServer ==
  /\ mpc = "join"
  /\ thread' = "joined" /\ mpc' = "schedStop"
  /\ UNCHANGED <<signalVars, serverVars, mutex, running, closed, sched, loaded,
                 exit>>

JoinServer ==
  /\ mpc = "join" /\ srv = "exited"
  /\ thread' = "joined" /\ mpc' = "schedStop"
  /\ UNCHANGED <<signalVars, serverVars, mutex, running, closed, sched, loaded,
                 exit>>

\* scheduler->stop() returns when the decode thread is joined.
StopScheduler ==
  /\ mpc = "schedStop"
  /\ sched' = "stopped" /\ mpc' = "unload"
  /\ UNCHANGED <<signalVars, serverVars, mutex, running, closed, thread,
                 loaded, exit>>

UnloadModel ==
  /\ mpc = "unload"
  /\ loaded' = FALSE /\ mpc' = "destroy" /\ exit' = "success"
  /\ UNCHANGED <<signalVars, serverVars, mutex, running, closed, thread, sched>>

\* The locals of main are destroyed, the server first: ~Server calls stop,
\* which does nothing when running_ is false, and the destructor of a thread
\* nobody joined terminates the process.  running_ is false here, because
\* stop was called or start has seen it false.
Destroy ==
  /\ mpc = "destroy"
  /\ mpc' = "ended"
  /\ exit' = IF thread = "joinable" THEN "terminate" ELSE exit
  /\ UNCHANGED <<signalVars, serverVars, mutex, running, closed, thread, sched,
                 loaded>>

\* main runs unless a signal handler interrupts it.
Main ==
  /\ stack = <<>>
  /\ \/ Initialize \/ LoadModel \/ StartScheduler \/ StartServer \/ StartReturns
     \/ WaitLock \/ WaitTest \/ WaitBlock
     \/ StopTest \/ StopServer \/ JoinServer \/ StopScheduler \/ UnloadModel
     \/ Destroy

-----------------------------------------------------------------------------
(* The shutdown requests.                                                  *)

\* The handlers are installed after the configuration is valid.  A request
\* gets a thread of its own, or interrupts whatever main is doing.
Deliver(s) ==
  /\ spc[s] = "idle" /\ mpc \notin {"config", "ended"}
  /\ spc' = [spc EXCEPT ![s] = "lock"]
  /\ stack' \in {stack, <<s>> \o stack}
  /\ UNCHANGED <<mainVars, serverVars, mutex, running, closed, requested>>

\* A handler on main's stack runs when none interrupts it.
Runs(s) == \A i \in DOMAIN stack : stack[i] = s => i = 1

\* request_shutdown without the lock_guard.
MutRequestLock(s) ==
  /\ spc[s] = "lock" /\ Runs(s) /\ mpc # "ended"
  /\ spc' = [spc EXCEPT ![s] = "set"]
  /\ UNCHANGED <<mainVars, serverVars, mutex, running, closed, stack,
                 requested>>

RequestLock(s) ==
  /\ spc[s] = "lock" /\ Runs(s) /\ mpc # "ended" /\ mutex = "nobody"
  /\ mutex' = s
  /\ spc' = [spc EXCEPT ![s] = "set"]
  /\ UNCHANGED <<mainVars, serverVars, running, closed, stack, requested>>

\* The flag is set and the mutex released.
RequestSet(s) ==
  /\ spc[s] = "set" /\ Runs(s) /\ mpc # "ended"
  /\ requested' = TRUE
  /\ mutex' = IF mutex = s THEN "nobody" ELSE mutex
  /\ spc' = [spc EXCEPT ![s] = "notify"]
  /\ UNCHANGED <<mainVars, serverVars, running, closed, stack>>

\* notify_all, and the handler returns.
RequestNotify(s) ==
  /\ spc[s] = "notify" /\ Runs(s) /\ mpc # "ended"
  /\ mpc' = IF mpc = "waiting" THEN "lock" ELSE mpc
  /\ spc' = [spc EXCEPT ![s] = "done"]
  /\ stack' = SelectSeq(stack, LAMBDA t : t # s)
  /\ UNCHANGED <<serverVars, mutex, running, closed, thread, sched, loaded,
                 exit, requested>>

Request(s) == RequestLock(s) \/ RequestSet(s) \/ RequestNotify(s)

-----------------------------------------------------------------------------
(* The server thread and httplib.                                          *)

\* The rest of the state, left alone by the server thread.
ServerOnly ==
  mpc # "ended" /\ UNCHANGED <<mainVars, signalVars, mutex, closed>>

\* listen binds the port and begins to accept, or returns false.
Bind ==
  /\ srv = "starting"
  /\ \/ srv' = "listening" /\ failed' = failed
     \/ srv' = "returned" /\ failed' = TRUE
  /\ ServerOnly /\ UNCHANGED <<running, handlers>>

\* A connection is accepted and a worker runs its handler.
HandlerBegin ==
  /\ srv = "listening" /\ ~closed /\ handlers < MaxHandlers
  /\ handlers' = handlers + 1
  /\ ServerOnly /\ UNCHANGED <<running, srv, failed>>

HandlerEnd ==
  /\ handlers > 0
  /\ handlers' = handlers - 1
  /\ ServerOnly /\ UNCHANGED <<running, srv, failed>>

\* accept fails although nobody stopped the server.
AcceptFails ==
  /\ srv = "listening" /\ ~closed
  /\ srv' = "draining" /\ failed' = TRUE
  /\ ServerOnly /\ UNCHANGED <<running, handlers>>

\* accept finds the socket closed by stop.
AcceptStops ==
  /\ srv = "listening" /\ closed
  /\ srv' = "draining"
  /\ ServerOnly /\ UNCHANGED <<running, handlers, failed>>

\* listen returns once the workers are joined.
ListenReturns ==
  /\ srv = "draining" /\ handlers = 0
  /\ srv' = "returned"
  /\ ServerOnly /\ UNCHANGED <<running, handlers, failed>>

\* The end of the thread's lambda.
ThreadEnd ==
  /\ srv = "returned"
  /\ srv' = "exited"
  /\ running' = (running /\ ~failed)
  /\ ServerOnly /\ UNCHANGED <<handlers, failed>>

ServerThread == Bind \/ AcceptStops \/ ListenReturns \/ ThreadEnd

PNext ==
  \/ Main \/ SpuriousWake
  \/ \E s \in Signals : Deliver(s) \/ Request(s)
  \/ ServerThread \/ AcceptFails \/ HandlerBegin \/ HandlerEnd

\* Every thread runs, and one that waits for a mutex that is free again and
\* again gets it; nobody owes a signal, a client or a failure.
PFairness ==
  /\ WF_pvars(Main) /\ WF_pvars(ServerThread) /\ WF_pvars(HandlerEnd)
  /\ \A s \in Signals : WF_pvars(Request(s)) /\ SF_pvars(RequestLock(s))

PSpec == PInit /\ [][PNext]_pvars /\ PFairness

-----------------------------------------------------------------------------
(* What must hold.                                                         *)

\* The signal handler waits for a mutex that the code it interrupted holds:
\* POSIX only, in the window between the lock and the wait.
SelfDeadlock ==
  /\ stack # <<>> /\ spc[Head(stack)] = "lock"
  /\ mutex \in {"main"} \cup {stack[i] : i \in DOMAIN stack}

\* stop came before listen had begun, and main joins a thread that listens.
StopMissed == mpc = "join" /\ ~closed /\ srv \in {"starting", "listening"}

\* A shutdown request, whenever it comes (while the parts are brought up, at
\* the wait, during an earlier shutdown), ends the process; no wake-up is
\* lost between the test of the flag and the wait.  The two ways to hang are
\* a signal that interrupts main while it holds the mutex, and a stop that
\* finds httplib not yet listening when the 100 ms of start are over.
ShutdownCompletes ==
  \A s \in Signals :
    spc[s] # "idle" ~> mpc = "ended" \/ SelfDeadlock \/ StopMissed

\* Handlers use the scheduler and the decode thread the model: neither is
\* stopped or unloaded under them, on a shutdown or after listen has failed.
PartsOutliveUsers ==
  /\ handlers > 0 => sched = "running"
  /\ sched = "running" => loaded

\* What the end of the process says: 0 is a shutdown that was asked for and
\* has joined and unloaded everything, 1 a start that failed with no thread
\* left, std::terminate a listen that failed, at the start or later.
ExitFaithful ==
  mpc = "ended" =>
    /\ exit = "success" =>
         /\ requested /\ thread = "joined" /\ srv = "exited"
         /\ sched = "stopped" /\ ~loaded
    /\ exit = "failure" => thread = "none" /\ sched = "none"
    /\ exit = "terminate" => failed

=============================================================================
