---------------------------- MODULE ServerProofs ----------------------------
(***************************************************************************)
(* Proofs about the server.  The life of the process, for every set of     *)
(* shutdown requests and every number of worker threads: the parts outlive *)
(* their users, and the exit status says what happened.  The streamer, for *)
(* every queue size, every number of calls and any interleaving of         *)
(* producer, streaming thread and cancellers: what the client gets is what *)
(* was pushed, and nothing follows the end.  The metrics, for every number *)
(* of threads, every list of bucket bounds and every sequence of           *)
(* observations: how far QUEUE_DEPTH can drift, and that an export is a    *)
(* consistent reading.                                                     *)
(***************************************************************************)
EXTENDS Process, SSEStreamer, Metrics, SumTheorems, FiniteSetTheorems,
        SequenceTheorems, TLAPS


-----------------------------------------------------------------------------
(* The life of the process.                                                *)

\* main before the scheduler is started, while the server thread may be alive,
\* and while running_ still says whether it is.
Early == {"config", "gpu", "tokenizer", "kv", "backend", "scheduler"}
Serving == {"sleep", "lock", "test", "block", "waiting", "stop"}
Up == Serving \cup {"close", "join"}
Down == {"schedStop", "unload", "destroy", "ended"}

\* The types the proofs need.
PTypes ==
  /\ mpc \in Early \cup {"server"} \cup Up \cup Down
  /\ srv \in {"none", "starting", "listening", "draining", "returned", "exited"}
  /\ thread \in {"none", "joinable", "joined"}
  /\ handlers \in Nat

\* Who runs where main is: the server thread lives only while main is between
\* its start and its join, and handlers only inside listen; a running_ that is
\* false before main clears it is a listen that failed.
ThreadsInv ==
  /\ thread = "none" <=> srv = "none"
  /\ thread = "joined" => srv = "exited"
  /\ srv \in {"starting", "listening", "draining", "returned"} => mpc \in Up
  /\ handlers > 0 => srv \in {"listening", "draining"}
  /\ mpc \in Early \cup {"server"} => thread = "none"
  /\ mpc \in Up => thread = "joinable"
  /\ mpc \in Serving /\ ~running => srv = "exited" /\ failed
  /\ mpc \in {"schedStop", "unload"} =>
       srv = "exited" /\ (thread = "joined" \/ failed)

\* What is started and loaded where main is.
PartsInv ==
  /\ mpc \in Early => sched = "none"
  /\ mpc \in Up \cup {"server", "schedStop"} => sched = "running"
  /\ mpc = "scheduler" => loaded
  /\ sched = "running" => loaded
  /\ mpc = "unload" => sched = "stopped"
  /\ mpc \in {"stop", "close", "join", "schedStop", "unload"} => requested

\* What main is going to return.
ExitInv ==
  /\ mpc \notin {"destroy", "ended"} => exit = "none"
  /\ mpc = "destroy" => exit \in {"success", "failure"}
  /\ mpc = "destroy" /\ exit = "success" =>
       /\ requested /\ sched = "stopped" /\ ~loaded
       /\ srv = "exited" /\ (thread = "joined" \/ failed)
  /\ mpc = "destroy" /\ exit = "failure" =>
       \/ thread = "none" /\ sched = "none"
       \/ thread = "joinable" /\ failed
  /\ ExitFaithful

\* The inductive invariant: ExitFaithful is about the end, and needs to know
\* at each point of main which threads are left and why main is there.
PInv == PTypes /\ ThreadsInv /\ PartsInv /\ ExitInv

\* The process before main has done anything.
LEMMA InitPInv == PInit => PInv
  BY DEF PInit, PInv, PTypes, ThreadsInv, PartsInv, ExitInv, ExitFaithful,
         Early, Serving, Up, Down

\* Bringing the parts up: a step succeeds, or main returns 1 with no thread.
LEMMA BringUpStep ==
  PInv /\ (Initialize \/ LoadModel \/ StartScheduler \/ StartServer \/ StartReturns)
    => PInv'
<1> SUFFICES ASSUME PInv,
                    Initialize \/ LoadModel \/ StartScheduler \/ StartServer
                      \/ StartReturns
             PROVE  PInv'
  OBVIOUS
<1> USE DEF PInv, PTypes, ThreadsInv, PartsInv, ExitInv, ExitFaithful, Early,
            Serving, Up, Down, signalVars, serverVars
<1>1. CASE Initialize
  <2>1. /\ mpc \in {"config", "gpu", "tokenizer", "kv"}
        /\ \/ mpc' \in {"gpu", "tokenizer", "kv", "backend"} /\ exit' = exit
           \/ mpc' = "destroy" /\ exit' = "failure"
    <3>1. DOMAIN Fallible = {1, 2, 3, 4} /\ Len(Fallible) = 4
      BY DEF Fallible
    <3>2. /\ Fallible[1] = "config" /\ Fallible[2] = "gpu"
          /\ Fallible[3] = "tokenizer" /\ Fallible[4] = "kv"
      BY DEF Fallible
    <3> QED
      BY <1>1, <3>1, <3>2 DEF Initialize
  <2> QED
    BY <1>1, <2>1 DEF Initialize
<1>2. CASE LoadModel
  BY <1>2 DEF LoadModel
<1>3. CASE StartScheduler
  BY <1>3 DEF StartScheduler
<1>4. CASE StartServer
  BY <1>4 DEF StartServer
<1>5. CASE StartReturns
  BY <1>5 DEF StartReturns
<1> QED
  BY <1>1, <1>2, <1>3, <1>4, <1>5

\* Waiting for a shutdown request and taking the parts down.
LEMMA TakeDownStep ==
  PInv /\ (\/ WaitLock \/ WaitTest \/ WaitBlock \/ SpuriousWake
           \/ StopTest \/ StopServer \/ JoinServer
           \/ StopScheduler \/ UnloadModel \/ Destroy) => PInv'
<1> SUFFICES ASSUME PInv,
                    \/ WaitLock \/ WaitTest \/ WaitBlock \/ SpuriousWake
                    \/ StopTest \/ StopServer \/ JoinServer
                    \/ StopScheduler \/ UnloadModel \/ Destroy
             PROVE  PInv'
  OBVIOUS
<1> USE DEF PInv, PTypes, ThreadsInv, PartsInv, ExitInv, ExitFaithful, Early,
            Serving, Up, Down, signalVars, serverVars
<1>1. CASE WaitLock \/ WaitTest \/ WaitBlock \/ SpuriousWake
  BY <1>1 DEF WaitLock, WaitTest, WaitBlock, SpuriousWake
<1>2. CASE StopTest
  BY <1>2 DEF StopTest
<1>3. CASE StopServer
  BY <1>3 DEF StopServer
<1>4. CASE JoinServer
  BY <1>4 DEF JoinServer
<1>5. CASE StopScheduler
  BY <1>5 DEF StopScheduler
<1>6. CASE UnloadModel
  BY <1>6 DEF UnloadModel
<1>7. CASE Destroy
  BY <1>7 DEF Destroy
<1> QED
  BY <1>1, <1>2, <1>3, <1>4, <1>5, <1>6, <1>7

\* A shutdown request sets the flag and wakes main, at whatever point it comes.
LEMMA SignalStep ==
  ASSUME PInv, NEW s \in Signals, Deliver(s) \/ Request(s)
  PROVE  PInv'
<1> USE DEF PInv, PTypes, ThreadsInv, PartsInv, ExitInv, ExitFaithful, Early,
            Serving, Up, Down, mainVars, serverVars
<1>1. CASE Deliver(s)
  BY <1>1 DEF Deliver
<1>2. CASE RequestLock(s)
  BY <1>2 DEF RequestLock
<1>3. CASE RequestSet(s)
  BY <1>3 DEF RequestSet
<1>4. CASE RequestNotify(s)
  BY <1>4 DEF RequestNotify
<1> QED
  BY <1>1, <1>2, <1>3, <1>4 DEF Request

\* The server thread and its workers, with a listen that fails at any moment.
LEMMA ServerStep ==
  PInv /\ (ServerThread \/ AcceptFails \/ HandlerBegin \/ HandlerEnd) => PInv'
<1> SUFFICES ASSUME PInv,
                    ServerThread \/ AcceptFails \/ HandlerBegin \/ HandlerEnd
             PROVE  PInv'
  OBVIOUS
<1> USE DEF PInv, PTypes, ThreadsInv, PartsInv, ExitInv, ExitFaithful, Early,
            Serving, Up, Down, ServerOnly, mainVars, signalVars
<1>1. CASE Bind
  BY <1>1 DEF Bind
<1>2. CASE AcceptStops \/ AcceptFails
  BY <1>2 DEF AcceptStops, AcceptFails
<1>3. CASE ListenReturns
  BY <1>3 DEF ListenReturns
<1>4. CASE ThreadEnd
  BY <1>4 DEF ThreadEnd
<1>5. CASE HandlerBegin \/ HandlerEnd
  BY <1>5 DEF HandlerBegin, HandlerEnd
<1> QED
  BY <1>1, <1>2, <1>3, <1>4, <1>5 DEF ServerThread

\* The inductive invariant holds in every reachable state.
LEMMA PInvariance == PSpec => []PInv
<1>1. PInv /\ [PNext]_pvars => PInv'
  <2>1. PInv /\ UNCHANGED pvars => PInv'
    BY DEF PInv, PTypes, ThreadsInv, PartsInv, ExitInv, ExitFaithful, pvars,
           mainVars, signalVars, serverVars
  <2> QED
    BY <2>1, BringUpStep, TakeDownStep, SignalStep, ServerStep DEF PNext, Main
<1> QED
  BY <1>1, InitPInv, PTL DEF PSpec

\* No part is stopped or unloaded under a thread that uses it, whenever the
\* shutdown comes and whatever httplib's listen does.
THEOREM PartsOutlive == PSpec => []PartsOutliveUsers
<1>1. PInv => PartsOutliveUsers
  BY DEF PInv, PTypes, ThreadsInv, PartsInv, PartsOutliveUsers, Up
<1> QED
  BY <1>1, PInvariance, PTL

\* The process ends with 0 only after a complete shutdown that was asked for,
\* with 1 only when no thread was started, and terminates only after a listen
\* that failed.
THEOREM ExitsFaithfully == PSpec => []ExitFaithful
<1>1. PInv => ExitFaithful
  BY DEF PInv, ExitInv
<1> QED
  BY <1>1, PInvariance, PTL

-----------------------------------------------------------------------------
(* The streamer.                                                           *)

\* What run has taken from events_ and not written: one event or none.
Held == IF rpc = "write" \/ disconnected THEN <<ev>> ELSE <<>>

\* run has written a terminal event.
Ended == \E i \in DOMAIN out : out[i] \in {"Done", "Error"}

\* After a failed write run takes no more events; while it takes some it has
\* written no terminal one.
RunInv ==
  /\ disconnected => rpc \in {"cancel", "exited"}
  /\ Ended => rpc \in {"last", "exited"}

\* The inductive invariant.
SInv == STypeOK /\ RunInv /\ InOrder /\ TerminalLast

-----------------------------------------------------------------------------
(* Sequences.                                                              *)

\* A pop moves the first of what is queued into run's hands.
LEMMA PopFirst ==
  ASSUME NEW S, NEW a \in Seq(S), NEW c \in Seq(S), c # <<>>
  PROVE  (a \o <<>>) \o c = (a \o <<Head(c)>>) \o Tail(c)
<1>1. /\ Head(c) \in S /\ Tail(c) \in Seq(S) /\ <<Head(c)>> \in Seq(S)
  BY HeadTailProperties
<1>2. c = <<Head(c)>> \o Tail(c)
  <2> DEFINE d == <<Head(c)>> \o Tail(c)
  <2>1. d \in Seq(S) /\ Len(d) = Len(c)
    BY <1>1, ConcatProperties, HeadTailProperties, LenProperties
  <2>2. \A i \in 1 .. Len(c) : c[i] = d[i]
    BY <1>1
  <2> QED
    BY <2>1, <2>2, SeqEqual
<1>3. a \o <<>> = a
  BY ConcatEmptySeq
<1> QED
  BY <1>1, <1>2, <1>3, ConcatAssociative

\* A write moves the event in run's hands to the client.
LEMMA WriteNext ==
  ASSUME NEW S, NEW a \in Seq(S), NEW c \in Seq(S), NEW e \in S
  PROVE  (a \o <<e>>) \o c = (Append(a, e) \o <<>>) \o c
<1>1. Append(a, e) = a \o <<e>> /\ Append(a, e) \in Seq(S)
  BY AppendIsConcat, AppendProperties
<1> QED
  BY <1>1, ConcatEmptySeq

-----------------------------------------------------------------------------
(* The steps.                                                              *)

\* A step that pushes, pops and writes nothing.
LEMMA QuietStep ==
  ASSUME SInv, STypeOK', RunInv',
         UNCHANGED <<events, pushed, out, ev, disconnected>>,
         (rpc = "write") <=> (rpc' = "write")
  PROVE  SInv'
  BY DEF SInv, InOrder, TerminalLast

\* The producer's second step: a chunk the queue has no room for is dropped as
\* a whole, anything else goes to its end.
LEMMA EndPushStep == SInv /\ EndPush => SInv'
<1> SUFFICES ASSUME SInv, EndPush PROVE SInv'
  OBVIOUS
<1>1. STypeOK' /\ RunInv'
  <2>1. ppc \in EventTypes
    BY DEF SInv, STypeOK, EndPush
  <2>2. events' \in Seq(EventTypes) /\ pushed' \in Seq(EventTypes)
    <3>1. events \in Seq(EventTypes) /\ pushed \in Seq(EventTypes)
      BY DEF SInv, STypeOK
    <3>2. /\ Append(events, ppc) \in Seq(EventTypes)
          /\ Append(pushed, ppc) \in Seq(EventTypes)
      BY <2>1, <3>1, AppendProperties
    <3> QED
      BY <3>1, <3>2 DEF EndPush
  <2> QED
    BY <2>1, <2>2 DEF SInv, STypeOK, RunInv, Ended, EndPush, tokenVars
<1>2. CASE UNCHANGED <<events, pushed>>
  BY <1>1, <1>2, QuietStep DEF EndPush
<1>3. CASE events' = Append(events, ppc) /\ pushed' = Append(pushed, ppc)
  <2>1. /\ Held \in Seq(EventTypes) /\ out \in Seq(EventTypes)
        /\ events \in Seq(EventTypes) /\ ppc \in EventTypes
    BY DEF SInv, STypeOK, Held, EndPush
  <2>2. pushed = (out \o Held) \o events
    BY DEF SInv, InOrder, Held
  <2>3. pushed' = (out \o Held) \o events'
    <3>1. PICK a \in Seq(EventTypes) : a = out \o Held
      BY <2>1, ConcatProperties
    <3>2. Append(a \o events, ppc) = a \o Append(events, ppc)
      <4>1. Append(events, ppc) = events \o <<ppc>> /\ <<ppc>> \in Seq(EventTypes)
        BY <2>1, AppendIsConcat
      <4>2. Append(a \o events, ppc) = (a \o events) \o <<ppc>>
        BY <2>1, ConcatProperties, AppendIsConcat
      <4> QED
        BY <2>1, <4>1, <4>2, ConcatAssociative
    <3> QED
      BY <1>3, <2>2, <3>1, <3>2
  <2>4. InOrder'
    BY <2>3 DEF EndPush, InOrder, Held
  <2>5. TerminalLast'
    BY DEF EndPush, SInv, TerminalLast
  <2> QED
    BY <1>1, <2>4, <2>5 DEF SInv
<1> QED
  BY <1>2, <1>3 DEF EndPush

\* run takes an event, or finds none.
LEMMA RunWaitStep == SInv /\ RunWait => SInv'
<1> SUFFICES ASSUME SInv, RunWait PROVE SInv'
  OBVIOUS
<1>1. CASE events = <<>>
  <2>1. STypeOK' /\ RunInv'
    BY <1>1 DEF SInv, STypeOK, RunInv, Ended, RunWait, producerVars, tokenVars
  <2> QED
    BY <1>1, <2>1, QuietStep DEF RunWait, producerVars
<1>2. CASE events # <<>>
  <2>1. /\ rpc = "wait" /\ rpc' = "write" /\ ~disconnected /\ ~disconnected'
        /\ ev' = Head(events) /\ events' = Tail(events)
        /\ UNCHANGED <<pushed, out>>
    BY <1>2 DEF SInv, RunInv, RunWait, Rest, producerVars
  <2>2. /\ events \in Seq(EventTypes) /\ out \in Seq(EventTypes)
        /\ ev' \in EventTypes /\ events' \in Seq(EventTypes)
    BY <1>2, <2>1, HeadTailProperties DEF SInv, STypeOK
  <2>3. STypeOK' /\ RunInv'
    BY <1>2, <2>1, <2>2
    DEF SInv, STypeOK, RunInv, Ended, RunWait, producerVars, tokenVars
  <2>4. pushed = (out \o <<>>) \o events
    BY <2>1 DEF SInv, InOrder
  <2>5. pushed' = (out' \o <<ev'>>) \o events'
    BY <1>2, <2>1, <2>2, <2>4, PopFirst
  <2>6. InOrder' /\ TerminalLast'
    BY <2>1, <2>5 DEF SInv, InOrder, TerminalLast
  <2> QED
    BY <2>3, <2>6 DEF SInv
<1> QED
  BY <1>1, <1>2

\* run writes the event it holds; a terminal one is the first of its kind.
LEMMA WriteOkStep == SInv /\ WriteOk => SInv'
<1> SUFFICES ASSUME SInv, WriteOk PROVE SInv'
  OBVIOUS
<1>1. /\ rpc = "write" /\ rpc' # "write" /\ ~disconnected /\ ~disconnected'
      /\ out' = Append(out, ev) /\ UNCHANGED <<pushed, events, ev>>
      /\ out \in Seq(EventTypes) /\ events \in Seq(EventTypes) /\ ev \in EventTypes
  BY DEF SInv, RunInv, STypeOK, WriteOk, producerVars
<1>2. /\ out' \in Seq(EventTypes) /\ Len(out') = Len(out) + 1
      /\ out'[Len(out')] = ev /\ \A i \in 1 .. Len(out) : out'[i] = out[i]
  BY <1>1, AppendProperties
<1>3. STypeOK'
  BY <1>1, <1>2 DEF SInv, STypeOK, WriteOk, producerVars, tokenVars
<1>4. ~Ended
  BY <1>1 DEF SInv, RunInv
<1>5. \A i \in DOMAIN out' : out'[i] \in {"Done", "Error"} =>
                               i = Len(out') /\ IsLast(ev)
  <2>1. DOMAIN out = 1 .. Len(out) /\ DOMAIN out' = 1 .. Len(out')
    BY <1>1, <1>2, LenProperties
  <2> QED
    BY <1>1, <1>2, <1>4, <2>1 DEF Ended, IsLast
<1>6. RunInv' /\ TerminalLast'
  BY <1>1, <1>5 DEF RunInv, Ended, TerminalLast, WriteOk
<1>7. InOrder'
  <2>1. pushed = (out \o <<ev>>) \o events
    BY <1>1 DEF SInv, InOrder
  <2>2. pushed' = (out' \o <<>>) \o events'
    BY <1>1, <2>1, WriteNext
  <2> QED
    BY <1>1, <2>2 DEF InOrder
<1> QED
  BY <1>3, <1>6, <1>7 DEF SInv

\* A failed write loses the event run holds, and that one only.
LEMMA WriteFailsStep == SInv /\ WriteFails => SInv'
<1> SUFFICES ASSUME SInv, WriteFails PROVE SInv'
  OBVIOUS
<1>1. STypeOK' /\ RunInv'
  BY DEF SInv, STypeOK, RunInv, Ended, WriteFails, AfterFailure, producerVars,
         tokenVars
<1>2. InOrder' /\ TerminalLast'
  BY DEF SInv, InOrder, TerminalLast, WriteFails, producerVars
<1> QED
  BY <1>1, <1>2 DEF SInv

\* The steps that move control, flags and the token only.
LEMMA ControlStep ==
  ASSUME SInv,
         \/ Construct \/ (\E e \in EventTypes : BeginPush(e))
         \/ RunTop \/ RunLast \/ RunBreak \/ Stop \/ Leave
         \/ (\E c \in Cancellers : SetFlag(c) \/ RunCallbacks(c))
  PROVE  SInv'
<1>0. UNCHANGED <<events, pushed, out, ev, disconnected>> /\ (Ended' <=> Ended)
  BY DEF Construct, BeginPush, RunTop, RunLast, RunBreak, Stop, Leave, SetFlag,
         RunCallbacks, Ended, producerVars
<1> USE DEF SInv, RunInv, producerVars, tokenVars
<1>1. CASE Construct
  BY <1>0, <1>1, QuietStep DEF STypeOK, Construct, OnCancel
<1>2. ASSUME NEW e \in EventTypes, BeginPush(e) PROVE SInv'
  BY <1>0, <1>2, QuietStep, StreamerAssumption DEF STypeOK, BeginPush
<1>3. CASE RunTop
  BY <1>0, <1>3, QuietStep DEF STypeOK, RunTop
<1>4. CASE RunLast
  BY <1>0, <1>4, QuietStep DEF STypeOK, RunLast
<1>5. CASE RunBreak
  BY <1>0, <1>5, QuietStep DEF STypeOK, RunBreak
<1>6. CASE Stop \/ Leave
  BY <1>0, <1>6, QuietStep DEF STypeOK, Stop, Leave
<1>7. ASSUME NEW c \in Cancellers, SetFlag(c) PROVE SInv'
  BY <1>0, <1>7, QuietStep DEF STypeOK, SetFlag
<1>8. ASSUME NEW c \in Cancellers, RunCallbacks(c) PROVE SInv'
  <2>1. active' \in BOOLEAN /\ callback' \in BOOLEAN
    BY <1>8 DEF RunCallbacks
  <2> QED
    BY <1>0, <1>8, <2>1, QuietStep DEF STypeOK, RunCallbacks
<1> QED
  BY <1>1, <1>2, <1>3, <1>4, <1>5, <1>6, <1>7, <1>8

\* Every step preserves the inductive invariant.
LEMMA SInvStep == SInv /\ [SNext]_svars => SInv'
<1> SUFFICES ASSUME SInv, [SNext]_svars PROVE SInv'
  OBVIOUS
<1>1. "run" \in Cancellers /\ "other" \in Cancellers
  BY DEF Cancellers
<1>2. CASE UNCHANGED svars
  BY <1>2 DEF svars, producerVars, tokenVars, SInv, STypeOK, RunInv, Ended,
              InOrder, TerminalLast
<1>3. CASE SNext
  BY <1>1, <1>3, EndPushStep, RunWaitStep, WriteOkStep, WriteFailsStep,
     ControlStep DEF SNext, Run
<1> QED
  BY <1>2, <1>3

-----------------------------------------------------------------------------
(* The theorems.                                                           *)

\* The streamer before anything is pushed.
LEMMA InitSInv == SInit => SInv
<1> SUFFICES ASSUME SInit PROVE SInv
  OBVIOUS
<1>1. STypeOK
  <2>1. <<>> \in Seq(EventTypes) /\ 0 \in 0 .. MaxCalls
    BY StreamerAssumption, EmptySeq
  <2>2. [c \in Cancellers |-> "idle"] \in [Cancellers -> {"idle", "callbacks", "done"}]
    OBVIOUS
  <2> QED
    BY <2>1, <2>2 DEF SInit, STypeOK, EventTypes
<1>2. RunInv
  BY DEF SInit, RunInv, Ended
<1>3. InOrder
  <2>1. <<>> \o <<>> = <<>>
    BY ConcatEmptySeq, EmptySeq
  <2> QED
    BY <2>1 DEF SInit, InOrder
<1>4. TerminalLast
  BY DEF SInit, TerminalLast
<1> QED
  BY <1>1, <1>2, <1>3, <1>4 DEF SInv

\* The inductive invariant holds in every reachable state.
LEMMA SInvariance == SSpec => []SInv
  BY InitSInv, SInvStep, PTL DEF SSpec, SSafety

\* Between the producer and the client nothing is lost, doubled or reordered,
\* except the one event a failed write was about.
THEOREM DeliveredInOrder == SSpec => []InOrder
<1>1. SInv => InOrder
  BY DEF SInv
<1> QED
  BY <1>1, SInvariance, PTL

\* The client gets nothing after a terminal event, whatever the producer pushes.
THEOREM NothingAfterEnd == SSpec => []TerminalLast
<1>1. SInv => TerminalLast
  BY DEF SInv
<1> QED
  BY <1>1, SInvariance, PTL

-----------------------------------------------------------------------------
(* The metrics: where the threads are.                                     *)

\* The types of what the two gauges of this section use.
GaugeTypes ==
  /\ hpc \in [Submitters -> {"push", "counter", "add", "gauge", "load", "store",
                             "done"}]
  /\ dpc \in {"pop", "gauge", "load", "store", "histogram", "observe"}
  /\ queue \in Nat /\ depth \in Int /\ races \in Nat
  /\ local \in [Threads -> Int]

\* The submits that are in the queue's length and not in the gauge yet; the
\* decode thread is to lower the gauge.
Behind == {h \in Submitters : hpc[h] \in {"counter", "add", "gauge", "load", "store"}}
Lowering == dpc \in {"gauge", "load", "store"}

\* What the gauge would say if no two updates had overlapped.
Due == queue - Cardinality(Behind) + (IF Lowering THEN 1 ELSE 0)

\* x is away from Due by at most the number of overlaps.
Near(x) == x - Due <= races /\ Due - x <= races

\* The gauge is near, and so is what each thread has loaded and will store.
DepthInv == Near(depth) /\ \A t \in Updating : Near(local[t])

\* The inductive invariant of QUEUE_DEPTH.
GaugeInv == GaugeTypes /\ DepthInv

\* Sets of threads are finite.
LEMMA ThreadSets ==
  /\ IsFiniteSet(Behind) /\ Cardinality(Behind) \in Nat
  /\ \A t : IsFiniteSet(Updating \ {t}) /\ Cardinality(Updating \ {t}) \in Nat
  /\ \A t, u : u \in Updating \ {t} => Cardinality(Updating \ {t}) >= 1
<1>1. IsFiniteSet(Submitters) /\ IsFiniteSet({"decode"})
  BY MetricsAssumption, FS_Singleton
<1>2. IsFiniteSet(Submitters \cup {"decode"})
  BY <1>1, FS_Union
<1>3. \A T \in SUBSET (Submitters \cup {"decode"}) :
        IsFiniteSet(T) /\ Cardinality(T) \in Nat
  BY <1>2, FS_Subset, FS_CardinalityType
<1>4. Behind \in SUBSET (Submitters \cup {"decode"})
      /\ \A t : Updating \ {t} \in SUBSET (Submitters \cup {"decode"})
  BY DEF Behind, Updating
<1>5. ASSUME NEW t, NEW u \in Updating \ {t} PROVE Cardinality(Updating \ {t}) >= 1
  <2>1. IsFiniteSet(Updating \ {t}) /\ Cardinality(Updating \ {t}) \in Nat
    BY <1>3, <1>4
  <2>2. Cardinality(Updating \ {t}) # 0
    BY <2>1, FS_EmptySet
  <2> QED
    BY <2>1, <2>2
<1> QED
  BY <1>3, <1>4, <1>5

\* A step that moves neither Due nor the gauge.
LEMMA GaugeSame ==
  ASSUME GaugeInv, GaugeTypes', UNCHANGED gaugeVars, Due' = Due, Updating' \subseteq Updating
  PROVE  GaugeInv'
  BY DEF GaugeInv, DepthInv, Near, gaugeVars

\* A push adds one to the queue and one to those behind.
LEMMA PushStep ==
  ASSUME GaugeInv, NEW h \in Submitters, Push(h)
  PROVE  GaugeInv'
<1>1. /\ hpc[h] = "push" /\ hpc' = [hpc EXCEPT ![h] = "counter"] /\ queue' = queue + 1
      /\ UNCHANGED <<dpc, gaugeVars>>
  BY DEF Push, Goto
<1>2. GaugeTypes'
  BY <1>1 DEF GaugeInv, GaugeTypes, gaugeVars
<1>3. Behind' = Behind \cup {h} /\ h \notin Behind
  BY <1>1 DEF Behind, GaugeInv, GaugeTypes
<1>4. Cardinality(Behind') = Cardinality(Behind) + 1
  BY <1>3, ThreadSets, FS_AddElement
<1>5. Due' = Due
  BY <1>1, <1>4, ThreadSets DEF Due, Lowering, GaugeInv, GaugeTypes
<1>6. Updating' \subseteq Updating
  BY <1>1 DEF Updating, GaugeInv, GaugeTypes
<1> QED
  BY <1>1, <1>2, <1>5, <1>6, GaugeSame

\* Lookups, and the counter, leave a thread behind.
LEMMA WalkStep ==
  ASSUME GaugeInv, NEW h \in Submitters, Lookup(h) \/ CounterIncrement(h)
  PROVE  GaugeInv'
<1>1. /\ hpc[h] \in {"counter", "add", "gauge"}
      /\ \E l \in {"add", "gauge", "load"} : hpc' = [hpc EXCEPT ![h] = l]
      /\ UNCHANGED <<queue, dpc, gaugeVars>>
  BY DEF Lookup, CounterIncrement, Goto
<1>2. GaugeTypes'
  BY <1>1 DEF GaugeInv, GaugeTypes, gaugeVars
<1>3. Behind' = Behind /\ Updating' = Updating
  BY <1>1 DEF Behind, Updating, GaugeInv, GaugeTypes
<1>4. Due' = Due
  BY <1>1, <1>3 DEF Due, Lowering
<1> QED
  BY <1>1, <1>2, <1>3, <1>4, GaugeSame

\* The load of a gauge that is near.
LEMMA LoadStep ==
  ASSUME GaugeInv, GaugeTypes', NEW t \in Threads, Load(t), Due' = Due,
         Updating' = Updating \cup {t}
  PROVE  GaugeInv'
<1>1. /\ local'[t] = depth /\ \A u \in Threads \ {t} : local'[u] = local[u]
      /\ UNCHANGED <<depth, races>>
  BY DEF Load, GaugeInv, GaugeTypes
<1>2. Updating \subseteq Threads
  BY DEF Updating, Threads
<1> QED
  BY <1>1, <1>2 DEF GaugeInv, DepthInv, Near

\* The store of one more or one less, which Due follows; the others that have
\* loaded are counted as races.
LEMMA StoreStep ==
  ASSUME GaugeInv, GaugeTypes', NEW t \in Updating, NEW delta \in {-1, 1},
         Store(t, delta), Due' = Due + delta, Updating' = Updating \ {t}
  PROVE  GaugeInv'
<1> DEFINE c == Cardinality(Updating \ {t})
<1>1. /\ depth' = local[t] + delta /\ races' = races + c
      /\ \A u \in Threads \ {t} : local'[u] = local[u]
  BY DEF Store, GaugeInv, GaugeTypes
<1>2. Updating \subseteq Threads
  BY DEF Updating, Threads
<1>3. /\ c \in Nat /\ races \in Nat /\ Due \in Int
      /\ \A u \in Threads : local[u] \in Int
  <2>1. c \in Nat /\ Cardinality(Behind) \in Nat
    BY ThreadSets
  <2>2. races \in Nat /\ queue \in Nat /\ \A u \in Threads : local[u] \in Int
    BY DEF GaugeInv, GaugeTypes
  <2>3. Due \in Int
    BY <2>1, <2>2 DEF Due
  <2> QED
    BY <2>1, <2>2, <2>3
<1>4. \A u \in Updating \ {t} : c >= 1
  BY ThreadSets
<1> HIDE DEF c
<1>5. Near(depth)'
  BY <1>1, <1>2, <1>3 DEF GaugeInv, DepthInv, Near
<1>6. ASSUME NEW u \in Updating \ {t} PROVE Near(local[u])'
  <2>1. local'[u] = local[u] /\ local[u] \in Int /\ c >= 1 /\ Near(local[u])
    BY <1>1, <1>2, <1>3, <1>4 DEF GaugeInv, DepthInv
  <2> QED
    BY <1>1, <1>3, <2>1 DEF Near
<1> QED
  BY <1>5, <1>6 DEF GaugeInv, DepthInv

\* The increment of an HTTP thread.
LEMMA IncrementStep ==
  ASSUME GaugeInv, NEW h \in Submitters, GaugeIncrement(h)
  PROVE  GaugeInv'
<1>0. h \in Threads /\ h # "decode"
  BY MetricsAssumption DEF Threads
<1>1. CASE hpc[h] = "load" /\ Load(h) /\ Goto(h, "store")
  <2>1. UNCHANGED <<queue, dpc>> /\ hpc' = [hpc EXCEPT ![h] = "store"]
    BY <1>1 DEF GaugeIncrement, Goto
  <2>2. GaugeTypes'
    BY <1>0, <1>1, <2>1 DEF GaugeInv, GaugeTypes, Load
  <2>3. Behind' = Behind /\ Updating' = Updating \cup {h}
    BY <1>0, <1>1, <2>1 DEF Behind, Updating, GaugeInv, GaugeTypes
  <2>4. Due' = Due
    BY <2>1, <2>3 DEF Due, Lowering
  <2> QED
    BY <1>0, <1>1, <2>2, <2>3, <2>4, LoadStep
<1>2. CASE hpc[h] = "store" /\ Store(h, 1) /\ Goto(h, "done")
  <2>1. UNCHANGED <<queue, dpc>> /\ hpc' = [hpc EXCEPT ![h] = "done"]
    BY <1>2 DEF GaugeIncrement, Goto
  <2>2. GaugeTypes'
    <3>1. Cardinality(Updating \ {h}) \in Nat
      BY ThreadSets
    <3> QED
      BY <1>0, <1>2, <2>1, <3>1 DEF GaugeInv, GaugeTypes, Store
  <2>3. Behind' = Behind \ {h} /\ h \in Behind
        /\ Updating' = Updating \ {h} /\ h \in Updating
    BY <1>0, <1>2, <2>1 DEF Behind, Updating, GaugeInv, GaugeTypes
  <2>4. Cardinality(Behind') = Cardinality(Behind) - 1
    BY <2>3, ThreadSets, FS_RemoveElement
  <2>5. Due' = Due + 1
    BY <2>1, <2>4, ThreadSets DEF Due, Lowering, GaugeInv, GaugeTypes
  <2> QED
    BY <1>2, <2>2, <2>3, <2>5, StoreStep
<1> QED
  BY <1>1, <1>2 DEF GaugeIncrement

\* The decrement of the decode thread.
LEMMA DecrementStep ==
  ASSUME GaugeInv, GaugeDecrement
  PROVE  GaugeInv'
<1>0. "decode" \in Threads /\ "decode" \notin Submitters
  BY MetricsAssumption DEF Threads
<1>1. UNCHANGED <<hpc, queue>> /\ Behind' = Behind
  BY DEF GaugeDecrement, Behind
<1>2. CASE dpc = "load" /\ Load("decode") /\ dpc' = "store"
  <2>1. GaugeTypes'
    BY <1>0, <1>1, <1>2 DEF GaugeInv, GaugeTypes, Load
  <2>2. Updating' = Updating \cup {"decode"}
    BY <1>1, <1>2 DEF Updating
  <2>3. Due' = Due
    BY <1>1, <1>2 DEF Due, Lowering
  <2> QED
    BY <1>0, <1>2, <2>1, <2>2, <2>3, LoadStep
<1>3. CASE dpc = "store" /\ Store("decode", -1) /\ dpc' = "histogram"
  <2>1. GaugeTypes'
    <3>1. Cardinality(Updating \ {"decode"}) \in Nat
      BY ThreadSets
    <3> QED
      BY <1>0, <1>1, <1>3, <3>1 DEF GaugeInv, GaugeTypes, Store
  <2>2. Updating' = Updating \ {"decode"} /\ "decode" \in Updating
    BY <1>0, <1>1, <1>3 DEF Updating
  <2>3. Due' = Due + (-1)
    BY <1>1, <1>3, ThreadSets DEF Due, Lowering, GaugeInv, GaugeTypes
  <2> QED
    BY <1>3, <2>1, <2>2, <2>3, StoreStep
<1> QED
  BY <1>2, <1>3 DEF GaugeDecrement

\* All other steps of the decode thread and of the export.
LEMMA OtherStep ==
  ASSUME GaugeInv,
         \/ QueuePop \/ DecodeLookup \/ \E v \in Values : Observe(v)
         \/ ExportBegin \/ ExportRead \/ ExportEnd \/ UNCHANGED mvars
  PROVE  GaugeInv'
<1>1. UNCHANGED <<hpc, gaugeVars>> /\ Behind' = Behind
  BY DEF QueuePop, DecodeLookup, Observe, ExportBegin, ExportRead, ExportEnd, mvars, Behind
<1>2. \/ UNCHANGED <<dpc, queue>>
      \/ dpc = "pop" /\ queue > 0 /\ queue' = queue - 1 /\ dpc' = "gauge"
      \/ queue' = queue /\ dpc = "gauge" /\ dpc' = "load"
      \/ queue' = queue /\ dpc = "histogram" /\ dpc' = "observe"
      \/ queue' = queue /\ dpc = "observe" /\ dpc' = "pop"
  BY DEF QueuePop, DecodeLookup, Observe, ExportBegin, ExportRead, ExportEnd, mvars
<1>3. GaugeTypes'
  BY <1>1, <1>2 DEF GaugeInv, GaugeTypes, gaugeVars
<1>4. Updating' \subseteq Updating
  BY <1>1, <1>2 DEF Updating
<1>5. Due' = Due
  BY <1>1, <1>2, ThreadSets DEF Due, Lowering, GaugeInv, GaugeTypes
<1> QED
  BY <1>1, <1>3, <1>4, <1>5, GaugeSame

\* At the start nothing is due.
LEMMA GaugeStart == MInit => GaugeInv
<1> SUFFICES ASSUME MInit PROVE GaugeInv
  OBVIOUS
<1>1. GaugeTypes
  BY DEF MInit, GaugeTypes
<1>2. Behind = {} /\ Updating = {} /\ ~Lowering
  BY DEF MInit, Behind, Updating, Lowering
<1>3. Due = 0
  BY <1>2, FS_EmptySet DEF MInit, Due
<1> QED
  BY <1>1, <1>2, <1>3 DEF MInit, GaugeInv, DepthInv, Near

\* Every step keeps the gauge near.
LEMMA GaugeStep ==
  ASSUME GaugeInv, [MNext]_mvars
  PROVE  GaugeInv'
BY PushStep, WalkStep, IncrementStep, DecrementStep, OtherStep DEF MNext

\* QUEUE_DEPTH comes back to the length of the queue but for the updates that
\* overlapped, for every number of HTTP threads.
THEOREM DriftBounded == MSpec => []QueueDepthDrift
<1>1. GaugeInv => QueueDepthDrift
  <2> SUFFICES ASSUME GaugeInv, Quiet PROVE Abs(depth - queue) <= races
    BY DEF QueueDepthDrift
  <2>1. Behind = {} /\ ~Lowering
    BY DEF Quiet, Behind, Lowering
  <2>2. Due = queue
    BY <2>1, FS_EmptySet DEF Due, GaugeInv, GaugeTypes
  <2> QED
    BY <2>2 DEF GaugeInv, GaugeTypes, DepthInv, Near, Abs
<1> QED
  BY <1>1, GaugeStart, GaugeStep, PTL DEF MSpec

-----------------------------------------------------------------------------
(* The counter.                                                            *)

\* The submits that have pushed a request and not counted it yet.
Uncounted == {h \in Submitters : hpc[h] \in {"counter", "add"}}

\* REQUESTS_TOTAL is behind by these.
CountInv ==
  total \in Nat /\ accepted \in Nat /\ total + Cardinality(Uncounted) = accepted

\* The set is finite.
LEMMA UncountedFinite == IsFiniteSet(Uncounted) /\ Cardinality(Uncounted) \in Nat
<1>1. Uncounted \subseteq Submitters
  BY DEF Uncounted
<1> QED
  BY <1>1, MetricsAssumption, FS_Subset, FS_CardinalityType

\* The counter keeps up, and never goes back.
LEMMA CountStep ==
  ASSUME GaugeInv, CountInv, [MNext]_mvars
  PROVE  CountInv' /\ total <= total'
<1>1. ASSUME NEW h \in Submitters, Push(h) PROVE CountInv' /\ total <= total'
  <2>1. /\ hpc[h] = "push" /\ hpc' = [hpc EXCEPT ![h] = "counter"]
        /\ accepted' = accepted + 1 /\ total' = total
    BY <1>1 DEF Push, Goto
  <2>2. Uncounted' = Uncounted \cup {h} /\ h \notin Uncounted
    BY <2>1 DEF Uncounted, GaugeInv, GaugeTypes
  <2>3. Cardinality(Uncounted') = Cardinality(Uncounted) + 1
    BY <2>2, UncountedFinite, FS_AddElement
  <2> QED
    BY <2>1, <2>3, UncountedFinite DEF CountInv
<1>2. ASSUME NEW h \in Submitters, CounterIncrement(h) PROVE CountInv' /\ total <= total'
  <2>1. /\ hpc[h] = "add" /\ hpc' = [hpc EXCEPT ![h] = "gauge"]
        /\ accepted' = accepted /\ total' = total + 1
    BY <1>2 DEF CounterIncrement, Goto
  <2>2. Uncounted' = Uncounted \ {h} /\ h \in Uncounted
    BY <2>1 DEF Uncounted, GaugeInv, GaugeTypes
  <2>3. Cardinality(Uncounted') = Cardinality(Uncounted) - 1
    BY <2>2, UncountedFinite, FS_RemoveElement
  <2> QED
    BY <2>1, <2>3, UncountedFinite DEF CountInv
<1>3. ASSUME UNCHANGED <<total, accepted>>, Uncounted' = Uncounted
      PROVE  CountInv' /\ total <= total'
  BY <1>3 DEF CountInv
<1>4. ASSUME NEW h \in Submitters, Lookup(h) \/ GaugeIncrement(h)
      PROVE  UNCHANGED <<total, accepted>> /\ Uncounted' = Uncounted
  <2>1. /\ UNCHANGED <<total, accepted>>
        /\ \/ hpc[h] = "counter" /\ hpc' = [hpc EXCEPT ![h] = "add"]
           \/ /\ hpc[h] \in {"gauge", "load", "store"}
              /\ \E l \in {"load", "store", "done"} : hpc' = [hpc EXCEPT ![h] = l]
    BY <1>4 DEF Lookup, GaugeIncrement, Goto
  <2> QED
    BY <2>1 DEF Uncounted, GaugeInv, GaugeTypes
<1>5. ASSUME \/ QueuePop \/ DecodeLookup \/ GaugeDecrement \/ \E v \in Values : Observe(v)
             \/ ExportBegin \/ ExportRead \/ ExportEnd \/ UNCHANGED mvars
      PROVE  UNCHANGED <<total, accepted>> /\ Uncounted' = Uncounted
  BY <1>5 DEF QueuePop, DecodeLookup, GaugeDecrement, Observe, ExportBegin,
              ExportRead, ExportEnd, mvars, Uncounted
<1> QED
  BY <1>1, <1>2, <1>3, <1>4, <1>5 DEF MNext

-----------------------------------------------------------------------------
(* The histogram.                                                          *)

\* The observed values, each as often as it was observed.
Weights == [v \in Values |-> v * seen[v]]

\* The types of the histogram and of what was observed.
HistTypes ==
  /\ hist \in [buckets : [Buckets -> Nat], sum : Nat, count : Nat]
  /\ seen \in [Values -> Nat]

\* Only finitely much has been observed.
FiniteInv ==
  /\ IsFiniteSet(Units(hist.buckets, Buckets))
  /\ IsFiniteSet(Units(seen, Values))
  /\ IsFiniteSet(Units(Weights, Values))

\* The buckets up to a bound count what is at most the bound; all of them, and
\* count, what was observed; sum adds it up.
HistInv ==
  /\ HistTypes /\ FiniteInv
  /\ \A i \in DOMAIN Bounds : Sum(hist.buckets, 1 .. i) = AtMost(seen, Bounds[i])
  /\ Sum(hist.buckets, Buckets) = hist.count /\ Sum(seen, Values) = hist.count
  /\ Sum(Weights, Values) = hist.sum

\* The list of bounds.
LEMMA BoundsFacts ==
  /\ Len(Bounds) \in Nat /\ DOMAIN Bounds = 1 .. Len(Bounds)
  /\ \A i \in DOMAIN Bounds : Bounds[i] \in Nat /\ i \in Buckets /\ i + 1 \in Buckets
  /\ \A i \in Buckets : i \in Nat /\ 1 .. i \subseteq Buckets
  /\ Buckets = 1 .. Len(Bounds) + 1 /\ Len(Bounds) + 1 \in Buckets
<1>1. Len(Bounds) \in Nat /\ DOMAIN Bounds = 1 .. Len(Bounds)
  BY MetricsAssumption, LenProperties
<1>2. \A i \in DOMAIN Bounds : Bounds[i] \in Nat
  BY <1>1, MetricsAssumption
<1> QED
  BY <1>1, <1>2 DEF Buckets

\* The bucket of a value is at or below a bound exactly when the value is.
LEMMA BucketFacts ==
  ASSUME NEW v \in Values
  PROVE  /\ BucketOf(v) \in Buckets
         /\ \A i \in DOMAIN Bounds : BucketOf(v) <= i <=> v <= Bounds[i]
<1> DEFINE T == {i \in DOMAIN Bounds : v <= Bounds[i]} \cup {Len(Bounds) + 1}
           k == BucketOf(v)
<1>1. T \subseteq Nat /\ T # {} /\ T \subseteq Buckets
  BY BoundsFacts
<1>2. \E x \in T : \A y \in T : x <= y
  BY <1>1, LeastOf
<1>3. k \in T /\ \A y \in T : k <= y
  BY <1>2 DEF BucketOf, Min
<1>4. v \in Nat
  BY MetricsAssumption
<1> HIDE DEF k
<1>5. ASSUME NEW i \in DOMAIN Bounds PROVE k <= i <=> v <= Bounds[i]
  <2>1. v <= Bounds[i] => k <= i
    BY <1>3
  <2>2. ASSUME k <= i PROVE v <= Bounds[i]
    <3>1. k \in DOMAIN Bounds /\ v <= Bounds[k]
      BY <1>3, <2>2, BoundsFacts
    <3>2. k = i \/ (k < i /\ Bounds[k] < Bounds[i])
      BY <2>2, <3>1, BoundsFacts, MetricsAssumption
    <3>3. Bounds[k] \in Nat /\ Bounds[i] \in Nat
      BY <3>1, BoundsFacts
    <3> QED
      BY <1>4, <3>1, <3>2, <3>3
  <2> QED
    BY <2>1, <2>2
<1> QED
  BY <1>1, <1>3, <1>5 DEF k

\* One observation.
LEMMA ObserveStep ==
  ASSUME HistInv, NEW v \in Values, Observe(v)
  PROVE  /\ HistInv'
         /\ \A w \in Values : seen[w] <= seen'[w]
         /\ hist.count <= hist'.count /\ hist.sum <= hist'.sum
<1> DEFINE k == BucketOf(v)
           f == hist.buckets
           g == hist'.buckets
           s == seen
           t == seen'
           w == Weights
           x == Weights'
<1>1. /\ g = [f EXCEPT ![k] = f[k] + 1] /\ t = [s EXCEPT ![v] = s[v] + 1]
      /\ hist'.sum = hist.sum + v /\ hist'.count = hist.count + 1
      /\ hist' = [buckets |-> g, sum |-> hist'.sum, count |-> hist'.count]
  BY DEF Observe
<1>2. /\ f \in [Buckets -> Nat] /\ s \in [Values -> Nat] /\ v \in Nat
      /\ hist.sum \in Nat /\ hist.count \in Nat
  BY MetricsAssumption DEF HistInv, HistTypes
<1>3. /\ k \in Buckets /\ \A i \in DOMAIN Bounds : k <= i <=> v <= Bounds[i]
  BY BucketFacts
<1>4. /\ x = [u \in Values |-> u * t[u]] /\ w = [u \in Values |-> u * s[u]]
  BY DEF Weights
<1>5. /\ IsFiniteSet(Units(f, Buckets)) /\ IsFiniteSet(Units(s, Values))
      /\ IsFiniteSet(Units(w, Values))
      /\ \A i \in DOMAIN Bounds :
           Sum(f, 1 .. i) = Sum(s, {u \in Values : u <= Bounds[i]})
      /\ Sum(f, Buckets) = hist.count /\ Sum(s, Values) = hist.count
      /\ Sum(w, Values) = hist.sum
  BY DEF HistInv, FiniteInv, AtMost
<1> HIDE DEF f, g, s, t, w, x, k
<1>6. /\ g \in [Buckets -> Nat] /\ g[k] = f[k] + 1 /\ f[k] \in Nat
      /\ \A i \in Buckets \ {k} : g[i] = f[i]
      /\ t \in [Values -> Nat] /\ t[v] = s[v] + 1 /\ s[v] \in Nat
      /\ \A u \in Values \ {v} : t[u] = s[u]
  BY <1>1, <1>2, <1>3
<1>7. /\ w[v] \in Nat /\ x[v] = w[v] + v /\ \A u \in Values \ {v} : x[u] = w[u]
  <2>1. v * (s[v] + 1) = v * s[v] + v /\ v * s[v] \in Nat
    BY <1>2, <1>6
  <2> QED
    BY <1>4, <1>6, <2>1
<1>8. /\ IsFiniteSet(Units(g, Buckets)) /\ Sum(g, Buckets) = Sum(f, Buckets) + 1
  BY <1>3, <1>5, <1>6, SumGrows
<1>9. /\ IsFiniteSet(Units(t, Values)) /\ Sum(t, Values) = Sum(s, Values) + 1
  BY <1>5, <1>6, SumGrows
<1>10. /\ IsFiniteSet(Units(x, Values)) /\ Sum(x, Values) = Sum(w, Values) + v
  <2> DEFINE n == v
  <2>1. n \in Nat /\ x[v] = w[v] + n
    BY <1>2, <1>7
  <2> HIDE DEF n
  <2>2. IsFiniteSet(Units(x, Values)) /\ Sum(x, Values) = Sum(w, Values) + n
    BY <1>5, <1>7, <2>1, SumGrows
  <2> QED
    BY <2>2 DEF n
<1>11. ASSUME NEW i \in DOMAIN Bounds
       PROVE  Sum(g, 1 .. i) = Sum(t, {u \in Values : u <= Bounds[i]})
  <2> DEFINE A == 1 .. i
             B == {u \in Values : u <= Bounds[i]}
  <2>1. A \subseteq Buckets /\ B \subseteq Values /\ i \in Nat
    BY BoundsFacts
  <2>2. k \in A <=> v \in B
    <3>1. k \in A <=> k <= i
      BY <1>3, <2>1, BoundsFacts
    <3>2. v \in B <=> v <= Bounds[i]
      OBVIOUS
    <3> QED
      BY <1>3, <3>1, <3>2
  <2>3. Sum(f, A) = Sum(s, B)
    BY <1>5
  <2> HIDE DEF A, B
  <2>4. \A j \in Buckets : f[j] \in Int /\ f[j] <= f[j]
    BY <1>2
  <2>5. IsFiniteSet(Units(f, A))
    BY <1>5, <2>1, <2>4, SumMonotone
  <2>6. \A u \in Values : s[u] \in Int /\ s[u] <= s[u]
    BY <1>2
  <2>7. IsFiniteSet(Units(s, B))
    BY <1>5, <2>1, <2>6, SumMonotone
  <2>8. Sum(g, A) = Sum(f, A) + (IF k \in A THEN 1 ELSE 0)
    <3>1. f[k] \in Nat /\ g[k] = f[k] + 1 /\ \A j \in A \ {k} : g[j] = f[j]
      BY <1>6, <2>1
    <3> QED
      BY <2>5, <3>1, SumBump
  <2>9. Sum(t, B) = Sum(s, B) + (IF v \in B THEN 1 ELSE 0)
    <3>1. s[v] \in Nat /\ t[v] = s[v] + 1 /\ \A u \in B \ {v} : t[u] = s[u]
      BY <1>6, <2>1
    <3> QED
      BY <2>7, <3>1, SumBump
  <2>10. Sum(g, A) = Sum(t, B)
    BY <2>2, <2>3, <2>8, <2>9
  <2> QED
    BY <2>10 DEF A, B
<1>12. HistTypes'
  BY <1>1, <1>2, <1>6 DEF HistTypes, g, t
<1>13. FiniteInv'
  BY <1>8, <1>9, <1>10 DEF FiniteInv, g, t, x
<1>14. /\ Sum(g, Buckets) = hist'.count /\ Sum(t, Values) = hist'.count
       /\ Sum(x, Values) = hist'.sum
  BY <1>1, <1>5, <1>8, <1>9, <1>10
<1>15. HistInv'
  BY <1>11, <1>12, <1>13, <1>14 DEF HistInv, AtMost, g, t, x
<1>16. \A u \in Values : s[u] <= t[u]
  BY <1>2, <1>6
<1>17. hist.count <= hist'.count /\ hist.sum <= hist'.sum
  BY <1>1, <1>2
<1> QED
  BY <1>15, <1>16, <1>17 DEF s, t

\* Every step: the histogram stays exact and never goes back.
LEMMA HistStep ==
  ASSUME HistInv, [MNext]_mvars
  PROVE  /\ HistInv'
         /\ \A w \in Values : seen[w] <= seen'[w]
         /\ hist.count <= hist'.count /\ hist.sum <= hist'.sum
<1>1. ASSUME UNCHANGED <<hist, seen>>
      PROVE  /\ HistInv'
             /\ \A w \in Values : seen[w] <= seen'[w]
             /\ hist.count <= hist'.count /\ hist.sum <= hist'.sum
  <2>1. Weights' = Weights /\ \A b : AtMost(seen, b)' = AtMost(seen, b)
    BY <1>1 DEF Weights, AtMost
  <2>2. HistInv'
    BY <1>1, <2>1 DEF HistInv, HistTypes, FiniteInv, AtMost
  <2>3. /\ \A w \in Values : seen[w] \in Nat
        /\ hist.count \in Nat /\ hist.sum \in Nat
    BY DEF HistInv, HistTypes
  <2> QED
    BY <1>1, <2>2, <2>3
<1>2. UNCHANGED <<hist, seen>> \/ \E v \in Values : Observe(v)
  BY DEF MNext, mvars, Push, Lookup, CounterIncrement, GaugeIncrement, QueuePop,
         DecodeLookup, GaugeDecrement, ExportBegin, ExportRead, ExportEnd
<1> QED
  BY <1>1, <1>2, ObserveStep

-----------------------------------------------------------------------------
(* The export.                                                             *)

\* The types of what the export reads and remembers.
ExportTypes ==
  /\ xpc \in {"idle", "counters", "gauges", "buckets", "sum", "count", "end"}
  /\ before \in [total : Nat, seen : [Values -> Nat]]
  /\ scrape \in [total : Nat, depth : Int, cumulative : [Buckets -> Nat],
                 sum : Nat, count : Nat]

\* The number of the bucket +Inf.
Infinite == scrape.cumulative[Len(Bounds) + 1]

\* Nothing that was there when the export began is taken back.
BegunInv ==
  xpc # "idle" =>
    /\ \A v \in Values : before.seen[v] <= seen[v]
    /\ before.total <= total

\* The counter that was read lies between its values then and now.
CounterRead ==
  xpc \notin {"idle", "counters"} =>
    before.total <= scrape.total /\ scrape.total <= total

\* So does every bucket, and they are cumulative.
BoundsRead ==
  \A i \in DOMAIN Bounds :
    /\ AtMost(before.seen, Bounds[i]) <= scrape.cumulative[i]
    /\ scrape.cumulative[i] <= AtMost(seen, Bounds[i])
    /\ scrape.cumulative[i] <= scrape.cumulative[i + 1]

BucketsRead ==
  xpc \in {"sum", "count", "end"} =>
    BoundsRead /\ Sum(before.seen, Values) <= Infinite /\ Infinite <= hist.count

\* The sum and the number of observations, read after the buckets.
SumRead == xpc \in {"count", "end"} => scrape.sum <= hist.sum
CountRead == xpc = "end" => Infinite <= scrape.count /\ scrape.count <= hist.count

\* What holds at each stage of an export.
ExportInv ==
  /\ ExportTypes /\ BegunInv /\ CounterRead /\ BucketsRead /\ SumRead /\ CountRead

\* More observations, no fewer at most any bound.
LEMMA AtMostGrows ==
  ASSUME NEW f, NEW g, \A v \in Values : f[v] \in Nat /\ g[v] \in Nat /\ f[v] <= g[v],
         IsFiniteSet(Units(g, Values))
  PROVE  /\ \A b : /\ AtMost(f, b) \in Nat /\ AtMost(g, b) \in Nat
                   /\ AtMost(f, b) <= AtMost(g, b)
         /\ Sum(f, Values) \in Nat /\ Sum(g, Values) \in Nat
         /\ Sum(f, Values) <= Sum(g, Values)
<1>1. ASSUME NEW S \in SUBSET Values
      PROVE  Sum(f, S) \in Nat /\ Sum(g, S) \in Nat /\ Sum(f, S) <= Sum(g, S)
  <2>1. IsFiniteSet(Units(g, S))
    BY SumMonotone
  <2>2. IsFiniteSet(Units(f, S)) /\ Sum(f, S) <= Sum(g, S)
    BY <2>1, SumMonotone
  <2> QED
    BY <2>1, <2>2, SumType
<1>2. \A b : {v \in Values : v <= b} \in SUBSET Values
  OBVIOUS
<1> QED
  BY <1>1, <1>2 DEF AtMost

\* What a thread does meanwhile leaves the reading consistent.
LEMMA MeanwhileStep ==
  ASSUME ExportInv, HistInv, HistInv', CountInv, CountInv', UNCHANGED exportVars,
         total <= total', \A v \in Values : seen[v] <= seen'[v],
         hist.count <= hist'.count, hist.sum <= hist'.sum
  PROVE  ExportInv'
<1>1. UNCHANGED <<xpc, scrape, before>>
  BY DEF exportVars
<1>2. /\ ExportTypes' /\ Infinite' = Infinite
      /\ Infinite \in Nat /\ scrape.total \in Nat /\ scrape.sum \in Nat
      /\ scrape.count \in Nat /\ before.total \in Nat
      /\ \A i \in DOMAIN Bounds : scrape.cumulative[i] \in Nat
  BY <1>1, BoundsFacts DEF ExportInv, ExportTypes, Infinite
<1>3. /\ total \in Nat /\ total' \in Nat /\ hist.count \in Nat /\ hist'.count \in Nat
      /\ hist.sum \in Nat /\ hist'.sum \in Nat
      /\ \A v \in Values : seen[v] \in Nat /\ seen'[v] \in Nat
      /\ IsFiniteSet(Units(seen', Values))
  BY DEF CountInv, HistInv, HistTypes, FiniteInv
<1>4. BegunInv'
  BY <1>1, <1>2, <1>3 DEF ExportInv, ExportTypes, BegunInv
<1>5. CounterRead' /\ SumRead' /\ CountRead'
  BY <1>1, <1>2, <1>3 DEF ExportInv, CounterRead, SumRead, CountRead
<1>6. BucketsRead'
  <2> SUFFICES ASSUME xpc \in {"sum", "count", "end"}
               PROVE  (BoundsRead /\ Sum(before.seen, Values) <= Infinite
                        /\ Infinite <= hist.count)'
    BY <1>1 DEF BucketsRead
  <2>1. BoundsRead /\ Sum(before.seen, Values) <= Infinite /\ Infinite <= hist.count
    BY DEF ExportInv, BucketsRead
  <2>2. \A b : /\ AtMost(seen, b) \in Nat /\ AtMost(seen', b) \in Nat
              /\ AtMost(seen, b) <= AtMost(seen', b)
    BY <1>3, AtMostGrows
  <2>3. ASSUME NEW i \in DOMAIN Bounds
        PROVE  /\ AtMost(before.seen, Bounds[i]) <= scrape.cumulative[i]
               /\ scrape.cumulative[i] <= AtMost(seen', Bounds[i])
               /\ scrape.cumulative[i] <= scrape.cumulative[i + 1]
    <3> DEFINE n == AtMost(seen, Bounds[i])
               m == AtMost(seen', Bounds[i])
    <3>1. n \in Nat /\ m \in Nat /\ n <= m
      BY <2>2
    <3>2. /\ AtMost(before.seen, Bounds[i]) <= scrape.cumulative[i]
          /\ scrape.cumulative[i] <= n
          /\ scrape.cumulative[i] <= scrape.cumulative[i + 1]
      BY <2>1 DEF BoundsRead
    <3>3. scrape.cumulative[i] \in Nat
      BY <1>2
    <3> HIDE DEF n, m
    <3>4. scrape.cumulative[i] <= m
      BY <3>1, <3>2, <3>3
    <3> QED
      BY <3>2, <3>4 DEF m
  <2>4. BoundsRead'
    BY <1>1, <2>3 DEF BoundsRead, AtMost
  <2> QED
    BY <1>1, <1>2, <1>3, <2>1, <2>4
<1> QED
  BY <1>2, <1>4, <1>5, <1>6 DEF ExportInv

\* The steps of the export itself.
LEMMA BeginStep ==
  ASSUME ExportInv, HistInv, CountInv, ExportBegin
  PROVE  ExportInv'
<1>1. /\ xpc' = "counters" /\ before' = [total |-> total, seen |-> seen]
      /\ UNCHANGED <<scrape, total, seen>>
  BY DEF ExportBegin
<1>2. total \in Nat /\ seen \in [Values -> Nat]
  BY DEF CountInv, HistInv, HistTypes
<1>3. ExportTypes' /\ BegunInv'
  BY <1>1, <1>2 DEF ExportInv, ExportTypes, BegunInv
<1> QED
  BY <1>1, <1>3 DEF ExportInv, CounterRead, BucketsRead, SumRead, CountRead

LEMMA EndStep ==
  ASSUME ExportInv, ExportEnd
  PROVE  ExportInv'
<1>1. /\ xpc' = "idle" /\ scrape' = NoScrape
      /\ before' = [total |-> 0, seen |-> NothingSeen]
  BY DEF ExportEnd
<1>2. ExportTypes'
  BY <1>1 DEF ExportTypes, NoScrape, NothingSeen
<1> QED
  BY <1>1, <1>2 DEF ExportInv, BegunInv, CounterRead, BucketsRead, SumRead, CountRead

\* The buckets, read together under the histogram's mutex.
LEMMA ReadBuckets ==
  ASSUME ExportInv, HistInv, xpc = "buckets", xpc' = "sum",
         scrape' = [scrape EXCEPT !.cumulative =
                      [i \in Buckets |-> Sum(hist.buckets, 1 .. i)]],
         UNCHANGED <<total, hist, seen, before>>
  PROVE  ExportInv'
<1> DEFINE f == hist.buckets
           c == [i \in Buckets |-> Sum(f, 1 .. i)]
<1>1. f \in [Buckets -> Nat] /\ IsFiniteSet(Units(f, Buckets))
  BY DEF HistInv, HistTypes, FiniteInv
<1>2. ASSUME NEW i \in Buckets PROVE IsFiniteSet(Units(f, 1 .. i)) /\ Sum(f, 1 .. i) \in Nat
  <2>1. 1 .. i \subseteq Buckets
    BY BoundsFacts
  <2>2. \A j \in 1 .. i : f[j] \in Int /\ f[j] <= f[j]
    BY <1>1, <2>1
  <2>3. IsFiniteSet(Units(f, 1 .. i))
    BY <1>1, <2>1, <2>2, SumMonotone
  <2> QED
    BY <2>3, SumType
<1>3. c \in [Buckets -> Nat]
  BY <1>2
<1>4. /\ scrape'.cumulative = c /\ scrape'.total = scrape.total
      /\ ExportTypes'
  BY <1>3 DEF ExportInv, ExportTypes
<1>5. /\ \A v \in Values : before.seen[v] \in Nat /\ seen[v] \in Nat
                          /\ before.seen[v] <= seen[v]
      /\ IsFiniteSet(Units(seen, Values))
  BY DEF ExportInv, ExportTypes, BegunInv, HistInv, HistTypes, FiniteInv
<1>6. /\ \A b : /\ AtMost(seen, b) \in Nat
                /\ AtMost(before.seen, b) <= AtMost(seen, b)
      /\ Sum(before.seen, Values) <= Sum(seen, Values) /\ Sum(seen, Values) \in Nat
  BY <1>5, AtMostGrows
<1>7. ASSUME NEW i \in DOMAIN Bounds
      PROVE  /\ AtMost(before.seen, Bounds[i]) <= c[i]
             /\ c[i] <= AtMost(seen, Bounds[i])
             /\ c[i] <= c[i + 1]
  <2>1. i \in Buckets /\ i + 1 \in Buckets /\ i \in Nat
    BY BoundsFacts
  <2>2. c[i] = AtMost(seen, Bounds[i]) /\ c[i] = Sum(f, 1 .. i)
    BY <2>1 DEF HistInv
  <2>3. 1 .. i \subseteq 1 .. i + 1 /\ 1 .. i \subseteq Buckets
    BY <2>1, BoundsFacts
  <2>4. \A j \in 1 .. i : f[j] \in Int /\ f[j] <= f[j]
    BY <1>1, <2>3
  <2>5. Sum(f, 1 .. i) <= Sum(f, 1 .. i + 1)
    BY <1>2, <2>1, <2>3, <2>4, SumMonotone
  <2>6. c[i] <= c[i + 1]
    BY <2>1, <2>5
  <2>7. /\ AtMost(seen, Bounds[i]) \in Nat
        /\ AtMost(before.seen, Bounds[i]) <= AtMost(seen, Bounds[i])
    BY <1>6
  <2>8. c[i] <= AtMost(seen, Bounds[i])
    BY <2>2, <2>7
  <2> HIDE DEF c
  <2> QED
    BY <2>2, <2>6, <2>7, <2>8
<1>8. c[Len(Bounds) + 1] = hist.count /\ Sum(seen, Values) = hist.count /\ hist.count \in Nat
  BY BoundsFacts DEF HistInv, HistTypes
<1> HIDE DEF c, f
<1>9. UNCHANGED <<total, hist, seen, before>>
  OBVIOUS
<1>10. BoundsRead'
  BY <1>4, <1>7, <1>9 DEF BoundsRead, AtMost
<1>11. BucketsRead'
  BY <1>4, <1>6, <1>8, <1>9, <1>10 DEF BucketsRead, Infinite
<1>12. BegunInv' /\ CounterRead'
  BY <1>4, <1>9 DEF ExportInv, BegunInv, CounterRead
<1>13. SumRead' /\ CountRead'
  BY DEF SumRead, CountRead
<1> QED
  BY <1>4, <1>11, <1>12, <1>13 DEF ExportInv

\* The next value is read.
LEMMA ReadStep ==
  ASSUME ExportInv, GaugeInv, HistInv, CountInv, ExportRead
  PROVE  ExportInv'
<1>1. UNCHANGED <<total, hist, seen, before, accepted>>
  BY DEF ExportRead
<1>2. total \in Nat /\ depth \in Int /\ hist.sum \in Nat /\ hist.count \in Nat
  BY DEF CountInv, GaugeInv, GaugeTypes, HistInv, HistTypes
<1>3. CASE xpc = "counters" /\ xpc' = "gauges" /\ scrape' = [scrape EXCEPT !.total = total]
  <2>1. ExportTypes' /\ scrape'.total = total
    BY <1>1, <1>2, <1>3 DEF ExportInv, ExportTypes
  <2> QED
    BY <1>1, <1>2, <1>3, <2>1
    DEF ExportInv, BegunInv, CounterRead, BucketsRead, SumRead, CountRead
<1>4. CASE xpc = "gauges" /\ xpc' = "buckets" /\ scrape' = [scrape EXCEPT !.depth = depth]
  <2>1. ExportTypes' /\ scrape'.total = scrape.total
    BY <1>1, <1>2, <1>4 DEF ExportInv, ExportTypes
  <2> QED
    BY <1>1, <1>2, <1>4, <2>1
    DEF ExportInv, BegunInv, CounterRead, BucketsRead, SumRead, CountRead
<1>5. CASE /\ xpc = "buckets" /\ xpc' = "sum"
           /\ scrape' = [scrape EXCEPT !.cumulative =
                           [i \in Buckets |-> Sum(hist.buckets, 1 .. i)]]
  BY <1>1, <1>5, ReadBuckets
<1>6. CASE xpc = "sum" /\ xpc' = "count" /\ scrape' = [scrape EXCEPT !.sum = hist.sum]
  <2>1. /\ ExportTypes' /\ scrape'.total = scrape.total /\ scrape'.sum = hist.sum
        /\ scrape'.cumulative = scrape.cumulative /\ Infinite' = Infinite
    BY <1>1, <1>2, <1>6 DEF ExportInv, ExportTypes, Infinite
  <2>2. BoundsRead' /\ BucketsRead'
    BY <1>1, <1>6, <2>1 DEF ExportInv, BucketsRead, BoundsRead, AtMost
  <2> QED
    BY <1>1, <1>2, <1>6, <2>1, <2>2
    DEF ExportInv, BegunInv, CounterRead, SumRead, CountRead
<1>7. CASE xpc = "count" /\ xpc' = "end" /\ scrape' = [scrape EXCEPT !.count = hist.count]
  <2>1. /\ ExportTypes' /\ scrape'.total = scrape.total /\ scrape'.sum = scrape.sum
        /\ scrape'.count = hist.count
        /\ scrape'.cumulative = scrape.cumulative /\ Infinite' = Infinite
    BY <1>1, <1>2, <1>7 DEF ExportInv, ExportTypes, Infinite
  <2>2. BoundsRead' /\ BucketsRead'
    BY <1>1, <1>7, <2>1 DEF ExportInv, BucketsRead, BoundsRead, AtMost
  <2>3. Infinite <= hist.count
    BY <1>7 DEF ExportInv, BucketsRead
  <2> QED
    BY <1>1, <1>2, <1>7, <2>1, <2>2, <2>3
    DEF ExportInv, BegunInv, CounterRead, SumRead, CountRead
<1> QED
  BY <1>3, <1>4, <1>5, <1>6, <1>7 DEF ExportRead

-----------------------------------------------------------------------------
(* The inductive invariant of the export: what it reads is exact, and what *)
(* it has read is still in range.                                          *)

MetricsInv == GaugeInv /\ CountInv /\ HistInv /\ ExportInv

\* A fresh registry.
LEMMA InitMetrics == MInit => MetricsInv
<1> SUFFICES ASSUME MInit PROVE MetricsInv
  OBVIOUS
<1>1. GaugeInv
  BY GaugeStart
<1>2. CountInv
  <2>1. Uncounted = {}
    BY DEF MInit, Uncounted
  <2> QED
    BY <2>1, FS_EmptySet DEF MInit, CountInv
<1>3. HistInv
  <2>1. HistTypes /\ hist.sum = 0 /\ hist.count = 0
    BY DEF MInit, HistTypes, NothingSeen
  <2>2. /\ \A i \in Buckets : hist.buckets[i] = 0
        /\ \A v \in Values : seen[v] = 0
    BY DEF MInit, NothingSeen
  <2>3. \A v \in Values : Weights[v] = 0
    <3>1. \A v \in Values : v \in Nat /\ v * 0 = 0
      BY MetricsAssumption
    <3> QED
      BY <2>2, <3>1 DEF Weights
  <2>4. FiniteInv /\ Sum(hist.buckets, Buckets) = 0 /\ Sum(seen, Values) = 0
        /\ Sum(Weights, Values) = 0
    BY <2>2, <2>3, SumZero DEF FiniteInv
  <2>5. ASSUME NEW i \in DOMAIN Bounds
        PROVE  Sum(hist.buckets, 1 .. i) = 0 /\ AtMost(seen, Bounds[i]) = 0
    <3>1. \A j \in 1 .. i : hist.buckets[j] = 0
      BY <2>2, BoundsFacts
    <3>2. \A v \in {u \in Values : u <= Bounds[i]} : seen[v] = 0
      BY <2>2
    <3> QED
      BY <3>1, <3>2, SumZero DEF AtMost
  <2> QED
    BY <2>1, <2>4, <2>5 DEF HistInv
<1>4. ExportInv
  <2>1. ExportTypes /\ xpc = "idle"
    BY DEF MInit, ExportTypes, NoScrape, NothingSeen
  <2> QED
    BY <2>1 DEF ExportInv, BegunInv, CounterRead, BucketsRead, SumRead, CountRead
<1> QED
  BY <1>1, <1>2, <1>3, <1>4 DEF MetricsInv

\* Every step keeps it.
LEMMA MetricsStep ==
  ASSUME MetricsInv, [MNext]_mvars
  PROVE  MetricsInv'
<1>1. GaugeInv /\ CountInv /\ HistInv /\ ExportInv
  BY DEF MetricsInv
<1>2. GaugeInv'
  BY <1>1, GaugeStep
<1>3. CountInv' /\ total <= total'
  BY <1>1, CountStep
<1>4. /\ HistInv' /\ \A v \in Values : seen[v] <= seen'[v]
      /\ hist.count <= hist'.count /\ hist.sum <= hist'.sum
  BY <1>1, HistStep
<1>5. UNCHANGED exportVars \/ ExportBegin \/ ExportRead \/ ExportEnd
  BY DEF MNext, mvars, Push, Lookup, CounterIncrement, GaugeIncrement, QueuePop,
         DecodeLookup, GaugeDecrement, Observe
<1>6. ExportInv'
  BY <1>1, <1>3, <1>4, <1>5, MeanwhileStep, BeginStep, ReadStep, EndStep
<1> QED
  BY <1>2, <1>3, <1>4, <1>6 DEF MetricsInv

\* Every export is a consistent reading, whatever the threads do while it is
\* made: for every number of threads, all bucket bounds and all observations.
THEOREM ExportsConsistent == MSpec => []ScrapeConsistent
<1>1. MetricsInv => ScrapeConsistent
  <2> SUFFICES ASSUME MetricsInv, xpc = "end" PROVE ScrapeConsistent
    BY DEF ScrapeConsistent
  <2>1. /\ BoundsRead /\ Sum(before.seen, Values) <= Infinite /\ Infinite <= scrape.count
        /\ scrape.count <= hist.count /\ scrape.sum <= hist.sum
        /\ before.total <= scrape.total /\ scrape.total <= total /\ scrape.total \in Nat
    BY DEF MetricsInv, ExportInv, ExportTypes, CounterRead, BucketsRead, SumRead, CountRead
  <2>2. Sum(seen, Values) = hist.count /\ Sum(Weights, Values) = hist.sum
    BY DEF MetricsInv, HistInv
  <2>3. scrape.total <= accepted
    BY <2>1, UncountedFinite DEF MetricsInv, CountInv
  <2> QED
    BY <2>1, <2>2, <2>3 DEF ScrapeConsistent, BoundsRead, Infinite, Weights
<1> QED
  BY <1>1, InitMetrics, MetricsStep, PTL DEF MSpec

=============================================================================
