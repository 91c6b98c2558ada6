---------------------------- MODULE SSEStreamer -----------------------------
(***************************************************************************)
(* SSEStreamer of src/api/sse_streamer.cpp with the CancellationToken of   *)
(* include/utils/cancellation.hpp whose callback stops it.                 *)
(*                                                                         *)
(* Threads: a producer pushes chunks, errors and the completion; the       *)
(* streaming thread is in run; somebody else may cancel the token or call  *)
(* stop.  push_chunk, push_error and complete test active_ before they     *)
(* take the mutex, cancel sets its flag before it does: each is two steps. *)
(* The token may be cancelled before the constructor registers with it.    *)
(* An event keeps its type only; what is written is the event.             *)
(***************************************************************************)
EXTENDS Naturals, Sequences, FiniteSets

CONSTANTS
  MaxEvents,     \* config_.max_queue_size
  Backpressure,  \* config_.enable_backpressure
  MaxCalls       \* bound on the producer's calls

ASSUME StreamerAssumption ==
  MaxEvents \in Nat /\ Backpressure \in BOOLEAN /\ MaxCalls \in Nat

VARIABLES
  active, disconnected, completed,  \* active_, disconnected_, completed_
  events,   \* events_
  rpc, ev,  \* where run is, and the event it holds
  ppc,      \* the producer's call, past its test
  calls,    \* the calls the producer has made
  pushed,   \* all events ever pushed
  out,      \* what the client has got
  gone,     \* the client is gone: writes fail
  flag,     \* cancelled_ of the token
  callback, \* callbacks_ of the token holds the streamer's
  cpc       \* cpc[c]: how far canceller c is in cancel

tokenVars == <<flag, callback, cpc>>
producerVars == <<ppc, calls, pushed>>
svars == <<active, disconnected, completed, events, rpc, ev, producerVars, out,
           gone, tokenVars>>

EventTypes == {"Chunk", "Done", "Error"}

\* The streaming thread cancels after a failed write, others at any time.
Cancellers == {"run", "other"}

\* The members of the streamer and of its token as they are initialised.
SInit ==
  /\ active = TRUE /\ disconnected = FALSE /\ completed = FALSE
  /\ events = <<>>
  /\ rpc = "new" /\ ev = "Chunk"
  /\ ppc = "idle" /\ calls = 0 /\ pushed = <<>>
  /\ out = <<>> /\ gone = FALSE
  /\ flag = FALSE /\ callback = FALSE /\ cpc = [c \in Cancellers |-> "idle"]

\* on_cancel that does not look at the flag.
MutOnCancel ==
  callback' = TRUE /\ UNCHANGED active

\* on_cancel: the callback, which is stop, is run at once when the token is
\* cancelled already.
OnCancel ==
  /\ callback' = (callback \/ ~flag)
  /\ active' = (active /\ ~flag)

\* The constructor.
Construct ==
  /\ rpc = "new"
  /\ rpc' = "top"
  /\ OnCancel
  /\ UNCHANGED <<disconnected, completed, events, ev, producerVars, out, gone,
                 flag, cpc>>

-----------------------------------------------------------------------------
(* The producer.                                                           *)

\* The test before the lock; a call that fails it returns.
BeginPush(e) ==
  /\ rpc # "new"
  /\ ppc = "idle" /\ calls < MaxCalls
  /\ calls' = calls + 1
  /\ ppc' = IF active /\ (e = "Chunk" => ~disconnected) THEN e ELSE "idle"
  /\ UNCHANGED <<active, disconnected, completed, events, rpc, ev, pushed, out,
                 gone, tokenVars>>

\* The backpressure test, which only chunks are put to.
Full == Backpressure /\ Len(events) >= MaxEvents

\* The push under the lock.
EndPush ==
  /\ ppc # "idle"
  /\ ppc' = "idle"
  /\ completed' = (completed \/ ppc = "Done")
  /\ IF ppc = "Chunk" /\ Full
     THEN UNCHANGED <<events, pushed>>
     ELSE /\ events' = Append(events, ppc)
          /\ pushed' = Append(pushed, ppc)
  /\ UNCHANGED <<active, disconnected, rpc, ev, calls, out, gone, tokenVars>>

-----------------------------------------------------------------------------
(* run, on the streaming thread.                                           *)

RunTop ==
  /\ rpc = "top"
  /\ rpc' = IF active THEN "wait" ELSE "exited"
  /\ UNCHANGED <<active, disconnected, completed, events, ev, producerVars, out,
                 gone, tokenVars>>

\* An event taken and not removed.
MutRest == events

\* events_ after the pop.
Rest == Tail(events)

\* wait_for returns with the lock held: an event, a stop or the interval.
RunWait ==
  /\ rpc = "wait"
  /\ \/ /\ events = <<>>
        /\ rpc' = IF active THEN "top" ELSE "exited"
        /\ UNCHANGED <<events, ev>>
     \/ /\ events # <<>>
        /\ ev' = Head(events) /\ events' = Rest
        /\ rpc' = "write"
  /\ UNCHANGED <<active, disconnected, completed, producerVars, out, gone,
                 tokenVars>>

\* run that goes on after an event of the other terminal kind.
MutIsLast(e) == e = "Done"
MutIsLastError(e) == e = "Error"

\* The events after which run ends.
IsLast(e) == e \in {"Done", "Error"}

\* try_write succeeds.
WriteOk ==
  /\ rpc = "write" /\ ~gone
  /\ out' = Append(out, ev)
  /\ rpc' = IF IsLast(ev) THEN "last" ELSE "top"
  /\ UNCHANGED <<active, disconnected, completed, events, ev, producerVars,
                 gone, tokenVars>>

RunLast ==
  /\ rpc = "last"
  /\ active' = FALSE
  /\ rpc' = "exited"
  /\ UNCHANGED <<disconnected, completed, events, ev, producerVars, out, gone,
                 tokenVars>>

\* run that leaves without a word to the token.
MutAfterFailure == "exited"

\* run cancels the token after a failed write.
AfterFailure == "cancel"

\* try_write fails: the client is gone, or the callback throws.
WriteFails ==
  /\ rpc = "write"
  /\ disconnected' = TRUE
  /\ rpc' = AfterFailure
  /\ UNCHANGED <<active, completed, events, ev, producerVars, out, gone,
                 tokenVars>>

-----------------------------------------------------------------------------
(* The token.                                                              *)

\* cancel: the exchange; only the first caller goes on to the callbacks.
SetFlag(c) ==
  /\ cpc[c] = "idle"
  /\ c = "run" => rpc = "cancel"
  /\ flag' = TRUE
  /\ cpc' = [cpc EXCEPT ![c] = IF flag THEN "done" ELSE "callbacks"]
  /\ UNCHANGED <<active, disconnected, completed, events, rpc, ev,
                 producerVars, out, gone, callback>>

\* cancel: the callbacks, under the token's mutex.
RunCallbacks(c) ==
  /\ cpc[c] = "callbacks"
  /\ active' = (active /\ ~callback)
  /\ callback' = FALSE
  /\ cpc' = [cpc EXCEPT ![c] = "done"]
  /\ UNCHANGED <<disconnected, completed, events, rpc, ev, producerVars, out,
                 gone, flag>>

\* run breaks once cancel has returned.
RunBreak ==
  /\ rpc = "cancel" /\ cpc["run"] = "done"
  /\ rpc' = "exited"
  /\ UNCHANGED <<active, disconnected, completed, events, ev, producerVars,
                 out, gone, tokenVars>>

\* stop, which the destructor calls too.
Stop ==
  /\ rpc # "new" /\ active
  /\ active' = FALSE
  /\ UNCHANGED <<disconnected, completed, events, rpc, ev, producerVars, out,
                 gone, tokenVars>>

\* The client closes its connection.
Leave ==
  /\ ~gone
  /\ gone' = TRUE
  /\ UNCHANGED <<active, disconnected, completed, events, rpc, ev,
                 producerVars, out, tokenVars>>

Run == RunTop \/ RunWait \/ WriteOk \/ WriteFails \/ RunLast \/ RunBreak
       \/ SetFlag("run") \/ RunCallbacks("run")

SNext ==
  \/ Construct
  \/ \E e \in EventTypes : BeginPush(e)
  \/ EndPush
  \/ Run
  \/ SetFlag("other") \/ RunCallbacks("other")
  \/ Stop \/ Leave

\* The threads run; nobody owes a push, a stop or a cancellation.
SFairness ==
  WF_svars(Construct) /\ WF_svars(Run) /\ WF_svars(EndPush)
  /\ WF_svars(RunCallbacks("other"))

SSafety == SInit /\ [][SNext]_svars
SSpec == SSafety /\ SFairness

-----------------------------------------------------------------------------
(* What must hold.                                                         *)

\* The types of the variables.
STypeOK ==
  /\ active \in BOOLEAN /\ disconnected \in BOOLEAN /\ completed \in BOOLEAN
  /\ gone \in BOOLEAN /\ flag \in BOOLEAN /\ callback \in BOOLEAN
  /\ events \in Seq(EventTypes) /\ pushed \in Seq(EventTypes)
  /\ out \in Seq(EventTypes)
  /\ rpc \in {"new", "top", "wait", "write", "last", "cancel", "exited"}
  /\ ev \in EventTypes /\ ppc \in EventTypes \cup {"idle"}
  /\ calls \in 0 .. MaxCalls
  /\ cpc \in [Cancellers -> {"idle", "callbacks", "done"}]

\* Nothing is lost, doubled or reordered between the producer and the client:
\* what was pushed is what was written, the event in run's hands or lost to
\* the failed write, and what is queued.
InOrder ==
  pushed = out \o (IF rpc = "write" \/ disconnected THEN <<ev>> ELSE <<>>)
               \o events

\* The client gets at most one terminal event, and it is the last thing it
\* gets, although the producer may push on after complete or push_error.
TerminalLast ==
  \A i \in DOMAIN out : out[i] \in {"Done", "Error"} => i = Len(out)

\* A cancellation ends the stream, whoever cancels, before, while or after the
\* streamer registers with the token, and whatever run does.
CancelEnds == flag ~> rpc = "exited" /\ ~active

\* A completed stream ends without anybody's help.
CompletedEnds == completed ~> rpc = "exited"

\* A failed write tells the request's token, so that its decoding stops.
DisconnectCancels == disconnected ~> flag

=============================================================================
