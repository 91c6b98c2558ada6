----------------------------- MODULE Scheduler ------------------------------
(***************************************************************************)
(* The request scheduler: src/scheduler/scheduler.cpp, the registry of     *)
(* src/scheduler/request_registry.cpp and the per-request state of         *)
(* include/scheduler/request.hpp.                                          *)
(*                                                                         *)
(* Threads: one HTTP thread per request runs submit and later pops the     *)
(* request's token queue; the decode thread runs decode_loop; the main     *)
(* thread runs start and stop.  A step ends where the code lets another    *)
(* thread see a change: at an unlock, an atomic store or a queue push.     *)
(*                                                                         *)
(* Abstracted: token ids and text (a sampled token either meets a stop     *)
(* condition or does not), the clock (a deadline passes at some moment     *)
(* after it is set), the outcome of the memory checks and of the backend   *)
(* (any outcome their interfaces allow), log lines and histograms.         *)
(*                                                                         *)
(* Both KV allocators are covered.  They differ in what free makes of a    *)
(* handle that spans several devices: the contiguous one clears it, the    *)
(* pooled one, main's default, frees the cache of the first device only    *)
(* and leaves device_caches and is_tensor_parallel, by which is_valid()    *)
(* judges.  A second free_resources then releases the router's budget      *)
(* again.                                                                  *)
(***************************************************************************)
EXTENDS TokenQueue, Integers, FiniteSets

CONSTANTS
  Requests,      \* the requests that ever reach the server
  MaxQueueSize,  \* config_.max_queue_size
  MaxActive,     \* config_.max_active_requests
  MaxTokens,     \* request->max_tokens
  InputLen,      \* request->input_tokens.size()
  Timeouts,      \* the timeouts configured to a non-zero number of seconds
  Spread,        \* the requests whose handle is still valid when it has been
                 \* freed: with the pooled allocator, those the router puts
                 \* on several devices; with the contiguous one, none
  NoRequest      \* the decode thread works on no request

\* validate_config and the request validator admit no smaller values.
ASSUME SchedulerAssumption ==
  /\ MaxQueueSize \in Nat \ {0}
  /\ MaxActive \in Nat \ {0}
  /\ MaxTokens \in Nat \ {0}
  /\ InputLen \in Nat
  /\ Timeouts \subseteq {"queue", "request", "decode"}
  /\ Spread \subseteq Requests
  /\ NoRequest \notin Requests

VARIABLES
  running,    \* running_
  main,       \* where the main thread is: start and stop
  spc,        \* spc[r]: where r's HTTP thread is in submit
  state,      \* request->state
  cancelled,  \* the requests whose cancel_token is set
  expired,    \* expired[r]: the deadlines of r that have passed
  registry,   \* registry_.requests_
  pending,    \* pending_queue_
  active,     \* active_requests_
  kv,         \* kv[r]: r's kv_cache handle: "none" (not valid), "held" with
              \* its cache, or still valid after free_resources has released
              \* cache and router budget: "freed" once, or "freedTwice"
  kvLen,      \* kv_cache.current_len
  outLen,     \* output_tokens.size()
  reason,     \* request->finish_reason
  error,      \* request->error, by its code
  tq,         \* request->token_queue
  dpc,        \* where the decode thread is
  cur,        \* the decode thread's request
  todo,       \* the requests of the round's snapshot not yet visited
  completedCount, erroredCount,  \* completed_count_, errored_count_
  activeGauge                    \* the REQUESTS_ACTIVE gauge

submitVars == <<spc, registry, pending>>
requestVars == <<state, kvLen, outLen, reason, error>>
decodeVars == <<dpc, cur, todo>>
statVars == <<completedCount, erroredCount, activeGauge>>
vars == <<running, main, spc, state, cancelled, expired, registry, pending,
          active, kv, kvLen, outLen, reason, error, tq, dpc, cur, todo,
          completedCount, erroredCount, activeGauge>>

-----------------------------------------------------------------------------
\* RequestState.  No code path stores Cancelled.
TerminalState == {"Completed", "Cancelled", "Errored", "Rejected"}
RequestState == {"Received", "Queued", "Prefilling", "Decoding"}
                  \cup TerminalState
FinishReason == {"None", "Stop", "Length"}
\* "internal" stands for every code that no handler tells apart.
ErrorCode == {"none", "timeout", "resource_exhausted", "internal"}

\* is_terminal().
IsTerminal(r) == state[r] \in TerminalState

\* The decode thread is past set_state in complete_request or fail_request.
Finishing == dpc \in {"publish", "close", "free"}

Init ==
  /\ running = FALSE
  /\ main = "init"
  /\ spc = [r \in Requests |-> "received"]
  /\ state = [r \in Requests |-> "Received"]
  /\ cancelled = {}
  /\ expired = [r \in Requests |-> {}]
  /\ registry = {}
  /\ pending = <<>>
  /\ active = {}
  /\ kv = [r \in Requests |-> "none"]
  /\ kvLen = [r \in Requests |-> 0]
  /\ outLen = [r \in Requests |-> 0]
  /\ reason = [r \in Requests |-> "None"]
  /\ error = [r \in Requests |-> "none"]
  /\ tq = [r \in Requests |-> NewQueue]
  /\ dpc = "exited"
  /\ cur = NoRequest
  /\ todo = {}
  /\ completedCount = 0
  /\ erroredCount = 0
  /\ activeGauge = 0

-----------------------------------------------------------------------------
(* start and stop, on the main thread.                                     *)

Start ==
  /\ main \in {"init", "down"} /\ ~running
  /\ running' = TRUE
  /\ main' = "up"
  /\ dpc' = "loop"
  /\ UNCHANGED <<submitVars, requestVars, cancelled, expired, active, kv, tq,
                 cur, todo, statVars>>

StopRequest ==
  /\ main = "up" /\ running
  /\ running' = FALSE
  /\ main' = "joining"
  /\ UNCHANGED <<submitVars, requestVars, cancelled, expired, active, kv, tq,
                 decodeVars, statVars>>

\* cancel_all() once the decode thread is joined.
StopJoined ==
  /\ main = "joining" /\ dpc = "exited"
  /\ main' = "down"
  /\ cancelled' = cancelled \cup {r \in registry : ~IsTerminal(r)}
  /\ UNCHANGED <<running, submitVars, requestVars, expired, active, kv, tq,
                 decodeVars, statVars>>

-----------------------------------------------------------------------------
(* submit, on the HTTP thread of request r.                                *)

\* The running_ test; a request refused here keeps state Received.
SubmitCheckRunning(r) ==
  /\ spc[r] = "received"
  /\ spc' = [spc EXCEPT ![r] = IF running THEN "admitting" ELSE "refused"]
  /\ UNCHANGED <<running, main, registry, pending, requestVars, cancelled,
                 expired, active, kv, tq, decodeVars, statVars>>

\* The tail of submit when admit returned an error.
Reject(r) ==
  /\ spc' = [spc EXCEPT ![r] = "refused"]
  /\ state' = [state EXCEPT ![r] = "Rejected"]
  /\ error' = [error EXCEPT ![r] = "resource_exhausted"]

\* admit: the queue length, read under queue_mutex_.
AdmitQueueLength(r) ==
  /\ spc[r] = "admitting"
  /\ \/ /\ Len(pending) >= MaxQueueSize
        /\ Reject(r)
     \/ /\ Len(pending) < MaxQueueSize
        /\ spc' = [spc EXCEPT ![r] = "fits"]
        /\ UNCHANGED <<state, error>>
  /\ UNCHANGED <<running, main, registry, pending, kvLen, outLen, reason,
                 cancelled, expired, active, kv, tq, decodeVars, statVars>>

\* admit: the GPU router's and the KV allocator's answers.
AdmitMemory(r) ==
  /\ spc[r] = "fits"
  /\ \/ Reject(r)
     \/ /\ spc' = [spc EXCEPT ![r] = "admitted"]
        /\ UNCHANGED <<state, error>>
  /\ UNCHANGED <<running, main, registry, pending, kvLen, outLen, reason,
                 cancelled, expired, active, kv, tq, decodeVars, statVars>>

\* registry_.add, set_state(Queued) and the deadlines.
Register(r) ==
  /\ spc[r] = "admitted"
  /\ spc' = [spc EXCEPT ![r] = "registered"]
  /\ registry' = registry \cup {r}
  /\ state' = [state EXCEPT ![r] = "Queued"]
  /\ UNCHANGED <<running, main, pending, kvLen, outLen, reason, error,
                 cancelled, expired, active, kv, tq, decodeVars, statVars>>

\* pending_queue_.push under queue_mutex_; submit returns success.
Enqueue(r) ==
  /\ spc[r] = "registered"
  /\ spc' = [spc EXCEPT ![r] = "accepted"]
  /\ pending' = Append(pending, r)
  /\ UNCHANGED <<running, main, registry, requestVars, cancelled, expired,
                 active, kv, tq, decodeVars, statVars>>

Submit(r) ==
  \/ SubmitCheckRunning(r)
  \/ AdmitQueueLength(r)
  \/ AdmitMemory(r)
  \/ Register(r)
  \/ Enqueue(r)

-----------------------------------------------------------------------------
(* The clients and the clock.                                              *)

\* The HTTP thread of r sets the token itself, before or after submit: the
\* client is gone, or the handler's own timeout has passed.
ClientCancel(r) ==
  /\ spc[r] \in {"received", "accepted"} /\ r \notin cancelled
  /\ cancelled' = cancelled \cup {r}
  /\ UNCHANGED <<running, main, submitVars, requestVars, expired, active, kv,
                 tq, decodeVars, statVars>>

\* Scheduler::cancel: only a request still in the registry is found.
Cancel(r) ==
  /\ r \in registry /\ r \notin cancelled
  /\ cancelled' = cancelled \cup {r}
  /\ UNCHANGED <<running, main, submitVars, requestVars, expired, active, kv,
                 tq, decodeVars, statVars>>

\* The deadlines that submit and process_queue have set for r.
Deadlines(r) ==
  {k \in Timeouts : /\ spc[r] \in {"registered", "accepted"}
                    /\ k = "decode" => state[r] = "Decoding"}

\* The clock passes a deadline of r.
Expire(r) ==
  /\ \E k \in Deadlines(r) \ expired[r] :
       expired' = [expired EXCEPT ![r] = @ \cup {k}]
  /\ UNCHANGED <<running, main, submitVars, requestVars, cancelled, active,
                 kv, tq, decodeVars, statVars>>

\* The HTTP thread pops an event of r's queue.
Consume(r) ==
  /\ spc[r] = "accepted" /\ ~PopReturnsNothing(tq[r])
  /\ tq' = [tq EXCEPT ![r] = Pop(@)]
  /\ UNCHANGED <<running, main, submitVars, requestVars, cancelled, expired,
                 active, kv, decodeVars, statVars>>

-----------------------------------------------------------------------------
(* The decode thread: decode_loop and what it calls.                       *)

\* complete_request, its first line: the result before the state.
Complete(r, why) ==
  /\ reason' = [reason EXCEPT ![r] = why]
  /\ cur' = r /\ dpc' = "settle"
  /\ UNCHANGED error

\* fail_request, its first line.
Fail(r, code) ==
  /\ error' = [error EXCEPT ![r] = code]
  /\ cur' = r /\ dpc' = "settle"
  /\ UNCHANGED reason

\* A handle after free_resources, which does nothing if is_valid() is false,
\* else releases the router's budget and then the cache.
Freed(r) ==
  IF kv[r] = "none" \/ r \notin Spread THEN "none"
  ELSE IF kv[r] = "held" THEN "freed" ELSE "freedTwice"

\* free_resources that skips a request that never became active.
MutFreeResources == IF cur \in active THEN [kv EXCEPT ![cur] = Freed(cur)] ELSE kv

\* The handles after free_resources(request).
FreeResources == [kv EXCEPT ![cur] = Freed(cur)]

\* decode_loop that does not look at running_.
MutKeepRunning == TRUE

\* The condition of decode_loop's while.
KeepRunning == running

LoopTop ==
  /\ dpc = "loop"
  /\ dpc' = IF KeepRunning THEN "queue" ELSE "exited"
  /\ UNCHANGED <<running, main, submitVars, requestVars, cancelled, expired,
                 active, kv, tq, cur, todo, statVars>>

\* The size test of process_queue, off by one either way.
MutSlotFreeLate == Cardinality(active) <= MaxActive
MutSlotFreeEarly == Cardinality(active) + 1 < MaxActive

\* process_queue may start one more request.
SlotFree == Cardinality(active) < MaxActive

\* process_queue that takes the newest request.
MutProcessQueuePop ==
  /\ dpc = "queue" /\ pending # <<>> /\ SlotFree
  /\ cur' = pending[Len(pending)]
  /\ pending' = SubSeq(pending, 1, Len(pending) - 1)
  /\ dpc' = "popped"
  /\ UNCHANGED <<running, main, spc, registry, requestVars, cancelled,
                 expired, active, kv, tq, todo, statVars>>

\* process_queue takes the oldest request when a slot is free.
ProcessQueuePop ==
  /\ dpc = "queue" /\ pending # <<>> /\ SlotFree
  /\ cur' = Head(pending)
  /\ pending' = Tail(pending)
  /\ dpc' = "popped"
  /\ UNCHANGED <<running, main, spc, registry, requestVars, cancelled,
                 expired, active, kv, tq, todo, statVars>>

\* process_queue returns; the round is over a snapshot of the active
\* requests, and without any the thread waits at most one interval.
ProcessQueueDone ==
  /\ dpc = "queue"
  /\ pending = <<>> \/ ~SlotFree
  /\ todo' = active
  /\ dpc' = IF active = {} THEN "loop" ELSE "round"
  /\ UNCHANGED <<running, main, submitVars, requestVars, cancelled, expired,
                 active, kv, tq, cur, statVars>>

\* The two deadline tests on a request just taken from the queue.
QueueTimeout ==
  /\ dpc = "popped" /\ expired[cur] \cap {"queue", "request"} # {}
  /\ Fail(cur, "timeout")
  /\ UNCHANGED <<running, main, submitVars, state, kvLen, outLen, cancelled,
                 expired, active, kv, tq, todo, statVars>>

\* run_prefill up to the allocation.
BeginPrefill ==
  /\ dpc = "popped" /\ expired[cur] \cap {"queue", "request"} = {}
  /\ state' = [state EXCEPT ![cur] = "Prefilling"]
  /\ activeGauge' = activeGauge + 1
  /\ dpc' = "alloc"
  /\ UNCHANGED <<running, main, submitVars, kvLen, outLen, reason, error,
                 cancelled, expired, active, kv, tq, cur, todo,
                 completedCount, erroredCount>>

\* run_prefill: kv_allocator_->allocate succeeds.
AllocateKV ==
  /\ dpc = "alloc"
  /\ kv' = [kv EXCEPT ![cur] = "held"]
  /\ dpc' = "prefill"
  /\ UNCHANGED <<running, main, submitVars, requestVars, cancelled, expired,
                 active, tq, cur, todo, statVars>>

\* run_prefill: the allocation fails, and process_queue fails the request.
AllocateFails ==
  /\ dpc = "alloc"
  /\ activeGauge' = activeGauge - 1
  /\ \E code \in {"resource_exhausted", "internal"} : Fail(cur, code)
  /\ UNCHANGED <<running, main, submitVars, state, kvLen, outLen, cancelled,
                 expired, active, kv, tq, todo, completedCount,
                 erroredCount>>

\* The prefill succeeds and process_queue activates the request.
PrefillDone ==
  /\ dpc = "prefill" /\ cur \notin cancelled
  /\ kvLen' = [kvLen EXCEPT ![cur] = InputLen]
  /\ state' = [state EXCEPT ![cur] = "Decoding"]
  /\ active' = active \cup {cur}
  /\ cur' = NoRequest /\ dpc' = "queue"
  /\ UNCHANGED <<running, main, submitVars, outLen, reason, error, cancelled,
                 expired, kv, tq, todo, statVars>>

\* The backend refuses the prefill, which it does for a cancelled request.
PrefillFails ==
  /\ dpc = "prefill"
  /\ kv' = FreeResources
  /\ activeGauge' = activeGauge - 1
  /\ Fail(cur, "internal")
  /\ UNCHANGED <<running, main, submitVars, state, kvLen, outLen, cancelled,
                 expired, active, tq, todo, completedCount,
                 erroredCount>>

RoundDone ==
  /\ dpc = "round" /\ todo = {}
  /\ dpc' = "loop"
  /\ UNCHANGED <<running, main, submitVars, requestVars, cancelled, expired,
                 active, kv, tq, cur, todo, statVars>>

\* The tests decode_loop makes of the next request of its snapshot.
Visit(r) ==
  /\ dpc = "round" /\ r \in todo
  /\ todo' = todo \ {r}
  /\ \/ /\ r \in cancelled
        /\ Complete(r, "Stop")
     \/ /\ r \notin cancelled /\ expired[r] \cap {"request", "decode"} # {}
        /\ Fail(r, "timeout")
     \/ /\ r \notin cancelled /\ expired[r] \cap {"request", "decode"} = {}
        /\ cur' = r /\ dpc' = "step"
        /\ UNCHANGED <<reason, error>>
  /\ UNCHANGED <<running, main, submitVars, state, kvLen, outLen, cancelled,
                 expired, active, kv, tq, statVars>>

\* run_decode_step finds the token set: decode_loop completes the request
\* with the finish_reason it has, which is still None.
StepCancelled ==
  /\ dpc = "step" /\ cur \in cancelled
  /\ Complete(cur, reason[cur])
  /\ UNCHANGED <<running, main, submitVars, state, kvLen, outLen, cancelled,
                 expired, active, kv, tq, todo, statVars>>

\* run_decode_step: the backend or the sampler returns an error (the backend
\* also when the token is set after the test above).
StepFails ==
  /\ dpc = "step" /\ cur \notin cancelled
  /\ Fail(cur, "internal")
  /\ UNCHANGED <<running, main, submitVars, state, kvLen, outLen, cancelled,
                 expired, active, kv, tq, todo, statVars>>

\* run_decode_step samples a token.
StepToken ==
  /\ dpc = "step" /\ cur \notin cancelled
  /\ outLen' = [outLen EXCEPT ![cur] = @ + 1]
  /\ kvLen' = [kvLen EXCEPT ![cur] = @ + 1]
  /\ dpc' = "emit"
  /\ UNCHANGED <<running, main, submitVars, state, reason, error, cancelled,
                 expired, active, kv, tq, cur, todo, statVars>>

\* check with > for >= in its first test.
MutStopReason(n, hit) ==
  IF n > MaxTokens THEN "Length" ELSE IF hit THEN "Stop" ELSE "None"

\* StopChecker::check after n tokens, the last of which meets a stop
\* condition or not.  "None" stands for should_stop = false.
StopReason(n, hit) ==
  IF n >= MaxTokens THEN "Length" ELSE IF hit THEN "Stop" ELSE "None"

\* emit_token and check_stop_and_continue.
EmitToken ==
  /\ dpc = "emit"
  /\ tq' = [tq EXCEPT ![cur] = Push(@, "Token")]
  /\ \E hit \in BOOLEAN :
       LET why == StopReason(outLen[cur], hit)
       IN  \/ why # "None" /\ Complete(cur, why)
           \/ /\ why = "None"
              /\ cur' = NoRequest /\ dpc' = "round"
              /\ UNCHANGED <<reason, error>>
  /\ UNCHANGED <<running, main, submitVars, state, kvLen, outLen, cancelled,
                 expired, active, kv, todo, statVars>>

\* set_state in complete_request or in fail_request.
Settle ==
  /\ dpc = "settle"
  /\ state' = [state EXCEPT ![cur] =
                 IF error[cur] = "none" THEN "Completed" ELSE "Errored"]
  /\ dpc' = "publish"
  /\ UNCHANGED <<running, main, submitVars, kvLen, outLen, reason, error,
                 cancelled, expired, active, kv, tq, cur, todo, statVars>>

\* The terminal event of complete_request or fail_request.
Publish ==
  /\ dpc = "publish"
  /\ tq' = [tq EXCEPT ![cur] =
              Push(@, IF state[cur] = "Completed" THEN "Complete" ELSE "Error")]
  /\ dpc' = "close"
  /\ UNCHANGED <<running, main, submitVars, requestVars, cancelled, expired,
                 active, kv, cur, todo, statVars>>

CloseQueue ==
  /\ dpc = "close"
  /\ tq' = [tq EXCEPT ![cur] = Close(@)]
  /\ dpc' = "free"
  /\ UNCHANGED <<running, main, submitVars, requestVars, cancelled, expired,
                 active, kv, cur, todo, statVars>>

\* complete_request that keeps the request in active_requests_.
MutErase == active

\* active_requests_ after the erase-remove idiom.
Erase == active \ {cur}

\* complete_request without registry_.remove.
MutUnregister == registry

\* registry_ after remove(request->id).
Unregister == registry \ {cur}

\* The rest of complete_request or fail_request, up to the return to the
\* caller: decode_loop's round for an active request, else process_queue.
Release ==
  /\ dpc = "free"
  /\ kv' = FreeResources
  /\ active' = Erase
  /\ registry' = Unregister
  /\ activeGauge' = activeGauge - 1
  /\ IF state[cur] = "Completed"
     THEN completedCount' = completedCount + 1 /\ UNCHANGED erroredCount
     ELSE erroredCount' = erroredCount + 1 /\ UNCHANGED completedCount
  /\ cur' = NoRequest
  /\ dpc' = IF cur \in active THEN "round" ELSE "queue"
  /\ UNCHANGED <<running, main, spc, pending, requestVars, cancelled,
                 expired, tq, todo>>

DecodeLoop ==
  \/ LoopTop
  \/ ProcessQueuePop \/ ProcessQueueDone
  \/ QueueTimeout \/ BeginPrefill
  \/ AllocateKV \/ AllocateFails
  \/ PrefillDone \/ PrefillFails
  \/ RoundDone
  \/ \E r \in Requests : Visit(r)
  \/ StepCancelled \/ StepFails \/ StepToken
  \/ EmitToken \/ Settle \/ Publish \/ CloseQueue \/ Release

Next ==
  \/ Start \/ StopRequest \/ StopJoined
  \/ \E r \in Requests :
       Submit(r) \/ ClientCancel(r) \/ Cancel(r) \/ Expire(r) \/ Consume(r)
  \/ DecodeLoop

\* The operating system runs every thread that can run.  Nothing obliges a
\* client to cancel or to read, a deadline to pass, or main to stop.
Fairness ==
  /\ WF_vars(DecodeLoop)
  /\ WF_vars(StopJoined)
  /\ \A r \in Requests : WF_vars(Submit(r))

Safety == Init /\ [][Next]_vars
Spec == Safety /\ Fairness

-----------------------------------------------------------------------------
(* What must hold.                                                         *)

\* The types of the variables.
TypeOK ==
  /\ running \in BOOLEAN
  /\ main \in {"init", "up", "joining", "down"}
  /\ spc \in [Requests -> {"received", "admitting", "fits", "admitted",
                           "registered", "accepted", "refused"}]
  /\ state \in [Requests -> RequestState]
  /\ cancelled \subseteq Requests
  /\ expired \in [Requests -> SUBSET Timeouts]
  /\ registry \subseteq Requests
  /\ pending \in Seq(Requests)
  /\ active \subseteq Requests
  /\ kv \in [Requests -> {"none", "held", "freed", "freedTwice"}]
  /\ kvLen \in [Requests -> 0 .. InputLen + MaxTokens]
  /\ outLen \in [Requests -> 0 .. MaxTokens]
  /\ reason \in [Requests -> FinishReason]
  /\ error \in [Requests -> ErrorCode]
  /\ tq \in [Requests -> Queue]
  /\ dpc \in {"exited", "loop", "queue", "popped", "alloc", "prefill",
              "round", "step", "emit", "settle", "publish", "close", "free"}
  /\ cur \in Requests \cup {NoRequest}
  /\ todo \subseteq Requests
  /\ completedCount \in Nat /\ erroredCount \in Nat
  /\ activeGauge \in Int

Elems(s) == {s[i] : i \in DOMAIN s}
NoRepeat(s) == \A i, j \in DOMAIN s : s[i] = s[j] => i = j

\* The requests in pending_queue_.
Pending == Elems(pending)

\* The request that process_queue has in hand: out of the queue and not
\* among the active requests.
InHand == IF cur \in Requests \ active THEN {cur} ELSE {}

\* No accepted request is lost and none is run twice: until its result is
\* published and its resources are released, a request is once in the queue,
\* or in process_queue's hands, or active, and in no two of these places.
HeldOnce ==
  /\ NoRepeat(pending)
  /\ Pending \cap active = {}
  /\ Pending \cap InHand = {}
  /\ Pending \cup active \cup InHand =
       {r \in Requests : spc[r] = "accepted" /\ (IsTerminal(r) => r = cur)}

\* The state other threads read agrees with where the request is: before
\* submit is done with it, in the queue, in process_queue's hands, active, or
\* being finished; and the decode thread works on a request it still holds,
\* never on one its round's snapshot remembers and that is gone.
StateMatchesPlace ==
  /\ \A r \in Requests :
       /\ spc[r] \in {"received", "admitting", "fits", "admitted"}
            => state[r] = "Received"
       /\ spc[r] = "refused" => state[r] \in {"Received", "Rejected"}
       /\ spc[r] = "registered" \/ r \in Pending => state[r] = "Queued"
       /\ r \in active => state[r] = "Decoding" \/ (r = cur /\ Finishing)
       /\ state[r] \in {"Received", "Queued", "Prefilling"} =>
            outLen[r] = 0 /\ kvLen[r] = 0
  /\ main \in {"init", "down"} => dpc = "exited"
  /\ cur = NoRequest <=> dpc \in {"exited", "loop", "queue", "round"}
  /\ dpc = "popped" => state[cur] = "Queued"
  /\ dpc \in {"alloc", "prefill"} => state[cur] = "Prefilling"
  /\ dpc = "settle" => ~IsTerminal(cur)
  /\ Finishing => state[cur] \in {"Completed", "Errored"}
  /\ dpc \in {"popped", "alloc", "prefill"} => cur \notin active
  /\ dpc \in {"step", "emit"} => cur \in active
  /\ cur \in active \/ dpc = "round" => todo \subseteq active \ {cur}
  /\ cur \notin active /\ dpc # "round" => todo = {}

\* The requests that have the cache they were allocated, on every device.
Holding == {r \in Requests : kv[r] = "held"}

\* A KV cache is held by exactly the active requests and the request being
\* prefilled, whatever path its life takes, and the backend is only called
\* with such a cache.  A handle outlives its cache only for a request that
\* the pooled allocator spread over devices and that has ended or is ending;
\* and its router budget is released a second time only when the prefill
\* failed and left the cache without a sequence: then run_prefill and
\* fail_request both call free_resources.
KVOwnership ==
  /\ Holding = active \cup IF dpc = "prefill" THEN {cur} ELSE {}
  /\ dpc \in {"step", "emit"} => cur \in Holding
  /\ \A r \in Requests : kv[r] \in {"freed", "freedTwice"} =>
       /\ r \in Spread
       /\ IsTerminal(r) \/ (r = cur /\ dpc = "settle")
       /\ kv[r] = "freedTwice" \/ r = cur =>
            error[r] = "internal" /\ kvLen[r] = 0

\* The sequence of a request never outgrows the max_seq_len its cache was
\* allocated with, and its length is that of the prompt and the output.
KVWithinAllocation ==
  \A r \in Holding :
    /\ kvLen[r] <= InputLen + MaxTokens
    /\ r \in active => kvLen[r] = InputLen + outLen[r]
    /\ r \in active /\ (r = cur => dpc = "step") => outLen[r] < MaxTokens

\* max_active_requests bounds the requests that hold or are about to hold
\* a KV cache.
ActiveBound == Cardinality(active \cup InHand) <= MaxActive

\* The registry knows a request from before it is queued until it is
\* finished, and not longer: cancel and cancel_all reach every request that
\* waits or runs, and the registry does not grow.
RegistryExact ==
  registry = {r \in Requests : /\ spc[r] \in {"registered", "accepted"}
                               /\ IsTerminal(r) => r = cur}

\* Of one request the consumer sees tokens, then at most one terminal event
\* that agrees with the state, then nothing; close comes after the result.
StreamWellFormed ==
  \A r \in Requests :
    LET es == tq[r].events
    IN  /\ Len(es) <= MaxSize
        /\ tq[r].closed => IsTerminal(r)
        /\ \A i \in DOMAIN es :
             es[i] \in TerminalEvent =>
               /\ i = Len(es)
               /\ state[r] = IF es[i] = "Complete" THEN "Completed"
                                                   ELSE "Errored"

\* Every request that was accepted and is finished is counted once.
CountersExact ==
  /\ completedCount =
       Cardinality({r \in Requests : state[r] = "Completed" /\ r # cur})
  /\ erroredCount =
       Cardinality({r \in Requests : state[r] = "Errored" /\ r # cur})

\* The HTTP thread reads finish_reason, error and output_text without a lock
\* once is_terminal() holds: nothing of a result changes after that.
ResultFinal ==
  [][\A r \in Requests :
       IsTerminal(r) /\ spc[r] = "accepted" =>
         /\ state'[r] = state[r] /\ reason'[r] = reason[r]
         /\ error'[r] = error[r] /\ outLen'[r] = outLen[r]]_vars

\* The phase of r in its abstract life: submit has refused or accepted it,
\* process_queue has taken it, or set_state has made its result visible.
Phase(r) ==
  IF state[r] \in {"Completed", "Errored"} THEN "ended"
  ELSE IF r \in Pending THEN "waiting"
  ELSE IF spc[r] = "refused" THEN "refused"
  ELSE IF spc[r] = "accepted" /\ ~IsTerminal(r) THEN "started"
  ELSE "new"

\* What a handler may read of a request that has ended.
ResultOf(r) ==
  [state |-> state[r], reason |-> reason[r], error |-> error[r],
   tokens |-> outLen[r]]

\* A completed request has no error and an errored one has; neither has more
\* than max_tokens tokens.
FinalResult ==
  {o \in [state : {"Completed", "Errored"}, reason : FinishReason,
          error : ErrorCode, tokens : 0 .. MaxTokens] :
     o.state = "Completed" <=> o.error = "none"}

Lifecycle ==
  INSTANCE RequestLifecycle WITH
    phase <- [r \in Requests |-> Phase(r)],
    waiting <- pending,
    outcome <- [r \in Requests |->
                  IF Phase(r) = "ended" THEN ResultOf(r) ELSE "none"],
    Outcomes <- FinalResult,
    NoOutcome <- "none"

\* The scheduler, with its HTTP threads, its decode thread and a shutdown at
\* any moment, implements the life of a request: accepted requests start in
\* the order in which submit queued them, at most max_active_requests at a
\* time, each ends once, and nothing of the result that handlers read without
\* a lock changes after that.
ServesInOrder == Lifecycle!LSpec

\* An accepted request ends unless the scheduler is stopped: a slow reader,
\* a full queue of events or a cancellation never holds up the decode thread,
\* and a full active set never starves the queue.
AcceptedEnds ==
  \A r \in Requests : spc[r] = "accepted" ~> IsTerminal(r) \/ ~running

\* stop returns: the decode thread notices running_ whatever it is doing.
StopReturns == main = "joining" ~> main = "down"

\* The result of a finished request is followed by the end of its stream and
\* by free_resources, even when the scheduler is being stopped.  That leaves
\* neither a cache nor a valid handle, but for a request that the pooled
\* allocator spread over devices: of its cache only the part on the first
\* device is freed, and its handle stays valid for good.
FinishedReleases ==
  \A r \in Requests :
    IsTerminal(r) /\ spc[r] = "accepted" ~>
      /\ tq[r].closed
      /\ kv[r] # "held" /\ (r \notin Spread => kv[r] = "none")

-----------------------------------------------------------------------------
(* What the documentation says and the code does not do.                   *)

\* metrics: REQUESTS_ACTIVE counts the requests being prefilled or decoded.
ActiveGaugeExact ==
  dpc \in {"loop", "queue", "exited"} => activeGauge = Cardinality(active)

=============================================================================
