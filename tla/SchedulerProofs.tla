-------------------------- MODULE SchedulerProofs ---------------------------
(***************************************************************************)
(* Proofs about Scheduler for every set of requests and every value of the *)
(* limits.                                                                 *)
(***************************************************************************)
EXTENDS Scheduler, FiniteSetTheorems, SequenceTheorems, TLAPS

-----------------------------------------------------------------------------
(* The operators of TokenQueue keep a queue a queue.                       *)

\* push returns a queue, whether it keeps, drops or ignores the event.
LEMMA PushType == ASSUME NEW q \in Queue, NEW e \in EventType
                  PROVE  Push(q, e) \in Queue
<1>1. Append(q.events, e) \in Seq(EventType)
  BY DEF Queue
<1>2. q.dropped + 1 \in Nat
  BY DEF Queue
<1>3. [q EXCEPT !.events = Append(@, e)] \in Queue
  BY <1>1 DEF Queue
<1>4. [q EXCEPT !.dropped = @ + 1] \in Queue
  BY <1>2 DEF Queue
<1> QED
  BY <1>3, <1>4 DEF Push

\* close returns a queue.
LEMMA CloseType == ASSUME NEW q \in Queue PROVE Close(q) \in Queue
  BY DEF Close, Queue

\* pop of a queue with an event returns a queue.
LEMMA PopType == ASSUME NEW q \in Queue, ~PopReturnsNothing(q)
                 PROVE  Pop(q) \in Queue
<1>1. Tail(q.events) \in Seq(EventType)
  BY DEF Queue, PopReturnsNothing
<1> QED
  BY <1>1 DEF Pop, Queue

-----------------------------------------------------------------------------
(* The pending queue as a set of requests.                                 *)

\* What push does to the requests of the queue.
LEMMA AppendElems ==
  ASSUME NEW S, NEW s \in Seq(S), NEW x \in S
  PROVE  /\ Elems(Append(s, x)) = Elems(s) \cup {x}
         /\ NoRepeat(s) /\ x \notin Elems(s) => NoRepeat(Append(s, x))
<1> DEFINE t == Append(s, x)
<1>1. /\ DOMAIN s = 1 .. Len(s) /\ Len(s) \in Nat
      /\ DOMAIN t = 1 .. Len(s) + 1
      /\ t[Len(s) + 1] = x
      /\ \A i \in DOMAIN s : t[i] = s[i]
  OBVIOUS
<1> HIDE DEF t
<1>2. Elems(t) = Elems(s) \cup {x}
  BY <1>1 DEF Elems
<1>3. NoRepeat(s) /\ x \notin Elems(s) => NoRepeat(t)
  BY <1>1 DEF Elems, NoRepeat
<1> QED
  BY <1>2, <1>3 DEF t

\* What pop does to them.
LEMMA TailElems ==
  ASSUME NEW S, NEW s \in Seq(S), s # <<>>
  PROVE  /\ Head(s) \in S
         /\ Elems(s) = Elems(Tail(s)) \cup {Head(s)}
         /\ NoRepeat(s) => NoRepeat(Tail(s)) /\ Head(s) \notin Elems(Tail(s))
<1> DEFINE t == Tail(s)
<1>1. /\ DOMAIN s = 1 .. Len(s) /\ Len(s) \in Nat \ {0}
      /\ DOMAIN t = 1 .. Len(s) - 1
      /\ Head(s) = s[1] /\ s[1] \in S
      /\ \A i \in DOMAIN t : t[i] = s[i + 1]
  OBVIOUS
<1> HIDE DEF t
<1>2. \A i \in DOMAIN s : i # 1 => i - 1 \in DOMAIN t /\ s[i] = t[i - 1]
  BY <1>1
<1>3. Elems(s) = Elems(t) \cup {Head(s)}
  BY <1>1, <1>2 DEF Elems
<1>4. NoRepeat(s) => NoRepeat(t) /\ Head(s) \notin Elems(t)
  BY <1>1 DEF Elems, NoRepeat
<1> QED
  BY <1>1, <1>3, <1>4 DEF t

-----------------------------------------------------------------------------
(* The inductive invariant.  KVOwnership alone is not: that a finished     *)
(* request is in no set needs HeldOnce, that the decode thread's request   *)
(* is where its control says needs StateMatchesPlace, and the bound on the *)
(* outputs in TypeOK needs KVWithinAllocation.                             *)

IInv ==
  /\ TypeOK
  /\ StateMatchesPlace
  /\ HeldOnce
  /\ KVOwnership
  /\ KVWithinAllocation
  /\ RegistryExact

-----------------------------------------------------------------------------
(* Type correctness.                                                       *)

\* What the two looks of admit change: of r the place in submit and, on a
\* refusal, state and error; of other requests nothing.
AdmitEffect(r) ==
  /\ spc[r] \in {"admitting", "fits"}
  /\ spc' \in [Requests -> {"received", "admitting", "fits", "admitted",
                            "registered", "accepted", "refused"}]
  /\ state' \in [Requests -> RequestState]
  /\ error' \in [Requests -> ErrorCode]
  /\ \/ spc'[r] \in {"fits", "admitted"} /\ state'[r] = state[r]
     \/ spc'[r] = "refused" /\ state'[r] = "Rejected"
  /\ \A q \in Requests \ {r} :
       spc'[q] = spc[q] /\ state'[q] = state[q] /\ error'[q] = error[q]
  /\ UNCHANGED <<running, main, registry, pending, kvLen, outLen, reason,
                 cancelled, expired, active, kv, tq, dpc, cur, todo,
                 completedCount, erroredCount, activeGauge>>

\* admit, at its look at the queue and at its look at the memory.
LEMMA AdmitKeeps ==
  ASSUME TypeOK, NEW r \in Requests, AdmitQueueLength(r) \/ AdmitMemory(r)
  PROVE  AdmitEffect(r)
<1>1. /\ spc \in [Requests -> {"received", "admitting", "fits", "admitted",
                               "registered", "accepted", "refused"}]
      /\ state \in [Requests -> RequestState]
      /\ error \in [Requests -> ErrorCode]
  BY DEF TypeOK
<1>2. "Rejected" \in RequestState /\ "resource_exhausted" \in ErrorCode
  BY DEF RequestState, TerminalState, ErrorCode
<1>3. /\ spc[r] \in {"admitting", "fits"}
      /\ \/ Reject(r)
         \/ /\ \/ spc' = [spc EXCEPT ![r] = "fits"]
               \/ spc' = [spc EXCEPT ![r] = "admitted"]
            /\ UNCHANGED <<state, error>>
  BY DEF AdmitQueueLength, AdmitMemory
<1>4. UNCHANGED <<running, main, registry, pending, kvLen, outLen, reason,
                  cancelled, expired, active, kv, tq, dpc, cur, todo,
                  completedCount, erroredCount, activeGauge>>
  BY DEF AdmitQueueLength, AdmitMemory, decodeVars, statVars
<1>5. CASE Reject(r)
  BY <1>1, <1>2, <1>3, <1>4, <1>5 DEF Reject, AdmitEffect
<1>6. CASE ~Reject(r)
  BY <1>1, <1>3, <1>4, <1>6 DEF AdmitEffect
<1> QED
  BY <1>5, <1>6

\* Every step of HTTP threads, handlers and decode thread keeps the types, the
\* stop checker's limit on the output included.
LEMMA TypeStep == IInv /\ [Next]_vars => TypeOK'
<1> SUFFICES ASSUME IInv, [Next]_vars PROVE TypeOK'
  OBVIOUS
<1>0. /\ TypeOK
      /\ dpc \notin {"exited", "loop", "queue", "round"} => cur \in Requests
      /\ dpc = "step" =>
           outLen[cur] < MaxTokens /\ kvLen[cur] = InputLen + outLen[cur]
  BY DEF IInv, TypeOK, StateMatchesPlace, KVWithinAllocation, KVOwnership, Holding
<1> USE SchedulerAssumption
    DEF TypeOK, submitVars, requestVars, decodeVars, statVars, RequestState,
        TerminalState, FinishReason, ErrorCode
<1>1. CASE Start
  BY <1>0, <1>1 DEF Start
<1>2. CASE StopRequest
  BY <1>0, <1>2 DEF StopRequest
<1>3. CASE StopJoined
  BY <1>0, <1>3 DEF StopJoined
<1>4. ASSUME NEW r \in Requests, SubmitCheckRunning(r) PROVE TypeOK'
  BY <1>0, <1>4 DEF SubmitCheckRunning
<1>5. ASSUME NEW r \in Requests, AdmitQueueLength(r) PROVE TypeOK'
  <2>1. AdmitEffect(r)
    BY <1>5, AdmitKeeps DEF IInv
  <2> QED
    BY <1>0, <2>1 DEF AdmitEffect
<1>6. ASSUME NEW r \in Requests, AdmitMemory(r) PROVE TypeOK'
  <2>1. AdmitEffect(r)
    BY <1>6, AdmitKeeps DEF IInv
  <2> QED
    BY <1>0, <2>1 DEF AdmitEffect
<1>7. ASSUME NEW r \in Requests, Register(r) PROVE TypeOK'
  BY <1>0, <1>7 DEF Register
<1>8. ASSUME NEW r \in Requests, Enqueue(r) PROVE TypeOK'
  BY <1>0, <1>8 DEF Enqueue
<1>9. ASSUME NEW r \in Requests, ClientCancel(r) PROVE TypeOK'
  BY <1>0, <1>9 DEF ClientCancel
<1>10. ASSUME NEW r \in Requests, Cancel(r) PROVE TypeOK'
  BY <1>0, <1>10 DEF Cancel
<1>11. ASSUME NEW r \in Requests, Expire(r) PROVE TypeOK'
  BY <1>0, <1>11 DEF Expire, Deadlines
<1>12. ASSUME NEW r \in Requests, Consume(r) PROVE TypeOK'
  <2>1. tq' \in [Requests -> Queue]
    BY <1>0, <1>12, PopType DEF Consume
  <2> QED
    BY <1>0, <1>12, <2>1 DEF Consume
<1>13. CASE LoopTop
  BY <1>0, <1>13 DEF LoopTop, KeepRunning
<1>14. CASE ProcessQueuePop
  BY <1>0, <1>14 DEF ProcessQueuePop, SlotFree
<1>15. CASE ProcessQueueDone
  BY <1>0, <1>15 DEF ProcessQueueDone, SlotFree
<1>16. CASE QueueTimeout
  BY <1>0, <1>16 DEF QueueTimeout, Fail
<1>17. CASE BeginPrefill
  BY <1>0, <1>17 DEF BeginPrefill
<1>18. CASE AllocateKV
  BY <1>0, <1>18 DEF AllocateKV
<1>19. CASE AllocateFails
  BY <1>0, <1>19 DEF AllocateFails, Fail
<1>20. CASE PrefillDone
  BY <1>0, <1>20 DEF PrefillDone
<1>21. CASE PrefillFails
  BY <1>0, <1>21 DEF PrefillFails, Fail, FreeResources, Freed
<1>22. CASE RoundDone
  BY <1>0, <1>22 DEF RoundDone
<1>23. ASSUME NEW r \in Requests, Visit(r) PROVE TypeOK'
  <2>1. reason \in [Requests -> FinishReason] /\ error \in [Requests -> ErrorCode]
    BY <1>0
  <2>2. /\ UNCHANGED <<running, main, spc, registry, pending, state, kvLen,
                       outLen, cancelled, expired, active, kv, tq,
                       completedCount, erroredCount, activeGauge>>
        /\ todo' = todo \ {r} /\ cur' = r
    BY <1>23 DEF Visit, Fail, Complete
  <2>3. /\ reason' \in [Requests -> FinishReason]
        /\ error' \in [Requests -> ErrorCode]
        /\ dpc' \in {"settle", "step"}
    <3> HIDE DEF TypeOK, IInv
    <3> QED
      BY <1>23, <2>1 DEF Visit, Fail, Complete
  <2> QED
    BY <1>0, <2>2, <2>3
<1>24. CASE StepCancelled
  BY <1>0, <1>24 DEF StepCancelled, Complete
<1>25. CASE StepFails
  BY <1>0, <1>25 DEF StepFails, Fail
<1>26. CASE StepToken
  BY <1>0, <1>26 DEF StepToken
<1>27. CASE EmitToken
  <2>1. tq' \in [Requests -> Queue]
    BY <1>0, <1>27, PushType DEF EmitToken, EventType
  <2> QED
    BY <1>0, <1>27, <2>1 DEF EmitToken, Complete, StopReason
<1>28. CASE Settle
  BY <1>0, <1>28 DEF Settle
<1>29. CASE Publish
  <2>1. tq' \in [Requests -> Queue]
    BY <1>0, <1>29, PushType DEF Publish, EventType
  <2> QED
    BY <1>0, <1>29, <2>1 DEF Publish
<1>30. CASE CloseQueue
  <2>1. tq' \in [Requests -> Queue]
    BY <1>0, <1>30, CloseType DEF CloseQueue
  <2> QED
    BY <1>0, <1>30, <2>1 DEF CloseQueue
<1>31. CASE Release
  BY <1>0, <1>31 DEF Release, FreeResources, Freed, Erase, Unregister
<1>32. CASE UNCHANGED vars
  BY <1>0, <1>32 DEF vars
<1> QED
  BY <1>1, <1>2, <1>3, <1>4, <1>5, <1>6, <1>7, <1>8, <1>9, <1>10, <1>11,
     <1>12, <1>13, <1>14, <1>15, <1>16, <1>17, <1>18, <1>19, <1>20, <1>21,
     <1>22, <1>23, <1>24, <1>25, <1>26, <1>27, <1>28, <1>29, <1>30, <1>31,
     <1>32 DEF Next, DecodeLoop, Submit

-----------------------------------------------------------------------------
(* The steps preserve it, one conjunct at a time.                          *)

\* Where a request can be, read off the invariant.
LEMMA Facts ==
  IInv => /\ dpc \notin {"exited", "loop", "queue", "round"} => cur \in Requests
          /\ \A r \in Requests : spc[r] # "accepted" =>
               r \notin Pending /\ r \notin active /\ r # cur
          /\ cur \notin Pending
          /\ pending # <<>> => Head(pending) \in Pending
          /\ Pending \subseteq Requests
          /\ pending' = pending => Pending' = Pending
<1> SUFFICES ASSUME IInv
             PROVE  /\ dpc \notin {"exited", "loop", "queue", "round"} => cur \in Requests
                    /\ \A r \in Requests : spc[r] # "accepted" =>
                         r \notin Pending /\ r \notin active /\ r # cur
                    /\ cur \notin Pending
                    /\ pending # <<>> => Head(pending) \in Pending
                    /\ Pending \subseteq Requests
                    /\ pending' = pending => Pending' = Pending
  OBVIOUS
<1>1. Pending = Elems(pending)
  BY DEF Pending
<1>2. Pending \subseteq Requests
  BY <1>1 DEF Elems, IInv, TypeOK
<1>3. pending # <<>> => Head(pending) \in Pending
  BY <1>1, TailElems DEF IInv, TypeOK
<1>4. dpc \notin {"exited", "loop", "queue", "round"} => cur \in Requests
  BY DEF IInv, TypeOK, StateMatchesPlace
<1>5. \A r \in Requests : spc[r] # "accepted" =>
        r \notin Pending /\ r \notin active /\ r # cur
  BY DEF IInv, HeldOnce, InHand
<1>6. cur \notin Pending
  BY <1>2, SchedulerAssumption DEF IInv, TypeOK, HeldOnce, InHand
<1> QED
  BY <1>2, <1>3, <1>4, <1>5, <1>6 DEF Pending

\* Every step keeps the caches with the active requests and the one being
\* prefilled: AllocateKV gives one, the paths that end a request take it back.
LEMMA KVStep == IInv /\ [Next]_vars => KVOwnership'
<1> SUFFICES ASSUME IInv, [Next]_vars PROVE KVOwnership'
  OBVIOUS
<1>0. /\ dpc \notin {"exited", "loop", "queue", "round"} => cur \in Requests
      /\ \A r \in Requests : spc[r] # "accepted" =>
           r \notin Pending /\ r \notin active /\ r # cur
      /\ cur \notin Pending
      /\ pending # <<>> => Head(pending) \in Pending
      /\ Pending \subseteq Requests
      /\ pending' = pending => Pending' = Pending
  BY Facts
<1> USE SchedulerAssumption
    DEF IInv, TypeOK, KVOwnership, Holding, StateMatchesPlace, IsTerminal,
        TerminalState, Finishing, submitVars,
        requestVars, decodeVars, statVars
<1>1. CASE Start
  BY <1>0, <1>1 DEF Start
<1>2. CASE StopRequest
  BY <1>0, <1>2 DEF StopRequest
<1>3. CASE StopJoined
  BY <1>0, <1>3 DEF StopJoined
<1>4. ASSUME NEW r \in Requests, SubmitCheckRunning(r) PROVE KVOwnership'
  BY <1>0, <1>4 DEF SubmitCheckRunning
<1>5. ASSUME NEW r \in Requests, AdmitQueueLength(r) PROVE KVOwnership'
  <2>1. AdmitEffect(r)
    BY <1>5, AdmitKeeps DEF IInv
  <2>2. Holding' = Holding /\ UNCHANGED <<kv, active, dpc, cur, kvLen>>
    BY <2>1 DEF AdmitEffect
  <2>3. r # cur /\ ~IsTerminal(r)
    BY <1>0, <2>1 DEF AdmitEffect
  <2>4. \A q \in Requests \ {r} : state'[q] = state[q] /\ error'[q] = error[q]
    BY <2>1 DEF AdmitEffect
  <2> HIDE DEF IInv, TypeOK, StateMatchesPlace, Holding, Finishing
  <2>5. KVOwnership
    BY DEF IInv
  <2> QED
    BY <2>2, <2>3, <2>4, <2>5
<1>6. ASSUME NEW r \in Requests, AdmitMemory(r) PROVE KVOwnership'
  <2>1. AdmitEffect(r)
    BY <1>6, AdmitKeeps DEF IInv
  <2>2. Holding' = Holding /\ UNCHANGED <<kv, active, dpc, cur, kvLen>>
    BY <2>1 DEF AdmitEffect
  <2>3. r # cur /\ ~IsTerminal(r)
    BY <1>0, <2>1 DEF AdmitEffect
  <2>4. \A q \in Requests \ {r} : state'[q] = state[q] /\ error'[q] = error[q]
    BY <2>1 DEF AdmitEffect
  <2> HIDE DEF IInv, TypeOK, StateMatchesPlace, Holding, Finishing
  <2>5. KVOwnership
    BY DEF IInv
  <2> QED
    BY <2>2, <2>3, <2>4, <2>5
<1>7. ASSUME NEW r \in Requests, Register(r) PROVE KVOwnership'
  BY <1>0, <1>7 DEF Register
<1>8. ASSUME NEW r \in Requests, Enqueue(r) PROVE KVOwnership'
  BY <1>0, <1>8 DEF Enqueue
<1>9. ASSUME NEW r \in Requests, ClientCancel(r) PROVE KVOwnership'
  BY <1>0, <1>9 DEF ClientCancel
<1>10. ASSUME NEW r \in Requests, Cancel(r) PROVE KVOwnership'
  BY <1>0, <1>10 DEF Cancel
<1>11. ASSUME NEW r \in Requests, Expire(r) PROVE KVOwnership'
  BY <1>0, <1>11 DEF Expire, Deadlines
<1>12. ASSUME NEW r \in Requests, Consume(r) PROVE KVOwnership'
  BY <1>0, <1>12 DEF Consume
<1>13. CASE LoopTop
  BY <1>0, <1>13 DEF LoopTop, KeepRunning
<1>14. CASE ProcessQueuePop
  BY <1>0, <1>14 DEF ProcessQueuePop, SlotFree
<1>15. CASE ProcessQueueDone
  BY <1>0, <1>15 DEF ProcessQueueDone, SlotFree
<1>16. CASE QueueTimeout
  <2>1. /\ Holding' = Holding /\ UNCHANGED <<kv, active, cur, kvLen, state>>
        /\ dpc \notin {"prefill", "step", "emit"} /\ dpc' = "settle"
        /\ \A q \in Requests \ {cur} : error'[q] = error[q]
    BY <1>16 DEF QueueTimeout, Fail
  <2>2. ~IsTerminal(cur) /\ state[cur] = "Queued" /\ cur \in Requests
    BY <1>0, <1>16 DEF QueueTimeout
  <2>3. kv[cur] \notin {"freed", "freedTwice"}
    BY <2>2, <1>16 DEF QueueTimeout
  <2> HIDE DEF IInv, TypeOK, StateMatchesPlace, Holding, Finishing
  <2>4. KVOwnership
    BY DEF IInv
  <2> QED
    BY <2>1, <2>3, <2>4
<1>17. CASE BeginPrefill
  BY <1>0, <1>17 DEF BeginPrefill
<1>18. CASE AllocateKV
  BY <1>0, <1>18 DEF AllocateKV
<1>19. CASE AllocateFails
  <2>1. /\ Holding' = Holding /\ UNCHANGED <<kv, active, cur, kvLen, state>>
        /\ dpc \notin {"prefill", "step", "emit"} /\ dpc' = "settle"
        /\ \A q \in Requests \ {cur} : error'[q] = error[q]
    BY <1>19 DEF AllocateFails, Fail
  <2>2. ~IsTerminal(cur) /\ state[cur] = "Prefilling" /\ cur \in Requests
    BY <1>0, <1>19 DEF AllocateFails
  <2>3. kv[cur] \notin {"freed", "freedTwice"}
    BY <2>2, <1>19 DEF AllocateFails
  <2> HIDE DEF IInv, TypeOK, StateMatchesPlace, Holding, Finishing
  <2>4. KVOwnership
    BY DEF IInv
  <2> QED
    BY <2>1, <2>3, <2>4
<1>20. CASE PrefillDone
  BY <1>0, <1>20 DEF PrefillDone
<1>21. CASE PrefillFails
  BY <1>0, <1>21 DEF PrefillFails, Fail, FreeResources, Freed
<1>22. CASE RoundDone
  BY <1>0, <1>22 DEF RoundDone
<1>23. ASSUME NEW r \in Requests, Visit(r) PROVE KVOwnership'
  BY <1>0, <1>23 DEF Visit, Fail, Complete
<1>24. CASE StepCancelled
  BY <1>0, <1>24 DEF StepCancelled, Complete
<1>25. CASE StepFails
  BY <1>0, <1>25 DEF StepFails, Fail
<1>26. CASE StepToken
  BY <1>0, <1>26 DEF StepToken
<1>27. CASE EmitToken
  BY <1>0, <1>27 DEF EmitToken, Complete, StopReason
<1>28. CASE Settle
  BY <1>0, <1>28 DEF Settle
<1>29. CASE Publish
  BY <1>0, <1>29 DEF Publish
<1>30. CASE CloseQueue
  BY <1>0, <1>30 DEF CloseQueue
<1>31. CASE Release
  BY <1>0, <1>31 DEF Release, FreeResources, Freed, Erase, Unregister
<1>32. CASE UNCHANGED vars
  BY <1>0, <1>32 DEF vars
<1> QED
  BY <1>1, <1>2, <1>3, <1>4, <1>5, <1>6, <1>7, <1>8, <1>9, <1>10, <1>11,
     <1>12, <1>13, <1>14, <1>15, <1>16, <1>17, <1>18, <1>19, <1>20, <1>21,
     <1>22, <1>23, <1>24, <1>25, <1>26, <1>27, <1>28, <1>29, <1>30, <1>31,
     <1>32 DEF Next, DecodeLoop, Submit

\* Every step keeps the tokens of a sequence within its allocation: a decode
\* step adds one only while the stop checker lets the request go on.
LEMMA LenStep == IInv /\ [Next]_vars => KVWithinAllocation'
<1> SUFFICES ASSUME IInv, [Next]_vars PROVE KVWithinAllocation'
  OBVIOUS
<1>0. /\ dpc \notin {"exited", "loop", "queue", "round"} => cur \in Requests
      /\ \A r \in Requests : spc[r] # "accepted" =>
           r \notin Pending /\ r \notin active /\ r # cur
      /\ cur \notin Pending
      /\ pending # <<>> => Head(pending) \in Pending
      /\ Pending \subseteq Requests
      /\ pending' = pending => Pending' = Pending
  BY Facts
<1> USE SchedulerAssumption
    DEF IInv, TypeOK, KVWithinAllocation, KVOwnership, Holding, StateMatchesPlace,
        Finishing, submitVars, requestVars, decodeVars, statVars
<1>1. CASE Start
  BY <1>0, <1>1 DEF Start
<1>2. CASE StopRequest
  BY <1>0, <1>2 DEF StopRequest
<1>3. CASE StopJoined
  BY <1>0, <1>3 DEF StopJoined
<1>4. ASSUME NEW r \in Requests, SubmitCheckRunning(r) PROVE KVWithinAllocation'
  BY <1>0, <1>4 DEF SubmitCheckRunning
<1>5. ASSUME NEW r \in Requests, AdmitQueueLength(r) PROVE KVWithinAllocation'
  BY <1>0, <1>5 DEF AdmitQueueLength, Reject
<1>6. ASSUME NEW r \in Requests, AdmitMemory(r) PROVE KVWithinAllocation'
  BY <1>0, <1>6 DEF AdmitMemory, Reject
<1>7. ASSUME NEW r \in Requests, Register(r) PROVE KVWithinAllocation'
  BY <1>0, <1>7 DEF Register
<1>8. ASSUME NEW r \in Requests, Enqueue(r) PROVE KVWithinAllocation'
  BY <1>0, <1>8 DEF Enqueue
<1>9. ASSUME NEW r \in Requests, ClientCancel(r) PROVE KVWithinAllocation'
  BY <1>0, <1>9 DEF ClientCancel
<1>10. ASSUME NEW r \in Requests, Cancel(r) PROVE KVWithinAllocation'
  BY <1>0, <1>10 DEF Cancel
<1>11. ASSUME NEW r \in Requests, Expire(r) PROVE KVWithinAllocation'
  BY <1>0, <1>11 DEF Expire, Deadlines
<1>12. ASSUME NEW r \in Requests, Consume(r) PROVE KVWithinAllocation'
  BY <1>0, <1>12 DEF Consume
<1>13. CASE LoopTop
  BY <1>0, <1>13 DEF LoopTop, KeepRunning
<1>14. CASE ProcessQueuePop
  BY <1>0, <1>14 DEF ProcessQueuePop, SlotFree
<1>15. CASE ProcessQueueDone
  BY <1>0, <1>15 DEF ProcessQueueDone, SlotFree
<1>16. CASE QueueTimeout
  BY <1>0, <1>16 DEF QueueTimeout, Fail
<1>17. CASE BeginPrefill
  BY <1>0, <1>17 DEF BeginPrefill
<1>18. CASE AllocateKV
  BY <1>0, <1>18 DEF AllocateKV
<1>19. CASE AllocateFails
  BY <1>0, <1>19 DEF AllocateFails, Fail
<1>20. CASE PrefillDone
  BY <1>0, <1>20 DEF PrefillDone
<1>21. CASE PrefillFails
  BY <1>0, <1>21 DEF PrefillFails, Fail, FreeResources, Freed
<1>22. CASE RoundDone
  BY <1>0, <1>22 DEF RoundDone
<1>23. ASSUME NEW r \in Requests, Visit(r) PROVE KVWithinAllocation'
  BY <1>0, <1>23 DEF Visit, Fail, Complete
<1>24. CASE StepCancelled
  BY <1>0, <1>24 DEF StepCancelled, Complete
<1>25. CASE StepFails
  BY <1>0, <1>25 DEF StepFails, Fail
<1>26. CASE StepToken
  <2>1. outLen[cur] < MaxTokens /\ kvLen[cur] = InputLen + outLen[cur]
    BY <1>26 DEF StepToken
  <2>2. ASSUME NEW r \in Requests, r # cur
        PROVE  kvLen'[r] = kvLen[r] /\ outLen'[r] = outLen[r]
    BY <1>26, <2>2 DEF StepToken
  <2>3. kvLen'[cur] = kvLen[cur] + 1 /\ outLen'[cur] = outLen[cur] + 1
    BY <1>0, <1>26 DEF StepToken
  <2> QED
    BY <1>0, <1>26, <2>1, <2>2, <2>3 DEF StepToken
<1>27. CASE EmitToken
  BY <1>0, <1>27 DEF EmitToken, Complete, StopReason
<1>28. CASE Settle
  BY <1>0, <1>28 DEF Settle
<1>29. CASE Publish
  BY <1>0, <1>29 DEF Publish
<1>30. CASE CloseQueue
  BY <1>0, <1>30 DEF CloseQueue
<1>31. CASE Release
  BY <1>0, <1>31 DEF Release, FreeResources, Freed, Erase, Unregister
<1>32. CASE UNCHANGED vars
  BY <1>0, <1>32 DEF vars
<1> QED
  BY <1>1, <1>2, <1>3, <1>4, <1>5, <1>6, <1>7, <1>8, <1>9, <1>10, <1>11,
     <1>12, <1>13, <1>14, <1>15, <1>16, <1>17, <1>18, <1>19, <1>20, <1>21,
     <1>22, <1>23, <1>24, <1>25, <1>26, <1>27, <1>28, <1>29, <1>30, <1>31,
     <1>32 DEF Next, DecodeLoop, Submit

\* Every step keeps the registry: submit registers what it accepts, and every
\* path that ends a request removes it.
LEMMA RegistryStep == IInv /\ [Next]_vars => RegistryExact'
<1> SUFFICES ASSUME IInv, [Next]_vars PROVE RegistryExact'
  OBVIOUS
<1>0. /\ dpc \notin {"exited", "loop", "queue", "round"} => cur \in Requests
      /\ \A r \in Requests : spc[r] # "accepted" =>
           r \notin Pending /\ r \notin active /\ r # cur
      /\ cur \notin Pending
      /\ pending # <<>> => Head(pending) \in Pending
      /\ Pending \subseteq Requests
      /\ pending' = pending => Pending' = Pending
  BY Facts
<1> USE SchedulerAssumption
    DEF IInv, TypeOK, RegistryExact, HeldOnce, StateMatchesPlace,
        IsTerminal, TerminalState, Finishing, submitVars, requestVars,
        decodeVars, statVars
<1>1. CASE Start
  BY <1>0, <1>1 DEF Start
<1>2. CASE StopRequest
  BY <1>0, <1>2 DEF StopRequest
<1>3. CASE StopJoined
  BY <1>0, <1>3 DEF StopJoined
<1>4. ASSUME NEW r \in Requests, SubmitCheckRunning(r) PROVE RegistryExact'
  BY <1>0, <1>4 DEF SubmitCheckRunning
<1>5. ASSUME NEW r \in Requests, AdmitQueueLength(r) PROVE RegistryExact'
  <2>1. AdmitEffect(r)
    BY <1>5, AdmitKeeps DEF IInv
  <2> QED
    BY <1>0, <2>1 DEF AdmitEffect
<1>6. ASSUME NEW r \in Requests, AdmitMemory(r) PROVE RegistryExact'
  <2>1. AdmitEffect(r)
    BY <1>6, AdmitKeeps DEF IInv
  <2> QED
    BY <1>0, <2>1 DEF AdmitEffect
<1>7. ASSUME NEW r \in Requests, Register(r) PROVE RegistryExact'
  BY <1>0, <1>7 DEF Register
<1>8. ASSUME NEW r \in Requests, Enqueue(r) PROVE RegistryExact'
  BY <1>0, <1>8 DEF Enqueue
<1>9. ASSUME NEW r \in Requests, ClientCancel(r) PROVE RegistryExact'
  BY <1>0, <1>9 DEF ClientCancel
<1>10. ASSUME NEW r \in Requests, Cancel(r) PROVE RegistryExact'
  BY <1>0, <1>10 DEF Cancel
<1>11. ASSUME NEW r \in Requests, Expire(r) PROVE RegistryExact'
  BY <1>0, <1>11 DEF Expire, Deadlines
<1>12. ASSUME NEW r \in Requests, Consume(r) PROVE RegistryExact'
  BY <1>0, <1>12 DEF Consume
<1>13. CASE LoopTop
  BY <1>0, <1>13 DEF LoopTop, KeepRunning
<1>14. CASE ProcessQueuePop
  BY <1>0, <1>14 DEF ProcessQueuePop, SlotFree
<1>15. CASE ProcessQueueDone
  BY <1>0, <1>15 DEF ProcessQueueDone, SlotFree
<1>16. CASE QueueTimeout
  BY <1>0, <1>16 DEF QueueTimeout, Fail
<1>17. CASE BeginPrefill
  BY <1>0, <1>17 DEF BeginPrefill
<1>18. CASE AllocateKV
  BY <1>0, <1>18 DEF AllocateKV
<1>19. CASE AllocateFails
  BY <1>0, <1>19 DEF AllocateFails, Fail
<1>20. CASE PrefillDone
  BY <1>0, <1>20 DEF PrefillDone
<1>21. CASE PrefillFails
  BY <1>0, <1>21 DEF PrefillFails, Fail, FreeResources, Freed
<1>22. CASE RoundDone
  BY <1>0, <1>22 DEF RoundDone
<1>23. ASSUME NEW r \in Requests, Visit(r) PROVE RegistryExact'
  BY <1>0, <1>23 DEF Visit, Fail, Complete
<1>24. CASE StepCancelled
  BY <1>0, <1>24 DEF StepCancelled, Complete
<1>25. CASE StepFails
  BY <1>0, <1>25 DEF StepFails, Fail
<1>26. CASE StepToken
  BY <1>0, <1>26 DEF StepToken
<1>27. CASE EmitToken
  BY <1>0, <1>27 DEF EmitToken, Complete, StopReason
<1>28. CASE Settle
  BY <1>0, <1>28 DEF Settle
<1>29. CASE Publish
  BY <1>0, <1>29 DEF Publish
<1>30. CASE CloseQueue
  BY <1>0, <1>30 DEF CloseQueue
<1>31. CASE Release
  BY <1>0, <1>31 DEF Release, FreeResources, Freed, Erase, Unregister
<1>32. CASE UNCHANGED vars
  BY <1>0, <1>32 DEF vars
<1> QED
  BY <1>1, <1>2, <1>3, <1>4, <1>5, <1>6, <1>7, <1>8, <1>9, <1>10, <1>11,
     <1>12, <1>13, <1>14, <1>15, <1>16, <1>17, <1>18, <1>19, <1>20, <1>21,
     <1>22, <1>23, <1>24, <1>25, <1>26, <1>27, <1>28, <1>29, <1>30, <1>31,
     <1>32 DEF Next, DecodeLoop, Submit

\* Every step keeps states and places in agreement: a request changes its
\* state when it moves between the queue, process_queue and the active list.
LEMMA PlaceStep == IInv /\ [Next]_vars => StateMatchesPlace'
<1> SUFFICES ASSUME IInv, [Next]_vars PROVE StateMatchesPlace'
  OBVIOUS
<1>0. /\ dpc \notin {"exited", "loop", "queue", "round"} => cur \in Requests
      /\ \A r \in Requests : spc[r] # "accepted" =>
           r \notin Pending /\ r \notin active /\ r # cur
      /\ cur \notin Pending
      /\ pending # <<>> => Head(pending) \in Pending
      /\ Pending \subseteq Requests
      /\ pending' = pending => Pending' = Pending
  BY Facts
<1> USE SchedulerAssumption
    DEF IInv, TypeOK, HeldOnce, StateMatchesPlace, IsTerminal, TerminalState,
        Finishing, submitVars, requestVars, decodeVars, statVars
<1>1. CASE Start
  BY <1>0, <1>1 DEF Start
<1>2. CASE StopRequest
  BY <1>0, <1>2 DEF StopRequest
<1>3. CASE StopJoined
  BY <1>0, <1>3 DEF StopJoined
<1>4. ASSUME NEW r \in Requests, SubmitCheckRunning(r) PROVE StateMatchesPlace'
  BY <1>0, <1>4 DEF SubmitCheckRunning
<1>5. ASSUME NEW r \in Requests, AdmitQueueLength(r) PROVE StateMatchesPlace'
  <2>1. AdmitEffect(r)
    BY <1>5, AdmitKeeps DEF IInv
  <2> QED
    BY <1>0, <2>1 DEF AdmitEffect
<1>6. ASSUME NEW r \in Requests, AdmitMemory(r) PROVE StateMatchesPlace'
  <2>1. AdmitEffect(r)
    BY <1>6, AdmitKeeps DEF IInv
  <2> QED
    BY <1>0, <2>1 DEF AdmitEffect
<1>7. ASSUME NEW r \in Requests, Register(r) PROVE StateMatchesPlace'
  BY <1>0, <1>7 DEF Register
<1>8. ASSUME NEW r \in Requests, Enqueue(r) PROVE StateMatchesPlace'
  <2>1. Pending' = Pending \cup {r}
    BY <1>8, AppendElems DEF Enqueue, Pending
  <2> QED
    BY <1>0, <1>8, <2>1 DEF Enqueue
<1>9. ASSUME NEW r \in Requests, ClientCancel(r) PROVE StateMatchesPlace'
  BY <1>0, <1>9 DEF ClientCancel
<1>10. ASSUME NEW r \in Requests, Cancel(r) PROVE StateMatchesPlace'
  BY <1>0, <1>10 DEF Cancel
<1>11. ASSUME NEW r \in Requests, Expire(r) PROVE StateMatchesPlace'
  BY <1>0, <1>11 DEF Expire, Deadlines
<1>12. ASSUME NEW r \in Requests, Consume(r) PROVE StateMatchesPlace'
  BY <1>0, <1>12 DEF Consume
<1>13. CASE LoopTop
  BY <1>0, <1>13 DEF LoopTop, KeepRunning
<1>14. CASE ProcessQueuePop
  <2>1. Pending' \subseteq Pending
    BY <1>14, TailElems DEF ProcessQueuePop, Pending
  <2>2. cur' \in Pending /\ cur' \notin active
    BY <1>0, <1>14 DEF ProcessQueuePop
  <2> QED
    BY <1>0, <1>14, <2>1, <2>2 DEF ProcessQueuePop
<1>15. CASE ProcessQueueDone
  BY <1>0, <1>15 DEF ProcessQueueDone, SlotFree
<1>16. CASE QueueTimeout
  BY <1>0, <1>16 DEF QueueTimeout, Fail
<1>17. CASE BeginPrefill
  BY <1>0, <1>17 DEF BeginPrefill
<1>18. CASE AllocateKV
  BY <1>0, <1>18 DEF AllocateKV
<1>19. CASE AllocateFails
  BY <1>0, <1>19 DEF AllocateFails, Fail
<1>20. CASE PrefillDone
  BY <1>0, <1>20 DEF PrefillDone
<1>21. CASE PrefillFails
  BY <1>0, <1>21 DEF PrefillFails, Fail, FreeResources, Freed
<1>22. CASE RoundDone
  BY <1>0, <1>22 DEF RoundDone
<1>23. ASSUME NEW r \in Requests, Visit(r) PROVE StateMatchesPlace'
  BY <1>0, <1>23 DEF Visit, Fail, Complete
<1>24. CASE StepCancelled
  BY <1>0, <1>24 DEF StepCancelled, Complete
<1>25. CASE StepFails
  BY <1>0, <1>25 DEF StepFails, Fail
<1>26. CASE StepToken
  BY <1>0, <1>26 DEF StepToken
<1>27. CASE EmitToken
  BY <1>0, <1>27 DEF EmitToken, Complete, StopReason
<1>28. CASE Settle
  BY <1>0, <1>28 DEF Settle
<1>29. CASE Publish
  BY <1>0, <1>29 DEF Publish
<1>30. CASE CloseQueue
  BY <1>0, <1>30 DEF CloseQueue
<1>31. CASE Release
  BY <1>0, <1>31 DEF Release, FreeResources, Freed, Erase, Unregister
<1>32. CASE UNCHANGED vars
  BY <1>0, <1>32 DEF vars
<1> QED
  BY <1>1, <1>2, <1>3, <1>4, <1>5, <1>6, <1>7, <1>8, <1>9, <1>10, <1>11,
     <1>12, <1>13, <1>14, <1>15, <1>16, <1>17, <1>18, <1>19, <1>20, <1>21,
     <1>22, <1>23, <1>24, <1>25, <1>26, <1>27, <1>28, <1>29, <1>30, <1>31,
     <1>32 DEF Next, DecodeLoop, Submit

\* Every step hands a request on from one holder to the next, so that the
\* queue, process_queue and the active list never hold it twice or lose it.
LEMMA HeldStep == IInv /\ [Next]_vars => HeldOnce'
<1> SUFFICES ASSUME IInv, [Next]_vars PROVE HeldOnce'
  OBVIOUS
<1>0. /\ dpc \notin {"exited", "loop", "queue", "round"} => cur \in Requests
      /\ \A r \in Requests : spc[r] # "accepted" =>
           r \notin Pending /\ r \notin active /\ r # cur
      /\ cur \notin Pending
      /\ pending # <<>> => Head(pending) \in Pending
      /\ Pending \subseteq Requests
      /\ pending' = pending => Pending' = Pending
  BY Facts
<1> USE SchedulerAssumption
    DEF IInv, TypeOK, HeldOnce, StateMatchesPlace, IsTerminal, TerminalState,
        InHand, Finishing, submitVars, requestVars, decodeVars,
        statVars
<1>1. CASE Start
  BY <1>0, <1>1 DEF Start
<1>2. CASE StopRequest
  BY <1>0, <1>2 DEF StopRequest
<1>3. CASE StopJoined
  BY <1>0, <1>3 DEF StopJoined
<1>4. ASSUME NEW r \in Requests, SubmitCheckRunning(r) PROVE HeldOnce'
  BY <1>0, <1>4 DEF SubmitCheckRunning
<1>5. ASSUME NEW r \in Requests, AdmitQueueLength(r) PROVE HeldOnce'
  <2>1. AdmitEffect(r)
    BY <1>5, AdmitKeeps DEF IInv
  <2>2. /\ spc[r] # "accepted" /\ spc'[r] # "accepted"
        /\ \A q \in Requests \ {r} : spc'[q] = spc[q] /\ state'[q] = state[q]
        /\ UNCHANGED <<pending, active, cur>>
    BY <2>1 DEF AdmitEffect
  <2>3. Pending' = Pending /\ InHand' = InHand
    BY <1>0, <2>2
  <2>4. {q \in Requests : spc[q] = "accepted" /\ (IsTerminal(q) => q = cur)}'
          = {q \in Requests : spc[q] = "accepted" /\ (IsTerminal(q) => q = cur)}
    BY <2>2
  <2> HIDE DEF IInv, TypeOK, StateMatchesPlace, InHand, IsTerminal
  <2>5. HeldOnce
    BY DEF IInv
  <2> QED
    BY <2>2, <2>3, <2>4, <2>5
<1>6. ASSUME NEW r \in Requests, AdmitMemory(r) PROVE HeldOnce'
  <2>1. AdmitEffect(r)
    BY <1>6, AdmitKeeps DEF IInv
  <2>2. /\ spc[r] # "accepted" /\ spc'[r] # "accepted"
        /\ \A q \in Requests \ {r} : spc'[q] = spc[q] /\ state'[q] = state[q]
        /\ UNCHANGED <<pending, active, cur>>
    BY <2>1 DEF AdmitEffect
  <2>3. Pending' = Pending /\ InHand' = InHand
    BY <1>0, <2>2
  <2>4. {q \in Requests : spc[q] = "accepted" /\ (IsTerminal(q) => q = cur)}'
          = {q \in Requests : spc[q] = "accepted" /\ (IsTerminal(q) => q = cur)}
    BY <2>2
  <2> HIDE DEF IInv, TypeOK, StateMatchesPlace, InHand, IsTerminal
  <2>5. HeldOnce
    BY DEF IInv
  <2> QED
    BY <2>2, <2>3, <2>4, <2>5
<1>7. ASSUME NEW r \in Requests, Register(r) PROVE HeldOnce'
  BY <1>0, <1>7 DEF Register
<1>8. ASSUME NEW r \in Requests, Enqueue(r) PROVE HeldOnce'
  <2>1. /\ Pending' = Pending \cup {r}
        /\ NoRepeat(pending')
    BY <1>0, <1>8, AppendElems DEF Enqueue, Pending
  <2>2. ~IsTerminal(r) /\ ~IsTerminal(r)'
    BY <1>8 DEF Enqueue
  <2> QED
    BY <1>0, <1>8, <2>1, <2>2 DEF Enqueue
<1>9. ASSUME NEW r \in Requests, ClientCancel(r) PROVE HeldOnce'
  BY <1>0, <1>9 DEF ClientCancel
<1>10. ASSUME NEW r \in Requests, Cancel(r) PROVE HeldOnce'
  BY <1>0, <1>10 DEF Cancel
<1>11. ASSUME NEW r \in Requests, Expire(r) PROVE HeldOnce'
  BY <1>0, <1>11 DEF Expire, Deadlines
<1>12. ASSUME NEW r \in Requests, Consume(r) PROVE HeldOnce'
  BY <1>0, <1>12 DEF Consume
<1>13. CASE LoopTop
  BY <1>0, <1>13 DEF LoopTop, KeepRunning
<1>14. CASE ProcessQueuePop
  <2>1. /\ Pending = Pending' \cup {cur'} /\ cur' \notin Pending'
        /\ NoRepeat(pending')
    BY <1>14, TailElems DEF ProcessQueuePop, Pending
  <2>2. cur' \in Requests \ active /\ ~IsTerminal(cur')
    BY <1>0, <2>1
  <2> QED
    BY <1>0, <1>14, <2>1, <2>2 DEF ProcessQueuePop
<1>15. CASE ProcessQueueDone
  BY <1>0, <1>15 DEF ProcessQueueDone, SlotFree
<1>16. CASE QueueTimeout
  BY <1>0, <1>16 DEF QueueTimeout, Fail
<1>17. CASE BeginPrefill
  BY <1>0, <1>17 DEF BeginPrefill
<1>18. CASE AllocateKV
  BY <1>0, <1>18 DEF AllocateKV
<1>19. CASE AllocateFails
  BY <1>0, <1>19 DEF AllocateFails, Fail
<1>20. CASE PrefillDone
  BY <1>0, <1>20 DEF PrefillDone
<1>21. CASE PrefillFails
  BY <1>0, <1>21 DEF PrefillFails, Fail, FreeResources, Freed
<1>22. CASE RoundDone
  BY <1>0, <1>22 DEF RoundDone
<1>23. ASSUME NEW r \in Requests, Visit(r) PROVE HeldOnce'
  BY <1>0, <1>23 DEF Visit, Fail, Complete
<1>24. CASE StepCancelled
  BY <1>0, <1>24 DEF StepCancelled, Complete
<1>25. CASE StepFails
  BY <1>0, <1>25 DEF StepFails, Fail
<1>26. CASE StepToken
  BY <1>0, <1>26 DEF StepToken
<1>27. CASE EmitToken
  BY <1>0, <1>27 DEF EmitToken, Complete, StopReason
<1>28. CASE Settle
  BY <1>0, <1>28 DEF Settle
<1>29. CASE Publish
  BY <1>0, <1>29 DEF Publish
<1>30. CASE CloseQueue
  BY <1>0, <1>30 DEF CloseQueue
<1>31. CASE Release
  BY <1>0, <1>31 DEF Release, FreeResources, Freed, Erase, Unregister
<1>32. CASE UNCHANGED vars
  BY <1>0, <1>32 DEF vars
<1> QED
  BY <1>1, <1>2, <1>3, <1>4, <1>5, <1>6, <1>7, <1>8, <1>9, <1>10, <1>11,
     <1>12, <1>13, <1>14, <1>15, <1>16, <1>17, <1>18, <1>19, <1>20, <1>21,
     <1>22, <1>23, <1>24, <1>25, <1>26, <1>27, <1>28, <1>29, <1>30, <1>31,
     <1>32 DEF Next, DecodeLoop, Submit

-----------------------------------------------------------------------------
(* Results are final.                                                      *)

\* No step touches the result of a request whose state is terminal.
KeepsResults ==
  \A r \in Requests :
    IsTerminal(r) /\ spc[r] = "accepted" =>
      /\ state'[r] = state[r] /\ reason'[r] = reason[r]
      /\ error'[r] = error[r] /\ outLen'[r] = outLen[r]

\* No step writes to the result of a request that is already terminal.
LEMMA ResultStep == IInv /\ [Next]_vars => KeepsResults
<1> SUFFICES ASSUME IInv, [Next]_vars PROVE KeepsResults
  OBVIOUS
<1>0. /\ dpc \notin {"exited", "loop", "queue", "round"} => cur \in Requests
      /\ \A r \in todo : r \in active /\ ~IsTerminal(r)
      /\ dpc \in {"popped", "alloc", "prefill", "step", "emit", "settle"} =>
           ~IsTerminal(cur)
  BY Facts DEF IInv, TypeOK, StateMatchesPlace, IsTerminal, TerminalState,
     Finishing
<1> USE DEF IInv, TypeOK, KeepsResults, submitVars, requestVars, decodeVars,
        statVars
<1>1. CASE Start
  BY <1>0, <1>1 DEF Start
<1>2. CASE StopRequest
  BY <1>0, <1>2 DEF StopRequest
<1>3. CASE StopJoined
  BY <1>0, <1>3 DEF StopJoined
<1>4. ASSUME NEW r \in Requests, SubmitCheckRunning(r) PROVE KeepsResults
  BY <1>0, <1>4 DEF SubmitCheckRunning
<1>5. ASSUME NEW r \in Requests, AdmitQueueLength(r) PROVE KeepsResults
  BY <1>0, <1>5 DEF AdmitQueueLength, Reject
<1>6. ASSUME NEW r \in Requests, AdmitMemory(r) PROVE KeepsResults
  BY <1>0, <1>6 DEF AdmitMemory, Reject
<1>7. ASSUME NEW r \in Requests, Register(r) PROVE KeepsResults
  BY <1>0, <1>7 DEF Register
<1>8. ASSUME NEW r \in Requests, Enqueue(r) PROVE KeepsResults
  BY <1>0, <1>8 DEF Enqueue
<1>9. ASSUME NEW r \in Requests, ClientCancel(r) PROVE KeepsResults
  BY <1>0, <1>9 DEF ClientCancel
<1>10. ASSUME NEW r \in Requests, Cancel(r) PROVE KeepsResults
  BY <1>0, <1>10 DEF Cancel
<1>11. ASSUME NEW r \in Requests, Expire(r) PROVE KeepsResults
  BY <1>0, <1>11 DEF Expire, Deadlines
<1>12. ASSUME NEW r \in Requests, Consume(r) PROVE KeepsResults
  BY <1>0, <1>12 DEF Consume
<1>13. CASE LoopTop
  BY <1>0, <1>13 DEF LoopTop, KeepRunning
<1>14. CASE ProcessQueuePop
  BY <1>0, <1>14 DEF ProcessQueuePop, SlotFree
<1>15. CASE ProcessQueueDone
  BY <1>0, <1>15 DEF ProcessQueueDone, SlotFree
<1>16. CASE QueueTimeout
  BY <1>0, <1>16 DEF QueueTimeout, Fail
<1>17. CASE BeginPrefill
  BY <1>0, <1>17 DEF BeginPrefill
<1>18. CASE AllocateKV
  BY <1>0, <1>18 DEF AllocateKV
<1>19. CASE AllocateFails
  BY <1>0, <1>19 DEF AllocateFails, Fail
<1>20. CASE PrefillDone
  BY <1>0, <1>20 DEF PrefillDone
<1>21. CASE PrefillFails
  BY <1>0, <1>21 DEF PrefillFails, Fail, FreeResources, Freed
<1>22. CASE RoundDone
  BY <1>0, <1>22 DEF RoundDone
<1>23. ASSUME NEW r \in Requests, Visit(r) PROVE KeepsResults
  BY <1>0, <1>23 DEF Visit, Fail, Complete
<1>24. CASE StepCancelled
  BY <1>0, <1>24 DEF StepCancelled, Complete
<1>25. CASE StepFails
  BY <1>0, <1>25 DEF StepFails, Fail
<1>26. CASE StepToken
  BY <1>0, <1>26 DEF StepToken
<1>27. CASE EmitToken
  BY <1>0, <1>27 DEF EmitToken, Complete, StopReason
<1>28. CASE Settle
  BY <1>0, <1>28 DEF Settle
<1>29. CASE Publish
  BY <1>0, <1>29 DEF Publish
<1>30. CASE CloseQueue
  BY <1>0, <1>30 DEF CloseQueue
<1>31. CASE Release
  BY <1>0, <1>31 DEF Release, FreeResources, Freed, Erase, Unregister
<1>32. CASE UNCHANGED vars
  BY <1>0, <1>32 DEF vars
<1> QED
  BY <1>1, <1>2, <1>3, <1>4, <1>5, <1>6, <1>7, <1>8, <1>9, <1>10, <1>11,
     <1>12, <1>13, <1>14, <1>15, <1>16, <1>17, <1>18, <1>19, <1>20, <1>21,
     <1>22, <1>23, <1>24, <1>25, <1>26, <1>27, <1>28, <1>29, <1>30, <1>31,
     <1>32 DEF Next, DecodeLoop, Submit

-----------------------------------------------------------------------------
(* The bound on the active requests.                                       *)

\* The requests that hold or are about to hold a KV cache.
Occupied == active \cup InHand

\* ActiveBound with the finiteness that makes it inductive.
BoundInv == IsFiniteSet(Occupied) /\ Cardinality(Occupied) <= MaxActive

\* Only process_queue's pop takes a further request in hand.
LEMMA OccupiedStep ==
  IInv /\ [Next]_vars => Occupied' \subseteq Occupied \/ ProcessQueuePop
<1> SUFFICES ASSUME IInv, [Next]_vars, ~ProcessQueuePop
             PROVE  Occupied' \subseteq Occupied
  OBVIOUS
<1>0. /\ dpc \notin {"exited", "loop", "queue", "round"} => cur \in Requests
      /\ todo \subseteq active
  BY Facts DEF IInv, TypeOK, StateMatchesPlace
<1> USE SchedulerAssumption
    DEF IInv, TypeOK, Occupied, InHand, submitVars, requestVars, decodeVars,
        statVars
<1>1. CASE Start
  BY <1>0, <1>1 DEF Start
<1>2. CASE StopRequest
  BY <1>0, <1>2 DEF StopRequest
<1>3. CASE StopJoined
  BY <1>0, <1>3 DEF StopJoined
<1>4. ASSUME NEW r \in Requests, SubmitCheckRunning(r) PROVE Occupied' \subseteq Occupied
  BY <1>0, <1>4 DEF SubmitCheckRunning
<1>5. ASSUME NEW r \in Requests, AdmitQueueLength(r) PROVE Occupied' \subseteq Occupied
  BY <1>0, <1>5 DEF AdmitQueueLength, Reject
<1>6. ASSUME NEW r \in Requests, AdmitMemory(r) PROVE Occupied' \subseteq Occupied
  BY <1>0, <1>6 DEF AdmitMemory, Reject
<1>7. ASSUME NEW r \in Requests, Register(r) PROVE Occupied' \subseteq Occupied
  BY <1>0, <1>7 DEF Register
<1>8. ASSUME NEW r \in Requests, Enqueue(r) PROVE Occupied' \subseteq Occupied
  BY <1>0, <1>8 DEF Enqueue
<1>9. ASSUME NEW r \in Requests, ClientCancel(r) PROVE Occupied' \subseteq Occupied
  BY <1>0, <1>9 DEF ClientCancel
<1>10. ASSUME NEW r \in Requests, Cancel(r) PROVE Occupied' \subseteq Occupied
  BY <1>0, <1>10 DEF Cancel
<1>11. ASSUME NEW r \in Requests, Expire(r) PROVE Occupied' \subseteq Occupied
  BY <1>0, <1>11 DEF Expire, Deadlines
<1>12. ASSUME NEW r \in Requests, Consume(r) PROVE Occupied' \subseteq Occupied
  BY <1>0, <1>12 DEF Consume
<1>13. CASE LoopTop
  BY <1>0, <1>13 DEF LoopTop, KeepRunning
<1>14. CASE ProcessQueuePop
  BY <1>14
<1>15. CASE ProcessQueueDone
  BY <1>0, <1>15 DEF ProcessQueueDone, SlotFree
<1>16. CASE QueueTimeout
  BY <1>0, <1>16 DEF QueueTimeout, Fail
<1>17. CASE BeginPrefill
  BY <1>0, <1>17 DEF BeginPrefill
<1>18. CASE AllocateKV
  BY <1>0, <1>18 DEF AllocateKV
<1>19. CASE AllocateFails
  BY <1>0, <1>19 DEF AllocateFails, Fail
<1>20. CASE PrefillDone
  BY <1>0, <1>20 DEF PrefillDone
<1>21. CASE PrefillFails
  BY <1>0, <1>21 DEF PrefillFails, Fail, FreeResources, Freed
<1>22. CASE RoundDone
  BY <1>0, <1>22 DEF RoundDone
<1>23. ASSUME NEW r \in Requests, Visit(r) PROVE Occupied' \subseteq Occupied
  BY <1>0, <1>23 DEF Visit, Fail, Complete
<1>24. CASE StepCancelled
  BY <1>0, <1>24 DEF StepCancelled, Complete
<1>25. CASE StepFails
  BY <1>0, <1>25 DEF StepFails, Fail
<1>26. CASE StepToken
  BY <1>0, <1>26 DEF StepToken
<1>27. CASE EmitToken
  BY <1>0, <1>27 DEF EmitToken, Complete, StopReason
<1>28. CASE Settle
  BY <1>0, <1>28 DEF Settle
<1>29. CASE Publish
  BY <1>0, <1>29 DEF Publish
<1>30. CASE CloseQueue
  BY <1>0, <1>30 DEF CloseQueue
<1>31. CASE Release
  BY <1>0, <1>31 DEF Release, FreeResources, Freed, Erase, Unregister
<1>32. CASE UNCHANGED vars
  BY <1>0, <1>32 DEF vars
<1> QED
  BY <1>1, <1>2, <1>3, <1>4, <1>5, <1>6, <1>7, <1>8, <1>9, <1>10, <1>11,
     <1>12, <1>13, <1>14, <1>15, <1>16, <1>17, <1>18, <1>19, <1>20, <1>21,
     <1>22, <1>23, <1>24, <1>25, <1>26, <1>27, <1>28, <1>29, <1>30, <1>31,
     <1>32 DEF Next, DecodeLoop, Submit

\* Every step keeps the bound on occupied slots, as the pop that takes a
\* further one is guarded by SlotFree.
LEMMA BoundStep == IInv /\ BoundInv /\ [Next]_vars => BoundInv'
<1> SUFFICES ASSUME IInv, BoundInv, [Next]_vars PROVE BoundInv'
  OBVIOUS
<1>1. CASE Occupied' \subseteq Occupied
  BY <1>1, FS_Subset, FS_CardinalityType, SchedulerAssumption DEF BoundInv
<1>2. CASE ProcessQueuePop
  <2>1. Occupied' = active \cup {Head(pending)} /\ Occupied = active
    BY <1>2, Facts, SchedulerAssumption
    DEF ProcessQueuePop, Occupied, InHand, IInv, TypeOK, StateMatchesPlace
  <2>2. Cardinality(active) < MaxActive /\ IsFiniteSet(active)
    BY <1>2, <2>1 DEF ProcessQueuePop, SlotFree, BoundInv
  <2>3. Cardinality(active) \in Nat
    BY <2>2, FS_CardinalityType
  <2>4. /\ IsFiniteSet(active \cup {Head(pending)})
        /\ Cardinality(active \cup {Head(pending)}) <= Cardinality(active) + 1
    BY <2>2, <2>3, FS_AddElement
  <2>5. Cardinality(active \cup {Head(pending)}) \in Nat
    BY <2>4, FS_CardinalityType
  <2> QED
    BY <2>1, <2>2, <2>3, <2>4, <2>5, SchedulerAssumption DEF BoundInv
<1> QED
  BY <1>1, <1>2, OccupiedStep

-----------------------------------------------------------------------------
(* The theorems.                                                           *)

\* A scheduler just constructed, with nothing queued or active, satisfies the
\* inductive invariant.
LEMMA InitIInv == Init => IInv
<1> SUFFICES ASSUME Init PROVE IInv
  OBVIOUS
<1> USE SchedulerAssumption DEF Init
<1>1. NewQueue \in Queue
  BY DEF NewQueue, Queue
<1>2. TypeOK
  <2>1. tq \in [Requests -> Queue] /\ pending \in Seq(Requests)
    BY <1>1
  <2>2. /\ kvLen \in [Requests -> 0 .. InputLen + MaxTokens]
        /\ outLen \in [Requests -> 0 .. MaxTokens]
    OBVIOUS
  <2>3. expired \in [Requests -> SUBSET Timeouts]
    OBVIOUS
  <2>4. state \in [Requests -> RequestState]
    BY DEF RequestState
  <2>5. /\ spc \in [Requests -> {"received", "admitting", "fits", "admitted",
                                "registered", "accepted", "refused"}]
        /\ reason \in [Requests -> FinishReason]
        /\ error \in [Requests -> ErrorCode]
    BY DEF FinishReason, ErrorCode
  <2>6. /\ running \in BOOLEAN
        /\ main \in {"init", "up", "joining", "down"}
        /\ dpc \in {"exited", "loop", "queue", "popped", "alloc", "prefill",
                    "round", "step", "emit", "settle", "publish", "close",
                    "free"}
    OBVIOUS
  <2>7. /\ cancelled \subseteq Requests /\ registry \subseteq Requests
        /\ active \subseteq Requests
        /\ kv \in [Requests -> {"none", "held", "freed", "freedTwice"}]
        /\ todo \subseteq Requests /\ cur \in Requests \cup {NoRequest}
    OBVIOUS
  <2>8. completedCount \in Nat /\ erroredCount \in Nat /\ activeGauge \in Int
    OBVIOUS
  <2> HIDE DEF Init
  <2> QED
    BY <2>1, <2>2, <2>3, <2>4, <2>5, <2>6, <2>7, <2>8 DEF TypeOK
<1>3. Pending = {} /\ NoRepeat(pending)
  BY DEF Pending, Elems, NoRepeat
<1>4. StateMatchesPlace /\ HeldOnce
  BY <1>3 DEF StateMatchesPlace, HeldOnce, InHand, Finishing, IsTerminal
<1>5. KVOwnership /\ KVWithinAllocation /\ RegistryExact
  BY DEF KVOwnership, Holding, KVWithinAllocation, RegistryExact
<1> QED
  BY <1>2, <1>4, <1>5 DEF IInv

\* Every step of the scheduler preserves the inductive invariant.
LEMMA IInvStep == IInv /\ [Next]_vars => IInv'
  BY TypeStep, PlaceStep, HeldStep, KVStep, LenStep, RegistryStep DEF IInv

\* The inductive invariant holds in every reachable state.
LEMMA Invariance == Safety => []IInv
  BY InitIInv, IInvStep, PTL DEF Safety

\* Every variable keeps its type; outputs never exceed max_tokens.
THEOREM TypeCorrect == Spec => []TypeOK
<1>1. IInv => TypeOK
  BY DEF IInv
<1> QED
  BY Invariance, <1>1, PTL DEF Spec

\* No accepted request is lost or run twice by the hand-overs from submit to
\* the queue, to process_queue and to the active list.
THEOREM NothingLost == Spec => []HeldOnce
<1>1. IInv => HeldOnce
  BY DEF IInv
<1> QED
  BY Invariance, <1>1, PTL DEF Spec

\* The state other threads read agrees with where the request is, and a round
\* never works on a request its snapshot remembers and that is gone.
THEOREM StatesAgree == Spec => []StateMatchesPlace
<1>1. IInv => StateMatchesPlace
  BY DEF IInv
<1> QED
  BY Invariance, <1>1, PTL DEF Spec

\* A cache is held by exactly the active requests and the one being
\* prefilled, so none is used after it is freed; a handle that is valid longer
\* is one that the pooled allocator spread over devices, and its budget is
\* released twice only when its prefill failed.
THEOREM KVSafe == Spec => []KVOwnership
<1>1. IInv => KVOwnership
  BY DEF IInv
<1> QED
  BY Invariance, <1>1, PTL DEF Spec

\* No sequence outgrows the cache that was allocated for it.
THEOREM KVFits == Spec => []KVWithinAllocation
<1>1. IInv => KVWithinAllocation
  BY DEF IInv
<1> QED
  BY Invariance, <1>1, PTL DEF Spec

\* A request is in the registry exactly while it waits or runs.
THEOREM RegistryTracks == Spec => []RegistryExact
<1>1. IInv => RegistryExact
  BY DEF IInv
<1> QED
  BY Invariance, <1>1, PTL DEF Spec

\* Finitely many slots are occupied, at most max_active_requests.
LEMMA BoundInvariance == Safety => []BoundInv
<1>1. Init => BoundInv
  BY FS_EmptySet, SchedulerAssumption DEF Init, BoundInv, Occupied, InHand
<1> QED
  BY <1>1, Invariance, BoundStep, PTL DEF Safety

\* The active set and the request in hand never exceed max_active_requests.
THEOREM SlotsBounded == Spec => []ActiveBound
<1>1. BoundInv => ActiveBound
  BY DEF BoundInv, ActiveBound, Occupied
<1> QED
  BY <1>1, BoundInvariance, PTL DEF Spec

\* The result the HTTP thread reads after is_terminal() never changes.
THEOREM ResultsFinal == Spec => ResultFinal
<1>1. IInv /\ [Next]_vars => [KeepsResults]_vars
  BY ResultStep
<1> QED
  BY Invariance, <1>1, PTL DEF Spec, Safety, ResultFinal, KeepsResults

-----------------------------------------------------------------------------
(* Scheduler implements RequestLifecycle.  Six of the scheduler's steps are *)
(* steps of the abstract life of a request, all others leave it alone.     *)

\* What the refinement mapping gives to the abstract variables.
PhaseMap == [r \in Requests |-> Phase(r)]
OutcomeMap == [r \in Requests |->
                 IF Phase(r) = "ended" THEN ResultOf(r) ELSE "none"]

\* The phase of a request depends on its state, on where submit is with it and
\* on whether it is queued.
LEMMA PhaseKept ==
  ASSUME NEW r \in Requests,
         state'[r] = state[r], spc'[r] = spc[r], (r \in Pending)' <=> r \in Pending
  PROVE  Phase(r)' = Phase(r)
  BY DEF Phase, IsTerminal

\* An accepted request that is neither queued nor finished has been started;
\* these are the ones that are active or in process_queue's hands.
LEMMA StartedPhase ==
  ASSUME IInv, NEW r \in Requests
  PROVE  /\ Phase(r) = "started" <=>
              spc[r] = "accepted" /\ ~IsTerminal(r) /\ r \notin Pending
         /\ Phase(r) = "ended" <=> state[r] \in {"Completed", "Errored"}
         /\ Phase(r) = "ended" => spc[r] = "accepted" /\ IsTerminal(r)
         /\ r \in Pending => Phase(r) = "waiting"
         /\ spc[r] \in {"received", "admitting", "fits", "admitted", "registered"}
              => Phase(r) = "new"
<1>1. r \in Pending => spc[r] = "accepted" /\ state[r] = "Queued"
  BY Facts DEF IInv, StateMatchesPlace
<1>2. /\ spc[r] \in {"received", "admitting", "fits", "admitted"} => state[r] = "Received"
      /\ spc[r] = "refused" => state[r] \in {"Received", "Rejected"}
      /\ spc[r] = "registered" => state[r] = "Queued"
      /\ spc[r] \in {"received", "admitting", "fits", "admitted", "registered",
                     "accepted", "refused"}
  BY DEF IInv, TypeOK, StateMatchesPlace
<1> QED
  BY <1>1, <1>2 DEF Phase, IsTerminal, TerminalState

\* The request r moves to a phase and the others stay where they are.
LEMMA OneMoves ==
  ASSUME NEW r \in Requests, NEW p, Phase(r)' = p,
         \A q \in Requests \ {r} : Phase(q)' = Phase(q)
  PROVE  PhaseMap' = [PhaseMap EXCEPT ![r] = p]
  BY DEF PhaseMap

\* A finished request keeps its phase and its result, so what the mapping says
\* of a result only changes when a request ends.
LEMMA OutcomeKept ==
  ASSUME IInv, [Next]_vars,
         \A q \in Requests : (Phase(q) = "ended")' <=> Phase(q) = "ended"
  PROVE  OutcomeMap' = OutcomeMap
<1>1. \A q \in Requests : Phase(q) = "ended" => ResultOf(q)' = ResultOf(q)
  BY StartedPhase, ResultStep DEF KeepsResults, ResultOf
<1> QED
  BY <1>1 DEF OutcomeMap

\* A step that leaves states, submits and queue alone leaves the abstract
\* variables alone.
LEMMA Stutter ==
  ASSUME IInv, [Next]_vars, UNCHANGED <<state, spc, pending>>
  PROVE  UNCHANGED <<PhaseMap, pending, OutcomeMap>>
<1>1. Pending' = Pending
  BY DEF Pending
<1>2. \A q \in Requests : Phase(q)' = Phase(q)
  BY <1>1, PhaseKept
<1>3. PhaseMap' = PhaseMap
  BY <1>2 DEF PhaseMap
<1>4. OutcomeMap' = OutcomeMap
  BY <1>2, OutcomeKept
<1> QED
  BY <1>3, <1>4

\* submit refuses r: it was new, and the others do not change.
LEMMA RefuseStep ==
  ASSUME IInv, [Next]_vars, NEW r \in Requests,
         spc[r] \in {"received", "admitting", "fits"},
         spc' = [spc EXCEPT ![r] = "refused"], pending' = pending,
         state' = state \/ state' = [state EXCEPT ![r] = "Rejected"]
  PROVE  Lifecycle!Refused(r)
<1>1. Pending' = Pending
  BY DEF Pending
<1>2. /\ state[r] = "Received" /\ r \notin Pending
      /\ spc'[r] = "refused" /\ state'[r] \in {"Received", "Rejected"}
      /\ \A q \in Requests \ {r} : spc'[q] = spc[q] /\ state'[q] = state[q]
  BY Facts DEF IInv, TypeOK, StateMatchesPlace
<1>3. \A q \in Requests \ {r} : Phase(q)' = Phase(q)
  BY <1>1, <1>2, PhaseKept
<1>4. Phase(r) = "new" /\ Phase(r)' = "refused"
  BY <1>1, <1>2, StartedPhase DEF Phase
<1>5. PhaseMap' = [PhaseMap EXCEPT ![r] = "refused"]
  BY <1>3, <1>4, OneMoves
<1>6. OutcomeMap' = OutcomeMap
  BY <1>3, <1>4, OutcomeKept
<1> QED
  BY <1>4, <1>5, <1>6 DEF Lifecycle!Refused, PhaseMap, OutcomeMap

\* The push makes a new request the last of those that wait.
LEMMA AcceptStep ==
  ASSUME IInv, [Next]_vars, NEW r \in Requests, Enqueue(r)
  PROVE  Lifecycle!Accepted(r)
<1>1. Pending' = Pending \cup {r}
  BY AppendElems DEF Enqueue, Pending, IInv, TypeOK
<1>2. /\ state' = state /\ state[r] = "Queued" /\ spc[r] = "registered"
      /\ \A q \in Requests \ {r} : spc'[q] = spc[q]
  BY DEF IInv, TypeOK, StateMatchesPlace, Enqueue, requestVars
<1>3. \A q \in Requests \ {r} : Phase(q)' = Phase(q)
  BY <1>1, <1>2, PhaseKept
<1>4. Phase(r) = "new" /\ Phase(r)' = "waiting"
  BY <1>1, <1>2, StartedPhase DEF Phase
<1>5. PhaseMap' = [PhaseMap EXCEPT ![r] = "waiting"]
  BY <1>3, <1>4, OneMoves
<1>6. OutcomeMap' = OutcomeMap
  BY <1>3, <1>4, OutcomeKept
<1> QED
  BY <1>4, <1>5, <1>6 DEF Lifecycle!Accepted, PhaseMap, OutcomeMap, Enqueue

\* process_queue starts the oldest request; those that run already are all
\* active, and SlotFree counts them.
LEMMA StartStep ==
  ASSUME IInv, BoundInv, [Next]_vars, ProcessQueuePop,
         NEW r \in Requests, r = Head(pending)
  PROVE  Lifecycle!Started(r)
<1> DEFINE S == {q \in Requests : [p \in Requests |-> Phase(p)][q] = "started"}
<1>1. r \in Pending /\ Pending = Pending' \cup {r} /\ r \notin Pending'
  BY TailElems DEF ProcessQueuePop, Pending, IInv, TypeOK, HeldOnce
<1>2. /\ state' = state /\ spc' = spc /\ pending' = Tail(pending)
      /\ pending # <<>> /\ cur \notin Requests
  BY SchedulerAssumption
  DEF ProcessQueuePop, requestVars, IInv, StateMatchesPlace
<1>3. spc[r] = "accepted" /\ state[r] = "Queued"
  BY <1>1, Facts DEF IInv, StateMatchesPlace
<1>4. \A q \in Requests \ {r} : Phase(q)' = Phase(q)
  BY <1>1, <1>2, PhaseKept
<1>5. Phase(r) = "waiting" /\ Phase(r)' = "started"
  BY <1>1, <1>2, <1>3, StartedPhase DEF Phase, IsTerminal, TerminalState
<1>6. PhaseMap' = [PhaseMap EXCEPT ![r] = "started"]
  BY <1>1, <1>4, <1>5, OneMoves
<1>7. OutcomeMap' = OutcomeMap
  BY <1>1, <1>4, <1>5, OutcomeKept
<1>8. S \subseteq active
  BY <1>2, StartedPhase DEF IInv, HeldOnce, InHand
<1>9. IsFiniteSet(active) /\ Cardinality(active) < MaxActive
  BY <1>2 DEF BoundInv, Occupied, InHand, ProcessQueuePop, SlotFree
<1>10. Cardinality(S) < MaxActive
  <2> HIDE DEF S
  <2> QED
    BY <1>8, <1>9, FS_Subset, FS_CardinalityType, SchedulerAssumption
<1>11. Lifecycle!Cardinality(S) < MaxActive
  BY <1>10, Zenon DEF Lifecycle!Cardinality, Cardinality
<1> QED
  BY <1>2, <1>6, <1>7, <1>11, Zenon DEF Lifecycle!Started, PhaseMap, OutcomeMap

\* set_state ends a request that was started, with a result it may have.
LEMMA EndStep ==
  ASSUME IInv, [Next]_vars, Settle, NEW r \in Requests, r = cur
  PROVE  Lifecycle!Ended(r)
<1>1. r \notin Pending /\ spc[r] = "accepted" /\ ~IsTerminal(r)
  BY Facts DEF Settle, IInv, StateMatchesPlace
<1>2. /\ spc' = spc /\ pending' = pending
      /\ state'[r] = IF error[r] = "none" THEN "Completed" ELSE "Errored"
      /\ \A q \in Requests \ {r} : state'[q] = state[q]
      /\ reason' = reason /\ error' = error /\ outLen' = outLen
  BY <1>1 DEF Settle, submitVars, IInv, TypeOK
<1>3. Pending' = Pending
  BY <1>2 DEF Pending
<1>4. \A q \in Requests \ {r} : Phase(q)' = Phase(q)
  BY <1>2, <1>3, PhaseKept
<1>5. Phase(r) = "started" /\ Phase(r)' = "ended"
  BY <1>1, <1>2, StartedPhase DEF Phase
<1>6. PhaseMap' = [PhaseMap EXCEPT ![r] = "ended"]
  BY <1>4, <1>5, OneMoves
<1>7. OutcomeMap' = [OutcomeMap EXCEPT ![r] = ResultOf(r)']
  <2>1. \A q \in Requests \ {r} : Phase(q) = "ended" => ResultOf(q)' = ResultOf(q)
    BY <1>2 DEF ResultOf
  <2> QED
    BY <1>4, <1>5, <2>1 DEF OutcomeMap
<1>8. ResultOf(r)' \in FinalResult
  BY <1>2 DEF ResultOf, FinalResult, IInv, TypeOK
<1> QED
  BY <1>2, <1>5, <1>6, <1>7, <1>8 DEF Lifecycle!Ended, PhaseMap, OutcomeMap

\* The request that is prefilled stays a started one.
LEMMA InHandStep ==
  ASSUME IInv, [Next]_vars, BeginPrefill \/ PrefillDone
  PROVE  UNCHANGED <<PhaseMap, pending, OutcomeMap>>
<1>1. /\ cur \in Requests /\ cur \notin Pending /\ spc[cur] = "accepted"
      /\ ~IsTerminal(cur)
  BY Facts DEF BeginPrefill, PrefillDone, IInv, StateMatchesPlace, IsTerminal,
               TerminalState
<1>2. /\ spc' = spc /\ pending' = pending
      /\ state'[cur] \in {"Prefilling", "Decoding"}
      /\ \A q \in Requests \ {cur} : state'[q] = state[q]
  BY <1>1 DEF BeginPrefill, PrefillDone, submitVars, IInv, TypeOK
<1>3. Pending' = Pending
  BY <1>2 DEF Pending
<1>4. \A q \in Requests : Phase(q)' = Phase(q)
  <2> TAKE q \in Requests
  <2>1. CASE q # cur
    BY <1>2, <1>3, <2>1, PhaseKept
  <2>2. CASE q = cur
    BY <1>1, <1>2, <1>3, <2>2, StartedPhase DEF Phase, IsTerminal, TerminalState
  <2> QED
    BY <2>1, <2>2
<1>5. PhaseMap' = PhaseMap
  BY <1>4 DEF PhaseMap
<1>6. OutcomeMap' = OutcomeMap
  BY <1>4, OutcomeKept
<1> QED
  BY <1>2, <1>5, <1>6

\* A request that submit has neither queued nor refused is new.
LEMMA NewStays ==
  ASSUME IInv, [Next]_vars, NEW r \in Requests, pending' = pending,
         spc[r] \in {"received", "admitting", "fits", "admitted"},
         spc'[r] \in {"admitting", "fits", "admitted", "registered"},
         state'[r] \in {"Received", "Queued"},
         \A q \in Requests \ {r} : spc'[q] = spc[q] /\ state'[q] = state[q]
  PROVE  UNCHANGED <<PhaseMap, pending, OutcomeMap>>
<1>1. Pending' = Pending
  BY DEF Pending
<1>2. \A q \in Requests \ {r} : Phase(q)' = Phase(q)
  BY <1>1, PhaseKept
<1>3. r \notin Pending /\ Phase(r) = "new"
  BY Facts, StartedPhase
<1>4. Phase(r)' = "new"
  BY <1>1, <1>3 DEF Phase
<1>5. PhaseMap' = PhaseMap
  BY <1>2, <1>3, <1>4 DEF PhaseMap
<1>6. OutcomeMap' = OutcomeMap
  BY <1>2, <1>3, <1>4, OutcomeKept
<1> QED
  BY <1>5, <1>6

\* A step of the abstract life, or none.
AbstractStep == [Lifecycle!LNext]_(Lifecycle!lvars)

\* Every step of the scheduler is a step of the abstract life or none.
LEMMA LifecycleStep == IInv /\ BoundInv /\ [Next]_vars => AbstractStep
<1> SUFFICES ASSUME IInv, BoundInv, [Next]_vars PROVE AbstractStep
  OBVIOUS
<1>a. ASSUME UNCHANGED <<PhaseMap, pending, OutcomeMap>> PROVE AbstractStep
  BY <1>a, Zenon DEF AbstractStep, Lifecycle!lvars, PhaseMap, OutcomeMap
<1>b. ASSUME NEW r \in Requests,
             \/ Lifecycle!Refused(r) \/ Lifecycle!Accepted(r)
             \/ Lifecycle!Started(r) \/ Lifecycle!Ended(r)
      PROVE  AbstractStep
  BY <1>b, Zenon DEF AbstractStep, Lifecycle!LNext
<1>c. ASSUME UNCHANGED <<state, spc, pending>> PROVE AbstractStep
  BY <1>a, <1>c, Stutter
<1>1. ASSUME NEW r \in Requests, SubmitCheckRunning(r) PROVE AbstractStep
  <2>1. CASE running
    <3>1. /\ pending' = pending /\ state' = state /\ state[r] = "Received"
          /\ spc[r] = "received" /\ spc'[r] = "admitting"
          /\ \A q \in Requests \ {r} : spc'[q] = spc[q]
      BY <1>1, <2>1 DEF SubmitCheckRunning, requestVars, IInv, TypeOK,
                             StateMatchesPlace
    <3> QED
      BY <1>a, <3>1, NewStays
  <2>2. CASE ~running
    BY <1>1, <1>b, <2>2, RefuseStep DEF SubmitCheckRunning, requestVars
  <2> QED
    BY <2>1, <2>2
<1>2. ASSUME NEW r \in Requests, AdmitQueueLength(r) \/ AdmitMemory(r) PROVE AbstractStep
  <2>1. CASE Reject(r)
    BY <1>2, <1>b, <2>1, RefuseStep DEF AdmitQueueLength, AdmitMemory, Reject
  <2>2. CASE ~Reject(r)
    <3>1. /\ pending' = pending /\ state' = state /\ state[r] = "Received"
          /\ spc[r] \in {"admitting", "fits"} /\ spc'[r] \in {"fits", "admitted"}
          /\ \A q \in Requests \ {r} : spc'[q] = spc[q]
      BY <1>2, <2>2 DEF AdmitQueueLength, AdmitMemory, IInv, TypeOK,
                             StateMatchesPlace
    <3> QED
      BY <1>a, <3>1, NewStays
  <2> QED
    BY <2>1, <2>2
<1>3. ASSUME NEW r \in Requests, Register(r) PROVE AbstractStep
  <2>1. /\ pending' = pending /\ state'[r] = "Queued"
        /\ spc[r] = "admitted" /\ spc'[r] = "registered"
        /\ \A q \in Requests \ {r} : spc'[q] = spc[q] /\ state'[q] = state[q]
    BY <1>3 DEF Register, IInv, TypeOK
  <2> QED
    BY <1>a, <2>1, NewStays
<1>4. ASSUME NEW r \in Requests, Enqueue(r) PROVE AbstractStep
  BY <1>4, <1>b, AcceptStep
<1>5. CASE ProcessQueuePop
  <2>1. Head(pending) \in Requests
    BY <1>5, Facts DEF ProcessQueuePop
  <2> QED
    BY <1>5, <1>b, <2>1, StartStep
<1>6. CASE Settle
  <2>1. cur \in Requests
    BY <1>6, Facts DEF Settle
  <2> QED
    BY <1>6, <1>b, <2>1, EndStep
<1>7. CASE BeginPrefill \/ PrefillDone
  BY <1>7, <1>a, InHandStep
<1>8. CASE Start
  BY <1>8, <1>c DEF Start, submitVars, requestVars
<1>9. CASE StopRequest
  BY <1>9, <1>c DEF StopRequest, submitVars, requestVars
<1>10. CASE StopJoined
  BY <1>10, <1>c DEF StopJoined, submitVars, requestVars
<1>11. ASSUME NEW r \in Requests, ClientCancel(r) PROVE AbstractStep
  BY <1>11, <1>c DEF ClientCancel, submitVars, requestVars
<1>12. ASSUME NEW r \in Requests, Cancel(r) PROVE AbstractStep
  BY <1>12, <1>c DEF Cancel, submitVars, requestVars
<1>13. ASSUME NEW r \in Requests, Expire(r) PROVE AbstractStep
  BY <1>13, <1>c DEF Expire, submitVars, requestVars
<1>14. ASSUME NEW r \in Requests, Consume(r) PROVE AbstractStep
  BY <1>14, <1>c DEF Consume, submitVars, requestVars
<1>15. CASE LoopTop
  BY <1>15, <1>c DEF LoopTop, submitVars, requestVars
<1>16. CASE ProcessQueueDone
  BY <1>16, <1>c DEF ProcessQueueDone, submitVars, requestVars
<1>17. CASE QueueTimeout
  BY <1>17, <1>c DEF QueueTimeout, submitVars, requestVars
<1>18. CASE AllocateKV
  BY <1>18, <1>c DEF AllocateKV, submitVars, requestVars
<1>19. CASE AllocateFails
  BY <1>19, <1>c DEF AllocateFails, submitVars, requestVars
<1>20. CASE PrefillFails
  BY <1>20, <1>c DEF PrefillFails, submitVars, requestVars
<1>21. CASE RoundDone
  BY <1>21, <1>c DEF RoundDone, submitVars, requestVars
<1>22. ASSUME NEW r \in Requests, Visit(r) PROVE AbstractStep
  BY <1>22, <1>c DEF Visit, submitVars, requestVars
<1>23. CASE StepCancelled
  BY <1>23, <1>c DEF StepCancelled, submitVars, requestVars
<1>24. CASE StepFails
  BY <1>24, <1>c DEF StepFails, submitVars, requestVars
<1>25. CASE StepToken
  BY <1>25, <1>c DEF StepToken, submitVars, requestVars
<1>26. CASE EmitToken
  BY <1>26, <1>c DEF EmitToken, submitVars, requestVars
<1>27. CASE Publish
  BY <1>27, <1>c DEF Publish, submitVars, requestVars
<1>28. CASE CloseQueue
  BY <1>28, <1>c DEF CloseQueue, submitVars, requestVars
<1>29. CASE Release
  BY <1>29, <1>c DEF Release, submitVars, requestVars
<1>30. CASE UNCHANGED vars
  BY <1>30, <1>c DEF vars
<1> QED
  BY <1>1, <1>2, <1>3, <1>4, <1>5, <1>6, <1>7, <1>8, <1>9, <1>10, <1>11,
     <1>12, <1>13, <1>14, <1>15, <1>16, <1>17, <1>18, <1>19, <1>20, <1>21,
     <1>22, <1>23, <1>24, <1>25, <1>26, <1>27, <1>28, <1>29, <1>30 DEF Next, DecodeLoop, Submit

\* The scheduler implements the life of a request that handlers rely on: a
\* refusal or one acceptance, starts in the order of acceptance with at most
\* max_active_requests running, and one end with a result that stays.
THEOREM ImplementsLifecycle == Spec => ServesInOrder
<1>1. Init => Lifecycle!LInit
  <2> SUFFICES ASSUME Init PROVE Lifecycle!LInit
    OBVIOUS
  <2>1. Pending = {}
    BY DEF Init, Pending, Elems
  <2>2. \A r \in Requests : Phase(r) = "new"
    BY <2>1 DEF Init, Phase
  <2> QED
    BY <2>2 DEF Init, Lifecycle!LInit
<1> QED
  BY <1>1, LifecycleStep, Invariance, BoundInvariance, PTL
  DEF Spec, Safety, AbstractStep, ServesInOrder, Lifecycle!LSpec

-----------------------------------------------------------------------------
(* What the decode thread tells the handlers of a request: its events, its *)
(* result and the counters of finished requests.                           *)

\* The decode thread is inside complete_request or fail_request.
Ending == {"settle", "publish", "close", "free"}

\* The request in the decode thread's hands is not finished before set_state.
CurLive == cur \in Requests /\ ~Finishing => ~IsTerminal(cur)

\* set_state is the only step that makes the decode thread's request terminal.
LEMMA CurIsLive == IInv => CurLive
<1> SUFFICES ASSUME IInv, cur \in Requests, ~Finishing PROVE ~IsTerminal(cur)
  BY DEF CurLive
<1>1. dpc \notin {"exited", "loop", "queue", "round"}
  BY SchedulerAssumption DEF IInv, StateMatchesPlace
<1>2. dpc \in {"popped", "alloc", "prefill", "step", "emit", "settle"}
  BY <1>1 DEF IInv, TypeOK, Finishing
<1> QED
  BY <1>2 DEF IInv, StateMatchesPlace, IsTerminal, TerminalState, Finishing

\* The same of the next state.
LEMMA CurIsLiveNext == IInv' => CurLive'
  BY CurIsLive, PTL

-----------------------------------------------------------------------------
(* Which steps are about results.                                          *)

\* A step that leaves all that handlers read of a request alone.
Silent ==
  /\ UNCHANGED <<state, spc, tq, reason, error, completedCount, erroredCount>>
  /\ cancelled \subseteq cancelled'
  /\ UNCHANGED <<dpc, cur>> \/ {dpc, dpc'} \cap Ending = {}

\* A step that begins to end a request, or that a request begins with.
Speaking ==
  \/ \E r \in Requests :
       SubmitCheckRunning(r) \/ AdmitQueueLength(r) \/ AdmitMemory(r)
         \/ Register(r) \/ Enqueue(r) \/ Consume(r) \/ Visit(r)
  \/ QueueTimeout \/ BeginPrefill \/ AllocateFails \/ PrefillDone
  \/ PrefillFails \/ StepCancelled \/ StepFails
  \/ EmitToken \/ Settle \/ Publish \/ CloseQueue \/ Release

\* Every step of the scheduler is of one of the two kinds.
LEMMA SilentOrSpeaking == IInv /\ [Next]_vars => Silent \/ Speaking
<1> SUFFICES ASSUME IInv, [Next]_vars, ~Speaking PROVE Silent
  OBVIOUS
<1> USE DEF Silent, Ending, submitVars, requestVars, decodeVars, statVars
<1>1. CASE Start
  <2>1. dpc = "exited" \/ dpc \notin Ending
    BY <1>1 DEF Start, IInv, StateMatchesPlace
  <2> QED
    BY <1>1, <2>1 DEF Start
<1>2. CASE StopRequest
  BY <1>2 DEF StopRequest
<1>3. CASE StopJoined
  BY <1>3 DEF StopJoined
<1>4. ASSUME NEW r \in Requests, ClientCancel(r) PROVE Silent
  BY <1>4 DEF ClientCancel
<1>5. ASSUME NEW r \in Requests, Cancel(r) PROVE Silent
  BY <1>5 DEF Cancel
<1>6. ASSUME NEW r \in Requests, Expire(r) PROVE Silent
  BY <1>6 DEF Expire
<1>7. CASE LoopTop
  BY <1>7 DEF LoopTop
<1>8. CASE ProcessQueuePop
  BY <1>8 DEF ProcessQueuePop
<1>9. CASE ProcessQueueDone
  BY <1>9 DEF ProcessQueueDone
<1>10. CASE AllocateKV
  BY <1>10 DEF AllocateKV
<1>11. CASE RoundDone
  BY <1>11 DEF RoundDone
<1>12. CASE StepToken
  BY <1>12 DEF StepToken
<1>13. CASE UNCHANGED vars
  BY <1>13 DEF vars
<1> QED
  BY <1>1, <1>2, <1>3, <1>4, <1>5, <1>6, <1>7, <1>8, <1>9, <1>10, <1>11,
     <1>12, <1>13 DEF Next, DecodeLoop, Submit, Speaking

-----------------------------------------------------------------------------
(* The result of a request.                                                *)

\* A request that is not finished has no error; a completed one has none and,
\* unless it was cancelled, a reason; an errored one has an error.  Between
\* the store of the result and that of the state this holds of what is to come.
ResultInv ==
  /\ \A r \in Requests :
       /\ spc[r] = "accepted" =>
            state[r] \notin {"Received", "Rejected", "Cancelled"}
       /\ ~IsTerminal(r) /\ (r = cur => dpc # "settle") => error[r] = "none"
       /\ state[r] = "Completed" =>
            /\ error[r] = "none"
            /\ reason[r] \in {"Stop", "Length"} \/ r \in cancelled
       /\ state[r] = "Errored" => error[r] # "none"
  /\ dpc = "settle" /\ error[cur] = "none" =>
       reason[cur] \in {"Stop", "Length"} \/ cur \in cancelled

\* Every step keeps results consistent: complete_request and fail_request
\* store the result of a request that has none, then the state it calls for.
LEMMA ResultInvStep == IInv /\ ResultInv /\ [Next]_vars => ResultInv'
<1> SUFFICES ASSUME IInv, ResultInv, [Next]_vars PROVE ResultInv'
  OBVIOUS
<1>0. /\ dpc \notin {"exited", "loop", "queue", "round"} => cur \in Requests
      /\ cur \in Requests => spc[cur] = "accepted"
      /\ \A r \in todo : r \in Requests /\ ~IsTerminal(r)
      /\ dpc \in {"popped", "alloc", "prefill", "step", "emit", "settle"} =>
           ~IsTerminal(cur) /\ cur \in Requests
  <2>1. dpc \in {"exited", "loop", "queue", "round"} => cur \notin Requests
    BY SchedulerAssumption DEF IInv, StateMatchesPlace
  <2>2. \A r \in todo : r \in active /\ r # cur
    BY DEF IInv, StateMatchesPlace
  <2>3. \A r \in todo : r \in Requests /\ state[r] = "Decoding"
    BY <2>2 DEF IInv, StateMatchesPlace, TypeOK
  <2> QED
    BY <2>1, <2>3, Facts, CurIsLive DEF CurLive, Finishing, IsTerminal, TerminalState
<1> USE DEF ResultInv, IInv, TypeOK, IsTerminal, TerminalState, submitVars,
            requestVars, decodeVars, statVars
<1>1. CASE Silent
  BY <1>0, <1>1 DEF Silent, Ending
<1>2. ASSUME NEW r \in Requests, SubmitCheckRunning(r) PROVE ResultInv'
  BY <1>0, <1>2 DEF SubmitCheckRunning
<1>3. ASSUME NEW r \in Requests, AdmitQueueLength(r) \/ AdmitMemory(r) PROVE ResultInv'
  <2>1. spc[r] \in {"admitting", "fits"} /\ r # cur /\ state[r] = "Received"
    BY <1>0, <1>3 DEF AdmitQueueLength, AdmitMemory, StateMatchesPlace
  <2>2. CASE Reject(r)
    BY <1>0, <1>3, <2>1, <2>2 DEF AdmitQueueLength, AdmitMemory, Reject
  <2>3. CASE ~Reject(r)
    BY <1>0, <1>3, <2>1, <2>3 DEF AdmitQueueLength, AdmitMemory
  <2> QED
    BY <2>2, <2>3
<1>4. ASSUME NEW r \in Requests, Register(r) PROVE ResultInv'
  <2>1. r # cur /\ state[r] = "Received"
    BY <1>0, <1>4 DEF Register, StateMatchesPlace
  <2> QED
    BY <1>0, <1>4, <2>1 DEF Register
<1>5. ASSUME NEW r \in Requests, Enqueue(r) PROVE ResultInv'
  <2>1. state[r] = "Queued"
    BY <1>5 DEF Enqueue, StateMatchesPlace
  <2> QED
    BY <1>0, <1>5, <2>1 DEF Enqueue
<1>6. ASSUME NEW r \in Requests, Consume(r) PROVE ResultInv'
  BY <1>0, <1>6 DEF Consume
<1>7. ASSUME NEW r \in Requests, Visit(r) PROVE ResultInv'
  <2>1. r # cur /\ dpc = "round" /\ cur \notin Requests /\ ~IsTerminal(r)
    BY <1>0, <1>7, SchedulerAssumption DEF Visit, StateMatchesPlace
  <2> QED
    BY <1>0, <1>7, <2>1 DEF Visit, Complete, Fail
<1>8. CASE QueueTimeout
  BY <1>0, <1>8 DEF QueueTimeout, Fail
<1>9. CASE BeginPrefill
  BY <1>0, <1>9 DEF BeginPrefill
<1>10. CASE AllocateFails
  BY <1>0, <1>10 DEF AllocateFails, Fail
<1>11. CASE PrefillDone
  BY <1>0, <1>11 DEF PrefillDone
<1>12. CASE PrefillFails
  BY <1>0, <1>12 DEF PrefillFails, Fail
<1>13. CASE StepCancelled
  BY <1>0, <1>13 DEF StepCancelled, Complete
<1>14. CASE StepFails
  BY <1>0, <1>14 DEF StepFails, Fail
<1>15. CASE EmitToken
  <2>1. /\ UNCHANGED <<state, spc, error, cancelled>> /\ dpc = "emit"
        /\ \/ reason' = reason /\ dpc' = "round"
           \/ /\ cur' = cur
              /\ \E why \in {"Stop", "Length"} :
                   reason' = [reason EXCEPT ![cur] = why]
    BY <1>15 DEF EmitToken, Complete, StopReason
  <2> QED
    BY <1>0, <2>1
<1>16. CASE Settle
  BY <1>0, <1>16 DEF Settle
<1>17. CASE Publish
  BY <1>0, <1>17 DEF Publish
<1>18. CASE CloseQueue
  BY <1>0, <1>18 DEF CloseQueue
<1>19. CASE Release
  BY <1>0, <1>19 DEF Release
<1> QED
  BY <1>1, <1>2, <1>3, <1>4, <1>5, <1>6, <1>7, <1>8, <1>9, <1>10, <1>11,
     <1>12, <1>13, <1>14, <1>15, <1>16, <1>17, <1>18, <1>19, SilentOrSpeaking
  DEF Speaking

-----------------------------------------------------------------------------
(* The events of a request.                                                *)

TokensOnly(q) == \A i \in DOMAIN q.events : q.events[i] = "Token"

\* StreamWellFormed of one queue q and the state s of its request, without the
\* part about close.
WellFormed(q, s) ==
  /\ Len(q.events) <= MaxSize
  /\ \A i \in DOMAIN q.events :
       q.events[i] \in TerminalEvent =>
         /\ i = Len(q.events)
         /\ s = IF q.events[i] = "Complete" THEN "Completed" ELSE "Errored"

\* push of an event that agrees with the state keeps a queue of tokens well
\* formed, also when it drops the event.
LEMMA PushWellFormed ==
  ASSUME NEW q \in Queue, NEW e \in EventType, NEW s,
         TokensOnly(q), Len(q.events) <= MaxSize,
         e \in TerminalEvent => s = IF e = "Complete" THEN "Completed" ELSE "Errored"
  PROVE  /\ WellFormed(Push(q, e), s)
         /\ Push(q, e).closed = q.closed
         /\ e = "Token" => TokensOnly(Push(q, e))
<1> DEFINE p == [q EXCEPT !.events = Append(@, e)]
           d == [q EXCEPT !.dropped = @ + 1]
<1>1. q.events \in Seq(EventType) /\ Len(q.events) \in Nat
  BY DEF Queue
<1>2. /\ p.events = Append(q.events, e) /\ p.closed = q.closed
      /\ d.events = q.events /\ d.closed = q.closed
  BY DEF Queue
<1>3. /\ Len(Append(q.events, e)) = Len(q.events) + 1
      /\ DOMAIN Append(q.events, e) = 1 .. Len(q.events) + 1
      /\ DOMAIN q.events = 1 .. Len(q.events)
      /\ Append(q.events, e)[Len(q.events) + 1] = e
      /\ \A i \in 1 .. Len(q.events) : Append(q.events, e)[i] = q.events[i]
  BY <1>1
<1>4. \/ Push(q, e) \in {q, d}
      \/ Push(q, e) = p /\ Len(q.events) < MaxSize
  BY <1>1, MaxSizeAssumption DEF Push
<1>5. Push(q, e) \in {q, d} => /\ WellFormed(Push(q, e), s)
                               /\ Push(q, e).closed = q.closed
                               /\ TokensOnly(Push(q, e))
  BY <1>2 DEF WellFormed, TokensOnly, TerminalEvent
<1>6. ASSUME Push(q, e) = p, Len(q.events) < MaxSize
      PROVE  /\ WellFormed(p, s) /\ p.closed = q.closed
             /\ e = "Token" => TokensOnly(p)
  <2> HIDE DEF p
  <2>1. Len(p.events) <= MaxSize
    BY <1>1, <1>2, <1>3, <1>6, MaxSizeAssumption
  <2>2. \A i \in DOMAIN p.events : i # Len(p.events) => p.events[i] = "Token"
    BY <1>1, <1>2, <1>3 DEF TokensOnly
  <2>3. p.events[Len(p.events)] = e /\ Len(p.events) \in DOMAIN p.events
    BY <1>1, <1>2, <1>3
  <2> QED
    BY <1>2, <2>1, <2>2, <2>3 DEF WellFormed, TokensOnly, TerminalEvent
<1> QED
  BY <1>4, <1>5, <1>6

\* pop keeps a queue well formed, and a queue of tokens one of tokens.
LEMMA PopWellFormed ==
  ASSUME NEW q \in Queue, ~PopReturnsNothing(q), NEW s, WellFormed(q, s)
  PROVE  /\ WellFormed(Pop(q), s)
         /\ Pop(q).closed = q.closed
         /\ TokensOnly(q) => TokensOnly(Pop(q))
<1> DEFINE es == q.events
           t == Tail(es)
<1>1. /\ es \in Seq(EventType) /\ es # <<>>
      /\ Pop(q).events = t /\ Pop(q).closed = q.closed
  BY DEF Queue, Pop, PopReturnsNothing
<1>2. /\ Len(es) \in Nat \ {0} /\ DOMAIN es = 1 .. Len(es)
      /\ Len(t) = Len(es) - 1 /\ DOMAIN t = 1 .. Len(es) - 1
      /\ \A i \in DOMAIN t : t[i] = es[i + 1] /\ i + 1 \in DOMAIN es
  BY <1>1
<1>3. Len(es) <= MaxSize /\ Len(t) <= MaxSize
  BY <1>2, MaxSizeAssumption DEF WellFormed
<1>4. ASSUME NEW i \in DOMAIN t, t[i] \in TerminalEvent
      PROVE  /\ i = Len(t)
             /\ s = IF t[i] = "Complete" THEN "Completed" ELSE "Errored"
  BY <1>2, <1>4 DEF WellFormed
<1>5. TokensOnly(q) => \A i \in DOMAIN t : t[i] = "Token"
  BY <1>2 DEF TokensOnly
<1> QED
  BY <1>1, <1>3, <1>4, <1>5 DEF WellFormed, TokensOnly

\* A stream is well formed, and until the terminal event is pushed it has only
\* tokens, until close it is open.
StreamInv ==
  \A r \in Requests :
    /\ WellFormed(tq[r], state[r])
    /\ ~IsTerminal(r) \/ (r = cur /\ dpc = "publish") => TokensOnly(tq[r])
    /\ ~IsTerminal(r) \/ (r = cur /\ dpc \in {"publish", "close"})
         => ~tq[r].closed

\* A step that pushes, pops and closes nothing, and changes no terminal state.
LEMMA StreamFrame ==
  ASSUME StreamInv, tq' = tq,
         \A r \in Requests : IsTerminal(r) => state'[r] = state[r],
         \A r \in Requests : r = cur' /\ dpc' \in {"publish", "close"} =>
           ~IsTerminal(r) \/ (r = cur /\ dpc = dpc')
  PROVE  StreamInv'
<1> SUFFICES ASSUME NEW r \in Requests
             PROVE  /\ WellFormed(tq[r], state'[r])
                    /\ ~IsTerminal(r)' \/ (r = cur' /\ dpc' = "publish")
                         => TokensOnly(tq[r])
                    /\ ~IsTerminal(r)' \/ (r = cur' /\ dpc' \in {"publish", "close"})
                         => ~tq[r].closed
  BY DEF StreamInv
<1>1. CASE IsTerminal(r)
  BY <1>1 DEF StreamInv, IsTerminal
<1>2. CASE ~IsTerminal(r)
  BY <1>2 DEF StreamInv, WellFormed, TokensOnly, TerminalEvent
<1> QED
  BY <1>1, <1>2

\* Every step keeps the streams well formed.
LEMMA StreamStep == IInv /\ StreamInv /\ [Next]_vars => StreamInv'
<1> SUFFICES ASSUME IInv, StreamInv, [Next]_vars PROVE StreamInv'
  OBVIOUS
<1>0. /\ dpc \notin {"exited", "loop", "queue", "round"} => cur \in Requests
      /\ dpc \in {"popped", "alloc", "prefill", "step", "emit", "settle"} =>
           ~IsTerminal(cur) /\ cur \in Requests
      /\ \A r \in Requests :
           spc[r] \in {"admitting", "fits", "admitted"} => ~IsTerminal(r)
  <2>1. \A r \in Requests :
          spc[r] \in {"admitting", "fits", "admitted"} => state[r] = "Received"
    BY DEF IInv, StateMatchesPlace
  <2> QED
    BY <2>1, Facts, CurIsLive DEF CurLive, Finishing, IsTerminal, TerminalState
<1> USE DEF IInv, TypeOK, submitVars, requestVars, decodeVars, statVars
<1>1. CASE Silent
  BY <1>0, <1>1, StreamFrame DEF Silent, Ending
<1>2. ASSUME NEW r \in Requests, SubmitCheckRunning(r) PROVE StreamInv'
  BY <1>0, <1>2, StreamFrame DEF SubmitCheckRunning
<1>3. ASSUME NEW r \in Requests, AdmitQueueLength(r) \/ AdmitMemory(r) PROVE StreamInv'
  BY <1>0, <1>3, StreamFrame DEF AdmitQueueLength, AdmitMemory, Reject
<1>4. ASSUME NEW r \in Requests, Register(r) PROVE StreamInv'
  BY <1>0, <1>4, StreamFrame DEF Register
<1>5. ASSUME NEW r \in Requests, Enqueue(r) PROVE StreamInv'
  BY <1>0, <1>5, StreamFrame DEF Enqueue
<1>6. ASSUME NEW r \in Requests, Consume(r) PROVE StreamInv'
  <2>1. /\ tq'[r] = Pop(tq[r]) /\ ~PopReturnsNothing(tq[r])
        /\ tq[r] \in Queue
        /\ \A q \in Requests \ {r} : tq'[q] = tq[q]
        /\ UNCHANGED <<state, dpc, cur>>
    BY <1>6 DEF Consume
  <2>2. /\ WellFormed(tq'[r], state[r]) /\ tq'[r].closed = tq[r].closed
        /\ TokensOnly(tq[r]) => TokensOnly(tq'[r])
    BY <2>1, PopWellFormed DEF StreamInv
  <2> QED
    BY <2>1, <2>2 DEF StreamInv, IsTerminal
<1>7. ASSUME NEW r \in Requests, Visit(r) PROVE StreamInv'
  BY <1>0, <1>7, StreamFrame DEF Visit, Complete, Fail
<1>8. CASE QueueTimeout
  BY <1>0, <1>8, StreamFrame DEF QueueTimeout, Fail
<1>9. CASE BeginPrefill
  BY <1>0, <1>9, StreamFrame DEF BeginPrefill
<1>10. CASE AllocateFails
  BY <1>0, <1>10, StreamFrame DEF AllocateFails, Fail
<1>11. CASE PrefillDone
  BY <1>0, <1>11, StreamFrame DEF PrefillDone
<1>12. CASE PrefillFails
  BY <1>0, <1>12, StreamFrame DEF PrefillFails, Fail
<1>13. CASE StepCancelled
  BY <1>0, <1>13, StreamFrame DEF StepCancelled, Complete
<1>14. CASE StepFails
  BY <1>0, <1>14, StreamFrame DEF StepFails, Fail
<1>15. CASE EmitToken
  <2>1. /\ cur \in Requests /\ ~IsTerminal(cur) /\ tq[cur] \in Queue
        /\ tq'[cur] = Push(tq[cur], "Token") /\ state' = state
        /\ dpc' \in {"settle", "round"}
        /\ \A q \in Requests \ {cur} : tq'[q] = tq[q]
    BY <1>0, <1>15 DEF EmitToken, Complete
  <2>2. /\ WellFormed(tq'[cur], state[cur]) /\ TokensOnly(tq'[cur])
        /\ tq'[cur].closed = tq[cur].closed
    BY <2>1, PushWellFormed DEF StreamInv, WellFormed, EventType, TerminalEvent
  <2> QED
    BY <2>1, <2>2 DEF StreamInv, IsTerminal
<1>16. CASE Settle
  BY <1>0, <1>16, StreamFrame DEF Settle
<1>17. CASE Publish
  <2> DEFINE e == IF state[cur] = "Completed" THEN "Complete" ELSE "Error"
  <2>1. /\ cur \in Requests /\ dpc = "publish" /\ tq[cur] \in Queue
        /\ tq'[cur] = Push(tq[cur], e) /\ state' = state
        /\ dpc' = "close" /\ cur' = cur
        /\ state[cur] \in {"Completed", "Errored"}
        /\ \A q \in Requests \ {cur} : tq'[q] = tq[q]
    BY <1>0, <1>17 DEF Publish, StateMatchesPlace, Finishing
  <2>2. WellFormed(tq'[cur], state[cur]) /\ tq'[cur].closed = tq[cur].closed
    <3>1. e \in EventType /\ state[cur] = IF e = "Complete" THEN "Completed" ELSE "Errored"
      BY <2>1 DEF EventType
    <3>2. TokensOnly(tq[cur]) /\ Len(tq[cur].events) <= MaxSize
      BY <2>1 DEF StreamInv, WellFormed
    <3> HIDE DEF e
    <3> QED
      BY <2>1, <3>1, <3>2, PushWellFormed
  <2>3. IsTerminal(cur)
    BY <2>1 DEF IsTerminal, TerminalState
  <2> HIDE DEF e
  <2> QED
    BY <2>1, <2>2, <2>3 DEF StreamInv, IsTerminal
<1>18. CASE CloseQueue
  <2>1. /\ cur \in Requests /\ tq[cur] \in Queue
        /\ tq'[cur].events = tq[cur].events /\ state' = state
        /\ dpc' = "free" /\ cur' = cur
        /\ state[cur] \in {"Completed", "Errored"}
        /\ \A q \in Requests \ {cur} : tq'[q] = tq[q]
    BY <1>0, <1>18 DEF CloseQueue, Close, Queue, StateMatchesPlace, Finishing
  <2>2. \A q \in Requests : tq'[q].events = tq[q].events
    BY <2>1
  <2>3. \A q \in Requests :
          /\ WellFormed(tq[q], state[q]) => WellFormed(tq'[q], state[q])
          /\ TokensOnly(tq[q]) => TokensOnly(tq'[q])
    BY <2>2 DEF WellFormed, TokensOnly
  <2> QED
    BY <2>1, <2>3 DEF StreamInv, IsTerminal, TerminalState
<1>19. CASE Release
  BY <1>0, <1>19, StreamFrame DEF Release
<1> QED
  BY <1>1, <1>2, <1>3, <1>4, <1>5, <1>6, <1>7, <1>8, <1>9, <1>10, <1>11,
     <1>12, <1>13, <1>14, <1>15, <1>16, <1>17, <1>18, <1>19, SilentOrSpeaking
  DEF Speaking

-----------------------------------------------------------------------------
(* The counters.                                                           *)

\* The requests that have ended in state s and that the decode thread is done
\* with.
Counted(s) == {r \in Requests : state[r] = s /\ r # cur}

\* CountersExact with the finiteness that makes it inductive.
CountInv ==
  /\ IsFiniteSet(Counted("Completed")) /\ IsFiniteSet(Counted("Errored"))
  /\ completedCount = Cardinality(Counted("Completed"))
  /\ erroredCount = Cardinality(Counted("Errored"))

\* A request is finished by set_state and let go by Release, and by nothing else.
EndsOnce ==
  /\ UNCHANGED <<completedCount, erroredCount>>
  /\ Finishing' => cur' = cur
  /\ \A r \in Requests :
       state'[r] \in {"Completed", "Errored"} /\ r # cur' =>
         state'[r] = state[r] /\ r # cur

\* Every step but Release keeps what is counted and who is being finished.
LEMMA EndsOnceStep == IInv /\ [Next]_vars => EndsOnce \/ Release
<1> SUFFICES ASSUME IInv, [Next]_vars, ~Release PROVE EndsOnce
  OBVIOUS
<1>0. /\ dpc \notin {"exited", "loop", "queue", "round"} => cur \in Requests
      /\ dpc \in {"exited", "loop", "queue", "round"} => cur \notin Requests
      /\ cur \in Requests /\ ~Finishing =>
           state[cur] \notin {"Completed", "Errored"}
  BY Facts, CurIsLive, SchedulerAssumption
  DEF CurLive, IsTerminal, TerminalState, IInv, StateMatchesPlace
<1> USE DEF EndsOnce, Finishing, IInv, TypeOK, submitVars, requestVars,
            decodeVars, statVars
<1>1. CASE Silent
  BY <1>0, <1>1 DEF Silent, Ending
<1>2. ASSUME NEW r \in Requests, SubmitCheckRunning(r) PROVE EndsOnce
  BY <1>0, <1>2 DEF SubmitCheckRunning
<1>3. ASSUME NEW r \in Requests, AdmitQueueLength(r) \/ AdmitMemory(r) PROVE EndsOnce
  BY <1>0, <1>3 DEF AdmitQueueLength, AdmitMemory, Reject
<1>4. ASSUME NEW r \in Requests, Register(r) PROVE EndsOnce
  BY <1>0, <1>4 DEF Register
<1>5. ASSUME NEW r \in Requests, Enqueue(r) PROVE EndsOnce
  BY <1>0, <1>5 DEF Enqueue
<1>6. ASSUME NEW r \in Requests, Consume(r) PROVE EndsOnce
  BY <1>0, <1>6 DEF Consume
<1>7. ASSUME NEW r \in Requests, Visit(r) PROVE EndsOnce
  BY <1>0, <1>7 DEF Visit, Complete, Fail
<1>8. CASE QueueTimeout
  BY <1>0, <1>8 DEF QueueTimeout, Fail
<1>9. CASE BeginPrefill
  BY <1>0, <1>9 DEF BeginPrefill
<1>10. CASE AllocateFails
  BY <1>0, <1>10 DEF AllocateFails, Fail
<1>11. CASE PrefillDone
  BY <1>0, <1>11 DEF PrefillDone
<1>12. CASE PrefillFails
  BY <1>0, <1>12 DEF PrefillFails, Fail
<1>13. CASE StepCancelled
  BY <1>0, <1>13 DEF StepCancelled, Complete
<1>14. CASE StepFails
  BY <1>0, <1>14 DEF StepFails, Fail
<1>15. CASE EmitToken
  BY <1>0, <1>15 DEF EmitToken, Complete
<1>16. CASE Settle
  BY <1>0, <1>16 DEF Settle
<1>17. CASE Publish
  BY <1>0, <1>17 DEF Publish
<1>18. CASE CloseQueue
  BY <1>0, <1>18 DEF CloseQueue
<1> QED
  BY <1>1, <1>2, <1>3, <1>4, <1>5, <1>6, <1>7, <1>8, <1>9, <1>10, <1>11,
     <1>12, <1>13, <1>14, <1>15, <1>16, <1>17, <1>18, SilentOrSpeaking
  DEF Speaking

\* Only Release changes what is counted.
LEMMA CountedKept ==
  ASSUME IInv, IInv', [Next]_vars, ~Release,
         NEW s \in {"Completed", "Errored"}
  PROVE  Counted(s)' = Counted(s)
<1> SUFFICES ASSUME NEW r \in Requests
             PROVE  state'[r] = s /\ r # cur' <=> state[r] = s /\ r # cur
  BY DEF Counted
<1>1. EndsOnce /\ KeepsResults /\ CurLive'
  BY EndsOnceStep, ResultStep, CurIsLiveNext
<1>2. ASSUME state[r] = s, r # cur PROVE state'[r] = s /\ r # cur'
  <2>1. spc[r] = "accepted" /\ IsTerminal(r)
    BY <1>2 DEF IInv, TypeOK, StateMatchesPlace, IsTerminal, TerminalState
  <2>2. state'[r] = s
    BY <1>1, <1>2, <2>1 DEF KeepsResults
  <2>3. IsTerminal(r)'
    BY <2>2 DEF IsTerminal, TerminalState
  <2> QED
    BY <1>1, <1>2, <2>2, <2>3 DEF CurLive, EndsOnce, IsTerminal
<1>3. ASSUME state'[r] = s, r # cur' PROVE state[r] = s /\ r # cur
  BY <1>1, <1>3 DEF EndsOnce
<1> QED
  BY <1>2, <1>3

\* Release counts the request it lets go, once.
LEMMA CountStep == IInv /\ IInv' /\ CountInv /\ [Next]_vars => CountInv'
<1> SUFFICES ASSUME IInv, IInv', CountInv, [Next]_vars PROVE CountInv'
  OBVIOUS
<1>1. CASE Release
  <2>1. /\ cur \in Requests /\ state[cur] \in {"Completed", "Errored"}
        /\ state' = state /\ cur' \notin Requests
    BY <1>1, Facts, SchedulerAssumption
    DEF Release, requestVars, IInv, StateMatchesPlace, Finishing
  <2>2. \A s \in {"Completed", "Errored"} :
          /\ cur \notin Counted(s)
          /\ Counted(s)' = IF state[cur] = s THEN Counted(s) \cup {cur} ELSE Counted(s)
    BY <2>1 DEF Counted
  <2>3. CASE state[cur] = "Completed"
    <3>1. /\ IsFiniteSet(Counted("Completed")')
          /\ Cardinality(Counted("Completed")') = Cardinality(Counted("Completed")) + 1
      BY <2>2, <2>3, FS_AddElement DEF CountInv
    <3> QED
      BY <1>1, <2>2, <2>3, <3>1 DEF Release, CountInv
  <2>4. CASE state[cur] = "Errored"
    <3>1. /\ IsFiniteSet(Counted("Errored")')
          /\ Cardinality(Counted("Errored")') = Cardinality(Counted("Errored")) + 1
      BY <2>2, <2>4, FS_AddElement DEF CountInv
    <3> QED
      BY <1>1, <2>2, <2>4, <3>1 DEF Release, CountInv
  <2> QED
    BY <2>1, <2>3, <2>4
<1>2. CASE ~Release
  <2>1. Counted("Completed")' = Counted("Completed") /\ Counted("Errored")' = Counted("Errored")
    BY <1>2, CountedKept
  <2>2. completedCount' = completedCount /\ erroredCount' = erroredCount
    BY <1>2, EndsOnceStep DEF EndsOnce
  <2> QED
    BY <2>1, <2>2 DEF CountInv
<1> QED
  BY <1>1, <1>2

-----------------------------------------------------------------------------
(* The theorems.                                                           *)

\* Results, streams and counters of a scheduler just constructed are empty.
LEMMA InitResults == Init => ResultInv /\ StreamInv /\ CountInv
<1> SUFFICES ASSUME Init PROVE ResultInv /\ StreamInv /\ CountInv
  OBVIOUS
<1>1. ResultInv
  BY DEF Init, ResultInv, IsTerminal
<1>2. StreamInv
  BY MaxSizeAssumption
  DEF Init, StreamInv, WellFormed, TokensOnly, NewQueue, IsTerminal, TerminalEvent
<1>3. Counted("Completed") = {} /\ Counted("Errored") = {}
  BY DEF Init, Counted
<1>4. CountInv
  BY <1>3, FS_EmptySet DEF Init, CountInv
<1> QED
  BY <1>1, <1>2, <1>4

\* Results, streams and counters are consistent in every reachable state.
LEMMA ResultsInvariance == Safety => [](IInv /\ ResultInv /\ StreamInv /\ CountInv)
  BY Invariance, InitResults, ResultInvStep, StreamStep, CountStep, PTL DEF Safety

\* A handler sees tokens, then at most one terminal event that agrees with the
\* state, and a closed queue only after the result.
THEOREM StreamsWellFormed == Spec => []StreamWellFormed
<1>1. StreamInv => StreamWellFormed
  BY DEF StreamInv, StreamWellFormed, WellFormed
<1> QED
  BY <1>1, ResultsInvariance, PTL DEF Spec

\* Every finished request is counted once, by the counter of its outcome.
THEOREM FinishedCounted == Spec => []CountersExact
<1>1. CountInv => CountersExact
  BY DEF CountInv, CountersExact, Counted
<1> QED
  BY <1>1, ResultsInvariance, PTL DEF Spec

=============================================================================
