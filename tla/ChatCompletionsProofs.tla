----------------------- MODULE ChatCompletionsProofs ------------------------
(***************************************************************************)
(* Proofs about the handlers for every set of requests, streamed or not,   *)
(* and every value of the limits: together with the scheduler they do what *)
(* Scheduler allows its environment, they abandon no request, their        *)
(* responses say what happened, and their streams account for every token. *)
(***************************************************************************)
EXTENDS ChatCompletions, SchedulerProofs

\* Where the handler of a request is agrees with where submit is and with who
\* sets the cancellation token; handlers run only between start and stop.
HPlace ==
  /\ main = "up" => running
  /\ \A r \in Requests :
       /\ hpc[r] \in {"idle", "role"} => spc[r] = "received"
       /\ hpc[r] \in {"poll", "lost", "empty", "timeout"} => spc[r] = "accepted"
       /\ r \in cancelled => hpc[r] = "done"
       /\ main # "up" => hpc[r] \in {"idle", "done"}
       /\ spc[r] = "refused" => state[r] = "Rejected"

\* The types the proofs need.
StatusCode == {0, 200, 400, 500, 503, 504}
Responses == [status : StatusCode, reason : FinishReason, tokens : 0 .. MaxTokens]
HTypes ==
  /\ hpc \in [Requests -> {"idle", "role", "submit", "poll", "lost", "empty",
                           "timeout", "done"}]
  /\ resp \in [Requests -> Responses]

HInv == HTypes /\ HPlace

-----------------------------------------------------------------------------
(* The handlers are an environment of Scheduler.                           *)

\* cancel_token->cancel() by a handler that has not left yet.
LEMMA SetCancelIsClient ==
  ASSUME HPlace, NEW r \in Requests, SetCancel(r),
         hpc[r] \in {"role", "lost", "timeout"}
  PROVE  ClientCancel(r)
  BY DEF SetCancel, ClientCancel, HPlace

\* Every step of handlers, clients, main and decode thread is a step of the
\* scheduler or leaves it alone.
LEMMA HandlerIsClient == HPlace /\ [HNext]_allVars => [Next]_vars
<1> SUFFICES ASSUME HPlace, [HNext]_allVars PROVE [Next]_vars
  OBVIOUS
<1>1. CASE Main
  BY <1>1 DEF Main, Next
<1>2. CASE Background
  BY <1>2 DEF Background, Next
<1>3. ASSUME NEW r \in Requests, BadRequest(r) \/ Accept(r) \/ Disconnect(r)
      PROVE  UNCHANGED vars
  BY <1>3 DEF BadRequest, Accept, Disconnect
<1>4. ASSUME NEW r \in Requests, SendRole(r) PROVE [Next]_vars
  BY <1>4, SetCancelIsClient DEF SendRole, Next
<1>5. ASSUME NEW r \in Requests, CallSubmit(r) PROVE Next
  BY <1>5 DEF CallSubmit, Next
<1>6. ASSUME NEW r \in Requests,
             Submitted(r) \/ SubmitRefused(r) \/ Empty(r)
      PROVE  UNCHANGED vars
  BY <1>6 DEF Submitted, SubmitRefused, Empty
<1>7. ASSUME NEW r \in Requests, Poll(r) PROVE [Next]_vars
  BY <1>7 DEF Poll, PopToken, PopTerminal, PopNothing, Next
<1>8. ASSUME NEW r \in Requests, Lost(r) \/ TimeOut(r) PROVE Next
  BY <1>8, SetCancelIsClient DEF Lost, TimeOut, Next
<1>9. CASE UNCHANGED allVars
  BY <1>9 DEF allVars
<1> QED
  BY <1>1, <1>2, <1>3, <1>4, <1>5, <1>6, <1>7, <1>8, <1>9 DEF HNext, Handle

-----------------------------------------------------------------------------
(* What the scheduler's steps leave to the handlers.                       *)

\* The decode thread does not touch what submit, main and the cancelling
\* threads write.
LEMMA DecodeFrame == DecodeLoop => UNCHANGED <<spc, cancelled, running, main>>
<1> SUFFICES ASSUME DecodeLoop PROVE UNCHANGED <<spc, cancelled, running, main>>
  OBVIOUS
<1> USE DEF submitVars
<1>1. CASE LoopTop
  BY <1>1 DEF LoopTop
<1>2. CASE ProcessQueuePop
  BY <1>2 DEF ProcessQueuePop
<1>3. CASE ProcessQueueDone
  BY <1>3 DEF ProcessQueueDone
<1>4. CASE QueueTimeout
  BY <1>4 DEF QueueTimeout
<1>5. CASE BeginPrefill
  BY <1>5 DEF BeginPrefill
<1>6. CASE AllocateKV
  BY <1>6 DEF AllocateKV
<1>7. CASE AllocateFails
  BY <1>7 DEF AllocateFails
<1>8. CASE PrefillDone
  BY <1>8 DEF PrefillDone
<1>9. CASE PrefillFails
  BY <1>9 DEF PrefillFails
<1>10. CASE RoundDone
  BY <1>10 DEF RoundDone
<1>11. CASE StepCancelled
  BY <1>11 DEF StepCancelled
<1>12. CASE StepFails
  BY <1>12 DEF StepFails
<1>13. CASE StepToken
  BY <1>13 DEF StepToken
<1>14. CASE EmitToken
  BY <1>14 DEF EmitToken
<1>15. CASE Settle
  BY <1>15 DEF Settle
<1>16. CASE Publish
  BY <1>16 DEF Publish
<1>17. CASE CloseQueue
  BY <1>17 DEF CloseQueue
<1>18. CASE Release
  BY <1>18 DEF Release
<1>19. ASSUME NEW r \in Requests, Visit(r)
      PROVE  UNCHANGED <<spc, cancelled, running, main>>
  BY <1>19 DEF Visit
<1> QED
  BY <1>1, <1>2, <1>3, <1>4, <1>5, <1>6, <1>7, <1>8, <1>9, <1>10, <1>11,
     <1>12, <1>13, <1>14, <1>15, <1>16, <1>17, <1>18, <1>19 DEF DecodeLoop

\* A set token stays set, and a refused request keeps its state.
Monotone ==
  /\ cancelled \subseteq cancelled'
  /\ \A r \in Requests : spc[r] = "refused" => state'[r] = state[r]

\* No step of the scheduler undoes a cancellation or a refusal.
LEMMA MonotoneStep == IInv /\ [Next]_vars => Monotone
<1> SUFFICES ASSUME IInv, [Next]_vars PROVE Monotone
  OBVIOUS
<1>0. /\ dpc \notin {"exited", "loop", "queue", "round"} => spc[cur] = "accepted"
      /\ state \in [Requests -> RequestState]
  BY Facts DEF IInv, TypeOK
<1> USE DEF Monotone, submitVars, requestVars, decodeVars, statVars
<1>1. CASE Silent
  BY <1>1 DEF Silent
<1>2. ASSUME NEW r \in Requests, SubmitCheckRunning(r) PROVE Monotone
  BY <1>0, <1>2 DEF SubmitCheckRunning
<1>3. ASSUME NEW r \in Requests, AdmitQueueLength(r) \/ AdmitMemory(r) PROVE Monotone
  BY <1>0, <1>3 DEF AdmitQueueLength, AdmitMemory, Reject
<1>4. ASSUME NEW r \in Requests, Register(r) PROVE Monotone
  BY <1>0, <1>4 DEF Register
<1>5. ASSUME NEW r \in Requests, Enqueue(r) PROVE Monotone
  BY <1>0, <1>5 DEF Enqueue
<1>6. ASSUME NEW r \in Requests, Consume(r) PROVE Monotone
  BY <1>0, <1>6 DEF Consume
<1>7. ASSUME NEW r \in Requests, Visit(r) PROVE Monotone
  BY <1>0, <1>7 DEF Visit
<1>8. CASE QueueTimeout
  BY <1>0, <1>8 DEF QueueTimeout
<1>9. CASE BeginPrefill
  BY <1>0, <1>9 DEF BeginPrefill
<1>10. CASE AllocateFails
  BY <1>0, <1>10 DEF AllocateFails
<1>11. CASE PrefillDone
  BY <1>0, <1>11 DEF PrefillDone
<1>12. CASE PrefillFails
  BY <1>0, <1>12 DEF PrefillFails
<1>13. CASE StepCancelled
  BY <1>0, <1>13 DEF StepCancelled
<1>14. CASE StepFails
  BY <1>0, <1>14 DEF StepFails
<1>15. CASE EmitToken
  BY <1>0, <1>15 DEF EmitToken
<1>16. CASE Settle
  BY <1>0, <1>16 DEF Settle
<1>17. CASE Publish
  BY <1>0, <1>17 DEF Publish
<1>18. CASE CloseQueue
  BY <1>0, <1>18 DEF CloseQueue
<1>19. CASE Release
  BY <1>0, <1>19 DEF Release
<1> QED
  BY <1>1, <1>2, <1>3, <1>4, <1>5, <1>6, <1>7, <1>8, <1>9, <1>10, <1>11,
     <1>12, <1>13, <1>14, <1>15, <1>16, <1>17, <1>18, <1>19, SilentOrSpeaking
  DEF Speaking

-----------------------------------------------------------------------------
(* The steps preserve the handlers' invariant.                             *)

\* What a handler answers is a response.
LEMMA ResponseType ==
  /\ IInv => \A r \in Requests : Response(r) \in Responses
  /\ \A p \in Responses, c \in StatusCode : [p EXCEPT !.status = c] \in Responses
  /\ \A c \in ErrorCode : Status(c) \in {500, 503, 504}
<1>1. ASSUME NEW p \in Responses, NEW c \in StatusCode
      PROVE  [p EXCEPT !.status = c] \in Responses
  BY DEF Responses
<1>2. ASSUME NEW c \in ErrorCode PROVE Status(c) \in {500, 503, 504}
  BY DEF Status
<1>3. NoResponse \in Responses
  BY SchedulerAssumption DEF NoResponse, Responses, StatusCode, FinishReason
<1>4. ASSUME IInv, NEW r \in Requests PROVE Response(r) \in Responses
  <2>1. error[r] \in ErrorCode /\ reason[r] \in FinishReason /\ outLen[r] \in 0 .. MaxTokens
    BY <1>4 DEF IInv, TypeOK
  <2>2. [NoResponse EXCEPT !.status = Status(error[r])] \in Responses
    <3>1. Status(error[r]) \in StatusCode
      BY <1>2, <2>1 DEF StatusCode
    <3> QED
      BY <1>1, <1>3, <3>1, Zenon
  <2>3. [status |-> 200, reason |-> reason[r], tokens |-> outLen[r]] \in Responses
    BY <2>1 DEF Responses, StatusCode
  <2> QED
    BY <2>2, <2>3 DEF Response
<1> QED
  BY <1>1, <1>2, <1>4

\* Every step keeps the types: a step of the handler of r answers r or nobody.
LEMMA HTypeStep == IInv /\ HInv /\ [HNext]_allVars => HTypes'
<1> SUFFICES ASSUME IInv, HInv, [HNext]_allVars PROVE HTypes'
  OBVIOUS
<1> USE DEF HInv, HTypes, allVars, handlerVars, Goto
<1>0. ASSUME NEW r \in Requests, NEW p \in Responses,
             resp' = resp \/ resp' = [resp EXCEPT ![r] = p]
      PROVE  resp' \in [Requests -> Responses]
  BY <1>0
<1>1. CASE Main \/ Background \/ UNCHANGED allVars
  BY <1>1 DEF Main, Background
<1>2. ASSUME NEW r \in Requests, NEW c \in StatusCode,
             resp' = [resp EXCEPT ![r].status = c]
      PROVE  resp' \in [Requests -> Responses]
  <2>1. [resp[r] EXCEPT !.status = c] \in Responses
    BY ResponseType
  <2> QED
    BY <1>2, <2>1
<1>3. ASSUME NEW r \in Requests, BadRequest(r) \/ Accept(r) \/ Disconnect(r)
      PROVE  HTypes'
  BY <1>2, <1>3 DEF BadRequest, Accept, Disconnect, StatusCode
<1>4. ASSUME NEW r \in Requests, SendRole(r) PROVE HTypes'
  BY <1>4 DEF SendRole
<1>5. ASSUME NEW r \in Requests,
             CallSubmit(r) \/ Submitted(r) \/ SubmitRefused(r) \/ Lost(r)
      PROVE  HTypes'
  BY <1>2, <1>5 DEF CallSubmit, Submitted, SubmitRefused, Lost, StatusCode
<1>6. ASSUME NEW r \in Requests, PopToken(r) \/ PopNothing(r) PROVE HTypes'
  BY <1>6 DEF PopToken, PopNothing
<1>7. ASSUME NEW r \in Requests, PopTerminal(r) \/ Empty(r) PROVE HTypes'
  <2>1. Response(r) \in Responses
    BY ResponseType
  <2>2. resp' \in [Requests -> Responses]
    BY <1>0, <1>7, <2>1 DEF PopTerminal, Empty, Finish
  <2>3. \E l \in {"done", "poll", "timeout"} : hpc' = [hpc EXCEPT ![r] = l]
    BY <1>7 DEF PopTerminal, Empty, Finish
  <2> QED
    BY <2>2, <2>3
<1>8. ASSUME NEW r \in Requests, TimeOut(r) PROVE HTypes'
  <2>1. resp' \in [Requests -> Responses]
    BY <1>2, <1>8 DEF TimeOut, Status, StatusCode
  <2> QED
    BY <1>8, <2>1 DEF TimeOut
<1> QED
  BY <1>1, <1>3, <1>4, <1>5, <1>6, <1>7, <1>8 DEF HNext, Handle, Poll

\* Every step keeps the handlers where submit, the tokens and main say.
LEMMA HPlaceStep == IInv /\ HInv /\ [HNext]_allVars => HPlace'
<1> SUFFICES ASSUME IInv, HInv, [HNext]_allVars PROVE HPlace'
  OBVIOUS
<1>0. Monotone /\ [Next]_vars
  BY MonotoneStep, HandlerIsClient DEF HInv
<1> USE DEF HInv, HTypes, HPlace, handlerVars, Goto
<1>1. CASE Main
  <2>1. CASE Start
    BY <1>1, <2>1 DEF Main, Start, submitVars, requestVars
  <2>2. CASE ServerStopped /\ StopRequest
    BY <1>1, <2>2 DEF Main, ServerStopped, StopRequest, submitVars, requestVars
  <2>3. CASE StopJoined
    <3>1. \A r \in registry : hpc[r] = "done"
      BY <2>3 DEF StopJoined, IInv, TypeOK, RegistryExact
    <3> QED
      BY <1>1, <2>3, <3>1 DEF Main, StopJoined, submitVars, requestVars
  <2> QED
    BY <1>1, <2>1, <2>2, <2>3 DEF Main
<1>2. CASE Background
  <2>1. UNCHANGED <<spc, cancelled, running, main>>
    BY <1>2, DecodeFrame DEF Background, Expire, submitVars
  <2> QED
    BY <1>0, <1>2, <2>1 DEF Background, Monotone
<1>3. ASSUME NEW r \in Requests, BadRequest(r) \/ Accept(r) \/ Disconnect(r)
      PROVE  HPlace'
  BY <1>3 DEF BadRequest, Accept, Disconnect, vars
<1>4. ASSUME NEW r \in Requests, SendRole(r) PROVE HPlace'
  BY <1>4 DEF SendRole, SetCancel, vars, submitVars, requestVars
<1>5. ASSUME NEW r \in Requests, CallSubmit(r) PROVE HPlace'
  <2>1. running /\ hpc[r] = "submit" /\ hpc' = hpc
    BY <1>5 DEF CallSubmit
  <2>2. /\ UNCHANGED <<running, main, cancelled>>
        /\ \A q \in Requests \ {r} : spc'[q] = spc[q] /\ state'[q] = state[q]
        /\ spc'[r] = "refused" => state'[r] = "Rejected"
    <3>1. CASE AdmitQueueLength(r) \/ AdmitMemory(r)
      <4>1. AdmitEffect(r)
        BY <3>1, AdmitKeeps DEF IInv
      <4> QED
        BY <4>1 DEF AdmitEffect
    <3>2. CASE SubmitCheckRunning(r)
      BY <2>1, <3>2 DEF SubmitCheckRunning, requestVars, IInv, TypeOK
    <3>3. CASE Register(r) \/ Enqueue(r)
      BY <3>3 DEF Register, Enqueue, requestVars, IInv, TypeOK
    <3> QED
      BY <1>5, <3>1, <3>2, <3>3 DEF CallSubmit, Submit
  <2> QED
    BY <2>1, <2>2
<1>6. ASSUME NEW r \in Requests, Submitted(r) \/ SubmitRefused(r) \/ Empty(r)
      PROVE  HPlace'
  BY <1>6 DEF Submitted, SubmitRefused, Empty, Finish, vars
<1>7. ASSUME NEW r \in Requests, Poll(r) PROVE HPlace'
  BY <1>7 DEF Poll, PopToken, PopTerminal, PopNothing, Finish, Consume, vars,
              submitVars, requestVars
<1>8. ASSUME NEW r \in Requests, Lost(r) \/ TimeOut(r) PROVE HPlace'
  BY <1>8 DEF Lost, TimeOut, SetCancel, submitVars, requestVars
<1>9. CASE UNCHANGED allVars
  BY <1>9 DEF allVars, vars
<1> QED
  BY <1>1, <1>2, <1>3, <1>4, <1>5, <1>6, <1>7, <1>8, <1>9 DEF HNext, Handle

-----------------------------------------------------------------------------
(* What handlers leave behind and what they answer.                        *)

\* The invariants of scheduler and handlers together.
JInv == IInv /\ ResultInv /\ StreamInv /\ HInv

\* A handler that reads a terminal event or a terminal state of its request
\* finds the request finished.
LEMMA TerminalSeen ==
  ASSUME JInv, NEW r \in Requests, hpc[r] \in {"poll", "empty"},
         \/ ~PopReturnsNothing(tq[r]) /\ Head(tq[r].events) \in TerminalEvent
         \/ IsTerminal(r)
  PROVE  state[r] \in {"Completed", "Errored"} /\ IsTerminal(r)
<1>1. CASE IsTerminal(r)
  <2>1. spc[r] = "accepted"
    BY DEF JInv, HInv, HPlace
  <2> QED
    BY <1>1, <2>1 DEF JInv, ResultInv, IsTerminal, TerminalState
<1>2. CASE ~PopReturnsNothing(tq[r]) /\ Head(tq[r].events) \in TerminalEvent
  <2>1. tq[r].events \in Seq(EventType) /\ tq[r].events # <<>>
    BY <1>2 DEF JInv, IInv, TypeOK, Queue, PopReturnsNothing
  <2>2. 1 \in DOMAIN tq[r].events /\ tq[r].events[1] = Head(tq[r].events)
    BY <2>1
  <2>3. state[r] \in {"Completed", "Errored"}
    BY <1>2, <2>2 DEF JInv, StreamInv, WellFormed
  <2> QED
    BY <2>3 DEF IsTerminal, TerminalState
<1> QED
  BY <1>1, <1>2

\* The answers a step can give to the client of q.
Answer(q) ==
  \/ resp'[q] = resp[q]
  \/ resp'[q].status = 400
  \/ resp'[q].status = 503 /\ state'[q] = "Rejected"
  \/ resp'[q].status = 504 /\ q \in cancelled'
  \/ /\ resp'[q] = Response(q) /\ state[q] \in {"Completed", "Errored"}
     /\ q \notin cancelled /\ UNCHANGED <<state, reason, error, outLen>>

\* What a step does to the handler of q and its answer: a handler that has left
\* stays away and its submit is over; one that leaves an accepted request has
\* cancelled it or seen it finished.
Leaves(q) ==
  /\ hpc[q] = "done" => hpc'[q] = "done" /\ spc'[q] = spc[q]
  /\ hpc[q] # "done" /\ hpc'[q] = "done" /\ spc'[q] = "accepted" =>
       q \in cancelled' \/ IsTerminal(q)'

\* Every step of the handler of one request answers and leaves like that, and
\* no step of another thread answers or moves a handler.
LEMMA LeaveStep ==
  ASSUME JInv, [HNext]_allVars, NEW q \in Requests
  PROVE  Answer(q) /\ Leaves(q)
<1> USE DEF Answer, Leaves, JInv, HInv, HTypes, HPlace, handlerVars, Goto
<1>1. CASE Main
  BY <1>1 DEF Main, Start, StopRequest, StopJoined, submitVars
<1>2. CASE Background
  BY <1>2, DecodeFrame DEF Background, Expire, submitVars
<1>3. ASSUME NEW r \in Requests, BadRequest(r) PROVE Answer(q) /\ Leaves(q)
  <2>1. resp'[q] = resp[q] \/ resp'[q].status = 400
    BY <1>3 DEF BadRequest, Responses
  <2> QED
    BY <1>3, <2>1 DEF BadRequest, vars
<1>4. ASSUME NEW r \in Requests, Accept(r) \/ Disconnect(r) PROVE Answer(q) /\ Leaves(q)
  BY <1>4 DEF Accept, Disconnect, vars
<1>5. ASSUME NEW r \in Requests, SendRole(r) PROVE Answer(q) /\ Leaves(q)
  BY <1>5 DEF SendRole, SetCancel, vars, submitVars
<1>6. ASSUME NEW r \in Requests, CallSubmit(r) PROVE Answer(q) /\ Leaves(q)
  <2>1. \A p \in Requests \ {r} : spc'[p] = spc[p]
    BY <1>6 DEF CallSubmit, Submit, SubmitCheckRunning, AdmitQueueLength,
                AdmitMemory, Reject, Register, Enqueue, IInv, TypeOK
  <2> QED
    BY <1>6, <2>1 DEF CallSubmit
<1>7. ASSUME NEW r \in Requests, Submitted(r) PROVE Answer(q) /\ Leaves(q)
  BY <1>7 DEF Submitted, vars
<1>8. ASSUME NEW r \in Requests, SubmitRefused(r) PROVE Answer(q) /\ Leaves(q)
  <2>1. \/ resp'[q] = resp[q]
        \/ q = r /\ resp'[q].status = 503 /\ state'[q] = "Rejected"
    BY <1>8 DEF SubmitRefused, Responses, vars
  <2> QED
    BY <1>8, <2>1 DEF SubmitRefused, vars
<1>9. ASSUME NEW r \in Requests, PopToken(r) \/ PopNothing(r), hpc[r] = "poll"
      PROVE  Answer(q) /\ Leaves(q)
  BY <1>9 DEF PopToken, PopNothing, Consume, vars, submitVars
<1>10. ASSUME NEW r \in Requests, PopTerminal(r), hpc[r] = "poll"
       PROVE  Answer(q) /\ Leaves(q)
  <2>1. state[r] \in {"Completed", "Errored"} /\ IsTerminal(r)
    BY <1>10, TerminalSeen DEF PopTerminal, Consume
  <2>2. UNCHANGED <<state, reason, error, outLen, spc, cancelled>>
    BY <1>10 DEF PopTerminal, Consume, requestVars, submitVars
  <2> QED
    BY <1>10, <2>1, <2>2 DEF PopTerminal, Finish, IsTerminal
<1>11. ASSUME NEW r \in Requests, Empty(r) PROVE Answer(q) /\ Leaves(q)
  <2>1. IsTerminal(r) => state[r] \in {"Completed", "Errored"}
    BY <1>11, TerminalSeen DEF Empty
  <2>2. UNCHANGED <<state, reason, error, outLen, spc, cancelled>>
    BY <1>11 DEF Empty, vars
  <2> QED
    BY <1>11, <2>1, <2>2 DEF Empty, Finish, IsTerminal
<1>12. ASSUME NEW r \in Requests, Lost(r) PROVE Answer(q) /\ Leaves(q)
  BY <1>12 DEF Lost, SetCancel, submitVars
<1>13. ASSUME NEW r \in Requests, TimeOut(r) PROVE Answer(q) /\ Leaves(q)
  <2>1. resp'[q] = resp[q] \/ (q = r /\ resp'[q].status = 504)
    BY <1>13 DEF TimeOut, Status, Responses
  <2> QED
    BY <1>13, <2>1 DEF TimeOut, SetCancel, submitVars
<1>14. CASE UNCHANGED allVars
  BY <1>14 DEF allVars, vars
<1> QED
  BY <1>1, <1>2, <1>3, <1>4, <1>5, <1>6, <1>7, <1>8, <1>9, <1>10, <1>11,
     <1>12, <1>13, <1>14 DEF HNext, Handle, Poll

\* What a step of the composition does to the scheduler's results.
LEMMA ResultsKept == JInv /\ [HNext]_allVars => Monotone /\ KeepsResults
  BY HandlerIsClient, MonotoneStep, ResultStep DEF JInv, HInv

\* A handler never leaves a request behind that still generates.
LEMMA OrphanStep == JInv /\ NoOrphan /\ [HNext]_allVars => NoOrphan'
<1> SUFFICES ASSUME JInv, NoOrphan, [HNext]_allVars, NEW r \in Requests,
                    hpc'[r] = "done", spc'[r] = "accepted"
             PROVE  r \in cancelled' \/ IsTerminal(r)'
  BY DEF NoOrphan
<1>1. Leaves(r) /\ Monotone /\ KeepsResults
  BY LeaveStep, ResultsKept
<1>2. CASE hpc[r] = "done"
  BY <1>1, <1>2 DEF Leaves, NoOrphan, Monotone, KeepsResults, IsTerminal
<1>3. CASE hpc[r] # "done"
  BY <1>1, <1>3 DEF Leaves
<1> QED
  BY <1>2, <1>3

\* What a response says of a request, as ResponseFaithful has it.
Says(r) ==
  /\ resp[r].status = 200 =>
       /\ state[r] = "Completed"
       /\ resp[r].reason = reason[r] /\ reason[r] \in {"Stop", "Length"}
       /\ resp[r].tokens = outLen[r]
  /\ resp[r].status \in {500, 503, 504} =>
       \/ state[r] = "Rejected" /\ resp[r].status = 503
       \/ state[r] = "Errored" /\ resp[r].status = Status(error[r])
       \/ r \in cancelled /\ resp[r].status = 504

\* A response keeps saying what happened: results are final, a refusal stays
\* one and a token stays set.
LEMMA SaysKept ==
  ASSUME JInv, Monotone, KeepsResults, NEW r \in Requests, Says(r),
         resp'[r] = resp[r]
  PROVE  Says(r)'
<1>1. /\ state[r] \in {"Completed", "Errored"} => spc[r] = "accepted"
      /\ state[r] = "Rejected" => spc[r] = "refused"
  BY DEF JInv, IInv, TypeOK, StateMatchesPlace, ResultInv
<1>2. state[r] \in {"Completed", "Errored"} =>
        /\ state'[r] = state[r] /\ reason'[r] = reason[r]
        /\ error'[r] = error[r] /\ outLen'[r] = outLen[r]
  BY <1>1 DEF KeepsResults, IsTerminal, TerminalState
<1>3. state[r] = "Rejected" => state'[r] = "Rejected"
  BY <1>1 DEF Monotone
<1>4. r \in cancelled => r \in cancelled'
  BY DEF Monotone
<1> QED
  BY <1>2, <1>3, <1>4 DEF Says, Status

\* The response built from a request that is terminal and was not cancelled.
LEMMA SaysResult ==
  ASSUME JInv, NEW r \in Requests, state[r] \in {"Completed", "Errored"},
         r \notin cancelled, resp'[r] = Response(r),
         UNCHANGED <<state, reason, error, outLen>>
  PROVE  Says(r)'
<1>1. CASE error[r] = "none"
  <2>1. /\ resp'[r].status = 200 /\ resp'[r].reason = reason[r]
        /\ resp'[r].tokens = outLen[r]
    BY <1>1 DEF Response
  <2>2. state[r] = "Completed" /\ reason[r] \in {"Stop", "Length"}
    BY <1>1 DEF JInv, ResultInv
  <2> QED
    BY <2>1, <2>2 DEF Says
<1>2. CASE error[r] # "none"
  <2>1. resp'[r].status = Status(error[r])
    BY <1>2 DEF Response, NoResponse
  <2>2. Status(error[r]) # 200
    BY DEF Status
  <2>3. state[r] = "Errored"
    BY <1>2 DEF JInv, ResultInv
  <2> QED
    BY <2>1, <2>2, <2>3 DEF Says, Status
<1> QED
  BY <1>1, <1>2

\* Every step leaves the responses faithful.
LEMMA ResponseStep == JInv /\ ResponseFaithful /\ [HNext]_allVars => ResponseFaithful'
<1> SUFFICES ASSUME JInv, ResponseFaithful, [HNext]_allVars, NEW r \in Requests
             PROVE  Says(r)'
  BY DEF ResponseFaithful, Says
<1>1. Answer(r) /\ Monotone /\ KeepsResults /\ Says(r)
  BY LeaveStep, ResultsKept DEF ResponseFaithful, Says
<1>2. CASE resp'[r] = resp[r]
  BY <1>1, <1>2, SaysKept
<1>3. CASE \/ resp'[r].status = 400
           \/ resp'[r].status = 503 /\ state'[r] = "Rejected"
           \/ resp'[r].status = 504 /\ r \in cancelled'
  BY <1>3 DEF Says
<1>4. CASE /\ resp'[r] = Response(r) /\ state[r] \in {"Completed", "Errored"}
           /\ r \notin cancelled /\ UNCHANGED <<state, reason, error, outLen>>
  BY <1>4, SaysResult
<1> QED
  BY <1>1, <1>2, <1>3, <1>4 DEF Answer

-----------------------------------------------------------------------------
(* The joint invariant.                                                    *)

\* The server before the first request.
LEMMA HInitial == HInit => JInv /\ NoOrphan /\ ResponseFaithful
<1> SUFFICES ASSUME HInit PROVE JInv /\ NoOrphan /\ ResponseFaithful
  OBVIOUS
<1>1. IInv /\ ResultInv /\ StreamInv
  BY InitIInv, InitResults DEF HInit
<1>2. HTypes
  <2>1. NoResponse \in Responses
    BY SchedulerAssumption DEF NoResponse, Responses, StatusCode, FinishReason
  <2> QED
    BY <2>1 DEF HInit, HTypes
<1>3. HPlace
  BY DEF HInit, Init, HPlace
<1>4. NoOrphan /\ ResponseFaithful
  BY DEF HInit, NoOrphan, ResponseFaithful, NoResponse
<1> QED
  BY <1>1, <1>2, <1>3, <1>4 DEF JInv, HInv

\* Every step of the composition preserves the joint invariant.
LEMMA JInvStep == JInv /\ [HNext]_allVars => JInv'
<1> SUFFICES ASSUME JInv, [HNext]_allVars PROVE JInv'
  OBVIOUS
<1>1. [Next]_vars
  BY HandlerIsClient DEF JInv, HInv
<1>2. IInv' /\ ResultInv' /\ StreamInv'
  BY <1>1, IInvStep, ResultInvStep, StreamStep DEF JInv
<1>3. HInv'
  BY HTypeStep, HPlaceStep DEF JInv, HInv
<1> QED
  BY <1>2, <1>3 DEF JInv

\* The joint invariant holds in every reachable state.
LEMMA JInvariance == HSafety => []JInv
  BY HInitial, JInvStep, PTL DEF HSafety

-----------------------------------------------------------------------------
(* What happens to every token.                                            *)

\* The types of what a stream consists of.
OutTypes == out \in [Requests -> Seq(Chunk)] /\ skipped \in [Requests -> Nat]

\* The tokens that wait in a queue, which has at most one event that is none.
Unread(q) == IF TokensOnly(q) THEN Len(q.events) ELSE Len(q.events) - 1

\* The token that is sampled and not yet pushed.
Debt(r) == IF r = cur /\ dpc = "emit" THEN 1 ELSE 0

\* The terminal event of r has been pushed, or dropped.
Published(r) ==
  state[r] \in {"Completed", "Errored"} /\ ~(r = cur /\ dpc = "publish")

\* The tokens of r that have left the queue, or never entered it.
Handled(r) == TokensSent(r) + skipped[r] + tq[r].dropped

\* While the handler reads and the terminal event is still to come, every token
\* is handled, unread, or about to be pushed; a stream with a finish_reason has
\* handled all of them, and nothing can be pushed any more.
Account(r) ==
  /\ /\ r \in Streaming /\ hpc[r] \notin {"lost", "done"}
     /\ Published(r) => ~TokensOnly(tq[r])
     => Handled(r) + Unread(tq[r]) + Debt(r) = outLen[r]
  /\ "finish" \in Elems(out[r]) =>
       /\ hpc[r] = "done" /\ state[r] = "Completed" /\ Published(r)
       /\ Handled(r) = outLen[r]

AccountInv == OutTypes /\ \A r \in Requests : Account(r)

\* The positions of the tokens in a stream.
TokenPositions(s) == {i \in DOMAIN s : s[i] = "token"}

\* Chunks without a token leave the number of tokens alone, a token adds one.
LEMMA SendCounts ==
  ASSUME NEW s \in Seq(Chunk), NEW t \in Seq(Chunk)
  PROVE  /\ s \o t \in Seq(Chunk) /\ Elems(s \o t) = Elems(s) \cup Elems(t)
         /\ IsFiniteSet(TokenPositions(s)) /\ Cardinality(TokenPositions(s)) \in Nat
         /\ "token" \notin Elems(t) => TokenPositions(s \o t) = TokenPositions(s)
         /\ Len(t) = 1 /\ t[1] = "token" =>
              Cardinality(TokenPositions(s \o t)) = Cardinality(TokenPositions(s)) + 1
<1> DEFINE u == s \o t
           n == Len(s)
           m == Len(t)
<1>1. /\ u \in Seq(Chunk) /\ n \in Nat /\ m \in Nat
      /\ DOMAIN s = 1 .. n /\ DOMAIN t = 1 .. m /\ DOMAIN u = 1 .. n + m
      /\ \A i \in 1 .. n : u[i] = s[i]
      /\ \A i \in 1 .. m : u[n + i] = t[i]
  BY ConcatProperties, LenProperties
<1> HIDE DEF u, n, m
<1>2. \A i \in 1 .. n + m : i \in 1 .. n \/ (i - n \in 1 .. m /\ i = n + (i - n))
  BY <1>1
<1>3. \A i \in 1 .. n : i \in 1 .. n + m
  BY <1>1
<1>4. \A i \in 1 .. m : n + i \in 1 .. n + m /\ n + i \notin 1 .. n
  BY <1>1
<1>5. Elems(u) = Elems(s) \cup Elems(t)
  <2>1. \A i \in DOMAIN u : u[i] \in Elems(s) \cup Elems(t)
    <3> SUFFICES ASSUME NEW i \in 1 .. n + m PROVE u[i] \in Elems(s) \cup Elems(t)
      BY <1>1
    <3>1. CASE i \in 1 .. n
      BY <1>1, <3>1 DEF Elems
    <3>2. CASE i - n \in 1 .. m /\ i = n + (i - n)
      <4>1. u[i] = t[i - n]
        BY <1>1, <3>2
      <4> QED
        BY <1>1, <3>2, <4>1 DEF Elems
    <3> QED
      BY <1>2, <3>1, <3>2
  <2>2. \A i \in DOMAIN s : s[i] \in Elems(u)
    BY <1>1, <1>3 DEF Elems
  <2>3. \A i \in DOMAIN t : t[i] \in Elems(u)
    BY <1>1, <1>4 DEF Elems
  <2>4. \A x : x \in Elems(s) \cup Elems(t) => x \in Elems(u)
    BY <2>2, <2>3 DEF Elems
  <2>5. \A x : x \in Elems(u) => x \in Elems(s) \cup Elems(t)
    BY <2>1 DEF Elems
  <2> QED
    BY <2>4, <2>5
<1>6. IsFiniteSet(TokenPositions(s)) /\ Cardinality(TokenPositions(s)) \in Nat
  <2>1. IsFiniteSet(1 .. n)
    BY <1>1, FS_Interval
  <2>2. TokenPositions(s) \subseteq 1 .. n
    BY <1>1 DEF TokenPositions
  <2> QED
    BY <2>1, <2>2, FS_Subset, FS_CardinalityType
<1>7. "token" \notin Elems(t) => TokenPositions(u) = TokenPositions(s)
  <2> SUFFICES ASSUME \A i \in 1 .. m : t[i] # "token"
               PROVE  TokenPositions(u) = TokenPositions(s)
    BY <1>1 DEF Elems
  <2>1. \A i \in 1 .. n + m : u[i] = "token" => i \in 1 .. n
    BY <1>1, <1>2
  <2> QED
    BY <1>1, <1>3, <2>1 DEF TokenPositions
<1>8. ASSUME m = 1, t[1] = "token"
      PROVE  Cardinality(TokenPositions(u)) = Cardinality(TokenPositions(s)) + 1
  <2>1. u[n + 1] = "token" /\ n + 1 \in 1 .. n + m /\ n + 1 \notin 1 .. n
    BY <1>1, <1>4, <1>8
  <2>2. \A i \in 1 .. n + m : i \in 1 .. n \/ i = n + 1
    BY <1>1, <1>8
  <2>3. TokenPositions(u) = TokenPositions(s) \cup {n + 1}
    BY <1>1, <1>3, <2>1, <2>2 DEF TokenPositions
  <2>4. n + 1 \notin TokenPositions(s)
    BY <1>1, <2>1 DEF TokenPositions
  <2> QED
    BY <1>6, <2>3, <2>4, FS_AddElement
<1> QED
  BY <1>1, <1>5, <1>6, <1>7, <1>8 DEF u, m

\* push of an event onto an open queue of tokens: it is unread, or counted.
LEMMA PushCounts ==
  ASSUME NEW q \in Queue, NEW e \in EventType, TokensOnly(q), ~q.closed
  PROVE  LET p == Push(q, e)
         IN  /\ e = "Token" => p.dropped + Unread(p) = q.dropped + Unread(q) + 1
             /\ e # "Token" /\ ~TokensOnly(p) =>
                  p.dropped + Unread(p) = q.dropped + Unread(q)
<1> DEFINE a == [q EXCEPT !.events = Append(@, e)]
           d == [q EXCEPT !.dropped = @ + 1]
           es == q.events
<1>1. es \in Seq(EventType) /\ Len(es) \in Nat /\ q.dropped \in Nat
  BY DEF Queue
<1>2. /\ a.events = Append(es, e) /\ a.dropped = q.dropped
      /\ d.events = es /\ d.dropped = q.dropped + 1
  BY DEF Queue
<1>3. /\ Len(Append(es, e)) = Len(es) + 1
      /\ DOMAIN Append(es, e) = 1 .. Len(es) + 1 /\ DOMAIN es = 1 .. Len(es)
      /\ Append(es, e)[Len(es) + 1] = e
      /\ \A i \in 1 .. Len(es) : Append(es, e)[i] = es[i]
  BY <1>1
<1>4. Push(q, e) = a \/ Push(q, e) = d
  BY DEF Push
<1> HIDE DEF a, d, es
<1>5. Unread(q) = Len(es)
  BY DEF Unread, es
<1>6. TokensOnly(d) /\ Unread(d) = Len(es)
  BY <1>2 DEF Unread, TokensOnly, es
<1>7. TokensOnly(a) <=> e = "Token"
  <2>1. \A i \in 1 .. Len(es) : es[i] = "Token"
    BY <1>3 DEF TokensOnly, es
  <2>2. Len(es) + 1 \in 1 .. Len(es) + 1
    BY <1>1
  <2>3. \A i \in 1 .. Len(es) + 1 : i \in 1 .. Len(es) \/ i = Len(es) + 1
    BY <1>1
  <2> QED
    BY <1>2, <1>3, <2>1, <2>2, <2>3 DEF TokensOnly
<1>8. Unread(a) = IF e = "Token" THEN Len(es) + 1 ELSE Len(es)
  BY <1>1, <1>2, <1>3, <1>7 DEF Unread
<1> QED
  BY <1>1, <1>2, <1>4, <1>5, <1>6, <1>7, <1>8

\* pop of a token: one less is unread, and of the terminal event: none is left.
LEMMA PopCounts ==
  ASSUME NEW q \in Queue, NEW s, WellFormed(q, s), ~PopReturnsNothing(q)
  PROVE  /\ Pop(q).dropped = q.dropped /\ Unread(q) \in Nat
         /\ Head(q.events) = "Token" => /\ Unread(Pop(q)) = Unread(q) - 1
                                        /\ TokensOnly(Pop(q)) <=> TokensOnly(q)
         /\ Head(q.events) \in TerminalEvent => Unread(q) = 0 /\ ~TokensOnly(q)
<1> DEFINE es == q.events
           t == Tail(es)
<1>1. /\ es \in Seq(EventType) /\ es # <<>> /\ q.dropped \in Nat
      /\ Pop(q).events = t /\ Pop(q).dropped = q.dropped
  BY DEF Queue, Pop, PopReturnsNothing
<1>2. /\ Len(es) \in Nat \ {0} /\ DOMAIN es = 1 .. Len(es)
      /\ Len(t) = Len(es) - 1 /\ DOMAIN t = 1 .. Len(es) - 1
      /\ \A i \in DOMAIN t : t[i] = es[i + 1] /\ i + 1 \in DOMAIN es
      /\ Head(es) = es[1] /\ 1 \in DOMAIN es
      /\ \A i \in DOMAIN es : i # 1 => i - 1 \in DOMAIN t /\ t[i - 1] = es[i]
  BY <1>1
<1>3. Unread(q) \in Nat
  BY <1>2 DEF Unread
<1>4. ASSUME Head(es) = "Token" PROVE TokensOnly(Pop(q)) <=> TokensOnly(q)
  BY <1>1, <1>2, <1>4 DEF TokensOnly
<1>5. ASSUME Head(es) = "Token" PROVE Unread(Pop(q)) = Unread(q) - 1
  BY <1>1, <1>2, <1>4, <1>5 DEF Unread
<1>6. ASSUME Head(es) \in TerminalEvent PROVE Unread(q) = 0 /\ ~TokensOnly(q)
  <2>1. Len(es) = 1
    BY <1>2, <1>6 DEF WellFormed
  <2>2. ~TokensOnly(q)
    BY <1>2, <1>6 DEF TokensOnly, TerminalEvent
  <2> QED
    BY <2>1, <2>2 DEF Unread
<1> QED
  BY <1>1, <1>3, <1>4, <1>5, <1>6

\* What a step of the scheduler does to the tokens of q: nothing, counting one
\* that is sampled and not yet pushed; or it pushes an event of q.
Kept(q) ==
  /\ tq'[q].events = tq[q].events /\ tq'[q].dropped = tq[q].dropped
  /\ outLen'[q] - Debt(q)' = outLen[q] - Debt(q)

Pushed(q) ==
  /\ q = cur /\ ~Published(q) /\ outLen'[q] = outLen[q]
  /\ TokensOnly(tq[q]) /\ ~tq[q].closed
  /\ \E e \in EventType :
       /\ tq'[q] = Push(tq[q], e)
       /\ IF e = "Token" THEN Debt(q) = 1 /\ Debt(q)' = 0
          ELSE Debt(q) = 0 /\ Debt(q)' = 0 /\ Published(q)'

\* A step that does not pop the queue of q.
Elsewhere(q) ==
  \/ Start \/ StopRequest \/ StopJoined \/ DecodeLoop \/ UNCHANGED vars
  \/ \E r \in Requests :
       \/ Submit(r) \/ ClientCancel(r) \/ Cancel(r) \/ Expire(r)
       \/ r # q /\ Consume(r)

\* It keeps or pushes.
LEMMA BookStep ==
  ASSUME IInv, StreamInv, NEW q \in Requests, Elsewhere(q)
  PROVE  Kept(q) \/ Pushed(q)
<1>0. /\ dpc \notin {"exited", "loop", "queue", "round"} => cur \in Requests
      /\ dpc \in {"emit", "settle"} => ~IsTerminal(cur)
      /\ main \in {"init", "down"} => dpc = "exited"
      /\ outLen[q] \in Nat /\ tq[q] \in Queue /\ tq[q].dropped \in Nat
      /\ outLen \in [Requests -> 0 .. MaxTokens] /\ tq \in [Requests -> Queue]
      /\ dpc = "publish" => state[cur] \in {"Completed", "Errored"}
  <2>1. dpc \notin {"exited", "loop", "queue", "round"} => cur \in Requests
    BY Facts
  <2>2. dpc \in {"emit", "settle"} => ~IsTerminal(cur)
    BY <2>1, CurIsLive DEF CurLive, Finishing
  <2>3. main \in {"init", "down"} => dpc = "exited"
    BY DEF IInv, StateMatchesPlace
  <2>4. outLen \in [Requests -> 0 .. MaxTokens] /\ tq \in [Requests -> Queue]
    BY DEF IInv, TypeOK
  <2>5. outLen[q] \in Nat /\ tq[q] \in Queue /\ tq[q].dropped \in Nat
    BY <2>4, SchedulerAssumption DEF Queue
  <2>6. dpc = "publish" => state[cur] \in {"Completed", "Errored"}
    BY DEF IInv, StateMatchesPlace, Finishing
  <2> QED
    BY <2>1, <2>2, <2>3, <2>4, <2>5, <2>6
<1>1. ASSUME UNCHANGED <<tq, outLen>>, UNCHANGED <<dpc, cur>> \/ "emit" \notin {dpc, dpc'}
      PROVE  Kept(q)
  BY <1>0, <1>1 DEF Kept, Debt
<1> USE DEF submitVars, requestVars, decodeVars, statVars
<1>2. CASE Start \/ StopRequest \/ StopJoined
  BY <1>0, <1>1, <1>2 DEF Start, StopRequest, StopJoined
<1>3. ASSUME NEW r \in Requests,
             SubmitCheckRunning(r) \/ AdmitQueueLength(r) \/ AdmitMemory(r)
      PROVE  Kept(q)
  BY <1>1, <1>3 DEF SubmitCheckRunning, AdmitQueueLength, AdmitMemory
<1>4. ASSUME NEW r \in Requests, Register(r) \/ Enqueue(r) PROVE Kept(q)
  BY <1>1, <1>4 DEF Register, Enqueue
<1>5. ASSUME NEW r \in Requests, ClientCancel(r) \/ Cancel(r) \/ Expire(r) PROVE Kept(q)
  BY <1>1, <1>5 DEF ClientCancel, Cancel, Expire
<1>6. ASSUME NEW r \in Requests, r # q, Consume(r) PROVE Kept(q)
  <2>1. tq'[q] = tq[q] /\ UNCHANGED <<outLen, dpc, cur>>
    BY <1>0, <1>6 DEF Consume
  <2> QED
    BY <2>1 DEF Kept, Debt
<1>7. CASE LoopTop \/ ProcessQueuePop \/ ProcessQueueDone \/ RoundDone
  BY <1>1, <1>7 DEF LoopTop, ProcessQueuePop, ProcessQueueDone, RoundDone
<1>8. CASE QueueTimeout \/ BeginPrefill \/ AllocateKV \/ AllocateFails
  BY <1>1, <1>8 DEF QueueTimeout, BeginPrefill, AllocateKV, AllocateFails, Fail
<1>9. CASE PrefillDone \/ PrefillFails
  BY <1>1, <1>9 DEF PrefillDone, PrefillFails, Fail
<1>10. ASSUME NEW r \in Requests, Visit(r) PROVE Kept(q)
  BY <1>1, <1>10 DEF Visit, Complete, Fail
<1>11. CASE StepCancelled \/ StepFails
  BY <1>1, <1>11 DEF StepCancelled, StepFails, Complete, Fail
<1>12. CASE StepToken
  <2>1. /\ tq' = tq /\ cur' = cur /\ dpc = "step" /\ dpc' = "emit"
        /\ outLen' = [outLen EXCEPT ![cur] = @ + 1]
    BY <1>12 DEF StepToken
  <2>2. outLen'[q] = IF q = cur THEN outLen[q] + 1 ELSE outLen[q]
    BY <1>0, <2>1
  <2> QED
    BY <1>0, <2>1, <2>2 DEF Kept, Debt
<1>13. CASE EmitToken
  <2>1. /\ dpc = "emit" /\ dpc' \in {"settle", "round"} /\ outLen' = outLen
        /\ tq' = [tq EXCEPT ![cur] = Push(@, "Token")]
    BY <1>13 DEF EmitToken, Complete
  <2>2. CASE q = cur
    <3>1. tq'[q] = Push(tq[q], "Token") /\ ~IsTerminal(q)
      BY <1>0, <2>1, <2>2
    <3>2. TokensOnly(tq[q]) /\ ~tq[q].closed
      BY <3>1 DEF StreamInv
    <3>3. ~Published(q)
      BY <3>1 DEF Published, IsTerminal, TerminalState
    <3> QED
      BY <2>1, <2>2, <3>1, <3>2, <3>3 DEF Pushed, Debt, EventType
  <2>3. CASE q # cur
    <3>1. tq'[q] = tq[q]
      BY <1>0, <2>1, <2>3
    <3> QED
      BY <1>0, <2>1, <2>3, <3>1 DEF Kept, Debt
  <2> QED
    BY <2>2, <2>3
<1>14. CASE Settle
  BY <1>1, <1>14 DEF Settle
<1>15. CASE Publish
  <2> DEFINE e == IF state[cur] = "Completed" THEN "Complete" ELSE "Error"
  <2>1. /\ dpc = "publish" /\ dpc' = "close" /\ cur' = cur /\ UNCHANGED <<outLen, state>>
        /\ tq' = [tq EXCEPT ![cur] = Push(@, e)]
        /\ e \in EventType /\ e # "Token"
    BY <1>15 DEF Publish, EventType
  <2> HIDE DEF e
  <2>2. CASE q = cur
    <3>1. tq'[q] = Push(tq[q], e)
      BY <1>0, <2>1, <2>2
    <3>2. TokensOnly(tq[q]) /\ ~tq[q].closed
      BY <2>1, <2>2 DEF StreamInv
    <3>3. ~Published(q) /\ Published(q)' /\ Debt(q) = 0 /\ Debt(q)' = 0
      BY <1>0, <2>1, <2>2 DEF Published, Debt
    <3> QED
      BY <2>1, <2>2, <3>1, <3>2, <3>3 DEF Pushed
  <2>3. CASE q # cur
    <3>1. tq'[q] = tq[q]
      BY <1>0, <2>1, <2>3
    <3> QED
      BY <1>0, <2>1, <2>3, <3>1 DEF Kept, Debt
  <2> QED
    BY <2>2, <2>3
<1>16. CASE CloseQueue
  <2>1. /\ dpc = "close" /\ dpc' = "free" /\ cur' = cur /\ outLen' = outLen
        /\ tq' = [tq EXCEPT ![cur] = Close(@)]
    BY <1>16 DEF CloseQueue
  <2>2. tq'[q].events = tq[q].events /\ tq'[q].dropped = tq[q].dropped
    BY <1>0, <2>1 DEF Close, Queue
  <2> QED
    BY <1>0, <2>1, <2>2 DEF Kept, Debt
<1>17. CASE Release
  BY <1>1, <1>17 DEF Release
<1>18. CASE UNCHANGED vars
  BY <1>1, <1>18 DEF vars
<1> QED
  BY <1>2, <1>3, <1>4, <1>5, <1>6, <1>7, <1>8, <1>9, <1>10, <1>11, <1>12, <1>13,
     <1>14, <1>15, <1>16, <1>17, <1>18 DEF Elsewhere, DecodeLoop, Submit

\* What is published stays so, with its state and its number of tokens.
LEMMA PublishedKept ==
  ASSUME IInv, ResultInv, [Next]_vars, NEW q \in Requests, Published(q)
  PROVE  Published(q)' /\ state'[q] = state[q] /\ outLen'[q] = outLen[q]
<1>1. state[q] \in {"Completed", "Errored"}
  BY DEF Published
<1>2. spc[q] = "accepted" /\ IsTerminal(q)
  BY <1>1 DEF IInv, TypeOK, StateMatchesPlace, IsTerminal, TerminalState
<1>3. state'[q] = state[q] /\ outLen'[q] = outLen[q]
  BY <1>2, ResultStep DEF KeepsResults
<1>4. ~(q = cur' /\ dpc' = "publish")
  <2>1. CASE Silent
    BY <2>1 DEF Silent, Ending, Published
  <2>2. ASSUME Speaking, dpc' = "publish" PROVE Settle \/ UNCHANGED <<dpc, cur>>
    BY <2>2 DEF Speaking, SubmitCheckRunning, AdmitQueueLength, AdmitMemory, Register,
       Enqueue, Consume, Visit, QueueTimeout, BeginPrefill, AllocateFails, PrefillDone,
       PrefillFails, StepCancelled, StepFails, EmitToken, Publish, CloseQueue, Release,
       Complete, Fail, decodeVars
  <2>3. ASSUME Settle PROVE cur' # q
    BY <1>2, <2>3, CurIsLive DEF Settle, CurLive, Finishing
  <2> QED
    BY <2>1, <2>2, <2>3, SilentOrSpeaking DEF Published
<1> QED
  BY <1>1, <1>3, <1>4 DEF Published

\* What a step does to the stream of q when its handler pops nothing: a chunk
\* that is neither a token nor the finish_reason, or none.
SentKept(q) ==
  /\ TokensSent(q)' = TokensSent(q)
  /\ "finish" \in Elems(out'[q]) => "finish" \in Elems(out[q])

StreamKept(q) ==
  /\ SentKept(q) /\ skipped'[q] = skipped[q]
  /\ hpc[q] = "done" => hpc'[q] = "done"
  /\ hpc[q] = "lost" => hpc'[q] \in {"lost", "done"}

\* A write to the stream of r.
LEMMA SendKept ==
  ASSUME OutTypes, NEW r \in Requests, NEW q \in Requests, NEW c \in Seq(Chunk),
         "token" \notin Elems(c), r = q => "finish" \notin Elems(c),
         Send(r, c) \/ out' = out
  PROVE  out' \in [Requests -> Seq(Chunk)] /\ SentKept(q)
<1>1. CASE out' = out
  BY <1>1 DEF OutTypes, SentKept, TokensSent
<1>2. CASE Send(r, c)
  <2>1. out' = [out EXCEPT ![r] = out[r] \o c] /\ out[r] \in Seq(Chunk)
    BY <1>2 DEF Send, OutTypes
  <2>2. /\ out[r] \o c \in Seq(Chunk) /\ Elems(out[r] \o c) = Elems(out[r]) \cup Elems(c)
        /\ TokenPositions(out[r] \o c) = TokenPositions(out[r])
    BY <2>1, SendCounts
  <2>3. out' \in [Requests -> Seq(Chunk)]
    BY <2>1, <2>2 DEF OutTypes
  <2>4. CASE q = r
    <3>1. out'[q] = out[q] \o c
      BY <2>1, <2>4 DEF OutTypes
    <3> QED
      BY <2>2, <2>3, <2>4, <3>1 DEF SentKept, TokensSent, TokenPositions
  <2>5. CASE q # r
    <3>1. out'[q] = out[q]
      BY <2>1, <2>5 DEF OutTypes
    <3> QED
      BY <2>3, <3>1 DEF SentKept, TokensSent
  <2> QED
    BY <2>4, <2>5
<1> QED
  BY <1>1, <1>2

\* The chunks that are written besides tokens.
LEMMA ChunkFacts ==
  /\ <<"role">> \in Seq(Chunk) /\ Elems(<<"role">>) = {"role"}
  /\ \A x \in Chunk : <<x, "DONE">> \in Seq(Chunk) /\ Elems(<<x, "DONE">>) = {x, "DONE"}
  BY DEF Chunk, Elems

\* Other threads, and other handlers, do not write to the stream of q.
LEMMA HandlerBook ==
  ASSUME JInv, OutTypes, [HNext]_allVars, NEW q \in Requests
  PROVE  \/ OutTypes' /\ StreamKept(q) /\ Elsewhere(q)
         \/ hpc[q] = "poll" /\ (PopToken(q) \/ PopTerminal(q))
<1>0. hpc \in [Requests -> {"idle", "role", "submit", "poll", "lost", "empty",
                           "timeout", "done"}]
  BY DEF JInv, HInv, HTypes
<1>1. ASSUME UNCHANGED <<out, skipped>>, hpc[q] = "done" => hpc'[q] = "done",
             hpc[q] = "lost" => hpc'[q] \in {"lost", "done"}
      PROVE  OutTypes' /\ StreamKept(q)
  BY <1>1 DEF StreamKept, SentKept, TokensSent, OutTypes
<1> USE DEF handlerVars, Goto
<1>2. CASE Main \/ Background
  BY <1>1, <1>2 DEF Main, Background, Elsewhere
<1>3. ASSUME NEW r \in Requests, BadRequest(r) \/ Accept(r) \/ Disconnect(r)
      PROVE  OutTypes' /\ StreamKept(q) /\ Elsewhere(q)
  <2>1. Elsewhere(q) /\ UNCHANGED <<out, skipped>>
    BY <1>3 DEF BadRequest, Accept, Disconnect, Elsewhere
  <2>2. hpc[r] = "idle" \/ hpc' = hpc
    BY <1>3 DEF BadRequest, Accept, Disconnect
  <2>3. hpc' = hpc \/ \E l \in {"done", "role", "submit"} : hpc' = [hpc EXCEPT ![r] = l]
    BY <1>3 DEF BadRequest, Accept, Disconnect
  <2>4. hpc'[q] = hpc[q] \/ hpc[q] = "idle"
    BY <1>0, <2>2, <2>3
  <2> QED
    BY <1>1, <2>1, <2>4
<1>4. ASSUME NEW r \in Requests, SendRole(r)
      PROVE  OutTypes' /\ StreamKept(q) /\ Elsewhere(q)
  <2>1. /\ skipped' = skipped /\ hpc[r] = "role"
        /\ Send(r, <<"role">>) \/ out' = out
        /\ \E l \in {"submit", "done"} : hpc' = [hpc EXCEPT ![r] = l]
    BY <1>4 DEF SendRole
  <2>2. out' \in [Requests -> Seq(Chunk)] /\ SentKept(q)
    <3>1. "token" \notin {"role"} /\ "finish" \notin {"role"}
      OBVIOUS
    <3> QED
      BY <2>1, <3>1, ChunkFacts, SendKept
  <2>3. UNCHANGED vars \/ ClientCancel(r)
    BY <1>4, SetCancelIsClient DEF SendRole, JInv, HInv
  <2>4. Elsewhere(q)
    BY <2>3 DEF Elsewhere
  <2>5. hpc[r] = "role" /\ skipped' = skipped /\ \E l : hpc' = [hpc EXCEPT ![r] = l]
    BY <2>1
  <2>6. hpc'[q] = hpc[q] \/ hpc[q] = "role"
    BY <1>0, <2>5
  <2> QED
    BY <2>2, <2>4, <2>5, <2>6 DEF StreamKept, OutTypes
<1>5. ASSUME NEW r \in Requests,
             CallSubmit(r) \/ Submitted(r) \/ SubmitRefused(r) \/ Empty(r) \/ PopNothing(r),
             hpc[r] \notin {"lost", "done"}
      PROVE  OutTypes' /\ StreamKept(q) /\ Elsewhere(q)
  <2>1. UNCHANGED <<out, skipped>>
    BY <1>5 DEF CallSubmit, Submitted, SubmitRefused, Empty, PopNothing
  <2>2. Elsewhere(q)
    BY <1>5 DEF CallSubmit, Submitted, SubmitRefused, Empty, PopNothing, Elsewhere
  <2>3. hpc' = hpc \/ \E l : hpc' = [hpc EXCEPT ![r] = l]
    BY <1>5 DEF CallSubmit, Submitted, SubmitRefused, Empty, Finish, PopNothing
  <2>4. hpc'[q] = hpc[q] \/ hpc[q] \notin {"lost", "done"}
    BY <1>0, <1>5, <2>3
  <2> QED
    BY <1>1, <2>1, <2>2, <2>4
<1>6. ASSUME NEW r \in Requests, r # q, PopToken(r) \/ PopTerminal(r)
      PROVE  OutTypes' /\ StreamKept(q) /\ Elsewhere(q)
  <2>1. Elsewhere(q)
    BY <1>6 DEF PopToken, PopTerminal, Elsewhere
  <2>2. /\ skipped' \in [Requests -> Nat] /\ skipped'[q] = skipped[q]
        /\ hpc'[q] = hpc[q]
    <3>1. skipped' = skipped \/ skipped' = [skipped EXCEPT ![r] = @ + 1]
      BY <1>6 DEF PopToken, PopTerminal
    <3>2. hpc' = hpc \/ \E l : hpc' = [hpc EXCEPT ![r] = l]
      BY <1>6 DEF PopToken, PopTerminal, Finish
    <3> QED
      BY <1>0, <1>6, <3>1, <3>2 DEF OutTypes
  <2>3. out' \in [Requests -> Seq(Chunk)] /\ out'[q] = out[q]
    <3>1. \E c \in Seq(Chunk) : Send(r, c) \/ out' = out
      <4>1. <<"token">> \in Seq(Chunk)
        BY DEF Chunk
      <4>2. "finish" \in Chunk /\ "error" \in Chunk
        BY DEF Chunk
      <4> QED
        BY <1>6, <4>1, <4>2, ChunkFacts DEF PopToken, PopTerminal
    <3>2. PICK c \in Seq(Chunk) : Send(r, c) \/ out' = out
      BY <3>1
    <3>3. out[r] \o c \in Seq(Chunk)
      BY SendCounts DEF OutTypes
    <3>4. out' = out \/ out' = [out EXCEPT ![r] = out[r] \o c]
      BY <3>2 DEF Send
    <3> QED
      BY <1>6, <3>3, <3>4 DEF OutTypes
  <2> QED
    BY <2>1, <2>2, <2>3 DEF StreamKept, SentKept, TokensSent, OutTypes
<1>7. ASSUME NEW r \in Requests, Lost(r)
      PROVE  OutTypes' /\ StreamKept(q) /\ Elsewhere(q)
  <2>1. ClientCancel(r)
    BY <1>7, SetCancelIsClient DEF Lost, JInv, HInv
  <2>2. Elsewhere(q)
    BY <2>1 DEF Elsewhere
  <2>3. UNCHANGED <<out, skipped>> /\ hpc' = [hpc EXCEPT ![r] = "done"]
    BY <1>7 DEF Lost
  <2>4. hpc'[q] = hpc[q] \/ hpc'[q] = "done"
    BY <1>0, <2>3
  <2> QED
    BY <1>1, <2>2, <2>3, <2>4
<1>8. ASSUME NEW r \in Requests, TimeOut(r)
      PROVE  OutTypes' /\ StreamKept(q) /\ Elsewhere(q)
  <2>1. ClientCancel(r)
    BY <1>8, SetCancelIsClient DEF TimeOut, JInv, HInv
  <2>2. Send(r, <<"error", "DONE">>) \/ out' = out
    BY <1>8 DEF TimeOut
  <2>3. out' \in [Requests -> Seq(Chunk)] /\ SentKept(q)
    <3>1. <<"error", "DONE">> \in Seq(Chunk) /\ Elems(<<"error", "DONE">>) = {"error", "DONE"}
      BY ChunkFacts DEF Chunk
    <3>2. "token" \notin {"error", "DONE"} /\ "finish" \notin {"error", "DONE"}
      OBVIOUS
    <3> QED
      BY <2>2, <3>1, <3>2, SendKept
  <2>4. Elsewhere(q)
    BY <2>1 DEF Elsewhere
  <2>5. skipped' = skipped /\ hpc' = [hpc EXCEPT ![r] = "done"]
    BY <1>8 DEF TimeOut
  <2>6. hpc'[q] = hpc[q] \/ hpc'[q] = "done"
    BY <1>0, <2>5
  <2> QED
    BY <2>3, <2>4, <2>5, <2>6 DEF StreamKept, OutTypes
<1>9. CASE UNCHANGED allVars
  BY <1>1, <1>9 DEF allVars, Elsewhere
<1>10. ASSUME NEW r \in Requests, Handle(r)
       PROVE  \/ OutTypes' /\ StreamKept(q) /\ Elsewhere(q)
              \/ hpc[q] = "poll" /\ (PopToken(q) \/ PopTerminal(q))
  <2>1. ASSUME CallSubmit(r) \/ Submitted(r) \/ SubmitRefused(r) \/ Empty(r)
               \/ (hpc[r] = "poll" /\ PopNothing(r))
        PROVE  hpc[r] \notin {"lost", "done"}
    BY <2>1 DEF CallSubmit, Submitted, SubmitRefused, Empty
  <2> QED
    BY <1>4, <1>5, <1>6, <1>7, <1>8, <1>10, <2>1 DEF Handle, Poll
<1> QED
  BY <1>2, <1>3, <1>9, <1>10 DEF HNext

\* The numbers an account adds up.
LEMMA AccountTypes ==
  ASSUME JInv, OutTypes, NEW q \in Requests
  PROVE  /\ TokensSent(q) \in Nat /\ skipped[q] \in Nat /\ tq[q] \in Queue
         /\ tq[q].dropped \in Nat /\ outLen[q] \in Nat /\ Debt(q) \in {0, 1}
         /\ Unread(tq[q]) \in Int
<1>1. tq[q] \in Queue /\ outLen[q] \in Nat
  BY SchedulerAssumption DEF JInv, IInv, TypeOK
<1>2. tq[q].dropped \in Nat /\ Len(tq[q].events) \in Nat
  BY <1>1 DEF Queue
<1>3. out[q] \in Seq(Chunk) /\ skipped[q] \in Nat /\ <<>> \in Seq(Chunk)
  BY DEF OutTypes
<1>4. TokensSent(q) \in Nat
  BY <1>3, SendCounts DEF TokensSent, TokenPositions
<1> QED
  BY <1>1, <1>2, <1>3, <1>4 DEF Debt, Unread

\* The handler of q pops nothing.
LEMMA AccountElsewhere ==
  ASSUME JInv, JInv', OutTypes, OutTypes', NEW q \in Requests, Account(q),
         StreamKept(q), Elsewhere(q), [Next]_vars
  PROVE  Account(q)'
<1>1. Kept(q) \/ Pushed(q)
  BY BookStep DEF JInv
<1>2. Published(q) => Published(q)' /\ state'[q] = state[q] /\ outLen'[q] = outLen[q]
  BY PublishedKept DEF JInv
<1>3. /\ TokensSent(q) \in Nat /\ skipped[q] \in Nat /\ tq[q] \in Queue
      /\ tq[q].dropped \in Nat /\ outLen[q] \in Nat /\ Debt(q) \in {0, 1}
      /\ Unread(tq[q]) \in Int
  BY AccountTypes
<1>4. /\ tq'[q] \in Queue /\ tq'[q].dropped \in Nat /\ outLen'[q] \in Nat
      /\ Debt(q)' \in {0, 1} /\ Unread(tq'[q]) \in Int
  <2>1. tq'[q] \in Queue /\ outLen'[q] \in Nat
    BY SchedulerAssumption DEF JInv, IInv, TypeOK
  <2>2. tq'[q].dropped \in Nat /\ Len(tq'[q].events) \in Nat
    BY <2>1 DEF Queue
  <2> QED
    BY <2>1, <2>2 DEF Debt, Unread
<1>5. /\ TokensSent(q)' = TokensSent(q) /\ skipped'[q] = skipped[q]
      /\ Handled(q) = TokensSent(q) + skipped[q] + tq[q].dropped
      /\ Handled(q)' = TokensSent(q) + skipped[q] + tq'[q].dropped
  BY DEF StreamKept, SentKept, Handled
<1>6. Kept(q) => /\ tq'[q].dropped = tq[q].dropped /\ Unread(tq'[q]) = Unread(tq[q])
                 /\ TokensOnly(tq'[q]) <=> TokensOnly(tq[q])
                 /\ outLen'[q] - Debt(q)' = outLen[q] - Debt(q)
  BY DEF Kept, Unread, TokensOnly
<1>7. ASSUME q \in Streaming, hpc'[q] \notin {"lost", "done"},
             Published(q)' => ~TokensOnly(tq'[q])
      PROVE  Handled(q)' + Unread(tq'[q]) + Debt(q)' = outLen'[q]
  <2>1. hpc[q] \notin {"lost", "done"}
    BY <1>7 DEF StreamKept
  <2>2. CASE Kept(q)
    <3>1. Published(q) => ~TokensOnly(tq[q])
      BY <1>2, <1>6, <1>7, <2>2
    <3>2. Handled(q) + Unread(tq[q]) + Debt(q) = outLen[q]
      BY <1>7, <2>1, <3>1 DEF Account
    <3>3. /\ Unread(tq'[q]) = Unread(tq[q]) /\ outLen'[q] - Debt(q)' = outLen[q] - Debt(q)
          /\ Handled(q)' = Handled(q) /\ Handled(q) \in Nat
      BY <1>3, <1>5, <1>6, <2>2
    <3> HIDE DEF Handled, Unread, Debt
    <3> QED
      BY <1>3, <1>4, <3>2, <3>3
  <2>3. CASE Pushed(q)
    <3>1. /\ ~Published(q) /\ outLen'[q] = outLen[q] /\ TokensOnly(tq[q]) /\ ~tq[q].closed
      BY <2>3 DEF Pushed
    <3>2. PICK e \in EventType :
            /\ tq'[q] = Push(tq[q], e)
            /\ IF e = "Token" THEN Debt(q) = 1 /\ Debt(q)' = 0
               ELSE Debt(q) = 0 /\ Debt(q)' = 0 /\ Published(q)'
      BY <2>3 DEF Pushed
    <3>3. Handled(q) + Unread(tq[q]) + Debt(q) = outLen[q]
      BY <1>7, <2>1, <3>1 DEF Account
    <3>4. /\ e = "Token" =>
               tq'[q].dropped + Unread(tq'[q]) = tq[q].dropped + Unread(tq[q]) + 1
          /\ e # "Token" /\ ~TokensOnly(tq'[q]) =>
               tq'[q].dropped + Unread(tq'[q]) = tq[q].dropped + Unread(tq[q])
      BY <1>3, <3>1, <3>2, PushCounts
    <3>5. tq'[q].dropped + Unread(tq'[q]) + Debt(q)'
            = tq[q].dropped + Unread(tq[q]) + Debt(q)
      BY <1>3, <1>4, <1>7, <3>2, <3>4
    <3> QED
      BY <1>3, <1>4, <1>5, <3>1, <3>3, <3>5
  <2> QED
    BY <1>1, <2>2, <2>3
<1>8. ASSUME "finish" \in Elems(out'[q])
      PROVE  /\ hpc'[q] = "done" /\ state'[q] = "Completed" /\ Published(q)'
             /\ Handled(q)' = outLen'[q]
  <2>1. /\ hpc[q] = "done" /\ state[q] = "Completed" /\ Published(q)
        /\ Handled(q) = outLen[q]
    BY <1>8 DEF StreamKept, SentKept, Account
  <2>2. Kept(q)
    BY <1>1, <2>1 DEF Pushed
  <2> QED
    BY <1>2, <1>5, <1>6, <2>1, <2>2 DEF StreamKept
<1> QED
  BY <1>7, <1>8 DEF Account

\* The handler of q pops an event.
LEMMA AccountPop ==
  ASSUME JInv, OutTypes, NEW q \in Requests, Account(q), hpc[q] = "poll",
         PopToken(q) \/ PopTerminal(q)
  PROVE  OutTypes' /\ Account(q)'
<1> DEFINE es == tq[q].events
<1>1. /\ TokensSent(q) \in Nat /\ skipped[q] \in Nat /\ tq[q] \in Queue
      /\ tq[q].dropped \in Nat /\ outLen[q] \in Nat /\ Debt(q) \in {0, 1}
  BY AccountTypes
<1>2. /\ ~PopReturnsNothing(tq[q]) /\ tq'[q] = Pop(tq[q])
      /\ UNCHANGED <<state, outLen, dpc, cur>>
  <2>1. Consume(q)
    BY DEF PopToken, PopTerminal
  <2> QED
    BY <2>1 DEF Consume, requestVars, decodeVars, JInv, IInv, TypeOK
<1>3. WellFormed(tq[q], state[q])
  BY DEF JInv, StreamInv
<1>4. /\ tq'[q].dropped = tq[q].dropped /\ Unread(tq[q]) \in Nat
      /\ Head(es) = "Token" => /\ Unread(tq'[q]) = Unread(tq[q]) - 1
                               /\ TokensOnly(tq'[q]) <=> TokensOnly(tq[q])
      /\ Head(es) \in TerminalEvent => Unread(tq[q]) = 0 /\ ~TokensOnly(tq[q])
  BY <1>1, <1>2, <1>3, PopCounts
<1>5. (Published(q)' <=> Published(q)) /\ Debt(q)' = Debt(q)
  BY <1>2 DEF Published, Debt
<1>6. "finish" \notin Elems(out[q]) /\ out[q] \in Seq(Chunk)
  BY DEF Account, OutTypes
<1>7. hpc \in [Requests -> {"idle", "role", "submit", "poll", "lost", "empty",
                            "timeout", "done"}]
      /\ out \in [Requests -> Seq(Chunk)] /\ skipped \in [Requests -> Nat]
  BY DEF JInv, HInv, HTypes, OutTypes
<1> HIDE DEF es
<1>8. ASSUME Head(es) = "Token", hpc' = hpc, Handled(q)' = Handled(q) + 1,
             "finish" \notin Elems(out'[q])
      PROVE  Account(q)'
  <2>1. Handled(q) \in Nat
    BY <1>1 DEF Handled
  <2>2. ASSUME q \in Streaming, Published(q) => ~TokensOnly(tq[q])
        PROVE  Handled(q)' + Unread(tq'[q]) + Debt(q)' = outLen'[q]
    <3>1. Handled(q) + Unread(tq[q]) + Debt(q) = outLen[q]
      BY <2>2 DEF Account
    <3>2. Unread(tq'[q]) = Unread(tq[q]) - 1 /\ Debt(q)' = Debt(q) /\ outLen'[q] = outLen[q]
      BY <1>2, <1>4, <1>5, <1>8
    <3> QED
      BY <1>1, <1>4, <1>8, <2>1, <3>1, <3>2
  <2>3. (Published(q)' => ~TokensOnly(tq'[q])) => (Published(q) => ~TokensOnly(tq[q]))
    BY <1>4, <1>5, <1>8
  <2> QED
    BY <1>8, <2>2, <2>3 DEF Account
<1>9. ASSUME PopToken(q) PROVE OutTypes' /\ Account(q)'
  <2>0. Head(es) = "Token"
    BY <1>9 DEF PopToken, es
  <2>1. CASE q \in Streaming /\ skipped' = [skipped EXCEPT ![q] = @ + 1] /\ UNCHANGED <<hpc, out>>
    <3>1. skipped'[q] = skipped[q] + 1 /\ skipped' \in [Requests -> Nat]
      BY <1>7, <2>1
    <3>2. TokensSent(q)' = TokensSent(q) /\ OutTypes'
      BY <1>7, <2>1, <3>1 DEF TokensSent, OutTypes
    <3>3. Handled(q)' = Handled(q) + 1
      BY <1>1, <1>4, <3>1, <3>2 DEF Handled
    <3> QED
      BY <1>6, <1>8, <2>0, <2>1, <3>2, <3>3
  <2>2. CASE q \in Streaming /\ Send(q, <<"token">>) /\ UNCHANGED <<hpc, skipped>>
    <3>1. /\ <<"token">> \in Seq(Chunk) /\ Elems(<<"token">>) = {"token"}
          /\ Len(<<"token">>) = 1 /\ <<"token">>[1] = "token"
      BY DEF Chunk, Elems
    <3>2. out'[q] = out[q] \o <<"token">> /\ out' = [out EXCEPT ![q] = out[q] \o <<"token">>]
      BY <1>7, <2>2 DEF Send
    <3>3. /\ out[q] \o <<"token">> \in Seq(Chunk)
          /\ Elems(out[q] \o <<"token">>) = Elems(out[q]) \cup {"token"}
          /\ Cardinality(TokenPositions(out[q] \o <<"token">>))
               = Cardinality(TokenPositions(out[q])) + 1
      BY <1>6, <3>1, SendCounts
    <3>4. TokensSent(q)' = TokensSent(q) + 1 /\ "finish" \notin Elems(out'[q])
      <4>1. /\ TokensSent(q)' = Cardinality(TokenPositions(out'[q]))
            /\ TokensSent(q) = Cardinality(TokenPositions(out[q]))
        BY DEF TokensSent, TokenPositions
      <4>2. Elems(out'[q]) = Elems(out[q]) \cup {"token"}
        BY <3>2, <3>3
      <4> QED
        BY <1>6, <3>2, <3>3, <4>1, <4>2
    <3>5. OutTypes'
      BY <1>7, <2>2, <3>2, <3>3 DEF OutTypes
    <3>6. Handled(q)' = Handled(q) + 1
      BY <1>1, <1>4, <2>2, <3>4 DEF Handled
    <3> QED
      BY <1>8, <2>0, <2>2, <3>4, <3>5, <3>6
  <2>3. CASE Goto(q, "lost") /\ UNCHANGED <<out, skipped>>
    <3>1. hpc'[q] = "lost" /\ OutTypes'
      BY <1>7, <2>3 DEF Goto, OutTypes
    <3> QED
      BY <1>6, <2>3, <3>1 DEF Account
  <2>4. CASE q \notin Streaming /\ UNCHANGED <<hpc, out, skipped>>
    BY <1>6, <1>7, <2>4 DEF Account, OutTypes
  <2> QED
    BY <1>9, <2>1, <2>2, <2>3, <2>4 DEF PopToken
<1>10. ASSUME PopTerminal(q) PROVE OutTypes' /\ Account(q)'
  <2> DEFINE c == <<IF Head(es) = "Complete" THEN "finish" ELSE "error", "DONE">>
  <2>1. /\ Head(es) \in TerminalEvent /\ skipped' = skipped
        /\ hpc' = [hpc EXCEPT ![q] = "done"]
        /\ (q \in Streaming /\ Send(q, c)) \/ out' = out
    BY <1>10 DEF PopTerminal, Finish, Goto, es
  <2>2. hpc'[q] = "done"
    BY <1>7, <2>1
  <2>3. CASE out' = out
    BY <1>6, <1>7, <2>1, <2>2, <2>3 DEF Account, OutTypes
  <2>4. CASE q \in Streaming /\ Send(q, c)
    <3>1. /\ c \in Seq(Chunk) /\ "token" \notin Elems(c)
          /\ "finish" \in Elems(c) => Head(es) = "Complete"
      <4>1. "finish" \in Chunk /\ "error" \in Chunk
        BY DEF Chunk
      <4> QED
        BY <4>1, ChunkFacts
    <3> HIDE DEF c
    <3>2. out'[q] = out[q] \o c /\ out' = [out EXCEPT ![q] = out[q] \o c]
      BY <1>7, <2>4 DEF Send
    <3>3. /\ out[q] \o c \in Seq(Chunk) /\ Elems(out[q] \o c) = Elems(out[q]) \cup Elems(c)
          /\ TokenPositions(out[q] \o c) = TokenPositions(out[q])
      BY <1>6, <3>1, SendCounts
    <3>4. OutTypes'
      BY <1>7, <2>1, <3>2, <3>3 DEF OutTypes
    <3>5. TokensSent(q)' = TokensSent(q)
      BY <3>2, <3>3 DEF TokensSent, TokenPositions
    <3>6. Handled(q)' = Handled(q)
      BY <1>4, <2>1, <3>5 DEF Handled
    <3>7. ASSUME "finish" \in Elems(out'[q])
          PROVE  /\ state'[q] = "Completed" /\ Published(q)' /\ Handled(q)' = outLen'[q]
      <4>1. Head(es) = "Complete"
        BY <1>6, <3>1, <3>2, <3>3, <3>7
      <4>2. 1 \in DOMAIN es /\ es[1] = Head(es)
        BY <1>1, <1>2 DEF Queue, PopReturnsNothing, es
      <4>3. state[q] = "Completed"
        BY <1>3, <4>1, <4>2 DEF WellFormed, TerminalEvent, es
      <4>4. ~TokensOnly(tq[q]) /\ Unread(tq[q]) = 0
        BY <1>4, <2>1
      <4>5. Published(q)
        BY <4>3, <4>4 DEF Published, JInv, StreamInv
      <4>6. Debt(q) = 0
        <5>1. q = cur /\ dpc = "emit" => ~IsTerminal(q)
          BY CurIsLive DEF JInv, CurLive, Finishing
        <5> QED
          BY <4>3, <5>1 DEF Debt, IsTerminal, TerminalState
      <4>7. Handled(q) + Unread(tq[q]) + Debt(q) = outLen[q]
        BY <2>4, <4>4 DEF Account
      <4>8. Handled(q) = outLen[q]
        BY <1>1, <4>4, <4>6, <4>7 DEF Handled
      <4> QED
        BY <1>2, <1>5, <3>6, <4>3, <4>5, <4>8
    <3> QED
      BY <2>2, <3>4, <3>7 DEF Account
  <2> QED
    BY <2>1, <2>3, <2>4
<1> QED
  BY <1>9, <1>10

\* Every step keeps the accounts.
LEMMA AccountStep == JInv /\ AccountInv /\ [HNext]_allVars => AccountInv'
<1> SUFFICES ASSUME JInv, AccountInv, [HNext]_allVars PROVE AccountInv'
  OBVIOUS
<1>1. JInv' /\ [Next]_vars
  BY JInvStep, HandlerIsClient DEF JInv, HInv
<1>2. ASSUME NEW q \in Requests PROVE OutTypes' /\ Account(q)'
  BY <1>1, HandlerBook, AccountElsewhere, AccountPop DEF AccountInv
<1>3. ASSUME Requests = {} PROVE OutTypes'
  <2>1. UNCHANGED <<out, skipped>>
    BY <1>3 DEF HNext, Main, Background, handlerVars, allVars
  <2> QED
    BY <2>1 DEF AccountInv, OutTypes
<1> QED
  BY <1>2, <1>3 DEF AccountInv

\* Before the first request nothing is sampled and nothing sent.
LEMMA InitAccounts == HInit => AccountInv
<1> SUFFICES ASSUME HInit PROVE AccountInv
  OBVIOUS
<1>1. OutTypes
  BY DEF HInit, OutTypes
<1>2. ASSUME NEW r \in Requests PROVE Account(r)
  <2>1. /\ out[r] = <<>> /\ skipped[r] = 0 /\ tq[r] = NewQueue /\ outLen[r] = 0
        /\ dpc = "exited"
    BY DEF HInit, Init
  <2>2. Elems(out[r]) = {} /\ {i \in DOMAIN out[r] : out[r][i] = "token"} = {}
    BY <2>1 DEF Elems
  <2>3. TokensSent(r) = 0
    BY <2>2, FS_EmptySet DEF TokensSent
  <2>4. Handled(r) = 0
    BY <2>1, <2>3 DEF Handled, NewQueue
  <2>5. Unread(tq[r]) = 0
    BY <2>1 DEF Unread, TokensOnly, NewQueue
  <2>6. Debt(r) = 0
    BY <2>1 DEF Debt
  <2> QED
    BY <2>1, <2>2, <2>4, <2>5, <2>6 DEF Account
<1> QED
  BY <1>1, <1>2 DEF AccountInv

-----------------------------------------------------------------------------
(* The theorems.                                                           *)

\* Handlers, main and decode thread together do only what Scheduler allows, so
\* every theorem about Scheduler's Safety holds of the composed server: the
\* handlers pop, cancel and submit as its environment may.
THEOREM ImplementsScheduler == HSpec => Safety
<1>1. HInit => Init
  BY DEF HInit
<1>2. JInv => HPlace
  BY DEF JInv, HInv
<1> QED
  BY <1>1, <1>2, JInvariance, HandlerIsClient, PTL DEF HSpec, HSafety, Safety

\* A handler that has left its client, after a lost connection, a timeout of
\* its own or a result, leaves no request behind that still generates.
THEOREM NoneAbandoned == HSpec => []NoOrphan
  BY HInitial, JInvariance, OrphanStep, PTL DEF HSpec, HSafety

\* A response that is not streamed says what happened to the request, although
\* it is built from fields read without a lock.
THEOREM ResponsesFaithful == HSpec => []ResponseFaithful
  BY HInitial, JInvariance, ResponseStep, PTL DEF HSpec, HSafety

\* A stream that ends with a finish_reason is a completed request every token
\* of which was sent, had no text, or was counted as dropped: no token is lost
\* between the decode thread, the bounded queue and the handler, whatever the
\* queue's size and however slow the reader.
THEOREM TokensAccounted == HSpec => []StreamAccounts
<1>1. AccountInv => StreamAccounts
  BY DEF AccountInv, Account, StreamAccounts, Handled
<1> QED
  BY <1>1, JInvariance, InitAccounts, AccountStep, PTL DEF HSpec, HSafety

=============================================================================
