-------------------------- MODULE ChatCompletions ---------------------------
(***************************************************************************)
(* The handler of POST /v1/chat/completions (chat_completions in           *)
(* src/api/routes.cpp), one HTTP thread per request, composed with the     *)
(* scheduler it submits to and with the shutdown order of src/main.cpp.    *)
(*                                                                         *)
(* The handler replaces the environment of Scheduler: it is who submits,   *)
(* pops the token queue and sets the cancellation token.  A pop and the    *)
(* write of what it returned are one step; the cancellation that follows a *)
(* failed write is another, so the scheduler may act between them.         *)
(***************************************************************************)
EXTENDS Scheduler

CONSTANTS
  Streaming,       \* the requests with "stream": true
  HandlerTimeouts  \* whether stream_idle_timeout_sec, response_timeout_sec > 0

ASSUME HandlerAssumption ==
  Streaming \subseteq Requests /\ HandlerTimeouts \in BOOLEAN

VARIABLES
  hpc,      \* hpc[r]: where the handler of r is
  out,      \* out[r]: the SSE chunks the client of r has received
  skipped,  \* skipped[r]: the tokens with an empty text, not written
  resp,     \* resp[r]: the response of a request that is not streamed
  gone      \* the clients that have closed their connection

handlerVars == <<hpc, out, skipped, resp, gone>>
allVars == <<vars, handlerVars>>

Chunk == {"role", "token", "finish", "error", "DONE"}
NoResponse == [status |-> 0, reason |-> "None", tokens |-> 0]

HInit ==
  /\ Init
  /\ hpc = [r \in Requests |-> "idle"]
  /\ out = [r \in Requests |-> <<>>]
  /\ skipped = [r \in Requests |-> 0]
  /\ resp = [r \in Requests |-> NoResponse]
  /\ gone = {}

\* Append chunks to the stream of r.
Send(r, chunks) == out' = [out EXCEPT ![r] = @ \o chunks]

Goto(r, label) == hpc' = [hpc EXCEPT ![r] = label]

\* cancel_token->cancel() by the handler of r.
SetCancel(r) ==
  /\ cancelled' = cancelled \cup {r}
  /\ UNCHANGED <<running, main, submitVars, requestVars, expired, active, kv,
                 tq, decodeVars, statVars>>

-----------------------------------------------------------------------------
(* The client.                                                             *)

\* From now on sink.write fails for the request's stream.
Disconnect(r) ==
  /\ r \in Streaming \ gone /\ hpc[r] \notin {"idle", "done"}
  /\ gone' = gone \cup {r}
  /\ UNCHANGED <<vars, hpc, out, skipped, resp>>

-----------------------------------------------------------------------------
(* From the request to submit.                                             *)

\* The body does not parse or validate, or the prompt does not fit.
BadRequest(r) ==
  /\ hpc[r] = "idle" /\ main = "up"
  /\ resp' = [resp EXCEPT ![r].status = 400]
  /\ Goto(r, "done")
  /\ UNCHANGED <<vars, out, skipped, gone>>

\* The request is made; a streamed one first sends the role chunk, and a
\* client that is gone by then cancels it before it is submitted.
Accept(r) ==
  /\ hpc[r] = "idle" /\ main = "up"
  /\ Goto(r, IF r \in Streaming THEN "role" ELSE "submit")
  /\ UNCHANGED <<vars, out, skipped, resp, gone>>

SendRole(r) ==
  /\ hpc[r] = "role"
  /\ \/ /\ r \notin gone
        /\ Send(r, <<"role">>)
        /\ Goto(r, "submit")
        /\ UNCHANGED vars
     \/ /\ r \in gone
        /\ SetCancel(r)
        /\ Goto(r, "done")
        /\ UNCHANGED out
  /\ UNCHANGED <<skipped, resp, gone>>

\* The scheduler's submit, on the handler's thread.
CallSubmit(r) ==
  /\ hpc[r] = "submit"
  /\ Submit(r)
  /\ UNCHANGED handlerVars

\* submit returned success.
Submitted(r) ==
  /\ hpc[r] = "submit" /\ spc[r] = "accepted"
  /\ Goto(r, "poll")
  /\ UNCHANGED <<vars, out, skipped, resp, gone>>

\* submit returned an error: a stream just ends, else 503.
SubmitRefused(r) ==
  /\ hpc[r] = "submit" /\ spc[r] = "refused"
  /\ Goto(r, "done")
  /\ resp' = IF r \in Streaming THEN resp ELSE [resp EXCEPT ![r].status = 503]
  /\ UNCHANGED <<vars, out, skipped, gone>>

-----------------------------------------------------------------------------
(* The polling loop.                                                       *)

\* The status of an error response.
Status(code) ==
  IF code = "timeout" THEN 504
  ELSE IF code = "resource_exhausted" THEN 503 ELSE 500

\* The response that looks at finish_reason and not at error.
MutResponse(r) ==
  [status |-> 200, reason |-> reason[r], tokens |-> outLen[r]]

\* The response built from the request when the loop has got a result.
Response(r) ==
  IF error[r] # "none"
  THEN [NoResponse EXCEPT !.status = Status(error[r])]
  ELSE [status |-> 200, reason |-> reason[r], tokens |-> outLen[r]]

\* The loop ends and the handler returns.
Finish(r) ==
  /\ Goto(r, "done")
  /\ resp' = IF r \in Streaming THEN resp ELSE [resp EXCEPT ![r] = Response(r)]

\* pop returns a token.
PopToken(r) ==
  /\ Consume(r)
  /\ Head(tq[r].events) = "Token"
  /\ \/ /\ r \in Streaming
        /\ \/ /\ skipped' = [skipped EXCEPT ![r] = @ + 1]
              /\ UNCHANGED <<hpc, out>>
           \/ /\ r \notin gone
              /\ Send(r, <<"token">>)
              /\ UNCHANGED <<hpc, skipped>>
           \/ /\ r \in gone
              /\ Goto(r, "lost")
              /\ UNCHANGED <<out, skipped>>
     \/ /\ r \notin Streaming
        /\ UNCHANGED <<hpc, out, skipped>>
  /\ UNCHANGED <<resp, gone>>

\* pop returns Complete or Error: the last chunks, or the response.
PopTerminal(r) ==
  /\ Consume(r)
  /\ LET e == Head(tq[r].events)
     IN  /\ e \in TerminalEvent
         /\ IF r \in Streaming \ gone
            THEN Send(r, <<IF e = "Complete" THEN "finish" ELSE "error", "DONE">>)
            ELSE UNCHANGED out
  /\ Finish(r)
  /\ UNCHANGED <<skipped, gone>>

\* pop gives up after 100 ms, or finds the queue closed and drained.
PopNothing(r) ==
  /\ PopReturnsNothing(tq[r])
  /\ Goto(r, "empty")
  /\ UNCHANGED <<vars, out, skipped, resp, gone>>

Poll(r) ==
  /\ hpc[r] = "poll"
  /\ PopToken(r) \/ PopTerminal(r) \/ PopNothing(r)

\* A failed write after which the request is left running.
MutLost(r) ==
  /\ hpc[r] = "lost"
  /\ Goto(r, "done")
  /\ UNCHANGED <<vars, out, skipped, resp, gone>>

\* A failed write: the handler cancels the request and leaves.
Lost(r) ==
  /\ hpc[r] = "lost"
  /\ SetCancel(r)
  /\ Goto(r, "done")
  /\ UNCHANGED <<out, skipped, resp, gone>>

\* Nothing was popped: leave if the request is terminal, else look at the
\* idle time (streamed) or at the time since the start (not streamed).
Empty(r) ==
  /\ hpc[r] = "empty"
  /\ \/ IsTerminal(r) /\ Finish(r)
     \/ /\ ~IsTerminal(r)
        /\ \/ Goto(r, "poll")
           \/ HandlerTimeouts /\ Goto(r, "timeout")
        /\ UNCHANGED resp
  /\ UNCHANGED <<vars, out, skipped, gone>>

\* A timeout where the consumer closes the queue of events as well.
MutTimeOut(r) ==
  /\ hpc[r] = "timeout"
  /\ cancelled' = cancelled \cup {r}
  /\ tq' = [tq EXCEPT ![r] = Close(@)]
  /\ Goto(r, "done")
  /\ UNCHANGED <<running, main, submitVars, requestVars, expired, active, kv,
                 decodeVars, statVars, out, skipped, resp, gone>>

\* The handler's own timeout: cancel, then tell the client.
TimeOut(r) ==
  /\ hpc[r] = "timeout"
  /\ SetCancel(r)
  /\ Goto(r, "done")
  /\ IF r \in Streaming
     THEN UNCHANGED resp
     ELSE resp' = [resp EXCEPT ![r].status = Status("timeout")]
  /\ IF r \in Streaming \ gone THEN Send(r, <<"error", "DONE">>)
                               ELSE UNCHANGED out
  /\ UNCHANGED <<skipped, gone>>

Handle(r) ==
  \/ SendRole(r) \/ CallSubmit(r) \/ Submitted(r) \/ SubmitRefused(r)
  \/ Poll(r) \/ Lost(r) \/ Empty(r) \/ TimeOut(r)

-----------------------------------------------------------------------------
(* main, the clock and the decode thread.                                  *)

\* A shutdown that stops the scheduler while the server still runs.
MutServerStopped == TRUE

\* server.stop() returns when no handler is left.
ServerStopped == \A r \in Requests : hpc[r] \in {"idle", "done"}

\* main starts the scheduler before the server; it stops the server first.
Main ==
  /\ \/ main = "init" /\ Start
     \/ ServerStopped /\ StopRequest
     \/ StopJoined
  /\ UNCHANGED handlerVars

Background ==
  /\ DecodeLoop \/ \E r \in Requests : Expire(r)
  /\ UNCHANGED handlerVars

HNext ==
  \/ Main
  \/ Background
  \/ \E r \in Requests : BadRequest(r) \/ Accept(r) \/ Disconnect(r) \/ Handle(r)

\* Each thread that can run is run; clients owe nothing.
HFairness ==
  /\ WF_allVars(DecodeLoop /\ UNCHANGED handlerVars)
  /\ WF_allVars(StopJoined /\ UNCHANGED handlerVars)
  /\ \A r \in Requests : WF_allVars(Handle(r))

HSafety == HInit /\ [][HNext]_allVars
HSpec == HSafety /\ HFairness

-----------------------------------------------------------------------------
(* What must hold.                                                         *)

\* The tokens the client of r has received.
TokensSent(r) == Cardinality({i \in DOMAIN out[r] : out[r][i] = "token"})

\* A stream that ends with a finish_reason is a request that completed, and
\* every token it generated was sent, had no text, or was counted as dropped.
StreamAccounts ==
  \A r \in Requests :
    "finish" \in Elems(out[r]) =>
      /\ state[r] = "Completed"
      /\ TokensSent(r) + skipped[r] + tq[r].dropped = outLen[r]

\* A response says what happened, although the handler reads the request's
\* fields without a lock and may leave the loop on the state alone, before
\* the terminal event is pushed: 200 is a finished generation with its final
\* finish_reason and length, an error status is the request's error or the
\* handler's own timeout.
ResponseFaithful ==
  \A r \in Requests :
    LET p == resp[r]
    IN  /\ p.status = 200 =>
             /\ state[r] = "Completed"
             /\ p.reason = reason[r] /\ reason[r] \in {"Stop", "Length"}
             /\ p.tokens = outLen[r]
        /\ p.status \in {500, 503, 504} =>
             \/ state[r] = "Rejected" /\ p.status = 503
             \/ state[r] = "Errored" /\ p.status = Status(error[r])
             \/ r \in cancelled /\ p.status = 504

\* A handler that has left its client leaves no request behind that still
\* generates: it is finished, or its cancellation token is set.
NoOrphan ==
  \A r \in Requests :
    hpc[r] = "done" /\ spc[r] = "accepted" => r \in cancelled \/ IsTerminal(r)

\* Every client gets an end, and nothing obliges a timeout to pass: the
\* scheduler outlives the handlers, finishes what they submitted, and they
\* notice.
HandlerEnds == \A r \in Requests : hpc[r] # "idle" ~> hpc[r] = "done"

-----------------------------------------------------------------------------
(* What the documentation says and the code does not do.                   *)

\* ENGINEERING_SPEC.md, Streaming Protocol: a stream ends with the chunk of
\* the finish_reason and "data: [DONE]"; here, with an error chunk or that.
StreamEndsWithDone ==
  \A r \in Streaming \ gone :
    hpc[r] = "done" /\ spc[r] = "accepted" =>
      out[r][Len(out[r])] = "DONE"

=============================================================================
