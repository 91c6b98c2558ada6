----------------------------- MODULE TokenQueue -----------------------------
(***************************************************************************)
(* The bounded event queue between the scheduler thread (producer) and the *)
(* HTTP thread of one request (consumer): struct TokenEvent and class      *)
(* TokenQueue of include/scheduler/request.hpp.                            *)
(*                                                                         *)
(* Every member function holds the queue's mutex from its first to its     *)
(* last line, so each is one atomic operator on the record                 *)
(*   [events, closed, dropped]  =  events_, closed_, dropped_count_.       *)
(* An event keeps its type only; the text of a token is not told apart.    *)
(***************************************************************************)
EXTENDS Naturals, Sequences

CONSTANT MaxSize  \* max_size_ (1024 in the code)

ASSUME MaxSizeAssumption == MaxSize \in Nat \ {0}

EventType == {"Token", "Complete", "Error"}

\* The events after which the producer sends nothing more.
TerminalEvent == {"Complete", "Error"}

Queue == [events : Seq(EventType), closed : BOOLEAN, dropped : Nat]

\* A queue as the handlers create it.
NewQueue == [events |-> <<>>, closed |-> FALSE, dropped |-> 0]

\* push without the backpressure test.
MutPushUnbounded(q, e) ==
  IF q.closed THEN q ELSE [q EXCEPT !.events = Append(@, e)]

\* push that drops an event without counting it.
MutPushUncounted(q, e) ==
  IF q.closed \/ Len(q.events) >= MaxSize THEN q
  ELSE [q EXCEPT !.events = Append(@, e)]

\* push(event): a closed queue ignores it, a full one drops and counts it.
Push(q, e) ==
  IF q.closed THEN q
  ELSE IF Len(q.events) >= MaxSize THEN [q EXCEPT !.dropped = @ + 1]
  ELSE [q EXCEPT !.events = Append(@, e)]

\* close that only wakes the consumer.
MutClose(q) == q

\* close(): no more pushes; what is queued can still be popped.
Close(q) == [q EXCEPT !.closed = TRUE]

\* pop(timeout) when it returns an event: the oldest one.
Pop(q) == [q EXCEPT !.events = Tail(@)]

\* pop(timeout) may give up empty-handed: a timeout, or closed and drained.
PopReturnsNothing(q) == q.events = <<>>

=============================================================================
