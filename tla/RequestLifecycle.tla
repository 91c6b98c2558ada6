-------------------------- MODULE RequestLifecycle --------------------------
(***************************************************************************)
(* What the scheduler promises to the handlers that submit requests, with  *)
(* no threads, locks, caches or streams: a request is refused or accepted  *)
(* once; accepted requests are started in the order of their acceptance,   *)
(* at most MaxActive at a time; a started request ends once, with a result *)
(* that is final from then on.                                             *)
(***************************************************************************)
EXTENDS Naturals, Sequences, FiniteSets

CONSTANTS Requests, MaxActive, Outcomes, NoOutcome

VARIABLES
  phase,    \* phase[r]: "new", "refused", "waiting", "started" or "ended"
  waiting,  \* the accepted requests that are not started, oldest first
  outcome   \* outcome[r]: the result of r, NoOutcome until it has ended

lvars == <<phase, waiting, outcome>>

LInit ==
  /\ phase = [r \in Requests |-> "new"]
  /\ waiting = <<>>
  /\ outcome = [r \in Requests |-> NoOutcome]

Refused(r) ==
  /\ phase[r] = "new"
  /\ phase' = [phase EXCEPT ![r] = "refused"]
  /\ UNCHANGED <<waiting, outcome>>

Accepted(r) ==
  /\ phase[r] = "new"
  /\ phase' = [phase EXCEPT ![r] = "waiting"]
  /\ waiting' = Append(waiting, r)
  /\ UNCHANGED outcome

Started(r) ==
  /\ waiting # <<>> /\ r = Head(waiting)
  /\ Cardinality({q \in Requests : phase[q] = "started"}) < MaxActive
  /\ phase' = [phase EXCEPT ![r] = "started"]
  /\ waiting' = Tail(waiting)
  /\ UNCHANGED outcome

Ended(r) ==
  /\ phase[r] = "started"
  /\ phase' = [phase EXCEPT ![r] = "ended"]
  /\ \E o \in Outcomes : outcome' = [outcome EXCEPT ![r] = o]
  /\ UNCHANGED waiting

LNext == \E r \in Requests : Refused(r) \/ Accepted(r) \/ Started(r) \/ Ended(r)

LSpec == LInit /\ [][LNext]_lvars

=============================================================================
