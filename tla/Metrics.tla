------------------------------ MODULE Metrics ------------------------------
(***************************************************************************)
(* The metrics registry (include/utils/metrics.hpp, src/utils/metrics.cpp) *)
(* under the threads that use it: HTTP threads that have submitted a       *)
(* request count it and raise QUEUE_DEPTH, the decode thread pops it,      *)
(* lowers QUEUE_DEPTH and observes a latency, and GET /metrics exports.    *)
(*                                                                         *)
(* A metric is looked up under the registry's mutex and changed after it   *)
(* is released.  A counter is one atomic addition, a gauge an atomic load  *)
(* and an atomic store, a histogram has a mutex of its own.  export reads  *)
(* under the registry's mutex, and a histogram in three separate steps.    *)
(* A metric nobody has looked up yet is not exported, which a client       *)
(* cannot tell from 0.                                                     *)
(***************************************************************************)
EXTENDS Integers, Sequences, FiniteSetsExt, Sums

CONSTANTS
  Submitters,  \* HTTP threads; each submits one request
  Bounds,      \* the histogram's bucket bounds, increasing
  Values       \* the values that are observed

ASSUME MetricsAssumption ==
  /\ IsFiniteSet(Submitters) /\ "decode" \notin Submitters
  /\ Values \subseteq Nat /\ Bounds \in Seq(Nat)
  /\ \A i, j \in DOMAIN Bounds : i < j => Bounds[i] < Bounds[j]

VARIABLES
  hpc,       \* hpc[h]: where the HTTP thread h is in submit
  dpc,       \* where the decode thread is
  xpc,       \* where the export is
  registry,  \* the registry's mutex is free
  queue,     \* the length of pending_queue_
  total,     \* the counter REQUESTS_TOTAL
  depth,     \* the gauge QUEUE_DEPTH
  local,     \* local[t]: the value a thread has loaded from the gauge
  hist,      \* the histogram: buckets, sum, count
  scrape,    \* what the export has read
  accepted,  \* history: the requests pushed to the queue
  seen,      \* history: seen[v] observations of the value v
  before,    \* history: the counter and seen when the export began
  races      \* history: gauge stores that fell between another load and store

gaugeVars == <<depth, local, races>>
exportVars == <<xpc, registry, scrape, before>>
mvars == <<hpc, dpc, queue, total, gaugeVars, hist, accepted, seen, exportVars>>

Threads == Submitters \cup {"decode"}
Buckets == 1 .. Len(Bounds) + 1

NothingSeen == [v \in Values |-> 0]
NoScrape == [total |-> 0, depth |-> 0, cumulative |-> [i \in Buckets |-> 0],
             sum |-> 0, count |-> 0]

MInit ==
  /\ hpc = [h \in Submitters |-> "push"] /\ dpc = "pop" /\ xpc = "idle"
  /\ registry = TRUE /\ queue = 0 /\ total = 0 /\ depth = 0
  /\ local = [t \in Threads |-> 0]
  /\ hist = [buckets |-> [i \in Buckets |-> 0], sum |-> 0, count |-> 0]
  /\ scrape = NoScrape
  /\ accepted = 0 /\ seen = NothingSeen
  /\ before = [total |-> 0, seen |-> NothingSeen]
  /\ races = 0

-----------------------------------------------------------------------------
(* The gauge.                                                              *)

\* The threads between the load and the store of an update.
Updating == {h \in Submitters : hpc[h] = "store"}
            \cup (IF dpc = "store" THEN {"decode"} ELSE {})

Load(t) ==
  /\ local' = [local EXCEPT ![t] = depth]
  /\ UNCHANGED <<depth, races>>

\* set(current + delta).
Store(t, delta) ==
  /\ depth' = local[t] + delta
  /\ races' = races + Cardinality(Updating \ {t})
  /\ local' = [local EXCEPT ![t] = 0]

-----------------------------------------------------------------------------
(* Scheduler::submit, from the push on.                                    *)

Goto(h, label) == hpc' = [hpc EXCEPT ![h] = label]

\* process_queue keeps queue_mutex_ from the pop to the end of the decrement.
Push(h) ==
  /\ hpc[h] = "push" /\ dpc \notin {"gauge", "load", "store"}
  /\ queue' = queue + 1 /\ accepted' = accepted + 1
  /\ Goto(h, "counter")
  /\ UNCHANGED <<dpc, total, gaugeVars, hist, seen, exportVars>>

\* counter(name) or gauge(name): the registry's mutex, and the reference.
Lookup(h) ==
  /\ registry
  /\ \/ hpc[h] = "counter" /\ Goto(h, "add")
     \/ hpc[h] = "gauge" /\ Goto(h, "load")
  /\ UNCHANGED <<dpc, queue, total, gaugeVars, hist, accepted, seen, exportVars>>

CounterIncrement(h) ==
  /\ hpc[h] = "add"
  /\ total' = total + 1
  /\ Goto(h, "gauge")
  /\ UNCHANGED <<dpc, queue, gaugeVars, hist, accepted, seen, exportVars>>

GaugeIncrement(h) ==
  /\ \/ hpc[h] = "load" /\ Load(h) /\ Goto(h, "store")
     \/ hpc[h] = "store" /\ Store(h, 1) /\ Goto(h, "done")
  /\ UNCHANGED <<dpc, queue, total, hist, accepted, seen, exportVars>>

-----------------------------------------------------------------------------
(* The decode thread.                                                      *)

QueuePop ==
  /\ dpc = "pop" /\ queue > 0
  /\ queue' = queue - 1 /\ dpc' = "gauge"
  /\ UNCHANGED <<hpc, total, gaugeVars, hist, accepted, seen, exportVars>>

DecodeLookup ==
  /\ registry
  /\ \/ dpc = "gauge" /\ dpc' = "load"
     \/ dpc = "histogram" /\ dpc' = "observe"
  /\ UNCHANGED <<hpc, queue, total, gaugeVars, hist, accepted, seen, exportVars>>

\* A decrement that stores what it has loaded.
MutGaugeDecrement ==
  /\ \/ dpc = "load" /\ Load("decode") /\ dpc' = "store"
     \/ dpc = "store" /\ Store("decode", 0) /\ dpc' = "histogram"
  /\ UNCHANGED <<hpc, queue, total, hist, accepted, seen, exportVars>>

GaugeDecrement ==
  /\ \/ dpc = "load" /\ Load("decode") /\ dpc' = "store"
     \/ dpc = "store" /\ Store("decode", -1) /\ dpc' = "histogram"
  /\ UNCHANGED <<hpc, queue, total, hist, accepted, seen, exportVars>>

\* The first bucket whose bound is above the value.
MutBucketOf(v) ==
  Min({i \in DOMAIN Bounds : v < Bounds[i]} \cup {Len(Bounds) + 1})

\* The first bucket whose bound is not below the value.
BucketOf(v) ==
  Min({i \in DOMAIN Bounds : v <= Bounds[i]} \cup {Len(Bounds) + 1})

Observe(v) ==
  /\ dpc = "observe"
  /\ hist' = [buckets |-> [hist.buckets EXCEPT ![BucketOf(v)] = @ + 1],
              sum |-> hist.sum + v, count |-> hist.count + 1]
  /\ seen' = [seen EXCEPT ![v] = @ + 1]
  /\ dpc' = "pop"
  /\ UNCHANGED <<hpc, queue, total, gaugeVars, accepted, exportVars>>

-----------------------------------------------------------------------------
(* export_prometheus.                                                      *)

ExportBegin ==
  /\ xpc = "idle" /\ registry
  /\ registry' = FALSE /\ xpc' = "counters"
  /\ before' = [total |-> total, seen |-> seen]
  /\ UNCHANGED <<hpc, dpc, queue, total, gaugeVars, hist, accepted, seen, scrape>>

\* The next value is read: the counter, the gauge, then buckets, sum and count.
ExportRead ==
  /\ \/ /\ xpc = "counters" /\ xpc' = "gauges"
        /\ scrape' = [scrape EXCEPT !.total = total]
     \/ /\ xpc = "gauges" /\ xpc' = "buckets"
        /\ scrape' = [scrape EXCEPT !.depth = depth]
     \/ /\ xpc = "buckets" /\ xpc' = "sum"
        /\ scrape' = [scrape EXCEPT !.cumulative =
                        [i \in Buckets |-> Sum(hist.buckets, 1 .. i)]]
     \/ /\ xpc = "sum" /\ xpc' = "count"
        /\ scrape' = [scrape EXCEPT !.sum = hist.sum]
     \/ /\ xpc = "count" /\ xpc' = "end"
        /\ scrape' = [scrape EXCEPT !.count = hist.count]
  /\ UNCHANGED <<hpc, dpc, queue, total, gaugeVars, hist, accepted, seen,
                 registry, before>>

ExportEnd ==
  /\ xpc = "end"
  /\ registry' = TRUE /\ xpc' = "idle"
  /\ scrape' = NoScrape /\ before' = [total |-> 0, seen |-> NothingSeen]
  /\ UNCHANGED <<hpc, dpc, queue, total, gaugeVars, hist, accepted, seen>>

MNext ==
  \/ \E h \in Submitters :
       Push(h) \/ Lookup(h) \/ CounterIncrement(h) \/ GaugeIncrement(h)
  \/ QueuePop \/ DecodeLookup \/ GaugeDecrement \/ \E v \in Values : Observe(v)
  \/ ExportBegin \/ ExportRead \/ ExportEnd

MSpec == MInit /\ [][MNext]_mvars

-----------------------------------------------------------------------------
(* What must hold.                                                         *)

\* The observations in s that are at most b.
AtMost(s, b) == Sum(s, {v \in Values : v <= b})

\* An export is a consistent reading though the threads go on meanwhile: a
\* bucket's cumulative number counts the observations at most its bound, all
\* of those made before the export and none that is still to come; +Inf, sum
\* and count, read one after the other, only grow from one to the next; the
\* counter counts every submit that was counted before and no request twice.
ScrapeConsistent ==
  xpc = "end" =>
    LET inf == scrape.cumulative[Len(Bounds) + 1]
    IN  /\ \A i \in DOMAIN Bounds :
             /\ AtMost(before.seen, Bounds[i]) <= scrape.cumulative[i]
             /\ scrape.cumulative[i] <= AtMost(seen, Bounds[i])
             /\ scrape.cumulative[i] <= scrape.cumulative[i + 1]
        /\ Sum(before.seen, Values) <= inf /\ inf <= scrape.count
        /\ scrape.count <= Sum(seen, Values)
        /\ scrape.sum <= Sum([v \in Values |-> v * seen[v]], Values)
        /\ before.total <= scrape.total /\ scrape.total <= accepted

\* No thread is between a change of the queue and the store to the gauge.
Quiet ==
  /\ dpc \notin {"gauge", "load", "store"}
  /\ \A h \in Submitters : hpc[h] \in {"push", "done"}

Abs(n) == IF n < 0 THEN -n ELSE n

\* Though the decrement of a request may precede its increment, QUEUE_DEPTH
\* comes back to the length of the queue; each store that fell between the
\* load and the store of another update shifts it by at most one, for good.
QueueDepthDrift == Quiet => Abs(depth - queue) <= races

=============================================================================
