---------------------------- MODULE MemoryPlane -----------------------------
(***************************************************************************)
(* How the scheduler drives the GPU router and the contiguous KV allocator *)
(* together: admit on the HTTP threads; run_prefill, the end of a request  *)
(* and free_resources on the decode thread (src/scheduler/scheduler.cpp).  *)
(* The two keep separate accounts under separate locks, and a step ends at *)
(* each unlock.  Only the decode thread changes either account, so route   *)
(* and reserve, which it makes one after the other, are one step.          *)
(*                                                                         *)
(* The order of the queue, the token streams and the end of a request's    *)
(* decoding are those of module Scheduler; here any queued request may be  *)
(* next and any active request may end.                                    *)
(*                                                                         *)
(* Limits.  main's default is the pooled allocator, whose tensor-parallel  *)
(* handles stay valid when freed (KVPooled, and Spread in Scheduler): what *)
(* is said of the router's account here is not true of it.  Every device   *)
(* has the same total, as with a configured max_total_memory; when that is *)
(* 0 the code asks each device for its own.                                *)
(***************************************************************************)
EXTENDS GpuRouter, Sums

CONSTANTS
  Requests,
  SeqLen,    \* SeqLen[r]: input_tokens.size() + max_tokens
  KVHeads,   \* num_kv_heads
  FailAt,    \* the places in DeviceList where a CUDA call may fail
  NoRequest  \* the decode thread works on no request

ASSUME PlaneAssumption ==
  /\ SeqLen \in [Requests -> Nat] /\ NoRequest \notin Requests
  /\ KVHeads \in Nat /\ FailAt \subseteq DOMAIN DeviceList

VARIABLES
  rpc,       \* rpc[r]: how far r is: in admit, queued, in hand, active, ended
  step,      \* what the decode thread does next
  cur,       \* the decode thread's request
  again,     \* free_resources is called once more for cur
  assigned,  \* request->assigned_devices
  budget,    \* budgets_
  rr,        \* round_robin_counter_, modulo the number of devices
  kind, bytes, used, free, count, live, result,  \* the allocator's
  lost       \* history: <<r, d>> when r's tensor-parallel allocation failed
             \* on a later device after its share was charged to d

\* main sizes the budget of a device as the allocator's total by the number
\* of devices, and the allocator gives every device the same total.
KV == INSTANCE KVContiguous WITH
        Handles <- Requests, Total <- Budget,
        Lengths <- {SeqLen[r] : r \in Requests}

allocVars == <<kind, bytes, used, free, count, live, result, lost>>
routeVars == <<assigned, rr>>
mvars == <<rpc, step, cur, again, assigned, budget, rr, allocVars>>

\* estimate_kv_memory: KV_BYTES_PER_TOKEN is bytes_per_token() of the
\* configuration main uses.
Estimate(r) == KV!BytesForSeqLen(SeqLen[r])

MInit ==
  /\ rpc = [r \in Requests |-> "new"]
  /\ step = "idle" /\ cur = NoRequest /\ again = FALSE
  /\ assigned = [r \in Requests |-> {}]
  /\ budget = InitBudgets
  /\ rr = 0
  /\ KV!CInit
  /\ lost = {}

-----------------------------------------------------------------------------
(* admit, on the HTTP thread of r: two looks at two accounts.              *)

AdmitRouter(r) ==
  /\ rpc[r] = "new"
  /\ rpc' = [rpc EXCEPT ![r] =
       IF CanPlace(budget, SeqLen[r], Estimate(r),
                   KV!BytesPerDevice(SeqLen[r]))
       THEN "placeable" ELSE "rejected"]
  /\ UNCHANGED <<step, cur, again, routeVars, budget, allocVars>>

\* can_allocate, which asks for the whole cache on the primary device.
AdmitAllocator(r) ==
  /\ rpc[r] = "placeable"
  /\ rpc' = [rpc EXCEPT ![r] =
       IF KV!Fits({KV!Primary}, Estimate(r)) THEN "queued" ELSE "rejected"]
  /\ UNCHANGED <<step, cur, again, routeVars, budget, allocVars>>

-----------------------------------------------------------------------------
(* The decode thread.                                                      *)

\* run_prefill: route and reserve.
BeginPrefill(r) ==
  /\ step = "idle" /\ rpc[r] = "queued"
  /\ cur' = r /\ step' = "alloc"
  /\ rpc' = [rpc EXCEPT ![r] = "inhand"]
  /\ LET D == Route(budget, SeqLen[r], rr)
     IN  /\ assigned' = [assigned EXCEPT ![r] = D]
         /\ budget' = Reserve(budget, D, Estimate(r))
  /\ rr' = IF Strategy(SeqLen[r]) = "PerRequest"
           THEN (rr + 1) % Len(DeviceList) ELSE rr
  /\ UNCHANGED <<again, allocVars>>

\* run_prefill: the allocation, tensor-parallel when the route has several
\* devices.
AllocateKV ==
  /\ step = "alloc"
  /\ \/ /\ Cardinality(assigned[cur]) > 1
        /\ KV!AllocateTP(cur, SeqLen[cur])
     \/ /\ Cardinality(assigned[cur]) = 1
        /\ KV!Allocate(cur, SeqLen[cur])
  /\ step' = IF result' = "ok" THEN "commit" ELSE "unreserve"
  /\ lost' = lost \cup {<<cur, d>> : d \in {e \in RouterDevices :
                            result' = "internal" /\ count'[e] # count[e]}}
  /\ UNCHANGED <<rpc, cur, again, routeVars, budget>>

CommitBudget ==
  /\ step = "commit"
  /\ budget' = Commit(budget, assigned[cur], Estimate(cur))
  /\ step' = "prefill"
  /\ UNCHANGED <<rpc, cur, again, routeVars, allocVars>>

\* run_prefill returns the error; fail_request calls free_resources.
ReleaseReservation ==
  /\ step = "unreserve"
  /\ budget' = Unreserve(budget, assigned[cur], Estimate(cur))
  /\ step' = "release"
  /\ UNCHANGED <<rpc, cur, again, routeVars, allocVars>>

PrefillDone ==
  /\ step = "prefill"
  /\ rpc' = [rpc EXCEPT ![cur] = "active"]
  /\ step' = "idle" /\ cur' = NoRequest
  /\ UNCHANGED <<again, routeVars, budget, allocVars>>

\* The prefill fails: run_prefill calls free_resources and fail_request does
\* so again.
PrefillFails ==
  /\ step = "prefill"
  /\ again' = TRUE /\ step' = "release"
  /\ UNCHANGED <<rpc, cur, routeVars, budget, allocVars>>

\* An active request is completed or failed.
End(r) ==
  /\ step = "idle" /\ rpc[r] = "active"
  /\ cur' = r /\ step' = "release"
  /\ UNCHANGED <<rpc, again, routeVars, budget, allocVars>>

\* free_resources without its is_valid test.
MutHoldsCache(r) == assigned[r] # {}

\* The tests of free_resources.
HoldsCache(r) == KV!IsValid(r) /\ assigned[r] # {}

\* free_resources: the router's account first, or nothing for a handle that
\* is not valid.
ReleaseBudget ==
  /\ step = "release"
  /\ \/ /\ HoldsCache(cur)
        /\ budget' = FreeBudget(budget, assigned[cur], Estimate(cur))
        /\ step' = "freeCache"
        /\ UNCHANGED <<rpc, cur, again>>
     \/ /\ ~HoldsCache(cur)
        /\ rpc' = [rpc EXCEPT ![cur] = "ended"]
        /\ step' = "idle" /\ cur' = NoRequest /\ again' = FALSE
        /\ UNCHANGED budget
  /\ UNCHANGED <<routeVars, allocVars>>

\* free_resources: the cache itself.
FreeCache ==
  /\ step = "freeCache"
  /\ KV!Free(cur)
  /\ IF again
     THEN step' = "release" /\ UNCHANGED <<rpc, cur>>
     ELSE /\ rpc' = [rpc EXCEPT ![cur] = "ended"]
          /\ step' = "idle" /\ cur' = NoRequest
  /\ again' = FALSE
  /\ UNCHANGED <<routeVars, budget, lost>>

MNext ==
  \/ \E r \in Requests :
       AdmitRouter(r) \/ AdmitAllocator(r) \/ BeginPrefill(r) \/ End(r)
  \/ AllocateKV \/ CommitBudget \/ ReleaseReservation
  \/ PrefillDone \/ PrefillFails
  \/ ReleaseBudget \/ FreeCache

MSpec == MInit /\ [][MNext]_mvars

-----------------------------------------------------------------------------
(* What must hold.                                                         *)

\* The requests whose share of device d is in used_memory.
Committed(d) ==
  {r \in Requests : /\ KV!IsValid(r) /\ d \in assigned[r]
                    /\ r = cur => step \notin {"commit", "freeCache"}}

\* The request whose share of device d is in reserved_memory.
Reserving(d) ==
  {r \in Requests : /\ r = cur /\ d \in assigned[r]
                    /\ step \in {"alloc", "commit", "unreserve"}}

\* What each request is charged on each of its devices, and the requests of R
\* together.
Shares == [r \in Requests |-> Share(assigned[r], Estimate(r))]
Charged(R) == Sum(Shares, R)

\* The router's account is exact on every path of a request, a prefill that
\* fails and frees twice included: used_memory is what the requests with a
\* cache were charged, reserved_memory what the one being allocated reserves.
BudgetExact ==
  \A d \in RouterDevices :
    /\ budget[d].used = Charged(Committed(d))
    /\ budget[d].reserved = Charged(Reserving(d))

\* Though nothing tests a budget when it is charged, and admission looked at
\* it long before, used_memory stays within total_memory and within what the
\* allocator has charged to the primary device, which every request uses.
UsedWithinTotal ==
  \A d \in RouterDevices :
    budget[d].used <= used[KV!Primary] /\ used[KV!Primary] <= Budget

\* The requests whose allocation failed after d was charged, what each of
\* them had charged, and all of them together.
LostOn(d) == {r \in Requests : <<r, d>> \in lost}
Waste == [r \in Requests |-> KV!BytesPerDevice(SeqLen[r])]
Lost(d) == Sum(Waste, LostOn(d))

\* A request that has ended has no cache, and used_bytes of the allocator
\* keeps of it exactly what its own allocation charged before it failed on a
\* later device, which nothing ever credits: on every device the account is
\* what the requests with a cache hold there and what such failures left.
EndedSettled ==
  /\ \A r \in Requests : rpc[r] \in {"rejected", "ended"} =>
       ~KV!IsValid(r) /\ \A d \in RouterDevices : <<r, d>> \notin live
  /\ \A d \in RouterDevices : used[d] = KV!HeldOn(d) + Lost(d)

=============================================================================
