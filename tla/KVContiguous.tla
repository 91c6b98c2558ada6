---------------------------- MODULE KVContiguous ----------------------------
(***************************************************************************)
(* ContiguousKVAllocator of src/kvcache/kv_allocator.cpp: one cudaMalloc'd *)
(* K and V block per request and device, with per-device statistics.       *)
(* Every operation holds the allocator's mutex throughout and is one step. *)
(* Memory is counted in the bytes one KV head needs for one token.         *)
(***************************************************************************)
EXTENDS KVAllocator, Sums

CONSTANTS
  Total,   \* max_total_memory
  KVHeads  \* num_kv_heads

ASSUME ContiguousAssumption == Total \in Nat /\ KVHeads \in Nat

VARIABLES
  kind,    \* kind[h]: "none" (not valid), "single" or "tp"
  bytes,   \* bytes[h]: what h holds on each of its devices
  used,    \* used[d]: device_stats_[d].used_bytes
  free,    \* free[d]: device_stats_[d].free_bytes
  count,   \* count[d]: device_stats_[d].active_allocations
  live,    \* the caches <<h, d>> that cudaMalloc gave and cudaFree has not got
  result   \* what the last operation returned

cvars == <<kind, bytes, used, free, count, live, result>>

\* bytes_for_seq_len and bytes_for_seq_len_per_device: the heads are split
\* with an integer division.
BytesForSeqLen(n) == n * KVHeads
BytesPerDevice(n) == n * (KVHeads \div Len(DeviceList))

\* is_valid().
IsValid(h) == kind[h] # "none"

\* The devices on which h holds a cache.
DevicesOf(h) ==
  IF kind[h] = "tp" THEN Devices
  ELSE IF kind[h] = "single" THEN {Primary} ELSE {}

CInit ==
  /\ kind = [h \in Handles |-> "none"]
  /\ bytes = [h \in Handles |-> 0]
  /\ used = [d \in Devices |-> 0]
  /\ free = [d \in Devices |-> Total]
  /\ count = [d \in Devices |-> 0]
  /\ live = {}
  /\ result = "ok"

\* The statistics after b more bytes on each device of D.
Charge(D, b) ==
  /\ used' = [d \in Devices |-> IF d \in D THEN used[d] + b ELSE used[d]]
  /\ free' = [d \in Devices |-> IF d \in D THEN free[d] - b ELSE free[d]]
  /\ count' = [d \in Devices |-> IF d \in D THEN count[d] + 1 ELSE count[d]]

\* free that leaves free_bytes alone.
MutCredit(D, b) ==
  /\ used' = [d \in Devices |-> IF d \in D THEN used[d] - b ELSE used[d]]
  /\ count' = [d \in Devices |-> IF d \in D THEN count[d] - 1 ELSE count[d]]
  /\ UNCHANGED free

\* free that credits the first device only.
MutCreditPrimary(D, b) ==
  /\ used' = [used EXCEPT ![Primary] = @ - b]
  /\ free' = [free EXCEPT ![Primary] = @ + b]
  /\ count' = [count EXCEPT ![Primary] = @ - 1]

\* The statistics after b bytes less on each device of D.
Credit(D, b) ==
  /\ used' = [d \in Devices |-> IF d \in D THEN used[d] - b ELSE used[d]]
  /\ free' = [d \in Devices |-> IF d \in D THEN free[d] + b ELSE free[d]]
  /\ count' = [d \in Devices |-> IF d \in D THEN count[d] - 1 ELSE count[d]]

\* A memory test that only asks whether any memory is left.
MutFits(D, b) == \A d \in D : free[d] > 0

\* The memory tests before an allocation, also can_allocate and
\* can_allocate_tensor_parallel.
Fits(D, b) == \A d \in D : b <= free[d]

Grant(h, k, D, b) ==
  /\ kind' = [kind EXCEPT ![h] = k]
  /\ bytes' = [bytes EXCEPT ![h] = b]
  /\ Charge(D, b)
  /\ live' = live \cup {<<h, d>> : d \in D}
  /\ result' = "ok"

\* An allocation refused with nothing changed: too little memory, or a CUDA
\* error before any cache was charged (a lone K block is freed again).
Refuse(why) ==
  /\ result' = why
  /\ UNCHANGED <<kind, bytes, used, free, count, live>>

\* allocate, which is allocate_on_device for the primary device.
Allocate(h, n) ==
  /\ ~IsValid(h)
  /\ LET b == BytesForSeqLen(n)
     IN  \/ ~Fits({Primary}, b) /\ Refuse("resource_exhausted")
         \/ Fits({Primary}, b) /\ 1 \in FailAt /\ Refuse("internal")
         \/ Fits({Primary}, b) /\ Grant(h, "single", {Primary}, b)

\* The caches left after a CUDA error at place i when only the cache of
\* device i itself is given up.
MutCleanup(h, i) == live \cup {<<h, DeviceList[j]>> : j \in 1 .. i - 1}

\* The cleanup loops of allocate_tensor_parallel: every cache already made is
\* freed again.
Cleanup(h, i) == live

\* allocate_tensor_parallel: the devices are charged one by one as their
\* caches are made, and an error at place i frees the caches only.
AllocateTP(h, n) ==
  /\ ~IsValid(h)
  /\ LET b == BytesPerDevice(n)
     IN  \/ ~Fits(Devices, b) /\ Refuse("resource_exhausted")
         \/ /\ Fits(Devices, b)
            /\ \E i \in FailAt :
                 /\ Charge({DeviceList[j] : j \in 1 .. i - 1}, b)
                 /\ live' = Cleanup(h, i)
            /\ result' = "internal"
            /\ UNCHANGED <<kind, bytes>>
         \/ Fits(Devices, b) /\ Grant(h, "tp", Devices, b)

\* free: an invalid handle is ignored.
Free(h) ==
  /\ IsValid(h)
  /\ Credit(DevicesOf(h), bytes[h])
  /\ live' = live \ {<<h, d>> : d \in DevicesOf(h)}
  /\ kind' = [kind EXCEPT ![h] = "none"]
  /\ bytes' = [bytes EXCEPT ![h] = 0]
  /\ result' = "ok"

CNext ==
  \E h \in Handles :
    \/ \E n \in Lengths : Allocate(h, n) \/ AllocateTP(h, n)
    \/ Free(h)

CSpec == CInit /\ [][CNext]_cvars

-----------------------------------------------------------------------------
(* What must hold.                                                         *)

\* The types of the variables.
CTypeOK ==
  /\ kind \in [Handles -> {"none", "single", "tp"}]
  /\ bytes \in [Handles -> Nat]
  /\ used \in [Devices -> Int] /\ free \in [Devices -> Int]
  /\ count \in [Devices -> Int]
  /\ live \subseteq Handles \X Devices
  /\ result \in Result

\* used_bytes and free_bytes of a device always add up to its total: no path
\* of allocation, failure or free creates or loses budget between the two.
Conservation == \A d \in Devices : used[d] + free[d] = Total

\* The memory CUDA has given out is exactly what the valid handles hold: a
\* CUDA error halfway through the devices leaks no cache, and no handle
\* outlives its cache.
NoCacheLeak == live = {c \in Handles \X Devices : c[2] \in DevicesOf(c[1])}

\* The handles with a cache on d, and the bytes they hold there.
Holders(d) == {h \in Handles : d \in DevicesOf(h)}
HeldOn(d) == Sum(bytes, Holders(d))

\* The statistics never promise memory the device does not have: what is held
\* is at most used_bytes, which is at most the total, even after the errors
\* that leave a device charged.
NoOvercommit ==
  \A d \in Devices : HeldOn(d) <= used[d] /\ used[d] <= Total

=============================================================================
