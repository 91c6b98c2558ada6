-------------------------- MODULE MemoryPlaneProofs --------------------------
(***************************************************************************)
(* Proofs about the router's and the allocator's accounts together, for    *)
(* every set of requests, every list of devices and every failure of CUDA. *)
(* That the accounts agree rests on one property of the configuration,     *)
(* HeadsSplitEvenly; what an ended request leaves behind does not.         *)
(***************************************************************************)
EXTENDS MemoryPlane, SumTheorems, FiniteSetTheorems, SequenceTheorems, TLAPS

\* The theorems about the allocator.
KVP == INSTANCE KVContiguousProofs WITH
         Handles <- Requests, Total <- Budget,
         Lengths <- {SeqLen[r] : r \in Requests}

-----------------------------------------------------------------------------
(* Devices and sizes.                                                      *)

\* The devices share the KV heads without remainder.  The router divides a
\* request's bytes by the number of devices, the allocator its heads.
HeadsSplitEvenly == KVHeads % Len(DeviceList) = 0

\* The places of the list of devices.
LEMMA ListFacts ==
  /\ Len(DeviceList) \in Nat \ {0}
  /\ DOMAIN DeviceList = 1 .. Len(DeviceList)
  /\ 1 \in DOMAIN DeviceList
  /\ \A i \in DOMAIN DeviceList : DeviceList[i] \in RouterDevices
<1>1. Len(DeviceList) \in Nat \ {0} /\ DOMAIN DeviceList = 1 .. Len(DeviceList)
  BY RouterAssumption, EmptySeq, LenProperties
<1> QED
  BY <1>1 DEF RouterDevices

\* As many devices as places.
LEMMA DeviceCount ==
  /\ IsFiniteSet(RouterDevices)
  /\ Cardinality(RouterDevices) = Len(DeviceList)
<1> DEFINE n == Len(DeviceList)
<1>1. n \in Nat /\ DOMAIN DeviceList = 1 .. n
  BY ListFacts
<1>2. DeviceList \in [1 .. n -> RouterDevices]
  BY <1>1, RouterAssumption
<1>3. DeviceList \in Bijection(1 .. n, RouterDevices)
  BY <1>1, <1>2, RouterAssumption
  DEF Bijection, Injection, Surjection, IsInjective, RouterDevices
<1>4. ExistsBijection(1 .. n, RouterDevices)
  BY <1>3 DEF ExistsBijection
<1> HIDE DEF n
<1>5. IsFiniteSet(1 .. n) /\ Cardinality(1 .. n) = n
  BY <1>1, FS_Interval
<1>6. IsFiniteSet(RouterDevices) /\ Cardinality(RouterDevices) = n
  BY <1>4, <1>5, FS_Bijection
<1> QED
  BY <1>6 DEF n

\* The budgets the router keeps.
Budgets == [RouterDevices -> [used : Nat, reserved : Nat]]

\* The counters never leave the range of their type.
LEMMA MoveType ==
  ASSUME NEW bs \in Budgets, NEW D, NEW u \in Int, NEW v \in Int
  PROVE  Move(bs, D, u, v) \in Budgets
<1>1. \A x \in Int : x % Word \in Nat
  BY RouterAssumption
<1>2. \A d \in RouterDevices :
        /\ bs[d] \in [used : Nat, reserved : Nat]
        /\ (bs[d].used + u) % Word \in Nat /\ (bs[d].reserved + v) % Word \in Nat
  BY <1>1 DEF Budgets
<1> QED
  BY <1>2 DEF Move, Budgets

\* The memory available is a number below the number of size_t values.
LEMMA AvailableType ==
  ASSUME NEW b \in [used : Nat, reserved : Nat]
  PROVE  Available(b) \in Nat /\ Available(b) < Word
<1>1. \A x \in Int : x % Word \in Nat /\ x % Word < Word
  BY RouterAssumption
<1> DEFINE x == Budget - b.used - b.reserved
<1>2. x \in Int /\ 0 < Word
  BY RouterAssumption
<1>3. Available(b) = 0 \/ Available(b) = x % Word
  BY DEF Available
<1> HIDE DEF x
<1> QED
  BY <1>1, <1>2, <1>3

\* The search for the device with most memory ends at one of the devices.
LEMMA BestDeviceType ==
  ASSUME NEW bs \in Budgets, NEW n \in Nat
  PROVE  BestDevice(bs, n) \in RouterDevices
<1> DEFINE avail(i) == Available(bs[DeviceList[i]])
           P == DOMAIN DeviceList
<1>1. \A i \in P : avail(i) \in Nat /\ avail(i) < Word
  BY ListFacts, AvailableType DEF Budgets
<1>2. P \subseteq Nat /\ 1 \in P /\ Word \in Nat
  BY ListFacts, RouterAssumption
<1> HIDE DEF avail, P
<1>3. PICK m \in P : \A j \in P : avail(j) <= avail(m)
  <2> DEFINE T == {Word - avail(i) : i \in P}
  <2>1. T \subseteq Nat /\ T # {}
    BY <1>1, <1>2
  <2>2. PICK x \in T : \A y \in T : x <= y
    BY <2>1, LeastOf
  <2>3. PICK m \in P : x = Word - avail(m)
    BY <2>2
  <2>4. \A j \in P : Word - avail(m) <= Word - avail(j)
    BY <2>2, <2>3
  <2> QED
    BY <1>1, <1>2, <2>3, <2>4
<1>4. PICK i \in P : \A j \in P : avail(j) <= avail(i) /\ (j < i => avail(j) < avail(i))
  <2> DEFINE T == {i \in P : avail(i) = avail(m)}
  <2>1. T \subseteq Nat /\ T # {}
    BY <1>2, <1>3
  <2>2. PICK i \in T : \A y \in T : i <= y
    BY <2>1, LeastOf
  <2>3. \A j \in P : j < i => j \notin T
    BY <1>2, <2>2
  <2>4. \A j \in P : avail(j) <= avail(i) /\ (j < i => avail(j) < avail(i))
    BY <1>1, <1>3, <2>2, <2>3
  <2> QED
    BY <2>2, <2>4
<1>5. (CHOOSE k \in P : \A j \in P : avail(j) <= avail(k) /\ (j < k => avail(j) < avail(k)))
        \in P
  BY <1>4
<1>6. SelectDevice(n) \in RouterDevices
  <2>1. (n % Len(DeviceList)) + 1 \in 1 .. Len(DeviceList)
    BY ListFacts
  <2> QED
    BY <2>1, ListFacts DEF SelectDevice
<1> QED
  BY <1>5, <1>6, ListFacts DEF BestDevice, avail, P

\* A request is placed on one device or on all of them.
Placed(D) == D = RouterDevices \/ \E d \in RouterDevices : D = {d}

\* route returns such a place.
LEMMA RoutePlaces ==
  ASSUME NEW bs \in Budgets, NEW n, NEW k \in Nat
  PROVE  Placed(Route(bs, n, k)) /\ Route(bs, n, k) \subseteq RouterDevices
  BY BestDeviceType DEF Route, Placed

\* A place has devices, as many as the router counts.
LEMMA PlacedFacts ==
  ASSUME NEW D, Placed(D)
  PROVE  /\ D # {} /\ D \subseteq RouterDevices /\ Cardinality(D) \in Nat \ {0}
         /\ Cardinality(D) > 1 => D = RouterDevices
<1>1. RouterDevices # {}
  BY ListFacts
<1>2. \A d \in RouterDevices : Cardinality({d}) = 1
  BY FS_Singleton
<1> QED
  BY <1>1, <1>2, DeviceCount, ListFacts DEF Placed

\* What a request needs in all.
LEMMA SizeTypes ==
  ASSUME NEW r \in Requests
  PROVE  Estimate(r) \in Nat /\ Estimate(r) = SeqLen[r] * KVHeads
<1>1. SeqLen[r] \in Nat /\ KVHeads \in Nat
  BY PlaneAssumption
<1>2. \A x, y \in Nat : x * y \in Nat
  OBVIOUS
<1> QED
  BY <1>1, <1>2 DEF Estimate, KV!BytesForSeqLen

\* A share is a number no greater than the whole.
LEMMA ShareType ==
  ASSUME NEW D, Placed(D), NEW size \in Nat
  PROVE  Share(D, size) \in Nat /\ Share(D, size) <= size
<1>1. \A m \in Nat \ {0} : size \div m \in Nat /\ size \div m <= size
  OBVIOUS
<1> QED
  BY <1>1, PlacedFacts DEF Share

\* With heads that split evenly, dividing the bytes and dividing the heads
\* come to the same.
LEMMA EvenSplit ==
  ASSUME HeadsSplitEvenly, NEW r \in Requests
  PROVE  Share(RouterDevices, Estimate(r)) =
           SeqLen[r] * (KVHeads \div Len(DeviceList))
<1> DEFINE L == Len(DeviceList)
           q == KVHeads \div L
           n == SeqLen[r]
<1>1. L \in Nat \ {0} /\ KVHeads \in Nat /\ n \in Nat
  BY ListFacts, PlaneAssumption
<1>2. q \in Nat /\ KVHeads = L * q
  BY <1>1 DEF HeadsSplitEvenly
<1> HIDE DEF q, L, n
<1>3. n * KVHeads = L * (n * q) /\ n * q \in Nat
  BY <1>1, <1>2
<1>4. \A x \in Nat : (L * x) \div L = x
  BY <1>1
<1>5. (n * KVHeads) \div L = n * q
  BY <1>3, <1>4
<1>6. L = 1 => n * KVHeads = n * q
  BY <1>1, <1>2
<1>7. Share(RouterDevices, Estimate(r)) =
        IF L > 1 THEN (n * KVHeads) \div L ELSE n * KVHeads
  BY SizeTypes, DeviceCount DEF Share, L, n
<1> QED
  BY <1>1, <1>5, <1>6, <1>7 DEF q, L, n

-----------------------------------------------------------------------------
(* The allocator.                                                          *)

\* What module KVContiguous assumes of its constants.
LEMMA AllocatorAssumed ==
  /\ DeviceList \in Seq(KVP!Devices) /\ DeviceList # <<>>
  /\ \A i, j \in DOMAIN DeviceList : DeviceList[i] = DeviceList[j] => i = j
  /\ {SeqLen[r] : r \in Requests} \subseteq Nat
  /\ FailAt \subseteq DOMAIN DeviceList
  /\ Budget \in Nat /\ KVHeads \in Nat
  BY RouterAssumption, PlaneAssumption DEF RouterDevices, KVP!Devices

\* The operations of the plane's allocator are those of the theorems.
LEMMA SameOperations ==
  ASSUME NEW r, NEW n
  PROVE  /\ KV!Allocate(r, n) => KVP!Allocate(r, n)
         /\ KV!AllocateTP(r, n) => KVP!AllocateTP(r, n)
         /\ KV!Free(r) => KVP!Free(r)
         /\ KV!CInit => KVP!CInit
<1> USE DEF KV!IsValid, KVP!IsValid, KV!Primary, KVP!Primary, KV!Devices, KVP!Devices
<1>1. KV!Allocate(r, n) => KVP!Allocate(r, n)
  BY DEF KV!Allocate, KVP!Allocate, KV!Fits, KVP!Fits, KV!Refuse, KVP!Refuse,
         KV!Grant, KVP!Grant, KV!Charge, KVP!Charge,
         KV!BytesForSeqLen, KVP!BytesForSeqLen
<1>2. KV!AllocateTP(r, n) => KVP!AllocateTP(r, n)
  BY DEF KV!AllocateTP, KVP!AllocateTP, KV!Fits, KVP!Fits, KV!Refuse, KVP!Refuse,
         KV!Grant, KVP!Grant, KV!Charge, KVP!Charge, KV!Cleanup, KVP!Cleanup,
         KV!BytesPerDevice, KVP!BytesPerDevice
<1>3. KV!Free(r) => KVP!Free(r)
  BY DEF KV!Free, KVP!Free, KV!Credit, KVP!Credit, KV!DevicesOf, KVP!DevicesOf
<1>4. KV!CInit => KVP!CInit
  BY DEF KV!CInit, KVP!CInit
<1> QED
  BY <1>1, <1>2, <1>3, <1>4

\* The allocator's invariant survives its operations and all other steps.
LEMMA AllocatorStep ==
  ASSUME KVP!CInv, NEW r \in Requests,
         \/ KV!Allocate(r, SeqLen[r]) \/ KV!AllocateTP(r, SeqLen[r])
         \/ KV!Free(r) \/ UNCHANGED allocVars
  PROVE  KVP!CInv'
<1>1. CASE KV!Allocate(r, SeqLen[r]) \/ KV!AllocateTP(r, SeqLen[r])
  <2>1. KVP!Allocate(r, SeqLen[r]) \/ KVP!AllocateTP(r, SeqLen[r])
    BY <1>1, SameOperations
  <2>2. SeqLen[r] \in {SeqLen[q] : q \in Requests}
    OBVIOUS
  <2> QED
    BY <2>1, <2>2, AllocatorAssumed, KVP!AllocateStep
<1>2. CASE KV!Free(r)
  <2>1. KVP!Free(r)
    BY <1>2, SameOperations
  <2> QED
    BY <2>1, AllocatorAssumed, KVP!FreeStep
<1>3. CASE UNCHANGED allocVars
  <2>1. /\ UNCHANGED <<kind, bytes, used, free, count, live>>
        /\ result' \in KVP!Result
    BY <1>3 DEF allocVars, KVP!CInv, KVP!CTypeOK
  <2> QED
    BY <2>1, AllocatorAssumed, KVP!SameStep
<1> QED
  BY <1>1, <1>2, <1>3

\* Its facts in the terms of the plane.
LEMMA AllocatorFacts ==
  ASSUME KVP!CInv
  PROVE  /\ KV!Primary \in RouterDevices /\ KV!Devices = RouterDevices
         /\ kind \in [Requests -> {"none", "single", "tp"}]
         /\ bytes \in [Requests -> Nat]
         /\ \A r \in Requests, d \in RouterDevices : <<r, d>> \in live => KV!IsValid(r)
         /\ used[KV!Primary] \in Nat /\ used[KV!Primary] <= Budget
         /\ free[KV!Primary] \in Nat /\ free[KV!Primary] <= Budget
<1>1. /\ KV!Primary \in RouterDevices /\ KV!Devices = RouterDevices
      /\ KVP!Devices = RouterDevices /\ KVP!Primary = KV!Primary
  BY ListFacts DEF KV!Primary, KV!Devices, KVP!Devices, KVP!Primary, RouterDevices
<1>2. kind \in [Requests -> {"none", "single", "tp"}] /\ bytes \in [Requests -> Nat]
  BY DEF KVP!CInv, KVP!CTypeOK
<1>3. \A r \in Requests, d \in RouterDevices : <<r, d>> \in live => KV!IsValid(r)
  BY <1>1 DEF KVP!CInv, KVP!NoCacheLeak, KVP!DevicesOf, KV!IsValid
<1> DEFINE p == KV!Primary
<1>4. KVP!HeldOn(p) \in Nat
  BY <1>1, AllocatorAssumed, KVP!HeldType
<1>5. /\ used[p] \in Int /\ free[p] \in Int /\ used[p] + free[p] = Budget
      /\ KVP!HeldOn(p) <= used[p] /\ free[p] >= 0
  BY <1>1 DEF KVP!CInv, KVP!CTypeOK, KVP!Conservation, KVP!HeldInv
<1> HIDE DEF p
<1>6. used[p] \in Nat /\ used[p] <= Budget /\ free[p] \in Nat /\ free[p] <= Budget
  BY <1>4, <1>5, RouterAssumption
<1> QED
  BY <1>1, <1>2, <1>3, <1>6 DEF p

\* An allocation gives its handle a cache of the size asked for, or changes no
\* handle.
LEMMA AllocateEffect ==
  ASSUME NEW r, NEW n, KV!Allocate(r, n)
  PROVE  /\ ~KV!IsValid(r)
         /\ \/ result' # "ok" /\ UNCHANGED <<kind, bytes>>
            \/ /\ result' = "ok"
               /\ kind' = [kind EXCEPT ![r] = "single"]
               /\ bytes' = [bytes EXCEPT ![r] = KV!BytesForSeqLen(n)]
  BY DEF KV!Allocate, KV!Grant, KV!Refuse

\* The same of a tensor-parallel one.
LEMMA AllocateTPEffect ==
  ASSUME NEW r, NEW n, KV!AllocateTP(r, n)
  PROVE  /\ ~KV!IsValid(r)
         /\ \/ result' # "ok" /\ UNCHANGED <<kind, bytes>>
            \/ /\ result' = "ok"
               /\ kind' = [kind EXCEPT ![r] = "tp"]
               /\ bytes' = [bytes EXCEPT ![r] = KV!BytesPerDevice(n)]
  BY DEF KV!AllocateTP, KV!Grant, KV!Refuse

-----------------------------------------------------------------------------
(* Where requests are.                                                     *)

\* The types of the variables.
MTypes ==
  /\ rpc \in [Requests -> {"new", "placeable", "rejected", "queued", "inhand",
                           "active", "ended"}]
  /\ step \in {"idle", "alloc", "commit", "unreserve", "prefill", "release",
               "freeCache"}
  /\ cur \in Requests \cup {NoRequest}
  /\ assigned \in [Requests -> SUBSET RouterDevices]
  /\ budget \in Budgets
  /\ rr \in Nat

\* The decode thread works on one request, which has a cache from the
\* allocation to free.
CurInv ==
  /\ step = "idle" <=> cur = NoRequest
  /\ \A r \in Requests : rpc[r] = "inhand" => r = cur
  /\ cur # NoRequest =>
       \/ rpc[cur] = "inhand"
       \/ rpc[cur] = "active" /\ step \in {"release", "freeCache"}
  /\ step \in {"alloc", "unreserve"} => ~KV!IsValid(cur)
  /\ step \in {"commit", "prefill", "freeCache"} => KV!IsValid(cur)

\* A request that passed admission fits into a device by itself; from
\* run_prefill on it has a place; its cache has the size and the kind that
\* belong to its place, and nobody has one before run_prefill or after the end.
RequestInv(r) ==
  /\ KV!IsValid(r) => rpc[r] \in {"inhand", "active"}
  /\ rpc[r] \in {"queued", "inhand", "active"} => Estimate(r) <= Budget
  /\ rpc[r] \in {"inhand", "active"} => Placed(assigned[r])
  /\ kind[r] = "single" =>
       Cardinality(assigned[r]) = 1 /\ bytes[r] = Estimate(r)
  /\ kind[r] = "tp" =>
       Cardinality(assigned[r]) > 1 /\ bytes[r] = KV!BytesPerDevice(SeqLen[r])

\* The invariant about requests and caches.
PlaneInv == MTypes /\ KVP!CInv /\ CurInv /\ \A r \in Requests : RequestInv(r)

\* The two looks of admit.
LEMMA AdmitStep ==
  ASSUME PlaneInv, NEW r \in Requests, AdmitRouter(r) \/ AdmitAllocator(r)
  PROVE  PlaneInv'
<1> DEFINE to == rpc'[r]
<1>1. /\ rpc' = [rpc EXCEPT ![r] = to] /\ rpc[r] \in {"new", "placeable"}
      /\ to \in {"placeable", "rejected", "queued"}
      /\ to = "queued" => KV!Fits({KV!Primary}, Estimate(r))
      /\ UNCHANGED <<step, cur, again, routeVars, budget, allocVars>>
  BY DEF AdmitRouter, AdmitAllocator, PlaneInv, MTypes
<1>2. KVP!CInv'
  BY <1>1, AllocatorStep DEF PlaneInv
<1>3. MTypes'
  BY <1>1 DEF PlaneInv, MTypes, routeVars
<1>4. CurInv'
  BY <1>1, PlaneAssumption
  DEF PlaneInv, MTypes, CurInv, routeVars, allocVars, KV!IsValid
<1>5. to = "queued" => Estimate(r) <= Budget
  BY <1>1, AllocatorFacts, SizeTypes, RouterAssumption DEF PlaneInv, KV!Fits
<1>6. ASSUME NEW q \in Requests PROVE RequestInv(q)'
  <2>1. RequestInv(q) /\ (q # r => rpc'[q] = rpc[q])
    BY <1>1 DEF PlaneInv, MTypes
  <2>2. /\ assigned' = assigned /\ kind' = kind /\ bytes' = bytes
        /\ KV!IsValid(q)' <=> KV!IsValid(q)
    BY <1>1 DEF routeVars, allocVars, KV!IsValid
  <2>3. Estimate(q)' = Estimate(q)
    BY DEF Estimate, KV!BytesForSeqLen
  <2> QED
    BY <1>1, <1>5, <2>1, <2>2, <2>3 DEF RequestInv, Placed, KV!BytesPerDevice
<1> QED
  BY <1>2, <1>3, <1>4, <1>6 DEF PlaneInv

\* route and reserve.
LEMMA BeginPrefillStep ==
  ASSUME PlaneInv, NEW r \in Requests, BeginPrefill(r)
  PROVE  PlaneInv'
<1> DEFINE D == Route(budget, SeqLen[r], rr)
<1>1. /\ step = "idle" /\ rpc[r] = "queued" /\ cur' = r /\ step' = "alloc"
      /\ rpc' = [rpc EXCEPT ![r] = "inhand"]
      /\ assigned' = [assigned EXCEPT ![r] = D]
      /\ budget' = Reserve(budget, D, Estimate(r))
      /\ UNCHANGED <<again, allocVars>>
  BY DEF BeginPrefill
<1>2. rr' \in Nat
  <2>1. (rr + 1) % Len(DeviceList) \in Nat
    BY ListFacts DEF PlaneInv, MTypes
  <2> QED
    BY <2>1 DEF BeginPrefill, PlaneInv, MTypes
<1>3. Placed(D) /\ D \subseteq RouterDevices
  BY RoutePlaces DEF PlaneInv, MTypes
<1> HIDE DEF D
<1>4. KVP!CInv'
  BY <1>1, AllocatorStep DEF PlaneInv
<1>5. budget' \in Budgets
  <2>1. Share(D, Estimate(r)) \in Int
    BY <1>3, ShareType, SizeTypes
  <2> QED
    BY <1>1, <2>1, MoveType DEF Reserve, PlaneInv, MTypes
<1>6. MTypes'
  BY <1>1, <1>2, <1>3, <1>5 DEF PlaneInv, MTypes
<1>7. ~KV!IsValid(r) /\ RequestInv(r)
  BY <1>1 DEF PlaneInv, RequestInv
<1>8. CurInv'
  BY <1>1, <1>7, PlaneAssumption DEF PlaneInv, MTypes, CurInv, allocVars, KV!IsValid
<1>9. ASSUME NEW q \in Requests PROVE RequestInv(q)'
  <2>1. RequestInv(q) /\ (q # r => rpc'[q] = rpc[q] /\ assigned'[q] = assigned[q])
        /\ rpc'[r] = "inhand" /\ assigned'[r] = D
    BY <1>1 DEF PlaneInv, MTypes
  <2>2. kind' = kind /\ bytes' = bytes /\ (KV!IsValid(q)' <=> KV!IsValid(q))
    BY <1>1 DEF allocVars, KV!IsValid
  <2>3. Estimate(q)' = Estimate(q)
    BY DEF Estimate, KV!BytesForSeqLen
  <2>4. kind[r] = "none"
    BY <1>7 DEF KV!IsValid
  <2> QED
    BY <1>1, <1>3, <1>7, <2>1, <2>2, <2>3, <2>4
    DEF RequestInv, Placed, KV!BytesPerDevice
<1> QED
  BY <1>4, <1>6, <1>8, <1>9 DEF PlaneInv

\* The allocation: the cache has the kind and the size of the place.
LEMMA AllocateKVStep ==
  ASSUME PlaneInv, AllocateKV
  PROVE  PlaneInv'
<1> DEFINE n == SeqLen[cur]
<1>1. /\ step = "alloc" /\ step' = (IF result' = "ok" THEN "commit" ELSE "unreserve")
      /\ UNCHANGED <<rpc, cur, again, routeVars, budget>>
      /\ \/ Cardinality(assigned[cur]) > 1 /\ KV!AllocateTP(cur, n)
         \/ Cardinality(assigned[cur]) = 1 /\ KV!Allocate(cur, n)
  BY DEF AllocateKV
<1>2. cur \in Requests /\ rpc[cur] = "inhand"
  BY <1>1 DEF PlaneInv, MTypes, CurInv
<1>3. KVP!CInv'
  BY <1>1, <1>2, AllocatorStep DEF PlaneInv
<1>4. MTypes'
  BY <1>1 DEF PlaneInv, MTypes, routeVars
<1>5. /\ ~KV!IsValid(cur) /\ kind \in [Requests -> {"none", "single", "tp"}]
      /\ bytes \in [Requests -> Nat]
      /\ \/ result' # "ok" /\ UNCHANGED <<kind, bytes>>
         \/ /\ result' = "ok"
            /\ \/ /\ Cardinality(assigned[cur]) > 1
                  /\ kind' = [kind EXCEPT ![cur] = "tp"]
                  /\ bytes' = [bytes EXCEPT ![cur] = KV!BytesPerDevice(n)]
               \/ /\ Cardinality(assigned[cur]) = 1
                  /\ kind' = [kind EXCEPT ![cur] = "single"]
                  /\ bytes' = [bytes EXCEPT ![cur] = KV!BytesForSeqLen(n)]
  BY <1>1, AllocateEffect, AllocateTPEffect, AllocatorFacts DEF PlaneInv
<1>6. /\ result' = "ok" => KV!IsValid(cur)'
      /\ result' # "ok" => ~KV!IsValid(cur)'
  BY <1>1, <1>2, <1>5 DEF KV!IsValid
<1>7. CurInv'
  BY <1>1, <1>2, <1>6, PlaneAssumption DEF PlaneInv, CurInv
<1>8. ASSUME NEW q \in Requests PROVE RequestInv(q)'
  <2>1. RequestInv(q) /\ rpc' = rpc /\ assigned' = assigned
    BY <1>1 DEF PlaneInv, routeVars
  <2>2. Estimate(q)' = Estimate(q) /\ Estimate(q) = KV!BytesForSeqLen(SeqLen[q])
    BY DEF Estimate, KV!BytesForSeqLen
  <2>3. CASE q = cur
    BY <1>1, <1>2, <1>5, <2>1, <2>2, <2>3
    DEF RequestInv, Placed, KV!IsValid, KV!BytesPerDevice
  <2>4. CASE q # cur
    <3>1. kind'[q] = kind[q] /\ bytes'[q] = bytes[q]
      BY <1>5, <2>4
    <3> QED
      BY <2>1, <2>2, <3>1 DEF RequestInv, Placed, KV!IsValid, KV!BytesPerDevice
  <2> QED
    BY <2>3, <2>4
<1> QED
  BY <1>3, <1>4, <1>7, <1>8 DEF PlaneInv

\* A step that leaves requests, places and caches alone.
LEMMA PassStep ==
  ASSUME PlaneInv, UNCHANGED <<rpc, routeVars, allocVars>>, MTypes', CurInv'
  PROVE  PlaneInv'
<1>1. KVP!CInv'
  <2>1. UNCHANGED <<kind, bytes, used, free, count, live>> /\ result' \in KVP!Result
    BY DEF allocVars, PlaneInv, KVP!CInv, KVP!CTypeOK
  <2> QED
    BY <2>1, AllocatorAssumed, KVP!SameStep DEF PlaneInv
<1>2. \A q \in Requests : RequestInv(q)'
  BY DEF PlaneInv, RequestInv, Placed, Estimate, routeVars, allocVars, KV!IsValid,
         KV!BytesPerDevice, KV!BytesForSeqLen
<1> QED
  BY <1>1, <1>2 DEF PlaneInv

\* The decode thread's request is a request, and has a place and a share.
LEMMA CurFacts ==
  ASSUME PlaneInv, step # "idle"
  PROVE  /\ cur \in Requests /\ Placed(assigned[cur])
         /\ Estimate(cur) \in Nat /\ Estimate(cur) <= Budget
         /\ Share(assigned[cur], Estimate(cur)) \in Nat
         /\ Share(assigned[cur], Estimate(cur)) <= Budget
<1>1. cur \in Requests /\ rpc[cur] \in {"inhand", "active"}
  BY DEF PlaneInv, MTypes, CurInv
<1>2. Placed(assigned[cur]) /\ Estimate(cur) \in Nat /\ Estimate(cur) <= Budget
  BY <1>1, SizeTypes DEF PlaneInv, RequestInv
<1> DEFINE b == Share(assigned[cur], Estimate(cur))
<1>3. b \in Nat /\ b <= Estimate(cur)
  BY <1>2, ShareType
<1> HIDE DEF b
<1>4. b <= Budget
  BY <1>2, <1>3, RouterAssumption
<1> QED
  BY <1>1, <1>2, <1>3, <1>4 DEF b

\* commit and unreserve, a prefill that fails, and the budget's part of
\* free_resources.
LEMMA AccountStep ==
  ASSUME PlaneInv,
         \/ CommitBudget \/ ReleaseReservation \/ PrefillFails
         \/ ReleaseBudget /\ HoldsCache(cur)
  PROVE  PlaneInv'
<1>1. step # "idle" /\ UNCHANGED <<rpc, cur, routeVars, allocVars>>
  BY DEF CommitBudget, ReleaseReservation, PrefillFails, ReleaseBudget
<1> DEFINE b == Share(assigned[cur], Estimate(cur))
<1>2. b \in Int /\ -b \in Int /\ 0 \in Int
  BY <1>1, CurFacts
<1>3. \/ budget' = budget
      \/ \E u, v \in {0, b, -b} : budget' = Move(budget, assigned[cur], u, v)
  BY DEF CommitBudget, ReleaseReservation, PrefillFails, ReleaseBudget, Commit,
         Unreserve, FreeBudget
<1>4. budget' \in Budgets
  <2> HIDE DEF b
  <2> QED
    BY <1>2, <1>3, MoveType DEF PlaneInv, MTypes
<1>5. /\ step' \in {"prefill", "release", "freeCache"}
      /\ step' = "prefill" => step = "commit"
      /\ step' = "freeCache" => KV!IsValid(cur)
  BY DEF CommitBudget, ReleaseReservation, PrefillFails, ReleaseBudget, HoldsCache
<1>6. MTypes'
  BY <1>1, <1>4, <1>5 DEF PlaneInv, MTypes, routeVars
<1>7. step \in {"commit", "unreserve", "prefill", "release"}
  BY DEF CommitBudget, ReleaseReservation, PrefillFails, ReleaseBudget
<1>8. KV!IsValid(cur)' <=> KV!IsValid(cur)
  BY <1>1 DEF allocVars, KV!IsValid
<1>9. CurInv'
  BY <1>1, <1>5, <1>7, <1>8 DEF PlaneInv, CurInv
<1> QED
  BY <1>1, <1>6, <1>9, PassStep

\* The request becomes active, or an active one is taken up to be ended.
LEMMA TurnStep ==
  ASSUME PlaneInv, PrefillDone \/ \E r \in Requests : End(r)
  PROVE  PlaneInv'
<1>1. CASE PrefillDone
  <2>1. cur \in Requests /\ rpc[cur] = "inhand" /\ cur # NoRequest
    BY <1>1, PlaneAssumption DEF PrefillDone, PlaneInv, MTypes, CurInv
  <2>2. /\ rpc' = [rpc EXCEPT ![cur] = "active"] /\ step' = "idle" /\ cur' = NoRequest
        /\ UNCHANGED <<routeVars, budget, allocVars>>
    BY <1>1 DEF PrefillDone
  <2>3. KVP!CInv'
    BY <2>1, <2>2, AllocatorStep DEF PlaneInv
  <2>4. MTypes'
    BY <2>1, <2>2 DEF PlaneInv, MTypes, routeVars
  <2>5. CurInv'
    BY <2>1, <2>2 DEF PlaneInv, MTypes, CurInv
  <2>6. ASSUME NEW q \in Requests PROVE RequestInv(q)'
    <3>1. /\ RequestInv(q) /\ assigned' = assigned /\ kind' = kind /\ bytes' = bytes
          /\ rpc'[q] = rpc[q] \/ (rpc'[q] = "active" /\ rpc[q] = "inhand")
      BY <2>1, <2>2 DEF PlaneInv, MTypes, routeVars, allocVars
    <3> QED
      BY <3>1 DEF RequestInv, Placed, Estimate, KV!IsValid, KV!BytesPerDevice,
                  KV!BytesForSeqLen
  <2> QED
    BY <2>3, <2>4, <2>5, <2>6 DEF PlaneInv
<1>2. ASSUME NEW r \in Requests, End(r) PROVE PlaneInv'
  <2>1. /\ step = "idle" /\ rpc[r] = "active" /\ cur' = r /\ step' = "release"
        /\ UNCHANGED <<rpc, routeVars, budget, allocVars>>
    BY <1>2 DEF End
  <2>2. MTypes'
    BY <2>1 DEF PlaneInv, MTypes, routeVars
  <2>3. CurInv'
    BY <2>1, PlaneAssumption DEF PlaneInv, MTypes, CurInv
  <2> QED
    BY <2>1, <2>2, <2>3, PassStep
<1> QED
  BY <1>1, <1>2

\* free_resources is done with the request: it has no cache and is ended, or
\* free_resources is called once more.
LEMMA ReleaseStep ==
  ASSUME PlaneInv, FreeCache \/ (ReleaseBudget /\ ~HoldsCache(cur))
  PROVE  PlaneInv'
<1>1. /\ step \in {"release", "freeCache"} /\ cur \in Requests /\ cur # NoRequest
      /\ rpc[cur] \in {"inhand", "active"} /\ UNCHANGED <<routeVars, budget>>
      /\ assigned[cur] # {}
  <2>1. step \in {"release", "freeCache"} /\ UNCHANGED <<routeVars, budget>>
    BY DEF FreeCache, ReleaseBudget
  <2>2. cur \in Requests /\ cur # NoRequest /\ rpc[cur] \in {"inhand", "active"}
    BY <2>1, PlaneAssumption DEF PlaneInv, MTypes, CurInv
  <2> QED
    BY <2>1, <2>2, PlacedFacts DEF PlaneInv, RequestInv
<1>2. KVP!CInv'
  <2>1. KV!Free(cur) \/ UNCHANGED allocVars
    BY DEF FreeCache, ReleaseBudget
  <2> QED
    BY <1>1, <2>1, AllocatorStep DEF PlaneInv
<1>3. /\ kind \in [Requests -> {"none", "single", "tp"}] /\ bytes \in [Requests -> Nat]
      /\ kind'[cur] = "none"
      /\ \A q \in Requests \ {cur} : kind'[q] = kind[q] /\ bytes'[q] = bytes[q]
  <2>1. kind \in [Requests -> {"none", "single", "tp"}] /\ bytes \in [Requests -> Nat]
    BY AllocatorFacts DEF PlaneInv
  <2>2. CASE FreeCache
    BY <1>1, <2>1, <2>2 DEF FreeCache, KV!Free
  <2>3. CASE ReleaseBudget /\ ~HoldsCache(cur)
    BY <1>1, <2>1, <2>3 DEF ReleaseBudget, HoldsCache, KV!IsValid, allocVars
  <2> QED
    BY <2>1, <2>2, <2>3
<1>4. \/ step' = "release" /\ UNCHANGED <<rpc, cur>>
      \/ /\ step' = "idle" /\ cur' = NoRequest
         /\ rpc' = [rpc EXCEPT ![cur] = "ended"]
  BY DEF FreeCache, ReleaseBudget
<1>5. MTypes'
  BY <1>1, <1>4 DEF PlaneInv, MTypes, routeVars
<1>6. CurInv'
  BY <1>1, <1>4 DEF PlaneInv, MTypes, CurInv
<1>7. ASSUME NEW q \in Requests PROVE RequestInv(q)'
  <2>1. /\ RequestInv(q) /\ assigned' = assigned
        /\ rpc'[q] = rpc[q] \/ (q = cur /\ rpc'[q] = "ended")
    BY <1>1, <1>4 DEF PlaneInv, MTypes, routeVars
  <2> QED
    BY <1>3, <2>1 DEF RequestInv, Placed, Estimate, KV!IsValid, KV!BytesPerDevice,
                      KV!BytesForSeqLen
<1> QED
  BY <1>2, <1>5, <1>6, <1>7 DEF PlaneInv

\* Every step.
LEMMA PlaneStep == PlaneInv /\ [MNext]_mvars => PlaneInv'
<1>1. PlaneInv /\ UNCHANGED mvars => PlaneInv'
  <2> SUFFICES ASSUME PlaneInv, UNCHANGED mvars PROVE PlaneInv'
    OBVIOUS
  <2>1. UNCHANGED <<rpc, routeVars, allocVars>> /\ UNCHANGED <<step, cur, budget>>
    BY DEF mvars, routeVars
  <2>2. MTypes'
    BY <2>1 DEF PlaneInv, MTypes, routeVars
  <2>3. CurInv'
    BY <2>1 DEF PlaneInv, CurInv, allocVars, KV!IsValid
  <2> QED
    BY <2>1, <2>2, <2>3, PassStep
<1> QED
  BY <1>1, AdmitStep, BeginPrefillStep, AllocateKVStep, AccountStep, TurnStep,
     ReleaseStep DEF MNext

-----------------------------------------------------------------------------
(* The router's account.                                                   *)

\* Sums of the allocator's module are the sums of this one.
LEMMA SameSum ==
  ASSUME NEW f, NEW S
  PROVE  /\ KVP!IsFiniteSet(KVP!Units(f, S)) <=> IsFiniteSet(Units(f, S))
         /\ KVP!Sum(f, S) = Sum(f, S)
<1>1. KVP!Units(f, S) = Units(f, S)
  BY DEF KVP!Units, Units
<1>2. \A T : KVP!IsFiniteSet(T) <=> IsFiniteSet(T)
  BY DEF KVP!IsFiniteSet, IsFiniteSet
<1>3. \A T : KVP!Cardinality(T) = Cardinality(T)
  BY Zenon DEF KVP!Cardinality, Cardinality
<1> QED
  BY <1>1, <1>2, <1>3 DEF KVP!Sum, Sum

\* What a request with a cache is charged by the router is what the allocator
\* charged for it on the primary device.
LEMMA ShareIsBytes ==
  ASSUME HeadsSplitEvenly, PlaneInv, NEW r \in Requests, KV!IsValid(r)
  PROVE  Shares[r] = bytes[r] /\ bytes[r] \in Nat /\ r \in KVP!Holders(KV!Primary)
<1>1. kind[r] \in {"single", "tp"} /\ bytes[r] \in Nat
  BY AllocatorFacts DEF PlaneInv, KV!IsValid
<1>2. Placed(assigned[r]) /\ RequestInv(r)
  BY DEF PlaneInv, RequestInv
<1>3. Shares[r] = Share(assigned[r], Estimate(r))
  BY DEF Shares
<1>4. ASSUME kind[r] = "single" PROVE Shares[r] = bytes[r]
  BY <1>2, <1>3, <1>4 DEF RequestInv, Share
<1>5. ASSUME kind[r] = "tp" PROVE Shares[r] = bytes[r]
  <2>1. assigned[r] = RouterDevices
    BY <1>2, <1>5, PlacedFacts DEF RequestInv
  <2> QED
    BY <1>2, <1>3, <1>5, <2>1, EvenSplit DEF RequestInv, KV!BytesPerDevice
<1>6. r \in KVP!Holders(KV!Primary)
  <2>1. KV!Primary \in KVP!Devices /\ KV!Primary = KVP!Primary
    BY ListFacts DEF KV!Primary, KVP!Primary, KVP!Devices, RouterDevices
  <2> QED
    BY <1>1, <2>1 DEF KVP!Holders, KVP!DevicesOf
<1> QED
  BY <1>1, <1>4, <1>5, <1>6

\* What the requests with a cache are charged on a device is a number within
\* what the allocator has charged to the primary device.
LEMMA ChargedBound ==
  ASSUME HeadsSplitEvenly, PlaneInv, NEW d
  PROVE  /\ IsFiniteSet(Units(Shares, Committed(d)))
         /\ Charged(Committed(d)) \in Nat
         /\ Charged(Committed(d)) <= used[KV!Primary]
         /\ used[KV!Primary] <= Budget /\ Budget < Word
         /\ Charged(Committed(d)) < Word
<1> DEFINE p == KV!Primary
           H == KVP!Holders(p)
           S == Committed(d)
           f == Shares
<1>1. p \in KVP!Devices
  BY ListFacts DEF KV!Primary, KVP!Devices
<1>2. IsFiniteSet(Units(bytes, H)) /\ Sum(bytes, H) <= used[p]
  BY <1>1, SameSum DEF PlaneInv, KVP!CInv, KVP!HeldInv, KVP!HeldOn
<1>3. used[p] \in Nat /\ used[p] <= Budget /\ Budget < Word /\ Budget \in Nat /\ Word \in Nat
  BY AllocatorFacts, RouterAssumption DEF PlaneInv
<1>4. \A r \in S : /\ f[r] \in Int /\ bytes[r] \in Int /\ f[r] <= bytes[r] /\ r \in H
  BY ShareIsBytes DEF Committed
<1>5. Charged(S) = Sum(f, S)
  BY DEF Charged
<1> HIDE DEF p, H, S, f
<1>6. IsFiniteSet(Units(f, S)) /\ Sum(f, S) <= Sum(bytes, H)
  BY <1>2, <1>4, SumMonotone
<1>7. Sum(f, S) \in Nat /\ Sum(bytes, H) \in Nat
  BY <1>2, <1>6, SumType
<1>8. Sum(f, S) <= used[p] /\ Sum(f, S) < Word
  BY <1>2, <1>3, <1>6, <1>7
<1> QED
  BY <1>3, <1>5, <1>6, <1>7, <1>8 DEF p, S, f

\* What is charged never leaves the range of size_t.
InRange ==
  \A d \in RouterDevices :
    Charged(Committed(d)) \in Nat /\ Charged(Committed(d)) < Word

\* The range in a state, and in the next one.
LEMMA RangeHolds == HeadsSplitEvenly /\ PlaneInv => InRange
  BY ChargedBound DEF InRange
LEMMA RangeHoldsNext == (HeadsSplitEvenly /\ PlaneInv => InRange)'
  BY RangeHolds, PTL

\* The range of the next state, for one device.
LEMMA ChargedBoundNext ==
  ASSUME HeadsSplitEvenly, PlaneInv', NEW d \in RouterDevices
  PROVE  Charged(Committed(d))' \in Nat /\ Charged(Committed(d))' < Word
<1>1. HeadsSplitEvenly'
  BY DEF HeadsSplitEvenly
<1> QED
  BY <1>1, RangeHoldsNext DEF InRange

\* Nobody is charged nothing.
LEMMA ChargedNone == Charged({}) = 0 /\ Charged({})' = 0
<1>1. \A f : Sum(f, {}) = 0
  BY SumZero
<1> QED
  BY <1>1 DEF Charged

\* A number of the type's range.
LEMMA NoWrap == \A x \in Nat : x < Word => x % Word = x
  BY RouterAssumption

\* What is in the account of a device, as numbers.
LEMMA AccountFacts ==
  ASSUME HeadsSplitEvenly, PlaneInv, BudgetExact, NEW d \in RouterDevices
  PROVE  /\ budget[d] \in [used : Nat, reserved : Nat]
         /\ budget[d].used = Sum(Shares, Committed(d)) /\ budget[d].used < Word
         /\ IsFiniteSet(Units(Shares, Committed(d)))
         /\ budget[d].reserved = Charged(Reserving(d))
  BY ChargedBound DEF PlaneInv, MTypes, Budgets, BudgetExact, Charged

\* A step that moves nobody in or out of an account.
LEMMA AccountSame ==
  ASSUME BudgetExact, UNCHANGED <<budget, assigned>>,
         \A d \in RouterDevices : /\ Committed(d)' = Committed(d)
                                  /\ Reserving(d)' = Reserving(d)
  PROVE  BudgetExact'
<1>1. Shares' = Shares
  BY DEF Shares, Estimate, KV!BytesForSeqLen
<1> QED
  BY <1>1 DEF BudgetExact, Charged

\* The steps that leave both accounts of the router alone.
LEMMA QuietStep ==
  ASSUME PlaneInv, PlaneInv', BudgetExact,
         \/ \E r \in Requests : AdmitRouter(r) \/ AdmitAllocator(r) \/ End(r)
         \/ AllocateKV \/ PrefillDone \/ PrefillFails \/ FreeCache
         \/ ReleaseBudget /\ ~HoldsCache(cur)
         \/ UNCHANGED mvars
  PROVE  BudgetExact'
<1>1. UNCHANGED <<budget, assigned>>
  BY DEF AdmitRouter, AdmitAllocator, End, AllocateKV, PrefillDone, PrefillFails,
         FreeCache, ReleaseBudget, mvars, routeVars
<1>2. ASSUME NEW d \in RouterDevices
      PROVE  Committed(d)' = Committed(d) /\ Reserving(d)' = Reserving(d)
  <2>1. CASE \/ \E r \in Requests : AdmitRouter(r) \/ AdmitAllocator(r)
             \/ UNCHANGED mvars
    BY <2>1 DEF AdmitRouter, AdmitAllocator, mvars, routeVars, allocVars, Committed,
                Reserving, KV!IsValid
  <2>2. CASE \E r \in Requests : End(r)
    BY <2>2 DEF End, routeVars, allocVars, PlaneInv, MTypes, CurInv,
                Committed, Reserving, KV!IsValid
  <2>3. CASE PrefillDone
    BY <2>3, PlaneAssumption DEF PrefillDone, routeVars, allocVars, PlaneInv, MTypes,
                CurInv, Committed, Reserving, KV!IsValid
  <2>4. CASE PrefillFails
    BY <2>4 DEF PrefillFails, routeVars, allocVars, Committed, Reserving, KV!IsValid
  <2>5. CASE ReleaseBudget /\ ~HoldsCache(cur)
    BY <2>5, PlaneAssumption DEF ReleaseBudget, HoldsCache, routeVars, allocVars,
                PlaneInv, MTypes, CurInv, Committed, Reserving, KV!IsValid
  <2>6. CASE AllocateKV
    <3>1. /\ step = "alloc" /\ step' \in {"commit", "unreserve"} /\ cur' = cur
          /\ cur \in Requests
      BY <2>6 DEF AllocateKV, PlaneInv, MTypes, CurInv
    <3>2. /\ ~KV!IsValid(cur) /\ (KV!IsValid(cur)' => step' = "commit")
          /\ \A r \in Requests \ {cur} : KV!IsValid(r)' <=> KV!IsValid(r)
      <4>1. ~KV!IsValid(cur) /\ (KV!IsValid(cur)' => step' = "commit")
        BY <3>1 DEF PlaneInv, CurInv
      <4>2. kind \in [Requests -> {"none", "single", "tp"}]
        BY AllocatorFacts DEF PlaneInv
      <4>3. \/ kind' = kind \/ \E k : kind' = [kind EXCEPT ![cur] = k]
        BY <2>6, AllocateEffect, AllocateTPEffect DEF AllocateKV
      <4> QED
        BY <4>1, <4>2, <4>3 DEF KV!IsValid
    <3> QED
      BY <1>1, <3>1, <3>2 DEF Committed, Reserving
  <2>7. CASE FreeCache
    <3>1. /\ step = "freeCache" /\ step' \in {"release", "idle"} /\ cur \in Requests
          /\ cur' = cur \/ cur' = NoRequest
      BY <2>7 DEF FreeCache, PlaneInv, MTypes, CurInv
    <3>2. /\ kind'[cur] = "none"
          /\ \A r \in Requests \ {cur} : kind'[r] = kind[r]
      <4>1. kind \in [Requests -> {"none", "single", "tp"}]
        BY AllocatorFacts DEF PlaneInv
      <4>2. kind' = [kind EXCEPT ![cur] = "none"]
        BY <2>7 DEF FreeCache, KV!Free
      <4> QED
        BY <3>1, <4>1, <4>2
    <3> QED
      BY <1>1, <3>1, <3>2, PlaneAssumption DEF Committed, Reserving, KV!IsValid
  <2> QED
    BY <2>1, <2>2, <2>3, <2>4, <2>5, <2>6, <2>7
<1> QED
  BY <1>1, <1>2, AccountSame

\* reserve: the request's share is reserved on its devices, and on no others.
LEMMA ReserveStep ==
  ASSUME HeadsSplitEvenly, PlaneInv, PlaneInv', BudgetExact,
         NEW r \in Requests, BeginPrefill(r)
  PROVE  BudgetExact'
<1> DEFINE D == assigned'[r]
           b == Share(D, Estimate(r))
<1>1. /\ step = "idle" /\ rpc[r] = "queued" /\ cur' = r /\ step' = "alloc"
      /\ UNCHANGED allocVars /\ budget' = Move(budget, D, 0, b)
      /\ assigned' = [assigned EXCEPT ![r] = D]
  BY DEF BeginPrefill, Reserve, PlaneInv, MTypes
<1>2. b \in Nat /\ b < Word
  <2>1. Placed(D)
    BY <1>1, RoutePlaces DEF BeginPrefill, PlaneInv, MTypes
  <2>2. Estimate(r) \in Nat /\ Estimate(r) <= Budget
    BY <1>1, SizeTypes DEF PlaneInv, RequestInv
  <2> HIDE DEF D
  <2>3. b \in Nat /\ b <= Estimate(r)
    BY <2>1, <2>2, ShareType
  <2> HIDE DEF b
  <2> QED
    BY <2>2, <2>3, RouterAssumption
<1>3. Shares'[r] = b /\ \A q \in Requests \ {r} : Shares'[q] = Shares[q]
  BY <1>1 DEF Shares, Estimate, KV!BytesForSeqLen, PlaneInv, MTypes
<1>4. ~KV!IsValid(r) /\ cur = NoRequest
  BY <1>1 DEF PlaneInv, CurInv, RequestInv
<1> SUFFICES ASSUME NEW d \in RouterDevices
             PROVE  /\ budget'[d].used = Charged(Committed(d))'
                    /\ budget'[d].reserved = Charged(Reserving(d))'
  BY DEF BudgetExact
<1> DEFINE C == Committed(d)
           f == Shares
           g == Shares'
<1>5. Committed(d)' = C /\ C \subseteq Requests \ {r}
  BY <1>1, <1>4, PlaneAssumption DEF Committed, allocVars, KV!IsValid, PlaneInv, MTypes
<1>6. Reserving(d) = {} /\ Reserving(d)' = (IF d \in D THEN {r} ELSE {})
  BY <1>1 DEF Reserving, PlaneInv, MTypes
<1>7. /\ budget[d].used \in Nat /\ budget[d].used = Sum(f, C) /\ budget[d].used < Word
      /\ budget[d].reserved = 0
  BY <1>6, AccountFacts, ChargedNone
<1>8. /\ Charged(Committed(d))' = Sum(g, C)
      /\ Charged(Reserving(d))' = Sum(g, IF d \in D THEN {r} ELSE {})
  BY <1>5, <1>6 DEF Charged
<1>9. /\ d \in D => /\ budget'[d].used = (budget[d].used + 0) % Word
                    /\ budget'[d].reserved = (budget[d].reserved + b) % Word
      /\ d \notin D => budget'[d] = budget[d]
  BY <1>1 DEF Move
<1>10. g[r] = b /\ \A x \in C : f[x] = g[x]
  BY <1>3, <1>5
<1> HIDE DEF C, f, g, D, b
<1>11. Sum(f, C) = Sum(g, C)
  BY <1>10, SumSame
<1>12. Sum(g, {r}) = b /\ Sum(g, {}) = 0
  BY <1>2, <1>10, SumOne, SumZero
<1>13. b % Word = b /\ budget[d].used % Word = budget[d].used
  BY <1>2, <1>7, NoWrap
<1> QED
  BY <1>2, <1>7, <1>8, <1>9, <1>11, <1>12, <1>13

\* commit, unreserve and free: what the decode thread moves for its request.
LEMMA MoveStep ==
  ASSUME HeadsSplitEvenly, PlaneInv, PlaneInv', BudgetExact,
         \/ CommitBudget \/ ReleaseReservation
         \/ ReleaseBudget /\ HoldsCache(cur)
  PROVE  BudgetExact'
<1> DEFINE D == assigned[cur]
           b == Share(D, Estimate(cur))
<1>1. step # "idle" /\ UNCHANGED <<cur, routeVars, allocVars>>
  BY DEF CommitBudget, ReleaseReservation, ReleaseBudget
<1>2. cur \in Requests /\ b \in Nat /\ b < Word /\ Word \in Nat
  <2>1. cur \in Requests /\ b \in Nat /\ b <= Budget
    BY <1>1, CurFacts
  <2> HIDE DEF b
  <2> QED
    BY <2>1, RouterAssumption
<1>3. Shares' = Shares /\ Shares[cur] = b
  BY <1>1, <1>2 DEF Shares, Estimate, KV!BytesForSeqLen, routeVars
<1> SUFFICES ASSUME NEW d \in RouterDevices
             PROVE  /\ budget'[d].used = Charged(Committed(d))'
                    /\ budget'[d].reserved = Charged(Reserving(d))'
  BY DEF BudgetExact
<1> DEFINE C == Committed(d)
           f == Shares
<1>4. /\ budget[d].used \in Nat /\ budget[d].used = Sum(f, C) /\ budget[d].used < Word
      /\ budget[d].reserved = Sum(f, Reserving(d)) /\ IsFiniteSet(Units(f, C))
  BY AccountFacts DEF Charged
<1>5. /\ Charged(Committed(d))' = Sum(f, Committed(d)')
      /\ Charged(Reserving(d))' = Sum(f, Reserving(d)')
  BY <1>3 DEF Charged
<1>6. Sum(f, Committed(d)') \in Nat /\ Sum(f, Committed(d)') < Word
  BY <1>5, ChargedBoundNext
<1>7. f[cur] = b /\ \A x \in C : f[x] \in Nat
  BY <1>3, ShareIsBytes DEF Committed
<1>8. Sum(f, {}) = 0 /\ Sum(f, {cur}) = b
  <2> HIDE DEF f, b
  <2> QED
    BY <1>2, <1>7, SumOne, SumZero
<1>9. 0 % Word = 0 /\ budget[d].used % Word = budget[d].used
      /\ \A x \in Nat : x < Word => x % Word = x
  BY <1>2, <1>4, NoWrap
<1>10. CASE CommitBudget
  <2>1. /\ step = "commit" /\ step' = "prefill"
        /\ budget' = Move(budget, D, b, -b)
    BY <1>10 DEF CommitBudget, Commit
  <2>2. /\ d \in D => /\ budget'[d].used = (budget[d].used + b) % Word
                      /\ budget'[d].reserved = (budget[d].reserved + (-b)) % Word
        /\ d \notin D => budget'[d] = budget[d]
    BY <2>1 DEF Move
  <2>3. /\ Committed(d)' = (IF d \in D THEN C \cup {cur} ELSE C) /\ cur \notin C
        /\ Reserving(d) = (IF d \in D THEN {cur} ELSE {}) /\ Reserving(d)' = {}
    BY <1>1, <1>2, <2>1
    DEF Committed, Reserving, routeVars, allocVars, KV!IsValid, PlaneInv, CurInv
  <2> HIDE DEF C, f, D, b
  <2>4. Sum(f, C \cup {cur}) = Sum(f, C) + b
    BY <1>2, <1>4, <1>7, <2>3, SumAdd
  <2>5. CASE d \in D
    <3>1. budget'[d].used = Sum(f, C \cup {cur})
      BY <1>4, <1>6, <1>9, <2>2, <2>3, <2>4, <2>5
    <3>2. budget'[d].reserved = 0
      BY <1>2, <1>4, <1>8, <1>9, <2>2, <2>3, <2>5
    <3> QED
      BY <1>5, <1>8, <2>3, <2>5, <3>1, <3>2
  <2>6. CASE d \notin D
    BY <1>4, <1>5, <1>8, <2>2, <2>3, <2>6
  <2> QED
    BY <2>5, <2>6
<1>11. CASE ReleaseReservation
  <2>1. step = "unreserve" /\ step' = "release" /\ budget' = Move(budget, D, 0, -b)
    BY <1>11 DEF ReleaseReservation, Unreserve
  <2>2. /\ d \in D => /\ budget'[d].used = (budget[d].used + 0) % Word
                      /\ budget'[d].reserved = (budget[d].reserved + (-b)) % Word
        /\ d \notin D => budget'[d] = budget[d]
    BY <2>1 DEF Move
  <2>3. /\ Committed(d)' = C /\ Reserving(d)' = {}
        /\ Reserving(d) = (IF d \in D THEN {cur} ELSE {})
    BY <1>1, <1>2, <2>1
    DEF Committed, Reserving, routeVars, allocVars, KV!IsValid, PlaneInv, CurInv
  <2> HIDE DEF C, f, D, b
  <2>4. CASE d \in D
    <3>1. budget[d].reserved = b /\ b + (-b) = 0
      BY <1>2, <1>4, <1>8, <2>3, <2>4
    <3>2. budget'[d].reserved = 0 % Word
      BY <2>2, <2>4, <3>1
    <3> QED
      BY <1>4, <1>5, <1>8, <1>9, <2>2, <2>3, <2>4, <3>2
  <2>5. CASE d \notin D
    BY <1>4, <1>5, <1>8, <2>2, <2>3, <2>5
  <2> QED
    BY <2>4, <2>5
<1>12. CASE ReleaseBudget /\ HoldsCache(cur)
  <2>1. /\ step = "release" /\ step' = "freeCache" /\ KV!IsValid(cur)
        /\ budget' = Move(budget, D, -b, 0)
    BY <1>12 DEF ReleaseBudget, FreeBudget, HoldsCache
  <2>2. /\ d \in D => /\ budget'[d].used = (budget[d].used + (-b)) % Word
                      /\ budget'[d].reserved = (budget[d].reserved + 0) % Word
        /\ d \notin D => budget'[d] = budget[d]
    BY <2>1 DEF Move
  <2>3. /\ Committed(d)' = C \ {cur} /\ (cur \in C <=> d \in D)
        /\ Reserving(d) = {} /\ Reserving(d)' = {}
    BY <1>1, <1>2, <2>1 DEF Committed, Reserving, routeVars, allocVars, KV!IsValid
  <2> HIDE DEF C, f, D, b
  <2>4. CASE d \in D
    <3>1. Sum(f, C \ {cur}) = Sum(f, C) - b /\ b <= Sum(f, C)
      BY <1>4, <1>7, <2>3, <2>4, SumRemove
    <3>2. budget'[d].used = Sum(f, C \ {cur})
      BY <1>2, <1>4, <1>6, <1>9, <2>2, <2>3, <2>4, <3>1
    <3> QED
      BY <1>4, <1>5, <1>8, <1>9, <2>2, <2>3, <2>4, <3>2
  <2>5. CASE d \notin D
    <3>1. C \ {cur} = C
      BY <2>3, <2>5
    <3> QED
      BY <1>4, <1>5, <1>8, <2>2, <2>3, <2>5, <3>1
  <2> QED
    BY <2>4, <2>5
<1> QED
  BY <1>10, <1>11, <1>12

-----------------------------------------------------------------------------
(* The theorems.                                                           *)

\* The first state.
LEMMA PlaneStart == MInit => PlaneInv /\ BudgetExact
<1> SUFFICES ASSUME MInit PROVE PlaneInv /\ BudgetExact
  OBVIOUS
<1>1. KVP!CInv
  <2>1. KVP!CInit
    BY SameOperations DEF MInit
  <2> QED
    BY <2>1, AllocatorAssumed, KVP!InitCInv
<1>2. MTypes
  BY DEF MInit, MTypes, InitBudgets, Budgets
<1>3. CurInv /\ \A r \in Requests : ~KV!IsValid(r) /\ kind[r] = "none"
  BY DEF MInit, CurInv, KV!CInit, KV!IsValid
<1>4. \A r \in Requests : RequestInv(r)
  BY <1>3 DEF MInit, RequestInv
<1>5. \A d \in RouterDevices : Committed(d) = {} /\ Reserving(d) = {}
  BY <1>3 DEF MInit, Committed, Reserving
<1>6. BudgetExact
  BY <1>5, ChargedNone DEF BudgetExact, MInit, InitBudgets
<1> QED
  BY <1>1, <1>2, <1>3, <1>4, <1>6 DEF PlaneInv

\* The invariant about requests and caches.
LEMMA PlaneInvariance == MSpec => []PlaneInv
  BY PlaneStart, PlaneStep, PTL DEF MSpec

\* Whatever the scheduler does with router and allocator, the allocator sees
\* its own operations only, each on a handle in the state it expects: never
\* an allocation into a handle that is valid, never a free of one that is not.
\* So what is proved of the allocator alone holds of it in the server.
THEOREM ImplementsAllocator == MSpec => KV!CSpec
<1>1. MInit => KV!CInit
  BY DEF MInit
<1>2. PlaneInv /\ [MNext]_mvars => [KV!CNext]_KV!cvars
  <2> SUFFICES ASSUME PlaneInv, [MNext]_mvars, ~UNCHANGED allocVars
               PROVE  KV!CNext
    BY DEF KV!cvars, allocVars
  <2>1. AllocateKV \/ FreeCache
    BY DEF MNext, mvars, AdmitRouter, AdmitAllocator, BeginPrefill, End,
           CommitBudget, ReleaseReservation, PrefillDone, PrefillFails, ReleaseBudget
  <2>2. step # "idle"
    BY <2>1 DEF AllocateKV, FreeCache
  <2>3. cur \in Requests /\ SeqLen[cur] \in {SeqLen[r] : r \in Requests}
    BY <2>2 DEF PlaneInv, MTypes, CurInv
  <2>4. \/ KV!AllocateTP(cur, SeqLen[cur]) \/ KV!Allocate(cur, SeqLen[cur])
        \/ KV!Free(cur)
    BY <2>1 DEF AllocateKV, FreeCache
  <2> QED
    BY <2>3, <2>4 DEF KV!CNext
<1> QED
  BY <1>1, <1>2, PlaneInvariance, PTL DEF MSpec, KV!CSpec

-----------------------------------------------------------------------------
(* What ended requests leave in the allocator's account.  The charge of an *)
(* allocation that failed halfway is in no handle: the invariant follows   *)
(* it by the history variable, and by where its request can be since.      *)

LostInv ==
  /\ \A r \in Requests, d \in RouterDevices : <<r, d>> \in lost =>
       \/ rpc[r] = "ended"
       \/ r = cur /\ step \in {"unreserve", "release"} /\ ~KV!IsValid(r)
  /\ \A d \in RouterDevices :
       IsFiniteSet(Units(Waste, LostOn(d))) /\ used[d] = KVP!HeldOn(d) + Lost(d)

\* What is held, in the terms of the plane and of the allocator's theorems.
LEMMA SameHeld == ASSUME NEW d PROVE KV!HeldOn(d) = KVP!HeldOn(d)
<1>1. KV!Holders(d) = KVP!Holders(d)
  BY DEF KV!Holders, KVP!Holders, KV!DevicesOf, KVP!DevicesOf, KV!Devices,
         KVP!Devices, KV!Primary, KVP!Primary
<1>2. \A S : KV!Units(bytes, S) = KVP!Units(bytes, S)
  BY DEF KV!Units, KVP!Units
<1>3. \A T : KV!Cardinality(T) = KVP!Cardinality(T)
  BY Zenon DEF KV!Cardinality, KVP!Cardinality
<1> QED
  BY <1>1, <1>2, <1>3 DEF KV!HeldOn, KVP!HeldOn, KV!Sum, KVP!Sum

\* What is held and what is lost are numbers.
LEMMA LostTypes ==
  ASSUME PlaneInv, LostInv, NEW d \in RouterDevices
  PROVE  /\ KVP!HeldOn(d) \in Nat /\ Lost(d) \in Nat /\ used[d] \in Int
         /\ d \in KVP!Devices
<1>1. d \in KVP!Devices
  BY DEF KVP!Devices, RouterDevices
<1>2. KVP!HeldOn(d) \in Nat
  BY <1>1, AllocatorAssumed, KVP!HeldType DEF PlaneInv
<1>3. Lost(d) \in Nat
  BY SumType DEF LostInv, Lost
<1>4. used[d] \in Int
  BY <1>1 DEF PlaneInv, KVP!CInv, KVP!CTypeOK
<1> QED
  BY <1>1, <1>2, <1>3, <1>4

\* The steps that leave the allocator alone.
LEMMA LostKept ==
  ASSUME PlaneInv, LostInv, [MNext]_mvars, UNCHANGED allocVars
  PROVE  LostInv'
<1>1. ASSUME NEW r \in Requests, NEW d \in RouterDevices, <<r, d>> \in lost'
      PROVE  (\/ rpc[r] = "ended"
              \/ r = cur /\ step \in {"unreserve", "release"} /\ ~KV!IsValid(r))'
  <2>1. /\ \/ rpc[r] = "ended"
           \/ r = cur /\ step \in {"unreserve", "release"} /\ ~KV!IsValid(r)
        /\ KV!IsValid(r)' <=> KV!IsValid(r)
    BY <1>1 DEF LostInv, allocVars, KV!IsValid
  <2>2. rpc \in [Requests -> {"new", "placeable", "rejected", "queued", "inhand",
                              "active", "ended"}]
    BY DEF PlaneInv, MTypes
  <2>3. CASE rpc[r] = "ended"
    <3>1. cur # r
      BY <2>3, PlaneAssumption DEF PlaneInv, CurInv
    <3> QED
      BY <2>2, <2>3, <3>1
      DEF MNext, mvars, AdmitRouter, AdmitAllocator, BeginPrefill, End, AllocateKV,
          CommitBudget, ReleaseReservation, PrefillDone, PrefillFails, ReleaseBudget,
          FreeCache
  <2>4. CASE r = cur /\ step \in {"unreserve", "release"} /\ ~KV!IsValid(r)
    BY <2>1, <2>2, <2>4
    DEF MNext, mvars, AdmitRouter, AdmitAllocator, BeginPrefill, End, AllocateKV,
        CommitBudget, ReleaseReservation, PrefillDone, PrefillFails, ReleaseBudget,
        FreeCache, HoldsCache
  <2> QED
    BY <2>1, <2>3, <2>4
<1>2. \A d \in RouterDevices : KVP!HeldOn(d)' = KVP!HeldOn(d) /\ LostOn(d)' = LostOn(d)
  BY DEF allocVars, KVP!HeldOn, KVP!Holders, KVP!DevicesOf, LostOn
<1>3. Waste' = Waste /\ used' = used
  BY DEF Waste, allocVars, KV!BytesPerDevice
<1> QED
  BY <1>1, <1>2, <1>3 DEF LostInv, Lost

\* The allocation: what it charges is held, or noted as lost.
LEMMA LostAllocate ==
  ASSUME PlaneInv, PlaneInv', LostInv, AllocateKV
  PROVE  LostInv'
<1> DEFINE n == SeqLen[cur]
           hit(d) == result' = "internal" /\ count'[d] # count[d]
<1>1. /\ step = "alloc" /\ step' = (IF result' = "ok" THEN "commit" ELSE "unreserve")
      /\ cur' = cur /\ rpc' = rpc
      /\ lost' = lost \cup {<<cur, d>> : d \in {e \in RouterDevices : hit(e)}}
      /\ KV!AllocateTP(cur, n) \/ KV!Allocate(cur, n)
  BY DEF AllocateKV
<1>2. cur \in Requests /\ rpc[cur] = "inhand"
  BY <1>1 DEF PlaneInv, MTypes, CurInv
<1>3. step' = "unreserve" => ~KV!IsValid(cur)'
  BY <1>1 DEF PlaneInv, CurInv
<1>4. \A r \in Requests, d \in RouterDevices : <<r, d>> \in lost => rpc[r] = "ended"
  BY <1>1 DEF LostInv
<1>5. ASSUME NEW r \in Requests, NEW d \in RouterDevices, <<r, d>> \in lost'
      PROVE  (\/ rpc[r] = "ended"
              \/ r = cur /\ step \in {"unreserve", "release"} /\ ~KV!IsValid(r))'
  <2>1. <<r, d>> \in lost \/ (r = cur /\ result' = "internal")
    BY <1>1, <1>5
  <2> QED
    BY <1>1, <1>3, <1>4, <2>1
<1>6. ASSUME NEW d \in RouterDevices
      PROVE  (IsFiniteSet(Units(Waste, LostOn(d))) /\ used[d] = KVP!HeldOn(d) + Lost(d))'
  <2> DEFINE S == LostOn(d)
             f == Waste
             b == KV!BytesPerDevice(n)
  <2>1. cur \notin S /\ LostOn(d)' = (IF hit(d) THEN S \cup {cur} ELSE S)
    <3>1. cur \notin S
      BY <1>2, <1>4 DEF LostOn
    <3>2. \A r \in Requests : <<r, d>> \in lost' <=> <<r, d>> \in lost \/ (r = cur /\ hit(d))
      BY <1>1
    <3> QED
      BY <1>2, <3>1, <3>2 DEF LostOn
  <2>2. Waste' = f /\ f[cur] = b
    BY <1>2 DEF Waste, KV!BytesPerDevice
  <2>3. /\ KVP!HeldOn(d) \in Nat /\ Lost(d) \in Nat /\ used[d] \in Int
        /\ d \in KVP!Devices
    BY LostTypes
  <2>4. used'[d] \in Int /\ KVP!HeldOn(d)' \in Nat
    <3>1. KVP!HeldOn(d)' \in Nat
      BY <2>3, AllocatorAssumed, KVP!HeldTypeNext DEF PlaneInv
    <3> QED
      BY <2>3, <3>1 DEF PlaneInv, KVP!CInv, KVP!CTypeOK
  <2>5. used'[d] - KVP!HeldOn(d)' = used[d] - KVP!HeldOn(d) + (IF hit(d) THEN b ELSE 0)
    <3>1. KVP!Allocate(cur, n) \/ KVP!AllocateTP(cur, n)
      BY <1>1, SameOperations
    <3>2. n \in {SeqLen[r] : r \in Requests}
      BY <1>2
    <3>3. KVP!BytesPerDevice(n) = b
      BY DEF KVP!BytesPerDevice, KV!BytesPerDevice
    <3> HIDE DEF n, b
    <3> QED
      BY <1>2, <2>3, <3>1, <3>2, <3>3, AllocatorAssumed, KVP!AllocateDrift DEF PlaneInv
  <2>6. used[d] = KVP!HeldOn(d) + Lost(d) /\ IsFiniteSet(Units(f, S)) /\ Lost(d) = Sum(f, S)
    BY DEF LostInv, Lost
  <2>7. b \in Nat
    <3>1. KVHeads \div Len(DeviceList) \in Nat /\ n \in Nat
      BY <1>2, ListFacts, PlaneAssumption
    <3> HIDE DEF n
    <3>2. \A x, y \in Nat : x * y \in Nat
      OBVIOUS
    <3> QED
      BY <3>1, <3>2 DEF KV!BytesPerDevice
  <2>8. Lost(d)' = Sum(f, LostOn(d)')
        /\ (IsFiniteSet(Units(Waste, LostOn(d))))' = IsFiniteSet(Units(f, LostOn(d)'))
    BY <2>2 DEF Lost
  <2> HIDE DEF S, f, b, hit
  <2>9. IsFiniteSet(Units(f, S \cup {cur})) /\ Sum(f, S \cup {cur}) = Sum(f, S) + b
    BY <2>1, <2>2, <2>6, <2>7, SumAdd
  <2>10. CASE hit(d)
    BY <2>1, <2>3, <2>4, <2>5, <2>6, <2>7, <2>8, <2>9, <2>10
  <2>11. CASE ~hit(d)
    BY <2>1, <2>3, <2>4, <2>5, <2>6, <2>8, <2>11
  <2> QED
    BY <2>10, <2>11
<1> QED
  BY <1>5, <1>6 DEF LostInv

\* free: what is credited is what was held.
LEMMA LostFree ==
  ASSUME PlaneInv, PlaneInv', LostInv, FreeCache
  PROVE  LostInv'
<1>1. /\ step = "freeCache" /\ lost' = lost /\ KV!Free(cur)
      /\ rpc' = rpc \/ rpc' = [rpc EXCEPT ![cur] = "ended"]
  BY DEF FreeCache
<1>2. cur \in Requests
  BY <1>1 DEF PlaneInv, MTypes, CurInv
<1>3. \A r \in Requests, d \in RouterDevices : <<r, d>> \in lost' => rpc'[r] = "ended"
  BY <1>1 DEF LostInv, PlaneInv, MTypes
<1>4. ASSUME NEW d \in RouterDevices
      PROVE  (IsFiniteSet(Units(Waste, LostOn(d))) /\ used[d] = KVP!HeldOn(d) + Lost(d))'
  <2>1. Waste' = Waste /\ LostOn(d)' = LostOn(d)
    BY <1>1 DEF Waste, LostOn, KV!BytesPerDevice
  <2>2. /\ KVP!HeldOn(d) \in Nat /\ Lost(d) \in Nat /\ used[d] \in Int
        /\ d \in KVP!Devices
    BY LostTypes
  <2>3. used'[d] - KVP!HeldOn(d)' = used[d] - KVP!HeldOn(d)
    <3>1. KVP!Free(cur)
      BY <1>1, SameOperations
    <3> QED
      BY <1>2, <2>2, <3>1, AllocatorAssumed, KVP!FreeDrift DEF PlaneInv
  <2>4. used'[d] \in Int /\ KVP!HeldOn(d)' \in Nat
    <3>1. KVP!HeldOn(d)' \in Nat
      BY <2>2, AllocatorAssumed, KVP!HeldTypeNext DEF PlaneInv
    <3> QED
      BY <2>2, <3>1 DEF PlaneInv, KVP!CInv, KVP!CTypeOK
  <2>5. used[d] = KVP!HeldOn(d) + Lost(d) /\ IsFiniteSet(Units(Waste, LostOn(d)))
    BY DEF LostInv
  <2>6. Lost(d)' = Lost(d)
    BY <2>1 DEF Lost
  <2> QED
    BY <2>1, <2>2, <2>3, <2>4, <2>5, <2>6
<1> QED
  BY <1>3, <1>4 DEF LostInv

\* An ended or rejected request has no cache and no memory anywhere, on every
\* path: a prefill that fails and frees twice, an allocation that fails on
\* some device, a request that is completed.  And used_bytes of the
\* allocator is on every device what the caches there hold and what failed
\* tensor-parallel allocations left, so that no other request that ended is
\* still charged.
THEOREM EndedRequestsSettle == MSpec => []EndedSettled
<1>1. MInit => LostInv
  <2> SUFFICES ASSUME MInit PROVE LostInv
    OBVIOUS
  <2>1. \A d \in RouterDevices : LostOn(d) = {} /\ KVP!Holders(d) = {} /\ used[d] = 0
    BY DEF MInit, KV!CInit, LostOn, KVP!Holders, KVP!DevicesOf, KV!Devices, RouterDevices
  <2>2. /\ IsFiniteSet(Units(Waste, {})) /\ Sum(Waste, {}) = 0 /\ Sum(bytes, {}) = 0
        /\ KVP!Sum(bytes, {}) = 0
    BY SumZero, SameSum
  <2> QED
    BY <2>1, <2>2 DEF LostInv, Lost, KVP!HeldOn, MInit
<1>2. PlaneInv /\ PlaneInv' /\ LostInv /\ [MNext]_mvars => LostInv'
  <2> SUFFICES ASSUME PlaneInv, PlaneInv', LostInv, [MNext]_mvars PROVE LostInv'
    OBVIOUS
  <2>1. AllocateKV \/ FreeCache \/ UNCHANGED allocVars
    BY DEF MNext, mvars, AdmitRouter, AdmitAllocator, BeginPrefill, End,
           CommitBudget, ReleaseReservation, PrefillDone, PrefillFails, ReleaseBudget
  <2> QED
    BY <2>1, LostKept, LostAllocate, LostFree
<1>3. PlaneInv /\ LostInv => EndedSettled
  BY AllocatorFacts, SameHeld DEF PlaneInv, RequestInv, LostInv, EndedSettled
<1> QED
  BY <1>1, <1>2, <1>3, PlaneInvariance, PTL DEF MSpec

\* The invariant with the account.
LEMMA AccountInvariance == HeadsSplitEvenly => (MSpec => [](PlaneInv /\ BudgetExact))
<1>1. HeadsSplitEvenly /\ PlaneInv /\ BudgetExact /\ [MNext]_mvars
        => PlaneInv' /\ BudgetExact'
  <2> SUFFICES ASSUME HeadsSplitEvenly, PlaneInv, BudgetExact, [MNext]_mvars
               PROVE  PlaneInv' /\ BudgetExact'
    OBVIOUS
  <2>1. PlaneInv'
    BY PlaneStep
  <2> QED
    BY <2>1, QuietStep, ReserveStep, MoveStep DEF MNext
<1>2. HeadsSplitEvenly => HeadsSplitEvenly'
  BY DEF HeadsSplitEvenly
<1> QED
  BY <1>1, <1>2, PlaneStart, PTL DEF MSpec

\* Where the heads split evenly, the router's account is exact in every
\* reachable state.
THEOREM AccountIsExact == HeadsSplitEvenly => (MSpec => []BudgetExact)
<1>1. PlaneInv /\ BudgetExact => BudgetExact
  OBVIOUS
<1> QED
  BY <1>1, AccountInvariance, PTL

\* Where the heads split evenly, the router never charges a device with more
\* than the allocator has charged to the primary device, nor with more than
\* it has.
THEOREM AccountsAgree == HeadsSplitEvenly => (MSpec => []UsedWithinTotal)
<1>1. HeadsSplitEvenly /\ PlaneInv /\ BudgetExact => UsedWithinTotal
  BY ChargedBound DEF BudgetExact, UsedWithinTotal
<1>2. HeadsSplitEvenly => HeadsSplitEvenly'
  BY DEF HeadsSplitEvenly
<1> QED
  BY <1>1, <1>2, AccountInvariance, PTL

=============================================================================
