------------------------- MODULE KVContiguousProofs -------------------------
(***************************************************************************)
(* Proofs about the contiguous allocator for every list of devices, every  *)
(* size of memory and every failure of CUDA: its two statistics never      *)
(* drift apart, and the memory it has is what its handles hold.            *)
(***************************************************************************)
EXTENDS KVContiguous, SumTheorems, SequenceTheorems, TLAPS

\* What the handles hold on a device is a finite amount, and charged.
HeldInv ==
  \A d \in Devices :
    IsFiniteSet(Units(bytes, Holders(d))) /\ HeldOn(d) <= used[d] /\ free[d] >= 0

\* The inductive invariant.
CInv == CTypeOK /\ Conservation /\ NoCacheLeak /\ HeldInv

\* What a request asks for is a number of bytes; the primary device is one of
\* the devices.
LEMMA SizeFacts ==
  /\ Primary \in Devices
  /\ \A n \in Lengths : BytesForSeqLen(n) \in Nat /\ BytesPerDevice(n) \in Nat
<1>1. 1 \in DOMAIN DeviceList
  BY AllocatorAssumption
<1>2. Len(DeviceList) \in Nat \ {0}
  BY AllocatorAssumption, EmptySeq
<1>3. KVHeads \div Len(DeviceList) \in Nat /\ KVHeads \in Nat
  BY <1>2, ContiguousAssumption
<1>4. \A n \in Lengths, k \in Nat : n * k \in Nat
  BY AllocatorAssumption
<1> QED
  BY <1>1, <1>3, <1>4 DEF Primary, Devices, BytesForSeqLen, BytesPerDevice

\* What the statistics gain on one side they lose on the other.
LEMMA ChargeStep ==
  ASSUME CInv, NEW D, NEW b \in Nat, Charge(D, b) \/ Credit(D, b)
  PROVE  /\ Conservation'
         /\ used' \in [Devices -> Int] /\ free' \in [Devices -> Int]
         /\ count' \in [Devices -> Int]
<1> USE ContiguousAssumption DEF CInv, CTypeOK, Conservation
<1>1. CASE Charge(D, b)
  BY <1>1 DEF Charge
<1>2. CASE Credit(D, b)
  BY <1>2 DEF Credit
<1> QED
  BY <1>1, <1>2

\* What the handles hold on a device is a number.
LEMMA HeldType == ASSUME CInv, NEW d \in Devices PROVE HeldOn(d) \in Nat
  BY SumType DEF CInv, HeldInv, HeldOn

\* The same after a step.
LEMMA HeldTypeNext == ASSUME CInv', NEW d \in Devices PROVE HeldOn(d)' \in Nat
  BY SumType DEF CInv, HeldInv, HeldOn

\* The handle h, which holds nothing on d, is to hold b bytes there or nothing.
LEMMA HeldMore ==
  ASSUME CInv, NEW d \in Devices, NEW h \in Handles, h \notin Holders(d),
         NEW b \in Nat, bytes' = [bytes EXCEPT ![h] = b],
         NEW D, Holders(d)' = IF d \in D THEN Holders(d) \cup {h} ELSE Holders(d)
  PROVE  /\ IsFiniteSet(Units(bytes, Holders(d)))'
         /\ HeldOn(d)' = IF d \in D THEN HeldOn(d) + b ELSE HeldOn(d)
<1> DEFINE S == Holders(d)
           g == bytes'
<1>1. IsFiniteSet(Units(bytes, S)) /\ Holders(d) \subseteq Handles
  BY DEF CInv, HeldInv, Holders
<1>2. \A x \in S : bytes[x] = g[x]
  BY <1>1 DEF CInv, CTypeOK
<1>3. h \notin S /\ g[h] = b /\ g[h] \in Nat
  BY DEF CInv, CTypeOK
<1>4. /\ HeldOn(d) = Sum(bytes, S)
      /\ HeldOn(d)' = Sum(g, IF d \in D THEN S \cup {h} ELSE S)
  BY DEF HeldOn
<1>5. Holders(d)' = IF d \in D THEN S \cup {h} ELSE S
  OBVIOUS
<1> HIDE DEF S, g
<1>6. Units(bytes, S) = Units(g, S) /\ Sum(bytes, S) = Sum(g, S)
  BY <1>2, SumSame
<1>7. IsFiniteSet(Units(g, S))
  BY <1>1, <1>6
<1>8. /\ IsFiniteSet(Units(g, S \cup {h}))
      /\ Sum(g, S \cup {h}) = Sum(g, S) + g[h]
  BY <1>3, <1>7, SumAdd
<1>9. Units(bytes, Holders(d))' = Units(g, IF d \in D THEN S \cup {h} ELSE S)
  BY <1>5 DEF g
<1> QED
  BY <1>3, <1>4, <1>6, <1>7, <1>8, <1>9

\* What an allocation that succeeds does to what is held on device d.
LEMMA GrantHeld ==
  ASSUME CInv, NEW h \in Handles, ~IsValid(h), NEW b \in Nat, NEW k, NEW D,
         Grant(h, k, D, b), NEW d \in Devices,
         (k = "single" /\ D = {Primary}) \/ (k = "tp" /\ D = Devices)
  PROVE  /\ IsFiniteSet(Units(bytes, Holders(d)))'
         /\ HeldOn(d)' = IF d \in D THEN HeldOn(d) + b ELSE HeldOn(d)
<1>1. DevicesOf(h) = {} /\ DevicesOf(h)' = D
  BY DEF CInv, CTypeOK, Grant, IsValid, DevicesOf
<1>2. \A g \in Handles \ {h} : DevicesOf(g)' = DevicesOf(g)
  BY DEF CInv, CTypeOK, Grant, DevicesOf
<1>3. h \notin Holders(d)
      /\ Holders(d)' = IF d \in D THEN Holders(d) \cup {h} ELSE Holders(d)
  BY <1>1, <1>2 DEF Holders
<1>4. bytes' = [bytes EXCEPT ![h] = b]
  BY DEF Grant
<1> QED
  BY <1>3, <1>4, HeldMore

\* An allocation that succeeds: the caches made are the ones the handle holds,
\* and the memory they need was free.
LEMMA GrantStep ==
  ASSUME CInv, NEW h \in Handles, ~IsValid(h), NEW b \in Nat, NEW k, NEW D,
         Grant(h, k, D, b), Fits(D, b),
         (k = "single" /\ D = {Primary}) \/ (k = "tp" /\ D = Devices)
  PROVE  CInv'
<1>1. Conservation' /\ used' \in [Devices -> Int] /\ free' \in [Devices -> Int]
      /\ count' \in [Devices -> Int]
  BY ChargeStep DEF Grant
<1>2. D \subseteq Devices
  BY SizeFacts
<1>3. CTypeOK'
  BY <1>1, <1>2 DEF CInv, CTypeOK, Grant, Result
<1>4. DevicesOf(h) = {} /\ DevicesOf(h)' = D
  BY DEF CInv, CTypeOK, Grant, IsValid, DevicesOf
<1>5. \A g \in Handles \ {h} : DevicesOf(g)' = DevicesOf(g)
  BY DEF CInv, CTypeOK, Grant, DevicesOf
<1>6. NoCacheLeak'
  <2>1. live' = live \cup {<<h, d>> : d \in D}
    BY DEF Grant
  <2> QED
    BY <1>2, <1>4, <1>5, <2>1 DEF CInv, NoCacheLeak
<1>7. HeldInv'
  <2> SUFFICES ASSUME NEW d \in Devices
               PROVE  /\ IsFiniteSet(Units(bytes, Holders(d)))'
                      /\ (HeldOn(d) <= used[d] /\ free[d] >= 0)'
    BY DEF HeldInv
  <2>1. /\ IsFiniteSet(Units(bytes, Holders(d)))'
        /\ HeldOn(d)' = IF d \in D THEN HeldOn(d) + b ELSE HeldOn(d)
    BY GrantHeld
  <2>2. /\ used'[d] = IF d \in D THEN used[d] + b ELSE used[d]
        /\ free'[d] = IF d \in D THEN free[d] - b ELSE free[d]
    BY DEF Grant, Charge
  <2>3. HeldOn(d) \in Nat /\ used[d] \in Int /\ free[d] \in Int
    BY HeldType DEF CInv, CTypeOK
  <2>4. HeldOn(d) <= used[d] /\ free[d] >= 0 /\ (d \in D => b <= free[d])
    BY DEF CInv, HeldInv, Fits
  <2> QED
    BY <2>1, <2>2, <2>3, <2>4
<1> QED
  BY <1>1, <1>3, <1>6, <1>7 DEF CInv

\* An allocation that fails halfway through the devices: what was charged stays
\* charged on both sides, and no cache is left.
LEMMA FailStep ==
  ASSUME CInv, NEW D, NEW b \in Nat, Charge(D, b), Fits(Devices, b),
         UNCHANGED <<kind, bytes, live>>, result' \in Result
  PROVE  CInv'
<1>1. Conservation' /\ used' \in [Devices -> Int] /\ free' \in [Devices -> Int]
      /\ count' \in [Devices -> Int]
  BY ChargeStep
<1>2. HeldInv'
  <2> SUFFICES ASSUME NEW d \in Devices
               PROVE  /\ IsFiniteSet(Units(bytes, Holders(d)))'
                      /\ (HeldOn(d) <= used[d] /\ free[d] >= 0)'
    BY DEF HeldInv
  <2>1. Holders(d)' = Holders(d)
    BY DEF Holders, DevicesOf
  <2>2. HeldOn(d)' = HeldOn(d)
    BY <2>1 DEF HeldOn
  <2>3. HeldOn(d) \in Nat /\ used[d] \in Int /\ free[d] \in Int
    BY HeldType DEF CInv, CTypeOK
  <2>4. /\ IsFiniteSet(Units(bytes, Holders(d))) /\ HeldOn(d) <= used[d]
        /\ free[d] >= 0 /\ b <= free[d]
    BY DEF CInv, HeldInv, Fits
  <2>5. used'[d] >= used[d] /\ free'[d] >= free[d] - b
    BY <2>3 DEF Charge
  <2>6. used'[d] \in Int /\ free'[d] \in Int
    BY <1>1
  <2>7. HeldOn(d)' <= used'[d] /\ free'[d] >= 0
    BY <2>2, <2>3, <2>4, <2>5, <2>6
  <2> QED
    BY <2>1, <2>4, <2>7
<1> QED
  BY <1>1, <1>2 DEF CInv, CTypeOK, NoCacheLeak, DevicesOf

\* A step that touches nothing but the result.
LEMMA SameStep ==
  ASSUME CInv, UNCHANGED <<kind, bytes, used, free, count, live>>, result' \in Result
  PROVE  CInv'
<1>1. \A d \in Devices : Holders(d)' = Holders(d) /\ HeldOn(d)' = HeldOn(d)
  BY DEF Holders, HeldOn, DevicesOf
<1>2. HeldInv'
  BY <1>1 DEF CInv, HeldInv
<1> QED
  BY <1>2 DEF CInv, CTypeOK, Conservation, NoCacheLeak, DevicesOf

\* What free does to what is held on device d.
LEMMA FreeHeld ==
  ASSUME CInv, NEW h \in Handles, Free(h), NEW d \in Devices
  PROVE  /\ IsFiniteSet(Units(bytes, Holders(d)))'
         /\ HeldOn(d)' = IF d \in DevicesOf(h) THEN HeldOn(d) - bytes[h] ELSE HeldOn(d)
<1> DEFINE S == Holders(d)
           D == DevicesOf(h)
<1>1. DevicesOf(h)' = {} /\ \A g \in Handles \ {h} : DevicesOf(g)' = DevicesOf(g)
  BY DEF CInv, CTypeOK, Free, DevicesOf
<1>2. Holders(d)' = S \ {h} /\ (h \in S <=> d \in D) /\ S \subseteq Handles
  BY <1>1 DEF Holders
<1>3. IsFiniteSet(Units(bytes, S))
  BY DEF CInv, HeldInv
<1>4. \A x \in S \ {h} : bytes[x] = bytes'[x]
  BY <1>2 DEF CInv, CTypeOK, Free
<1>5. \A x \in S : bytes[x] \in Nat
  BY <1>2 DEF CInv, CTypeOK
<1>6. HeldOn(d) = Sum(bytes, S) /\ HeldOn(d)' = Sum(bytes', S \ {h})
  BY <1>2 DEF HeldOn
<1> HIDE DEF S, D
<1>7. /\ Units(bytes, S \ {h}) = Units(bytes', S \ {h})
      /\ Sum(bytes, S \ {h}) = Sum(bytes', S \ {h})
  BY <1>4, SumSame
<1>8. CASE d \in D
  <2>1. /\ IsFiniteSet(Units(bytes, S \ {h}))
        /\ Sum(bytes, S \ {h}) = Sum(bytes, S) - bytes[h]
    BY <1>2, <1>3, <1>5, <1>8, SumRemove
  <2> QED
    BY <1>2, <1>6, <1>7, <1>8, <2>1 DEF D
<1>9. CASE d \notin D
  <2>1. S \ {h} = S
    BY <1>2, <1>9
  <2> QED
    BY <1>2, <1>3, <1>6, <1>7, <1>9, <2>1 DEF D
<1> QED
  BY <1>8, <1>9

\* free: the caches of the handle and nobody else's.
LEMMA FreeStep ==
  ASSUME CInv, NEW h \in Handles, Free(h)
  PROVE  CInv'
<1>0. bytes[h] \in Nat
  BY DEF CInv, CTypeOK
<1>1. Conservation' /\ used' \in [Devices -> Int] /\ free' \in [Devices -> Int]
      /\ count' \in [Devices -> Int]
  BY <1>0, ChargeStep DEF Free
<1>2. CTypeOK'
  BY <1>1 DEF CInv, CTypeOK, Free, Result
<1>3. DevicesOf(h)' = {}
  BY DEF CInv, CTypeOK, Free, DevicesOf
<1>4. \A g \in Handles \ {h} : DevicesOf(g)' = DevicesOf(g)
  BY DEF CInv, CTypeOK, Free, DevicesOf
<1>5. NoCacheLeak'
  <2>1. live' = live \ {<<h, d>> : d \in DevicesOf(h)}
    BY DEF Free
  <2> QED
    BY <1>3, <1>4, <2>1 DEF CInv, NoCacheLeak
<1>6. HeldInv'
  <2> SUFFICES ASSUME NEW d \in Devices
               PROVE  /\ IsFiniteSet(Units(bytes, Holders(d)))'
                      /\ (HeldOn(d) <= used[d] /\ free[d] >= 0)'
    BY DEF HeldInv
  <2> DEFINE D == DevicesOf(h)
  <2>1. /\ IsFiniteSet(Units(bytes, Holders(d)))'
        /\ HeldOn(d)' = IF d \in D THEN HeldOn(d) - bytes[h] ELSE HeldOn(d)
    BY FreeHeld
  <2>2. /\ used'[d] = IF d \in D THEN used[d] - bytes[h] ELSE used[d]
        /\ free'[d] = IF d \in D THEN free[d] + bytes[h] ELSE free[d]
    BY DEF Free, Credit
  <2>3. HeldOn(d) \in Nat /\ used[d] \in Int /\ free[d] \in Int
    BY HeldType DEF CInv, CTypeOK
  <2>4. HeldOn(d) <= used[d] /\ free[d] >= 0
    BY DEF CInv, HeldInv
  <2> HIDE DEF D
  <2> QED
    BY <1>0, <2>1, <2>2, <2>3, <2>4
<1> QED
  BY <1>1, <1>2, <1>5, <1>6 DEF CInv

\* allocate and allocate_tensor_parallel.
LEMMA AllocateStep ==
  ASSUME CInv, NEW h \in Handles, NEW n \in Lengths, Allocate(h, n) \/ AllocateTP(h, n)
  PROVE  CInv'
<1>0. "resource_exhausted" \in Result /\ "internal" \in Result
  BY DEF Result
<1>1. BytesForSeqLen(n) \in Nat /\ BytesPerDevice(n) \in Nat
  BY SizeFacts
<1>2. CASE Refuse("resource_exhausted") \/ Refuse("internal")
  BY <1>0, <1>2, SameStep DEF Refuse
<1>3. CASE /\ Grant(h, "single", {Primary}, BytesForSeqLen(n)) /\ ~IsValid(h)
           /\ Fits({Primary}, BytesForSeqLen(n))
  BY <1>1, <1>3, GrantStep
<1>4. CASE /\ Grant(h, "tp", Devices, BytesPerDevice(n)) /\ ~IsValid(h)
           /\ Fits(Devices, BytesPerDevice(n))
  BY <1>1, <1>4, GrantStep
<1>5. ASSUME NEW i \in FailAt, Fits(Devices, BytesPerDevice(n)),
             Charge({DeviceList[j] : j \in 1 .. i - 1}, BytesPerDevice(n)),
             live' = Cleanup(h, i), result' = "internal", UNCHANGED <<kind, bytes>>
      PROVE  CInv'
  <2> DEFINE D == {DeviceList[j] : j \in 1 .. i - 1}
  <2>1. Charge(D, BytesPerDevice(n)) /\ UNCHANGED <<kind, bytes, live>>
        /\ result' \in Result
    BY <1>0, <1>5 DEF Cleanup
  <2> HIDE DEF D
  <2> QED
    BY <1>1, <1>5, <2>1, FailStep
<1>6. CASE Allocate(h, n)
  BY <1>2, <1>3, <1>6 DEF Allocate
<1>7. CASE AllocateTP(h, n)
  BY <1>2, <1>4, <1>5, <1>7 DEF AllocateTP
<1> QED
  BY <1>6, <1>7

-----------------------------------------------------------------------------
(* What used_bytes says beyond what is held.                               *)

\* An allocation charges what it gives, and a tensor-parallel one that fails
\* halfway charges the devices it had reached.
LEMMA AllocateDrift ==
  ASSUME CInv, NEW h \in Handles, NEW n \in Lengths, NEW d \in Devices,
         Allocate(h, n) \/ AllocateTP(h, n)
  PROVE  used'[d] - HeldOn(d)' = used[d] - HeldOn(d) +
           (IF result' = "internal" /\ count'[d] # count[d]
            THEN BytesPerDevice(n) ELSE 0)
<1>1. BytesForSeqLen(n) \in Nat /\ BytesPerDevice(n) \in Nat
  BY SizeFacts
<1>2. HeldOn(d) \in Nat /\ used[d] \in Int /\ count[d] \in Int
  BY HeldType DEF CInv, CTypeOK
<1>3. UNCHANGED <<kind, bytes>> => HeldOn(d)' = HeldOn(d)
  BY DEF HeldOn, Holders, DevicesOf
<1>4. CASE Refuse("resource_exhausted") \/ Refuse("internal")
  BY <1>2, <1>3, <1>4 DEF Refuse
<1>5. ASSUME NEW k, NEW D, NEW b \in Nat, Grant(h, k, D, b), ~IsValid(h),
             (k = "single" /\ D = {Primary}) \/ (k = "tp" /\ D = Devices)
      PROVE  used'[d] - HeldOn(d)' = used[d] - HeldOn(d) /\ result' = "ok"
  <2>1. HeldOn(d)' = IF d \in D THEN HeldOn(d) + b ELSE HeldOn(d)
    BY <1>5, GrantHeld
  <2>2. used'[d] = (IF d \in D THEN used[d] + b ELSE used[d]) /\ result' = "ok"
    BY <1>5 DEF Grant, Charge
  <2> QED
    BY <1>2, <1>5, <2>1, <2>2
<1>6. ASSUME NEW D, Charge(D, BytesPerDevice(n)), UNCHANGED <<kind, bytes>>,
             result' = "internal"
      PROVE  used'[d] - HeldOn(d)' = used[d] - HeldOn(d) +
               (IF count'[d] # count[d] THEN BytesPerDevice(n) ELSE 0)
  <2>1. /\ used'[d] = IF d \in D THEN used[d] + BytesPerDevice(n) ELSE used[d]
        /\ count'[d] = IF d \in D THEN count[d] + 1 ELSE count[d]
    BY <1>6 DEF Charge
  <2> QED
    BY <1>1, <1>2, <1>3, <1>6, <2>1
<1>7. CASE Allocate(h, n)
  BY <1>1, <1>2, <1>4, <1>5, <1>7 DEF Allocate
<1>8. CASE AllocateTP(h, n)
  <2>1. CASE Grant(h, "tp", Devices, BytesPerDevice(n)) /\ ~IsValid(h)
    BY <1>1, <1>2, <1>5, <2>1
  <2>2. ASSUME NEW i \in FailAt, result' = "internal", UNCHANGED <<kind, bytes>>,
               Charge({DeviceList[j] : j \in 1 .. i - 1}, BytesPerDevice(n))
        PROVE  used'[d] - HeldOn(d)' = used[d] - HeldOn(d) +
                 (IF count'[d] # count[d] THEN BytesPerDevice(n) ELSE 0)
    BY <1>6, <2>2
  <2> QED
    BY <1>4, <1>8, <2>1, <2>2 DEF AllocateTP
<1> QED
  BY <1>7, <1>8

\* free credits what the handle held.
LEMMA FreeDrift ==
  ASSUME CInv, NEW h \in Handles, Free(h), NEW d \in Devices
  PROVE  used'[d] - HeldOn(d)' = used[d] - HeldOn(d)
<1>1. HeldOn(d) \in Nat /\ used[d] \in Int /\ bytes[h] \in Nat
  BY HeldType DEF CInv, CTypeOK
<1>2. HeldOn(d)' = IF d \in DevicesOf(h) THEN HeldOn(d) - bytes[h] ELSE HeldOn(d)
  BY FreeHeld
<1>3. used'[d] = IF d \in DevicesOf(h) THEN used[d] - bytes[h] ELSE used[d]
  BY DEF Free, Credit
<1> QED
  BY <1>1, <1>2, <1>3

-----------------------------------------------------------------------------
(* The theorems.                                                           *)

\* In the first state nothing is held.
LEMMA InitCInv == CInit => CInv
<1> SUFFICES ASSUME CInit PROVE CInv
  OBVIOUS
<1>1. CTypeOK /\ Conservation /\ NoCacheLeak
  BY ContiguousAssumption
  DEF CInit, CTypeOK, Conservation, NoCacheLeak, DevicesOf, Result
<1>2. \A d \in Devices : Holders(d) = {}
  BY DEF CInit, Holders, DevicesOf
<1>3. IsFiniteSet(Units(bytes, {})) /\ Sum(bytes, {}) = 0
  BY SumZero
<1>4. HeldInv
  BY <1>2, <1>3, ContiguousAssumption DEF CInit, HeldInv, HeldOn
<1> QED
  BY <1>1, <1>4 DEF CInv

\* The inductive invariant holds in every reachable state.
LEMMA CInvariance == CSpec => []CInv
<1>1. CInv /\ [CNext]_cvars => CInv'
  <2>1. CInv /\ UNCHANGED cvars => CInv'
    BY SameStep DEF cvars, CInv, CTypeOK
  <2> QED
    BY <2>1, AllocateStep, FreeStep DEF CNext
<1> QED
  BY <1>1, InitCInv, PTL DEF CSpec

\* used_bytes and free_bytes of every device add up to its total, whatever
\* fails on the way.
THEOREM BudgetConserved == CSpec => []Conservation
<1>1. CInv => Conservation
  BY DEF CInv
<1> QED
  BY <1>1, CInvariance, PTL

\* The memory CUDA has given out is exactly what the valid handles hold.
THEOREM CachesOwned == CSpec => []NoCacheLeak
<1>1. CInv => NoCacheLeak
  BY DEF CInv
<1> QED
  BY <1>1, CInvariance, PTL

\* The statistics never promise memory the device does not have, whatever
\* succeeds, fails halfway and is freed.
THEOREM NeverOvercommitted == CSpec => []NoOvercommit
<1>1. CInv => NoOvercommit
  <2> SUFFICES ASSUME CInv, NEW d \in Devices
               PROVE  HeldOn(d) <= used[d] /\ used[d] <= Total
    BY DEF NoOvercommit
  <2>1. used[d] \in Int /\ free[d] \in Int /\ used[d] + free[d] = Total /\ free[d] >= 0
        /\ HeldOn(d) <= used[d]
    BY DEF CInv, CTypeOK, Conservation, HeldInv
  <2> QED
    BY <2>1, ContiguousAssumption
<1> QED
  BY <1>1, CInvariance, PTL

=============================================================================
