--------------------------- MODULE KVPooledProofs ---------------------------
(***************************************************************************)
(* Proofs about the pooled allocator for every pool, every list of devices *)
(* and every sequence of allocations and (double) frees: the stack of free *)
(* slots is exact and no two requests share a slot.                        *)
(***************************************************************************)
EXTENDS KVPooled, FiniteSetTheorems, SequenceTheorems, TLAPS

\* The pointers of a handle say what the table of allocations says.
PointersInv ==
  \A h \in Handles :
    /\ ptr[h] = "null" <=> entry[h] = 0
    /\ ptr[h] = "slot" <=> entry[h] \in Slot
    /\ ptr[h] = "block" <=> entry[h] = -1

\* The slots that handles have are the ones in use, and each has one owner.
OwnersInv ==
  /\ \A g, h \in Handles : entry[g] \in Slot /\ entry[g] = entry[h] => g = h
  /\ inUse = {entry[h] : h \in {g \in Handles : entry[g] \in Slot}}

\* The stack of free slots.
StackInv ==
  /\ \A i, j \in DOMAIN freeSlots : freeSlots[i] = freeSlots[j] => i = j
  /\ {freeSlots[i] : i \in DOMAIN freeSlots} = Slot \ inUse

\* used_bytes.
UsedInv == usedSlots = Cardinality(inUse)

\* The blocks of cudaMalloc; those of a tensor-parallel handle may be left
\* behind by free.
BlocksInv ==
  /\ \A h \in Handles : entry[h] = -1 => <<h, Primary>> \in blocks
  /\ \A b \in blocks : ~tp[b[1]] => entry[b[1]] = -1 /\ b[2] = Primary

\* The inductive invariant: the two properties of the pool are about entries,
\* and an operation looks at the pointers.
PInv ==
  PTypeOK /\ PointersInv /\ OwnersInv /\ StackInv /\ UsedInv /\ BlocksInv

\* The slots are numbers other than the marks -1 and 0.
LEMMA SlotFacts == /\ 0 \notin Slot /\ -1 \notin Slot /\ IsFiniteSet(Slot)
                   /\ \A T \in SUBSET Slot : IsFiniteSet(T)
<1>1. IsFiniteSet(Slot)
  BY FS_Interval, PooledAssumption DEF Slot
<1>2. 0 \notin Slot /\ -1 \notin Slot
  BY PooledAssumption DEF Slot
<1>3. \A T \in SUBSET Slot : IsFiniteSet(T)
  BY <1>1, FS_Subset
<1> QED
  BY <1>1, <1>2, <1>3

\* The primary device is one of the devices.
LEMMA PrimaryDevice == Primary \in Devices
<1>1. 1 \in DOMAIN DeviceList
  BY AllocatorAssumption
<1> QED
  BY <1>1 DEF Primary, Devices

-----------------------------------------------------------------------------
(* allocate.                                                               *)

\* A slot taken from the stack is nobody else's.
LEMMA AllocateSlotStep ==
  ASSUME PInv, NEW h \in Handles, NEW n \in Lengths, ~PoolIsValid(h),
         AllocateSlot(h, n), UNCHANGED overflow
  PROVE  PInv'
<1> DEFINE k == Len(freeSlots)
           slot == freeSlots[k]
<1>1. /\ freeSlots \in Seq(Slot) /\ k \in Nat \ {0} /\ DOMAIN freeSlots = 1 .. k
      /\ k \in DOMAIN freeSlots /\ slot \in Slot /\ slot \notin inUse
  <2>1. freeSlots \in Seq(Slot) /\ freeSlots # <<>>
    BY DEF PInv, PTypeOK, AllocateSlot, FromPool
  <2>2. k \in Nat \ {0} /\ DOMAIN freeSlots = 1 .. k
    BY <2>1, EmptySeq, LenProperties
  <2>3. k \in DOMAIN freeSlots
    BY <2>2
  <2>4. slot \in {freeSlots[i] : i \in DOMAIN freeSlots}
    BY <2>3
  <2> QED
    BY <2>1, <2>2, <2>3, <2>4 DEF PInv, StackInv
<1>2. entry[h] = 0 /\ ptr[h] = "null" /\ ~tp[h]
  BY DEF PInv, PTypeOK, PointersInv, PoolIsValid
<1>3. /\ entry' = [entry EXCEPT ![h] = slot] /\ inUse' = inUse \cup {slot}
      /\ freeSlots' = SubSeq(freeSlots, 1, k - 1) /\ usedSlots' = usedSlots + 1
      /\ ptr' = [ptr EXCEPT ![h] = "slot"] /\ UNCHANGED <<tp, blocks>>
      /\ outcome' = "ok"
  BY DEF AllocateSlot, PopSlot
<1> HIDE DEF slot, k
<1>4. /\ freeSlots' \in Seq(Slot) /\ DOMAIN freeSlots' = 1 .. k - 1
      /\ \A i \in 1 .. k - 1 : freeSlots'[i] = freeSlots[i]
  <2>1. \A i \in 1 .. k - 1 : freeSlots[i] \in Slot
    BY <1>1
  <2>2. /\ SubSeq(freeSlots, 1, k - 1) \in Seq(Slot)
        /\ Len(SubSeq(freeSlots, 1, k - 1)) = k - 1
        /\ \A i \in 1 .. k - 1 : SubSeq(freeSlots, 1, k - 1)[i] = freeSlots[i]
    BY <1>1, <2>1, SubSeqProperties
  <2> QED
    BY <1>3, <2>2, LenProperties
<1>5. PTypeOK'
  BY <1>1, <1>3, <1>4 DEF PInv, PTypeOK, Result
<1>6. PointersInv'
  BY <1>1, <1>2, <1>3, SlotFacts DEF PInv, PTypeOK, PointersInv
<1>7. OwnersInv'
  <2>1. \A g \in Handles : entry'[g] = IF g = h THEN slot ELSE entry[g]
    BY <1>3 DEF PInv, PTypeOK
  <2>2. \A g \in Handles : entry[g] \in Slot => entry[g] \in inUse
    BY DEF PInv, OwnersInv
  <2>3. inUse' = {entry'[f] : f \in {g \in Handles : entry'[g] \in Slot}}
    <3>1. \A x \in inUse' : \E f \in Handles : entry'[f] \in Slot /\ x = entry'[f]
      BY <1>1, <1>2, <1>3, <2>1, SlotFacts DEF PInv, OwnersInv
    <3>2. \A f \in Handles : entry'[f] \in Slot => entry'[f] \in inUse'
      BY <1>3, <2>1, <2>2
    <3> QED
      BY <3>1, <3>2
  <2> QED
    BY <1>1, <2>1, <2>2, <2>3 DEF PInv, OwnersInv
<1>8. StackInv'
  <2>1. \A i \in 1 .. k - 1 : i \in DOMAIN freeSlots /\ freeSlots[i] # slot
    BY <1>1 DEF PInv, StackInv, slot
  <2>2. \A s \in Slot \ inUse : s # slot => \E i \in 1 .. k - 1 : s = freeSlots[i]
    <3>1. \A s \in Slot \ inUse : \E i \in DOMAIN freeSlots : s = freeSlots[i]
      BY DEF PInv, StackInv
    <3> QED
      BY <1>1, <3>1 DEF slot
  <2>3. \A i \in 1 .. k - 1 : freeSlots[i] \in Slot \ inUse
    BY <2>1 DEF PInv, StackInv
  <2>4. {freeSlots'[i] : i \in DOMAIN freeSlots'} = Slot \ inUse'
    <3>1. \A i \in DOMAIN freeSlots' : freeSlots'[i] \in Slot \ inUse'
      BY <1>3, <1>4, <2>1, <2>3
    <3>2. \A s \in Slot \ inUse' : \E i \in DOMAIN freeSlots' : s = freeSlots'[i]
      BY <1>3, <1>4, <2>2
    <3> QED
      BY <3>1, <3>2
  <2> QED
    BY <1>4, <2>1, <2>4 DEF PInv, StackInv
<1>9. UsedInv'
  BY <1>1, <1>3, SlotFacts, FS_AddElement DEF PInv, PTypeOK, UsedInv
<1>10. BlocksInv'
  <2>1. \A g \in Handles : g # h => entry'[g] = entry[g]
    BY <1>3 DEF PInv, PTypeOK
  <2>2. \A b \in blocks : ~tp[b[1]] => b[1] # h /\ b[1] \in Handles
    BY <1>2 DEF PInv, PTypeOK, BlocksInv
  <2>3. entry'[h] # -1
    BY <1>1, <1>3, SlotFacts DEF PInv, PTypeOK
  <2> QED
    BY <1>3, <2>1, <2>2, <2>3 DEF PInv, BlocksInv
<1> QED
  BY <1>5, <1>6, <1>7, <1>8, <1>9, <1>10 DEF PInv

\* A handle that gets blocks of cudaMalloc, the pool left alone.
LEMMA BlockStep ==
  ASSUME PInv, NEW h \in Handles, ~PoolIsValid(h), NEW T,
         UNCHANGED <<overflow, freeSlots, inUse, usedSlots>>,
         ptr' = [ptr EXCEPT ![h] = "block"], entry' = [entry EXCEPT ![h] = -1],
         tp' \in [Handles -> BOOLEAN], \A g \in Handles \ {h} : tp'[g] = tp[g],
         ~tp'[h] => T = {<<h, Primary>>},
         T \subseteq {h} \X Devices, <<h, Primary>> \in T,
         blocks' = blocks \cup T, outcome' \in Result
  PROVE  PInv'
<1>1. entry[h] = 0 /\ ptr[h] = "null" /\ ~tp[h]
  BY DEF PInv, PTypeOK, PointersInv, PoolIsValid
<1>2. \A g \in Handles : entry'[g] = IF g = h THEN -1 ELSE entry[g]
  BY DEF PInv, PTypeOK
<1>3. PTypeOK'
  BY DEF PInv, PTypeOK
<1>4. PointersInv'
  BY <1>1, SlotFacts DEF PInv, PTypeOK, PointersInv
<1>5. OwnersInv'
  BY <1>1, <1>2, SlotFacts DEF PInv, OwnersInv
<1>6. StackInv' /\ UsedInv'
  BY DEF PInv, StackInv, UsedInv
<1>7. BlocksInv'
  <2>1. \A g \in Handles : entry'[g] = -1 => <<g, Primary>> \in blocks'
    BY <1>2 DEF PInv, BlocksInv
  <2>2. ASSUME NEW b \in blocks', ~tp'[b[1]]
        PROVE  entry'[b[1]] = -1 /\ b[2] = Primary
    <3>1. CASE b \in T
      <4>1. b[1] = h
        BY <3>1
      <4>2. b = <<h, Primary>>
        BY <2>2, <3>1, <4>1
      <4> QED
        BY <1>2, <4>1, <4>2
    <3>2. CASE b \in blocks
      <4>1. b[1] \in Handles /\ (tp[b[1]] => tp'[b[1]])
        BY <1>1, <3>2 DEF PInv, PTypeOK
      <4> QED
        BY <1>2, <2>2, <3>2, <4>1 DEF PInv, BlocksInv
    <3> QED
      BY <3>1, <3>2
  <2> QED
    BY <2>1, <2>2 DEF BlocksInv
<1> QED
  BY <1>3, <1>4, <1>5, <1>6, <1>7 DEF PInv

\* A refusal changes nothing.
LEMMA RefuseStep ==
  ASSUME PInv, NEW why \in Result, PoolRefuse(why), UNCHANGED overflow
  PROVE  PInv'
<1>1. outcome' \in Result
  BY DEF PoolRefuse
<1> QED
  BY <1>1 DEF PoolRefuse, PInv, PTypeOK, PointersInv, OwnersInv, StackInv,
              UsedInv, BlocksInv

\* allocate and allocate_tensor_parallel.
LEMMA AllocateStep ==
  ASSUME PInv, NEW h \in Handles, UNCHANGED overflow,
         (\E n \in Lengths : PoolAllocate(h, n)) \/ PoolAllocateTP(h)
  PROVE  PInv'
<1>0. "ok" \in Result /\ "resource_exhausted" \in Result /\ "internal" \in Result
  BY DEF Result
<1>1. ASSUME NEW n \in Lengths, PoolAllocate(h, n) PROVE PInv'
  <2>1. ~PoolIsValid(h)
    BY <1>1 DEF PoolAllocate
  <2>2. CASE AllocateSlot(h, n)
    BY <2>1, <2>2, AllocateSlotStep
  <2>3. CASE PoolRefuse("resource_exhausted") \/ PoolRefuse("internal")
    BY <1>0, <2>3, RefuseStep
  <2>4. CASE AllocateFallback(h)
    <3>1. ~tp'[h] => {<<h, Primary>>} = {<<h, Primary>>}
      OBVIOUS
    <3> DEFINE T == {<<h, Primary>>}
    <3>2. T \subseteq {h} \X Devices /\ <<h, Primary>> \in T
      BY PrimaryDevice
    <3>3. tp' \in [Handles -> BOOLEAN] /\ \A g \in Handles \ {h} : tp'[g] = tp[g]
      BY <2>4 DEF AllocateFallback, PInv, PTypeOK
    <3>4. /\ UNCHANGED <<overflow, freeSlots, inUse, usedSlots>>
          /\ ptr' = [ptr EXCEPT ![h] = "block"]
          /\ entry' = [entry EXCEPT ![h] = -1]
          /\ blocks' = blocks \cup T /\ outcome' \in Result
      BY <1>0, <2>4 DEF AllocateFallback
    <3> QED
      BY <2>1, <3>1, <3>2, <3>3, <3>4, BlockStep
  <2> QED
    BY <1>1, <2>2, <2>3, <2>4 DEF PoolAllocate
<1>2. CASE PoolAllocateTP(h)
  <2>1. CASE PoolRefuse("internal")
    BY <1>0, <2>1, RefuseStep
  <2>2. CASE ~PoolRefuse("internal")
    <3> DEFINE T == {<<h, d>> : d \in Devices}
    <3>1. T \subseteq {h} \X Devices /\ <<h, Primary>> \in T
      BY PrimaryDevice
    <3>2. /\ tp' \in [Handles -> BOOLEAN] /\ \A g \in Handles \ {h} : tp'[g] = tp[g]
          /\ ~tp'[h] => T = {<<h, Primary>>}
      BY <1>2, <2>2 DEF PoolAllocateTP, PInv, PTypeOK
    <3>3. /\ UNCHANGED <<overflow, freeSlots, inUse, usedSlots>> /\ ~PoolIsValid(h)
          /\ ptr' = [ptr EXCEPT ![h] = "block"]
          /\ entry' = [entry EXCEPT ![h] = -1]
          /\ blocks' = blocks \cup T /\ outcome' \in Result
      BY <1>0, <1>2, <2>2 DEF PoolAllocateTP
    <3> HIDE DEF T
    <3> QED
      BY <3>1, <3>2, <3>3, BlockStep
  <2> QED
    BY <2>1, <2>2
<1> QED
  BY <1>1, <1>2

-----------------------------------------------------------------------------
(* free.                                                                   *)

\* What every free does to the handle.
Cleared(h) ==
  /\ entry' = [entry EXCEPT ![h] = 0] /\ ptr' = [ptr EXCEPT ![h] = "null"]
  /\ outcome' = "ok" /\ UNCHANGED <<overflow, tp>>

\* A slot given back is on the stack once.
LEMMA FreeSlotStep ==
  ASSUME PInv, NEW h \in Handles, Cleared(h), entry[h] \in Slot,
         freeSlots' = Append(freeSlots, entry[h]), inUse' = inUse \ {entry[h]},
         usedSlots' = usedSlots - 1, UNCHANGED blocks
  PROVE  PInv'
<1> DEFINE slot == entry[h]
           k == Len(freeSlots)
<1>1. /\ slot \in Slot /\ slot \in inUse
      /\ freeSlots \in Seq(Slot) /\ k \in Nat /\ DOMAIN freeSlots = 1 .. k
  BY LenProperties DEF PInv, PTypeOK, OwnersInv
<1>2. \A g \in Handles : entry'[g] = IF g = h THEN 0 ELSE entry[g]
  BY DEF PInv, PTypeOK, Cleared
<1>3. /\ freeSlots' \in Seq(Slot) /\ DOMAIN freeSlots' = 1 .. k + 1
      /\ freeSlots'[k + 1] = slot
      /\ \A i \in 1 .. k : freeSlots'[i] = freeSlots[i]
  BY <1>1, AppendProperties, LenProperties
<1> HIDE DEF slot, k
<1>4. PTypeOK'
  BY <1>1, <1>3 DEF PInv, PTypeOK, Cleared, Result
<1>5. PointersInv'
  BY <1>2, SlotFacts DEF PInv, PTypeOK, PointersInv, Cleared
<1>6. OwnersInv'
  <2>1. \A g \in Handles : g # h /\ entry[g] \in Slot => entry[g] \in inUse \ {slot}
    BY DEF PInv, OwnersInv, slot
  <2>2. inUse' = {entry'[f] : f \in {g \in Handles : entry'[g] \in Slot}}
    <3>1. \A x \in inUse' : \E f \in Handles : entry'[f] \in Slot /\ x = entry'[f]
      BY <1>2 DEF PInv, OwnersInv
    <3>2. \A f \in Handles : entry'[f] \in Slot => entry'[f] \in inUse'
      BY <1>2, <2>1, SlotFacts DEF slot
    <3> QED
      BY <3>1, <3>2
  <2> QED
    BY <1>2, <2>2, SlotFacts DEF PInv, OwnersInv
<1>7. StackInv'
  <2>1. \A i \in 1 .. k : freeSlots[i] \in Slot \ inUse
    BY <1>1 DEF PInv, StackInv
  <2>2. \A s \in Slot \ inUse : \E i \in 1 .. k : s = freeSlots[i]
    BY <1>1 DEF PInv, StackInv
  <2>3. {freeSlots'[i] : i \in DOMAIN freeSlots'} = Slot \ inUse'
    <3>1. \A i \in DOMAIN freeSlots' : freeSlots'[i] \in Slot \ inUse'
      <4>1. \A i \in 1 .. k + 1 : i \in 1 .. k \/ i = k + 1
        BY <1>1
      <4> QED
        BY <1>1, <1>3, <2>1, <4>1 DEF slot
    <3>2. \A s \in Slot \ inUse' : \E i \in DOMAIN freeSlots' : s = freeSlots'[i]
      <4>1. k + 1 \in DOMAIN freeSlots' /\ \A i \in 1 .. k : i \in DOMAIN freeSlots'
        BY <1>1, <1>3
      <4> QED
        BY <1>3, <2>2, <4>1 DEF slot
    <3> QED
      BY <3>1, <3>2
  <2>4. \A i, j \in DOMAIN freeSlots' : freeSlots'[i] = freeSlots'[j] => i = j
    <3>1. \A i \in DOMAIN freeSlots' : i \in 1 .. k \/ i = k + 1
      BY <1>1, <1>3
    <3>2. \A i \in 1 .. k : freeSlots[i] # slot
      BY <1>1, <2>1
    <3>3. \A i, j \in 1 .. k : freeSlots[i] = freeSlots[j] => i = j
      BY <1>1 DEF PInv, StackInv
    <3>4. ASSUME NEW i \in DOMAIN freeSlots', NEW j \in DOMAIN freeSlots',
                 freeSlots'[i] = freeSlots'[j]
          PROVE  i = j
      <4>1. CASE i \in 1 .. k /\ j \in 1 .. k
        BY <1>3, <3>3, <3>4, <4>1
      <4>2. CASE i \in 1 .. k /\ j = k + 1
        BY <1>3, <3>2, <3>4, <4>2
      <4>3. CASE i = k + 1 /\ j \in 1 .. k
        BY <1>3, <3>2, <3>4, <4>3
      <4> QED
        BY <3>1, <4>1, <4>2, <4>3
    <3> QED
      BY <3>4
  <2> QED
    BY <2>3, <2>4 DEF StackInv
<1>8. UsedInv'
  BY <1>1, SlotFacts, FS_RemoveElement DEF PInv, PTypeOK, UsedInv, slot
<1>9. BlocksInv'
  <2>1. \A b \in blocks : b[1] \in Handles
    BY DEF PInv, PTypeOK
  <2> QED
    BY <1>2, <2>1, SlotFacts DEF PInv, BlocksInv, Cleared
<1> QED
  BY <1>4, <1>5, <1>6, <1>7, <1>8, <1>9 DEF PInv

\* A free of a block, or of a handle whose allocation is gone.
LEMMA FreeBlockStep ==
  ASSUME PInv, NEW h \in Handles, Cleared(h),
         UNCHANGED <<freeSlots, inUse, usedSlots>>,
         \/ entry[h] = -1 /\ blocks' = blocks \ {<<h, Primary>>}
         \/ entry[h] = 0 /\ blocks' = blocks
  PROVE  PInv'
<1>1. \A g \in Handles : entry'[g] = IF g = h THEN 0 ELSE entry[g]
  BY DEF PInv, PTypeOK, Cleared
<1>2. PTypeOK'
  BY DEF PInv, PTypeOK, Cleared, Result
<1>3. PointersInv'
  BY SlotFacts DEF PInv, PTypeOK, PointersInv, Cleared
<1>4. OwnersInv'
  BY <1>1, SlotFacts DEF PInv, OwnersInv
<1>5. StackInv' /\ UsedInv'
  BY DEF PInv, StackInv, UsedInv
<1>6. BlocksInv'
  <2>1. \A g \in Handles : entry'[g] = -1 => <<g, Primary>> \in blocks'
    BY <1>1 DEF PInv, BlocksInv
  <2>2. ASSUME NEW b \in blocks', ~tp'[b[1]]
        PROVE  entry'[b[1]] = -1 /\ b[2] = Primary
    <3>1. b \in blocks /\ b[1] \in Handles /\ b = <<b[1], b[2]>>
      BY DEF PInv, PTypeOK
    <3>2. entry[b[1]] = -1 /\ b[2] = Primary
      BY <2>2, <3>1 DEF PInv, BlocksInv, Cleared
    <3>3. b[1] # h
      BY <2>2, <3>1, <3>2
    <3> QED
      BY <1>1, <3>1, <3>2, <3>3
  <2> QED
    BY <2>1, <2>2 DEF BlocksInv
<1> QED
  BY <1>2, <1>3, <1>4, <1>5, <1>6 DEF PInv

-----------------------------------------------------------------------------
(* The theorems.                                                           *)

\* The pool after initialize.
LEMMA InitPInv == PInit => PInv
<1> SUFFICES ASSUME PInit PROVE PInv
  OBVIOUS
<1>1. /\ freeSlots \in Seq(Slot) /\ DOMAIN freeSlots = Slot
      /\ \A i \in Slot : freeSlots[i] = i
  BY PooledAssumption DEF PInit, Slot
<1>2. PTypeOK
  BY <1>1 DEF PInit, PTypeOK, Result
<1>3. PointersInv /\ OwnersInv /\ BlocksInv
  BY SlotFacts DEF PInit, PointersInv, OwnersInv, BlocksInv
<1>4. StackInv /\ UsedInv
  BY <1>1, FS_EmptySet DEF PInit, StackInv, UsedInv
<1> QED
  BY <1>2, <1>3, <1>4 DEF PInv

\* Every operation of the allocator preserves the inductive invariant.
LEMMA PInvStep == PInv /\ [PNext]_pvars => PInv'
<1> SUFFICES ASSUME PInv, [PNext]_pvars PROVE PInv'
  OBVIOUS
<1>1. CASE UNCHANGED pvars
  BY <1>1 DEF pvars, PInv, PTypeOK, PointersInv, OwnersInv, StackInv, UsedInv,
              BlocksInv
<1>2. ASSUME NEW h \in Handles, PoolFree(h), UNCHANGED overflow PROVE PInv'
  <2>1. Cleared(h)
    BY <1>2 DEF PoolFree, ClearPointers, Cleared
  <2>2. CASE entry[h] \in Slot
    BY <1>2, <2>1, <2>2, FreeSlotStep, SlotFacts DEF PoolFree, Return
  <2>3. CASE entry[h] \notin Slot
    BY <1>2, <2>1, <2>3, FreeBlockStep DEF PoolFree, Return, CudaFree
  <2> QED
    BY <2>2, <2>3
<1>3. CASE PNext
  BY <1>2, <1>3, AllocateStep DEF PNext
<1> QED
  BY <1>1, <1>3

\* The inductive invariant holds in every reachable state.
LEMMA PInvariance == PSpec => []PInv
  BY InitPInv, PInvStep, PTL DEF PSpec

\* The stack of free slots and the statistics stay exact, whatever the order of
\* allocations and frees and however often a handle is freed.
THEOREM SlotsStayConsistent == PSpec => []SlotsConsistent
<1>1. PInv => SlotsConsistent
  BY DEF PInv, StackInv, OwnersInv, UsedInv, SlotsConsistent
<1> QED
  BY <1>1, PInvariance, PTL

\* No two requests share a slot, and the pointers of a handle are to memory
\* that is its own.
THEOREM SlotsStayExclusive == PSpec => []SlotsExclusive
<1>1. PInv => SlotsExclusive
  BY DEF PInv, PointersInv, OwnersInv, BlocksInv, SlotsExclusive
<1> QED
  BY <1>1, PInvariance, PTL

=============================================================================
