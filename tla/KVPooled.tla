------------------------------ MODULE KVPooled ------------------------------
(***************************************************************************)
(* PooledKVAllocator of src/kvcache/kv_allocator.cpp: a stack of fixed     *)
(* slots per device, cudaMalloc when the pool cannot serve a request, and  *)
(* no pooling for tensor-parallel requests.  allocate only ever uses the   *)
(* pool of config_.device_id, so that is the one pool kept here.           *)
(*                                                                         *)
(* The owner of a handle may free it again: the scheduler does when a      *)
(* prefill fails.                                                          *)
(***************************************************************************)
EXTENDS KVAllocator

CONSTANTS
  NumSlots,       \* pool_config_.num_slots
  SlotTokens,     \* pool_config_.slot_size_tokens
  TensorParallel  \* whether requests are allocated across devices

Slot == 1 .. NumSlots

ASSUME PooledAssumption ==
  NumSlots \in Nat /\ SlotTokens \in Nat /\ TensorParallel \in BOOLEAN

VARIABLES
  overflow,   \* pool_config_.allow_overflow, which never changes
  ptr,        \* ptr[h]: what k_cache points to: "null", "slot" or "block"
  tp,         \* tp[h]: is_tensor_parallel with its device_caches
  entry,      \* entry[h]: allocation_slots_[allocation_id]: 0 for none, -1
              \* for an overflow allocation, else the slot
  freeSlots,  \* free_slots, the top of the stack last
  inUse,      \* the slots with in_use set
  usedSlots,  \* stats.used_bytes in slots
  blocks,     \* the caches <<h, d>> that cudaMalloc gave and cudaFree has not got
  outcome     \* what the last operation returned

pvars == <<overflow, ptr, tp, entry, freeSlots, inUse, usedSlots, blocks,
           outcome>>

\* is_valid(): a tensor-parallel handle is judged by its device_caches.
PoolIsValid(h) == tp[h] \/ ptr[h] # "null"

\* initialize: every slot is on the stack.
PInit ==
  /\ overflow \in BOOLEAN
  /\ ptr = [h \in Handles |-> "null"]
  /\ tp = [h \in Handles |-> FALSE]
  /\ entry = [h \in Handles |-> 0]
  /\ freeSlots = [i \in Slot |-> i]
  /\ inUse = {}
  /\ usedSlots = 0
  /\ blocks = {}
  /\ outcome = "ok"

PoolRefuse(why) ==
  /\ outcome' = why
  /\ UNCHANGED <<ptr, tp, entry, freeSlots, inUse, usedSlots, blocks>>

\* A request of n tokens that a slot of the pool can serve now.
FromPool(n) == n <= SlotTokens /\ freeSlots # <<>>

\* can_allocate.
CanAllocate(n) == FromPool(n) \/ overflow

\* The stack left when back() is used without pop_back().
MutPopSlot(s) == s

\* free_slots after pop_back().
PopSlot(s) == SubSeq(s, 1, Len(s) - 1)

\* allocate from the pool.
AllocateSlot(h, n) ==
  /\ FromPool(n)
  /\ LET slot == freeSlots[Len(freeSlots)]
     IN  /\ entry' = [entry EXCEPT ![h] = slot]
         /\ inUse' = inUse \cup {slot}
  /\ freeSlots' = PopSlot(freeSlots)
  /\ usedSlots' = usedSlots + 1
  /\ ptr' = [ptr EXCEPT ![h] = "slot"]
  /\ outcome' = "ok"
  /\ UNCHANGED <<tp, blocks>>

\* allocate_fallback: cudaMalloc on the primary device.
AllocateFallback(h) ==
  /\ ptr' = [ptr EXCEPT ![h] = "block"]
  /\ entry' = [entry EXCEPT ![h] = -1]
  /\ blocks' = blocks \cup {<<h, Primary>>}
  /\ outcome' = "ok"
  /\ UNCHANGED <<tp, freeSlots, inUse, usedSlots>>

PoolAllocate(h, n) ==
  /\ ~PoolIsValid(h)
  /\ \/ AllocateSlot(h, n)
     \/ ~CanAllocate(n) /\ PoolRefuse("resource_exhausted")
     \/ /\ ~FromPool(n) /\ overflow
        /\ AllocateFallback(h) \/ (1 \in FailAt /\ PoolRefuse("internal"))

\* allocate_tensor_parallel_fallback; an error frees the caches already made.
PoolAllocateTP(h) ==
  /\ TensorParallel /\ ~PoolIsValid(h)
  /\ \/ FailAt # {} /\ PoolRefuse("internal")
     \/ /\ ptr' = [ptr EXCEPT ![h] = "block"]
        /\ tp' = [tp EXCEPT ![h] = TRUE]
        /\ entry' = [entry EXCEPT ![h] = -1]
        /\ blocks' = blocks \cup {<<h, d>> : d \in Devices}
        /\ outcome' = "ok"
        /\ UNCHANGED <<freeSlots, inUse, usedSlots>>

\* free that does not clear the pointers.
MutClearPointers(h) == ptr

\* The pointers after free.
ClearPointers(h) == [ptr EXCEPT ![h] = "null"]

\* cudaFree of the blocks k_cache and v_cache point to.
CudaFree(h) == blocks \ {<<h, Primary>>}

\* What free does to the pool and to CUDA memory.
Return(h) ==
  \/ /\ entry[h] = -1
     /\ blocks' = CudaFree(h)
     /\ UNCHANGED <<freeSlots, inUse, usedSlots>>
  \/ /\ entry[h] \in Slot
     /\ freeSlots' = Append(freeSlots, entry[h])
     /\ inUse' = inUse \ {entry[h]}
     /\ usedSlots' = usedSlots - 1
     /\ UNCHANGED blocks
  \/ /\ entry[h] = 0
     /\ UNCHANGED <<blocks, freeSlots, inUse, usedSlots>>

\* free: an allocation_id without an entry only clears the pointers, and
\* device_caches and is_tensor_parallel stay as they are.
PoolFree(h) ==
  /\ PoolIsValid(h)
  /\ Return(h)
  /\ entry' = [entry EXCEPT ![h] = 0]
  /\ ptr' = ClearPointers(h)
  /\ outcome' = "ok"
  /\ UNCHANGED tp

PNext ==
  /\ UNCHANGED overflow
  /\ \E h \in Handles :
       \/ \E n \in Lengths : PoolAllocate(h, n)
       \/ PoolAllocateTP(h)
       \/ PoolFree(h)

PSpec == PInit /\ [][PNext]_pvars

-----------------------------------------------------------------------------
(* What must hold.                                                         *)

\* The types of the variables.
PTypeOK ==
  /\ overflow \in BOOLEAN
  /\ ptr \in [Handles -> {"null", "slot", "block"}]
  /\ tp \in [Handles -> BOOLEAN]
  /\ entry \in [Handles -> Slot \cup {-1, 0}]
  /\ freeSlots \in Seq(Slot)
  /\ inUse \subseteq Slot
  /\ usedSlots \in Int
  /\ blocks \subseteq Handles \X Devices
  /\ outcome \in Result

\* The stack holds every slot that is not in use, once, and the statistics
\* agree, whatever the order of frees and however often a handle is freed.
SlotsConsistent ==
  /\ \A i, j \in DOMAIN freeSlots : freeSlots[i] = freeSlots[j] => i = j
  /\ {freeSlots[i] : i \in DOMAIN freeSlots} = Slot \ inUse
  /\ inUse = {entry[h] : h \in {g \in Handles : entry[g] \in Slot}}
  /\ usedSlots = Cardinality(inUse)

\* Two requests never share a slot, a pointer that a handle still has points
\* to memory that is still its own, and a CUDA block of a request on one
\* device is tracked until it is freed.
SlotsExclusive ==
  /\ \A h \in Handles :
       /\ ptr[h] = "slot" =>
            /\ entry[h] \in Slot
            /\ \A g \in Handles : entry[g] = entry[h] => g = h
       /\ ptr[h] = "block" => <<h, Primary>> \in blocks
  /\ \A b \in blocks : ~tp[b[1]] => entry[b[1]] = -1 /\ b[2] = Primary

-----------------------------------------------------------------------------
(* What the documentation says and the code does not do.                   *)

\* kv_allocator.hpp, free: "Free a previously allocated cache": on all the
\* devices of a tensor-parallel handle.
FreedEverywhere == \A b \in blocks : entry[b[1]] = -1

=============================================================================
