----------------------------- MODULE KVAllocator ----------------------------
(***************************************************************************)
(* What the two KV cache allocators behind IKVCacheAllocator               *)
(* (include/kvcache/kv_allocator.hpp) have in common: the handles they     *)
(* give out, the devices they manage and the CUDA memory they take.        *)
(*                                                                         *)
(* A KVCacheHandle is known by its owner h; the allocation_id that keys    *)
(* the allocators' tables is unique to it.  A cache is its K and V block   *)
(* together.                                                               *)
(***************************************************************************)
EXTENDS Integers, Sequences, FiniteSets

CONSTANTS
  Handles,     \* the owners of handles
  DeviceList,  \* device_ids_, the first one being config_.device_id
  Lengths,     \* the max_seq_len values asked for
  FailAt       \* the places in DeviceList where a CUDA call may fail

\* device_ids_, and the device allocate uses.
Devices == {DeviceList[i] : i \in DOMAIN DeviceList}
Primary == DeviceList[1]

ASSUME AllocatorAssumption ==
  /\ DeviceList \in Seq(Devices) /\ DeviceList # <<>>
  /\ \A i, j \in DOMAIN DeviceList : DeviceList[i] = DeviceList[j] => i = j
  /\ Lengths \subseteq Nat
  /\ FailAt \subseteq DOMAIN DeviceList

\* What an operation returns: a value, or an error by its code.
Result == {"ok", "resource_exhausted", "internal"}

=============================================================================
