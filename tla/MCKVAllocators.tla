--------------------------- MODULE MCKVAllocators ---------------------------
(***************************************************************************)
(* The two KV cache allocators on two devices.  main creates one of them,  *)
(* as config.use_pooled_allocator says, and the other stays unused.        *)
(***************************************************************************)
EXTENDS KVContiguous, KVPooled, TLC

CONSTANTS d1, d2

VARIABLE pooled  \* config.use_pooled_allocator

avars == <<pooled, cvars, pvars>>

MCDevices == <<d1, d2>>

Symmetry == Permutations(Handles)

AInit == pooled \in BOOLEAN /\ CInit /\ PInit

ANext ==
  /\ UNCHANGED pooled
  /\ \/ ~pooled /\ CNext /\ UNCHANGED pvars
     \/ pooled /\ PNext /\ UNCHANGED cvars

ASpec == AInit /\ [][ANext]_avars

=============================================================================
