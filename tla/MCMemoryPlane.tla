--------------------------- MODULE MCMemoryPlane ----------------------------
(***************************************************************************)
(* MemoryPlane with two devices and four requests: two short ones and two  *)
(* long enough to be tensor-parallel, which together fill both devices.    *)
(***************************************************************************)
EXTENDS MemoryPlane, TLC

CONSTANTS d1, d2, r1, r2, r3, r4

MCDevices == <<d1, d2>>

MCSeqLen == (r1 :> 1) @@ (r2 :> 2) @@ (r3 :> 3) @@ (r4 :> 3)

Symmetry == Permutations({r3, r4})

=============================================================================
