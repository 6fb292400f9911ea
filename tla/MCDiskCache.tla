---------------------------- MODULE MCDiskCache ----------------------------
(* Small instances of DiskCache for TLC. *)
EXTENDS DiskCache, TLC

CONSTANTS v1, v2, v3

\* Two storable responses of different lengths, the shorter one short-lived.
LenDiffer == (v1 :> 1) @@ (v2 :> 2)
LifeTwo == (v1 :> 1) @@ (v2 :> 2)

\* Three responses, of which the last is larger than the whole cache.
LenGrow == (v1 :> 1) @@ (v2 :> 2) @@ (v3 :> 3)
LifeGrow == (v1 :> 1) @@ (v2 :> 2) @@ (v3 :> 2)

\* Two responses a length comparison cannot tell apart.
LenSame == (v1 :> 1) @@ (v2 :> 1)
LifeSame == (v1 :> 2) @@ (v2 :> 2)

SlotSymmetry == Permutations(Slots)
=============================================================================
