--------------------------- MODULE DwindleHeapMC ---------------------------
(***************************************************************************)
(* Windows are interchangeable: no definition chooses one of them (nodes   *)
(* are not, because NewNode chooses an address).                           *)
(***************************************************************************)
EXTENDS DwindleHeap

AnyWindow == Permutations(Window)
=============================================================================
