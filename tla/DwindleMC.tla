----------------------------- MODULE DwindleMC -----------------------------
(***************************************************************************)
(* Windows are interchangeable: no definition chooses one of them.         *)
(***************************************************************************)
EXTENDS Dwindle

AnyWindow == Permutations(Window)
=============================================================================
