----------------------------- MODULE DesktopMC -----------------------------
(***************************************************************************)
(* Values of the constants of module Desktop that a .cfg cannot write.     *)
(***************************************************************************)
EXTENDS Desktop, TLC

CONSTANTS l1, l2

NoLayers  == <<>>
OneLayer  == <<l1>>
TwoLayers == <<l1, l2>>

\* A rule without tags, and a rule that sends windows to the second tag.
NoRule    == {{}}
SomeRules == {{}, {2}}

\* Windows and outputs are interchangeable; the surfaces of Stack are not.
Symmetry == Permutations(Client) \cup Permutations(Monitor)
=============================================================================
