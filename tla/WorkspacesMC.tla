---------------------------- MODULE WorkspacesMC ----------------------------
(***************************************************************************)
(* Values of the constants of module Workspaces.                           *)
(***************************************************************************)
EXTENDS Workspaces

CONSTANT o1

OneName     == [o \in Output |-> "DP-1"]
AllRequests == {"create_workspace", "activate", "deactivate", "assign", "remove"}
=============================================================================
