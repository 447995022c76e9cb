------------------------------ MODULE WatchMC -------------------------------
(* The texts that Watch is checked with. *)
EXTENDS Watch

GoodTexts == {"a", "b"}
BadTexts == {"broken"}
=============================================================================
