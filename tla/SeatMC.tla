------------------------------- MODULE SeatMC -------------------------------
(* The constraints that Seat is checked with: each value of both fields. *)
EXTENDS Seat

Once == [lifetime |-> "oneshot", type |-> "confined"]
Locking == [lifetime |-> "persistent", type |-> "locked"]
TwoKinds == {Once, Locking}
=============================================================================
