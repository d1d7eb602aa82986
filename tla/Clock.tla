-------------------------------- MODULE Clock --------------------------------
(***************************************************************************)
(* The clock that Redis TTLs and Date.now() share, in ticks.               *)
(***************************************************************************)
EXTENDS Naturals

CONSTANT MaxNow                         \* bound: where the clock stops
ASSUME ClockIsBounded == MaxNow \in Nat

VARIABLE now

=============================================================================
