--------------------------- MODULE MCBlockSearch ---------------------------
(***************************************************************************)
(* Instances of BlockSearch for TLC.                                       *)
(***************************************************************************)
EXTENDS BlockSearch

\* Bound: with lagging nodes only chains without a block in the last slot.
ShortWhenLagging == nodes = "lagging" => MaxSlot \notin chain /\ head < MaxSlot
=============================================================================
