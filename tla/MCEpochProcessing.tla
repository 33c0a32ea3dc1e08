------------------------- MODULE MCEpochProcessing -------------------------
(***************************************************************************)
(* Instances of EpochProcessing for TLC.                                   *)
(***************************************************************************)
EXTENDS EpochProcessing

\* Bound: after a first start the chain grows to epoch 2 only, after a warm
\* one to LastEpoch.  (A first start reaches many more states.)
ColdIsShort == start = "cold" => tip <= 2
=============================================================================
