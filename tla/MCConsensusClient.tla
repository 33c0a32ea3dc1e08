------------------------- MODULE MCConsensusClient -------------------------
(***************************************************************************)
(* Instances of ConsensusClient for TLC.                                   *)
(***************************************************************************)
EXTENDS ConsensusClient
=============================================================================
