---------------------------- MODULE MCDutyChecks ----------------------------
(***************************************************************************)
(* An instance of DutyChecks for TLC: a validator that attests, one that   *)
(* is slashed and one that has just been activated and attests in the last *)
(* slot of the epoch, too late for a block of it.                          *)
(***************************************************************************)
EXTENDS DutyChecks

CONSTANTS regular, punished, newcomer

MCValidators == {regular, punished, newcomer}
MCDutySlot == [v \in MCValidators |-> IF v = newcomer THEN 1 ELSE 0]
MCAmounts == [v \in MCValidators |-> IF v = newcomer THEN 0 ELSE 1]
=============================================================================
