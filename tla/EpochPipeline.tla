--------------------------- MODULE EpochPipeline ---------------------------
(***************************************************************************)
(* What the monitor promises about the epochs of the chain, with no        *)
(* database, no process and no failures in sight: an epoch goes from new   *)
(* to stored to calculated; it is stored only when every epoch before it   *)
(* is calculated; and the alerts of an epoch are raised at most once, while *)
(* it is the newest epoch there is data of.                                *)
(***************************************************************************)
EXTENDS Naturals

CONSTANTS StartEpoch, LastEpoch

VARIABLES
  phase,      \* phase[e] of every epoch e
  lastAlert   \* the last epoch alerts were raised for, 0 at the beginning

Epoch == 0 .. LastEpoch

Init ==
  /\ \E k \in StartEpoch .. LastEpoch :
       phase = [e \in Epoch |-> IF e \in StartEpoch .. k THEN "calculated" ELSE "new"]
  /\ lastAlert = 0

\* The duties of e are in the database.
Store(e) ==
  /\ phase[e] = "new"
  /\ \A d \in StartEpoch .. e - 1 : phase[d] = "calculated"
  /\ phase' = [phase EXCEPT ![e] = "stored"]
  /\ UNCHANGED lastAlert

\* The metrics of e are calculated and the epoch is done.
Calculate(e) ==
  /\ phase[e] = "stored"
  /\ phase' = [phase EXCEPT ![e] = "calculated"]
  /\ UNCHANGED lastAlert

\* The critical alerts of e are raised.
Alert(e) ==
  /\ phase[e] = "calculated"
  /\ \A d \in Epoch : d > e => phase[d] = "new"
  /\ lastAlert < e
  /\ lastAlert' = e
  /\ UNCHANGED phase

Next == \E e \in Epoch : Store(e) \/ Calculate(e) \/ Alert(e)

Spec == Init /\ [][Next]_<<phase, lastAlert>>
=============================================================================
