--------------------------- MODULE MCDutyMetrics ---------------------------
(***************************************************************************)
(* Two validators, two operators of one module and the rest of the chain.  *)
(* The names of the operators change, and may be swapped.  Intervals of 2  *)
(* epochs stand for 3, 6 and 225.                                          *)
(***************************************************************************)
EXTENDS DutyMetrics, TLC

CONSTANTS a, b

MCModuleOf == (a :> 1) @@ (b :> 1)
Both == (a :> "x") @@ (b :> "y")
Swapped == (a :> "y") @@ (b :> "x")

Att(h, d, f) == [happened |-> h, delay |-> d, head |-> f, target |-> f, source |-> IF f = Null THEN Null ELSE 1]
NoAtt == [happened |-> Null, delay |-> Null, head |-> Null, target |-> Null, source |-> Null]

Base == [owner |-> a, stuck |-> 0, eligibility |-> 0, activation |-> 0, exit |-> FarFuture,
         withdrawable |-> FarFuture, slashed |-> 0, effective |-> 1, att |-> NoAtt, sync |-> Null,
         proposed |-> Null, attReward |-> 0, propReward |-> 0, syncReward |-> 0, withdrawn |-> 0]

Voters == {[Base EXCEPT !.att = x] : x \in {Att(1, 1, 1), Att(0, Null, Null), Att(1, 3, 0)}}
Outsiders == {[Base EXCEPT !.att = Att(0, Null, Null), !.owner = Other],
              [Base EXCEPT !.att = Att(0, Null, Null), !.stuck = 1]}
Members == {[Base EXCEPT !.sync = 50], [Base EXCEPT !.sync = 100], [Base EXCEPT !.sync = 60, !.owner = Other]}
Proposers == {Base, [Base EXCEPT !.proposed = 0], [Base EXCEPT !.proposed = 1, !.owner = b]}

Life(el, ac, ex, wi, sl, ef, wd) ==
  [Base EXCEPT !.eligibility = el, !.activation = ac, !.exit = ex, !.withdrawable = wi,
               !.slashed = sl, !.effective = ef, !.withdrawn = wd]
F == FarFuture
Lives == {Life(F, F, F, F, 0, 1, 0), Life(0, F, F, F, 0, 1, 0), Base,
          Life(0, 0, 9, F, 0, 1, 0), Life(0, 0, 9, F, 1, 1, 0),
          Life(0, 0, 1, 9, 0, 1, 0), Life(0, 0, 1, 9, 1, 1, 0),
          Life(0, 0, 0, 1, 0, 1, 0), Life(0, 0, 0, 1, 1, 1, 2), Life(0, 0, 0, 1, 0, 0, 2)}
LivesOfAll == Lives \cup {[Base EXCEPT !.owner = b, !.stuck = 1], [Base EXCEPT !.owner = Other, !.exit = 9]}

Earners == {[Base EXCEPT !.attReward = 1, !.propReward = -1, !.proposed = 1, !.withdrawn = 1],
            [Base EXCEPT !.attReward = -1, !.sync = 50, !.syncReward = 1],
            [Base EXCEPT !.owner = b, !.attReward = -1, !.slashed = 1, !.exit = 9, !.withdrawn = 1]}
Payouts == {[Base EXCEPT !.withdrawn = 2], [Base EXCEPT !.withdrawn = 1], [Base EXCEPT !.owner = Other, !.withdrawn = 2], Base}

LongTasks == {"missAttestationsLastNEpoch", "avgDeltas", "minDeltas", "negativeValidatorsCount", "balance24hDifference",
              "userRewards", "badSyncParticipationLastNEpoch"}
MCLastEpoch == [t \in Tasks |-> IF t \in LongTasks THEN 3 ELSE IF t = "stats" THEN 1 ELSE 2]
MCLists == [t \in Tasks |-> IF t \in {"goodProposes", "missedAttestationsLastEpoch"}
                            THEN {a :> "x", Both, Swapped} ELSE {Both}]
MCDuties == [t \in Tasks |->
  CASE t = "missedAttestationsLastEpoch" -> Outsiders \cup {[Base EXCEPT !.att = Att(0, Null, Null)], [Base EXCEPT !.att = Att(1, 1, 1)]}
    [] t \in DOMAIN AttestationTasks -> Voters
    [] t \in DOMAIN SyncTasks -> Members
    [] t \in DOMAIN ProposeTasks -> Proposers
    [] t = "stats" -> LivesOfAll
    [] t = "avgSyncPercent" -> Members \cup {Base}
    [] t = "withdrawalsStats" -> Payouts
    [] t \in {"avgDeltas", "minDeltas", "balance24hDifference"} -> {d \in Earners : d.withdrawn = 1}
    [] OTHER -> Earners]

MCFirstDuties == [t \in Tasks |-> {CHOOSE d \in MCDuties[t] : d.owner = a}]

\* For the counts of bad sync participation as documented: averages of 10, 50 and 90, the first
\* of them below the distance of 21; the attempt that fails has seen fewer blocks
SyncQuiet ==
  /\ failed = {} /\ (user = None => epoch < 2)
  /\ (attempts = 1 => epoch > 2) /\ (list = Swapped => epoch = 4)
SyncLastEpoch == [t \in Tasks |-> 4]
SyncLists == [t \in Tasks |-> {Both, Swapped}]
SyncDuties == [t \in Tasks |-> {[Base EXCEPT !.sync = 10], [Base EXCEPT !.sync = 90]}]
SyncFirstDuties == [t \in Tasks |-> {[Base EXCEPT !.sync = 10]}]

AllTasks == Counting \cup DOMAIN StateTasks \cup {"avgSyncPercent", "withdrawalsStats", "userRewards"}
MCHighReward == {S \in SUBSET Validators : Cardinality(S) <= 1}
Symmetry == Permutations(Validators)
=============================================================================
