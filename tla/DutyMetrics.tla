---------------------------- MODULE DutyMetrics ----------------------------
(***************************************************************************)
(* The calculation of the metrics of an epoch: the tasks of the duties,    *)
(* then those of the summary, each a query whose result is set in gauges   *)
(* that keep their values until they are set again.                        *)
(*                                                                         *)
(* One task is followed (task), with its gauges by operator, by module and *)
(* of the other validators; the rest of the calculation only matters to it *)
(* by failing.  A label of an operator is the operator (module and index)  *)
(* with the name it had.                                                   *)
(***************************************************************************)
EXTENDS SummaryQueries

CONSTANTS
  Tasks,         \* tasks explored
  Duties,        \* what a row may say, by task: its columns without status and balance
  FirstDuties,   \* what an attempt that fails may have written, by task
  Lists,         \* lists of operators of the registry, by task: names by operator
  HighReward,    \* sets of validators with a possible high reward
  Interval,      \* BAD_ATTESTATION_EPOCHS, SYNC_PARTICIPATION_EPOCHS_LESS_THAN_CHAIN_AVG
  Distance,      \* SYNC_PARTICIPATION_DISTANCE_DOWN_FROM_CHAIN_AVG
  DeltaEpochs,   \* 6, and 225 for a day
  Deposit,       \* balance before the first epoch
  LastEpoch, MaxAttempts  \* bounds: epochs by task, attempts that fail

\* A row has a reward for a block, or for the sync committee, only with that duty
Columns == {"owner", "stuck", "slashed", "attReward", "propReward", "syncReward", "withdrawn",
            "proposed", "sync"}
ASSUME DutiesAssumption ==
  \A t \in Tasks : \A d \in Duties[t] \cup FirstDuties[t] :
    /\ Columns \subseteq DOMAIN d
    /\ d.owner \in Owners
    /\ d.attReward \in Int /\ d.propReward \in Int /\ d.syncReward \in Int /\ d.withdrawn \in Nat
    /\ d.sync \in Nat \cup {Null}
    /\ d.proposed = Null => d.propReward = 0
    /\ d.sync = Null => d.syncReward = 0
ASSUME ListsAssumption == \A t \in Tasks : \A l \in Lists[t] : DOMAIN l \subseteq Operators
ASSUME DistanceAssumption == Distance \in Nat
ASSUME WindowsAssumption == Interval \in Nat \ {0} /\ DeltaEpochs \in Nat \ {0}
ASSUME DepositAssumption == Deposit \in Int

VARIABLES
  task,
  list,          \* RegistryService.operators
  high,          \* possibleHighRewardValidators
  epoch,         \* last epoch stored
  pc,            \* "check", "duties", "summary"
  todo, failed,  \* gauges of the task not yet set in this calculation, and those whose query failed
  user, module, other,  \* gauges
  epochNumber,
  (* history *)
  attempts,      \* attempts that failed after some rows were inserted
  gaugeOf,       \* epoch for which the gauges by operator were set
  clean          \* "yes": the versions of every row the queries have read were equal

gauges == <<user, module, other>>
history == <<attempts, gaugeOf, clean>>
vars == <<table, task, list, high, epoch, pc, todo, failed, gauges, epochNumber, history>>

None == <<>>

Init ==
  /\ task \in Tasks
  /\ list \in Lists[task]
  /\ table = <<>> /\ epoch = 0 /\ high = {}
  /\ pc = "check" /\ todo = {} /\ failed = {}
  /\ user = None /\ module = None /\ other = None /\ epochNumber = 0
  /\ attempts = 0 /\ gaugeOf = 0 /\ clean = "yes"

(***************************************************************************)
(* Tasks                                                                   *)
(***************************************************************************)
LastN(c, n) == [condition |-> c, epochs |-> n]

AttestationTasks ==
  [perfectAttestationsLastEpoch       |-> LastN("perfect", 1),
   missedAttestationsLastEpoch        |-> LastN("missed", 1),
   highIncDelayAttestationsLastEpoch  |-> LastN("delayGtOne", 1),
   invalidHeadAttestationsLastEpoch   |-> LastN("invalidHead", 1),
   invalidTargetAttestationsLastEpoch |-> LastN("invalidTarget", 1),
   invalidSourceAttestationsLastEpoch |-> LastN("invalidSource", 1),
   missAttestationsLastNEpoch          |-> LastN("missed", Interval),
   highIncDelayAttestationsLastNEpoch  |-> LastN("delayGtOne", Interval),
   invalidHeadAttestationsLastNEpoch   |-> LastN("headZero", Interval),
   invalidTargetAttestationsLastNEpoch |-> LastN("targetZero", Interval),
   invalidSourceAttestationsLastNEpoch |-> LastN("sourceZero", Interval),
   incDelayGtTwoAttestationsLastNEpoch |-> LastN("delayGtTwo", Interval),
   invalidAttestationPropertyGtOneLastNEpoch |-> LastN("twoInvalid", Interval),
   highRewardMissAttestationsLastNEpoch |-> LastN("missed", Interval)]

SyncTasks ==
  [goodSyncParticipationLastEpoch |-> LastN("good", 1),
   badSyncParticipationLastEpoch  |-> LastN("bad", 1),
   badSyncParticipationLastNEpoch |-> LastN("bad", Interval),
   highRewardSyncParticipationLastNEpoch |-> LastN("bad", Interval)]

ProposeTasks ==
  [goodProposes |-> LastN(1, 1), missProposes |-> LastN(0, 1), highRewardMissProposes |-> LastN(0, 1)]

\* Tasks whose query also sets a gauge of the other validators
OtherTasks ==
  {"perfectAttestationsLastEpoch", "missedAttestationsLastEpoch", "highIncDelayAttestationsLastEpoch",
   "invalidHeadAttestationsLastEpoch", "invalidTargetAttestationsLastEpoch", "invalidSourceAttestationsLastEpoch",
   "goodSyncParticipationLastEpoch", "badSyncParticipationLastEpoch", "goodProposes", "missProposes"}

HighRewardTasks ==
  {"highRewardMissAttestationsLastNEpoch", "highRewardSyncParticipationLastNEpoch", "highRewardMissProposes"}

\* Gauges set by tasks of their own: by operator, by module, of the other validators
StateTasks ==
  [stats                   |-> {"user", "module", "other"},
   avgDeltas               |-> {"user"},
   minDeltas               |-> {"user"},
   negativeValidatorsCount |-> {"user"},
   balance24hDifference    |-> {"user", "module"}]

AverageTasks == [avgSyncPercent |-> {"user", "module", "other"}]
WithdrawalTasks == [withdrawalsStats |-> {"user", "other"}]
SummaryTasks == [userRewards |-> {"user"}]

Parts == IF task \in DOMAIN StateTasks THEN StateTasks[task]
         ELSE IF task \in DOMAIN AverageTasks THEN AverageTasks[task]
         ELSE IF task \in DOMAIN WithdrawalTasks THEN WithdrawalTasks[task]
         ELSE IF task \in DOMAIN SummaryTasks THEN SummaryTasks[task] ELSE {"user"}

Counting == DOMAIN AttestationTasks \cup DOMAIN SyncTasks \cup DOMAIN ProposeTasks
CountTask == IF task \in DOMAIN AttestationTasks THEN AttestationTasks[task]
             ELSE IF task \in DOMAIN SyncTasks THEN SyncTasks[task] ELSE ProposeTasks[task]

\* Gauges by operator; in the counting tasks with a group of the other validators
Query(e, newest) ==
  LET t == CountTask IN
  CASE task \in DOMAIN AttestationTasks -> AttestationLastN(e, t.epochs, high, t.condition, newest)
    [] task \in DOMAIN SyncTasks ->
         SyncLastN(e, t.epochs, high, t.condition, ChainSyncAverage(e, newest), Distance, newest)
    [] task \in DOMAIN ProposeTasks -> Proposes(e, high, t.condition, newest)
    [] task = "stats" -> UserNodeOperatorsStats(e, newest)
    [] task = "avgDeltas" -> AvgValidatorBalanceDelta(e, DeltaEpochs, newest)
    [] task = "minDeltas" -> ValidatorQuantile0001BalanceDeltas(e, DeltaEpochs, newest)
    [] task = "negativeValidatorsCount" -> ValidatorsCountWithNegativeDelta(e, DeltaEpochs, newest)
    [] task = "balance24hDifference" -> OperatorBalance24hDifference(e, DeltaEpochs, newest)
    [] task = "avgSyncPercent" -> OperatorSyncAverages(e, newest)
    [] task = "withdrawalsStats" -> UserNodeOperatorsWithdrawalsStats(e, newest)
    [] task = "userRewards" -> UserNodeOperatorsRewards(e, newest)

ModuleQuery(e, newest) ==
  CASE task = "stats" -> UserValidatorsSummaryStats(e, newest)
    [] task = "balance24hDifference" -> TotalBalance24hDifference(e, DeltaEpochs, newest)
    [] task = "avgSyncPercent" -> UserSyncAverages(e, newest)

Zero == CASE task = "stats" -> StatusCounts(<<>>, {})
          [] task = "withdrawalsStats" -> WithdrawalSums(<<>>, {})
          [] task = "userRewards" -> [calculated |-> 0, real |-> 0, error |-> 0]
          [] task \in {"avgSyncPercent", "avgDeltas"} -> <<0, 1>>
          [] OTHER -> 0

OtherQuery(e, newest) ==
  CASE task = "stats" -> OtherValidatorsSummaryStats(e, newest)
    [] task = "avgSyncPercent" -> OtherSyncAverage(e, newest)
    [] task = "withdrawalsStats" -> OtherChainWithdrawalsStats(e, newest)

(***************************************************************************)
(* Gauges                                                                  *)
(***************************************************************************)
Names == {list[o] : o \in DOMAIN list}

SetUserOperatorsMetric(metric, data) ==
  LET labels == {<<o, list[o]>> : o \in DOMAIN list}
      set == [l \in labels |-> IF l[1] \in DOMAIN data THEN data[l[1]] ELSE Zero]
      kept == {l \in DOMAIN metric : l[2] \in Names}
  IN [l \in labels \cup kept |-> IF l \in labels THEN set[l] ELSE metric[l]]

\* A module without a row in the result keeps its value
SetModulesMetric(metric, data) ==
  [m \in DOMAIN metric \cup DOMAIN data |-> IF m \in DOMAIN data THEN data[m] ELSE metric[m]]

SetOtherOperatorsMetric(data) == IF Other \in DOMAIN data THEN data[Other] ELSE 0

\* Epochs the query of the task looks at
Window(e) == IF task \in Counting THEN (e - CountTask.epochs + 1) .. e ELSE (e - DeltaEpochs) .. e

Equal(e) == \A p, q \in DOMAIN Versions(e) :
  \A v \in DOMAIN Versions(e)[p] \cap DOMAIN Versions(e)[q] : Versions(e)[p][v] = Versions(e)[q][v]

(***************************************************************************)
(* Steps                                                                   *)
(***************************************************************************)
\* Newest row of a validator
Newest(e, v) == Limit1(e, AllRows(e), TRUE)[v]

\* An epoch pays for the votes the row before tells, and for blocks
Balance(d, e, v) ==
  LET before == IF e = 1 THEN Deposit ELSE Newest(e - 1, v).balance + Newest(e - 1, v).attReward
  IN before + d.propReward + d.syncReward - d.withdrawn

\* The row of d
Row(d, e, v) ==
  [c \in DOMAIN d \cup {"status", "balance"} |->
     IF c = "status" THEN GetValidatorStatus(d, e) ELSE IF c = "balance" THEN Balance(d, e, v) ELSE d[c]]

Appended(e, rows) ==
  [x \in DOMAIN table \cup {e} |-> IF x = e THEN Append(Versions(e), rows) ELSE table[x]]

\* An attempt at the next epoch that fails: some rows are inserted.  The list of the registry
\* is replaced again before it is read
Attempt ==
  /\ pc = "check" /\ epoch < LastEpoch[task] /\ attempts < MaxAttempts
  /\ attempts' = attempts + 1
  /\ \E dom \in SUBSET Validators \ {{}} : \E d \in [dom -> FirstDuties[task]] :
       table' = Appended(epoch + 1, [v \in dom |-> Row(d[v], epoch + 1, v)])
  /\ UNCHANGED <<task, list, high, epoch, pc, todo, failed, gauges, epochNumber, gaugeOf, clean>>

\* checkAndWrite comes to its end
Store ==
  /\ pc = "check" /\ epoch < LastEpoch[task]
  /\ epoch' = epoch + 1
  /\ list' \in Lists[task]
  /\ high' \in IF task \in HighRewardTasks THEN HighReward ELSE {{}}
  /\ \E d \in [Validators -> Duties[task]] :
       table' = Appended(epoch', [v \in Validators |-> Row(d[v], epoch', v)])
  /\ pc' = "duties" /\ todo' = Parts /\ failed' = {} /\ clean' = "yes"
  /\ UNCHANGED <<task, gauges, epochNumber, attempts, gaugeOf>>

\* ReplacingMergeTree merges the parts of an epoch
Merge ==
  /\ \E e \in DOMAIN table :
       /\ Len(table[e]) > 1
       /\ table' = [table EXCEPT ![e] = <<Limit1(e, AllRows(e), TRUE)>>]
  /\ UNCHANGED <<task, list, high, epoch, pc, todo, failed, gauges, epochNumber, history>>

Phase == IF task \in DOMAIN SummaryTasks THEN "summary" ELSE "duties"

Clean == IF clean = "yes" /\ \A e \in Window(epoch) : Equal(e) THEN "yes" ELSE "no"

SetUser(newest) ==
  /\ pc = Phase /\ "user" \in todo
  /\ todo' = todo \ {"user"}
  /\ IF task \in HighRewardTasks /\ high = {} THEN UNCHANGED <<user, other, gaugeOf, clean>>
     ELSE LET data == Query(epoch, newest) IN
          /\ user' = SetUserOperatorsMetric(user, data)
          /\ other' = IF task \in OtherTasks THEN SetOtherOperatorsMetric(data) ELSE other
          /\ gaugeOf' = epoch
          /\ clean' = Clean
  /\ UNCHANGED <<table, task, list, high, epoch, pc, failed, module, epochNumber, attempts>>

SetModule(newest) ==
  /\ pc = Phase /\ "module" \in todo
  /\ todo' = todo \ {"module"}
  /\ module' = SetModulesMetric(module, ModuleQuery(epoch, newest))
  /\ clean' = Clean
  /\ UNCHANGED <<table, task, list, high, epoch, pc, failed, user, other, epochNumber, attempts, gaugeOf>>

SetOther(newest) ==
  /\ pc = Phase /\ "other" \in todo
  /\ todo' = todo \ {"other"}
  /\ other' = OtherQuery(epoch, newest)
  /\ clean' = Clean
  /\ UNCHANGED <<table, task, list, high, epoch, pc, failed, user, module, epochNumber, attempts, gaugeOf>>

QueryFails ==
  /\ pc = Phase
  /\ \E part \in todo : todo' = todo \ {part} /\ failed' = failed \cup {part}
  /\ UNCHANGED <<table, task, list, high, epoch, pc, gauges, epochNumber, history>>

Settled == Phase # pc \/ todo = {}

\* Mutant of DutiesDone: the errors of settled promises are not thrown
DutiesSettled ==
  /\ pc = "duties" /\ Settled
  /\ pc' = "summary"
  /\ UNCHANGED <<table, task, list, high, epoch, todo, failed, gauges, epochNumber, history>>

DutiesDone ==
  /\ pc = "duties" /\ Settled /\ failed = {}
  /\ pc' = "summary"
  /\ UNCHANGED <<table, task, list, high, epoch, todo, failed, gauges, epochNumber, history>>

\* The epoch is stored: the loop calculates its metrics again, with no validator of high reward
Again == pc' = "duties" /\ todo' = Parts /\ failed' = {} /\ high' = {} /\ clean' = "yes"

DutiesFail ==
  /\ pc = "duties" /\ Settled
  /\ Again
  /\ UNCHANGED <<table, task, list, epoch, gauges, epochNumber, attempts, gaugeOf>>

SummaryDone ==
  /\ pc = "summary" /\ Settled /\ failed = {}
  /\ epochNumber' = epoch
  /\ pc' = "check"
  /\ UNCHANGED <<table, task, list, high, epoch, todo, failed, gauges, history>>

SummaryFails ==
  /\ pc = "summary" /\ Settled
  /\ Again
  /\ epochNumber' \in {epochNumber, epoch}
  /\ UNCHANGED <<table, task, list, epoch, gauges, attempts, gaugeOf>>

\* A new process has no gauges but the epoch of the last calculation that came to its end
Crash ==
  /\ user' = None /\ module' = None /\ other' = None
  /\ IF pc = "check" THEN /\ epochNumber' = epoch
                          /\ UNCHANGED <<pc, list, todo, failed, high, clean>>
     ELSE epochNumber' = epoch - 1 /\ list' \in Lists[task] /\ Again
  /\ UNCHANGED <<table, task, epoch, attempts, gaugeOf>>

Next ==
  \/ Attempt
  \/ Store
  \/ Merge
  \/ \E newest \in BOOLEAN : SetUser(newest) \/ SetModule(newest) \/ SetOther(newest)
  \/ QueryFails
  \/ DutiesDone
  \/ DutiesFail
  \/ SummaryDone
  \/ SummaryFails
  \/ Crash

Spec == Init /\ [][Next]_vars

\* The promises of a calculation settle, and without an error it comes to its end
Fairness == []<>(todo = {}) /\ WF_vars(DutiesDone) /\ WF_vars(SummaryDone)
FairSpec == Spec /\ Fairness

(***************************************************************************)
(* Properties.  They speak of gauges set in this calculation (Shown) from  *)
(* rows whose versions do not contradict each other (clean).               *)
(***************************************************************************)
Shown(part) == /\ pc = Phase \/ pc = "summary"
               /\ part \in Parts \ (todo \cup failed)
               /\ task \in HighRewardTasks => high # {}

Stored(e) == e \in 1 .. epoch
Gauge(o) == user[<<o, list[o]>>]
Rows(o) == {v \in Validators : Newest(epoch, v).owner = o}

InEach(v, o, Condition(_, _)) ==
  \A x \in Window(epoch) :
    Stored(x) /\ LET r == Newest(x, v) IN r.owner = o /\ r.stuck = 0 /\ Condition(x, r)

\* The sync committee of epoch x, and what its members' percents add up to
Committee(x) == {v \in Validators : Newest(x, v).sync # Null}
Size(x) == Cardinality(Committee(x))
Percents(x) == Total([v \in Committee(x) |-> Newest(x, v).sync])

\* Below the mean of the committee of its own epoch by more than the distance
BelowAverage(x, r) == r.sync * Size(x) < Percents(x) - Distance * Size(x)

Reference(o) ==
  LET c == CountTask.condition
      Condition(x, r) ==
        IF task \in DOMAIN AttestationTasks THEN AttestationCondition(c, r)
        ELSE IF task \in DOMAIN SyncTasks THEN r.sync # Null /\ (c = "bad" <=> BelowAverage(x, r))
        ELSE r.proposed = c
  IN Cardinality({v \in Validators : (high = {} \/ v \in high) /\ InEach(v, o, Condition)})

\* Every epoch of the window has the average of the last one
SteadyAverage ==
  task \in DOMAIN SyncTasks =>
    \A x \in Window(epoch) : Stored(x) => Percents(x) * Size(epoch) = Percents(epoch) * Size(x)

\* The average of the last epoch is not below the distance
AverageInReach == task \in DOMAIN SyncTasks => Distance * Size(epoch) <= Percents(epoch)

Counted == task \in Counting /\ Shown("user")

CountsRight ==
  /\ \A o \in DOMAIN list : Gauge(o) = Reference(o)
  /\ task \in OtherTasks => other = Reference(Other)

\* A count of the last epochs is the number of validators that met the condition in every one
\* of them, whatever attempts have left duplicates, a crash has cleared or a name has changed;
\* an operator without such a validator shows 0, not an older value, and no gauge keeps a
\* name that no operator of the list has.  The exceptions are those of SyncCountAsDocumented.
CountedInARow ==
  Counted /\ clean = "yes" =>
    /\ SteadyAverage /\ AverageInReach => CountsRight
    /\ \A l \in DOMAIN user : l[2] \in Names

\* The documents know no exception: a percent is compared with the average of its own epoch
\* (the code passes the average of the last one for all of them); a participation is bad below
\* the average less the distance (the code takes the absolute value of the difference); the
\* newest row of a validator is counted (the condition comes before LIMIT 1 BY); and the
\* labels of a gauge are those of the operators (only the name is looked up).  Four
\* disagreements: one behaviour breaks all four parts.
SyncCountAsDocumented ==
  \/ [](Counted /\ clean = "yes" /\ AverageInReach => CountsRight)
  \/ [](Counted /\ clean = "yes" /\ SteadyAverage => CountsRight)
  \/ [](Counted /\ SteadyAverage /\ AverageInReach => CountsRight)
  \/ [](Counted => DOMAIN user = {<<o, list[o]>> : o \in DOMAIN list})

DeltaWindow == (epoch - DeltaEpochs) .. epoch

Steady(v) ==
  \A x \in DeltaWindow :
    Stored(x) /\ LET r == Newest(x, v) IN IsUser(r) /\ Performing(r) /\ r.owner = Newest(epoch, v).owner

\* Whoever was a validator of o in the window has stayed one, and performed
SteadyOf(o) ==
  \A v \in Validators : (\E x \in DeltaWindow : Stored(x) /\ Newest(x, v).owner = o) => Steady(v)

Earned(v) ==
  Total([x \in (epoch - DeltaEpochs + 1) .. epoch |->
           Newest(x - 1, v).attReward + Newest(x, v).propReward + Newest(x, v).syncReward])

EarnedBy(o) == Total([v \in Rows(o) |-> Earned(v)])

\* n is what a validator of o earned, and at most a thousandth of them earned less
IsQuantile(n, o) ==
  /\ \E v \in Rows(o) : Earned(v) = n
  /\ 1000 * Cardinality({v \in Rows(o) : Earned(v) < n}) <= Cardinality(Rows(o))
  /\ 1000 * Cardinality({v \in Rows(o) : Earned(v) <= n}) > Cardinality(Rows(o))

Initialized(v, x) == Newest(x, v).status # "pending_initialized"

\* Balances tell what validators earned, with withdrawals put back: the deltas, their mean and
\* quantile, the balance difference and the calculation error are those the rewards add up to.
BalancesTellRewards ==
  Shown("user") /\ clean = "yes" =>
    \A o \in {o \in DOMAIN list : Rows(o) # {} /\ SteadyOf(o)} :
      /\ task = "avgDeltas" => Gauge(o) = <<EarnedBy(o), Cardinality(Rows(o))>>
      /\ task = "minDeltas" => IsQuantile(Gauge(o), o)
      /\ task = "negativeValidatorsCount" =>
           Gauge(o) = Cardinality({v \in Rows(o) : Earned(v) < 0 /\ Newest(epoch, v).slashed = 0})
      /\ task = "balance24hDifference" => Gauge(o) = EarnedBy(o)
      /\ task = "userRewards" /\ (\A v \in Rows(o) : Initialized(v, epoch - 1) /\ Initialized(v, epoch)) =>
           Gauge(o).error = 0

InOneBucket(g, S) ==
  g.ongoing + g.pending + g.withdrawPending + g.withdrawn
    = Cardinality({v \in S : Newest(epoch, v).status # "active_slashed"})

\* Every validator is in exactly one of ongoing, pending, withdrawal_pending and withdrawal_done,
\* or is slashed and still active.
EveryValidatorCounted ==
  task = "stats" /\ clean = "yes" =>
    /\ Shown("user") => \A o \in DOMAIN list : InOneBucket(Gauge(o), Rows(o))
    /\ Shown("other") => InOneBucket(other, Rows(Other))

\* The gauges of a module are the sums of those of its operators.
TotalsAgree ==
  /\ Shown("user") /\ Shown("module") /\ clean = "yes"
  /\ \A o \in Operators : Rows(o) # {} => o \in DOMAIN list
  => \A m \in Modules :
       LET members == {o \in DOMAIN list : ModuleOf[o] = m}
       IN (\E o \in members : Rows(o) # {}) =>
            /\ task = "stats" => module[m] = [f \in DOMAIN Zero |-> Total([o \in members |-> Gauge(o)[f]])]
            /\ task = "balance24hDifference" /\ (\A o \in members : SteadyOf(o)) =>
                 module[m] = Total([o \in members |-> Gauge(o)])

\* The epoch shown is never ahead of the gauges of the duties: the summary comes after them.
EpochNumberAfterDuties ==
  user # None /\ task \notin HighRewardTasks \cup DOMAIN SummaryTasks => gaugeOf >= epochNumber

=============================================================================
