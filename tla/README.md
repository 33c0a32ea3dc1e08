# Formal model of the Ethereum validators monitor

This directory holds a TLA+ model of the Ethereum validators monitor, the TLC
configurations that check it on small instances, and theorems that TLAPS proves
for every value of the constants. Paths below are relative to the repository;
`PROJECT.json` maps each definition to the source lines it stands for.

## The system

The monitor follows the beacon chain epoch by epoch. For each epoch it collects
the duties of all validators from beacon nodes, stores one summary row per
validator in ClickHouse, exports metrics to Prometheus, and sends critical
alerts to Alertmanager. It is one Node.js process, restarted when it dies. What
runs concurrently are the promises of one iteration, ClickHouse's asynchronous
`ALTER TABLE ... UPDATE`, and the beacon nodes.

| Component | State | Operations | Talks to |
| --- | --- | --- | --- |
| Inspector loop (`src/inspector`) | none between iterations | choose the epoch, wait for its last slot, process it, catch errors | all of the below |
| Epoch bookkeeping (`src/storage/clickhouse`) | table `epochs_processing`: a row per epoch, nullable `is_stored` and `is_calculated`; pending UPDATEs | `getLastProcessedEpoch`, `getLastEpoch`, `getMaxEpoch`, `getOrInitEpochProcessing`, `updateEpochProcessing` | ClickHouse |
| Summary and metadata tables | `validators_summary`, `epochs_metadata`, `validators_index` | `writeSummary`, `writeEpochMeta`, analytical queries | ClickHouse |
| Duty service (`src/duty`) | in-memory summary of the epoch and the one before | `checkAndWrite`: prefetch, five concurrent checks, metadata, rewards, writes | consensus client, registry, storage |
| Consensus client (`src/common/consensus-provider`) | latest slot with its fetch time, cached version, genesis time, forks | a request tried over all URLs; search for the next and previous block | beacon nodes, execution node |
| Block cache | headers and blocks by slot or root, with a `missed` mark | set, get, purge, clear | consensus client |
| Validators registry (`src/validators-registry`) | keys, operators, timestamp and block of the last update | `updateKeysRegistry`, `isFilled`, look-ups; three sources | Keys API, file, execution node |
| Metrics (`src/duty/*/*.metrics.ts`) | Prometheus gauges, the epoch metric | `calculate`: the tasks of the duties, then those of the summary, then `is_calculated` is set | analytical queries, registry |
| Analytical queries (`clickhouse.constants.ts`) | none; they read `validators_summary`, a `ReplacingMergeTree` | counts over the last N epochs, averages, statuses, balance differences, rewards, withdrawals | ClickHouse |
| Critical alerts (`src/common/alertmanager`) | alerts sent, by name | `send`: four rules per module | storage, Alertmanager |
| Configuration, logging, health, HTTP | constants | validation at start | - |

### What is hard in it

* A crash, or an exception caught by the loop, between any two writes. The next
  iteration starts from what the tables say and from nothing else.
* An UPDATE that ClickHouse accepted and applies later: after the poll that
  waits for it gave up, or after the process died.
* Several inserts at once, of which some fail; a streamed insert that is retried.
* Nodes that lag, stall, answer 404 for a block they do not have yet, or return
  data that is not finalized, in a different mixture on every URL and every try.
* Requests of a failed iteration that are still under way in the next one.
* Rows of attempts that failed, which stay beside the rows of the attempt that
  succeeded until ClickHouse merges them; gauges that keep what was set last.
* A registry that is replaced in several requests while keys and operators are being
  registered, from several URLs with different snapshots.
* Values with two meanings: epoch 0 is also "nothing processed", a filled registry
  is one with a timestamp, an alert is "sent" when its request was started.

The full list, with lines, is under `hazards` in `PROJECT.json`.

### What makes each part correct

* Loop and bookkeeping: no epoch is skipped, recorded as done with data missing,
  or stuck; alerts go out once and in order; the metric only moves forward.
* Consensus client: a block counts as missed only when a node said so; the latest
  slot does not go back and is not stale; unfinalized data is not used in finalized
  mode; one good node is enough to go on.
* Slot search and cache: the block found is the nearest one; a cached mark says
  what the chain says; a failed prefetch does no harm.
* Duties: a vote is credited once, at its first inclusion; rewards and
  participation are those of the right epoch.
* Registry: an update that failed half way leaves nothing a later check would use; an
  owner that is not known is a new one; every check is served in the end.
* Alerts: a condition that lasts is repeated and delivered in the end, one that grows
  is reported, a slashing is posted once.
* Metrics: a count is the number of validators that met the condition in every epoch of
  the window; balance differences tell the rewards; totals are sums; no gauge shows a
  name that is gone; the epoch shown is not ahead of the gauges.

## Modules

| Module | Models |
| --- | --- |
| `EpochProcessing` | the loop, `epochs_processing`, `checkAndWrite`, `updateEpochProcessing`, the order of writes, metrics and alerts |
| `EpochPipeline` | abstract specification: what the loop promises about epochs |
| `EpochProcessingProofs` | theorems about the loop, and that it implements the pipeline |
| `ConsensusClient` | `retryRequest`, the retrier, and the acceptance rules of each kind of request |
| `ConsensusClientProofs` | theorems about the client |
| `BlockSearch` | the search for a block in dense and sparse networks, and the block cache |
| `BlockSearchProofs` | theorems about the search and the cache |
| `DutyChecks` | `checkAll`: five concurrent checks on one summary, votes, credits, participation, the row that is written |
| `DutyChecksProofs` | theorems about votes, credits, participation and sums |
| `Registry` | `updateKeysRegistry` with its three sources, the requests to the Keys API, and the look-up of owners by the state check |
| `RegistryProofs` | theorems about the registry |
| `CriticalAlerts`, `CriticalAlertsProofs` | thresholds, rules, intervals and memory of the four alerts |
| `SummaryQueries` | the queries over `validators_summary` as sets and functions; the status of a validator |
| `DutyMetrics` | the calculation of the metrics over `SummaryQueries`, and the gauges |
| `SumProofs` | lemmas about finite sets and sums |
| `DutyMetricsProofs` | theorems about the queries and the metrics |
| `MC...` | the modules TLC is started on |

### EpochProcessing

`pc` is the `await` the loop is at; each await is one action, and everything the
code does between two awaits belongs to the action before it. The tables are
sets: `rows`, `flag` (pairs of epoch and field whose flag is 1) and `pending`
(accepted UPDATEs), `anyRows` and `fullRows` (epochs with some, and with all,
rows of `validators_summary`), `metaRows`. A crash empties what the process
holds and leaves the tables.

| Code | Actions |
| --- | --- |
| `onModuleInit`, `startLoop` | `Boot`, `StartLoop`, `Throw` (the `catch`), `NewIteration` |
| `chooseEpochToProcess` | `GetLastProcessedEpoch`, `GetLastEpoch`, `GetMaxEpoch`, `Choose` |
| `getEpochDataToProcess` | `HeaderReady`, `HeaderNotYet`, `HeaderLags` |
| `checkAndWrite` | `CheckAll`, `CheckAllFails`, `InsertOk`, `InsertFails`, `InsertSummaryOnRetry`, `WritesSettled` |
| `updateEpochProcessing` | `GetOrInit`, `AlterUpdate`, `PollSeesUpdate`, `PollGivesUp` and their failures; `ApplyMutation` is ClickHouse |
| registry, metrics, alerts as the loop sees them | `FillRegistry`, `CalculateMetrics`, `SendAlerts` and their failures |
| environment | `Crash`, `ChainAdvance` |

The initial states are a first start on an empty database or on one an older
version filled (`InitCold`), and a restart after some epochs (`InitWarm`). Two history
variables remember what the properties need: `start`, which of the two it was, and
`retried`, the epochs whose summary insert was repeated after its stream had been consumed
in part. What is false after a first start is claimed after a warm start only
(`start = "warm"`), and the claim without the condition has a run that refutes it.

### ConsensusClient

One request at a time: `url` and `tries` are the loop over `apiUrls` and the
executions of the callback, `err` the error remembered from the URL before.
`Rejected` and `Resolved` are the two callbacks of `retryRequest` with
the rules of `getBlockHeader`, `getBlockInfo`, `getSyncCommitteeInfo` and the
requests without rules; `LatestRefused` and `LatestResolved` are those of
`getLatestSlotHeader`. Nodes change state at any time. `fetchTime` is abstracted
to "in the last 7 minutes" or not, which is all the code asks of it.
Requests of the code that run concurrently share only `latestSlot`, which only
`getLatestSlotHeader` touches, and the loop awaits that one alone; so one request
at a time loses nothing here. The cache they also share is in `BlockSearch`.

### BlockSearch

A search is one of three: for the header an epoch is judged by ("state",
`getSlotHeaderOrPreviousIfMissedByParentRootHash`), for the root its duties depend
on ("root", `getDutyDependentRoot`), and the same for the head of the chain without
the cache ("fresh"). Each request is one action: `GetTarget`, `GetNext` and
`GetPrevious` (one round of the dense searches each), `GetParent`, and for the
sparse search `GetLastNotMissedSlot`, `GetInfo`, `GetNextBlockTime`, `GetWalkNext`
and `GetWalkPrevious`. `RequestFails` ends a search anywhere. `chain` is the set of
slots that have a block; a block, its header and its root stand for its slot.

The cache is four sets: slots whose header or block is kept, roots whose header is
kept, and slots marked as missed. `PurgeOld` and `ClearCache` are its operations of
the same name; `OtherHeader` and `OtherInfo` are answers to the requests of the
prefetch, of other duties and of iterations that already failed, which arrive at
any time. `network` is `SPARSE_NETWORK_MODE`; `nodes` says whether a request may be
answered by a node that is behind the one that answered before.

### DutyChecks

One epoch, processed until it succeeds and again after that. `atts` is the chain: the
attestations in the order of its blocks, chosen at the start and never changed. The
rows of the in-memory summary are functions of epoch and validator: `happened`
(`att_happened`, which may be undefined), `delay`, `flags`; `credits` says which
attestation brings which flag of which validator (`blocks_attestations`).

| Code | Actions |
| --- | --- |
| `checkAll`, `allSettled` | `CheckAll`, `CheckFails`, `AllSettled` |
| `AttestationService.check` | `LoadCommittees` (each epoch), `ProcessAttestation` (each attestation; the code yields between them), `AttestationCheckEnds` |
| state, sync, proposals, withdrawals | `StateCheck`, `SyncCheck`, `ProposeCheck`, `WithdrawalsCheck`: each writes after its last request, without yielding in between what matters here |
| `fillCurrentEpochMetadata`, `AttestationRewards.calculate` | `FillMetadata`, `CalculateRewards` |
| the writes, the `catch` of the loop | `Write`, `WriteFails`, `Caught` |

Abstractions: aggregation bits and committee offsets are the set of voters they select;
three comparisons of roots are one number, how far a vote agrees with the chain;
increments that are added up are the set of validators they are added up for; a reward is
the set of flags it pays for. The properties compare the rows with definitions over the
whole chain (`Included`, `ChainFlags`, `IsFirst`), which know nothing of windows,
epochs of rows or processing order.

### Registry

`keysMap`, `operatorsMap` and the nonce belong to the source, `operators` and
`lastTimestamp` to the service. The chain is a sequence of blocks with a nonce; a key is
registered when the nonce passes it, and `Owner` gives its operator. Every request of the
Keys API source is a step (`ReadModules`, `ReadOperators`, `OperatorsBatch`,
`OperatorsEnd`, `ReadKeys`, `KeysBatch`, `KeysEnd`), so blocks (`NewBlock`), snapshots of
the API (`Snapshot`) and failures fall between any two batches; `RequestFails` is the loop
over URLs. The Lido source (`StorageUpdate`, `FindAll`) and the file (`FileUpdate`) share
the rest: `SourceUpdated`, `UpdateTimestamp`, and `StateRows`, the look-up of every owner
by the state check. A deployment is a source with its number of URLs.

The properties make one exception, recorded by the history variable `behind`: with several
URLs an older answer can follow a newer one. It is real: a nonce that was recorded then
belongs to newer data than the maps.

### CriticalAlerts

One of the four alerts is followed (`kind`), for the operators of one module. `stats` is
what the queries of this epoch say, as fractions; `since` and `sent` are the entry of
`sentAlerts`. `Fire` makes the entry whether the post is delivered or not, because the
request is not awaited. `SendCaught` is every way a round ends before the turn of this
alert: data older than an hour, no URL, a failed query, an exception. Time is counted up
to the longest interval. `config` holds the three settings of the thresholds; every
combination is explored.

### SummaryQueries and DutyMetrics

`table[e]` is the sequence of what the attempts at epoch `e` inserted. A query first
filters the versions of a row and then takes one of those left (`Limit1`, for
`LIMIT 1 BY`): the newest or the oldest, as the parts happen to be read. `Merge`, at any
time, leaves the newest version. Each query is an operator with the name it has in
`clickhouse.constants.ts`; averages are fractions.

`DutyMetrics` follows one task through the epochs: `Attempt` (an attempt that fails after
some rows), `Store`, then the steps that set its gauges (`SetUser`, `SetModule`,
`SetOther`, each after its own query), `QueryFails`, and the ends of the two phases
(`DutiesDone`, `SummaryDone` and their failures). A failure repeats the calculation of the
stored epoch, with no validator of high reward (`Again`). `Crash` loses the gauges. Labels
carry the operator and the name it had when the gauge was set.

The references (`Reference`, `Earned`, `InOneBucket`) look at the newest row of each epoch
and know nothing of joins, windows or groups. `Reference` counts, for the sync committee, the
validators below the mean of the committee in each epoch (`BelowAverage`), whatever the query
compares with. Rows are what the beacon state would say:
`Row` computes the status with `GetValidatorStatus`, and the balance from the rewards of
the rows, the votes of an epoch being paid in the next. Only the counts of the last epoch also
set a gauge of the other validators (`OtherTasks`).

`CountedInARow` makes three exceptions, and `documented` shows that each is a disagreement with
what is written of these gauges: the versions of a row agree (`clean`), as a filter before
`LIMIT 1 BY` counts an outdated version until the merge; every epoch of the window has the same
average of the sync committee (`SteadyAverage`), as the code compares them all with the last
one; and this average is not below the distance (`AverageInReach`), as the code takes an absolute
value. A label is claimed to have the name of some operator of the list; that it has the name of its
own operator is refuted by two operators that swap names.

What balances tell is
claimed of each operator whose validators have been its own, and performing, through the
whole window (`SteadyOf`); for the calculation error they must also have left
`pending_initialized`, a status the query of the rewards leaves out and those of the deltas
keep (`clickhouse.constants.ts:556`, `3`).

## Runs

| Run | Bounds | Shows |
| --- | --- | --- |
| `loop` | epochs 0 to 3, `DB_MAX_RETRIES` 10, empty, legacy and warm databases; after a first start the chain ends at epoch 2 | `TypeOK`, `CalculatedImpliesStored`, `StoredHasMetadata`, `CompleteUnlessRetried`, `AlertsInOrder`, `NoEpochSkipped`, `GaugeFollowsStorage`, `ImplementsPipeline`, `EveryEpochProcessed` |
| `first_start` | epochs 0 to 2, the same retries and databases | `FirstStartRecovers` is violated: one behaviour skips `START_EPOCH` and leaves a partly processed epoch for ever |
| `lost_rows` | the same, `DB_MAX_RETRIES` 10 | `StoredIsComplete` is violated |
| `client` | 2 URLs, 2 tries each, slots 0..2, epochs of one slot | `TypeOK`, `OnlyFinalizedUsed`, `LatestNeverGoesBack`, `LatestIsFresh`, `MissedWasDenied`, `HeadIsReached` |
| `search` | slots 0..4 (0..3 with lagging nodes), every set of missed ones, depth 1, epochs of one slot | `TypeOK`, `SearchIsExact`, `DeepErrorIsJustified`, `MissedMarkIsTrue` |
| `depth` | the same slots and depth | `ThrowsAtTheDepth` is violated |
| `duty_checks` | 3 validators (regular, slashed, new), 2 attestations, epochs of 2 slots | `TypeOK`, `VotesAsOnChain`, `CreditedToTheFirst`, `ParticipationAsOnChain`, `RowTellsPreviousVote`, `CountedOnce` |
| `slashed_vote` | the same | `SlashedHasNoVote` is violated |
| `registry` | blocks 0 to 3, 2 keys of 2 operators, Keys API with 1 and 2 URLs, Lido, file | `TypeOK`, `FreshKeys`, `MissingOwnerIsNew`, `RowsHaveOperators`, `ChecksServed` |
| `alerts` | 2 operators, up to 3 readings of each kind, intervals of 1 and 3, all settings | `TypeOK`, `LastingIsRepeated`, `IncreaseIsReported`, `SlashingPostedOnce`, `DeliveredAgain` |
| `metrics` | 29 tasks, 2 validators, 2 operators of a module and the rest of the chain, up to 3 epochs, 1 failed attempt, windows of 2 | `CountedInARow`, `BalancesTellRewards`, `EveryValidatorCounted`, `TotalsAgree`, `EpochNumberAfterDuties` |
| `documented` | bad sync participation over windows of 2, 4 epochs, averages of 10, 50 and 90, a distance of 21, names that are swapped, 1 failed attempt | `SyncCountAsDocumented` is violated: one behaviour breaks each of its four parts |

In `metrics` the tasks are those of `calculate` of every duty. The counting tasks, the statuses, the
deltas, the balance difference and the rewards have a reference; the averages of the sync committee
(`avgSyncPercent`) and the withdrawals (`withdrawalsStats`) have none and are only under
`EpochNumberAfterDuties`. `documented` is quiet but for what it is about: no query fails, the failed
attempt and the swap come before the last epoch (`SyncQuiet`).

The chain is bounded by `LastEpoch`, `MaxSlot` and `NumAtts`, and after a first start by
`ColdIsShort`; nothing else is. Three epochs
after the start are enough for every relation the loop looks at (last processed,
last row, the one it works on, the one after); the proofs then remove the bound.
Two URLs are enough for an error remembered from the URL before.
Five slots with depth 1 hold a target with more missed slots on either side than
the search accepts, and a block behind them. Epochs of one slot make every slot a
target. Two attestations are enough for a vote included twice, in either epoch and with
every combination of delays and flags, and for an old one that is skipped; epochs of
two slots with limits of two make each flag late, and the Deneb rule is in force
for the blocks of the second epoch only.
Two keys registered apart, by two operators, are enough for a map that is complete,
outdated or empty and for an owner that appears between two requests. Windows of two epochs
in a database of three have an epoch before the window, one that both windows share and one
that is missing at the start; two validators can have one operator, two, or one and the
rest of the chain; the rows an epoch may have are listed by task in `MCDutyMetrics`
(every status, stuck validators, rewards of both signs, withdrawals), and validators are
symmetric. Intervals of 1 and 3 tell the two rules of an alert apart.

The violated properties state what a comment, the README or a message of the
code says; `findings` in `PROJECT.json` quotes each line. `FirstStartRecovers` and
`SyncCountAsDocumented` are disjunctions of temporal statements: the behaviour TLC finds
violates every one of them. Other differences were met and
have no run of their own. In the loop, the client and the registry:

* a registry refused as too old was already stamped, so the next iteration takes it for
  filled and calculates the metrics of a stored epoch without operators
  (`registry.service.ts:39`);
* the age that is checked is that of the status, read after the keys: new keys between the
  two requests are missing although the check passes (`registry.service.ts:40`);
* "Get block header or previous head if missed", but after a node that is behind denied the
  target the block found may be later than asked for (`consensus-provider.service.ts:216`);
* the sparse search divides by 12 seconds whatever `CHAIN_SLOT_TIME_SECONDS` is
  (`consensus-provider.service.ts:571`); `MissedMarkIsTrue` fails for another slot time;
* with `START_EPOCH` 0 on an empty database the first epoch processed is 1, because
  0 also encodes "no row" (`inspector.service.ts:151`);
* "1 (means that request will be executed once)" (README, `CL_API_MAX_RETRIES`), but
  a failing request is executed twice on each URL
  (`consensus-provider.service.ts:370`);
* the maps by block are filled for 32 slots whatever `FETCH_INTERVAL_SLOTS` is
  (`summary.service.ts:127`); with another value the attestation check fails for ever;
* a validator with two proposals in an epoch has one row: the second overwrites the
  first (`propose.service.ts:34`).

In metrics and alerts:

* "CriticalMissedProposes ... every 6h" (README), but the alert is repeated only when the
  share of missed proposals has grown since the last one (`CriticalMissedProposes.ts:64`);
* gauges by module are set for the modules in the result only, and `remove()` for an empty
  result is never reached (`sync.metrics.ts:44`): a module without sync members keeps its
  last average;
* `operatorsIdentifies` is 0 for every operator, as its rows have no module
  (`state.metrics.ts:50`);
* the README calls the rewards of an operator averages, the query sums them
  (`clickhouse.constants.ts:556`);
* the withdrawals of validators in `withdrawal_done` are added back in the 24-hour difference of an
  operator and not in that of its module (`clickhouse.constants.ts:307`, `354`), which is why
  `TotalsAgree` speaks of validators that stay active.

### Fairness

* Loop: weak fairness of the process's own steps (every call ends: the clients
  have timeouts and every retry loop is bounded), weak fairness of each accepted
  UPDATE (ClickHouse applies mutations), and from some point on no more faults
  (`<>[][~Fault \/ Progress]_vars`: waiting for a header that is not there yet is a step of
  the loop, although a failed request at that point leads to the same state).
  What the faults left behind by then is arbitrary.
* Client: a request under way goes on (`CL_API_GET_RESPONSE_TIMEOUT`); the loop asks
  for the latest slot again and again; time passes; and one node, the last of the
  list, is up from some point on and follows the chain. The others need not.
* Registry: the loop asks for updates, the URLs take new snapshots, the steps of an update go
  on, and from some point on requests do not fail. An update that ends in an error of its own
  (an owner that is not known) is a continuation, not a failure.
* Alerts: epochs and time go on, rounds do not fail for ever and Alertmanager does
  not refuse for ever; a round that can post infinitely often is delivered infinitely often.
* Metrics: the promises of a calculation settle, and one whose promises settled without an error
  comes to its end. No property of `DutyMetrics` that holds needs it: that calculations end is
  `EveryEpochProcessed`.

## Proofs

All theorems hold for every value of the constants that satisfies the
assumptions of the module (`StartEpoch` in the chain, at least one try, at least
one URL, non-empty epochs, windows of at least one epoch, a distance and percents that are natural
numbers, finite sets of validators and operators, a row without a proposal or a place in the sync committee has no reward for it).

`EpochProcessingProofs`. The type invariant is proved first, with one conjunct
the type needs: at a working step the epoch exists (`TypeInv`). `TableInv`
adds what relates tables and process: flags and pending UPDATEs belong to rows, a
calculated flag to a stored epoch with metadata (`FlagsInv`), and what each `pc`
knows about the epoch it works on (`ProcessInv`); it is needed because an UPDATE of
an earlier iteration can be applied at any step. `AlertInv` relates the alerts to the
epoch chosen. `WarmInv` says that all epochs below the chosen one are
processed; it holds after a warm start only, as `first_start` shows, and `start` never changes
(`StartStays`). `CompleteUnlessRetried` needs what each write step knows of the inserts that are
done: a stored epoch has all its rows unless its insert was retried, for every
`DB_MAX_RETRIES`; `lost_rows` shows that the condition is needed. From these
follow `TypeCorrect`, `CalculatedOnlyAfterStored`, `StoredOnlyWithMetadata`,
`AlertsSentInOrder`, `NoEpochIsSkipped`, `GaugeOnlyMovesForward`,
`StoredIsCompleteUnlessRetried` and `LoopImplementsPipeline`: after a warm start each step of the
loop is a step of `EpochPipeline` or leaves it unchanged. `WarmLoopIsPipeline` says the
same as an implication between specifications, `Spec /\ start = "warm" => Pipeline!Spec`.

`ConsensusClientProofs`. `SeenInv` relates `latestSlot` to every slot ever reported:
none is higher, and when it is recent it was first reported recently. `DeniedInv`: a
remembered 404 was an answer to this request. From these follow
`ClientTypeCorrect`, `LatestSlotNeverGoesBack`, `LatestSlotIsFresh`,
`MissedOnlyWhenDenied` and `OnlyFinalizedAnswersUsed`.

`BlockSearchProofs`. `WalkInv` says what each `pc` knows of slot, depth and the blocks
found; `MarkInv`, that marks are true and the slots of a walk have blocks, which
needs slots of 12 seconds; `ReachInv`, that some block at or after the target is
within the node's head, and `PlaceInv`, that no block lies between the target and
the slot the search is at: both need a node that does not go back. From these
follow `SearchTypeCorrect`, `MissedMarksAreTrue` and `SearchesAreExact`; without the
two extra assumptions of the last it is false (see the differences above). `DepthInv`
relates the rounds a search has left to the distance it is from its target, in both
directions; with `PlaceInv` it gives `DeepErrorsAreJustified`: no round is lost to the cache
or to another search, so a search that gives up has met the missed slots it complains of.

`DutyChecksProofs`. `SettledInv`: outside `checkAll` nothing runs. `SumInv`: what a check
adds up is zero until it settles and complete once it settled well. `VoteInv` is the
heart: while the attestation check is under way, and until the rewards are
calculated, the rows and credits are exactly what the attestations `1 .. done` say. It is
needed because the properties speak of the end of the check only. `KeptAreOfTheEpochs`
shows that the window of blocks and the skip of older slots together keep
exactly the attestations of the two epochs. From these follow `ChecksTypeCorrect`,
`SumsCountedOnce`, `VotesAreAsOnChain`, `CreditsAreOfTheFirst`,
`ParticipationIsAsOnChain` and `RowsTellPreviousVote`.

`RegistryProofs`. The invariant relates the maps to the block they were read at and to the
nonce: what is recorded covers the keys of some block not newer than the answers so far
(the service's part), and while an update is under way what has been streamed in is a part
of a snapshot between the nonce read first and the present (the part of each `pc`). It is
needed because a nonce is read before the data it is recorded for. From these follow
`TypeCorrect`, `FreshKeysHold`, `MissingOwnersAreNew` and `RowsHaveOperatorsHolds`.

`CriticalAlertsProofs`. None of the safety properties is inductive: they speak of the last alert that
was posted, while `sendRule` decides by the entry of `sentAlerts`, which a restart clears. `MemoryInv`
relates the two: the entry is not younger than the last alert, and it says what the alert said unless
there is no entry, which counts as one of long ago. A forgotten alert can make the next one too early,
never too late. `SlashedStay` (counts of slashings do not shrink) is what the difference of two epochs
needs. From these follow `AlertsTypeCorrect`, `LastingAlertsAreRepeated`, `IncreasesAreReported` and
`SlashingsArePostedOnce`, for all operators, readings (fractions of natural numbers), thresholds and
intervals.

`SumProofs`. What a sum over a set is cannot be proved by the library's induction, whose
theorems take an operator. It is proved by looking at a least counterexample instead:
`WFMin` speaks of sets, and a set of finite sets has one of least cardinality (`LeastSet`).
`FoldOfSize` shows that the recursion of the fold has a solution on the subsets of a finite
set, `SumEquation` that the sum takes off one element; from it follow that a sum takes off
any element (`SumRemove`), adds terms (`SumAdd`), unites sets (`SumUnion`), leaves zeros out
(`SumWithoutZeros`), adds up by groups (`SumByGroup`) and under other names (`SumRenamed`), and
that changes add up to the difference of the ends (`SumOfChanges`).

`DutyMetricsProofs`. `CalcInv` is the type of a calculation and its epochs, `ShownInv` that the
gauges by operator are those of the epoch before the duties are done; they give
`EpochNumberFollows`. `TableInv` says what rows are, which epochs have them and that every
validator has one in an epoch that is stored; `TableStep` adds that the newest rows of stored
epochs never change, whatever is merged or appended. `ShownStays` splits a step: a gauge that is
shown was just set from versions that agree, or was shown before and kept. Where versions agree,
`LIMIT 1 BY` takes the newest row whichever part it reads (`Selecting`), so that the result of a
query is a fact about newest rows, and stays one:

* `CountInv`: a gauge that counts is the number of validators whose newest rows satisfied the
  condition of the query in every epoch of the window. The condition compares with the average of
  the last epoch; `EqualFractions` and `ConditionOfEpoch` show that it says the same as that of
  the epoch of the row while the average is steady and in reach. With `ReferenceIsMet`
  this gives `CountsAreInARow`.
* `StatsInv`: the gauges of the statuses are the counts over the newest rows of the epoch, of an
  operator, of a module, of the rest. Every status is in one of the counts (`OneBucket`), which
  gives `ValidatorsAreCounted`.
* `BalanceInv`: the balance of a newest row is that of the epoch before with its rewards, less the
  withdrawals. Over a window the changes add up (`EarnedIs`). `RewardInv`: the mean, the quantile,
  the negative count, the difference and the error are those of `Earned`, for every operator that
  is steady. The join of the withdrawals has one row for each of its validators (`DeltasAre`), the
  withdrawals of another operator are none (`PaidIs`), and the rows a reward is missing from
  have none (`ColumnSum`). It gives `BalancesFollowRewards`.
* `TotalsAreSums` follows from `StatsInv` and `RewardInv` by adding up by operator (`ByOperator`): the
  queries by module never look at operators, and join withdrawals without them.

The proofs changed the statements they began with. That the balances tell the rewards was claimed
for validators that were all steady; it holds operator by operator. The error of the rewards was
claimed to be 0 for every status the deltas keep, which `pending_initialized` refutes.

Only model-checked: the liveness properties (`EveryEpochProcessed`, `HeadIsReached`,
`ChecksServed`, `DeliveredAgain`), which need fairness and are out of the prover's reach. Every
safety property the runs check is stated by a theorem.

## Plan

Done: the loop, its abstract specification, the client, the search for blocks with
the cache, the checks of an epoch, the registry, the alerts, the queries and the metrics.
Next, in this order:

1. The prefetch: chunks, failures nobody handles, and what still runs when an
   iteration has failed; `getCanonicalProposerDuties` and its dependent root.
2. Rewards and penalties as functions (attestations, sync, proposals).
3. An abstract specification of `checkAll` for `EpochProcessing`: its `CheckAll` step
   implemented by `DutyChecks`.

The theorems on what is modelled are complete but for liveness; each of these brings its own.

## Not modelled

Listed with reasons under `components` in `PROJECT.json`: wiring, logging, health and
HTTP bootstrap (no state), configuration validation (constants and their
assumptions), the average rewards of the chain and the reward gauges by duty (columns
copied from a query), SSZ decoding of beacon states and the wording of messages.
