--------------------------- MODULE SummaryQueries ---------------------------
(***************************************************************************)
(* The queries over validators_summary, as sets and functions.             *)
(*                                                                         *)
(* table[e] is the sequence of what the attempts at epoch e have inserted: *)
(* functions from validators to rows.  ReplacingMergeTree keeps the newest *)
(* row of an epoch and a validator, but only once it merges, so a query    *)
(* meets several versions of a row; LIMIT 1 BY takes one of those that     *)
(* satisfy its WHERE, in the order in which the parts are read.            *)
(*                                                                         *)
(* The columns are numbers, NULL is Null.  Comparisons with NULL are false *)
(* in SQL; here Null is below every value the conditions compare with.     *)
(* A result is a function on the groups for which there is a row.          *)
(***************************************************************************)
EXTENDS Integers, Sequences, FiniteSets, FiniteSetsExt

CONSTANTS
  Validators,
  Operators,  \* node operators of all modules
  Other,      \* owner of a row without val_nos_id
  ModuleOf    \* module of every operator

ASSUME OwnersAssumption == Other \notin Operators /\ DOMAIN ModuleOf = Operators
ASSUME FiniteAssumption == IsFiniteSet(Validators) /\ IsFiniteSet(Operators)

VARIABLE table

Null == -1
Owners == Operators \cup {Other}
Modules == {ModuleOf[o] : o \in Operators}

(***************************************************************************)
(* Selection                                                               *)
(***************************************************************************)
Versions(e) == IF e \in DOMAIN table THEN table[e] ELSE <<>>

\* Rows of an epoch, all versions of them
AllRows(e) == UNION {{Versions(e)[p][v] : v \in DOMAIN Versions(e)[p]} : p \in DOMAIN Versions(e)}

\* where has the rows that satisfy the WHERE
Matching(e, v, where) ==
  {p \in DOMAIN Versions(e) : v \in DOMAIN Versions(e)[p] /\ Versions(e)[p][v] \in where}

Selected(e, where) == {v \in Validators : Matching(e, v, where) # {}}

\* LIMIT 1 BY epoch, val_id
Limit1(e, where, newest) ==
  [v \in Selected(e, where) |->
     LET p == Matching(e, v, where) IN Versions(e)[IF newest THEN Max(p) ELSE Min(p)][v]]

Owned(rows, o) == {v \in DOMAIN rows : rows[v].owner = o}
Present(rows) == {rows[v].owner : v \in DOMAIN rows}
PresentModules(rows) == {ModuleOf[o] : o \in Present(rows)}
OfModule(rows, m) == {v \in DOMAIN rows : ModuleOf[rows[v].owner] = m}

IsUser(r) == r.owner # Other /\ r.stuck = 0
UserRows(e) == {r \in AllRows(e) : IsUser(r)}

\* sum(...) over the rows of a group
Total(f) == MapThenSumSet(LAMBDA x : f[x], DOMAIN f)

(***************************************************************************)
(* Validators that satisfy a condition in each of the last n epochs        *)
(***************************************************************************)
\* Mutant of LastEpochs: the window begins one epoch earlier
LastEpochsAndOne(e, n) == (e - n) .. e

\* epoch > e - n AND epoch <= e
LastEpochs(e, n) == (e - n + 1) .. e

\* sel has the rows selected in each epoch of the window
CountLastN(sel, n, indexes) ==
  LET CountFail(v, o) == Cardinality({x \in DOMAIN sel : v \in Owned(sel[x], o)})
      Found(o) == {v \in Validators : (indexes = {} \/ v \in indexes) /\ CountFail(v, o) = n}
  IN [o \in {o \in Owners : Found(o) # {}} |-> Cardinality(Found(o))]

AttestationCondition(c, r) ==
  CASE c = "perfect"       -> /\ r.att.happened = 1 /\ r.att.delay = 1
                              /\ r.att.head = 1 /\ r.att.target = 1 /\ r.att.source = 1
    [] c = "missed"        -> r.att.happened = 0
    [] c = "delayGtOne"    -> r.att.happened = 1 /\ r.att.delay > 1
    [] c = "delayGtTwo"    -> r.att.happened = 1 /\ r.att.delay > 2
    [] c = "invalidHead"   -> r.att.happened = 1 /\ r.att.head = 0
    [] c = "invalidTarget" -> r.att.happened = 1 /\ r.att.target = 0
    [] c = "invalidSource" -> r.att.happened = 1 /\ r.att.source = 0
    [] c = "headZero"      -> r.att.head = 0
    [] c = "targetZero"    -> r.att.target = 0
    [] c = "sourceZero"    -> r.att.source = 0
    [] c = "twoInvalid"    -> r.att.head + r.att.target + r.att.source = 1

AttestationLastN(e, n, indexes, c, newest) ==
  LET where(x) == {r \in AllRows(x) : AttestationCondition(c, r) /\ r.stuck = 0} IN
  CountLastN([x \in LastEpochs(e, n) |-> Limit1(x, where(x), newest)], n, indexes)

\* is_sync is a sync_percent that is not Null
Average(rows) == IF DOMAIN rows = {} THEN <<0, 1>>
                 ELSE <<Total([v \in DOMAIN rows |-> rows[v].sync]), Cardinality(DOMAIN rows)>>

SyncRows(e, where, newest) == Limit1(e, {r \in where : r.sync # Null}, newest)

Restricted(rows, S) == [v \in S |-> rows[v]]

OperatorSyncAverages(e, newest) ==
  LET rows == SyncRows(e, UserRows(e), newest) IN
  [o \in Present(rows) |-> Average(Restricted(rows, Owned(rows, o)))]

UserSyncAverages(e, newest) ==
  LET rows == SyncRows(e, UserRows(e), newest) IN
  [m \in PresentModules(rows) |-> Average(Restricted(rows, OfModule(rows, m)))]

OtherSyncAverage(e, newest) == Average(SyncRows(e, {r \in AllRows(e) : r.owner = Other}, newest))

ChainSyncAverage(e, newest) == Average(SyncRows(e, AllRows(e), newest))

Abs(x) == IF x < 0 THEN -x ELSE x

\* The average is a fraction: both sides are multiplied by its denominator
GoodSync(r, avg, distance) == r.sync * avg[2] >= avg[1] - distance * avg[2]
BadSync(r, avg, distance) == r.sync * avg[2] < Abs(avg[1] - distance * avg[2])

SyncCondition(c, r, avg, distance) ==
  r.sync # Null /\ IF c = "good" THEN GoodSync(r, avg, distance) ELSE BadSync(r, avg, distance)

SyncLastN(e, n, indexes, c, avg, distance, newest) ==
  LET where(x) == {r \in AllRows(x) : SyncCondition(c, r, avg, distance) /\ r.stuck = 0} IN
  CountLastN([x \in LastEpochs(e, n) |-> Limit1(x, where(x), newest)], n, indexes)

\* is_proposer is a block_proposed that is not Null
Proposes(e, indexes, proposed, newest) ==
  LET where(x) == {r \in AllRows(x) : r.proposed = proposed /\ r.stuck = 0} IN
  CountLastN([x \in LastEpochs(e, 1) |-> Limit1(x, where(x), newest)], 1, indexes)

(***************************************************************************)
(* Status                                                                  *)
(***************************************************************************)
FarFuture == 99

GetValidatorStatus(val, e) ==
  CASE val.activation > e -> IF val.eligibility = FarFuture THEN "pending_initialized"
                             ELSE "pending_queued"
    [] val.activation <= e /\ e < val.exit ->
         IF val.exit = FarFuture THEN "active_ongoing"
         ELSE IF val.slashed = 1 THEN "active_slashed" ELSE "active_exiting"
    [] val.exit <= e /\ e < val.withdrawable ->
         IF val.slashed = 1 THEN "exited_slashed" ELSE "exited_unslashed"
    [] OTHER -> IF val.effective # 0 THEN "withdrawal_possible" ELSE "withdrawal_done"

Leaving(r) == r.status \in {"active_exiting", "exited_unslashed", "exited_slashed"}

\* Mutant of WithdrawPending: a validator that is exiting is not counted
NotExiting(r) == \/ r.status \in {"exited_unslashed", "exited_slashed"}
                 \/ r.status = "withdrawal_possible" /\ r.balance # 0

WithdrawPending(r) == \/ Leaving(r)
                      \/ r.status = "withdrawal_possible" /\ r.balance # 0

StatusCounts(rows, S) ==
  LET Count(P(_)) == Cardinality({v \in S : P(rows[v])}) IN
  [ongoing |-> Count(LAMBDA r : r.status = "active_ongoing"),
   pending |-> Count(LAMBDA r : r.status \in {"pending_queued", "pending_initialized"}),
   slashed |-> Count(LAMBDA r : r.status \in {"active_slashed", "exited_slashed"} \/ r.slashed = 1),
   withdrawPending |-> Count(WithdrawPending),
   withdrawn |-> Count(LAMBDA r : \/ r.status = "withdrawal_done"
                                  \/ r.status = "withdrawal_possible" /\ r.balance = 0),
   stuck |-> Count(LAMBDA r : r.stuck = 1)]

UserNodeOperatorsStats(e, newest) ==
  LET rows == Limit1(e, {r \in AllRows(e) : r.owner # Other}, newest) IN
  [o \in Present(rows) |-> StatusCounts(rows, Owned(rows, o))]

\* Mutant of UserValidatorsSummaryStats: stuck validators are left out, as everywhere else
WithoutStuck(e, newest) ==
  LET rows == Limit1(e, UserRows(e), newest) IN
  [m \in PresentModules(rows) |-> StatusCounts(rows, OfModule(rows, m))]

UserValidatorsSummaryStats(e, newest) ==
  LET rows == Limit1(e, {r \in AllRows(e) : r.owner # Other}, newest) IN
  [m \in PresentModules(rows) |-> StatusCounts(rows, OfModule(rows, m))]

OtherValidatorsSummaryStats(e, newest) ==
  LET rows == Limit1(e, {r \in AllRows(e) : r.owner = Other}, newest)
      counts == StatusCounts(rows, DOMAIN rows)
  IN [f \in DOMAIN counts \ {"stuck"} |-> counts[f]]

(***************************************************************************)
(* Balances                                                                *)
(***************************************************************************)
Statuses == {"pending_initialized", "pending_queued", "active_ongoing", "active_exiting", "active_slashed",
             "exited_unslashed", "exited_slashed", "withdrawal_possible", "withdrawal_done"}
PerfStatuses == {"active_ongoing", "active_exiting", "active_slashed", "pending_initialized"}
NotDone == Statuses \ {"withdrawal_done"}

\* Rows with a withdrawal in the last d epochs
Paid(e, d, statuses, newest) ==
  [x \in LastEpochs(e, d) |->
     Limit1(x, {r \in UserRows(x) : r.withdrawn > 0 /\ r.status \in statuses}, newest)]

\* Epochs in which v was withdrawn from while o owned it
Withdrawals(paid, v, o) == {x \in DOMAIN paid : v \in Owned(paid[x], o)}

Withdrawn(paid, v, o) == Total([x \in Withdrawals(paid, v, o) |-> paid[x][v].withdrawn])

Performing(r) == r.status \in PerfStatuses
NotQueued(r) == r.status # "pending_queued"

\* Change of the balance over d epochs.  Withdrawals are joined by validator: a validator is
\* there once for each operator that had some of it, or once without
Deltas(e, d, newest) ==
  LET curr == Limit1(e, {r \in UserRows(e) : Performing(r)}, newest)
      prev == Limit1(e - d, {r \in UserRows(e - d) : Performing(r)}, newest)
      paid == Paid(e, d, PerfStatuses, newest)
      By(v) == {o \in Operators : Withdrawals(paid, v, o) # {}}
      Joined == {y \in (DOMAIN curr \cap DOMAIN prev) \X Owners :
                   y[2] \in By(y[1]) \/ (By(y[1]) = {} /\ y[2] = Other)}
  IN [y \in Joined |-> [owner |-> curr[y[1]].owner, slashed |-> curr[y[1]].slashed,
                        amount |-> curr[y[1]].balance - prev[y[1]].balance + Withdrawn(paid, y[1], y[2])]]

AvgValidatorBalanceDelta(e, d, newest) ==
  LET deltas == Deltas(e, d, newest) IN
  [o \in Present(deltas) |-> <<Total([y \in Owned(deltas, o) |-> deltas[y].amount]),
                               Cardinality(Owned(deltas, o))>>]

\* quantileExact: the element at the truncated position
ValidatorQuantile0001BalanceDeltas(e, d, newest) ==
  LET deltas == Deltas(e, d, newest)
      Below(o, n) == Cardinality({y \in Owned(deltas, o) : deltas[y].amount < n})
      Position(o) == Cardinality(Owned(deltas, o)) \div 1000
  IN [o \in Present(deltas) |->
        Max({n \in {deltas[y].amount : y \in Owned(deltas, o)} : Below(o, n) <= Position(o)})]

\* The condition on single validators, written as HAVING, is evaluated as a WHERE
ValidatorsCountWithNegativeDelta(e, d, newest) ==
  LET deltas == Deltas(e, d, newest)
      Found(o) == {y \in Owned(deltas, o) : deltas[y].amount < 0 /\ deltas[y].slashed = 0}
  IN [o \in {o \in Operators : Found(o) # {}} |-> Cardinality(Found(o))]

OperatorBalance24hDifference(e, d, newest) ==
  LET curr == Limit1(e, {r \in UserRows(e) : NotQueued(r)}, newest)
      prev == Limit1(e - d, {r \in UserRows(e - d) : NotQueued(r)}, newest)
      Both(o) == Owned(curr, o) \cap Owned(prev, o)
      paid == Paid(e, d, Statuses, newest)
      Change(v, o) == curr[v].balance - prev[v].balance + Withdrawn(paid, v, o)
  IN [o \in {o \in Operators : Both(o) # {}} |-> Total([v \in Both(o) |-> Change(v, o)])]

TotalBalance24hDifference(e, d, newest) ==
  LET curr == Limit1(e, {r \in UserRows(e) : NotQueued(r)}, newest)
      prev == Limit1(e - d, {r \in UserRows(e - d) : NotQueued(r)}, newest)
      Both(m) == OfModule(curr, m) \cap DOMAIN prev
      paid == Paid(e, d, NotDone, newest)
      Change(v) == curr[v].balance - prev[v].balance
                     + Total([o \in Operators |-> Withdrawn(paid, v, o)])
  IN [m \in {m \in Modules : Both(m) # {}} |-> Total([v \in Both(m) |-> Change(v)])]

\* Mutant of UserNodeOperatorsRewards: attestations of this epoch, not of the one before
RewardsOfThisEpoch(e, newest) ==
  LET where(x) == {r \in UserRows(x) : r.status # "pending_initialized"}
      curr == Limit1(e, where(e), newest)
      prev == Limit1(e - 1, where(e - 1), newest)
      Both(o) == Owned(curr, o) \cap DOMAIN prev
      Calculated(o) == Total([v \in Owned(curr, o) |-> curr[v].attReward + curr[v].propReward + curr[v].syncReward])
      Real(o) == Total([v \in Both(o) |-> curr[v].balance - prev[v].balance + curr[v].withdrawn])
  IN [o \in Present(prev) |-> [calculated |-> Calculated(o), real |-> Real(o), error |-> Calculated(o) - Real(o)]]

\* Rewards less penalties.  Only a validator that is not done has its withdrawals joined
UserNodeOperatorsRewards(e, newest) ==
  LET where(x) == {r \in UserRows(x) : r.status # "pending_initialized"}
      att == Limit1(e - 1, where(e - 1), newest)
      prop == Limit1(e, {r \in where(e) : r.proposed # Null}, newest)
      sync == Limit1(e, {r \in where(e) : r.sync # Null}, newest)
      curr == Limit1(e, where(e), newest)
      paid == Limit1(e, {r \in where(e) : r.status \in NotDone /\ r.withdrawn > 0}, newest)
      Sum(rows, o, column) == Total([v \in Owned(rows, o) |-> rows[v][column]])
      Calculated(o) == Sum(att, o, "attReward") + Sum(prop, o, "propReward") + Sum(sync, o, "syncReward")
      Real(o) == Total([v \in Owned(curr, o) \cap DOMAIN att |->
                          curr[v].balance - att[v].balance + IF v \in DOMAIN paid THEN paid[v].withdrawn ELSE 0])
  IN [o \in Present(att) |-> [calculated |-> Calculated(o), real |-> Real(o), error |-> Calculated(o) - Real(o)]]

WithdrawalSums(rows, S) ==
  LET full == {v \in S : rows[v].balance = 0}
      Sum(T) == Total([v \in T |-> rows[v].withdrawn])
  IN [fullSum |-> Sum(full), partialSum |-> Sum(S \ full),
      fullCount |-> Cardinality(full), partialCount |-> Cardinality(S \ full)]

UserNodeOperatorsWithdrawalsStats(e, newest) ==
  LET rows == Limit1(e, {r \in UserRows(e) : r.withdrawn > 0}, newest) IN
  [o \in Present(rows) |-> WithdrawalSums(rows, Owned(rows, o))]

OtherChainWithdrawalsStats(e, newest) ==
  LET rows == Limit1(e, {r \in AllRows(e) : r.owner = Other /\ r.withdrawn > 0}, newest) IN
  WithdrawalSums(rows, DOMAIN rows)

=============================================================================
