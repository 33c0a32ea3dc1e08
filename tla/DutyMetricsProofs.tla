-------------------------- MODULE DutyMetricsProofs --------------------------
(***************************************************************************)
(* The invariants of DutyMetrics, for any number of validators, operators  *)
(* and modules, any window and any rows.                                   *)
(***************************************************************************)
EXTENDS DutyMetrics, SumProofs

(***************************************************************************)
(* The course of a calculation.                                            *)
(***************************************************************************)
\* What a calculation has before it, and the epochs it is about.
CalcInv ==
  /\ task \in Tasks /\ list \in Lists[task]
  /\ epoch \in Nat /\ epochNumber \in Nat /\ gaugeOf \in Nat
  /\ epochNumber <= epoch
  /\ pc \in {"check", "duties", "summary"}
  /\ pc # "check" => epoch > 0
  /\ todo \subseteq Parts
  /\ pc = "duties" /\ Phase = "summary" => todo = Parts

Tracked == task \notin HighRewardTasks \cup DOMAIN SummaryTasks

\* The gauges by operator are set before the duties are done.
ShownInv ==
  Tracked =>
    /\ pc = "duties" /\ "user" \notin todo \cup failed => gaugeOf = epoch
    /\ pc = "summary" => gaugeOf = epoch
    /\ user # None => gaugeOf >= epochNumber

\* Every task has a gauge by operator.
LEMMA UserIsAPart == "user" \in Parts
BY DEF Parts, StateTasks, AverageTasks, WithdrawalTasks, SummaryTasks

\* The phase of a task, and its parts, do not change with the task.
LEMMA SameTask == task' = task => Phase' = Phase /\ Parts' = Parts
BY DEF Phase, Parts

\* A task is of the duties or of the summary.
LEMMA PhaseType == Phase \in {"duties", "summary"}
BY DEF Phase

\* Each step of the calculation keeps CalcInv.
LEMMA CalcStep == CalcInv /\ [Next]_vars => CalcInv'
<1> SUFFICES ASSUME CalcInv, [Next]_vars PROVE CalcInv'
  OBVIOUS
<1>0. task' = task
  BY DEF vars, Next, Attempt, Store, Merge, SetUser, SetModule, SetOther, QueryFails, DutiesDone,
         DutiesFail, SummaryDone, SummaryFails, Crash
<1>p. Phase' = Phase /\ Parts' = Parts /\ Phase \in {"duties", "summary"}
  BY <1>0, SameTask, PhaseType
<1>1. CASE Attempt
  BY <1>1, <1>p DEF CalcInv, Attempt
<1>2. CASE Store
  BY <1>2, <1>p DEF CalcInv, Store
<1>3. CASE Merge
  BY <1>3, <1>p DEF CalcInv, Merge, history, gauges
<1>4. ASSUME NEW newest \in BOOLEAN, SetUser(newest) \/ SetModule(newest) \/ SetOther(newest)
      PROVE  CalcInv'
  <2>1. /\ UNCHANGED <<task, list, epoch, pc, epochNumber>>
        /\ todo' \subseteq todo /\ pc = Phase /\ gaugeOf' \in {gaugeOf, epoch}
    BY <1>4 DEF SetUser, SetModule, SetOther
  <2> QED
    BY <2>1, <1>p DEF CalcInv
<1>5. CASE QueryFails
  BY <1>5, <1>p DEF CalcInv, QueryFails, history, gauges
<1>6. CASE DutiesDone
  BY <1>6, <1>p DEF CalcInv, DutiesDone, history, gauges
<1>7. CASE DutiesFail
  BY <1>7, <1>p DEF CalcInv, DutiesFail, Again
<1>8. CASE SummaryDone
  BY <1>8, <1>p DEF CalcInv, SummaryDone, history
<1>9. CASE SummaryFails
  BY <1>9, <1>p DEF CalcInv, SummaryFails, Again
<1>10. CASE Crash
  BY <1>10, <1>p DEF CalcInv, Crash, Again
<1>11. CASE UNCHANGED vars
  BY <1>11, <1>p DEF CalcInv, vars, history
<1> QED
  BY <1>1, <1>2, <1>3, <1>4, <1>5, <1>6, <1>7, <1>8, <1>9, <1>10, <1>11 DEF Next

\* Each step of the calculation keeps ShownInv.
LEMMA ShownStep == CalcInv /\ ShownInv /\ [Next]_vars => ShownInv'
<1> SUFFICES ASSUME CalcInv, ShownInv, [Next]_vars PROVE ShownInv'
  OBVIOUS
<1>0. task' = task
  BY DEF vars, Next, Attempt, Store, Merge, SetUser, SetModule, SetOther, QueryFails, DutiesDone,
         DutiesFail, SummaryDone, SummaryFails, Crash
<1>t. Tracked' = Tracked
  BY <1>0 DEF Tracked
<1> SUFFICES ASSUME Tracked PROVE ShownInv'
  BY <1>t DEF ShownInv
<1>u. "user" \in Parts /\ Phase = "duties" /\ task \notin HighRewardTasks
  BY UserIsAPart DEF Tracked, Phase
<1>1. CASE Attempt
  BY <1>1 DEF ShownInv, CalcInv, Attempt, gauges
<1>2. CASE Store
  BY <1>2, <1>u DEF ShownInv, CalcInv, Store, gauges
<1>3. CASE Merge
  BY <1>3 DEF ShownInv, CalcInv, Merge, history, gauges
<1>4. ASSUME NEW newest \in BOOLEAN, SetUser(newest) PROVE ShownInv'
  <2>1. gaugeOf' = epoch /\ UNCHANGED <<epoch, pc, epochNumber>>
    BY <1>4, <1>u DEF SetUser
  <2> QED
    BY <2>1 DEF ShownInv, CalcInv
<1>5. ASSUME NEW newest \in BOOLEAN, SetModule(newest) \/ SetOther(newest) PROVE ShownInv'
  <2>1. UNCHANGED <<gaugeOf, epoch, pc, epochNumber, user, failed>> /\ ("user" \in todo => "user" \in todo')
    BY <1>5 DEF SetModule, SetOther
  <2> QED
    BY <2>1, <1>u DEF ShownInv
<1>6. CASE QueryFails
  BY <1>6, <1>u DEF ShownInv, QueryFails, history, gauges
<1>7. CASE DutiesDone
  <2>1. todo = {} /\ failed = {}
    BY <1>7, <1>u DEF DutiesDone, Settled
  <2> QED
    BY <1>7, <2>1 DEF ShownInv, DutiesDone, history, gauges
<1>8. CASE DutiesFail
  BY <1>8, <1>u DEF ShownInv, DutiesFail, Again, gauges
<1>9. CASE SummaryDone
  BY <1>9, <1>u DEF ShownInv, CalcInv, SummaryDone, history, gauges
<1>10. CASE SummaryFails
  BY <1>10, <1>u DEF ShownInv, CalcInv, SummaryFails, Again, gauges
<1>11. CASE Crash
  BY <1>11, <1>u DEF ShownInv, CalcInv, Crash, Again
<1>12. CASE UNCHANGED vars
  BY <1>12, <1>u DEF ShownInv, vars, history, gauges
<1> QED
  BY <1>1, <1>2, <1>3, <1>4, <1>5, <1>6, <1>7, <1>8, <1>9, <1>10, <1>11, <1>12 DEF Next

\* The epoch of the metrics is never ahead of the gauges of the duties, whatever queries fail,
\* whenever the process stops: calculateEpochMetrics settles the duties before the summary.
THEOREM EpochNumberFollows == Spec => []EpochNumberAfterDuties
<1>1. Init => CalcInv /\ ShownInv
  BY PhaseType DEF Init, CalcInv, ShownInv, None
<1>2. CalcInv /\ ShownInv /\ [Next]_vars => (CalcInv /\ ShownInv)'
  BY CalcStep, ShownStep
<1>3. ShownInv => EpochNumberAfterDuties
  BY DEF ShownInv, EpochNumberAfterDuties, Tracked
<1> QED
  BY <1>1, <1>2, <1>3, PTL DEF Spec

(***************************************************************************)
(* The table.  What the attempts at an epoch have inserted is a sequence   *)
(* of parts; the newest row of a validator is in the last part that has    *)
(* it, and a merge leaves it.                                              *)
(***************************************************************************)
AllDuties == UNION {Duties[t] \cup FirstDuties[t] : t \in Tasks}

RowOf(d, s, b) ==
  [c \in DOMAIN d \cup {"status", "balance"} |-> IF c = "status" THEN s ELSE IF c = "balance" THEN b ELSE d[c]]

RowSet == UNION {{RowOf(d, s, b) : s \in Statuses, b \in Int} : d \in AllDuties}
PartSet == UNION {[D -> RowSet] : D \in SUBSET Validators}

At(s, v) == {p \in DOMAIN s : v \in DOMAIN s[p]}
Last(s, v) == s[Max(At(s, v))][v]
Merged(s) == [v \in {v \in Validators : At(s, v) # {}} |-> Last(s, v)]

\* Every epoch stored has a row of every validator.
TableInv ==
  /\ DOMAIN table \subseteq 1 .. (epoch + 1)
  /\ 1 .. epoch \subseteq DOMAIN table
  /\ \A e \in DOMAIN table : table[e] \in Seq(PartSet)
  /\ \A e \in 1 .. epoch : \A v \in Validators : At(table[e], v) # {}

\* The columns of a row.
LEMMA RowColumns ==
  ASSUME NEW r \in RowSet
  PROVE  /\ r.owner \in Owners /\ r.status \in Statuses /\ r.balance \in Int
         /\ r.attReward \in Int /\ r.propReward \in Int /\ r.syncReward \in Int /\ r.withdrawn \in Nat
         /\ r.sync \in Int
         /\ r.proposed = Null => r.propReward = 0
         /\ r.sync = Null => r.syncReward = 0
<1>1. PICK d \in AllDuties, s \in Statuses, b \in Int : r = RowOf(d, s, b)
  BY DEF RowSet
<1>2. PICK t \in Tasks : d \in Duties[t] \cup FirstDuties[t]
  BY DEF AllDuties
<1>3. /\ Columns \subseteq DOMAIN d
      /\ d.owner \in Owners
      /\ d.attReward \in Int /\ d.propReward \in Int /\ d.syncReward \in Int /\ d.withdrawn \in Nat
      /\ d.sync \in Int
      /\ d.proposed = Null => d.propReward = 0
      /\ d.sync = Null => d.syncReward = 0
  BY <1>2, DutiesAssumption DEF Null
<1>4. \A c \in Columns : c \in DOMAIN d /\ c # "status" /\ c # "balance"
  BY <1>3 DEF Columns
<1>5. \A c \in Columns : r[c] = d[c]
  BY <1>1, <1>4 DEF RowOf
<1>6. r.status = s /\ r.balance = b
  BY <1>1 DEF RowOf
<1>7. \A c \in {"owner", "attReward", "propReward", "syncReward", "withdrawn", "proposed", "sync"} : r[c] = d[c]
  BY <1>5 DEF Columns
<1> QED
  BY <1>3, <1>6, <1>7

\* The last part with a row of a validator.
LEMMA LastType ==
  ASSUME NEW s \in Seq(PartSet), NEW v, At(s, v) # {}
  PROVE  /\ Max(At(s, v)) \in At(s, v) /\ \A p \in At(s, v) : p <= Max(At(s, v))
         /\ Last(s, v) \in RowSet
<1>1. At(s, v) \subseteq 1 .. Len(s) /\ Len(s) \in Nat
  BY DEF At
<1>2. Max(At(s, v)) \in At(s, v) /\ \A p \in At(s, v) : p <= Max(At(s, v))
  BY <1>1, MaxMin
<1>3. \A p \in At(s, v) : s[p] \in PartSet /\ v \in DOMAIN s[p]
  BY DEF At
<1>4. \A p \in At(s, v) : s[p][v] \in RowSet
  BY <1>3 DEF PartSet
<1> QED
  BY <1>2, <1>4 DEF Last

\* The part inserted last has the newest rows.
LEMMA LastOfAppended ==
  ASSUME NEW s \in Seq(PartSet), NEW r \in PartSet, NEW v \in DOMAIN r
  PROVE  At(Append(s, r), v) # {} /\ Last(Append(s, r), v) = r[v]
<1> DEFINE a == Append(s, r)
           n == Len(s) + 1
<1>1. a \in Seq(PartSet) /\ DOMAIN a = 1 .. n /\ a[n] = r /\ n \in Nat /\ n \in DOMAIN a
  OBVIOUS
<1> HIDE DEF a, n
<1>2. n \in At(a, v)
  BY <1>1 DEF At
<1>3. Max(At(a, v)) \in At(a, v) /\ \A p \in At(a, v) : p <= Max(At(a, v))
  BY <1>1, <1>2, LastType
<1>4. Max(At(a, v)) \in 1 .. n
  BY <1>3, <1>1 DEF At
<1>5. Max(At(a, v)) = n
  BY <1>1, <1>2, <1>3, <1>4
<1>6. At(a, v) # {} /\ Last(a, v) = r[v]
  BY <1>1, <1>2, <1>5 DEF Last
<1> QED
  BY <1>6 DEF a

\* A merge keeps the newest row of every validator.
LEMMA LastOfMerged ==
  ASSUME NEW s \in Seq(PartSet)
  PROVE  /\ Merged(s) \in PartSet /\ <<Merged(s)>> \in Seq(PartSet)
         /\ \A v \in Validators : At(s, v) # {} => At(<<Merged(s)>>, v) # {} /\ Last(<<Merged(s)>>, v) = Last(s, v)
<1> DEFINE D == {v \in Validators : At(s, v) # {}}
           m == Merged(s)
<1>1. \A v \in D : Last(s, v) \in RowSet
  BY LastType
<1>2. m = [v \in D |-> Last(s, v)] /\ D \in SUBSET Validators
  BY DEF Merged
<1> HIDE DEF m
<1>3. m \in [D -> RowSet]
  BY <1>1, <1>2
<1>4. m \in PartSet
  BY <1>2, <1>3 DEF PartSet
<1>5. <<m>> \in Seq(PartSet) /\ DOMAIN <<m>> = {1} /\ <<m>>[1] = m
  BY <1>4
<1>6. ASSUME NEW v \in Validators, At(s, v) # {}
      PROVE  At(<<m>>, v) # {} /\ Last(<<m>>, v) = Last(s, v)
  <2>1. v \in D /\ v \in DOMAIN m /\ m[v] = Last(s, v)
    BY <1>2, <1>6
  <2>2. 1 \in At(<<m>>, v)
    BY <1>5, <2>1 DEF At
  <2>3. Max(At(<<m>>, v)) \in At(<<m>>, v)
    BY <1>5, <2>2, LastType
  <2>4. Max(At(<<m>>, v)) = 1
    BY <2>3, <1>5 DEF At
  <2> QED
    BY <2>1, <2>2, <2>4, <1>5 DEF Last
<1> QED
  BY <1>4, <1>5, <1>6 DEF m

\* Every part that has a row of a validator matches when there is no condition.
LEMMA AllMatch ==
  ASSUME NEW e, NEW v
  PROVE  /\ Matching(e, v, AllRows(e)) = At(Versions(e), v)
         /\ Matching(e, v, AllRows(e))' = At(Versions(e)', v)
BY DEF Matching, AllRows, At

\* What LIMIT 1 BY takes of all rows, if it takes the newest.
LEMMA LimitIsMerged ==
  ASSUME NEW e
  PROVE  Limit1(e, AllRows(e), TRUE) = Merged(Versions(e))
BY AllMatch DEF Limit1, Selected, Merged, Last

\* The newest row of a validator, before and after a step.
LEMMA NewestIsLast ==
  ASSUME NEW e, NEW v \in Validators
  PROVE  /\ At(Versions(e), v) # {} => Newest(e, v) = Last(Versions(e), v)
         /\ At(Versions(e)', v) # {} => Newest(e, v)' = Last(Versions(e)', v)
<1>1. At(Versions(e), v) # {} => Newest(e, v) = Last(Versions(e), v)
  BY AllMatch DEF Newest, Limit1, Selected, Last
<1>2. At(Versions(e)', v) # {} => Newest(e, v)' = Last(Versions(e)', v)
  BY AllMatch DEF Newest, Limit1, Selected, Last
<1> QED
  BY <1>1, <1>2

\* Every epoch stored has a newest row of every validator.
LEMMA NewestType ==
  ASSUME CalcInv, TableInv, NEW e \in 1 .. epoch, NEW v \in Validators
  PROVE  /\ Versions(e) = table[e] /\ Versions(e) \in Seq(PartSet) /\ At(Versions(e), v) # {}
         /\ Newest(e, v) = Last(Versions(e), v) /\ Newest(e, v) \in RowSet
<1>1. Versions(e) = table[e] /\ Versions(e) \in Seq(PartSet) /\ At(Versions(e), v) # {}
  BY DEF TableInv, Versions
<1>2. Newest(e, v) = Last(Versions(e), v)
  BY <1>1, NewestIsLast
<1> QED
  BY <1>1, <1>2, LastType

\* The columns of the newest row of a validator.
LEMMA NewestColumns ==
  ASSUME CalcInv, TableInv, NEW e \in 1 .. epoch, NEW v \in Validators
  PROVE  LET r == Newest(e, v)
         IN /\ r.owner \in Owners /\ r.status \in Statuses /\ r.balance \in Int
            /\ r.attReward \in Int /\ r.propReward \in Int /\ r.syncReward \in Int /\ r.withdrawn \in Nat
            /\ r.proposed = Null => r.propReward = 0
            /\ r.sync = Null => r.syncReward = 0
BY NewestType, RowColumns

\* A status is one of those of the consensus layer.
LEMMA StatusType ==
  ASSUME NEW d, NEW e
  PROVE  GetValidatorStatus(d, e) \in Statuses
BY Zenon DEF GetValidatorStatus, Statuses

\* The rows an attempt inserts are rows: the epoch before the next one is stored.
LEMMA RowType ==
  ASSUME CalcInv, TableInv, NEW v \in Validators, NEW d \in Duties[task] \cup FirstDuties[task]
  PROVE  Row(d, epoch + 1, v) \in RowSet
<1> DEFINE b == Balance(d, epoch + 1, v)
           s == GetValidatorStatus(d, epoch + 1)
<1>1. d.propReward \in Int /\ d.syncReward \in Int /\ d.withdrawn \in Nat /\ d \in AllDuties
  BY DutiesAssumption DEF CalcInv, AllDuties
<1>2. b \in Int
  <2>1. CASE epoch = 0
    BY <2>1, <1>1, DepositAssumption DEF Balance
  <2>2. CASE epoch # 0
    <3>1. epoch \in 1 .. epoch /\ epoch + 1 - 1 = epoch /\ epoch + 1 # 1
      BY <2>2 DEF CalcInv
    <3>2. Newest(epoch, v).balance \in Int /\ Newest(epoch, v).attReward \in Int
      BY <3>1, NewestColumns
    <3> QED
      BY <1>1, <3>1, <3>2 DEF Balance
  <2> QED
    BY <2>1, <2>2
<1>3. s \in Statuses
  BY StatusType
<1>4. Row(d, epoch + 1, v) = RowOf(d, s, b)
  BY DEF Row, RowOf
<1> HIDE DEF b, s
<1> QED
  BY <1>1, <1>2, <1>3, <1>4 DEF RowSet

\* What an attempt inserts at the next epoch leaves the epochs stored as they are.
LEMMA AppendedTable ==
  ASSUME CalcInv, TableInv, NEW rows \in PartSet, table' = Appended(epoch + 1, rows)
  PROVE  /\ DOMAIN table' = DOMAIN table \cup {epoch + 1}
         /\ \A e \in DOMAIN table' : table'[e] \in Seq(PartSet)
         /\ \A e \in 1 .. epoch : e \in DOMAIN table' /\ table'[e] = table[e]
         /\ \A v \in DOMAIN rows : At(table'[epoch + 1], v) # {} /\ Last(table'[epoch + 1], v) = rows[v]
<1> DEFINE s == Versions(epoch + 1)
<1>1. s \in Seq(PartSet)
  BY DEF TableInv, Versions
<1>2. /\ table' = [x \in DOMAIN table \cup {epoch + 1} |-> IF x = epoch + 1 THEN Append(s, rows) ELSE table[x]]
  BY DEF Appended
<1> HIDE DEF s
<1>3. Append(s, rows) \in Seq(PartSet)
  BY <1>1
<1>4. DOMAIN table' = DOMAIN table \cup {epoch + 1} /\ table'[epoch + 1] = Append(s, rows)
  BY <1>2
<1>5. ASSUME NEW e \in DOMAIN table' PROVE table'[e] \in Seq(PartSet)
  BY <1>2, <1>3, <1>5 DEF TableInv
<1>6. ASSUME NEW e \in 1 .. epoch PROVE e \in DOMAIN table' /\ table'[e] = table[e]
  <2>1. e # epoch + 1 /\ e \in DOMAIN table
    BY DEF CalcInv, TableInv
  <2> QED
    BY <2>1, <1>2
<1>7. ASSUME NEW v \in DOMAIN rows
      PROVE  At(table'[epoch + 1], v) # {} /\ Last(table'[epoch + 1], v) = rows[v]
  BY <1>1, <1>4, LastOfAppended
<1> QED
  BY <1>4, <1>5, <1>6, <1>7

\* The rows of an attempt.
LEMMA PartType ==
  ASSUME CalcInv, TableInv, NEW dom \in SUBSET Validators, NEW d \in [dom -> Duties[task] \cup FirstDuties[task]]
  PROVE  [v \in dom |-> Row(d[v], epoch + 1, v)] \in PartSet
<1>1. \A v \in dom : Row(d[v], epoch + 1, v) \in RowSet
  BY RowType
<1>2. [v \in dom |-> Row(d[v], epoch + 1, v)] \in [dom -> RowSet]
  BY <1>1
<1> QED
  BY <1>2 DEF PartSet

\* A merge keeps the newest rows, of every epoch, and leaves no versions that differ.
LEMMA MergedTable ==
  ASSUME CalcInv, TableInv, Merge
  PROVE  /\ TableInv'
         /\ \A e \in 1 .. epoch : \A v \in Validators : Newest(e, v)' = Newest(e, v)
         /\ \A e : Equal(e) => Equal(e)'
<1>1. PICK x \in DOMAIN table : table' = [table EXCEPT ![x] = <<Limit1(x, AllRows(x), TRUE)>>]
  BY DEF Merge
<1> DEFINE m == Merged(table[x])
<1>2. Limit1(x, AllRows(x), TRUE) = Merged(Versions(x)) /\ Versions(x) = table[x]
  BY LimitIsMerged DEF Versions
<1>3. DOMAIN table' = DOMAIN table /\ table'[x] = <<m>> /\ \A e \in DOMAIN table \ {x} : table'[e] = table[e]
  BY <1>1, <1>2
<1>4. table[x] \in Seq(PartSet)
  BY DEF TableInv
<1>5. /\ m \in PartSet /\ <<m>> \in Seq(PartSet)
      /\ \A v \in Validators : At(table[x], v) # {} => At(<<m>>, v) # {} /\ Last(<<m>>, v) = Last(table[x], v)
  BY <1>4, LastOfMerged
<1> HIDE DEF m
<1>6. epoch' = epoch
  BY DEF Merge
<1>7. ASSUME NEW e \in 1 .. epoch, NEW v \in Validators
      PROVE  At(table'[e], v) # {} /\ Last(table'[e], v) = Last(table[e], v)
  <2>1. At(table[e], v) # {} /\ e \in DOMAIN table
    BY DEF TableInv
  <2>2. CASE e = x
    BY <2>1, <2>2, <1>3, <1>5
  <2>3. CASE e # x
    BY <2>1, <2>3, <1>3
  <2> QED
    BY <2>2, <2>3
<1>8. TableInv'
  BY <1>3, <1>5, <1>6, <1>7 DEF TableInv
<1>9. ASSUME NEW e \in 1 .. epoch, NEW v \in Validators PROVE Newest(e, v)' = Newest(e, v)
  <2>1. Newest(e, v) = Last(table[e], v)
    BY NewestType
  <2>2. Versions(e)' = table'[e]
    BY <1>3 DEF Versions, TableInv
  <2> QED
    BY <1>7, <2>1, <2>2, NewestIsLast
<1>10. ASSUME NEW e, Equal(e) PROVE Equal(e)'
  <2>1. CASE e = x
    <3>1. Versions(e)' = <<m>>
      BY <2>1, <1>3 DEF Versions
    <3>2. DOMAIN Versions(e)' = {1}
      BY <3>1
    <3> QED
      BY <3>2 DEF Equal
  <2>2. CASE e # x
    <3>1. Versions(e)' = Versions(e)
      BY <2>2, <1>3 DEF Versions
    <3> QED
      BY <3>1, <1>10 DEF Equal
  <2> QED
    BY <2>1, <2>2
<1> QED
  BY <1>8, <1>9, <1>10

\* Every step keeps the table as it should be, and the newest rows of the epochs stored.
LEMMA TableStep ==
  ASSUME CalcInv, TableInv, [Next]_vars
  PROVE  /\ TableInv'
         /\ \A e \in 1 .. epoch : \A v \in Validators : Newest(e, v)' = Newest(e, v)
<1>k. ASSUME \A e \in 1 .. epoch : e \in DOMAIN table' /\ table'[e] = table[e]
      PROVE  \A e \in 1 .. epoch : \A v \in Validators : At(table'[e], v) # {} /\ Newest(e, v)' = Newest(e, v)
  <2> SUFFICES ASSUME NEW e \in 1 .. epoch, NEW v \in Validators
               PROVE  At(table'[e], v) # {} /\ Newest(e, v)' = Newest(e, v)
    OBVIOUS
  <2>1. Newest(e, v) = Last(table[e], v) /\ At(table[e], v) # {}
    BY NewestType
  <2>2. Versions(e)' = table[e]
    BY <1>k DEF Versions
  <2> QED
    BY <2>1, <2>2, <1>k, NewestIsLast
<1>1. CASE Attempt
  <2>1. PICK dom \in SUBSET Validators \ {{}} : \E d \in [dom -> FirstDuties[task]] :
          table' = Appended(epoch + 1, [v \in dom |-> Row(d[v], epoch + 1, v)])
    BY <1>1 DEF Attempt
  <2>2. PICK d \in [dom -> FirstDuties[task]] :
          table' = Appended(epoch + 1, [v \in dom |-> Row(d[v], epoch + 1, v)])
    BY <2>1
  <2> DEFINE rows == [v \in dom |-> Row(d[v], epoch + 1, v)]
  <2>3. d \in [dom -> Duties[task] \cup FirstDuties[task]] /\ dom \in SUBSET Validators
    BY <2>1, <2>2
  <2>4. rows \in PartSet
    BY <2>3, PartType
  <2> HIDE DEF rows
  <2>5. table' = Appended(epoch + 1, rows)
    BY <2>2 DEF rows
  <2>6. /\ DOMAIN table' = DOMAIN table \cup {epoch + 1}
        /\ \A e \in DOMAIN table' : table'[e] \in Seq(PartSet)
        /\ \A e \in 1 .. epoch : e \in DOMAIN table' /\ table'[e] = table[e]
    BY <2>4, <2>5, AppendedTable
  <2>7. epoch' = epoch
    BY <1>1 DEF Attempt
  <2>8. DOMAIN table' \subseteq 1 .. (epoch + 1) /\ 1 .. epoch \subseteq DOMAIN table'
    BY <2>6 DEF TableInv, CalcInv
  <2> QED
    BY <1>k, <2>6, <2>7, <2>8 DEF TableInv
<1>2. CASE Store
  <2>1. PICK d \in [Validators -> Duties[task]] :
          table' = Appended(epoch + 1, [v \in Validators |-> Row(d[v], epoch + 1, v)])
    BY <1>2 DEF Store
  <2> DEFINE rows == [v \in Validators |-> Row(d[v], epoch + 1, v)]
  <2>3. d \in [Validators -> Duties[task] \cup FirstDuties[task]] /\ Validators \in SUBSET Validators
    BY <2>1
  <2>4. rows \in PartSet
    BY <2>3, PartType
  <2>d. DOMAIN rows = Validators
    OBVIOUS
  <2> HIDE DEF rows
  <2>5. table' = Appended(epoch + 1, rows)
    BY <2>1 DEF rows
  <2>6. /\ DOMAIN table' = DOMAIN table \cup {epoch + 1}
        /\ \A e \in DOMAIN table' : table'[e] \in Seq(PartSet)
        /\ \A e \in 1 .. epoch : e \in DOMAIN table' /\ table'[e] = table[e]
        /\ \A v \in DOMAIN rows : At(table'[epoch + 1], v) # {} /\ Last(table'[epoch + 1], v) = rows[v]
    BY <2>4, <2>5, AppendedTable
  <2>7. epoch' = epoch + 1
    BY <1>2 DEF Store
  <2>8. DOMAIN table' \subseteq 1 .. (epoch' + 1) /\ 1 .. epoch' \subseteq DOMAIN table'
    BY <2>6, <2>7 DEF TableInv, CalcInv
  <2>9. \A e \in 1 .. epoch' : e \in 1 .. epoch \/ e = epoch + 1
    BY <2>7 DEF CalcInv
  <2>10. \A e \in 1 .. epoch' : \A v \in Validators : At(table'[e], v) # {}
    BY <1>k, <2>6, <2>9, <2>d
  <2> QED
    BY <1>k, <2>6, <2>8, <2>10 DEF TableInv
<1>3. CASE Merge
  BY <1>3, MergedTable
<1>4. ASSUME UNCHANGED <<table, epoch>>
      PROVE  TableInv' /\ \A e \in 1 .. epoch : \A v \in Validators : Newest(e, v)' = Newest(e, v)
  <2>1. \A e \in 1 .. epoch : e \in DOMAIN table' /\ table'[e] = table[e]
    BY <1>4 DEF TableInv
  <2> QED
    BY <1>4, <1>k, <2>1 DEF TableInv
<1>5. Attempt \/ Store \/ Merge \/ UNCHANGED <<table, epoch>>
  BY DEF vars, Next, SetUser, SetModule, SetOther, QueryFails, DutiesDone,
         DutiesFail, SummaryDone, SummaryFails, Crash
<1> QED
  BY <1>1, <1>2, <1>3, <1>4, <1>5

(***************************************************************************)
(* Gauges that are shown.  A gauge set in this calculation stays as it is, *)
(* with all it was set from but the table, which may be merged.            *)
(***************************************************************************)
\* The query of a gauge has been read from versions that do not contradict each other.
Read == UNCHANGED <<table, task, list, high, epoch>> /\ \A x \in Window(epoch) : Equal(x)

SetsUser(newest) ==
  /\ Read
  /\ user' = SetUserOperatorsMetric(user, Query(epoch, newest))
  /\ task \in OtherTasks => other' = SetOtherOperatorsMetric(Query(epoch, newest))
SetsModule(newest) == Read /\ module' = SetModulesMetric(module, ModuleQuery(epoch, newest))
SetsOther(newest) == Read /\ other' = OtherQuery(epoch, newest)

Kept(part) ==
  /\ UNCHANGED <<task, list, high, epoch>> /\ (Merge \/ table' = table)
  /\ Shown(part) /\ clean = "yes"
  /\ part = "user" => user' = user /\ (task \in Counting => other' = other)
  /\ part = "module" => module' = module
  /\ part = "other" => other' = other

\* The tasks that count have no gauge of their own for the other validators.
LEMMA CountingParts == task \in Counting => Parts = {"user"}
BY DEF Counting, Parts, AttestationTasks, SyncTasks, ProposeTasks, StateTasks, AverageTasks,
       WithdrawalTasks, SummaryTasks

\* The tasks that set a gauge of the other validators with the counts are among those that count.
LEMMA OtherTasksCount == OtherTasks \subseteq Counting
BY DEF OtherTasks, Counting, AttestationTasks, SyncTasks, ProposeTasks

\* A gauge that is shown was just set, or was shown before.
LEMMA ShownStays ==
  ASSUME CalcInv, [Next]_vars, NEW part \in {"user", "module", "other"}, Shown(part)', clean' = "yes"
  PROVE  \/ part = "user" /\ \E newest \in BOOLEAN : SetsUser(newest)
         \/ part = "module" /\ \E newest \in BOOLEAN : SetsModule(newest)
         \/ part = "other" /\ \E newest \in BOOLEAN : SetsOther(newest)
         \/ Kept(part)
<1>0. task' = task
  BY DEF vars, Next, Attempt, Store, Merge, SetUser, SetModule, SetOther, QueryFails, DutiesDone,
         DutiesFail, SummaryDone, SummaryFails, Crash
<1>p. Phase' = Phase /\ Parts' = Parts /\ Phase \in {"duties", "summary"}
  BY <1>0, SameTask, PhaseType
<1>s. /\ pc' = Phase \/ pc' = "summary"
      /\ part \in Parts /\ part \notin todo' /\ part \notin failed'
      /\ task \in HighRewardTasks => high' # {}
  BY <1>0, <1>p DEF Shown
<1>a. ASSUME Again PROVE FALSE
  BY <1>a, <1>p, <1>s DEF Again
<1>1. CASE Attempt
  BY <1>1, <1>p, <1>s DEF Attempt
<1>2. CASE Store
  BY <1>2, <1>p, <1>s DEF Store
<1>3. CASE Merge
  BY <1>3, <1>p, <1>s DEF Merge, history, gauges, Kept, Shown
<1>c. ASSUME Clean = "yes" PROVE clean = "yes" /\ \A x \in Window(epoch) : Equal(x)
  BY <1>c DEF Clean
<1>4. ASSUME NEW newest \in BOOLEAN, SetUser(newest) PROVE SetsUser(newest) \/ Kept(part)
  <2>1. /\ UNCHANGED <<table, task, list, high, epoch, pc, failed, module>> /\ todo' = todo \ {"user"}
        /\ pc = Phase
    BY <1>4 DEF SetUser
  <2>2. CASE task \in HighRewardTasks /\ high = {}
    BY <2>1, <2>2, <1>s
  <2>3. CASE ~ (task \in HighRewardTasks /\ high = {})
    <3>1. /\ user' = SetUserOperatorsMetric(user, Query(epoch, newest))
          /\ other' = IF task \in OtherTasks THEN SetOtherOperatorsMetric(Query(epoch, newest)) ELSE other
          /\ clean' = Clean
      BY <1>4, <2>3 DEF SetUser
    <3> QED
      BY <2>1, <3>1, <1>c DEF SetsUser, Read
  <2> QED
    BY <2>2, <2>3
<1>4a. ASSUME NEW newest \in BOOLEAN, SetUser(newest), part # "user" PROVE Kept(part)
  <2>1. /\ UNCHANGED <<table, task, list, high, epoch, pc, failed, module>> /\ todo' = todo \ {"user"}
        /\ pc = Phase
    BY <1>4a DEF SetUser
  <2>2. part \notin todo /\ task \notin Counting
    BY <2>1, <1>4a, <1>s, CountingParts
  <2>3. clean = "yes"
    BY <1>4a, <1>c DEF SetUser
  <2>4. other' = other
    BY <1>4a, <2>2, OtherTasksCount DEF SetUser
  <2> QED
    BY <1>4a, <1>s, <2>1, <2>2, <2>3, <2>4 DEF Kept, Shown
<1>5. ASSUME NEW newest \in BOOLEAN, SetModule(newest) PROVE (part = "module" /\ SetsModule(newest)) \/ Kept(part)
  <2>1. /\ UNCHANGED <<table, task, list, high, epoch, pc, failed, user, other>> /\ todo' = todo \ {"module"}
        /\ module' = SetModulesMetric(module, ModuleQuery(epoch, newest)) /\ clean' = Clean /\ pc = Phase
    BY <1>5 DEF SetModule
  <2>2. CASE part = "module"
    BY <2>1, <2>2, <1>c DEF SetsModule, Read
  <2>3. CASE part # "module"
    BY <2>1, <2>3, <1>c, <1>s DEF Kept, Shown
  <2> QED
    BY <2>2, <2>3
<1>6. ASSUME NEW newest \in BOOLEAN, SetOther(newest) PROVE (part = "other" /\ SetsOther(newest)) \/ Kept(part)
  <2>1. /\ UNCHANGED <<table, task, list, high, epoch, pc, failed, user, module>> /\ todo' = todo \ {"other"}
        /\ other' = OtherQuery(epoch, newest) /\ clean' = Clean /\ pc = Phase /\ "other" \in todo
    BY <1>6 DEF SetOther
  <2>2. CASE part = "other"
    BY <2>1, <2>2, <1>c DEF SetsOther, Read
  <2>3. CASE part # "other"
    <3>1. task \notin Counting
      BY <2>1, CountingParts DEF CalcInv
    <3> QED
      BY <2>1, <2>3, <3>1, <1>c, <1>s DEF Kept, Shown
  <2> QED
    BY <2>2, <2>3
<1>7. CASE QueryFails
  <2>1. part \notin todo \cup failed
    BY <1>7, <1>s DEF QueryFails
  <2> QED
    BY <1>7, <1>s, <2>1 DEF QueryFails, Kept, Shown, gauges, history
<1>8. CASE DutiesDone
  <2>1. pc = "duties" /\ UNCHANGED <<table, task, list, high, epoch, todo, failed, user, module, other, clean>>
    BY <1>8 DEF DutiesDone, gauges, history
  <2>2. pc = Phase
    BY <2>1, <1>p, <1>s DEF CalcInv
  <2> QED
    BY <2>1, <2>2, <1>s DEF Kept, Shown
<1>9. CASE DutiesFail
  BY <1>9, <1>a DEF DutiesFail
<1>10. CASE SummaryDone
  BY <1>10, <1>p, <1>s DEF SummaryDone
<1>11. CASE SummaryFails
  BY <1>11, <1>a DEF SummaryFails
<1>12. CASE Crash
  <2>1. pc = "check" /\ pc' = pc
    BY <1>12, <1>a DEF Crash
  <2> QED
    BY <2>1, <1>p, <1>s
<1>13. CASE UNCHANGED vars
  BY <1>13, <1>s DEF vars, gauges, history, Kept, Shown
<1> QED
  BY <1>1, <1>2, <1>3, <1>4, <1>4a, <1>5, <1>6, <1>7, <1>8, <1>9, <1>10, <1>11, <1>12, <1>13 DEF Next

(***************************************************************************)
(* Selections.  Where versions do not contradict each other, LIMIT 1 BY    *)
(* takes the newest rows that satisfy the WHERE, whichever it takes.       *)
(***************************************************************************)
Chosen(e, W) == [v \in {v \in Validators : e \in 1 .. epoch /\ Newest(e, v) \in W} |-> Newest(e, v)]

\* Rows of an epoch are rows; of one that is not stored there are none.
LEMMA VersionRows ==
  ASSUME CalcInv, TableInv, NEW e \in Int, e <= epoch
  PROVE  /\ \A p \in DOMAIN Versions(e) : \A v \in DOMAIN Versions(e)[p] : Versions(e)[p][v] \in RowSet
         /\ e \notin 1 .. epoch => DOMAIN Versions(e) = {}
<1>1. CASE e \in 1 .. epoch
  <2>1. Versions(e) \in Seq(PartSet)
    BY <1>1 DEF TableInv, Versions
  <2>2. \A p \in DOMAIN Versions(e) : Versions(e)[p] \in PartSet
    BY <2>1
  <2> QED
    BY <1>1, <2>2 DEF PartSet
<1>2. CASE e \notin 1 .. epoch
  <2>1. e \notin DOMAIN table
    BY <1>2 DEF TableInv, CalcInv
  <2>2. Versions(e) = <<>>
    BY <2>1 DEF Versions
  <2> QED
    BY <2>2
<1> QED
  BY <1>1, <1>2

\* Any version of a row is the newest one.
LEMMA Picked ==
  ASSUME CalcInv, TableInv, NEW e \in 1 .. epoch, Equal(e), NEW v \in Validators
  PROVE  /\ \A p \in At(Versions(e), v) : Versions(e)[p][v] = Newest(e, v)
         /\ \A M \in SUBSET At(Versions(e), v) : M # {} => Max(M) \in M /\ Min(M) \in M
<1>1. /\ Versions(e) \in Seq(PartSet) /\ At(Versions(e), v) # {}
      /\ Newest(e, v) = Last(Versions(e), v)
  BY NewestType
<1>2. Max(At(Versions(e), v)) \in At(Versions(e), v)
  BY <1>1, LastType
<1>3. \A p \in At(Versions(e), v) : Versions(e)[p][v] = Newest(e, v)
  BY <1>1, <1>2 DEF Equal, At, Last
<1>4. Len(Versions(e)) \in Nat /\ At(Versions(e), v) \subseteq 1 .. Len(Versions(e))
  BY <1>1 DEF At
<1>5. \A M \in SUBSET At(Versions(e), v) : M # {} => Max(M) \in M /\ Min(M) \in M
  BY <1>4, MaxMin
<1> QED
  BY <1>3, <1>5

\* LIMIT 1 BY takes the newest rows among those of the WHERE.
LEMMA Selecting ==
  ASSUME CalcInv, TableInv, NEW e \in Int, e <= epoch, Equal(e), NEW W, NEW newest \in BOOLEAN
  PROVE  Limit1(e, W, newest) = Chosen(e, W)
<1> DEFINE M(v) == Matching(e, v, W)
<1>1. ASSUME NEW v \in Validators, e \in 1 .. epoch
      PROVE  M(v) = IF Newest(e, v) \in W THEN At(Versions(e), v) ELSE {}
  <2>1. \A p \in At(Versions(e), v) : Versions(e)[p][v] = Newest(e, v)
    BY <1>1, Picked
  <2>2. M(v) = {p \in At(Versions(e), v) : Versions(e)[p][v] \in W}
    BY DEF Matching, At
  <2> QED
    BY <2>1, <2>2
<1>2. e \notin 1 .. epoch => \A v \in Validators : M(v) = {}
  BY VersionRows DEF Matching
<1>3. \A v \in Validators : e \in 1 .. epoch => At(Versions(e), v) # {}
  BY NewestType
<1>4. Selected(e, W) = {v \in Validators : e \in 1 .. epoch /\ Newest(e, v) \in W}
  BY <1>1, <1>2, <1>3 DEF Selected
<1>5. ASSUME NEW v \in Selected(e, W) PROVE Versions(e)[IF newest THEN Max(M(v)) ELSE Min(M(v))][v] = Newest(e, v)
  <2>1. v \in Validators /\ e \in 1 .. epoch /\ M(v) = At(Versions(e), v) /\ M(v) # {}
    BY <1>1, <1>3, <1>4
  <2>2. Max(M(v)) \in M(v) /\ Min(M(v)) \in M(v)
    BY <2>1, Picked
  <2> QED
    BY <2>1, <2>2, Picked
<1> DEFINE f == [v \in Selected(e, W) |-> Versions(e)[IF newest THEN Max(M(v)) ELSE Min(M(v))][v]]
<1>6. Limit1(e, W, newest) = f
  BY DEF Limit1
<1>7. f = [v \in Selected(e, W) |-> Newest(e, v)]
  BY <1>5
<1> QED
  BY <1>4, <1>6, <1>7 DEF Chosen

\* A WHERE is about the rows of the epoch; the newest are among them.
LEMMA ChosenRows ==
  ASSUME CalcInv, TableInv, NEW e \in 1 .. epoch, NEW v \in Validators
  PROVE  Newest(e, v) \in AllRows(e)
<1>1. /\ Versions(e) \in Seq(PartSet) /\ At(Versions(e), v) # {}
      /\ Newest(e, v) = Last(Versions(e), v)
  BY NewestType
<1>2. Max(At(Versions(e), v)) \in At(Versions(e), v)
  BY <1>1, LastType
<1>3. PICK p \in DOMAIN Versions(e) : v \in DOMAIN Versions(e)[p] /\ Newest(e, v) = Versions(e)[p][v]
  BY <1>1, <1>2 DEF At, Last
<1>4. Newest(e, v) \in {Versions(e)[p][w] : w \in DOMAIN Versions(e)[p]}
  BY <1>3
<1> QED
  BY <1>4 DEF AllRows

(***************************************************************************)
(* Counts of the last epochs.                                              *)
(***************************************************************************)
\* A condition is counted as often as there are epochs if it is met in all of them.
LEMMA CountOfAll ==
  ASSUME NEW e \in Int, NEW n \in Nat \ {0}, NEW S \in SUBSET ((e - n + 1) .. e)
  PROVE  Cardinality(S) = n <=> S = (e - n + 1) .. e
<1> DEFINE D == (e - n + 1) .. e
<1>1. IsFiniteSet(D) /\ Cardinality(D) = n
  <2>1. e - n + 1 \in Int /\ e - n + 1 <= e
    OBVIOUS
  <2>2. IsFiniteSet(D) /\ Cardinality(D) = e - (e - n + 1) + 1
    BY <2>1, FS_Interval
  <2> QED
    BY <2>2
<1> HIDE DEF D
<1>2. Cardinality(S) = Cardinality(D) => S = D
  BY <1>1, FS_Subset DEF D
<1> QED
  BY <1>1, <1>2 DEF D

\* The validators counted for an owner meet the condition in each epoch of the window.
LEMMA CountIs ==
  ASSUME NEW e \in Int, NEW n \in Nat \ {0}, NEW sel, DOMAIN sel = (e - n + 1) .. e, NEW indexes, NEW o \in Owners,
         NEW F, F = {v \in Validators : (indexes = {} \/ v \in indexes) /\ \A x \in DOMAIN sel : v \in Owned(sel[x], o)}
  PROVE  (IF o \in DOMAIN CountLastN(sel, n, indexes) THEN CountLastN(sel, n, indexes)[o] ELSE 0) = Cardinality(F)
<1> DEFINE Fail(v, p) == {x \in DOMAIN sel : v \in Owned(sel[x], p)}
           Found(p) == {v \in Validators : (indexes = {} \/ v \in indexes) /\ Cardinality(Fail(v, p)) = n}
           c == [p \in {p \in Owners : Found(p) # {}} |-> Cardinality(Found(p))]
<1>1. CountLastN(sel, n, indexes) = c
  BY DEF CountLastN
<1>2. \A v : Cardinality(Fail(v, o)) = n <=> Fail(v, o) = DOMAIN sel
  BY CountOfAll
<1>3. Found(o) = F
  BY <1>2
<1>4. Cardinality({}) = 0
  BY FS_EmptySet
<1> HIDE DEF Found
<1> QED
  BY <1>1, <1>3, <1>4

\* Two conditions that the newest rows do not tell apart choose the same rows.
LEMMA ChosenSame ==
  ASSUME NEW e, NEW W, NEW U, \A v \in Validators : e \in 1 .. epoch => (Newest(e, v) \in W <=> Newest(e, v) \in U)
  PROVE  Chosen(e, W) = Chosen(e, U)
<1>1. {v \in Validators : e \in 1 .. epoch /\ Newest(e, v) \in W}
        = {v \in Validators : e \in 1 .. epoch /\ Newest(e, v) \in U}
  OBVIOUS
<1> QED
  BY <1>1 DEF Chosen

\* The newest rows of an epoch stored stay, so do those chosen among them.
LEMMA ChosenStays ==
  ASSUME epoch' = epoch, \A e \in 1 .. epoch : \A v \in Validators : Newest(e, v)' = Newest(e, v), NEW e, NEW W
  PROVE  Chosen(e, W)' = Chosen(e, W)
<1>1. \A v \in Validators : e \in 1 .. epoch' /\ Newest(e, v)' \in W <=> e \in 1 .. epoch /\ Newest(e, v) \in W
  OBVIOUS
<1>2. \A v \in {v \in Validators : e \in 1 .. epoch /\ Newest(e, v) \in W} : Newest(e, v)' = Newest(e, v)
  OBVIOUS
<1> QED
  BY <1>1, <1>2 DEF Chosen

SyncMean == Average(Chosen(epoch, {r \in RowSet : r.sync # Null}))

Meets(r) ==
  IF task \in DOMAIN AttestationTasks THEN AttestationCondition(CountTask.condition, r)
  ELSE IF task \in DOMAIN SyncTasks THEN SyncCondition(CountTask.condition, r, SyncMean, Distance)
  ELSE r.proposed = CountTask.condition

Wanted == {r \in RowSet : Meets(r) /\ r.stuck = 0}

\* The validators of o that met the condition in each epoch of the window.
Met(o) == {v \in Validators : (high = {} \/ v \in high) /\ \A x \in Window(epoch) : v \in Owned(Chosen(x, Wanted), o)}

CountInv ==
  task \in Counting /\ Shown("user") /\ clean = "yes" =>
    /\ \A o \in DOMAIN list : Gauge(o) = Cardinality(Met(o))
    /\ task \in OtherTasks => other = Cardinality(Met(Other))
    /\ \A l \in DOMAIN user : l[2] \in Names

\* The gauges shown have been read from versions that do not contradict each other.
EqualInv ==
  \A part \in {"user", "module", "other"} :
    Shown(part) /\ clean = "yes" => \A x \in Window(epoch) : Equal(x)

\* A count is of one epoch or of the interval, and ends with the epoch itself.
LEMMA CountWindow ==
  ASSUME CalcInv, task \in Counting
  PROVE  /\ CountTask.epochs \in Nat \ {0}
         /\ Window(epoch) = (epoch - CountTask.epochs + 1) .. epoch
         /\ epoch \in Window(epoch) /\ \A x \in Window(epoch) : x \in Int /\ x <= epoch
         /\ task \in DOMAIN ProposeTasks /\ task \notin DOMAIN AttestationTasks \cup DOMAIN SyncTasks => CountTask.epochs = 1
<1>1. \A t \in DOMAIN AttestationTasks : AttestationTasks[t].epochs \in {1, Interval}
  BY DEF AttestationTasks, LastN
<1>2. \A t \in DOMAIN SyncTasks : SyncTasks[t].epochs \in {1, Interval}
  BY DEF SyncTasks, LastN
<1>3. \A t \in DOMAIN ProposeTasks : ProposeTasks[t].epochs = 1
  BY DEF ProposeTasks, LastN
<1>4. CountTask.epochs \in {1, Interval}
  BY <1>1, <1>2, <1>3 DEF CountTask, Counting
<1>5. CountTask.epochs \in Nat \ {0}
  BY <1>4, WindowsAssumption
<1>6. Window(epoch) = (epoch - CountTask.epochs + 1) .. epoch
  BY DEF Window
<1>7. epoch \in Nat
  BY DEF CalcInv
<1>8. epoch \in Window(epoch) /\ \A x \in Window(epoch) : x \in Int /\ x <= epoch
  BY <1>5, <1>6, <1>7
<1> QED
  BY <1>3, <1>5, <1>6, <1>8 DEF CountTask

\* The average of the sync committee is of the newest rows.
LEMMA MeanIs ==
  ASSUME CalcInv, TableInv, Equal(epoch), NEW newest \in BOOLEAN
  PROVE  ChainSyncAverage(epoch, newest) = SyncMean
<1> DEFINE W == {r \in AllRows(epoch) : r.sync # Null}
           U == {r \in RowSet : r.sync # Null}
<1>1. epoch \in Int /\ epoch <= epoch
  BY DEF CalcInv
<1>2. ChainSyncAverage(epoch, newest) = Average(Limit1(epoch, W, newest))
  BY DEF ChainSyncAverage, SyncRows
<1>3. \A v \in Validators : epoch \in 1 .. epoch => (Newest(epoch, v) \in W <=> Newest(epoch, v) \in U)
  BY ChosenRows, NewestType
<1>4. SyncMean = Average(Chosen(epoch, U))
  BY DEF SyncMean
<1> HIDE DEF W, U
<1>5. Limit1(epoch, W, newest) = Chosen(epoch, W)
  BY <1>1, Selecting
<1>6. Chosen(epoch, W) = Chosen(epoch, U)
  BY <1>3, ChosenSame
<1> QED
  BY <1>2, <1>4, <1>5, <1>6

\* The query of a task that counts, over the newest rows.
LEMMA QueryCounts ==
  ASSUME CalcInv, TableInv, task \in Counting, \A x \in Window(epoch) : Equal(x), NEW newest \in BOOLEAN
  PROVE  Query(epoch, newest)
           = CountLastN([x \in Window(epoch) |-> Chosen(x, Wanted)], CountTask.epochs, high)
<1> DEFINE t == CountTask
           c == t.condition
           n == t.epochs
<1>1. /\ n \in Nat \ {0} /\ Window(epoch) = (epoch - n + 1) .. epoch
      /\ epoch \in Window(epoch) /\ \A x \in Window(epoch) : x \in Int /\ x <= epoch
  BY CountWindow
<1>w. Window(epoch) = LastEpochs(epoch, n)
  BY <1>1 DEF LastEpochs
<1>d. /\ task \in DOMAIN AttestationTasks \/ task \in DOMAIN SyncTasks \/ task \in DOMAIN ProposeTasks
      /\ task \in DOMAIN AttestationTasks => task \notin DOMAIN SyncTasks /\ task \notin DOMAIN ProposeTasks
      /\ task \in DOMAIN SyncTasks => task \notin DOMAIN ProposeTasks
      /\ task \notin {"stats", "avgDeltas", "minDeltas", "negativeValidatorsCount", "balance24hDifference",
                      "avgSyncPercent", "withdrawalsStats", "userRewards"}
  BY DEF Counting, AttestationTasks, SyncTasks, ProposeTasks
<1>s. ASSUME NEW W, \A x \in Window(epoch) : \A v \in Validators : x \in 1 .. epoch => (Newest(x, v) \in W[x] <=> Newest(x, v) \in Wanted)
      PROVE  \A x \in Window(epoch) : Limit1(x, W[x], newest) = Chosen(x, Wanted)
  <2> SUFFICES ASSUME NEW x \in Window(epoch) PROVE Limit1(x, W[x], newest) = Chosen(x, Wanted)
    OBVIOUS
  <2>1. Limit1(x, W[x], newest) = Chosen(x, W[x])
    BY <1>1, Selecting
  <2>2. Chosen(x, W[x]) = Chosen(x, Wanted)
    BY <1>s, ChosenSame
  <2> QED
    BY <2>1, <2>2
<1>r. \A x \in Window(epoch) : \A v \in Validators : x \in 1 .. epoch => Newest(x, v) \in AllRows(x) /\ Newest(x, v) \in RowSet
  BY ChosenRows, NewestType
<1>2. CASE task \in DOMAIN AttestationTasks
  <2> DEFINE W == [x \in Window(epoch) |-> {r \in AllRows(x) : AttestationCondition(c, r) /\ r.stuck = 0}]
  <2>1. Query(epoch, newest) = AttestationLastN(epoch, n, high, c, newest)
    BY Zenon, <1>2, <1>d DEF Query
  <2>2. AttestationLastN(epoch, n, high, c, newest)
          = CountLastN([x \in Window(epoch) |-> Limit1(x, W[x], newest)], n, high)
    BY <1>w DEF AttestationLastN
  <2>3. \A x \in Window(epoch) : \A v \in Validators : x \in 1 .. epoch => (Newest(x, v) \in W[x] <=> Newest(x, v) \in Wanted)
    BY <1>2, <1>r DEF Wanted, Meets
  <2> HIDE DEF W
  <2>4. [x \in Window(epoch) |-> Limit1(x, W[x], newest)] = [x \in Window(epoch) |-> Chosen(x, Wanted)]
    BY <2>3, <1>s
  <2> QED
    BY <2>1, <2>2, <2>4
<1>3. CASE task \in DOMAIN SyncTasks
  <2> DEFINE W == [x \in Window(epoch) |-> {r \in AllRows(x) : SyncCondition(c, r, SyncMean, Distance) /\ r.stuck = 0}]
  <2>0. ChainSyncAverage(epoch, newest) = SyncMean
    BY <1>1, MeanIs
  <2>1. Query(epoch, newest) = SyncLastN(epoch, n, high, c, SyncMean, Distance, newest)
    BY Zenon, <1>3, <1>d, <2>0 DEF Query
  <2>2. SyncLastN(epoch, n, high, c, SyncMean, Distance, newest)
          = CountLastN([x \in Window(epoch) |-> Limit1(x, W[x], newest)], n, high)
    BY <1>w DEF SyncLastN
  <2>3. \A x \in Window(epoch) : \A v \in Validators : x \in 1 .. epoch => (Newest(x, v) \in W[x] <=> Newest(x, v) \in Wanted)
    BY <1>3, <1>d, <1>r DEF Wanted, Meets
  <2> HIDE DEF W
  <2>4. [x \in Window(epoch) |-> Limit1(x, W[x], newest)] = [x \in Window(epoch) |-> Chosen(x, Wanted)]
    BY <2>3, <1>s
  <2> QED
    BY <2>1, <2>2, <2>4
<1>4. CASE task \in DOMAIN ProposeTasks
  <2> DEFINE W == [x \in Window(epoch) |-> {r \in AllRows(x) : r.proposed = c /\ r.stuck = 0}]
  <2>0. n = 1
    BY <1>4, <1>d, CountWindow
  <2>1. Query(epoch, newest) = Proposes(epoch, high, c, newest)
    BY Zenon, <1>4, <1>d DEF Query
  <2>2. Proposes(epoch, high, c, newest)
          = CountLastN([x \in Window(epoch) |-> Limit1(x, W[x], newest)], n, high)
    BY <1>w, <2>0 DEF Proposes
  <2>3. \A x \in Window(epoch) : \A v \in Validators : x \in 1 .. epoch => (Newest(x, v) \in W[x] <=> Newest(x, v) \in Wanted)
    BY <1>4, <1>d, <1>r DEF Wanted, Meets
  <2> HIDE DEF W
  <2>4. [x \in Window(epoch) |-> Limit1(x, W[x], newest)] = [x \in Window(epoch) |-> Chosen(x, Wanted)]
    BY <2>3, <1>s
  <2> QED
    BY <2>1, <2>2, <2>4
<1> QED
  BY <1>2, <1>3, <1>4, <1>d

\* What SetUserOperatorsMetric leaves in the gauges: the result for every operator of the list,
\* or zero, and no name that no operator has.
LEMMA GaugesSet ==
  ASSUME NEW metric, NEW data, NEW g, g = SetUserOperatorsMetric(metric, data)
  PROVE  /\ \A o \in DOMAIN list : g[<<o, list[o]>>] = IF o \in DOMAIN data THEN data[o] ELSE Zero
         /\ \A l \in DOMAIN g : l[2] \in Names
<1> DEFINE labels == {<<o, list[o]>> : o \in DOMAIN list}
           set == [l \in labels |-> IF l[1] \in DOMAIN data THEN data[l[1]] ELSE Zero]
           kept == {l \in DOMAIN metric : l[2] \in Names}
<1>1. g = [l \in labels \cup kept |-> IF l \in labels THEN set[l] ELSE metric[l]]
  BY DEF SetUserOperatorsMetric
<1>2. \A o \in DOMAIN list : <<o, list[o]>> \in labels /\ <<o, list[o]>>[1] = o
  OBVIOUS
<1>3. \A l \in labels : l[2] \in Names
  BY DEF Names
<1>4. \A o \in DOMAIN list : set[<<o, list[o]>>] = IF o \in DOMAIN data THEN data[o] ELSE Zero
  BY <1>2
<1> HIDE DEF labels, set
<1>5. \A o \in DOMAIN list : g[<<o, list[o]>>] = set[<<o, list[o]>>]
  BY <1>1, <1>2
<1>6. \A l \in DOMAIN g : l[2] \in Names
  BY <1>1, <1>3
<1> QED
  BY <1>4, <1>5, <1>6

\* Each step keeps EqualInv.
LEMMA EqualStep ==
  ASSUME CalcInv, TableInv, EqualInv, [Next]_vars
  PROVE  EqualInv'
<1> SUFFICES ASSUME NEW part \in {"user", "module", "other"}, Shown(part)', clean' = "yes"
             PROVE  \A x \in Window(epoch)' : Equal(x)'
  BY DEF EqualInv
<1>w. ASSUME task' = task, epoch' = epoch PROVE Window(epoch)' = Window(epoch)
  BY <1>w DEF Window, CountTask
<1>1. ASSUME Read PROVE \A x \in Window(epoch)' : Equal(x)'
  <2>1. \A x : Equal(x)' = Equal(x)
    BY <1>1 DEF Read, Equal, Versions
  <2> QED
    BY <1>1, <1>w, <2>1 DEF Read
<1>2. ASSUME Kept(part) PROVE \A x \in Window(epoch)' : Equal(x)'
  <2>1. \A x \in Window(epoch) : Equal(x)
    BY <1>2 DEF Kept, EqualInv
  <2>2. ASSUME table' = table PROVE \A x : Equal(x)' = Equal(x)
    BY <2>2 DEF Equal, Versions
  <2>3. \A x : Equal(x) => Equal(x)'
    BY <1>2, <2>2, MergedTable DEF Kept
  <2> QED
    BY <1>2, <1>w, <2>1, <2>3 DEF Kept
<1> QED
  BY <1>1, <1>2, ShownStays DEF SetsUser, SetsModule, SetsOther

\* The validators that met the condition stay the same while the newest rows do.
LEMMA MetStays ==
  ASSUME UNCHANGED <<task, high, epoch>>, \A e \in 1 .. epoch : \A v \in Validators : Newest(e, v)' = Newest(e, v),
         NEW o
  PROVE  Met(o)' = Met(o)
<1>1. \A e : \A W : Chosen(e, W)' = Chosen(e, W)
  BY ChosenStays
<1>2. SyncMean' = SyncMean
  BY <1>1 DEF SyncMean
<1>3. \A r : Meets(r)' <=> Meets(r)
  BY <1>2 DEF Meets, CountTask
<1>4. Wanted' = Wanted
  BY <1>3 DEF Wanted
<1>5. Window(epoch)' = Window(epoch)
  BY DEF Window, CountTask
<1>6. \A x : Chosen(x, Wanted)' = Chosen(x, Wanted)
  BY <1>1, <1>4
<1> QED
  BY <1>5, <1>6 DEF Met

\* Each step keeps CountInv.
LEMMA CountStep ==
  ASSUME CalcInv, TableInv, CountInv, [Next]_vars
  PROVE  CountInv'
<1>0. task' = task
  BY DEF vars, Next, Attempt, Store, Merge, SetUser, SetModule, SetOther, QueryFails, DutiesDone,
         DutiesFail, SummaryDone, SummaryFails, Crash
<1>c. Counting' = Counting /\ OtherTasks' = OtherTasks
  BY DEF Counting, OtherTasks, AttestationTasks, SyncTasks, ProposeTasks
<1> SUFFICES ASSUME task \in Counting, Shown("user")', clean' = "yes"
             PROVE  /\ \A o \in DOMAIN list' : Gauge(o)' = Cardinality(Met(o))'
                    /\ task \in OtherTasks => other' = Cardinality(Met(Other))'
                    /\ \A l \in DOMAIN user' : l[2] \in Names'
  BY <1>0, <1>c DEF CountInv
<1>n. \A e \in 1 .. epoch : \A v \in Validators : Newest(e, v)' = Newest(e, v)
  BY TableStep
<1>1. ASSUME NEW newest \in BOOLEAN, SetsUser(newest)
      PROVE  /\ \A o \in DOMAIN list' : Gauge(o)' = Cardinality(Met(o))'
             /\ task \in OtherTasks => other' = Cardinality(Met(Other))'
             /\ \A l \in DOMAIN user' : l[2] \in Names'
  <2> DEFINE data == Query(epoch, newest)
             sel == [x \in Window(epoch) |-> Chosen(x, Wanted)]
             n == CountTask.epochs
  <2>0. UNCHANGED <<table, task, list, high, epoch>> /\ \A x \in Window(epoch) : Equal(x)
    BY <1>1 DEF SetsUser, Read
  <2>1. data = CountLastN(sel, n, high)
    BY <2>0, QueryCounts
  <2>2. n \in Nat \ {0} /\ DOMAIN sel = (epoch - n + 1) .. epoch /\ epoch \in Int
    BY CountWindow DEF CalcInv
  <2>3. \A o : Met(o) = {v \in Validators : (high = {} \/ v \in high) /\ \A x \in DOMAIN sel : v \in Owned(sel[x], o)}
    BY DEF Met
  <2> HIDE DEF data, sel, n
  <2>4. ASSUME NEW o \in Owners PROVE (IF o \in DOMAIN data THEN data[o] ELSE 0) = Cardinality(Met(o))
    <3> DEFINE F == Met(o)
    <3>1. F = {v \in Validators : (high = {} \/ v \in high) /\ \A x \in DOMAIN sel : v \in Owned(sel[x], o)}
      BY <2>3
    <3> HIDE DEF F
    <3>2. (IF o \in DOMAIN CountLastN(sel, n, high) THEN CountLastN(sel, n, high)[o] ELSE 0) = Cardinality(F)
      BY <2>2, <3>1, CountIs
    <3> QED
      BY <2>1, <3>2 DEF F
  <2>5. task \notin {"stats", "withdrawalsStats", "userRewards", "avgSyncPercent", "avgDeltas"}
    BY DEF Counting, AttestationTasks, SyncTasks, ProposeTasks
  <2>6. Zero = 0
    BY Zenon, <2>5 DEF Zero
  <2>7. \A o : Met(o)' = Met(o)
    BY <2>0, <1>n, MetStays
  <2>8. /\ user' = SetUserOperatorsMetric(user, data)
        /\ task \in OtherTasks => other' = SetOtherOperatorsMetric(data)
    BY <1>1 DEF SetsUser, data
  <2>9. /\ \A o \in DOMAIN list : user'[<<o, list[o]>>] = IF o \in DOMAIN data THEN data[o] ELSE 0
        /\ \A l \in DOMAIN user' : l[2] \in Names
    BY <2>6, <2>8, GaugesSet
  <2>10. Names' = Names
    BY <2>0 DEF Names
  <2>11. DOMAIN list \subseteq Owners /\ Other \in Owners
    BY ListsAssumption DEF CalcInv, Owners
  <2>12. \A o \in DOMAIN list : user'[<<o, list[o]>>] = Cardinality(Met(o))
    BY <2>4, <2>9, <2>11
  <2>13. task \in OtherTasks => other' = Cardinality(Met(Other))
    BY <2>4, <2>8, <2>11 DEF SetOtherOperatorsMetric
  <2> QED
    BY <2>0, <2>7, <2>9, <2>10, <2>12, <2>13 DEF Gauge
<1>2. ASSUME Kept("user")
      PROVE  /\ \A o \in DOMAIN list' : Gauge(o)' = Cardinality(Met(o))'
             /\ task \in OtherTasks => other' = Cardinality(Met(Other))'
             /\ \A l \in DOMAIN user' : l[2] \in Names'
  <2>1. UNCHANGED <<task, list, high, epoch, user, other>> /\ Shown("user") /\ clean = "yes"
    BY <1>2 DEF Kept
  <2>2. \A o : Met(o)' = Met(o)
    BY <2>1, <1>n, MetStays
  <2>3. Names' = Names
    BY <2>1 DEF Names
  <2>4. \A o : Gauge(o)' = Gauge(o)
    BY <2>1 DEF Gauge
  <2> QED
    BY <2>1, <2>2, <2>3, <2>4 DEF CountInv
<1> QED
  BY <1>1, <1>2, ShownStays

\* A product is positive as its factor is.
LEMMA PositiveProduct ==
  ASSUME NEW c \in Int, NEW m \in Nat \ {0}
  PROVE  c > 0 <=> c * m > 0
<1>1. CASE c > 0
  <2>1. c * m >= m
    BY <1>1
  <2> QED
    BY <1>1, <2>1
<1>2. CASE c <= 0
  <2>1. c * m <= 0
    BY <1>2
  <2> QED
    BY <1>2, <2>1
<1> QED
  BY <1>1, <1>2

\* Below one of two equal fractions, less a distance, is below the other.
LEMMA EqualFractions ==
  ASSUME NEW r \in Int, NEW D \in Int, NEW s \in Int, NEW t \in Int, NEW m \in Nat \ {0}, NEW n \in Nat \ {0},
         s * n = t * m
  PROVE  r * m < s - D * m <=> r * n < t - D * n
<1> DEFINE c == s - D * m - r * m
           d == t - D * n - r * n
<1>1. c \in Int /\ d \in Int
  OBVIOUS
<1>2. c * n = s * n - (D * m) * n - (r * m) * n
  OBVIOUS
<1>3. d * m = t * m - (D * n) * m - (r * n) * m
  OBVIOUS
<1>4. (D * m) * n = (D * n) * m /\ (r * m) * n = (r * n) * m
  OBVIOUS
<1>5. c * n = d * m
  BY <1>2, <1>3, <1>4
<1>6. r * m < s - D * m <=> c > 0
  OBVIOUS
<1>7. r * n < t - D * n <=> d > 0
  OBVIOUS
<1> HIDE DEF c, d
<1> QED
  BY <1>1, <1>5, <1>6, <1>7, PositiveProduct

\* The percents of the committee of an epoch that is stored.
LEMMA CommitteeType ==
  ASSUME CalcInv, TableInv, NEW x \in 1 .. epoch
  PROVE  /\ Size(x) \in Nat /\ Percents(x) \in Int
         /\ \A v \in Committee(x) : Size(x) # 0 /\ Newest(x, v).sync \in Int
<1>1. IsFiniteSet(Committee(x))
  BY FiniteAssumption, FS_Subset DEF Committee
<1>2. \A v \in Committee(x) : Newest(x, v).sync \in Int
  BY NewestType, RowColumns DEF Committee
<1>3. Size(x) \in Nat /\ (Size(x) = 0 <=> Committee(x) = {})
  BY <1>1, FS_CardinalityType, FS_EmptySet DEF Size
<1> DEFINE f == [v \in Committee(x) |-> Newest(x, v).sync]
<1>4. Percents(x) = Sum(f, Committee(x))
  BY DEF Percents, Total, Sum
<1>5. \A v \in Committee(x) : f[v] \in Int
  BY <1>2
<1> HIDE DEF f
<1>6. Percents(x) \in Int
  BY <1>1, <1>4, <1>5, SumInt
<1> QED
  BY <1>2, <1>3, <1>6

\* The average the query compares with is that of the committee of the last epoch.
LEMMA MeanOfCommittee ==
  ASSUME CalcInv, TableInv, epoch \in 1 .. epoch, Committee(epoch) # {}
  PROVE  SyncMean = <<Percents(epoch), Size(epoch)>>
<1> DEFINE U == {r \in RowSet : r.sync # Null}
           rows == Chosen(epoch, U)
<1>1. {v \in Validators : epoch \in 1 .. epoch /\ Newest(epoch, v) \in U} = Committee(epoch)
  BY NewestType DEF Committee
<1>2. rows = [v \in Committee(epoch) |-> Newest(epoch, v)]
  BY <1>1 DEF Chosen
<1>3. SyncMean = Average(rows)
  BY DEF SyncMean
<1> HIDE DEF rows
<1>4. DOMAIN rows = Committee(epoch)
  BY <1>2
<1>5. [v \in DOMAIN rows |-> rows[v].sync] = [v \in Committee(epoch) |-> Newest(epoch, v).sync]
  BY <1>2, <1>4
<1>6. Average(rows) = <<Total([v \in DOMAIN rows |-> rows[v].sync]), Cardinality(DOMAIN rows)>>
  BY <1>4 DEF Average
<1> QED
  BY <1>3, <1>4, <1>5, <1>6 DEF Percents, Size

\* While the average is steady and not below the distance, the condition of the query is that of
\* the epoch of the row.
LEMMA ConditionOfEpoch ==
  ASSUME CalcInv, TableInv, task \in DOMAIN SyncTasks, task \notin DOMAIN AttestationTasks,
         SteadyAverage, AverageInReach,
         epoch \in 1 .. epoch, NEW v \in Committee(epoch), NEW x \in Window(epoch), Stored(x), v \in Committee(x)
  PROVE  Meets(Newest(x, v)) <=> (CountTask.condition = "bad" <=> BelowAverage(x, Newest(x, v)))
<1> DEFINE p == Newest(x, v).sync
           n == Size(epoch)
           t == Percents(epoch)
<1>1. x \in 1 .. epoch
  BY DEF Stored
<1>2. n \in Nat \ {0} /\ t \in Int /\ Size(x) \in Nat \ {0} /\ Percents(x) \in Int /\ p \in Int /\ p # Null
  BY <1>1, CommitteeType DEF Committee
<1>3. Percents(x) * n = t * Size(x) /\ Distance * n <= t /\ Distance \in Nat
  BY DistanceAssumption DEF SteadyAverage, AverageInReach
<1>4. SyncMean = <<t, n>>
  BY MeanOfCommittee
<1>5. CountTask.condition \in {"good", "bad"}
  BY DEF CountTask, SyncTasks, LastN
<1>6. Meets(Newest(x, v)) <=> SyncCondition(CountTask.condition, Newest(x, v), <<t, n>>, Distance)
  BY <1>4 DEF Meets
<1> HIDE DEF n, t
<1>7. BelowAverage(x, Newest(x, v)) <=> p * n < t - Distance * n
  BY <1>2, <1>3, EqualFractions DEF BelowAverage
<1>8. Distance * n \in Int /\ p * n \in Int
  BY <1>2, <1>3
<1>9. Abs(t - Distance * n) = t - Distance * n
  BY <1>2, <1>3, <1>8 DEF Abs
<1>10. BadSync(Newest(x, v), <<t, n>>, Distance) <=> p * n < t - Distance * n
  BY <1>9 DEF BadSync
<1>11. GoodSync(Newest(x, v), <<t, n>>, Distance) <=> p * n >= t - Distance * n
  BY DEF GoodSync
<1>12. p * n >= t - Distance * n <=> ~ (p * n < t - Distance * n)
  BY <1>2, <1>8
<1>13. SyncCondition(CountTask.condition, Newest(x, v), <<t, n>>, Distance)
         <=> IF CountTask.condition = "good" THEN GoodSync(Newest(x, v), <<t, n>>, Distance)
             ELSE BadSync(Newest(x, v), <<t, n>>, Distance)
  BY <1>2 DEF SyncCondition
<1> QED
  BY <1>5, <1>6, <1>7, <1>10, <1>11, <1>12, <1>13

\* What CountedInARow counts are the validators that met the condition of the query.
LEMMA ReferenceIsMet ==
  ASSUME CalcInv, TableInv, EqualInv, task \in Counting, Shown("user"), clean = "yes", SteadyAverage, AverageInReach,
         NEW o
  PROVE  Reference(o) = Cardinality(Met(o))
<1> DEFINE c == CountTask.condition
           Condition(x, r) ==
             IF task \in DOMAIN AttestationTasks THEN AttestationCondition(c, r)
             ELSE IF task \in DOMAIN SyncTasks THEN r.sync # Null /\ (c = "bad" <=> BelowAverage(x, r))
             ELSE r.proposed = c
           Is(x, v) == Stored(x) /\ Newest(x, v).owner = o /\ Newest(x, v).stuck = 0
           In(v) == \A x \in Window(epoch) : Is(x, v) /\ Condition(x, Newest(x, v))
<1>1. \A x \in Window(epoch) : x \in Int /\ x <= epoch
  BY CountWindow
<1>2. epoch \in Window(epoch)
  BY CountWindow
<1>3. Reference(o) = Cardinality({v \in Validators : (high = {} \/ v \in high) /\ In(v)})
  BY DEF Reference, InEach
<1>4. ASSUME NEW v \in Validators, NEW x \in Window(epoch)
      PROVE  Is(x, v) /\ Meets(Newest(x, v)) <=> v \in Owned(Chosen(x, Wanted), o)
  <2>1. Stored(x) => Newest(x, v) \in RowSet
    BY NewestType DEF Stored
  <2>2. v \in Owned(Chosen(x, Wanted), o) <=> x \in 1 .. epoch /\ Newest(x, v) \in Wanted /\ Newest(x, v).owner = o
    BY DEF Owned, Chosen
  <2> QED
    BY <2>1, <2>2 DEF Stored, Wanted
<1>5. ASSUME NEW v \in Validators
      PROVE  In(v) <=> \A x \in Window(epoch) : Is(x, v) /\ Meets(Newest(x, v))
  <2>1. CASE task \in DOMAIN AttestationTasks \/ task \notin DOMAIN SyncTasks
    BY <2>1 DEF Meets
  <2>2. CASE task \in DOMAIN SyncTasks /\ task \notin DOMAIN AttestationTasks
    <3>1. \A x : Meets(Newest(x, v)) => Newest(x, v).sync # Null
      BY <2>2 DEF Meets, SyncCondition
    <3>2. \A x : Condition(x, Newest(x, v)) <=> Newest(x, v).sync # Null /\ (c = "bad" <=> BelowAverage(x, Newest(x, v)))
      BY <2>2
    <3>3. CASE epoch \in 1 .. epoch /\ v \in Committee(epoch)
      <4>1. ASSUME NEW x \in Window(epoch), Stored(x), Newest(x, v).sync # Null
            PROVE  Meets(Newest(x, v)) <=> (c = "bad" <=> BelowAverage(x, Newest(x, v)))
        BY <2>2, <3>3, <4>1, ConditionOfEpoch DEF Committee
      <4> HIDE DEF c, Condition
      <4> QED
        BY <3>1, <3>2, <4>1
    <3>4. CASE ~ (epoch \in 1 .. epoch /\ v \in Committee(epoch))
      <4>1. Stored(epoch) => Newest(epoch, v).sync = Null
        BY <3>4 DEF Stored, Committee
      <4> HIDE DEF c, Condition
      <4> QED
        BY <1>2, <3>1, <3>2, <4>1
    <3> QED
      BY <3>3, <3>4
  <2> QED
    BY <2>1, <2>2
<1>6. {v \in Validators : (high = {} \/ v \in high) /\ In(v)} = Met(o)
  BY <1>4, <1>5 DEF Met
<1> QED
  BY <1>3, <1>6

TableAllInv == CalcInv /\ TableInv /\ EqualInv

\* The table is as it should be.
LEMMA TableAlways == Spec => []TableAllInv
<1>1. Init => TableAllInv
  <2> SUFFICES ASSUME Init PROVE TableAllInv
    OBVIOUS
  <2>1. CalcInv
    BY PhaseType DEF Init, CalcInv
  <2>2. TableInv
    <3>1. epoch = 0 /\ DOMAIN table = {}
      BY DEF Init
    <3> QED
      BY <3>1 DEF TableInv
  <2>3. EqualInv
    BY PhaseType DEF Init, EqualInv, Shown
  <2> QED
    BY <2>1, <2>2, <2>3 DEF TableAllInv
<1>2. TableAllInv /\ [Next]_vars => TableAllInv'
  BY CalcStep, TableStep, EqualStep DEF TableAllInv
<1> QED
  BY <1>1, <1>2, PTL DEF Spec

\* The counts of the last epochs are right for any number of validators, any interval, any
\* condition and any attempts that left duplicates: getValidatorCountWithMissedAttestationsLastNEpoch
\* and its kin, set by setUserOperatorsMetric and setOtherOperatorsMetric.
THEOREM CountsAreInARow == Spec => []CountedInARow
<1>1. Init => CountInv
  BY PhaseType DEF Init, CountInv, Shown
<1>2. TableAllInv /\ CountInv /\ [Next]_vars => CountInv'
  BY CountStep DEF TableAllInv
<1>3. TableAllInv /\ CountInv => CountedInARow
  BY ReferenceIsMet, OtherTasksCount DEF TableAllInv, CountInv, CountedInARow, Counted, CountsRight
<1> QED
  BY <1>1, <1>2, <1>3, TableAlways, PTL DEF Spec

(***************************************************************************)
(* Statuses.                                                               *)
(***************************************************************************)
\* Newest rows of the epoch of the metrics
Now == [v \in Validators |-> Newest(epoch, v)]
Ours == {v \in Validators : Newest(epoch, v).owner # Other}
OfModuleNow(m) == {v \in Ours : ModuleOf[Newest(epoch, v).owner] = m}

StatFields == {"ongoing", "pending", "slashed", "withdrawPending", "withdrawn", "stuck"}

\* What a row has to be for the gauge f to count it
Bucket(f, r) ==
  IF f = "ongoing" THEN r.status = "active_ongoing"
  ELSE IF f = "pending" THEN r.status \in {"pending_queued", "pending_initialized"}
  ELSE IF f = "slashed" THEN r.status \in {"active_slashed", "exited_slashed"} \/ r.slashed = 1
  ELSE IF f = "withdrawPending" THEN WithdrawPending(r)
  ELSE IF f = "withdrawn" THEN r.status = "withdrawal_done" \/ (r.status = "withdrawal_possible" /\ r.balance = 0)
  ELSE r.stuck = 1

StatsInv ==
  task = "stats" /\ clean = "yes" =>
    /\ Shown("user") => \A o \in DOMAIN list : Gauge(o) = StatusCounts(Now, Rows(o))
    /\ Shown("other") => other = [f \in StatFields \ {"stuck"} |-> StatusCounts(Now, Rows(Other))[f]]
    /\ Shown("module") =>
         \A m \in Modules : OfModuleNow(m) # {} => module[m] = StatusCounts(Now, OfModuleNow(m))

\* The counts of statuses, gauge by gauge.
LEMMA StatusCountsIs ==
  ASSUME NEW rows, NEW S
  PROVE  StatusCounts(rows, S) = [f \in StatFields |-> Cardinality({v \in S : Bucket(f, rows[v])})]
<1>1. /\ {v \in S : Bucket("ongoing", rows[v])} = {v \in S : rows[v].status = "active_ongoing"}
      /\ {v \in S : Bucket("pending", rows[v])}
           = {v \in S : rows[v].status \in {"pending_queued", "pending_initialized"}}
      /\ {v \in S : Bucket("slashed", rows[v])}
           = {v \in S : rows[v].status \in {"active_slashed", "exited_slashed"} \/ rows[v].slashed = 1}
      /\ {v \in S : Bucket("withdrawPending", rows[v])} = {v \in S : WithdrawPending(rows[v])}
      /\ {v \in S : Bucket("withdrawn", rows[v])}
           = {v \in S : rows[v].status = "withdrawal_done"
                          \/ (rows[v].status = "withdrawal_possible" /\ rows[v].balance = 0)}
      /\ {v \in S : Bucket("stuck", rows[v])} = {v \in S : rows[v].stuck = 1}
  BY DEF Bucket
<1>2. StatusCounts(rows, S) =
        [ongoing |-> Cardinality({v \in S : Bucket("ongoing", rows[v])}),
         pending |-> Cardinality({v \in S : Bucket("pending", rows[v])}),
         slashed |-> Cardinality({v \in S : Bucket("slashed", rows[v])}),
         withdrawPending |-> Cardinality({v \in S : Bucket("withdrawPending", rows[v])}),
         withdrawn |-> Cardinality({v \in S : Bucket("withdrawn", rows[v])}),
         stuck |-> Cardinality({v \in S : Bucket("stuck", rows[v])})]
  BY <1>1 DEF StatusCounts
<1> QED
  BY <1>2 DEF StatFields

\* The same rows have the same counts.
LEMMA StatusCountsSame ==
  ASSUME NEW rows, NEW others, NEW S, \A v \in S : rows[v] = others[v]
  PROVE  StatusCounts(rows, S) = StatusCounts(others, S)
<1>1. \A f \in StatFields : {v \in S : Bucket(f, rows[v])} = {v \in S : Bucket(f, others[v])}
  OBVIOUS
<1> QED
  BY <1>1, StatusCountsIs

\* There is nothing to count of no rows.
LEMMA StatusCountsZero ==
  ASSUME NEW rows, task = "stats"
  PROVE  Zero = StatusCounts(rows, {})
<1>1. Zero = StatusCounts(<<>>, {})
  BY Zenon DEF Zero
<1>2. StatusCounts(<<>>, {}) = StatusCounts(rows, {})
  BY StatusCountsSame
<1> QED
  BY <1>1, <1>2

\* Two sets without a common element.
LEMMA CountUnion ==
  ASSUME NEW A, NEW B, IsFiniteSet(A), IsFiniteSet(B), A \cap B = {}
  PROVE  IsFiniteSet(A \cup B) /\ Cardinality(A \cup B) = Cardinality(A) + Cardinality(B)
<1>1. Cardinality(A) \in Nat /\ Cardinality(B) \in Nat
  BY FS_CardinalityType
<1>2. IsFiniteSet(A \cup B) /\ Cardinality(A \cup B) = Cardinality(A) + Cardinality(B) - Cardinality(A \cap B)
  BY FS_Union
<1>3. Cardinality(A \cap B) = 0
  BY FS_EmptySet
<1> QED
  BY <1>1, <1>2, <1>3

\* Every status but active_slashed is counted once.
LEMMA OneBucket ==
  ASSUME NEW S, IsFiniteSet(S), NEW rows, \A v \in S : rows[v].status \in Statuses, NEW g,
         \A f \in StatFields \ {"stuck"} : g[f] = StatusCounts(rows, S)[f]
  PROVE  g.ongoing + g.pending + g.withdrawPending + g.withdrawn
           = Cardinality({v \in S : rows[v].status # "active_slashed"})
<1> DEFINE B == [f \in StatFields |-> {v \in S : Bucket(f, rows[v])}]
           L == B["ongoing"] \cup B["pending"]
           R == B["withdrawPending"] \cup B["withdrawn"]
           U == {v \in S : rows[v].status # "active_slashed"}
<1>1. \A f \in StatFields : StatusCounts(rows, S)[f] = Cardinality(B[f])
  BY StatusCountsIs
<1>2. /\ g.ongoing = Cardinality(B["ongoing"]) /\ g.pending = Cardinality(B["pending"])
      /\ g.withdrawPending = Cardinality(B["withdrawPending"]) /\ g.withdrawn = Cardinality(B["withdrawn"])
  BY <1>1 DEF StatFields
<1>3. \A f \in StatFields : IsFiniteSet(B[f]) /\ Cardinality(B[f]) \in Nat
  BY FS_Subset, FS_CardinalityType
<1>b. /\ B["ongoing"] = {v \in S : rows[v].status = "active_ongoing"}
      /\ B["pending"] = {v \in S : rows[v].status \in {"pending_queued", "pending_initialized"}}
      /\ B["withdrawPending"] = {v \in S : \/ rows[v].status \in {"active_exiting", "exited_unslashed", "exited_slashed"}
                                           \/ rows[v].status = "withdrawal_possible" /\ rows[v].balance # 0}
      /\ B["withdrawn"] = {v \in S : \/ rows[v].status = "withdrawal_done"
                                     \/ rows[v].status = "withdrawal_possible" /\ rows[v].balance = 0}
  BY DEF Bucket, StatFields, WithdrawPending, Leaving
<1>f. /\ IsFiniteSet(B["ongoing"]) /\ IsFiniteSet(B["pending"])
      /\ IsFiniteSet(B["withdrawPending"]) /\ IsFiniteSet(B["withdrawn"])
      /\ Cardinality(B["ongoing"]) \in Nat /\ Cardinality(B["pending"]) \in Nat
      /\ Cardinality(B["withdrawPending"]) \in Nat /\ Cardinality(B["withdrawn"]) \in Nat
  BY <1>3 DEF StatFields
<1> HIDE DEF B
<1>4. B["ongoing"] \cap B["pending"] = {} /\ B["withdrawPending"] \cap B["withdrawn"] = {} /\ L \cap R = {}
  BY <1>b
<1>5. L \cup R = U
  BY <1>b DEF Statuses
<1>6. IsFiniteSet(L) /\ Cardinality(L) = Cardinality(B["ongoing"]) + Cardinality(B["pending"])
  BY <1>4, <1>f, CountUnion
<1>7. IsFiniteSet(R) /\ Cardinality(R) = Cardinality(B["withdrawPending"]) + Cardinality(B["withdrawn"])
  BY <1>4, <1>f, CountUnion
<1> HIDE DEF L, R, U
<1>8. Cardinality(L \cup R) = Cardinality(L) + Cardinality(R)
  BY <1>4, <1>6, <1>7, CountUnion
<1>9. Cardinality(U) = Cardinality(B["ongoing"]) + Cardinality(B["pending"])
                         + (Cardinality(B["withdrawPending"]) + Cardinality(B["withdrawn"]))
  BY <1>5, <1>6, <1>7, <1>8
<1> QED
  BY <1>2, <1>9, <1>f DEF U

\* The rows chosen of the epoch of the metrics, by the validators they are of.
LEMMA ChosenNow ==
  ASSUME CalcInv, TableInv, epoch > 0, Equal(epoch), NEW newest \in BOOLEAN, NEW W
  PROVE  /\ DOMAIN Limit1(epoch, W, newest) = {v \in Validators : Newest(epoch, v) \in W}
         /\ \A v \in DOMAIN Limit1(epoch, W, newest) : Limit1(epoch, W, newest)[v] = Now[v] /\ Now[v] = Newest(epoch, v)
<1>1. epoch \in Int /\ epoch <= epoch /\ epoch \in 1 .. epoch
  BY DEF CalcInv
<1>2. Limit1(epoch, W, newest) = Chosen(epoch, W)
  BY <1>1, Selecting
<1> QED
  BY <1>1, <1>2 DEF Chosen, Now

\* The epoch of the metrics is in every window.
LEMMA EpochInWindow == CalcInv => epoch \in Window(epoch)
<1> SUFFICES ASSUME CalcInv PROVE epoch \in Window(epoch)
  OBVIOUS
<1>1. CASE task \in Counting
  BY <1>1, CountWindow
<1>2. CASE task \notin Counting
  BY <1>2, WindowsAssumption DEF CalcInv, Window
<1> QED
  BY <1>1, <1>2

\* The gauges of the statuses by operator.
LEMMA UserStats ==
  ASSUME CalcInv, TableInv, epoch > 0, Equal(epoch), NEW newest \in BOOLEAN, task = "stats",
         NEW o \in Operators, NEW data, data = Query(epoch, newest)
  PROVE  (IF o \in DOMAIN data THEN data[o] ELSE Zero) = StatusCounts(Now, Rows(o))
<1> DEFINE W == {r \in AllRows(epoch) : r.owner # Other}
           rows == Limit1(epoch, W, newest)
<1>t. task \notin DOMAIN AttestationTasks /\ task \notin DOMAIN SyncTasks /\ task \notin DOMAIN ProposeTasks
  BY DEF AttestationTasks, SyncTasks, ProposeTasks
<1>1. data = [p \in Present(rows) |-> StatusCounts(rows, Owned(rows, p))]
  <2>1. Query(epoch, newest) = UserNodeOperatorsStats(epoch, newest)
    BY Zenon, <1>t DEF Query
  <2> QED
    BY <2>1 DEF UserNodeOperatorsStats
<1>2. \A v \in Validators : Newest(epoch, v) \in W <=> Newest(epoch, v).owner # Other
  BY ChosenRows DEF CalcInv
<1> HIDE DEF W
<1>3. /\ DOMAIN rows = {v \in Validators : Newest(epoch, v) \in W}
      /\ \A v \in DOMAIN rows : rows[v] = Now[v] /\ Now[v] = Newest(epoch, v)
  BY ChosenNow
<1> HIDE DEF rows
<1>4. o # Other
  BY OwnersAssumption
<1>5. Owned(rows, o) = Rows(o)
  BY <1>2, <1>3, <1>4 DEF Owned, Rows
<1>6. o \in Present(rows) <=> Owned(rows, o) # {}
  BY DEF Present, Owned
<1>7. StatusCounts(rows, Owned(rows, o)) = StatusCounts(Now, Owned(rows, o))
  <2>1. \A v \in Owned(rows, o) : rows[v] = Now[v]
    BY <1>3 DEF Owned
  <2> QED
    BY <2>1, StatusCountsSame
<1>8. Zero = StatusCounts(Now, {})
  BY StatusCountsZero
<1>9. CASE o \in Present(rows)
  BY <1>1, <1>5, <1>7, <1>9
<1>10. CASE o \notin Present(rows)
  <2>1. Rows(o) = {}
    BY <1>5, <1>6, <1>10
  <2>2. o \notin DOMAIN data
    BY <1>1, <1>10
  <2> QED
    BY <1>8, <2>1, <2>2
<1> QED
  BY <1>9, <1>10

\* The gauges of the statuses of the other validators.
LEMMA OtherStats ==
  ASSUME CalcInv, TableInv, epoch > 0, Equal(epoch), NEW newest \in BOOLEAN, task = "stats"
  PROVE  OtherQuery(epoch, newest) = [f \in StatFields \ {"stuck"} |-> StatusCounts(Now, Rows(Other))[f]]
<1> DEFINE W == {r \in AllRows(epoch) : r.owner = Other}
           rows == Limit1(epoch, W, newest)
           counts == StatusCounts(rows, DOMAIN rows)
<1>1. OtherQuery(epoch, newest) = [f \in DOMAIN counts \ {"stuck"} |-> counts[f]]
  <2>1. OtherQuery(epoch, newest) = OtherValidatorsSummaryStats(epoch, newest)
    BY Zenon DEF OtherQuery
  <2> QED
    BY <2>1 DEF OtherValidatorsSummaryStats
<1>2. \A v \in Validators : Newest(epoch, v) \in W <=> Newest(epoch, v).owner = Other
  BY ChosenRows DEF CalcInv
<1> HIDE DEF W
<1>3. /\ DOMAIN rows = {v \in Validators : Newest(epoch, v) \in W}
      /\ \A v \in DOMAIN rows : rows[v] = Now[v]
  BY ChosenNow
<1>4. DOMAIN rows = Rows(Other)
  BY <1>2, <1>3 DEF Rows
<1> HIDE DEF rows
<1>5. counts = StatusCounts(Now, Rows(Other))
  BY <1>3, <1>4, StatusCountsSame
<1>6. DOMAIN counts = StatFields
  BY StatusCountsIs
<1> HIDE DEF counts
<1> QED
  BY <1>1, <1>5, <1>6

\* The gauges of the statuses by module.
LEMMA ModuleStats ==
  ASSUME CalcInv, TableInv, epoch > 0, Equal(epoch), NEW newest \in BOOLEAN, task = "stats",
         NEW m \in Modules, OfModuleNow(m) # {}
  PROVE  /\ m \in DOMAIN ModuleQuery(epoch, newest)
         /\ ModuleQuery(epoch, newest)[m] = StatusCounts(Now, OfModuleNow(m))
<1> DEFINE W == {r \in AllRows(epoch) : r.owner # Other}
           rows == Limit1(epoch, W, newest)
<1>1. ModuleQuery(epoch, newest) = [k \in PresentModules(rows) |-> StatusCounts(rows, OfModule(rows, k))]
  <2>1. ModuleQuery(epoch, newest) = UserValidatorsSummaryStats(epoch, newest)
    BY Zenon DEF ModuleQuery
  <2> QED
    BY <2>1 DEF UserValidatorsSummaryStats
<1>2. \A v \in Validators : Newest(epoch, v) \in W <=> Newest(epoch, v).owner # Other
  BY ChosenRows DEF CalcInv
<1> HIDE DEF W
<1>3. /\ DOMAIN rows = {v \in Validators : Newest(epoch, v) \in W}
      /\ \A v \in DOMAIN rows : rows[v] = Now[v] /\ Now[v] = Newest(epoch, v)
  BY ChosenNow
<1> HIDE DEF rows
<1>4. OfModule(rows, m) = OfModuleNow(m)
  BY <1>2, <1>3 DEF OfModule, OfModuleNow, Ours
<1>5. m \in PresentModules(rows)
  BY <1>4 DEF OfModule, PresentModules, Present
<1>6. StatusCounts(rows, OfModule(rows, m)) = StatusCounts(Now, OfModule(rows, m))
  <2>1. \A v \in OfModule(rows, m) : rows[v] = Now[v]
    BY <1>3 DEF OfModule
  <2> QED
    BY <2>1, StatusCountsSame
<1> QED
  BY <1>1, <1>4, <1>5, <1>6

\* The newest rows of the epoch of the metrics stay while the epoch does.
LEMMA NowStays ==
  ASSUME CalcInv, epoch > 0, epoch' = epoch,
         \A e \in 1 .. epoch : \A v \in Validators : Newest(e, v)' = Newest(e, v)
  PROVE  /\ Now' = Now /\ \A o : Rows(o)' = Rows(o)
         /\ \A m : OfModuleNow(m)' = OfModuleNow(m)
<1>1. epoch \in 1 .. epoch
  BY DEF CalcInv
<1>2. \A v \in Validators : Newest(epoch, v)' = Newest(epoch, v)
  BY <1>1
<1>3. Now' = Now
  BY <1>2 DEF Now
<1>4. \A o : Rows(o)' = Rows(o)
  BY <1>2 DEF Rows
<1>5. Ours' = Ours
  BY <1>2 DEF Ours
<1>6. \A v \in Ours : Newest(epoch, v)' = Newest(epoch, v)
  BY <1>2 DEF Ours
<1>7. \A m : OfModuleNow(m)' = OfModuleNow(m)
  BY <1>5, <1>6 DEF OfModuleNow
<1> QED
  BY <1>3, <1>4, <1>7

\* Gauges are shown of an epoch that is stored.
LEMMA ShownEpoch ==
  ASSUME CalcInv, [Next]_vars, NEW part, Shown(part)', epoch' = epoch
  PROVE  epoch > 0
<1>1. CalcInv' /\ Phase' \in {"duties", "summary"}
  BY CalcStep, PhaseType DEF Phase
<1> QED
  BY <1>1 DEF CalcInv, Shown

\* Each step keeps StatsInv.
LEMMA StatsStep ==
  ASSUME CalcInv, TableInv, StatsInv, [Next]_vars
  PROVE  StatsInv'
<1>0. task' = task
  BY DEF vars, Next, Attempt, Store, Merge, SetUser, SetModule, SetOther, QueryFails, DutiesDone,
         DutiesFail, SummaryDone, SummaryFails, Crash
<1> SUFFICES ASSUME task = "stats", clean' = "yes"
             PROVE  /\ Shown("user")' => \A o \in DOMAIN list' : Gauge(o)' = StatusCounts(Now, Rows(o))'
                    /\ Shown("other")' => other' = [f \in StatFields \ {"stuck"} |-> StatusCounts(Now, Rows(Other))[f]]'
                    /\ Shown("module")' =>
                         \A m \in Modules : OfModuleNow(m)' # {} => module'[m] = StatusCounts(Now, OfModuleNow(m))'
  BY <1>0 DEF StatsInv
<1>n. \A e \in 1 .. epoch : \A v \in Validators : Newest(e, v)' = Newest(e, v)
  BY TableStep
<1>r. ASSUME Read, epoch > 0
      PROVE  /\ Equal(epoch) /\ UNCHANGED <<list, epoch>>
             /\ Now' = Now /\ (\A o : Rows(o)' = Rows(o)) /\ \A m : OfModuleNow(m)' = OfModuleNow(m)
  BY <1>r, <1>n, NowStays, EpochInWindow DEF Read
<1>k. ASSUME NEW part, Kept(part), epoch > 0
      PROVE  Now' = Now /\ (\A o : Rows(o)' = Rows(o)) /\ \A m : OfModuleNow(m)' = OfModuleNow(m)
  BY <1>k, <1>n, NowStays DEF Kept
<1>1. ASSUME Shown("user")' PROVE \A o \in DOMAIN list' : Gauge(o)' = StatusCounts(Now, Rows(o))'
  <2>1. ASSUME NEW newest \in BOOLEAN, SetsUser(newest)
        PROVE  \A o \in DOMAIN list' : Gauge(o)' = StatusCounts(Now, Rows(o))'
    <3> DEFINE data == Query(epoch, newest)
    <3>1. epoch > 0
      BY <1>1, <2>1, ShownEpoch DEF SetsUser, Read
    <3>2. /\ Equal(epoch) /\ UNCHANGED <<list, epoch>>
          /\ Now' = Now /\ (\A o : Rows(o)' = Rows(o))
      BY <1>r, <2>1, <3>1 DEF SetsUser
    <3>3. DOMAIN list \subseteq Operators
      BY ListsAssumption DEF CalcInv
    <3>4. user' = SetUserOperatorsMetric(user, data)
      BY <2>1 DEF SetsUser
    <3>5. \A o \in Operators : (IF o \in DOMAIN data THEN data[o] ELSE Zero) = StatusCounts(Now, Rows(o))
      BY <3>1, <3>2, UserStats
    <3> HIDE DEF data
    <3>6. \A o \in DOMAIN list : user'[<<o, list[o]>>] = IF o \in DOMAIN data THEN data[o] ELSE Zero
      BY <3>4, GaugesSet
    <3>7. \A o \in DOMAIN list : user'[<<o, list[o]>>] = StatusCounts(Now, Rows(o))
      BY <3>3, <3>5, <3>6
    <3> QED
      BY <3>2, <3>7 DEF Gauge
  <2>2. ASSUME Kept("user") PROVE \A o \in DOMAIN list' : Gauge(o)' = StatusCounts(Now, Rows(o))'
    <3>1. epoch > 0
      BY <1>1, <2>2, ShownEpoch DEF Kept
    <3>2. Now' = Now /\ \A o : Rows(o)' = Rows(o)
      BY <1>k, <2>2, <3>1
    <3>3. \A o : Gauge(o)' = Gauge(o)
      BY <2>2 DEF Kept, Gauge
    <3> QED
      BY <2>2, <3>2, <3>3 DEF Kept, StatsInv
  <2> QED
    BY <1>1, <2>1, <2>2, ShownStays
<1>2. ASSUME Shown("other")'
      PROVE  other' = [f \in StatFields \ {"stuck"} |-> StatusCounts(Now, Rows(Other))[f]]'
  <2>1. ASSUME NEW newest \in BOOLEAN, SetsOther(newest)
        PROVE  other' = [f \in StatFields \ {"stuck"} |-> StatusCounts(Now, Rows(Other))[f]]'
    <3>1. epoch > 0
      BY <1>2, <2>1, ShownEpoch DEF SetsOther, Read
    <3>2. Equal(epoch) /\ Now' = Now /\ Rows(Other)' = Rows(Other)
      BY <1>r, <2>1, <3>1 DEF SetsOther
    <3>3. OtherQuery(epoch, newest) = [f \in StatFields \ {"stuck"} |-> StatusCounts(Now, Rows(Other))[f]]
      BY <3>1, <3>2, OtherStats
    <3> QED
      BY <2>1, <3>2, <3>3 DEF SetsOther
  <2>2. ASSUME Kept("other")
        PROVE  other' = [f \in StatFields \ {"stuck"} |-> StatusCounts(Now, Rows(Other))[f]]'
    <3>1. epoch > 0
      BY <1>2, <2>2, ShownEpoch DEF Kept
    <3>2. Now' = Now /\ Rows(Other)' = Rows(Other)
      BY <1>k, <2>2, <3>1
    <3> QED
      BY <2>2, <3>2 DEF Kept, StatsInv
  <2> QED
    BY <1>2, <2>1, <2>2, ShownStays
<1>3. ASSUME Shown("module")', NEW m \in Modules, OfModuleNow(m)' # {}
      PROVE  module'[m] = StatusCounts(Now, OfModuleNow(m))'
  <2>1. ASSUME NEW newest \in BOOLEAN, SetsModule(newest) PROVE module'[m] = StatusCounts(Now, OfModuleNow(m))'
    <3>1. epoch > 0
      BY <1>3, <2>1, ShownEpoch DEF SetsModule, Read
    <3>2. Equal(epoch) /\ Now' = Now /\ OfModuleNow(m)' = OfModuleNow(m)
      BY <1>r, <2>1, <3>1 DEF SetsModule
    <3>3. /\ m \in DOMAIN ModuleQuery(epoch, newest)
          /\ ModuleQuery(epoch, newest)[m] = StatusCounts(Now, OfModuleNow(m))
      BY <1>3, <3>1, <3>2, ModuleStats
    <3>4. module'[m] = ModuleQuery(epoch, newest)[m]
      BY <2>1, <3>3 DEF SetsModule, SetModulesMetric
    <3> QED
      BY <3>2, <3>3, <3>4
  <2>2. ASSUME Kept("module") PROVE module'[m] = StatusCounts(Now, OfModuleNow(m))'
    <3>1. epoch > 0
      BY <1>3, <2>2, ShownEpoch DEF Kept
    <3>2. Now' = Now /\ OfModuleNow(m)' = OfModuleNow(m)
      BY <1>k, <2>2, <3>1
    <3> QED
      BY <1>3, <2>2, <3>2 DEF Kept, StatsInv
  <2> QED
    BY <1>3, <2>1, <2>2, ShownStays
<1> QED
  BY <1>1, <1>2, <1>3

\* The statuses shown are those of the newest rows.
LEMMA StatsAlways == Spec => [](TableAllInv /\ StatsInv)
<1>1. Init => StatsInv
  BY PhaseType DEF Init, StatsInv, Shown
<1>2. TableAllInv /\ StatsInv /\ [Next]_vars => StatsInv'
  BY StatsStep DEF TableAllInv
<1> QED
  BY <1>1, <1>2, TableAlways, PTL DEF Spec

\* Each validator is counted once by the gauges of its operator's statuses, or is slashed and still
\* active, whatever its life: the statuses of getUserNodeOperatorsStats and otherValidatorsSummaryStats.
THEOREM ValidatorsAreCounted == Spec => []EveryValidatorCounted
<1>1. TableAllInv /\ StatsInv => EveryValidatorCounted
  <2> SUFFICES ASSUME CalcInv, TableInv, StatsInv, task = "stats", clean = "yes"
               PROVE  /\ Shown("user") => \A o \in DOMAIN list : InOneBucket(Gauge(o), Rows(o))
                      /\ Shown("other") => InOneBucket(other, Rows(Other))
    BY DEF EveryValidatorCounted, TableAllInv
  <2>0. ASSUME NEW part, Shown(part) PROVE epoch \in 1 .. epoch
    BY <2>0, PhaseType DEF Shown, CalcInv
  <2>1. ASSUME NEW S \in SUBSET Validators, NEW g, epoch \in 1 .. epoch,
               \A f \in StatFields \ {"stuck"} : g[f] = StatusCounts(Now, S)[f]
        PROVE  InOneBucket(g, S)
    <3>1. IsFiniteSet(S)
      BY FiniteAssumption, FS_Subset
    <3>2. \A v \in S : Now[v] = Newest(epoch, v) /\ Now[v].status \in Statuses
      BY <2>1, NewestColumns DEF Now
    <3>3. g.ongoing + g.pending + g.withdrawPending + g.withdrawn
            = Cardinality({v \in S : Now[v].status # "active_slashed"})
      BY <2>1, <3>1, <3>2, OneBucket
    <3>4. {v \in S : Now[v].status # "active_slashed"} = {v \in S : Newest(epoch, v).status # "active_slashed"}
      BY <3>2
    <3> QED
      BY <3>3, <3>4 DEF InOneBucket
  <2>2. \A o : Rows(o) \in SUBSET Validators
    BY DEF Rows
  <2>3. ASSUME Shown("user"), NEW o \in DOMAIN list PROVE InOneBucket(Gauge(o), Rows(o))
    <3>1. Gauge(o) = StatusCounts(Now, Rows(o)) /\ epoch \in 1 .. epoch
      BY <2>0, <2>3 DEF StatsInv
    <3> QED
      BY <2>1, <2>2, <3>1
  <2>4. ASSUME Shown("other") PROVE InOneBucket(other, Rows(Other))
    <3>1. other = [f \in StatFields \ {"stuck"} |-> StatusCounts(Now, Rows(Other))[f]] /\ epoch \in 1 .. epoch
      BY <2>0, <2>4 DEF StatsInv
    <3>2. \A f \in StatFields \ {"stuck"} : other[f] = StatusCounts(Now, Rows(Other))[f]
      BY <3>1
    <3> QED
      BY <2>1, <2>2, <3>1, <3>2
  <2> QED
    BY <2>3, <2>4
<1> QED
  BY <1>1, StatsAlways, PTL

(***************************************************************************)
(* Balances.                                                               *)
(***************************************************************************)
\* The balance of an epoch is the one before with its rewards, less what was withdrawn.
BalanceInv ==
  \A e \in 2 .. epoch : \A v \in Validators :
    Newest(e, v).balance = Newest(e - 1, v).balance + Newest(e - 1, v).attReward
                             + Newest(e, v).propReward + Newest(e, v).syncReward - Newest(e, v).withdrawn

\* Each step keeps BalanceInv.
LEMMA BalanceStep ==
  ASSUME CalcInv, TableInv, BalanceInv, [Next]_vars
  PROVE  BalanceInv'
<1>n. \A e \in 1 .. epoch : \A v \in Validators : Newest(e, v)' = Newest(e, v)
  BY TableStep
<1>o. ASSUME NEW e \in 2 .. epoch, NEW v \in Validators
      PROVE  Newest(e, v)'.balance = Newest(e - 1, v)'.balance + Newest(e - 1, v)'.attReward
               + Newest(e, v)'.propReward + Newest(e, v)'.syncReward - Newest(e, v)'.withdrawn
  <2>1. e \in 1 .. epoch /\ e - 1 \in 1 .. epoch
    BY DEF CalcInv
  <2>2. Newest(e, v)' = Newest(e, v) /\ Newest(e - 1, v)' = Newest(e - 1, v)
    BY <1>n, <2>1
  <2> QED
    BY <2>2 DEF BalanceInv
<1>1. CASE epoch' = epoch
  BY <1>1, <1>o DEF BalanceInv
<1>2. CASE Store
  <2>1. PICK d \in [Validators -> Duties[task]] :
          table' = Appended(epoch + 1, [v \in Validators |-> Row(d[v], epoch + 1, v)])
    BY <1>2 DEF Store
  <2> DEFINE rows == [v \in Validators |-> Row(d[v], epoch + 1, v)]
  <2>3. d \in [Validators -> Duties[task] \cup FirstDuties[task]] /\ Validators \in SUBSET Validators
    BY <2>1
  <2>4. rows \in PartSet
    BY <2>3, PartType
  <2>d. DOMAIN rows = Validators /\ \A v \in Validators : rows[v] = Row(d[v], epoch + 1, v)
    OBVIOUS
  <2> HIDE DEF rows
  <2>5. table' = Appended(epoch + 1, rows)
    BY <2>1 DEF rows
  <2>6. /\ DOMAIN table' = DOMAIN table \cup {epoch + 1}
        /\ \A v \in DOMAIN rows : At(table'[epoch + 1], v) # {} /\ Last(table'[epoch + 1], v) = rows[v]
    BY <2>4, <2>5, AppendedTable
  <2>7. epoch' = epoch + 1
    BY <1>2 DEF Store
  <2>8. ASSUME NEW v \in Validators, NEW e \in Int, e = epoch + 1, e > 1
        PROVE  Newest(e, v)'.balance = Newest(e - 1, v)'.balance + Newest(e - 1, v)'.attReward
                 + Newest(e, v)'.propReward + Newest(e, v)'.syncReward - Newest(e, v)'.withdrawn
    <3> DEFINE r == Row(d[v], e, v)
    <3>1. Versions(e)' = table'[e]
      BY <2>6, <2>8 DEF Versions
    <3>2. Newest(e, v)' = r
      BY <2>6, <2>8, <2>d, <3>1, NewestIsLast
    <3>3. e - 1 \in 1 .. epoch
      BY <2>8 DEF CalcInv
    <3>b. Newest(e - 1, v)' = Newest(e - 1, v)
      BY <1>n, <3>3
    <3>4. Columns \subseteq DOMAIN d[v]
      BY <2>1, DutiesAssumption DEF CalcInv
    <3>5. /\ r.balance = Balance(d[v], e, v)
          /\ \A c \in Columns : r[c] = d[v][c]
      BY <3>4 DEF Row, Columns
    <3>6. r.propReward = d[v].propReward /\ r.syncReward = d[v].syncReward /\ r.withdrawn = d[v].withdrawn
      BY <3>5 DEF Columns
    <3>c. e # 1
      BY <2>8
    <3>7. Balance(d[v], e, v) = Newest(e - 1, v).balance + Newest(e - 1, v).attReward
                                  + d[v].propReward + d[v].syncReward - d[v].withdrawn
      BY <3>c DEF Balance
    <3> HIDE DEF r
    <3>8. r.balance = Newest(e - 1, v).balance + Newest(e - 1, v).attReward + r.propReward + r.syncReward - r.withdrawn
      BY <3>5, <3>6, <3>7
    <3> QED
      BY <3>2, <3>b, <3>8
  <2>9. ASSUME NEW e \in 2 .. epoch', e \notin 2 .. epoch PROVE e = epoch + 1 /\ e > 1 /\ e \in Int
    BY <2>7, <2>9 DEF CalcInv
  <2> QED
    BY <1>o, <2>8, <2>9 DEF BalanceInv
<1>3. Store \/ epoch' = epoch
  BY DEF vars, Next, Attempt, Merge, SetUser, SetModule, SetOther, QueryFails, DutiesDone,
         DutiesFail, SummaryDone, SummaryFails, Crash
<1> QED
  BY <1>1, <1>2, <1>3

\* A sum of a query is a sum.
LEMMA TotalIsSum ==
  ASSUME NEW f
  PROVE  Total(f) = Sum(f, DOMAIN f)
BY DEF Total, Sum

Paying == (epoch - DeltaEpochs + 1) .. epoch
WithdrawnIn(v) == [x \in Paying |-> Newest(x, v).withdrawn]
PaidTo(v) == Sum(WithdrawnIn(v), Paying)

\* The epochs of a window of a validator that is steady.
LEMMA SteadyRows ==
  ASSUME CalcInv, TableInv, NEW v \in Validators, Steady(v)
  PROVE  /\ epoch \in 1 .. epoch /\ epoch - DeltaEpochs \in 1 .. epoch /\ epoch - DeltaEpochs \in DeltaWindow
         /\ epoch \in DeltaWindow /\ IsFiniteSet(Paying) /\ Paying \subseteq DeltaWindow
         /\ \A x \in DeltaWindow : /\ x \in 1 .. epoch /\ IsUser(Newest(x, v)) /\ Performing(Newest(x, v))
                                   /\ Newest(x, v).owner = Newest(epoch, v).owner
         /\ \A x \in Paying : x - 1 \in DeltaWindow /\ x \in 2 .. epoch
<1>1. epoch \in Nat /\ DeltaEpochs \in Nat \ {0}
  BY WindowsAssumption DEF CalcInv
<1>2. \A x \in DeltaWindow : /\ x \in 1 .. epoch /\ IsUser(Newest(x, v)) /\ Performing(Newest(x, v))
                             /\ Newest(x, v).owner = Newest(epoch, v).owner
  BY DEF Steady, Stored
<1>3. epoch \in DeltaWindow /\ epoch - DeltaEpochs \in DeltaWindow /\ Paying \subseteq DeltaWindow
  BY <1>1 DEF DeltaWindow, Paying
<1>4. \A x \in Paying : x - 1 \in DeltaWindow
  BY <1>1 DEF DeltaWindow, Paying
<1>5. \A x \in Paying : x \in 2 .. epoch
  <2> SUFFICES ASSUME NEW x \in Paying PROVE x \in 2 .. epoch
    OBVIOUS
  <2>1. x \in 1 .. epoch /\ x - 1 \in 1 .. epoch
    BY <1>2, <1>3, <1>4
  <2> QED
    BY <2>1, <1>1
<1>6. epoch - DeltaEpochs + 1 \in Int /\ epoch \in Int
  BY <1>1
<1>7. IsFiniteSet(Paying)
  BY <1>6, FS_Interval DEF Paying
<1> QED
  BY <1>2, <1>3, <1>4, <1>5, <1>7

\* What a validator earned is the change of its balance, with what was withdrawn put back.
LEMMA EarnedIs ==
  ASSUME CalcInv, TableInv, BalanceInv, NEW v \in Validators, Steady(v)
  PROVE  /\ Earned(v) = Newest(epoch, v).balance - Newest(epoch - DeltaEpochs, v).balance + PaidTo(v)
         /\ Earned(v) \in Int /\ PaidTo(v) \in Int
<1> DEFINE g == [x \in DeltaWindow |-> Newest(x, v).balance]
           change == [x \in Paying |-> g[x] - g[x - 1]]
           earned == [x \in Paying |-> Newest(x - 1, v).attReward + Newest(x, v).propReward + Newest(x, v).syncReward]
           paid == WithdrawnIn(v)
<1>1. /\ epoch \in DeltaWindow /\ epoch - DeltaEpochs \in DeltaWindow /\ Paying \subseteq DeltaWindow /\ IsFiniteSet(Paying)
      /\ \A x \in DeltaWindow : x \in 1 .. epoch
      /\ \A x \in Paying : x - 1 \in DeltaWindow /\ x \in 2 .. epoch
  BY SteadyRows
<1>2. \A x \in DeltaWindow : /\ Newest(x, v).balance \in Int /\ Newest(x, v).attReward \in Int /\ Newest(x, v).propReward \in Int
                             /\ Newest(x, v).syncReward \in Int /\ Newest(x, v).withdrawn \in Int
  BY <1>1, NewestColumns
<1>3. \A x \in DeltaWindow : g[x] = Newest(x, v).balance /\ g[x] \in Int
  BY <1>2
<1>c. \A x \in Paying : change[x] = g[x] - g[x - 1]
  OBVIOUS
<1>e. DOMAIN earned = Paying /\ \A x \in Paying : earned[x] = Newest(x - 1, v).attReward + Newest(x, v).propReward + Newest(x, v).syncReward
  OBVIOUS
<1>p. \A x \in Paying : paid[x] = Newest(x, v).withdrawn /\ paid[x] \in Int
  BY <1>1, <1>2 DEF WithdrawnIn
<1> HIDE DEF g, change, earned, paid
<1>4. ASSUME NEW x \in Paying
      PROVE  change[x] \in Int /\ paid[x] \in Int /\ earned[x] = change[x] + paid[x] /\ earned[x] \in Int
  <2>1. /\ Newest(x, v).balance = Newest(x - 1, v).balance + Newest(x - 1, v).attReward
             + Newest(x, v).propReward + Newest(x, v).syncReward - Newest(x, v).withdrawn
    BY <1>1 DEF BalanceInv
  <2>2. x \in DeltaWindow /\ x - 1 \in DeltaWindow
    BY <1>1
  <2> QED
    BY <2>1, <2>2, <1>2, <1>3, <1>c, <1>e, <1>p
<1>5. Sum(earned, Paying) = Sum(change, Paying) + Sum(paid, Paying)
  BY <1>1, <1>4, SumAdd
<1>6. Sum(change, Paying) = g[epoch] - g[epoch - DeltaEpochs]
  <2>1. epoch \in Int /\ DeltaEpochs \in Nat
    BY WindowsAssumption DEF CalcInv
  <2>2. Changes(change, g, epoch, DeltaEpochs)
    BY <1>3, <1>c DEF DeltaWindow, Paying, Changes
  <2>3. Sum(change, (epoch - DeltaEpochs + 1) .. epoch) = g[epoch] - g[epoch - DeltaEpochs]
    BY <2>1, <2>2, SumOfChanges
  <2> QED
    BY <2>3 DEF Paying
<1>7. Earned(v) = Sum(earned, Paying)
  <2>1. Earned(v) = Total(earned)
    BY DEF Earned, earned, Paying
  <2> QED
    BY <2>1, <1>e, TotalIsSum
<1>8. Sum(paid, Paying) \in Int /\ Sum(earned, Paying) \in Int
  BY <1>1, <1>4, SumInt
<1>9. PaidTo(v) = Sum(paid, Paying)
  BY DEF PaidTo, paid
<1>10. g[epoch] \in Int /\ g[epoch - DeltaEpochs] \in Int
  BY <1>1, <1>3
<1> QED
  BY <1>1, <1>3, <1>5, <1>6, <1>7, <1>8, <1>9, <1>10

\* The rows chosen of an epoch stored, by the validators they are of.
LEMMA ChosenAt ==
  ASSUME CalcInv, TableInv, NEW x \in 1 .. epoch, Equal(x), NEW newest \in BOOLEAN, NEW W
  PROVE  /\ DOMAIN Limit1(x, W, newest) = {v \in Validators : Newest(x, v) \in W}
         /\ \A v \in DOMAIN Limit1(x, W, newest) : Limit1(x, W, newest)[v] = Newest(x, v)
<1>1. x \in Int /\ x <= epoch
  BY DEF CalcInv
<1>2. Limit1(x, W, newest) = Chosen(x, W)
  BY <1>1, Selecting
<1> QED
  BY <1>2 DEF Chosen

Clear == \A x \in DeltaWindow : Equal(x)

\* The withdrawals of a validator that is steady.
LEMMA PaidRows ==
  ASSUME CalcInv, TableInv, NEW v \in Validators, Steady(v), Clear, NEW newest \in BOOLEAN,
         NEW statuses, PerfStatuses \subseteq statuses, NEW paid, paid = Paid(epoch, DeltaEpochs, statuses, newest)
  PROVE  /\ DOMAIN paid = Paying
         /\ \A x \in Paying : /\ v \in DOMAIN paid[x] <=> Newest(x, v).withdrawn > 0
                              /\ v \in DOMAIN paid[x] => paid[x][v] = Newest(x, v)
<1> DEFINE W == [x \in Paying |-> {r \in UserRows(x) : r.withdrawn > 0 /\ r.status \in statuses}]
<1>1. paid = [x \in Paying |-> Limit1(x, W[x], newest)]
  BY DEF Paid, Paying, LastEpochs
<1>2. ASSUME NEW x \in Paying
      PROVE  /\ v \in DOMAIN paid[x] <=> Newest(x, v).withdrawn > 0
             /\ v \in DOMAIN paid[x] => paid[x][v] = Newest(x, v)
  <2>1. x \in DeltaWindow /\ x \in 1 .. epoch /\ IsUser(Newest(x, v)) /\ Performing(Newest(x, v))
    BY SteadyRows
  <2>2. Newest(x, v) \in AllRows(x)
    BY <2>1, ChosenRows
  <2>3. Newest(x, v) \in W[x] <=> Newest(x, v).withdrawn > 0
    BY <2>1, <2>2 DEF UserRows, Performing
  <2>4. paid[x] = Limit1(x, W[x], newest)
    BY <1>1
  <2>5. Equal(x)
    BY <2>1 DEF Clear
  <2> HIDE DEF W
  <2>6. /\ DOMAIN Limit1(x, W[x], newest) = {w \in Validators : Newest(x, w) \in W[x]}
        /\ \A w \in DOMAIN Limit1(x, W[x], newest) : Limit1(x, W[x], newest)[w] = Newest(x, w)
    BY <2>1, <2>5, ChosenAt
  <2> QED
    BY <2>3, <2>4, <2>6
<1> QED
  BY <1>1, <1>2

\* What the queries put back for a validator that is steady.
LEMMA PaidIs ==
  ASSUME CalcInv, TableInv, NEW v \in Validators, Steady(v), Clear, NEW newest \in BOOLEAN,
         NEW statuses, PerfStatuses \subseteq statuses, NEW paid, paid = Paid(epoch, DeltaEpochs, statuses, newest),
         NEW o
  PROVE  /\ o = Newest(epoch, v).owner => Withdrawn(paid, v, o) = PaidTo(v)
         /\ o # Newest(epoch, v).owner => Withdrawals(paid, v, o) = {} /\ Withdrawn(paid, v, o) = 0
         /\ Withdrawals(paid, v, o) = {} => Withdrawn(paid, v, o) = 0
<1>1. /\ DOMAIN paid = Paying
      /\ \A x \in Paying : /\ v \in DOMAIN paid[x] <=> Newest(x, v).withdrawn > 0
                           /\ v \in DOMAIN paid[x] => paid[x][v] = Newest(x, v)
  BY PaidRows
<1>2. /\ IsFiniteSet(Paying)
      /\ \A x \in Paying : Newest(x, v).owner = Newest(epoch, v).owner /\ x \in 1 .. epoch
  BY SteadyRows
<1>3. \A x \in Paying : Newest(x, v).withdrawn \in Nat
  BY <1>2, NewestColumns
<1> DEFINE T == Withdrawals(paid, v, o)
           f == [x \in T |-> paid[x][v].withdrawn]
           w == WithdrawnIn(v)
<1>4. T = {x \in Paying : Newest(x, v).withdrawn > 0 /\ Newest(epoch, v).owner = o}
  BY <1>1, <1>2 DEF Withdrawals, Owned
<1>5. Withdrawn(paid, v, o) = Sum(f, T)
  <2>1. Withdrawn(paid, v, o) = Total(f)
    BY DEF Withdrawn
  <2> QED
    BY <2>1, TotalIsSum
<1>6. \A x \in T : f[x] = Newest(x, v).withdrawn
  BY <1>1, <1>4
<1>7. \A x \in Paying : w[x] = Newest(x, v).withdrawn
  BY DEF WithdrawnIn
<1>e. Sum(f, {}) = 0
  BY FS_EmptySet, SumEquation
<1> HIDE DEF T, f, w
<1>8. CASE o = Newest(epoch, v).owner
  <2>1. T \in SUBSET Paying
    BY <1>4
  <2>2. \A x \in T : w[x] \in Int
    BY <1>3, <1>7, <2>1
  <2>3. \A x \in Paying \ T : w[x] = 0
    BY <1>3, <1>4, <1>7, <1>8
  <2>4. Sum(w, Paying) = Sum(w, T)
    BY <1>2, <2>1, <2>2, <2>3, SumWithoutZeros
  <2>5. IsFiniteSet(T) /\ \A x \in T : f[x] = w[x]
    BY <1>2, <1>6, <1>7, <2>1, FS_Subset
  <2>6. Sum(f, T) = Sum(w, T)
    BY <2>5, SumEqual
  <2> QED
    BY <1>5, <1>8, <1>e, <2>4, <2>6 DEF PaidTo, w, T
<1>9. CASE o # Newest(epoch, v).owner
  <2>1. T = {}
    BY <1>4, <1>9
  <2> QED
    BY <1>5, <1>9, <1>e, <2>1 DEF T
<1> QED
  BY <1>8, <1>9

\* The validators of a steady operator are steady.
LEMMA SteadyMembers ==
  ASSUME CalcInv, epoch > 0, NEW o, SteadyOf(o), NEW v \in Rows(o)
  PROVE  v \in Validators /\ Steady(v) /\ Newest(epoch, v).owner = o
<1>1. epoch \in DeltaWindow /\ Stored(epoch)
  BY WindowsAssumption DEF CalcInv, DeltaWindow, Stored
<1> QED
  BY <1>1 DEF SteadyOf, Rows

\* The deltas of the validators of a steady operator: one of each, and it is what it earned.
LEMMA DeltasAre ==
  ASSUME CalcInv, TableInv, BalanceInv, epoch > 0, Clear, NEW newest \in BOOLEAN, NEW o \in Operators, SteadyOf(o),
         NEW deltas, deltas = Deltas(epoch, DeltaEpochs, newest), NEW T, T = Owned(deltas, o)
  PROVE  /\ T \subseteq DOMAIN deltas /\ IsFiniteSet(T)
         /\ \A y \in T : /\ y[1] \in Rows(o) /\ deltas[y].amount = Earned(y[1]) /\ deltas[y].amount \in Int
                         /\ deltas[y].slashed = Newest(epoch, y[1]).slashed
         /\ \A y, z \in T : y[1] = z[1] => y = z
         /\ \A v \in Rows(o) : \E y \in T : y[1] = v
<1> DEFINE U == {r \in UserRows(epoch) : Performing(r)}
           P == {r \in UserRows(epoch - DeltaEpochs) : Performing(r)}
           curr == Limit1(epoch, U, newest)
           prev == Limit1(epoch - DeltaEpochs, P, newest)
           paid == Paid(epoch, DeltaEpochs, PerfStatuses, newest)
           By == [v \in Validators |-> {p \in Operators : Withdrawals(paid, v, p) # {}}]
           J == {y \in (DOMAIN curr \cap DOMAIN prev) \X Owners : y[2] \in By[y[1]] \/ (By[y[1]] = {} /\ y[2] = Other)}
           D == [y \in J |-> [owner |-> curr[y[1]].owner, slashed |-> curr[y[1]].slashed,
                              amount |-> curr[y[1]].balance - prev[y[1]].balance + Withdrawn(paid, y[1], y[2])]]
<1>1. DOMAIN curr \subseteq Validators
  BY DEF Limit1, Selected
<1>2. deltas = D
  <2>1. \A y \in (DOMAIN curr \cap DOMAIN prev) \X Owners : {p \in Operators : Withdrawals(paid, y[1], p) # {}} = By[y[1]]
    BY <1>1
  <2>2. J = {y \in (DOMAIN curr \cap DOMAIN prev) \X Owners :
               \/ y[2] \in {p \in Operators : Withdrawals(paid, y[1], p) # {}}
               \/ {p \in Operators : Withdrawals(paid, y[1], p) # {}} = {} /\ y[2] = Other}
    BY <2>1
  <2> HIDE DEF J
  <2> QED
    BY <2>2 DEF Deltas
<1>j. J \in SUBSET (Validators \X Owners)
  BY <1>1
<1>f. IsFiniteSet(J)
  <2>1. IsFiniteSet(Owners)
    BY FiniteAssumption, FS_AddElement DEF Owners
  <2>2. IsFiniteSet(Validators \X Owners)
    BY <2>1, FiniteAssumption, FS_Product
  <2> HIDE DEF J
  <2> QED
    BY <2>2, <1>j, FS_Subset
<1>e. epoch \in 1 .. epoch /\ epoch \in DeltaWindow /\ epoch \in Int
  BY WindowsAssumption DEF CalcInv, DeltaWindow
<1>c. /\ DOMAIN curr = {v \in Validators : Newest(epoch, v) \in U}
      /\ \A v \in DOMAIN curr : curr[v] = Newest(epoch, v)
  <2>1. Equal(epoch)
    BY <1>e DEF Clear
  <2> HIDE DEF U
  <2> QED
    BY <1>e, <2>1, ChosenAt
<1>k. \A y : y \in J <=> /\ y \in (DOMAIN curr \cap DOMAIN prev) \X Owners
                         /\ y[2] \in By[y[1]] \/ (By[y[1]] = {} /\ y[2] = Other)
  <2> HIDE DEF curr, prev, By
  <2> QED
    OBVIOUS
<1>b. \A v \in Validators : By[v] = {p \in Operators : Withdrawals(paid, v, p) # {}}
  <2> HIDE DEF paid
  <2> QED
    OBVIOUS
<1>u. U = {r \in UserRows(epoch) : Performing(r)} /\ P = {r \in UserRows(epoch - DeltaEpochs) : Performing(r)}
  OBVIOUS
<1>v. prev = Limit1(epoch - DeltaEpochs, P, newest) /\ paid = Paid(epoch, DeltaEpochs, PerfStatuses, newest)
  OBVIOUS
<1> HIDE DEF U, P, curr, prev, paid, By, J
<1>t. T = {y \in J : curr[y[1]].owner = o}
  BY <1>2 DEF Owned
<1>d. \A y \in J : /\ deltas[y].owner = curr[y[1]].owner /\ deltas[y].slashed = curr[y[1]].slashed
                   /\ deltas[y].amount = curr[y[1]].balance - prev[y[1]].balance + Withdrawn(paid, y[1], y[2])
  BY <1>2
<1>s. \A v \in Rows(o) : v \in Validators /\ Steady(v) /\ Newest(epoch, v).owner = o
  BY SteadyMembers
<1>p. ASSUME NEW v \in Rows(o)
      PROVE  /\ v \in DOMAIN curr /\ v \in DOMAIN prev /\ prev[v] = Newest(epoch - DeltaEpochs, v)
             /\ By[v] \subseteq {o}
             /\ o \in By[v] => Withdrawn(paid, v, o) = PaidTo(v)
             /\ By[v] = {} => Withdrawn(paid, v, Other) = PaidTo(v)
  <2>1. v \in Validators /\ Steady(v) /\ Newest(epoch, v).owner = o
    BY <1>s
  <2>2. /\ epoch - DeltaEpochs \in 1 .. epoch /\ epoch - DeltaEpochs \in DeltaWindow
        /\ IsUser(Newest(epoch, v)) /\ Performing(Newest(epoch, v))
        /\ IsUser(Newest(epoch - DeltaEpochs, v)) /\ Performing(Newest(epoch - DeltaEpochs, v))
    BY <2>1, SteadyRows
  <2>3. Newest(epoch, v) \in AllRows(epoch) /\ Newest(epoch - DeltaEpochs, v) \in AllRows(epoch - DeltaEpochs)
    BY <1>e, <2>1, <2>2, ChosenRows
  <2>4. v \in DOMAIN curr
    BY <1>c, <1>u, <2>1, <2>2, <2>3 DEF UserRows
  <2>5. Newest(epoch - DeltaEpochs, v) \in P
    BY <1>u, <2>2, <2>3 DEF UserRows
  <2>6. v \in DOMAIN prev /\ prev[v] = Newest(epoch - DeltaEpochs, v)
    <3>1. Equal(epoch - DeltaEpochs)
      BY <2>2 DEF Clear
    <3>2. /\ DOMAIN prev = {w \in Validators : Newest(epoch - DeltaEpochs, w) \in P}
          /\ \A w \in DOMAIN prev : prev[w] = Newest(epoch - DeltaEpochs, w)
      BY <1>v, <2>2, <3>1, ChosenAt
    <3> QED
      BY <2>1, <2>5, <3>2
  <2>7. PerfStatuses \subseteq PerfStatuses
    OBVIOUS
  <2>8. ASSUME NEW p
        PROVE  /\ p = o => Withdrawn(paid, v, p) = PaidTo(v)
               /\ p # o => Withdrawals(paid, v, p) = {} /\ Withdrawn(paid, v, p) = 0
               /\ Withdrawals(paid, v, p) = {} => Withdrawn(paid, v, p) = 0
    BY <1>v, <2>1, <2>7, PaidIs
  <2>9. By[v] = {p \in Operators : Withdrawals(paid, v, p) # {}}
    BY <1>b, <2>1
  <2>10. By[v] \subseteq {o}
    BY <2>8, <2>9
  <2>11. By[v] = {} => Withdrawn(paid, v, Other) = PaidTo(v)
    BY <2>8, <2>9, OwnersAssumption
  <2> QED
    BY <2>4, <2>6, <2>8, <2>10, <2>11
<1>r. \A y \in T : y[1] \in Rows(o)
  BY <1>c, <1>j, <1>k, <1>t DEF Rows
<1>3. ASSUME NEW y \in T
      PROVE  /\ y[1] \in Rows(o) /\ deltas[y].amount = Earned(y[1]) /\ deltas[y].amount \in Int
             /\ deltas[y].slashed = Newest(epoch, y[1]).slashed
             /\ y = <<y[1], IF By[y[1]] = {} THEN Other ELSE o>>
  <2> DEFINE v == y[1]
  <2>1. v \in Rows(o) /\ y \in J /\ y = <<y[1], y[2]>> /\ (y[2] \in By[v] \/ (By[v] = {} /\ y[2] = Other))
    BY <1>j, <1>k, <1>r, <1>t
  <2>2. /\ v \in Validators /\ Steady(v) /\ v \in DOMAIN curr /\ prev[v] = Newest(epoch - DeltaEpochs, v)
        /\ By[v] \subseteq {o}
        /\ o \in By[v] => Withdrawn(paid, v, o) = PaidTo(v)
        /\ By[v] = {} => Withdrawn(paid, v, Other) = PaidTo(v)
    BY <1>p, <1>s, <2>1
  <2>3. Withdrawn(paid, v, y[2]) = PaidTo(v) /\ y[2] = IF By[v] = {} THEN Other ELSE o
    BY <2>1, <2>2
  <2>4. curr[v] = Newest(epoch, v)
    BY <1>c, <2>2
  <2>5. /\ Earned(v) = Newest(epoch, v).balance - Newest(epoch - DeltaEpochs, v).balance + PaidTo(v)
        /\ Earned(v) \in Int
    BY <2>2, EarnedIs
  <2>6. /\ deltas[y].slashed = curr[v].slashed
        /\ deltas[y].amount = curr[v].balance - prev[v].balance + Withdrawn(paid, v, y[2])
    BY <1>d, <2>1
  <2>7. deltas[y].amount = Earned(v) /\ deltas[y].slashed = Newest(epoch, v).slashed
    BY <2>2, <2>3, <2>4, <2>5, <2>6
  <2>8. y = <<v, IF By[v] = {} THEN Other ELSE o>>
    BY <2>1, <2>3
  <2> QED
    BY <2>1, <2>5, <2>7, <2>8
<1>4. ASSUME NEW v \in Rows(o) PROVE \E y \in T : y[1] = v
  <2> DEFINE y == <<v, IF By[v] = {} THEN Other ELSE o>>
  <2>1. /\ v \in DOMAIN curr \cap DOMAIN prev /\ By[v] \subseteq {o} /\ curr[v].owner = o
    BY <1>c, <1>p, <1>s
  <2>2. y \in (DOMAIN curr \cap DOMAIN prev) \X Owners /\ y[1] = v /\ y[2] = IF By[v] = {} THEN Other ELSE o
    BY <2>1 DEF Owners
  <2> HIDE DEF y
  <2>3. y[2] \in By[y[1]] \/ (By[y[1]] = {} /\ y[2] = Other)
    BY <2>1, <2>2
  <2>4. y \in J
    BY <1>k, <2>2, <2>3
  <2> QED
    BY <1>t, <2>1, <2>2, <2>4
<1>5. T \subseteq DOMAIN deltas
  BY <1>2, <1>t
<1>6. IsFiniteSet(T)
  BY <1>f, <1>t, FS_Subset
<1>7. \A y, z \in T : y[1] = z[1] => y = z
  BY <1>3
<1> QED
  BY <1>3, <1>4, <1>5, <1>6, <1>7

\* The mean of the deltas of a steady operator.
LEMMA AvgIs ==
  ASSUME CalcInv, TableInv, BalanceInv, epoch > 0, Clear, NEW newest \in BOOLEAN,
         NEW o \in Operators, SteadyOf(o), Rows(o) # {},
         NEW data, data = AvgValidatorBalanceDelta(epoch, DeltaEpochs, newest)
  PROVE  o \in DOMAIN data /\ data[o] = <<EarnedBy(o), Cardinality(Rows(o))>>
<1> DEFINE deltas == Deltas(epoch, DeltaEpochs, newest)
           T == Owned(deltas, o)
           k == [y \in T |-> y[1]]
           g == [y \in T |-> deltas[y].amount]
           f == [v \in Rows(o) |-> Earned(v)]
<1>1. data = [p \in Present(deltas) |-> <<Total([y \in Owned(deltas, p) |-> deltas[y].amount]),
                                          Cardinality(Owned(deltas, p))>>]
  BY DEF AvgValidatorBalanceDelta
<1>t. T = Owned(deltas, o)
  OBVIOUS
<1>d. deltas = Deltas(epoch, DeltaEpochs, newest)
  OBVIOUS
<1> HIDE DEF deltas
<1>2. /\ T \subseteq DOMAIN deltas /\ IsFiniteSet(T)
      /\ \A y \in T : /\ y[1] \in Rows(o) /\ deltas[y].amount = Earned(y[1]) /\ deltas[y].amount \in Int
      /\ \A y, z \in T : y[1] = z[1] => y = z
      /\ \A v \in Rows(o) : \E y \in T : y[1] = v
  BY <1>d, <1>t, DeltasAre
<1>p. o \in Present(deltas)
  BY <1>2 DEF Present, Owned
<1>3. data[o] = <<Total(g), Cardinality(T)>>
  BY <1>1, <1>p
<1> HIDE DEF T
<1>4. IsFiniteSet(Rows(o))
  BY FiniteAssumption, FS_Subset DEF Rows
<1>5. /\ \A y \in T : k[y] \in Rows(o)
      /\ \A y, z \in T : k[y] = k[z] => y = z
      /\ \A v \in Rows(o) : \E y \in T : k[y] = v
  BY <1>2
<1>6. ASSUME NEW y \in T PROVE g[y] = f[k[y]] /\ g[y] \in Int
  <2>1. y[1] \in Rows(o) /\ deltas[y].amount = Earned(y[1]) /\ deltas[y].amount \in Int
    BY <1>2
  <2>2. g[y] = deltas[y].amount /\ k[y] = y[1] /\ f[y[1]] = Earned(y[1])
    BY <2>1
  <2> QED
    BY <2>1, <2>2
<1>7. DOMAIN g = T /\ DOMAIN f = Rows(o) /\ EarnedBy(o) = Total(f)
  BY DEF EarnedBy
<1> HIDE DEF f, g, k
<1>8. Sum(g, T) = Sum(f, Rows(o))
  <2>1. IsFiniteSet(T)
    BY <1>2
  <2>2. \A y \in T : k[y] \in Rows(o)
    BY <1>5
  <2>3. \A y, z \in T : k[y] = k[z] => y = z
    BY <1>5
  <2>4. \A v \in Rows(o) : \E y \in T : k[y] = v
    BY <1>5
  <2>5. \A y \in T : g[y] = f[k[y]] /\ g[y] \in Int
    BY <1>6
  <2> QED
    BY <1>4, <2>1, <2>2, <2>3, <2>4, <2>5, SumRenamed
<1>9. Cardinality(T) = Cardinality(Rows(o))
  BY <1>2, <1>4, <1>5, CardRenamed
<1>10. Total(g) = EarnedBy(o)
  BY <1>7, <1>8, TotalIsSum
<1> QED
  BY <1>1, <1>3, <1>9, <1>10, <1>p

\* The number of validators of a steady operator that lost some of their balance.
LEMMA NegativeIs ==
  ASSUME CalcInv, TableInv, BalanceInv, epoch > 0, Clear, NEW newest \in BOOLEAN,
         NEW o \in Operators, SteadyOf(o),
         NEW data, data = ValidatorsCountWithNegativeDelta(epoch, DeltaEpochs, newest)
  PROVE  (IF o \in DOMAIN data THEN data[o] ELSE 0)
           = Cardinality({v \in Rows(o) : Earned(v) < 0 /\ Newest(epoch, v).slashed = 0})
<1> DEFINE deltas == Deltas(epoch, DeltaEpochs, newest)
           T == Owned(deltas, o)
           F == {y \in T : deltas[y].amount < 0 /\ deltas[y].slashed = 0}
           G == {v \in Rows(o) : Earned(v) < 0 /\ Newest(epoch, v).slashed = 0}
           k == [y \in F |-> y[1]]
<1> DEFINE Found == [p \in Operators |-> {y \in Owned(deltas, p) : deltas[y].amount < 0 /\ deltas[y].slashed = 0}]
<1>1. data = [p \in {p \in Operators : Found[p] # {}} |-> Cardinality(Found[p])]
  BY DEF ValidatorsCountWithNegativeDelta
<1>t. T = Owned(deltas, o) /\ Found[o] = F
  OBVIOUS
<1>d. deltas = Deltas(epoch, DeltaEpochs, newest)
  OBVIOUS
<1> HIDE DEF deltas
<1>2. /\ T \subseteq DOMAIN deltas /\ IsFiniteSet(T)
      /\ \A y \in T : /\ y[1] \in Rows(o) /\ deltas[y].amount = Earned(y[1]) /\ deltas[y].amount \in Int
                      /\ deltas[y].slashed = Newest(epoch, y[1]).slashed
      /\ \A y, z \in T : y[1] = z[1] => y = z
      /\ \A v \in Rows(o) : \E y \in T : y[1] = v
  BY <1>d, <1>t, DeltasAre
<1> HIDE DEF T, Found
<1>4. IsFiniteSet(F) /\ IsFiniteSet(G)
  BY <1>2, FiniteAssumption, FS_Subset DEF Rows
<1>5. /\ \A y \in F : k[y] \in G
      /\ \A y, z \in F : k[y] = k[z] => y = z
      /\ \A v \in G : \E y \in F : k[y] = v
  BY <1>2
<1> HIDE DEF F, G, k
<1>9. Cardinality(F) = Cardinality(G)
  BY <1>4, <1>5, CardRenamed
<1>10. CASE F # {}
  BY <1>1, <1>9, <1>10, <1>t DEF G
<1>11. CASE F = {}
  <2>1. Cardinality(F) = 0
    BY <1>11, FS_EmptySet
  <2> QED
    BY <1>1, <1>9, <1>11, <1>t, <2>1 DEF G
<1> QED
  BY <1>10, <1>11

\* The quantile of the deltas of a steady operator.
LEMMA QuantileIs ==
  ASSUME CalcInv, TableInv, BalanceInv, epoch > 0, Clear, NEW newest \in BOOLEAN,
         NEW o \in Operators, SteadyOf(o), Rows(o) # {},
         NEW data, data = ValidatorQuantile0001BalanceDeltas(epoch, DeltaEpochs, newest)
  PROVE  o \in DOMAIN data /\ IsQuantile(data[o], o)
<1> DEFINE deltas == Deltas(epoch, DeltaEpochs, newest)
           T == Owned(deltas, o)
           A == {deltas[y].amount : y \in T}
           k == [y \in T |-> y[1]]
           Less(n) == {v \in Rows(o) : Earned(v) < n}
           c == Cardinality(Rows(o))
           Q == {n \in A : Cardinality(Less(n)) <= c \div 1000}
<1>d. deltas = Deltas(epoch, DeltaEpochs, newest)
  OBVIOUS
<1>t. T = Owned(deltas, o)
  OBVIOUS
<1>1. data = [p \in Present(deltas) |->
                Max({n \in {deltas[y].amount : y \in Owned(deltas, p)} :
                       Cardinality({y \in Owned(deltas, p) : deltas[y].amount < n}) <= Cardinality(Owned(deltas, p)) \div 1000})]
  BY DEF ValidatorQuantile0001BalanceDeltas
<1> HIDE DEF deltas
<1>2. /\ T \subseteq DOMAIN deltas /\ IsFiniteSet(T)
      /\ \A y \in T : /\ y[1] \in Rows(o) /\ deltas[y].amount = Earned(y[1]) /\ deltas[y].amount \in Int
      /\ \A y, z \in T : y[1] = z[1] => y = z
      /\ \A v \in Rows(o) : \E y \in T : y[1] = v
  BY <1>d, <1>t, DeltasAre
<1>p. o \in Present(deltas)
  BY <1>2 DEF Present, Owned
<1>3. data[o] = Max({n \in A : Cardinality({y \in T : deltas[y].amount < n}) <= Cardinality(T) \div 1000})
  BY <1>1, <1>p
<1> HIDE DEF T
<1>4. IsFiniteSet(Rows(o)) /\ c \in Nat /\ c # 0
  <2>1. IsFiniteSet(Rows(o))
    BY FiniteAssumption, FS_Subset DEF Rows
  <2> QED
    BY <2>1, FS_CardinalityType, FS_EmptySet
<1>5. Cardinality(T) = c
  <2>1. IsFiniteSet(T)
    BY <1>2
  <2>2. \A y \in T : k[y] \in Rows(o)
    BY <1>2
  <2>3. \A y, z \in T : k[y] = k[z] => y = z
    BY <1>2
  <2>4. \A v \in Rows(o) : \E y \in T : k[y] = v
    BY <1>2
  <2> HIDE DEF k
  <2> QED
    BY <1>4, <2>1, <2>2, <2>3, <2>4, CardRenamed
<1>6. ASSUME NEW n PROVE Cardinality({y \in T : deltas[y].amount < n}) = Cardinality(Less(n))
  <2> DEFINE F == {y \in T : deltas[y].amount < n}
             h == [y \in F |-> y[1]]
  <2>1. IsFiniteSet(F) /\ IsFiniteSet(Less(n))
    BY <1>2, <1>4, FS_Subset
  <2>2. \A y \in F : h[y] \in Less(n)
    BY <1>2
  <2>3. \A y, z \in F : h[y] = h[z] => y = z
    BY <1>2
  <2>4. \A v \in Less(n) : \E y \in F : h[y] = v
    BY <1>2
  <2> HIDE DEF F, h, Less
  <2>5. Cardinality(F) = Cardinality(Less(n))
    BY <2>1, <2>2, <2>3, <2>4, CardRenamed
  <2> QED
    BY <2>5 DEF F
<1>7. A = {Earned(v) : v \in Rows(o)}
  BY <1>2
<1>a. /\ A # {} /\ \A n \in A : n \in Int
      /\ \A v \in Rows(o) : Earned(v) \in A
      /\ \A n \in A : \E v \in Rows(o) : Earned(v) = n
  BY <1>2, <1>7
<1>f. IsFiniteSet(A)
  <2> DEFINE h == [v \in Rows(o) |-> Earned(v)]
  <2>1. h \in Surjection(Rows(o), A)
    BY <1>a DEF Surjection
  <2> HIDE DEF A, h
  <2> QED
    BY <1>4, <2>1, FS_Surjection
<1>8. data[o] = Max(Q)
  <2> DEFINE Z == [n \in A |-> Cardinality({y \in T : deltas[y].amount < n})]
             C == [n \in A |-> Cardinality(Less(n))]
  <2>a. \A n \in A : Z[n] = C[n]
    BY <1>6
  <2>b. Q = {n \in A : C[n] <= c \div 1000}
    OBVIOUS
  <2>c. {n \in A : Cardinality({y \in T : deltas[y].amount < n}) <= Cardinality(T) \div 1000}
          = {n \in A : Z[n] <= Cardinality(T) \div 1000}
    BY Zenon
  <2> HIDE DEF Z, C, A, Q, c
  <2>1. Q = {n \in A : Cardinality({y \in T : deltas[y].amount < n}) <= Cardinality(T) \div 1000}
    BY <1>5, <2>a, <2>b, <2>c
  <2> QED
    BY <1>3, <2>1
<1>l. \A n : Less(n) = {v \in Rows(o) : Earned(v) < n} /\ Cardinality(Less(n)) \in Nat
  <2>1. \A n : IsFiniteSet(Less(n))
    BY <1>4, FS_Subset
  <2> QED
    BY <2>1, FS_CardinalityType
<1>q. \A n : n \in Q <=> n \in A /\ Cardinality(Less(n)) <= c \div 1000
  OBVIOUS
<1>e. c = Cardinality(Rows(o))
  OBVIOUS
<1>m. c \in Nat /\ c \div 1000 \in Nat /\ 1000 * (c \div 1000) <= c /\ c < 1000 * (c \div 1000) + 1000
  <2> HIDE DEF c
  <2> QED
    BY <1>4
<1> HIDE DEF A, Less, Q, c
<1>9. PICK least \in A : \A n \in A : least <= n
  BY <1>a, <1>f, Extremes
<1>10. least \in Q
  <2>1. Less(least) = {}
    BY <1>9, <1>a, <1>l
  <2>2. Cardinality(Less(least)) = 0
    BY <2>1, FS_EmptySet
  <2> QED
    BY <1>9, <1>m, <1>q, <2>2
<1>11. Max(Q) \in Q /\ \A n \in Q : n <= Max(Q)
  <2>1. IsFiniteSet(Q) /\ (\A n \in Q : n \in Int) /\ Q # {}
    BY <1>10, <1>a, <1>f, <1>q, FS_Subset
  <2>2. \E n \in Q : \A x \in Q : x <= n
    BY <2>1, Extremes
  <2>3. \E n \in Q : \A x \in Q : n >= x
    BY <2>1, <2>2
  <2>4. Max(Q) \in Q /\ \A n \in Q : Max(Q) >= n
    BY <2>3 DEF Max
  <2> QED
    BY <2>1, <2>4
<1> DEFINE q == Max(Q)
<1>12. q \in Q /\ q \in A /\ q \in Int /\ \A n \in Q : n <= q
  BY <1>11, <1>a, <1>q
<1> HIDE DEF q
<1>13. 1000 * Cardinality(Less(q)) <= c
  <2>1. Cardinality(Less(q)) <= c \div 1000 /\ Cardinality(Less(q)) \in Nat
    BY <1>12, <1>l, <1>q
  <2> QED
    BY <1>m, <2>1
<1> DEFINE Upto == {v \in Rows(o) : Earned(v) <= q}
<1>14. 1000 * Cardinality(Upto) > c
  <2> DEFINE More == {n \in A : n > q}
  <2>1. CASE More = {}
    <3>0. \A v \in Rows(o) : Earned(v) \in A /\ Earned(v) \in Int
      BY <1>a
    <3>1. \A v \in Rows(o) : Earned(v) <= q
      BY <1>12, <2>1, <3>0
    <3>4. Upto = Rows(o)
      BY <3>1
    <3>2. Cardinality(Upto) = c
      BY <3>4, <1>e
    <3> QED
      BY <3>2, <1>4 DEF c
  <2>2. CASE More # {}
    <3>1. IsFiniteSet(More) /\ \A n \in More : n \in Int
      BY <1>a, <1>f, FS_Subset
    <3>2. PICK next \in More : \A n \in More : next <= n
      BY <2>2, <3>1, Extremes
    <3>3. Upto = Less(next)
      <4>1. \A v \in Rows(o) : Earned(v) \in Int
        BY <1>a
      <4>2. \A v \in Rows(o) : Earned(v) <= q <=> Earned(v) < next
        BY <1>12, <1>a, <3>1, <3>2, <4>1
      <4> QED
        BY <1>l, <4>2
    <3>4. next \in A /\ next \notin Q
      BY <1>12, <1>a, <3>2
    <3>5. ~ (Cardinality(Less(next)) <= c \div 1000)
      BY <1>q, <3>4
    <3>6. Cardinality(Less(next)) \in Nat
      BY <1>l
    <3> HIDE DEF Upto
    <3>7. c \in Nat
      BY <1>4 DEF c
    <3> QED
      BY <1>m, <3>3, <3>5, <3>6, <3>7
  <2> QED
    BY <2>1, <2>2
<1>15. IsQuantile(q, o)
  <2>1. \E v \in Rows(o) : Earned(v) = q
    BY <1>12, <1>a
  <2>2. 1000 * Cardinality({v \in Rows(o) : Earned(v) < q}) <= Cardinality(Rows(o))
    BY <1>13, <1>e, <1>l
  <2>3. 1000 * Cardinality({v \in Rows(o) : Earned(v) <= q}) > Cardinality(Rows(o))
    BY <1>14, <1>e
  <2> QED
    BY <2>1, <2>2, <2>3 DEF IsQuantile
<1> QED
  BY <1>1, <1>8, <1>15, <1>p DEF q

\* The change of the balance of a steady operator.
LEMMA DifferenceIs ==
  ASSUME CalcInv, TableInv, BalanceInv, epoch > 0, Clear, NEW newest \in BOOLEAN,
         NEW o \in Operators, SteadyOf(o),
         NEW data, data = OperatorBalance24hDifference(epoch, DeltaEpochs, newest)
  PROVE  (IF o \in DOMAIN data THEN data[o] ELSE 0) = EarnedBy(o)
<1> DEFINE U == {r \in UserRows(epoch) : NotQueued(r)}
           P == {r \in UserRows(epoch - DeltaEpochs) : NotQueued(r)}
           curr == Limit1(epoch, U, newest)
           prev == Limit1(epoch - DeltaEpochs, P, newest)
           paid == Paid(epoch, DeltaEpochs, Statuses, newest)
           Both == [p \in Operators |-> Owned(curr, p) \cap Owned(prev, p)]
           f == [v \in Both[o] |-> curr[v].balance - prev[v].balance + Withdrawn(paid, v, o)]
           g == [v \in Rows(o) |-> Earned(v)]
<1>1. data = [p \in {p \in Operators : Both[p] # {}} |->
                Total([v \in Both[p] |-> curr[v].balance - prev[v].balance + Withdrawn(paid, v, p)])]
  BY DEF OperatorBalance24hDifference
<1>2. o \in DOMAIN data <=> Both[o] # {}
  BY <1>1
<1>3. o \in DOMAIN data => data[o] = Total(f)
  BY <1>1
<1>b. Both[o] = Owned(curr, o) \cap Owned(prev, o)
  OBVIOUS
<1>u. U = {r \in UserRows(epoch) : NotQueued(r)} /\ P = {r \in UserRows(epoch - DeltaEpochs) : NotQueued(r)}
  OBVIOUS
<1>v. /\ prev = Limit1(epoch - DeltaEpochs, P, newest) /\ curr = Limit1(epoch, U, newest)
      /\ paid = Paid(epoch, DeltaEpochs, Statuses, newest)
  OBVIOUS
<1> HIDE DEF U, P, curr, prev, paid, Both
<1>e. epoch \in 1 .. epoch /\ epoch \in DeltaWindow /\ epoch \in Int
  BY WindowsAssumption DEF CalcInv, DeltaWindow
<1>c. /\ DOMAIN curr = {v \in Validators : Newest(epoch, v) \in U}
      /\ \A v \in DOMAIN curr : curr[v] = Newest(epoch, v)
  <2>1. Equal(epoch)
    BY <1>e DEF Clear
  <2> QED
    BY <1>e, <1>v, <2>1, ChosenAt
<1>4. ASSUME NEW v \in Rows(o)
      PROVE  v \in Both[o] /\ f[v] = g[v] /\ g[v] \in Int
  <2>1. v \in Validators /\ Steady(v) /\ Newest(epoch, v).owner = o
    BY SteadyMembers
  <2>2. /\ epoch - DeltaEpochs \in 1 .. epoch /\ epoch - DeltaEpochs \in DeltaWindow
        /\ IsUser(Newest(epoch, v)) /\ Performing(Newest(epoch, v))
        /\ IsUser(Newest(epoch - DeltaEpochs, v)) /\ Performing(Newest(epoch - DeltaEpochs, v))
        /\ Newest(epoch - DeltaEpochs, v).owner = o
    BY <2>1, SteadyRows
  <2>3. Newest(epoch, v) \in AllRows(epoch) /\ Newest(epoch - DeltaEpochs, v) \in AllRows(epoch - DeltaEpochs)
    BY <1>e, <2>1, <2>2, ChosenRows
  <2>4. v \in DOMAIN curr /\ curr[v] = Newest(epoch, v)
    BY <1>c, <1>u, <2>1, <2>2, <2>3 DEF UserRows, Performing, NotQueued, PerfStatuses
  <2>5. Newest(epoch - DeltaEpochs, v) \in P
    BY <1>u, <2>2, <2>3 DEF UserRows, Performing, NotQueued, PerfStatuses
  <2>6. v \in DOMAIN prev /\ prev[v] = Newest(epoch - DeltaEpochs, v)
    <3>1. Equal(epoch - DeltaEpochs)
      BY <2>2 DEF Clear
    <3>2. /\ DOMAIN prev = {w \in Validators : Newest(epoch - DeltaEpochs, w) \in P}
          /\ \A w \in DOMAIN prev : prev[w] = Newest(epoch - DeltaEpochs, w)
      BY <1>v, <2>2, <3>1, ChosenAt
    <3> QED
      BY <2>1, <2>5, <3>2
  <2>7. PerfStatuses \subseteq Statuses
    BY DEF PerfStatuses, Statuses
  <2>8. Withdrawn(paid, v, o) = PaidTo(v)
    BY <1>v, <2>1, <2>7, PaidIs
  <2>9. /\ Earned(v) = Newest(epoch, v).balance - Newest(epoch - DeltaEpochs, v).balance + PaidTo(v)
        /\ Earned(v) \in Int
    BY <2>1, EarnedIs
  <2>10. v \in Both[o]
    BY <1>b, <2>1, <2>2, <2>4, <2>6 DEF Owned
  <2>11. f[v] = curr[v].balance - prev[v].balance + Withdrawn(paid, v, o)
    BY <2>10
  <2> QED
    BY <2>4, <2>6, <2>8, <2>9, <2>10, <2>11
<1>5. Both[o] = Rows(o)
  <2>1. ASSUME NEW v \in Both[o] PROVE v \in Rows(o)
    BY <1>b, <1>c DEF Owned, Rows
  <2> QED
    BY <1>4, <2>1
<1>6. DOMAIN f = Rows(o) /\ DOMAIN g = Rows(o) /\ EarnedBy(o) = Total(g)
  BY <1>5 DEF EarnedBy
<1> HIDE DEF f, g
<1>7. IsFiniteSet(Rows(o))
  BY FiniteAssumption, FS_Subset DEF Rows
<1>8. Sum(f, Rows(o)) = Sum(g, Rows(o))
  BY <1>4, <1>7, SumEqual
<1>9. Total(f) = EarnedBy(o)
  BY <1>6, <1>8, TotalIsSum
<1>10. CASE Rows(o) = {}
  <2>1. Sum(g, {}) = 0
    BY FS_EmptySet, SumEquation
  <2> QED
    BY <1>2, <1>5, <1>6, <1>10, <2>1, TotalIsSum
<1> QED
  BY <1>2, <1>3, <1>5, <1>9, <1>10

\* What the query of a module puts back for a validator that is steady, over all operators.
LEMMA PaidByAll ==
  ASSUME CalcInv, TableInv, BalanceInv, epoch > 0, NEW v \in Validators, Steady(v), Clear, NEW newest \in BOOLEAN,
         NEW paid, paid = Paid(epoch, DeltaEpochs, NotDone, newest), Newest(epoch, v).owner \in Operators
  PROVE  Total([p \in Operators |-> Withdrawn(paid, v, p)]) = PaidTo(v)
<1> DEFINE o == Newest(epoch, v).owner
           w == [p \in Operators |-> Withdrawn(paid, v, p)]
           rest == Operators \ {o}
<1>1. PerfStatuses \subseteq NotDone
  BY DEF PerfStatuses, NotDone, Statuses
<1>2. ASSUME NEW p
      PROVE  /\ p = o => Withdrawn(paid, v, p) = PaidTo(v)
             /\ p # o => Withdrawn(paid, v, p) = 0
  BY <1>1, PaidIs
<1>3. PaidTo(v) \in Int
  BY EarnedIs
<1>4. DOMAIN w = Operators /\ o \in Operators /\ \A p \in Operators : w[p] = Withdrawn(paid, v, p)
  OBVIOUS
<1> HIDE DEF w, o
<1>5. (\A p \in Operators : w[p] \in Int) /\ w[o] = PaidTo(v) /\ \A p \in rest : w[p] = 0
  BY <1>2, <1>3, <1>4
<1>6. IsFiniteSet(Operators) /\ IsFiniteSet(rest)
  BY FiniteAssumption, FS_Subset
<1>7. Sum(w, Operators) = w[o] + Sum(w, rest)
  BY <1>4, <1>5, <1>6, SumRemove
<1>8. Sum(w, rest) = 0
  BY <1>5, <1>6, SumZero
<1>9. Total(w) = Sum(w, Operators)
  BY <1>4, TotalIsSum
<1>10. Total(w) = PaidTo(v)
  BY <1>3, <1>5, <1>7, <1>8, <1>9
<1> QED
  BY <1>10 DEF w

\* The change of the balance of a module whose operators are steady.
LEMMA ModuleDifference ==
  ASSUME CalcInv, TableInv, BalanceInv, epoch > 0, Clear, NEW newest \in BOOLEAN,
         NEW m \in Modules, OfModuleNow(m) # {}, \A v \in OfModuleNow(m) : Steady(v),
         NEW data, data = TotalBalance24hDifference(epoch, DeltaEpochs, newest)
  PROVE  m \in DOMAIN data /\ data[m] = Total([v \in OfModuleNow(m) |-> Earned(v)])
<1> DEFINE U == {r \in UserRows(epoch) : NotQueued(r)}
           P == {r \in UserRows(epoch - DeltaEpochs) : NotQueued(r)}
           curr == Limit1(epoch, U, newest)
           prev == Limit1(epoch - DeltaEpochs, P, newest)
           paid == Paid(epoch, DeltaEpochs, NotDone, newest)
           S == OfModuleNow(m)
           Both == [k \in Modules |-> OfModule(curr, k) \cap DOMAIN prev]
           f == [v \in Both[m] |-> curr[v].balance - prev[v].balance + Total([p \in Operators |-> Withdrawn(paid, v, p)])]
           g == [v \in S |-> Earned(v)]
<1>1. data = [k \in {k \in Modules : Both[k] # {}} |->
                Total([v \in Both[k] |-> curr[v].balance - prev[v].balance
                                           + Total([p \in Operators |-> Withdrawn(paid, v, p)])])]
  BY DEF TotalBalance24hDifference
<1>2. m \in DOMAIN data <=> Both[m] # {}
  BY <1>1
<1>3. m \in DOMAIN data => data[m] = Total(f)
  BY <1>1
<1>b. Both[m] = OfModule(curr, m) \cap DOMAIN prev
  OBVIOUS
<1>u. U = {r \in UserRows(epoch) : NotQueued(r)} /\ P = {r \in UserRows(epoch - DeltaEpochs) : NotQueued(r)}
  OBVIOUS
<1>v. /\ prev = Limit1(epoch - DeltaEpochs, P, newest) /\ curr = Limit1(epoch, U, newest)
      /\ paid = Paid(epoch, DeltaEpochs, NotDone, newest)
  OBVIOUS
<1>s. S = OfModuleNow(m)
  OBVIOUS
<1> HIDE DEF U, P, curr, prev, paid, Both
<1>e. epoch \in 1 .. epoch /\ epoch \in DeltaWindow /\ epoch \in Int
  BY WindowsAssumption DEF CalcInv, DeltaWindow
<1>c. /\ DOMAIN curr = {v \in Validators : Newest(epoch, v) \in U}
      /\ \A v \in DOMAIN curr : curr[v] = Newest(epoch, v)
  <2>1. Equal(epoch)
    BY <1>e DEF Clear
  <2> QED
    BY <1>e, <1>v, <2>1, ChosenAt
<1>w. ASSUME NEW x \in 1 .. epoch, Equal(x)
      PROVE  /\ DOMAIN Limit1(x, P, newest) = {w \in Validators : Newest(x, w) \in P}
             /\ \A w \in DOMAIN Limit1(x, P, newest) : Limit1(x, P, newest)[w] = Newest(x, w)
  BY <1>w, ChosenAt
<1>o. \A v \in S : /\ v \in Validators /\ Newest(epoch, v).owner # Other /\ ModuleOf[Newest(epoch, v).owner] = m
                   /\ Newest(epoch, v).owner \in Operators
  <2>1. \A v \in S : v \in Validators /\ Newest(epoch, v).owner # Other /\ ModuleOf[Newest(epoch, v).owner] = m
    BY DEF OfModuleNow, Ours
  <2>2. \A v \in Validators : Newest(epoch, v).owner \in Owners
    BY <1>e, NewestColumns
  <2> QED
    BY <2>1, <2>2 DEF Owners
<1>4. ASSUME NEW v \in S
      PROVE  v \in Both[m] /\ f[v] = g[v] /\ g[v] \in Int
  <2>1. v \in Validators /\ Steady(v)
    BY <1>o
  <2>2. /\ epoch - DeltaEpochs \in 1 .. epoch /\ epoch - DeltaEpochs \in DeltaWindow
        /\ IsUser(Newest(epoch, v)) /\ Performing(Newest(epoch, v))
        /\ IsUser(Newest(epoch - DeltaEpochs, v)) /\ Performing(Newest(epoch - DeltaEpochs, v))
    BY <2>1, SteadyRows
  <2>3. Newest(epoch, v) \in AllRows(epoch) /\ Newest(epoch - DeltaEpochs, v) \in AllRows(epoch - DeltaEpochs)
    BY <1>e, <2>1, <2>2, ChosenRows
  <2>4. v \in DOMAIN curr /\ curr[v] = Newest(epoch, v)
    BY <1>c, <1>u, <2>1, <2>2, <2>3 DEF UserRows, Performing, NotQueued, PerfStatuses
  <2>5. Newest(epoch - DeltaEpochs, v) \in P
    BY <1>u, <2>2, <2>3 DEF UserRows, Performing, NotQueued, PerfStatuses
  <2>6. v \in DOMAIN prev /\ prev[v] = Newest(epoch - DeltaEpochs, v)
    <3>1. Equal(epoch - DeltaEpochs)
      BY <2>2 DEF Clear
    <3>2. /\ DOMAIN prev = {w \in Validators : Newest(epoch - DeltaEpochs, w) \in P}
          /\ \A w \in DOMAIN prev : prev[w] = Newest(epoch - DeltaEpochs, w)
      BY <1>v, <1>w, <2>2, <3>1
    <3> QED
      BY <2>1, <2>5, <3>2
  <2>8. Total([p \in Operators |-> Withdrawn(paid, v, p)]) = PaidTo(v)
    BY <1>o, <1>v, <2>1, PaidByAll
  <2>9. /\ Earned(v) = Newest(epoch, v).balance - Newest(epoch - DeltaEpochs, v).balance + PaidTo(v)
        /\ Earned(v) \in Int
    BY <2>1, EarnedIs
  <2>10. v \in Both[m]
    BY <1>b, <1>o, <2>1, <2>2, <2>4, <2>6 DEF OfModule
  <2>11. f[v] = curr[v].balance - prev[v].balance + Total([p \in Operators |-> Withdrawn(paid, v, p)])
    BY <2>10
  <2>12. g[v] = Earned(v)
    OBVIOUS
  <2> HIDE DEF f, g
  <2> QED
    BY <2>4, <2>6, <2>8, <2>9, <2>10, <2>11, <2>12
<1>5. Both[m] = S
  <2>1. ASSUME NEW v \in Both[m] PROVE v \in S
    BY <1>b, <1>c, <1>u DEF OfModule, OfModuleNow, Ours, UserRows, IsUser
  <2> QED
    BY <1>4, <2>1
<1>6. DOMAIN f = S /\ DOMAIN g = S
  BY <1>5
<1> HIDE DEF f, g
<1>7. IsFiniteSet(S)
  BY <1>o, FiniteAssumption, FS_Subset
<1>8. Sum(f, S) = Sum(g, S)
  <2> HIDE DEF S
  <2> QED
    BY <1>4, <1>7, SumEqual
<1>9. Total(f) = Total(g)
  BY <1>6, <1>8, TotalIsSum
<1>10. data[m] = Total(g) /\ m \in DOMAIN data
  BY <1>2, <1>3, <1>5, <1>9
<1> QED
  BY <1>10 DEF g

\* A column summed over the rows of a group, where the rows left out have nothing in it.
LEMMA ColumnSum ==
  ASSUME NEW R, IsFiniteSet(R), NEW T \in SUBSET R, NEW f, DOMAIN f = T, NEW g, \A v \in R : g[v] \in Int,
         \A v \in T : f[v] = g[v], \A v \in R \ T : g[v] = 0
  PROVE  Total(f) = Sum(g, R)
<1>1. IsFiniteSet(T) /\ \A v \in T : g[v] \in Int
  BY FS_Subset
<1>2. Sum(f, T) = Sum(g, T)
  BY <1>1, SumEqual
<1>3. Sum(g, R) = Sum(g, T)
  BY <1>1, SumWithoutZeros
<1> QED
  BY <1>2, <1>3, TotalIsSum

\* The rewards calculated of a steady operator are those its balances tell.
LEMMA RewardsAre ==
  ASSUME CalcInv, TableInv, BalanceInv, epoch > 0, Clear, NEW newest \in BOOLEAN,
         NEW o \in Operators, SteadyOf(o), Rows(o) # {},
         \A v \in Rows(o) : Initialized(v, epoch - 1) /\ Initialized(v, epoch),
         NEW data, data = UserNodeOperatorsRewards(epoch, newest)
  PROVE  o \in DOMAIN data /\ data[o].error = 0
<1> DEFINE R == Rows(o)
           W == {r \in UserRows(epoch - 1) : r.status # "pending_initialized"}
           U == {r \in UserRows(epoch) : r.status # "pending_initialized"}
           Wp == {r \in U : r.proposed # Null}
           Ws == {r \in U : r.sync # Null}
           Ww == {r \in U : r.status \in NotDone /\ r.withdrawn > 0}
           att == Limit1(epoch - 1, W, newest)
           prop == Limit1(epoch, Wp, newest)
           sync == Limit1(epoch, Ws, newest)
           curr == Limit1(epoch, U, newest)
           paid == Limit1(epoch, Ww, newest)
           fa == [v \in Owned(att, o) |-> att[v].attReward]
           fp == [v \in Owned(prop, o) |-> prop[v].propReward]
           fs == [v \in Owned(sync, o) |-> sync[v].syncReward]
           fr == [v \in Owned(curr, o) \cap DOMAIN att |->
                    curr[v].balance - att[v].balance + IF v \in DOMAIN paid THEN paid[v].withdrawn ELSE 0]
           calc == Total(fa) + Total(fp) + Total(fs)
<1>1. DOMAIN data = Present(att) /\ (o \in Present(att) => data[o].error = calc - Total(fr))
  BY DEF UserNodeOperatorsRewards
<1>s. \A v \in R : v \in Validators /\ Steady(v) /\ Newest(epoch, v).owner = o
  BY SteadyMembers
<1>i. \A v \in R : /\ Newest(epoch - 1, v).status # "pending_initialized"
                   /\ Newest(epoch, v).status # "pending_initialized"
  BY DEF Initialized
<1>e. epoch \in DeltaWindow /\ epoch - 1 \in DeltaWindow /\ epoch \in 1 .. epoch /\ epoch - 1 \in 1 .. epoch /\ epoch \in 2 .. epoch
  <2>1. PICK v \in R : TRUE
    OBVIOUS
  <2>2. v \in Validators /\ Steady(v)
    BY <1>s
  <2>3. epoch \in Paying
    BY WindowsAssumption DEF Paying, CalcInv
  <2>4. /\ epoch \in DeltaWindow /\ epoch \in 1 .. epoch /\ (\A x \in DeltaWindow : x \in 1 .. epoch)
        /\ \A x \in Paying : x - 1 \in DeltaWindow /\ x \in 2 .. epoch
    BY <2>2, SteadyRows
  <2> QED
    BY <2>3, <2>4
<1>q. Equal(epoch) /\ Equal(epoch - 1)
  BY <1>e DEF Clear
<1>c. ASSUME NEW Y
      PROVE  /\ DOMAIN Limit1(epoch, Y, newest) = {w \in Validators : Newest(epoch, w) \in Y}
             /\ \A w \in DOMAIN Limit1(epoch, Y, newest) : Limit1(epoch, Y, newest)[w] = Newest(epoch, w)
  BY <1>e, <1>q, ChosenAt
<1>p. ASSUME NEW Y, NEW x \in 1 .. epoch, Equal(x)
      PROVE  /\ DOMAIN Limit1(x, Y, newest) = {w \in Validators : Newest(x, w) \in Y}
             /\ \A w \in DOMAIN Limit1(x, Y, newest) : Limit1(x, Y, newest)[w] = Newest(x, w)
  BY <1>p, ChosenAt
<1>2. ASSUME NEW v \in R
      PROVE  /\ Newest(epoch - 1, v) \in W /\ Newest(epoch, v) \in U
             /\ Newest(epoch - 1, v).owner = o /\ Newest(epoch, v).owner = o
             /\ Newest(epoch, v).status \in NotDone
  <2>1. v \in Validators /\ Steady(v)
    BY <1>s
  <2>2. \A x \in DeltaWindow : /\ x \in 1 .. epoch /\ IsUser(Newest(x, v)) /\ Performing(Newest(x, v))
                               /\ Newest(x, v).owner = Newest(epoch, v).owner
    BY <2>1, SteadyRows
  <2>3. Newest(epoch, v) \in AllRows(epoch) /\ Newest(epoch - 1, v) \in AllRows(epoch - 1)
    BY <1>e, <2>1, ChosenRows
  <2>4. Newest(epoch, v).status \in NotDone
    BY <1>e, <2>2 DEF Performing, PerfStatuses, NotDone, Statuses
  <2>5. Newest(epoch - 1, v) \in UserRows(epoch - 1) /\ Newest(epoch, v) \in UserRows(epoch)
    BY <1>e, <2>2, <2>3 DEF UserRows
  <2> QED
    BY <1>e, <1>i, <1>s, <2>2, <2>4, <2>5
<1>a. DOMAIN att = {w \in Validators : Newest(epoch - 1, w) \in W} /\ \A w \in DOMAIN att : att[w] = Newest(epoch - 1, w)
  <2> HIDE DEF W
  <2> QED
    BY <1>e, <1>p, <1>q
<1>b. /\ DOMAIN prop = {w \in Validators : Newest(epoch, w) \in Wp} /\ \A w \in DOMAIN prop : prop[w] = Newest(epoch, w)
      /\ DOMAIN sync = {w \in Validators : Newest(epoch, w) \in Ws} /\ \A w \in DOMAIN sync : sync[w] = Newest(epoch, w)
      /\ DOMAIN curr = {w \in Validators : Newest(epoch, w) \in U} /\ \A w \in DOMAIN curr : curr[w] = Newest(epoch, w)
      /\ DOMAIN paid = {w \in Validators : Newest(epoch, w) \in Ww} /\ \A w \in DOMAIN paid : paid[w] = Newest(epoch, w)
  <2> HIDE DEF U, Wp, Ws, Ww
  <2> QED
    BY <1>c
<1>w. /\ \A r : r \in Wp <=> r \in U /\ r.proposed # Null
      /\ \A r : r \in Ws <=> r \in U /\ r.sync # Null
      /\ \A r : r \in Ww <=> r \in U /\ r.status \in NotDone /\ r.withdrawn > 0
  <2> HIDE DEF U
  <2> QED
    OBVIOUS
<1>t. R = Rows(o)
  OBVIOUS
<1> HIDE DEF R, W, U, Wp, Ws, Ww, att, prop, sync, curr, paid
<1>3. Owned(att, o) = R
  <2>1. ASSUME NEW v \in Owned(att, o) PROVE v \in R
    <3>1. v \in Validators /\ Newest(epoch - 1, v).owner = o
      BY <1>a DEF Owned
    <3>2. Steady(v)
      BY <1>e, <3>1 DEF SteadyOf, Stored
    <3>3. Newest(epoch, v).owner = o
      BY <1>e, <3>1, <3>2, SteadyRows
    <3> QED
      BY <1>t, <3>1, <3>3 DEF Rows
  <2>2. ASSUME NEW v \in R PROVE v \in Owned(att, o)
    BY <1>2, <1>a, <1>s DEF Owned
  <2> QED
    BY <2>1, <2>2
<1>4. /\ Owned(prop, o) = {v \in R : Newest(epoch, v).proposed # Null}
      /\ Owned(sync, o) = {v \in R : Newest(epoch, v).sync # Null}
      /\ Owned(curr, o) = R
  <2>1. \A v \in Validators : Newest(epoch, v).owner = o <=> v \in R
    BY <1>t DEF Rows
  <2>2. \A v \in R : v \in Validators /\ Newest(epoch, v) \in U
    BY <1>2, <1>s
  <2>3. Owned(prop, o) = {v \in R : Newest(epoch, v).proposed # Null}
    BY <1>b, <1>w, <2>1, <2>2 DEF Owned
  <2>4. Owned(sync, o) = {v \in R : Newest(epoch, v).sync # Null}
    BY <1>b, <1>w, <2>1, <2>2 DEF Owned
  <2>5. Owned(curr, o) = R
    BY <1>b, <2>1, <2>2 DEF Owned
  <2> QED
    BY <2>3, <2>4, <2>5
<1>f. IsFiniteSet(R)
  BY <1>s, FiniteAssumption, FS_Subset
<1> DEFINE ga == [v \in R |-> Newest(epoch - 1, v).attReward]
           gp == [v \in R |-> Newest(epoch, v).propReward]
           gs == [v \in R |-> Newest(epoch, v).syncReward]
           gr == [v \in R |-> Newest(epoch, v).balance - Newest(epoch - 1, v).balance + Newest(epoch, v).withdrawn]
           gap == [v \in R |-> ga[v] + gp[v]]
<1>5. ASSUME NEW v \in R
      PROVE  /\ ga[v] = Newest(epoch - 1, v).attReward /\ gp[v] = Newest(epoch, v).propReward
             /\ gs[v] = Newest(epoch, v).syncReward
             /\ gr[v] = Newest(epoch, v).balance - Newest(epoch - 1, v).balance + Newest(epoch, v).withdrawn
             /\ ga[v] \in Int /\ gp[v] \in Int /\ gs[v] \in Int /\ gr[v] \in Int /\ gap[v] \in Int
             /\ gap[v] = ga[v] + gp[v] /\ gr[v] = gap[v] + gs[v]
             /\ Newest(epoch, v).proposed = Null => gp[v] = 0
             /\ Newest(epoch, v).sync = Null => gs[v] = 0
             /\ Newest(epoch, v).withdrawn \in Nat
  <2>1. v \in Validators
    BY <1>s
  <2>2. /\ Newest(epoch, v).balance \in Int /\ Newest(epoch, v).propReward \in Int /\ Newest(epoch, v).syncReward \in Int
        /\ Newest(epoch, v).withdrawn \in Nat
        /\ Newest(epoch, v).proposed = Null => Newest(epoch, v).propReward = 0
        /\ Newest(epoch, v).sync = Null => Newest(epoch, v).syncReward = 0
    BY <1>e, <2>1, NewestColumns
  <2>3. Newest(epoch - 1, v).balance \in Int /\ Newest(epoch - 1, v).attReward \in Int
    BY <1>e, <2>1, NewestColumns
  <2>4. Newest(epoch, v).balance = Newest(epoch - 1, v).balance + Newest(epoch - 1, v).attReward
          + Newest(epoch, v).propReward + Newest(epoch, v).syncReward - Newest(epoch, v).withdrawn
    BY <1>e, <2>1 DEF BalanceInv
  <2>5. /\ ga[v] = Newest(epoch - 1, v).attReward /\ gp[v] = Newest(epoch, v).propReward
        /\ gs[v] = Newest(epoch, v).syncReward
        /\ gr[v] = Newest(epoch, v).balance - Newest(epoch - 1, v).balance + Newest(epoch, v).withdrawn
        /\ gap[v] = ga[v] + gp[v]
    OBVIOUS
  <2> HIDE DEF ga, gp, gs, gr, gap
  <2> QED
    BY <2>2, <2>3, <2>4, <2>5
<1> HIDE DEF ga, gp, gs, gr, gap
<1>6. Total(fa) = Sum(ga, R)
  <2>1. DOMAIN fa = R /\ \A v \in R : fa[v] = ga[v]
    BY <1>3, <1>5, <1>a DEF Owned
  <2> HIDE DEF fa
  <2> QED
    BY <1>5, <1>f, <2>1, ColumnSum
<1>7. Total(fp) = Sum(gp, R)
  <2> DEFINE T == {v \in R : Newest(epoch, v).proposed # Null}
  <2>1. DOMAIN fp = T /\ \A v \in T : fp[v] = gp[v]
    BY <1>4, <1>5, <1>b DEF Owned
  <2>2. T \in SUBSET R /\ \A v \in R \ T : gp[v] = 0
    BY <1>5
  <2> HIDE DEF fp, T
  <2> QED
    BY <1>5, <1>f, <2>1, <2>2, ColumnSum
<1>8. Total(fs) = Sum(gs, R)
  <2> DEFINE T == {v \in R : Newest(epoch, v).sync # Null}
  <2>1. DOMAIN fs = T /\ \A v \in T : fs[v] = gs[v]
    BY <1>4, <1>5, <1>b DEF Owned
  <2>2. T \in SUBSET R /\ \A v \in R \ T : gs[v] = 0
    BY <1>5
  <2> HIDE DEF fs, T
  <2> QED
    BY <1>5, <1>f, <2>1, <2>2, ColumnSum
<1>9. Total(fr) = Sum(gr, R)
  <2>1. Owned(curr, o) \cap DOMAIN att = R
    BY <1>2, <1>4, <1>a, <1>s
  <2>2. ASSUME NEW v \in R PROVE fr[v] = gr[v]
    <3>1. curr[v] = Newest(epoch, v) /\ att[v] = Newest(epoch - 1, v)
      BY <1>2, <1>a, <1>b, <1>s
    <3>2. v \in DOMAIN paid <=> Newest(epoch, v).withdrawn > 0
      BY <1>2, <1>b, <1>s, <1>w
    <3>3. v \in DOMAIN paid => paid[v] = Newest(epoch, v)
      BY <1>b
    <3>4. Newest(epoch, v).withdrawn = IF v \in DOMAIN paid THEN paid[v].withdrawn ELSE 0
      BY <1>5, <3>2, <3>3
    <3>5. fr[v] = curr[v].balance - att[v].balance + IF v \in DOMAIN paid THEN paid[v].withdrawn ELSE 0
      BY <2>1
    <3> QED
      BY <1>5, <3>1, <3>4, <3>5
  <2>3. DOMAIN fr = R
    BY <2>1
  <2> HIDE DEF fr
  <2> QED
    BY <1>5, <1>f, <2>2, <2>3, ColumnSum
<1>10. Sum(gap, R) = Sum(ga, R) + Sum(gp, R)
  BY <1>5, <1>f, SumAdd
<1>11. Sum(gr, R) = Sum(gap, R) + Sum(gs, R)
  <2>1. \A v \in R : gap[v] \in Int /\ gs[v] \in Int /\ gr[v] = gap[v] + gs[v]
    BY <1>5
  <2> QED
    BY <1>f, <2>1, SumAdd
<1>12. Sum(ga, R) \in Int /\ Sum(gp, R) \in Int /\ Sum(gs, R) \in Int
  BY <1>5, <1>f, SumInt
<1>13. o \in Present(att)
  BY <1>3, <1>t DEF Present, Owned
<1>14. calc - Total(fr) = 0
  <2> HIDE DEF fa, fp, fs, fr
  <2> QED
    BY <1>6, <1>7, <1>8, <1>9, <1>10, <1>11, <1>12
<1> QED
  BY <1>1, <1>13, <1>14

(***************************************************************************)
(* Rewards.  What the gauges tell of an operator whose validators have     *)
(* stayed, and of a module of such operators.                              *)
(***************************************************************************)
Tells(o, g) ==
  /\ task = "avgDeltas" /\ Rows(o) # {} => g = <<EarnedBy(o), Cardinality(Rows(o))>>
  /\ task = "minDeltas" /\ Rows(o) # {} => IsQuantile(g, o)
  /\ task = "negativeValidatorsCount" =>
       g = Cardinality({v \in Rows(o) : Earned(v) < 0 /\ Newest(epoch, v).slashed = 0})
  /\ task = "balance24hDifference" => g = EarnedBy(o)
  /\ task = "userRewards" /\ Rows(o) # {} /\ (\A v \in Rows(o) : Initialized(v, epoch - 1) /\ Initialized(v, epoch))
       => g.error = 0

SteadyModule(m) == OfModuleNow(m) # {} /\ \A v \in OfModuleNow(m) : Steady(v)
EarnedIn(m) == Total([v \in OfModuleNow(m) |-> Earned(v)])

RewardInv ==
  clean = "yes" =>
    /\ Shown("user") => \A o \in DOMAIN list : SteadyOf(o) => \A g : g = Gauge(o) => Tells(o, g)
    /\ task = "balance24hDifference" /\ Shown("module") =>
         \A m \in Modules : SteadyModule(m) => module[m] = EarnedIn(m)

\* The window of the tasks that do not count.
LEMMA WindowIsDelta == task \notin Counting => Window(epoch) = DeltaWindow
BY DEF Window, DeltaWindow

\* The queries of the balances tell what the validators of a steady operator earned.
LEMMA QueryTells ==
  ASSUME CalcInv, TableInv, BalanceInv, epoch > 0, \A x \in Window(epoch) : Equal(x), NEW newest \in BOOLEAN,
         NEW o \in Operators, SteadyOf(o), NEW data, data = Query(epoch, newest)
  PROVE  Tells(o, IF o \in DOMAIN data THEN data[o] ELSE Zero)
<1> DEFINE g == IF o \in DOMAIN data THEN data[o] ELSE Zero
           T == {"avgDeltas", "minDeltas", "negativeValidatorsCount", "balance24hDifference", "userRewards"}
<1>0. CASE task \notin T
  BY <1>0 DEF Tells
<1>t. ASSUME task \in T
      PROVE  task \notin DOMAIN AttestationTasks /\ task \notin DOMAIN SyncTasks /\ task \notin DOMAIN ProposeTasks
  BY <1>t DEF AttestationTasks, SyncTasks, ProposeTasks
<1>c. ASSUME task \in T PROVE Clear
  <2>1. task \notin Counting
    BY <1>c, <1>t DEF Counting
  <2> QED
    BY <2>1, WindowIsDelta DEF Clear
<1>1. CASE task = "avgDeltas"
  <2>1. data = AvgValidatorBalanceDelta(epoch, DeltaEpochs, newest)
    BY Zenon, <1>1, <1>t DEF Query
  <2>2. ASSUME Rows(o) # {} PROVE g = <<EarnedBy(o), Cardinality(Rows(o))>>
    BY <1>1, <1>c, <2>1, <2>2, AvgIs
  <2> HIDE DEF g
  <2> QED
    BY <1>1, <2>2 DEF Tells, g
<1>2. CASE task = "minDeltas"
  <2>1. data = ValidatorQuantile0001BalanceDeltas(epoch, DeltaEpochs, newest)
    BY Zenon, <1>2, <1>t DEF Query
  <2>2. ASSUME Rows(o) # {} PROVE o \in DOMAIN data /\ IsQuantile(data[o], o)
    BY <1>2, <1>c, <2>1, <2>2, QuantileIs
  <2>3. ASSUME Rows(o) # {} PROVE IsQuantile(g, o)
    BY <2>2, <2>3
  <2> QED
    BY <1>2, <2>3 DEF Tells
<1>3. CASE task = "negativeValidatorsCount"
  <2>1. data = ValidatorsCountWithNegativeDelta(epoch, DeltaEpochs, newest)
    BY Zenon, <1>3, <1>t DEF Query
  <2>z. Zero = 0
    BY Zenon, <1>3 DEF Zero
  <2>2. (IF o \in DOMAIN data THEN data[o] ELSE 0)
           = Cardinality({v \in Rows(o) : Earned(v) < 0 /\ Newest(epoch, v).slashed = 0})
    BY <1>3, <1>c, <2>1, NegativeIs
  <2> QED
    BY <1>3, <2>2, <2>z DEF Tells
<1>4. CASE task = "balance24hDifference"
  <2>1. data = OperatorBalance24hDifference(epoch, DeltaEpochs, newest)
    BY Zenon, <1>4, <1>t DEF Query
  <2>z. Zero = 0
    BY Zenon, <1>4 DEF Zero
  <2>2. (IF o \in DOMAIN data THEN data[o] ELSE 0) = EarnedBy(o)
    BY <1>4, <1>c, <2>1, DifferenceIs
  <2> QED
    BY <1>4, <2>2, <2>z DEF Tells
<1>5. CASE task = "userRewards"
  <2>1. data = UserNodeOperatorsRewards(epoch, newest)
    BY Zenon, <1>5, <1>t DEF Query
  <2>2. ASSUME Rows(o) # {}, \A v \in Rows(o) : Initialized(v, epoch - 1) /\ Initialized(v, epoch)
        PROVE  o \in DOMAIN data /\ data[o].error = 0
    BY <1>5, <1>c, <2>1, <2>2, RewardsAre
  <2> QED
    BY <1>5, <2>2 DEF Tells
<1> QED
  BY <1>0, <1>1, <1>2, <1>3, <1>4, <1>5

\* The query of the balances of a module tells what its validators earned.
LEMMA ModuleTells ==
  ASSUME CalcInv, TableInv, BalanceInv, epoch > 0, \A x \in Window(epoch) : Equal(x), NEW newest \in BOOLEAN,
         task = "balance24hDifference", NEW m \in Modules, SteadyModule(m)
  PROVE  /\ m \in DOMAIN ModuleQuery(epoch, newest)
         /\ ModuleQuery(epoch, newest)[m] = EarnedIn(m)
<1>1. ModuleQuery(epoch, newest) = TotalBalance24hDifference(epoch, DeltaEpochs, newest)
  BY Zenon DEF ModuleQuery
<1>2. Clear
  <2>1. task \notin Counting
    BY DEF Counting, AttestationTasks, SyncTasks, ProposeTasks
  <2> QED
    BY <2>1, WindowIsDelta DEF Clear
<1> QED
  BY <1>1, <1>2, ModuleDifference DEF SteadyModule, EarnedIn

\* Steadiness, and what was earned meanwhile, stay while the epoch does.
LEMMA SteadyStays ==
  ASSUME CalcInv, TableInv, epoch > 0, epoch' = epoch,
         \A e \in 1 .. epoch : \A v \in Validators : Newest(e, v)' = Newest(e, v)
  PROVE  /\ \A v \in Validators : Steady(v)' <=> Steady(v)
         /\ \A o : SteadyOf(o)' <=> SteadyOf(o)
         /\ \A v \in Validators : Steady(v) => Earned(v)' = Earned(v)
<1>1. epoch \in 1 .. epoch /\ DeltaWindow' = DeltaWindow
  BY DEF CalcInv, DeltaWindow
<1>2. \A x : Stored(x)' <=> Stored(x)
  BY DEF Stored
<1>3. \A x : Stored(x) => \A v \in Validators : Newest(x, v)' = Newest(x, v)
  BY DEF Stored
<1>4. \A v \in Validators : Newest(epoch, v)' = Newest(epoch, v)
  BY <1>1
<1>5. ASSUME NEW v \in Validators PROVE Steady(v)' <=> Steady(v)
  BY <1>1, <1>2, <1>3, <1>4 DEF Steady
<1>6. ASSUME NEW o PROVE SteadyOf(o)' <=> SteadyOf(o)
  BY <1>1, <1>2, <1>3, <1>5 DEF SteadyOf
<1>7. ASSUME NEW v \in Validators, Steady(v) PROVE Earned(v)' = Earned(v)
  <2> DEFINE f == [x \in Paying |-> Newest(x - 1, v).attReward + Newest(x, v).propReward + Newest(x, v).syncReward]
             h == [x \in Paying |-> Newest(x - 1, v)'.attReward + Newest(x, v)'.propReward + Newest(x, v)'.syncReward]
  <2>1. \A x \in Paying : x \in 1 .. epoch /\ x - 1 \in 1 .. epoch
    <3>1. \A x \in Paying : x - 1 \in DeltaWindow /\ x \in DeltaWindow
      BY <1>7, SteadyRows
    <3>2. \A x \in DeltaWindow : x \in 1 .. epoch
      BY <1>7, SteadyRows
    <3> QED
      BY <3>1, <3>2
  <2>2. f = h
    BY <2>1
  <2>3. Earned(v) = Total(f)
    BY DEF Earned, Paying
  <2>4. Earned(v)' = Total(h)
    BY DEF Earned, Paying
  <2> QED
    BY <2>2, <2>3, <2>4
<1> QED
  BY <1>5, <1>6, <1>7

\* What a gauge tells stays true while the newest rows do.
LEMMA TellsStays ==
  ASSUME CalcInv, TableInv, epoch > 0, epoch' = epoch, task' = task,
         \A e \in 1 .. epoch : \A v \in Validators : Newest(e, v)' = Newest(e, v),
         NEW o, SteadyOf(o), NEW g, Tells(o, g)
  PROVE  Tells(o, g)'
<1>e. epoch \in 1 .. epoch
  BY DEF CalcInv
<1>1. Rows(o)' = Rows(o)
  BY NowStays
<1>2. \A v \in Rows(o) : v \in Validators /\ Steady(v) /\ Newest(epoch, v).owner = o
  BY SteadyMembers
<1>3. \A v \in Rows(o) : Earned(v)' = Earned(v)
  BY <1>2, SteadyStays
<1>4. \A v \in Rows(o) : Newest(epoch, v)' = Newest(epoch, v)
  BY <1>2, <1>e
<1>5. EarnedBy(o)' = EarnedBy(o)
  <2> DEFINE f == [v \in Rows(o) |-> Earned(v)]
             h == [v \in Rows(o) |-> Earned(v)']
  <2>1. f = h
    BY <1>3
  <2>2. EarnedBy(o) = Total(f)
    BY DEF EarnedBy
  <2>3. EarnedBy(o)' = Total(h)
    BY <1>1 DEF EarnedBy
  <2> QED
    BY <2>1, <2>2, <2>3
<1>6. IsQuantile(g, o) => IsQuantile(g, o)'
  <2>1. {v \in Rows(o) : Earned(v) < g} = {v \in Rows(o)' : Earned(v)' < g}
    BY <1>1, <1>3
  <2>2. {v \in Rows(o) : Earned(v) <= g} = {v \in Rows(o)' : Earned(v)' <= g}
    BY <1>1, <1>3
  <2>3. (\E v \in Rows(o) : Earned(v) = g) => \E v \in Rows(o)' : Earned(v)' = g
    BY <1>1, <1>3
  <2> QED
    BY <1>1, <2>1, <2>2, <2>3 DEF IsQuantile
<1>7. {v \in Rows(o) : Earned(v) < 0 /\ Newest(epoch, v).slashed = 0}
        = {v \in Rows(o)' : Earned(v)' < 0 /\ Newest(epoch, v)'.slashed = 0}
  BY <1>1, <1>3, <1>4
<1>8. ASSUME NEW v \in Rows(o) PROVE Newest(epoch - 1, v)' = Newest(epoch - 1, v)
  <2>1. v \in Validators /\ Steady(v)
    BY <1>2
  <2>2. epoch \in Paying
    BY WindowsAssumption DEF Paying, CalcInv
  <2>3. (\A x \in DeltaWindow : x \in 1 .. epoch) /\ \A x \in Paying : x - 1 \in DeltaWindow
    BY <2>1, SteadyRows
  <2>4. epoch - 1 \in 1 .. epoch
    BY <2>2, <2>3
  <2>5. ASSUME NEW x \in 1 .. epoch, x = epoch - 1 PROVE Newest(epoch - 1, v)' = Newest(epoch - 1, v)
    <3>1. Newest(x, v)' = Newest(x, v)
      BY <2>1
    <3>2. x = epoch' - 1
      BY <2>5
    <3> QED
      BY <2>5, <3>1, <3>2 DEF Newest
  <2> QED
    BY <2>4, <2>5
<1>9. (\A v \in Rows(o) : Initialized(v, epoch - 1) /\ Initialized(v, epoch))'
        => \A v \in Rows(o) : Initialized(v, epoch - 1) /\ Initialized(v, epoch)
  BY <1>1, <1>4, <1>8 DEF Initialized
<1>a. ASSUME task = "avgDeltas" PROVE Tells(o, g)'
  BY <1>1, <1>5, <1>a DEF Tells
<1>b. ASSUME task = "minDeltas" PROVE Tells(o, g)'
  BY <1>1, <1>6, <1>b DEF Tells
<1>c. ASSUME task = "negativeValidatorsCount" PROVE Tells(o, g)'
  BY <1>7, <1>c DEF Tells
<1>d. ASSUME task = "balance24hDifference" PROVE Tells(o, g)'
  BY <1>5, <1>d DEF Tells
<1>f. ASSUME task = "userRewards" PROVE Tells(o, g)'
  BY <1>1, <1>9, <1>f DEF Tells
<1>g. ASSUME task \notin {"avgDeltas", "minDeltas", "negativeValidatorsCount", "balance24hDifference", "userRewards"}
      PROVE  Tells(o, g)'
  BY <1>g DEF Tells
<1> QED
  BY <1>a, <1>b, <1>c, <1>d, <1>f, <1>g

\* What a module of steady operators earned stays while the newest rows do.
LEMMA ModuleStays ==
  ASSUME CalcInv, TableInv, epoch > 0, epoch' = epoch,
         \A e \in 1 .. epoch : \A v \in Validators : Newest(e, v)' = Newest(e, v),
         NEW m, SteadyModule(m)'
  PROVE  SteadyModule(m) /\ EarnedIn(m)' = EarnedIn(m)
<1>1. OfModuleNow(m)' = OfModuleNow(m)
  BY NowStays
<1>2. \A v \in OfModuleNow(m) : v \in Validators
  BY DEF OfModuleNow, Ours
<1>3. \A v \in OfModuleNow(m) : Steady(v)
  <2>1. \A v \in OfModuleNow(m) : Steady(v)'
    BY <1>1 DEF SteadyModule
  <2>2. \A v \in Validators : Steady(v)' <=> Steady(v)
    BY SteadyStays
  <2> QED
    BY <1>2, <2>1, <2>2
<1>4. SteadyModule(m)
  BY <1>1, <1>3 DEF SteadyModule
<1>5. \A v \in OfModuleNow(m) : Earned(v)' = Earned(v)
  BY <1>2, <1>3, SteadyStays
<1> DEFINE f == [v \in OfModuleNow(m) |-> Earned(v)]
           h == [v \in OfModuleNow(m) |-> Earned(v)']
<1>6. f = h
  BY <1>5
<1>7. EarnedIn(m) = Total(f)
  BY DEF EarnedIn
<1>8. EarnedIn(m)' = Total(h)
  BY <1>1 DEF EarnedIn
<1> QED
  BY <1>4, <1>6, <1>7, <1>8

\* Each step keeps RewardInv.
LEMMA RewardStep ==
  ASSUME CalcInv, TableInv, BalanceInv, RewardInv, [Next]_vars
  PROVE  RewardInv'
<1>0. task' = task
  BY DEF vars, Next, Attempt, Store, Merge, SetUser, SetModule, SetOther, QueryFails, DutiesDone,
         DutiesFail, SummaryDone, SummaryFails, Crash
<1> SUFFICES ASSUME clean' = "yes"
             PROVE  /\ Shown("user")' => \A o \in DOMAIN list' : SteadyOf(o)' => \A g : g = Gauge(o)' => Tells(o, g)'
                    /\ task = "balance24hDifference" /\ Shown("module")' =>
                         \A m \in Modules : SteadyModule(m)' => module'[m] = EarnedIn(m)'
  BY <1>0 DEF RewardInv
<1>n. \A e \in 1 .. epoch : \A v \in Validators : Newest(e, v)' = Newest(e, v)
  BY TableStep
<1>1. ASSUME Shown("user")', NEW o \in DOMAIN list', SteadyOf(o)', NEW g, g = Gauge(o)' PROVE Tells(o, g)'
  <2>k. ASSUME epoch > 0, epoch' = epoch, SteadyOf(o), Tells(o, g) PROVE Tells(o, g)'
    BY <1>0, <1>n, <2>k, TellsStays
  <2>s. ASSUME epoch > 0, epoch' = epoch PROVE SteadyOf(o)
    BY <1>1, <1>n, <2>s, SteadyStays
  <2>1. ASSUME NEW newest \in BOOLEAN, SetsUser(newest) PROVE Tells(o, g)'
    <3> DEFINE data == Query(epoch, newest)
    <3>1. epoch' = epoch /\ list' = list /\ \A x \in Window(epoch) : Equal(x)
      BY <2>1 DEF SetsUser, Read
    <3>2. epoch > 0
      BY <1>1, <3>1, ShownEpoch
    <3>3. o \in Operators
      BY <1>1, <3>1, ListsAssumption DEF CalcInv
    <3>4. user' = SetUserOperatorsMetric(user, data)
      BY <2>1 DEF SetsUser
    <3>5. Tells(o, IF o \in DOMAIN data THEN data[o] ELSE Zero)
      BY <2>s, <3>1, <3>2, <3>3, QueryTells
    <3> HIDE DEF data
    <3>6. user'[<<o, list[o]>>] = IF o \in DOMAIN data THEN data[o] ELSE Zero
      BY <1>1, <3>1, <3>4, GaugesSet
    <3>7. g = IF o \in DOMAIN data THEN data[o] ELSE Zero
      BY <1>1, <3>1, <3>6 DEF Gauge
    <3>8. Tells(o, g)
      BY <3>5, <3>7
    <3> QED
      BY <2>k, <2>s, <3>1, <3>2, <3>8
  <2>2. ASSUME Kept("user") PROVE Tells(o, g)'
    <3>1. epoch' = epoch /\ list' = list /\ user' = user /\ Shown("user") /\ clean = "yes"
      BY <2>2 DEF Kept
    <3>2. epoch > 0
      BY <1>1, <3>1, ShownEpoch
    <3>3. g = Gauge(o)
      BY <1>1, <3>1 DEF Gauge
    <3>4. SteadyOf(o)
      BY <2>s, <3>1, <3>2
    <3>5. Tells(o, g)
      BY <1>1, <3>1, <3>3, <3>4 DEF RewardInv
    <3> QED
      BY <2>k, <3>1, <3>2, <3>4, <3>5
  <2> QED
    BY <1>1, <2>1, <2>2, ShownStays
<1>2. ASSUME task = "balance24hDifference", Shown("module")', NEW m \in Modules, SteadyModule(m)'
      PROVE  module'[m] = EarnedIn(m)'
  <2>s. ASSUME epoch > 0, epoch' = epoch PROVE SteadyModule(m) /\ EarnedIn(m)' = EarnedIn(m)
    BY <1>2, <1>n, <2>s, ModuleStays
  <2>1. ASSUME NEW newest \in BOOLEAN, SetsModule(newest) PROVE module'[m] = EarnedIn(m)'
    <3>1. epoch' = epoch /\ \A x \in Window(epoch) : Equal(x)
      BY <2>1 DEF SetsModule, Read
    <3>2. epoch > 0
      BY <1>2, <3>1, ShownEpoch
    <3>3. /\ m \in DOMAIN ModuleQuery(epoch, newest)
          /\ ModuleQuery(epoch, newest)[m] = EarnedIn(m)
      BY <1>2, <2>s, <3>1, <3>2, ModuleTells
    <3>4. module'[m] = ModuleQuery(epoch, newest)[m]
      BY <2>1, <3>3 DEF SetsModule, SetModulesMetric
    <3> QED
      BY <2>s, <3>1, <3>2, <3>3, <3>4
  <2>2. ASSUME Kept("module") PROVE module'[m] = EarnedIn(m)'
    <3>1. epoch' = epoch /\ module' = module /\ Shown("module") /\ clean = "yes"
      BY <2>2 DEF Kept
    <3>2. epoch > 0
      BY <1>2, <3>1, ShownEpoch
    <3>3. SteadyModule(m) /\ EarnedIn(m)' = EarnedIn(m)
      BY <2>s, <3>1, <3>2
    <3> QED
      BY <1>2, <3>1, <3>3 DEF RewardInv
  <2> QED
    BY <1>2, <2>1, <2>2, ShownStays
<1> QED
  BY <1>1, <1>2

\* The balances of newest rows follow from their rewards, and the gauges tell them.
LEMMA RewardsAlways == Spec => [](TableAllInv /\ BalanceInv /\ RewardInv)
<1>1. Init => BalanceInv /\ RewardInv
  BY PhaseType DEF Init, BalanceInv, RewardInv, Shown
<1>2. TableAllInv /\ BalanceInv /\ RewardInv /\ [Next]_vars => BalanceInv' /\ RewardInv'
  BY BalanceStep, RewardStep DEF TableAllInv
<1> QED
  BY <1>1, <1>2, TableAlways, PTL DEF Spec

\* Whatever the order of rewards and withdrawals, duplicates that do not contradict each other and
\* merges: avgValidatorBalanceDelta, validatorQuantile0001BalanceDeltas, validatorsCountWithNegativeDelta,
\* the balance difference of a day and the calculation error of the rewards agree with the rewards of
\* the duties, for every operator whose validators have stayed.
THEOREM BalancesFollowRewards == Spec => []BalancesTellRewards
<1>1. RewardInv => BalancesTellRewards
  <2> SUFFICES ASSUME RewardInv, Shown("user"), clean = "yes", NEW o \in DOMAIN list, Rows(o) # {}, SteadyOf(o)
               PROVE  /\ task = "avgDeltas" => Gauge(o) = <<EarnedBy(o), Cardinality(Rows(o))>>
                      /\ task = "minDeltas" => IsQuantile(Gauge(o), o)
                      /\ task = "negativeValidatorsCount" =>
                           Gauge(o) = Cardinality({v \in Rows(o) : Earned(v) < 0 /\ Newest(epoch, v).slashed = 0})
                      /\ task = "balance24hDifference" => Gauge(o) = EarnedBy(o)
                      /\ task = "userRewards"
                         /\ (\A v \in Rows(o) : Initialized(v, epoch - 1) /\ Initialized(v, epoch)) => Gauge(o).error = 0
    BY DEF BalancesTellRewards
  <2>1. Tells(o, Gauge(o))
    BY DEF RewardInv
  <2> QED
    BY <2>1 DEF Tells
<1> QED
  BY <1>1, RewardsAlways, PTL

(***************************************************************************)
(* Modules                                                                 *)
(***************************************************************************)
Members(m) == {o \in DOMAIN list : ModuleOf[o] = m}
OwnerNow == [v \in Validators |-> Newest(epoch, v).owner]

\* The validators of a module are those of its operators.
LEMMA ByOperator ==
  ASSUME CalcInv, TableInv, epoch > 0, NEW m \in Modules,
         \A o \in Operators : Rows(o) # {} => o \in DOMAIN list
  PROVE  /\ OfModuleNow(m) \in SUBSET Validators /\ IsFiniteSet(OfModuleNow(m))
         /\ Members(m) \in SUBSET Operators /\ IsFiniteSet(Members(m))
         /\ \A v \in OfModuleNow(m) : OwnerNow[v] \in Members(m)
         /\ \A o \in Members(m) : Rows(o) = {v \in OfModuleNow(m) : OwnerNow[v] = o}
<1>e. epoch \in 1 .. epoch
  BY DEF CalcInv
<1>1. Members(m) \in SUBSET Operators /\ OfModuleNow(m) \in SUBSET Validators
  BY ListsAssumption DEF CalcInv, Members, OfModuleNow, Ours
<1>2. IsFiniteSet(Members(m)) /\ IsFiniteSet(OfModuleNow(m))
  BY <1>1, FiniteAssumption, FS_Subset
<1>3. \A v \in Validators : Newest(epoch, v).owner \in Owners /\ OwnerNow[v] = Newest(epoch, v).owner
  BY <1>e, NewestColumns DEF OwnerNow
<1>4. ASSUME NEW v \in OfModuleNow(m) PROVE OwnerNow[v] \in Members(m)
  <2>1. v \in Validators /\ Newest(epoch, v).owner # Other /\ ModuleOf[Newest(epoch, v).owner] = m
    BY DEF OfModuleNow, Ours
  <2>2. OwnerNow[v] \in Operators /\ OwnerNow[v] = Newest(epoch, v).owner
    BY <1>3, <2>1 DEF Owners
  <2>3. v \in Rows(OwnerNow[v])
    BY <2>1, <2>2 DEF Rows
  <2> QED
    BY <2>1, <2>2, <2>3 DEF Members
<1>5. ASSUME NEW o \in Members(m) PROVE Rows(o) = {v \in OfModuleNow(m) : OwnerNow[v] = o}
  <2>1. o # Other /\ ModuleOf[o] = m
    BY <1>1, OwnersAssumption DEF Members
  <2> QED
    BY <1>1, <1>3, <2>1 DEF Rows, OfModuleNow, Ours
<1> QED
  BY <1>1, <1>2, <1>4, <1>5

\* The counts of a module are the sums of those of its operators.
LEMMA StatsByOperator ==
  ASSUME CalcInv, TableInv, epoch > 0, NEW m \in Modules,
         \A o \in Operators : Rows(o) # {} => o \in DOMAIN list, NEW f \in StatFields,
         NEW h, DOMAIN h = Members(m), \A o \in Members(m) : h[o] = StatusCounts(Now, Rows(o))[f]
  PROVE  StatusCounts(Now, OfModuleNow(m))[f] = Total(h)
<1> DEFINE M == Members(m)
           S == {v \in OfModuleNow(m) : Bucket(f, Now[v])}
<1>1. /\ IsFiniteSet(OfModuleNow(m)) /\ IsFiniteSet(M)
      /\ \A v \in OfModuleNow(m) : OwnerNow[v] \in M
      /\ \A o \in M : Rows(o) = {v \in OfModuleNow(m) : OwnerNow[v] = o}
  BY ByOperator
<1>2. StatusCounts(Now, OfModuleNow(m))[f] = Cardinality(S)
  BY StatusCountsIs
<1>3. ASSUME NEW o \in M PROVE h[o] = Cardinality({v \in S : OwnerNow[v] = o})
  <2>1. StatusCounts(Now, Rows(o))[f] = Cardinality({v \in Rows(o) : Bucket(f, Now[v])})
    BY StatusCountsIs
  <2>2. {v \in Rows(o) : Bucket(f, Now[v])} = {v \in S : OwnerNow[v] = o}
    BY <1>1
  <2> QED
    BY <2>1, <2>2
<1>4. IsFiniteSet(S) /\ \A v \in S : OwnerNow[v] \in M
  BY <1>1, FS_Subset
<1>m. M = Members(m)
  OBVIOUS
<1> HIDE DEF S, M
<1>5. Cardinality(S) = Sum(h, M)
  BY <1>1, <1>3, <1>4, CountByGroup
<1> QED
  BY <1>2, <1>5, <1>m, TotalIsSum

\* What a module earned is the sum of what its operators did.
LEMMA EarnedByOperator ==
  ASSUME CalcInv, TableInv, BalanceInv, epoch > 0, NEW m \in Modules,
         \A o \in Operators : Rows(o) # {} => o \in DOMAIN list, \A v \in OfModuleNow(m) : Steady(v),
         NEW h, DOMAIN h = Members(m), \A o \in Members(m) : h[o] = EarnedBy(o)
  PROVE  EarnedIn(m) = Total(h)
<1> DEFINE M == Members(m)
           S == OfModuleNow(m)
           e == [v \in S |-> Earned(v)]
<1>1. /\ S \in SUBSET Validators /\ IsFiniteSet(S) /\ IsFiniteSet(M)
      /\ \A v \in S : OwnerNow[v] \in M
      /\ \A o \in M : Rows(o) = {v \in S : OwnerNow[v] = o}
  BY ByOperator
<1>2. EarnedIn(m) = Total(e) /\ DOMAIN e = S
  BY DEF EarnedIn
<1>3. \A v \in S : e[v] = Earned(v) /\ e[v] \in Int
  BY <1>1, EarnedIs
<1>m. M = Members(m)
  OBVIOUS
<1> HIDE DEF e, S, M
<1>4. ASSUME NEW o \in M PROVE h[o] = Sum(e, {v \in S : OwnerNow[v] = o})
  <2> DEFINE T == {v \in S : OwnerNow[v] = o}
             k == [v \in T |-> Earned(v)]
  <2>1. Rows(o) = T /\ IsFiniteSet(T)
    BY <1>1, FS_Subset
  <2>2. EarnedBy(o) = Total(k) /\ DOMAIN k = T
    BY <2>1 DEF EarnedBy
  <2>3. \A v \in T : k[v] = e[v]
    BY <1>3
  <2> HIDE DEF k, T
  <2>4. Sum(k, T) = Sum(e, T)
    BY <2>1, <2>3, SumEqual
  <2>5. h[o] = Sum(e, T)
    BY <1>m, <2>2, <2>4, TotalIsSum
  <2> QED
    BY <2>5 DEF T
<1>5. Sum(e, S) = Sum(h, M)
  <2>1. \A v \in S : e[v] \in Int
    BY <1>3
  <2>2. ByGroup(e, S, OwnerNow, h, M)
    BY <1>1, <1>4 DEF ByGroup
  <2>4. IsFiniteSet(S) /\ IsFiniteSet(M)
    BY <1>1
  <2> QED
    BY <2>1, <2>2, <2>4, SumByGroup
<1> QED
  BY <1>2, <1>5, <1>m, TotalIsSum

\* The gauges of a module, the statuses of its validators and the change of their balances, are the
\* sums of those of its operators: userValidatorsSummaryStats and totalBalance24hDifference against
\* the queries by operator, each of which is a query of its own.
THEOREM TotalsAreSums == Spec => []TotalsAgree
<1>1. TableAllInv /\ StatsInv /\ BalanceInv /\ RewardInv => TotalsAgree
  <2> SUFFICES ASSUME CalcInv, TableInv, StatsInv, BalanceInv, RewardInv, Shown("user"), Shown("module"), clean = "yes",
                      \A o \in Operators : Rows(o) # {} => o \in DOMAIN list,
                      NEW m \in Modules, \E o \in Members(m) : Rows(o) # {}
               PROVE  /\ task = "stats" =>
                           module[m] = [f \in DOMAIN Zero |-> Total([o \in Members(m) |-> Gauge(o)[f]])]
                      /\ task = "balance24hDifference" /\ (\A o \in Members(m) : SteadyOf(o)) =>
                           module[m] = Total([o \in Members(m) |-> Gauge(o)])
    BY DEF TotalsAgree, TableAllInv, Members
  <2>0. epoch > 0
    BY PhaseType DEF Shown, CalcInv
  <2>1. /\ \A v \in OfModuleNow(m) : OwnerNow[v] \in Members(m)
        /\ \A o \in Members(m) : Rows(o) = {v \in OfModuleNow(m) : OwnerNow[v] = o}
    BY <2>0, ByOperator
  <2>2. OfModuleNow(m) # {}
    BY <2>1
  <2>m. Members(m) \subseteq DOMAIN list
    BY DEF Members
  <2>3. ASSUME task = "stats"
        PROVE  module[m] = [f \in DOMAIN Zero |-> Total([o \in Members(m) |-> Gauge(o)[f]])]
    <3>1. module[m] = StatusCounts(Now, OfModuleNow(m)) /\ \A o \in Members(m) : Gauge(o) = StatusCounts(Now, Rows(o))
      BY <2>2, <2>3, <2>m DEF StatsInv
    <3>2. DOMAIN Zero = StatFields
      BY <2>3, StatusCountsZero, StatusCountsIs
    <3>3. ASSUME NEW f \in StatFields PROVE StatusCounts(Now, OfModuleNow(m))[f] = Total([o \in Members(m) |-> Gauge(o)[f]])
      <4> DEFINE h == [o \in Members(m) |-> Gauge(o)[f]]
      <4>1. DOMAIN h = Members(m) /\ \A o \in Members(m) : h[o] = StatusCounts(Now, Rows(o))[f]
        BY <3>1
      <4> HIDE DEF h
      <4>2. StatusCounts(Now, OfModuleNow(m))[f] = Total(h)
        BY <2>0, <4>1, StatsByOperator
      <4> QED
        BY <4>2 DEF h
    <3>4. StatusCounts(Now, OfModuleNow(m)) = [f \in StatFields |-> StatusCounts(Now, OfModuleNow(m))[f]]
      BY StatusCountsIs
    <3>5. [f \in StatFields |-> StatusCounts(Now, OfModuleNow(m))[f]]
            = [f \in StatFields |-> Total([o \in Members(m) |-> Gauge(o)[f]])]
      BY <3>3
    <3> QED
      BY <3>1, <3>2, <3>4, <3>5
  <2>4. ASSUME task = "balance24hDifference", \A o \in Members(m) : SteadyOf(o)
        PROVE  module[m] = Total([o \in Members(m) |-> Gauge(o)])
    <3> DEFINE h == [o \in Members(m) |-> Gauge(o)]
    <3>1. ASSUME NEW v \in OfModuleNow(m) PROVE Steady(v)
      <4>1. OwnerNow[v] \in Members(m) /\ v \in Rows(OwnerNow[v])
        BY <2>1
      <4> QED
        BY <2>0, <2>4, <4>1, SteadyMembers
    <3>2. module[m] = EarnedIn(m)
      BY <2>2, <2>4, <3>1 DEF RewardInv, SteadyModule
    <3>3. ASSUME NEW o \in Members(m) PROVE h[o] = EarnedBy(o)
      <4>1. Tells(o, Gauge(o))
        BY <2>4, <2>m DEF RewardInv
      <4> QED
        BY <2>4, <4>1 DEF Tells
    <3>4. DOMAIN h = Members(m)
      OBVIOUS
    <3> HIDE DEF h
    <3>5. EarnedIn(m) = Total(h)
      BY <2>0, <3>1, <3>3, <3>4, EarnedByOperator
    <3> QED
      BY <3>2, <3>5 DEF h
  <2> QED
    BY <2>3, <2>4
<1> QED
  BY <1>1, StatsAlways, RewardsAlways, PTL

=============================================================================
