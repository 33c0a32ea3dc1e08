-------------------------- MODULE EpochProcessing --------------------------
(***************************************************************************)
(* The main loop of the monitor (InspectorService.startLoop): it chooses   *)
(* an epoch from the bookkeeping table epochs_processing, checks the       *)
(* duties of that epoch, writes the result, calculates the metrics and     *)
(* sends the critical alerts.  Every await of the code is a step of its    *)
(* own, and between any two steps the process may crash, a remote call may *)
(* fail, and ClickHouse may apply an ALTER ... UPDATE it accepted earlier. *)
(*                                                                         *)
(* A row of epochs_processing is an element of rows; the two nullable      *)
(* flags of the row of epoch e are the pairs <<e, field>> in flag.  An     *)
(* accepted but not yet applied UPDATE is a pair in pending.               *)
(***************************************************************************)
EXTENDS Naturals, Sequences

CONSTANTS
  StartEpoch,    \* START_EPOCH
  LastEpoch,     \* bound: the chain does not grow past this epoch
  DbMaxRetries,  \* DB_MAX_RETRIES; 1 means a query is tried once
  LegacyEpochs   \* last epochs of validators_summary at first start; 0: empty table

ASSUME LastEpochAssumption == LastEpoch \in Nat
ASSUME StartEpochAssumption == StartEpoch \in 0 .. LastEpoch
ASSUME DbMaxRetriesAssumption == DbMaxRetries \in Nat \ {0}
ASSUME LegacyAssumption == LegacyEpochs \subseteq 0 .. LastEpoch

VARIABLES
  (* ClickHouse tables, they survive a crash *)
  rows,          \* epochs with a row in epochs_processing
  flag,          \* <<epoch, field>> whose flag is 1
  pending,       \* <<epoch, field>> of accepted, unapplied UPDATEs
  anyRows,       \* epochs with at least one row in validators_summary
  fullRows,      \* epochs with a row of every validator in validators_summary
  metaRows,      \* epochs with a row in epochs_metadata
  (* the process *)
  pc,            \* the await the loop is at
  lastProcessed, \* what getLastProcessedEpoch returned in this iteration
  epoch,         \* the epoch being processed
  curFlags,      \* is_stored, is_calculated of the chosen epoch
  field,         \* the flag updateEpochProcessing is setting
  oldFlags,      \* the flags it read before the UPDATE
  writes,        \* outcome of the three concurrent inserts
  registry,      \* RegistryService: "empty", "stamped" (lastTimestamp only), "loaded"
  gauge,         \* the epochNumber metric
  (* the environment and the record of what was done *)
  tip,           \* the last epoch whose last slot the beacon node has
  alerts,        \* epochs criticalAlerts.send was called for, in order
  start,         \* the database the first process found: "cold" or "warm"
  retried        \* epochs whose summary insert was reported as done by a retry

tables  == <<rows, flag, pending, anyRows, fullRows, metaRows>>
chosen  == <<lastProcessed, epoch, curFlags>>
updVars == <<field, oldFlags>>
history == <<start, retried>>   \* read by the properties only
vars == <<tables, pc, chosen, updVars, writes, registry, gauge, tip, alerts, history>>

Epoch == 0 .. LastEpoch           \* what the chain can have
NextEpoch == 0 .. LastEpoch + 1   \* what the loop can wait for
Field == {"is_stored", "is_calculated"}
Insert == {"meta", "index", "summary"}
Pc == {"down", "boot", "lastProcessed", "last", "max", "header", "check", "write",
       "old", "alter", "poll", "registry", "calc", "alert"}

FlagsOf(e) == {f \in Field : <<e, f>> \in flag}
Stored(e) == <<e, "is_stored">> \in flag
Processed(e) == FlagsOf(e) = Field
Partial(flags) == flags # {} /\ flags # Field

\* What SELECT ... ORDER BY epoch DESC LIMIT 1 and SELECT max(epoch) return: the
\* greatest element of S, or 0 when there is none.
IsLastOf(e, S) ==
  \/ S = {} /\ e = 0
  \/ e \in S /\ \A x \in S : x <= e

NoWrites == [i \in Insert |-> "run"]

TypeOK ==
  /\ rows \subseteq Epoch
  /\ flag \subseteq Epoch \X Field
  /\ pending \subseteq Epoch \X Field
  /\ anyRows \subseteq Epoch
  /\ fullRows \subseteq anyRows
  /\ metaRows \subseteq Epoch
  /\ pc \in Pc
  /\ lastProcessed \in Epoch
  /\ epoch \in NextEpoch
  /\ curFlags \subseteq Field
  /\ field \in Field
  /\ oldFlags \subseteq Field
  /\ writes \in [Insert -> {"run", "ok", "err"}]
  /\ registry \in {"empty", "stamped", "loaded"}
  /\ gauge \in Epoch
  /\ tip \in Epoch
  /\ alerts \in Seq(Epoch)
  /\ start \in {"cold", "warm"}
  /\ retried \subseteq Epoch

(***************************************************************************)
(* Initial states.  Cold: the application never ran, or only a version     *)
(* without epochs_processing did and left validators_summary filled up to  *)
(* some epoch.  Warm: it ran and has processed the epochs from StartEpoch  *)
(* to some k.                                                              *)
(***************************************************************************)
InitProcess ==
  /\ pc = "down"
  /\ lastProcessed = 0 /\ epoch = 0 /\ curFlags = {}
  /\ field = "is_stored" /\ oldFlags = {}
  /\ writes = NoWrites
  /\ registry = "empty"
  /\ gauge = 0
  /\ pending = {}
  /\ alerts = <<>>
  /\ retried = {}
  /\ tip \in Epoch

InitCold ==
  /\ InitProcess
  /\ start = "cold"
  /\ rows = {} /\ flag = {} /\ metaRows = {}
  /\ \E l \in LegacyEpochs : l <= tip /\ anyRows = 1 .. l /\ fullRows = 1 .. l

InitWarm ==
  /\ InitProcess
  /\ start = "warm"
  /\ StartEpoch > 0
  /\ \E k \in StartEpoch .. tip :
       /\ rows = StartEpoch .. k
       /\ flag = rows \X Field
       /\ anyRows = rows /\ fullRows = rows /\ metaRows = rows

Init == InitCold \/ InitWarm

(***************************************************************************)
(* Control helpers.                                                        *)
(***************************************************************************)
\* The start of an iteration of while (true); an iteration keeps no state
\* for the next one.
NewIteration ==
  /\ pc' = "lastProcessed"
  /\ lastProcessed' = 0 /\ epoch' = 0 /\ curFlags' = {}
  /\ field' = "is_stored" /\ oldFlags' = {}
  /\ writes' = NoWrites

\* An exception reaches the catch of startLoop: log, clear the block cache
\* (module BlockSearch), sleep one slot and start over.
Throw == NewIteration

\* updateEpochProcessing({ epoch, [f]: true }) is called.
CallUpdate(f) ==
  /\ pc' = "old"
  /\ field' = f
  /\ oldFlags' = {}

\* Where the loop goes when the epoch is known to be stored.
AfterStored == IF "is_calculated" \in curFlags THEN "alert" ELSE "registry"

(***************************************************************************)
(* Start of the process.                                                   *)
(***************************************************************************)
\* Mutant of Boot: the metric restarts from the last row, processed or not.
BootFromLastRow ==
  /\ pc = "down"
  /\ \E e \in Epoch : IsLastOf(e, rows) /\ gauge' = e
  /\ pc' = "boot"
  /\ UNCHANGED <<tables, chosen, updVars, writes, registry, tip, alerts, history>>

\* InspectorService.onModuleInit: the epoch metric restarts from the table.
Boot ==
  /\ pc = "down"
  /\ \E e \in Epoch :
       /\ IsLastOf(e, {x \in Epoch : Processed(x)})
       /\ gauge' = e
  /\ pc' = "boot"
  /\ UNCHANGED <<tables, chosen, updVars, writes, registry, tip, alerts, history>>

\* startLoop: the node answers getVersion and the loop begins.  (When it
\* does not, the rejection is unhandled and the process exits: Crash.)
StartLoop ==
  /\ pc = "boot"
  /\ NewIteration
  /\ UNCHANGED <<tables, registry, gauge, tip, alerts, history>>

\* The process dies at any point; what it held in memory is lost.
Crash ==
  /\ pc # "down"
  /\ pc' = "down"
  /\ lastProcessed' = 0 /\ epoch' = 0 /\ curFlags' = {}
  /\ field' = "is_stored" /\ oldFlags' = {}
  /\ writes' = NoWrites
  /\ registry' = "empty"
  /\ gauge' = 0
  /\ UNCHANGED <<tables, tip, alerts, history>>

(***************************************************************************)
(* chooseEpochToProcess and getEpochDataToProcess.                         *)
(***************************************************************************)
\* Mutant of GetLastProcessedEpoch: the query forgets AND is_calculated = 1.
GetLastStoredEpoch ==
  /\ pc = "lastProcessed"
  /\ \E e \in Epoch :
       /\ IsLastOf(e, {x \in Epoch : Stored(x)})
       /\ lastProcessed' = e
  /\ pc' = "last"
  /\ UNCHANGED <<tables, epoch, curFlags, updVars, writes, registry, gauge, tip, alerts, history>>

\* await storage.getLastProcessedEpoch()
GetLastProcessedEpoch ==
  /\ pc = "lastProcessed"
  /\ \E e \in Epoch :
       /\ IsLastOf(e, {x \in Epoch : Processed(x)})
       /\ lastProcessed' = e
  /\ pc' = "last"
  /\ UNCHANGED <<tables, epoch, curFlags, updVars, writes, registry, gauge, tip, alerts, history>>

\* Mutant of Choose: the next epoch follows the last row, processed or not.
ChooseAfterLastRow(lp, last, lastFlags) ==
  LET next == IF Partial(lastFlags) THEN last ELSE StartEpoch IN
  /\ epoch' = IF last >= next THEN last + 1 ELSE next
  /\ curFlags' = IF Partial(lastFlags) THEN lastFlags ELSE {}
  /\ pc' = "header"

\* Mutant of Choose: the flags of a half-processed row are not carried over.
ChooseForgetsFlags(lp, last, lastFlags) ==
  LET next == IF Partial(lastFlags) THEN last ELSE StartEpoch IN
  /\ epoch' = IF lp >= next THEN lp + 1 ELSE next
  /\ curFlags' = {}
  /\ pc' = "header"

\* The synchronous tail of chooseEpochToProcess, given lastProcessed, the
\* epoch of the last row and its flags.  A half-processed last row is taken
\* as it is, flags included; its epoch is overwritten when lastProcessed is
\* not smaller.
Choose(lp, last, lastFlags) ==
  LET next == IF Partial(lastFlags) THEN last ELSE StartEpoch IN
  /\ epoch' = IF lp >= next THEN lp + 1 ELSE next
  /\ curFlags' = IF Partial(lastFlags) THEN lastFlags ELSE {}
  /\ pc' = "header"

\* await storage.getLastEpoch(); epoch 0 stands for "no row".
GetLastEpoch ==
  /\ pc = "last"
  /\ \E e \in Epoch :
       /\ IsLastOf(e, rows)
       /\ IF e = 0
          THEN /\ pc' = "max"
               /\ curFlags' = IF Partial(FlagsOf(0)) THEN FlagsOf(0) ELSE {}
               /\ UNCHANGED epoch
          ELSE Choose(lastProcessed, e, FlagsOf(e))
  /\ UNCHANGED <<tables, lastProcessed, updVars, writes, registry, gauge, tip, alerts, history>>

\* await storage.getMaxEpoch(): on the first start the summary table says
\* which epochs were written.
GetMaxEpoch ==
  /\ pc = "max"
  /\ \E m \in Epoch :
       /\ IsLastOf(m, anyRows)
       /\ lastProcessed' = m
       /\ Choose(m, 0, curFlags)
  /\ UNCHANGED <<tables, updVars, writes, registry, gauge, tip, alerts, history>>

\* Mutant of HeaderReady: the epoch need not be over.
HeaderReadyTooEarly ==
  /\ pc = "header"
  /\ pc' = IF "is_stored" \in curFlags THEN AfterStored ELSE "check"
  /\ UNCHANGED <<tables, chosen, updVars, writes, registry, gauge, tip, alerts, history>>

\* The last slot of the chosen epoch is not behind the node's latest slot
\* and its header (or that of its last not missed predecessor) is found.
HeaderReady ==
  /\ pc = "header"
  /\ epoch <= tip
  /\ pc' = IF "is_stored" \in curFlags THEN AfterStored ELSE "check"
  /\ UNCHANGED <<tables, chosen, updVars, writes, registry, gauge, tip, alerts, history>>

\* The node's latest slot is before the last slot of the chosen epoch: the
\* loop sleeps one slot and chooses again.
HeaderNotYet ==
  /\ pc = "header"
  /\ epoch > tip
  /\ NewIteration
  /\ UNCHANGED <<tables, registry, gauge, tip, alerts, history>>

\* A node that lags behind the chain says so of an epoch that is complete.
HeaderLags ==
  /\ pc = "header"
  /\ epoch <= tip
  /\ NewIteration
  /\ UNCHANGED <<tables, registry, gauge, tip, alerts, history>>

(***************************************************************************)
(* DutyService.checkAndWrite.                                              *)
(***************************************************************************)
\* checkAll: every duty check, the first of which refreshes the registry,
\* succeeded, and the rewards are calculated.
CheckAll ==
  /\ pc = "check"
  /\ registry' = "loaded"
  /\ pc' = "write"
  /\ UNCHANGED <<tables, chosen, updVars, writes, gauge, tip, alerts, history>>

\* What updateKeysRegistry can leave behind when the caller sees an error:
\* nothing (the source failed), or lastTimestamp alone (data too old), or a
\* complete update after which something else failed.
RegistryAfterError == {registry, IF registry = "empty" THEN "stamped" ELSE registry, "loaded"}

CheckAllFails ==
  /\ pc = "check"
  /\ registry' \in RegistryAfterError
  /\ Throw
  /\ UNCHANGED <<tables, gauge, tip, alerts, history>>

\* Insert i of allSettled([writeEpochMeta, writeSummary]) ends well at the
\* first attempt.
InsertOk(i) ==
  /\ pc = "write"
  /\ writes[i] = "run"
  /\ writes' = [writes EXCEPT ![i] = "ok"]
  /\ metaRows' = IF i = "meta" THEN metaRows \cup {epoch} ELSE metaRows
  /\ anyRows' = IF i = "summary" THEN anyRows \cup {epoch} ELSE anyRows
  /\ fullRows' = IF i = "summary" THEN fullRows \cup {epoch} ELSE fullRows
  /\ UNCHANGED <<rows, flag, pending, pc, chosen, updVars, registry, gauge, tip, alerts, history>>

\* The summaries are a stream that is consumed as it is sent.  When the
\* first attempt failed, the retry pipes the same stream again, sends what
\* is left of it, if anything, and reports success.
InsertSummaryOnRetry ==
  /\ pc = "write"
  /\ DbMaxRetries > 1
  /\ writes["summary"] = "run"
  /\ writes' = [writes EXCEPT !["summary"] = "ok"]
  /\ anyRows' \in {anyRows, anyRows \cup {epoch}}
  /\ retried' = retried \cup {epoch}
  /\ UNCHANGED <<rows, flag, pending, fullRows, metaRows,
                 pc, chosen, updVars, registry, gauge, tip, alerts, start>>

\* Insert i fails for good; some of its rows may be in the table anyway.
InsertFails(i) ==
  /\ pc = "write"
  /\ writes[i] = "run"
  /\ writes' = [writes EXCEPT ![i] = "err"]
  /\ metaRows' \in {metaRows, IF i = "meta" THEN metaRows \cup {epoch} ELSE metaRows}
  /\ anyRows' \in {anyRows, IF i = "summary" THEN anyRows \cup {epoch} ELSE anyRows}
  /\ UNCHANGED <<rows, flag, pending, fullRows, pc, chosen, updVars, registry, gauge, tip, alerts, history>>

\* Mutant of WritesSettled: Promise.allSettled without the look at its results.
WritesSettledIgnoringErrors ==
  /\ pc = "write"
  /\ \A i \in Insert : writes[i] # "run"
  /\ CallUpdate("is_stored") /\ writes' = NoWrites /\ UNCHANGED chosen
  /\ UNCHANGED <<tables, registry, gauge, tip, alerts, history>>

\* Mutant of WritesSettled: writeSummary is called without being awaited.
WritesSettledOnMeta ==
  /\ pc = "write"
  /\ writes["meta"] # "run"
  /\ IF writes["meta"] = "ok"
     THEN CallUpdate("is_stored") /\ writes' = NoWrites /\ UNCHANGED chosen
     ELSE Throw
  /\ UNCHANGED <<tables, registry, gauge, tip, alerts, history>>

\* allSettled: every insert has ended.  One error is enough to throw.
WritesSettled ==
  /\ pc = "write"
  /\ \A i \in Insert : writes[i] # "run"
  /\ IF \A i \in Insert : writes[i] = "ok"
     THEN CallUpdate("is_stored") /\ writes' = NoWrites /\ UNCHANGED chosen
     ELSE Throw
  /\ UNCHANGED <<tables, registry, gauge, tip, alerts, history>>

(***************************************************************************)
(* ClickhouseService.updateEpochProcessing.                                *)
(***************************************************************************)
\* old = await getOrInitEpochProcessing(epoch)
GetOrInit ==
  /\ pc = "old"
  /\ rows' = rows \cup {epoch}
  /\ oldFlags' = IF epoch \in rows THEN FlagsOf(epoch) ELSE {}
  /\ pc' = "alter"
  /\ UNCHANGED <<flag, pending, anyRows, fullRows, metaRows,
                 chosen, field, writes, registry, gauge, tip, alerts, history>>

\* The insert of the new row reports an error although the row is there.
GetOrInitFails ==
  /\ pc = "old"
  /\ rows' = rows \cup {epoch}
  /\ Throw
  /\ UNCHANGED <<flag, pending, anyRows, fullRows, metaRows, registry, gauge, tip, alerts, history>>

\* ALTER TABLE epochs_processing UPDATE ... is accepted; it is applied later.
AlterUpdate ==
  /\ pc = "alter"
  /\ pending' = pending \cup {<<epoch, field>>}
  /\ pc' = "poll"
  /\ UNCHANGED <<rows, flag, anyRows, fullRows, metaRows,
                 chosen, updVars, writes, registry, gauge, tip, alerts, history>>

\* The statement was accepted but the client got an error.
AlterUpdateFails ==
  /\ pc = "alter"
  /\ pending' = pending \cup {<<epoch, field>>}
  /\ Throw
  /\ UNCHANGED <<rows, flag, anyRows, fullRows, metaRows, registry, gauge, tip, alerts, history>>

\* Mutant of PollSeesUpdate: updateEpochProcessing returns after the ALTER.
PollSkipped ==
  /\ pc = "poll"
  /\ pc' = IF field = "is_stored" THEN AfterStored ELSE "alert"
  /\ field' = "is_stored" /\ oldFlags' = {}
  /\ UNCHANGED <<tables, chosen, writes, registry, gauge, tip, alerts, history>>

\* The poll sees a flag that differs from old.  (An unsuccessful poll is
\* tried again and changes nothing.)
PollSeesUpdate ==
  /\ pc = "poll"
  /\ FlagsOf(epoch) # oldFlags
  /\ pc' = IF field = "is_stored" THEN AfterStored ELSE "alert"
  /\ field' = "is_stored" /\ oldFlags' = {}
  /\ UNCHANGED <<tables, chosen, writes, registry, gauge, tip, alerts, history>>

\* Mutant of PollGivesUp: the error of the last poll is swallowed.
PollErrorSwallowed ==
  /\ pc = "poll"
  /\ pc' = IF field = "is_stored" THEN AfterStored ELSE "alert"
  /\ field' = "is_stored" /\ oldFlags' = {}
  /\ UNCHANGED <<tables, chosen, writes, registry, gauge, tip, alerts, history>>

\* The retries of the poll run out ("Epoch processing info is not updated
\* yet"), or its select fails.  The UPDATE stays accepted.
PollGivesUp ==
  /\ pc = "poll"
  /\ Throw
  /\ UNCHANGED <<tables, registry, gauge, tip, alerts, history>>

\* ClickHouse applies an accepted UPDATE.  Some order is enough: they touch
\* different flags or set the same one.
ApplyMutation(m) ==
  /\ m \in pending
  /\ pending' = pending \ {m}
  /\ flag' = flag \cup {m}
  /\ UNCHANGED <<rows, anyRows, fullRows, metaRows,
                 pc, chosen, updVars, writes, registry, gauge, tip, alerts, history>>

(***************************************************************************)
(* Metrics and alerts.                                                     *)
(***************************************************************************)
\* if (!registryService.isFilled()) await updateKeysRegistry(slotTime):
\* isFilled looks at lastTimestamp only.
FillRegistry ==
  /\ pc = "registry"
  /\ registry' = IF registry = "empty" THEN "loaded" ELSE registry
  /\ pc' = "calc"
  /\ UNCHANGED <<tables, chosen, updVars, writes, gauge, tip, alerts, history>>

FillRegistryFails ==
  /\ pc = "registry"
  /\ registry = "empty"
  /\ registry' \in {"empty", "stamped"}
  /\ Throw
  /\ UNCHANGED <<tables, gauge, tip, alerts, history>>

\* DutyMetrics.calculate up to its updateEpochProcessing; the last part,
\* SummaryMetrics.common, moves the epoch metric.
CalculateMetrics ==
  /\ pc = "calc"
  /\ gauge' = epoch
  /\ CallUpdate("is_calculated")
  /\ UNCHANGED <<tables, chosen, writes, registry, tip, alerts, history>>

CalculateMetricsFails ==
  /\ pc = "calc"
  /\ gauge' \in {gauge, epoch}
  /\ Throw
  /\ UNCHANGED <<tables, registry, tip, alerts, history>>

\* await criticalAlerts.send(epoch) handles its own errors.
SendAlerts ==
  /\ pc = "alert"
  /\ alerts' = Append(alerts, epoch)
  /\ NewIteration
  /\ UNCHANGED <<tables, registry, gauge, tip, history>>

(***************************************************************************)
(* Calls that fail without an effect: the selects of the choice, the node  *)
(* requests for the headers, the select or the insert of getOrInit and    *)
(* the ALTER.                                                              *)
(***************************************************************************)
CallFails ==
  /\ pc \in {"lastProcessed", "last", "max", "header", "old", "alter"}
  /\ Throw
  /\ UNCHANGED <<tables, registry, gauge, tip, alerts, history>>

\* The chain grows by an epoch.
ChainAdvance ==
  /\ tip < LastEpoch
  /\ tip' = tip + 1
  /\ UNCHANGED <<tables, pc, chosen, updVars, writes, registry, gauge, alerts, history>>

\* What the environment may do to the loop.
Fault ==
  \/ Crash \/ HeaderLags \/ CallFails
  \/ CheckAllFails \/ \E i \in Insert : InsertFails(i)
  \/ GetOrInitFails \/ AlterUpdateFails
  \/ FillRegistryFails \/ CalculateMetricsFails

\* What the process does by itself.
Progress ==
  \/ Boot \/ StartLoop
  \/ GetLastProcessedEpoch \/ GetLastEpoch \/ GetMaxEpoch
  \/ HeaderReady \/ HeaderNotYet
  \/ CheckAll
  \/ \E i \in Insert : InsertOk(i)
  \/ InsertSummaryOnRetry \/ WritesSettled
  \/ GetOrInit \/ AlterUpdate \/ PollSeesUpdate \/ PollGivesUp
  \/ FillRegistry \/ CalculateMetrics \/ SendAlerts

Next == Progress \/ Fault \/ (\E m \in Epoch \X Field : ApplyMutation(m)) \/ ChainAdvance

Spec == Init /\ [][Next]_vars

(***************************************************************************)
(* Fairness.  The event loop goes on with the continuation of a call that  *)
(* ended, every retry loop being bounded, and ClickHouse applies what it   *)
(* accepted.  Crashes, failures and lagging nodes stop at some point; how  *)
(* many there were, and what they left behind, is arbitrary.  A poll may   *)
(* still give up before the UPDATE it waits for is applied, and the loop   *)
(* still waits for an epoch to be over (HeaderNotYet, a step that looks    *)
(* like a failed request).                                                 *)
(***************************************************************************)
Fairness ==
  /\ WF_vars(Progress)
  /\ \A m \in Epoch \X Field : WF_vars(ApplyMutation(m))
  /\ <>[][~Fault \/ Progress]_vars

FairSpec == Spec /\ Fairness

(***************************************************************************)
(* Safety, whatever the database looked like at the first start.           *)
(***************************************************************************)

\* Metrics are only ever recorded as calculated for an epoch whose duties
\* are recorded as stored: the flags a retried iteration carries over from
\* the last row (chooseEpochToProcess) belong to the epoch it works on, and
\* no late UPDATE of an earlier iteration breaks the order.
CalculatedImpliesStored ==
  \A e \in Epoch :
    <<e, "is_calculated">> \in flag \cup pending => Stored(e)

\* is_stored is never set, nor on its way, for an epoch whose metadata row
\* (writeEpochMeta) is missing, although the two inserts of checkAndWrite
\* run concurrently, fail separately and are repeated after a crash.
StoredHasMetadata ==
  \A e \in Epoch :
    <<e, "is_stored">> \in flag \cup pending => e \in metaRows

\* is_stored is never set, nor on its way, for an epoch some of whose
\* validators have no row in validators_summary (writeSummary), unless a
\* retry reported the insert as done: inserts that fail, or fail in part,
\* and iterations that stop before the flag never leave such an epoch.
CompleteUnlessRetried ==
  \A e \in Epoch :
    <<e, "is_stored">> \in flag \cup pending => e \in fullRows \cup retried

\* Alerts are sent for processed epochs only, at most once for an epoch and
\* in the order of the epochs, although an iteration that timed out waiting
\* for its UPDATE leaves an epoch that looks unprocessed to the next one.
AlertsInOrder ==
  /\ \A i \in 1 .. Len(alerts) : Processed(alerts[i])
  /\ \A i, j \in 1 .. Len(alerts) : i < j => alerts[i] < alerts[j]

(***************************************************************************)
(* Safety once the first epoch went through: what an application promises  *)
(* that was started again on a database of its own (start = "warm").       *)
(***************************************************************************)

\* Below an epoch that has a row every epoch from START_EPOCH on is
\* completely processed.
NothingSkipped ==
  \A e \in rows : \A d \in StartEpoch .. e - 1 : Processed(d)

\* After a warm start no epoch is ever skipped, through crashes, failures,
\* late UPDATEs and rows with NULL flags (chooseEpochToProcess).
NoEpochSkipped == start = "warm" => NothingSkipped

\* After a warm start the epoch metric never shows an epoch whose duties are
\* not stored, and within the life of a process it never goes back, although
\* it is moved before the epoch is recorded as calculated
\* (SummaryMetrics.common).
GaugeFollowsStorage ==
  [][start = "warm" /\ gauge' # gauge /\ pc' # "down"
       => gauge' > gauge /\ Stored(gauge')]_vars

\* The processing promises what EpochPipeline says, read off the flags of
\* epochs_processing and the alerts sent.
PhaseOf(e) ==
  IF Processed(e) THEN "calculated" ELSE IF Stored(e) THEN "stored" ELSE "new"

phaseBar == [e \in Epoch |-> PhaseOf(e)]
lastAlertBar == IF alerts = <<>> THEN 0 ELSE alerts[Len(alerts)]

Pipeline == INSTANCE EpochPipeline WITH phase <- phaseBar, lastAlert <- lastAlertBar

\* After a warm start the loop, its crashes, failures and late UPDATEs
\* included, implements the pipeline: one epoch after the other, in order,
\* each alerted on at most once and never when a later epoch has data.  The
\* two conjuncts are those of Pipeline!Spec.
ImplementsPipeline ==
  /\ start = "warm" => Pipeline!Init
  /\ [][start = "warm" => [Pipeline!Next]_<<phaseBar, lastAlertBar>>]_vars

(***************************************************************************)
(* Liveness.                                                               *)
(***************************************************************************)

\* After a warm start every epoch of the chain from START_EPOCH on is
\* eventually processed, through any crashes, failures and lost or late
\* UPDATEs.
EveryEpochProcessed ==
  \A e \in StartEpoch .. LastEpoch : (start = "warm" /\ e <= tip) ~> Processed(e)

(***************************************************************************)
(* What a comment or the README says and the code does not do.             *)
(***************************************************************************)

\* "DB_MAX_RETRIES - Max retries for each query to DB": a query that is
\* retried does the work of the query, so an epoch recorded as stored has a
\* row of every validator in validators_summary (writeSummary).
StoredIsComplete ==
  \A e \in Epoch :
    <<e, "is_stored">> \in flag \cup pending => e \in fullRows

\* "START_EPOCH - Ethereum consensus layer epoch for start application": an
\* application started on an empty database processes START_EPOCH first.
StartsAtStartEpoch ==
  \A e \in rows : e > StartEpoch => Processed(StartEpoch)

\* "Epoch processing was not completed correctly. Trying to complete": an
\* epoch that is stored but not calculated is completed sooner or later.
PartialEpochCompleted ==
  \A e \in Epoch : Stored(e) ~> Processed(e)

\* A first start keeps one of the two promises at least (onModuleInit,
\* chooseEpochToProcess); a behaviour that violates this breaks both.
FirstStartRecovers == []StartsAtStartEpoch \/ PartialEpochCompleted

=============================================================================
