----------------------- MODULE EpochProcessingProofs -----------------------
(***************************************************************************)
(* Proofs about EpochProcessing, for every START_EPOCH, every length of    *)
(* the chain, every DB_MAX_RETRIES and every legacy table.                 *)
(***************************************************************************)
EXTENDS EpochProcessing, TLAPS

(***************************************************************************)
(* The inductive invariant, in three layers.                               *)
(***************************************************************************)
\* The awaits after the choice of the epoch, and those after its header.
Working == {"check", "write", "old", "alter", "poll", "registry", "calc", "alert"}
Chosen == Working \cup {"header"}
Updating == {"old", "alter", "poll"}

\* Layer 1: types; an epoch that is worked on is an epoch of the chain.
TypeInv ==
  /\ TypeOK
  /\ pc \in Working => epoch \in Epoch

\* Layer 2: what the tables say of the epochs, and what the process relies
\* on at each await.  Row 0 never exists (0 stands for "no row"), a flag
\* has a row, and the flags read before an UPDATE are still set.
FlagsInv ==
  /\ 0 \notin rows
  /\ \A e \in Epoch, f \in Field : <<e, f>> \in flag \cup pending => e \in rows
  /\ CalculatedImpliesStored
  /\ StoredHasMetadata

ProcessInv ==
  /\ pc = "last" => lastProcessed = 0 \/ Processed(lastProcessed)
  /\ pc = "max" => curFlags = {} /\ rows = {}
  /\ pc \in Chosen => epoch > 0 /\ "is_calculated" \notin curFlags
  /\ pc \in Chosen /\ "is_stored" \in curFlags => Stored(epoch)
  /\ pc # "write" => writes = NoWrites
  /\ pc = "write" /\ writes["meta"] = "ok" => epoch \in metaRows
  /\ pc \in Updating /\ field = "is_stored" => epoch \in metaRows
  /\ pc \in Updating /\ field = "is_calculated" => Stored(epoch)
  /\ pc \in {"alter", "poll"} => epoch \in rows /\ oldFlags \subseteq FlagsOf(epoch)
  /\ pc \in {"alter", "poll"} /\ field = "is_calculated" => "is_stored" \in oldFlags
  /\ pc \in {"registry", "calc"} => Stored(epoch)
  /\ pc = "alert" => Processed(epoch)

\* Layer 3: the epoch worked on is later than every epoch alerted on.
AlertInv ==
  /\ AlertsInOrder
  /\ pc = "last" => \A i \in 1 .. Len(alerts) : alerts[i] <= lastProcessed
  /\ pc = "max" => alerts = <<>>
  /\ pc \in Chosen => \A i \in 1 .. Len(alerts) : alerts[i] < epoch

-----------------------------------------------------------------------------
(***************************************************************************)
(* Layer 1.                                                                *)
(***************************************************************************)
\* A step of the loop, of ClickHouse or of the chain leaves every variable
\* in its type.
LEMMA TypeStep == TypeInv /\ [Next]_vars => TypeInv'
<1> SUFFICES ASSUME TypeInv, [Next]_vars PROVE TypeInv'
  OBVIOUS
<1> USE LastEpochAssumption, StartEpochAssumption
<1> USE DEF TypeInv, TypeOK, tables, chosen, updVars, history, Pc, Working, Epoch, NextEpoch, Field, Insert, NoWrites
<1>1. CASE Boot
  BY <1>1 DEF Boot
<1>2. CASE StartLoop
  BY <1>2 DEF StartLoop, NewIteration
<1>3. CASE GetLastProcessedEpoch
  BY <1>3 DEF GetLastProcessedEpoch, IsLastOf
<1>4. CASE GetLastEpoch
  <2>1. PICK e \in Epoch :
          IF e = 0
          THEN /\ pc' = "max"
               /\ curFlags' = IF Partial(FlagsOf(0)) THEN FlagsOf(0) ELSE {}
               /\ UNCHANGED epoch
          ELSE Choose(lastProcessed, e, FlagsOf(e))
    BY <1>4 DEF GetLastEpoch
  <2>2. FlagsOf(0) \subseteq Field /\ FlagsOf(e) \subseteq Field
    BY DEF FlagsOf
  <2>3. UNCHANGED <<tables, lastProcessed, updVars, writes, registry, gauge, tip, alerts, history>>
    BY <1>4 DEF GetLastEpoch
  <2>4. CASE e = 0
    BY <2>1, <2>2, <2>3, <2>4
  <2>5. CASE e # 0
    BY <2>1, <2>2, <2>3, <2>5 DEF Choose
  <2> QED
    BY <2>4, <2>5
<1>5. CASE GetMaxEpoch
  BY <1>5 DEF GetMaxEpoch, IsLastOf, Choose
<1>6. CASE HeaderReady
  BY <1>6 DEF HeaderReady, AfterStored
<1>7. CASE HeaderNotYet
  BY <1>7 DEF HeaderNotYet, NewIteration
<1>8. CASE CheckAll
  BY <1>8 DEF CheckAll
<1>9. ASSUME NEW i \in Insert, InsertOk(i) PROVE TypeInv'
  BY <1>9 DEF InsertOk
<1>10. CASE InsertSummaryOnRetry
  BY <1>10 DEF InsertSummaryOnRetry
<1>11. CASE WritesSettled
  <2>1. CASE \A i \in Insert : writes[i] = "ok"
    BY <1>11, <2>1 DEF WritesSettled, CallUpdate
  <2>2. CASE ~ \A i \in Insert : writes[i] = "ok"
    <3>1. Throw /\ UNCHANGED <<tables, registry, gauge, tip, alerts, history>>
      BY <1>11, <2>2, Zenon DEF WritesSettled
    <3> QED
      BY <3>1 DEF Throw, NewIteration
  <2> QED
    BY <2>1, <2>2
<1>12. CASE GetOrInit
  BY <1>12 DEF GetOrInit, FlagsOf
<1>13. CASE AlterUpdate
  BY <1>13 DEF AlterUpdate
<1>14. CASE PollSeesUpdate
  BY <1>14 DEF PollSeesUpdate, AfterStored
<1>15. CASE PollGivesUp
  BY <1>15 DEF PollGivesUp, Throw, NewIteration
<1>16. CASE FillRegistry
  BY <1>16 DEF FillRegistry
<1>17. CASE CalculateMetrics
  BY <1>17 DEF CalculateMetrics, CallUpdate
<1>18. CASE SendAlerts
  BY <1>18 DEF SendAlerts, NewIteration
<1>19. CASE Crash
  BY <1>19 DEF Crash
<1>20. CASE HeaderLags
  BY <1>20 DEF HeaderLags, NewIteration
<1>21. CASE CallFails
  BY <1>21 DEF CallFails, Throw, NewIteration
<1>22. CASE CheckAllFails
  BY <1>22 DEF CheckAllFails, Throw, NewIteration, RegistryAfterError
<1>23. ASSUME NEW i \in Insert, InsertFails(i) PROVE TypeInv'
  BY <1>23 DEF InsertFails
<1>24. CASE GetOrInitFails
  BY <1>24 DEF GetOrInitFails, Throw, NewIteration
<1>25. CASE AlterUpdateFails
  BY <1>25 DEF AlterUpdateFails, Throw, NewIteration
<1>26. CASE FillRegistryFails
  BY <1>26 DEF FillRegistryFails, Throw, NewIteration
<1>27. CASE CalculateMetricsFails
  BY <1>27 DEF CalculateMetricsFails, Throw, NewIteration
<1>28. ASSUME NEW m \in Epoch \X Field, ApplyMutation(m) PROVE TypeInv'
  BY <1>28 DEF ApplyMutation
<1>29. CASE ChainAdvance
  BY <1>29 DEF ChainAdvance
<1>30. CASE UNCHANGED vars
  BY <1>30 DEF vars
<1> QED
  BY <1>1, <1>2, <1>3, <1>4, <1>5, <1>6, <1>7, <1>8, <1>9, <1>10, <1>11, <1>12, <1>13, <1>14, <1>15, <1>16, <1>17, <1>18, <1>19, <1>20, <1>21, <1>22, <1>23, <1>24, <1>25, <1>26, <1>27, <1>28, <1>29, <1>30 DEF Next, Progress, Fault

\* The first start of the process, on either kind of database, is well typed.
LEMMA TypeInit == Init => TypeInv
<1> USE LastEpochAssumption, StartEpochAssumption, LegacyAssumption
<1> SUFFICES ASSUME Init PROVE TypeInv
  OBVIOUS
<1>1. InitProcess
  BY DEF Init, InitCold, InitWarm
<1>2. /\ pending \subseteq Epoch \X Field
      /\ pc \in Pc /\ pc \notin Working
      /\ lastProcessed \in Epoch /\ epoch \in NextEpoch
      /\ curFlags \subseteq Field /\ field \in Field /\ oldFlags \subseteq Field
      /\ registry \in {"empty", "stamped", "loaded"}
      /\ gauge \in Epoch /\ tip \in Epoch
      /\ alerts \in Seq(Epoch) /\ retried \subseteq Epoch
  BY <1>1 DEF InitProcess, Epoch, NextEpoch, Field, Pc, Working
<1>3. writes \in [Insert -> {"run", "ok", "err"}]
  BY <1>1 DEF InitProcess, NoWrites
<1>4. /\ rows \subseteq Epoch /\ flag \subseteq Epoch \X Field
      /\ anyRows \subseteq Epoch /\ fullRows \subseteq anyRows /\ metaRows \subseteq Epoch
  <2>1. CASE InitCold
    BY <2>1, <1>2 DEF InitCold, Epoch
  <2>2. CASE InitWarm
    BY <2>2, <1>2 DEF InitWarm, Epoch
  <2> QED
    BY <2>1, <2>2 DEF Init
<1>5. start \in {"cold", "warm"}
  BY DEF Init, InitCold, InitWarm
<1> QED
  BY <1>2, <1>3, <1>4, <1>5 DEF TypeInv, TypeOK

\* Every variable of the monitor keeps its type, in every run from a cold or
\* a warm database.
THEOREM TypeCorrect == Spec => []TypeOK
<1>1. Init => TypeInv
  BY TypeInit
<1>2. TypeInv => TypeOK
  BY DEF TypeInv
<1> QED
  BY <1>1, <1>2, TypeStep, PTL DEF Spec

-----------------------------------------------------------------------------
(***************************************************************************)
(* Layer 2.                                                                *)
(***************************************************************************)
TableInv == TypeInv /\ FlagsInv /\ ProcessInv

\* Nothing happens to the tables.
LEMMA FlagsUnchanged ==
  ASSUME FlagsInv, UNCHANGED <<rows, flag, pending, metaRows>>
  PROVE  FlagsInv'
BY DEF FlagsInv, CalculatedImpliesStored, StoredHasMetadata, Stored

\* At the first await of an iteration and in a process that is not in its
\* loop nothing is relied on.
LEMMA ProcessIdle ==
  ASSUME pc' \in {"down", "boot", "lastProcessed"}, writes' = NoWrites
  PROVE  ProcessInv'
BY DEF ProcessInv, Chosen, Working, Updating, NoWrites

\* Every step preserves what the tables say and what the process relies on.
LEMMA TableStep == TableInv /\ TypeInv' /\ [Next]_vars => FlagsInv' /\ ProcessInv'
<1> SUFFICES ASSUME TypeInv, FlagsInv, ProcessInv, TypeInv', [Next]_vars
             PROVE  FlagsInv' /\ ProcessInv'
  BY DEF TableInv
<1> USE DEF tables, chosen, updVars
<1>1. CASE Boot
  BY <1>1, FlagsUnchanged, ProcessIdle DEF Boot, ProcessInv
<1>2. CASE StartLoop
  BY <1>2, FlagsUnchanged, ProcessIdle DEF StartLoop, NewIteration
<1>3. CASE GetLastProcessedEpoch
  <2>1. FlagsInv'
    BY <1>3, FlagsUnchanged DEF GetLastProcessedEpoch, IsLastOf, ProcessInv, FlagsInv, TypeInv, TypeOK, Chosen, Working, Updating, Field, Epoch, FlagsOf, Stored, Processed, CalculatedImpliesStored, StoredHasMetadata
  <2>2. ProcessInv'
    BY <1>3 DEF GetLastProcessedEpoch, IsLastOf, ProcessInv, FlagsInv, TypeInv, TypeOK, Chosen, Working, Updating, Field, Epoch, FlagsOf, Stored, Processed, CalculatedImpliesStored, StoredHasMetadata
  <2> QED
    BY <2>1, <2>2
<1>4. CASE GetLastEpoch
  <2>1. FlagsInv'
    BY <1>4, FlagsUnchanged DEF GetLastEpoch
  <2>2. PICK e \in Epoch :
          /\ IsLastOf(e, rows)
          /\ IF e = 0
             THEN /\ pc' = "max"
                  /\ curFlags' = IF Partial(FlagsOf(0)) THEN FlagsOf(0) ELSE {}
                  /\ UNCHANGED epoch
             ELSE Choose(lastProcessed, e, FlagsOf(e))
    BY <1>4 DEF GetLastEpoch
  <2>3. UNCHANGED <<tables, lastProcessed, updVars, writes, registry, gauge, tip, alerts, history>>
        /\ pc = "last"
    BY <1>4 DEF GetLastEpoch
  <2>4. CASE e = 0
    <3>1. rows = {}
      BY <2>2, <2>4 DEF IsLastOf, FlagsInv
    <3>2. \A f \in Field : <<0, f>> \notin flag
      BY <2>4, <3>1 DEF FlagsInv
    <3>3. FlagsOf(0) = {}
      BY <3>2 DEF FlagsOf
    <3>4. curFlags' = {} /\ pc' = "max" /\ rows' = {} /\ writes' = NoWrites
      BY <2>2, <2>3, <2>4, <3>1, <3>3 DEF ProcessInv, Partial
    <3> QED
      BY <2>1, <3>4 DEF ProcessInv, Chosen, Working, Updating, NoWrites
  <2>5. CASE e # 0
    \* A processed epoch has a row, so it is not later than the last row e;
    \* it is not e itself when e is half processed.
    <3>1. Partial(FlagsOf(e)) => lastProcessed < e
      <4>1. lastProcessed = 0 \/ Processed(lastProcessed)
        BY <2>3 DEF ProcessInv
      <4>2. lastProcessed \in Epoch
        BY DEF TypeInv, TypeOK
      <4>3. Processed(lastProcessed) => lastProcessed \in rows
        BY <4>2 DEF Processed, FlagsOf, Field, FlagsInv
      <4>4. Processed(lastProcessed) => lastProcessed <= e
        BY <2>2, <2>5, <4>3 DEF IsLastOf
      <4>5. Partial(FlagsOf(e)) => ~Processed(e)
        BY DEF Partial, Processed
      <4> QED
        BY <2>5, <4>1, <4>2, <4>4, <4>5 DEF Epoch
    <3>2. Partial(FlagsOf(e)) => FlagsOf(e) = {"is_stored"}
      BY DEF Partial, FlagsOf, Field, FlagsInv, CalculatedImpliesStored, Stored
    <3>3. Choose(lastProcessed, e, FlagsOf(e))
      BY <2>2, <2>5
    <3>4. epoch' > 0
      BY <3>3, <2>5, StartEpochAssumption, LastEpochAssumption DEF Choose, TypeInv, TypeOK, Epoch
    <3>5. Partial(FlagsOf(e)) => epoch' = e
      BY <3>1, <3>3 DEF Choose, TypeInv, TypeOK, Epoch
    <3>6. curFlags' \in {{}, {"is_stored"}} /\ pc' = "header"
      BY <3>2, <3>3 DEF Choose
    <3>7. "is_stored" \in curFlags' => Stored(epoch)'
      <4>1. "is_stored" \in curFlags' => Partial(FlagsOf(e)) /\ epoch' = e
        BY <3>3, <3>5 DEF Choose
      <4>2. Partial(FlagsOf(e)) => <<e, "is_stored">> \in flag
        BY <3>2 DEF FlagsOf
      <4> QED
        BY <2>3, <4>1, <4>2 DEF Stored
    <3> QED
      BY <2>1, <2>3, <3>4, <3>6, <3>7 DEF ProcessInv, Chosen, Working, Updating, NoWrites
  <2>6. ProcessInv'
    BY <2>4, <2>5
  <2> QED
    BY <2>1, <2>6
<1>5. CASE GetMaxEpoch
  <2>1. FlagsInv'
    BY <1>5, FlagsUnchanged DEF GetMaxEpoch, IsLastOf, Choose, ProcessInv, FlagsInv, TypeInv, TypeOK, Chosen, Working, Updating, Field, Epoch, FlagsOf, Stored, Processed, CalculatedImpliesStored, StoredHasMetadata
  <2>2. ProcessInv'
    BY <1>5 DEF GetMaxEpoch, IsLastOf, Choose, ProcessInv, FlagsInv, TypeInv, TypeOK, Chosen, Working, Updating, Field, Epoch, FlagsOf, Stored, Processed, CalculatedImpliesStored, StoredHasMetadata
  <2> QED
    BY <2>1, <2>2
<1>6. CASE HeaderReady
  <2>1. FlagsInv'
    BY <1>6, FlagsUnchanged DEF HeaderReady, AfterStored, ProcessInv, FlagsInv, TypeInv, TypeOK, Chosen, Working, Updating, Field, Epoch, FlagsOf, Stored, Processed, CalculatedImpliesStored, StoredHasMetadata
  <2>2. ProcessInv'
    BY <1>6 DEF HeaderReady, AfterStored, ProcessInv, FlagsInv, TypeInv, TypeOK, Chosen, Working, Updating, Field, Epoch, FlagsOf, Stored, Processed, CalculatedImpliesStored, StoredHasMetadata
  <2> QED
    BY <2>1, <2>2
<1>7. CASE HeaderNotYet
  BY <1>7, FlagsUnchanged, ProcessIdle DEF HeaderNotYet, NewIteration
<1>8. CASE CheckAll
  <2>1. FlagsInv'
    BY <1>8, FlagsUnchanged DEF CheckAll, ProcessInv, FlagsInv, TypeInv, TypeOK, Chosen, Working, Updating, Field, Epoch, FlagsOf, Stored, Processed, CalculatedImpliesStored, StoredHasMetadata
  <2>2. ProcessInv'
    BY <1>8 DEF CheckAll, NoWrites, Insert, ProcessInv, FlagsInv, TypeInv, TypeOK, Chosen, Working, Updating, Field, Epoch, FlagsOf, Stored, Processed, CalculatedImpliesStored, StoredHasMetadata
  <2> QED
    BY <2>1, <2>2
<1>9. ASSUME NEW i \in Insert, InsertOk(i) PROVE FlagsInv' /\ ProcessInv'
  <2>1. FlagsInv'
    BY <1>9, FlagsUnchanged DEF InsertOk, ProcessInv, FlagsInv, TypeInv, TypeOK, Chosen, Working, Updating, Field, Epoch, FlagsOf, Stored, Processed, CalculatedImpliesStored, StoredHasMetadata
  <2>2. ProcessInv'
    BY <1>9 DEF InsertOk, ProcessInv, FlagsInv, TypeInv, TypeOK, Chosen, Working, Updating, Field, Epoch, FlagsOf, Stored, Processed, CalculatedImpliesStored, StoredHasMetadata
  <2> QED
    BY <2>1, <2>2
<1>10. CASE InsertSummaryOnRetry
  <2>1. FlagsInv'
    BY <1>10, FlagsUnchanged DEF InsertSummaryOnRetry, ProcessInv, FlagsInv, TypeInv, TypeOK, Chosen, Working, Updating, Field, Epoch, FlagsOf, Stored, Processed, CalculatedImpliesStored, StoredHasMetadata
  <2>2. ProcessInv'
    BY <1>10 DEF InsertSummaryOnRetry, ProcessInv, FlagsInv, TypeInv, TypeOK, Chosen, Working, Updating, Field, Epoch, FlagsOf, Stored, Processed, CalculatedImpliesStored, StoredHasMetadata
  <2> QED
    BY <2>1, <2>2
<1>11. CASE WritesSettled
  <2>1. FlagsInv'
    BY <1>11, FlagsUnchanged DEF WritesSettled, CallUpdate, Throw, NewIteration, ProcessInv, FlagsInv, TypeInv, TypeOK, Chosen, Working, Updating, Field, Epoch, FlagsOf, Stored, Processed, CalculatedImpliesStored, StoredHasMetadata
  <2>2. ProcessInv'
    <3>1. CASE \A i \in Insert : writes[i] = "ok"
      BY <1>11, <3>1 DEF WritesSettled, CallUpdate, Insert, ProcessInv, FlagsInv, TypeInv, TypeOK, Chosen, Working, Updating, Field, Epoch, FlagsOf, Stored, Processed, CalculatedImpliesStored, StoredHasMetadata
    <3>2. CASE ~ \A i \in Insert : writes[i] = "ok"
      <4>1. Throw
        BY <1>11, <3>2, Zenon DEF WritesSettled
      <4> QED
        BY <4>1, ProcessIdle DEF Throw, NewIteration
    <3> QED
      BY <3>1, <3>2
  <2> QED
    BY <2>1, <2>2
<1>12. CASE GetOrInit
  <2>1. FlagsInv'
    BY <1>12, FlagsUnchanged DEF GetOrInit, FlagsOf, ProcessInv, FlagsInv, TypeInv, TypeOK, Chosen, Working, Updating, Field, Epoch, FlagsOf, Stored, Processed, CalculatedImpliesStored, StoredHasMetadata
  <2>2. ProcessInv'
    BY <1>12 DEF GetOrInit, FlagsOf, ProcessInv, FlagsInv, TypeInv, TypeOK, Chosen, Working, Updating, Field, Epoch, FlagsOf, Stored, Processed, CalculatedImpliesStored, StoredHasMetadata
  <2> QED
    BY <2>1, <2>2
<1>13. CASE AlterUpdate
  <2>1. FlagsInv'
    BY <1>13, FlagsUnchanged DEF AlterUpdate, ProcessInv, FlagsInv, TypeInv, TypeOK, Chosen, Working, Updating, Field, Epoch, FlagsOf, Stored, Processed, CalculatedImpliesStored, StoredHasMetadata
  <2>2. ProcessInv'
    BY <1>13 DEF AlterUpdate, ProcessInv, FlagsInv, TypeInv, TypeOK, Chosen, Working, Updating, Field, Epoch, FlagsOf, Stored, Processed, CalculatedImpliesStored, StoredHasMetadata
  <2> QED
    BY <2>1, <2>2
<1>14. CASE PollSeesUpdate
  <2>1. FlagsInv'
    BY <1>14, FlagsUnchanged DEF PollSeesUpdate
  <2>2. FlagsOf(epoch) # oldFlags /\ oldFlags \subseteq FlagsOf(epoch) /\ epoch \in Epoch
    BY <1>14 DEF PollSeesUpdate, ProcessInv, TypeInv, Working
  <2>3. Stored(epoch)
    BY <2>2 DEF FlagsOf, Field, FlagsInv, CalculatedImpliesStored, Stored
  <2>4. field = "is_calculated" => Processed(epoch)
    <3>1. field = "is_calculated" => "is_stored" \in oldFlags
      BY <1>14 DEF PollSeesUpdate, ProcessInv
    <3> QED
      BY <2>2, <3>1 DEF FlagsOf, Field, Processed
  <2>5. ProcessInv'
    BY <1>14, <2>3, <2>4 DEF PollSeesUpdate, AfterStored, ProcessInv, TypeInv, TypeOK, Chosen, Working,
       Updating, Field, FlagsOf, Stored, Processed
  <2> QED
    BY <2>1, <2>5
<1>15. CASE PollGivesUp
  BY <1>15, FlagsUnchanged, ProcessIdle DEF PollGivesUp, Throw, NewIteration
<1>16. CASE FillRegistry
  <2>1. FlagsInv'
    BY <1>16, FlagsUnchanged DEF FillRegistry, ProcessInv, FlagsInv, TypeInv, TypeOK, Chosen, Working, Updating, Field, Epoch, FlagsOf, Stored, Processed, CalculatedImpliesStored, StoredHasMetadata
  <2>2. ProcessInv'
    BY <1>16 DEF FillRegistry, ProcessInv, FlagsInv, TypeInv, TypeOK, Chosen, Working, Updating, Field, Epoch, FlagsOf, Stored, Processed, CalculatedImpliesStored, StoredHasMetadata
  <2> QED
    BY <2>1, <2>2
<1>17. CASE CalculateMetrics
  <2>1. FlagsInv'
    BY <1>17, FlagsUnchanged DEF CalculateMetrics, CallUpdate, ProcessInv, FlagsInv, TypeInv, TypeOK, Chosen, Working, Updating, Field, Epoch, FlagsOf, Stored, Processed, CalculatedImpliesStored, StoredHasMetadata
  <2>2. ProcessInv'
    BY <1>17 DEF CalculateMetrics, CallUpdate, ProcessInv, FlagsInv, TypeInv, TypeOK, Chosen, Working, Updating, Field, Epoch, FlagsOf, Stored, Processed, CalculatedImpliesStored, StoredHasMetadata
  <2> QED
    BY <2>1, <2>2
<1>18. CASE SendAlerts
  BY <1>18, FlagsUnchanged, ProcessIdle DEF SendAlerts, NewIteration
<1>19. CASE Crash
  BY <1>19, FlagsUnchanged, ProcessIdle DEF Crash
<1>20. CASE HeaderLags
  BY <1>20, FlagsUnchanged, ProcessIdle DEF HeaderLags, NewIteration
<1>21. CASE CallFails
  BY <1>21, FlagsUnchanged, ProcessIdle DEF CallFails, Throw, NewIteration
<1>22. CASE CheckAllFails
  BY <1>22, FlagsUnchanged, ProcessIdle DEF CheckAllFails, Throw, NewIteration, RegistryAfterError
<1>23. ASSUME NEW i \in Insert, InsertFails(i) PROVE FlagsInv' /\ ProcessInv'
  <2>1. FlagsInv'
    BY <1>23, FlagsUnchanged DEF InsertFails, ProcessInv, FlagsInv, TypeInv, TypeOK, Chosen, Working, Updating, Field, Epoch, FlagsOf, Stored, Processed, CalculatedImpliesStored, StoredHasMetadata
  <2>2. ProcessInv'
    BY <1>23 DEF InsertFails, ProcessInv, FlagsInv, TypeInv, TypeOK, Chosen, Working, Updating, Field, Epoch, FlagsOf, Stored, Processed, CalculatedImpliesStored, StoredHasMetadata
  <2> QED
    BY <2>1, <2>2
<1>24. CASE GetOrInitFails
  <2>1. FlagsInv'
    BY <1>24, FlagsUnchanged DEF GetOrInitFails, Throw, NewIteration, ProcessInv, FlagsInv, TypeInv, TypeOK, Chosen, Working, Updating, Field, Epoch, FlagsOf, Stored, Processed, CalculatedImpliesStored, StoredHasMetadata
  <2>2. ProcessInv'
    BY <1>24 DEF GetOrInitFails, Throw, NewIteration, ProcessInv, FlagsInv, TypeInv, TypeOK, Chosen, Working, Updating, Field, Epoch, FlagsOf, Stored, Processed, CalculatedImpliesStored, StoredHasMetadata
  <2> QED
    BY <2>1, <2>2
<1>25. CASE AlterUpdateFails
  <2>1. FlagsInv'
    BY <1>25, FlagsUnchanged DEF AlterUpdateFails, Throw, NewIteration, ProcessInv, FlagsInv, TypeInv, TypeOK, Chosen, Working, Updating, Field, Epoch, FlagsOf, Stored, Processed, CalculatedImpliesStored, StoredHasMetadata
  <2>2. ProcessInv'
    BY <1>25 DEF AlterUpdateFails, Throw, NewIteration, ProcessInv, FlagsInv, TypeInv, TypeOK, Chosen, Working, Updating, Field, Epoch, FlagsOf, Stored, Processed, CalculatedImpliesStored, StoredHasMetadata
  <2> QED
    BY <2>1, <2>2
<1>26. CASE FillRegistryFails
  BY <1>26, FlagsUnchanged, ProcessIdle DEF FillRegistryFails, Throw, NewIteration
<1>27. CASE CalculateMetricsFails
  BY <1>27, FlagsUnchanged, ProcessIdle DEF CalculateMetricsFails, Throw, NewIteration
<1>28. ASSUME NEW m \in Epoch \X Field, ApplyMutation(m) PROVE FlagsInv' /\ ProcessInv'
  <2>1. FlagsInv'
    BY <1>28, FlagsUnchanged DEF ApplyMutation, ProcessInv, FlagsInv, TypeInv, TypeOK, Chosen, Working, Updating, Field, Epoch, FlagsOf, Stored, Processed, CalculatedImpliesStored, StoredHasMetadata
  <2>2. ProcessInv'
    BY <1>28 DEF ApplyMutation, ProcessInv, FlagsInv, TypeInv, TypeOK, Chosen, Working, Updating, Field, Epoch, FlagsOf, Stored, Processed, CalculatedImpliesStored, StoredHasMetadata
  <2> QED
    BY <2>1, <2>2
<1>29. CASE ChainAdvance
  <2>1. FlagsInv'
    BY <1>29, FlagsUnchanged DEF ChainAdvance, ProcessInv, FlagsInv, TypeInv, TypeOK, Chosen, Working, Updating, Field, Epoch, FlagsOf, Stored, Processed, CalculatedImpliesStored, StoredHasMetadata
  <2>2. ProcessInv'
    BY <1>29 DEF ChainAdvance, ProcessInv, FlagsInv, TypeInv, TypeOK, Chosen, Working, Updating, Field, Epoch, FlagsOf, Stored, Processed, CalculatedImpliesStored, StoredHasMetadata
  <2> QED
    BY <2>1, <2>2
<1>30. CASE UNCHANGED vars
  BY <1>30, FlagsUnchanged DEF vars, ProcessInv, FlagsInv, TypeInv, TypeOK, Chosen, Working, Updating, Field, Epoch, FlagsOf, Stored, Processed, CalculatedImpliesStored, StoredHasMetadata
<1> QED
  BY <1>1, <1>2, <1>3, <1>4, <1>5, <1>6, <1>7, <1>8, <1>9, <1>10, <1>11, <1>12, <1>13, <1>14, <1>15, <1>16, <1>17, <1>18, <1>19, <1>20, <1>21, <1>22, <1>23, <1>24, <1>25, <1>26, <1>27, <1>28, <1>29, <1>30 DEF Next, Progress, Fault

\* Both kinds of database satisfy the invariant when the process starts.
LEMMA TableInit == Init => TableInv
<1> SUFFICES ASSUME Init PROVE TableInv
  OBVIOUS
<1>1. TypeInv /\ InitProcess
  BY TypeInit DEF Init, InitCold, InitWarm
<1>2. ProcessInv
  BY <1>1 DEF InitProcess, ProcessInv, Chosen, Working, Updating
<1>3. CASE InitCold
  BY <1>1, <1>2, <1>3 DEF InitCold, InitProcess, TableInv, FlagsInv, CalculatedImpliesStored, StoredHasMetadata
<1>4. CASE InitWarm
  <2>1. PICK k \in StartEpoch .. tip :
          rows = StartEpoch .. k /\ flag = rows \X Field /\ metaRows = rows
    BY <1>4 DEF InitWarm
  <2>2. 0 \notin rows
    BY <1>4, <2>1, StartEpochAssumption, LastEpochAssumption DEF InitWarm
  <2>3. pending = {}
    BY <1>1 DEF InitProcess
  <2> QED
    BY <1>1, <1>2, <2>1, <2>2, <2>3
       DEF TableInv, FlagsInv, CalculatedImpliesStored, StoredHasMetadata, Stored, Field
<1> QED
  BY <1>3, <1>4 DEF Init

\* The tables' invariant holds in every reachable state.
LEMMA TableInvariant == Spec => []TableInv
<1>1. TableInv /\ [Next]_vars => TableInv'
  BY TypeStep, TableStep DEF TableInv
<1> QED
  BY <1>1, TableInit, PTL DEF Spec

\* No run records the metrics of an epoch as calculated, or asks ClickHouse
\* to, before the epoch is recorded as stored.
THEOREM CalculatedOnlyAfterStored == Spec => []CalculatedImpliesStored
<1>1. TableInv => CalculatedImpliesStored
  BY DEF TableInv, FlagsInv
<1> QED
  BY <1>1, TableInvariant, PTL

\* No run records an epoch as stored, or asks ClickHouse to, before its
\* metadata row is written.
THEOREM StoredOnlyWithMetadata == Spec => []StoredHasMetadata
<1>1. TableInv => StoredHasMetadata
  BY DEF TableInv, FlagsInv
<1> QED
  BY <1>1, TableInvariant, PTL

-----------------------------------------------------------------------------
(***************************************************************************)
(* Layer 3.                                                                *)
(***************************************************************************)
\* A flag that is set stays set.
LEMMA FlagsStay == [Next]_vars => flag \subseteq flag'
BY DEF Next, Progress, Fault, vars, tables, Boot, StartLoop, GetLastProcessedEpoch, GetLastEpoch, GetMaxEpoch, HeaderReady, HeaderNotYet, CheckAll, InsertOk, InsertSummaryOnRetry, WritesSettled, GetOrInit, AlterUpdate, PollSeesUpdate, PollGivesUp, FillRegistry, CalculateMetrics, SendAlerts, Crash, HeaderLags, CallFails, CheckAllFails, InsertFails, GetOrInitFails, AlterUpdateFails, FillRegistryFails, CalculateMetricsFails, ApplyMutation, ChainAdvance

\* A processed epoch stays processed.
LEMMA ProcessedStays ==
  ASSUME [Next]_vars, NEW e, Processed(e)
  PROVE  Processed(e)'
BY FlagsStay DEF Processed, FlagsOf

\* The epoch chosen is later than the last processed one.
LEMMA ChosenIsLater ==
  ASSUME NEW lp \in Nat, NEW last \in Nat, NEW fs, Choose(lp, last, fs)
  PROVE  epoch' > lp
BY StartEpochAssumption, LastEpochAssumption DEF Choose

\* Only SendAlerts adds an alert.
LEMMA AlertsStay == [Next]_vars => UNCHANGED alerts \/ SendAlerts
BY DEF Next, Progress, Fault, vars, Boot, StartLoop, GetLastProcessedEpoch, GetLastEpoch, GetMaxEpoch, HeaderReady, HeaderNotYet, CheckAll, InsertOk, InsertSummaryOnRetry, WritesSettled, GetOrInit, AlterUpdate, PollSeesUpdate, PollGivesUp, FillRegistry, CalculateMetrics, Crash, HeaderLags, CallFails, CheckAllFails, InsertFails, GetOrInitFails, AlterUpdateFails, FillRegistryFails, CalculateMetricsFails, ApplyMutation, ChainAdvance

\* Between the choice of an epoch and the end of the iteration the epoch is
\* fixed; the other steps choose, start over, or leave the process alone.
LEMMA LoopShape ==
  ASSUME [Next]_vars
  PROVE  \/ pc' \in {"down", "boot", "lastProcessed"}
         \/ GetLastProcessedEpoch \/ GetLastEpoch \/ GetMaxEpoch
         \/ pc \in Chosen /\ pc' \in Chosen /\ UNCHANGED <<lastProcessed, epoch, alerts>>
         \/ UNCHANGED <<pc, lastProcessed, epoch, alerts>>
BY DEF Next, Progress, Fault, vars, tables, chosen, Chosen, Working, Throw, NewIteration, CallUpdate,
       AfterStored, Boot, StartLoop, HeaderReady, HeaderNotYet, CheckAll, InsertOk, InsertSummaryOnRetry, WritesSettled, GetOrInit, AlterUpdate, PollSeesUpdate, PollGivesUp, FillRegistry, CalculateMetrics, SendAlerts, Crash, HeaderLags, CallFails, CheckAllFails, InsertFails, GetOrInitFails, AlterUpdateFails, FillRegistryFails, CalculateMetricsFails, ApplyMutation, ChainAdvance

\* A processed epoch has a row and is an epoch the loop chose.
LEMMA ProcessedHasRow ==
  ASSUME FlagsInv, NEW e \in Epoch, Processed(e)
  PROVE  e \in rows
BY DEF FlagsInv, Processed, FlagsOf, Field

\* Every step keeps the alerts in order.
LEMMA AlertStep == TableInv /\ AlertInv /\ [Next]_vars => AlertInv'
<1> SUFFICES ASSUME TableInv, AlertInv, [Next]_vars PROVE AlertInv'
  OBVIOUS
<1>1. /\ alerts \in Seq(Epoch) /\ lastProcessed \in Nat /\ epoch \in Nat
      /\ \A i \in 1 .. Len(alerts) : alerts[i] \in Epoch /\ alerts[i] \in Nat
      /\ Len(alerts) \in Nat
  BY LastEpochAssumption DEF TableInv, TypeInv, TypeOK, Epoch, NextEpoch
<1>2. AlertsInOrder'
  <2>1. CASE UNCHANGED alerts
    <3>1. \A i \in 1 .. Len(alerts) : \A f \in Field : <<alerts[i], f>> \in flag'
      BY FlagsStay DEF AlertInv, AlertsInOrder, Processed, FlagsOf
    <3> QED
      BY <2>1, <3>1 DEF AlertInv, AlertsInOrder, Processed, FlagsOf
  <2>2. CASE SendAlerts
    <3>1. /\ alerts' = Append(alerts, epoch) /\ flag' = flag /\ epoch \in Epoch
          /\ Processed(epoch)
          /\ \A i \in 1 .. Len(alerts) : alerts[i] < epoch
      BY <2>2 DEF SendAlerts, tables, TableInv, TypeInv, ProcessInv, AlertInv, Chosen, Working
    <3>2. /\ Len(alerts') = Len(alerts) + 1
          /\ \A i \in 1 .. Len(alerts) : alerts'[i] = alerts[i]
          /\ alerts'[Len(alerts) + 1] = epoch
      BY <1>1, <3>1
    <3>3. \A i \in 1 .. Len(alerts') : Processed(alerts'[i])
      BY <1>1, <3>1, <3>2 DEF AlertInv, AlertsInOrder
    <3>4. \A i, j \in 1 .. Len(alerts') : i < j => alerts'[i] < alerts'[j]
      <4> SUFFICES ASSUME NEW i \in 1 .. Len(alerts'), NEW j \in 1 .. Len(alerts'), i < j
                   PROVE  alerts'[i] < alerts'[j]
        OBVIOUS
      <4>1. i \in 1 .. Len(alerts)
        BY <1>1, <3>2
      <4>2. CASE j \in 1 .. Len(alerts)
        BY <3>2, <4>1, <4>2 DEF AlertInv, AlertsInOrder
      <4>3. CASE j = Len(alerts) + 1
        BY <3>1, <3>2, <4>1, <4>3
      <4> QED
        BY <1>1, <3>2, <4>2, <4>3
    <3> QED
      BY <3>1, <3>3, <3>4 DEF AlertsInOrder, Processed, FlagsOf
  <2> QED
    BY <2>1, <2>2, AlertsStay
<1>3. CASE pc' \in {"down", "boot", "lastProcessed"}
  BY <1>2, <1>3 DEF AlertInv, Chosen, Working
<1>4. CASE GetLastProcessedEpoch
  <2>1. PICK e \in Epoch : IsLastOf(e, {x \in Epoch : Processed(x)}) /\ lastProcessed' = e
    BY <1>4 DEF GetLastProcessedEpoch
  <2>2. \A i \in 1 .. Len(alerts) : alerts[i] <= e
    BY <1>1, <2>1 DEF IsLastOf, AlertInv, AlertsInOrder
  <2> QED
    BY <1>2, <1>4, <2>1, <2>2 DEF GetLastProcessedEpoch, AlertInv, Chosen, Working
<1>5. CASE GetLastEpoch
  <2>1. PICK e \in Epoch :
          /\ IsLastOf(e, rows)
          /\ e = 0 => pc' = "max"
          /\ e # 0 => Choose(lastProcessed, e, FlagsOf(e))
    BY <1>5 DEF GetLastEpoch
  <2>2. pc = "last" /\ UNCHANGED alerts
    BY <1>5 DEF GetLastEpoch
  <2>3. CASE e = 0
    <3>1. rows = {}
      BY <2>1, <2>3 DEF IsLastOf, TableInv, FlagsInv
    <3>2. \A i \in 1 .. Len(alerts) : FALSE
      BY <1>1, <3>1, ProcessedHasRow DEF TableInv, AlertInv, AlertsInOrder
    <3>3. alerts = <<>>
      BY <1>1, <3>2
    <3> QED
      BY <1>2, <2>1, <2>2, <2>3, <3>3 DEF AlertInv, Chosen, Working
  <2>4. CASE e # 0
    <3>1. epoch' > lastProcessed /\ pc' = "header"
      BY <1>1, <2>1, <2>4, ChosenIsLater, LastEpochAssumption DEF Choose, Epoch
    <3>2. epoch' \in Nat
      BY <1>1, <2>1, <2>4, StartEpochAssumption, LastEpochAssumption DEF Choose, Epoch
    <3>3. \A i \in 1 .. Len(alerts) : alerts[i] < epoch'
      BY <1>1, <2>2, <3>1, <3>2 DEF AlertInv
    <3> QED
      BY <1>2, <2>2, <3>1, <3>3 DEF AlertInv, Chosen, Working
  <2> QED
    BY <2>3, <2>4
<1>6. CASE GetMaxEpoch
  <2>1. alerts' = <<>> /\ pc' = "header"
    BY <1>6 DEF GetMaxEpoch, AlertInv, Choose
  <2> QED
    BY <1>2, <2>1 DEF AlertInv, Chosen, Working
<1>7. CASE pc \in Chosen /\ pc' \in Chosen /\ UNCHANGED <<lastProcessed, epoch, alerts>>
  BY <1>2, <1>7 DEF AlertInv, Chosen, Working
<1>8. CASE UNCHANGED <<pc, lastProcessed, epoch, alerts>>
  BY <1>2, <1>8 DEF AlertInv
<1> QED
  BY <1>3, <1>4, <1>5, <1>6, <1>7, <1>8, LoopShape

\* So does the order of the alerts.
LEMMA LoopInvariant == Spec => [](TableInv /\ AlertInv)
<1>1. Init => AlertInv
  BY DEF Init, InitCold, InitWarm, InitProcess, AlertInv, AlertsInOrder, Chosen, Working
<1> QED
  BY <1>1, AlertStep, TableInvariant, PTL DEF Spec

\* In every run alerts are sent for processed epochs, at most once for an
\* epoch, and in the order of the epochs.
THEOREM AlertsSentInOrder == Spec => []AlertsInOrder
<1>1. AlertInv => AlertsInOrder
  BY DEF AlertInv
<1> QED
  BY <1>1, LoopInvariant, PTL

-----------------------------------------------------------------------------
(***************************************************************************)
(* Layer 4, once the first epoch is processed.  The epochs from START_EPOCH *)
(* up to the one worked on are processed, and no row is beyond it; in      *)
(* particular the summary table is never consulted (pc # "max").           *)
(***************************************************************************)
WarmInv ==
  /\ StartEpoch > 0
  /\ Processed(StartEpoch)
  /\ NothingSkipped
  /\ \A e \in rows : e >= StartEpoch
  /\ pc # "max"
  /\ pc = "last" =>
       /\ lastProcessed >= StartEpoch
       /\ Processed(lastProcessed)
       /\ \A e \in rows : e <= lastProcessed + 1
  /\ pc \in Chosen =>
       /\ epoch > StartEpoch
       /\ \A d \in StartEpoch .. epoch - 1 : Processed(d)
       /\ \A e \in rows : e <= epoch

\* Only updateEpochProcessing adds a row, the row of the current epoch.
LEMMA RowsStay ==
  [Next]_vars => UNCHANGED rows \/ (pc \in Chosen /\ rows' = rows \cup {epoch})
BY DEF Next, Progress, Fault, vars, tables, Chosen, Working, GetOrInit, GetOrInitFails,
       Boot, StartLoop, GetLastProcessedEpoch, GetLastEpoch, GetMaxEpoch, HeaderReady, HeaderNotYet, CheckAll, InsertOk, InsertSummaryOnRetry, WritesSettled, AlterUpdate, PollSeesUpdate, PollGivesUp, FillRegistry, CalculateMetrics, SendAlerts, Crash, HeaderLags, CallFails, CheckAllFails, InsertFails, AlterUpdateFails, FillRegistryFails, CalculateMetricsFails, ApplyMutation, ChainAdvance

\* Every step keeps the processed epochs without a gap.
LEMMA WarmStep == TableInv /\ WarmInv /\ TableInv' /\ [Next]_vars => WarmInv'
<1> SUFFICES ASSUME TableInv, WarmInv, TableInv', [Next]_vars PROVE WarmInv'
  OBVIOUS
<1> USE LastEpochAssumption, StartEpochAssumption
<1>1. /\ lastProcessed \in Epoch /\ epoch \in Nat /\ epoch' \in Nat
      /\ \A e \in rows : e \in Epoch
      /\ \A e \in Epoch : e \in Nat /\ e <= LastEpoch
  BY DEF TableInv, TypeInv, TypeOK, Epoch, NextEpoch
<1>2. StartEpoch > 0 /\ Processed(StartEpoch)'
  BY ProcessedStays DEF WarmInv
<1>3. NothingSkipped' /\ \A e \in rows' : e >= StartEpoch
  <2>1. \A e \in rows' : \A d \in StartEpoch .. e - 1 : Processed(d)
    BY <1>1, RowsStay DEF WarmInv, NothingSkipped
  <2>2. \A d : Processed(d) => Processed(d)'
    BY ProcessedStays
  <2>3. \A e \in rows' : e >= StartEpoch
    BY <1>1, RowsStay DEF WarmInv
  <2> QED
    BY <2>1, <2>2, <2>3 DEF NothingSkipped
<1>4. CASE pc' \in {"down", "boot", "lastProcessed"}
  BY <1>2, <1>3, <1>4 DEF WarmInv, Chosen, Working
<1>5. CASE GetLastProcessedEpoch
  <2>1. PICK lp \in Epoch : IsLastOf(lp, {x \in Epoch : Processed(x)}) /\ lastProcessed' = lp
    BY <1>5 DEF GetLastProcessedEpoch
  <2>2. Processed(lp) /\ \A x \in Epoch : Processed(x) => x <= lp
    BY <2>1 DEF IsLastOf, WarmInv, Epoch
  <2>3. lp >= StartEpoch
    BY <2>2 DEF WarmInv, Epoch
  <2>4. \A e \in rows : e <= lp + 1
    <3> SUFFICES ASSUME NEW e \in rows, e > lp + 1 PROVE FALSE
      BY <1>1
    <3>1. lp + 1 \in StartEpoch .. e - 1 /\ lp + 1 \in Epoch
      BY <1>1, <2>3 DEF Epoch
    <3>2. Processed(lp + 1)
      BY <3>1 DEF WarmInv, NothingSkipped
    <3> QED
      BY <1>1, <2>2, <3>1, <3>2
  <2>5. UNCHANGED <<rows, flag>> /\ pc' = "last"
    BY <1>5 DEF GetLastProcessedEpoch, tables
  <2> QED
    BY <1>2, <1>3, <2>1, <2>2, <2>3, <2>4, <2>5 DEF WarmInv, Chosen, Working, Processed, FlagsOf
<1>6. CASE GetLastEpoch
  <2>1. PICK e \in Epoch :
          /\ IsLastOf(e, rows)
          /\ e = 0 => pc' = "max"
          /\ e # 0 => Choose(lastProcessed, e, FlagsOf(e))
    BY <1>6 DEF GetLastEpoch
  <2>2. pc = "last" /\ UNCHANGED <<rows, flag>>
    BY <1>6 DEF GetLastEpoch, tables
  <2>3. StartEpoch \in rows
    BY ProcessedHasRow DEF WarmInv, TableInv, Epoch
  <2>4. e \in rows /\ e # 0
    BY <2>1, <2>3 DEF IsLastOf, TableInv, FlagsInv
  <2>5. Choose(lastProcessed, e, FlagsOf(e))
    BY <2>1, <2>4
  \* A half-processed last row is the one after lastProcessed.
  <2>6. Partial(FlagsOf(e)) => e = lastProcessed + 1
    <3> SUFFICES ASSUME Partial(FlagsOf(e)) PROVE e = lastProcessed + 1
      OBVIOUS
    <3>1. lastProcessed \in rows
      BY <1>1, <2>2, ProcessedHasRow DEF WarmInv, TableInv
    <3>2. e # lastProcessed
      BY <2>2 DEF WarmInv, Partial, Processed
    <3> QED
      BY <1>1, <2>1, <2>2, <2>4, <3>1, <3>2 DEF IsLastOf, WarmInv
  <2>7. epoch' = lastProcessed + 1 /\ pc' = "header"
    BY <1>1, <2>2, <2>5, <2>6 DEF Choose, WarmInv
  <2>8. \A d \in StartEpoch .. lastProcessed : Processed(d)
    <3>1. lastProcessed \in rows /\ Processed(lastProcessed)
      BY <1>1, <2>2, ProcessedHasRow DEF WarmInv, TableInv
    <3> QED
      BY <1>1, <3>1 DEF WarmInv, NothingSkipped
  <2>9. \A d \in StartEpoch .. epoch' - 1 : Processed(d)
    BY <1>1, <2>7, <2>8
  <2> QED
    BY <1>1, <1>2, <1>3, <2>2, <2>7, <2>9 DEF WarmInv, Chosen, Working, Processed, FlagsOf
<1>7. CASE GetMaxEpoch
  BY <1>7 DEF GetMaxEpoch, WarmInv
<1>8. CASE pc \in Chosen /\ pc' \in Chosen /\ UNCHANGED <<lastProcessed, epoch, alerts>>
  <2>1. \A d \in StartEpoch .. epoch - 1 : Processed(d)'
    BY <1>8, ProcessedStays DEF WarmInv
  <2>2. \A e \in rows' : e <= epoch
    BY <1>1, <1>8, RowsStay DEF WarmInv
  <2>3. epoch > StartEpoch
    BY <1>8 DEF WarmInv
  <2> QED
    BY <1>2, <1>3, <1>8, <2>1, <2>2, <2>3 DEF WarmInv, Chosen, Working
<1>9. CASE UNCHANGED <<pc, lastProcessed, epoch, alerts>>
  <2>1. CASE pc \in Chosen
    BY <1>8, <1>9, <2>1
  <2>2. CASE pc = "last"
    <3>1. UNCHANGED rows
      BY <2>2, RowsStay DEF Chosen, Working
    <3>2. Processed(lastProcessed)'
      BY <1>9, <2>2, ProcessedStays DEF WarmInv, Processed, FlagsOf
    <3> QED
      BY <1>2, <1>3, <1>9, <2>2, <3>1, <3>2 DEF WarmInv, Chosen, Working
  <2>3. CASE pc \notin Chosen /\ pc # "last"
    BY <1>2, <1>3, <1>9, <2>3 DEF WarmInv
  <2> QED
    BY <2>1, <2>2, <2>3
<1> QED
  BY <1>4, <1>5, <1>6, <1>7, <1>8, <1>9, LoopShape

\* A database with the epochs StartEpoch to k processed has no gap.
LEMMA WarmInit == InitWarm => WarmInv
<1> SUFFICES ASSUME InitWarm PROVE WarmInv
  OBVIOUS
<1>1. PICK k \in StartEpoch .. tip : rows = StartEpoch .. k /\ flag = rows \X Field
  BY DEF InitWarm
<1>2. tip \in Nat /\ StartEpoch \in Nat /\ StartEpoch > 0
  BY LastEpochAssumption, StartEpochAssumption DEF InitWarm, InitProcess, Epoch
<1>3. \A e \in rows : Processed(e)
  BY <1>1 DEF Processed, FlagsOf
<1> QED
  BY <1>1, <1>2, <1>3 DEF InitWarm, InitProcess, WarmInv, NothingSkipped, Chosen, Working

\* What the first process found is never rewritten.
LEMMA StartStays == [Next]_vars => start' = start
BY DEF Next, Progress, Fault, vars, history, Boot, StartLoop, GetLastProcessedEpoch, GetLastEpoch, GetMaxEpoch, HeaderReady, HeaderNotYet, CheckAll, InsertOk, InsertSummaryOnRetry, WritesSettled, GetOrInit, AlterUpdate, PollSeesUpdate, PollGivesUp, FillRegistry, CalculateMetrics, SendAlerts, Crash, HeaderLags, CallFails, CheckAllFails, InsertFails, GetOrInitFails, AlterUpdateFails, FillRegistryFails, CalculateMetricsFails, ApplyMutation, ChainAdvance

\* The invariant of every run, with layer 4 for the warm ones.
LayeredInv == TableInv /\ AlertInv /\ (start = "warm" => WarmInv)

\* After a warm start there is no gap in any reachable state.
LEMMA WarmInvariant == Spec => []LayeredInv
<1>1. Init => (start = "warm" => WarmInv)
  BY WarmInit DEF Init, InitCold
<1>2. TableInv /\ (start = "warm" => WarmInv) /\ TableInv' /\ [Next]_vars
        => (start = "warm" => WarmInv)'
  BY WarmStep, StartStays
<1> QED
  BY <1>1, <1>2, LoopInvariant, PTL DEF Spec, LayeredInv

\* Once the first epoch is processed no epoch is ever skipped, whatever the
\* length of the chain and the number of crashes, failures and retries.
THEOREM NoEpochIsSkipped == Spec => []NoEpochSkipped
<1>1. LayeredInv => NoEpochSkipped
  BY DEF LayeredInv, WarmInv, NoEpochSkipped
<1> QED
  BY <1>1, WarmInvariant, PTL

-----------------------------------------------------------------------------
(***************************************************************************)
(* The loop implements EpochPipeline.                                      *)
(***************************************************************************)
\* The only steps the pipeline sees are an UPDATE that is applied and alerts
\* that are sent.
LEMMA InvisibleSteps ==
  [Next]_vars => \/ \E m \in Epoch \X Field : ApplyMutation(m)
                 \/ SendAlerts
                 \/ UNCHANGED <<flag, alerts>>
BY DEF Next, Progress, Fault, vars, tables, Boot, StartLoop, GetLastProcessedEpoch, GetLastEpoch, GetMaxEpoch, HeaderReady, HeaderNotYet, CheckAll, InsertOk, InsertSummaryOnRetry, WritesSettled, GetOrInit, AlterUpdate, PollSeesUpdate, PollGivesUp, FillRegistry, CalculateMetrics, Crash, HeaderLags, CallFails, CheckAllFails, InsertFails, GetOrInitFails, AlterUpdateFails, FillRegistryFails, CalculateMetricsFails, ChainAdvance

\* An UPDATE applied is a Store, a Calculate, or nothing new.
LEMMA ApplyIsPhaseStep ==
  ASSUME TableInv, WarmInv, NEW m \in Epoch \X Field, ApplyMutation(m)
  PROVE  Pipeline!Next \/ UNCHANGED <<phaseBar, lastAlertBar>>
<1>1. PICK e \in Epoch, f \in Field : m = <<e, f>>
  OBVIOUS
<1>2. /\ <<e, f>> \in pending /\ flag' = flag \cup {<<e, f>>} /\ UNCHANGED alerts
  BY <1>1 DEF ApplyMutation
<1>3. UNCHANGED lastAlertBar
  BY <1>2 DEF lastAlertBar
<1>4. \A d \in Epoch : d # e => PhaseOf(d)' = PhaseOf(d)
  BY <1>2 DEF PhaseOf, Processed, Stored, FlagsOf
<1>5. CASE <<e, f>> \in flag
  <2>1. flag' = flag
    BY <1>2, <1>5
  <2> QED
    BY <1>3, <2>1 DEF phaseBar, PhaseOf, Processed, Stored, FlagsOf
<1>6. CASE <<e, f>> \notin flag /\ f = "is_stored"
  <2>1. <<e, "is_calculated">> \notin flag
    BY <1>6 DEF TableInv, FlagsInv, CalculatedImpliesStored, Stored
  <2>2. PhaseOf(e) = "new"
    BY <1>6 DEF PhaseOf, Processed, Stored, FlagsOf, Field
  <2>3. PhaseOf(e)' = "stored"
    BY <1>2, <1>6, <2>1 DEF PhaseOf, Processed, Stored, FlagsOf, Field
  <2>4. \A d \in StartEpoch .. e - 1 : d \in Epoch /\ PhaseOf(d) = "calculated"
    <3>1. e \in rows
      BY <1>2 DEF TableInv, FlagsInv
    <3>2. \A d \in StartEpoch .. e - 1 : Processed(d)
      BY <3>1 DEF WarmInv, NothingSkipped
    <3> QED
      BY <3>2, StartEpochAssumption, LastEpochAssumption DEF PhaseOf, Epoch
  <2>5. phaseBar' = [phaseBar EXCEPT ![e] = "stored"]
    BY <1>4, <2>3 DEF phaseBar
  <2>6. Pipeline!Store(e)
    BY <1>3, <2>2, <2>4, <2>5 DEF Pipeline!Store, phaseBar, lastAlertBar
  <2> QED
    BY <2>6 DEF Pipeline!Next, Pipeline!Epoch, Epoch
<1>7. CASE <<e, f>> \notin flag /\ f = "is_calculated"
  <2>1. <<e, "is_stored">> \in flag
    BY <1>2, <1>7 DEF TableInv, FlagsInv, CalculatedImpliesStored, Stored
  <2>2. PhaseOf(e) = "stored"
    BY <1>7, <2>1 DEF PhaseOf, Processed, Stored, FlagsOf, Field
  <2>3. PhaseOf(e)' = "calculated"
    BY <1>2, <1>7, <2>1 DEF PhaseOf, Processed, Stored, FlagsOf, Field
  <2>4. phaseBar' = [phaseBar EXCEPT ![e] = "calculated"]
    BY <1>4, <2>3 DEF phaseBar
  <2>5. Pipeline!Calculate(e)
    BY <1>3, <2>2, <2>4 DEF Pipeline!Calculate, phaseBar, lastAlertBar
  <2> QED
    BY <2>5 DEF Pipeline!Next, Pipeline!Epoch, Epoch
<1> QED
  BY <1>5, <1>6, <1>7 DEF Field

\* Sending the alerts of an epoch is the Alert of the pipeline.
LEMMA SendIsAlert ==
  ASSUME TableInv, AlertInv, WarmInv, SendAlerts
  PROVE  Pipeline!Next
<1>1. /\ epoch \in Epoch /\ epoch > 0 /\ Processed(epoch)
      /\ \A e \in rows : e <= epoch
      /\ \A i \in 1 .. Len(alerts) : alerts[i] < epoch
      /\ alerts \in Seq(Epoch) /\ alerts' = Append(alerts, epoch) /\ UNCHANGED flag
  BY DEF SendAlerts, tables, TableInv, TypeInv, TypeOK, ProcessInv, AlertInv, WarmInv, Chosen, Working
<1>2. PhaseOf(epoch) = "calculated"
  BY <1>1 DEF PhaseOf
<1>3. \A d \in Epoch : d > epoch => PhaseOf(d) = "new"
  <2> SUFFICES ASSUME NEW d \in Epoch, d > epoch PROVE PhaseOf(d) = "new"
    OBVIOUS
  <2>1. d \notin rows
    BY <1>1, LastEpochAssumption DEF Epoch
  <2>2. \A f \in Field : <<d, f>> \notin flag
    BY <2>1 DEF TableInv, FlagsInv
  <2> QED
    BY <2>2 DEF PhaseOf, Processed, Stored, FlagsOf, Field
<1>4. lastAlertBar < epoch
  <2>1. CASE alerts = <<>>
    BY <1>1, <2>1 DEF lastAlertBar
  <2>2. CASE alerts # <<>>
    <3>1. Len(alerts) \in 1 .. Len(alerts)
      BY <1>1, <2>2
    <3> QED
      BY <1>1, <2>2, <3>1 DEF lastAlertBar
  <2> QED
    BY <2>1, <2>2
<1>5. lastAlertBar' = epoch
  <2>1. alerts' # <<>> /\ alerts'[Len(alerts')] = epoch
    BY <1>1
  <2> QED
    BY <2>1 DEF lastAlertBar
<1>6. UNCHANGED phaseBar
  BY <1>1 DEF phaseBar, PhaseOf, Processed, Stored, FlagsOf
<1>7. Pipeline!Alert(epoch)
  BY <1>1, <1>2, <1>3, <1>4, <1>5, <1>6 DEF Pipeline!Alert, Pipeline!Epoch, Epoch, phaseBar, lastAlertBar
<1> QED
  BY <1>1, <1>7 DEF Pipeline!Next, Pipeline!Epoch, Epoch

\* The flags of a warm database are an initial state of the pipeline.
LEMMA WarmInitMaps == Init /\ start = "warm" => Pipeline!Init
<1> SUFFICES ASSUME InitWarm PROVE Pipeline!Init
  BY DEF Init, InitCold
<1>1. PICK k \in StartEpoch .. tip : rows = StartEpoch .. k /\ flag = rows \X Field
  BY DEF InitWarm
<1>2. k \in StartEpoch .. LastEpoch
  BY LastEpochAssumption, StartEpochAssumption DEF InitWarm, InitProcess, Epoch
<1>3. \A e \in Epoch : PhaseOf(e) = IF e \in StartEpoch .. k THEN "calculated" ELSE "new"
  BY <1>1 DEF PhaseOf, Processed, Stored, FlagsOf, Field
<1> QED
  BY <1>2, <1>3 DEF Pipeline!Init, Pipeline!Epoch, Epoch, InitWarm, InitProcess, phaseBar, lastAlertBar

\* After a warm start every step is a step of the pipeline or none.
LEMMA WarmStepMaps ==
  LayeredInv /\ start = "warm" /\ [Next]_vars => [Pipeline!Next]_<<phaseBar, lastAlertBar>>
<1> SUFFICES ASSUME TableInv, AlertInv, WarmInv, [Next]_vars
             PROVE  Pipeline!Next \/ UNCHANGED <<phaseBar, lastAlertBar>>
  BY DEF LayeredInv
<1>1. CASE UNCHANGED <<flag, alerts>>
  BY <1>1 DEF phaseBar, lastAlertBar, PhaseOf, Processed, Stored, FlagsOf
<1> QED
  BY <1>1, ApplyIsPhaseStep, SendIsAlert, InvisibleSteps

\* The processing loop with its crashes, failed calls and late UPDATEs
\* implements the pipeline, once the first epoch is processed.
THEOREM LoopImplementsPipeline == Spec => ImplementsPipeline
<1>1. Init => (start = "warm" => Pipeline!Init)
  BY WarmInitMaps
<1>2. LayeredInv /\ [Next]_vars
        => [start = "warm" => [Pipeline!Next]_<<phaseBar, lastAlertBar>>]_vars
  BY WarmStepMaps
<1> QED
  BY <1>1, <1>2, WarmInvariant, PTL DEF Spec, ImplementsPipeline

\* The same as an implication between specifications: a behaviour of the
\* loop (startLoop) that begins with a warm database is, read through the
\* flags and the alerts, a behaviour of EpochPipeline.
THEOREM WarmLoopIsPipeline == Spec /\ start = "warm" => Pipeline!Spec
<1>1. Init /\ start = "warm" => Pipeline!Init
  BY WarmInitMaps
<1>2. start = "warm" /\ [Next]_vars => (start = "warm")'
  BY StartStays
<1>3. LayeredInv /\ start = "warm" /\ [Next]_vars => [Pipeline!Next]_<<phaseBar, lastAlertBar>>
  BY WarmStepMaps
<1> QED
  BY <1>1, <1>2, <1>3, WarmInvariant, PTL DEF Spec, Pipeline!Spec

-----------------------------------------------------------------------------
(***************************************************************************)
(* The epoch metric.                                                       *)
(***************************************************************************)
GaugeInv ==
  /\ gauge = 0 \/ Stored(gauge)
  /\ pc = "down" => gauge = 0

\* Only the start of the process, its end and the metrics move the gauge.
LEMMA GaugeStays ==
  [Next]_vars => \/ Boot \/ Crash \/ CalculateMetrics \/ CalculateMetricsFails
                 \/ UNCHANGED gauge /\ (pc' = "down" => pc = "down")
BY DEF Next, Progress, Fault, vars, Throw, NewIteration, CallUpdate, AfterStored, Choose,
       StartLoop, GetLastProcessedEpoch, GetLastEpoch, GetMaxEpoch, HeaderReady, HeaderNotYet, CheckAll, InsertOk, InsertSummaryOnRetry, WritesSettled, GetOrInit, AlterUpdate, PollSeesUpdate, PollGivesUp, FillRegistry, SendAlerts, HeaderLags, CallFails, CheckAllFails, InsertFails, GetOrInitFails, AlterUpdateFails, FillRegistryFails, ApplyMutation, ChainAdvance

\* A new value of the gauge is the epoch being processed or, at the start,
\* the last processed epoch.
LEMMA GaugeStep == TableInv /\ GaugeInv /\ [Next]_vars => GaugeInv'
<1> SUFFICES ASSUME TableInv, GaugeInv, [Next]_vars PROVE GaugeInv'
  OBVIOUS
<1>1. CASE Boot
  BY <1>1 DEF Boot, IsLastOf, tables, GaugeInv, Stored, Processed, FlagsOf, Field
<1>2. CASE Crash
  BY <1>2 DEF Crash, GaugeInv
<1>3. CASE CalculateMetrics \/ CalculateMetricsFails
  BY <1>3 DEF CalculateMetrics, CalculateMetricsFails, CallUpdate, Throw, NewIteration, tables,
              TableInv, ProcessInv, GaugeInv, Stored
<1>4. CASE UNCHANGED gauge /\ (pc' = "down" => pc = "down")
  BY <1>4, FlagsStay DEF GaugeInv, Stored
<1> QED
  BY <1>1, <1>2, <1>3, <1>4, GaugeStays

\* Once the first epoch is processed the epoch metric only moves forward
\* while the process lives, to epochs whose duties are stored.
THEOREM GaugeOnlyMovesForward == Spec => GaugeFollowsStorage
<1>1. Init => GaugeInv
  BY DEF Init, InitCold, InitWarm, InitProcess, GaugeInv
<1>2. LayeredInv /\ GaugeInv /\ [Next]_vars
        => [start = "warm" /\ gauge' # gauge /\ pc' # "down"
              => gauge' > gauge /\ Stored(gauge')]_vars
  <2> SUFFICES ASSUME TableInv, WarmInv, GaugeInv, [Next]_vars, gauge' # gauge, pc' # "down"
               PROVE  gauge' > gauge /\ Stored(gauge')
    BY DEF LayeredInv
  <2>1. CASE Boot
    <3>1. PICK e \in Epoch : IsLastOf(e, {x \in Epoch : Processed(x)}) /\ gauge' = e
      BY <2>1 DEF Boot
    <3>2. StartEpoch \in Epoch
      BY StartEpochAssumption DEF Epoch
    <3>3. Processed(e) /\ e >= StartEpoch
      BY <3>1, <3>2 DEF IsLastOf, WarmInv
    <3> QED
      BY <2>1, <3>1, <3>3, LastEpochAssumption, StartEpochAssumption
         DEF Boot, GaugeInv, WarmInv, Epoch, Stored, Processed, FlagsOf, Field
  <2>2. CASE CalculateMetrics \/ CalculateMetricsFails
    <3>1. gauge' = epoch /\ Stored(epoch) /\ pc \in Chosen /\ epoch \in Nat /\ gauge \in Epoch
      BY <2>2, LastEpochAssumption DEF CalculateMetrics, CalculateMetricsFails, TableInv, TypeInv, TypeOK, NextEpoch,
         ProcessInv, Chosen, Working
    <3>2. CASE gauge = 0
      BY <3>1, <3>2 DEF TableInv, ProcessInv
    <3>3. CASE Stored(gauge)
      <4>1. gauge \in rows
        BY <3>1, <3>3 DEF TableInv, FlagsInv, Stored, Field
      <4> QED
        BY <3>1, <4>1, LastEpochAssumption DEF WarmInv, Epoch
    <3> QED
      BY <3>2, <3>3 DEF GaugeInv
  <2> QED
    BY <2>1, <2>2, GaugeStays DEF Crash
<1>3. LayeredInv /\ GaugeInv /\ [Next]_vars => GaugeInv'
  BY GaugeStep DEF LayeredInv
<1> QED
  BY <1>1, <1>2, <1>3, WarmInvariant, PTL DEF Spec, GaugeFollowsStorage

-----------------------------------------------------------------------------
(***************************************************************************)
(* Completeness of what is stored, but for what a retry reported as done.  *)
(***************************************************************************)
CompleteInv ==
  /\ CompleteUnlessRetried
  /\ pc = "write" /\ writes["summary"] = "ok" => epoch \in fullRows \cup retried
  /\ pc \in Updating /\ field = "is_stored" => epoch \in fullRows \cup retried

\* The steps outside checkAndWrite and updateEpochProcessing.
LEMMA OtherSteps ==
  [Next]_vars => \/ CheckAll \/ WritesSettled \/ InsertSummaryOnRetry
                 \/ \E i \in Insert : InsertOk(i) \/ InsertFails(i)
                 \/ GetOrInit \/ AlterUpdate \/ AlterUpdateFails \/ CalculateMetrics
                 \/ \E m \in Epoch \X Field : ApplyMutation(m)
                 \/ /\ UNCHANGED <<flag, pending, fullRows, retried>>
                    /\ \/ UNCHANGED <<pc, epoch, writes, field>>
                       \/ pc' \notin Updating \cup {"write"}
BY DEF Next, Progress, Fault, vars, tables, chosen, updVars, history, Updating, AfterStored, Choose, NewIteration, Throw,
       Boot, StartLoop, GetLastProcessedEpoch, GetLastEpoch, GetMaxEpoch, HeaderReady, HeaderNotYet, PollSeesUpdate, PollGivesUp, FillRegistry, SendAlerts, Crash, HeaderLags, CallFails, CheckAllFails, GetOrInitFails, FillRegistryFails, CalculateMetricsFails, ChainAdvance

\* Every step keeps a stored epoch complete, or marked as retried.
LEMMA CompleteStep ==
  ASSUME TableInv, CompleteInv, [Next]_vars
  PROVE  CompleteInv'
<1> USE DEF CompleteInv, CompleteUnlessRetried, Updating, history
<1>1. CASE CheckAll
  BY <1>1 DEF CheckAll, tables, TableInv, ProcessInv, NoWrites, Insert
<1>2. CASE WritesSettled
  <2>1. CASE \A i \in Insert : writes[i] = "ok"
    BY <1>2, <2>1 DEF WritesSettled, CallUpdate, tables, chosen, Insert
  <2>2. CASE ~ \A i \in Insert : writes[i] = "ok"
    <3>1. Throw /\ UNCHANGED <<tables, history>>
      BY <1>2, <2>2, Zenon DEF WritesSettled
    <3> QED
      BY <3>1 DEF Throw, NewIteration, tables
  <2> QED
    BY <2>1, <2>2
<1>3. CASE InsertSummaryOnRetry
  BY <1>3 DEF InsertSummaryOnRetry, chosen, updVars, Insert, TableInv, TypeInv, TypeOK
<1>4. ASSUME NEW i \in Insert, InsertOk(i) PROVE CompleteInv'
  BY <1>4 DEF InsertOk, chosen, updVars, Insert, TableInv, TypeInv, TypeOK
<1>5. ASSUME NEW i \in Insert, InsertFails(i) PROVE CompleteInv'
  BY <1>5 DEF InsertFails, chosen, updVars, Insert, TableInv, TypeInv, TypeOK
<1>6. CASE GetOrInit
  BY <1>6 DEF GetOrInit, chosen
<1>7. CASE AlterUpdate
  BY <1>7 DEF AlterUpdate, chosen, updVars
<1>8. CASE AlterUpdateFails
  BY <1>8 DEF AlterUpdateFails, Throw, NewIteration
<1>9. CASE CalculateMetrics
  BY <1>9 DEF CalculateMetrics, CallUpdate, tables
<1>10. ASSUME NEW m \in Epoch \X Field, ApplyMutation(m) PROVE CompleteInv'
  BY <1>10 DEF ApplyMutation, chosen, updVars
<1>11. CASE /\ UNCHANGED <<flag, pending, fullRows, retried>>
            /\ \/ UNCHANGED <<pc, epoch, writes, field>>
               \/ pc' \notin Updating \cup {"write"}
  BY <1>11
<1> QED
  BY <1>1, <1>2, <1>3, <1>4, <1>5, <1>6, <1>7, <1>8, <1>9, <1>10, <1>11, OtherSteps

\* For every DB_MAX_RETRIES, an epoch recorded as stored, or about to be, has
\* the row of every validator or its summary insert was reported as done by
\* a retry: no other failure of writeSummary gets past checkAndWrite.
THEOREM StoredIsCompleteUnlessRetried == Spec => []CompleteUnlessRetried
<1>1. Init => CompleteInv
  BY DEF Init, InitCold, InitWarm, InitProcess, CompleteInv, CompleteUnlessRetried, Updating
<1>2. TableInv /\ CompleteInv /\ [Next]_vars => CompleteInv'
  BY CompleteStep
<1>3. CompleteInv => CompleteUnlessRetried
  BY DEF CompleteInv
<1> QED
  BY <1>1, <1>2, <1>3, TableInvariant, PTL DEF Spec
=============================================================================
