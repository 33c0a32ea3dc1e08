------------------------ MODULE CriticalAlertsProofs ------------------------
(***************************************************************************)
(* The safety properties of CriticalAlerts for every set of operators,     *)
(* every reading and threshold and every pair of intervals.                *)
(*                                                                         *)
(* The argument: what the service remembers of the last alert is what the  *)
(* alert said, or nothing at all; and nothing is an alert of long ago.  A  *)
(* forgotten alert can make the next one too early, never too late.        *)
(***************************************************************************)
EXTENDS CriticalAlerts, TLAPS

\* The entry of sentAlerts is not younger than the last alert, and tells it or is not there.
MemoryInv ==
  /\ lastFired <= since
  /\ sent = told \/ (sent = Silent /\ since = Never)

\* A validator stays slashed.
SlashedStay ==
  kind = "slashing" => \A o \in Operators : prev[o][1] <= stats[o][1]

IInv == /\ TypeOK
        /\ MemoryInv
        /\ SlashedStay
        /\ SlashingPostedOnce
        /\ LastingIsRepeated
        /\ IncreaseIsReported

\* The parts of a reading are numbers, and there is a reading that says nothing.
LEMMA ReadingParts ==
  /\ \A x \in Reading : x[1] \in Nat /\ x[2] \in Nat /\ x[2] # 0
  /\ None \in Reading /\ None[1] = 0 /\ None[2] = 1
BY DEF Reading, None

\* A count of slashings is a reading.
LEMMA CountIsReading ==
  ASSUME NEW n \in Nat
  PROVE  <<n, 1>> \in Reading /\ <<n, 1>>[1] = n
BY DEF Reading

\* Readings of the epoch are readings.
LEMMA StatsAreReadings ==
  ASSUME TypeOK
  PROVE  \A o \in Operators : stats[o] \in Reading /\ prev[o] \in Reading
<1>1. Readings[kind] \subseteq Reading
  BY ReadingsAssumption DEF TypeOK, Reading
<1> QED
  BY <1>1 DEF TypeOK

\* What the rules say is a reading; of slashings, the new ones.
LEMMA RuleResultIsReading ==
  ASSUME TypeOK
  PROVE  /\ RuleResult \in [Operators -> Reading]
         /\ kind = "slashing" => \A o \in Operators :
              RuleResult[o][1] = IF NewlySlashed(o) > 0 THEN NewlySlashed(o) ELSE 0
<1> SUFFICES ASSUME NEW o \in Operators
             PROVE  /\ RuleResult[o] \in Reading
                    /\ kind = "slashing" => RuleResult[o][1] = IF NewlySlashed(o) > 0 THEN NewlySlashed(o) ELSE 0
  BY DEF RuleResult
<1>1. stats[o] \in Reading /\ prev[o] \in Reading
  BY StatsAreReadings
<1>2. stats[o][1] \in Nat /\ prev[o][1] \in Nat
  BY <1>1, ReadingParts
<1>3. CASE kind = "slashing"
  <2>1. NewlySlashed(o) \in Int
    BY <1>2 DEF NewlySlashed
  <2>2. RuleResult[o] = IF NewlySlashed(o) > 0 THEN <<NewlySlashed(o), 1>> ELSE None
    BY <1>3 DEF RuleResult
  <2>3. CASE NewlySlashed(o) > 0
    <3>1. NewlySlashed(o) \in Nat
      BY <2>1, <2>3
    <3> QED
      BY <2>2, <2>3, <3>1, CountIsReading
  <2>4. CASE ~(NewlySlashed(o) > 0)
    BY <2>2, <2>4, ReadingParts
  <2> QED
    BY <2>3, <2>4
<1>4. CASE kind = "proposes"
  <2>1. RuleResult[o] = IF ManyMissed(o) THEN stats[o] ELSE None
    BY <1>4 DEF RuleResult
  <2> QED
    BY <2>1, <1>1, <1>4, ReadingParts
<1>5. CASE kind # "slashing" /\ kind # "proposes"
  <2>1. RuleResult[o] = IF ManyAffected(o) THEN stats[o] ELSE None
    BY <1>5 DEF RuleResult
  <2> QED
    BY <2>1, <1>1, <1>5, ReadingParts
<1> QED
  BY <1>3, <1>4, <1>5

\* The longest time is longer than both intervals.
LEMMA Intervals ==
  /\ Never \in Nat /\ DefaultInterval \in Nat /\ IfIncreasedInterval \in Nat
  /\ Never > DefaultInterval /\ DefaultInterval > IfIncreasedInterval
BY IntervalsAssumption DEF Never

\* Only a reading above zero is greater than another one, and it is greater than nothing.
LEMMA GreaterIsPositive ==
  ASSUME NEW x \in Reading, NEW y \in Reading, Greater(x, y)
  PROVE  x[1] > 0 /\ Greater(x, None)
<1>1. x[1] \in Nat /\ x[2] \in Nat /\ y[1] \in Nat /\ y[2] \in Nat /\ None[1] = 0 /\ None[2] = 1
  BY ReadingParts
<1>2. y[1] * x[2] >= 0
  BY <1>1
<1>3. x[1] * y[2] > 0
  BY <1>1, <1>2 DEF Greater
<1>4. x[1] # 0
  BY <1>1, <1>3
<1>5. x[1] > 0
  BY <1>1, <1>4
<1>6. x[1] * None[2] = x[1] /\ None[1] * x[2] = 0
  BY <1>1
<1> QED
  BY <1>5, <1>6 DEF Greater

\* The initial states satisfy the invariant.
LEMMA InitInv == Init => IInv
<1> SUFFICES ASSUME Init PROVE IInv
  OBVIOUS
<1>1. None \in Readings[kind] /\ kind \in Kinds
  BY ReadingsAssumption DEF Init
<1>2. Silent \in [Operators -> Readings[kind]] /\ Silent \in [Operators -> Reading]
  BY <1>1, ReadingParts DEF Silent
<1>3. TypeOK
  BY <1>1, <1>2, Intervals DEF Init, TypeOK, Times
<1>4. MemoryInv
  BY Intervals DEF Init, MemoryInv
<1>5. SlashedStay /\ SlashingPostedOnce
  <2>1. \A o \in Operators : stats[o] = None /\ prev[o] = None
    BY DEF Init, Silent
  <2> QED
    BY <2>1, ReadingParts DEF Init, SlashedStay, SlashingPostedOnce
<1>6. LastingIsRepeated /\ IncreaseIsReported
  BY DEF Init, LastingIsRepeated, IncreaseIsReported
<1> QED
  BY <1>3, <1>4, <1>5, <1>6 DEF IInv

\* Later counts up to the longest time.
LEMMA LaterIsTime ==
  ASSUME NEW t \in Times
  PROVE  Later(t) \in Times /\ \A u \in Times : u <= t => Later(u) <= Later(t)
BY Intervals DEF Later, Smaller, Times

\* A round that is lost adds the slashings of its epoch.
LEMMA MissedIsCount ==
  ASSUME TypeOK, SlashedStay, kind = "slashing"
  PROVE  /\ Missed \in [Operators -> Nat]
         /\ \A o \in Operators : Missed[o] = lost[o] + (stats[o][1] - prev[o][1])
<1>1. \A o \in Operators : stats[o][1] \in Nat /\ prev[o][1] \in Nat /\ prev[o][1] <= stats[o][1] /\ lost[o] \in Nat
  BY StatsAreReadings, ReadingParts DEF TypeOK, SlashedStay
<1> QED
  BY <1>1 DEF Missed, NewlySlashed

\* Every step keeps the types, the memory and the slashings apart from those of Fire and Hold,
\* which look at the rules.
LEMMA QuietStep ==
  ASSUME IInv, Tick \/ NextEpoch \/ SendCaught \/ Crash \/ UNCHANGED vars
  PROVE  IInv'
<1> USE DEF fixed, memory, history
<1>t. TypeOK /\ MemoryInv /\ SlashedStay /\ SlashingPostedOnce
  BY DEF IInv
<1>n. \A o \in Operators : /\ stats[o][1] \in Nat /\ prev[o][1] \in Nat
                           /\ reported[o] \in Nat /\ lost[o] \in Nat
  BY <1>t, StatsAreReadings, ReadingParts DEF TypeOK
<1>s. Silent \in [Operators -> Reading]
  BY ReadingParts DEF Silent
<1>1. CASE Tick
  <2>1. TypeOK'
    BY <1>1, <1>t, LaterIsTime DEF Tick, TypeOK
  <2>2. MemoryInv'
    <3>1. Later(lastFired) <= Later(since)
      BY <1>t, LaterIsTime DEF TypeOK, MemoryInv
    <3>2. since = Never => Later(since) = Never
      BY Intervals DEF Later, Smaller
    <3> QED
      BY <1>1, <1>t, <3>1, <3>2 DEF Tick, MemoryInv
  <2>3. SlashedStay' /\ SlashingPostedOnce'
    <3>1. (pc' = "send") <=> (pc = "send")
      BY <1>1 DEF Tick
    <3> QED
      BY <1>1, <1>t, <3>1 DEF Tick, SlashedStay, SlashingPostedOnce
  <2>4. LastingIsRepeated' /\ IncreaseIsReported'
    BY <1>1 DEF Tick, LastingIsRepeated, IncreaseIsReported
  <2> QED
    BY <2>1, <2>2, <2>3, <2>4 DEF IInv
<1>2. CASE NextEpoch
  <2>1. TypeOK'
    BY <1>2, <1>t DEF NextEpoch, TypeOK
  <2>2. MemoryInv'
    BY <1>2, <1>t DEF NextEpoch, MemoryInv
  <2>3. SlashedStay' /\ SlashingPostedOnce'
    BY <1>2, <1>t DEF NextEpoch, SlashedStay, SlashingPostedOnce
  <2>4. LastingIsRepeated' /\ IncreaseIsReported'
    BY <1>2 DEF NextEpoch, LastingIsRepeated, IncreaseIsReported
  <2> QED
    BY <2>1, <2>2, <2>3, <2>4 DEF IInv
<1>3. CASE SendCaught
  <2>1. TypeOK'
    BY <1>3, <1>t, MissedIsCount DEF SendCaught, TypeOK
  <2>2. MemoryInv'
    BY <1>3, <1>t DEF SendCaught, MemoryInv
  <2>3. SlashedStay'
    BY <1>3, <1>t DEF SendCaught, SlashedStay
  <2>4. SlashingPostedOnce'
    <3> SUFFICES ASSUME kind = "slashing", NEW o \in Operators
                 PROVE  reported[o] + Missed[o] = stats[o][1]
      BY <1>3 DEF SendCaught, SlashingPostedOnce
    <3>1. reported[o] + lost[o] = prev[o][1]
      BY <1>3, <1>t DEF SendCaught, SlashingPostedOnce
    <3>2. Missed[o] = lost[o] + (stats[o][1] - prev[o][1])
      BY <1>t, MissedIsCount
    <3> QED
      BY <3>1, <3>2, <1>n
  <2>5. LastingIsRepeated' /\ IncreaseIsReported'
    BY <1>3 DEF SendCaught, LastingIsRepeated, IncreaseIsReported
  <2> QED
    BY <2>1, <2>2, <2>3, <2>4, <2>5 DEF IInv
<1>4. CASE Crash
  <2>1. TypeOK'
    BY <1>4, <1>t, <1>s, MissedIsCount, Intervals DEF Crash, TypeOK, Times
  <2>2. MemoryInv'
    <3>1. lastFired <= Never
      BY <1>t, Intervals DEF TypeOK, Times
    <3> QED
      BY <1>4, <3>1 DEF Crash, MemoryInv, Silent
  <2>3. SlashedStay'
    BY <1>4, <1>t DEF Crash, SlashedStay
  <2>4. SlashingPostedOnce'
    <3>1. CASE pc = "send" /\ kind = "slashing"
      <4> SUFFICES ASSUME NEW o \in Operators
                   PROVE  reported[o] + Missed[o] = stats[o][1]
        BY <1>4, <3>1 DEF Crash, SlashingPostedOnce
      <4>1. reported[o] + lost[o] = prev[o][1]
        BY <3>1, <1>t DEF SlashingPostedOnce
      <4>2. Missed[o] = lost[o] + (stats[o][1] - prev[o][1])
        BY <3>1, <1>t, MissedIsCount
      <4> QED
        BY <4>1, <4>2, <1>n
    <3>2. CASE ~(pc = "send" /\ kind = "slashing")
      BY <1>4, <3>2, <1>t DEF Crash, SlashingPostedOnce
    <3> QED
      BY <3>1, <3>2
  <2>5. LastingIsRepeated' /\ IncreaseIsReported'
    BY <1>4 DEF Crash, LastingIsRepeated, IncreaseIsReported
  <2> QED
    BY <2>1, <2>2, <2>3, <2>4, <2>5 DEF IInv
<1>5. CASE UNCHANGED vars
  <2>1. RuleResult' = RuleResult /\ Raised' = Raised
    BY <1>5 DEF vars, RuleResult, Raised, NewlySlashed, ManyMissed, ManyAffected
  <2>2. LastingIsRepeated' /\ IncreaseIsReported'
    BY <1>5, <2>1 DEF vars, IInv, LastingIsRepeated, IncreaseIsReported
  <2> QED
    BY <1>5, <2>2, <1>t DEF vars, IInv, TypeOK, MemoryInv, SlashedStay, SlashingPostedOnce
<1> QED
  BY <1>1, <1>2, <1>3, <1>4, <1>5

\* An alert is posted: what is remembered is what it says.
LEMMA FireStep ==
  ASSUME IInv, NEW accepted \in BOOLEAN, Fire(accepted)
  PROVE  IInv'
<1> USE DEF fixed, memory, history
<1>t. TypeOK /\ MemoryInv /\ SlashedStay /\ SlashingPostedOnce
  BY DEF IInv
<1>r. RuleResult \in [Operators -> Reading]
  BY <1>t, RuleResultIsReading
<1>n. \A o \in Operators : /\ stats[o][1] \in Nat /\ prev[o][1] \in Nat
                           /\ reported[o] \in Nat /\ lost[o] \in Nat /\ RuleResult[o][1] \in Nat
  BY <1>t, <1>r, StatsAreReadings, ReadingParts DEF TypeOK
<1>1. TypeOK'
  <2>1. reported' \in [Operators -> Nat]
    BY <1>t, <1>n DEF Fire, TypeOK
  <2>2. 0 \in Times
    BY Intervals DEF Times
  <2>3. delivered' \in {"yes", "no"}
    BY <1>t DEF Fire, TypeOK
  <2> QED
    BY <1>t, <1>r, <2>1, <2>2, <2>3 DEF Fire, TypeOK
<1>2. MemoryInv'
  BY DEF Fire, MemoryInv
<1>3. SlashedStay'
  BY <1>t DEF Fire, SlashedStay
<1>4. SlashingPostedOnce'
  <2> SUFFICES ASSUME kind = "slashing", NEW o \in Operators
               PROVE  (reported[o] + RuleResult[o][1]) + lost[o] = stats[o][1]
    BY DEF Fire, SlashingPostedOnce
  <2>1. reported[o] + lost[o] = prev[o][1]
    BY <1>t DEF Fire, SlashingPostedOnce
  <2>2. prev[o][1] <= stats[o][1]
    BY <1>t DEF SlashedStay
  <2>3. RuleResult[o][1] = IF stats[o][1] - prev[o][1] > 0 THEN stats[o][1] - prev[o][1] ELSE 0
    BY <1>t, RuleResultIsReading DEF NewlySlashed
  <2> QED
    BY <2>1, <2>2, <2>3, <1>n
<1>5. LastingIsRepeated' /\ IncreaseIsReported'
  BY Intervals DEF Fire, LastingIsRepeated, IncreaseIsReported
<1> QED
  BY <1>1, <1>2, <1>3, <1>4, <1>5 DEF IInv

\* The rule of each kind of alert.
LEMMA SendRuleByKind ==
  /\ kind \in Repeated =>
       (SendRule <=> Raised /\ (since > DefaultInterval \/ (Increased /\ since > IfIncreasedInterval)))
  /\ kind = "proposes" => (SendRule <=> Raised /\ Increased /\ since > DefaultInterval)
<1>1. CASE kind \in Repeated
  <2>1. kind # "proposes"
    BY <1>1 DEF Repeated
  <2> QED
    BY <1>1, <2>1 DEF SendRule
<1>2. CASE kind = "proposes"
  <2>1. kind \notin Repeated
    BY <1>2 DEF Repeated
  <2> QED
    BY <1>2, <2>1 DEF SendRule
<1> QED
  BY <1>1, <1>2

\* No alert is posted: nothing is raised, or the last alert is young enough.
LEMMA HoldStep ==
  ASSUME IInv, Hold
  PROVE  IInv'
<1> USE DEF fixed, memory, history
<1>t. TypeOK /\ MemoryInv /\ SlashedStay /\ SlashingPostedOnce
  BY DEF IInv
<1>u. /\ UNCHANGED <<kind, config, stats, prev, since, sent, lastFired, told, delivered, reported, lost>>
      /\ pc = "send" /\ pc' = "done" /\ ~SendRule
  BY DEF Hold
<1>w. RuleResult' = RuleResult /\ Raised' = Raised
  BY <1>u DEF RuleResult, Raised, NewlySlashed, ManyMissed, ManyAffected
<1>r. RuleResult \in [Operators -> Reading]
  BY <1>t, RuleResultIsReading
<1>z. since \in Nat /\ lastFired \in Nat
  BY <1>t, Intervals DEF TypeOK, Times
<1>m. lastFired <= since
  BY <1>t DEF MemoryInv
<1>1. TypeOK' /\ MemoryInv' /\ SlashedStay'
  BY <1>t, <1>u DEF TypeOK, MemoryInv, SlashedStay
<1>2. SlashingPostedOnce'
  <2> SUFFICES ASSUME kind = "slashing", NEW o \in Operators
               PROVE  reported[o] + lost[o] = stats[o][1]
    BY <1>u DEF SlashingPostedOnce
  <2>1. reported[o] + lost[o] = prev[o][1] /\ prev[o][1] <= stats[o][1]
    BY <1>t, <1>u DEF SlashingPostedOnce, SlashedStay
  <2>2. stats[o][1] \in Nat /\ prev[o][1] \in Nat
    BY <1>t, StatsAreReadings, ReadingParts
  <2>3. ~Raised
    BY <1>u DEF SendRule, Repeated
  <2>4. RuleResult[o][1] = IF stats[o][1] - prev[o][1] > 0 THEN stats[o][1] - prev[o][1] ELSE 0
    BY <1>t, RuleResultIsReading DEF NewlySlashed
  <2>5. ~(stats[o][1] - prev[o][1] > 0)
    BY <2>2, <2>3, <2>4 DEF Raised
  <2> QED
    BY <2>1, <2>2, <2>5
<1>3. LastingIsRepeated'
  <2> SUFFICES ASSUME kind \in Repeated, Raised
               PROVE  lastFired <= DefaultInterval
    BY <1>u, <1>w DEF LastingIsRepeated
  <2>1. ~(since > DefaultInterval)
    <3>1. since > DefaultInterval => SendRule
      BY SendRuleByKind
    <3> QED
      BY <3>1, <1>u
  <2> QED
    BY <2>1, <1>m, <1>z, Intervals
<1>4. IncreaseIsReported'
  <2> SUFFICES ASSUME kind # "slashing", NEW o \in Operators, Greater(RuleResult[o], told[o])
               PROVE  lastFired <= IF kind = "proposes" THEN DefaultInterval ELSE IfIncreasedInterval
    BY <1>u, <1>w DEF IncreaseIsReported, Greater
  <2>1. RuleResult[o] \in Reading /\ told[o] \in Reading
    BY <1>r, <1>t DEF TypeOK
  <2>2. RuleResult[o][1] > 0 /\ Greater(RuleResult[o], None)
    BY <2>1, GreaterIsPositive
  <2>3. Raised
    BY <2>2 DEF Raised
  <2>4. Increased
    <3>1. CASE sent = told
      BY <3>1 DEF Increased
    <3>2. CASE sent = Silent
      <4>1. sent[o] = None
        BY <3>2 DEF Silent
      <4> QED
        BY <4>1, <2>2 DEF Increased
    <3> QED
      BY <3>1, <3>2, <1>t DEF MemoryInv
  <2>5. kind \in Repeated \/ kind = "proposes"
    BY <1>t DEF TypeOK, Kinds, Repeated
  <2>6. CASE kind = "proposes"
    <3>1. ~(since > DefaultInterval)
      BY <2>3, <2>4, <2>6, <1>u, SendRuleByKind
    <3> QED
      BY <3>1, <2>6, <1>m, <1>z, Intervals
  <2>7. CASE kind \in Repeated
    <3>1. ~(since > IfIncreasedInterval)
      BY <2>3, <2>4, <2>7, <1>u, SendRuleByKind
    <3>2. kind # "proposes"
      BY <2>7 DEF Repeated
    <3> QED
      BY <3>1, <3>2, <1>m, <1>z, Intervals
  <2> QED
    BY <2>5, <2>6, <2>7
<1> QED
  BY <1>1, <1>2, <1>3, <1>4 DEF IInv

\* The invariant holds in every state: each step of send, time and a restart keeps it.
THEOREM InvariantHolds == Spec => []IInv
<1>1. Init => IInv
  BY InitInv
<1>2. IInv /\ [Next]_vars => IInv'
  <2> SUFFICES ASSUME IInv, [Next]_vars PROVE IInv'
    OBVIOUS
  <2>1. CASE Tick \/ NextEpoch \/ SendCaught \/ Crash \/ UNCHANGED vars
    BY <2>1, QuietStep
  <2>2. CASE \E accepted \in BOOLEAN : Fire(accepted)
    BY <2>2, FireStep
  <2>3. CASE Hold
    BY <2>3, HoldStep
  <2> QED
    BY <2>1, <2>2, <2>3 DEF Next
<1> QED
  BY <1>1, <1>2, PTL DEF Spec

\* Type correctness of the alerts, for all operators, readings and thresholds.
THEOREM AlertsTypeCorrect == Spec => []TypeOK
<1>1. IInv => TypeOK
  BY DEF IInv
<1> QED
  BY <1>1, InvariantHolds, PTL

\* A lasting condition is posted again within the default interval, whatever sendRule remembers.
THEOREM LastingAlertsAreRepeated == Spec => []LastingIsRepeated
<1>1. IInv => LastingIsRepeated
  BY DEF IInv
<1> QED
  BY <1>1, InvariantHolds, PTL

\* Growth since the last alert is posted within the interval sendRule has for it.
THEOREM IncreasesAreReported == Spec => []IncreaseIsReported
<1>1. IInv => IncreaseIsReported
  BY DEF IInv
<1> QED
  BY <1>1, InvariantHolds, PTL

\* CriticalSlashing posts every slashing once, except those of rounds that were lost.
THEOREM SlashingsArePostedOnce == Spec => []SlashingPostedOnce
<1>1. IInv => SlashingPostedOnce
  BY DEF IInv
<1> QED
  BY <1>1, InvariantHolds, PTL

=============================================================================
