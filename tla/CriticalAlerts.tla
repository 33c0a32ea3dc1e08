--------------------------- MODULE CriticalAlerts ---------------------------
(***************************************************************************)
(* CriticalAlertsService and one of the alerts it sends: when the alert is *)
(* raised, when it is repeated, and what is remembered of it.  The other   *)
(* alerts of the same epoch matter to it only by an exception that ends    *)
(* the round before its turn (SendCaught).                                 *)
(*                                                                         *)
(* A reading of an operator is a fraction <<n, d>>: the affected or        *)
(* slashed validators over 1, or the missed proposals over all of them.    *)
(* <<0, 1>> is also the reading of an operator without a row.  Time is     *)
(* counted from the last alert and only as far as the rules look.          *)
(***************************************************************************)
EXTENDS Integers

CONSTANTS
  Operators,          \* node operators of the module
  Ongoing,            \* active_ongoing of each of them
  Module,             \* index of the module
  Configs,            \* configurations explored, see Threshold
  Readings,           \* readings of every kind of alert
  DefaultInterval,    \* 6 h
  IfIncreasedInterval \* 1 h

Kinds == {"attestations", "proposes", "negDelta", "slashing"}
Repeated == {"attestations", "negDelta"}
None == <<0, 1>>

ASSUME OngoingAssumption == Ongoing \in [Operators -> Nat]
ASSUME ReadingsAssumption ==
  /\ Readings \in [Kinds -> SUBSET (Nat \X (Nat \ {0}))]
  /\ \A k \in Kinds : None \in Readings[k]
ASSUME IntervalsAssumption ==
  /\ DefaultInterval \in Nat /\ IfIncreasedInterval \in Nat
  /\ IfIncreasedInterval < DefaultInterval

VARIABLES
  kind, config,  \* the alert and the thresholds, fixed
  pc,            \* "wait", "send" (send(epoch) is called), "done" (it came to its end)
  stats, prev,   \* readings of this epoch and, for slashings, of the epoch before
  since, sent,   \* sentAlerts: time since the entry was made, and its ruleResult
  (* history *)
  lastFired,     \* time since the last alert was posted
  told,          \* what it said
  delivered,     \* "yes" from the moment Alertmanager accepts an alert to the next tick
  reported,      \* slashings posted, by operator
  lost           \* slashings of epochs whose round did not come to its end

fixed   == <<kind, config>>
memory  == <<since, sent>>
history == <<lastFired, told, delivered, reported, lost>>
vars == <<fixed, pc, stats, prev, memory, history>>

\* No entry in sentAlerts is an entry of the year 1970: longer ago than any interval
Never == DefaultInterval + 1
Silent == [o \in Operators |-> None]

Init ==
  /\ kind \in Kinds
  /\ config \in Configs
  /\ pc = "wait"
  /\ stats = Silent /\ prev = Silent
  /\ since = Never /\ sent = Silent
  /\ lastFired = Never /\ told = Silent /\ delivered = "no"
  /\ reported = [o \in Operators |-> 0] /\ lost = [o \in Operators |-> 0]

(***************************************************************************)
(* Thresholds: CRITICAL_ALERTS_MIN_AFFECTED_VAL_COUNT (affected) and       *)
(* CRITICAL_ALERTS_MIN_ACTIVE_VAL_COUNT (active) by module, 0 being every  *)
(* module, and CRITICAL_ALERTS_MIN_VAL_COUNT (minVal).  Shares in percent. *)
(***************************************************************************)
Affected(count) == [rule |-> "affected", minActive |-> count, share |-> 0, count |-> count]
Active(r) == [rule |-> "active", minActive |-> r.minActive, share |-> r.share, count |-> r.count]
Default(c) == Active([minActive |-> c.minVal, share |-> 33, count |-> 1000])

Threshold(c) ==
  IF Module \in DOMAIN c.affected THEN Affected(c.affected[Module])
  ELSE IF Module \in DOMAIN c.active THEN Active(c.active[Module])
  ELSE IF 0 \in DOMAIN c.affected THEN Affected(c.affected[0])
  ELSE IF 0 \in DOMAIN c.active THEN Active(c.active[0])
  ELSE Default(c)

(***************************************************************************)
(* Rules                                                                   *)
(***************************************************************************)
Smaller(a, b) == IF a < b THEN a ELSE b

\* Affected validators of an operator: attestations and negative deltas
ManyAffected(o) ==
  LET t == Threshold(config) IN
  /\ stats[o][1] > 0
  /\ Ongoing[o] >= t.minActive
  /\ 100 * stats[o][1] >= IF t.rule = "affected" THEN 100 * t.count
                          ELSE Smaller(Ongoing[o] * t.share, 100 * t.count)

\* A third of the proposals
ManyMissed(o) ==
  /\ Ongoing[o] >= Threshold(config).minActive
  /\ 3 * stats[o][1] >= stats[o][2]

\* Mutant of NewlySlashed: this epoch is subtracted from the one before
SlashedSwapped(o) == prev[o][1] - stats[o][1]

\* Mutant of NewlySlashed: an operator without slashings in the epoch before is skipped
SlashedAgain(o) == IF prev[o][1] = 0 THEN 0 ELSE stats[o][1] - prev[o][1]

NewlySlashed(o) == stats[o][1] - prev[o][1]

RuleResult ==
  [o \in Operators |->
     CASE kind = "slashing" -> IF NewlySlashed(o) > 0 THEN <<NewlySlashed(o), 1>> ELSE None
       [] kind = "proposes" -> IF ManyMissed(o) THEN stats[o] ELSE None
       [] OTHER -> IF ManyAffected(o) THEN stats[o] ELSE None]

Raised == \E o \in Operators : RuleResult[o][1] > 0

Greater(x, y) == x[1] * y[2] > y[1] * x[2]

\* Mutant of Increased: an operator the last alert did not mention is not looked at
IncreasedAgain == \E o \in Operators : sent[o] # None /\ Greater(RuleResult[o], sent[o])

Increased == \E o \in Operators : Greater(RuleResult[o], sent[o])

\* Mutant of SendRule: a lasting condition is not repeated
OnlyIncreased ==
  Raised /\ CASE kind \in Repeated -> Increased /\ since > IfIncreasedInterval
              [] kind = "proposes" -> Increased /\ since > DefaultInterval
              [] OTHER -> TRUE

SendRule ==
  Raised /\ CASE kind \in Repeated -> \/ since > DefaultInterval
                                      \/ Increased /\ since > IfIncreasedInterval
              [] kind = "proposes" -> Increased /\ since > DefaultInterval
              [] OTHER -> TRUE

(***************************************************************************)
(* Steps                                                                   *)
(***************************************************************************)
Later(t) == Smaller(t + 1, Never)

Tick ==
  /\ since' = Later(since)
  /\ lastFired' = Later(lastFired)
  /\ delivered' = "no"
  /\ pc' = IF pc = "send" THEN "send" ELSE "wait"
  /\ UNCHANGED <<fixed, stats, prev, sent, told, reported, lost>>

\* The next epoch is calculated; a slashed validator stays slashed
NextEpoch ==
  /\ pc # "send"
  /\ pc' = "send"
  /\ prev' = IF kind = "slashing" THEN stats ELSE prev
  /\ stats' \in [Operators -> Readings[kind]]
  /\ kind = "slashing" => \A o \in Operators : stats[o][1] <= stats'[o][1]
  /\ UNCHANGED <<fixed, memory, history>>

Missed == [o \in Operators |-> lost[o] + NewlySlashed(o)]

\* Data older than an hour, no URL, a query that failed, an exception in an alert (an
\* operator that is not in the list of the registry) before the turn of this one
SendCaught ==
  /\ pc = "send"
  /\ pc' = "wait"
  /\ lost' = IF kind = "slashing" THEN Missed ELSE lost
  /\ UNCHANGED <<fixed, stats, prev, memory, lastFired, told, delivered, reported>>

\* fire does not await the request: the entry is made whether it is delivered or not
Fire(accepted) ==
  /\ pc = "send" /\ SendRule
  /\ pc' = "done"
  /\ since' = 0 /\ sent' = RuleResult
  /\ lastFired' = 0 /\ told' = RuleResult
  /\ delivered' = IF accepted THEN "yes" ELSE delivered
  /\ reported' = IF kind = "slashing" THEN [o \in Operators |-> reported[o] + RuleResult[o][1]]
                 ELSE reported
  /\ UNCHANGED <<fixed, stats, prev, lost>>

Hold ==
  /\ pc = "send" /\ ~SendRule
  /\ pc' = "done"
  /\ UNCHANGED <<fixed, stats, prev, memory, history>>

\* sentAlerts is forgotten, and with it the epoch whose alerts were being sent
Crash ==
  /\ pc' = "wait"
  /\ since' = Never /\ sent' = Silent
  /\ lost' = IF kind = "slashing" /\ pc = "send" THEN Missed ELSE lost
  /\ UNCHANGED <<fixed, stats, prev, lastFired, told, delivered, reported>>

Next ==
  \/ Tick
  \/ NextEpoch
  \/ SendCaught
  \/ \E accepted \in BOOLEAN : Fire(accepted)
  \/ Hold
  \/ Crash

(***************************************************************************)
(* Fairness: epochs go on and time passes, rounds do not fail for ever,    *)
(* and Alertmanager does not refuse for ever.                              *)
(***************************************************************************)
Fairness ==
  /\ WF_vars(NextEpoch) /\ WF_vars(Tick) /\ SF_vars(Hold) /\ SF_vars(Fire(TRUE))

Spec == Init /\ [][Next]_vars
FairSpec == Spec /\ Fairness

(***************************************************************************)
(* Properties                                                              *)
(***************************************************************************)
Reading == Nat \X (Nat \ {0})
Times == 0 .. Never

\* Every variable keeps its type.
TypeOK ==
  /\ kind \in Kinds /\ config \in Configs /\ pc \in {"wait", "send", "done"}
  /\ stats \in [Operators -> Readings[kind]] /\ prev \in [Operators -> Readings[kind]]
  /\ sent \in [Operators -> Reading] /\ told \in [Operators -> Reading]
  /\ since \in Times /\ lastFired \in Times /\ delivered \in {"yes", "no"}
  /\ reported \in [Operators -> Nat] /\ lost \in [Operators -> Nat]

\* When a round comes to its end and an operator has too many validators with missed
\* attestations or a negative delta, an alert was posted at most 6 hours ago, whatever
\* was sent, forgotten in a crash or skipped before.
LastingIsRepeated ==
  pc = "done" /\ kind \in Repeated /\ Raised => lastFired <= DefaultInterval

\* When a round comes to its end and an operator is worse than the last alert said, that
\* alert is at most an hour old (6 hours for missed proposals).
IncreaseIsReported ==
  pc = "done" /\ kind # "slashing" /\ (\E o \in Operators : Greater(RuleResult[o], told[o])) =>
    lastFired <= IF kind = "proposes" THEN DefaultInterval ELSE IfIncreasedInterval

\* Every slashing is posted in exactly one alert, except those of epochs whose round did not
\* come to its end: these are never posted.
SlashingPostedOnce ==
  kind = "slashing" =>
    \A o \in Operators : reported[o] + lost[o] = (IF pc = "send" THEN prev[o] ELSE stats[o])[1]

\* A condition that lasts is delivered again and again, although a post that failed is
\* taken for sent and suppresses the next ones.
DeliveredAgain ==
  (kind \in Repeated /\ <>[]Raised) => []<>(delivered = "yes")

=============================================================================
