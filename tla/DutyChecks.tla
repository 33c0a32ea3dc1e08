----------------------------- MODULE DutyChecks -----------------------------
(***************************************************************************)
(* What DutyService.checkAll makes of an epoch: five checks that run       *)
(* concurrently and write to one summary in memory, then the metadata of   *)
(* the epoch, the rewards and the write to the database.  Any of them may  *)
(* fail; the loop then processes the epoch again.                          *)
(*                                                                         *)
(* The attestation check is modelled in full: committees of the epoch and  *)
(* of the one before it, then every attestation the blocks of both epochs  *)
(* include, in order.  Of the other checks only what adds up (withdrawals, *)
(* seats in the sync committee) is kept.                                   *)
(***************************************************************************)
EXTENDS Integers

CONSTANTS
  Validators,
  Slashed,        \* validators that are slashed
  Fresh,          \* validators that are active only from Epoch on
  Epoch,          \* the epoch that is processed
  SlotsPerEpoch,  \* FETCH_INTERVAL_SLOTS
  DutySlot,       \* the slot of an epoch a validator attests in, from 0
  SourceLimit,    \* 5: highest timely inclusion delay of the source vote
  TargetLimit,    \* 32: the same for the target vote, before Deneb
  Deneb,          \* the epoch of the Deneb fork
  Withdrawals,    \* what the blocks of Epoch withdraw from a validator
  SyncSeats,      \* seats of a validator in the sync committee
  NumAtts         \* bound: attestations on the chain

ASSUME ValidatorsAssumption == Slashed \subseteq Validators /\ Fresh \subseteq Validators
ASSUME EpochAssumption == Epoch \in Nat \ {0} /\ Deneb \in Nat
ASSUME SlotsPerEpochAssumption == SlotsPerEpoch \in Nat \ {0}
ASSUME DutySlotAssumption == DutySlot \in [Validators -> 0 .. SlotsPerEpoch - 1]
ASSUME LimitsAssumption == SourceLimit \in Nat /\ TargetLimit \in Nat
ASSUME AmountsAssumption == Withdrawals \in [Validators -> Nat] /\ SyncSeats \in [Validators -> Nat]
ASSUME NumAttsAssumption == NumAtts \in Nat \ {0}

VARIABLES
  atts,       \* the attestations of the chain, in the order of its blocks
  pc,         \* where checkAndWrite is
  running,    \* how many promises of a check are under way
  outcome,    \* whether a check of this iteration failed: "ok" or "error"
  loaded,     \* epochs whose committees are in the summary
  done,       \* attestations processed
  happened, delay, flags,  \* att_happened, att_inc_delay, att_valid_*: by epoch and validator
  credits,    \* blocks_attestations: who is credited to which attestation
  withdrawn,  \* val_balance_withdrawn
  synced,     \* length of sync_meta
  slashed,    \* rows with val_slashed
  participation, \* of each flag; the validators whose increments are added up
  earned      \* flags att_earned_reward pays for

votes == <<happened, delay, flags>>
totals == <<withdrawn, synced, slashed>>
results == <<participation, earned>>
summary == <<votes, credits, totals, results>>
vars == <<atts, pc, running, outcome, loaded, done, summary>>

Task == {"state", "attestation", "sync", "propose", "withdrawals"}
Flag == {"source", "target", "head"}
Epochs == {Epoch - 1, Epoch}
LastSlot == Epoch * SlotsPerEpoch + SlotsPerEpoch - 1

(***************************************************************************)
(* Attestations.  agrees says how far a vote agrees with the chain: 0 its  *)
(* source is wrong, 1 only its source is right, 2 its target too, 3 all.   *)
(***************************************************************************)
EpochOf(s) == s \div SlotsPerEpoch

Committee(s) ==
  {v \in Validators : DutySlot[v] = s % SlotsPerEpoch /\ (EpochOf(s) < Epoch => v \notin Fresh)}

\* What a block of the chain may include.
Att ==
  {a \in [slot : 0 .. LastSlot, block : 0 .. LastSlot, voters : SUBSET Validators, agrees : 0 .. 3] :
     /\ a.slot < a.block /\ EpochOf(a.block) <= EpochOf(a.slot) + 1
     /\ a.voters \subseteq Committee(a.slot) /\ a.voters # {}}

AttDelay(a) == a.block - a.slot

\* getAttestationFlags
Flags(a) ==
  {f \in Flag :
     \/ f = "source" /\ a.agrees >= 1 /\ AttDelay(a) <= SourceLimit
     \/ f = "target" /\ a.agrees >= 2 /\ (EpochOf(a.block) >= Deneb \/ AttDelay(a) <= TargetLimit)
     \/ f = "head" /\ a.agrees = 3 /\ AttDelay(a) = 1}

TypeOK ==
  /\ atts \in [1 .. NumAtts -> Att]
  /\ pc \in {"idle", "checking", "metadata", "rewards", "writing", "caught"}
  /\ running \in [Task -> 0 .. 1] /\ outcome \in {"ok", "error"}
  /\ loaded \subseteq Epochs /\ done \in 0 .. NumAtts
  /\ happened \in [Epochs -> [Validators -> {"undefined", "no", "yes"}]]
  /\ delay \in [Epochs -> [Validators -> Nat]]
  /\ flags \in [Epochs -> [Validators -> SUBSET Flag]]
  /\ credits \subseteq [att : 1 .. NumAtts, val : Validators, flag : Flag]
  /\ withdrawn \in [Validators -> Nat] /\ synced \in [Validators -> Nat]
  /\ slashed \subseteq Validators
  /\ participation \in [Flag -> SUBSET Validators]
  /\ earned \in [Validators -> SUBSET Flag]

\* An empty summary: rows have no attestation data, and nothing is added up.
Clear ==
  /\ happened' = [e \in Epochs |-> [v \in Validators |-> "undefined"]]
  /\ delay' = [e \in Epochs |-> [v \in Validators |-> 0]]
  /\ flags' = [e \in Epochs |-> [v \in Validators |-> {}]]
  /\ credits' = {}
  /\ withdrawn' = [v \in Validators |-> 0] /\ synced' = [v \in Validators |-> 0]
  /\ slashed' = {}
  /\ participation' = [f \in Flag |-> {}]
  /\ earned' = [v \in Validators |-> {}]

Init ==
  /\ atts \in [1 .. NumAtts -> Att]
  /\ \A i, j \in 1 .. NumAtts : i < j => atts[i].block <= atts[j].block
  /\ pc = "idle"
  /\ running = [t \in Task |-> 0] /\ outcome = "ok"
  /\ loaded = {} /\ done = 0
  /\ happened = [e \in Epochs |-> [v \in Validators |-> "undefined"]]
  /\ delay = [e \in Epochs |-> [v \in Validators |-> 0]]
  /\ flags = [e \in Epochs |-> [v \in Validators |-> {}]]
  /\ credits = {}
  /\ withdrawn = [v \in Validators |-> 0] /\ synced = [v \in Validators |-> 0]
  /\ slashed = {}
  /\ participation = [f \in Flag |-> {}]
  /\ earned = [v \in Validators |-> {}]

(***************************************************************************)
(* The start of checkAll.                                                  *)
(***************************************************************************)
\* Mutant of CheckAll: the summary is not cleared.
CheckAllUncleared ==
  /\ pc = "idle"
  /\ pc' = "checking"
  /\ running' = [t \in Task |-> running[t] + 1] /\ outcome' = "ok"
  /\ loaded' = {} /\ done' = 0
  /\ UNCHANGED <<atts, summary>>

CheckAll ==
  /\ pc = "idle"
  /\ pc' = "checking"
  /\ running' = [t \in Task |-> running[t] + 1] /\ outcome' = "ok"
  /\ loaded' = {} /\ done' = 0
  /\ Clear
  /\ UNCHANGED atts

Settle(t) == running' = [running EXCEPT ![t] = @ - 1]

(***************************************************************************)
(* AttestationService.check                                                *)
(***************************************************************************)
\* getAttestationCommittees: "validator doesn't attests by default".
LoadCommittees(e) ==
  /\ running["attestation"] > 0 /\ e \notin loaded
  /\ loaded' = loaded \cup {e}
  /\ happened' = [happened EXCEPT ![e] =
       [v \in Validators |-> IF e = Epoch \/ v \notin Fresh THEN "no" ELSE @[v]]]
  /\ UNCHANGED <<atts, pc, running, outcome, done, delay, flags, credits, totals, results>>

\* Mutant of Fetched: only the blocks of the epoch are read.
FetchedThisEpoch(a) == a.block >= Epoch * SlotsPerEpoch

\* getProcessedAttestations reads the blocks of the epoch and the one before;
\* attestations of older slots "have been processed in previous cycles".
Fetched(a) == a.block >= (Epoch - 1) * SlotsPerEpoch

Older(a) == a.slot <= (Epoch - 1) * SlotsPerEpoch - 1

\* Mutant of NewCredits: votes that were credited before are credited again.
NewCreditsAlways(i) ==
  {c \in [att : {i}, val : atts[i].voters, flag : Flags(atts[i])] : TRUE}

\* A voter is credited to this attestation for each flag it did not have.
NewCredits(i) ==
  {c \in [att : {i}, val : atts[i].voters, flag : Flags(atts[i])] :
     c.flag \notin flags[EpochOf(atts[i].slot)][c.val]}

\* Mutant of Record: the last delay is kept.
RecordLastDelay(i) ==
  LET a == atts[i]
      votesHere(e, v) == e = EpochOf(a.slot) /\ v \in a.voters
  IN /\ happened' = [e \in Epochs |-> [v \in Validators |->
                       IF votesHere(e, v) THEN "yes" ELSE happened[e][v]]]
     /\ delay' = [e \in Epochs |-> [v \in Validators |->
                    IF votesHere(e, v) THEN AttDelay(a) ELSE delay[e][v]]]
     /\ flags' = [e \in Epochs |-> [v \in Validators |->
                    IF votesHere(e, v) THEN flags[e][v] \cup Flags(a) ELSE flags[e][v]]]
     /\ credits' = credits \cup NewCredits(i)

\* processAttestationCommittee, in the row of the epoch the vote is for: flags are added up, the first delay is kept.
Record(i) ==
  LET a == atts[i]
      votesHere(e, v) == e = EpochOf(a.slot) /\ v \in a.voters
  IN /\ happened' = [e \in Epochs |-> [v \in Validators |->
                       IF votesHere(e, v) THEN "yes" ELSE happened[e][v]]]
     /\ delay' = [e \in Epochs |-> [v \in Validators |->
                    IF votesHere(e, v) /\ delay[e][v] = 0 THEN AttDelay(a) ELSE delay[e][v]]]
     /\ flags' = [e \in Epochs |-> [v \in Validators |->
                    IF votesHere(e, v) THEN flags[e][v] \cup Flags(a) ELSE flags[e][v]]]
     /\ credits' = credits \cup NewCredits(i)

ProcessAttestation ==
  /\ running["attestation"] > 0 /\ loaded = Epochs /\ done < NumAtts
  /\ IF Fetched(atts[done + 1]) /\ ~Older(atts[done + 1])
     THEN Record(done + 1)
     ELSE UNCHANGED <<votes, credits>>
  /\ done' = done + 1
  /\ UNCHANGED <<atts, pc, running, outcome, loaded, totals, results>>

AttestationCheckEnds ==
  /\ running["attestation"] > 0 /\ loaded = Epochs /\ done = NumAtts
  /\ Settle("attestation")
  /\ UNCHANGED <<atts, pc, outcome, loaded, done, summary>>

(***************************************************************************)
(* The other checks.                                                       *)
(***************************************************************************)
\* StateService.check
StateCheck ==
  /\ running["state"] > 0
  /\ slashed' = Slashed
  /\ Settle("state")
  /\ UNCHANGED <<atts, pc, outcome, loaded, done, votes, credits, withdrawn, synced, results>>

\* SyncService.check: one entry of sync_meta for each seat.
SyncCheck ==
  /\ running["sync"] > 0
  /\ synced' = [v \in Validators |-> synced[v] + SyncSeats[v]]
  /\ Settle("sync")
  /\ UNCHANGED <<atts, pc, outcome, loaded, done, votes, credits, withdrawn, slashed, results>>

\* ProposeService.check: its fields are read by no other check.
ProposeCheck ==
  /\ running["propose"] > 0
  /\ Settle("propose")
  /\ UNCHANGED <<atts, pc, outcome, loaded, done, summary>>

\* WithdrawalsService.check
WithdrawalsCheck ==
  /\ running["withdrawals"] > 0
  /\ withdrawn' = [v \in Validators |-> withdrawn[v] + Withdrawals[v]]
  /\ Settle("withdrawals")
  /\ UNCHANGED <<atts, pc, outcome, loaded, done, votes, credits, synced, slashed, results>>

\* A request of a check fails; what it wrote so far stays.
CheckFails(t) ==
  /\ running[t] > 0
  /\ outcome' = "error"
  /\ Settle(t)
  /\ UNCHANGED <<atts, pc, loaded, done, summary>>

(***************************************************************************)
(* The rest of checkAll and checkAndWrite.                                 *)
(***************************************************************************)
\* Mutant of AllSettled: Promise.all.
AllSettledAtFirstError ==
  /\ pc = "checking"
  /\ \/ outcome = "error" /\ pc' = "caught"
     \/ outcome = "ok" /\ (\A t \in Task : running[t] = 0) /\ pc' = "metadata"
  /\ UNCHANGED <<atts, running, outcome, loaded, done, summary>>

\* allSettled waits for every check and then throws if one failed.
AllSettled ==
  /\ pc = "checking"
  /\ \A t \in Task : running[t] = 0
  /\ pc' = IF outcome = "ok" THEN "metadata" ELSE "caught"
  /\ UNCHANGED <<atts, running, outcome, loaded, done, summary>>

\* Mutant of FillMetadata: slashed validators are counted too.
FillMetadataSlashed ==
  /\ pc = "metadata"
  /\ participation' = [f \in Flag |->
       {v \in Validators : happened[Epoch - 1][v] = "yes" /\ f \in flags[Epoch - 1][v]}]
  /\ pc' = "rewards"
  /\ UNCHANGED <<atts, running, outcome, loaded, done, votes, credits, totals, earned>>

\* fillCurrentEpochMetadata: participation by the votes of the epoch before;
\* blocks_rewards follows from credits.
FillMetadata ==
  /\ pc = "metadata"
  /\ participation' = [f \in Flag |->
       {v \in Validators \ slashed : happened[Epoch - 1][v] = "yes" /\ f \in flags[Epoch - 1][v]}]
  /\ pc' = "rewards"
  /\ UNCHANGED <<atts, running, outcome, loaded, done, votes, credits, totals, earned>>

\* AttestationRewards.calculate.  The row of the epoch before loses its
\* attestation data when the validator is slashed, and is saved to the row of
\* this epoch; SummaryService.set merges and leaves alone what is undefined.
CalculateRewards ==
  LET has(v) == happened[Epoch - 1][v] # "undefined"
      kept(v) == has(v) /\ v \notin slashed
      voted(v) == kept(v) /\ delay[Epoch - 1][v] # 0
      wiped(e, v) == e = Epoch - 1 /\ has(v) /\ v \in slashed
      moved(e, v) == e = Epoch /\ voted(v)
  IN /\ pc = "rewards"
     /\ earned' = [v \in Validators |-> IF kept(v) THEN flags[Epoch - 1][v] ELSE {}]
     /\ happened' = [e \in Epochs |-> [v \in Validators |->
          IF wiped(e, v) THEN "undefined"
          ELSE IF e = Epoch /\ kept(v) THEN happened[Epoch - 1][v] ELSE happened[e][v]]]
     /\ delay' = [e \in Epochs |-> [v \in Validators |->
          IF wiped(e, v) THEN 0 ELSE IF moved(e, v) THEN delay[Epoch - 1][v] ELSE delay[e][v]]]
     /\ flags' = [e \in Epochs |-> [v \in Validators |->
          IF wiped(e, v) THEN {} ELSE IF moved(e, v) THEN flags[Epoch - 1][v] ELSE flags[e][v]]]
     /\ pc' = "writing"
     /\ UNCHANGED <<atts, running, outcome, loaded, done, credits, totals, participation>>

\* writeEpochMeta and writeSummary, then the summary is cleared.
Write ==
  /\ pc = "writing"
  /\ pc' = "idle"
  /\ Clear
  /\ UNCHANGED <<atts, running, outcome, loaded, done>>

WriteFails ==
  /\ pc = "writing"
  /\ pc' = "caught"
  /\ UNCHANGED <<atts, running, outcome, loaded, done, summary>>

\* The catch of startLoop; the epoch is processed again.
Caught ==
  /\ pc = "caught"
  /\ pc' = "idle"
  /\ UNCHANGED <<atts, running, outcome, loaded, done, summary>>

Next ==
  \/ CheckAll
  \/ \E e \in Epochs : LoadCommittees(e)
  \/ ProcessAttestation \/ AttestationCheckEnds
  \/ StateCheck \/ SyncCheck \/ ProposeCheck \/ WithdrawalsCheck
  \/ \E t \in Task : CheckFails(t)
  \/ AllSettled \/ FillMetadata \/ CalculateRewards
  \/ Write \/ WriteFails \/ Caught

Spec == Init /\ [][Next]_vars

(***************************************************************************)
(* What the chain says, independently of any window of blocks.             *)
(***************************************************************************)
\* The attestations that include the vote of v in epoch e.
Included(e, v) == {i \in 1 .. NumAtts : EpochOf(atts[i].slot) = e /\ v \in atts[i].voters}

\* The flags v earned in epoch e.
ChainFlags(e, v) == UNION {Flags(atts[i]) : i \in Included(e, v)}

IsFirst(i, S) == i \in S /\ \A j \in S : i <= j

\* Row e, v of the summary tells the vote as it is on the chain.
TellsVote(e, r, v) ==
  IF Included(e, v) = {}
  THEN happened[r][v] = "no"
  ELSE /\ happened[r][v] = "yes"
       /\ flags[r][v] = ChainFlags(e, v)
       /\ \A i \in Included(e, v) : IsFirst(i, Included(e, v)) => delay[r][v] = AttDelay(atts[i])

(***************************************************************************)
(* Properties.                                                             *)
(***************************************************************************)

\* When the checks succeeded, the summary tells the votes of both epochs as they
\* are on the chain: a vote included several times has its first delay and the
\* flags of all inclusions, and one that is not included is a missed one,
\* whatever the other checks wrote meanwhile and whatever failed before.
VotesAsOnChain ==
  pc = "metadata" =>
    \A e \in Epochs, v \in Validators : (e = Epoch \/ v \notin Fresh) => TellsVote(e, e, v)

\* Each flag of a vote is credited once, to the first attestation of the chain
\* that brings it, whichever aggregates with the same voters follow: the
\* rewards of the blocks' proposers are made of these credits.
CreditedToTheFirst ==
  pc = "metadata" =>
    credits = {c \in [att : 1 .. NumAtts, val : Validators, flag : Flag] :
      \E e \in Epochs :
        IsFirst(c.att, {i \in Included(e, c.val) : c.flag \in Flags(atts[i])})}

\* Participation counts the unslashed validators that have the flag on the
\* chain for the epoch before.
ParticipationAsOnChain ==
  pc \in {"rewards", "writing"} =>
    \A f \in Flag :
      participation[f] = {v \in Validators \ (Slashed \cup Fresh) : f \in ChainFlags(Epoch - 1, v)}

\* The row that is written rewards the vote of the epoch before, as it is on
\* the chain, and tells that vote when there was one.
RowTellsPreviousVote ==
  pc = "writing" =>
    \A v \in Validators :
      /\ earned[v] = IF v \in Slashed \cup Fresh THEN {} ELSE ChainFlags(Epoch - 1, v)
      /\ v \notin Slashed \cup Fresh /\ Included(Epoch - 1, v) # {} => TellsVote(Epoch - 1, Epoch, v)

\* What is added up over blocks or seats is complete when it is written and
\* never counted twice, although failed iterations added to it before.
CountedOnce ==
  /\ pc = "writing" => withdrawn = Withdrawals /\ synced = SyncSeats
  /\ \A v \in Validators : withdrawn[v] <= Withdrawals[v] /\ synced[v] <= SyncSeats[v]

(***************************************************************************)
(* What a comment says and the code does not do.                           *)
(***************************************************************************)

\* "And set their attestation data to undefined, because there is no sense to
\* consider attestation from slashed validator".
SlashedHasNoVote ==
  pc = "writing" => \A v \in Slashed : happened[Epoch][v] = "undefined"
=============================================================================
