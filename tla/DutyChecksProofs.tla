-------------------------- MODULE DutyChecksProofs --------------------------
(***************************************************************************)
(* Proofs about DutyChecks, for every chain of attestations, every set of  *)
(* validators and every order in which the checks progress and fail.       *)
(***************************************************************************)
EXTENDS DutyChecks, TLAPS

(***************************************************************************)
(* Arithmetic of slots and epochs.                                         *)
(***************************************************************************)

\* Division by the length of an epoch, as the code's Math.floor: a slot lies
\* between the first slot of its epoch and the first slot of the next one.
LEMMA EpochBounds ==
  ASSUME NEW s \in Nat
  PROVE  /\ EpochOf(s) \in Nat
         /\ EpochOf(s) * SlotsPerEpoch <= s
         /\ s < EpochOf(s) * SlotsPerEpoch + SlotsPerEpoch
  BY SlotsPerEpochAssumption DEF EpochOf

\* A product grows with its factor.
LEMMA ProductGrows ==
  ASSUME NEW m \in Nat, NEW n \in Nat, NEW k \in Nat, m < n
  PROVE  m * k + k <= n * k
  <1>1. PICK d \in Nat : n = m + 1 + d
    <2>1. n - m - 1 \in Nat /\ n = m + 1 + (n - m - 1)
      OBVIOUS
    <2>2. QED
      BY <2>1
  <1>2. n * k = m * k + k + d * k
    BY <1>1
  <1>3. d * k \in Nat
    BY <1>1
  <1>4. QED
    BY <1>2, <1>3

\* The attestations that getProcessedAttestations reads and check does not skip
\* are those of the two epochs of the summary.
LEMMA KeptAreOfTheEpochs ==
  ASSUME NEW a \in Att
  PROVE  /\ (Fetched(a) /\ ~Older(a)) <=> EpochOf(a.slot) \in Epochs
         /\ a.slot \in Nat /\ a.block \in Nat /\ a.voters \subseteq Committee(a.slot)
         /\ AttDelay(a) \in Nat \ {0}
  <1>1. a.slot \in Nat /\ a.block \in Nat /\ a.slot < a.block /\ a.slot <= LastSlot
        /\ a.voters \subseteq Committee(a.slot)
    BY EpochAssumption, SlotsPerEpochAssumption DEF Att, LastSlot
  <1> DEFINE e == EpochOf(a.slot)
  <1>2. e \in Nat /\ e * SlotsPerEpoch <= a.slot /\ a.slot < e * SlotsPerEpoch + SlotsPerEpoch
    BY <1>1, EpochBounds
  <1>3. e <= Epoch
    <2>1. SUFFICES ASSUME Epoch < e PROVE FALSE
      BY <1>2, EpochAssumption
    <2>2. Epoch * SlotsPerEpoch + SlotsPerEpoch <= e * SlotsPerEpoch
      BY <1>2, <2>1, ProductGrows, EpochAssumption, SlotsPerEpochAssumption
    <2>3. Epoch * SlotsPerEpoch \in Nat /\ e * SlotsPerEpoch \in Nat
      BY <1>2, EpochAssumption, SlotsPerEpochAssumption
    <2>4. QED
      BY <1>1, <1>2, <2>2, <2>3, SlotsPerEpochAssumption DEF LastSlot
  <1> DEFINE f == (Epoch - 1) * SlotsPerEpoch
  <1>4. f \in Nat /\ Epoch - 1 \in Nat
    BY EpochAssumption, SlotsPerEpochAssumption
  <1>5. a.slot >= f <=> e >= Epoch - 1
    <2>1. ASSUME e < Epoch - 1 PROVE a.slot < f
      BY <1>1, <1>2, <1>4, <2>1, ProductGrows, SlotsPerEpochAssumption
    <2>2. ASSUME e >= Epoch - 1 PROVE a.slot >= f
      <3>1. CASE e = Epoch - 1
        BY <1>1, <1>2, <3>1
      <3>2. CASE e > Epoch - 1
        <4>1. f + SlotsPerEpoch <= e * SlotsPerEpoch
          BY <1>2, <1>4, <3>2, ProductGrows, SlotsPerEpochAssumption
        <4>2. e * SlotsPerEpoch \in Nat
          BY <1>2, SlotsPerEpochAssumption
        <4>3. QED
          BY <1>1, <1>2, <1>4, <4>1, <4>2, SlotsPerEpochAssumption
      <3>3. QED
        BY <1>2, <1>4, <2>2, <3>1, <3>2
    <2>3. QED
      BY <1>1, <1>2, <1>4, <2>1, <2>2
  <1>6. (Fetched(a) /\ ~Older(a)) <=> a.slot >= f
    BY <1>1, <1>4 DEF Fetched, Older
  <1>7. (Fetched(a) /\ ~Older(a)) <=> e \in Epochs
    BY <1>2, <1>3, <1>5, <1>6, EpochAssumption DEF Epochs
  <1>8. AttDelay(a) \in Nat \ {0}
    BY <1>1 DEF AttDelay
  <1>9. QED
    BY <1>1, <1>7, <1>8

(***************************************************************************)
(* Types.  A check runs only between CheckAll and AllSettled: the next     *)
(* iteration finds none left over.                                         *)
(***************************************************************************)
SettledInv == pc # "checking" => \A t \in Task : running[t] = 0

TypeInv == TypeOK /\ SettledInv

\* At the first start nothing runs and the summary is empty.
LEMMA TypeInit == Init => TypeInv
  <1> SUFFICES ASSUME Init PROVE TypeInv
    OBVIOUS
  <1>1. SettledInv
    BY DEF Init, SettledInv
  <1>2. TypeOK
    BY NumAttsAssumption DEF Init, TypeOK
  <1>3. QED
    BY <1>1, <1>2 DEF TypeInv

\* SummaryService.clear leaves a well-formed summary.
LEMMA TypeClear ==
  ASSUME Clear
  PROVE  /\ happened' \in [Epochs -> [Validators -> {"undefined", "no", "yes"}]]
         /\ delay' \in [Epochs -> [Validators -> Nat]]
         /\ flags' \in [Epochs -> [Validators -> SUBSET Flag]]
         /\ credits' \subseteq [att : 1 .. NumAtts, val : Validators, flag : Flag]
         /\ withdrawn' \in [Validators -> Nat] /\ synced' \in [Validators -> Nat]
         /\ slashed' \subseteq Validators
         /\ participation' \in [Flag -> SUBSET Validators]
         /\ earned' \in [Validators -> SUBSET Flag]
  BY DEF Clear

\* Flags only holds flags.
LEMMA FlagsType == \A a : Flags(a) \subseteq Flag
  BY DEF Flags

\* processAttestationCommittee keeps the rows well-formed.
LEMMA TypeRecord ==
  ASSUME TypeOK, NEW i \in 1 .. NumAtts, Record(i)
  PROVE  /\ happened' \in [Epochs -> [Validators -> {"undefined", "no", "yes"}]]
         /\ delay' \in [Epochs -> [Validators -> Nat]]
         /\ flags' \in [Epochs -> [Validators -> SUBSET Flag]]
         /\ credits' \subseteq [att : 1 .. NumAtts, val : Validators, flag : Flag]
  <1>1. atts[i] \in Att /\ AttDelay(atts[i]) \in Nat /\ Flags(atts[i]) \subseteq Flag
    BY KeptAreOfTheEpochs, FlagsType DEF TypeOK
  <1>2. happened' \in [Epochs -> [Validators -> {"undefined", "no", "yes"}]]
    BY DEF TypeOK, Record
  <1>3. delay' \in [Epochs -> [Validators -> Nat]]
    BY <1>1 DEF TypeOK, Record
  <1>4. flags' \in [Epochs -> [Validators -> SUBSET Flag]]
    <2> SUFFICES ASSUME NEW e \in Epochs, NEW v \in Validators
                 PROVE  (IF e = EpochOf(atts[i].slot) /\ v \in atts[i].voters
                         THEN flags[e][v] \cup Flags(atts[i]) ELSE flags[e][v]) \in SUBSET Flag
      BY DEF Record
    <2>1. QED
      BY <1>1 DEF TypeOK
  <1>5. atts[i].voters \subseteq Validators
    BY <1>1 DEF Att
  <1>6. NewCredits(i) \subseteq [att : 1 .. NumAtts, val : Validators, flag : Flag]
    BY <1>1, <1>5 DEF NewCredits
  <1>7. QED
    BY <1>2, <1>3, <1>4, <1>6 DEF TypeOK, Record

\* Types are kept, and only checkAll starts a check.
LEMMA TypeStep == TypeInv /\ [Next]_vars => TypeInv'
  <1> SUFFICES ASSUME TypeInv, [Next]_vars PROVE TypeInv'
    OBVIOUS
  <1> USE DEF TypeInv
  <1>0. TypeOK /\ SettledInv
    OBVIOUS
  <1>1. CASE CheckAll
    <2>1. running' = [t \in Task |-> 1]
      BY <1>1 DEF CheckAll, SettledInv, TypeOK
    <2>2. SettledInv'
      BY <1>1 DEF CheckAll, SettledInv
    <2>3. Clear
      BY <1>1 DEF CheckAll
    <2>4. QED
      BY <1>1, <2>1, <2>2, <2>3, TypeClear, NumAttsAssumption DEF CheckAll, TypeOK
  <1>2. ASSUME NEW e \in Epochs, LoadCommittees(e) PROVE TypeInv'
    <2>1. happened' \in [Epochs -> [Validators -> {"undefined", "no", "yes"}]]
      BY <1>2 DEF LoadCommittees, TypeOK
    <2>2. QED
      BY <1>2, <2>1 DEF LoadCommittees, TypeOK, SettledInv, totals, results
  <1>3. CASE ProcessAttestation
    <2>1. done + 1 \in 1 .. NumAtts /\ done' \in 0 .. NumAtts
      BY <1>3, NumAttsAssumption DEF ProcessAttestation, TypeOK
    <2>2. CASE Record(done + 1)
      BY <1>3, <2>1, <2>2, TypeRecord DEF ProcessAttestation, TypeOK, SettledInv, totals, results
    <2>3. CASE UNCHANGED <<votes, credits>>
      BY <1>3, <2>1, <2>3 DEF ProcessAttestation, TypeOK, SettledInv, totals, results, votes
    <2>4. QED
      BY <1>3, <2>2, <2>3 DEF ProcessAttestation
  <1>4. ASSUME NEW t \in Task, Settle(t), running[t] > 0 PROVE running' \in [Task -> 0 .. 1]
    BY <1>4 DEF Settle, TypeOK
  <1>5. ASSUME NEW t \in Task, running[t] > 0 PROVE pc = "checking"
    BY <1>5 DEF SettledInv
  <1>6. CASE AttestationCheckEnds
    <2>1. "attestation" \in Task
      BY DEF Task
    <2>2. running' \in [Task -> 0 .. 1] /\ pc = "checking"
      BY <1>4, <1>5, <1>6, <2>1 DEF AttestationCheckEnds
    <2>3. QED
      BY <1>6, <2>2 DEF AttestationCheckEnds, TypeOK, SettledInv, summary, votes, totals, results
  <1>7. CASE StateCheck
    <2>1. "state" \in Task
      BY DEF Task
    <2>2. running' \in [Task -> 0 .. 1] /\ pc = "checking"
      BY <1>4, <1>5, <1>7, <2>1 DEF StateCheck
    <2>3. QED
      BY <1>7, <2>2, ValidatorsAssumption DEF StateCheck, TypeOK, SettledInv, votes, results
  <1>8. CASE SyncCheck
    <2>1. "sync" \in Task
      BY DEF Task
    <2>2. running' \in [Task -> 0 .. 1] /\ pc = "checking"
      BY <1>4, <1>5, <1>8, <2>1 DEF SyncCheck
    <2>3. synced' \in [Validators -> Nat]
      BY <1>8, AmountsAssumption DEF SyncCheck, TypeOK
    <2>4. QED
      BY <1>8, <2>2, <2>3 DEF SyncCheck, TypeOK, SettledInv, votes, results
  <1>9. CASE ProposeCheck
    <2>1. "propose" \in Task
      BY DEF Task
    <2>2. running' \in [Task -> 0 .. 1] /\ pc = "checking"
      BY <1>4, <1>5, <1>9, <2>1 DEF ProposeCheck
    <2>3. QED
      BY <1>9, <2>2 DEF ProposeCheck, TypeOK, SettledInv, summary, votes, totals, results
  <1>10. CASE WithdrawalsCheck
    <2>1. "withdrawals" \in Task
      BY DEF Task
    <2>2. running' \in [Task -> 0 .. 1] /\ pc = "checking"
      BY <1>4, <1>5, <1>10, <2>1 DEF WithdrawalsCheck
    <2>3. withdrawn' \in [Validators -> Nat]
      BY <1>10, AmountsAssumption DEF WithdrawalsCheck, TypeOK
    <2>4. QED
      BY <1>10, <2>2, <2>3 DEF WithdrawalsCheck, TypeOK, SettledInv, votes, results
  <1>11. ASSUME NEW t \in Task, CheckFails(t) PROVE TypeInv'
    <2>1. running' \in [Task -> 0 .. 1] /\ pc = "checking"
      BY <1>4, <1>5, <1>11 DEF CheckFails
    <2>2. QED
      BY <1>11, <2>1 DEF CheckFails, TypeOK, SettledInv, summary, votes, totals, results
  <1>12. CASE AllSettled
    BY <1>12 DEF AllSettled, TypeOK, SettledInv, summary, votes, totals, results
  <1>13. CASE FillMetadata
    <2>1. participation' \in [Flag -> SUBSET Validators]
      BY <1>13 DEF FillMetadata
    <2>2. QED
      BY <1>13, <2>1 DEF FillMetadata, TypeOK, SettledInv, votes, totals
  <1>14. CASE CalculateRewards
    <2>1. Epoch \in Epochs /\ Epoch - 1 \in Epochs
      BY DEF Epochs
    <2>2. earned' \in [Validators -> SUBSET Flag]
      BY <1>14, <2>1 DEF CalculateRewards, TypeOK
    <2>3. happened' \in [Epochs -> [Validators -> {"undefined", "no", "yes"}]]
      BY <1>14, <2>1 DEF CalculateRewards, TypeOK
    <2>4. delay' \in [Epochs -> [Validators -> Nat]]
      BY <1>14, <2>1 DEF CalculateRewards, TypeOK
    <2>5. flags' \in [Epochs -> [Validators -> SUBSET Flag]]
      BY <1>14, <2>1 DEF CalculateRewards, TypeOK
    <2>6. QED
      BY <1>14, <2>2, <2>3, <2>4, <2>5 DEF CalculateRewards, TypeOK, SettledInv, totals
  <1>15. CASE Write
    <2>1. Clear
      BY <1>15 DEF Write
    <2>2. QED
      BY <1>15, <2>1, TypeClear DEF Write, TypeOK, SettledInv
  <1>16. CASE WriteFails
    BY <1>16 DEF WriteFails, TypeOK, SettledInv, summary, votes, totals, results
  <1>17. CASE Caught
    BY <1>17 DEF Caught, TypeOK, SettledInv, summary, votes, totals, results
  <1>18. CASE UNCHANGED vars
    BY <1>18 DEF vars, TypeOK, SettledInv, summary, votes, totals, results
  <1>19. QED
    BY <1>1, <1>2, <1>3, <1>6, <1>7, <1>8, <1>9, <1>10, <1>11, <1>12, <1>13, <1>14, <1>15,
       <1>16, <1>17, <1>18 DEF Next

\* Every variable stays in its type; in particular no check of a failed
\* iteration is under way when the next one starts, because allSettled waits.
THEOREM ChecksTypeCorrect == Spec => []TypeOK
  <1>1. Spec => []TypeInv
    BY TypeInit, TypeStep, PTL DEF Spec
  <1>2. TypeInv => TypeOK
    BY DEF TypeInv
  <1>3. QED
    BY <1>1, <1>2, PTL

(***************************************************************************)
(* What is added up.  While a check has not settled its sums are zero;     *)
(* when it has settled without an error they are complete.                 *)
(***************************************************************************)
Zero == [v \in Validators |-> 0]
Past == {"metadata", "rewards", "writing"}

SumInv ==
  /\ withdrawn \in {Zero, Withdrawals} /\ synced \in {Zero, SyncSeats}
  /\ running["withdrawals"] = 1 => withdrawn = Zero
  /\ running["sync"] = 1 => synced = Zero
  /\ pc \in Past => outcome = "ok"
  /\ pc \in Past \cup {"checking"} /\ outcome = "ok" =>
       /\ running["withdrawals"] = 0 => withdrawn = Withdrawals
       /\ running["sync"] = 0 => synced = SyncSeats
       /\ running["state"] = 0 => slashed = Slashed
       /\ running["attestation"] = 0 => loaded = Epochs /\ done = NumAtts

\* At the first start nothing is added up.
LEMMA SumInit == Init => SumInv
  BY DEF Init, SumInv, Zero, Task, Past

\* Every check is one of the five; distinct checks are counted apart.
LEMMA SettleOthers ==
  ASSUME TypeOK, NEW t \in Task, Settle(t), running[t] > 0
  PROVE  /\ running[t] = 1 /\ running'[t] = 0
         /\ \A u \in Task \ {t} : running'[u] = running[u]
  BY DEF TypeOK, Settle

\* Every step keeps what is known of the sums.
LEMMA SumStep == TypeInv /\ SumInv /\ [Next]_vars => SumInv'
  <1> SUFFICES ASSUME TypeOK, SettledInv, SumInv, [Next]_vars PROVE SumInv'
    BY DEF TypeInv
  <1>0. {"state", "attestation", "sync", "propose", "withdrawals"} = Task
    BY DEF Task
  <1>a. \A t \in Task : running[t] \in 0 .. 1
    BY DEF TypeOK
  <1>1. CASE CheckAll
    <2>1. \A t \in Task : running'[t] = 1
      BY <1>1 DEF CheckAll, SettledInv, TypeOK
    <2>2. withdrawn' = Zero /\ synced' = Zero /\ pc' = "checking"
      BY <1>1 DEF CheckAll, Clear, Zero
    <2>3. QED
      BY <1>0, <2>1, <2>2 DEF SumInv, Past
  <1>2. ASSUME NEW e \in Epochs, LoadCommittees(e) PROVE SumInv'
    <2>1. running["attestation"] # 0
      BY <1>2, <1>0, <1>a DEF LoadCommittees
    <2>2. QED
      BY <1>2, <2>1 DEF LoadCommittees, SumInv, totals
  <1>3. CASE ProcessAttestation
    <2>1. running["attestation"] # 0
      BY <1>3, <1>0, <1>a DEF ProcessAttestation
    <2>2. QED
      BY <1>3, <2>1 DEF ProcessAttestation, SumInv, totals
  <1>4. CASE AttestationCheckEnds
    <2>1. \A u \in Task \ {"attestation"} : running'[u] = running[u]
      BY <1>0, <1>4, SettleOthers DEF AttestationCheckEnds
    <2>2. QED
      BY <1>0, <1>4, <2>1 DEF AttestationCheckEnds, SumInv, summary, totals
  <1>5. CASE StateCheck
    <2>1. \A u \in Task \ {"state"} : running'[u] = running[u]
      BY <1>0, <1>5, SettleOthers DEF StateCheck
    <2>2. QED
      BY <1>0, <1>5, <2>1 DEF StateCheck, SumInv
  <1>6. CASE SyncCheck
    <2>1. running["sync"] = 1 /\ running'["sync"] = 0
          /\ \A u \in Task \ {"sync"} : running'[u] = running[u]
      BY <1>0, <1>6, SettleOthers DEF SyncCheck
    <2>2. synced' = SyncSeats
      BY <1>6, <2>1, AmountsAssumption DEF SyncCheck, SumInv, Zero
    <2>3. QED
      BY <1>0, <1>6, <2>1, <2>2 DEF SyncCheck, SumInv
  <1>7. CASE ProposeCheck
    <2>1. \A u \in Task \ {"propose"} : running'[u] = running[u]
      BY <1>0, <1>7, SettleOthers DEF ProposeCheck
    <2>2. QED
      BY <1>0, <1>7, <2>1 DEF ProposeCheck, SumInv, summary, totals
  <1>8. CASE WithdrawalsCheck
    <2>1. running["withdrawals"] = 1 /\ running'["withdrawals"] = 0
          /\ \A u \in Task \ {"withdrawals"} : running'[u] = running[u]
      BY <1>0, <1>8, SettleOthers DEF WithdrawalsCheck
    <2>2. withdrawn' = Withdrawals
      BY <1>8, <2>1, AmountsAssumption DEF WithdrawalsCheck, SumInv, Zero
    <2>3. QED
      BY <1>0, <1>8, <2>1, <2>2 DEF WithdrawalsCheck, SumInv
  <1>9. ASSUME NEW t \in Task, CheckFails(t) PROVE SumInv'
    <2>1. running'[t] = 0 /\ \A u \in Task \ {t} : running'[u] = running[u]
      BY <1>9, SettleOthers DEF CheckFails
    <2>2. \A u \in Task : running'[u] = 1 => running[u] = 1
      BY <2>1
    <2>3. pc = "checking"
      BY <1>9, <1>a DEF CheckFails, SettledInv
    <2>4. QED
      BY <1>0, <1>9, <2>2, <2>3 DEF CheckFails, SumInv, Past, summary, totals
  <1>10. CASE AllSettled
    BY <1>0, <1>10 DEF AllSettled, SumInv, Past, summary, totals
  <1>11. CASE FillMetadata
    BY <1>11 DEF FillMetadata, SumInv, Past, totals
  <1>12. CASE CalculateRewards
    BY <1>12 DEF CalculateRewards, SumInv, Past, totals
  <1>13. CASE Write
    <2>1. \A t \in Task : running'[t] = 0
      BY <1>13 DEF Write, SettledInv
    <2>2. withdrawn' = Zero /\ synced' = Zero /\ pc' = "idle"
      BY <1>13 DEF Write, Clear, Zero
    <2>3. QED
      BY <1>0, <2>1, <2>2 DEF SumInv, Past
  <1>14. CASE WriteFails
    BY <1>14 DEF WriteFails, SumInv, Past, summary, totals
  <1>15. CASE Caught
    BY <1>15 DEF Caught, SumInv, Past, summary, totals
  <1>16. CASE UNCHANGED vars
    BY <1>16 DEF vars, SumInv, summary, totals
  <1>17. QED
    BY <1>1, <1>2, <1>3, <1>4, <1>5, <1>6, <1>7, <1>8, <1>9, <1>10, <1>11, <1>12, <1>13, <1>14,
       <1>15, <1>16 DEF Next

\* withdrawn and synced are complete when the row is written and never exceed what the
\* chain says, however many iterations failed before.
THEOREM SumsCountedOnce == Spec => []CountedOnce
  <1>1. Spec => [](TypeInv /\ SumInv)
    BY TypeInit, TypeStep, SumInit, SumStep, PTL DEF Spec
  <1>2. TypeInv /\ SumInv => CountedOnce
    <2> SUFFICES ASSUME TypeOK, SettledInv, SumInv PROVE CountedOnce
      BY DEF TypeInv
    <2>1. pc = "writing" => withdrawn = Withdrawals /\ synced = SyncSeats
      BY DEF SettledInv, SumInv, Past, Task
    <2>2. \A v \in Validators : withdrawn[v] <= Withdrawals[v] /\ synced[v] <= SyncSeats[v]
      <3> SUFFICES ASSUME NEW v \in Validators
                   PROVE  withdrawn[v] <= Withdrawals[v] /\ synced[v] <= SyncSeats[v]
        OBVIOUS
      <3>1. Withdrawals[v] \in Nat /\ SyncSeats[v] \in Nat /\ Zero[v] = 0
        BY AmountsAssumption DEF Zero
      <3>2. withdrawn = Zero \/ withdrawn = Withdrawals
        BY DEF SumInv
      <3>3. synced = Zero \/ synced = SyncSeats
        BY DEF SumInv
      <3>4. withdrawn[v] <= Withdrawals[v]
        BY <3>1, <3>2
      <3>5. synced[v] <= SyncSeats[v]
        BY <3>1, <3>3
      <3>6. QED
        BY <3>4, <3>5
    <2>3. QED
      BY <2>1, <2>2 DEF CountedOnce
  <1>3. QED
    BY <1>1, <1>2, PTL

(***************************************************************************)
(* Votes.  While the attestation check is under way, and after it ended    *)
(* well until the rewards are calculated, the rows tell exactly what the   *)
(* attestations processed so far say.                                      *)
(***************************************************************************)
Upto(n, e, v) == {i \in 1 .. n : EpochOf(atts[i].slot) = e /\ v \in atts[i].voters}

Live ==
  /\ pc \in {"checking", "metadata", "rewards"}
  /\ running["attestation"] = 1 \/ outcome = "ok"

\* Attestations are processed only when the committees of both epochs are there.
LoadedInv == done > 0 => loaded = Epochs

HappenedInv ==
  \A e \in Epochs, v \in Validators :
    happened[e][v] = IF Upto(done, e, v) # {} THEN "yes"
                     ELSE IF e \in loaded /\ (e = Epoch \/ v \notin Fresh) THEN "no" ELSE "undefined"

FlagsInv ==
  \A e \in Epochs, v \in Validators, f \in Flag :
    f \in flags[e][v] <=> \E i \in Upto(done, e, v) : f \in Flags(atts[i])

DelayInv ==
  \A e \in Epochs, v \in Validators :
    /\ delay[e][v] = 0 <=> Upto(done, e, v) = {}
    /\ \A i \in Upto(done, e, v) : IsFirst(i, Upto(done, e, v)) => delay[e][v] = AttDelay(atts[i])

\* The attestations up to n that bring flag f to the vote of v in epoch e.
Bringing(n, e, v, f) == {i \in Upto(n, e, v) : f \in Flags(atts[i])}

CreditInv ==
  credits = {c \in [att : 1 .. NumAtts, val : Validators, flag : Flag] :
               \E e \in Epochs : IsFirst(c.att, Bringing(done, e, c.val, c.flag))}

VoteInv == Live => LoadedInv /\ HappenedInv /\ FlagsInv /\ DelayInv /\ CreditInv

\* At the first start no check is under way.
LEMMA VoteInit == Init => VoteInv
  BY DEF Init, VoteInv, Live

\* A cleared summary tells of no attestation.
LEMMA VoteClear ==
  ASSUME Clear, done' = 0, loaded' = {}, UNCHANGED atts
  PROVE  VoteInv'
  <1>1. \A e, v : Upto(0, e, v)' = {}
    BY DEF Upto
  <1>2. \A e, v : Upto(done, e, v)' = {}
    BY DEF Upto
  <1>3. LoadedInv'
    BY DEF LoadedInv
  <1>4. HappenedInv'
    BY <1>2 DEF HappenedInv, Clear
  <1>5. FlagsInv'
    BY <1>2 DEF FlagsInv, Clear
  <1>6. DelayInv'
    BY <1>2 DEF DelayInv, Clear
  <1>7. CreditInv'
    BY <1>2 DEF CreditInv, Clear, Bringing, IsFirst
  <1>8. QED
    BY <1>3, <1>4, <1>5, <1>6, <1>7 DEF VoteInv

\* One more attestation adds itself, if the vote is in it.
LEMMA UptoNext ==
  ASSUME NEW n \in Nat, NEW e, NEW v
  PROVE  /\ Upto(n + 1, e, v) = IF EpochOf(atts[n + 1].slot) = e /\ v \in atts[n + 1].voters
                                THEN Upto(n, e, v) \cup {n + 1} ELSE Upto(n, e, v)
         /\ \A i \in Upto(n, e, v) : i \in Nat /\ i <= n
  BY DEF Upto

\* processAttestation for an attestation of the two epochs.
LEMMA VoteRecord ==
  ASSUME TypeOK, NEW n \in Nat, n = done, n + 1 \in 1 .. NumAtts, done' = n + 1,
         EpochOf(atts[n + 1].slot) \in Epochs, loaded = Epochs,
         HappenedInv, FlagsInv, DelayInv, CreditInv,
         Record(n + 1), UNCHANGED <<atts, loaded>>
  PROVE  HappenedInv' /\ FlagsInv' /\ DelayInv' /\ CreditInv'
  <1> DEFINE a == atts[n + 1]
             Here(e, v) == e = EpochOf(a.slot) /\ v \in a.voters
  <1>1. a \in Att /\ AttDelay(a) \in Nat \ {0} /\ Flags(a) \subseteq Flag
    BY KeptAreOfTheEpochs, FlagsType DEF TypeOK
  <1>2. a.voters \subseteq Validators
    BY <1>1 DEF Att
  <1>3. \A e, v : Upto(done, e, v)' = Upto(n + 1, e, v)
    BY DEF Upto
  <1>4. \A e, v : /\ Upto(n + 1, e, v) = IF Here(e, v) THEN Upto(n, e, v) \cup {n + 1} ELSE Upto(n, e, v)
                  /\ \A i \in Upto(n, e, v) : i \in Nat /\ i <= n
    BY UptoNext
  <1>5. HappenedInv'
    <2> SUFFICES ASSUME NEW e \in Epochs, NEW v \in Validators
                 PROVE  happened'[e][v] =
                          IF Upto(n + 1, e, v) # {} THEN "yes"
                          ELSE IF e \in loaded' /\ (e = Epoch \/ v \notin Fresh) THEN "no" ELSE "undefined"
      BY <1>3 DEF HappenedInv
    <2>1. happened'[e][v] = IF Here(e, v) THEN "yes" ELSE happened[e][v]
      BY DEF Record
    <2>2. Upto(n + 1, e, v) = IF Here(e, v) THEN Upto(n, e, v) \cup {n + 1} ELSE Upto(n, e, v)
      BY <1>4
    <2>3. happened[e][v] =
            IF Upto(n, e, v) # {} THEN "yes"
            ELSE IF e \in loaded /\ (e = Epoch \/ v \notin Fresh) THEN "no" ELSE "undefined"
      BY DEF HappenedInv
    <2>4. QED
      BY <2>1, <2>2, <2>3
  <1>6. FlagsInv'
    <2> SUFFICES ASSUME NEW e \in Epochs, NEW v \in Validators, NEW f \in Flag
                 PROVE  f \in flags'[e][v] <=> \E i \in Upto(n + 1, e, v) : f \in Flags(atts[i])
      BY <1>3 DEF FlagsInv, Flags, AttDelay
    <2>1. flags'[e][v] = IF Here(e, v) THEN flags[e][v] \cup Flags(a) ELSE flags[e][v]
      BY DEF Record
    <2>2. Upto(n + 1, e, v) = IF Here(e, v) THEN Upto(n, e, v) \cup {n + 1} ELSE Upto(n, e, v)
      BY <1>4
    <2>3. f \in flags[e][v] <=> \E i \in Upto(n, e, v) : f \in Flags(atts[i])
      BY DEF FlagsInv
    <2>4. CASE Here(e, v)
      <3>1. Upto(n + 1, e, v) = Upto(n, e, v) \cup {n + 1}
        BY <2>2, <2>4
      <3>2. f \in flags'[e][v] <=> f \in flags[e][v] \/ f \in Flags(atts[n + 1])
        BY <2>1, <2>4
      <3>3. QED
        BY <2>3, <3>1, <3>2
    <2>5. CASE ~Here(e, v)
      BY <2>1, <2>2, <2>3, <2>5
    <2>6. QED
      BY <2>4, <2>5
  <1>7. DelayInv'
    <2> SUFFICES ASSUME NEW e \in Epochs, NEW v \in Validators
                 PROVE  /\ delay'[e][v] = 0 <=> Upto(n + 1, e, v) = {}
                        /\ \A i \in Upto(n + 1, e, v) :
                             IsFirst(i, Upto(n + 1, e, v)) => delay'[e][v] = AttDelay(atts[i])
      BY <1>3 DEF DelayInv, IsFirst, AttDelay
    <2>1. delay'[e][v] = IF Here(e, v) /\ delay[e][v] = 0 THEN AttDelay(a) ELSE delay[e][v]
      BY DEF Record
    <2>2. delay[e][v] = 0 <=> Upto(n, e, v) = {}
      BY DEF DelayInv
    <2>3. delay'[e][v] = 0 <=> Upto(n + 1, e, v) = {}
      BY <1>1, <1>4, <2>1, <2>2
    <2>4. ASSUME NEW i \in Upto(n + 1, e, v), IsFirst(i, Upto(n + 1, e, v))
          PROVE  delay'[e][v] = AttDelay(atts[i])
      <3>1. CASE Upto(n, e, v) = {}
        <4>1. i = n + 1 /\ Here(e, v)
          BY <1>4, <2>4, <3>1
        <4>2. QED
          BY <2>1, <2>2, <3>1, <4>1
      <3>2. CASE Upto(n, e, v) # {}
        <4>1. PICK j \in Upto(n, e, v) : j \in Nat /\ j <= n
          BY <1>4, <3>2
        <4>2. i <= j
          BY <1>4, <2>4, <4>1 DEF IsFirst
        <4>3. i \in Upto(n, e, v)
          <5>1. i \in Upto(n, e, v) \/ i = n + 1
            BY <1>4, <2>4
          <5>2. i # n + 1
            BY <4>1, <4>2
          <5>3. QED
            BY <5>1, <5>2
        <4>4. IsFirst(i, Upto(n, e, v))
          BY <1>4, <2>4, <4>3 DEF IsFirst
        <4>5. delay[e][v] = AttDelay(atts[i])
          BY <4>3, <4>4 DEF DelayInv
        <4>6. QED
          BY <2>1, <2>2, <3>2, <4>5
      <3>3. QED
        BY <3>1, <3>2
    <2>5. QED
      BY <2>3, <2>4
  <1>8. CreditInv'
    <2> DEFINE C == [att : 1 .. NumAtts, val : Validators, flag : Flag]
               Credited(m, c) == \E e \in Epochs : IsFirst(c.att, Bringing(m, e, c.val, c.flag))
    <2>1. SUFFICES credits' = {c \in C : Credited(n + 1, c)}
      BY <1>3 DEF CreditInv, Bringing, IsFirst, Flags, AttDelay
    <2>2. credits = {c \in C : Credited(n, c)}
      BY DEF CreditInv
    <2>3. credits' = credits \cup NewCredits(n + 1)
      BY DEF Record
    <2>4. NewCredits(n + 1) =
            {c \in C : /\ c.att = n + 1 /\ c.val \in a.voters /\ c.flag \in Flags(a)
                       /\ c.flag \notin flags[EpochOf(a.slot)][c.val]}
      BY <1>1, <1>2 DEF NewCredits
    <2>5. ASSUME NEW c \in C
          PROVE  Credited(n + 1, c) <=> Credited(n, c) \/ c \in NewCredits(n + 1)
      <3> DEFINE B(m, e) == Bringing(m, e, c.val, c.flag)
      <3>1. \A e : /\ B(n + 1, e) = IF Here(e, c.val) /\ c.flag \in Flags(a) THEN B(n, e) \cup {n + 1} ELSE B(n, e)
                   /\ \A i \in B(n, e) : i \in Nat /\ i <= n
        BY <1>4 DEF Bringing
      <3>2. \A e \in Epochs : c.flag \in flags[e][c.val] <=> B(n, e) # {}
        BY DEF FlagsInv, Bringing
      <3>3. ASSUME NEW e \in Epochs, IsFirst(c.att, B(n, e)) PROVE IsFirst(c.att, B(n + 1, e))
        <4>1. c.att \in B(n, e) /\ c.att \in Nat /\ c.att <= n
          BY <3>1, <3>3 DEF IsFirst
        <4>2. B(n + 1, e) = B(n, e) \/ B(n + 1, e) = B(n, e) \cup {n + 1}
          BY <3>1
        <4>3. c.att <= n + 1
          BY <4>1
        <4>4. QED
          BY <3>3, <4>1, <4>2, <4>3 DEF IsFirst
      <3>4. ASSUME c \in NewCredits(n + 1) PROVE IsFirst(c.att, B(n + 1, EpochOf(a.slot)))
        <4>1. c.att = n + 1 /\ B(n, EpochOf(a.slot)) = {} /\ Here(EpochOf(a.slot), c.val) /\ c.flag \in Flags(a)
          BY <2>4, <3>2, <3>4
        <4>2. B(n + 1, EpochOf(a.slot)) = {n + 1}
          BY <3>1, <4>1
        <4>3. QED
          BY <4>1, <4>2 DEF IsFirst
      <3>5. ASSUME NEW e \in Epochs, IsFirst(c.att, B(n + 1, e))
            PROVE  IsFirst(c.att, B(n, e)) \/ c \in NewCredits(n + 1)
        <4>1. CASE c.att \in B(n, e)
          BY <3>1, <3>5, <4>1 DEF IsFirst
        <4>2. CASE c.att \notin B(n, e)
          <5>1. c.att = n + 1 /\ Here(e, c.val) /\ c.flag \in Flags(a)
            BY <3>1, <3>5, <4>2 DEF IsFirst
          <5>2. B(n, e) = {}
            <6>1. SUFFICES ASSUME NEW j \in B(n, e) PROVE FALSE
              OBVIOUS
            <6>2. j \in Nat /\ j <= n
              BY <3>1
            <6>3. j \in B(n + 1, e)
              BY <3>1
            <6>4. n + 1 <= j
              BY <3>5, <5>1, <6>3 DEF IsFirst
            <6>5. QED
              BY <6>2, <6>4
          <5>3. QED
            BY <2>4, <3>2, <5>1, <5>2
        <4>3. QED
          BY <4>1, <4>2
      <3>6. QED
        BY <3>3, <3>4, <3>5
    <2>6. NewCredits(n + 1) \subseteq C
      BY <2>4
    <2>7. QED
      BY <2>2, <2>3, <2>5, <2>6
  <1>9. QED
    BY <1>5, <1>6, <1>7, <1>8

\* A step that leaves the votes alone.
LEMMA VoteSame ==
  ASSUME VoteInv, Live' => Live, UNCHANGED <<atts, loaded, done, votes, credits>>
  PROVE  VoteInv'
  <1> SUFFICES ASSUME Live' PROVE (LoadedInv /\ HappenedInv /\ FlagsInv /\ DelayInv /\ CreditInv)'
    BY DEF VoteInv
  <1>1. LoadedInv /\ HappenedInv /\ FlagsInv /\ DelayInv /\ CreditInv
    BY DEF VoteInv
  <1>2. \A e, v : Upto(done, e, v)' = Upto(done, e, v)
    BY DEF Upto
  <1>3. LoadedInv'
    BY <1>1 DEF LoadedInv
  <1>4. HappenedInv'
    BY <1>1, <1>2 DEF HappenedInv, votes
  <1>5. FlagsInv'
    BY <1>1, <1>2 DEF FlagsInv, votes, Flags, AttDelay
  <1>6. DelayInv'
    BY <1>1, <1>2 DEF DelayInv, votes, IsFirst, AttDelay
  <1>7. CreditInv'
    BY <1>1, <1>2 DEF CreditInv, Bringing, IsFirst, Flags, AttDelay
  <1>8. QED
    BY <1>3, <1>4, <1>5, <1>6, <1>7

\* Every step keeps the rows equal to what was processed.
LEMMA VoteStep == TypeInv /\ VoteInv /\ [Next]_vars => VoteInv'
  <1> SUFFICES ASSUME TypeOK, SettledInv, VoteInv, [Next]_vars PROVE VoteInv'
    BY DEF TypeInv
  <1>0. {"state", "attestation", "sync", "propose", "withdrawals"} = Task
    BY DEF Task
  <1>a. \A t \in Task : running[t] \in 0 .. 1
    BY DEF TypeOK
  <1>b. running["attestation"] > 0 => running["attestation"] = 1 /\ pc = "checking"
    BY <1>0, <1>a DEF SettledInv
  <1>1. CASE CheckAll
    BY <1>1, VoteClear DEF CheckAll
  <1>2. ASSUME NEW e \in Epochs, LoadCommittees(e) PROVE VoteInv'
    <2>1. Live /\ loaded # Epochs
      BY <1>b, <1>2 DEF LoadCommittees, Live
    <2>2. LoadedInv /\ HappenedInv /\ FlagsInv /\ DelayInv /\ CreditInv
      BY <2>1 DEF VoteInv
    <2>3. done = 0
      BY <2>1, <2>2 DEF LoadedInv, TypeOK
    <2>4. \A d, v : Upto(done, d, v) = {} /\ Upto(done, d, v)' = {}
      BY <1>2, <2>3 DEF Upto, LoadCommittees
    <2>5. HappenedInv'
      <3> SUFFICES ASSUME NEW d \in Epochs, NEW v \in Validators
                   PROVE  happened'[d][v] = IF d \in loaded' /\ (d = Epoch \/ v \notin Fresh)
                                            THEN "no" ELSE "undefined"
        BY <2>4 DEF HappenedInv
      <3>1. happened[d][v] = IF d \in loaded /\ (d = Epoch \/ v \notin Fresh) THEN "no" ELSE "undefined"
        BY <2>2, <2>4 DEF HappenedInv
      <3>2. loaded' = loaded \cup {e} /\ e \notin loaded
        BY <1>2 DEF LoadCommittees
      <3>3. happened'[d][v] = IF d = e /\ (e = Epoch \/ v \notin Fresh) THEN "no" ELSE happened[d][v]
        BY <1>2 DEF LoadCommittees, TypeOK
      <3>4. QED
        BY <3>1, <3>2, <3>3
    <2>6. LoadedInv'
      BY <1>2, <2>3 DEF LoadedInv, LoadCommittees
    <2>7. FlagsInv'
      BY <1>2, <2>2, <2>4 DEF FlagsInv, LoadCommittees
    <2>8. DelayInv'
      BY <1>2, <2>2, <2>4 DEF DelayInv, LoadCommittees
    <2>9. CreditInv'
      BY <1>2, <2>2, <2>4 DEF CreditInv, LoadCommittees, Bringing, IsFirst
    <2>10. QED
      BY <2>5, <2>6, <2>7, <2>8, <2>9 DEF VoteInv
  <1>3. CASE ProcessAttestation
    <2>1. Live /\ loaded = Epochs /\ done \in Nat /\ done + 1 \in 1 .. NumAtts
      BY <1>b, <1>3, NumAttsAssumption DEF ProcessAttestation, Live, TypeOK
    <2>2. LoadedInv /\ HappenedInv /\ FlagsInv /\ DelayInv /\ CreditInv
      BY <2>1 DEF VoteInv
    <2> DEFINE a == atts[done + 1]
    <2>3. a \in Att
      BY <2>1 DEF TypeOK
    <2>4. (Fetched(a) /\ ~Older(a)) <=> EpochOf(a.slot) \in Epochs
      BY <2>3, KeptAreOfTheEpochs
    <2>5. LoadedInv'
      BY <1>3, <2>1 DEF LoadedInv, ProcessAttestation
    <2>6. CASE EpochOf(a.slot) \in Epochs
      <3>1. Record(done + 1) /\ done' = done + 1 /\ UNCHANGED <<atts, loaded>>
        BY <1>3, <2>4, <2>6 DEF ProcessAttestation
      <3>2. HappenedInv' /\ FlagsInv' /\ DelayInv' /\ CreditInv'
        BY <2>1, <2>2, <2>6, <3>1, VoteRecord
      <3>3. QED
        BY <2>5, <3>2 DEF VoteInv
    <2>7. CASE EpochOf(a.slot) \notin Epochs
      <3>1. UNCHANGED <<votes, credits>> /\ done' = done + 1 /\ UNCHANGED <<atts, loaded>>
        BY <1>3, <2>4, <2>7 DEF ProcessAttestation
      <3>2. \A e \in Epochs : \A v : Upto(done, e, v)' = Upto(done, e, v)
        <4> SUFFICES ASSUME NEW e \in Epochs, NEW v PROVE Upto(done + 1, e, v) = Upto(done, e, v)
          BY <3>1 DEF Upto
        <4>1. QED
          BY <2>1, <2>7, UptoNext
      <3>3. HappenedInv'
        BY <2>2, <3>1, <3>2 DEF HappenedInv, votes
      <3>4. FlagsInv'
        BY <2>2, <3>1, <3>2 DEF FlagsInv, votes, Flags, AttDelay
      <3>5. DelayInv'
        BY <2>2, <3>1, <3>2 DEF DelayInv, votes, IsFirst, AttDelay
      <3>6. CreditInv'
        BY <2>2, <3>1, <3>2 DEF CreditInv, Bringing, IsFirst, Flags, AttDelay
      <3>7. QED
        BY <2>5, <3>3, <3>4, <3>5, <3>6 DEF VoteInv
    <2>8. QED
      BY <2>6, <2>7
  <1>4. CASE AttestationCheckEnds
    BY <1>b, <1>4, VoteSame DEF AttestationCheckEnds, Live, summary
  <1>5. ASSUME NEW t \in Task \ {"attestation"}, Settle(t), running[t] > 0
        PROVE  running'["attestation"] = running["attestation"]
    BY <1>0, <1>5, SettleOthers
  <1>6. CASE StateCheck
    <2>1. running'["attestation"] = running["attestation"]
      BY <1>0, <1>5, <1>6 DEF StateCheck
    <2>2. QED
      BY <1>6, <2>1, VoteSame DEF StateCheck, Live
  <1>7. CASE SyncCheck
    <2>1. running'["attestation"] = running["attestation"]
      BY <1>0, <1>5, <1>7 DEF SyncCheck
    <2>2. QED
      BY <1>7, <2>1, VoteSame DEF SyncCheck, Live
  <1>8. CASE ProposeCheck
    <2>1. running'["attestation"] = running["attestation"]
      BY <1>0, <1>5, <1>8 DEF ProposeCheck
    <2>2. QED
      BY <1>8, <2>1, VoteSame DEF ProposeCheck, Live, summary
  <1>9. CASE WithdrawalsCheck
    <2>1. running'["attestation"] = running["attestation"]
      BY <1>0, <1>5, <1>9 DEF WithdrawalsCheck
    <2>2. QED
      BY <1>9, <2>1, VoteSame DEF WithdrawalsCheck, Live
  <1>10. ASSUME NEW t \in Task, CheckFails(t) PROVE VoteInv'
    <2>1. running'["attestation"] = 1 => running["attestation"] = 1
      BY <1>0, <1>10, SettleOthers DEF CheckFails
    <2>2. Live' => Live
      BY <1>10, <2>1 DEF CheckFails, Live
    <2>3. QED
      BY <1>10, <2>2, VoteSame DEF CheckFails, summary
  <1>11. CASE AllSettled
    BY <1>11, VoteSame DEF AllSettled, Live, summary
  <1>12. CASE FillMetadata
    BY <1>12, VoteSame DEF FillMetadata, Live
  <1>13. CASE CalculateRewards \/ Write \/ WriteFails \/ Caught
    BY <1>13 DEF CalculateRewards, Write, WriteFails, Caught, VoteInv, Live
  <1>14. CASE UNCHANGED vars
    BY <1>14, VoteSame DEF vars, Live, summary
  <1>15. QED
    BY <1>1, <1>2, <1>3, <1>4, <1>6, <1>7, <1>8, <1>9, <1>10, <1>11, <1>12, <1>13, <1>14 DEF Next

(***************************************************************************)
(* What follows when the checks have succeeded.                            *)
(***************************************************************************)
ChecksInv == TypeInv /\ SumInv /\ VoteInv

\* The three invariants together are inductive.
LEMMA ChecksInvariant == Spec => []ChecksInv
  <1>1. Init => ChecksInv
    BY TypeInit, SumInit, VoteInit DEF ChecksInv
  <1>2. ChecksInv /\ [Next]_vars => ChecksInv'
    BY TypeStep, SumStep, VoteStep DEF ChecksInv
  <1>3. QED
    BY <1>1, <1>2, PTL DEF Spec

\* After allSettled returned, every attestation is in the rows.
LEMMA AllProcessed ==
  ASSUME ChecksInv, pc \in {"metadata", "rewards"}
  PROVE  /\ slashed = Slashed
         /\ \A e \in Epochs, v \in Validators :
              /\ happened[e][v] = IF Included(e, v) # {} THEN "yes"
                                  ELSE IF e = Epoch \/ v \notin Fresh THEN "no" ELSE "undefined"
              /\ flags[e][v] = ChainFlags(e, v)
              /\ delay[e][v] = 0 <=> Included(e, v) = {}
              /\ \A i \in Included(e, v) : IsFirst(i, Included(e, v)) => delay[e][v] = AttDelay(atts[i])
         /\ CreditInv /\ done = NumAtts
  <1>1. outcome = "ok" /\ loaded = Epochs /\ done = NumAtts /\ slashed = Slashed
    BY DEF ChecksInv, TypeInv, SettledInv, SumInv, Past, Task
  <1>2. HappenedInv /\ FlagsInv /\ DelayInv /\ CreditInv
    BY <1>1 DEF ChecksInv, VoteInv, Live
  <1>3. ASSUME NEW e \in Epochs, NEW v \in Validators
        PROVE  /\ happened[e][v] = IF Included(e, v) # {} THEN "yes"
                                   ELSE IF e = Epoch \/ v \notin Fresh THEN "no" ELSE "undefined"
               /\ flags[e][v] = ChainFlags(e, v)
               /\ delay[e][v] = 0 <=> Included(e, v) = {}
               /\ \A i \in Included(e, v) : IsFirst(i, Included(e, v)) => delay[e][v] = AttDelay(atts[i])
    <2>1. Upto(done, e, v) = Included(e, v)
      BY <1>1 DEF Upto, Included
    <2>2. happened[e][v] = IF Included(e, v) # {} THEN "yes"
                           ELSE IF e = Epoch \/ v \notin Fresh THEN "no" ELSE "undefined"
      BY <1>1, <1>2, <2>1 DEF HappenedInv
    <2>3. flags[e][v] = ChainFlags(e, v)
      <3>1. flags[e][v] \subseteq Flag
        BY DEF ChecksInv, TypeInv, TypeOK
      <3>2. ChainFlags(e, v) \subseteq Flag
        BY FlagsType DEF ChainFlags
      <3>3. \A f \in Flag : f \in flags[e][v] <=> \E i \in Included(e, v) : f \in Flags(atts[i])
        BY <1>2, <2>1 DEF FlagsInv
      <3>4. \A f : f \in ChainFlags(e, v) <=> \E i \in Included(e, v) : f \in Flags(atts[i])
        BY DEF ChainFlags
      <3>5. QED
        BY <3>1, <3>2, <3>3, <3>4
    <2>4. /\ delay[e][v] = 0 <=> Included(e, v) = {}
          /\ \A i \in Included(e, v) : IsFirst(i, Included(e, v)) => delay[e][v] = AttDelay(atts[i])
      BY <1>2, <2>1 DEF DelayInv
    <2>5. QED
      BY <2>2, <2>3, <2>4
  <1>4. QED
    BY <1>1, <1>2, <1>3

\* A validator that is active only from this epoch on has no vote before it.
LEMMA FreshHaveNoVote ==
  ASSUME TypeOK, NEW v \in Fresh
  PROVE  Included(Epoch - 1, v) = {}
  <1> SUFFICES ASSUME NEW i \in Included(Epoch - 1, v) PROVE FALSE
    OBVIOUS
  <1>1. i \in 1 .. NumAtts /\ EpochOf(atts[i].slot) = Epoch - 1 /\ v \in atts[i].voters
    BY DEF Included
  <1>2. atts[i] \in Att
    BY <1>1 DEF TypeOK
  <1>3. v \in Committee(atts[i].slot)
    BY <1>1, <1>2, KeptAreOfTheEpochs
  <1>4. QED
    BY <1>1, <1>3, EpochAssumption DEF Committee

\* AttestationService.check, whichever order the checks run in and however often
\* they failed before, leaves each row with the vote as it is on the chain.
THEOREM VotesAreAsOnChain == Spec => []VotesAsOnChain
  <1>1. ChecksInv => VotesAsOnChain
    <2> SUFFICES ASSUME ChecksInv, pc = "metadata", NEW e \in Epochs, NEW v \in Validators,
                        e = Epoch \/ v \notin Fresh
                 PROVE  TellsVote(e, e, v)
      BY DEF VotesAsOnChain
    <2>1. /\ happened[e][v] = IF Included(e, v) # {} THEN "yes" ELSE "no"
          /\ flags[e][v] = ChainFlags(e, v)
          /\ \A i \in Included(e, v) : IsFirst(i, Included(e, v)) => delay[e][v] = AttDelay(atts[i])
      BY AllProcessed
    <2>2. QED
      BY <2>1 DEF TellsVote
  <1>2. QED
    BY <1>1, ChecksInvariant, PTL

\* processAttestationCommittee credits each flag of each vote once, to the first
\* attestation that brings it.
THEOREM CreditsAreOfTheFirst == Spec => []CreditedToTheFirst
  <1>1. ChecksInv => CreditedToTheFirst
    <2> SUFFICES ASSUME ChecksInv, pc = "metadata" PROVE CreditedToTheFirst
      BY DEF CreditedToTheFirst
    <2>1. CreditInv /\ done = NumAtts
      BY AllProcessed
    <2>2. \A e, v, f : Bringing(done, e, v, f) = {i \in Included(e, v) : f \in Flags(atts[i])}
      BY <2>1 DEF Bringing, Upto, Included
    <2>3. ASSUME NEW c
          PROVE  (\E e \in Epochs : IsFirst(c.att, Bringing(done, e, c.val, c.flag))) <=>
                 \E e \in Epochs : IsFirst(c.att, {i \in Included(e, c.val) : c.flag \in Flags(atts[i])})
      BY <2>2, Zenon
    <2>4. credits = {c \in [att : 1 .. NumAtts, val : Validators, flag : Flag] :
                       \E e \in Epochs : IsFirst(c.att, {i \in Included(e, c.val) : c.flag \in Flags(atts[i])})}
      BY <2>1, <2>3, Zenon DEF CreditInv
    <2>5. QED
      BY <2>4 DEF CreditedToTheFirst
  <1>2. QED
    BY <1>1, ChecksInvariant, PTL

(***************************************************************************)
(* Participation and the row that is written.                              *)
(***************************************************************************)
WrittenInv == ParticipationAsOnChain /\ RowTellsPreviousVote

\* fillCurrentEpochMetadata, from the rows the checks left.
LEMMA WrittenFill ==
  ASSUME ChecksInv, FillMetadata
  PROVE  WrittenInv'
  <1>1. pc = "metadata" /\ pc' = "rewards" /\ UNCHANGED atts
    BY DEF FillMetadata
  <1>2. Epoch - 1 \in Epochs /\ Epoch - 1 # Epoch
    BY EpochAssumption DEF Epochs
  <1>3. \A v \in Validators :
          /\ happened[Epoch - 1][v] = "yes" <=> Included(Epoch - 1, v) # {}
          /\ flags[Epoch - 1][v] = ChainFlags(Epoch - 1, v)
    BY <1>1, <1>2, AllProcessed
  <1>4. slashed = Slashed
    BY <1>1, AllProcessed
  <1>5. ASSUME NEW f \in Flag
        PROVE  participation'[f] = {v \in Validators \ (Slashed \cup Fresh) : f \in ChainFlags(Epoch - 1, v)}
    <2>0. participation'[f] =
            {v \in Validators \ slashed : happened[Epoch - 1][v] = "yes" /\ f \in flags[Epoch - 1][v]}
      BY DEF FillMetadata
    <2>1. \A v : v \in participation'[f] <=>
                 v \in Validators \ Slashed /\ Included(Epoch - 1, v) # {} /\ f \in ChainFlags(Epoch - 1, v)
      BY <1>3, <1>4, <2>0
    <2>2. \A v \in Validators : f \in ChainFlags(Epoch - 1, v) => Included(Epoch - 1, v) # {}
      BY DEF ChainFlags
    <2>3. \A v \in Fresh : Included(Epoch - 1, v) = {}
      BY FreshHaveNoVote DEF ChecksInv, TypeInv
    <2>4. QED
      BY <2>1, <2>2, <2>3
  <1>6. \A v : ChainFlags(Epoch - 1, v)' = ChainFlags(Epoch - 1, v)
    BY <1>1 DEF ChainFlags, Included, Flags, AttDelay
  <1>7. ParticipationAsOnChain'
    BY <1>5, <1>6 DEF ParticipationAsOnChain
  <1>8. QED
    BY <1>1, <1>7 DEF WrittenInv, RowTellsPreviousVote

\* AttestationRewards.calculate, from the same rows.
LEMMA WrittenRewards ==
  ASSUME ChecksInv, WrittenInv, CalculateRewards
  PROVE  WrittenInv'
  <1> DEFINE p == Epoch - 1
  <1>1. pc = "rewards" /\ pc' = "writing" /\ UNCHANGED <<atts, participation>>
    BY DEF CalculateRewards
  <1>2. p \in Epochs /\ Epoch \in Epochs /\ p # Epoch
    BY EpochAssumption DEF Epochs
  <1>3. slashed = Slashed
    BY <1>1, AllProcessed
  <1>4. \A e, v : /\ Included(e, v)' = Included(e, v)
                  /\ ChainFlags(e, v)' = ChainFlags(e, v)
    BY <1>1 DEF ChainFlags, Included, Flags, AttDelay
  <1>5. ParticipationAsOnChain'
    BY <1>1, <1>4 DEF WrittenInv, ParticipationAsOnChain
  <1>6. ASSUME NEW v \in Validators
        PROVE  /\ earned'[v] = IF v \in Slashed \cup Fresh THEN {} ELSE ChainFlags(p, v)
               /\ v \notin Slashed \cup Fresh /\ Included(p, v) # {} => TellsVote(p, Epoch, v)'
    <2>1. /\ happened[p][v] = IF Included(p, v) # {} THEN "yes" ELSE IF v \notin Fresh THEN "no" ELSE "undefined"
          /\ flags[p][v] = ChainFlags(p, v)
          /\ delay[p][v] = 0 <=> Included(p, v) = {}
          /\ \A i \in Included(p, v) : IsFirst(i, Included(p, v)) => delay[p][v] = AttDelay(atts[i])
      BY <1>1, <1>2, AllProcessed
    <2>2. v \in Fresh => Included(p, v) = {}
      BY FreshHaveNoVote DEF ChecksInv, TypeInv
    <2>3. earned'[v] = IF happened[p][v] # "undefined" /\ v \notin slashed THEN flags[p][v] ELSE {}
      BY DEF CalculateRewards
    <2>4. earned'[v] = IF v \in Slashed \cup Fresh THEN {} ELSE ChainFlags(p, v)
      BY <1>3, <2>1, <2>2, <2>3
    <2>5. ASSUME v \notin Slashed \cup Fresh, Included(p, v) # {} PROVE TellsVote(p, Epoch, v)'
      <3>1. happened[p][v] = "yes" /\ delay[p][v] # 0 /\ v \notin slashed
        BY <1>3, <2>1, <2>5
      <3>2. happened'[Epoch][v] = "yes"
        BY <1>2, <3>1 DEF CalculateRewards
      <3>3. delay'[Epoch][v] = delay[p][v]
        BY <1>2, <3>1 DEF CalculateRewards
      <3>4. flags'[Epoch][v] = flags[p][v]
        BY <1>2, <3>1 DEF CalculateRewards
      <3>5. \A i : AttDelay(atts[i])' = AttDelay(atts[i])
        BY <1>1 DEF AttDelay
      <3>6. QED
        BY <1>4, <2>1, <2>5, <3>2, <3>3, <3>4, <3>5 DEF TellsVote, IsFirst
    <2>6. QED
      BY <2>4, <2>5
  <1>7. RowTellsPreviousVote'
    BY <1>4, <1>6 DEF RowTellsPreviousVote
  <1>8. QED
    BY <1>5, <1>7 DEF WrittenInv

\* No other step changes what is about to be written.
LEMMA WrittenStep == ChecksInv /\ WrittenInv /\ [Next]_vars => WrittenInv'
  <1> SUFFICES ASSUME ChecksInv, WrittenInv, [Next]_vars PROVE WrittenInv'
    OBVIOUS
  <1>1. CASE FillMetadata
    BY <1>1, WrittenFill
  <1>2. CASE CalculateRewards
    BY <1>2, WrittenRewards
  <1>3. CASE UNCHANGED vars
    <2>1. UNCHANGED <<atts, pc, happened, delay, flags, participation, earned>>
      BY <1>3 DEF vars, summary, votes, results
    <2>2. \A e, v : /\ Included(e, v)' = Included(e, v)
                    /\ ChainFlags(e, v)' = ChainFlags(e, v)
      BY <2>1 DEF ChainFlags, Included, Flags, AttDelay
    <2>3. ParticipationAsOnChain'
      BY <2>1, <2>2 DEF WrittenInv, ParticipationAsOnChain
    <2>4. \A i : AttDelay(atts[i])' = AttDelay(atts[i])
      BY <2>1 DEF AttDelay
    <2>5. \A e, r, v : TellsVote(e, r, v)' <=> TellsVote(e, r, v)
      BY <2>1, <2>2, <2>4 DEF TellsVote, IsFirst
    <2>6. RowTellsPreviousVote'
      BY <2>1, <2>2, <2>5 DEF WrittenInv, RowTellsPreviousVote
    <2>7. QED
      BY <2>3, <2>6 DEF WrittenInv
  <1>4. ASSUME NEW t \in Task, running[t] > 0, pc' = pc PROVE WrittenInv'
    <2>1. pc = "checking"
      BY <1>4 DEF ChecksInv, TypeInv, SettledInv
    <2>2. QED
      BY <1>4, <2>1 DEF WrittenInv, ParticipationAsOnChain, RowTellsPreviousVote
  <1>5. ASSUME pc' \notin {"rewards", "writing"} PROVE WrittenInv'
    BY <1>5 DEF WrittenInv, ParticipationAsOnChain, RowTellsPreviousVote
  <1>6. CASE CheckAll \/ AllSettled \/ Write \/ WriteFails \/ Caught
    BY <1>5, <1>6 DEF CheckAll, AllSettled, Write, WriteFails, Caught
  <1>7. CASE \/ \E e \in Epochs : LoadCommittees(e)
             \/ ProcessAttestation \/ AttestationCheckEnds
    <2>1. "attestation" \in Task
      BY DEF Task
    <2>2. QED
      BY <1>4, <1>7, <2>1 DEF LoadCommittees, ProcessAttestation, AttestationCheckEnds
  <1>8. CASE StateCheck \/ SyncCheck \/ ProposeCheck \/ WithdrawalsCheck
    <2>1. {"state", "sync", "propose", "withdrawals"} \subseteq Task
      BY DEF Task
    <2>2. QED
      BY <1>4, <1>8, <2>1 DEF StateCheck, SyncCheck, ProposeCheck, WithdrawalsCheck
  <1>9. CASE \E t \in Task : CheckFails(t)
    BY <1>4, <1>9 DEF CheckFails
  <1>10. QED
    BY <1>1, <1>2, <1>3, <1>6, <1>7, <1>8, <1>9 DEF Next

\* Participation and rows are right when they are written.
LEMMA WrittenInvariant == Spec => []WrittenInv
  <1>1. Init => WrittenInv
    BY DEF Init, WrittenInv, ParticipationAsOnChain, RowTellsPreviousVote
  <1>2. QED
    BY <1>1, ChecksInvariant, WrittenStep, PTL DEF Spec

\* fillCurrentEpochMetadata adds up the increments of exactly the unslashed
\* validators whose vote of the epoch before has the flag on the chain.
THEOREM ParticipationIsAsOnChain == Spec => []ParticipationAsOnChain
  <1>1. WrittenInv => ParticipationAsOnChain
    BY DEF WrittenInv
  <1>2. QED
    BY <1>1, WrittenInvariant, PTL

\* AttestationRewards.calculate pays the vote of the epoch before as it is on
\* the chain, and saves that vote to the row that is written.
THEOREM RowsTellPreviousVote == Spec => []RowTellsPreviousVote
  <1>1. WrittenInv => RowTellsPreviousVote
    BY DEF WrittenInv
  <1>2. QED
    BY <1>1, WrittenInvariant, PTL
=============================================================================
