----------------------- MODULE ConsensusClientProofs -----------------------
(***************************************************************************)
(* What holds of the requests to the beacon nodes for any number of URLs,  *)
(* retries and slots.                                                      *)
(***************************************************************************)
EXTENDS ConsensusClient, TLAPS

(***************************************************************************)
(* Types.                                                                  *)
(***************************************************************************)
OutType == [kind : Kind \cup {"idle"}, res : {"none", "ok", "missed", "error"},
            slot : Slot, answer : {"ok", "notfinal"}]

\* The types of the variables Finish and Fallback change.
ReqOK ==
  /\ kind \in Kind \cup {"idle"}
  /\ exists \in BOOLEAN
  /\ url \in Url
  /\ tries \in 0 .. TriesPerUrl - 1
  /\ err \in Error \cup {"none", "unresolved"}
  /\ denied \in BOOLEAN
  /\ out \in OutType

\* The retrier makes every URL be asked at least twice.
LEMMA TriesBound == TriesPerUrl \in Nat /\ TriesPerUrl >= 2
  BY MaxRetriesAssumption DEF TriesPerUrl

\* The end of a request keeps the types.
LEMMA FinishType ==
  ASSUME TypeOK, NEW r \in {"ok", "missed", "error"}, NEW s \in Slot,
         NEW a \in {"ok", "notfinal"}, Finish(r, s, a)
  PROVE  ReqOK'
<1>1. exists' \in BOOLEAN
  BY DEF Finish
<1>2. denied' \in BOOLEAN
  BY DEF Finish
<1>3. out' \in OutType
  BY DEF Finish, TypeOK, OutType
<1>4. tries' \in 0 .. TriesPerUrl - 1
  BY TriesBound DEF Finish
<1>5. url' \in Url
  BY NumUrlsAssumption DEF Finish, Url
<1>6. kind' \in Kind \cup {"idle"} /\ err' \in Error \cup {"none", "unresolved"}
  BY DEF Finish
<1> QED
  BY <1>1, <1>2, <1>3, <1>4, <1>5, <1>6 DEF ReqOK

\* So does the move to the next URL.
LEMMA FallbackType ==
  ASSUME TypeOK, NEW e \in Error \cup {"unresolved"}, Fallback(e)
  PROVE  ReqOK'
<1>0. 0 \in Slot
  BY MaxSlotAssumption DEF Slot
<1>1. CASE url = NumUrls
  <2>1. PICK r \in {"missed", "error"} : Finish(r, 0, "ok")
    BY <1>1 DEF Fallback
  <2> QED
    BY <1>0, <2>1, FinishType
<1>2. CASE url # NumUrls
  <2>1. url' \in Url
    BY <1>2, NumUrlsAssumption DEF Fallback, Url, TypeOK
  <2>2. tries' \in 0 .. TriesPerUrl - 1
    BY <1>2, TriesBound DEF Fallback
  <2>3. denied' \in BOOLEAN
    BY <1>2 DEF Fallback
  <2>4. /\ kind' \in Kind \cup {"idle"} /\ exists' \in BOOLEAN
        /\ err' \in Error \cup {"none", "unresolved"}
    BY <1>2 DEF Fallback, TypeOK
  <2>5. out' \in OutType
    BY <1>2 DEF Fallback, TypeOK, OutType
  <2> QED
    BY <2>1, <2>2, <2>3, <2>4, <2>5 DEF ReqOK
<1> QED
  BY <1>1, <1>2

\* Every step keeps every variable in its type.
LEMMA ClientTypeStep == TypeOK /\ [Next]_vars => TypeOK'
<1> SUFFICES ASSUME TypeOK, [Next]_vars PROVE TypeOK'
  OBVIOUS
<1>0. 0 \in Slot /\ node[url] \in Slot
  BY MaxSlotAssumption DEF Slot, TypeOK
<1>1. ASSUME NEW k \in Kind, Request(k) PROVE TypeOK'
  <2>1. out' \in OutType
    BY <1>0, <1>1 DEF Request, NoOut, OutType
  <2>2. exists' \in BOOLEAN /\ kind' \in Kind
    BY <1>1 DEF Request
  <2> QED
    BY <1>1, <2>1, <2>2 DEF Request, TypeOK, OutType, nodes
<1>2. CASE Retry
  <2>1. tries' \in 0 .. TriesPerUrl - 1
    BY <1>2, TriesBound DEF Retry, TypeOK
  <2>2. denied' \in BOOLEAN
    BY <1>2 DEF Retry
  <2> QED
    BY <1>2, <2>1, <2>2 DEF Retry, TypeOK, nodes
<1>3. CASE Rejected
  <2>1. ReqOK'
    <3>1. CASE Finish("missed", 0, "ok")
      BY <3>1, <1>0, FinishType
    <3>2. CASE Fallback(Answer(url)) /\ Answer(url) \in Error
      BY <3>2, FallbackType
    <3> QED
      BY <1>3, <3>1, <3>2 DEF Rejected
  <2> QED
    BY <1>3, <2>1 DEF Rejected, TypeOK, ReqOK, OutType, nodes
<1>4. CASE Resolved
  <2>1. ReqOK'
    <3>1. CASE Fallback("unresolved")
      BY <3>1, FallbackType
    <3>2. CASE Finish("ok", 0, Answer(url)) /\ Answer(url) \in {"ok", "notfinal"}
      BY <3>2, <1>0, FinishType
    <3> QED
      BY <1>4, <3>1, <3>2 DEF Resolved
  <2> QED
    BY <1>4, <2>1 DEF Resolved, TypeOK, ReqOK, OutType, nodes
<1>5. CASE LatestRefused
  <2>1. ReqOK'
    BY <1>5, FallbackType DEF LatestRefused
  <2> QED
    BY <1>5, <2>1 DEF LatestRefused, TypeOK, ReqOK, OutType, nodes
<1>6. CASE LatestResolved
  <2>1. ReqOK'
    <3>1. CASE Fallback("unresolved")
      BY <3>1, FallbackType
    <3>2. CASE Finish("ok", node[url], Answer(url)) /\ Answer(url) \in {"ok", "notfinal"}
      BY <3>2, <1>0, FinishType
    <3> QED
      BY <1>6, <3>1, <3>2 DEF LatestResolved
  <2>2. latest' \in [slot : Slot, age : {"recent", "old"}]
    BY <1>0, <1>6 DEF LatestResolved, TypeOK
  <2>3. seen' \in [Slot -> {"never", "recently", "longAgo"}]
    BY <1>0, <1>6 DEF LatestResolved, TypeOK
  <2> QED
    BY <1>6, <2>1, <2>2, <2>3 DEF LatestResolved, TypeOK, ReqOK, OutType, nodes
<1>7. CASE EpochDone
  BY <1>7 DEF EpochDone, TypeOK, nodes, reqVars
<1>8. CASE TimePasses
  BY <1>8 DEF TimePasses, TypeOK, nodes, reqVars
<1>9. ASSUME NEW u \in Url, NodeChanges(u) PROVE TypeOK'
  BY <1>9 DEF NodeChanges, TypeOK, reqVars
<1>10. ASSUME NEW u \in Url, NodeAdvances(u) PROVE TypeOK'
  <2>1. node' \in [Url -> Slot]
    BY <1>10, MaxSlotAssumption DEF NodeAdvances, TypeOK, Slot
  <2> QED
    BY <1>10, <2>1 DEF NodeAdvances, TypeOK, reqVars
<1>11. CASE UNCHANGED vars
  BY <1>11 DEF vars, TypeOK, nodes, reqVars
<1> QED
  BY <1>1, <1>2, <1>3, <1>4, <1>5, <1>6, <1>7, <1>8, <1>9, <1>10, <1>11 DEF Next, Answered

\* The requests keep every variable in its type: no URL past the end of the
\* list is asked, and no URL more often than the retrier allows.
THEOREM ClientTypeCorrect == Spec => []TypeOK
<1>1. Init => TypeOK
  <2> SUFFICES ASSUME Init PROVE TypeOK
    OBVIOUS
  <2>1. url \in Url /\ 0 \in Slot
    BY NumUrlsAssumption, MaxSlotAssumption DEF Init, Url, Slot
  <2>2. tries \in 0 .. TriesPerUrl - 1
    BY TriesBound DEF Init
  <2>3. out \in OutType
    BY <2>1 DEF Init, NoOut, OutType
  <2>4. exists \in BOOLEAN /\ denied \in BOOLEAN
    BY DEF Init
  <2>5. seen \in [Slot -> {"never", "recently", "longAgo"}]
    BY DEF Init
  <2>6. latest \in [slot : Slot, age : {"recent", "old"}]
    BY <2>1 DEF Init
  <2> QED
    BY <2>1, <2>2, <2>3, <2>4, <2>5, <2>6 DEF Init, TypeOK, OutType
<1> QED
  BY <1>1, ClientTypeStep, PTL DEF Spec

(***************************************************************************)
(* The inductive invariant: latestSlot is the greatest slot ever accepted, *)
(* it counts as recent only while it was first seen recently, and a 404    *)
(* that is remembered was answered during the request under way.           *)
(***************************************************************************)
SeenInv ==
  /\ \A s \in Slot : seen[s] # "never" => s <= latest.slot
  /\ latest.age = "recent" => seen[latest.slot] = "recently"

DeniedInv == err = "404" => denied

\* Only an accepted latest slot and the time change what was seen.
LEMMA SeenSteps == [Next]_vars => LatestResolved \/ TimePasses \/ UNCHANGED <<latest, seen>>
  BY DEF Next, Answered, Request, Retry, Rejected, Resolved, LatestRefused, EpochDone,
         NodeChanges, NodeAdvances, vars

\* Every step preserves SeenInv.
LEMMA SeenStep == TypeOK /\ SeenInv /\ [Next]_vars => SeenInv'
<1> SUFFICES ASSUME TypeOK, SeenInv, [Next]_vars PROVE SeenInv'
  OBVIOUS
<1>1. CASE LatestResolved
  <2>0. node[url] \in Slot /\ latest.slot \in Slot
    BY DEF TypeOK
  <2>1. /\ seen' = [seen EXCEPT ![node[url]] = IF seen[node[url]] = "never" THEN "recently"
                                               ELSE seen[node[url]]]
        /\ node[url] >= latest.slot
    BY <1>1 DEF LatestResolved
  <2>2. CASE node[url] > latest.slot
    <3>1. latest' = [slot |-> node[url], age |-> "recent"]
      BY <1>1, <2>2 DEF LatestResolved
    <3>2. seen[node[url]] = "never"
      BY <2>0, <2>2, MaxSlotAssumption DEF SeenInv, Slot
    <3>3. seen'[node[url]] = "recently"
      BY <2>0, <2>1, <3>2 DEF TypeOK
    <3>4. \A s \in Slot : seen'[s] # "never" => s <= node[url]
      BY <2>0, <2>1, <2>2, MaxSlotAssumption DEF SeenInv, Slot, TypeOK
    <3> QED
      BY <3>1, <3>3, <3>4 DEF SeenInv
  <2>3. CASE ~(node[url] > latest.slot)
    <3>1. latest' = latest /\ node[url] = latest.slot
      BY <1>1, <2>0, <2>1, <2>3, MaxSlotAssumption DEF LatestResolved, Slot
    <3>2. latest.age = "recent" => seen'[latest.slot] = "recently"
      BY <2>0, <2>1, <3>1 DEF SeenInv, TypeOK
    <3>3. \A s \in Slot : seen'[s] # "never" => s <= latest.slot
      BY <2>0, <2>1, <3>1, MaxSlotAssumption DEF SeenInv, Slot, TypeOK
    <3> QED
      BY <3>1, <3>2, <3>3 DEF SeenInv
  <2> QED
    BY <2>2, <2>3
<1>2. CASE TimePasses
  BY <1>2 DEF TimePasses, SeenInv, TypeOK
<1>3. CASE UNCHANGED <<latest, seen>>
  BY <1>3 DEF SeenInv
<1> QED
  BY <1>1, <1>2, <1>3, SeenSteps

\* SeenInv holds in every reachable state.
LEMMA SeenInvariant == Spec => [](TypeOK /\ SeenInv)
<1>1. Init => SeenInv
  BY DEF Init, SeenInv
<1> QED
  BY <1>1, SeenStep, ClientTypeCorrect, PTL DEF Spec

\* A latest slot is accepted by LatestResolved only.
LEMMA LatestAccepted ==
  ASSUME [Next]_vars, kind = "latest", kind' = "idle", out'.res = "ok"
  PROVE  /\ LatestResolved
         /\ Finish("ok", node[url], Answer(url))
         /\ epoch < latest'.slot \div SlotsPerEpoch \/ latest'.age = "recent"
<1>0. ~ UNCHANGED kind
  OBVIOUS
<1>1. ASSUME NEW e, Fallback(e) PROVE FALSE
  BY <1>1 DEF Fallback, Finish
<1>2. Answered
  BY <1>0 DEF Next, Request, EpochDone, TimePasses, NodeChanges, NodeAdvances, vars, reqVars
<1>3. ~ Retry /\ ~ Resolved
  BY <1>0 DEF Retry, Resolved
<1>4. ~ Rejected
  <2>1. ~ Finish("missed", 0, "ok")
    BY DEF Finish
  <2> QED
    BY <2>1, <1>1 DEF Rejected
<1>5. ~ LatestRefused
  BY <1>1 DEF LatestRefused
<1>6. LatestResolved
  BY <1>2, <1>3, <1>4, <1>5 DEF Answered
<1> QED
  BY <1>1, <1>6 DEF LatestResolved

\* For any number of nodes, however far apart they are, the latest slot the
\* loop works with never goes back.
THEOREM LatestSlotNeverGoesBack == Spec => LatestNeverGoesBack
<1>1. ASSUME TypeOK, SeenInv, [Next]_vars, kind = "latest", kind' = "idle", out'.res = "ok"
      PROVE  \A s \in Slot : seen[s] # "never" => s <= out'.slot
  <2>1. LatestResolved /\ Finish("ok", node[url], Answer(url))
    BY <1>1, LatestAccepted
  <2>2. out'.slot = node[url] /\ node[url] >= latest.slot
    BY <2>1 DEF Finish, LatestResolved
  <2>3. node[url] \in Slot /\ latest.slot \in Slot
    BY <1>1 DEF TypeOK
  <2> QED
    BY <1>1, <2>2, <2>3, MaxSlotAssumption DEF SeenInv, Slot
<1>2. TypeOK /\ SeenInv /\ [Next]_vars
        => [kind = "latest" /\ kind' = "idle" /\ out'.res = "ok"
              => \A s \in Slot : seen[s] # "never" => s <= out'.slot]_vars
  BY <1>1
<1> QED
  BY <1>2, SeenInvariant, PTL DEF Spec, LatestNeverGoesBack

\* At the head of the chain no latest slot is accepted that was first reported
\* more than 7 minutes ago.
THEOREM LatestSlotIsFresh == Spec => LatestIsFresh
<1>1. ASSUME TypeOK, SeenInv, [Next]_vars, kind = "latest", kind' = "idle", out'.res = "ok"
      PROVE  epoch < out'.slot \div SlotsPerEpoch \/ seen'[out'.slot] = "recently"
  <2>1. /\ LatestResolved /\ Finish("ok", node[url], Answer(url))
        /\ epoch < latest'.slot \div SlotsPerEpoch \/ latest'.age = "recent"
    BY <1>1, LatestAccepted
  <2>2. out'.slot = node[url]
    BY <2>1 DEF Finish
  <2>3. latest'.slot = node[url]
    <3>1. node[url] \in Slot /\ latest.slot \in Slot /\ node[url] >= latest.slot
      BY <1>1, <2>1 DEF TypeOK, LatestResolved
    <3> QED
      BY <2>1, <3>1, MaxSlotAssumption DEF LatestResolved, Slot
  <2>4. SeenInv'
    BY <1>1, SeenStep
  <2> QED
    BY <2>1, <2>2, <2>3, <2>4 DEF SeenInv
<1>2. TypeOK /\ SeenInv /\ [Next]_vars
        => [kind = "latest" /\ kind' = "idle" /\ out'.res = "ok"
              => epoch < out'.slot \div SlotsPerEpoch \/ seen'[out'.slot] = "recently"]_vars
  BY <1>1
<1> QED
  BY <1>2, SeenInvariant, PTL DEF Spec, LatestIsFresh

\* A remembered 404 comes from a node: every step preserves it.
LEMMA DeniedStep == DeniedInv /\ [Next]_vars => DeniedInv'
<1> SUFFICES ASSUME DeniedInv, [Next]_vars PROVE DeniedInv'
  OBVIOUS
<1>1. ASSUME NEW r, NEW s, NEW a, Finish(r, s, a) PROVE DeniedInv'
  BY <1>1 DEF Finish, DeniedInv
<1>2. ASSUME NEW e, e = "404" => Answer(url) = "404", Fallback(e) PROVE DeniedInv'
  <2>1. CASE url = NumUrls
    BY <1>2, <2>1, <1>1 DEF Fallback
  <2>2. CASE url # NumUrls
    BY <1>2, <2>2 DEF Fallback, DeniedInv
  <2> QED
    BY <2>1, <2>2
<1>3. CASE Rejected
  BY <1>1, <1>2, <1>3 DEF Rejected
<1>4. CASE Resolved
  BY <1>1, <1>2, <1>4 DEF Resolved
<1>5. CASE LatestRefused
  BY <1>2, <1>5 DEF LatestRefused
<1>6. CASE LatestResolved
  BY <1>1, <1>2, <1>6 DEF LatestResolved
<1>7. CASE Retry
  BY <1>7 DEF Retry, DeniedInv
<1>8. CASE UNCHANGED <<err, denied>>
  BY <1>8 DEF DeniedInv
<1>9. [Next]_vars => Answered \/ UNCHANGED <<err, denied>>
  BY DEF Next, Request, EpochDone, TimePasses, NodeChanges, NodeAdvances, vars, reqVars
<1> QED
  BY <1>3, <1>4, <1>5, <1>6, <1>7, <1>8, <1>9 DEF Answered

\* Whatever the order of timeouts, failures and unfinalized answers over the
\* URLs, a slot is taken for missed only when a node denied its block.
THEOREM MissedOnlyWhenDenied == Spec => MissedWasDenied
<1>1. ASSUME DeniedInv, [Next]_vars, kind' = "idle", kind \in BlockKind, out'.res = "missed"
      PROVE  denied \/ Answer(url) = "404"
  <2>0. kind # "idle" /\ kind # "latest"
    BY <1>1 DEF BlockKind
  <2>1. Answered
    BY <1>1, <2>0 DEF Next, Request, EpochDone, TimePasses, NodeChanges, NodeAdvances, vars, reqVars
  <2>2. ~ Retry /\ ~ LatestRefused /\ ~ LatestResolved
    BY <1>1, <2>0 DEF Retry, LatestRefused, LatestResolved
  <2>3. ASSUME NEW e, Fallback(e) PROVE e = "404"
    BY <1>1, <2>0, <2>3 DEF Fallback, Finish
  <2>4. CASE Rejected
    BY <1>1, <2>3, <2>4 DEF Rejected, DeniedInv
  <2>5. CASE Resolved
    <3>1. ~ Fallback("unresolved")
      BY <2>3
    <3>2. ~ Finish("ok", 0, Answer(url))
      BY <1>1 DEF Finish
    <3> QED
      BY <2>5, <3>1, <3>2 DEF Resolved
  <2> QED
    BY <2>1, <2>2, <2>4, <2>5 DEF Answered
<1>2. DeniedInv /\ [Next]_vars
        => [kind' = "idle" /\ kind \in BlockKind /\ out'.res = "missed"
              => denied \/ Answer(url) = "404"]_vars
  BY <1>1
<1>3. Init => DeniedInv
  BY DEF Init, DeniedInv
<1> QED
  BY <1>2, <1>3, DeniedStep, PTL DEF Spec, MissedWasDenied

\* In finalized mode no latest slot, block or sync committee comes from an
\* answer that is not finalized.
THEOREM OnlyFinalizedAnswersUsed == Spec => []OnlyFinalizedUsed
<1>1. Init => OnlyFinalizedUsed
  BY DEF Init, NoOut, OnlyFinalizedUsed
<1>2. OnlyFinalizedUsed /\ [Next]_vars => OnlyFinalizedUsed'
  <2> SUFFICES ASSUME OnlyFinalizedUsed, [Next]_vars PROVE OnlyFinalizedUsed'
    OBVIOUS
  <2>1. ASSUME NEW r, NEW s, Finish(r, s, "ok") PROVE OnlyFinalizedUsed'
    BY <2>1 DEF Finish, OnlyFinalizedUsed
  <2>2. ASSUME NEW e, Fallback(e) PROVE OnlyFinalizedUsed'
    <3>1. CASE url = NumUrls
      BY <2>1, <2>2, <3>1 DEF Fallback
    <3>2. CASE url # NumUrls
      BY <2>2, <3>2 DEF Fallback, OnlyFinalizedUsed
    <3> QED
      BY <3>1, <3>2
  <2>3. CASE Rejected
    BY <2>1, <2>2, <2>3 DEF Rejected
  <2>4. CASE Resolved
    <3>1. CASE Answer(url) = "ok"
      BY <2>1, <2>2, <2>4, <3>1 DEF Resolved
    <3>2. CASE Answer(url) = "notfinal" /\ kind \in {"info", "sync"} /\ Finalized
      BY <2>2, <2>4, <3>2 DEF Resolved
    <3>3. CASE ~ (kind \in {"info", "sync"} /\ Finalized)
      <4>1. out'.kind = kind
        BY <2>4, <3>3 DEF Resolved, Finish
      <4> QED
        BY <2>4, <3>3, <4>1 DEF Resolved, OnlyFinalizedUsed
    <3> QED
      BY <2>4, <3>1, <3>2, <3>3 DEF Resolved
  <2>5. CASE LatestRefused
    BY <2>2, <2>5 DEF LatestRefused
  <2>6. CASE LatestResolved
    <3>1. CASE Fallback("unresolved")
      BY <2>2, <3>1
    <3>2. CASE Finish("ok", node[url], Answer(url))
      BY <2>1, <2>6, <3>2 DEF LatestResolved, OnlyFinalizedUsed
    <3> QED
      BY <2>6, <3>1, <3>2 DEF LatestResolved
  <2>7. ASSUME NEW k \in Kind, Request(k) PROVE OnlyFinalizedUsed'
    BY <2>7 DEF Request, NoOut, OnlyFinalizedUsed
  <2>8. CASE UNCHANGED out
    BY <2>8 DEF OnlyFinalizedUsed
  <2> QED
    BY <2>3, <2>4, <2>5, <2>6, <2>7, <2>8
    DEF Next, Answered, Retry, EpochDone, TimePasses, NodeChanges, NodeAdvances, vars
<1> QED
  BY <1>1, <1>2, PTL DEF Spec
=============================================================================
