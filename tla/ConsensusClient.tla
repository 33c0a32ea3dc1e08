-------------------------- MODULE ConsensusClient --------------------------
(***************************************************************************)
(* Requests to the beacon nodes (ConsensusProviderService.retryRequest):   *)
(* a request is tried on one URL after the other until an answer is        *)
(* accepted, and each kind of request has its own rules for giving up an   *)
(* answer or an error.  The nodes fall behind, go down and stall while     *)
(* requests are under way.                                                 *)
(*                                                                         *)
(* Kinds: "latest" is getLatestSlotHeader, "header" getBlockHeader, "info"  *)
(* getBlockInfo, "sync" getSyncCommitteeInfo and "plain" every request with *)
(* the default rules (version, genesis, spec, state, committees, duties).  *)
(***************************************************************************)
EXTENDS Naturals

CONSTANTS
  NumUrls,        \* number of CL_API_URLS
  MaxRetries,     \* CL_API_MAX_RETRIES, CL_API_GET_BLOCK_INFO_MAX_RETRIES
  SlotsPerEpoch,  \* FETCH_INTERVAL_SLOTS
  Finalized,      \* WORKING_MODE is finalized, not head
  MaxSlot         \* bound: no node goes past this slot

ASSUME NumUrlsAssumption == NumUrls \in Nat \ {0}
ASSUME MaxRetriesAssumption == MaxRetries \in Nat
ASSUME SlotsPerEpochAssumption == SlotsPerEpoch \in Nat \ {0}
ASSUME FinalizedAssumption == Finalized \in BOOLEAN
ASSUME MaxSlotAssumption == MaxSlot \in Nat

VARIABLES
  status,   \* what each node is like at the moment
  node,     \* the latest slot of each node
  latest,   \* latestSlot: the slot, and whether it was fetched in the last 7 minutes
  epoch,    \* the epoch the loop asks for
  kind,     \* the request under way, or "idle"
  exists,   \* whether the block it asks for exists
  url,      \* i of the loop over apiUrls
  tries,    \* failed executions of the callback on that URL
  err,      \* err: "none", "404", "other" or "unresolved"
  denied,   \* history: some node answered this request with 404
  seen,     \* history: when each slot was first answered as the latest one
  out       \* history: how the last request ended

nodes == <<status, node>>
reqVars == <<kind, exists, url, tries, err, denied>>
vars == <<nodes, latest, epoch, reqVars, seen, out>>

Url == 1 .. NumUrls
Slot == 0 .. MaxSlot
BlockKind == {"header", "info"}
Kind == BlockKind \cup {"latest", "sync", "plain"}
Error == {"404", "other"}
LastSlot(e) == e * SlotsPerEpoch + (SlotsPerEpoch - 1)

\* The callback is executed once and, when that fails, handed to the retrier,
\* which executes it at least once and at most eight times: its backoff
\* doubles from 100 ms and must stay below 10 s.
TriesPerUrl == 1 + (IF MaxRetries <= 1 THEN 1 ELSE IF MaxRetries >= 8 THEN 8 ELSE MaxRetries)

NoOut == [kind |-> "idle", res |-> "none", slot |-> 0, answer |-> "ok"]

TypeOK ==
  /\ status \in [Url -> {"up", "behind", "unfinal", "down"}]
  /\ node \in [Url -> Slot]
  /\ latest \in [slot : Slot, age : {"recent", "old"}]
  /\ epoch \in Nat
  /\ kind \in Kind \cup {"idle"}
  /\ exists \in BOOLEAN
  /\ url \in Url
  /\ tries \in 0 .. TriesPerUrl - 1
  /\ err \in Error \cup {"none", "unresolved"}
  /\ denied \in BOOLEAN
  /\ seen \in [Slot -> {"never", "recently", "longAgo"}]
  /\ out \in [kind : Kind \cup {"idle"}, res : {"none", "ok", "missed", "error"},
              slot : Slot, answer : {"ok", "notfinal"}]

Init ==
  /\ status \in [Url -> {"up", "behind", "unfinal", "down"}]
  /\ node \in [Url -> Slot]
  /\ latest = [slot |-> 0, age |-> "old"]
  /\ epoch = 0
  /\ kind = "idle" /\ exists = FALSE
  /\ url = 1 /\ tries = 0 /\ err = "none" /\ denied = FALSE
  /\ seen = [s \in Slot |-> "never"]
  /\ out = NoOut

(***************************************************************************)
(* What a node answers to the request under way.  A node that is down      *)
(* times out or fails; one that is behind does not have the block; one     *)
(* that is "unfinal" says finalized: false; another says finalized: true   *)
(* or leaves the field out.                                                *)
(***************************************************************************)
Answer(u) ==
  IF status[u] = "down" THEN "other"
  ELSE IF kind \in BlockKind /\ (status[u] = "behind" \/ ~exists) THEN "404"
  ELSE IF status[u] = "unfinal" THEN "notfinal"
  ELSE "ok"

\* The request ends.
Finish(res, slot, answer) ==
  /\ kind' = "idle" /\ exists' = FALSE
  /\ url' = 1 /\ tries' = 0 /\ err' = "none" /\ denied' = FALSE
  /\ out' = [kind |-> kind, res |-> res, slot |-> slot, answer |-> answer]

\* Mutant of Fallback: the last URL is not recognised as the last one.
FallbackPastTheEnd(e) ==
  /\ url' = url + 1 /\ tries' = 0 /\ err' = e
  /\ denied' = (denied \/ Answer(url) = "404")
  /\ UNCHANGED <<kind, exists, out>>

\* Mutant of Fallback: any error of a block request reads as a missed slot.
FallbackToMissed(e) ==
  IF url = NumUrls
  THEN Finish(IF kind \in BlockKind THEN "missed" ELSE "error", 0, "ok")
  ELSE /\ url' = url + 1 /\ tries' = 0 /\ err' = e
       /\ denied' = (denied \/ Answer(url) = "404")
       /\ UNCHANGED <<kind, exists, out>>

\* Error e is remembered and the next URL is asked; after the last URL it is
\* thrown, which getBlockHeader and getBlockInfo catch when it is a 404.
Fallback(e) ==
  IF url = NumUrls
  THEN Finish(IF kind \in BlockKind /\ e = "404" THEN "missed" ELSE "error", 0, "ok")
  ELSE /\ url' = url + 1 /\ tries' = 0 /\ err' = e
       /\ denied' = (denied \/ Answer(url) = "404")
       /\ UNCHANGED <<kind, exists, out>>

(***************************************************************************)
(* The caller.                                                             *)
(***************************************************************************)
Request(k) ==
  /\ kind = "idle"
  /\ kind' = k
  /\ exists' \in (IF k \in BlockKind THEN BOOLEAN ELSE {FALSE})
  /\ out' = NoOut
  /\ UNCHANGED <<nodes, latest, epoch, url, tries, err, denied, seen>>

\* The latest slot covers the epoch, which is processed.
EpochDone ==
  /\ kind = "idle"
  /\ out.kind = "latest" /\ out.res = "ok"
  /\ LastSlot(epoch) <= out.slot
  /\ epoch' = epoch + 1
  /\ UNCHANGED <<nodes, latest, reqVars, seen, out>>

(***************************************************************************)
(* One execution of the callback.                                          *)
(***************************************************************************)
\* It fails and is repeated on the same URL.
Retry ==
  /\ kind # "idle"
  /\ Answer(url) \in Error
  /\ tries + 1 < TriesPerUrl
  /\ tries' = tries + 1
  /\ denied' = (denied \/ Answer(url) = "404")
  /\ UNCHANGED <<nodes, latest, epoch, kind, exists, url, err, seen, out>>

\* It fails for the last time: useFallbackOnRejected.  A 404 of the URL before
\* is not given up for another error of this one.
Rejected ==
  /\ kind # "idle"
  /\ Answer(url) \in Error
  /\ tries + 1 = TriesPerUrl
  /\ IF kind \in BlockKind /\ err = "404" /\ Answer(url) # "404"
     THEN Finish("missed", 0, "ok")
     ELSE Fallback(Answer(url))
  /\ UNCHANGED <<nodes, latest, epoch, seen>>

\* Mutant of Resolved: an answer that is not finalized is accepted.
ResolvedUnfinalized ==
  /\ kind \in Kind \ {"latest"}
  /\ Answer(url) \in {"ok", "notfinal"}
  /\ Finish("ok", 0, Answer(url))
  /\ UNCHANGED <<nodes, latest, epoch, seen>>

\* It succeeds with something that is not a latest slot: getBlockInfo and
\* getSyncCommitteeInfo do not accept what is not finalized.
Resolved ==
  /\ kind \in Kind \ {"latest"}
  /\ Answer(url) \in {"ok", "notfinal"}
  /\ IF kind \in {"info", "sync"} /\ Finalized /\ Answer(url) = "notfinal"
     THEN Fallback("unresolved")
     ELSE Finish("ok", 0, Answer(url))
  /\ UNCHANGED <<nodes, latest, epoch, seen>>

\* A latest slot that is not finalized, or is lower than one received before,
\* is not accepted.
LatestRefused ==
  /\ kind = "latest"
  /\ \/ Finalized /\ Answer(url) = "notfinal"
     \/ Answer(url) \in {"ok", "notfinal"} /\ node[url] < latest.slot
  /\ Fallback("unresolved")
  /\ UNCHANGED <<nodes, latest, epoch, seen>>

\* Mutant of LatestResolved: a lower slot is taken as well.
LatestResolvedLower ==
  /\ kind = "latest"
  /\ Answer(url) = "ok" \/ (Answer(url) = "notfinal" /\ ~Finalized)
  /\ latest' = IF node[url] # latest.slot THEN [slot |-> node[url], age |-> "recent"] ELSE latest
  /\ seen' = [seen EXCEPT ![node[url]] = IF @ = "never" THEN "recently" ELSE @]
  /\ IF epoch < latest'.slot \div SlotsPerEpoch \/ latest'.age = "recent"
     THEN Finish("ok", node[url], Answer(url))
     ELSE Fallback("unresolved")
  /\ UNCHANGED <<nodes, epoch>>

\* Mutant of LatestResolved: fetchTime moves with every answer.
LatestResolvedRestamped ==
  /\ kind = "latest"
  /\ Answer(url) = "ok" \/ (Answer(url) = "notfinal" /\ ~Finalized)
  /\ node[url] >= latest.slot
  /\ latest' = [slot |-> node[url], age |-> "recent"]
  /\ seen' = [seen EXCEPT ![node[url]] = IF @ = "never" THEN "recently" ELSE @]
  /\ Finish("ok", node[url], Answer(url))
  /\ UNCHANGED <<nodes, epoch>>

\* Any other latest slot is remembered when it is new.  It is accepted unless
\* the epoch asked for is not before its epoch and it is more than 7 minutes old.
LatestResolved ==
  /\ kind = "latest"
  /\ Answer(url) = "ok" \/ (Answer(url) = "notfinal" /\ ~Finalized)
  /\ node[url] >= latest.slot
  /\ latest' = IF node[url] > latest.slot THEN [slot |-> node[url], age |-> "recent"] ELSE latest
  /\ seen' = [seen EXCEPT ![node[url]] = IF @ = "never" THEN "recently" ELSE @]
  /\ IF epoch < latest'.slot \div SlotsPerEpoch \/ latest'.age = "recent"
     THEN Finish("ok", node[url], Answer(url))
     ELSE Fallback("unresolved")
  /\ UNCHANGED <<nodes, epoch>>

(***************************************************************************)
(* The environment.                                                        *)
(***************************************************************************)
NodeChanges(u) ==
  /\ \E st \in {"up", "behind", "unfinal", "down"} : status' = [status EXCEPT ![u] = st]
  /\ UNCHANGED <<node, latest, epoch, reqVars, seen, out>>

NodeAdvances(u) ==
  /\ status[u] = "up"
  /\ node[u] < MaxSlot
  /\ node' = [node EXCEPT ![u] = @ + 1]
  /\ UNCHANGED <<status, latest, epoch, reqVars, seen, out>>

\* More than 7 minutes go by.
TimePasses ==
  /\ latest' = [slot |-> latest.slot, age |-> "old"]
  /\ seen' = [s \in Slot |-> IF seen[s] = "recently" THEN "longAgo" ELSE seen[s]]
  /\ UNCHANGED <<nodes, epoch, reqVars, out>>

Answered == Retry \/ Rejected \/ Resolved \/ LatestRefused \/ LatestResolved

Next ==
  \/ \E k \in Kind : Request(k)
  \/ Answered \/ EpochDone \/ TimePasses
  \/ \E u \in Url : NodeChanges(u) \/ NodeAdvances(u)

Spec == Init /\ [][Next]_vars

(***************************************************************************)
(* Fairness: a request under way goes on, every try having a timeout; the  *)
(* loop keeps asking and, when it may process an epoch again and again,    *)
(* does so in the end (EveryEpochProcessed of EpochProcessing); time       *)
(* passes; and one node, the last of the list, stays up and follows the    *)
(* chain.  The other nodes may stall, lag or fail for ever.                *)
(***************************************************************************)
Fairness ==
  /\ WF_vars(Answered)
  /\ SF_vars(Request("latest")) /\ SF_vars(EpochDone)
  /\ WF_vars(TimePasses)
  /\ <>[](status[NumUrls] = "up")
  /\ WF_vars(NodeAdvances(NumUrls))

FairSpec == Spec /\ Fairness

(***************************************************************************)
(* Properties.                                                             *)
(***************************************************************************)

\* A slot is taken for missed (getBlockHeader and getBlockInfo return
\* undefined) only when a node denied its block in that very request:
\* timeouts, failures and unfinalized answers, in any order over the URLs
\* and retries, are errors.
MissedWasDenied ==
  [][kind' = "idle" /\ kind \in BlockKind /\ out'.res = "missed"
       => denied \/ Answer(url) = "404"]_vars

\* The latest slot the loop works with never goes back, whichever node
\* answered and however far behind the others are.
LatestNeverGoesBack ==
  [][kind = "latest" /\ kind' = "idle" /\ out'.res = "ok"
       => \A s \in Slot : seen[s] # "never" => s <= out'.slot]_vars

\* At the head of the chain the loop never works with a latest slot that was
\* first reported more than 7 minutes ago.
LatestIsFresh ==
  [][kind = "latest" /\ kind' = "idle" /\ out'.res = "ok"
       => epoch < out'.slot \div SlotsPerEpoch \/ seen'[out'.slot] = "recently"]_vars

\* In finalized mode neither the latest slot nor a block nor a sync committee is
\* ever taken from an answer that says it is not finalized.
OnlyFinalizedUsed ==
  Finalized /\ out.kind \in {"latest", "info", "sync"} => out.answer = "ok"

\* A node that stalls, lags or fails at the head of the list does not stop the
\* loop: the node that follows the chain is asked in the end.  (At the last slot
\* of the bounded chain the latest slot cannot change any more.)
HeadIsReached ==
  \A e \in 0 .. MaxSlot : LastSlot(e) < MaxSlot => <>(epoch > e)
=============================================================================
