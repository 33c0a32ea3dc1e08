---------------------------- MODULE BlockSearch ----------------------------
(***************************************************************************)
(* The search for the block an epoch is judged by                          *)
(* (getSlotHeaderOrPreviousIfMissedByParentRootHash) and for the root its  *)
(* duties depend on (getDutyDependentRoot), in a dense and in a sparse     *)
(* network, together with the cache of blocks the search reads and fills.  *)
(* Every request is a step; the node that answers it has the blocks up to  *)
(* head and answers 404 for the others.                                    *)
(*                                                                         *)
(* A block stands for its slot, and so do its header, its root and what    *)
(* the cache holds of it.                                                  *)
(***************************************************************************)
EXTENDS Integers

CONSTANTS
  MaxSlot,         \* bound: the chain does not grow past this slot
  SlotsPerEpoch,   \* FETCH_INTERVAL_SLOTS
  MaxDeep,         \* CL_API_MAX_SLOT_DEEP_COUNT
  SlotTime         \* CHAIN_SLOT_TIME_SECONDS

ASSUME MaxSlotAssumption == MaxSlot \in Nat
ASSUME SlotsPerEpochAssumption == SlotsPerEpoch \in Nat \ {0}
ASSUME MaxDeepAssumption == MaxDeep \in Nat
ASSUME SlotTimeAssumption == SlotTime \in Nat \ {0}

VARIABLES
  network,  \* "sparse" when SPARSE_NETWORK_MODE is set
  nodes,    \* "lagging" when a fallback node that is behind may answer
  chain,    \* slots that have a block; slot 0 is genesis
  head,     \* the node that answers has the blocks up to this slot
  headers, infos, roots, missed,  \* the cache: what it holds, by slot or root
  pc,       \* the request the search is at
  goal,     \* "state", "root", or "fresh" (root with ignoreCache)
  target,   \* the slot it is about
  slot,     \* the slot it asks for
  deep,     \* maxDeep
  both,     \* getSurroundingNotMissedBlockHeadersInDenseNetwork is under way
  next,     \* the next not missed slot, once found
  previous, \* previousSlot of the sparse search
  out       \* history: how the last search ended

world == <<network, nodes, chain>>
cache == <<headers, infos, roots, missed>>
searchVars == <<goal, target, slot, deep, both, next, previous>>
vars == <<world, head, cache, pc, searchVars, out>>

Slot == 0 .. MaxSlot
Goal == {"state", "root", "fresh"}
Pc == {"idle", "caught", "target", "next", "previous", "parent",
       "start", "walk", "exec", "walkNext", "walkPrevious"}

\* b is the last block up to slot s, or the first one after it.
IsLast(b, s) == b \in chain /\ b <= s /\ \A c \in chain : c <= s => c <= b
IsFirstAfter(b, s) == b \in chain /\ b > s /\ \A c \in chain : c > s => c >= b

TypeOK ==
  /\ network \in {"dense", "sparse"} /\ nodes \in {"together", "lagging"}
  /\ chain \subseteq Slot /\ 0 \in chain
  /\ head \in Slot
  /\ headers \subseteq chain /\ infos \subseteq chain /\ roots \subseteq chain
  /\ missed \subseteq Nat
  /\ pc \in Pc /\ goal \in Goal
  /\ target \in Slot /\ slot \in Nat /\ deep \in 0 .. MaxDeep
  /\ both \in BOOLEAN
  /\ next \in Nat /\ previous \in Nat
  /\ out \in [res : {"none", "found", "deep", "error"}, goal : Goal, slot : Slot, target : Slot]

Init ==
  /\ network \in {"dense", "sparse"} /\ nodes \in {"together", "lagging"}
  /\ chain \in SUBSET Slot /\ 0 \in chain
  /\ head \in Slot
  /\ headers = {} /\ infos = {} /\ roots = {} /\ missed = {}
  /\ pc = "idle" /\ goal = "state"
  /\ target = 0 /\ slot = 0 /\ deep = 0 /\ both = FALSE /\ next = 0 /\ previous = 0
  /\ out = [res |-> "none", goal |-> "state", slot |-> 0, target |-> 0]

(***************************************************************************)
(* getBlockHeader and getBlockInfo: what the cache says, or the node.  A   *)
(* 404 is not cached.                                                      *)
(***************************************************************************)
OnNode(s) == s \in chain /\ s <= head

HeaderFound(s) ==
  IF goal = "fresh" THEN OnNode(s) ELSE s \notin missed /\ (s \in headers \/ OnNode(s))

\* Mutant of CacheHeader: a 404 is remembered as a missed slot.
CacheHeaderMissed(s) ==
  /\ headers' = IF HeaderFound(s) THEN headers \cup {s} ELSE headers
  /\ missed' = IF HeaderFound(s) THEN missed ELSE missed \cup {s}
  /\ UNCHANGED <<infos, roots>>

CacheHeader(s) ==
  /\ headers' = IF goal # "fresh" /\ HeaderFound(s) THEN headers \cup {s} ELSE headers
  /\ UNCHANGED <<infos, roots, missed>>

InfoFound(s) == s \notin missed /\ (s \in infos \/ OnNode(s))

CacheInfo(s) ==
  /\ infos' = IF InfoFound(s) THEN infos \cup {s} ELSE infos
  /\ UNCHANGED <<headers, roots, missed>>

(***************************************************************************)
(* How a search ends.  An error of the search for the state reaches the    *)
(* catch of startLoop; one of the duties does so when its retries are used *)
(* up; the optional search for the head is given up.                       *)
(***************************************************************************)
Done(res, s) ==
  /\ out' = [res |-> res, goal |-> goal, slot |-> s, target |-> target]
  /\ goal' = "state"
  /\ target' = 0 /\ slot' = 0 /\ deep' = 0 /\ both' = FALSE /\ next' = 0 /\ previous' = 0

Return(s) == pc' = "idle" /\ Done("found", s)

Throw(res) ==
  /\ pc' \in (CASE goal = "state" -> {"caught"} [] goal = "root" -> {"idle", "caught"}
                [] OTHER -> {"idle"})
  /\ Done(res, 0)

(***************************************************************************)
(* Where a search goes on.                                                 *)
(***************************************************************************)
\* getNextNotMissedBlockHeaderInDenseNetwork(target)
StartNext(surrounding) ==
  /\ pc' = "next" /\ slot' = target + 1 /\ deep' = MaxDeep /\ both' = surrounding
  /\ UNCHANGED <<goal, target, next, previous, out>>

(***************************************************************************)
(* The search.                                                             *)
(***************************************************************************)
\* The target is the last slot of an epoch: of the one to process, which is
\* over ("state"), of the one before it ("root"), or of the one before the head
\* of the chain ("fresh").
Reached(g, t) ==
  CASE g = "state" -> t [] g = "root" -> t + SlotsPerEpoch [] g = "fresh" -> t + 1

Search(g, t) ==
  /\ pc = "idle"
  /\ (t + 1) % SlotsPerEpoch = 0
  /\ \E b \in chain : Reached(g, t) <= b /\ b <= head
  /\ goal' = g /\ target' = t
  /\ slot' = t /\ deep' = MaxDeep
  /\ pc' = IF g = "state" THEN "target"
           ELSE IF g = "root" /\ network = "sparse" THEN "start" ELSE "previous"
  /\ UNCHANGED <<world, head, cache, both, next, previous, out>>

\* The header of the target itself; when it is missing, the next block is sought.
GetTarget ==
  /\ pc = "target"
  /\ CacheHeader(target)
  /\ IF HeaderFound(target)
     THEN Return(target)
     ELSE IF network = "sparse"
     THEN pc' = "start" /\ UNCHANGED <<searchVars, out>>
     ELSE StartNext(FALSE)
  /\ UNCHANGED <<world, head>>

\* One round of getNextNotMissedBlockHeaderInDenseNetwork.
GetNext ==
  /\ pc = "next"
  /\ CacheHeader(slot)
  /\ IF HeaderFound(slot)
     THEN /\ next' = slot
          /\ IF both
             THEN pc' = "previous" /\ slot' = target /\ deep' = MaxDeep
             ELSE pc' = "parent" /\ UNCHANGED <<slot, deep>>
          /\ UNCHANGED <<goal, target, both, previous, out>>
     ELSE IF deep = 0
     THEN Throw("deep")
     ELSE /\ slot' = slot + 1 /\ deep' = deep - 1
          /\ UNCHANGED <<pc, goal, target, both, next, previous, out>>
  /\ UNCHANGED <<world, head>>

\* Mutant of GetPrevious: the depth is not looked at.
GetPreviousUnbounded ==
  /\ pc = "previous"
  /\ CacheHeader(slot)
  /\ IF HeaderFound(slot)
     THEN Return(slot)
     ELSE /\ slot' = slot - 1 /\ deep' = deep - 1
          /\ UNCHANGED <<pc, goal, target, both, next, previous, out>>
  /\ UNCHANGED <<world, head>>

\* Mutant of GetPrevious: while (maxDeep > 0).
GetPreviousShort ==
  /\ pc = "previous"
  /\ CacheHeader(slot)
  /\ IF HeaderFound(slot)
     THEN IF goal = "state"
          THEN pc' = "parent" /\ UNCHANGED <<searchVars, out>>
          ELSE Return(slot)
     ELSE IF deep <= 1
     THEN Throw("deep")
     ELSE /\ slot' = slot - 1 /\ deep' = deep - 1
          /\ UNCHANGED <<pc, goal, target, both, next, previous, out>>
  /\ UNCHANGED <<world, head>>

\* One round of getCurrentOrPreviousNotMissedBlockHeaderInDenseNetwork.
GetPrevious ==
  /\ pc = "previous"
  /\ CacheHeader(slot)
  /\ IF HeaderFound(slot)
     THEN IF goal = "state"
          THEN pc' = "parent" /\ UNCHANGED <<searchVars, out>>
          ELSE Return(slot)
     ELSE IF deep = 0
     THEN Throw("deep")
     ELSE /\ slot' = slot - 1 /\ deep' = deep - 1
          /\ UNCHANGED <<pc, goal, target, both, next, previous, out>>
  /\ UNCHANGED <<world, head>>

\* getBlockHeader(next.parent_root) is the answer to "state".
GetParent ==
  /\ pc = "parent"
  /\ \E p \in chain :
       /\ IsLast(p, next - 1)
       /\ IF p \in roots \/ p <= head
          THEN Return(p) /\ roots' = roots \cup {p}
          ELSE Throw("error") /\ UNCHANGED roots
  /\ UNCHANGED <<world, head, headers, infos, missed>>

(***************************************************************************)
(* getSurroundingNotMissedBlockHeadersInSparseNetwork.                     *)
(***************************************************************************)
\* last_not_missed_slot of the epoch before in epochs_metadata is what an
\* earlier search found, or 0 when there is no row.
GetLastNotMissedSlot ==
  /\ pc = "start"
  /\ \E known \in {b \in chain : b <= target} \cup {0} :
       IF known = 0
       THEN StartNext(TRUE)
       ELSE /\ pc' = "walk" /\ slot' = known
            /\ UNCHANGED <<goal, target, deep, both, next, previous, out>>
  /\ UNCHANGED <<world, head, cache>>

\* getBlockInfo(slot); a missing block ends the walk.
GetInfo ==
  /\ pc = "walk"
  /\ CacheInfo(slot)
  /\ IF InfoFound(slot)
     THEN pc' = "exec" /\ UNCHANGED <<searchVars, out>>
     ELSE StartNext(TRUE)
  /\ UNCHANGED <<world, head>>

\* Mutant of GetNextBlockTime: previousSlot is taken after the step.
GetNextBlockTimeLate ==
  /\ pc = "exec"
  /\ \E b \in chain :
       /\ IsFirstAfter(b, slot)
       /\ missed' = missed \cup (slot + 1 .. b - 1)
       /\ previous' = b /\ slot' = b
       /\ pc' = IF b <= target THEN "walk" ELSE "walkNext"
  /\ UNCHANGED <<world, head, headers, infos, roots, goal, target, deep, both, next, out>>

\* The execution node gives the time of the block after this one, from which
\* its slot is computed, 12 seconds a slot.  What lies between is marked as
\* missed.  A slot that is not a whole number is refused by the node.
GetNextBlockTime ==
  /\ pc = "exec"
  /\ \E b \in chain :
       /\ IsFirstAfter(b, slot)
       /\ LET seconds == (b - slot) * SlotTime
              skipped == {i \in slot + 1 .. slot + seconds : (i - slot) * 12 < seconds}
              there == slot + seconds \div 12
          IN /\ missed' = missed \cup skipped
             /\ headers' = headers \ skipped
             /\ infos' = infos \ skipped
             /\ UNCHANGED roots
             /\ IF seconds % 12 # 0
                THEN Throw("error")
                ELSE /\ previous' = slot
                     /\ slot' = there
                     /\ pc' = IF there <= target THEN "walk" ELSE "walkNext"
                     /\ UNCHANGED <<goal, target, deep, both, next, out>>
  /\ UNCHANGED <<world, head>>

\* The headers of the two slots found; they are missing but should not be.
GetWalkNext ==
  /\ pc = "walkNext"
  /\ CacheHeader(slot)
  /\ IF HeaderFound(slot)
     THEN /\ pc' = "walkPrevious" /\ next' = slot
          /\ UNCHANGED <<goal, target, slot, deep, both, previous, out>>
     ELSE Throw("error")
  /\ UNCHANGED <<world, head>>

GetWalkPrevious ==
  /\ pc = "walkPrevious"
  /\ CacheHeader(previous)
  /\ IF HeaderFound(previous)
     THEN IF goal = "state"
          THEN pc' = "parent" /\ UNCHANGED <<searchVars, out>>
          ELSE Return(previous)
     ELSE Throw("error")
  /\ UNCHANGED <<world, head>>

\* A request fails on every URL, or the execution node has no next block yet.
RequestFails ==
  /\ pc \notin {"idle", "caught"}
  /\ Throw("error")
  /\ UNCHANGED <<world, head, cache>>

(***************************************************************************)
(* The rest of the loop and the environment.                               *)
(***************************************************************************)
\* The catch of startLoop: blockCacheService.clear().
ClearCache ==
  /\ pc = "caught"
  /\ headers' = {} /\ infos' = {} /\ roots' = {} /\ missed' = {}
  /\ pc' = "idle"
  /\ UNCHANGED <<world, head, searchVars, out>>

\* blockCacheService.purgeOld(e) forgets what is kept by root, and all slots
\* more than an epoch before e.
PurgeOld(e) ==
  LET first == (e - 2) * SlotsPerEpoch IN
  /\ pc = "idle"
  /\ headers' = {s \in headers : s >= first}
  /\ infos' = {s \in infos : s >= first}
  /\ missed' = {s \in missed : s >= first}
  /\ roots' = {}
  /\ UNCHANGED <<world, head, pc, searchVars, out>>

\* A request of the prefetch, of another duty or of an iteration that failed
\* is answered and its block cached, whatever the cache says by now.
OtherHeader(s) ==
  /\ OnNode(s)
  /\ headers' = headers \cup {s}
  /\ missed' = missed \ {s}
  /\ UNCHANGED <<world, head, infos, roots, pc, searchVars, out>>

OtherInfo(s) ==
  /\ OnNode(s)
  /\ infos' = infos \cup {s}
  /\ missed' = missed \ {s}
  /\ UNCHANGED <<world, head, headers, roots, pc, searchVars, out>>

\* The node follows the chain; another one may be behind it.
HeadMoves ==
  /\ head' \in Slot
  /\ nodes = "lagging" \/ head' > head
  /\ UNCHANGED <<world, cache, pc, searchVars, out>>

Step ==
  \/ GetTarget \/ GetNext \/ GetPrevious \/ GetParent
  \/ GetLastNotMissedSlot \/ GetInfo \/ GetNextBlockTime \/ GetWalkNext \/ GetWalkPrevious

Next ==
  \/ \E g \in Goal, t \in Slot \ {0} : Search(g, t)
  \/ Step \/ RequestFails \/ ClearCache \/ HeadMoves
  \/ \E e \in 2 .. MaxSlot : PurgeOld(e)
  \/ \E s \in Slot : OtherHeader(s) \/ OtherInfo(s)

Spec == Init /\ [][Next]_vars

(***************************************************************************)
(* Properties.                                                             *)
(***************************************************************************)

\* A slot the cache marks as missed has no block, whatever nodes answered
\* (a 404 of a node that is behind is not cached) and whatever the sparse
\* search skipped: a proposer is judged by that mark.
MissedMarkIsTrue == missed \cap chain = {}

\* A search that ends well has found the last block up to its target, in a
\* dense and in a sparse network and whatever the cache held: the epoch is
\* judged by the right state and its duties by the right root.  The nodes that
\* answer must not go back behind what another one answered.
SearchIsExact == nodes = "together" /\ out.res = "found" => IsLast(out.slot, out.target)

\* The search gives up for its depth only when slots in a row are really
\* missed: the slot asked about and CL_API_MAX_SLOT_DEEP_COUNT before it, or
\* CL_API_MAX_SLOT_DEEP_COUNT + 1 after it.  The last of the slots after it is
\* one more than the README allows for: see ThrowsAtTheDepth.
DeepErrorIsJustified ==
  nodes = "together" /\ out.res = "deep" =>
    \/ chain \cap (out.target + 1 .. out.target + 1 + MaxDeep) = {}
    \/ chain \cap (out.target - MaxDeep .. out.target) = {}

(***************************************************************************)
(* What the README says and the code does not do.                          *)
(***************************************************************************)

\* "If the processed slot and all next (or previous) CL_API_MAX_SLOT_DEEP_COUNT
\* slots are missed, the app will throw an error": in a dense network a search
\* for the state of a slot does not end well when that slot and that many
\* after it have no block (getNextNotMissedBlockHeaderInDenseNetwork).
ThrowsAtTheDepth ==
  nodes = "together" /\ network = "dense" /\ out.goal = "state" /\ out.res = "found" =>
    chain \cap (out.target .. out.target + MaxDeep) # {}

=============================================================================
