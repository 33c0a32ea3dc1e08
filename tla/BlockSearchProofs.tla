------------------------- MODULE BlockSearchProofs -------------------------
(***************************************************************************)
(* Theorems about BlockSearch: types, the truth of the marks in the cache  *)
(* and the exactness of the search, for every chain, depth and epoch size. *)
(***************************************************************************)
EXTENDS BlockSearch, TLAPS

OutType == [res : {"none", "found", "deep", "error"}, goal : Goal, slot : Slot, target : Slot]

\* The types without the Boolean variable, which has a step of its own.
CacheOK ==
  /\ headers \subseteq chain /\ infos \subseteq chain /\ roots \subseteq chain
  /\ missed \subseteq Nat /\ 0 \notin missed

SearchOK ==
  /\ pc \in Pc /\ goal \in Goal
  /\ target \in Slot /\ slot \in Nat /\ deep \in 0 .. MaxDeep
  /\ next \in Nat /\ previous \in Nat
  /\ out \in OutType

ChainOK ==
  /\ network \in {"dense", "sparse"} /\ nodes \in {"together", "lagging"}
  /\ chain \subseteq Slot /\ 0 \in chain /\ head \in Slot

TypeInv == ChainOK /\ CacheOK /\ SearchOK

BothOK == both \in BOOLEAN

\* The type of the bounded chain follows from the assumptions.
LEMMA SlotIsNat == Slot \subseteq Nat /\ 0 \in Slot /\ MaxDeep \in 0 .. MaxDeep
  BY MaxSlotAssumption, MaxDeepAssumption DEF Slot

\* What the cache or the node returns is a block of the chain.
LEMMA FoundOnChain ==
  ASSUME CacheOK, NEW s
  PROVE  /\ HeaderFound(s) => s \in chain
         /\ InfoFound(s) => s \in chain
  BY DEF CacheOK, HeaderFound, InfoFound, OnNode

\* Genesis is always found, so that no search goes below slot 0.
LEMMA GenesisFound == ChainOK /\ CacheOK => HeaderFound(0)
  BY MaxSlotAssumption DEF ChainOK, CacheOK, HeaderFound, OnNode, Slot

\* A search that returns a slot of the chain keeps the types.
LEMMA ReturnOK ==
  ASSUME ChainOK, SearchOK, NEW s \in chain, Return(s)
  PROVE  SearchOK' /\ pc' = "idle"
         /\ out'.res = "found" /\ out'.slot = s /\ out'.target = target /\ out'.goal = goal
  <1>1. s \in Slot BY DEF ChainOK
  <1>2. out' = [res |-> "found", goal |-> goal, slot |-> s, target |-> target]
    BY DEF Return, Done
  <1>3. out' \in OutType BY <1>1, <1>2 DEF OutType, SearchOK
  <1> QED BY <1>2, <1>3, SlotIsNat, MaxDeepAssumption DEF Return, Done, SearchOK, Pc, Goal

\* So does one that throws.
LEMMA ThrowOK ==
  ASSUME SearchOK, NEW res \in {"deep", "error"}, Throw(res)
  PROVE  SearchOK' /\ pc' \in {"idle", "caught"}
         /\ out'.res = res /\ out'.target = target /\ out'.goal = goal
  <1>1. out' = [res |-> res, goal |-> goal, slot |-> 0, target |-> target]
    BY DEF Throw, Done
  <1>2. out' \in OutType BY <1>1, SlotIsNat DEF OutType, SearchOK
  <1>3. pc' \in {"idle", "caught"}
    <2>1. CASE goal = "state" BY <2>1 DEF Throw
    <2>2. CASE goal = "root" BY <2>2 DEF Throw
    <2>3. CASE goal = "fresh" BY <2>3 DEF Throw
    <2> QED BY <2>1, <2>2, <2>3 DEF SearchOK, Goal
  <1> QED BY <1>1, <1>2, <1>3, SlotIsNat, MaxDeepAssumption DEF Throw, Done, SearchOK, Pc, Goal

\* So does the start of the dense search.
LEMMA StartNextOK ==
  ASSUME SearchOK, NEW b, StartNext(b)
  PROVE  SearchOK'
  BY SlotIsNat, MaxDeepAssumption DEF StartNext, SearchOK, Pc, OutType, Goal

\* The chain and the settings never change.
LEMMA ChainStays == ChainOK /\ [Next]_vars => chain' = chain /\ nodes' = nodes /\ ChainOK'
  <1> SUFFICES ASSUME ChainOK, [Next]_vars PROVE world' = world /\ head' \in Slot
    BY DEF ChainOK, world
  <1> USE DEF ChainOK, world
  <1>1. ASSUME NEW g \in Goal, NEW t \in Slot \ {0}, Search(g, t) PROVE world' = world /\ head' \in Slot
    BY <1>1 DEF Search
  <1>2. CASE Step
    BY <1>2 DEF Step, GetTarget, GetNext, GetPrevious, GetParent, GetLastNotMissedSlot, GetInfo,
                GetNextBlockTime, GetWalkNext, GetWalkPrevious
  <1>3. CASE RequestFails \/ ClearCache \/ HeadMoves
    BY <1>3 DEF RequestFails, ClearCache, HeadMoves
  <1>4. ASSUME NEW e \in 2 .. MaxSlot, PurgeOld(e) PROVE world' = world /\ head' \in Slot
    BY <1>4 DEF PurgeOld
  <1>5. ASSUME NEW s \in Slot, OtherHeader(s) \/ OtherInfo(s) PROVE world' = world /\ head' \in Slot
    BY <1>5 DEF OtherHeader, OtherInfo
  <1>6. CASE UNCHANGED vars BY <1>6 DEF vars
  <1> QED BY <1>1, <1>2, <1>3, <1>4, <1>5, <1>6 DEF Next

\* The cache keeps blocks of the chain only, and never marks genesis.
LEMMA CacheStep == TypeInv /\ [Next]_vars => CacheOK'
  <1> SUFFICES ASSUME TypeInv, [Next]_vars PROVE CacheOK' OBVIOUS
  <1>0. chain' = chain /\ chain \subseteq Nat BY ChainStays, SlotIsNat DEF TypeInv, ChainOK
  <1> USE DEF TypeInv
  <1>a. ASSUME NEW s, CacheHeader(s) PROVE CacheOK'
    BY <1>0, <1>a, FoundOnChain DEF CacheHeader, CacheOK
  <1>b. ASSUME NEW s, CacheInfo(s) PROVE CacheOK'
    BY <1>0, <1>b, FoundOnChain DEF CacheInfo, CacheOK
  <1>c. ASSUME UNCHANGED cache PROVE CacheOK'
    BY <1>0, <1>c DEF cache, CacheOK
  <1>1. ASSUME NEW g \in Goal, NEW t \in Slot \ {0}, Search(g, t) PROVE CacheOK'
    BY <1>1, <1>c DEF Search
  <1>2. CASE GetTarget \/ GetNext \/ GetPrevious \/ GetWalkNext \/ GetWalkPrevious
    BY <1>2, <1>a DEF GetTarget, GetNext, GetPrevious, GetWalkNext, GetWalkPrevious
  <1>3. CASE GetParent
    <2>1. roots' \subseteq chain BY <1>3 DEF GetParent, CacheOK
    <2> QED BY <1>0, <1>3, <2>1 DEF GetParent, CacheOK
  <1>4. CASE GetLastNotMissedSlot \/ RequestFails
    BY <1>4, <1>c DEF GetLastNotMissedSlot, RequestFails
  <1>5. CASE GetInfo BY <1>5, <1>b DEF GetInfo
  <1>6. CASE GetNextBlockTime
    <2>1. PICK b \in chain :
            /\ IsFirstAfter(b, slot)
            /\ \E skipped \in SUBSET (slot + 1 .. slot + (b - slot) * SlotTime) :
                 /\ missed' = missed \cup skipped
                 /\ headers' = headers \ skipped
                 /\ infos' = infos \ skipped
            /\ UNCHANGED roots
      BY <1>6 DEF GetNextBlockTime
    <2>2. PICK skipped \in SUBSET (slot + 1 .. slot + (b - slot) * SlotTime) :
            /\ missed' = missed \cup skipped
            /\ headers' = headers \ skipped
            /\ infos' = infos \ skipped
      BY <2>1
    <2>3. slot \in Nat BY DEF SearchOK
    <2>4. \A i \in skipped : i \in Nat /\ i # 0 BY <2>3
    <2> QED BY <1>0, <2>1, <2>2, <2>4 DEF CacheOK
  <1>7. CASE ClearCache BY <1>0, <1>7 DEF ClearCache, CacheOK
  <1>8. CASE HeadMoves BY <1>8, <1>c DEF HeadMoves
  <1>9. ASSUME NEW e \in 2 .. MaxSlot, PurgeOld(e) PROVE CacheOK'
    BY <1>0, <1>9 DEF PurgeOld, CacheOK
  <1>10. ASSUME NEW s \in Slot, OtherHeader(s) \/ OtherInfo(s) PROVE CacheOK'
    BY <1>0, <1>10 DEF OtherHeader, OtherInfo, OnNode, CacheOK
  <1>11. CASE UNCHANGED vars BY <1>11, <1>c DEF vars
  <1> QED BY <1>1, <1>2, <1>3, <1>4, <1>5, <1>6, <1>7, <1>8, <1>9, <1>10, <1>11 DEF Next, Step

\* The slot the sparse search computes.
LEMMA WalkForward ==
  ASSUME NEW d \in Nat, NEW t \in Nat
  PROVE  d * t \in Nat /\ (d * t) \div 12 \in Nat
  OBVIOUS

\* Every step keeps the types of the search.
LEMMA SearchStep == TypeInv /\ [Next]_vars => SearchOK'
  <1> SUFFICES ASSUME TypeInv, [Next]_vars PROVE SearchOK' OBVIOUS
  <1> USE DEF TypeInv
  <1>0. chain \subseteq Nat BY SlotIsNat DEF ChainOK
  <1>a. ASSUME UNCHANGED <<pc, searchVars, out>> PROVE SearchOK'
    BY <1>a DEF searchVars, SearchOK
  <1>b. ASSUME NEW p \in Pc, pc' = p, UNCHANGED <<searchVars, out>> PROVE SearchOK'
    BY <1>b DEF searchVars, SearchOK
  <1>1. ASSUME NEW g \in Goal, NEW t \in Slot \ {0}, Search(g, t) PROVE SearchOK'
    BY <1>1, SlotIsNat DEF Search, SearchOK, Pc
  <1>2. CASE GetTarget
    <2>1. CASE HeaderFound(target)
      <3>1. target \in chain BY <2>1, FoundOnChain
      <3> QED BY <1>2, <2>1, <3>1, ReturnOK DEF GetTarget
    <2>2. CASE ~HeaderFound(target) /\ network = "sparse"
      BY <1>2, <2>2, <1>b DEF GetTarget, Pc
    <2>3. CASE ~HeaderFound(target) /\ network # "sparse"
      BY <1>2, <2>3, StartNextOK DEF GetTarget
    <2> QED BY <2>1, <2>2, <2>3
  <1>3. CASE GetNext
    <2>1. CASE HeaderFound(slot)
      <3>1. /\ next' = slot /\ pc' \in {"previous", "parent"}
            /\ slot' \in {slot, target} /\ deep' \in {deep, MaxDeep}
            /\ UNCHANGED <<goal, target, previous, out>>
        BY <1>3, <2>1 DEF GetNext
      <3> QED BY <3>1, SlotIsNat DEF SearchOK, Pc
    <2>2. CASE ~HeaderFound(slot) /\ deep = 0
      BY <1>3, <2>2, ThrowOK DEF GetNext
    <2>3. CASE ~HeaderFound(slot) /\ deep # 0
      BY <1>3, <2>3, MaxDeepAssumption DEF GetNext, SearchOK, Pc
    <2> QED BY <2>1, <2>2, <2>3
  <1>4. CASE GetPrevious
    <2>1. CASE HeaderFound(slot) /\ goal = "state"
      BY <1>4, <2>1, <1>b DEF GetPrevious, Pc
    <2>2. CASE HeaderFound(slot) /\ goal # "state"
      <3>1. slot \in chain BY <2>2, FoundOnChain
      <3> QED BY <1>4, <2>2, <3>1, ReturnOK DEF GetPrevious
    <2>3. CASE ~HeaderFound(slot) /\ deep = 0
      BY <1>4, <2>3, ThrowOK DEF GetPrevious
    <2>4. CASE ~HeaderFound(slot) /\ deep # 0
      <3>1. slot # 0 BY <2>4, GenesisFound
      <3> QED BY <1>4, <2>4, <3>1, MaxDeepAssumption DEF GetPrevious, SearchOK, Pc
    <2> QED BY <2>1, <2>2, <2>3, <2>4
  <1>5. CASE GetParent
    <2>1. PICK p \in chain : Return(p) \/ Throw("error") BY <1>5 DEF GetParent
    <2> QED BY <2>1, ReturnOK, ThrowOK
  <1>6. CASE GetLastNotMissedSlot
    <2>1. PICK known \in {b \in chain : b <= target} \cup {0} :
            \/ StartNext(TRUE)
            \/ /\ pc' = "walk" /\ slot' = known
               /\ UNCHANGED <<goal, target, deep, both, next, previous, out>>
      BY <1>6 DEF GetLastNotMissedSlot
    <2>2. CASE StartNext(TRUE) BY <2>2, StartNextOK
    <2>3. CASE /\ pc' = "walk" /\ slot' = known
               /\ UNCHANGED <<goal, target, deep, both, next, previous, out>>
      BY <1>0, <2>3 DEF SearchOK, Pc
    <2> QED BY <2>1, <2>2, <2>3
  <1>7. CASE GetInfo
    <2>1. CASE InfoFound(slot) BY <1>7, <2>1, <1>b DEF GetInfo, Pc
    <2>2. CASE ~InfoFound(slot) BY <1>7, <2>2, StartNextOK DEF GetInfo
    <2> QED BY <2>1, <2>2
  <1>8. CASE GetNextBlockTime
    <2>1. PICK b \in chain :
            /\ IsFirstAfter(b, slot)
            /\ \/ Throw("error")
               \/ /\ previous' = slot
                  /\ slot' = slot + ((b - slot) * SlotTime) \div 12
                  /\ pc' \in {"walk", "walkNext"}
                  /\ UNCHANGED <<goal, target, deep, both, next, out>>
      BY <1>8 DEF GetNextBlockTime
    <2>2. CASE Throw("error") BY <2>2, ThrowOK
    <2>3. CASE /\ previous' = slot
               /\ slot' = slot + ((b - slot) * SlotTime) \div 12
               /\ pc' \in {"walk", "walkNext"}
               /\ UNCHANGED <<goal, target, deep, both, next, out>>
      <3>1. slot \in Nat /\ b - slot \in Nat BY <1>0, <2>1 DEF IsFirstAfter, SearchOK
      <3>2. ((b - slot) * SlotTime) \div 12 \in Nat BY <3>1, WalkForward, SlotTimeAssumption
      <3>3. slot' \in Nat BY <2>3, <3>1, <3>2
      <3> QED BY <2>3, <3>1, <3>3 DEF SearchOK, Pc
    <2> QED BY <2>1, <2>2, <2>3
  <1>9. CASE GetWalkNext
    <2>1. CASE HeaderFound(slot) BY <1>9, <2>1 DEF GetWalkNext, SearchOK, Pc
    <2>2. CASE ~HeaderFound(slot) BY <1>9, <2>2, ThrowOK DEF GetWalkNext
    <2> QED BY <2>1, <2>2
  <1>10. CASE GetWalkPrevious
    <2>1. CASE HeaderFound(previous) /\ goal = "state"
      BY <1>10, <2>1, <1>b DEF GetWalkPrevious, Pc
    <2>2. CASE HeaderFound(previous) /\ goal # "state"
      <3>1. previous \in chain BY <2>2, FoundOnChain
      <3> QED BY <1>10, <2>2, <3>1, ReturnOK DEF GetWalkPrevious
    <2>3. CASE ~HeaderFound(previous) BY <1>10, <2>3, ThrowOK DEF GetWalkPrevious
    <2> QED BY <2>1, <2>2, <2>3
  <1>11. CASE RequestFails BY <1>11, ThrowOK DEF RequestFails
  <1>12. CASE ClearCache BY <1>12, <1>b DEF ClearCache, Pc
  <1>13. CASE HeadMoves BY <1>13, <1>a DEF HeadMoves
  <1>14. ASSUME NEW e \in 2 .. MaxSlot, PurgeOld(e) PROVE SearchOK'
    BY <1>14, <1>a DEF PurgeOld
  <1>15. ASSUME NEW s \in Slot, OtherHeader(s) \/ OtherInfo(s) PROVE SearchOK'
    BY <1>15, <1>a DEF OtherHeader, OtherInfo
  <1>16. CASE UNCHANGED vars BY <1>16, <1>a DEF vars
  <1> QED
    BY <1>1, <1>2, <1>3, <1>4, <1>5, <1>6, <1>7, <1>8, <1>9, <1>10, <1>11, <1>12, <1>13,
       <1>14, <1>15, <1>16 DEF Next, Step

\* The Boolean variable.
LEMMA BothStep == BothOK /\ [Next]_vars => BothOK'
  <1> SUFFICES ASSUME both \in BOOLEAN, [Next]_vars PROVE both' \in BOOLEAN BY DEF BothOK
  <1>1. both' = both \/ both' = TRUE \/ both' = FALSE
    BY DEF Next, Step, Search, GetTarget, GetNext, GetPrevious, GetParent, GetLastNotMissedSlot,
           GetInfo, GetNextBlockTime, GetWalkNext, GetWalkPrevious, RequestFails, ClearCache,
           HeadMoves, PurgeOld, OtherHeader, OtherInfo, Return, Throw, Done, StartNext,
           searchVars, vars
  <1> QED BY <1>1

\* Initially nothing is cached and no search is under way.
LEMMA SearchInit == Init => TypeInv /\ BothOK
  <1> SUFFICES ASSUME Init PROVE TypeInv /\ BothOK OBVIOUS
  <1> USE SlotIsNat, MaxDeepAssumption DEF Init
  <1>1. ChainOK /\ CacheOK BY DEF ChainOK, CacheOK
  <1>2. out \in OutType BY DEF OutType, Goal
  <1>3. SearchOK BY <1>2 DEF SearchOK, Pc, Goal
  <1>4. BothOK BY DEF BothOK
  <1> QED BY <1>1, <1>3, <1>4 DEF TypeInv

\* The types, with the cache holding blocks of the chain only.
LEMMA SearchTypes == Spec => [](TypeInv /\ BothOK)
  <1>1. TypeInv /\ [Next]_vars => TypeInv'
    BY ChainStays, CacheStep, SearchStep DEF TypeInv
  <1> QED BY <1>1, SearchInit, BothStep, PTL DEF Spec

\* Every variable of the search and of the cache keeps its type, for every
\* slot time and with lagging nodes: the searches stay within their depth and
\* above genesis, and the cache never holds what is not a block.
THEOREM SearchTypeCorrect == Spec => []TypeOK
  <1>1. TypeInv /\ BothOK => TypeOK
    <2> SUFFICES ASSUME TypeInv, BothOK PROVE TypeOK OBVIOUS
    <2>1. out \in [res : {"none", "found", "deep", "error"}, goal : Goal, slot : Slot, target : Slot]
      BY DEF TypeInv, SearchOK, OutType
    <2>2. both \in BOOLEAN BY DEF BothOK
    <2> QED BY <2>1, <2>2 DEF TypeInv, ChainOK, CacheOK, SearchOK, TypeOK
  <1> QED BY <1>1, SearchTypes, PTL

(***************************************************************************)
(* The marks in the cache.                                                 *)
(***************************************************************************)
\* Where the sparse search stands is a block, not after the target.
WalkInv == pc \in {"walk", "exec"} => slot \in chain /\ slot <= target

\* With slots of 12 seconds the sparse search computes the slot of the next
\* block and skips what lies before it.
LEMMA TwelveSeconds ==
  ASSUME SlotTime = 12, NEW s \in Nat, NEW b \in Nat, b > s
  PROVE  /\ ((b - s) * SlotTime) % 12 = 0
         /\ s + ((b - s) * SlotTime) \div 12 = b
         /\ \A i \in Nat : (i - s) * 12 < (b - s) * SlotTime => i < b
  <1> DEFINE d == b - s
  <1>1. d \in Nat OBVIOUS
  <1>2. (d * 12) % 12 = 0 /\ (d * 12) \div 12 = d BY <1>1
  <1>3. (b - s) * SlotTime = d * 12 OBVIOUS
  <1>4. \A i \in Nat : (i - s) * 12 < (b - s) * 12 => i < b OBVIOUS
  <1> HIDE DEF d
  <1>5. s + d = b BY DEF d
  <1> QED BY <1>2, <1>3, <1>4, <1>5

\* One step of the walk with slots of 12 seconds.
LEMMA WalkStep ==
  ASSUME SlotTime = 12, TypeInv, GetNextBlockTime
  PROVE  \E b \in chain :
           /\ IsFirstAfter(b, slot)
           /\ previous' = slot /\ slot' = b
           /\ pc' = IF b <= target THEN "walk" ELSE "walkNext"
           /\ UNCHANGED <<goal, target, next, out>>
           /\ \A i \in missed' : i \in missed \/ (slot < i /\ i < b)
  <1>0. slot \in Nat /\ chain \subseteq Nat BY SlotIsNat DEF TypeInv, SearchOK, ChainOK
  <1>1. PICK b \in chain :
          /\ IsFirstAfter(b, slot)
          /\ missed' = missed \cup {i \in slot + 1 .. slot + (b - slot) * SlotTime :
                                      (i - slot) * 12 < (b - slot) * SlotTime}
          /\ ((b - slot) * SlotTime) % 12 = 0 =>
               /\ previous' = slot
               /\ slot' = slot + ((b - slot) * SlotTime) \div 12
               /\ pc' = IF slot + ((b - slot) * SlotTime) \div 12 <= target THEN "walk" ELSE "walkNext"
               /\ UNCHANGED <<goal, target, next, out>>
    BY DEF GetNextBlockTime
  <1>2. b \in Nat /\ b > slot BY <1>0, <1>1 DEF IsFirstAfter
  <1>3. /\ ((b - slot) * SlotTime) % 12 = 0
        /\ slot + ((b - slot) * SlotTime) \div 12 = b
        /\ \A i \in Nat : (i - slot) * 12 < (b - slot) * SlotTime => i < b
    BY <1>0, <1>2, TwelveSeconds
  <1>4. ASSUME NEW i \in missed', i \notin missed PROVE slot < i /\ i < b
    <2>1. i \in slot + 1 .. slot + (b - slot) * SlotTime
          /\ (i - slot) * 12 < (b - slot) * SlotTime
      BY <1>1, <1>4
    <2>2. i \in Nat /\ slot < i BY <1>0, <2>1
    <2> QED BY <1>3, <2>1, <2>2
  <1> QED BY <1>1, <1>3, <1>4

\* The walk stays on blocks.
LEMMA WalkInvStep == SlotTime = 12 /\ TypeInv /\ WalkInv /\ [Next]_vars => WalkInv'
  <1> SUFFICES ASSUME SlotTime = 12, TypeInv, WalkInv, [Next]_vars PROVE WalkInv' OBVIOUS
  <1>0. chain' = chain BY ChainStays DEF TypeInv
  <1>1. CASE GetLastNotMissedSlot
    <2>1. PICK known \in {b \in chain : b <= target} \cup {0} :
            \/ StartNext(TRUE)
            \/ known # 0 /\ pc' = "walk" /\ slot' = known /\ target' = target
      BY <1>1 DEF GetLastNotMissedSlot
    <2> QED BY <1>0, <2>1 DEF StartNext, WalkInv
  <1>2. CASE GetInfo
    BY <1>0, <1>2 DEF GetInfo, StartNext, WalkInv, searchVars
  <1>3. CASE GetNextBlockTime
    <2>1. PICK b \in chain : /\ previous' = slot /\ slot' = b
                             /\ pc' = IF b <= target THEN "walk" ELSE "walkNext"
                             /\ UNCHANGED <<goal, target, next, out>>
      BY <1>3, WalkStep
    <2> QED BY <1>0, <2>1 DEF WalkInv
  <1>4. CASE UNCHANGED <<pc, slot, target>> BY <1>0, <1>4 DEF WalkInv
  <1>5. CASE pc' \notin {"walk", "exec"} BY <1>5 DEF WalkInv
  <1>6. ASSUME NEW g \in Goal, NEW t \in Slot \ {0}, Search(g, t) PROVE pc' \notin {"walk", "exec"}
    BY <1>6 DEF Search
  <1>7. ASSUME NEW r, Throw(r) PROVE pc' \notin {"walk", "exec"}
    BY <1>7, ThrowOK DEF Throw, TypeInv, SearchOK, Goal
  <1>8. CASE GetTarget \/ GetParent \/ GetWalkNext \/ GetWalkPrevious \/ RequestFails \/ ClearCache
    BY <1>5, <1>7, <1>8 DEF GetTarget, GetParent, GetWalkNext, GetWalkPrevious, RequestFails,
                            ClearCache, Return, StartNext
  <1>9. CASE GetNext \/ GetPrevious
    BY <1>5, <1>7, <1>9 DEF GetNext, GetPrevious, Return
  <1>10. CASE HeadMoves BY <1>4, <1>10 DEF HeadMoves, searchVars
  <1>11. ASSUME NEW e \in 2 .. MaxSlot, PurgeOld(e) PROVE UNCHANGED <<pc, slot, target>>
    BY <1>11 DEF PurgeOld, searchVars
  <1>12. ASSUME NEW s \in Slot, OtherHeader(s) \/ OtherInfo(s) PROVE UNCHANGED <<pc, slot, target>>
    BY <1>12 DEF OtherHeader, OtherInfo, searchVars
  <1>13. CASE UNCHANGED vars BY <1>4, <1>13 DEF vars, searchVars
  <1> QED
    BY <1>1, <1>2, <1>3, <1>4, <1>5, <1>6, <1>8, <1>9, <1>10, <1>11, <1>12, <1>13 DEF Next, Step

\* Marks are added by the walk alone, between a block and the next one.
LEMMA MarkStep ==
  SlotTime = 12 /\ TypeInv /\ WalkInv /\ MissedMarkIsTrue /\ [Next]_vars => MissedMarkIsTrue'
  <1> SUFFICES ASSUME SlotTime = 12, TypeInv, WalkInv, MissedMarkIsTrue, [Next]_vars
               PROVE  MissedMarkIsTrue'
    OBVIOUS
  <1>0. chain' = chain BY ChainStays DEF TypeInv
  <1>a. ASSUME missed' \subseteq missed PROVE MissedMarkIsTrue'
    BY <1>0, <1>a DEF MissedMarkIsTrue
  <1>1. CASE GetNextBlockTime
    <2>1. PICK b \in chain : /\ IsFirstAfter(b, slot)
                             /\ \A i \in missed' : i \in missed \/ (slot < i /\ i < b)
      BY <1>1, WalkStep
    <2>2. chain \subseteq Nat /\ slot \in Nat BY SlotIsNat DEF TypeInv, ChainOK, SearchOK
    <2>3. ASSUME NEW i \in missed', i \in chain PROVE FALSE
      BY <2>1, <2>2, <2>3 DEF IsFirstAfter, MissedMarkIsTrue
    <2> QED BY <1>0, <2>3 DEF MissedMarkIsTrue
  <1>2. ASSUME NEW g \in Goal, NEW t \in Slot \ {0}, Search(g, t) PROVE missed' \subseteq missed
    BY <1>2 DEF Search, cache
  <1>3. CASE GetTarget \/ GetNext \/ GetPrevious \/ GetWalkNext \/ GetWalkPrevious \/ GetInfo
    BY <1>3, <1>a DEF GetTarget, GetNext, GetPrevious, GetWalkNext, GetWalkPrevious, GetInfo,
                      CacheHeader, CacheInfo
  <1>4. CASE GetParent \/ GetLastNotMissedSlot \/ RequestFails \/ ClearCache \/ HeadMoves
    BY <1>4, <1>a DEF GetParent, GetLastNotMissedSlot, RequestFails, ClearCache, HeadMoves, cache
  <1>5. ASSUME NEW e \in 2 .. MaxSlot, PurgeOld(e) PROVE missed' \subseteq missed
    BY <1>5 DEF PurgeOld
  <1>6. ASSUME NEW s \in Slot, OtherHeader(s) \/ OtherInfo(s) PROVE missed' \subseteq missed
    BY <1>6 DEF OtherHeader, OtherInfo
  <1>7. CASE UNCHANGED vars BY <1>7, <1>a DEF vars, cache
  <1> QED BY <1>a, <1>1, <1>2, <1>3, <1>4, <1>5, <1>6, <1>7 DEF Next, Step

MarkInv == SlotTime = 12 => WalkInv /\ MissedMarkIsTrue

\* With slots of 12 seconds a slot marked as missed has no block, although
\* nodes lag, 404s come from blocks that exist and late answers refill the
\* cache.
THEOREM MissedMarksAreTrue == Spec => [](SlotTime = 12 => MissedMarkIsTrue)
  <1>1. Init => MarkInv BY DEF Init, MarkInv, WalkInv, MissedMarkIsTrue
  <1>2. TypeInv /\ MarkInv /\ [Next]_vars => MarkInv' BY WalkInvStep, MarkStep DEF MarkInv
  <1>3. MarkInv => (SlotTime = 12 => MissedMarkIsTrue) BY DEF MarkInv
  <1> QED BY <1>1, <1>2, <1>3, SearchTypes, PTL DEF Spec

(***************************************************************************)
(* The search is exact when no node lags and slots take 12 seconds.        *)
(***************************************************************************)
Seeking == {"next", "previous", "parent", "start", "walk", "exec", "walkNext", "walkPrevious"}

\* The node has a block after the target, or the target itself is still asked for.
ReachInv ==
  /\ pc = "target" => \E b \in chain : target <= b /\ b <= head
  /\ pc \in Seeking => \E b \in chain : target < b /\ b <= head

\* What each step of the search knows about the blocks it has passed.
PlaceInv ==
  /\ pc = "next" => slot > target /\ \A c \in chain : c <= target \/ c >= slot
  /\ pc = "previous" => slot <= target /\ \A c \in chain : c <= target => c <= slot
  /\ pc \in {"parent", "walkPrevious"} => IsFirstAfter(next, target)
  /\ pc = "previous" /\ goal = "state" => IsFirstAfter(next, target)
  /\ pc = "walkNext" => IsFirstAfter(slot, target)
  /\ pc \in {"walkNext", "walkPrevious"} => IsLast(previous, target)

Exact == out.res = "found" => IsLast(out.slot, out.target)

ExactInv == ReachInv /\ PlaceInv /\ Exact

\* A slot the node has passed is found exactly when it has a block.
LEMMA PassedSlot ==
  ASSUME TypeInv, MissedMarkIsTrue, NEW s \in Nat, s <= head
  PROVE  HeaderFound(s) <=> s \in chain
  BY DEF TypeInv, CacheOK, MissedMarkIsTrue, HeaderFound, OnNode

\* Steps that end a search, or are none of its business.
LEMMA ExactIdle ==
  ASSUME ExactInv, chain' = chain, pc' \in {"idle", "caught"},
         out' = out \/ out'.res \in {"deep", "error"}
  PROVE  ExactInv'
  BY DEF ExactInv, ReachInv, PlaceInv, Exact, Seeking, IsLast

\* Steps of the node and of other requests.
LEMMA ExactElsewhere ==
  ASSUME TypeInv, ExactInv, chain' = chain, head' \in Slot, head' >= head,
         UNCHANGED <<pc, searchVars, out>>
  PROVE  ExactInv'
  <1>0. head \in Nat /\ head' \in Nat /\ chain \subseteq Nat
    BY SlotIsNat DEF TypeInv, ChainOK
  <1>1. ReachInv' BY <1>0 DEF ExactInv, ReachInv, searchVars
  <1>2. PlaceInv' BY DEF ExactInv, PlaceInv, searchVars, IsLast, IsFirstAfter
  <1>3. Exact' BY DEF ExactInv, Exact, IsLast
  <1> QED BY <1>1, <1>2, <1>3 DEF ExactInv

\* A search that returns the last block up to its target.
LEMMA ExactReturn ==
  ASSUME TypeInv, chain' = chain, NEW s, IsLast(s, target), Return(s)
  PROVE  ExactInv'
  <1>1. s \in chain BY DEF IsLast
  <1>2. pc' = "idle" /\ out'.res = "found" /\ out'.slot = s /\ out'.target = target
    BY <1>1, ReturnOK DEF TypeInv
  <1> QED BY <1>2 DEF ExactInv, ReachInv, PlaceInv, Exact, Seeking, IsLast

\* The start of the dense search for the next block.
LEMMA ExactStartNext ==
  ASSUME TypeInv, ExactInv, chain' = chain, head' = head, NEW w, StartNext(w),
         \E b \in chain : target < b /\ b <= head
  PROVE  ExactInv'
  <1>0. target \in Nat /\ chain \subseteq Nat BY SlotIsNat DEF TypeInv, ChainOK, SearchOK
  <1>1. ReachInv' BY DEF StartNext, ReachInv, Seeking
  <1>2. PlaceInv' BY <1>0 DEF StartNext, PlaceInv
  <1>3. Exact' BY DEF StartNext, ExactInv, Exact, IsLast
  <1> QED BY <1>1, <1>2, <1>3 DEF ExactInv

\* The search stays on the right track.
LEMMA ExactStep ==
  ASSUME nodes = "together", SlotTime = 12, TypeInv, WalkInv, MissedMarkIsTrue, ExactInv, [Next]_vars
  PROVE  ExactInv'
  <1>0. /\ chain' = chain /\ head' \in Slot
        /\ chain \subseteq Nat /\ head \in Nat /\ target \in Nat /\ slot \in Nat
    BY ChainStays, SlotIsNat DEF TypeInv, ChainOK, SearchOK
  <1>t. ASSUME NEW r \in {"deep", "error"}, Throw(r) PROVE ExactInv'
    <2>1. pc' \in {"idle", "caught"} /\ out'.res = r BY <1>t, ThrowOK DEF TypeInv
    <2> QED BY <1>0, <2>1, ExactIdle
  <1>f. ASSUME NEW s, HeaderFound(s) PROVE s \in chain BY <1>f, FoundOnChain DEF TypeInv
  <1>o. ASSUME out' = out PROVE Exact'
    BY <1>0, <1>o DEF ExactInv, Exact, IsLast
  <1>1. ASSUME NEW g \in Goal, NEW t \in Slot \ {0}, Search(g, t) PROVE ExactInv'
    <2>0. t \in Nat BY SlotIsNat
    <2>1. PICK b \in chain : Reached(g, t) <= b /\ b <= head BY <1>1 DEF Search
    <2>2. t <= b /\ (g # "state" => t < b)
      <3>1. CASE g = "state" BY <2>1, <3>1 DEF Reached
      <3>2. CASE g = "root" BY <1>0, <2>0, <2>1, <3>2, SlotsPerEpochAssumption DEF Reached
      <3>3. CASE g = "fresh" BY <1>0, <2>0, <2>1, <3>3 DEF Reached
      <3> QED BY <3>1, <3>2, <3>3 DEF Goal
    <2>3. ReachInv' BY <1>0, <1>1, <2>1, <2>2 DEF Search, ReachInv, Seeking
    <2>4. PlaceInv' BY <1>0, <1>1, <2>0 DEF Search, PlaceInv
    <2> QED BY <1>1, <1>o, <2>3, <2>4 DEF Search, ExactInv
  <1>2. CASE GetTarget
    <2>0. PICK b \in chain : target <= b /\ b <= head
      BY <1>2 DEF GetTarget, ExactInv, ReachInv
    <2>1. CASE HeaderFound(target)
      <3>1. IsLast(target, target) BY <1>0, <1>f, <2>1 DEF IsLast
      <3> QED BY <1>0, <1>2, <2>1, <3>1, ExactReturn DEF GetTarget
    <2>2. CASE ~HeaderFound(target)
      <3>1. target < b BY <1>0, <2>0, <2>2, PassedSlot
      <3>2. CASE network = "sparse"
        <4>1. pc' = "start" /\ UNCHANGED <<head, searchVars, out>>
          BY <1>2, <2>2, <3>2 DEF GetTarget
        <4>2. ReachInv' BY <1>0, <2>0, <3>1, <4>1 DEF ReachInv, Seeking, searchVars
        <4>3. PlaceInv' BY <4>1 DEF PlaceInv
        <4> QED BY <1>o, <4>1, <4>2, <4>3 DEF ExactInv
      <3>3. CASE network # "sparse"
        BY <1>0, <1>2, <2>0, <2>2, <3>1, <3>3, ExactStartNext DEF GetTarget
      <3> QED BY <3>2, <3>3
    <2> QED BY <2>1, <2>2
  <1>3. CASE GetNext
    <2>0. PICK b \in chain : target < b /\ b <= head
      BY <1>3 DEF GetNext, ExactInv, ReachInv, Seeking
    <2>1. slot > target /\ (\A c \in chain : c <= target \/ c >= slot)
      BY <1>3 DEF GetNext, ExactInv, PlaceInv
    <2>2. slot <= head BY <1>0, <2>0, <2>1
    <2>3. CASE HeaderFound(slot)
      <3>1. IsFirstAfter(slot, target) BY <1>0, <1>f, <2>1, <2>3 DEF IsFirstAfter
      <3>2. /\ next' = slot /\ target' = target /\ out' = out /\ head' = head
            /\ pc' = "parent" \/ (pc' = "previous" /\ slot' = target)
        BY <1>3, <2>3 DEF GetNext
      <3>3. ReachInv' BY <1>0, <2>0, <3>2 DEF ReachInv, Seeking
      <3>4. PlaceInv' BY <1>0, <3>1, <3>2 DEF PlaceInv, IsFirstAfter
      <3> QED BY <1>o, <3>2, <3>3, <3>4 DEF ExactInv
    <2>4. CASE ~HeaderFound(slot) /\ deep = 0 BY <1>3, <1>t, <2>4 DEF GetNext
    <2>5. CASE ~HeaderFound(slot) /\ deep # 0
      <3>1. slot \notin chain BY <1>0, <2>2, <2>5, PassedSlot
      <3>2. slot' = slot + 1 /\ UNCHANGED <<head, pc, goal, target, next, previous, out>>
        BY <1>3, <2>5 DEF GetNext
      <3>3. pc = "next" BY <1>3 DEF GetNext
      <3>4. ReachInv' BY <1>0, <2>0, <3>2, <3>3 DEF ReachInv, Seeking
      <3>5. slot' > target /\ \A c \in chain : c <= target \/ c >= slot'
        BY <1>0, <2>1, <3>1, <3>2
      <3>6. PlaceInv' BY <1>0, <3>2, <3>3, <3>5 DEF PlaceInv
      <3> QED BY <1>o, <3>2, <3>4, <3>6 DEF ExactInv
    <2> QED BY <2>3, <2>4, <2>5
  <1>4. CASE GetPrevious
    <2>0. PICK b \in chain : target < b /\ b <= head
      BY <1>4 DEF GetPrevious, ExactInv, ReachInv, Seeking
    <2>1. slot <= target /\ (\A c \in chain : c <= target => c <= slot)
      BY <1>4 DEF GetPrevious, ExactInv, PlaceInv
    <2>2. slot <= head BY <1>0, <2>0, <2>1
    <2>3. CASE HeaderFound(slot) /\ goal = "state"
      <3>1. IsFirstAfter(next, target) BY <1>4, <2>3 DEF GetPrevious, ExactInv, PlaceInv
      <3>2. pc' = "parent" /\ UNCHANGED <<head, target, next, out>>
        BY <1>4, <2>3 DEF GetPrevious, searchVars
      <3>3. ReachInv' BY <1>0, <2>0, <3>2 DEF ReachInv, Seeking
      <3>4. PlaceInv' BY <1>0, <3>1, <3>2 DEF PlaceInv, IsFirstAfter
      <3> QED BY <1>o, <3>2, <3>3, <3>4 DEF ExactInv
    <2>4. CASE HeaderFound(slot) /\ goal # "state"
      <3>1. IsLast(slot, target) BY <1>f, <2>1, <2>4 DEF IsLast
      <3> QED BY <1>0, <1>4, <2>4, <3>1, ExactReturn DEF GetPrevious
    <2>5. CASE ~HeaderFound(slot) /\ deep = 0 BY <1>4, <1>t, <2>5 DEF GetPrevious
    <2>6. CASE ~HeaderFound(slot) /\ deep # 0
      <3>1. slot \notin chain BY <1>0, <2>2, <2>6, PassedSlot
      <3>2. slot' = slot - 1 /\ UNCHANGED <<head, pc, goal, target, next, previous, out>>
        BY <1>4, <2>6 DEF GetPrevious
      <3>3. pc = "previous" BY <1>4 DEF GetPrevious
      <3>4. ReachInv' BY <1>0, <2>0, <3>2, <3>3 DEF ReachInv, Seeking
      <3>5. slot' <= target /\ \A c \in chain : c <= target => c <= slot'
        BY <1>0, <2>1, <3>1, <3>2
      <3>6. goal = "state" => IsFirstAfter(next, target)
        BY <3>3 DEF ExactInv, PlaceInv
      <3>7. PlaceInv' BY <1>0, <3>2, <3>3, <3>5, <3>6 DEF PlaceInv, IsFirstAfter
      <3> QED BY <1>o, <3>2, <3>4, <3>7 DEF ExactInv
    <2> QED BY <2>3, <2>4, <2>5, <2>6
  <1>5. CASE GetParent
    <2>1. PICK p \in chain : IsLast(p, next - 1) /\ (Return(p) \/ Throw("error"))
      BY <1>5 DEF GetParent
    <2>2. IsFirstAfter(next, target) BY <1>5 DEF GetParent, ExactInv, PlaceInv
    <2>3. next \in Nat BY DEF TypeInv, SearchOK
    <2>4. IsLast(p, target) BY <1>0, <2>1, <2>2, <2>3 DEF IsLast, IsFirstAfter
    <2> QED BY <1>0, <1>t, <2>1, <2>4, ExactReturn
  <1>6. CASE GetLastNotMissedSlot
    <2>0. \E b \in chain : target < b /\ b <= head
      BY <1>6 DEF GetLastNotMissedSlot, ExactInv, ReachInv, Seeking
    <2>1. head' = head /\ (StartNext(TRUE) \/ (pc' = "walk" /\ target' = target /\ out' = out))
      BY <1>6 DEF GetLastNotMissedSlot
    <2>2. CASE StartNext(TRUE) BY <1>0, <2>0, <2>1, <2>2, ExactStartNext
    <2>3. CASE pc' = "walk" /\ target' = target /\ out' = out
      <3>1. ReachInv' BY <1>0, <2>0, <2>1, <2>3 DEF ReachInv, Seeking
      <3>2. PlaceInv' BY <2>3 DEF PlaceInv
      <3> QED BY <1>o, <2>3, <3>1, <3>2 DEF ExactInv
    <2> QED BY <2>1, <2>2, <2>3
  <1>7. CASE GetInfo
    <2>0. \E b \in chain : target < b /\ b <= head
      BY <1>7 DEF GetInfo, ExactInv, ReachInv, Seeking
    <2>1. head' = head /\ (StartNext(TRUE) \/ (pc' = "exec" /\ target' = target /\ out' = out))
      BY <1>7 DEF GetInfo, searchVars
    <2>2. CASE StartNext(TRUE) BY <1>0, <2>0, <2>1, <2>2, ExactStartNext
    <2>3. CASE pc' = "exec" /\ target' = target /\ out' = out
      <3>1. ReachInv' BY <1>0, <2>0, <2>1, <2>3 DEF ReachInv, Seeking
      <3>2. PlaceInv' BY <2>3 DEF PlaceInv
      <3> QED BY <1>o, <2>3, <3>1, <3>2 DEF ExactInv
    <2> QED BY <2>1, <2>2, <2>3
  <1>8. CASE GetNextBlockTime
    <2>0. \E b \in chain : target < b /\ b <= head
      BY <1>8 DEF GetNextBlockTime, ExactInv, ReachInv, Seeking
    <2>1. slot \in chain /\ slot <= target BY <1>8 DEF GetNextBlockTime, WalkInv
    <2>2. PICK b \in chain : /\ IsFirstAfter(b, slot)
                             /\ previous' = slot /\ slot' = b
                             /\ pc' = IF b <= target THEN "walk" ELSE "walkNext"
                             /\ UNCHANGED <<goal, target, next, out>>
      BY <1>8, WalkStep
    <2>3. head' = head BY <1>8 DEF GetNextBlockTime
    <2>4. ReachInv' BY <1>0, <2>0, <2>2, <2>3 DEF ReachInv, Seeking
    <2>5. b > target => IsFirstAfter(b, target) /\ IsLast(slot, target)
      BY <1>0, <2>1, <2>2 DEF IsFirstAfter, IsLast
    <2>6. PlaceInv'
      <3>1. CASE b <= target BY <2>2, <3>1 DEF PlaceInv
      <3>2. CASE b > target
        <4>1. pc' = "walkNext" BY <1>0, <2>2, <3>2
        <4> QED BY <1>0, <2>2, <2>5, <3>2, <4>1 DEF PlaceInv, IsFirstAfter, IsLast
      <3> QED BY <1>0, <3>1, <3>2
    <2> QED BY <1>o, <2>2, <2>4, <2>6 DEF ExactInv
  <1>9. CASE GetWalkNext
    <2>0. \E b \in chain : target < b /\ b <= head
      BY <1>9 DEF GetWalkNext, ExactInv, ReachInv, Seeking
    <2>1. IsFirstAfter(slot, target) /\ IsLast(previous, target)
      BY <1>9 DEF GetWalkNext, ExactInv, PlaceInv
    <2>2. Throw("error") \/ /\ pc' = "walkPrevious" /\ next' = slot
                            /\ UNCHANGED <<head, target, previous, out>>
      BY <1>9 DEF GetWalkNext
    <2>3. CASE /\ pc' = "walkPrevious" /\ next' = slot
               /\ UNCHANGED <<head, target, previous, out>>
      <3>1. ReachInv' BY <1>0, <2>0, <2>3 DEF ReachInv, Seeking
      <3>2. PlaceInv' BY <1>0, <2>1, <2>3 DEF PlaceInv, IsFirstAfter, IsLast
      <3> QED BY <1>o, <2>3, <3>1, <3>2 DEF ExactInv
    <2> QED BY <1>t, <2>2, <2>3
  <1>10. CASE GetWalkPrevious
    <2>0. \E b \in chain : target < b /\ b <= head
      BY <1>10 DEF GetWalkPrevious, ExactInv, ReachInv, Seeking
    <2>1. IsFirstAfter(next, target) /\ IsLast(previous, target)
      BY <1>10 DEF GetWalkPrevious, ExactInv, PlaceInv
    <2>2. Throw("error") \/ Return(previous) \/ (pc' = "parent" /\ UNCHANGED <<head, target, next, out>>)
      BY <1>10 DEF GetWalkPrevious, searchVars
    <2>3. CASE pc' = "parent" /\ UNCHANGED <<head, target, next, out>>
      <3>1. ReachInv' BY <1>0, <2>0, <2>3 DEF ReachInv, Seeking
      <3>2. PlaceInv' BY <1>0, <2>1, <2>3 DEF PlaceInv, IsFirstAfter
      <3> QED BY <1>o, <2>3, <3>1, <3>2 DEF ExactInv
    <2>4. CASE Return(previous) BY <1>0, <2>1, <2>4, ExactReturn
    <2> QED BY <1>t, <2>2, <2>3, <2>4
  <1>11. CASE RequestFails BY <1>11, <1>t DEF RequestFails
  <1>12. CASE ClearCache BY <1>0, <1>12, ExactIdle DEF ClearCache
  <1>13. CASE HeadMoves
    BY <1>0, <1>13, ExactElsewhere, SlotIsNat DEF HeadMoves
  <1>14. ASSUME NEW e \in 2 .. MaxSlot, PurgeOld(e) PROVE ExactInv'
    BY <1>0, <1>14, ExactElsewhere DEF PurgeOld
  <1>15. ASSUME NEW s \in Slot, OtherHeader(s) \/ OtherInfo(s) PROVE ExactInv'
    BY <1>0, <1>15, ExactElsewhere DEF OtherHeader, OtherInfo
  <1>16. CASE UNCHANGED vars BY <1>0, <1>16, ExactElsewhere DEF vars
  <1> QED
    BY <1>1, <1>2, <1>3, <1>4, <1>5, <1>6, <1>7, <1>8, <1>9, <1>10, <1>11, <1>12, <1>13,
       <1>14, <1>15, <1>16 DEF Next, Step

AllInv == MarkInv /\ (nodes = "together" /\ SlotTime = 12 => ExactInv)

\* With nodes that do not lag and slots of 12 seconds, the search for the
\* state of an epoch and for the root of its duties returns the last block up
\* to the slot asked for, for every chain and whatever is in the cache.
THEOREM SearchesAreExact == Spec => [](SlotTime = 12 => SearchIsExact)
  <1>1. Init => AllInv
    BY DEF Init, AllInv, MarkInv, WalkInv, MissedMarkIsTrue, ExactInv, ReachInv, PlaceInv,
           Exact, Seeking
  <1>2. TypeInv /\ AllInv /\ [Next]_vars => AllInv'
    <2>1. TypeInv /\ [Next]_vars => nodes' = nodes BY ChainStays DEF TypeInv
    <2> QED BY <2>1, WalkInvStep, MarkStep, ExactStep DEF AllInv, MarkInv
  <1>3. AllInv => (SlotTime = 12 => SearchIsExact)
    BY DEF AllInv, ExactInv, Exact, SearchIsExact
  <1> QED BY <1>1, <1>2, <1>3, SearchTypes, PTL DEF Spec

(***************************************************************************)
(* The depth.                                                              *)
(***************************************************************************)
\* A search of either direction has made MaxDeep - deep rounds.
DepthInv ==
  /\ pc = "next" => slot + deep = target + 1 + MaxDeep
  /\ pc = "previous" => slot + MaxDeep = target + deep

Deep ==
  out.res = "deep" =>
    \/ chain \cap (out.target + 1 .. out.target + 1 + MaxDeep) = {}
    \/ chain \cap (out.target - MaxDeep .. out.target) = {}

DeepInv == DepthInv /\ Deep

\* Steps that do not go on with a search by slots, and do not give up for the depth.
LEMMA DeepQuiet ==
  ASSUME DeepInv, chain' = chain, pc' \notin {"next", "previous"},
         out' = out \/ out'.res \in {"found", "error"}
  PROVE  DeepInv'
  BY DEF DeepInv, DepthInv, Deep

\* Steps of the node and of other requests.
LEMMA DeepElsewhere ==
  ASSUME DeepInv, chain' = chain, UNCHANGED <<pc, searchVars, out>>
  PROVE  DeepInv'
  BY DEF DeepInv, DepthInv, Deep, searchVars

\* The start of the dense search for the next block.
LEMMA DeepStartNext ==
  ASSUME TypeInv, DeepInv, chain' = chain, NEW w, StartNext(w)
  PROVE  DeepInv'
  <1>0. target \in Nat BY SlotIsNat DEF TypeInv, SearchOK
  <1>1. DepthInv' BY <1>0, MaxDeepAssumption DEF StartNext, DepthInv
  <1>2. Deep' BY DEF StartNext, DeepInv, Deep
  <1> QED BY <1>1, <1>2 DEF DeepInv

\* The search counts its rounds, and every round has passed a slot without a block.
LEMMA DeepStep ==
  ASSUME nodes = "together", SlotTime = 12, TypeInv, MissedMarkIsTrue, ExactInv, DeepInv, [Next]_vars
  PROVE  DeepInv'
  <1>0. /\ chain' = chain
        /\ chain \subseteq Nat /\ head \in Nat /\ target \in Nat /\ slot \in Nat /\ deep \in Nat
    BY ChainStays, SlotIsNat, MaxDeepAssumption DEF TypeInv, ChainOK, SearchOK
  <1>m. MaxDeep \in Nat BY MaxDeepAssumption
  <1>e. ASSUME Throw("error") PROVE DeepInv'
    <2>1. pc' \in {"idle", "caught"} /\ out'.res = "error" BY <1>e, ThrowOK DEF TypeInv
    <2> QED BY <1>0, <2>1, DeepQuiet
  <1>r. ASSUME NEW s \in chain, Return(s) PROVE DeepInv'
    <2>1. pc' = "idle" /\ out'.res = "found" BY <1>r, ReturnOK DEF TypeInv
    <2> QED BY <1>0, <2>1, DeepQuiet
  <1>f. ASSUME NEW s, HeaderFound(s) PROVE s \in chain BY <1>f, FoundOnChain DEF TypeInv
  <1>o. ASSUME out' = out PROVE Deep' BY <1>0, <1>o DEF DeepInv, Deep
  <1>1. ASSUME NEW g \in Goal, NEW t \in Slot \ {0}, Search(g, t) PROVE DeepInv'
    <2>0. t \in Nat BY SlotIsNat
    <2>1. DepthInv' BY <1>1, <1>m, <2>0 DEF Search, DepthInv
    <2> QED BY <1>1, <1>o, <2>1 DEF Search, DeepInv
  <1>2. CASE GetTarget
    <2>1. CASE HeaderFound(target) BY <1>2, <1>f, <1>r, <2>1 DEF GetTarget
    <2>2. CASE ~HeaderFound(target)
      BY <1>0, <1>2, <2>2, DeepStartNext, DeepQuiet DEF GetTarget
    <2> QED BY <2>1, <2>2
  <1>3. CASE GetNext
    <2>0. \E b \in chain : target < b /\ b <= head
      BY <1>3 DEF GetNext, ExactInv, ReachInv, Seeking
    <2>1. /\ pc = "next" /\ slot + deep = target + 1 + MaxDeep
          /\ slot > target /\ (\A c \in chain : c <= target \/ c >= slot)
      BY <1>3 DEF GetNext, ExactInv, PlaceInv, DeepInv, DepthInv
    <2>2. slot <= head BY <1>0, <2>0, <2>1
    <2>3. CASE HeaderFound(slot)
      <3>1. /\ out' = out /\ target' = target
            /\ pc' = "parent" \/ (pc' = "previous" /\ slot' = target /\ deep' = MaxDeep)
        BY <1>3, <2>3 DEF GetNext
      <3>2. DepthInv' BY <1>0, <1>m, <3>1 DEF DepthInv
      <3> QED BY <1>o, <3>1, <3>2 DEF DeepInv
    <2>4. CASE ~HeaderFound(slot) /\ deep = 0
      <3>1. slot \notin chain BY <1>0, <2>2, <2>4, PassedSlot
      <3>2. slot = target + 1 + MaxDeep BY <1>0, <1>m, <2>1, <2>4
      <3>3. chain \cap (target + 1 .. target + 1 + MaxDeep) = {}
        BY <1>0, <1>m, <2>1, <3>1, <3>2
      <3>4. pc' \in {"idle", "caught"} /\ out'.target = target
        BY <1>3, <2>4, ThrowOK DEF GetNext, TypeInv
      <3> QED BY <1>0, <3>3, <3>4 DEF DeepInv, DepthInv, Deep
    <2>5. CASE ~HeaderFound(slot) /\ deep # 0
      <3>1. slot' = slot + 1 /\ deep' = deep - 1 /\ UNCHANGED <<pc, target, out>>
        BY <1>3, <2>5 DEF GetNext
      <3>2. slot' + deep' = target + 1 + MaxDeep BY <1>0, <1>m, <2>1, <3>1
      <3>3. DepthInv' BY <2>1, <3>1, <3>2 DEF DepthInv
      <3> QED BY <1>o, <3>1, <3>3 DEF DeepInv
    <2> QED BY <2>3, <2>4, <2>5
  <1>4. CASE GetPrevious
    <2>0. \E b \in chain : target < b /\ b <= head
      BY <1>4 DEF GetPrevious, ExactInv, ReachInv, Seeking
    <2>1. /\ pc = "previous" /\ slot + MaxDeep = target + deep
          /\ slot <= target /\ (\A c \in chain : c <= target => c <= slot)
      BY <1>4 DEF GetPrevious, ExactInv, PlaceInv, DeepInv, DepthInv
    <2>2. slot <= head BY <1>0, <2>0, <2>1
    <2>3. CASE HeaderFound(slot)
      BY <1>0, <1>4, <1>f, <1>r, <2>3, DeepQuiet DEF GetPrevious
    <2>4. CASE ~HeaderFound(slot) /\ deep = 0
      <3>1. slot \notin chain BY <1>0, <2>2, <2>4, PassedSlot
      <3>2. slot = target - MaxDeep BY <1>0, <1>m, <2>1, <2>4
      <3>3. chain \cap (target - MaxDeep .. target) = {}
        BY <1>0, <1>m, <2>1, <3>1, <3>2
      <3>4. pc' \in {"idle", "caught"} /\ out'.target = target
        BY <1>4, <2>4, ThrowOK DEF GetPrevious, TypeInv
      <3> QED BY <1>0, <3>3, <3>4 DEF DeepInv, DepthInv, Deep
    <2>5. CASE ~HeaderFound(slot) /\ deep # 0
      <3>1. slot' = slot - 1 /\ deep' = deep - 1 /\ UNCHANGED <<pc, target, out>>
        BY <1>4, <2>5 DEF GetPrevious
      <3>2. slot' + MaxDeep = target + deep' BY <1>0, <1>m, <2>1, <3>1
      <3>3. DepthInv' BY <2>1, <3>1, <3>2 DEF DepthInv
      <3> QED BY <1>o, <3>1, <3>3 DEF DeepInv
    <2> QED BY <2>3, <2>4, <2>5
  <1>5. CASE GetParent BY <1>5, <1>e, <1>r DEF GetParent
  <1>6. CASE GetLastNotMissedSlot
    BY <1>0, <1>6, DeepStartNext, DeepQuiet DEF GetLastNotMissedSlot
  <1>7. CASE GetInfo BY <1>0, <1>7, DeepStartNext, DeepQuiet DEF GetInfo
  <1>8. CASE GetNextBlockTime
    <2>1. PICK b \in chain : /\ pc' = IF b <= target THEN "walk" ELSE "walkNext"
                             /\ UNCHANGED <<goal, target, next, out>>
      BY <1>8, WalkStep
    <2> QED BY <1>0, <2>1, DeepQuiet
  <1>9. CASE GetWalkNext BY <1>0, <1>9, <1>e, DeepQuiet DEF GetWalkNext
  <1>10. CASE GetWalkPrevious
    BY <1>0, <1>10, <1>e, <1>f, <1>r, DeepQuiet DEF GetWalkPrevious
  <1>11. CASE RequestFails BY <1>11, <1>e DEF RequestFails
  <1>12. CASE ClearCache BY <1>0, <1>12, DeepQuiet DEF ClearCache
  <1>13. CASE HeadMoves BY <1>0, <1>13, DeepElsewhere DEF HeadMoves
  <1>14. ASSUME NEW e \in 2 .. MaxSlot, PurgeOld(e) PROVE DeepInv'
    BY <1>0, <1>14, DeepElsewhere DEF PurgeOld
  <1>15. ASSUME NEW s \in Slot, OtherHeader(s) \/ OtherInfo(s) PROVE DeepInv'
    BY <1>0, <1>15, DeepElsewhere DEF OtherHeader, OtherInfo
  <1>16. CASE UNCHANGED vars BY <1>0, <1>16, DeepElsewhere DEF vars
  <1> QED
    BY <1>1, <1>2, <1>3, <1>4, <1>5, <1>6, <1>7, <1>8, <1>9, <1>10, <1>11, <1>12, <1>13,
       <1>14, <1>15, <1>16 DEF Next, Step

DepthAllInv == AllInv /\ (nodes = "together" /\ SlotTime = 12 => DeepInv)

\* With nodes that do not lag and slots of 12 seconds, a search that gives up for
\* its depth has really met more than CL_API_MAX_SLOT_DEEP_COUNT missed slots in a
\* row next to its target, for every depth: no round is lost to the cache.
THEOREM DeepErrorsAreJustified == Spec => [](SlotTime = 12 => DeepErrorIsJustified)
  <1>1. Init => DepthAllInv
    BY DEF Init, DepthAllInv, AllInv, MarkInv, WalkInv, MissedMarkIsTrue, ExactInv, ReachInv, PlaceInv,
           Exact, Seeking, DeepInv, DepthInv, Deep
  <1>2. TypeInv /\ DepthAllInv /\ [Next]_vars => DepthAllInv'
    <2>1. TypeInv /\ [Next]_vars => nodes' = nodes BY ChainStays DEF TypeInv
    <2> QED BY <2>1, WalkInvStep, MarkStep, ExactStep, DeepStep DEF DepthAllInv, AllInv, MarkInv
  <1>3. DepthAllInv => (SlotTime = 12 => DeepErrorIsJustified)
    BY DEF DepthAllInv, DeepInv, Deep, DeepErrorIsJustified
  <1> QED BY <1>1, <1>2, <1>3, SearchTypes, PTL DEF Spec
=============================================================================
