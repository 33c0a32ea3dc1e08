--------------------------- MODULE RegistryProofs ---------------------------
(***************************************************************************)
(* The safety properties of Registry for every chain, every number of      *)
(* URLs and every history of failures.                                     *)
(*                                                                         *)
(* The argument: the recorded nonce is a promise about the maps that is    *)
(* broken while they are loaded.  RecordFacts says how it is repaired: as  *)
(* long as the maps are incomplete, some answer already had a nonce above  *)
(* the recorded one, so an answer that is not older leads to a new load.   *)
(***************************************************************************)
EXTENDS Registry, TLAPS

Loading == {"operators", "operatorsStream", "keys", "keysStream"}

OwnersKnown(n) == \A k \in 1 .. n : Owner[k] \in operatorsMap

\* What every answer is at least as new as.
Snapshots == \A u \in 1 .. urls : api[u] <= tip /\ (pc # "idle" => started <= api[u])

\* Which steps belong to which source.
SourceSteps ==
  /\ source = "file" => keysOpIndex = 0 /\ pc \in {"idle", "file", "status", "rows"}
  /\ pc = "file" => source = "file"

\* Why the maps are being loaded.
LoadFacts ==
  pc \in Loading =>
    /\ nonce = Nonce[modulesBlock] /\ Nonce[started] <= nonce
    /\ keysOpIndex = 0 \/ nonce > keysOpIndex

\* What was received so far.
StreamFacts ==
  behind = "no" =>
    /\ pc = "operatorsStream" => modulesBlock <= page /\ OwnersKnown(position)
    /\ pc \in {"keys", "keysStream"} => OwnersKnown(Nonce[modulesBlock])
    /\ pc = "keysStream" => modulesBlock <= page /\ 1 .. position \subseteq keysMap

\* The recorded nonce: the maps have what it promises, or an answer was above it.
RecordFacts ==
  behind = "no" =>
    \/ keysOpIndex = 0
    \/ Nonce[newest] > keysOpIndex
    \/ 1 .. keysOpIndex \subseteq keysMap /\ OwnersKnown(keysOpIndex)

\* The maps after the update of the source.
UsableFacts ==
  behind = "no" /\ pc \in {"status", "rows"} =>
    KeysAt(started) \subseteq keysMap /\ OwnersKnown(keysOpIndex)

\* The list of operators taken over is never ahead of the map.
ListFacts ==
  /\ operators \subseteq operatorsMap
  /\ pc = "rows" => operators = operatorsMap
  /\ source # "keysapi" => operatorsMap \subseteq OperatorsAt(api[1])
  /\ source = "lido" /\ pc = "operatorsStream" => page = api[1]

IInv == /\ TypeOK
        /\ modulesBlock <= newest
        /\ Snapshots
        /\ SourceSteps
        /\ LoadFacts
        /\ StreamFacts
        /\ RecordFacts
        /\ UsableFacts
        /\ ListFacts
        /\ RowsHaveOperators

\* A deployment has at least one URL, and exactly one unless it is the Keys API.
LEMMA UrlsOfDeployment ==
  ASSUME TypeOK
  PROVE  /\ urls \in Nat \ {0} /\ 1 \in 1 .. urls
         /\ source \in Sources
         /\ source # "keysapi" => urls = 1
<1>1. urls \in Nat \ {0} /\ source \in Sources /\ (source # "keysapi" => urls = 1)
  BY DeploymentsAssumption DEF TypeOK, TypeWorld
<1> QED
  BY <1>1

\* The nonce of a snapshot is a number that grows with the blocks, and its keys are keys.
LEMMA NonceGrows ==
  ASSUME NEW b \in Block, NEW c \in Block
  PROVE  /\ Nonce[b] \in Nat
         /\ b <= c => Nonce[b] <= Nonce[c]
         /\ 1 .. Nonce[b] \subseteq Key
<1>1. Nonce[b] \in Nat /\ Nonce[c] \in Nat /\ (b <= c => Nonce[b] <= Nonce[c])
  BY NonceAssumption
<1>2. LastBlock \in Block /\ b <= LastBlock
  BY LastBlockAssumption DEF Block
<1>3. Nonce[b] <= Nonce[LastBlock] /\ Nonce[LastBlock] \in Nat
  BY <1>2, NonceAssumption
<1> QED
  BY <1>1, <1>3 DEF Key

\* The snapshot an answer comes from, and the one a finished update is reset to, have nonces.
LEMMA AnswerHasNonce ==
  ASSUME TypeOK
  PROVE  /\ api[url] \in Block /\ Nonce[api[url]] \in Nat
         /\ 0 \in Block /\ Nonce[0] \in Nat
         /\ page \in Block /\ Nonce[page] \in Nat /\ 1 .. Nonce[page] \subseteq Key
<1>1. api[url] \in Block /\ 0 \in Block /\ page \in Block
  BY LastBlockAssumption DEF TypeOK, TypeWorld, TypeUpdate, Block
<1> QED
  BY <1>1, NonceGrows

\* The outside keeps its types.
LEMMA TypeWorldStep ==
  ASSUME TypeOK, [Next]_vars
  PROVE  TypeWorld'
<1> USE DEF vars, world, deployment, maps, service, stream, check, history
<1>u. urls \in Nat \ {0} /\ 1 \in 1 .. urls /\ LastBlock \in Nat
  BY UrlsOfDeployment, LastBlockAssumption
<1>1. CASE NewBlock
  BY <1>1, <1>u DEF NewBlock, TypeOK, TypeWorld, Block
<1>2. CASE \E u \in 1 .. urls : Snapshot(u)
  BY <1>2, <1>u DEF Snapshot, TypeOK, TypeWorld, Block
<1>3. CASE \E t \in Block : Ask(t)
  BY <1>3, <1>u DEF Ask, TypeOK, TypeWorld, Block
<1>4. CASE RequestFails
  BY <1>4, <1>u DEF RequestFails, Throw, Return, Requests, TypeOK, TypeWorld, Block
<1>5. CASE StepFails
  BY <1>5, <1>u DEF StepFails, Throw, Return, Streams, TypeOK, TypeWorld, Block
<1>6. CASE StorageUpdate
  BY <1>6, <1>u DEF StorageUpdate, TypeOK, TypeWorld, Block
<1>7. CASE ReadModules
  BY <1>7, <1>u DEF ReadModules, Answered, SourceUpdated, Reload, TypeOK, TypeWorld, Block
<1>8. CASE ReadOperators
  BY <1>8, <1>u DEF ReadOperators, Receive, Answered, TypeOK, TypeWorld, Block
<1>9. CASE OperatorsBatch
  BY <1>9, <1>u DEF OperatorsBatch, TypeOK, TypeWorld, Block
<1>10. CASE OperatorsEnd
  BY <1>10, <1>u DEF OperatorsEnd, TypeOK, TypeWorld, Block
<1>11. CASE ReadKeys
  BY <1>11, <1>u DEF ReadKeys, Receive, Answered, TypeOK, TypeWorld, Block
<1>12. CASE KeysBatch
  BY <1>12, <1>u DEF KeysBatch, TypeOK, TypeWorld, Block
<1>13. CASE KeysEnd
  BY <1>13, <1>u DEF KeysEnd, SourceUpdated, TypeOK, TypeWorld, Block
<1>14. CASE FileUpdate
  BY <1>14, <1>u DEF FileUpdate, SourceUpdated, TypeOK, TypeWorld, Block
<1>15. CASE UpdateTimestamp
  BY <1>15, <1>u DEF UpdateTimestamp, Answered, Return, SourceTimestamp, MsPerSecond, TypeOK,
     TypeWorld, Block
<1>16. CASE StateRows
  BY <1>16, <1>u DEF StateRows, Return, TypeOK, TypeWorld, Block
<1>17. CASE UNCHANGED vars
  BY <1>17, <1>u DEF TypeOK, TypeWorld, Block
<1> QED
  BY <1>1, <1>2, <1>3, <1>4, <1>5, <1>6, <1>7, <1>8, <1>9, <1>10, <1>11, <1>12, <1>13, <1>14,
     <1>15, <1>16, <1>17 DEF Next

\* The maps hold known keys and operators.
LEMMA TypeMapsStep ==
  ASSUME TypeOK, [Next]_vars
  PROVE  TypeMaps'
<1> USE DEF vars, world, deployment, maps, service, stream, check, history
<1>a. \A k \in Key : Owner[k] \in Operator
  BY DEF Operator
<1>1. CASE NewBlock
  BY <1>1 DEF NewBlock, TypeOK, TypeMaps
<1>2. CASE \E u \in 1 .. urls : Snapshot(u)
  BY <1>2 DEF Snapshot, TypeOK, TypeMaps
<1>3. CASE \E t \in Block : Ask(t)
  BY <1>3 DEF Ask, TypeOK, TypeMaps
<1>4. CASE RequestFails
  BY <1>4 DEF RequestFails, Throw, Return, Requests, TypeOK, TypeMaps
<1>5. CASE StepFails
  BY <1>5 DEF StepFails, Throw, Return, Streams, TypeOK, TypeMaps
<1>6. CASE StorageUpdate
  BY <1>6 DEF StorageUpdate, TypeOK, TypeMaps
<1>7. CASE ReadModules
  BY <1>7 DEF ReadModules, Answered, SourceUpdated, Reload, TypeOK, TypeMaps
<1>8. CASE ReadOperators
  BY <1>8 DEF ReadOperators, Receive, Answered, TypeOK, TypeMaps
<1>9. CASE OperatorsBatch
  <2>1. OperatorsAt(page) \subseteq Operator
    BY AnswerHasNonce DEF OperatorsAt, KeysAt, Operator
  <2>2. ASSUME NEW p \in position + 1 .. Nonce[page]
        PROVE  {Owner[k] : k \in position + 1 .. p} \subseteq Operator
    <3>1. position + 1 .. p \subseteq Key
      BY <2>2, AnswerHasNonce DEF TypeOK, TypeUpdate
    <3> QED
      BY <3>1 DEF Operator
  <2> QED
    BY <1>9, <2>1, <2>2 DEF OperatorsBatch, FindAll, TypeOK, TypeMaps
<1>10. CASE OperatorsEnd
  BY <1>10 DEF OperatorsEnd, TypeOK, TypeMaps
<1>11. CASE ReadKeys
  BY <1>11 DEF ReadKeys, Receive, Answered, TypeOK, TypeMaps
<1>12. CASE KeysBatch
  <2>1. PICK p \in position + 1 .. Nonce[page] : keysMap' = keysMap \cup (position + 1 .. p)
    BY <1>12 DEF KeysBatch
  <2>2. position + 1 .. p \subseteq Key
    BY <2>1, AnswerHasNonce DEF TypeOK, TypeUpdate
  <2> QED
    BY <1>12, <2>1, <2>2 DEF KeysBatch, TypeOK, TypeMaps
<1>13. CASE KeysEnd
  BY <1>13 DEF KeysEnd, SourceUpdated, TypeOK, TypeMaps
<1>14. CASE FileUpdate
  <2>1. KeysAt(api[1]) \subseteq Key
    BY NonceGrows, UrlsOfDeployment DEF TypeOK, TypeWorld, KeysAt
  <2>2. OperatorsAt(api[1]) \subseteq Operator
    BY <2>1 DEF OperatorsAt, Operator
  <2> QED
    BY <1>14, <2>1, <2>2 DEF FileUpdate, SourceUpdated, TypeOK, TypeMaps
<1>15. CASE UpdateTimestamp
  BY <1>15 DEF UpdateTimestamp, Answered, Return, SourceTimestamp, MsPerSecond, TypeOK, TypeMaps
<1>16. CASE StateRows
  BY <1>16 DEF StateRows, Return, TypeOK, TypeMaps
<1>17. CASE UNCHANGED vars
  BY <1>17 DEF TypeOK, TypeMaps
<1> QED
  BY <1>1, <1>2, <1>3, <1>4, <1>5, <1>6, <1>7, <1>8, <1>9, <1>10, <1>11, <1>12, <1>13, <1>14,
     <1>15, <1>16, <1>17 DEF Next

\* The variables of the update keep their types.
LEMMA TypeUpdateStep ==
  ASSUME TypeOK, [Next]_vars
  PROVE  TypeUpdate'
<1> USE DEF vars, world, deployment, maps, service, stream, check, history
<1>u. urls \in Nat \ {0} /\ 1 \in 1 .. urls
  BY UrlsOfDeployment
<1>a. /\ api[url] \in Block /\ Nonce[api[url]] \in Nat
      /\ 0 \in Block /\ Nonce[0] \in Nat /\ Nonce[page] \in Nat
  BY AnswerHasNonce
<1>1. CASE NewBlock
  BY <1>1, <1>u, <1>a DEF NewBlock, TypeOK, TypeUpdate, TypeWorld, Pcs, Requests, Streams
<1>2. CASE \E u \in 1 .. urls : Snapshot(u)
  BY <1>2, <1>u, <1>a DEF Snapshot, TypeOK, TypeUpdate, TypeWorld, Pcs, Requests, Streams
<1>3. CASE \E t \in Block : Ask(t)
  BY <1>3, <1>u, <1>a DEF Ask, Block, TypeOK, TypeUpdate, TypeWorld, Pcs, Requests, Streams
<1>4. CASE RequestFails
  BY <1>4, <1>u, <1>a DEF RequestFails, Throw, Return, Requests, TypeOK, TypeUpdate, TypeWorld,
     Pcs, Streams
<1>5. CASE StepFails
  BY <1>5, <1>u, <1>a DEF StepFails, Throw, Return, Streams, TypeOK, TypeUpdate, TypeWorld, Pcs,
     Requests
<1>6. CASE StorageUpdate
  BY <1>6, <1>u, <1>a DEF StorageUpdate, TypeOK, TypeUpdate, TypeWorld, Pcs, Requests, Streams
<1>7. CASE ReadModules
  BY <1>7, <1>u, <1>a DEF ReadModules, Answered, SourceUpdated, Reload, TypeOK, TypeUpdate,
     TypeWorld, Pcs, Requests, Streams
<1>8. CASE ReadOperators
  BY <1>8, <1>u, <1>a DEF ReadOperators, Receive, Answered, TypeOK, TypeUpdate, TypeWorld, Pcs,
     Requests, Streams
<1>9. CASE OperatorsBatch
  BY <1>9, <1>u, <1>a DEF OperatorsBatch, TypeOK, TypeUpdate, TypeWorld, Pcs, Requests, Streams
<1>10. CASE OperatorsEnd
  BY <1>10, <1>u, <1>a DEF OperatorsEnd, TypeOK, TypeUpdate, TypeWorld, Pcs, Requests, Streams
<1>11. CASE ReadKeys
  BY <1>11, <1>u, <1>a DEF ReadKeys, Receive, Answered, TypeOK, TypeUpdate, TypeWorld, Pcs,
     Requests, Streams
<1>12. CASE KeysBatch
  BY <1>12, <1>u, <1>a DEF KeysBatch, TypeOK, TypeUpdate, TypeWorld, Pcs, Requests, Streams
<1>13. CASE KeysEnd
  BY <1>13, <1>u, <1>a DEF KeysEnd, SourceUpdated, TypeOK, TypeUpdate, TypeWorld, Pcs, Requests,
     Streams
<1>14. CASE FileUpdate
  BY <1>14, <1>u, <1>a DEF FileUpdate, SourceUpdated, TypeOK, TypeUpdate, TypeWorld, Pcs,
     Requests, Streams
<1>15. CASE UpdateTimestamp
  <2>1. tip \in Nat /\ api[url] \in Nat
    BY <1>a, LastBlockAssumption DEF TypeOK, TypeWorld, Block
  <2>2. SourceTimestamp \in Nat
    BY <2>1 DEF SourceTimestamp, MsPerSecond
  <2> QED
    BY <1>15, <2>2, <1>u, <1>a DEF UpdateTimestamp, Answered, Return, TypeOK, TypeUpdate,
       TypeWorld, Pcs, Requests, Streams
<1>16. CASE StateRows
  BY <1>16, <1>u, <1>a DEF StateRows, Return, GetOperatorKey, TypeOK, TypeUpdate, TypeWorld, Pcs,
     Requests, Streams
<1>17. CASE UNCHANGED vars
  BY <1>17, <1>u, <1>a DEF TypeOK, TypeUpdate, TypeWorld, Pcs, Requests, Streams
<1> QED
  BY <1>1, <1>2, <1>3, <1>4, <1>5, <1>6, <1>7, <1>8, <1>9, <1>10, <1>11, <1>12, <1>13, <1>14,
     <1>15, <1>16, <1>17 DEF Next

\* The first states satisfy the invariant.
LEMMA InvariantInit ==
  ASSUME Init
  PROVE  IInv
<1>1. PICK d \in Deployments : source = d[1] /\ urls = d[2]
  BY DEF Init
<1>2. d = <<source, urls>> /\ urls \in Nat \ {0}
  BY <1>1, DeploymentsAssumption
<1>3. tip \in Block /\ 0 \in Block /\ Nonce[0] \in Nat
  BY LastBlockAssumption, NonceGrows DEF Init, Block
<1>4. api \in [1 .. urls -> Block] /\ \A u \in 1 .. urls : api[u] <= tip
  BY <1>3, LastBlockAssumption DEF Init, Block
<1>5. TypeWorld /\ TypeMaps
  BY <1>1, <1>2, <1>3, <1>4 DEF Init, TypeWorld, TypeMaps
<1>6. TypeUpdate
  BY <1>2, <1>3 DEF Init, TypeUpdate, Pcs, Requests, Streams
<1> QED
  BY <1>3, <1>4, <1>5, <1>6 DEF Init, IInv, TypeOK, Snapshots, SourceSteps, LoadFacts, Loading,
     StreamFacts,
     RecordFacts, UsableFacts, ListFacts, RowsHaveOperators

\* Snapshots only get newer.
LEMMA SnapshotsStep ==
  ASSUME IInv, [Next]_vars
  PROVE  Snapshots'
<1> USE DEF vars, world, deployment, maps, service, stream, check, history
<1>u. urls \in Nat \ {0} /\ 1 \in 1 .. urls /\ LastBlock \in Nat
  BY UrlsOfDeployment, LastBlockAssumption DEF IInv
<1>1. CASE NewBlock
  BY <1>1, <1>u DEF NewBlock, IInv, TypeOK, TypeUpdate, TypeWorld, Snapshots, Block
<1>2. CASE \E u \in 1 .. urls : Snapshot(u)
  BY <1>2, <1>u DEF Snapshot, IInv, TypeOK, TypeUpdate, TypeWorld, Snapshots, Block
<1>3. CASE \E t \in Block : Ask(t)
  BY <1>3, <1>u DEF Ask, IInv, TypeOK, TypeUpdate, TypeWorld, Snapshots, Block
<1>4. CASE RequestFails
  BY <1>4, <1>u DEF RequestFails, Throw, Return, Requests, IInv, TypeOK, TypeUpdate, TypeWorld,
     Snapshots, Block
<1>5. CASE StepFails
  BY <1>5, <1>u DEF StepFails, Throw, Return, Streams, IInv, TypeOK, TypeUpdate, TypeWorld,
     Snapshots, Block
<1>6. CASE StorageUpdate
  BY <1>6, <1>u DEF StorageUpdate, IInv, TypeOK, TypeUpdate, TypeWorld, Snapshots, Block
<1>7. CASE ReadModules
  BY <1>7, <1>u DEF ReadModules, Answered, SourceUpdated, Reload, IInv, TypeOK, TypeUpdate,
     TypeWorld, Snapshots, Block
<1>8. CASE ReadOperators
  BY <1>8, <1>u DEF ReadOperators, Receive, Answered, IInv, TypeOK, TypeUpdate, TypeWorld,
     Snapshots, Block
<1>9. CASE OperatorsBatch
  BY <1>9, <1>u DEF OperatorsBatch, IInv, TypeOK, TypeUpdate, TypeWorld, Snapshots, Block
<1>10. CASE OperatorsEnd
  BY <1>10, <1>u DEF OperatorsEnd, IInv, TypeOK, TypeUpdate, TypeWorld, Snapshots, Block
<1>11. CASE ReadKeys
  BY <1>11, <1>u DEF ReadKeys, Receive, Answered, IInv, TypeOK, TypeUpdate, TypeWorld, Snapshots,
     Block
<1>12. CASE KeysBatch
  BY <1>12, <1>u DEF KeysBatch, IInv, TypeOK, TypeUpdate, TypeWorld, Snapshots, Block
<1>13. CASE KeysEnd
  BY <1>13, <1>u DEF KeysEnd, SourceUpdated, IInv, TypeOK, TypeUpdate, TypeWorld, Snapshots, Block
<1>14. CASE FileUpdate
  BY <1>14, <1>u DEF FileUpdate, SourceUpdated, IInv, TypeOK, TypeUpdate, TypeWorld, Snapshots,
     Block
<1>15. CASE UpdateTimestamp
  BY <1>15, <1>u DEF UpdateTimestamp, Answered, Return, SourceTimestamp, MsPerSecond, IInv,
     TypeOK, TypeUpdate, TypeWorld, Snapshots, Block
<1>16. CASE StateRows
  BY <1>16, <1>u DEF StateRows, Return, IInv, TypeOK, TypeUpdate, TypeWorld, Snapshots, Block
<1>17. CASE UNCHANGED vars
  BY <1>17, <1>u DEF IInv, TypeOK, TypeUpdate, TypeWorld, Snapshots, Block
<1> QED
  BY <1>1, <1>2, <1>3, <1>4, <1>5, <1>6, <1>7, <1>8, <1>9, <1>10, <1>11, <1>12, <1>13, <1>14,
     <1>15, <1>16, <1>17 DEF Next

\* A step belongs to its source.
LEMMA SourceStepsStep ==
  ASSUME IInv, [Next]_vars
  PROVE  SourceSteps' /\ (modulesBlock <= newest)'
<1> USE DEF vars, world, deployment, maps, service, stream, check, history
<1>u. api[url] \in Nat /\ newest \in Nat /\ modulesBlock \in Nat
  BY AnswerHasNonce, LastBlockAssumption DEF IInv, TypeOK, TypeUpdate, Block
<1>1. CASE NewBlock
  BY <1>1, <1>u DEF NewBlock, IInv, SourceSteps, Requests, Streams
<1>2. CASE \E u \in 1 .. urls : Snapshot(u)
  BY <1>2, <1>u DEF Snapshot, IInv, SourceSteps, Requests, Streams
<1>3. CASE \E t \in Block : Ask(t)
  <2>1. source \in Sources
    BY UrlsOfDeployment DEF IInv
  <2> QED
    BY <1>3, <2>1, <1>u DEF Ask, Sources, IInv, SourceSteps
<1>4. CASE RequestFails
  BY <1>4, <1>u DEF RequestFails, Throw, Return, Requests, IInv, SourceSteps, Streams
<1>5. CASE StepFails
  BY <1>5, <1>u DEF StepFails, Throw, Return, Streams, IInv, SourceSteps, Requests
<1>6. CASE StorageUpdate
  BY <1>6, <1>u DEF StorageUpdate, IInv, SourceSteps, Requests, Streams
<1>7. CASE ReadModules
  BY <1>7, <1>u DEF ReadModules, Answered, SourceUpdated, Reload, IInv, SourceSteps, Requests,
     Streams
<1>8. CASE ReadOperators
  BY <1>8, <1>u DEF ReadOperators, Receive, Answered, IInv, SourceSteps, Requests, Streams
<1>9. CASE OperatorsBatch
  BY <1>9, <1>u DEF OperatorsBatch, IInv, SourceSteps, Requests, Streams
<1>10. CASE OperatorsEnd
  BY <1>10, <1>u DEF OperatorsEnd, IInv, SourceSteps, Requests, Streams
<1>11. CASE ReadKeys
  BY <1>11, <1>u DEF ReadKeys, Receive, Answered, IInv, SourceSteps, Requests, Streams
<1>12. CASE KeysBatch
  BY <1>12, <1>u DEF KeysBatch, IInv, SourceSteps, Requests, Streams
<1>13. CASE KeysEnd
  BY <1>13, <1>u DEF KeysEnd, SourceUpdated, IInv, SourceSteps, Requests, Streams
<1>14. CASE FileUpdate
  BY <1>14, <1>u DEF FileUpdate, SourceUpdated, IInv, SourceSteps, Requests, Streams
<1>15. CASE UpdateTimestamp
  BY <1>15, <1>u DEF UpdateTimestamp, Answered, Return, SourceTimestamp, MsPerSecond, IInv,
     SourceSteps, Requests, Streams
<1>16. CASE StateRows
  BY <1>16, <1>u DEF StateRows, Return, IInv, SourceSteps, Requests, Streams
<1>17. CASE UNCHANGED vars
  BY <1>17, <1>u DEF IInv, SourceSteps, Requests, Streams
<1> QED
  BY <1>1, <1>2, <1>3, <1>4, <1>5, <1>6, <1>7, <1>8, <1>9, <1>10, <1>11, <1>12, <1>13, <1>14,
     <1>15, <1>16, <1>17 DEF Next

\* A load starts for a nonce above the recorded one, of a snapshot not older than the start.
LEMMA LoadFactsStep ==
  ASSUME IInv, [Next]_vars
  PROVE  LoadFacts'
<1> USE DEF vars, world, deployment, maps, service, stream, check, history
<1>u. Nonce[api[url]] \in Nat /\ (pc # "idle" => Nonce[started] <= Nonce[api[url]])
  <2>1. url \in 1 .. urls /\ started \in Block /\ api[url] \in Block
    BY AnswerHasNonce DEF IInv, TypeOK, TypeUpdate
  <2>2. pc # "idle" => started <= api[url]
    BY <2>1 DEF IInv, Snapshots
  <2> QED
    BY <2>1, <2>2, NonceGrows
<1>1. CASE NewBlock
  BY <1>1, <1>u DEF NewBlock, IInv, LoadFacts, Loading, Requests, Streams
<1>2. CASE \E u \in 1 .. urls : Snapshot(u)
  BY <1>2, <1>u DEF Snapshot, IInv, LoadFacts, Loading, Requests, Streams
<1>3. CASE \E t \in Block : Ask(t)
  BY <1>3, <1>u DEF Ask, IInv, LoadFacts, Loading, Requests, Streams
<1>4. CASE RequestFails
  BY <1>4, <1>u DEF RequestFails, Throw, Return, Requests, IInv, LoadFacts, Loading, Streams
<1>5. CASE StepFails
  BY <1>5, <1>u DEF StepFails, Throw, Return, Streams, IInv, LoadFacts, Loading, Requests
<1>6. CASE StorageUpdate
  BY <1>6, <1>u DEF StorageUpdate, IInv, LoadFacts, Loading, Requests, Streams
<1>7. CASE ReadModules
  BY <1>7, <1>u DEF ReadModules, Answered, SourceUpdated, Reload, IInv, LoadFacts, Loading,
     Requests, Streams
<1>8. CASE ReadOperators
  BY <1>8, <1>u DEF ReadOperators, Receive, Answered, IInv, LoadFacts, Loading, Requests, Streams
<1>9. CASE OperatorsBatch
  BY <1>9, <1>u DEF OperatorsBatch, IInv, LoadFacts, Loading, Requests, Streams
<1>10. CASE OperatorsEnd
  BY <1>10, <1>u DEF OperatorsEnd, IInv, LoadFacts, Loading, Requests, Streams
<1>11. CASE ReadKeys
  BY <1>11, <1>u DEF ReadKeys, Receive, Answered, IInv, LoadFacts, Loading, Requests, Streams
<1>12. CASE KeysBatch
  BY <1>12, <1>u DEF KeysBatch, IInv, LoadFacts, Loading, Requests, Streams
<1>13. CASE KeysEnd
  BY <1>13, <1>u DEF KeysEnd, SourceUpdated, IInv, LoadFacts, Loading, Requests, Streams
<1>14. CASE FileUpdate
  BY <1>14, <1>u DEF FileUpdate, SourceUpdated, IInv, LoadFacts, Loading, Requests, Streams
<1>15. CASE UpdateTimestamp
  BY <1>15, <1>u DEF UpdateTimestamp, Answered, Return, SourceTimestamp, MsPerSecond, IInv,
     LoadFacts, Loading, Requests, Streams
<1>16. CASE StateRows
  BY <1>16, <1>u DEF StateRows, Return, IInv, LoadFacts, Loading, Requests, Streams
<1>17. CASE UNCHANGED vars
  BY <1>17, <1>u DEF IInv, LoadFacts, Loading, Requests, Streams
<1> QED
  BY <1>1, <1>2, <1>3, <1>4, <1>5, <1>6, <1>7, <1>8, <1>9, <1>10, <1>11, <1>12, <1>13, <1>14,
     <1>15, <1>16, <1>17 DEF Next

\* Nonces of the snapshots a load deals with.
LEMMA LoadNonces ==
  ASSUME IInv
  PROVE  /\ Nonce[modulesBlock] \in Nat /\ Nonce[page] \in Nat /\ Nonce[newest] \in Nat
         /\ Nonce[started] \in Nat /\ Nonce[api[url]] \in Nat
         /\ modulesBlock \in Nat /\ page \in Nat /\ newest \in Nat /\ api[url] \in Nat
         /\ Nonce[modulesBlock] <= Nonce[newest]
         /\ modulesBlock <= page => Nonce[modulesBlock] <= Nonce[page]
         /\ newest <= api[url] => Nonce[newest] <= Nonce[api[url]]
         /\ api[url] <= newest => Nonce[api[url]] <= Nonce[newest]
         /\ pc # "idle" => Nonce[started] <= Nonce[api[url]]
<1>1. /\ modulesBlock \in Block /\ page \in Block /\ newest \in Block /\ started \in Block
      /\ api[url] \in Block /\ url \in 1 .. urls /\ modulesBlock <= newest
  BY AnswerHasNonce DEF IInv, TypeOK, TypeUpdate
<1>2. pc # "idle" => started <= api[url]
  BY <1>1 DEF IInv, Snapshots
<1>3. modulesBlock \in Nat /\ page \in Nat /\ newest \in Nat /\ api[url] \in Nat
  BY <1>1, LastBlockAssumption DEF Block
<1> QED
  BY <1>1, <1>2, <1>3, NonceGrows

\* What the streams have brought so far.
LEMMA StreamFactsStep ==
  ASSUME IInv, [Next]_vars
  PROVE  StreamFacts'
<1> USE DEF vars, world, deployment, maps, service, stream, check, history
<1>n. /\ Nonce[modulesBlock] \in Nat /\ Nonce[page] \in Nat
      /\ modulesBlock \in Nat /\ page \in Nat /\ api[url] \in Nat
      /\ modulesBlock <= page => Nonce[modulesBlock] <= Nonce[page]
  BY LoadNonces
<1>t. position \in 0 .. Nonce[page] /\ behind \in {"yes", "no"}
  BY DEF IInv, TypeOK, TypeUpdate
<1>1. CASE NewBlock
  BY <1>1, <1>n, <1>t DEF NewBlock, IInv, StreamFacts, OwnersKnown, Requests, Streams
<1>2. CASE \E u \in 1 .. urls : Snapshot(u)
  BY <1>2, <1>n, <1>t DEF Snapshot, IInv, StreamFacts, OwnersKnown, Requests, Streams
<1>3. CASE \E t \in Block : Ask(t)
  BY <1>3, <1>n, <1>t DEF Ask, IInv, StreamFacts, OwnersKnown, Requests, Streams
<1>4. CASE RequestFails
  BY <1>4, <1>n, <1>t DEF RequestFails, Throw, Return, Requests, IInv, StreamFacts, OwnersKnown,
     Streams
<1>5. CASE StepFails
  BY <1>5, <1>n, <1>t DEF StepFails, Throw, Return, Streams, IInv, StreamFacts, OwnersKnown,
     Requests
<1>6. CASE StorageUpdate
  BY <1>6, <1>n, <1>t DEF StorageUpdate, IInv, StreamFacts, OwnersKnown, Requests, Streams
<1>7. CASE ReadModules
  BY <1>7, <1>n, <1>t DEF ReadModules, Answered, SourceUpdated, Reload, IInv, StreamFacts,
     OwnersKnown, Requests, Streams
<1>8. CASE ReadOperators
  BY <1>8, <1>n, <1>t DEF ReadOperators, Receive, Answered, IInv, StreamFacts, OwnersKnown,
     Requests, Streams
<1>9. CASE OperatorsBatch
  BY <1>9, <1>n, <1>t DEF OperatorsBatch, FindAll, OperatorsAt, KeysAt, IInv, StreamFacts,
     OwnersKnown, Requests, Streams
<1>10. CASE OperatorsEnd
  BY <1>10, <1>n, <1>t DEF OperatorsEnd, IInv, StreamFacts, OwnersKnown, Requests, Streams
<1>11. CASE ReadKeys
  BY <1>11, <1>n, <1>t DEF ReadKeys, Receive, Answered, IInv, StreamFacts, OwnersKnown, Requests,
     Streams
<1>12. CASE KeysBatch
  BY <1>12, <1>n, <1>t DEF KeysBatch, IInv, StreamFacts, OwnersKnown, Requests, Streams
<1>13. CASE KeysEnd
  BY <1>13, <1>n, <1>t DEF KeysEnd, SourceUpdated, IInv, StreamFacts, OwnersKnown, Requests, Streams
<1>14. CASE FileUpdate
  BY <1>14, <1>n, <1>t DEF FileUpdate, SourceUpdated, IInv, StreamFacts, OwnersKnown, Requests,
     Streams
<1>15. CASE UpdateTimestamp
  BY <1>15, <1>n, <1>t DEF UpdateTimestamp, Answered, Return, SourceTimestamp, MsPerSecond, IInv,
     StreamFacts, OwnersKnown, Requests, Streams
<1>16. CASE StateRows
  BY <1>16, <1>n, <1>t DEF StateRows, Return, IInv, StreamFacts, OwnersKnown, Requests, Streams
<1>17. CASE UNCHANGED vars
  BY <1>17, <1>n, <1>t DEF IInv, StreamFacts, OwnersKnown, Requests, Streams
<1> QED
  BY <1>1, <1>2, <1>3, <1>4, <1>5, <1>6, <1>7, <1>8, <1>9, <1>10, <1>11, <1>12, <1>13, <1>14,
     <1>15, <1>16, <1>17 DEF Next

\* The promise of the recorded nonce, or the reason why it will be renewed.
LEMMA RecordFactsStep ==
  ASSUME IInv, [Next]_vars
  PROVE  RecordFacts'
<1> USE DEF vars, world, deployment, maps, service, stream, check, history
<1>n. /\ Nonce[modulesBlock] \in Nat /\ Nonce[page] \in Nat /\ Nonce[newest] \in Nat
      /\ Nonce[api[url]] \in Nat
      /\ modulesBlock \in Nat /\ page \in Nat /\ newest \in Nat /\ api[url] \in Nat
      /\ Nonce[modulesBlock] <= Nonce[newest]
      /\ modulesBlock <= page => Nonce[modulesBlock] <= Nonce[page]
      /\ newest <= api[url] => Nonce[newest] <= Nonce[api[url]]
      /\ api[url] <= newest => Nonce[api[url]] <= Nonce[newest]
  BY LoadNonces
<1>t. /\ position \in 0 .. Nonce[page] /\ behind \in {"yes", "no"}
      /\ keysOpIndex \in Nat /\ nonce \in Nat
  BY DEF IInv, TypeOK, TypeUpdate
<1>l. pc \in Loading => keysOpIndex = 0 \/ Nonce[newest] > keysOpIndex
  BY <1>n, <1>t DEF IInv, LoadFacts
<1>1. CASE NewBlock
  BY <1>1, <1>n, <1>t, <1>l DEF NewBlock, IInv, RecordFacts, OwnersKnown, Loading
<1>2. CASE \E u \in 1 .. urls : Snapshot(u)
  BY <1>2, <1>n, <1>t, <1>l DEF Snapshot, IInv, RecordFacts, OwnersKnown, Loading
<1>3. CASE \E t \in Block : Ask(t)
  BY <1>3, <1>n, <1>t, <1>l DEF Ask, IInv, RecordFacts, OwnersKnown, Loading
<1>4. CASE RequestFails
  BY <1>4, <1>n, <1>t, <1>l DEF RequestFails, Throw, Return, Requests, IInv, RecordFacts,
     OwnersKnown, Loading
<1>5. CASE StepFails
  BY <1>5, <1>n, <1>t, <1>l DEF StepFails, Throw, Return, Streams, IInv, RecordFacts,
     OwnersKnown, Loading
<1>6. CASE StorageUpdate
  BY <1>6, <1>n, <1>t, <1>l DEF StorageUpdate, IInv, RecordFacts, OwnersKnown, Loading
<1>7. CASE ReadModules
  <2>1. CASE Reload(nonce')
    BY <1>7, <2>1, <1>n, <1>t DEF ReadModules, Answered, Reload, RecordFacts
  <2>2. CASE ~Reload(nonce')
    BY <1>7, <2>2, <1>n, <1>t DEF ReadModules, Answered, IInv, RecordFacts, OwnersKnown
  <2> QED
    BY <2>1, <2>2
<1>8. CASE ReadOperators
  BY <1>8, <1>n, <1>t, <1>l DEF ReadOperators, Receive, Answered, IInv, RecordFacts, OwnersKnown,
     Loading
<1>9. CASE OperatorsBatch
  BY <1>9, <1>n, <1>t, <1>l DEF OperatorsBatch, IInv, RecordFacts, OwnersKnown, Loading
<1>10. CASE OperatorsEnd
  BY <1>10, <1>n, <1>t, <1>l DEF OperatorsEnd, IInv, RecordFacts, OwnersKnown, Loading
<1>11. CASE ReadKeys
  BY <1>11, <1>n, <1>t, <1>l DEF ReadKeys, Receive, Answered, IInv, RecordFacts, OwnersKnown,
     Loading
<1>12. CASE KeysBatch
  BY <1>12, <1>n, <1>t, <1>l DEF KeysBatch, IInv, RecordFacts, OwnersKnown, Loading
<1>13. CASE KeysEnd
  BY <1>13, <1>n, <1>t, <1>l DEF KeysEnd, SourceUpdated, StreamFacts, LoadFacts, IInv,
     RecordFacts, OwnersKnown, Loading
<1>14. CASE FileUpdate
  BY <1>14, <1>n, <1>t, <1>l DEF FileUpdate, SourceUpdated, SourceSteps, IInv, RecordFacts,
     OwnersKnown, Loading
<1>15. CASE UpdateTimestamp
  BY <1>15, <1>n, <1>t, <1>l DEF UpdateTimestamp, Answered, Return, SourceTimestamp, MsPerSecond,
     IInv, RecordFacts, OwnersKnown, Loading
<1>16. CASE StateRows
  BY <1>16, <1>n, <1>t, <1>l DEF StateRows, Return, IInv, RecordFacts, OwnersKnown, Loading
<1>17. CASE UNCHANGED vars
  BY <1>17, <1>n, <1>t, <1>l DEF IInv, RecordFacts, OwnersKnown, Loading
<1> QED
  BY <1>1, <1>2, <1>3, <1>4, <1>5, <1>6, <1>7, <1>8, <1>9, <1>10, <1>11, <1>12, <1>13, <1>14,
     <1>15, <1>16, <1>17 DEF Next

\* The maps a check goes on with.
LEMMA UsableFactsStep ==
  ASSUME IInv, [Next]_vars
  PROVE  UsableFacts'
<1> USE DEF vars, world, deployment, maps, service, stream, check, history
<1>n. /\ Nonce[modulesBlock] \in Nat /\ Nonce[page] \in Nat /\ Nonce[newest] \in Nat
      /\ Nonce[started] \in Nat /\ Nonce[api[url]] \in Nat
      /\ modulesBlock \in Nat /\ page \in Nat /\ newest \in Nat /\ api[url] \in Nat
      /\ modulesBlock <= page => Nonce[modulesBlock] <= Nonce[page]
      /\ newest <= api[url] => Nonce[newest] <= Nonce[api[url]]
      /\ pc # "idle" => Nonce[started] <= Nonce[api[url]]
  BY LoadNonces
<1>t. /\ position \in 0 .. Nonce[page] /\ behind \in {"yes", "no"}
      /\ keysOpIndex \in Nat /\ nonce \in Nat
  BY DEF IInv, TypeOK, TypeUpdate
<1>1. CASE NewBlock
  BY <1>1, <1>n, <1>t DEF NewBlock, IInv, UsableFacts, OwnersKnown, KeysAt, Requests, Streams
<1>2. CASE \E u \in 1 .. urls : Snapshot(u)
  BY <1>2, <1>n, <1>t DEF Snapshot, IInv, UsableFacts, OwnersKnown, KeysAt, Requests, Streams
<1>3. CASE \E t \in Block : Ask(t)
  BY <1>3, <1>n, <1>t DEF Ask, IInv, UsableFacts, OwnersKnown, KeysAt, Requests, Streams
<1>4. CASE RequestFails
  BY <1>4, <1>n, <1>t DEF RequestFails, Throw, Return, Requests, IInv, UsableFacts, OwnersKnown,
     KeysAt, Streams
<1>5. CASE StepFails
  BY <1>5, <1>n, <1>t DEF StepFails, Throw, Return, Streams, IInv, UsableFacts, OwnersKnown,
     KeysAt, Requests
<1>6. CASE StorageUpdate
  BY <1>6, <1>n, <1>t DEF StorageUpdate, IInv, UsableFacts, OwnersKnown, KeysAt, Requests, Streams
<1>7. CASE ReadModules
  <2>1. CASE Reload(nonce')
    BY <1>7, <2>1 DEF ReadModules, UsableFacts
  <2>2. CASE ~Reload(nonce') /\ behind' = "no"
    <3>1. keysOpIndex # 0 /\ Nonce[api[url]] <= keysOpIndex
      BY <1>7, <2>2, <1>n, <1>t DEF ReadModules, Reload
    <3>2. behind = "no" /\ newest <= api[url]
      BY <1>7, <2>2, <1>n DEF ReadModules
    <3>3. 1 .. keysOpIndex \subseteq keysMap /\ OwnersKnown(keysOpIndex)
      BY <3>1, <3>2, <1>n, <1>t DEF IInv, RecordFacts
    <3>4. Nonce[started] <= keysOpIndex
      BY <1>7, <3>1, <1>n, <1>t DEF ReadModules
    <3> QED
      BY <1>7, <3>3, <3>4, <1>n, <1>t DEF ReadModules, UsableFacts, OwnersKnown, KeysAt
  <2>3. CASE behind' # "no"
    BY <2>3 DEF UsableFacts
  <2> QED
    BY <2>1, <2>2, <2>3
<1>8. CASE ReadOperators
  BY <1>8, <1>n, <1>t DEF ReadOperators, Receive, Answered, IInv, UsableFacts, OwnersKnown,
     KeysAt, Requests, Streams
<1>9. CASE OperatorsBatch
  BY <1>9, <1>n, <1>t DEF OperatorsBatch, IInv, UsableFacts, OwnersKnown, KeysAt, Requests, Streams
<1>10. CASE OperatorsEnd
  BY <1>10, <1>n, <1>t DEF OperatorsEnd, IInv, UsableFacts, OwnersKnown, KeysAt, Requests, Streams
<1>11. CASE ReadKeys
  BY <1>11, <1>n, <1>t DEF ReadKeys, Receive, Answered, IInv, UsableFacts, OwnersKnown, KeysAt,
     Requests, Streams
<1>12. CASE KeysBatch
  BY <1>12, <1>n, <1>t DEF KeysBatch, IInv, UsableFacts, OwnersKnown, KeysAt, Requests, Streams
<1>13. CASE KeysEnd
  BY <1>13, <1>n, <1>t DEF KeysEnd, SourceUpdated, StreamFacts, LoadFacts, Loading, IInv,
     UsableFacts, OwnersKnown, KeysAt, Requests, Streams
<1>14. CASE FileUpdate
  <2>1. source = "file" /\ keysOpIndex = 0 /\ 1 \in 1 .. urls /\ urls = 1 /\ url = 1
    BY <1>14, UrlsOfDeployment DEF FileUpdate, IInv, SourceSteps, TypeOK, TypeUpdate
  <2>2. Nonce[started] <= Nonce[api[1]]
    BY <1>14, <2>1, <1>n DEF FileUpdate
  <2> QED
    BY <1>14, <2>1, <2>2, <1>n DEF FileUpdate, SourceUpdated, UsableFacts, OwnersKnown, KeysAt
<1>15. CASE UpdateTimestamp
  BY <1>15, <1>n, <1>t DEF UpdateTimestamp, Answered, Return, SourceTimestamp, MsPerSecond, IInv,
     UsableFacts, OwnersKnown, KeysAt, Requests, Streams
<1>16. CASE StateRows
  BY <1>16, <1>n, <1>t DEF StateRows, Return, IInv, UsableFacts, OwnersKnown, KeysAt, Requests,
     Streams
<1>17. CASE UNCHANGED vars
  BY <1>17, <1>n, <1>t DEF IInv, UsableFacts, OwnersKnown, KeysAt, Requests, Streams
<1> QED
  BY <1>1, <1>2, <1>3, <1>4, <1>5, <1>6, <1>7, <1>8, <1>9, <1>10, <1>11, <1>12, <1>13, <1>14,
     <1>15, <1>16, <1>17 DEF Next

\* The list of operators stays inside the map, and the map inside a storage or a file.
LEMMA ListFactsStep ==
  ASSUME IInv, [Next]_vars
  PROVE  ListFacts'
<1> USE DEF vars, world, deployment, maps, service, stream, check, history
<1>u. /\ 1 \in 1 .. urls /\ url \in 1 .. urls /\ (source # "keysapi" => urls = 1 /\ url = 1)
      /\ api \in [1 .. urls -> Block] /\ tip \in Block
  BY UrlsOfDeployment DEF IInv, TypeOK, TypeUpdate, TypeWorld
<1>g. ASSUME NEW b \in Block, NEW c \in Block, b <= c
      PROVE  OperatorsAt(b) \subseteq OperatorsAt(c)
  <2>1. KeysAt(b) \subseteq KeysAt(c)
    BY <1>g, NonceGrows DEF KeysAt
  <2> QED
    BY <2>1 DEF OperatorsAt
<1>h. api'[1] \in Block /\ api[1] \in Block /\ api[1] <= api'[1]
  <2>1. api[1] \in Block /\ api[1] <= tip /\ api[1] \in Nat
    BY <1>u, LastBlockAssumption DEF IInv, Snapshots, Block
  <2>2. CASE \E u \in 1 .. urls : Snapshot(u)
    BY <1>u, <2>1, <2>2 DEF Snapshot
  <2>3. CASE StorageUpdate
    BY <1>u, <2>1, <2>3 DEF StorageUpdate
  <2>4. CASE UNCHANGED api
    BY <2>1, <2>4
  <2> QED
    BY <2>2, <2>3, <2>4 DEF Next, NewBlock, Ask, RequestFails, StepFails, Throw, ReadModules,
       ReadOperators,
       OperatorsBatch, OperatorsEnd, ReadKeys, KeysBatch, KeysEnd, FileUpdate, UpdateTimestamp,
          StateRows
<1>o. OperatorsAt(api[1]) \subseteq OperatorsAt(api'[1])
  BY <1>g, <1>h
<1>1. CASE NewBlock
  <2>1. OperatorsAt(api[1])' = OperatorsAt(api'[1])
    BY DEF OperatorsAt, KeysAt
  <2> QED
    BY <1>1, <1>o, <2>1 DEF NewBlock, IInv, ListFacts
<1>2. CASE \E u \in 1 .. urls : Snapshot(u)
  BY <1>2, <1>u, <1>o DEF Snapshot, IInv, ListFacts, Requests, Streams
<1>3. CASE \E t \in Block : Ask(t)
  BY <1>3, <1>u, <1>o DEF Ask, IInv, ListFacts, Requests, Streams
<1>4. CASE RequestFails
  BY <1>4, <1>u, <1>o DEF RequestFails, Throw, Return, Requests, IInv, ListFacts, Streams
<1>5. CASE StepFails
  BY <1>5, <1>u, <1>o DEF StepFails, Throw, Return, Streams, IInv, ListFacts, Requests
<1>6. CASE StorageUpdate
  BY <1>6, <1>u, <1>o DEF StorageUpdate, IInv, ListFacts, Requests, Streams
<1>7. CASE ReadModules
  BY <1>7, <1>u, <1>o DEF ReadModules, Answered, SourceUpdated, Reload, IInv, ListFacts,
     Requests, Streams
<1>8. CASE ReadOperators
  BY <1>8, <1>u, <1>o DEF ReadOperators, Receive, Answered, IInv, ListFacts, Requests, Streams
<1>9. CASE OperatorsBatch
  <2>1. UNCHANGED <<source, api, pc, page, operators>> /\ pc = "operatorsStream"
    BY <1>9 DEF OperatorsBatch, FindAll
  <2>2. CASE source = "lido"
    <3>1. operatorsMap' = OperatorsAt(api[1])
      BY <1>9, <2>2 DEF OperatorsBatch, FindAll, IInv, ListFacts
    <3> QED
      BY <2>1, <2>2, <3>1 DEF IInv, ListFacts, OperatorsAt, KeysAt
  <2>3. CASE source # "lido"
    <3>1. operatorsMap \subseteq operatorsMap' /\ source = "keysapi"
      BY <1>9, <2>3, UrlsOfDeployment DEF OperatorsBatch, FindAll, IInv, SourceSteps, Sources
    <3> QED
      BY <2>1, <3>1 DEF IInv, ListFacts
  <2> QED
    BY <2>2, <2>3
<1>10. CASE OperatorsEnd
  BY <1>10, <1>u, <1>o DEF OperatorsEnd, IInv, ListFacts, Requests, Streams
<1>11. CASE ReadKeys
  BY <1>11, <1>u, <1>o DEF ReadKeys, Receive, Answered, IInv, ListFacts, Requests, Streams
<1>12. CASE KeysBatch
  BY <1>12, <1>u, <1>o DEF KeysBatch, IInv, ListFacts, Requests, Streams
<1>13. CASE KeysEnd
  BY <1>13, <1>u, <1>o DEF KeysEnd, SourceUpdated, IInv, ListFacts, Requests, Streams
<1>14. CASE FileUpdate
  <2>1. operatorsMap' = OperatorsAt(api[1]) /\ UNCHANGED <<source, api,
     operators>> /\ pc' = "status"
    BY <1>14 DEF FileUpdate, SourceUpdated
  <2>2. source = "file" /\ operators \subseteq OperatorsAt(api[1])
    BY <1>14 DEF FileUpdate, IInv, SourceSteps, ListFacts
  <2>3. OperatorsAt(api[1])' = OperatorsAt(api[1])
    BY <2>1 DEF OperatorsAt, KeysAt
  <2> QED
    BY <2>1, <2>2, <2>3 DEF ListFacts
<1>15. CASE UpdateTimestamp
  BY <1>15, <1>u, <1>o DEF UpdateTimestamp, Answered, Return, SourceTimestamp, MsPerSecond, IInv,
     ListFacts, Requests, Streams
<1>16. CASE StateRows
  BY <1>16, <1>u, <1>o DEF StateRows, Return, IInv, ListFacts, Requests, Streams
<1>17. CASE UNCHANGED vars
  BY <1>17, <1>u, <1>o DEF IInv, ListFacts, Requests, Streams
<1> QED
  BY <1>1, <1>2, <1>3, <1>4, <1>5, <1>6, <1>7, <1>8, <1>9, <1>10, <1>11, <1>12, <1>13, <1>14,
     <1>15, <1>16, <1>17 DEF Next

\* The owners in the last rows stay in the list.
LEMMA RowsStep ==
  ASSUME IInv, [Next]_vars
  PROVE  RowsHaveOperators'
<1> USE DEF vars, world, deployment, maps, service, stream, check, history
<1>1. CASE NewBlock
  BY <1>1 DEF NewBlock, IInv, RowsHaveOperators, ListFacts
<1>2. CASE \E u \in 1 .. urls : Snapshot(u)
  BY <1>2 DEF Snapshot, IInv, RowsHaveOperators, ListFacts
<1>3. CASE \E t \in Block : Ask(t)
  BY <1>3 DEF Ask, IInv, RowsHaveOperators, ListFacts
<1>4. CASE RequestFails
  BY <1>4 DEF RequestFails, Throw, Return, Requests, IInv, RowsHaveOperators, ListFacts
<1>5. CASE StepFails
  BY <1>5 DEF StepFails, Throw, Return, Streams, IInv, RowsHaveOperators, ListFacts
<1>6. CASE StorageUpdate
  BY <1>6 DEF StorageUpdate, IInv, RowsHaveOperators, ListFacts
<1>7. CASE ReadModules
  BY <1>7 DEF ReadModules, Answered, SourceUpdated, Reload, IInv, RowsHaveOperators, ListFacts
<1>8. CASE ReadOperators
  BY <1>8 DEF ReadOperators, Receive, Answered, IInv, RowsHaveOperators, ListFacts
<1>9. CASE OperatorsBatch
  BY <1>9 DEF OperatorsBatch, IInv, RowsHaveOperators, ListFacts
<1>10. CASE OperatorsEnd
  BY <1>10 DEF OperatorsEnd, IInv, RowsHaveOperators, ListFacts
<1>11. CASE ReadKeys
  BY <1>11 DEF ReadKeys, Receive, Answered, IInv, RowsHaveOperators, ListFacts
<1>12. CASE KeysBatch
  BY <1>12 DEF KeysBatch, IInv, RowsHaveOperators, ListFacts
<1>13. CASE KeysEnd
  BY <1>13 DEF KeysEnd, SourceUpdated, IInv, RowsHaveOperators, ListFacts
<1>14. CASE FileUpdate
  BY <1>14 DEF FileUpdate, SourceUpdated, IInv, RowsHaveOperators, ListFacts
<1>15. CASE UpdateTimestamp
  BY <1>15 DEF UpdateTimestamp, Answered, Return, SourceTimestamp, MsPerSecond, IInv,
     RowsHaveOperators, ListFacts
<1>16. CASE StateRows
  BY <1>16 DEF StateRows, Return, GetOperatorKey, IInv, RowsHaveOperators, ListFacts
<1>17. CASE UNCHANGED vars
  BY <1>17 DEF IInv, RowsHaveOperators, ListFacts
<1> QED
  BY <1>1, <1>2, <1>3, <1>4, <1>5, <1>6, <1>7, <1>8, <1>9, <1>10, <1>11, <1>12, <1>13, <1>14,
     <1>15, <1>16, <1>17 DEF Next

\* The invariant of every behaviour.
THEOREM InvariantHolds == Spec => []IInv
<1>1. ASSUME IInv, [Next]_vars
      PROVE  IInv'
  <2>1. TypeOK'
    BY <1>1, TypeWorldStep, TypeMapsStep, TypeUpdateStep DEF IInv, TypeOK
  <2>2. Snapshots' /\ SourceSteps' /\ (modulesBlock <= newest)'
    BY <1>1, SnapshotsStep, SourceStepsStep
  <2>3. LoadFacts' /\ StreamFacts' /\ RecordFacts' /\ UsableFacts'
    BY <1>1, LoadFactsStep, StreamFactsStep, RecordFactsStep, UsableFactsStep
  <2>4. ListFacts' /\ RowsHaveOperators'
    BY <1>1, ListFactsStep, RowsStep
  <2> QED
    BY <2>1, <2>2, <2>3, <2>4 DEF IInv
<1> QED
  BY <1>1, InvariantInit, PTL DEF Spec

\* The types hold in every state (registry.service.ts, keysapi-source.service.ts).
THEOREM TypeCorrect == Spec => []TypeOK
<1>1. IInv => TypeOK
  BY DEF IInv
<1> QED
  BY <1>1, InvariantHolds, PTL

\* No update that failed half way leaves maps a later check would use: the keys known when
\* the update began are there (KeysapiSourceService.update, keysOpIndex).
THEOREM FreshKeysHold == Spec => []FreshKeys
<1>1. IInv => FreshKeys
  BY DEF IInv, UsableFacts, FreshKeys
<1> QED
  BY <1>1, InvariantHolds, PTL

\* A lookup that fails for want of an operator is answered by the next load
\* (RegistryService.getOperatorKey).
THEOREM MissingOwnersAreNew == Spec => []MissingOwnerIsNew
<1>1. ASSUME IInv
      PROVE  MissingOwnerIsNew
  <2>1. SUFFICES ASSUME pc = "rows", behind = "no", NEW k \in keysMap, Owner[k] \notin operatorsMap
                 PROVE  k > keysOpIndex
    BY DEF MissingOwnerIsNew
  <2>2. LastBlock \in Block
    BY LastBlockAssumption DEF Block
  <2>3. k \in Nat /\ k >= 1 /\ keysOpIndex \in Nat
    BY <2>2, <1>1, NonceGrows DEF IInv, TypeOK, TypeMaps, TypeUpdate, Key
  <2>4. OwnersKnown(keysOpIndex)
    BY <1>1, <2>1 DEF IInv, UsableFacts
  <2>5. ~(k \in 1 .. keysOpIndex)
    BY <2>1, <2>4 DEF OwnersKnown
  <2> QED
    BY <2>3, <2>5
<1> QED
  BY <1>1, InvariantHolds, PTL

\* Metrics and alerts go through a list that has every owner of the stored rows
\* (RegistryService.getOperators).
THEOREM RowsHaveOperatorsHolds == Spec => []RowsHaveOperators
<1>1. IInv => RowsHaveOperators
  BY DEF IInv
<1> QED
  BY <1>1, InvariantHolds, PTL
=============================================================================
