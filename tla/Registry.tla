------------------------------ MODULE Registry ------------------------------
(***************************************************************************)
(* RegistryService and its three sources (Keys API, Lido storage, file):   *)
(* which keys are monitored and which operator owns them.  StateService    *)
(* asks for an update at the slot time of every epoch it checks, then      *)
(* looks up the owner of every validator.                                  *)
(*                                                                         *)
(* The Keys API is asked in four requests (modules, operators, keys,       *)
(* status), each answered by the first URL that does not fail, from the    *)
(* snapshot that URL has at that moment; the operators and the keys arrive *)
(* in batches of a stream.  Requests and streams may fail at any point,    *)
(* and the update that fails is repeated in the next iteration.            *)
(*                                                                         *)
(* A key is the nonce it was registered at: a snapshot of block b has the  *)
(* keys 1 .. Nonce[b] and their owners.  A block stands for its timestamp. *)
(***************************************************************************)
EXTENDS Naturals

CONSTANTS
  LastBlock,   \* bound: the last block of the execution chain
  Nonce,       \* sum of the nonces of the modules at every block
  Owner,       \* operator of every key
  Deployments, \* <<source, number of URLs>> explored
  StuckKeys    \* keys listed in VALIDATOR_STUCK_KEYS_FILE_PATH

Block == 0 .. LastBlock
Key == 1 .. Nonce[LastBlock]
Operator == {Owner[k] : k \in Key}
Sources == {"keysapi", "lido", "file"}

ASSUME LastBlockAssumption == LastBlock \in Nat
ASSUME NonceAssumption ==
  /\ Nonce \in [Block -> Nat]
  /\ \A b, c \in Block : b <= c => Nonce[b] <= Nonce[c]
ASSUME DeploymentsAssumption ==
  /\ Deployments \subseteq Sources \X (Nat \ {0})
  /\ \A d \in Deployments : d[1] # "keysapi" => d[2] = 1
ASSUME StuckKeysAssumption == StuckKeys \subseteq Key

VARIABLES
  (* the outside *)
  source, urls,  \* the kind of source and its number of URLs, fixed
  tip,           \* newest block
  api,           \* snapshot each URL serves; the storage or the file of the other sources
  (* KeysapiSourceService, LidoSourceService, FileSourceService *)
  operatorsMap, keysMap, keysOpIndex,
  (* RegistryService *)
  lastTimestamp, stuckKeys, operators,
  (* the update under way *)
  pc, asked, url, nonce, page, position,
  (* the check it is part of *)
  result,        \* how the last check ended
  rows,          \* keys with an owner in the last summary
  (* history *)
  started,       \* oldest snapshot any URL had when the update began
  newest,        \* newest snapshot an answer came from
  modulesBlock,  \* snapshot of the last answer about the modules
  behind         \* "yes": the maps rest on an answer older than one before it

deployment == <<source, urls>>
world      == <<deployment, tip, api>>
maps       == <<operatorsMap, keysMap, keysOpIndex>>
service    == <<lastTimestamp, stuckKeys, operators>>
stream     == <<page, position>>
check      == <<asked, result, rows>>
history    == <<started, newest, modulesBlock, behind>>
vars == <<world, maps, service, pc, url, nonce, stream, check, history>>

KeysAt(b) == 1 .. Nonce[b]
OperatorsAt(b) == {Owner[k] : k \in KeysAt(b)}

Init ==
  /\ \E d \in Deployments : source = d[1] /\ urls = d[2]
  /\ tip \in Block
  /\ api \in [1 .. urls -> 0 .. tip]
  /\ operatorsMap = {} /\ keysMap = {} /\ keysOpIndex = 0
  /\ lastTimestamp = 0 /\ stuckKeys = {} /\ operators = {}
  /\ pc = "idle" /\ asked = 0 /\ url = 1 /\ nonce = 0
  /\ page = 0 /\ position = 0
  /\ result = "done" /\ rows = {}
  /\ started = 0 /\ newest = 0 /\ modulesBlock = 0 /\ behind = "no"

(***************************************************************************)
(* The outside: blocks are produced, snapshots follow.  The Lido storage   *)
(* moves only when the update moves it.                                    *)
(***************************************************************************)
NewBlock ==
  /\ tip < LastBlock
  /\ tip' = tip + 1
  /\ UNCHANGED <<deployment, api, maps, service, pc, url, nonce, stream, check, history>>

Snapshot(u) ==
  /\ source # "lido"
  /\ api[u] < tip
  /\ api' = [api EXCEPT ![u] = tip]
  /\ UNCHANGED <<deployment, tip, maps, service, pc, url, nonce, stream, check, history>>

(***************************************************************************)
(* The update ends with an error or with the rows of the epoch; the epoch  *)
(* of a failed check is checked again.                                     *)
(***************************************************************************)
Ask(t) ==
  /\ pc = "idle"
  /\ t \in IF result = "failed" THEN {asked} ELSE {asked, asked + 1}
  /\ t <= tip
  /\ asked' = t
  /\ result' = "none"
  /\ started' \in {api[u] : u \in 1 .. urls}
  /\ \A u \in 1 .. urls : started' <= api[u]
  /\ url' = 1
  /\ pc' = CASE source = "keysapi" -> "modules"
             [] source = "lido" -> "storage"
             [] OTHER -> "file"
  /\ UNCHANGED <<world, maps, service, nonce, stream, rows, newest, modulesBlock, behind>>

\* The locals of the update are out of scope
Return ==
  /\ pc' = "idle"
  /\ nonce' = 0 /\ page' = 0 /\ position' = 0

Throw ==
  /\ Return
  /\ url' = 1
  /\ result' = "failed"
  /\ UNCHANGED <<world, maps, service, asked, rows, history>>

Requests == {"modules", "operators", "keys", "status"}
Streams == {"operatorsStream", "keysStream"}

\* Mutant of RequestFails: the URL after the last one is asked
NoLastUrl ==
  /\ pc \in Requests
  /\ IF url > urls
     THEN Throw
     ELSE /\ url' = url + 1
          /\ UNCHANGED <<world, maps, service, pc, nonce, stream, check, history>>

\* retryRequest: a URL that failed to the last retry is followed by the next one
RequestFails ==
  /\ pc \in Requests
  /\ IF url = urls
     THEN Throw
     ELSE /\ url' = url + 1
          /\ UNCHANGED <<world, maps, service, pc, nonce, stream, check, history>>

\* A stream that breaks, storage, file or beacon state that cannot be read
StepFails == pc \in Streams \cup {"storage", "file", "rows"} /\ Throw

\* The retrier is done when the response starts: what is received is of one snapshot
Answered ==
  /\ url' = 1
  /\ newest' = IF api[url] > newest THEN api[url] ELSE newest

(***************************************************************************)
(* The source                                                              *)
(***************************************************************************)
\* validatorService.update('latest')
StorageUpdate ==
  /\ pc = "storage"
  /\ api' = [api EXCEPT ![1] = tip]
  /\ pc' = "modules"
  /\ UNCHANGED <<deployment, tip, maps, service, url, nonce, stream, check, history>>

\* Promise.all is through: the stuck keys, or nothing if their file cannot be read
SourceUpdated ==
  /\ stuckKeys' \in {StuckKeys, {}}
  /\ pc' = "status"

\* Mutant of Reload: a changed nonce is not noticed after the first load
ReloadOnce(n) == keysOpIndex = 0

Reload(n) == keysOpIndex = 0 \/ n > keysOpIndex

\* Mutant of ReadModules: the nonce is recorded before the maps are loaded
RecordAtOnce ==
  /\ pc = "modules"
  /\ Answered
  /\ nonce' = Nonce[api[url]]
  /\ modulesBlock' = api[url]
  /\ keysOpIndex' = nonce'
  /\ IF Reload(nonce')
     THEN pc' = "operators" /\ behind' = "no" /\ UNCHANGED stuckKeys
     ELSE /\ SourceUpdated
          /\ behind' = IF api[url] < newest THEN "yes" ELSE behind
  /\ UNCHANGED <<world, operatorsMap, keysMap, lastTimestamp, operators, stream, check, started>>

ReadModules ==
  /\ pc = "modules"
  /\ Answered
  /\ nonce' = Nonce[api[url]]
  /\ modulesBlock' = api[url]
  /\ IF Reload(nonce')
     THEN pc' = "operators" /\ behind' = "no" /\ UNCHANGED stuckKeys
     ELSE /\ SourceUpdated
          /\ behind' = IF api[url] < newest THEN "yes" ELSE behind
  /\ UNCHANGED <<world, maps, lastTimestamp, operators, stream, check, started>>

\* Both kinds of streams start here; an answer may be older than that of the modules
Receive ==
  /\ Answered
  /\ page' = api[url]
  /\ position' = 0
  /\ behind' = IF api[url] < modulesBlock THEN "yes" ELSE behind

ReadOperators ==
  /\ pc = "operators"
  /\ Receive
  /\ pc' = "operatorsStream"
  /\ UNCHANGED <<world, maps, service, nonce, check, started, modulesBlock>>

\* All operators of the Lido storage
FindAll == OperatorsAt(page)

\* A batch of operators is added to the map; the Lido source replaces the map by findAll
OperatorsBatch ==
  /\ pc = "operatorsStream"
  /\ IF source = "lido"
     THEN /\ position < Nonce[page]
          /\ position' = Nonce[page]
          /\ operatorsMap' = FindAll
     ELSE \E p \in position + 1 .. Nonce[page] :
            /\ position' = p
            /\ operatorsMap' = operatorsMap \cup {Owner[k] : k \in position + 1 .. p}
  /\ UNCHANGED <<world, keysMap, keysOpIndex, service, pc, url, nonce, page, check, history>>

OperatorsEnd ==
  /\ pc = "operatorsStream"
  /\ position = Nonce[page]
  /\ keysMap' = {}
  /\ pc' = "keys"
  /\ UNCHANGED <<world, operatorsMap, keysOpIndex, service, url, nonce, stream, check, history>>

ReadKeys ==
  /\ pc = "keys"
  /\ Receive
  /\ pc' = "keysStream"
  /\ UNCHANGED <<world, maps, service, nonce, check, started, modulesBlock>>

\* A batch of the stream, or the keys of one operator in the Lido storage
KeysBatch ==
  /\ pc = "keysStream"
  /\ \E p \in position + 1 .. Nonce[page] :
       /\ position' = p
       /\ keysMap' = keysMap \cup (position + 1 .. p)
  /\ UNCHANGED <<world, operatorsMap, keysOpIndex, service, pc, url, nonce, page, check, history>>

\* Mutant of KeysEnd: the nonce of the keys received is recorded, the operators are older
RecordKeysNonce ==
  /\ pc = "keysStream"
  /\ position = Nonce[page]
  /\ keysOpIndex' = Nonce[page]
  /\ SourceUpdated
  /\ page' = 0 /\ position' = 0
  /\ UNCHANGED <<world, operatorsMap, keysMap, lastTimestamp, operators, url, nonce, check, history>>

KeysEnd ==
  /\ pc = "keysStream"
  /\ position = Nonce[page]
  /\ keysOpIndex' = nonce
  /\ SourceUpdated
  /\ page' = 0 /\ position' = 0
  /\ UNCHANGED <<world, operatorsMap, keysMap, lastTimestamp, operators, url, nonce, check, history>>

\* The file replaces both maps at once
FileUpdate ==
  /\ pc = "file"
  /\ operatorsMap' = OperatorsAt(api[1])
  /\ keysMap' = KeysAt(api[1])
  /\ SourceUpdated
  /\ UNCHANGED <<world, keysOpIndex, lastTimestamp, operators, url, nonce, stream, check, history>>

(***************************************************************************)
(* RegistryService, and the lookups of StateService.check                  *)
(***************************************************************************)
MsPerSecond == 1000

\* The file is stamped with Date.now(), in milliseconds; slot times are in seconds
SourceTimestamp == IF source = "file" THEN MsPerSecond * tip ELSE api[url]

\* updateTimestamp, the check of the age, and the operators taken over
UpdateTimestamp ==
  /\ pc = "status"
  /\ Answered
  /\ lastTimestamp' = SourceTimestamp
  /\ IF asked > lastTimestamp'
     THEN Return /\ result' = "failed" /\ UNCHANGED operators
     ELSE pc' = "rows" /\ operators' = operatorsMap /\ UNCHANGED <<result, nonce, stream>>
  /\ UNCHANGED <<world, maps, stuckKeys, asked, rows, started, modulesBlock, behind>>

\* Mutant of GetOperatorKey: a key without a known operator has no name and no error
OptionalName(k) == "owner"

\* getOperatorKey: operator.name of an operator that is not in the map is a TypeError
GetOperatorKey(k) == IF Owner[k] \in operatorsMap THEN "owner" ELSE "TypeError"

StateRows ==
  /\ pc = "rows"
  /\ Return
  /\ IF \E k \in keysMap : GetOperatorKey(k) = "TypeError"
     THEN result' = "failed" /\ UNCHANGED rows
     ELSE result' = "done" /\ rows' = keysMap
  /\ UNCHANGED <<world, maps, service, url, asked, history>>

Next ==
  \/ NewBlock
  \/ \E u \in 1 .. urls : Snapshot(u)
  \/ \E t \in Block : Ask(t)
  \/ RequestFails
  \/ StepFails
  \/ StorageUpdate
  \/ ReadModules
  \/ ReadOperators
  \/ OperatorsBatch
  \/ OperatorsEnd
  \/ ReadKeys
  \/ KeysBatch
  \/ KeysEnd
  \/ FileUpdate
  \/ UpdateTimestamp
  \/ StateRows

(***************************************************************************)
(* Fairness: the loop asks again after every error, a URL keeps indexing   *)
(* the chain, and the event loop goes on with an answer that arrived.      *)
(* Requests, streams, the storage and the file fail any number of times at *)
(* any point, but not for ever.  (A continuation that ends the check with  *)
(* an error of its own, an owner that is not known, is no such failure.)   *)
(***************************************************************************)
Failure == RequestFails \/ StepFails

Continuation ==
  \/ StorageUpdate \/ FileUpdate
  \/ ReadModules \/ ReadOperators \/ ReadKeys
  \/ OperatorsBatch \/ OperatorsEnd \/ KeysBatch \/ KeysEnd
  \/ UpdateTimestamp \/ StateRows

Fairness ==
  /\ WF_vars(\E t \in Block : Ask(t))
  /\ WF_vars(\E u \in 1 .. urls : Snapshot(u))
  /\ WF_vars(Continuation)
  /\ <>[][~Failure \/ Continuation]_vars

Spec == Init /\ [][Next]_vars
FairSpec == Spec /\ Fairness

(***************************************************************************)
(* Properties                                                              *)
(***************************************************************************)
Pcs == Requests \cup Streams \cup {"idle", "storage", "file", "rows"}

TypeWorld ==
  /\ <<source, urls>> \in Deployments
  /\ tip \in Block
  /\ api \in [1 .. urls -> Block]

TypeMaps ==
  /\ operatorsMap \subseteq Operator /\ operators \subseteq Operator
  /\ keysMap \subseteq Key /\ rows \subseteq Key
  /\ stuckKeys \in {StuckKeys, {}}

TypeUpdate ==
  /\ pc \in Pcs /\ result \in {"none", "done", "failed"} /\ behind \in {"yes", "no"}
  /\ asked \in Block /\ url \in 1 .. urls
  /\ keysOpIndex \in Nat /\ nonce \in Nat /\ lastTimestamp \in Nat
  /\ page \in Block /\ position \in 0 .. Nonce[page]
  /\ started \in Block /\ newest \in Block /\ modulesBlock \in Block

\* Every variable keeps its type; no URL after the last one is asked, and a position is
\* inside the stream it belongs to.
TypeOK == TypeWorld /\ TypeMaps /\ TypeUpdate

\* When StateService looks the owners up, no key registered before the update began is
\* missing: a download that broke off leaves an emptied or partial map, and a changed
\* nonce arrives while the maps are loaded, but neither is ever used.  The exception is
\* a source with several URLs, when an older answer follows a newer one.
FreshKeys ==
  pc = "rows" /\ behind = "no" => KeysAt(started) \subseteq keysMap

\* An operator unknown to the lookup (a TypeError, the epoch fails) owns only keys above
\* the recorded nonce: the next update sees a greater nonce and loads the maps again.
MissingOwnerIsNew ==
  pc = "rows" /\ behind = "no" =>
    \A k \in keysMap : Owner[k] \notin operatorsMap => k > keysOpIndex

\* Every owner in the rows of the last check is in the list the metrics and the alerts
\* go through, whatever updates have failed since.
RowsHaveOperators == \A k \in rows : Owner[k] \in operators

\* With one URL, the storage or the file, a check that was started is served in the end:
\* broken streams, a stale status and operators registered between two requests, and
\* whatever maps and nonce they left behind, only delay it (a check that is not done is
\* repeated for the same slot time).
ChecksServed == urls = 1 /\ result # "done" ~> result = "done"

=============================================================================
