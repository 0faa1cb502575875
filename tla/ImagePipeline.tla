--------------------------- MODULE ImagePipeline ---------------------------
(***************************************************************************)
(* How one image becomes browsable: the /api/info handler, the image's     *)
(* item in the DynamoDB table, the Step Functions executions that index    *)
(* the image, and the objects they leave in the S3 bucket.                 *)
(*                                                                         *)
(* One image (one ImageInfoKey) is modelled: every table key a handler     *)
(* uses is derived from the key of its request, so that images meet only   *)
(* in the S3 objects of the layers they share (see Init).                  *)
(*                                                                         *)
(* A request that finds no item mints an execution id (a ULID), so the     *)
(* execution it may start is identified with the request.                  *)
(***************************************************************************)
EXTENDS Naturals

CONSTANTS
  Request,      \* HTTP requests GET /api/info for the image
  Layer,        \* digests of the image's layers
  NoRequest,    \* the ExecutionId of an item that has none
  MaxAttempts   \* retries that a Task state of the state machine allows

ASSUME NoRequestAssumption == NoRequest \notin Request
ASSUME MaxAttemptsAssumption == MaxAttempts \in Nat

VARIABLES
  pc,         \* pc[r]: where the handler of request r stands
  item,       \* the image's item (pk = image#repo, sk = digest#digest)
  state,      \* state[e]: the state-machine state of execution e
  attempts,   \* attempts[e]: retries made in the current Task state of e
  tries,      \* tries[e][l]: retries made by the Map iteration of layer l
  reader,     \* reader[e][l]: the LayerReader invocation for layer l
  late,       \* <<e, s>>: invocations that e no longer waits for
  gzi,        \* layers whose layers/<digest>/index.gzi is in the bucket
  files,      \* layers whose layers/<digest>/files.json.gz is in the bucket
  published   \* whether images/<repo>/<digest>/index.json.gz is in the bucket

vars == <<pc, item, state, attempts, tries, reader, late, gzi, files, published>>
execVars == <<state, attempts, tries, reader, late>>
bucketVars == <<gzi, files, published>>

-----------------------------------------------------------------------------
(* The handler of a request is at a call that it is about to make, or it   *)
(* has responded ("answered" 200, "created" 201), or it is gone            *)
(* ("panicked": a panic, or the 90 s Lambda timeout).                      *)
InHandler == {"query", "put", "start", "mark"}
HandlerState == InHandler \union {"answered", "created", "panicked"}

Verdict == {"SUCCEEDED", "FAILED"}
ImageInfoStatus == {"PENDING", "RUNNING"} \union Verdict

(* whole: written by ImageInfoItem.DynamoItem, so that handleInfo can      *)
(* decode it; described: TotalSize, RawConfig and Manifest are known.      *)
ImageInfoItem ==
  [exists : BOOLEAN, whole : BOOLEAN, described : BOOLEAN,
   status : ImageInfoStatus \union {"NONE"},
   executionId : Request \union {NoRequest}]

NoItem == [exists |-> FALSE, whole |-> FALSE, described |-> FALSE,
           status |-> "NONE", executionId |-> NoRequest]

(* The states of machine.asl.yml. An execution ends Succeeded, or Failed   *)
(* after Report failure, or, when a Report state itself fails (neither has *)
(* a Catch), without having reported.                                      *)
Task == {"GetImageLayers", "ConcatenateIndexes", "ReportSuccess", "ReportFailure"}
Running == Task \union {"ForEachLayer"}
Ended == {"Succeeded", "Failed", "SuccessUnreported", "FailureUnreported"}
MachineState == {"NotStarted"} \union Running \union Ended

(* A LayerReader invocation stores index.gzi, then files.json.gz.          *)
ReaderStage == {"idle", "indexing", "gziStored", "done"}

Live(e) == state[e] \in Running
Late(e) == \E s \in Task : <<e, s>> \in late

-----------------------------------------------------------------------------
(* The bucket may hold objects of layers that other images share.          *)
Init ==
  /\ pc = [r \in Request |-> "query"]
  /\ item = NoItem
  /\ state = [e \in Request |-> "NotStarted"]
  /\ attempts = [e \in Request |-> 0]
  /\ tries = [e \in Request |-> [l \in Layer |-> 0]]
  /\ reader = [e \in Request |-> [l \in Layer |-> "idle"]]
  /\ late = {}
  /\ gzi \in SUBSET Layer
  /\ files \in SUBSET gzi
  /\ published = FALSE

-----------------------------------------------------------------------------
(* thelambda: handleInfo and handleStartExecution.                         *)

(* The consistent Query. An item without the attributes DynamoItem writes  *)
(* makes UnmarshalDynamoDBAttributeValue panic. (Whether the nil Manifest  *)
(* of an item that is not described yet does so as well is up to the SDK's *)
(* encoding: Panic covers it.)                                             *)
HandleInfo(r) ==
  /\ pc[r] = "query"
  /\ pc' = [pc EXCEPT ![r] = IF ~item.exists THEN "put"
                             ELSE IF item.whole THEN "answered"
                             ELSE "panicked"]
  /\ UNCHANGED <<item, execVars, bucketVars>>

PendingItem(r) == [exists |-> TRUE, whole |-> TRUE, described |-> FALSE,
                   status |-> "PENDING", executionId |-> r]

(* Mutant: the item is written without the ConditionExpression.            *)
PutItemUnconditional(r) ==
  /\ pc[r] = "put"
  /\ item' = PendingItem(r)
  /\ pc' = [pc EXCEPT ![r] = "start"]
  /\ UNCHANGED <<execVars, bucketVars>>

(* PutItem under attribute_not_exists(pk); a failed condition panics.      *)
PutItem(r) ==
  /\ pc[r] = "put"
  /\ item' = IF item.exists THEN item ELSE PendingItem(r)
  /\ pc' = [pc EXCEPT ![r] = IF item.exists THEN "panicked" ELSE "start"]
  /\ UNCHANGED <<execVars, bucketVars>>

(* The item is written but the answer is lost: the SDK's own second try    *)
(* fails the condition (or gives up), and the handler panics.              *)
PutItemUnanswered(r) ==
  /\ pc[r] = "put"
  /\ ~item.exists
  /\ item' = PendingItem(r)
  /\ pc' = [pc EXCEPT ![r] = "panicked"]
  /\ UNCHANGED <<execVars, bucketVars>>

Begin(r, next) ==
  /\ pc[r] = "start"
  /\ state' = [state EXCEPT ![r] = "GetImageLayers"]
  /\ pc' = [pc EXCEPT ![r] = next]
  /\ UNCHANGED <<item, attempts, tries, reader, late, bucketVars>>

StartExecution(r) == Begin(r, "mark")

(* The execution starts but the handler sees an error and panics.          *)
StartExecutionUnanswered(r) == Begin(r, "panicked")

(* UpdateItem Status = RUNNING under ExecutionId = :executionId. Nothing   *)
(* orders it before what the execution, already running, writes.           *)
OwnsItem(r) == item.exists /\ item.executionId = r

MarkRunning(r) ==
  /\ pc[r] = "mark"
  /\ item' = IF OwnsItem(r) THEN [item EXCEPT !.status = "RUNNING"] ELSE item
  /\ pc' = [pc EXCEPT ![r] = IF OwnsItem(r) THEN "created" ELSE "panicked"]
  /\ UNCHANGED <<execVars, bucketVars>>

(* The update is made, its answer is lost, and the SDK makes it again.     *)
MarkRunningUnanswered(r) ==
  /\ pc[r] = "mark"
  /\ OwnsItem(r)
  /\ item' = [item EXCEPT !.status = "RUNNING"]
  /\ UNCHANGED <<pc, execVars, bucketVars>>

(* A call that fails without effect, or the Lambda timeout.                *)
Panic(r) ==
  /\ pc[r] \in InHandler
  /\ pc' = [pc EXCEPT ![r] = "panicked"]
  /\ UNCHANGED <<item, execVars, bucketVars>>

-----------------------------------------------------------------------------
(* What the functions behind the Task states do. The UpdateItem calls of   *)
(* the lister and of the finalizer are unconditional: they create the item *)
(* when there is none.                                                     *)

LayerLister ==
  /\ item' = [item EXCEPT !.exists = TRUE, !.described = TRUE]
  /\ UNCHANGED bucketVars

(* Every layer's files.json.gz is downloaded; a missing one is an error.   *)
Concatenator ==
  /\ Layer \subseteq files
  /\ published' = TRUE
  /\ UNCHANGED <<item, gzi, files>>

(* Mutant: the finalizer only reports on an item that is still PENDING.    *)
FinalizerIfPending(e, verdict) ==
  /\ item' = IF item.status = "PENDING" THEN [item EXCEPT !.status = verdict] ELSE item
  /\ UNCHANGED bucketVars

Finalizer(e, verdict) ==
  /\ item' = [item EXCEPT !.exists = TRUE, !.status = verdict, !.executionId = e]
  /\ UNCHANGED bucketVars

-----------------------------------------------------------------------------
(* The state machine. A Task state that gets its answer moves on and       *)
(* forgets its retries.                                                    *)

Advance(e, from, to) ==
  /\ state[e] = from
  /\ state' = [state EXCEPT ![e] = to]
  /\ attempts' = [attempts EXCEPT ![e] = 0]
  /\ UNCHANGED <<pc, tries, late>>

(* The Map state invokes a LayerReader for every layer at once.            *)
GetImageLayers(e) ==
  /\ Advance(e, "GetImageLayers", "ForEachLayer")
  /\ LayerLister
  /\ reader' = [reader EXCEPT ![e] = [l \in Layer |-> "indexing"]]

ConcatenateIndexes(e) ==
  /\ Advance(e, "ConcatenateIndexes", "ReportSuccess")
  /\ Concatenator
  /\ UNCHANGED reader

ReportSuccess(e) ==
  /\ Advance(e, "ReportSuccess", "Succeeded")
  /\ Finalizer(e, "SUCCEEDED")
  /\ UNCHANGED reader

(* Mutant: Report failure does not pass Meta.Error on to the finalizer.    *)
ReportFailureWithoutError(e) ==
  /\ Advance(e, "ReportFailure", "Failed")
  /\ Finalizer(e, "SUCCEEDED")
  /\ UNCHANGED reader

ReportFailure(e) ==
  /\ Advance(e, "ReportFailure", "Failed")
  /\ Finalizer(e, "FAILED")
  /\ UNCHANGED reader

(* Mutant: one retry too many.                                             *)
RetryTaskOnceMore(e) ==
  /\ state[e] \in Task
  /\ attempts[e] <= MaxAttempts
  /\ attempts' = [attempts EXCEPT ![e] = @ + 1]
  /\ late' = late \union {<<e, state[e]>>}
  /\ UNCHANGED <<pc, item, state, tries, reader, bucketVars>>

(* The invocation ends in an error that is retried. It may have had its    *)
(* effect, may still have it, or may never have it.                        *)
RetryTask(e) ==
  /\ state[e] \in Task
  /\ attempts[e] < MaxAttempts
  /\ attempts' = [attempts EXCEPT ![e] = @ + 1]
  /\ late' = late \union {<<e, state[e]>>}
  /\ UNCHANGED <<pc, item, state, tries, reader, bucketVars>>

(* An error that is not retried, or not any more: Catch States.ALL, or the *)
(* end of the execution in a Report state.                                 *)
(* Mutant: Report success has the Catch of the other states.               *)
AfterErrorCatchAll(s) ==
  IF s = "ReportFailure" THEN "FailureUnreported" ELSE "ReportFailure"

AfterError(s) == IF s = "ReportSuccess" THEN "SuccessUnreported"
                 ELSE IF s = "ReportFailure" THEN "FailureUnreported"
                 ELSE "ReportFailure"

CatchTask(e) ==
  /\ state[e] \in Task
  /\ state' = [state EXCEPT ![e] = AfterError(@)]
  /\ attempts' = [attempts EXCEPT ![e] = 0]
  /\ late' = late \union {<<e, state[e]>>}
  /\ UNCHANGED <<pc, item, tries, reader, bucketVars>>

(* An invocation nobody waits for any more takes effect.                   *)
LateEffect(e) ==
  \E s \in Task :
    /\ <<e, s>> \in late
    /\ \/ s = "GetImageLayers" /\ LayerLister
       \/ s = "ConcatenateIndexes" /\ Concatenator
       \/ s = "ReportSuccess" /\ Finalizer(e, "SUCCEEDED")
       \/ s = "ReportFailure" /\ Finalizer(e, "FAILED")
    /\ late' = late \ {<<e, s>>}
    /\ UNCHANGED <<pc, state, attempts, tries, reader>>

-----------------------------------------------------------------------------
(* The Map state. An invocation goes on storing after the Map has failed.  *)

(* Mutant: an error of the first upload is ignored.                        *)
StoreGziUnchecked(e, l) ==
  /\ reader[e][l] = "indexing"
  /\ gzi' \in {gzi, gzi \union {l}}
  /\ reader' = [reader EXCEPT ![e][l] = "gziStored"]
  /\ UNCHANGED <<pc, item, state, attempts, tries, late, files, published>>

StoreGzi(e, l) ==
  /\ reader[e][l] = "indexing"
  /\ gzi' = gzi \union {l}
  /\ reader' = [reader EXCEPT ![e][l] = "gziStored"]
  /\ UNCHANGED <<pc, item, state, attempts, tries, late, files, published>>

StoreFiles(e, l) ==
  /\ reader[e][l] = "gziStored"
  /\ files' = files \union {l}
  /\ reader' = [reader EXCEPT ![e][l] = "done"]
  /\ UNCHANGED <<pc, item, state, attempts, tries, late, gzi, published>>

(* Mutant: an iteration is retried without end.                            *)
RetryLayerUncounted(e, l) ==
  /\ state[e] = "ForEachLayer"
  /\ reader' = [reader EXCEPT ![e][l] = "indexing"]
  /\ UNCHANGED <<pc, item, state, attempts, tries, late, bucketVars>>

(* The abandoned invocation can only repeat the writes of the new one.     *)
RetryLayer(e, l) ==
  /\ state[e] = "ForEachLayer"
  /\ tries[e][l] < MaxAttempts
  /\ tries' = [tries EXCEPT ![e][l] = @ + 1]
  /\ reader' = [reader EXCEPT ![e][l] = "indexing"]
  /\ UNCHANGED <<pc, item, state, attempts, late, bucketVars>>

(* Mutant: Next of the Map state skips Concatenate indexes.                *)
JoinLayersUnpublished(e) ==
  /\ \A l \in Layer : reader[e][l] = "done"
  /\ Advance(e, "ForEachLayer", "ReportSuccess")
  /\ UNCHANGED <<item, reader, bucketVars>>

JoinLayers(e) ==
  /\ \A l \in Layer : reader[e][l] = "done"
  /\ Advance(e, "ForEachLayer", "ConcatenateIndexes")
  /\ UNCHANGED <<item, reader, bucketVars>>

(* One failed iteration fails the Map, whatever the others have done.      *)
CatchMap(e) ==
  /\ Advance(e, "ForEachLayer", "ReportFailure")
  /\ UNCHANGED <<item, reader, bucketVars>>

-----------------------------------------------------------------------------
(* DynamoDB deletes the item 90 days after it was written. The functions'  *)
(* timeouts and the retries' backoff add up to less than a day, so that    *)
(* whatever the item's execution or handler had in flight is long over.    *)
(* Mutant: an item's lifetime is shorter than an execution.                *)
QuietHandlers == \A r \in Request : pc[r] \notin {"put", "start", "mark"}

Quiet ==
  /\ \A r \in Request : pc[r] \notin {"put", "start", "mark"}
  /\ \A e \in Request : ~Live(e)

(* Mutant: an abandoned invocation outlasts the item.                      *)
ExpireEarly ==
  /\ item.exists
  /\ Quiet
  /\ item' = NoItem
  /\ reader' = [e \in Request |-> [l \in Layer |-> "idle"]]
  /\ UNCHANGED <<pc, state, attempts, tries, late, bucketVars>>

Expire ==
  /\ item.exists
  /\ Quiet
  /\ item' = NoItem
  /\ late' = {}
  /\ reader' = [e \in Request |-> [l \in Layer |-> "idle"]]
  /\ UNCHANGED <<pc, state, attempts, tries, bucketVars>>

-----------------------------------------------------------------------------
HandlerStep(r) == HandleInfo(r) \/ PutItem(r) \/ StartExecution(r) \/ MarkRunning(r)

HandlerFault(r) ==
  \/ PutItemUnanswered(r)
  \/ StartExecutionUnanswered(r)
  \/ MarkRunningUnanswered(r)
  \/ Panic(r)

ExecutionStep(e) ==
  \/ GetImageLayers(e) \/ JoinLayers(e) \/ CatchMap(e)
  \/ ConcatenateIndexes(e) \/ ReportSuccess(e) \/ ReportFailure(e)
  \/ RetryTask(e) \/ CatchTask(e)
  \/ \E l \in Layer : StoreGzi(e, l) \/ StoreFiles(e, l) \/ RetryLayer(e, l)

Next ==
  \/ \E r \in Request : HandlerStep(r) \/ HandlerFault(r)
  \/ \E e \in Request : ExecutionStep(e) \/ LateEffect(e)
  \/ Expire

Spec == Init /\ [][Next]_vars

(* Lambda runs a handler that it was given, and Step Functions drives an   *)
(* execution until it ends: each of their steps gets an answer or a        *)
(* timeout. Nothing is assumed of late invocations, nor of the TTL.        *)
FairSpec ==
  /\ Spec
  /\ \A r \in Request : WF_vars(HandlerStep(r))
  /\ \A e \in Request : WF_vars(ExecutionStep(e))

-----------------------------------------------------------------------------
(* The refinement mapping to ImageRecord. An execution's outcome is        *)
(* settled when it enters a Report state.                                  *)
RecordStatus == IF item.exists THEN item.status ELSE "ABSENT"

RecordOutcome ==
  LET at == IF item.exists THEN state[item.executionId] ELSE "NotStarted" IN
  IF at \in {"ReportSuccess", "Succeeded", "SuccessUnreported"} THEN "SUCCEEDED"
  ELSE IF at \in {"ReportFailure", "Failed", "FailureUnreported"} THEN "FAILED"
  ELSE "NONE"

Record == INSTANCE ImageRecord WITH
  Attempt <- Request, NoAttempt <- NoRequest,
  status <- RecordStatus, owner <- item.executionId,
  outcome <- RecordOutcome, indexed <- published

-----------------------------------------------------------------------------
TypeOK ==
  /\ pc \in [Request -> HandlerState]
  /\ item \in ImageInfoItem
  /\ state \in [Request -> MachineState]
  /\ attempts \in [Request -> 0..MaxAttempts]
  /\ tries \in [Request -> [Layer -> 0..MaxAttempts]]
  /\ reader \in [Request -> [Layer -> ReaderStage]]
  /\ late \subseteq Request \X Task
  /\ gzi \subseteq Layer
  /\ files \subseteq Layer
  /\ published \in BOOLEAN

(* However many clients ask for an image at once, and whatever answers are *)
(* lost, at most one execution indexes it at a time (the conditional       *)
(* PutItem of handleStartExecution is the only arbiter).                   *)
OneExecutionAtATime ==
  \A e1, e2 \in Request : Live(e1) /\ Live(e2) => e1 = e2

(* An execution, or an invocation it has abandoned, only ever writes to    *)
(* the item that names it: the ConditionExpression that the finalizer      *)
(* leaves out (finalizer.go:59) would always hold.                         *)
WritersOwnTheItem ==
  \A e \in Request : Live(e) \/ Late(e) => OwnsItem(e)

(* handleInfo never meets an item that lacks attributes it asserts on,     *)
(* although the lister and the finalizer would create one by updating a    *)
(* missing item.                                                           *)
NoPartialItem == item.exists => item.whole

(* An image whose status reads SUCCEEDED can be browsed: its manifest is   *)
(* in the item, its index and the gzip index of each of its layers are in  *)
(* the bucket.                                                             *)
SucceededIsBrowsable ==
  item.status = "SUCCEEDED" => item.described /\ published /\ Layer \subseteq gzi

(* What the module promises its clients (ImageRecord): one owner at a      *)
(* time, an outcome that is settled once, and reports of nothing else.     *)
ImplementsRecord == Record!Spec

(* What the status tells a polling client about the execution it names. A  *)
(* PENDING item may be an orphan (no execution was ever started), a        *)
(* RUNNING one an execution that has ended, but no execution that has      *)
(* reported leaves PENDING, and no verdict contradicts the execution.      *)
StatusFitsExecution ==
  LET at == state[item.executionId] IN
  item.exists =>
    /\ item.status = "PENDING" => at \notin {"Succeeded", "Failed"}
    /\ item.status = "RUNNING" => at # "NotStarted"
    /\ item.status = "SUCCEEDED" => at \in {"ReportSuccess", "Succeeded", "SuccessUnreported"}
    /\ item.status = "FAILED" => at \in {"ReportFailure", "Failed", "FailureUnreported"}

(* As long as the item lives, the one thing that takes a verdict back is   *)
(* the RUNNING update of the request that started the execution.           *)
OnlyMarkRevokesVerdict ==
  [][item.status \in Verdict /\ item'.exists /\ item'.status # item.status
       => item'.status = "RUNNING" /\ pc[item.executionId] = "mark"]_vars

(* The status, once Report success or Report failure has written it, is    *)
(* the image's last status until the item expires.                         *)
VerdictIsFinal ==
  [][item.status \in Verdict /\ item'.exists => item'.status = item.status]_vars

(* Retries are bounded and every error is caught or ends the execution.    *)
EveryExecutionEnds == \A e \in Request : Live(e) ~> state[e] \in Ended

(* If the starting request has made its RUNNING update while the execution *)
(* goes on, the item gets a verdict, unless the finalizer cannot report.   *)
MarkedImageGetsVerdict ==
  \A e \in Request :
    pc[e] = "created" /\ Live(e)
      ~> item.status \in Verdict
         \/ state[e] \in {"SuccessUnreported", "FailureUnreported"}
=============================================================================
