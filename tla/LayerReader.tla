---------------------------- MODULE LayerReader ----------------------------
(***************************************************************************)
(* The LayerReader function (layerreader/remote): a Lambda that downloads  *)
(* one layer, indexes it and stores the two index objects, while its       *)
(* countProgress goroutine writes to the table how far it has come.        *)
(*                                                                         *)
(* An execution environment is one process. It serves one invocation after *)
(* another, and a goroutine that outlives its invocation is still there    *)
(* when the next one is served. A panic in any goroutine ends the process. *)
(* A manifest may name a digest twice and a failed call may be repeated,   *)
(* so that two environments may work on the same layer, and on the same    *)
(* progress item, at once.                                                 *)
(***************************************************************************)
EXTENDS Integers

CONSTANTS
  Invocation,     \* calls of the function
  Environment,    \* its execution environments
  Layer,          \* layers of the image
  Size            \* bytes of a layer blob

ASSUME SizeAssumption == Size \in Nat \ {0}

VARIABLES
  step,       \* step[i]: what the handler of invocation i does next
  layer,      \* layer[i]: the layer that i is invoked for
  env,        \* env[i]: the environment that i is invoked in
  count,      \* count[i]: what i's CountReader has counted
  cancelled,  \* cancelled[i]: whether countctx is done
  counter,    \* counter[i]: where i's countProgress goroutine stands
  request,    \* request[i]: the UpdateItem that has not reached the table yet
  completed,  \* completed[l]: CompletedBytes of l's progress item
  gzi,        \* layers whose index.gzi is in the bucket
  files       \* layers whose files.json.gz is in the bucket

vars == <<step, layer, env, count, cancelled, counter, request, completed, gzi, files>>
handlerVars == <<step, layer, env, count, cancelled>>
bucketVars == <<gzi, files>>

-----------------------------------------------------------------------------
InHandler == {"put", "download", "uploadGzi", "uploadFiles", "respond"}
HandlerStep == {"waiting"} \union InHandler \union {"answered", "failed"}

(* A goroutine waits in its select, or for the answer to its UpdateItem,   *)
(* until its process ends.                                                 *)
Waiting == {"select", "update"}
CounterState == {"none", "gone"} \union Waiting

NoUpdate == -1
NoItem == -1

Busy(v) == \E i \in Invocation : env[i] = v /\ step[i] \in InHandler

Init ==
  /\ step = [i \in Invocation |-> "waiting"]
  /\ layer \in [Invocation -> Layer]
  /\ env \in [Invocation -> Environment]
  /\ count = [i \in Invocation |-> 0]
  /\ cancelled = [i \in Invocation |-> FALSE]
  /\ counter = [i \in Invocation |-> "none"]
  /\ request = [i \in Invocation |-> NoUpdate]
  /\ completed = [l \in Layer |-> NoItem]
  /\ gzi = {}
  /\ files = {}

-----------------------------------------------------------------------------
(* The handler.                                                            *)

(* Lambda gives an environment one invocation at a time.                   *)
Invoke(i) ==
  /\ step[i] = "waiting"
  /\ ~Busy(env[i])
  /\ step' = [step EXCEPT ![i] = "put"]
  /\ UNCHANGED <<layer, env, count, cancelled, counter, request, completed, bucketVars>>

(* Mutant: an error of the PutItem is ignored.                             *)
PutProgressUnchecked(i) ==
  /\ step[i] = "put"
  /\ completed' \in {completed, [completed EXCEPT ![layer[i]] = 0]}
  /\ counter' = [counter EXCEPT ![i] = "select"]
  /\ step' = [step EXCEPT ![i] = "download"]
  /\ UNCHANGED <<layer, env, count, cancelled, request, bucketVars>>

(* The unconditional PutItem of a fresh LayerProgress, then the goroutine. *)
PutProgress(i) ==
  /\ step[i] = "put"
  /\ completed' = [completed EXCEPT ![layer[i]] = 0]
  /\ counter' = [counter EXCEPT ![i] = "select"]
  /\ step' = [step EXCEPT ![i] = "download"]
  /\ UNCHANGED <<layer, env, count, cancelled, request, bucketVars>>

(* Mutant: the last Read is counted twice.                                 *)
CountReadTwice(i) ==
  /\ step[i] = "download"
  /\ count[i] <= Size
  /\ count' = [count EXCEPT ![i] = @ + 1]
  /\ UNCHANGED <<step, layer, env, cancelled, counter, request, completed, bucketVars>>

CountRead(i) ==
  /\ step[i] = "download"
  /\ count[i] < Size
  /\ count' = [count EXCEPT ![i] = @ + 1]
  /\ UNCHANGED <<step, layer, env, cancelled, counter, request, completed, bucketVars>>

(* BuildIndex returns when gztool has read the whole blob; then cancel().  *)
BuildIndex(i) ==
  /\ step[i] = "download"
  /\ count[i] = Size
  /\ cancelled' = [cancelled EXCEPT ![i] = TRUE]
  /\ step' = [step EXCEPT ![i] = "uploadGzi"]
  /\ UNCHANGED <<layer, env, count, counter, request, completed, bucketVars>>

(* Mutant: an error of the first upload is ignored.                        *)
UploadGziUnchecked(i) ==
  /\ step[i] = "uploadGzi"
  /\ gzi' \in {gzi, gzi \union {layer[i]}}
  /\ step' = [step EXCEPT ![i] = "uploadFiles"]
  /\ UNCHANGED <<layer, env, count, cancelled, counter, request, completed, files>>

UploadGzi(i) ==
  /\ step[i] = "uploadGzi"
  /\ gzi' = gzi \union {layer[i]}
  /\ step' = [step EXCEPT ![i] = "uploadFiles"]
  /\ UNCHANGED <<layer, env, count, cancelled, counter, request, completed, files>>

UploadFiles(i) ==
  /\ step[i] = "uploadFiles"
  /\ files' = files \union {layer[i]}
  /\ step' = [step EXCEPT ![i] = "respond"]
  /\ UNCHANGED <<layer, env, count, cancelled, counter, request, completed, gzi>>

Respond(i) ==
  /\ step[i] = "respond"
  /\ step' = [step EXCEPT ![i] = "answered"]
  /\ UNCHANGED <<layer, env, count, cancelled, counter, request, completed, bucketVars>>

(* Mutant: there is no deferred cancel.                                    *)
ReturnErrorUncancelled(i) ==
  /\ step[i] \in InHandler \ {"respond"}
  /\ step' = [step EXCEPT ![i] = "failed"]
  /\ UNCHANGED <<layer, env, count, cancelled, counter, request, completed, bucketVars>>

(* Any call fails: the handler returns the error, and the deferred cancel  *)
(* ends countctx. The table or the bucket may have been written.           *)
ReturnError(i) ==
  /\ step[i] \in InHandler \ {"respond"}
  /\ step' = [step EXCEPT ![i] = "failed"]
  /\ cancelled' = [cancelled EXCEPT ![i] = TRUE]
  /\ completed' \in {completed,
       IF step[i] = "put" THEN [completed EXCEPT ![layer[i]] = 0] ELSE completed}
  /\ gzi' \in {gzi, gzi \union {l \in {layer[i]} : step[i] = "uploadGzi"}}
  /\ files' \in {files, files \union {l \in {layer[i]} : step[i] = "uploadFiles"}}
  /\ UNCHANGED <<layer, env, count, counter, request>>

-----------------------------------------------------------------------------
(* The countProgress goroutine.                                            *)

(* Mutant: the item is told what is left, not what is complete.            *)
TickRemaining(i) ==
  /\ counter[i] = "select"
  /\ ~cancelled[i]
  /\ counter' = [counter EXCEPT ![i] = "update"]
  /\ request' = [request EXCEPT ![i] = Size - count[i]]
  /\ UNCHANGED <<handlerVars, completed, bucketVars>>

(* The select takes a tick: update() sends the count to the table.         *)
Tick(i) ==
  /\ counter[i] = "select"
  /\ ~cancelled[i]
  /\ counter' = [counter EXCEPT ![i] = "update"]
  /\ request' = [request EXCEPT ![i] = count[i]]
  /\ UNCHANGED <<handlerVars, completed, bucketVars>>

(* The table does what is asked, even if nobody waits for it any more.     *)
UpdateItem(i) ==
  /\ request[i] # NoUpdate
  /\ completed' = [completed EXCEPT ![layer[i]] = request[i]]
  /\ request' = [request EXCEPT ![i] = NoUpdate]
  /\ UNCHANGED <<handlerVars, counter, bucketVars>>

UpdateAnswered(i) ==
  /\ counter[i] = "update"
  /\ request[i] = NoUpdate
  /\ counter' = [counter EXCEPT ![i] = "select"]
  /\ UNCHANGED <<handlerVars, request, completed, bucketVars>>

(* A process ends: its invocation fails, its goroutines are gone.          *)
Exit(v) ==
  /\ step' = [i \in Invocation |->
                IF env[i] = v /\ step[i] \in InHandler THEN "failed" ELSE step[i]]
  /\ counter' = [i \in Invocation |->
                   IF env[i] = v /\ counter[i] \in Waiting THEN "gone" ELSE counter[i]]
  /\ UNCHANGED <<layer, env, count, cancelled, completed, bucketVars>>

(* The answer to a tick's UpdateItem is an error: the table's, once the    *)
(* SDK's ten attempts are used up, or the cancellation of countctx. The    *)
(* request may still be on its way.                                        *)
UpdateFails(i) ==
  /\ counter[i] = "update"
  /\ Exit(env[i])
  /\ request' \in {request, [request EXCEPT ![i] = NoUpdate]}

(* The select takes ctx.Done(), or a tick after it: update() hands the     *)
(* cancelled context to UpdateItem, which sends nothing, and panics.       *)
FinalUpdate(i) ==
  /\ counter[i] = "select"
  /\ cancelled[i]
  /\ Exit(env[i])
  /\ UNCHANGED request

(* The 300 s timeout of the function: Lambda ends the process.             *)
Timeout(i) ==
  /\ step[i] \in InHandler
  /\ Exit(env[i])
  /\ UNCHANGED request

-----------------------------------------------------------------------------
Handler(i) ==
  \/ PutProgress(i) \/ CountRead(i) \/ BuildIndex(i)
  \/ UploadGzi(i) \/ UploadFiles(i) \/ Respond(i)

Counter(i) == Tick(i) \/ UpdateAnswered(i) \/ UpdateFails(i) \/ FinalUpdate(i)

Next ==
  \E i \in Invocation :
    Invoke(i) \/ Handler(i) \/ Counter(i) \/ UpdateItem(i) \/ ReturnError(i) \/ Timeout(i)

Spec == Init /\ [][Next]_vars

-----------------------------------------------------------------------------
TypeOK ==
  /\ step \in [Invocation -> HandlerStep]
  /\ layer \in [Invocation -> Layer]
  /\ env \in [Invocation -> Environment]
  /\ count \in [Invocation -> 0..Size]
  /\ cancelled \in [Invocation -> BOOLEAN]
  /\ counter \in [Invocation -> CounterState]
  /\ request \in [Invocation -> 0..Size \union {NoUpdate}]
  /\ completed \in [Layer -> 0..Size \union {NoItem}]
  /\ gzi \subseteq Layer
  /\ files \subseteq Layer

(* What the rest of the system builds on: whatever process dies when, a    *)
(* layer's files.json.gz is never in the bucket without its index.gzi, and *)
(* an invocation that was answered has stored both.                        *)
StoredInOrder ==
  /\ files \subseteq gzi
  /\ \A i \in Invocation : step[i] = "answered" => layer[i] \in files

(* The progress that clients see was made: some invocation has read as     *)
(* much of the layer, even when several report on one item.                *)
ProgressIsReal ==
  \A l \in Layer : completed[l] > 0 =>
    \E i \in Invocation : layer[i] = l /\ count[i] >= completed[l]

(* An item's progress steps back only if the layer is read a second time,  *)
(* by the PutItem of the new invocation or as two of them alternate: an    *)
(* update that is still on its way when countctx is cancelled, or when its *)
(* process ends, overwrites nothing newer of its own invocation.           *)
ProgressStepsBackOnlyWhenShared ==
  [][\A l \in Layer : completed'[l] < completed[l] =>
       \E i, j \in Invocation :
         /\ i # j /\ layer[i] = l /\ layer[j] = l
         /\ step[i] # "waiting" /\ step[j] # "waiting"]_vars

(* A goroutine that is left over from an invocation will never report on   *)
(* it again: its context is cancelled, whichever way the handler returned. *)
LeftoverIsCancelled ==
  \A i \in Invocation :
    counter[i] \in Waiting /\ step[i] \in {"answered", "failed"} => cancelled[i]

(* "this should usually flush the "downloaded" progress to dynamodb before *)
(* this lambda function returns" (remote.go:144): when an invocation has   *)
(* returned and its goroutine has ended, the item shows the whole layer.   *)
FlushedOnReturn ==
  \A i \in Invocation :
    step[i] = "answered" /\ counter[i] = "gone" => completed[layer[i]] = Size
=============================================================================
