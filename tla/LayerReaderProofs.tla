------------------------- MODULE LayerReaderProofs -------------------------
(***************************************************************************)
(* Proofs about LayerReader, for any number of invocations, environments   *)
(* and layers of any size.                                                 *)
(***************************************************************************)
EXTENDS LayerReader, TLAPS

-----------------------------------------------------------------------------
(* What the uploads of an invocation have stored.                          *)
UploadsAreOrdered ==
  /\ files \subseteq gzi
  /\ \A i \in Invocation :
       /\ step[i] = "uploadFiles" => layer[i] \in gzi
       /\ step[i] \in {"respond", "answered"} => layer[i] \in files

(* cancel() is called when the blob has been indexed; a process that ends  *)
(* takes its goroutines with it.                                           *)
CancelIsCalled ==
  \A i \in Invocation :
    /\ step[i] \in {"uploadGzi", "uploadFiles", "respond", "answered"} => cancelled[i]
    /\ step[i] = "failed" /\ counter[i] \in Waiting => cancelled[i]

(* An invocation counts, and reports what it has counted, after its        *)
(* PutItem.                                                                *)
CountsAreOwn ==
  \A i \in Invocation :
    /\ step[i] \in {"waiting", "put"} => count[i] = 0 /\ request[i] = NoUpdate
    /\ request[i] <= count[i]
    /\ counter[i] \in Waiting => step[i] \notin {"waiting", "put"}

(* Another invocation has begun to work on the same layer.                 *)
Shared(i) ==
  \E j \in Invocation : j # i /\ layer[j] = layer[i] /\ step[j] # "waiting"

(* An update on its way overwrites nothing newer of its own invocation.    *)
UpdatesAreNew ==
  \A i \in Invocation :
    request[i] # NoUpdate => completed[layer[i]] <= request[i] \/ Shared(i)

IInv ==
  /\ TypeOK
  /\ UploadsAreOrdered
  /\ CancelIsCalled
  /\ CountsAreOwn
  /\ ProgressIsReal
  /\ UpdatesAreNew

-----------------------------------------------------------------------------
(* The invariant holds before the first call of the function.              *)
LEMMA IInvInit == Init => IInv
BY SizeAssumption
DEF Init, IInv, TypeOK, UploadsAreOrdered, CancelIsCalled, CountsAreOwn, ProgressIsReal,
    UpdatesAreNew, HandlerStep, InHandler, CounterState, Waiting, NoUpdate, NoItem

(* Every step keeps the type of every variable.                            *)
LEMMA TypeStep == TypeOK /\ [Next]_vars => TypeOK'
<1> SUFFICES ASSUME TypeOK, [Next]_vars
             PROVE  TypeOK'
  OBVIOUS
<1> USE SizeAssumption
<1> USE DEF TypeOK, HandlerStep, InHandler, CounterState, Waiting, NoUpdate, NoItem,
            handlerVars, bucketVars
<1>1. ASSUME NEW i \in Invocation, Invoke(i) \/ Handler(i)
      PROVE  TypeOK'
  <2>1. CASE Invoke(i)
    BY <2>1 DEF Invoke
  <2>2. CASE PutProgress(i)
    BY <2>2 DEF PutProgress
  <2>3. CASE CountRead(i)
    <3>1. count[i] \in 0..Size /\ count[i] < Size
      BY <2>3 DEF CountRead
    <3>2. count[i] + 1 \in 0..Size
      BY <3>1
    <3>3. count' \in [Invocation -> 0..Size]
      BY <2>3, <3>2, Zenon DEF CountRead
    <3> QED
      BY <2>3, <3>3 DEF CountRead
  <2>4. CASE BuildIndex(i)
    BY <2>4 DEF BuildIndex
  <2>5. CASE UploadGzi(i)
    BY <2>5 DEF UploadGzi
  <2>6. CASE UploadFiles(i)
    BY <2>6 DEF UploadFiles
  <2>7. CASE Respond(i)
    BY <2>7 DEF Respond
  <2> QED
    BY <1>1, <2>1, <2>2, <2>3, <2>4, <2>5, <2>6, <2>7 DEF Handler
<1>2. ASSUME NEW i \in Invocation, Counter(i) \/ UpdateItem(i)
      PROVE  TypeOK'
  <2>1. CASE Tick(i)
    BY <2>1 DEF Tick
  <2>2. CASE UpdateAnswered(i)
    BY <2>2 DEF UpdateAnswered
  <2>3. CASE UpdateItem(i)
    BY <2>3 DEF UpdateItem
  <2>4. CASE UpdateFails(i)
    BY <2>4 DEF UpdateFails, Exit
  <2>5. CASE FinalUpdate(i)
    BY <2>5 DEF FinalUpdate, Exit
  <2> QED
    BY <1>2, <2>1, <2>2, <2>3, <2>4, <2>5 DEF Counter
<1>3. ASSUME NEW i \in Invocation, ReturnError(i) \/ Timeout(i)
      PROVE  TypeOK'
  <2>1. CASE ReturnError(i)
    <3>1. completed' \in [Layer -> 0..Size \union {NoItem}]
      BY <2>1 DEF ReturnError
    <3> QED
      BY <2>1, <3>1 DEF ReturnError
  <2>2. CASE Timeout(i)
    BY <2>2 DEF Timeout, Exit
  <2> QED
    BY <1>3, <2>1, <2>2
<1>4. CASE UNCHANGED vars
  BY <1>4 DEF vars
<1> QED
  BY <1>1, <1>2, <1>3, <1>4 DEF Next

-----------------------------------------------------------------------------
(* The uploads go to the bucket in order, and nothing is taken out of it.  *)
LEMMA UploadsStep ==
  TypeOK /\ UploadsAreOrdered /\ [Next]_vars => UploadsAreOrdered'
<1> SUFFICES ASSUME TypeOK, UploadsAreOrdered, [Next]_vars
             PROVE  UploadsAreOrdered'
  OBVIOUS
<1> USE DEF TypeOK, UploadsAreOrdered, InHandler, handlerVars, bucketVars
<1>1. ASSUME NEW i \in Invocation, Invoke(i) \/ Handler(i)
      PROVE  UploadsAreOrdered'
  <2>1. CASE Invoke(i) \/ PutProgress(i) \/ CountRead(i) \/ BuildIndex(i)
    BY <2>1 DEF Invoke, PutProgress, CountRead, BuildIndex
  <2>2. CASE UploadGzi(i)
    BY <2>2 DEF UploadGzi
  <2>3. CASE UploadFiles(i)
    BY <2>3 DEF UploadFiles
  <2>4. CASE Respond(i)
    BY <2>4 DEF Respond
  <2> QED
    BY <1>1, <2>1, <2>2, <2>3, <2>4 DEF Handler
<1>2. ASSUME NEW i \in Invocation, Counter(i) \/ UpdateItem(i)
      PROVE  UploadsAreOrdered'
  BY <1>2 DEF Counter, Tick, UpdateAnswered, UpdateFails, FinalUpdate, UpdateItem, Exit
<1>3. ASSUME NEW i \in Invocation, ReturnError(i) \/ Timeout(i)
      PROVE  UploadsAreOrdered'
  BY <1>3 DEF ReturnError, Timeout, Exit
<1>4. CASE UNCHANGED vars
  BY <1>4 DEF vars
<1> QED
  BY <1>1, <1>2, <1>3, <1>4 DEF Next

(* Nothing takes a cancellation back, and a handler that returns has       *)
(* cancelled; one that is ended by Exit leaves no goroutine behind.        *)
LEMMA CancelStep ==
  TypeOK /\ CancelIsCalled /\ [Next]_vars => CancelIsCalled'
<1> SUFFICES ASSUME TypeOK, CancelIsCalled, [Next]_vars
             PROVE  CancelIsCalled'
  OBVIOUS
<1> USE DEF TypeOK, CancelIsCalled, InHandler, Waiting, handlerVars
<1>1. ASSUME NEW i \in Invocation, Invoke(i) \/ Handler(i)
      PROVE  CancelIsCalled'
  <2>1. CASE Invoke(i) \/ PutProgress(i) \/ CountRead(i)
    BY <2>1 DEF Invoke, PutProgress, CountRead
  <2>2. CASE BuildIndex(i) \/ UploadGzi(i) \/ UploadFiles(i) \/ Respond(i)
    BY <2>2 DEF BuildIndex, UploadGzi, UploadFiles, Respond
  <2> QED
    BY <1>1, <2>1, <2>2 DEF Handler
<1>2. ASSUME NEW i \in Invocation, Counter(i) \/ UpdateItem(i)
      PROVE  CancelIsCalled'
  <2>1. CASE Tick(i) \/ UpdateAnswered(i) \/ UpdateItem(i)
    BY <2>1 DEF Tick, UpdateAnswered, UpdateItem
  <2>2. CASE UpdateFails(i) \/ FinalUpdate(i)
    BY <2>2 DEF UpdateFails, FinalUpdate, Exit
  <2> QED
    BY <1>2, <2>1, <2>2 DEF Counter
<1>3. ASSUME NEW i \in Invocation, ReturnError(i) \/ Timeout(i)
      PROVE  CancelIsCalled'
  BY <1>3 DEF ReturnError, Timeout, Exit
<1>4. CASE UNCHANGED vars
  BY <1>4 DEF vars
<1> QED
  BY <1>1, <1>2, <1>3, <1>4 DEF Next

(* Only Tick sends an update, with the count of its own invocation, which  *)
(* never falls.                                                            *)
LEMMA CountsStep ==
  TypeOK /\ CountsAreOwn /\ [Next]_vars => CountsAreOwn'
<1> SUFFICES ASSUME TypeOK, CountsAreOwn, [Next]_vars
             PROVE  CountsAreOwn'
  OBVIOUS
<1> USE SizeAssumption
<1> USE DEF TypeOK, CountsAreOwn, InHandler, Waiting, NoUpdate, handlerVars
<1>1. ASSUME NEW i \in Invocation, Invoke(i) \/ Handler(i)
      PROVE  CountsAreOwn'
  <2>1. CASE Invoke(i) \/ PutProgress(i) \/ CountRead(i)
    BY <2>1 DEF Invoke, PutProgress, CountRead
  <2>2. CASE BuildIndex(i) \/ UploadGzi(i) \/ UploadFiles(i) \/ Respond(i)
    BY <2>2 DEF BuildIndex, UploadGzi, UploadFiles, Respond
  <2> QED
    BY <1>1, <2>1, <2>2 DEF Handler
<1>2. ASSUME NEW i \in Invocation, Counter(i) \/ UpdateItem(i)
      PROVE  CountsAreOwn'
  <2>1. CASE Tick(i) \/ UpdateAnswered(i) \/ UpdateItem(i)
    BY <2>1 DEF Tick, UpdateAnswered, UpdateItem
  <2>2. CASE UpdateFails(i) \/ FinalUpdate(i)
    BY <2>2 DEF UpdateFails, FinalUpdate, Exit
  <2> QED
    BY <1>2, <2>1, <2>2 DEF Counter
<1>3. ASSUME NEW i \in Invocation, ReturnError(i) \/ Timeout(i)
      PROVE  CountsAreOwn'
  BY <1>3 DEF ReturnError, Timeout, Exit
<1>4. CASE UNCHANGED vars
  BY <1>4 DEF vars
<1> QED
  BY <1>1, <1>2, <1>3, <1>4 DEF Next

-----------------------------------------------------------------------------
(* The effect of the PutItem of a fresh LayerProgress.                     *)
ProgressReset(i) ==
  step[i] = "put" /\ completed' = [completed EXCEPT ![layer[i]] = 0]

(* What a step may do to the progress items: reset one for an invocation   *)
(* that has counted nothing, write what was on its way, or leave them      *)
(* alone. Counts do not fall, and a call that has begun stays begun.       *)
LEMMA CompletedStep ==
  ASSUME TypeOK, [Next]_vars
  PROVE  /\ layer' = layer
         /\ \A j \in Invocation : count'[j] >= count[j]
         /\ \A j \in Invocation : step[j] # "waiting" => step'[j] # "waiting"
         /\ \/ completed' = completed
            \/ \E i \in Invocation : ProgressReset(i) /\ request' = request
            \/ \E i \in Invocation : UpdateItem(i)
<1> USE SizeAssumption
<1> USE DEF TypeOK, InHandler, handlerVars, ProgressReset
<1> DEFINE Goal ==
      /\ layer' = layer
      /\ \A j \in Invocation : count'[j] >= count[j]
      /\ \A j \in Invocation : step[j] # "waiting" => step'[j] # "waiting"
      /\ \/ completed' = completed
         \/ \E i \in Invocation : ProgressReset(i) /\ request' = request
         \/ \E i \in Invocation : UpdateItem(i)
<1>1. ASSUME NEW i \in Invocation, Invoke(i) \/ Handler(i)
      PROVE  Goal
  <2>1. CASE Invoke(i) \/ PutProgress(i) \/ CountRead(i)
    BY <2>1 DEF Invoke, PutProgress, CountRead
  <2>2. CASE BuildIndex(i) \/ UploadGzi(i) \/ UploadFiles(i) \/ Respond(i)
    BY <2>2 DEF BuildIndex, UploadGzi, UploadFiles, Respond
  <2> QED
    BY <1>1, <2>1, <2>2 DEF Handler
<1>2. ASSUME NEW i \in Invocation, Counter(i)
      PROVE  Goal
  BY <1>2 DEF Counter, Tick, UpdateAnswered, UpdateFails, FinalUpdate, Exit
<1>3. ASSUME NEW i \in Invocation, UpdateItem(i)
      PROVE  Goal
  <2>1. layer' = layer /\ count' = count /\ step' = step
    BY <1>3 DEF UpdateItem
  <2> QED
    BY <1>3, <2>1
<1>4. ASSUME NEW i \in Invocation, ReturnError(i) \/ Timeout(i)
      PROVE  Goal
  BY <1>4 DEF ReturnError, Timeout, Exit
<1>5. CASE UNCHANGED vars
  BY <1>5 DEF vars
<1> QED
  BY <1>1, <1>2, <1>3, <1>4, <1>5 DEF Next

(* What is written was counted, and counts do not fall.                    *)
LEMMA RealStep ==
  TypeOK /\ CountsAreOwn /\ ProgressIsReal /\ [Next]_vars => ProgressIsReal'
<1> SUFFICES ASSUME TypeOK, CountsAreOwn, ProgressIsReal, [Next]_vars,
                    NEW l \in Layer, completed'[l] > 0
             PROVE  \E i \in Invocation : layer'[i] = l /\ count'[i] >= completed'[l]
  BY DEF ProgressIsReal
<1>1. TypeOK'
  BY TypeStep
<1>2. layer' = layer /\ \A j \in Invocation : count'[j] >= count[j]
  BY CompletedStep
<1>3. CASE completed'[l] = completed[l]
  <2>1. PICK i \in Invocation : layer[i] = l /\ count[i] >= completed[l]
    BY <1>3 DEF ProgressIsReal
  <2> QED
    BY <1>1, <1>2, <1>3, <2>1, SizeAssumption DEF TypeOK, NoItem
<1>4. ASSUME NEW i \in Invocation, UpdateItem(i), completed'[l] # completed[l]
      PROVE  layer'[i] = l /\ count'[i] >= completed'[l]
  BY <1>4, SizeAssumption DEF UpdateItem, TypeOK, CountsAreOwn, handlerVars
<1>5. ASSUME NEW i \in Invocation, ProgressReset(i)
      PROVE  completed'[l] = completed[l]
  BY <1>5 DEF ProgressReset, TypeOK
<1> QED
  BY <1>3, <1>4, <1>5, CompletedStep

(* Whoever has counted has begun, so that progress which is not i's own    *)
(* is that of another invocation on the same layer.                        *)
LEMMA OthersProgress ==
  ASSUME TypeOK, CountsAreOwn, ProgressIsReal,
         NEW i \in Invocation, completed[layer[i]] > count[i]
  PROVE  Shared(i)
<1>1. completed[layer[i]] > 0
  BY SizeAssumption DEF TypeOK, NoItem
<1>2. PICK j \in Invocation : layer[j] = layer[i] /\ count[j] >= completed[layer[i]]
  BY <1>1 DEF ProgressIsReal, TypeOK
<1>3. j # i /\ count[j] # 0
  BY <1>1, <1>2, SizeAssumption DEF TypeOK, NoItem
<1> QED
  BY <1>2, <1>3 DEF Shared, CountsAreOwn

(* An update is new when it is sent, and becomes old only by the update of *)
(* another invocation.                                                     *)
LEMMA NewStep ==
  TypeOK /\ CountsAreOwn /\ ProgressIsReal /\ UpdatesAreNew /\ [Next]_vars => UpdatesAreNew'
<1> SUFFICES ASSUME TypeOK, CountsAreOwn, ProgressIsReal, UpdatesAreNew, [Next]_vars,
                    NEW i \in Invocation, request'[i] # NoUpdate
             PROVE  completed'[layer'[i]] <= request'[i] \/ Shared(i)'
  BY DEF UpdatesAreNew
<1>1. TypeOK' /\ layer' = layer
  BY TypeStep, CompletedStep
<1>2. Shared(i) => Shared(i)'
  BY <1>1, CompletedStep DEF Shared
<1>3. ASSUME NEW j \in Invocation, UpdateItem(j)
      PROVE  completed'[layer'[i]] <= request'[i] \/ Shared(i)'
  <2>1. j # i /\ request'[i] = request[i]
    BY <1>3 DEF UpdateItem, TypeOK
  <2>2. CASE layer[j] = layer[i]
    BY <1>2, <1>3, <2>1, <2>2 DEF UpdateItem, CountsAreOwn, Shared
  <2>3. CASE layer[j] # layer[i]
    BY <1>1, <1>2, <1>3, <2>1, <2>3 DEF UpdateItem, UpdatesAreNew, TypeOK
  <2> QED
    BY <2>2, <2>3
<1>4. ASSUME NEW j \in Invocation, ProgressReset(j), request' = request
      PROVE  completed'[layer'[i]] <= request'[i] \/ Shared(i)'
  <2>1. CASE layer[j] = layer[i]
    BY <1>1, <1>4, <2>1, SizeAssumption DEF ProgressReset, TypeOK, NoUpdate
  <2>2. CASE layer[j] # layer[i]
    BY <1>1, <1>2, <1>4, <2>2 DEF ProgressReset, UpdatesAreNew, TypeOK
  <2> QED
    BY <2>1, <2>2
<1>5. ASSUME completed' = completed, request'[i] = request[i]
      PROVE  completed'[layer'[i]] <= request'[i] \/ Shared(i)'
  BY <1>1, <1>2, <1>5 DEF UpdatesAreNew
<1>6. ASSUME completed' = completed, Tick(i)
      PROVE  completed'[layer'[i]] <= request'[i] \/ Shared(i)'
  <2>1. request'[i] = count[i]
    BY <1>6 DEF Tick, TypeOK
  <2> QED
    BY <1>1, <1>2, <1>6, <2>1, OthersProgress, SizeAssumption DEF TypeOK, NoItem
<1>7. completed' = completed => request'[i] = request[i] \/ Tick(i)
  <2>1. ASSUME NEW j \in Invocation, Invoke(j) \/ Handler(j) \/ ReturnError(j) \/ Timeout(j)
        PROVE  request' = request
    BY <2>1 DEF Handler, Invoke, PutProgress, CountRead, BuildIndex, UploadGzi, UploadFiles,
                Respond, ReturnError, Timeout
  <2>2. ASSUME NEW j \in Invocation, Counter(j) \/ UpdateItem(j)
        PROVE  request'[i] = request[i] \/ Tick(i)
    BY <2>2 DEF Counter, Tick, UpdateAnswered, UpdateFails, FinalUpdate, UpdateItem,
                TypeOK, handlerVars
  <2>3. CASE UNCHANGED vars
    BY <2>3 DEF vars
  <2> QED
    BY <2>1, <2>2, <2>3 DEF Next
<1> QED
  BY <1>3, <1>4, <1>5, <1>6, <1>7, CompletedStep

-----------------------------------------------------------------------------
(* The invariant is kept by every step.                                    *)
LEMMA IInvStep == IInv /\ [Next]_vars => IInv'
BY TypeStep, UploadsStep, CancelStep, CountsStep, RealStep, NewStep DEF IInv

(* The inductive invariant holds of every execution environment's life.    *)
THEOREM Inductive == Spec => []IInv
<1>1. Init => IInv
  BY IInvInit
<1>2. IInv /\ [Next]_vars => IInv'
  BY IInvStep
<1> QED
  BY <1>1, <1>2, PTL DEF Spec

(* Every variable of the function keeps its type, so that a count and what *)
(* is reported of it never exceed the layer's size.                        *)
THEOREM TypeCorrect == Spec => []TypeOK
<1>1. IInv => TypeOK
  BY DEF IInv
<1> QED
  BY <1>1, Inductive, PTL

(* Whatever process dies when, files.json.gz is never stored without       *)
(* index.gzi, and an answered invocation has stored both.                  *)
THEOREM BucketInOrder == Spec => []StoredInOrder
<1>1. IInv => StoredInOrder
  BY DEF IInv, UploadsAreOrdered, StoredInOrder
<1> QED
  BY <1>1, Inductive, PTL

(* A goroutine that outlives its invocation has a cancelled context.       *)
THEOREM NoLeftoverReports == Spec => []LeftoverIsCancelled
<1>1. IInv => LeftoverIsCancelled
  BY DEF IInv, CancelIsCalled, LeftoverIsCancelled
<1> QED
  BY <1>1, Inductive, PTL

(* What a progress item says has been read by an invocation on its layer.  *)
THEOREM NoInventedProgress == Spec => []ProgressIsReal
<1>1. IInv => ProgressIsReal
  BY DEF IInv
<1> QED
  BY <1>1, Inductive, PTL

(* An item's progress steps back only if two invocations have begun to     *)
(* work on its layer.                                                      *)
THEOREM OwnProgressOnlyGrows == Spec => ProgressStepsBackOnlyWhenShared
<1>1. ASSUME IInv, [Next]_vars, NEW l \in Layer, completed'[l] < completed[l]
      PROVE  \E i, j \in Invocation :
               /\ i # j /\ layer[i] = l /\ layer[j] = l
               /\ step[i] # "waiting" /\ step[j] # "waiting"
  <2> USE <1>1
  <2>1. completed'[l] # completed[l]
    BY SizeAssumption DEF IInv, TypeOK, NoItem
  <2>2. ASSUME NEW i \in Invocation, layer[i] = l, step[i] # "waiting", Shared(i)
        PROVE  \E j \in Invocation : /\ i # j /\ layer[j] = l /\ step[j] # "waiting"
    BY <2>2 DEF Shared
  <2>3. ASSUME NEW i \in Invocation, UpdateItem(i)
        PROVE  layer[i] = l /\ step[i] # "waiting" /\ Shared(i)
    <3>1. layer[i] = l /\ request[i] # NoUpdate /\ completed'[l] = request[i]
      BY <2>1, <2>3 DEF UpdateItem, IInv, TypeOK
    <3>2. step[i] # "waiting"
      BY <3>1 DEF IInv, CountsAreOwn
    <3>3. ~(completed[l] <= request[i])
      BY <3>1, SizeAssumption DEF IInv, TypeOK, NoItem, NoUpdate
    <3> QED
      BY <3>1, <3>2, <3>3 DEF IInv, UpdatesAreNew
  <2>4. ASSUME NEW i \in Invocation, ProgressReset(i)
        PROVE  layer[i] = l /\ step[i] # "waiting" /\ Shared(i)
    <3>1. layer[i] = l /\ step[i] = "put" /\ completed'[l] = 0
      BY <2>1, <2>4 DEF ProgressReset, IInv, TypeOK
    <3>2. completed[layer[i]] > count[i]
      BY <3>1, SizeAssumption DEF IInv, CountsAreOwn, TypeOK, NoItem
    <3> QED
      BY <3>1, <3>2, OthersProgress DEF IInv
  <2>5. \E i \in Invocation : ProgressReset(i) \/ UpdateItem(i)
    BY <2>1, CompletedStep DEF IInv
  <2> QED
    BY <2>2, <2>3, <2>4, <2>5
<1>2. IInv /\ [Next]_vars =>
        [\A l \in Layer : completed'[l] < completed[l] =>
           \E i, j \in Invocation :
             /\ i # j /\ layer[i] = l /\ layer[j] = l
             /\ step[i] # "waiting" /\ step[j] # "waiting"]_vars
  BY <1>1
<1> QED
  BY <1>2, Inductive, PTL DEF Spec, ProgressStepsBackOnlyWhenShared
=============================================================================
