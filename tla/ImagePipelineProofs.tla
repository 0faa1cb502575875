------------------------ MODULE ImagePipelineProofs ------------------------
(***************************************************************************)
(* Proofs about ImagePipeline, for any number of requests, layers and      *)
(* retries.                                                                *)
(***************************************************************************)
EXTENDS ImagePipeline, FiniteSetTheorems, TLAPS

-----------------------------------------------------------------------------
(* The inductive invariant. TypeOK is its first part.                      *)

(* A request between its PutItem and its response, an execution, and an    *)
(* invocation that an execution has abandoned: each belongs to the item.   *)
Busy(r) == pc[r] \in {"start", "mark"} \/ Live(r) \/ Late(r)
BusyOwnsItem == \A r \in Request : Busy(r) => OwnsItem(r)

(* An execution starts once, after its request's PutItem.                  *)
StartedOnce ==
  \A r \in Request :
    /\ pc[r] \in {"query", "put", "start"} => state[r] = "NotStarted"
    /\ pc[r] = "mark" => state[r] # "NotStarted"
    /\ state[r] = "NotStarted" => ~Late(r)

ItemIsWhole ==
  IF item.exists THEN item.whole /\ item.executionId \in Request
  ELSE item = NoItem

Successful == {"ReportSuccess", "Succeeded", "SuccessUnreported"}
Failing == {"ReportFailure", "Failed", "FailureUnreported"}

(* What an abandoned finalizer will report still agrees with the execution.*)
LateReportsAgree ==
  \A e \in Request :
    /\ <<e, "ReportSuccess">> \in late => state[e] \in Successful
    /\ <<e, "ReportFailure">> \in late => state[e] \in Failing

(* A layer's files.json.gz implies its index.gzi, an image's index implies *)
(* every layer's files.json.gz.                                            *)
BucketIsOrdered ==
  /\ files \subseteq gzi
  /\ \A e \in Request, l \in Layer : reader[e][l] = "gziStored" => l \in gzi
  /\ published => Layer \subseteq files

(* What an execution that goes on, or its late invocation, has achieved.   *)
ProgressIsKept ==
  \A e \in Request :
    /\ state[e] \in {"ForEachLayer", "ConcatenateIndexes", "ReportSuccess"}
         => item.described
    /\ state[e] \in Successful => published
    /\ <<e, "ReportSuccess">> \in late => item.described

IInv ==
  /\ TypeOK
  /\ BusyOwnsItem
  /\ StartedOnce
  /\ ItemIsWhole
  /\ LateReportsAgree
  /\ BucketIsOrdered
  /\ ProgressIsKept
  /\ StatusFitsExecution
  /\ SucceededIsBrowsable

-----------------------------------------------------------------------------
(* Changing one entry of a table of tables keeps its type.                 *)
LEMMA TableUpdate ==
  ASSUME NEW A, NEW B, NEW C, NEW t \in [A -> [B -> C]],
         NEW a \in A, NEW b \in B, NEW c \in C
  PROVE  [t EXCEPT ![a][b] = c] \in [A -> [B -> C]]
<1>1. [t[a] EXCEPT ![b] = c] \in [B -> C]
  OBVIOUS
<1>2. [t EXCEPT ![a][b] = c] = [t EXCEPT ![a] = [t[a] EXCEPT ![b] = c]]
  OBVIOUS
<1> QED
  BY <1>1, <1>2

(* So does an UpdateItem of the lister or of the finalizer.                *)
LEMMA UpdateItemType ==
  ASSUME item \in ImageInfoItem, NEW e \in Request, NEW verdict \in Verdict,
         LayerLister \/ Finalizer(e, verdict)
  PROVE  item' \in ImageInfoItem
BY DEF ImageInfoItem, ImageInfoStatus, LayerLister, Finalizer

-----------------------------------------------------------------------------
(* Every variable keeps its type.                                          *)
LEMMA TypeInit == Init => TypeOK
<1> SUFFICES ASSUME Init
             PROVE  TypeOK
  OBVIOUS
<1>1. item \in ImageInfoItem
  BY DEF Init, NoItem, ImageInfoItem
<1>2. /\ attempts \in [Request -> 0..MaxAttempts]
      /\ tries \in [Request -> [Layer -> 0..MaxAttempts]]
  BY MaxAttemptsAssumption DEF Init
<1>3. /\ pc \in [Request -> HandlerState]
      /\ state \in [Request -> MachineState]
      /\ reader \in [Request -> [Layer -> ReaderStage]]
  BY DEF Init, HandlerState, InHandler, MachineState, ReaderStage
<1> QED
  BY <1>1, <1>2, <1>3 DEF Init, TypeOK

(* Every step keeps the type of every variable.                            *)
LEMMA TypeStep == TypeOK /\ [Next]_vars => TypeOK'
<1> SUFFICES ASSUME TypeOK, [Next]_vars
             PROVE  TypeOK'
  OBVIOUS
<1> USE NoRequestAssumption, MaxAttemptsAssumption
    DEF TypeOK, execVars, bucketVars
<1>1. ASSUME NEW r \in Request, HandlerStep(r) \/ HandlerFault(r)
      PROVE  TypeOK'
  <2> USE DEF HandlerState, InHandler, ImageInfoItem, ImageInfoStatus, Verdict
  <2>1. CASE HandleInfo(r)
    BY <2>1 DEF HandleInfo
  <2>2. CASE PutItem(r)
    BY <2>2 DEF PutItem, PendingItem
  <2>3. CASE PutItemUnanswered(r)
    BY <2>3 DEF PutItemUnanswered, PendingItem
  <2>4. CASE StartExecution(r) \/ StartExecutionUnanswered(r)
    BY <2>4 DEF StartExecution, StartExecutionUnanswered, Begin, MachineState,
                Running, Task
  <2>5. CASE MarkRunning(r)
    BY <2>5 DEF MarkRunning, OwnsItem
  <2>6. CASE MarkRunningUnanswered(r)
    BY <2>6 DEF MarkRunningUnanswered
  <2>7. CASE Panic(r)
    BY <2>7 DEF Panic
  <2> QED
    BY <1>1, <2>1, <2>2, <2>3, <2>4, <2>5, <2>6, <2>7 DEF HandlerStep, HandlerFault
<1>2. ASSUME NEW e \in Request, ExecutionStep(e)
      PROVE  TypeOK'
  <2> USE DEF MachineState, Running, Task, Ended, Advance
  <2>1. CASE GetImageLayers(e)
    <3>1. item' \in ImageInfoItem
      BY <2>1, UpdateItemType DEF GetImageLayers, Verdict
    <3>2. reader' \in [Request -> [Layer -> ReaderStage]]
      BY <2>1 DEF GetImageLayers, ReaderStage
    <3> QED
      BY <2>1, <3>1, <3>2 DEF GetImageLayers, LayerLister
  <2>2. CASE JoinLayers(e)
    BY <2>2 DEF JoinLayers
  <2>3. CASE CatchMap(e)
    BY <2>3 DEF CatchMap
  <2>4. CASE ConcatenateIndexes(e)
    BY <2>4 DEF ConcatenateIndexes, Concatenator
  <2>5. CASE ReportSuccess(e)
    <3>1. item' \in ImageInfoItem
      BY <2>5, UpdateItemType DEF ReportSuccess, Verdict
    <3> QED
      BY <2>5, <3>1 DEF ReportSuccess, Finalizer
  <2>6. CASE ReportFailure(e)
    <3>1. item' \in ImageInfoItem
      BY <2>6, UpdateItemType DEF ReportFailure, Verdict
    <3> QED
      BY <2>6, <3>1 DEF ReportFailure, Finalizer
  <2>7. CASE RetryTask(e)
    BY <2>7 DEF RetryTask
  <2>8. CASE CatchTask(e)
    BY <2>8 DEF CatchTask, AfterError
  <2>9. ASSUME NEW l \in Layer, StoreGzi(e, l) \/ StoreFiles(e, l) \/ RetryLayer(e, l)
        PROVE  TypeOK'
    <3>1. \A stage \in ReaderStage :
            [reader EXCEPT ![e][l] = stage] \in [Request -> [Layer -> ReaderStage]]
      BY TableUpdate
    <3>2. \A n \in 0..MaxAttempts :
            [tries EXCEPT ![e][l] = n] \in [Request -> [Layer -> 0..MaxAttempts]]
      BY TableUpdate
    <3>3. tries[e][l] < MaxAttempts => tries[e][l] + 1 \in 0..MaxAttempts
      OBVIOUS
    <3>4. {"indexing", "gziStored", "done"} \subseteq ReaderStage
      BY DEF ReaderStage
    <3>5. CASE StoreGzi(e, l)
      BY <3>1, <3>4, <3>5 DEF StoreGzi
    <3>6. CASE StoreFiles(e, l)
      BY <3>1, <3>4, <3>6 DEF StoreFiles
    <3>7. CASE RetryLayer(e, l)
      BY <3>1, <3>2, <3>3, <3>4, <3>7 DEF RetryLayer
    <3> QED
      BY <2>9, <3>5, <3>6, <3>7
  <2> QED
    BY <1>2, <2>1, <2>2, <2>3, <2>4, <2>5, <2>6, <2>7, <2>8, <2>9 DEF ExecutionStep
<1>3. ASSUME NEW e \in Request, LateEffect(e)
      PROVE  TypeOK'
  BY <1>3 DEF LateEffect, LayerLister, Concatenator, Finalizer, ImageInfoItem,
              ImageInfoStatus, Verdict
<1>4. CASE Expire
  BY <1>4 DEF Expire, NoItem, ImageInfoItem, ReaderStage
<1>5. CASE UNCHANGED vars
  BY <1>5 DEF vars
<1> QED
  BY <1>1, <1>2, <1>3, <1>4, <1>5 DEF Next

(* TypeOK is an invariant of the specification.                            *)
THEOREM TypeCorrect == Spec => []TypeOK
<1>1. Init => TypeOK
  BY TypeInit
<1>2. TypeOK /\ [Next]_vars => TypeOK'
  BY TypeStep
<1> QED
  BY <1>1, <1>2, PTL DEF Spec

-----------------------------------------------------------------------------
(* What the three UpdateItem calls change.                                 *)
LEMMA ListerEffect ==
  ASSUME item \in ImageInfoItem, LayerLister
  PROVE  /\ item'.exists /\ item'.described
         /\ item'.whole = item.whole
         /\ item'.status = item.status
         /\ item'.executionId = item.executionId
BY DEF ImageInfoItem, LayerLister

(* The finalizer writes a verdict and its execution's id, nothing else.    *)
LEMMA FinalizerEffect ==
  ASSUME item \in ImageInfoItem, NEW e, NEW verdict, Finalizer(e, verdict)
  PROVE  /\ item'.exists
         /\ item'.described = item.described
         /\ item'.whole = item.whole
         /\ item'.status = verdict
         /\ item'.executionId = e
BY DEF ImageInfoItem, Finalizer

(* The RUNNING update writes the status, nothing else.                     *)
LEMMA MarkEffect ==
  ASSUME item \in ImageInfoItem, item' = [item EXCEPT !.status = "RUNNING"]
  PROVE  /\ item'.exists = item.exists
         /\ item'.described = item.described
         /\ item'.whole = item.whole
         /\ item'.status = "RUNNING"
         /\ item'.executionId = item.executionId
BY DEF ImageInfoItem

(* The part of TypeOK that the proofs below need.                          *)
LEMMA Types ==
  ASSUME TypeOK
  PROVE  /\ item \in ImageInfoItem
         /\ pc \in [Request -> HandlerState]
         /\ state \in [Request -> MachineState]
         /\ reader \in [Request -> [Layer -> ReaderStage]]
         /\ late \subseteq Request \X Task
         /\ gzi \subseteq Layer
         /\ files \subseteq Layer
         /\ published \in BOOLEAN
BY DEF TypeOK

(* What a late invocation does, and what is known when it does it.         *)
LEMMA LateCases ==
  ASSUME IInv, NEW e \in Request, LateEffect(e)
  PROVE  /\ item.exists /\ item.executionId = e
         /\ late' \subseteq late
         /\ UNCHANGED <<pc, state, attempts, tries, reader>>
         /\ \/ LayerLister
            \/ Concatenator
            \/ /\ Finalizer(e, "SUCCEEDED")
               /\ state[e] \in Successful /\ published /\ item.described
            \/ Finalizer(e, "FAILED") /\ state[e] \in Failing
<1>1. PICK s \in Task :
        /\ <<e, s>> \in late
        /\ \/ s = "GetImageLayers" /\ LayerLister
           \/ s = "ConcatenateIndexes" /\ Concatenator
           \/ s = "ReportSuccess" /\ Finalizer(e, "SUCCEEDED")
           \/ s = "ReportFailure" /\ Finalizer(e, "FAILED")
        /\ late' = late \ {<<e, s>>}
        /\ UNCHANGED <<pc, state, attempts, tries, reader>>
  BY DEF LateEffect
<1>2. item.exists /\ item.executionId = e
  BY <1>1 DEF IInv, BusyOwnsItem, Busy, Late, OwnsItem
<1>3. /\ s = "ReportSuccess" => state[e] \in Successful /\ published /\ item.described
      /\ s = "ReportFailure" => state[e] \in Failing
  BY <1>1 DEF IInv, LateReportsAgree, ProgressIsKept
<1> QED
  BY <1>1, <1>2, <1>3

-----------------------------------------------------------------------------
(* Whoever is busy owns the item: a new owner finds nobody busy, and the   *)
(* item is deleted only when nobody is.                                    *)
LEMMA BusyStep == IInv /\ [Next]_vars => BusyOwnsItem'
<1> SUFFICES ASSUME IInv, [Next]_vars
             PROVE  BusyOwnsItem'
  OBVIOUS
<1>t. /\ item \in ImageInfoItem
      /\ pc \in [Request -> HandlerState]
      /\ state \in [Request -> MachineState]
      /\ late \subseteq Request \X Task
  BY Types DEF IInv
<1>i. BusyOwnsItem
  BY DEF IInv
<1> USE <1>t, <1>i DEF BusyOwnsItem, Busy, OwnsItem, Late, Live
<1>1. ASSUME NEW r \in Request, HandlerStep(r) \/ HandlerFault(r)
      PROVE  BusyOwnsItem'
  <2>1. CASE HandleInfo(r) \/ Panic(r)
    BY <2>1 DEF HandleInfo, Panic, execVars
  <2>2. CASE PutItem(r) \/ PutItemUnanswered(r)
    BY <2>2 DEF PutItem, PutItemUnanswered, PendingItem, execVars
  <2>3. CASE StartExecution(r) \/ StartExecutionUnanswered(r)
    BY <2>3 DEF StartExecution, StartExecutionUnanswered, Begin
  <2>4. CASE MarkRunning(r)
    BY <2>4, MarkEffect DEF MarkRunning, execVars
  <2>5. CASE MarkRunningUnanswered(r)
    BY <2>5, MarkEffect DEF MarkRunningUnanswered, execVars
  <2> QED
    BY <1>1, <2>1, <2>2, <2>3, <2>4, <2>5 DEF HandlerStep, HandlerFault
<1>2. ASSUME NEW e \in Request, ExecutionStep(e)
      PROVE  BusyOwnsItem'
  <2> USE DEF Advance
  <2>1. CASE GetImageLayers(e)
    BY <2>1, ListerEffect DEF GetImageLayers, Running, Task
  <2>2. CASE JoinLayers(e) \/ CatchMap(e)
    BY <2>2 DEF JoinLayers, CatchMap, Running, Task
  <2>3. CASE ConcatenateIndexes(e)
    BY <2>3 DEF ConcatenateIndexes, Concatenator, Running, Task
  <2>4. CASE ReportSuccess(e)
    BY <2>4, FinalizerEffect DEF ReportSuccess, Running, Task
  <2>5. CASE ReportFailure(e)
    BY <2>5, FinalizerEffect DEF ReportFailure, Running, Task
  <2>6. CASE RetryTask(e)
    BY <2>6 DEF RetryTask, Running, Task
  <2>7. CASE CatchTask(e)
    BY <2>7 DEF CatchTask, AfterError, Running, Task
  <2>8. ASSUME NEW l \in Layer, StoreGzi(e, l) \/ StoreFiles(e, l) \/ RetryLayer(e, l)
        PROVE  BusyOwnsItem'
    BY <2>8 DEF StoreGzi, StoreFiles, RetryLayer
  <2> QED
    BY <1>2, <2>1, <2>2, <2>3, <2>4, <2>5, <2>6, <2>7, <2>8 DEF ExecutionStep
<1>3. ASSUME NEW e \in Request, LateEffect(e)
      PROVE  BusyOwnsItem'
  BY <1>3, ListerEffect, FinalizerEffect DEF LateEffect, Concatenator
<1>4. CASE Expire
  BY <1>4 DEF Expire, Quiet
<1>5. CASE UNCHANGED vars
  BY <1>5 DEF vars
<1> QED
  BY <1>1, <1>2, <1>3, <1>4, <1>5 DEF Next

-----------------------------------------------------------------------------
(* Only the handler that wrote the item starts an execution, and once.     *)
LEMMA StartStep == IInv /\ [Next]_vars => StartedOnce'
<1> SUFFICES ASSUME IInv, [Next]_vars
             PROVE  StartedOnce'
  OBVIOUS
<1>t. /\ pc \in [Request -> HandlerState]
      /\ state \in [Request -> MachineState]
      /\ late \subseteq Request \X Task
  BY Types DEF IInv
<1>i. StartedOnce
  BY DEF IInv
<1> USE <1>t, <1>i DEF StartedOnce, Late
<1>1. ASSUME NEW r \in Request, HandlerStep(r) \/ HandlerFault(r)
      PROVE  StartedOnce'
  <2>1. CASE HandleInfo(r) \/ Panic(r)
    BY <2>1 DEF HandleInfo, Panic, execVars
  <2>2. CASE PutItem(r) \/ PutItemUnanswered(r)
    BY <2>2 DEF PutItem, PutItemUnanswered, execVars
  <2>3. CASE StartExecution(r) \/ StartExecutionUnanswered(r)
    BY <2>3 DEF StartExecution, StartExecutionUnanswered, Begin
  <2>4. CASE MarkRunning(r)
    BY <2>4 DEF MarkRunning, execVars
  <2>5. CASE MarkRunningUnanswered(r)
    BY <2>5 DEF MarkRunningUnanswered, execVars
  <2> QED
    BY <1>1, <2>1, <2>2, <2>3, <2>4, <2>5 DEF HandlerStep, HandlerFault
<1>2. ASSUME NEW e \in Request, ExecutionStep(e)
      PROVE  StartedOnce'
  <2>1. CASE GetImageLayers(e)
    BY <2>1 DEF GetImageLayers, Advance
  <2>2. CASE JoinLayers(e) \/ CatchMap(e)
    BY <2>2 DEF JoinLayers, CatchMap, Advance
  <2>3. CASE ConcatenateIndexes(e)
    BY <2>3 DEF ConcatenateIndexes, Advance
  <2>4. CASE ReportSuccess(e)
    BY <2>4 DEF ReportSuccess, Advance
  <2>5. CASE ReportFailure(e)
    BY <2>5 DEF ReportFailure, Advance
  <2>6. CASE RetryTask(e)
    BY <2>6 DEF RetryTask, Running, Task
  <2>7. CASE CatchTask(e)
    BY <2>7 DEF CatchTask, AfterError, Running, Task
  <2>8. ASSUME NEW l \in Layer, StoreGzi(e, l) \/ StoreFiles(e, l) \/ RetryLayer(e, l)
        PROVE  StartedOnce'
    BY <2>8 DEF StoreGzi, StoreFiles, RetryLayer
  <2> QED
    BY <1>2, <2>1, <2>2, <2>3, <2>4, <2>5, <2>6, <2>7, <2>8 DEF ExecutionStep
<1>3. ASSUME NEW e \in Request, LateEffect(e)
      PROVE  StartedOnce'
  BY <1>3 DEF LateEffect
<1>4. CASE Expire
  BY <1>4 DEF Expire
<1>5. CASE UNCHANGED vars
  BY <1>5 DEF vars
<1> QED
  BY <1>1, <1>2, <1>3, <1>4, <1>5 DEF Next

-----------------------------------------------------------------------------
(* Nobody but its owner updates the item, so no update creates it.         *)
LEMMA WholeStep == IInv /\ [Next]_vars => ItemIsWhole'
<1> SUFFICES ASSUME IInv, [Next]_vars
             PROVE  ItemIsWhole'
  OBVIOUS
<1>t. /\ item \in ImageInfoItem
      /\ pc \in [Request -> HandlerState]
      /\ state \in [Request -> MachineState]
      /\ late \subseteq Request \X Task
  BY Types DEF IInv
<1>i. ItemIsWhole /\ BusyOwnsItem
  BY DEF IInv
<1> USE <1>t, <1>i DEF ItemIsWhole, BusyOwnsItem, Busy, OwnsItem
<1>1. ASSUME NEW r \in Request, HandlerStep(r) \/ HandlerFault(r)
      PROVE  ItemIsWhole'
  <2>1. CASE HandleInfo(r) \/ Panic(r)
    BY <2>1 DEF HandleInfo, Panic
  <2>2. CASE PutItem(r) \/ PutItemUnanswered(r)
    BY <2>2 DEF PutItem, PutItemUnanswered, PendingItem
  <2>3. CASE StartExecution(r) \/ StartExecutionUnanswered(r)
    BY <2>3 DEF StartExecution, StartExecutionUnanswered, Begin
  <2>4. CASE MarkRunning(r)
    BY <2>4, MarkEffect DEF MarkRunning
  <2>5. CASE MarkRunningUnanswered(r)
    BY <2>5, MarkEffect DEF MarkRunningUnanswered
  <2> QED
    BY <1>1, <2>1, <2>2, <2>3, <2>4, <2>5 DEF HandlerStep, HandlerFault
<1>2. ASSUME NEW e \in Request, ExecutionStep(e)
      PROVE  ItemIsWhole'
  <2>1. CASE GetImageLayers(e)
    BY <2>1, ListerEffect DEF GetImageLayers, Advance, Live, Running, Task
  <2>2. CASE JoinLayers(e) \/ CatchMap(e)
    BY <2>2 DEF JoinLayers, CatchMap
  <2>3. CASE ConcatenateIndexes(e)
    BY <2>3 DEF ConcatenateIndexes, Concatenator
  <2>4. CASE ReportSuccess(e)
    BY <2>4, FinalizerEffect DEF ReportSuccess, Advance, Live, Running, Task
  <2>5. CASE ReportFailure(e)
    BY <2>5, FinalizerEffect DEF ReportFailure, Advance, Live, Running, Task
  <2>6. CASE RetryTask(e)
    BY <2>6 DEF RetryTask
  <2>7. CASE CatchTask(e)
    BY <2>7 DEF CatchTask
  <2>8. ASSUME NEW l \in Layer, StoreGzi(e, l) \/ StoreFiles(e, l) \/ RetryLayer(e, l)
        PROVE  ItemIsWhole'
    BY <2>8 DEF StoreGzi, StoreFiles, RetryLayer
  <2> QED
    BY <1>2, <2>1, <2>2, <2>3, <2>4, <2>5, <2>6, <2>7, <2>8 DEF ExecutionStep
<1>3. ASSUME NEW e \in Request, LateEffect(e)
      PROVE  ItemIsWhole'
  BY <1>3, LateCases, ListerEffect, FinalizerEffect DEF Concatenator
<1>4. CASE Expire
  BY <1>4 DEF Expire, NoItem
<1>5. CASE UNCHANGED vars
  BY <1>5 DEF vars
<1> QED
  BY <1>1, <1>2, <1>3, <1>4, <1>5 DEF Next

-----------------------------------------------------------------------------
(* An execution leaves a Report state only for one that agrees with it.    *)
LEMMA LateStep == IInv /\ [Next]_vars => LateReportsAgree'
<1> SUFFICES ASSUME IInv, [Next]_vars
             PROVE  LateReportsAgree'
  OBVIOUS
<1>t. /\ state \in [Request -> MachineState]
      /\ late \subseteq Request \X Task
  BY Types DEF IInv
<1>i. LateReportsAgree /\ StartedOnce
  BY DEF IInv
<1> USE <1>t, <1>i DEF LateReportsAgree, Successful, Failing, Late
<1>1. ASSUME NEW r \in Request, HandlerStep(r) \/ HandlerFault(r)
      PROVE  LateReportsAgree'
  <2>1. CASE HandleInfo(r) \/ Panic(r)
    BY <2>1 DEF HandleInfo, Panic, execVars
  <2>2. CASE PutItem(r) \/ PutItemUnanswered(r)
    BY <2>2 DEF PutItem, PutItemUnanswered, execVars
  <2>3. CASE StartExecution(r) \/ StartExecutionUnanswered(r)
    BY <2>3 DEF StartExecution, StartExecutionUnanswered, Begin, StartedOnce, Running, Task
  <2>4. CASE MarkRunning(r)
    BY <2>4 DEF MarkRunning, execVars
  <2>5. CASE MarkRunningUnanswered(r)
    BY <2>5 DEF MarkRunningUnanswered, execVars
  <2> QED
    BY <1>1, <2>1, <2>2, <2>3, <2>4, <2>5 DEF HandlerStep, HandlerFault
<1>2. ASSUME NEW e \in Request, ExecutionStep(e)
      PROVE  LateReportsAgree'
  <2>1. CASE GetImageLayers(e)
    BY <2>1 DEF GetImageLayers, Advance
  <2>2. CASE JoinLayers(e) \/ CatchMap(e)
    BY <2>2 DEF JoinLayers, CatchMap, Advance
  <2>3. CASE ConcatenateIndexes(e)
    BY <2>3 DEF ConcatenateIndexes, Advance
  <2>4. CASE ReportSuccess(e)
    BY <2>4 DEF ReportSuccess, Advance
  <2>5. CASE ReportFailure(e)
    BY <2>5 DEF ReportFailure, Advance
  <2>6. CASE RetryTask(e)
    BY <2>6 DEF RetryTask
  <2>7. CASE CatchTask(e)
    BY <2>7 DEF CatchTask, AfterError, Running, Task
  <2>8. ASSUME NEW l \in Layer, StoreGzi(e, l) \/ StoreFiles(e, l) \/ RetryLayer(e, l)
        PROVE  LateReportsAgree'
    BY <2>8 DEF StoreGzi, StoreFiles, RetryLayer
  <2> QED
    BY <1>2, <2>1, <2>2, <2>3, <2>4, <2>5, <2>6, <2>7, <2>8 DEF ExecutionStep
<1>3. ASSUME NEW e \in Request, LateEffect(e)
      PROVE  LateReportsAgree'
  BY <1>3 DEF LateEffect
<1>4. CASE Expire
  BY <1>4 DEF Expire
<1>5. CASE UNCHANGED vars
  BY <1>5 DEF vars
<1> QED
  BY <1>1, <1>2, <1>3, <1>4, <1>5 DEF Next

-----------------------------------------------------------------------------
(* The uploads of an invocation are ordered; nothing is ever deleted.      *)
LEMMA BucketStep == IInv /\ [Next]_vars => BucketIsOrdered'
<1> SUFFICES ASSUME IInv, [Next]_vars
             PROVE  BucketIsOrdered'
  OBVIOUS
<1>t. /\ reader \in [Request -> [Layer -> ReaderStage]]
      /\ gzi \subseteq Layer /\ files \subseteq Layer
  BY Types DEF IInv
<1>i. BucketIsOrdered
  BY DEF IInv
<1> USE <1>t, <1>i DEF BucketIsOrdered
<1>1. ASSUME NEW r \in Request, HandlerStep(r) \/ HandlerFault(r)
      PROVE  BucketIsOrdered'
  <2>1. CASE HandleInfo(r) \/ Panic(r)
    BY <2>1 DEF HandleInfo, Panic, execVars, bucketVars
  <2>2. CASE PutItem(r) \/ PutItemUnanswered(r)
    BY <2>2 DEF PutItem, PutItemUnanswered, execVars, bucketVars
  <2>3. CASE StartExecution(r) \/ StartExecutionUnanswered(r)
    BY <2>3 DEF StartExecution, StartExecutionUnanswered, Begin, bucketVars
  <2>4. CASE MarkRunning(r)
    BY <2>4 DEF MarkRunning, execVars, bucketVars
  <2>5. CASE MarkRunningUnanswered(r)
    BY <2>5 DEF MarkRunningUnanswered, execVars, bucketVars
  <2> QED
    BY <1>1, <2>1, <2>2, <2>3, <2>4, <2>5 DEF HandlerStep, HandlerFault
<1>2. ASSUME NEW e \in Request, ExecutionStep(e)
      PROVE  BucketIsOrdered'
  <2>1. CASE GetImageLayers(e)
    BY <2>1 DEF GetImageLayers, LayerLister, bucketVars
  <2>2. CASE JoinLayers(e) \/ CatchMap(e)
    BY <2>2 DEF JoinLayers, CatchMap, bucketVars
  <2>3. CASE ConcatenateIndexes(e)
    BY <2>3 DEF ConcatenateIndexes, Concatenator
  <2>4. CASE ReportSuccess(e)
    BY <2>4 DEF ReportSuccess, Finalizer, bucketVars
  <2>5. CASE ReportFailure(e)
    BY <2>5 DEF ReportFailure, Finalizer, bucketVars
  <2>6. CASE RetryTask(e)
    BY <2>6 DEF RetryTask, bucketVars
  <2>7. CASE CatchTask(e)
    BY <2>7 DEF CatchTask, bucketVars
  <2>8. ASSUME NEW l \in Layer, StoreGzi(e, l) \/ StoreFiles(e, l) \/ RetryLayer(e, l)
        PROVE  BucketIsOrdered'
    BY <2>8 DEF StoreGzi, StoreFiles, RetryLayer, bucketVars
  <2> QED
    BY <1>2, <2>1, <2>2, <2>3, <2>4, <2>5, <2>6, <2>7, <2>8 DEF ExecutionStep
<1>3. ASSUME NEW e \in Request, LateEffect(e)
      PROVE  BucketIsOrdered'
  BY <1>3 DEF LateEffect, LayerLister, Concatenator, Finalizer, bucketVars
<1>4. CASE Expire
  BY <1>4 DEF Expire, bucketVars
<1>5. CASE UNCHANGED vars
  BY <1>5 DEF vars
<1> QED
  BY <1>1, <1>2, <1>3, <1>4, <1>5 DEF Next

-----------------------------------------------------------------------------
(* What an execution has achieved is undone by nobody while it matters.    *)
LEMMA ProgressStep == IInv /\ [Next]_vars => ProgressIsKept'
<1> SUFFICES ASSUME IInv, [Next]_vars
             PROVE  ProgressIsKept'
  OBVIOUS
<1>t. /\ item \in ImageInfoItem
      /\ pc \in [Request -> HandlerState]
      /\ state \in [Request -> MachineState]
      /\ late \subseteq Request \X Task
      /\ published \in BOOLEAN
  BY Types DEF IInv
<1>i. ProgressIsKept /\ BusyOwnsItem /\ LateReportsAgree
  BY DEF IInv
<1> USE <1>t, <1>i DEF ProgressIsKept, Successful
<1>1. ASSUME NEW r \in Request, HandlerStep(r) \/ HandlerFault(r)
      PROVE  ProgressIsKept'
  <2>1. CASE HandleInfo(r) \/ Panic(r)
    BY <2>1 DEF HandleInfo, Panic, execVars, bucketVars
  <2>2. CASE PutItem(r) \/ PutItemUnanswered(r)
    BY <2>2 DEF PutItem, PutItemUnanswered, PendingItem, execVars, bucketVars, BusyOwnsItem, Busy, OwnsItem, Live, Late, Running, Task
  <2>3. CASE StartExecution(r) \/ StartExecutionUnanswered(r)
    BY <2>3 DEF StartExecution, StartExecutionUnanswered, Begin, bucketVars
  <2>4. CASE MarkRunning(r)
    BY <2>4, MarkEffect DEF MarkRunning, execVars, bucketVars
  <2>5. CASE MarkRunningUnanswered(r)
    BY <2>5, MarkEffect DEF MarkRunningUnanswered, execVars, bucketVars
  <2> QED
    BY <1>1, <2>1, <2>2, <2>3, <2>4, <2>5 DEF HandlerStep, HandlerFault
<1>2. ASSUME NEW e \in Request, ExecutionStep(e)
      PROVE  ProgressIsKept'
  <2>1. CASE GetImageLayers(e)
    BY <2>1, ListerEffect DEF GetImageLayers, Advance, LayerLister, bucketVars
  <2>2. CASE JoinLayers(e) \/ CatchMap(e)
    BY <2>2 DEF JoinLayers, CatchMap, Advance, bucketVars
  <2>3. CASE ConcatenateIndexes(e)
    BY <2>3 DEF ConcatenateIndexes, Advance, Concatenator
  <2>4. CASE ReportSuccess(e)
    BY <2>4, FinalizerEffect DEF ReportSuccess, Advance, Finalizer, bucketVars
  <2>5. CASE ReportFailure(e)
    BY <2>5, FinalizerEffect DEF ReportFailure, Advance, Finalizer, bucketVars
  <2>6. CASE RetryTask(e)
    BY <2>6 DEF RetryTask, bucketVars
  <2>7. CASE CatchTask(e)
    BY <2>7 DEF CatchTask, AfterError, bucketVars, Running, Task
  <2>8. ASSUME NEW l \in Layer, StoreGzi(e, l) \/ StoreFiles(e, l) \/ RetryLayer(e, l)
        PROVE  ProgressIsKept'
    BY <2>8 DEF StoreGzi, StoreFiles, RetryLayer, bucketVars
  <2> QED
    BY <1>2, <2>1, <2>2, <2>3, <2>4, <2>5, <2>6, <2>7, <2>8 DEF ExecutionStep
<1>3. ASSUME NEW e \in Request, LateEffect(e)
      PROVE  ProgressIsKept'
  BY <1>3, LateCases, ListerEffect, FinalizerEffect
  DEF LayerLister, Concatenator, Finalizer, bucketVars
<1>4. CASE Expire
  BY <1>4 DEF Expire, Quiet, Live, bucketVars, Running, Task
<1>5. CASE UNCHANGED vars
  BY <1>5 DEF vars
<1> QED
  BY <1>1, <1>2, <1>3, <1>4, <1>5 DEF Next

-----------------------------------------------------------------------------
(* The status keeps up with the execution that the item names.             *)
LEMMA StatusStep == IInv /\ [Next]_vars => StatusFitsExecution'
<1> SUFFICES ASSUME IInv, [Next]_vars
             PROVE  StatusFitsExecution'
  OBVIOUS
<1>t. /\ item \in ImageInfoItem
      /\ pc \in [Request -> HandlerState]
      /\ state \in [Request -> MachineState]
      /\ late \subseteq Request \X Task
  BY Types DEF IInv
<1>i. StatusFitsExecution /\ BusyOwnsItem /\ StartedOnce /\ LateReportsAgree
  BY DEF IInv
<1> USE <1>t, <1>i DEF StatusFitsExecution
<1>1. ASSUME NEW r \in Request, HandlerStep(r) \/ HandlerFault(r)
      PROVE  StatusFitsExecution'
  <2>1. CASE HandleInfo(r) \/ Panic(r)
    BY <2>1 DEF HandleInfo, Panic, execVars
  <2>2. CASE PutItem(r) \/ PutItemUnanswered(r)
    BY <2>2 DEF PutItem, PutItemUnanswered, PendingItem, execVars, StartedOnce
  <2>3. CASE StartExecution(r) \/ StartExecutionUnanswered(r)
    BY <2>3 DEF StartExecution, StartExecutionUnanswered, Begin, StartedOnce, BusyOwnsItem, Busy, OwnsItem
  <2>4. CASE MarkRunning(r)
    BY <2>4, MarkEffect DEF MarkRunning, execVars, StartedOnce, OwnsItem
  <2>5. CASE MarkRunningUnanswered(r)
    BY <2>5, MarkEffect DEF MarkRunningUnanswered, execVars, StartedOnce, OwnsItem
  <2> QED
    BY <1>1, <2>1, <2>2, <2>3, <2>4, <2>5 DEF HandlerStep, HandlerFault
<1>2. ASSUME NEW e \in Request, ExecutionStep(e)
      PROVE  StatusFitsExecution'
  <2>1. CASE GetImageLayers(e)
    BY <2>1, ListerEffect DEF GetImageLayers, Advance, BusyOwnsItem, Busy, OwnsItem, Live, Running, Task
  <2>2. CASE JoinLayers(e) \/ CatchMap(e)
    BY <2>2 DEF JoinLayers, CatchMap, Advance, BusyOwnsItem, Busy, OwnsItem, Live, Running, Task
  <2>3. CASE ConcatenateIndexes(e)
    BY <2>3 DEF ConcatenateIndexes, Advance, Concatenator, BusyOwnsItem, Busy, OwnsItem, Live, Running, Task
  <2>4. CASE ReportSuccess(e)
    BY <2>4, FinalizerEffect DEF ReportSuccess, Advance
  <2>5. CASE ReportFailure(e)
    BY <2>5, FinalizerEffect DEF ReportFailure, Advance
  <2>6. CASE RetryTask(e)
    BY <2>6 DEF RetryTask
  <2>7. CASE CatchTask(e)
    BY <2>7 DEF CatchTask, AfterError, BusyOwnsItem, Busy, OwnsItem, Live, Running, Task
  <2>8. ASSUME NEW l \in Layer, StoreGzi(e, l) \/ StoreFiles(e, l) \/ RetryLayer(e, l)
        PROVE  StatusFitsExecution'
    BY <2>8 DEF StoreGzi, StoreFiles, RetryLayer
  <2> QED
    BY <1>2, <2>1, <2>2, <2>3, <2>4, <2>5, <2>6, <2>7, <2>8 DEF ExecutionStep
<1>3. ASSUME NEW e \in Request, LateEffect(e)
      PROVE  StatusFitsExecution'
  <2> USE DEF Successful, Failing
  <2>1. item.exists /\ state' = state
    BY <1>3, LateCases
  <2>2. CASE LayerLister
    BY <2>1, <2>2, ListerEffect
  <2>3. CASE Concatenator
    BY <2>1, <2>3 DEF Concatenator
  <2>4. CASE Finalizer(e, "SUCCEEDED") /\ state[e] \in Successful
    BY <2>1, <2>4, FinalizerEffect
  <2>5. CASE Finalizer(e, "FAILED") /\ state[e] \in Failing
    BY <2>1, <2>5, FinalizerEffect
  <2> QED
    BY <1>3, <2>2, <2>3, <2>4, <2>5, LateCases
<1>4. CASE Expire
  BY <1>4 DEF Expire, NoItem
<1>5. CASE UNCHANGED vars
  BY <1>5 DEF vars
<1> QED
  BY <1>1, <1>2, <1>3, <1>4, <1>5 DEF Next

-----------------------------------------------------------------------------
(* SUCCEEDED is only ever written when everything is stored.               *)
LEMMA BrowsableStep == IInv /\ [Next]_vars => SucceededIsBrowsable'
<1> SUFFICES ASSUME IInv, [Next]_vars
             PROVE  SucceededIsBrowsable'
  OBVIOUS
<1>t. /\ item \in ImageInfoItem
      /\ pc \in [Request -> HandlerState]
      /\ state \in [Request -> MachineState]
      /\ late \subseteq Request \X Task
      /\ published \in BOOLEAN
  BY Types DEF IInv
<1>i. SucceededIsBrowsable /\ ProgressIsKept /\ LateReportsAgree /\ BucketIsOrdered
  BY DEF IInv
<1> USE <1>t, <1>i DEF SucceededIsBrowsable
<1>1. ASSUME NEW r \in Request, HandlerStep(r) \/ HandlerFault(r)
      PROVE  SucceededIsBrowsable'
  <2>1. CASE HandleInfo(r) \/ Panic(r)
    BY <2>1 DEF HandleInfo, Panic, bucketVars
  <2>2. CASE PutItem(r) \/ PutItemUnanswered(r)
    BY <2>2 DEF PutItem, PutItemUnanswered, PendingItem, bucketVars
  <2>3. CASE StartExecution(r) \/ StartExecutionUnanswered(r)
    BY <2>3 DEF StartExecution, StartExecutionUnanswered, Begin, bucketVars
  <2>4. CASE MarkRunning(r)
    BY <2>4, MarkEffect DEF MarkRunning, bucketVars
  <2>5. CASE MarkRunningUnanswered(r)
    BY <2>5, MarkEffect DEF MarkRunningUnanswered, bucketVars
  <2> QED
    BY <1>1, <2>1, <2>2, <2>3, <2>4, <2>5 DEF HandlerStep, HandlerFault
<1>2. ASSUME NEW e \in Request, ExecutionStep(e)
      PROVE  SucceededIsBrowsable'
  <2>1. CASE GetImageLayers(e)
    BY <2>1, ListerEffect DEF GetImageLayers, LayerLister, bucketVars
  <2>2. CASE JoinLayers(e) \/ CatchMap(e)
    BY <2>2 DEF JoinLayers, CatchMap, bucketVars
  <2>3. CASE ConcatenateIndexes(e)
    BY <2>3 DEF ConcatenateIndexes, Concatenator
  <2>4. CASE ReportSuccess(e)
    BY <2>4, FinalizerEffect DEF ReportSuccess, Advance, Finalizer, bucketVars, ProgressIsKept, Successful, BucketIsOrdered
  <2>5. CASE ReportFailure(e)
    BY <2>5, FinalizerEffect DEF ReportFailure, Finalizer, bucketVars
  <2>6. CASE RetryTask(e)
    BY <2>6 DEF RetryTask, bucketVars
  <2>7. CASE CatchTask(e)
    BY <2>7 DEF CatchTask, bucketVars
  <2>8. ASSUME NEW l \in Layer, StoreGzi(e, l) \/ StoreFiles(e, l) \/ RetryLayer(e, l)
        PROVE  SucceededIsBrowsable'
    BY <2>8 DEF StoreGzi, StoreFiles, RetryLayer, bucketVars
  <2> QED
    BY <1>2, <2>1, <2>2, <2>3, <2>4, <2>5, <2>6, <2>7, <2>8 DEF ExecutionStep
<1>3. ASSUME NEW e \in Request, LateEffect(e)
      PROVE  SucceededIsBrowsable'
  BY <1>3, LateCases, ListerEffect, FinalizerEffect
  DEF LayerLister, Concatenator, Finalizer, bucketVars, BucketIsOrdered
<1>4. CASE Expire
  BY <1>4 DEF Expire, NoItem, bucketVars
<1>5. CASE UNCHANGED vars
  BY <1>5 DEF vars
<1> QED
  BY <1>1, <1>2, <1>3, <1>4, <1>5 DEF Next

-----------------------------------------------------------------------------
(* The invariant holds before the first request.                           *)
LEMMA IInvInit == Init => IInv
<1> SUFFICES ASSUME Init
             PROVE  IInv
  OBVIOUS
<1>1. TypeOK
  BY TypeInit
<1>2. BusyOwnsItem /\ StartedOnce /\ LateReportsAgree
  BY DEF Init, BusyOwnsItem, Busy, StartedOnce, LateReportsAgree, Live, Late,
         Running, Task
<1>3. ItemIsWhole /\ StatusFitsExecution /\ SucceededIsBrowsable
  BY DEF Init, NoItem, ItemIsWhole, StatusFitsExecution, SucceededIsBrowsable
<1>4. BucketIsOrdered /\ ProgressIsKept
  BY DEF Init, BucketIsOrdered, ProgressIsKept, Successful
<1> QED
  BY <1>1, <1>2, <1>3, <1>4 DEF IInv

(* Every step keeps the invariant.                                         *)
LEMMA IInvStep == IInv /\ [Next]_vars => IInv'
BY TypeStep, BusyStep, StartStep, WholeStep, LateStep, BucketStep, ProgressStep,
   StatusStep, BrowsableStep
DEF IInv

(* IInv is an invariant of the specification.                              *)
THEOREM Inductive == Spec => []IInv
<1> QED
  BY IInvInit, IInvStep, PTL DEF Spec

(* At most one execution indexes the image at any time: both would own the *)
(* item, which names one.                                                  *)
THEOREM MutualExclusion == Spec => []OneExecutionAtATime
<1>1. IInv => OneExecutionAtATime
  BY DEF IInv, BusyOwnsItem, Busy, OwnsItem, OneExecutionAtATime
<1> QED
  BY <1>1, Inductive, PTL

(* The condition that the finalizer leaves out would always hold.          *)
THEOREM Ownership == Spec => []WritersOwnTheItem
<1>1. IInv => WritersOwnTheItem
  BY DEF IInv, BusyOwnsItem, Busy, WritersOwnTheItem
<1> QED
  BY <1>1, Inductive, PTL

(* handleInfo can decode every item that it finds.                         *)
THEOREM Decodable == Spec => []NoPartialItem
<1>1. IInv => NoPartialItem
  BY DEF IInv, ItemIsWhole, NoPartialItem
<1> QED
  BY <1>1, Inductive, PTL

(* An image that is reported SUCCEEDED can be browsed.                     *)
THEOREM Browsable == Spec => []SucceededIsBrowsable
<1>1. IInv => SucceededIsBrowsable
  BY DEF IInv
<1> QED
  BY <1>1, Inductive, PTL

(* The status never contradicts the execution that the item names.         *)
THEOREM StatusAgrees == Spec => []StatusFitsExecution
<1>1. IInv => StatusFitsExecution
  BY DEF IInv
<1> QED
  BY <1>1, Inductive, PTL

-----------------------------------------------------------------------------
(* The verdict is taken back by nobody but the request that started the    *)
(* execution, between its StartExecution and its response.                 *)
LEMMA VerdictStep ==
  IInv /\ [Next]_vars
    => (item.status \in Verdict /\ item'.exists /\ item'.status # item.status
          => item'.status = "RUNNING" /\ pc[item.executionId] = "mark")
<1> SUFFICES ASSUME IInv, [Next]_vars, item.status \in Verdict, item'.exists,
                    item'.status # item.status
             PROVE  item'.status = "RUNNING" /\ pc[item.executionId] = "mark"
  OBVIOUS
<1>1. item \in ImageInfoItem /\ item.exists /\ item.executionId \in Request
  BY Types DEF IInv, ItemIsWhole, NoItem, Verdict
<1>2. /\ item.status = "SUCCEEDED" => state[item.executionId] \in Successful
      /\ item.status = "FAILED" => state[item.executionId] \in Failing
  BY <1>1 DEF IInv, StatusFitsExecution, Successful, Failing
<1>3. ASSUME NEW r \in Request, HandlerStep(r) \/ HandlerFault(r)
      PROVE  item'.status = "RUNNING" /\ pc[item.executionId] = "mark"
  BY <1>1, <1>3, MarkEffect
  DEF HandlerStep, HandlerFault, HandleInfo, PutItem, PutItemUnanswered,
      StartExecution, StartExecutionUnanswered, Begin, MarkRunning,
      MarkRunningUnanswered, Panic, OwnsItem
<1>4. ASSUME NEW e \in Request, ExecutionStep(e)
      PROVE  FALSE
  <2> USE <1>1, <1>2 DEF Verdict, Successful, Failing
  <2>1. Live(e) => item.executionId = e
    BY DEF IInv, BusyOwnsItem, Busy, OwnsItem
  <2>2. CASE GetImageLayers(e)
    BY <2>2, ListerEffect DEF GetImageLayers
  <2>3. CASE ReportSuccess(e)
    BY <2>1, <2>3, FinalizerEffect DEF ReportSuccess, Advance, Live, Running, Task
  <2>4. CASE ReportFailure(e)
    BY <2>1, <2>4, FinalizerEffect DEF ReportFailure, Advance, Live, Running, Task
  <2> QED
    BY <1>4, <2>2, <2>3, <2>4
    DEF ExecutionStep, JoinLayers, CatchMap, ConcatenateIndexes, Concatenator,
        RetryTask, CatchTask, StoreGzi, StoreFiles, RetryLayer
<1>5. ASSUME NEW e \in Request, LateEffect(e)
      PROVE  FALSE
  BY <1>1, <1>2, <1>5, LateCases, ListerEffect, FinalizerEffect
  DEF Concatenator, Verdict, Successful, Failing
<1>6. CASE Expire
  BY <1>6 DEF Expire, NoItem
<1>7. CASE UNCHANGED vars
  BY <1>7 DEF vars
<1> QED
  BY <1>3, <1>4, <1>5, <1>6, <1>7 DEF Next

(* A verdict is revoked, if at all, by the RUNNING update of the request   *)
(* that started the execution.                                             *)
THEOREM VerdictTakenBack == Spec => OnlyMarkRevokesVerdict
<1> QED
  BY Inductive, VerdictStep, PTL DEF Spec, OnlyMarkRevokesVerdict

-----------------------------------------------------------------------------
(* ImagePipeline implements ImageRecord.                                   *)
LEMMA RecordInit == Init => Record!Init
BY DEF Init, NoItem, RecordStatus, RecordOutcome, Record!Init

(* Every step of the pipeline is one step of the record, or none.          *)
LEMMA RecordStep == IInv /\ [Next]_vars => [Record!Next]_(Record!vars)
<1> SUFFICES ASSUME IInv, [Next]_vars
             PROVE  Record!Next \/ UNCHANGED Record!vars
  OBVIOUS
<1>t. /\ item \in ImageInfoItem
      /\ state \in [Request -> MachineState]
  BY Types DEF IInv
<1>o. \A e \in Request : Busy(e) => item.exists /\ item.executionId = e
  BY DEF IInv, BusyOwnsItem, OwnsItem
<1>w. IF item.exists THEN item.executionId \in Request ELSE item = NoItem
  BY DEF IInv, ItemIsWhole
<1>s. item.status # "ABSENT"
  BY <1>t DEF ImageInfoItem, ImageInfoStatus, Verdict
<1> USE <1>t DEF RecordStatus, RecordOutcome
<1>1. ASSUME NEW r \in Request, HandlerStep(r) \/ HandlerFault(r)
      PROVE  Record!Next \/ UNCHANGED Record!vars
  <2>1. CASE HandleInfo(r) \/ Panic(r)
    BY <2>1 DEF HandleInfo, Panic, execVars, bucketVars, Record!vars
  <2>2. CASE PutItem(r) \/ PutItemUnanswered(r)
    <3>1. state[r] = "NotStarted"
      BY <2>2 DEF IInv, StartedOnce, PutItem, PutItemUnanswered
    <3>2. CASE item.exists
      BY <2>2, <3>2 DEF PutItem, PutItemUnanswered, execVars, bucketVars, Record!vars
    <3>3. CASE ~item.exists
      <4>1. Record!Create(r)
        BY <2>2, <3>1, <3>3 DEF PutItem, PutItemUnanswered, PendingItem, execVars,
                                bucketVars, Record!Create
      <4> QED
        BY <4>1 DEF Record!Next
    <3> QED
      BY <3>2, <3>3
  <2>3. CASE StartExecution(r) \/ StartExecutionUnanswered(r)
    <3>1. state[r] = "NotStarted" /\ item.exists /\ item.executionId = r
      BY <1>o, <2>3 DEF IInv, StartedOnce, StartExecution, StartExecutionUnanswered,
                        Begin, Busy
    <3> QED
      BY <2>3, <3>1 DEF StartExecution, StartExecutionUnanswered, Begin, bucketVars,
                        Record!vars
  <2>4. CASE MarkRunning(r) \/ MarkRunningUnanswered(r)
    <3>1. item.exists /\ item.executionId = r
      BY <1>o, <2>4 DEF MarkRunning, MarkRunningUnanswered, Busy
    <3>2. Record!MarkRunning
      BY <1>s, <2>4, <3>1, MarkEffect DEF MarkRunning, MarkRunningUnanswered, OwnsItem,
                                    execVars, bucketVars, Record!MarkRunning
    <3> QED
      BY <3>2 DEF Record!Next
  <2> QED
    BY <1>1, <2>1, <2>2, <2>3, <2>4 DEF HandlerStep, HandlerFault
<1>2. ASSUME NEW e \in Request, ExecutionStep(e)
      PROVE  Record!Next \/ UNCHANGED Record!vars
  <2>o. Live(e) => item.exists /\ item.executionId = e
    BY <1>o DEF Busy
  <2> USE <2>o DEF Live, Running, Task
  <2>1. CASE GetImageLayers(e)
    BY <2>1, ListerEffect DEF GetImageLayers, Advance, LayerLister, bucketVars, Record!vars
  <2>2. CASE JoinLayers(e)
    BY <2>2 DEF JoinLayers, Advance, bucketVars, Record!vars
  <2>3. CASE CatchMap(e)
    <3>1. Record!Fail
      BY <1>s, <2>3 DEF CatchMap, Advance, bucketVars, Record!Fail
    <3> QED
      BY <3>1 DEF Record!Next
  <2>4. CASE ConcatenateIndexes(e)
    <3>1. Record!Succeed
      BY <1>s, <2>4 DEF ConcatenateIndexes, Advance, Concatenator, Record!Succeed
    <3> QED
      BY <3>1 DEF Record!Next
  <2>5. CASE ReportSuccess(e)
    <3>1. item.exists /\ item.executionId = e /\ UNCHANGED published
      BY <2>5 DEF ReportSuccess, Advance, Finalizer, bucketVars
    <3>2. state[e] = "ReportSuccess" /\ state'[e] = "Succeeded"
      BY <2>5 DEF ReportSuccess, Advance
    <3>3. item'.exists /\ item'.executionId = e /\ item'.status = "SUCCEEDED"
      BY <2>5, FinalizerEffect DEF ReportSuccess
    <3>4. Record!Report
      BY <3>1, <3>2, <3>3 DEF Record!Report, Record!Outcome
    <3> QED
      BY <3>4 DEF Record!Next
  <2>6. CASE ReportFailure(e)
    <3>1. item.exists /\ item.executionId = e /\ UNCHANGED published
      BY <2>6 DEF ReportFailure, Advance, Finalizer, bucketVars
    <3>2. state[e] = "ReportFailure" /\ state'[e] = "Failed"
      BY <2>6 DEF ReportFailure, Advance
    <3>3. item'.exists /\ item'.executionId = e /\ item'.status = "FAILED"
      BY <2>6, FinalizerEffect DEF ReportFailure
    <3>4. Record!Report
      BY <3>1, <3>2, <3>3 DEF Record!Report, Record!Outcome
    <3> QED
      BY <3>4 DEF Record!Next
  <2>7. CASE RetryTask(e)
    BY <2>7 DEF RetryTask, bucketVars, Record!vars
  <2>8. CASE CatchTask(e) /\ state[e] \in {"GetImageLayers", "ConcatenateIndexes"}
    <3>1. Record!Fail
      BY <1>s, <2>8 DEF CatchTask, AfterError, bucketVars, Record!Fail
    <3> QED
      BY <3>1 DEF Record!Next
  <2>9. CASE CatchTask(e) /\ state[e] \in {"ReportSuccess", "ReportFailure"}
    BY <2>9 DEF CatchTask, AfterError, bucketVars, Record!vars
  <2>10. ASSUME NEW l \in Layer, StoreGzi(e, l) \/ StoreFiles(e, l) \/ RetryLayer(e, l)
         PROVE  UNCHANGED Record!vars
    BY <2>10 DEF StoreGzi, StoreFiles, RetryLayer, bucketVars, Record!vars
  <2>11. CatchTask(e) => state[e] \in Task
    BY DEF CatchTask
  <2> QED
    BY <1>2, <2>1, <2>2, <2>3, <2>4, <2>5, <2>6, <2>7, <2>8, <2>9, <2>10, <2>11
    DEF ExecutionStep
<1>3. ASSUME NEW e \in Request, LateEffect(e)
      PROVE  Record!Next \/ UNCHANGED Record!vars
  <2>1. item.exists /\ item.executionId = e /\ state' = state
    BY <1>3, LateCases
  <2>2. CASE LayerLister
    BY <2>1, <2>2, ListerEffect DEF LayerLister, bucketVars, Record!vars
  <2>3. CASE Concatenator
    <3>1. Record!Store
      BY <2>1, <2>3 DEF Concatenator, Record!Store
    <3> QED
      BY <3>1 DEF Record!Next
  <2>4. CASE Finalizer(e, "SUCCEEDED") /\ state[e] \in Successful
    <3>1. Record!Report
      BY <2>1, <2>4, FinalizerEffect DEF Finalizer, bucketVars, Successful,
                                         Record!Report, Record!Outcome
    <3> QED
      BY <3>1 DEF Record!Next
  <2>5. CASE Finalizer(e, "FAILED") /\ state[e] \in Failing
    <3>1. Record!Report
      BY <2>1, <2>5, FinalizerEffect DEF Finalizer, bucketVars, Failing,
                                         Record!Report, Record!Outcome
    <3> QED
      BY <3>1 DEF Record!Next
  <2> QED
    BY <1>3, <2>2, <2>3, <2>4, <2>5, LateCases
<1>4. CASE Expire
  <2>1. Record!Forget
    BY <1>s, <1>4 DEF Expire, NoItem, bucketVars, Record!Forget
  <2> QED
    BY <2>1 DEF Record!Next
<1>5. CASE UNCHANGED vars
  BY <1>5 DEF vars, Record!vars
<1> QED
  BY <1>1, <1>2, <1>3, <1>4, <1>5 DEF Next

(* The pipeline keeps the promise that ImageRecord states.                 *)
THEOREM Refinement == Spec => ImplementsRecord
<1> QED
  BY RecordInit, Inductive, RecordStep, PTL DEF Spec, ImplementsRecord, Record!Spec

-----------------------------------------------------------------------------
(* What an execution has before it. This only dwindles, and each of its    *)
(* steps uses some of it up: what EveryExecutionEnds owes to the state     *)
(* machine, and not to the fairness of Step Functions.                     *)

(* The states that an execution can still come to.                         *)
Onward(s) ==
  CASE s = "NotStarted" -> Running \union Ended
    [] s = "GetImageLayers" -> (Running \ {"GetImageLayers"}) \union Ended
    [] s = "ForEachLayer" ->
         {"ConcatenateIndexes", "ReportSuccess", "ReportFailure"} \union Ended
    [] s = "ConcatenateIndexes" -> {"ReportSuccess", "ReportFailure"} \union Ended
    [] s \in {"ReportSuccess", "ReportFailure"} -> Ended
    [] OTHER -> {}

(* Each with the retries that it allows.                                   *)
TasksAhead(e) ==
  {p \in MachineState \X (0..MaxAttempts) :
     \/ p[1] \in Onward(state[e])
     \/ p[1] = state[e] /\ p[2] > attempts[e]}

StagesAhead(stage) ==
  CASE stage = "indexing" -> {"gziStored", "done"}
    [] stage = "gziStored" -> {"done"}
    [] OTHER -> {}

(* The stages of the LayerReader in each iteration of the Map, and in its  *)
(* retries: all of them, before the Map.                                   *)
ReadsAhead(e) ==
  {p \in Layer \X ((0..MaxAttempts) \X (ReaderStage \ {"idle"})) :
     \/ state[e] \in {"NotStarted", "GetImageLayers"}
     \/ p[2][1] > tries[e][p[1]]
     \/ p[2][1] = tries[e][p[1]] /\ p[2][2] \in StagesAhead(reader[e][p[1]])}

Dwindles(e) ==
  /\ TasksAhead(e)' \subseteq TasksAhead(e)
  /\ ReadsAhead(e)' \subseteq ReadsAhead(e)

StepsAreUsedUp ==
  \A e \in Request :
    /\ Dwindles(e)
    /\ ExecutionStep(e) =>
         TasksAhead(e)' # TasksAhead(e) \/ ReadsAhead(e)' # ReadsAhead(e)

(* The state machine has no way back.                                      *)
LEMMA NoWayBack ==
  ASSUME NEW s \in MachineState, NEW t \in Onward(s)
  PROVE  /\ t \in MachineState
         /\ t = "NotStarted" \/ t = "GetImageLayers" => s = "NotStarted"
         /\ Onward(t) \subseteq Onward(s) /\ t \notin Onward(t)
BY DEF Onward, MachineState, Running, Ended, Task

(* Whoever moves on has less before it.                                    *)
LEMMA MovingOn ==
  ASSUME TypeOK, TypeOK', NEW e \in Request, state'[e] \in Onward(state[e])
  PROVE  TasksAhead(e)' \subseteq TasksAhead(e) /\ TasksAhead(e)' # TasksAhead(e)
<1> DEFINE s == state[e]
           t == state'[e]
<1>1. /\ s \in MachineState /\ t \in MachineState
      /\ attempts[e] \in 0..MaxAttempts /\ attempts'[e] \in 0..MaxAttempts
  BY DEF TypeOK
<1>2. Onward(t) \subseteq Onward(s) /\ t \notin Onward(t)
  BY <1>1, NoWayBack
<1>3. TasksAhead(e)' \subseteq TasksAhead(e)
  BY <1>2 DEF TasksAhead
<1>4. <<t, 0>> \in TasksAhead(e)
  BY <1>1, MaxAttemptsAssumption DEF TasksAhead
<1>5. <<t, 0>> \notin TasksAhead(e)'
  BY <1>1, <1>2, MaxAttemptsAssumption DEF TasksAhead
<1> QED
  BY <1>3, <1>4, <1>5

(* What does not touch an execution leaves it what it has.                 *)
LEMMA StandingStill ==
  ASSUME NEW e \in Request, state'[e] = state[e]
  PROVE  /\ attempts'[e] = attempts[e] => TasksAhead(e)' = TasksAhead(e)
         /\ tries'[e] = tries[e] /\ reader'[e] = reader[e] => ReadsAhead(e)' = ReadsAhead(e)
BY DEF TasksAhead, ReadsAhead

LEMMA ReadsDwindle ==
  ASSUME TypeOK, NEW e \in Request,
         \/ state'[e] = state[e]
         \/ state'[e] \in Onward(state[e]),
         \/ state[e] \in {"NotStarted", "GetImageLayers"}
         \/ tries'[e] = tries[e] /\ reader'[e] = reader[e]
  PROVE  ReadsAhead(e)' \subseteq ReadsAhead(e)
<1>1. CASE state[e] \in {"NotStarted", "GetImageLayers"}
  BY <1>1 DEF ReadsAhead
<1>2. CASE state[e] \notin {"NotStarted", "GetImageLayers"}
  <2>1. state'[e] \notin {"NotStarted", "GetImageLayers"}
    BY <1>2, NoWayBack DEF TypeOK
  <2> QED
    BY <1>2, <2>1 DEF ReadsAhead
<1> QED
  BY <1>1, <1>2

(* Before the Map state there is no LayerReader.                           *)
NothingReadBefore ==
  \A e \in Request :
    state[e] \in {"NotStarted", "GetImageLayers"} => \A l \in Layer : reader[e][l] = "idle"

(* Who begins has not begun before.                                        *)
LEMMA BeginEffect ==
  ASSUME IInv, NEW r \in Request, HandlerStep(r) \/ HandlerFault(r)
  PROVE  /\ attempts' = attempts /\ tries' = tries /\ reader' = reader
         /\ \/ state' = state
            \/ /\ state[r] = "NotStarted"
               /\ state' = [state EXCEPT ![r] = "GetImageLayers"]
<1>1. pc[r] = "start" => state[r] = "NotStarted"
  BY DEF IInv, StartedOnce
<1> QED
  BY <1>1
  DEF HandlerStep, HandlerFault, HandleInfo, PutItem, PutItemUnanswered, StartExecution,
      StartExecutionUnanswered, Begin, MarkRunning, MarkRunningUnanswered, Panic, execVars

(* An execution's steps change what is its own.                            *)
LEMMA OwnSteps ==
  ASSUME TypeOK, NEW f \in Request, ExecutionStep(f) \/ LateEffect(f),
         NEW e \in Request, e # f
  PROVE  /\ state'[e] = state[e] /\ attempts'[e] = attempts[e]
         /\ tries'[e] = tries[e] /\ reader'[e] = reader[e]
BY DEF TypeOK, ExecutionStep, GetImageLayers, JoinLayers, CatchMap, ConcatenateIndexes,
       ReportSuccess, ReportFailure, RetryTask, CatchTask, StoreGzi, StoreFiles, RetryLayer,
       Advance, LateEffect

(* An execution moves on, or tries again, or its LayerReaders do.          *)
LEMMA OwnMoves ==
  ASSUME TypeOK, NEW e \in Request, ExecutionStep(e)
  PROVE  \/ /\ state'[e] \in Onward(state[e])
            /\ \/ state[e] = "GetImageLayers"
               \/ tries'[e] = tries[e] /\ reader'[e] = reader[e]
         \/ RetryTask(e)
         \/ \E l \in Layer : StoreGzi(e, l) \/ StoreFiles(e, l) \/ RetryLayer(e, l)
<1> USE DEF TypeOK
<1>1. CASE GetImageLayers(e) \/ JoinLayers(e) \/ CatchMap(e)
  BY <1>1 DEF GetImageLayers, JoinLayers, CatchMap, Advance, Onward, Running, Task, Ended
<1>2. CASE ConcatenateIndexes(e) \/ ReportSuccess(e) \/ ReportFailure(e)
  BY <1>2 DEF ConcatenateIndexes, ReportSuccess, ReportFailure, Advance, Onward, Ended
<1>3. CASE CatchTask(e)
  BY <1>3 DEF CatchTask, AfterError, Onward, Running, Task, Ended
<1> QED
  BY <1>1, <1>2, <1>3 DEF ExecutionStep

LEMMA NothingReadStep ==
  IInv /\ NothingReadBefore /\ TypeOK' /\ [Next]_vars => NothingReadBefore'
<1> SUFFICES ASSUME IInv, NothingReadBefore, TypeOK', [Next]_vars, NEW e \in Request,
                    state'[e] \in {"NotStarted", "GetImageLayers"}, NEW l \in Layer
             PROVE  reader'[e][l] = "idle"
  BY DEF NothingReadBefore
<1>0. TypeOK
  BY DEF IInv
<1>1. CASE \E r \in Request : HandlerStep(r) \/ HandlerFault(r)
  BY <1>0, <1>1, BeginEffect DEF NothingReadBefore, TypeOK
<1>2. CASE \E f \in Request : f # e /\ (ExecutionStep(f) \/ LateEffect(f))
  BY <1>0, <1>2, OwnSteps DEF NothingReadBefore
<1>3. CASE ExecutionStep(e)
  <2>1. CASE state'[e] \in Onward(state[e])
    <3>1. state[e] = "NotStarted"
      BY <1>0, <2>1, NoWayBack DEF TypeOK
    <3>2. \A k \in Layer : reader[e][k] = "idle"
      BY <3>1 DEF NothingReadBefore
    <3>3. ~ RetryTask(e)
      BY <3>1 DEF RetryTask, Task
    <3>4. ~ \E k \in Layer : StoreGzi(e, k) \/ StoreFiles(e, k) \/ RetryLayer(e, k)
      BY <3>1, <3>2 DEF StoreGzi, StoreFiles, RetryLayer
    <3>5. reader'[e] = reader[e]
      BY <1>0, <1>3, <3>1, <3>3, <3>4, OwnMoves
    <3> QED
      BY <3>2, <3>5
  <2>2. CASE state'[e] \notin Onward(state[e])
    <3>1. RetryTask(e) \/ \E k \in Layer : StoreGzi(e, k) \/ StoreFiles(e, k) \/ RetryLayer(e, k)
      BY <1>0, <1>3, <2>2, OwnMoves
    <3>2. state[e] \in {"NotStarted", "GetImageLayers"}
      BY <3>1 DEF RetryTask, StoreGzi, StoreFiles, RetryLayer
    <3>3. \A k \in Layer : reader[e][k] = "idle"
      BY <3>2 DEF NothingReadBefore
    <3> QED
      BY <3>1, <3>2, <3>3 DEF RetryTask, StoreGzi, StoreFiles, RetryLayer
  <2> QED
    BY <2>1, <2>2
<1>4. CASE LateEffect(e)
  BY <1>4 DEF LateEffect, NothingReadBefore
<1>5. CASE Expire
  BY <1>5 DEF Expire
<1>6. CASE UNCHANGED vars
  BY <1>6 DEF vars, NothingReadBefore
<1> QED
  BY <1>1, <1>2, <1>3, <1>4, <1>5, <1>6 DEF Next

LEMMA RetryTaskUsesUp ==
  ASSUME TypeOK, NEW e \in Request, RetryTask(e)
  PROVE  /\ TasksAhead(e)' \subseteq TasksAhead(e) /\ TasksAhead(e)' # TasksAhead(e)
         /\ ReadsAhead(e)' = ReadsAhead(e)
<1> DEFINE n == attempts[e] + 1
<1>1. /\ state' = state /\ tries' = tries /\ reader' = reader
      /\ attempts'[e] = n /\ n \in 0..MaxAttempts /\ attempts[e] \in Nat
      /\ state[e] \in MachineState
  BY MaxAttemptsAssumption DEF RetryTask, TypeOK
<1>2. \A k \in 0..MaxAttempts : k > n => k > attempts[e]
  BY <1>1, MaxAttemptsAssumption
<1>3. TasksAhead(e)' \subseteq TasksAhead(e)
  BY <1>1, <1>2 DEF TasksAhead
<1>4. <<state[e], n>> \in TasksAhead(e)
  BY <1>1 DEF TasksAhead
<1>5. state[e] \notin Onward(state[e])
  BY <1>1 DEF Onward, MachineState, Running, Ended, Task
<1>6. <<state[e], n>> \notin TasksAhead(e)'
  BY <1>1, <1>5 DEF TasksAhead
<1>7. ReadsAhead(e)' = ReadsAhead(e)
  BY <1>1, StandingStill
<1> QED
  BY <1>3, <1>4, <1>6, <1>7

LEMMA ReaderUsesUp ==
  ASSUME TypeOK, NothingReadBefore, NEW e \in Request, NEW l \in Layer,
         StoreGzi(e, l) \/ StoreFiles(e, l) \/ RetryLayer(e, l)
  PROVE  /\ TasksAhead(e)' = TasksAhead(e)
         /\ ReadsAhead(e)' \subseteq ReadsAhead(e) /\ ReadsAhead(e)' # ReadsAhead(e)
<1>1. state' = state /\ attempts' = attempts
  BY DEF StoreGzi, StoreFiles, RetryLayer
<1>2. TasksAhead(e)' = TasksAhead(e)
  BY <1>1, StandingStill
<1>3. state[e] \notin {"NotStarted", "GetImageLayers"}
  BY DEF StoreGzi, StoreFiles, RetryLayer, NothingReadBefore
<1>4. /\ tries[e] \in [Layer -> 0..MaxAttempts] /\ reader[e] \in [Layer -> ReaderStage]
      /\ tries[e][l] \in Nat
  BY MaxAttemptsAssumption DEF TypeOK
<1>5. \A k \in Layer : k # l => tries'[e][k] = tries[e][k] /\ reader'[e][k] = reader[e][k]
  BY DEF StoreGzi, StoreFiles, RetryLayer, TypeOK
<1> DEFINE k == tries'[e][l]
           stage == reader'[e][l]
<1>6. /\ \/ k = tries[e][l] /\ stage \in StagesAhead(reader[e][l])
            /\ StagesAhead(stage) \subseteq StagesAhead(reader[e][l])
         \/ k = tries[e][l] + 1
      /\ k \in 0..MaxAttempts /\ stage \in ReaderStage \ {"idle"} /\ stage \notin StagesAhead(stage)
  <2>1. CASE StoreGzi(e, l)
    BY <1>4, <2>1 DEF StoreGzi, StagesAhead, ReaderStage, TypeOK
  <2>2. CASE StoreFiles(e, l)
    BY <1>4, <2>2 DEF StoreFiles, StagesAhead, ReaderStage, TypeOK
  <2>3. CASE RetryLayer(e, l)
    <3>1. k = tries[e][l] + 1 /\ stage = "indexing" /\ tries[e][l] < MaxAttempts
      BY <2>3 DEF RetryLayer, TypeOK
    <3>2. k \in 0..MaxAttempts
      BY <1>4, <3>1, MaxAttemptsAssumption
    <3> QED
      BY <3>1, <3>2 DEF StagesAhead, ReaderStage
  <2> QED
    BY <2>1, <2>2, <2>3
<1>7. <<l, <<k, stage>>>> \in ReadsAhead(e)
  <2>1. k > tries[e][l] \/ (k = tries[e][l] /\ stage \in StagesAhead(reader[e][l]))
    BY <1>4, <1>6
  <2> QED
    BY <1>6, <2>1 DEF ReadsAhead
<1>8. <<l, <<k, stage>>>> \notin ReadsAhead(e)'
  BY <1>1, <1>3, <1>6, MaxAttemptsAssumption DEF ReadsAhead
<1>9. ASSUME NEW p \in ReadsAhead(e)' PROVE p \in ReadsAhead(e)
  <2>1. /\ p \in Layer \X ((0..MaxAttempts) \X (ReaderStage \ {"idle"}))
        /\ \/ p[2][1] > tries'[e][p[1]]
           \/ p[2][1] = tries'[e][p[1]] /\ p[2][2] \in StagesAhead(reader'[e][p[1]])
    BY <1>1, <1>3, <1>9 DEF ReadsAhead
  <2>2. p[2][1] \in Nat
    BY <2>1, MaxAttemptsAssumption
  <2>3. \/ p[2][1] > tries[e][p[1]]
        \/ p[2][1] = tries[e][p[1]] /\ p[2][2] \in StagesAhead(reader[e][p[1]])
    <3>1. CASE p[1] # l
      BY <1>5, <2>1, <3>1
    <3>2. CASE p[1] = l
      BY <1>4, <1>6, <2>1, <2>2, <3>2
    <3> QED
      BY <3>1, <3>2
  <2> QED
    BY <2>1, <2>3 DEF ReadsAhead
<1> QED
  BY <1>2, <1>7, <1>8, <1>9

LEMMA DwindleStep ==
  IInv /\ NothingReadBefore /\ TypeOK' /\ [Next]_vars => StepsAreUsedUp
<1> SUFFICES ASSUME IInv, NothingReadBefore, TypeOK', [Next]_vars, NEW e \in Request
             PROVE  /\ Dwindles(e)
                    /\ ExecutionStep(e) =>
                         TasksAhead(e)' # TasksAhead(e) \/ ReadsAhead(e)' # ReadsAhead(e)
  BY DEF StepsAreUsedUp
<1>0. TypeOK
  BY DEF IInv
<1>1. ASSUME ExecutionStep(e)
      PROVE  /\ Dwindles(e)
             /\ TasksAhead(e)' # TasksAhead(e) \/ ReadsAhead(e)' # ReadsAhead(e)
  <2>1. CASE /\ state'[e] \in Onward(state[e])
             /\ \/ state[e] = "GetImageLayers"
                \/ tries'[e] = tries[e] /\ reader'[e] = reader[e]
    BY <1>0, <2>1, MovingOn, ReadsDwindle DEF Dwindles
  <2>2. CASE RetryTask(e)
    BY <1>0, <2>2, RetryTaskUsesUp DEF Dwindles
  <2>3. CASE \E l \in Layer : StoreGzi(e, l) \/ StoreFiles(e, l) \/ RetryLayer(e, l)
    BY <1>0, <2>3, ReaderUsesUp DEF Dwindles
  <2> QED
    BY <1>0, <1>1, <2>1, <2>2, <2>3, OwnMoves
<1>2. ASSUME ~ExecutionStep(e) PROVE Dwindles(e)
  <2>1. ASSUME NEW r \in Request, HandlerStep(r) \/ HandlerFault(r) PROVE Dwindles(e)
    <3>1. CASE state'[e] = state[e]
      BY <2>1, <3>1, BeginEffect, StandingStill DEF Dwindles
    <3>2. CASE state'[e] # state[e]
      <4>1. state[e] = "NotStarted" /\ state'[e] = "GetImageLayers"
        BY <1>0, <2>1, <3>2, BeginEffect DEF TypeOK
      <4>2. state'[e] \in Onward(state[e])
        BY <4>1 DEF Onward, Running, Task
      <4> QED
        BY <1>0, <4>1, <4>2, MovingOn, ReadsDwindle DEF Dwindles
    <3> QED
      BY <3>1, <3>2
  <2>2. ASSUME NEW f \in Request, f # e, ExecutionStep(f) \/ LateEffect(f) PROVE Dwindles(e)
    BY <1>0, <2>2, OwnSteps, StandingStill DEF Dwindles
  <2>3. CASE LateEffect(e)
    BY <2>3, StandingStill DEF LateEffect, Dwindles
  <2>4. CASE Expire
    <3>1. /\ state' = state /\ attempts' = attempts /\ tries' = tries
          /\ \A l \in Layer : reader'[e][l] = "idle"
      BY <2>4 DEF Expire
    <3>2. TasksAhead(e)' = TasksAhead(e)
      BY <3>1, StandingStill
    <3>3. \A l \in Layer : StagesAhead(reader'[e][l]) = {}
      BY <3>1 DEF StagesAhead
    <3> QED
      BY <3>1, <3>2, <3>3 DEF ReadsAhead, Dwindles
  <2>5. CASE UNCHANGED vars
    BY <2>5, StandingStill DEF vars, Dwindles
  <2> QED
    BY <1>2, <2>1, <2>2, <2>3, <2>4, <2>5 DEF Next
<1> QED
  BY <1>1, <1>2

(* No execution goes on for ever, whatever fails and is retried: nothing   *)
(* in the system adds to what an execution has before it, no second start  *)
(* and no retry, and each step of it takes something away. There is not    *)
(* more than finitely much (NotForEver), so that EveryExecutionEnds only   *)
(* depends on Step Functions to go on (machine.asl.yml).                   *)
THEOREM ExecutionsRunOut == Spec => [][StepsAreUsedUp]_vars
<1>1. Init => NothingReadBefore
  BY DEF Init, NothingReadBefore
<1>2. IInv /\ IInv' /\ [Next]_vars => TypeOK'
  BY DEF IInv
<1>3. Spec => []NothingReadBefore
  BY <1>1, <1>2, NothingReadStep, Inductive, PTL DEF Spec
<1> QED
  BY <1>2, <1>3, DwindleStep, Inductive, PTL DEF Spec

LEMMA FourAreFinite ==
  ASSUME NEW a, NEW b, NEW c, NEW d
  PROVE  IsFiniteSet({a, b, c, d}) /\ IsFiniteSet({a})
<1>1. \A S, x : IsFiniteSet(S) => IsFiniteSet(S \union {x})
  BY FS_AddElement
<1>2. IsFiniteSet({a})
  BY FS_Singleton
<1>3. IsFiniteSet((({a} \union {b}) \union {c}) \union {d})
  BY <1>1, <1>2
<1>4. (({a} \union {b}) \union {c}) \union {d} = {a, b, c, d}
  OBVIOUS
<1> QED
  BY <1>2, <1>3, <1>4

(* An image has finitely many layers, and an execution as many steps.      *)
THEOREM NotForEver ==
  ASSUME IsFiniteSet(Layer), NEW e \in Request
  PROVE  IsFiniteSet(TasksAhead(e)) /\ IsFiniteSet(ReadsAhead(e))
<1>1. IsFiniteSet(0..MaxAttempts)
  BY FS_Interval, MaxAttemptsAssumption
<1>2. IsFiniteSet(MachineState) /\ IsFiniteSet(ReaderStage \ {"idle"})
  <2>1. IsFiniteSet(Task) /\ IsFiniteSet(Ended) /\ IsFiniteSet(ReaderStage)
    BY FourAreFinite DEF Task, Ended, ReaderStage
  <2>2. IsFiniteSet(Running)
    BY <2>1, FourAreFinite, FS_Union DEF Running
  <2>3. IsFiniteSet(MachineState)
    <3>1. IsFiniteSet({"NotStarted"} \union Running)
      BY <2>2, FourAreFinite, FS_Union
    <3> QED
      BY <2>1, <3>1, FS_Union DEF MachineState
  <2> QED
    BY <2>1, <2>3, FS_Subset
<1>3. IsFiniteSet(MachineState \X (0..MaxAttempts))
  BY <1>1, <1>2, FS_Product
<1>4. IsFiniteSet((0..MaxAttempts) \X (ReaderStage \ {"idle"}))
  BY <1>1, <1>2, FS_Product
<1>5. IsFiniteSet(Layer \X ((0..MaxAttempts) \X (ReaderStage \ {"idle"})))
  BY <1>4, FS_Product
<1>6. TasksAhead(e) \subseteq MachineState \X (0..MaxAttempts)
  BY DEF TasksAhead
<1>7. ReadsAhead(e) \subseteq Layer \X ((0..MaxAttempts) \X (ReaderStage \ {"idle"}))
  BY DEF ReadsAhead
<1> QED
  BY <1>3, <1>5, <1>6, <1>7, FS_Subset
=============================================================================
