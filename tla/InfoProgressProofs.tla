------------------------- MODULE InfoProgressProofs -------------------------
(***************************************************************************)
(* Proofs about InfoProgress, for any number of clients, invocations,      *)
(* environments and layers, and a manifest of any length. LayerReader's    *)
(* invariant holds in this composition too, where the TTL also removes     *)
(* items.                                                                  *)
(***************************************************************************)
EXTENDS InfoProgress, LayerReaderProofs, FiniteSetTheorems

-----------------------------------------------------------------------------
(* A goroutine that may still report, or a report on its way.              *)
MayReport(i) ==
  request[i] # NoUpdate \/ (counter[i] \in Waiting /\ ~cancelled[i])

(* Whoever may report has an item that the TTL does not remove.            *)
ReportersHaveItems ==
  /\ partial = {}
  /\ \A i \in Invocation :
       MayReport(i) => completed[layer[i]] # NoItem /\ layer[i] \notin expired

ReadToEnd(l) == \E i \in Invocation : layer[i] = l /\ count[i] = Size

(* The sum of what a Query has found so far.                               *)
SumFits(c) ==
  LET seen == Layers \ unread[c] IN
  /\ unread[c] \subseteq Layers
  /\ query[c].completed <= Size * Cardinality(seen)
  /\ query[c].completed = Size * Cardinality(seen) => \A l \in seen : ReadToEnd(l)

SumsFit ==
  \A c \in Client : IF query[c] = Idle THEN unread[c] = {} ELSE SumFits(c)

InfoInv ==
  /\ IInv
  /\ InfoTypeOK
  /\ ReportersHaveItems
  /\ SumsFit
  /\ ReportFitsTotal
  /\ FullBarMeansRead

-----------------------------------------------------------------------------
(* The total is the sum of the sizes of all positions.                     *)
LEMMA TotalFacts == Total \in Nat \ {0} /\ Size \in Nat \ {0} /\ Positions \in Nat \ {0}
BY SizeAssumption, PositionsAssumption DEF Total

(* There are no more layers than positions.                                *)
LEMMA LayersFacts ==
  ASSUME InfoTypeOK
  PROVE  IsFiniteSet(Layers) /\ Cardinality(Layers) <= Positions
         /\ Cardinality(Layers) \in Nat /\ Layers \subseteq Layer
<1>1. manifest \in [1..Positions -> Layer]
  BY DEF InfoTypeOK
<1>2. Layers \subseteq Layer
  BY <1>1 DEF Layers
<1>3. manifest \in Surjection(1..Positions, Layers)
  BY <1>1 DEF Surjection, Layers
<1>4. IsFiniteSet(1..Positions) /\ Cardinality(1..Positions) = Positions
  BY TotalFacts, FS_Interval
<1>5. IsFiniteSet(Layers) /\ Cardinality(Layers) <= Positions
  BY <1>3, <1>4, FS_Surjection
<1> QED
  BY <1>2, <1>5, FS_CardinalityType

(* Sizes of layers add up.                                                 *)
LEMMA Sums ==
  ASSUME NEW n \in Nat
  PROVE  /\ Size * n \in Nat
         /\ Size * (n + 1) = Size * n + Size
         /\ n <= Positions => Size * n <= Total
BY TotalFacts DEF Total

(* A step of the composition is one of LayerReader, or leaves all but the  *)
(* items alone, of which it may remove one.                                *)
LEMMA ReaderStep ==
  ASSUME InfoTypeOK, [InfoNext]_infoVars
  PROVE  \/ [Next]_vars
         \/ \E l \in Layer : ExpireProgress(l)
<1>1. ASSUME Execution PROVE [Next]_vars
  BY <1>1 DEF Execution, LayerLister, InvokeReader, PutFreshProgress, UpdateProgress, FailReader,
     RunReader, Next, Handler
<1>2. ASSUME TimePasses \/ ExpireImage PROVE [Next]_vars
  BY <1>2 DEF TimePasses, ExpireImage
<1>3. ASSUME NEW c \in Client, HandleInfo(c) PROVE [Next]_vars
  BY <1>3 DEF HandleInfo, QueryImage, QueryProgress, Answer, StartExecution
<1> QED
  BY <1>1, <1>2, <1>3 DEF InfoNext, TTL, infoVars

(* LayerReader's invariant does not depend on the items being kept.        *)
LEMMA IInvInfoStep ==
  ASSUME IInv, InfoTypeOK, [InfoNext]_infoVars
  PROVE  IInv'
<1>1. CASE [Next]_vars
  BY <1>1, IInvStep
<1>2. CASE \E l \in Layer : ExpireProgress(l)
  <2>1. PICK l \in Layer : ExpireProgress(l)
    BY <1>2
  <2>2. /\ completed' = [completed EXCEPT ![l] = NoItem]
        /\ UNCHANGED <<step, layer, env, count, cancelled, counter, request, gzi, files>>
    BY <2>1 DEF ExpireProgress, handlerVars, bucketVars
  <2>3. TypeOK /\ NoItem \in 0..Size \union {NoItem}
    BY DEF IInv
  <2>4. TypeOK'
    BY <2>2, <2>3 DEF TypeOK
  <2>5. UploadsAreOrdered' /\ CancelIsCalled' /\ CountsAreOwn'
    BY <2>2 DEF IInv, UploadsAreOrdered, CancelIsCalled, CountsAreOwn
  <2>6. ProgressIsReal'
    BY <2>2, <2>3 DEF IInv, ProgressIsReal, TypeOK, NoItem
  <2>7. UpdatesAreNew'
    <3> SUFFICES ASSUME NEW i \in Invocation, request[i] # NoUpdate
                 PROVE  completed'[layer[i]] <= request[i] \/ Shared(i)
      BY <2>2 DEF UpdatesAreNew, Shared
    <3>1. request[i] \in 0..Size /\ layer[i] \in Layer
      BY <2>3 DEF TypeOK
    <3>2. completed'[layer[i]] = IF layer[i] = l THEN NoItem ELSE completed[layer[i]]
      BY <2>2, <2>3, <3>1 DEF TypeOK
    <3> QED
      BY <3>1, <3>2, SizeAssumption DEF IInv, UpdatesAreNew, NoItem
  <2> QED
    BY <2>4, <2>5, <2>6, <2>7 DEF IInv
<1> QED
  BY <1>1, <1>2, ReaderStep

(* The invariant holds before the first request.                           *)
LEMMA InfoInvInit == InfoInit => InfoInv
<1> SUFFICES ASSUME InfoInit PROVE InfoInv
  OBVIOUS
<1>1. IInv
  BY IInvInit DEF InfoInit
<1>2. InfoTypeOK
  <2>1. TypeOK
    BY <1>1 DEF IInv
  <2> QED
    BY <2>1, TotalFacts DEF InfoInit, InfoTypeOK, Idle, NoReply
<1>3. ReportersHaveItems
  BY DEF InfoInit, Init, ReportersHaveItems, MayReport, Waiting
<1>4. SumsFit
  BY DEF InfoInit, SumsFit
<1>5. \A c \in Client : reply[c].completed = -1 /\ reply[c].total = -1
  BY DEF InfoInit, NoReply
<1>6. ReportFitsTotal /\ FullBarMeansRead
  BY <1>5 DEF ReportFitsTotal, FullBarMeansRead
<1> QED
  BY <1>1, <1>2, <1>3, <1>4, <1>6 DEF InfoInv

(* What requests leave alone.                                              *)
LEMMA ClientsLeaveOthers ==
  ASSUME NEW c \in Client, HandleInfo(c)
  PROVE  UNCHANGED <<manifest, vars, partial, expired>>
BY DEF HandleInfo, QueryImage, QueryProgress, Answer, StartExecution

(* What the execution and the TTL leave alone.                             *)
LEMMA OthersLeaveClients ==
  ASSUME [InfoNext]_infoVars
  PROVE  /\ manifest' = manifest
         /\ \/ /\ UNCHANGED <<query, unread>>
               /\ reply' = reply \/ reply' = [c \in Client |-> NoReply]
            \/ \E c \in Client : HandleInfo(c)
<1>1. ASSUME Execution PROVE UNCHANGED <<manifest, query, unread, reply>>
  BY <1>1 DEF Execution, LayerLister, InvokeReader, PutFreshProgress, UpdateProgress, FailReader,
     RunReader, clientVars
<1>2. ASSUME TTL PROVE UNCHANGED <<manifest, query, unread>>
                       /\ (reply' = reply \/ reply' = [c \in Client |-> NoReply])
  BY <1>2 DEF TTL, TimePasses, ExpireImage, ExpireProgress, clientVars
<1> QED
  BY <1>1, <1>2, ClientsLeaveOthers DEF InfoNext, infoVars, clientVars

(* What a Query has read of an item.                                       *)
ReadOf(l) == IF completed[l] = NoItem THEN 0 ELSE completed[l]

LEMMA QueryTypes ==
  ASSUME InfoTypeOK, NEW c \in Client, query[c] # Idle
  PROVE  /\ query[c] \in [found : BOOLEAN, total : {0, Total}, completed : Nat]
         /\ unread[c] \subseteq Layer
BY DEF InfoTypeOK

LEMMA ReadTypes ==
  ASSUME IInv, NEW l \in Layer
  PROVE  /\ ReadOf(l) \in 0..Size
         /\ ReadOf(l) = Size => ReadToEnd(l)
<1>1. completed[l] \in 0..Size \union {NoItem} /\ count \in [Invocation -> 0..Size]
  BY DEF IInv, TypeOK
<1>2. ASSUME ReadOf(l) = Size PROVE ReadToEnd(l)
  <2>1. completed[l] = Size /\ Size > 0
    BY <1>2, TotalFacts DEF ReadOf
  <2>2. PICK i \in Invocation : layer[i] = l /\ count[i] >= Size
    BY <2>1 DEF IInv, ProgressIsReal
  <2> QED
    BY <1>1, <2>2, TotalFacts DEF ReadToEnd
<1> QED
  BY <1>1, <1>2, TotalFacts DEF ReadOf

(* Every step keeps the types.                                             *)
LEMMA InfoTypeStep ==
  ASSUME IInv, IInv', InfoTypeOK, SumsFit, partial = {}, [InfoNext]_infoVars
  PROVE  InfoTypeOK'
<1>1. TypeOK' /\ manifest' = manifest /\ Total' = Total
  BY OthersLeaveClients DEF IInv, Total
<1>2. image' \in {"none", "pending", "described"}
  BY DEF InfoTypeOK, InfoNext, Execution, LayerLister, InvokeReader, PutFreshProgress,
     UpdateProgress, FailReader, RunReader, TTL, TimePasses, ExpireImage, ExpireProgress,
     HandleInfo, QueryImage, QueryProgress, Answer, StartExecution, infoVars
<1>3. partial' \subseteq Layer /\ expired' \subseteq Layer \union {Image}
  <2>1. layer \in [Invocation -> Layer]
    BY DEF IInv, TypeOK
  <2> QED
    BY <2>1 DEF InfoTypeOK, InfoNext, Execution, LayerLister, InvokeReader, PutFreshProgress,
     UpdateProgress, FailReader, RunReader, TTL, TimePasses, ExpireImage, ExpireProgress,
     HandleInfo, QueryImage, QueryProgress, Answer, StartExecution, infoVars
<1> DEFINE Q == [found : BOOLEAN, total : {0, Total}, completed : Nat]
           R == [total : {0, Total}, completed : Nat]
           Types == /\ query' \in [Client -> Q \union {Idle}]
                    /\ unread' \in [Client -> SUBSET Layer]
                    /\ reply' \in [Client -> R \union {NoReply}]
<1>4. Types
  <2>1. CASE UNCHANGED <<query, unread>> /\ (reply' = reply \/ reply' = [c \in Client |-> NoReply])
    BY <2>1 DEF InfoTypeOK
  <2>2. ASSUME NEW c \in Client, QueryImage(c) PROVE Types
    <3>1. Layers \subseteq Layer
      BY LayersFacts
    <3> QED
      BY <2>2, <3>1 DEF QueryImage, InfoTypeOK
  <2>3. ASSUME NEW c \in Client, NEW l \in Layer, QueryProgress(c, l) PROVE Types
    <3>1. /\ query' = [query EXCEPT ![c].completed = @ + ReadOf(l)]
          /\ unread' = [unread EXCEPT ![c] = @ \ {l}]
          /\ reply' = reply
          /\ query[c] # Idle
      BY <2>3 DEF QueryProgress, ReadOf, SumsFit
    <3>2. ReadOf(l) \in Nat
      BY ReadTypes, TotalFacts
    <3>3. query[c] \in Q
      BY <3>1, QueryTypes
    <3>4. [query[c] EXCEPT !.completed = @ + ReadOf(l)] \in Q
      BY <3>2, <3>3
    <3> QED
      BY <3>1, <3>4 DEF InfoTypeOK
  <2>4. ASSUME NEW c \in Client, Answer(c) PROVE Types
    <3>1. query[c].found
      BY <2>4 DEF Answer
    <3>2. query[c] # Idle
      BY <3>1 DEF Idle
    <3>3. [total |-> query[c].total, completed |-> query[c].completed] \in R
      BY <3>2, QueryTypes
    <3> QED
      BY <2>4, <3>3 DEF Answer, InfoTypeOK
  <2>5. ASSUME NEW c \in Client, StartExecution(c) PROVE Types
    BY <2>5 DEF StartExecution, InfoTypeOK
  <2> QED
    BY <2>1, <2>2, <2>3, <2>4, <2>5, OthersLeaveClients DEF HandleInfo
<1> QED
  BY <1>1, <1>2, <1>3, <1>4 DEF InfoTypeOK

(* Whoever may report had its item written, or has it written now; the TTL *)
(* passes while nobody may.                                                *)
LEMMA ReportersStep ==
  ASSUME IInv, InfoTypeOK, ReportersHaveItems, [InfoNext]_infoVars
  PROVE  ReportersHaveItems'
<1>0. /\ layer \in [Invocation -> Layer] /\ completed \in [Layer -> 0..Size \union {NoItem}]
      /\ request \in [Invocation -> 0..Size \union {NoUpdate}]
      /\ counter \in [Invocation -> CounterState] /\ cancelled \in [Invocation -> BOOLEAN]
      /\ count \in [Invocation -> 0..Size] /\ step \in [Invocation -> HandlerStep]
  BY DEF IInv, TypeOK
<1>1. ASSUME NEW i \in Invocation, PutFreshProgress(i) PROVE ReportersHaveItems'
  <2>1. /\ completed' = [completed EXCEPT ![layer[i]] = 0]
        /\ partial' = {} /\ expired' = expired \ {layer[i]}
        /\ counter' = [counter EXCEPT ![i] = "select"]
        /\ UNCHANGED <<layer, cancelled, request>>
    BY <1>1 DEF PutFreshProgress, PutProgress, ReportersHaveItems
  <2> QED
    BY <1>0, <2>1 DEF ReportersHaveItems, MayReport, NoItem
<1>2. ASSUME NEW i \in Invocation, UpdateProgress(i) PROVE ReportersHaveItems'
  <2>1. /\ request[i] # NoUpdate
        /\ completed' = [completed EXCEPT ![layer[i]] = request[i]]
        /\ request' = [request EXCEPT ![i] = NoUpdate]
        /\ UNCHANGED <<layer, cancelled, counter, expired>>
        /\ partial' = partial \union {l \in {layer[i]} : completed[l] = NoItem}
    BY <1>2 DEF UpdateProgress, UpdateItem, handlerVars
  <2>2. completed[layer[i]] # NoItem /\ partial = {}
    BY <2>1 DEF ReportersHaveItems, MayReport
  <2>3. partial' = {}
    BY <2>1, <2>2
  <2> QED
    BY <1>0, <2>1, <2>3 DEF ReportersHaveItems, MayReport, NoItem, NoUpdate
<1>3. ASSUME NEW i \in Invocation, FailReader(i) PROVE ReportersHaveItems'
  <2>1. /\ cancelled' = [cancelled EXCEPT ![i] = TRUE]
        /\ UNCHANGED <<layer, counter, request>>
        /\ partial' = {} /\ expired' \subseteq expired
        /\ completed' = completed \/ completed' = [completed EXCEPT ![layer[i]] = 0]
    BY <1>3 DEF FailReader, ReturnError, ReportersHaveItems
  <2> QED
    BY <1>0, <2>1 DEF ReportersHaveItems, MayReport, NoItem
<1>4. ASSUME NEW i \in Invocation, InvokeReader(i) \/ RunReader(i) PROVE ReportersHaveItems'
  <2>1. UNCHANGED <<layer, completed, partial, expired>>
    BY <1>4 DEF InvokeReader, RunReader, Invoke, CountRead, BuildIndex, UploadGzi, UploadFiles,
       Respond, Counter, Tick, UpdateAnswered, UpdateFails, FinalUpdate, Timeout, Exit,
       handlerVars, bucketVars
  <2>2. ASSUME NEW j \in Invocation, MayReport(j)' PROVE MayReport(j)
    BY <1>0, <1>4, <2>2
    DEF MayReport, InvokeReader, RunReader, Invoke, CountRead, BuildIndex, UploadGzi, UploadFiles,
        Respond, Counter, Tick, UpdateAnswered, UpdateFails, FinalUpdate, Timeout, Exit,
        handlerVars, bucketVars, Waiting, NoUpdate
  <2> QED
    BY <2>1, <2>2 DEF ReportersHaveItems
<1>5. CASE TimePasses
  <2>1. Quiet /\ UNCHANGED <<vars, partial>>
    BY <1>5 DEF TimePasses
  <2>2. ASSUME NEW i \in Invocation PROVE ~MayReport(i)
    <3>1. step[i] \notin InHandler /\ request[i] = NoUpdate
      BY <2>1 DEF Quiet
    <3>2. CASE step[i] = "waiting"
      BY <3>1, <3>2 DEF MayReport, IInv, CountsAreOwn
    <3>3. CASE step[i] \in {"answered", "failed"}
      BY <3>1, <3>3 DEF MayReport, IInv, CancelIsCalled
    <3> QED
      BY <1>0, <3>1, <3>2, <3>3 DEF HandlerStep
  <2> QED
    BY <2>1, <2>2 DEF ReportersHaveItems, MayReport, vars
<1>6. CASE ExpireImage
  BY <1>6 DEF ExpireImage, ReportersHaveItems, MayReport, vars
<1>7. ASSUME NEW l \in Layer, ExpireProgress(l) PROVE ReportersHaveItems'
  <2>1. /\ l \in expired /\ partial' = partial \ {l} /\ expired' = expired \ {l}
        /\ completed' = [completed EXCEPT ![l] = NoItem]
        /\ UNCHANGED <<layer, counter, request, cancelled>>
    BY <1>7 DEF ExpireProgress, handlerVars
  <2> QED
    BY <1>0, <2>1 DEF ReportersHaveItems, MayReport
<1>8. ASSUME UNCHANGED <<vars, partial, expired>> PROVE ReportersHaveItems'
  BY <1>8 DEF ReportersHaveItems, MayReport, vars
<1>9. ASSUME Execution PROVE ReportersHaveItems'
  BY <1>1, <1>2, <1>3, <1>4, <1>8, <1>9 DEF Execution, LayerLister
<1>10. ASSUME TTL PROVE ReportersHaveItems'
  BY <1>5, <1>6, <1>7, <1>10 DEF TTL
<1> QED
  <2>1. CASE \E c \in Client : HandleInfo(c)
    BY <1>8, <2>1, ClientsLeaveOthers
  <2>2. CASE UNCHANGED infoVars
    BY <1>8, <2>2 DEF infoVars
  <2> QED
    BY <1>9, <1>10, <2>1, <2>2 DEF InfoNext

-----------------------------------------------------------------------------
(* What has been read to its end stays so.                                 *)
LEMMA ReadStaysRead ==
  ASSUME IInv, InfoTypeOK, [InfoNext]_infoVars, NEW l, ReadToEnd(l)
  PROVE  ReadToEnd(l)'
<1>1. PICK i \in Invocation : layer[i] = l /\ count[i] = Size
  BY DEF ReadToEnd
<1>2. layer' = layer /\ count'[i] >= count[i]
  <2>1. TypeOK
    BY DEF IInv
  <2>2. CASE [Next]_vars
    BY <2>1, <2>2, CompletedStep
  <2>3. ASSUME NEW m \in Layer, ExpireProgress(m) PROVE <<layer, count>>' = <<layer, count>>
    BY <2>3 DEF ExpireProgress, handlerVars
  <2> QED
    BY <2>1, <2>2, <2>3, ReaderStep, TotalFacts DEF TypeOK
<1>3. count'[i] <= Size /\ count'[i] \in Int
  <2>1. TypeOK'
    BY IInvInfoStep DEF IInv
  <2> QED
    BY <2>1, TotalFacts DEF TypeOK
<1> QED
  BY <1>1, <1>2, <1>3, TotalFacts DEF ReadToEnd

(* A Query that adds an item of at most Size bytes adds a layer to those   *)
(* it has seen.                                                            *)
LEMMA SumsStep ==
  ASSUME IInv, InfoTypeOK, SumsFit, ReportersHaveItems, [InfoNext]_infoVars
  PROVE  SumsFit'
<1> SUFFICES ASSUME NEW c \in Client
             PROVE  IF query'[c] = Idle THEN unread'[c] = {} ELSE SumFits(c)'
  BY DEF SumsFit
<1>1. Layers' = Layers /\ IsFiniteSet(Layers) /\ Layers \subseteq Layer
  BY OthersLeaveClients, LayersFacts DEF Layers
<1>2. \A l : ReadToEnd(l) => ReadToEnd(l)'
  BY ReadStaysRead
<1>3. CASE query'[c] = query[c] /\ unread'[c] = unread[c]
  BY <1>1, <1>2, <1>3 DEF SumsFit, SumFits
<1>4. CASE QueryImage(c)
  <2>1. query'[c].completed = 0 /\ unread'[c] = Layers /\ query'[c] # Idle
    BY <1>4 DEF QueryImage, InfoTypeOK, Idle
  <2>2. Layers' \ unread'[c] = {}
    BY <1>1, <2>1
  <2>3. Cardinality(Layers' \ unread'[c]) = 0
    BY <2>2, FS_EmptySet
  <2> QED
    BY <1>1, <2>1, <2>2, <2>3, TotalFacts DEF SumFits
<1>5. ASSUME NEW l \in Layer, QueryProgress(c, l)
      PROVE  IF query'[c] = Idle THEN unread'[c] = {} ELSE SumFits(c)'
  <2>1. /\ l \in unread[c] /\ query[c] # Idle /\ SumFits(c)
        /\ query' = [query EXCEPT ![c].completed = @ + ReadOf(l)]
        /\ unread' = [unread EXCEPT ![c] = @ \ {l}]
    BY <1>5 DEF QueryProgress, ReadOf, SumsFit, ReportersHaveItems
  <2>2. /\ query[c] \in [found : BOOLEAN, total : {0, Total}, completed : Nat]
        /\ query'[c] = [query[c] EXCEPT !.completed = @ + ReadOf(l)]
        /\ unread'[c] = unread[c] \ {l}
    BY <2>1, QueryTypes DEF InfoTypeOK
  <2>3. query'[c].completed = query[c].completed + ReadOf(l) /\ query[c].completed \in Nat
    BY <2>2
  <2>4. ReadOf(l) \in 0..Size /\ (ReadOf(l) = Size => ReadToEnd(l))
    BY ReadTypes
  <2> DEFINE seen == Layers \ unread[c]
  <2>5. /\ unread[c] \subseteq Layers
        /\ query[c].completed <= Size * Cardinality(seen)
        /\ query[c].completed = Size * Cardinality(seen) => \A m \in seen : ReadToEnd(m)
    BY <2>1 DEF SumFits
  <2>6. Layers \ unread'[c] = seen \union {l} /\ l \notin seen /\ unread'[c] \subseteq Layers
    BY <2>1, <2>2, <2>5
  <2>7. IsFiniteSet(seen) /\ Cardinality(seen) \in Nat
    BY <1>1, FS_Subset, FS_CardinalityType
  <2>8. Cardinality(Layers \ unread'[c]) = Cardinality(seen) + 1
    BY <2>6, <2>7, FS_AddElement
  <2>9. Size * Cardinality(Layers \ unread'[c]) = Size * Cardinality(seen) + Size
    BY <2>7, <2>8, Sums
  <2>10. Size * Cardinality(seen) \in Nat
    BY <2>7, Sums
  <2>11. query'[c].completed <= Size * Cardinality(Layers \ unread'[c])
    BY <2>3, <2>4, <2>5, <2>9, <2>10, TotalFacts
  <2>12. ASSUME query'[c].completed = Size * Cardinality(Layers \ unread'[c]),
                NEW m \in Layers \ unread'[c]
         PROVE  ReadToEnd(m)'
    <3>1. query[c].completed = Size * Cardinality(seen) /\ ReadOf(l) = Size
      BY <2>3, <2>4, <2>5, <2>9, <2>10, <2>12, TotalFacts
    <3>2. ReadToEnd(m)
      BY <2>4, <2>5, <2>6, <3>1
    <3> QED
      BY <1>2, <3>2
  <2>13. query'[c] # Idle
    <3>1. query'[c].completed \in Nat
      BY <2>3, <2>4, TotalFacts
    <3> QED
      BY <3>1 DEF Idle
  <2> QED
    BY <1>1, <2>6, <2>11, <2>12, <2>13 DEF SumFits
<1>6. CASE Answer(c) \/ StartExecution(c)
  <2>1. query'[c] = Idle /\ unread'[c] = {}
    BY <1>6 DEF Answer, StartExecution, InfoTypeOK
  <2> QED
    BY <2>1
<1>7. ASSUME NEW d \in Client, d # c, HandleInfo(d)
      PROVE  query'[c] = query[c] /\ unread'[c] = unread[c]
  <2>1. query \in [Client -> [found : BOOLEAN, total : {0, Total}, completed : Nat] \union {Idle}]
        /\ unread \in [Client -> SUBSET Layer]
    BY DEF InfoTypeOK
  <2> QED
    BY <1>7, <2>1 DEF HandleInfo, QueryImage, QueryProgress, Answer, StartExecution
<1> QED
  BY <1>3, <1>4, <1>5, <1>6, <1>7, OthersLeaveClients DEF HandleInfo

(* An answer is the sum over all layers.                                   *)
LEMMA ReportsStep ==
  ASSUME IInv, InfoTypeOK, SumsFit, ReportFitsTotal, FullBarMeansRead, [InfoNext]_infoVars
  PROVE  ReportFitsTotal' /\ FullBarMeansRead'
<1> DEFINE Fits(r) == r.completed <= r.total \/ r.total = 0
           Full(r) == r.total > 0 /\ r.completed = r.total
<1>1. Layers' = Layers /\ \A l \in Layers : ReadToEnd(l) => ReadToEnd(l)'
  BY OthersLeaveClients, ReadStaysRead DEF Layers
<1>2. ASSUME NEW c \in Client
      PROVE  /\ Fits(reply'[c])
             /\ Full(reply'[c]) => \A l \in Layers : ReadToEnd(l)'
  <2>1. CASE reply'[c] = reply[c]
    <3>1. Fits(reply[c]) /\ (Full(reply[c]) => \A l \in Layers : ReadToEnd(l))
      BY DEF ReportFitsTotal, FullBarMeansRead, ReadToEnd
    <3> QED
      BY <1>1, <2>1, <3>1
  <2>2. CASE reply'[c] = NoReply
    BY <2>2 DEF NoReply
  <2>3. CASE Answer(c)
    <3>1. query[c].found
      BY <2>3 DEF Answer
    <3>2. query[c] # Idle
      BY <3>1 DEF Idle
    <3>3. /\ query[c].total \in {0, Total} /\ query[c].completed \in Nat
          /\ reply'[c] = [total |-> query[c].total, completed |-> query[c].completed]
          /\ unread[c] = {}
      BY <2>3, <3>2, QueryTypes DEF Answer, InfoTypeOK
    <3>4. /\ query[c].completed <= Size * Cardinality(Layers)
          /\ query[c].completed = Size * Cardinality(Layers) => \A l \in Layers : ReadToEnd(l)
      <4>1. Layers \ unread[c] = Layers
        BY <3>3
      <4> QED
        BY <3>2, <4>1 DEF SumsFit, SumFits
    <3>5. Size * Cardinality(Layers) \in Nat /\ Size * Cardinality(Layers) <= Total
      BY LayersFacts, Sums
    <3>6. Fits(reply'[c])
      BY <3>3, <3>4, <3>5, TotalFacts
    <3>7. Full(reply'[c]) => query[c].completed = Size * Cardinality(Layers)
      BY <3>3, <3>4, <3>5, TotalFacts
    <3> QED
      BY <1>1, <3>4, <3>6, <3>7
  <2>4. ASSUME NEW d \in Client, HandleInfo(d), ~Answer(c)
        PROVE  reply'[c] = reply[c] \/ reply'[c] = NoReply
    <3>1. reply \in [Client -> [total : {0, Total}, completed : Nat] \union {NoReply}]
      BY DEF InfoTypeOK
    <3> QED
      BY <2>4, <3>1 DEF HandleInfo, QueryImage, QueryProgress, Answer, StartExecution
  <2> QED
    BY <2>1, <2>2, <2>3, <2>4, OthersLeaveClients
<1> QED
  BY <1>1, <1>2 DEF ReportFitsTotal, FullBarMeansRead, ReadToEnd

-----------------------------------------------------------------------------
(* The inductive invariant holds.                                          *)
THEOREM InfoInductive == InfoSpec => []InfoInv
<1>1. InfoInv /\ [InfoNext]_infoVars => InfoInv'
  <2> SUFFICES ASSUME InfoInv, [InfoNext]_infoVars PROVE InfoInv'
    OBVIOUS
  <2>1. /\ IInv /\ InfoTypeOK /\ ReportersHaveItems /\ SumsFit
        /\ ReportFitsTotal /\ FullBarMeansRead /\ partial = {}
    BY DEF InfoInv, ReportersHaveItems
  <2>2. IInv'
    BY <2>1, IInvInfoStep
  <2>3. InfoTypeOK'
    BY <2>1, <2>2, InfoTypeStep
  <2>4. ReportersHaveItems' /\ SumsFit' /\ ReportFitsTotal' /\ FullBarMeansRead'
    BY <2>1, ReportersStep, SumsStep, ReportsStep
  <2> QED
    BY <2>2, <2>3, <2>4 DEF InfoInv
<1> QED
  BY <1>1, InfoInvInit, PTL DEF InfoSpec

(* Every variable keeps its type.                                          *)
THEOREM InfoTypeCorrect == InfoSpec => []InfoTypeOK
<1>1. InfoInv => InfoTypeOK
  BY DEF InfoInv
<1> QED
  BY <1>1, InfoInductive, PTL

(* handleInfo never meets a progress item that it cannot decode.           *)
THEOREM ProgressDecodable == InfoSpec => []NoPartialProgress
<1>1. InfoInv => NoPartialProgress
  BY DEF InfoInv, ReportersHaveItems, NoPartialProgress
<1> QED
  BY <1>1, InfoInductive, PTL

(* A client's bar never overshoots, for a manifest of any length.          *)
THEOREM NoOvershoot == InfoSpec => []ReportFitsTotal
<1>1. InfoInv => ReportFitsTotal
  BY DEF InfoInv
<1> QED
  BY <1>1, InfoInductive, PTL

(* A full bar means that all layers have been read.                        *)
THEOREM FullBarIsTrue == InfoSpec => []FullBarMeansRead
<1>1. InfoInv => FullBarMeansRead
  BY DEF InfoInv
<1> QED
  BY <1>1, InfoInductive, PTL

(* What the layer reader promises by itself it keeps among clients that    *)
(* start executions anew and a TTL that takes its items away: the order of *)
(* its objects, real progress, and no live goroutine of an invocation that *)
(* is over.                                                                *)
THEOREM ReadersKeepPromises ==
  InfoSpec => [](StoredInOrder /\ ProgressIsReal /\ LeftoverIsCancelled)
<1>1. InfoInv => StoredInOrder /\ ProgressIsReal /\ LeftoverIsCancelled
  BY DEF InfoInv, IInv, UploadsAreOrdered, StoredInOrder, CancelIsCalled, LeftoverIsCancelled
<1> QED
  BY <1>1, InfoInductive, PTL

-----------------------------------------------------------------------------
(* The bar of one client. While no layer is read a second time, and none   *)
(* that was begun has lost its item, an item only grows. The sum over the  *)
(* items that a Query has yet to come to is therefore never less than it   *)
(* was when the client was told its last sum.                              *)

Repeated ==
  \E i, j \in Invocation :
    i # j /\ layer[i] = layer[j] /\ step[i] # "waiting" /\ step[j] # "waiting"

Removed ==
  \E i \in Invocation : step[i] \notin {"waiting", "put"} /\ completed[layer[i]] = NoItem

Calm == ~Repeated /\ ~Removed

(* An item is written by an invocation that has gone on from there.        *)
ItemsAreWritten ==
  \A l \in Layer : completed[l] # NoItem =>
    \E i \in Invocation : layer[i] = l /\ step[i] \notin {"waiting", "put"}

(* The bytes of the layers S that the items say are complete.              *)
Items == [Layer -> 0..Size \union {NoItem}]
Bytes(items, S) == {p \in S \X (1..Size) : p[2] <= items[p[1]]}
Pile(items, S) == Cardinality(Bytes(items, S))

(* What a client was told, what its Query has found, and what there is.    *)
SumsGrow(c) ==
  /\ reply[c].completed <= Pile(completed, Layers)
  /\ query[c] # Idle =>
       /\ reply[c].completed <= query[c].completed + Pile(completed, unread[c])
       /\ query[c].completed <= Pile(completed, Layers \ unread[c])

BarInv ==
  /\ InfoInv
  /\ ItemsAreWritten
  /\ Calm => \A c \in Client : SumsGrow(c)

(* The sum is a number.                                                    *)
LEMMA PileType ==
  ASSUME NEW items, NEW S, IsFiniteSet(S)
  PROVE  IsFiniteSet(Bytes(items, S)) /\ Pile(items, S) \in Nat
<1>1. IsFiniteSet(1..Size)
  BY TotalFacts, FS_Interval
<1>2. IsFiniteSet(S \X (1..Size))
  BY <1>1, FS_Product
<1>3. Bytes(items, S) \subseteq S \X (1..Size)
  BY DEF Bytes
<1> QED
  BY <1>2, <1>3, FS_Subset, FS_CardinalityType DEF Pile

(* Nothing adds up to nothing.                                             *)
LEMMA PileOfNone == ASSUME NEW items PROVE Pile(items, {}) = 0
<1>1. Bytes(items, {}) = {}
  BY DEF Bytes
<1> QED
  BY <1>1, FS_EmptySet DEF Pile

(* One item more adds what is read of it.                                  *)
LEMMA PileAdds ==
  ASSUME NEW items \in Items, NEW S, IsFiniteSet(S), NEW l \in Layer, l \notin S,
         NEW n, n = IF items[l] = NoItem THEN 0 ELSE items[l]
  PROVE  Pile(items, S \union {l}) = Pile(items, S) + n
<1> DEFINE T == {l} \X (1..n)
           all == Bytes(items, S \union {l})
           old == Bytes(items, S)
<1>1. items[l] \in 0..Size \union {NoItem} /\ Size \in Nat
  BY TotalFacts DEF Items
<1>2. n \in 0..Size /\ \A k \in 1..Size : k <= items[l] <=> k \in 1..n
  BY <1>1 DEF NoItem
<1>3. all = old \union T
  <2>1. ASSUME NEW p \in all PROVE p \in old \union T
    <3>1. p \in (S \union {l}) \X (1..Size) /\ p[2] <= items[p[1]]
      BY DEF Bytes
    <3>2. CASE p[1] = l
      <4>1. p = <<l, p[2]>> /\ p[2] \in 1..n
        BY <1>2, <3>1, <3>2
      <4> QED
        BY <4>1
    <3>3. CASE p[1] # l
      BY <3>1, <3>3 DEF Bytes
    <3> QED
      BY <3>2, <3>3
  <2>2. ASSUME NEW p \in T PROVE p \in all
    <3>1. p[1] = l /\ p[2] \in 1..n /\ p = <<l, p[2]>>
      OBVIOUS
    <3>2. p[2] \in 1..Size /\ p[2] <= items[l]
      BY <1>1, <1>2, <3>1
    <3> QED
      BY <3>1, <3>2 DEF Bytes
  <2>3. old \subseteq all
    BY DEF Bytes
  <2> QED
    BY <2>1, <2>2, <2>3
<1>4. Cardinality(old \intersect T) = 0
  <2>1. old \intersect T = {}
    BY DEF Bytes
  <2> QED
    BY <2>1, FS_EmptySet
<1>5. IsFiniteSet(T) /\ Cardinality(T) = n
  <2>1. IsFiniteSet({l}) /\ Cardinality({l}) = 1
    BY FS_Singleton
  <2>2. IsFiniteSet(1..n) /\ Cardinality(1..n) = n
    BY <1>2, FS_Interval
  <2>3. IsFiniteSet(T) /\ Cardinality(T) = Cardinality({l}) * Cardinality(1..n)
    BY <2>1, <2>2, FS_Product
  <2> QED
    BY <1>2, <2>1, <2>2, <2>3
<1>6. IsFiniteSet(old) /\ Cardinality(old) \in Nat
  BY PileType DEF Pile
<1>7. Cardinality(old \union T) = Cardinality(old) + Cardinality(T) - Cardinality(old \intersect T)
  BY <1>5, <1>6, FS_Union
<1>8. Cardinality(old \union T) = Cardinality(old) + n
  BY <1>2, <1>4, <1>5, <1>6, <1>7
<1> QED
  BY <1>3, <1>8 DEF Pile

(* Growing items make a growing sum.                                       *)
LEMMA PileGrows ==
  ASSUME NEW S, IsFiniteSet(S), S \subseteq Layer, NEW items \in Items, NEW later \in Items,
         \A l \in S : later[l] >= items[l]
  PROVE  Pile(later, S) >= Pile(items, S)
<1>1. Bytes(items, S) \subseteq Bytes(later, S)
  <2> SUFFICES ASSUME NEW p \in Bytes(items, S) PROVE p[2] <= later[p[1]]
    BY DEF Bytes
  <2>1. p[1] \in S /\ p[1] \in Layer /\ p[2] \in 1..Size /\ p[2] <= items[p[1]]
    BY DEF Bytes
  <2>2. items[p[1]] \in Int /\ later[p[1]] \in Int /\ later[p[1]] >= items[p[1]]
    BY <2>1, TotalFacts DEF Items, NoItem
  <2> QED
    BY <2>1, <2>2, TotalFacts
<1>2. IsFiniteSet(Bytes(later, S)) /\ Pile(later, S) \in Nat /\ Pile(items, S) \in Nat
  BY PileType
<1> QED
  BY <1>1, <1>2, FS_Subset DEF Pile

-----------------------------------------------------------------------------
(* An invocation that has begun has begun for good.                        *)
LEMMA StepsStay ==
  ASSUME IInv, InfoTypeOK, [InfoNext]_infoVars
  PROVE  /\ layer' = layer
         /\ \A i \in Invocation :
              /\ step[i] # "waiting" => step'[i] # "waiting"
              /\ step[i] \notin {"waiting", "put"} => step'[i] \notin {"waiting", "put"}
<1>1. step \in [Invocation -> HandlerStep]
  BY DEF IInv, TypeOK
<1>2. CASE \E l \in Layer : ExpireProgress(l)
  BY <1>2 DEF ExpireProgress, handlerVars
<1>3. ASSUME NEW i \in Invocation,
             Invoke(i) \/ Handler(i) \/ Counter(i) \/ UpdateItem(i) \/ ReturnError(i) \/ Timeout(i)
      PROVE  /\ layer' = layer
             /\ \A j \in Invocation :
                  /\ step[j] # "waiting" => step'[j] # "waiting"
                  /\ step[j] \notin {"waiting", "put"} => step'[j] \notin {"waiting", "put"}
  <2>1. CASE Invoke(i)
    BY <1>1, <2>1 DEF Invoke
  <2>2. CASE Handler(i) \/ ReturnError(i)
    BY <1>1, <2>2 DEF Handler, PutProgress, CountRead, BuildIndex, UploadGzi, UploadFiles,
       Respond, ReturnError
  <2>3. CASE Counter(i) \/ UpdateItem(i) \/ Timeout(i)
    BY <1>1, <2>3 DEF Counter, Tick, UpdateItem, UpdateAnswered, UpdateFails, FinalUpdate,
       Timeout, Exit, handlerVars
  <2> QED
    BY <1>3, <2>1, <2>2, <2>3
<1>4. CASE UNCHANGED vars
  BY <1>4 DEF vars
<1> QED
  BY <1>2, <1>3, <1>4, ReaderStep DEF Next

(* What a step does to the items: it removes one, or writes one for an     *)
(* invocation that puts it, or that updates the item it has.               *)
ItemWritten(i) ==
  /\ step[i] = "put" /\ step'[i] \notin {"waiting", "put"}
  /\ completed' = [completed EXCEPT ![layer[i]] = 0]

ItemUpdated(i) ==
  /\ request[i] # NoUpdate
  /\ completed' = [completed EXCEPT ![layer[i]] = request[i]]

LEMMA ItemsStep ==
  ASSUME IInv, InfoTypeOK, [InfoNext]_infoVars
  PROVE  \/ completed' = completed
         \/ \E l \in Layer : completed' = [completed EXCEPT ![l] = NoItem]
         \/ \E i \in Invocation : ItemWritten(i) \/ ItemUpdated(i)
<1>1. step \in [Invocation -> HandlerStep]
  BY DEF IInv, TypeOK
<1>2. CASE \E l \in Layer : ExpireProgress(l)
  BY <1>2 DEF ExpireProgress
<1>3. ASSUME NEW i \in Invocation,
             Invoke(i) \/ Handler(i) \/ Counter(i) \/ UpdateItem(i) \/ ReturnError(i) \/ Timeout(i)
      PROVE  completed' = completed \/ ItemWritten(i) \/ ItemUpdated(i)
  <2>1. CASE Invoke(i)
    BY <2>1 DEF Invoke
  <2>2. CASE PutProgress(i)
    BY <1>1, <2>2 DEF PutProgress, ItemWritten
  <2>3. CASE ReturnError(i)
    BY <1>1, <2>3 DEF ReturnError, ItemWritten
  <2>4. CASE CountRead(i) \/ BuildIndex(i) \/ UploadGzi(i) \/ UploadFiles(i) \/ Respond(i)
    BY <2>4 DEF CountRead, BuildIndex, UploadGzi, UploadFiles, Respond
  <2>5. CASE UpdateItem(i)
    BY <2>5 DEF UpdateItem, ItemUpdated
  <2>6. CASE Tick(i) \/ UpdateAnswered(i) \/ UpdateFails(i) \/ FinalUpdate(i) \/ Timeout(i)
    BY <2>6 DEF Tick, UpdateAnswered, UpdateFails, FinalUpdate, Timeout, Exit
  <2> QED
    BY <1>3, <2>1, <2>2, <2>3, <2>4, <2>5, <2>6 DEF Handler, Counter
<1>4. CASE UNCHANGED vars
  BY <1>4 DEF vars
<1> QED
  BY <1>2, <1>3, <1>4, ReaderStep DEF Next

(* An item that is there has been written.                                 *)
LEMMA ItemsAreWrittenStep ==
  ASSUME IInv, InfoTypeOK, ItemsAreWritten, [InfoNext]_infoVars
  PROVE  ItemsAreWritten'
<1> SUFFICES ASSUME NEW l \in Layer, completed'[l] # NoItem
             PROVE  \E i \in Invocation : layer'[i] = l /\ step'[i] \notin {"waiting", "put"}
  BY DEF ItemsAreWritten
<1>1. /\ layer' = layer
      /\ \A i \in Invocation :
           step[i] \notin {"waiting", "put"} => step'[i] \notin {"waiting", "put"}
  BY StepsStay
<1>2. layer \in [Invocation -> Layer] /\ completed \in [Layer -> 0..Size \union {NoItem}]
  BY DEF IInv, TypeOK
<1>3. CASE completed[l] # NoItem
  BY <1>1, <1>3 DEF ItemsAreWritten
<1>4. CASE \E i \in Invocation : ItemWritten(i) \/ ItemUpdated(i)
  <2>1. PICK i \in Invocation : ItemWritten(i) \/ ItemUpdated(i)
    BY <1>4
  <2>2. CASE layer[i] # l
    BY <1>2, <1>3, <2>1, <2>2 DEF ItemWritten, ItemUpdated
  <2>3. CASE ItemWritten(i)
    BY <1>1, <1>3, <2>2, <2>3 DEF ItemWritten
  <2>4. CASE ItemUpdated(i)
    <3>1. step[i] \notin {"waiting", "put"}
      BY <2>4 DEF ItemUpdated, IInv, CountsAreOwn
    <3> QED
      BY <1>1, <1>3, <2>2, <3>1
  <2> QED
    BY <2>1, <2>3, <2>4
<1>5. CASE completed' = completed \/ \E m \in Layer : completed' = [completed EXCEPT ![m] = NoItem]
  BY <1>2, <1>3, <1>5
<1> QED
  BY <1>4, <1>5, ItemsStep

(* Who puts an item that is there works on the layer for a second time.    *)
LEMMA WrittenTwice ==
  ASSUME ItemsAreWritten, NEW i \in Invocation, step[i] = "put",
         layer[i] \in Layer, completed[layer[i]] # NoItem
  PROVE  Repeated
<1>1. PICK j \in Invocation : layer[j] = layer[i] /\ step[j] \notin {"waiting", "put"}
  BY DEF ItemsAreWritten
<1> QED
  BY <1>1 DEF Repeated

(* It was calm, if it is.                                                  *)
LEMMA CalmBefore ==
  ASSUME IInv, InfoTypeOK, ReportersHaveItems, [InfoNext]_infoVars, Calm'
  PROVE  Calm
<1>1. /\ layer' = layer
      /\ \A i \in Invocation :
           /\ step[i] # "waiting" => step'[i] # "waiting"
           /\ step[i] \notin {"waiting", "put"} => step'[i] \notin {"waiting", "put"}
  BY StepsStay
<1>2. layer \in [Invocation -> Layer] /\ completed \in [Layer -> 0..Size \union {NoItem}]
      /\ request \in [Invocation -> 0..Size \union {NoUpdate}]
  BY DEF IInv, TypeOK
<1>3. ~Repeated
  BY <1>1 DEF Calm, Repeated
<1>4. ASSUME Removed PROVE FALSE
  <2>1. PICK i \in Invocation : step[i] \notin {"waiting", "put"} /\ completed[layer[i]] = NoItem
    BY <1>4 DEF Removed
  <2>2. completed'[layer[i]] # NoItem
    BY <1>1, <2>1 DEF Calm, Removed
  <2>3. PICK j \in Invocation : ItemWritten(j) \/ ItemUpdated(j)
    BY <1>2, <2>1, <2>2, ItemsStep
  <2>4. layer[j] = layer[i]
    BY <1>2, <2>1, <2>2, <2>3 DEF ItemWritten, ItemUpdated
  <2>5. CASE ItemWritten(j)
    BY <1>3, <2>1, <2>4, <2>5 DEF ItemWritten, Repeated
  <2>6. CASE ItemUpdated(j)
    BY <2>1, <2>4, <2>6 DEF ItemUpdated, ReportersHaveItems, MayReport
  <2> QED
    BY <2>3, <2>5, <2>6
<1> QED
  BY <1>3, <1>4 DEF Calm

(* As long as it is calm, an item only grows.                              *)
LEMMA ItemsGrow ==
  ASSUME IInv, InfoTypeOK, ReportersHaveItems, ItemsAreWritten, [InfoNext]_infoVars, Calm',
         NEW l \in Layer
  PROVE  completed'[l] >= completed[l]
<1>1. Calm /\ layer' = layer
  BY CalmBefore, StepsStay
<1>2. layer \in [Invocation -> Layer] /\ completed \in [Layer -> 0..Size \union {NoItem}]
      /\ request \in [Invocation -> 0..Size \union {NoUpdate}] /\ Size \in Nat
  BY TotalFacts DEF IInv, TypeOK
<1>3. CASE completed' = completed
  BY <1>2, <1>3 DEF NoItem
<1>4. ASSUME NEW m \in Layer, completed' = [completed EXCEPT ![m] = NoItem]
      PROVE  completed'[l] >= completed[l]
  <2>1. ASSUME m = l, completed[l] # NoItem PROVE FALSE
    <3>1. PICK i \in Invocation : layer[i] = l /\ step[i] \notin {"waiting", "put"}
      BY <2>1 DEF ItemsAreWritten
    <3>2. layer'[i] = l /\ step'[i] \notin {"waiting", "put"} /\ completed'[l] = NoItem
      BY <1>1, <1>2, <1>4, <2>1, <3>1, StepsStay
    <3> QED
      BY <3>2 DEF Calm, Removed
  <2> QED
    BY <1>2, <1>4, <2>1 DEF NoItem
<1>5. ASSUME NEW i \in Invocation, ItemWritten(i) PROVE completed'[l] >= completed[l]
  <2>1. layer[i] = l => completed[l] = NoItem
    BY <1>1, <1>2, <1>5, WrittenTwice DEF ItemWritten, Calm
  <2> QED
    BY <1>2, <1>5, <2>1 DEF ItemWritten, NoItem
<1>6. ASSUME NEW i \in Invocation, ItemUpdated(i) PROVE completed'[l] >= completed[l]
  <2>1. step[i] # "waiting" /\ request[i] # NoUpdate
    BY <1>6 DEF ItemUpdated, IInv, CountsAreOwn
  <2>2. ~Shared(i)
    BY <1>1, <2>1 DEF Calm, Repeated, Shared
  <2>3. completed[layer[i]] <= request[i]
    BY <2>1, <2>2 DEF IInv, UpdatesAreNew
  <2> QED
    BY <1>2, <1>6, <2>1, <2>3 DEF ItemUpdated, NoItem, NoUpdate
<1> QED
  BY <1>3, <1>4, <1>5, <1>6, ItemsStep

(* What a client was told stays less than what a later Query finds.        *)
LEMMA SumsGrowStep ==
  ASSUME InfoInv, InfoInv', ItemsAreWritten, [InfoNext]_infoVars, Calm',
         NEW c \in Client, SumsGrow(c)
  PROVE  SumsGrow(c)'
<1>1. /\ IInv /\ IInv' /\ InfoTypeOK /\ InfoTypeOK' /\ ReportersHaveItems /\ SumsFit
      /\ SumsFit' /\ partial = {} /\ completed \in Items /\ completed' \in Items
  BY DEF InfoInv, ReportersHaveItems, IInv, TypeOK, Items
<1>2. Layers' = Layers /\ IsFiniteSet(Layers) /\ Layers \subseteq Layer
  BY <1>1, OthersLeaveClients, LayersFacts DEF Layers
<1>3. \A S \in SUBSET Layers :
        /\ Pile(completed, S) \in Nat /\ Pile(completed', S) \in Nat
        /\ Pile(completed', S) >= Pile(completed, S)
  <2> SUFFICES ASSUME NEW S \in SUBSET Layers
               PROVE  /\ Pile(completed, S) \in Nat /\ Pile(completed', S) \in Nat
                      /\ Pile(completed', S) >= Pile(completed, S)
    OBVIOUS
  <2>1. IsFiniteSet(S) /\ S \subseteq Layer
    BY <1>2, FS_Subset
  <2>2. \A l \in S : completed'[l] >= completed[l]
    BY <1>1, <2>1, ItemsGrow
  <2> QED
    BY <1>1, <2>1, <2>2, PileType, PileGrows
<1>4. /\ reply[c].completed \in Int /\ reply'[c].completed \in Int
      /\ query[c] # Idle => query[c].completed \in Nat /\ unread[c] \subseteq Layers
      /\ query'[c] # Idle => query'[c].completed \in Nat /\ unread'[c] \subseteq Layers
  <2>1. query[c] # Idle => query[c].completed \in Nat /\ unread[c] \subseteq Layers
    BY <1>1 DEF InfoTypeOK, SumsFit, SumFits
  <2>2. query'[c] # Idle => query'[c].completed \in Nat /\ unread'[c] \subseteq Layers
    BY <1>1, <1>2 DEF InfoTypeOK, SumsFit, SumFits
  <2>3. reply[c].completed \in Int /\ reply'[c].completed \in Int
    BY <1>1 DEF InfoTypeOK, NoReply
  <2> QED
    BY <2>1, <2>2, <2>3
<1>5. /\ reply[c].completed <= Pile(completed, Layers)
      /\ query[c] # Idle =>
           /\ reply[c].completed <= query[c].completed + Pile(completed, unread[c])
           /\ query[c].completed <= Pile(completed, Layers \ unread[c])
  BY DEF SumsGrow
<1> DEFINE Grows ==
      /\ reply'[c].completed <= Pile(completed', Layers)
      /\ query'[c] # Idle =>
           /\ reply'[c].completed <= query'[c].completed + Pile(completed', unread'[c])
           /\ query'[c].completed <= Pile(completed', Layers \ unread'[c])
<1> SUFFICES Grows
  BY <1>2 DEF SumsGrow
<1>6. CASE query'[c] = query[c] /\ unread'[c] = unread[c]
           /\ (reply'[c] = reply[c] \/ reply'[c].completed <= 0)
  <2>1. reply'[c].completed <= Pile(completed', Layers)
    BY <1>3, <1>4, <1>5, <1>6
  <2>2. ASSUME query'[c] # Idle
        PROVE  /\ reply'[c].completed <= query'[c].completed + Pile(completed', unread'[c])
               /\ query'[c].completed <= Pile(completed', Layers \ unread'[c])
    <3>1. /\ Pile(completed', unread[c]) >= Pile(completed, unread[c])
          /\ Pile(completed', Layers \ unread[c]) >= Pile(completed, Layers \ unread[c])
          /\ Pile(completed', unread[c]) \in Nat /\ Pile(completed, unread[c]) \in Nat
          /\ Pile(completed', Layers \ unread[c]) \in Nat
          /\ Pile(completed, Layers \ unread[c]) \in Nat
      BY <1>3, <1>4, <1>6, <2>2
    <3> QED
      BY <1>4, <1>5, <1>6, <2>2, <3>1
  <2> QED
    BY <2>1, <2>2
<1>7. CASE QueryImage(c)
  <2>1. /\ query'[c].completed = 0 /\ unread'[c] = Layers
        /\ reply' = reply /\ completed' = completed
    BY <1>1, <1>7 DEF QueryImage, InfoTypeOK, vars
  <2>2. Layers \ unread'[c] = {}
    BY <2>1
  <2>3. Pile(completed', Layers \ unread'[c]) = 0
    BY <2>2, PileOfNone
  <2>4. Pile(completed', Layers) \in Nat
    BY <1>3
  <2> QED
    BY <1>4, <1>5, <2>1, <2>3, <2>4
<1>8. ASSUME NEW l \in Layer, QueryProgress(c, l) PROVE Grows
  <2>1. /\ l \in unread[c] /\ query[c] # Idle
        /\ query' = [query EXCEPT ![c].completed = @ + ReadOf(l)]
        /\ unread' = [unread EXCEPT ![c] = @ \ {l}]
        /\ reply' = reply /\ completed' = completed
    BY <1>1, <1>8 DEF QueryProgress, ReadOf, SumsFit, vars
  <2>2. /\ query'[c].completed = query[c].completed + ReadOf(l)
        /\ unread'[c] = unread[c] \ {l}
    <3>1. query[c] \in [found : BOOLEAN, total : {0, Total}, completed : Nat]
      BY <1>1, <2>1, QueryTypes
    <3>2. query'[c] = [query[c] EXCEPT !.completed = @ + ReadOf(l)]
      BY <1>1, <2>1 DEF InfoTypeOK
    <3> QED
      BY <1>1, <2>1, <3>1, <3>2 DEF InfoTypeOK
  <2> DEFINE rest == unread[c] \ {l}
             seen == Layers \ unread[c]
  <2>3. /\ unread[c] = rest \union {l} /\ l \notin rest /\ rest \subseteq Layers
        /\ Layers \ unread'[c] = seen \union {l} /\ l \notin seen /\ unread'[c] = rest
    BY <1>4, <2>1, <2>2
  <2>4. IsFiniteSet(rest) /\ IsFiniteSet(seen)
    BY <1>2, <2>3, FS_Subset
  <2>5. ReadOf(l) = (IF completed[l] = NoItem THEN 0 ELSE completed[l]) /\ ReadOf(l) \in Nat
    BY <1>1, ReadTypes, TotalFacts DEF ReadOf
  <2>6. Pile(completed, rest \union {l}) = Pile(completed, rest) + ReadOf(l)
    BY <1>1, <2>3, <2>4, <2>5, PileAdds
  <2>7. Pile(completed, seen \union {l}) = Pile(completed, seen) + ReadOf(l)
    BY <1>1, <2>3, <2>4, <2>5, PileAdds
  <2>8. Pile(completed, rest) \in Nat /\ Pile(completed, seen) \in Nat
    BY <1>3, <2>3
  <2>9. reply[c].completed <= query[c].completed + Pile(completed, rest \union {l})
        /\ query[c].completed <= Pile(completed, seen)
    BY <1>5, <2>1, <2>3
  <2>10. reply'[c].completed <= query'[c].completed + Pile(completed', rest)
         /\ query'[c].completed <= Pile(completed', seen \union {l})
    BY <1>4, <2>1, <2>2, <2>5, <2>6, <2>7, <2>8, <2>9
  <2>11. reply'[c].completed <= Pile(completed', Layers)
    BY <1>5, <2>1
  <2> QED
    BY <2>3, <2>10, <2>11
<1>9. CASE Answer(c)
  <2>1. query[c].found /\ unread[c] = {}
    BY <1>9 DEF Answer
  <2>2. query[c] # Idle
    BY <2>1 DEF Idle
  <2>3. /\ reply'[c].completed = query[c].completed /\ query'[c] = Idle
        /\ completed' = completed /\ Layers \ unread[c] = Layers
    BY <1>1, <1>9, <2>1 DEF Answer, InfoTypeOK, vars
  <2> QED
    BY <1>5, <2>2, <2>3
<1>10. CASE StartExecution(c)
  <2>1. /\ query'[c] = Idle /\ completed' = completed
        /\ reply'[c] = reply[c] \/ reply'[c].completed <= 0
    BY <1>1, <1>10 DEF StartExecution, InfoTypeOK, vars, NoReply
  <2>2. Pile(completed', Layers) \in Nat
    BY <1>3
  <2> QED
    BY <1>4, <1>5, <2>1, <2>2
<1>11. ASSUME NEW d \in Client, d # c, HandleInfo(d) PROVE Grows
  <2>1. query'[c] = query[c] /\ unread'[c] = unread[c] /\ reply'[c] = reply[c]
    BY <1>1, <1>11 DEF InfoTypeOK, HandleInfo, QueryImage, QueryProgress, Answer, StartExecution
  <2> QED
    BY <1>6, <2>1
<1>12. CASE UNCHANGED <<query, unread>> /\ (reply' = reply \/ reply' = [d \in Client |-> NoReply])
  BY <1>6, <1>12 DEF NoReply
<1> QED
  BY <1>1, <1>7, <1>8, <1>9, <1>10, <1>11, <1>12, OthersLeaveClients DEF HandleInfo

(* Before anybody asks, nobody has been told anything.                     *)
LEMMA BarInvInit == InfoInit => BarInv
<1> SUFFICES ASSUME InfoInit PROVE BarInv
  OBVIOUS
<1>1. InfoInv
  BY InfoInvInit
<1>2. ItemsAreWritten
  BY DEF InfoInit, Init, ItemsAreWritten, NoItem
<1>3. ASSUME NEW c \in Client PROVE SumsGrow(c)
  <2>1. reply[c].completed = -1 /\ query[c] = Idle
    BY DEF InfoInit, NoReply
  <2>2. Pile(completed, Layers) \in Nat
    BY <1>1, LayersFacts, PileType DEF InfoInv
  <2> QED
    BY <2>1, <2>2 DEF SumsGrow
<1> QED
  BY <1>1, <1>2, <1>3 DEF BarInv

(* The invariant about the bar holds.                                      *)
LEMMA BarInductive == InfoSpec => []BarInv
<1>1. ASSUME BarInv, InfoInv', [InfoNext]_infoVars PROVE BarInv'
  <2>1. InfoInv /\ IInv /\ InfoTypeOK /\ ReportersHaveItems /\ ItemsAreWritten
    BY <1>1 DEF BarInv, InfoInv
  <2>2. ItemsAreWritten'
    BY <1>1, <2>1, ItemsAreWrittenStep
  <2>3. ASSUME Calm', NEW c \in Client PROVE SumsGrow(c)'
    <3>1. SumsGrow(c)
      BY <1>1, <2>1, <2>3, CalmBefore DEF BarInv
    <3> QED
      BY <1>1, <2>1, <2>3, <3>1, SumsGrowStep
  <2> QED
    BY <1>1, <2>2, <2>3 DEF BarInv
<1> QED
  BY <1>1, InfoInductive, BarInvInit, PTL DEF InfoSpec

(* A client's bar steps back only when a layer is read again or the TTL    *)
(* has removed a layer's progress, however the reads of a Query interleave *)
(* with the updates of the items.                                          *)
THEOREM BarOnlyGrows == InfoSpec => BarStepsBackOnlyWhenRepeated
<1>1. ASSUME BarInv, InfoInv', [InfoNext]_infoVars, NEW c \in Client,
             reply'[c] # NoReply, reply'[c].completed < reply[c].completed
      PROVE  Repeated \/ Removed
  <2>1. /\ IInv /\ InfoTypeOK /\ ItemsAreWritten
        /\ reply \in [Client -> [total : {0, Total}, completed : Nat] \union {NoReply}]
    BY <1>1 DEF BarInv, InfoInv, InfoTypeOK
  <2>2. reply[c].completed \in Int
    BY <2>1 DEF NoReply
  <2>3. Answer(c)
    <3>1. reply'[c] # reply[c]
      BY <1>1, <2>2
    <3> QED
      BY <1>1, <2>1, <3>1, OthersLeaveClients
      DEF HandleInfo, QueryImage, QueryProgress, Answer, StartExecution
  <2>4. query[c].found /\ unread[c] = {} /\ reply'[c].completed = query[c].completed
    BY <2>1, <2>3 DEF Answer
  <2>5. query[c] # Idle
    BY <2>4 DEF Idle
  <2>6. query[c].completed \in Nat
    BY <2>1, <2>5, QueryTypes
  <2>7. Pile(completed, unread[c]) = 0
    BY <2>4, PileOfNone
  <2>8. ASSUME SumsGrow(c) PROVE FALSE
    BY <1>1, <2>2, <2>4, <2>5, <2>6, <2>7, <2>8 DEF SumsGrow
  <2> QED
    BY <1>1, <2>8 DEF BarInv, Calm
<1>2. BarInv /\ InfoInv' /\ [InfoNext]_infoVars =>
        [\A c \in Client :
           reply'[c] # NoReply /\ reply'[c].completed < reply[c].completed =>
             \/ \E i, j \in Invocation :
                  /\ i # j /\ layer[i] = layer[j]
                  /\ step[i] # "waiting" /\ step[j] # "waiting"
             \/ \E i \in Invocation :
                  step[i] \notin {"waiting", "put"} /\ completed[layer[i]] = NoItem]_infoVars
  BY <1>1 DEF Repeated, Removed
<1> QED
  BY <1>2, BarInductive, InfoInductive, PTL DEF InfoSpec, BarStepsBackOnlyWhenRepeated
=============================================================================
