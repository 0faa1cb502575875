---------------------------- MODULE InfoProgress ----------------------------
(***************************************************************************)
(* The progress that /api/info reports of an image while LayerReader works *)
(* on its layers: the image's item, which has the total size, the layers'  *)
(* progress items, whose CompletedBytes handleInfo adds up, and clients    *)
(* that poll.                                                              *)
(*                                                                         *)
(* One Query returns all these items, in the order of their keys, the      *)
(* image's first; each is read consistently, but not all at one time. The  *)
(* layers' items are read in any order here. The TTL passes for all items  *)
(* of an image at about one time, long after it was indexed; the table     *)
(* removes each of them later on, when it comes to it.                     *)
(***************************************************************************)
EXTENDS LayerReader

CONSTANTS
  Client,     \* clients that poll /api/info
  Positions   \* layers in the manifest; one layer may occur twice

ASSUME PositionsAssumption == Positions \in Nat \ {0}

VARIABLES
  manifest,   \* manifest[p]: the layer at position p
  image,      \* the image's item: "none", "pending", or "described" by the lister
  partial,    \* layers whose item was made by an UpdateItem: it lacks the totals
  expired,    \* items in the table whose TTL has passed
  query,      \* query[c]: what c's request has read so far
  unread,     \* unread[c]: layers whose items the Query of c has not come to
  reply       \* reply[c]: the progress that c was told last

clientVars == <<query, unread, reply>>
infoVars == <<vars, manifest, image, partial, expired, clientVars>>

-----------------------------------------------------------------------------
Layers == {manifest[p] : p \in 1..Positions}

(* The lister counts a layer as often as the manifest names it.            *)
Total == Positions * Size

Image == "image"
NoReply == [total |-> -1, completed |-> -1]
Idle == [found |-> FALSE, total |-> -1, completed |-> -1]

InfoInit ==
  /\ Init
  /\ manifest \in [1..Positions -> Layer]
  /\ \A i \in Invocation : layer[i] \in Layers
  /\ image = "none"
  /\ partial = {}
  /\ expired = {}
  /\ query = [c \in Client |-> Idle]
  /\ unread = [c \in Client |-> {}]
  /\ reply = [c \in Client |-> NoReply]

-----------------------------------------------------------------------------
(* The execution.                                                          *)

LayerLister ==
  /\ image = "pending"
  /\ image' = "described"
  /\ UNCHANGED <<vars, manifest, partial, expired, clientVars>>

(* The Map state invokes LayerReader once the lister has answered.         *)
InvokeReader(i) ==
  /\ image = "described" /\ Image \notin expired
  /\ Invoke(i)
  /\ UNCHANGED <<manifest, image, partial, expired, clientVars>>

(* A PutItem replaces what is there.                                       *)
PutFreshProgress(i) ==
  /\ PutProgress(i)
  /\ partial' = partial \ {layer[i]}
  /\ expired' = expired \ {layer[i]}
  /\ UNCHANGED <<manifest, image, clientVars>>

(* An UpdateItem makes an item if there is none.                           *)
UpdateProgress(i) ==
  /\ UpdateItem(i)
  /\ partial' = partial \union {l \in {layer[i]} : completed[l] = NoItem}
  /\ UNCHANGED <<manifest, image, expired, clientVars>>

(* Its PutItem may have been made although the handler got an error.       *)
FailReader(i) ==
  /\ ReturnError(i)
  /\ \/ completed' = completed /\ UNCHANGED <<partial, expired>>
     \/ /\ step[i] = "put" /\ completed'[layer[i]] = 0
        /\ partial' = partial \ {layer[i]}
        /\ expired' = expired \ {layer[i]}
  /\ UNCHANGED <<manifest, image, clientVars>>

RunReader(i) ==
  /\ \/ CountRead(i) \/ BuildIndex(i) \/ UploadGzi(i) \/ UploadFiles(i) \/ Respond(i)
     \/ Counter(i) \/ Timeout(i)
  /\ UNCHANGED <<manifest, image, partial, expired, clientVars>>

-----------------------------------------------------------------------------
(* The TTL: ninety days after the items were written nothing is going on   *)
(* any more, neither executions nor requests; whoever asks then, asks      *)
(* anew.                                                                   *)

Quiet ==
  /\ \A i \in Invocation : step[i] \notin InHandler /\ request[i] = NoUpdate
  /\ \A c \in Client : query[c] = Idle

TimePasses ==
  /\ Quiet
  /\ image # "none"
  /\ expired' = {Image} \union {l \in Layer : completed[l] # NoItem}
  /\ reply' = [c \in Client |-> NoReply]
  /\ UNCHANGED <<vars, manifest, image, partial, query, unread>>

ExpireImage ==
  /\ Image \in expired
  /\ image' = "none"
  /\ expired' = expired \ {Image}
  /\ UNCHANGED <<vars, manifest, partial, clientVars>>

ExpireProgress(l) ==
  /\ l \in expired
  /\ completed' = [completed EXCEPT ![l] = NoItem]
  /\ partial' = partial \ {l}
  /\ expired' = expired \ {l}
  /\ UNCHANGED <<handlerVars, counter, request, bucketVars, manifest, image, clientVars>>

-----------------------------------------------------------------------------
(* handleInfo.                                                             *)

QueryImage(c) ==
  /\ query[c] = Idle
  /\ query' = [query EXCEPT ![c] =
       [found |-> image # "none",
        total |-> IF image = "described" THEN Total ELSE 0,
        completed |-> 0]]
  /\ unread' = [unread EXCEPT ![c] = Layers]
  /\ UNCHANGED <<vars, manifest, image, partial, expired, reply>>

(* Mutant: the item on a page boundary is on both pages.                   *)
QueryTwice(c, l) ==
  /\ l \in unread[c] \ partial
  /\ query' = [query EXCEPT ![c].completed =
                 @ + (IF completed[l] = NoItem THEN 0 ELSE 2 * completed[l])]
  /\ unread' = [unread EXCEPT ![c] = @ \ {l}]
  /\ UNCHANGED <<vars, manifest, image, partial, expired, reply>>

(* Mutant: the read is not consistent, an item may be an older one.        *)
QueryEventually(c, l) ==
  /\ l \in unread[c] \ partial
  /\ \E old \in {0, completed[l]} \ {NoItem} :
       query' = [query EXCEPT ![c].completed = @ + old]
  /\ unread' = [unread EXCEPT ![c] = @ \ {l}]
  /\ UNCHANGED <<vars, manifest, image, partial, expired, reply>>

(* The next item of the page. One that lacks an attribute cannot be        *)
(* decoded: the handler panics.                                            *)
QueryProgress(c, l) ==
  /\ l \in unread[c]
  /\ IF l \in partial
       THEN /\ query' = [query EXCEPT ![c] = Idle]
            /\ unread' = [unread EXCEPT ![c] = {}]
       ELSE /\ query' = [query EXCEPT ![c].completed =
                           @ + (IF completed[l] = NoItem THEN 0 ELSE completed[l])]
            /\ unread' = [unread EXCEPT ![c] = @ \ {l}]
  /\ UNCHANGED <<vars, manifest, image, partial, expired, reply>>

Answer(c) ==
  /\ query[c].found /\ unread[c] = {}
  /\ reply' = [reply EXCEPT ![c] =
       [total |-> query[c].total, completed |-> query[c].completed]]
  /\ query' = [query EXCEPT ![c] = Idle]
  /\ UNCHANGED <<vars, manifest, image, partial, expired, unread>>

(* The image was not in the table: the conditional PutItem, after which    *)
(* the answer is the new item, without any progress, or a panic.           *)
StartExecution(c) ==
  /\ query[c] # Idle /\ ~query[c].found /\ unread[c] = {}
  /\ image' = IF image = "none" THEN "pending" ELSE image
  /\ reply' = IF image = "none" THEN [reply EXCEPT ![c] = NoReply] ELSE reply
  /\ query' = [query EXCEPT ![c] = Idle]
  /\ UNCHANGED <<vars, manifest, partial, expired, unread>>

-----------------------------------------------------------------------------
Execution ==
  \/ LayerLister
  \/ \E i \in Invocation :
       \/ InvokeReader(i) \/ PutFreshProgress(i) \/ UpdateProgress(i)
       \/ FailReader(i) \/ RunReader(i)

TTL == TimePasses \/ ExpireImage \/ \E l \in Layer : ExpireProgress(l)

HandleInfo(c) ==
  \/ QueryImage(c)
  \/ \E l \in Layer : QueryProgress(c, l)
  \/ Answer(c) \/ StartExecution(c)

InfoNext == Execution \/ TTL \/ \E c \in Client : HandleInfo(c)

InfoSpec == InfoInit /\ [][InfoNext]_infoVars

-----------------------------------------------------------------------------
InfoTypeOK ==
  /\ TypeOK
  /\ manifest \in [1..Positions -> Layer]
  /\ image \in {"none", "pending", "described"}
  /\ partial \subseteq Layer
  /\ expired \subseteq Layer \union {Image}
  /\ query \in [Client -> [found : BOOLEAN, total : {0, Total}, completed : Nat] \union {Idle}]
  /\ unread \in [Client -> SUBSET Layer]
  /\ reply \in [Client -> [total : {0, Total}, completed : Nat] \union {NoReply}]

(* handleInfo can decode every progress item: none was made by the update  *)
(* of a goroutine whose item was not there (yet, or any more), neither     *)
(* when a PutItem fails nor when the TTL has taken an item away.           *)
NoPartialProgress == partial = {}

(* A bar never overshoots: what a client is told is complete is no more    *)
(* than the total, whatever the two were read between, even if it includes *)
(* the items of an earlier indexing that the TTL has not removed yet. Only *)
(* before the lister has written the total, which then is 0, it may be.    *)
ReportFitsTotal ==
  \A c \in Client : reply[c].completed <= reply[c].total \/ reply[c].total = 0

(* A full bar is true: every layer has been read to its end, although the  *)
(* layers' progress was not read at one time.                              *)
FullBarMeansRead ==
  \A c \in Client :
    reply[c].total > 0 /\ reply[c].completed = reply[c].total =>
      \A l \in Layers : \E i \in Invocation : layer[i] = l /\ count[i] = Size

(* To one client the bar only steps back when a layer is read for a second *)
(* time, or when the TTL has removed the progress of a layer.              *)
BarStepsBackOnlyWhenRepeated ==
  [][\A c \in Client :
       reply'[c] # NoReply /\ reply'[c].completed < reply[c].completed =>
         \/ \E i, j \in Invocation :
              /\ i # j /\ layer[i] = layer[j]
              /\ step[i] # "waiting" /\ step[j] # "waiting"
         \/ \E i \in Invocation :
              step[i] \notin {"waiting", "put"} /\ completed[layer[i]] = NoItem]_infoVars
=============================================================================
