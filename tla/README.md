# A verification project for the browse-an-image back end

The program is a set of AWS Lambda functions, a Step Functions state machine, a
DynamoDB table and an S3 bucket that let a web client browse the files of a
container image without downloading it. This directory models it in TLA+, checks
the models with TLC on small instances, and proves with TLAPS what matters most
for instances of any size. File names below are relative to `src/`.

## The system

| component | state it keeps | operations | talks to |
|---|---|---|---|
| `thelambda`: `/api/info` (`thelambda/thelambda.go`) | none | consistent Query of the image's item and its layers' progress items; if there is none: conditional PutItem (PENDING), StartExecution, conditional UpdateItem (RUNNING) | table, state machine |
| `thelambda`: `/api/dir`, `/api/file`, `/api/lookup` | none | S3 Select on the image's index; Range request to the registry and `gztool`; registry lookup | bucket, registry |
| state machine (`machine.asl.yml`) | one execution per indexing attempt | Get image layers; For each layer (Map); Concatenate indexes; Report success or Report failure | the four functions below |
| `layer_lister` | none | writes TotalSize, RawConfig and Manifest into the item, unconditionally | registry, table |
| `layerreader/remote` | per process: leftover `countProgress` goroutines | fresh progress item; download and index the blob; upload `index.gzi`, then `files.json.gz`; meanwhile progress every second | registry, table, bucket, `gztool` |
| `targzi` | temporary files | pipes the blob through `gztool` into a tar reader, sorts the entries, attaches to each the spans of the gzip index it lies in | `gztool` |
| `concatenator` | none | merges the layers' file indexes, applying whiteouts, and publishes the image's index | bucket |
| `finalizer` | none | writes SUCCEEDED or FAILED and the execution's id into the item, unconditionally | table |
| `s3select` | two goroutines and a pipe per call | collects the lines that an S3 Select query returns | bucket |
| `bitypes` | | the items of the table; `ttl` is 90 days after the item was written | table |

Everything else (`handlehttp`, `gospa`, `logging`, `layerreader/{local,remote,layer_reader}.go`,
the deployment files, the tests) keeps no state that these depend on; PROJECT.json
lists each with the reason why it is not modelled.

What is hard about this code, and what makes each part correct:

* **Several clients ask for an image at once.** The condition of one PutItem is all
  that keeps two executions from indexing one image. Handlers panic on every error,
  answers of AWS calls get lost, the SDK repeats calls on its own: the item may be
  left PENDING for ever, but there must never be two executions, and no execution
  without the item that names it.
* **Nothing orders the RUNNING update before the execution's own report**, and the
  finalizer's condition is commented out: which writes can overwrite which?
* **Step Functions gives up on invocations that still run** (timeouts, lost answers),
  and a Map state fails while its other iterations go on. Their late writes must not
  harm, and SUCCEEDED must mean that all index objects are stored.
* **Updates of a missing item create it** without the attributes that reading it
  asserts on, so that nobody may update an item that the TTL has removed.
* **The layer reader's goroutine** outlives the handler, is frozen and thawed with
  its process, uses a cancelled context, and panics when a call fails, which ends
  the process whatever the handler is doing.
* **S3 Select** hands over lines in pieces; both ends of the pipe may stop first.
* **The merge of the layers** reads each layer's lines in an order that may put a
  whiteout before or after what it must not delete; a digest may occur twice; a line may
  be too long; directories have keys of their own.
* **`BuildIndex` is four parties around two pipes** (the download, the copier of `os/exec`,
  `gztool`, the tar reader), and the one that reads stops early: does `cmd.Wait` return,
  and does its success mean that all was indexed?
* **Progress** is the sum over items that several processes write while a Query reads them
  one after the other, and that the TTL removes one after the other: can a client be told
  of more than there is, or that all is done when it is not?
* **Names** are strings that the merge and the queries compare, and every tar file spells
  them in its own way.
* **Offsets** pass from the tar file through the spans of the gzip index to the Range
  header; every one of these steps can be off by one.

PROJECT.json has every hazard with its line and the properties that cover it, or the reason why none does.

## Modules

| module | what it is |
|---|---|
| `ImagePipeline` | `/api/info`, the item, executions of the state machine with the functions behind its states, and the bucket |
| `ImageRecord` | abstract: what a polling client is promised about an image |
| `ImagePipelineProofs` | theorems about `ImagePipeline`, with proofs |
| `LayerReader` | the LayerReader function: handler, `countProgress` goroutine, processes |
| `LayerReaderProofs` | theorems about `LayerReader`, with proofs |
| `InfoProgress` | `LayerReader` composed with the clients of `/api/info`, its Query item by item, the lister and the TTL |
| `InfoProgressProofs` | theorems about `InfoProgress`, on top of those about `LayerReader` |
| `S3Select` | `Select`: the two goroutines, the pipe, the event stream, the context |
| `S3SelectProofs` | theorems about `S3Select`, with proofs |
| `BuildIndex` | `BuildIndex`: download, copier, `gztool`, tar reader, `cmd.Wait` |
| `BuildIndexProofs` | theorems about `BuildIndex`, with proofs |
| `Concatenator` | the merge of the layers' file indexes, and what a container would see |
| `ConcatenatorProofs` | theorems about `Concatenator`, with proofs |
| `FileIndex` | names: from headers of tar files to the answers of `/api/dir` and `/api/file` |
| `FileIndexProofs` | theorems about `FileIndex`, with proofs |
| `FileRange` | from an entry of a tar file to its spans and the range that is requested |
| `FileRangeProofs` | theorems about `FileRange`, with proofs |
| `MC*` | constants and symmetry for TLC |

An action named for a function or a state of the state machine stands for all of
it. A definition whose comment begins with "Mutant:" stands before the definition
it would replace: it is that definition with a plausible bug in it, used to see
that a property can fail; no specification refers to it.

### ImagePipeline

One image. `pc[r]` is where the handler of request `r` stands: at its Query, PutItem,
StartExecution or UpdateItem, or done, or panicked. `item` is the image's item as far
as a reader of it can tell: whether it exists, whether it has the attributes that
`DynamoItem` writes (`whole`), whether the lister has completed it (`described`), its
status and its ExecutionId. `state[e]`, `attempts[e]`, `tries[e]`, `reader[e]` are
execution `e` in terms of `machine.asl.yml`: its state, the retries in it, the retries
of each Map iteration, and how far each layer's LayerReader has come. Since a request
mints the id of the execution it starts, an execution is named by its request. `late`
are invocations that their execution no longer waits for. `gzi`, `files`, `published`
are the objects in the bucket; initially there may be objects of any layers, which
other images share.

Actions: `HandleInfo`, `PutItem`, `StartExecution`, `MarkRunning` are the handler's four
calls in order, each with the outcomes that the code distinguishes; `...Unanswered` is
the same call taking effect while its answer is lost; `Panic` is a call that fails
without effect, and the function's 90 s timeout. Each state of the state machine is an
action that has the effect of its function (`LayerLister`, `Concatenator`, `Finalizer`)
and moves on; `RetryTask` and `CatchTask` are the error paths of any Task state, after
which the invocation may still take effect (`LateEffect`); `StoreGzi`, `StoreFiles`,
`RetryLayer`, `JoinLayers`, `CatchMap` are the Map state. `Expire` is the TTL.

`ImageRecord` says what this amounts to for a client: a record has one owner, whose
outcome is settled once; any status but PENDING and RUNNING reports that outcome; and
SUCCEEDED is only an outcome once everything is stored. `ImplementsRecord` is the
refinement, with the mapping `RecordStatus`, `RecordOutcome` in `ImagePipeline`.

### LayerReader

`step[i]` is the handler of invocation `i`; `env[i]` its process. `counter[i]` is its
goroutine: in its select, waiting for the answer to an UpdateItem, or gone. `request[i]`
is an UpdateItem on its way, which reaches the table even if nobody waits for it any
more. A process that ends (`Exit`: a panic in any goroutine, or the timeout) takes its
invocation and all its goroutines with it. An environment is given one invocation at a
time; the goroutine of an earlier one may still be there. The tick that follows a
cancellation is the same as `ctx.Done()`: both call `update()` with the cancelled
context, `FinalUpdate`.

### InfoProgress

Extends `LayerReader` with what surrounds it: `image` is the image's item, as far as the
Map state and the reported total depend on it; `manifest` names the layers, perhaps one of
them twice; `partial` are the progress items that an UpdateItem made and that cannot be
decoded; `expired` are the items whose TTL has passed and that the table has not come to
remove. `query[c]`, `unread[c]` are a request in the middle of its Query: the image's item
comes first (its key is a prefix of the others'), then each layer's, each with what it has
at that moment. `reply[c]` is what the client was told last. `HandleInfo` consists of
`QueryImage`, `QueryProgress`, `Answer` and `StartExecution`; the actions of `LayerReader`
are conjuncts of `InvokeReader`, `PutFreshProgress`, `UpdateProgress`, `FailReader` and
`RunReader`. `ImagePipeline` has the whole life of the item; here it only comes and goes.

### S3Select

A line is two pieces; an event carries one or more pieces. `taken` counts the pieces
that `Select` has taken from the stream, `read` those that the scanner has read from the
pipe: `pw.Write` returns when they are equal. `long` are the lines that do not fit the
scanner's 64 KB buffer; it may fill in either piece. `EndOfPipe` hands what is left of a line
to `json.Unmarshal`, whose error the goroutine makes a panic.

### BuildIndex

The blob, its decompressed form and what is in a pipe are counted in blocks: `Body` for
the archive with its end marker, `tail` for what follows it. `tr.Next` does not always
complain of the end of its input. Where `seams` has the number of blocks read (before a header, in the
padding before it, between the blocks of the end marker, and behind an archive that has
no end marker) it returns `io.EOF`, as at the end marker, and the loop ends (`EndOfOutput`);
the initial state has any set of such places, and always the very beginning. `copier` is the goroutine
that `os/exec` starts because `cmd.Stdin` is not a file; `gztool` is the process or its
exit status; `main` is the loop around `tr.Next()`, and then `cmd.Wait`, with what may fail behind it. `TarError` is the
early return that does not wait; what it leaves behind goes on as far as it can
(`GztoolFails` includes the signal that it gets if the garbage collector closes the pipe). `taken` is what the tar reader has read.

### Concatenator

`pos` and `todo` are the two loops, over the layers of the manifest and the lines of one
layer; `fileMap` is the map. Each of `WhiteoutOpaqueDir`, `Whiteout` and `Entry` is one pass
of the inner loop for one kind of line, `TooLong` is the scanner that stops without an
error that anybody looks at. Lines are taken in any order, which includes that of the
file. Two definitions serve as reference: `SurvivesIn(i, k)` is the handler's rule applied
to a layer's lines all at once (the i-th layer's entry is neither deleted nor replaced
above), `SeenIn(i, k)` is what a container would see, from the layers themselves with the
rules of overlay images. The layers are tar files that unpack (`Unpacks`): nothing lies in
what is not a directory. A path is taken for one key, or two if it is a file here and a
directory there; that this is so is the matter of `FileIndex`.

### FileIndex

A name is a string as far as its slashes go: whether it begins with one, the parts between
them, and whether one follows. `Clean`, `HeaderName` and `Parent` are the normalisation in
the loop of `BuildIndex` (`ReadHeader`), `Sort` is its sort by depth, in which names of
one depth come in any order; `Concatenate` is the merge without whiteouts: of the lines with
one name the map keeps the last (`LastLines`), and the layers are read from the bottom (`Later`).
`HandleListDirectory` and `HandleFileContents` are the queries of the two endpoints, asked by a
client that follows what it is shown. The reference is `Location`, where a container would
find the file; `SpeltAlike` and `HasDirectories` say of which images browsing is expected to
show everything; among others, that a header for the root is that of a directory, which
its name, "/", does not tell.

### FileRange

`AttachSpans` is the search in `targzi.go` with `sort.Search` as the least index for which
the test is true; `HandleFileContents` is the Range header in `thelambda.go`. `Needed` is the
reference: the spans that hold at least one byte of the entry.

## Runs

| run | instance | shows |
|---|---|---|
| `pipeline_safety` | 2 requests, 2 layers, 1 retry | `OneExecutionAtATime`, `WritersOwnTheItem`, `NoPartialItem`, `SucceededIsBrowsable`, `StatusFitsExecution`, `OnlyMarkRevokesVerdict`, `ImplementsRecord` |
| `pipeline_liveness` | 2 requests, 1 layer, 1 retry, `FairSpec` | `EveryExecutionEnds`, `MarkedImageGetsVerdict` |
| `pipeline_verdict` | the same | **violated**: `VerdictIsFinal` |
| `layer_reader` | 2 invocations, 2 environments, 2 layers of 3 bytes, symmetry | `StoredInOrder`, `ProgressIsReal`, `LeftoverIsCancelled`, `ProgressStepsBackOnlyWhenShared` |
| `layer_reader_flush` | 1 invocation, 1 layer of 2 bytes | **violated**: `FlushedOnReturn` |
| `info_progress` | 2 invocations, 2 environments, 2 layers of 1 byte, a manifest of 2, 1 client, symmetry | `NoPartialProgress`, `ReportFitsTotal`, `FullBarMeansRead`, `BarStepsBackOnlyWhenRepeated` |
| `select_stream` | 3 lines, `FairSpec` | `ReturnsWhatItReceived`, `StuckOnlyByLongLine`, `PanicsOnlyWhenBroken`, `EndsWithStream`, `EndsWithContext` |
| `concatenator` | 3 layers of 2 digests with at most 3 lines each, 1 name, depth 2, symmetry | `OrderDoesNotMatter`, `NothingIsLost`, `StaleOnlyAroundDirectories`, `NothingIsOutOfReach` |
| `concatenator_whiteout` | 2 layers with at most 2 lines each | **violated**: `WhiteoutHides` |
| `build_index` | 3 blocks with any seams, tails of 0 to 4, pipes of 2, `FairSpec` | `IndexCoversBlob`, `StuckOnlyByTail`, `EndsUnlessLongTail`, `LeftBehindOnlyByLongRest` |
| `file_index` | 2 layers with at most 2 headers each, of 12 spellings | `BrowsingShowsTheImage`, `ListedFilesOpen` |
| `file_range` | every index of at most 3 spans, offsets to 5, bytes to 5 | `NeverPanics`, `SpansAreTight`, `RangeCoversEntry` |

Bounds. Two requests are enough for one to be overtaken by another, and for one to
start over after the item has expired; two layers for one to be stored and one not;
one retry (the code has six) for an abandoned invocation beside a new one. The proofs
do not depend on these. Two invocations can share a layer, an environment, both or
neither: all four are initial states. Three bytes let a goroutine tick twice before
the end; three lines let an event hold the end of one line, a whole one and the
beginning of another. Three layers from two digests have one below, between and above the other, and
a digest that occurs twice; with one name and depth 2 a path has an ancestor, itself and
a descendant; three lines are enough for a whiteout beside an entry and its directory. In
`info_progress` a byte is all of a layer, so that a layer is unread, read or read twice; the
two positions of the manifest hold two layers or one twice. (With layers of two bytes, which
can be read half, there are 9.4 million states and no error either; that takes
longer than one wants to wait.) The twelve spellings have each of two nested directories and
their files with and without what `filepath.Clean` takes away, and names from above the root
and with a leading slash. Tails of 0 to 4
blocks are shorter than a pipe of 2, as long and longer. Three spans are a first, an inner
and a last one, and every entry of every length lies in, across or at the edge of them.

Fairness. `FairSpec` of `ImagePipeline` has weak fairness of a handler's own calls
(Lambda runs what it was given, and a call ends in an answer, an error or the
timeout) and of an execution's steps (Step Functions drives an execution until it
ends; a Task gets an answer or an error). Lost answers, retries and errors are
choices, never obligations; nothing is assumed of late invocations or of the TTL. Because each of `HandlerStep(r)` and `ExecutionStep(e)` is one
weakly fair disjunction, an execution may take the error path at every choice. In
`S3Select` both goroutines are scheduled, but the stream may be silent for ever. In
`BuildIndex` the goroutines and the process are scheduled; the download may stall for ever
(`EndsUnlessLongTail` begins with its end), and nothing obliges `gztool` to fail.

Deadlock is not checked where the modelled part simply ends: all requests answered and
the item expired; all invocations over; the call returned. In `build_index` it also covers
the deadlock with a long tail, of which `StuckOnlyByTail` says when it happens.

### Findings

* `VerdictIsFinal` (run `pipeline_verdict`): `handleStartExecution` sets RUNNING after it
  has started the execution, on the condition that the item is still this execution's
  (`thelambda.go:294`). An execution that reports first has its verdict overwritten with
  RUNNING, and nothing writes it again. `OnlyMarkRevokesVerdict` shows that this is
  the only way to lose a verdict.
* `FlushedOnReturn` (run `layer_reader_flush`): the comment at `remote.go:144` expects the
  cancellation to flush the last progress; the flush uses the cancelled context, fails
  and panics.
* `WhiteoutHides` (run `concatenator_whiteout`): a whiteout deletes the one key without a
  slash (`concatenator.go:114-119`), but directories have keys with one (`targzi.go:171`),
  and what they contain has its own: a directory that a layer removed stays in the image's
  index. `StaleOnlyAroundDirectories` shows that nothing else comes back.

What holds in spite of appearances: `/api/info` adds up items that it reads at different
times, of which some may be left over from an earlier indexing, and still never reports
more than the total (`ReportFitsTotal`), nor a full bar before all is read
(`FullBarMeansRead`); if the manifest names a digest twice, on the other hand, the total
counts it twice, and the bar is never full. The UpdateItem in `countProgress` never makes an
item that cannot be decoded, since its PutItem always comes first and the TTL is long
(`NoPartialProgress`). A whiteout never puts what it leaves out of the reach of browsing
(`NothingIsOutOfReach`), and layers that spell a name differently share its key
(`ListedFilesOpen`), unless one has it with a leading slash. The finalizer's missing condition would always hold
(`WritersOwnTheItem`); `Select`, although it asks neither the scanner nor the stream for
errors, returns a truncated list only when the stream breaks between two lines, or within
one that is too long (`ReturnsWhatItReceived`), and half a line makes its goroutine panic
only if the stream has broken, not after `ctx.Done()`, since the pipe then stays open
(`PanicsOnlyWhenBroken`); the price is that the goroutine stays for ever. The concatenator's check of the digest makes
the order of lines irrelevant, even if a digest occurs twice (`OrderDoesNotMatter`).
`BuildIndex`, although the tar reader stops before the end of the blob, and takes an archive
that is cut at a seam for whole, never succeeds without having indexed all of it, because
`cmd.Wait` comes after the loop in either case (`IndexCoversBlob`); and what its early return leaves behind
goes away, unless there is more to read than a pipe holds (`LeftBehindOnlyByLongRest`). The spans of an entry that ends
where a span begins include that one in vain, and the range is never too short
(`SpansAreTight`, `RangeCoversEntry`).

## Proofs

`ImagePipelineProofs` proves, for every set of requests and layers and every number of
retries, the type invariant, each invariant that `pipeline_safety` checks, its action
property, and the refinement. The assumptions are those the module names: no request is
`NoRequest`, and the number of retries is a natural number.

The properties are not inductive by themselves: `WritersOwnTheItem`, for instance, is kept
only because a request that is about to start an execution owns the item already, and
because no item expires under it. The inductive invariant `IInv` is

* `BusyOwnsItem`: whoever is between its PutItem and its response, or executes, or has
  abandoned an invocation, is the one the item names; hence there is at most one;
* `StartedOnce`: an execution begins with its request's StartExecution and has nothing
  abandoned before;
* `ItemIsWhole`: an item that exists was written by a PutItem;
* `LateReportsAgree`: an abandoned finalizer carries the verdict its execution stands for;
* `BucketIsOrdered`: `files.json.gz` implies `index.gzi`, the image's index implies all
  `files.json.gz`;
* `ProgressIsKept`: what an execution that goes on has achieved is still there;

with `TypeOK`, `StatusFitsExecution` and `SucceededIsBrowsable`. There is one lemma per
conjunct (`BusyStep`, `StartStep`, ...), each by cases on the actions; `RecordStep` shows
that every step is a step of `ImageRecord` or none. Temporal steps combine these.

`LayerReaderProofs` proves all of `layer_reader`'s properties, for any number of
invocations, environments and layers of any size. `StoredInOrder` needs to know what an
invocation between its uploads has stored (`UploadsAreOrdered`), `LeftoverIsCancelled` that
the handlers that got past `BuildIndex` have cancelled (`CancelIsCalled`). The action
property rests on two facts that are not to be seen in it: an update on its way says no
less than the item unless another invocation shares it (`UpdatesAreNew`), and whoever has
counted has done its PutItem (`CountsAreOwn`). `CompletedStep` sums up what a step may do to
the items, so that these arguments need no case per action.

`S3SelectProofs` and `BuildIndexProofs` prove the safety properties of `select_stream` and
`build_index`, for any number of lines, any archive, tail and capacity of a pipe. Their
invariants say what is in the pipes: between two events the scanner has read all that was
written (`PipeIsDrained`), and has an entry for each line it read to the end; no
block is lost between the copier and the tar reader (`BlocksAreKept`), and status 0 with a
copier that has no error to report means that nothing is left of the blob (`StatusIsTrue`).
The tar reader may reach `cmd.Wait` with part of the archive, but then with an empty pipe
and after the end of `gztool` (`ReaderStops`), so that a status of 0 contradicts it. For
`PanicsOnlyWhenBroken` the number of pieces read is even when a stream has ended whole
(`StreamIsWhole`, `HalfLineIsBroken`).

`ConcatenatorProofs` proves the properties of `concatenator` for any tree of names, any
layers and any lines. What the run sees at the end, the invariant says of every moment: the
map has the entries that survive the layers read before and the lines of the current layer
that have been read, in whatever order (`LoopsInOrder`, `EntriesAreReal`, `EntriesAreKept`). A digest
that occurs twice is why an entry is attributed to a digest and not to a position. For
`NothingIsOutOfReach`, the directory of an entry in the map is in the map, or among the
lines still to be read (`ParentsAreKept`).

`InfoProgressProofs` proves the invariants of `info_progress` for any number of clients,
layers and invocations. It reuses the invariant of `LayerReaderProofs`, whose lemmas hold for
every step of `LayerReader`, and adds that whoever may still report has an item that has not
expired (`ReportersHaveItems`), from which `NoPartialProgress` follows, and that what a request
has added up fits the layers that its Query has passed, and equals them only if they have been
read (`SumsFit`): this is what makes a Query that is not atomic harmless.

For `BarStepsBackOnlyWhenRepeated` the invariant has to compare readings of different times.
As long as no layer is read a second time and none that was begun has lost its item
(`Calm`), an item only grows, and what a Query has added up with what the items it has yet to
come to hold now is at least what the client was told last (`SumsGrow`). A sum over a set of
layers is the number of elements of a set there (`Pile`): there is no recursion to reason
about. `ReadersKeepPromises` is composition: the layer reader's own invariants also hold among
clients and a TTL that takes its items away, which no step of `LayerReader` does.

`FileIndexProofs` proves the properties of `file_index` for names with any number of parts,
directories of any depth, and any number of layers with any number of headers. `IInv` says
that every line is that of a header of its layer and no header is lost, whatever the sort does
(`LinesAreHeaders`, `ReadInOrder`, `HeadersAreLines`), that the index has the last line with
each name (`IndexIsLastLines`), and what the client has been shown (`ShownIsListed`). The rest
is about names. `CleanIsLocation`: `filepath.Clean` computes where the file is, unless it
climbs above the root of a name without a leading slash. `NamesTellLocations`: of headers that
are spelt alike, the names are equal just when the files are at one place, and the parent is
the name of the directory. `AllIsShown` goes down the directories: what contains a file has
been shown, therefore listed, therefore the file has been shown. The library's induction
theorems are of no use to the provers, and `Clean` and `Location` are recursive functions;
`UpTo` takes their place, which says of a set of numbers what induction says of a predicate,
and follows from the existence of a least number that is not in it (`LeastNumber`).

`FileRangeProofs` proves the properties of `file_range` for an index with any number of
spans. The heart is `SearchFinds`, that `sort.Search` over the reversed spans finds the span that holds an
offset, and `SpansApart`, that there is only one; the entry's spans are then the interval
between those of its first byte and of the byte behind it (`AttachedSpans`), all of which but the
last are needed (`InnerSpansNeeded`).

Of the liveness properties, which need fairness, the part is proved that the code owes.
An execution ends because nothing ever adds to what it has before it, no second start,
no retry, no late invocation, and each of its steps uses some up (`ExecutionsRunOut`), of which
there is a finite amount if the image has finitely many layers (`NotForEver`): `TasksAhead` are the states it can still come to with
their retries, `ReadsAhead` the stages of its LayerReaders. That it has a step as long as it
is `Live` is plain, since every state has a `CatchTask` or `CatchMap`. In `BuildIndex` and
`S3Select` every step of anybody uses up one of a number of steps (`StepsRunOut`), and while
the call has not ended, one of the fair parties has a step (`NoDeadlock`): there
`CopierCan`, `GztoolCan`, `MainCan` and `ScannerCan` are the conditions of their steps. What is
missing between these and `EveryExecutionEnds`, `EndsUnlessLongTail`, `LeftBehindOnlyByLongRest`,
`EndsWithStream` and `EndsWithContext` is that a party which can go on does.

| theorem | states |
|---|---|
| `ImagePipelineProofs`: `TypeCorrect`, `MutualExclusion`, `Ownership`, `Decodable`, `Browsable`, `StatusAgrees`, `VerdictTakenBack` | `TypeOK`, `OneExecutionAtATime`, `WritersOwnTheItem`, `NoPartialItem`, `SucceededIsBrowsable`, `StatusFitsExecution`, `OnlyMarkRevokesVerdict` |
| `ImagePipelineProofs`: `Refinement` | `ImplementsRecord` |
| `LayerReaderProofs`: `TypeCorrect`, `BucketInOrder`, `NoLeftoverReports`, `NoInventedProgress`, `OwnProgressOnlyGrows` | `TypeOK`, `StoredInOrder`, `LeftoverIsCancelled`, `ProgressIsReal`, `ProgressStepsBackOnlyWhenShared` |
| `S3SelectProofs`: `TypeCorrect`, `NothingDropped`, `OnlyLongLines`, `PanicNeedsBrokenStream` | `TypeOK`, `ReturnsWhatItReceived`, `StuckOnlyByLongLine`, `PanicsOnlyWhenBroken` |
| `BuildIndexProofs`: `TypeCorrect`, `WholeBlob`, `OnlyLongTails` | `TypeOK`, `IndexCoversBlob`, `StuckOnlyByTail` |
| `ConcatenatorProofs`: `TypeCorrect`, `Confluence`, `Completeness`, `Leftovers`, `Reachability` | `TypeOK`, `OrderDoesNotMatter`, `NothingIsLost`, `StaleOnlyAroundDirectories`, `NothingIsOutOfReach` |
| `InfoProgressProofs`: `InfoTypeCorrect`, `ProgressDecodable`, `NoOvershoot`, `FullBarIsTrue`, `BarOnlyGrows` | `InfoTypeOK`, `NoPartialProgress`, `ReportFitsTotal`, `FullBarMeansRead`, `BarStepsBackOnlyWhenRepeated` |
| `FileIndexProofs`: `ListedFilesAlwaysOpen`, `BrowsingAlwaysShowsTheImage` | `ListedFilesOpen`, `BrowsingShowsTheImage` |
| `FileRangeProofs`: `TypeCorrect`, `NoPanic`, `TightSpans`, `RangeIsEnough` | `TypeOK`, `NeverPanics`, `SpansAreTight`, `RangeCoversEntry` |
| `ImagePipelineProofs`: `ExecutionsRunOut`, `NotForEver` | what `EveryExecutionEnds` owes to the state machine |
| `BuildIndexProofs`: `StepsRunOut`, `NoDeadlock` | what `EndsUnlessLongTail` and `LeftBehindOnlyByLongRest` owe to the code |
| `S3SelectProofs`: `StepsRunOut`, `NoDeadlock` | what `EndsWithStream` and `EndsWithContext` owe to the code |
| `InfoProgressProofs`: `ReadersKeepPromises` | `LayerReader`'s `StoredInOrder`, `ProgressIsReal`, `LeftoverIsCancelled`, for `InfoProgress` |

Only model-checked: the six liveness properties, `EveryExecutionEnds`, `MarkedImageGetsVerdict`,
`EndsWithStream`, `EndsWithContext`, `EndsUnlessLongTail` and `LeftBehindOnlyByLongRest`. They need
fairness and ENABLED, which are out of the prover's reach. Every invariant and every action
property that a passing run checks is a theorem, under no assumptions but those that the
modules name, on what kind of thing each constant is.

## What the models assume, and what they leave out

* The TTL is longer than anything in flight: an item lives 90 days, an execution with all
  its timeouts and retries well under a day. `Expire` therefore needs `Quiet`, and takes
  what is left in flight with it. `NoPartialItem` and the ownership properties depend on it;
  so does `NoPartialProgress` in `InfoProgress`, where the TTL of an image's items passes for
  all of them when nothing is going on, and each is removed at any time later. An image that is
  asked for again meanwhile may find progress items of the last time.
* A Query reads each item consistently but the items at different times. The models have one
  image and whole digests: `begins_with` would also select the items of longer digests.
* The table is the single-region one of `template.yml`; no function uses the replicated one
  of `storage.yml`.
* `TestWipe` in `my_test.go`, which deletes items while the system may run, is no part of it.
* An UpdateItem with a context that is already done returns an error and sends nothing
  (the AWS SDK checks the context before it sends).
* `os/exec`: `Wait` waits for the process and then for the copier; a broken pipe is no error
  of the copier; an exit status other than 0 comes before the copier's error.
* `gztool` numbers the bytes of the blob from 1 (`-n`), and its first access point is at
  uncompressed byte 0. What it writes into the index is not modelled, only how much it read.
* `ReadIndex` and the tar explorer are used by tests only. `targzi_test.go:49` lists a directory
  without the slash that `Parent` has (`targzi.go:168`) and asserts nothing about the result.
* How names of one depth compare is left open (`FileIndex`), as is the order of a layer's
  lines in `Concatenator`: nothing relies on them. Only which of two headers with one name in
  one tar file is kept does, and then `sort.Slice` leaves it to chance.
* Registry reads, JSON, gzip, logging and HTTP details are success or error. The sizes that
  the lister adds up without looking at the error of `layer.Size()` (`layer_lister.go:77`) are
  in the manifest that it already has. Names that are not UTF-8, whose bytes `json.Marshal`
  replaces, are left out: two of them may become one.
* A gzip index has an access point for the beginning of the data (`FileRange`); an empty list
  of spans, which `gztool -ll` does not print for an index that it has just made, would panic.
* The scanner of the concatenator treats gzip data that is damaged between two lines as it does a
  line that is too long (`Concatenator`); within a line, it is an error that ends the handler.
* CDN caching (`cloudfront.yml`) and the ULID source are not modelled.

## Plan

Done, in this order: `ImagePipeline` with its abstract specification and proofs, `LayerReader`,
`S3Select`, `Concatenator`, `BuildIndex`, `FileRange`, the proofs of `BuildIndex`, `S3Select`
and `LayerReader`, `InfoProgress` with its proofs, the proofs of `Concatenator` and
`FileRange`, `FileIndex`, the rest of the proofs about `InfoProgress`, the proofs of `FileIndex`,
and the parts of liveness that are safety. What is left:

1. What `BuildIndex` leaves behind after an early return (`LeftBehindOnlyByLongRest` says when),
   together with `LayerReader`'s environments that are used again.
2. What a layer index that the scanner cannot read to its end does to whiteouts: what comes
   back then, beside what is missing (`NothingIsLost`).
