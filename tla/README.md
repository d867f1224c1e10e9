# A TLA+ model of the Akave SDK

The Akave SDK (`src/sdk`, `src/private`, `src/cmd/akavecli`) is a Go client of a
decentralised store.  A file is cut into chunks, a chunk into blocks; chunks are registered
with a storage contract on a chain, blocks are sent to storage nodes, and a final
transaction commits the file.  Everything hard about the program is in that client: several
goroutines per call, transactions whose answers may be lost, uploads that are resumed after a
failure, data that is encrypted and coded in place, all without a store of its own.  This
directory holds the modules that model it, the TLC runs that check them on small instances,
and proofs that TLAPS checks for all instances.

## The parts of the system

| Part | Source | State | Operations | Interacts with |
|---|---|---|---|---|
| Upload pipeline | `sdk/multi_upload.go`, `sdk/model.go` (`uploadState`), `sdk/sdk_ipc.go`; `Upload2` in `sdk/sdk_ipc_upload_download2.go` | `uploadState` of one `IPCFileUpload`, kept between calls: chunks registered but not uploaded, chunk count, sizes, DAG root, `isCommitted`; per call two channels and three goroutines | start, resume, read, register, wait, upload, commit | contract, nodes, caller's reader and context |
| Block upload | `sdk/sdk_ipc.go` (`uploadChunk`, `uploadBlock`) | a goroutine and a stream per block, counters | launch under a limit, send in parts, close, answer | nodes |
| File creation | `sdk/multi_upload.go` (`CreateFileUploads`) | shared `err`, mutex `m.mu`, results channel | one worker per file: look up, create, wait | contract; other senders of the account |
| Downloads | `sdk/sdk_ipc.go` (`Download`, ranges), `Download2` | a channel between a creating and a writing goroutine, blocks of a chunk | list chunks, fetch blocks, decode, write | nodes, caller's writer |
| Archival downloads | `sdk/sdk_ipc.go` (`DownloadArchival`, `ArchivalMetadata`, `rangeDownload`) | as downloads | resolve a block at a node, fetch it from a provider, verify its CID | nodes, PDP providers over HTTP |
| Buckets and files | `sdk/sdk_ipc.go` | none locally | create, delete, set access, view, list | contract |
| Connection pool | `sdk/connection.go` | a map from address to connection under a read/write lock | get, close | every block transfer |
| Retries, receipts | `private/retry`, `private/ipc/client.go` | attempt count; a polling loop | `Do`, `WaitForTx` | every transaction |
| Stream encryption | `private/encryption/streamenc` | a buffer shared by the chunks of an upload | encrypt and decrypt in place, sizes | chunks of `Upload2`, `Download2` |
| Erasure coding | `private/erasurecode` | none | encode, extract, with and without wrapping, stripes | chunks |
| Layout of a chunk | `sdk/sdk.go` (`New`), `sdk/dag.go`, `private/encryption` | a buffer and its capacity | encrypt, wrap, split, build the DAG, and back | uploads, downloads |
| Merkle tree | `private/merkletree` | one buffer | pad, build, prove, verify | archival pieces |
| Contract client | `private/ipc` | client under construction | deploy, upgrade, batched reads, parsing of calldata | chain |
| Command line | `cmd/akavecli` | wallet files, destination files | one SDK call per command | user, file system |

What makes each part correct, and what is hard about it:

* **Upload pipeline.** The committed file is the stream, whole and in order; a failure at any
  point leaves a state a later call can finish from; every call returns.  Hard: the
  interleavings of three goroutines over a buffered and an unbuffered channel, cancellation
  by the first error, partial failure of a batch, of a chunk, of a call, lost answers,
  reverted transactions.
* **Block upload.** What is reported as stored is what nodes have.  Hard: a node that refuses
  a block in mid-stream ends it with `io.EOF`, and the reason comes later.
* **File creation.** Each file gets one outcome, its own.  Hard: a variable shared by all
  workers, a nonce read from the chain before it is used.
* **Downloads.** The output is the file, in order, or a part of it and an error.  Hard:
  blocks fetched concurrently, wrong data among them, two goroutines that each may end first.
* **Buckets and files.** What a call returns is true of the chain.  Hard: an index or a nonce
  read in one request and used in a later transaction, an answer lost between two attempts.
* **Connection pool.** One open connection per address, none left open after close.
* **Encryption, coding, layouts, trees.** The way back gives the same bytes, or an error.
  Hard: partial blocks, buffers used in place, padding, sizes computed in two places.
* **Command line.** A key is never lost and an output never wrong without an error.  Hard: two
  commands at once; flags that are properties of the command, not of the file.

`PROJECT.json` lists every part with its status, and every hazard with its line and the
properties that cover it.

## The modules

| Module | Models |
|---|---|
| `UploadPipeline` | all calls of `Upload` on one `IPCFileUpload` (or one of `Upload2`), with the chain and the nodes |
| `FileUpload` | what an upload promises |
| `UploadProperties` | invariants, refinement of `FileUpload`, fairness, liveness, inductive strengthenings |
| `UploadProofs`, `UploadOrderProofs` | proofs, the second building on the first |
| `CreateFileUploads`, `CreateFileProofs` | one call of `CreateFileUploads`; proofs |
| `BlockUpload` | one call of `uploadChunk` |
| `Download`, `DownloadProofs` | one call of `Download`, `Download2` or `DownloadArchival`; proofs |
| `FileDownload` | what a download promises |
| `ArchivalMetadata` | one call of `ArchivalMetadata`; proofs in `DownloadProofs` |
| `Operations`, `OperationsProofs` | concurrent calls that change buckets and files, with the contract; proofs |
| `ConnectionPool` | `get` and `close` |
| `NodesProofs` | proofs about `ConnectionPool` and `BlockUpload` |
| `StreamEnc` | encryption of the chunks of `Upload2` in their buffer, and decryption |
| `ErasureCode` | the Reed-Solomon library as it is used: a code over a small field |
| `ChunkCoding`, `StripeCoding` | a chunk wrapped, coded and extracted; a chunk coded by stripes |
| `ChunkLayout` | lengths and capacities of a chunk from `New` to the download |
| `Memtree` | the padded reader, the tree in its buffer, the proof of a leaf |
| `CodingMath` | the arithmetic these share |
| `CodingProofs` | proofs about `StreamEnc` and `ChunkLayout` |
| `Deployment` | `DeployContracts`, `UpgradeStorage` |
| `ChainReader` | batched reads of blocks and receipts; both parsers of calldata |
| `Keystore` | the wallets of the command line |
| `StorageCommands` | the bucket and file commands of the command line |
| `ToolsProofs` | proofs about these four |
| `MCUpload`, `MCDownload`, `MCOperations`, `MCNodes`, `MCCoding`, `MCTools` | instances for TLC |

How state and actions correspond to the code, where it is not obvious:

### `UploadPipeline`

The variables fall into the groups of the code: the call in progress (`phase`, `result`,
`isContinuation`, the contexts), `uploadState` (`preCreatedChunks`, `chunkCount`,
`actualFileSize`, `dagLinks`, `isCommitted`) and the public counter `chunksCounter`, the locals
of each goroutine with a program counter, the channel `waitTransactionsCh` (`waitCh`), and, as
external parts, the contract (`txs`, `commits`, `filled`) and the nodes (`stored`).

* The stream is `NumChunks` chunks; sizes and positions are counted in chunks.  The code takes
  the position at which a resumed call reads on from `actualFileSize` and the index it files
  the next chunk under from `chunkCount`; the model keeps both, so that they can disagree.
* A goroutine's `defer close(ch)` is its program counter reaching `done`.  A send on the
  unbuffered channel is one step with its receiver; a send on `waitTransactionsCh` is either
  into the buffer or, while that is empty, straight to a waiting receiver.  Where the code
  selects between `chunkCtx.Done()` and a channel, both actions are enabled, as in Go.
* `gErr` is the errgroup's cancellation, `ctxDone` the caller's; any operation under the
  context fails when either holds (`Fails`).
* A disturbance (`Disturb`) is an error that comes from outside: of the reader, a contract
  query, a send that did not or did reach the chain, a receipt, a block, a reverting
  transaction, the caller's cancellation.  `MaxFaults` bounds their number and `Faults` their
  kinds.  The nonce conflicts with other uploads of the same account are among the errors of a
  send.
* `WithRetry.Do` is `Retry`: a bounded count of attempts, given up when the context is done.
  Its back-off is time, which the model does not have.  Queries of the contract fail once, after
  their retries.
* `Upload` may be called again after every return, with a fresh reader over the same stream: the
  code resumes by seeking, or by skipping bytes from the reader's start, so a reader that has
  been read from is not a state it supports.
* The contract (external) refuses an `AddFileChunks` that names a chunk it has, and a
  `CommitFile` on a file that is committed or not filled; this is read off the code's use of
  it and its error table (`private/ipc/errors.go`).

The bytes of a chunk are in the coding modules, the goroutines, limit and counters of its
blocks in `BlockUpload`.

### `BlockUpload`

`Launch` is `g.Go` under `SetLimit`; a block is a stream of messages of `PartSize`.  A node may
refuse a stream at any message: the client notices at a later `Send` (`io.EOF`), or at
`CloseAndRecv`, which has the reason.  A resumed call forgives the refusal of a block that the
contract has already.  The code's counter of bytes is kept as what each block has added to it, so
that a block counted twice cannot hide behind one that is missing.

### `CreateFileUploads`

One worker per parameter, at most `FileConcurrency` at once.  Each closure's two accesses to
`err` (assigning the call's error, then returning it, with `isRetryableTxError(err)` read in
between) are steps of their own, since nothing orders them between workers; each read sees the
last write.  (Under the Go memory model the race permits worse.)  `TakeNonce` and `CreateFile`
are two steps under the mutex, as the binding reads the pending nonce before it sends.
`OtherTransaction` is any other sender of the account, such as an `Upload`, which makes a
`MultiUpload`, and so a mutex, of its own.

### `Download` and `ArchivalMetadata`

The creator and the processor are the two goroutines of the errgroup, `queue` the channel
between them, and `fetch` the state of the goroutine of every block; `arrived` is the order in
which blocks came through the channel of the chunk, with their positions.  A step takes the
errgroup's context and the chunk's into account where the code passes it on; a request whose
context has ended may still have been answered.  A fault is an error of a node or a provider,
data that is not that of the block, or an error of the writer, which may have written a part.
Whether wrong data is noticed depends on the call: `DownloadArchival` compares the CID,
decryption authenticates, erasure coding notices what its parity allows (`CanDetect`).

### `Operations`

A client's call is its reads, its attempts at a transaction and the wait for the receipt.
`Prepare` reads the nonce, so a transaction of another client in between makes it stale; a
transaction may be accepted and its answer lost; the contract keeps arrays, and a deletion moves
the last element.  `CreateBucket` and `CreateFile` send inside `WithRetry.Do`, the others once.

### Coding

`StreamEnc` keeps the buffer as a function from positions to symbolic bytes and does what
`Encrypt` and `DecryptAllBlocks` do block by block: a block moved over another before it is
sealed or opened is lost in the model as it would be in the code.  A sealed block opens to its
plaintext under its nonce only.  `ErasureCode` is a Reed-Solomon code over a field of five
elements, with the library's behaviour towards the capacity behind a slice.  `ChunkLayout` has
lengths only, and the settings `New` accepts.  In `Memtree` a hash is the pair it is of.

### Tools

`Keystore` splits a command where another process can come between: `Stat`, opening with
truncation, writing; a command may be killed.  In `StorageCommands` a command is one step, with
the flags that are given; what it leaves behind when it fails half-way is part of the step.
`Deployment` sends the next transaction after the receipt of the last; `ChainReader` answers
the requests of a batch one by one while the chain grows.

## The runs

Each run combines what is small enough to be checked together.  A behaviour of `MCDownload`,
`MCNodes`, `MCCoding` and `MCTools` chooses one of its components first (`mode`) and stays in it.

| Run | Properties | Shows |
|---|---|---|
| `upload` | `TypeOK`, `StreamOrder`, `NoChunkLost`, `UploadAfterRegistration`, `InFlight`, `CommitWholeFile`, `FreshCallNeverRefills`, `ImplementsFileUpload`, `CallEnds`, `EventuallyCommitted` | up to four calls on one object, cut anywhere: what reaches contract and nodes is the file, in order, once and no earlier than it may; every call ends; resuming gets the file committed |
| `create` | `OneResultEach`, `NonceFresh`, `UploadMeansCreated`, `CallReturns` | every file gets one outcome, no nonce is used twice, a reported upload was created, the call returns |
| `download` | `OnlyRightData`, `RightDataAccepted`, `CountersAgree`, `ListedInPlace`, `Promised`, `CallsReturn` | chunks are written whole, right and in order, or the call fails; and it returns |
| `operations` | `NilIsOwnEffect`, `ErrorMeansNoEffect`, `IndexRefusedOnlyIfStale`, `GivesUpOnNonceLate`, `CallsReturn` | what a call returns is true of the chain, whatever others do between its steps |
| `nodes` | `PoolConsistent`, `ReportsStored`, `ResumeNotRefused`, `AllReturn` | the pool loses and doubles no connection; the result and the counters of an upload of blocks are what the nodes have |
| `coding` | `CiphertextSize`, `RoundTrip`, `NoncesDistinct`, `RecoverableIffEnoughLeft`, `NeverWrong`, `ChunkFits`, `ProofsSound` | what comes back is the chunk, or an error; every setting of `New` leaves room in the buffer; a proof holds for its leaf only |
| `tools` | `WalletsKept`, `CommandsTruthful`, `DeploymentTruth`, `ReaderTruth` | wallets, commands, deployments and readers report what is there |
| `upload_double_count` | `ChunksCountedOnce` (violated) | finding 1 |
| `upload_already_committed` | `AlreadyCommittedIsTrue` (violated) | finding 2 |
| `create_concurrent` | `IndependentErrors` (violated) | finding 3 |
| `ec_stripes_padded` | `ExtractsOriginal` (violated) | finding 4 |

Bounds, and why they are enough:

* `upload`: three chunks in batches of two, so that there is a full batch, a partial last one
  and a batch boundary inside the stream; a channel of capacity one, so that it is both full and
  empty; one block per chunk (the number of blocks matters to `uploadChunk`, see `nodes`); four
  calls and three disturbances of any kind, so that a resumed call can be interrupted in its turn
  and again, and a last one finish; one retry, so that an attempt is repeated or given up.
* `create`: three files and two workers, so that two run while one waits for its turn; one of the
  files in a bucket that does not exist; one foreign transaction; the caller may cancel.
* `download`: two chunks of three blocks with two goroutines, so that launching waits; a channel
  of capacity one (nodes) and of none (archive); a range that does not start at the file's
  start; two faults.  From nodes the chunks are encrypted, from the archive they are not.
* `operations`: three clients that share a bucket or a file in every combination of calls, over
  empty and filled arrays in which a deletion moves another element; one retry and one fault.
* `nodes`: three calls of `get`, two of one address, and two of `close`; three blocks, of one
  message, two, and one and a bit, with two goroutines and a fault.
* `coding`: sizes scaled down with their relations kept (16 for 32 KiB, a header that is no
  multiple of the number of data shards, a tag of 4), every target from one block to three and
  every length of a chunk in it; nonces that wrap; two data and two parity shards with up to two
  damaged; every setting of up to six blocks with parity -1..4, including those `New` refuses;
  trees of up to eight leaves.
* `tools`: three wallet commands on two names; two buckets and two uploads with all flags; a chain
  of two blocks read by two requests.

Deadlock is checked except in `download`, `operations` and `nodes`, where a behaviour may stop
because the calls have all returned; that they return is a property there.

Fairness.  Each goroutine, each client, mining and the nodes' answers are weakly fair: the Go
scheduler runs every runnable goroutine, and chain and nodes are assumed to go on or the
request's context to end.  In the upload pipeline only steps without a disturbance are fair, so no
failure is ever forced, or relied on.  `PersistentSpec` adds a caller that calls again.  Taking
the mutex of `CreateFileUploads` is strongly fair, as Go's mutex does not starve a waiter.

`EventuallyCommitted` promises a commit unless a transaction has been reverted.  After that the
upload is stuck: the chunks are remembered under a transaction that will never succeed, every
later call waits for that first, and nothing in the code drops or resends it.  A lost answer to
`AddFileChunks` leads there too, as the second attempt registers the same chunks.

## What the runs found

1. `upload_double_count`: on a continuation the waiter lists the remembered chunks
   (`multi_upload.go:371`) while the reader already records new ones.  A batch recorded before
   the snapshot is in it and in the channel, so its chunks are uploaded twice and counted twice,
   though the counters are said to be "the number of chunks ... processed" (`model.go:306`).
   Nothing else breaks: the second upload is forgiven because the call is a continuation.
2. `upload_already_committed`: `isCommitted` is set before the receipt of `CommitFile`
   (`multi_upload.go:485`).  If the transaction reverts, the next call is refused with "file is
   already committed" (`:245`), which is not so.
3. `create_concurrent`: the closures of the workers assign the function's named result `err`
   (`multi_upload.go:114`, `:131`), one variable for all.  A worker can report another's error,
   or miss its own and dereference a nil transaction (`:141`), where a test says "results contain
   independent errors for each file creation failure" (`multi_upload_test.go:360`).
4. `ec_stripes_padded`: `ExtractDataRaw` does not use the size it is given
   (`erasure_code.go:149`) and returns the padding of the shards with the data, where its comment
   says "originalSize must be the exact byte count" (`:121`); with a number of data blocks that
   does not divide a stripe `Download2` cannot decrypt what `Upload2` stored.

Met while modelling, and excluded from the properties by an explicit condition in their text or
an assumption: the maximum of `MaxPlaintextSizeForTarget` for a target that leaves room for a tag
only (`streamenc.go:158`), blocks that cannot be missing in `Download2` although its comment
expects it (`sdk_ipc_upload_download2.go:533`), chunks of more than 256 or 1024 blocks
(`dag.go:145`), and two wallet commands at once (`wallet.go:164`).  `PROJECT.json` quotes them.

`MultiUpload` in `sdk_ipc.go:69-76` lacks its closing brace in this commit; it is read as if it
had one.

## What is proved

TLAPS checks the following for every value of the constants that satisfies the assumption of the
module (`PipelineAssumption`, the assumption of `CreateFileUploads`, `DownloadAssumption`, ...:
sizes and bounds are natural numbers, limits and batch sizes positive, sets of blocks finite and
not empty).  No bound on calls, faults, chunks or blocks is used.

| Theorem | Module | Statement |
|---|---|---|
| `TypeCorrect` | `UploadProofs` | `Spec => []TypeOK` |
| `StreamCorrect` | `UploadProofs` | `Spec => []StreamOrder` |
| `NoChunkLostCorrect` | `UploadProofs` | `Spec => []NoChunkLost` |
| `UploadAfterRegistrationCorrect` | `UploadProofs` | `Spec => []UploadAfterRegistration` |
| `InFlightCorrect` | `UploadOrderProofs` | `Spec => []InFlight` |
| `CommitWholeFileCorrect` | `UploadOrderProofs` | `Spec => []CommitWholeFile` |
| `FreshCallNeverRefillsCorrect` | `UploadOrderProofs` | `Spec => []FreshCallNeverRefills` |
| `UploadImplementsFileUpload` | `UploadOrderProofs` | `Spec => ImplementsFileUpload` |
| `CreateInvariant` | `CreateFileProofs` | its inductive invariant |
| `OneResultForEach`, `NonceStaysFresh`, `UploadsAreCreated` | `CreateFileProofs` | `Spec => []OneResultEach`, `[]NonceFresh`, `[]UploadMeansCreated` |
| `DownloadTypes` | `DownloadProofs` | `Spec => []TypeOK` |
| `WrongDataIsNotWritten`, `RightDataIsAccepted` | `DownloadProofs` | `Spec => []OnlyRightData`, `[]RightDataAccepted` |
| `DownloadKeepsPromise` | `DownloadProofs` | `Spec => Promised` |
| `DownloadCountsAgree` | `DownloadProofs` | `Spec => []CountersAgree` |
| `OperationsSafe` | `OperationsProofs` | its inductive invariant |
| `NilOwn`, `ErrorNoEffect`, `IndexStale`, `GivesUpLate` | `OperationsProofs` | `Spec => []NilIsOwnEffect`, `[]ErrorMeansNoEffect`, `[]IndexRefusedOnlyIfStale`, `[]GivesUpOnNonceLate` |
| `PoolInvariant`, `PoolStaysConsistent` | `NodesProofs` | its inductive invariant; `PoolSpec => []PoolConsistent` |
| `BlockUploadSafe` | `NodesProofs` | its inductive invariant |
| `ReportsStoredAlways`, `ResumeNotRefusedEver` | `NodesProofs` | `Spec => []ReportsStored`, `[]ResumeNotRefused` |
| `BlocksListedInPlace` | `DownloadProofs` | `MetaSpec => []ListedInPlace` |
| `WalletsStayKept` | `ToolsProofs` | `Spec => []WalletsKept` |
| `DeploymentTrue` | `ToolsProofs` | `DeploySpec => []DeploymentTruth` |
| `CommandsStayTruthful` | `ToolsProofs` | `CommandSpec => []CommandsTruthful` |
| `ReaderStaysTruthful` | `ToolsProofs` | `ReaderSpec => []ReaderTruth` |
| `ChunksFit` | `CodingProofs` | `LayoutSpec => []ChunkFits` |
| `CiphertextsFit`, `NoncesStayDistinct`, `ChunksRoundTrip` | `CodingProofs` | `StreamSpec => []CiphertextSize`, `[]NoncesDistinct`, `[]RoundTrip` |

So every safety property that the runs `upload`, `create`, `download`, `operations`, `nodes` and
`tools` check is proved, and of the run `coding` all but `RecoverableIffEnoughLeft`, `NeverWrong`
and `ProofsSound`.  The assumptions on the sizes of the coding are those of the constants in
the code: a tag is as long as a byte for each data block (16 and 16), a block of the stream is a
multiple of that and has room for more than header and tag, and no target is more than the
counter in the nonces can number blocks for (2^32 of 32 KiB, while a header has four bytes for the
size).

The arguments.  **Upload.**  `TypeOK` is inductive; its last parts (every transaction a channel, a
map or a goroutine names has been sent) are what later proofs need to look a transaction up.
The others are strengthened step by step (all in `UploadProperties`):

* `StreamOrder` needs `ReaderAligned`, which ties the reader's locals to `uploadState`: the batch
  it builds starts where the recorded chunks end, and while it records a batch the chunks it
  has recorded are counted (`StreamInv`).
* `NoChunkLost` needs `BlocksDone`: the blocks the uploader no longer has to send are stored
  unless one failed, and what the contract knows to be stored is (`StoredInv`).
* `UploadAfterRegistration` needs `TxsNamed` (every map entry names a transaction that carries
  the chunk) and `HandsOverRegistered` (what the waiter is about to hand over has succeeded)
  (`RegisteredInv`).
* `InFlight` needs `HandOverOrder`, the order in which goroutines end when none has failed: the
  reader, then the waiter with the channel empty, then the uploader (`FlightInv`).
* `CommitWholeFile` needs `StreamRead` (a reader that ends without error has read all) and
  `CountedRegistered` (a counted chunk is registered or still remembered): at the commit nothing
  is remembered, so everything is registered, and filled as the contract says (`CommitInv`).
* `FreshCallNeverRefills` needs the order of the whole way from the reader to the uploader:
  `ChannelOrdered` and `UploadedInOrder`, by which everything stored is behind everything still
  under way (`FreshInv`).
* The refinement rests on all of them: a batch that is mined is one of the stream
  (`StreamRead`), blocks are stored of registered chunks, and a commit succeeds on a whole file.

**Creation.**  A worker's result is set by itself alone, and while it holds the mutex between
reading the nonce and sending nobody of the batch sends.

**Download.**  `BlockInv` says what the goroutines of the blocks leave behind, `DataInv` follows the
data from there to the writer; `ChannelInOrder` says that the channel holds exactly the chunks
between those taken off it and the one the creator is at, `EndsComplete` that a goroutine that
ends without a failure has done its work, and with them each step is one of `FileDownload` or a
stutter.  The counters need `InOrder` (the goroutines of a chunk are started block by block, so
none is started twice) and `CounterInv`: what is counted is the blocks of the chunks written and
those delivered of the chunk at hand.  Of `ArchivalMetadata`, the channel holds an answer of every
block whose goroutine has ended, unless one has failed, and no others (`AnswersInv`); so the answer
that is looked up for a position is that of the block, in whichever order they came.

**Operations.**  The invariant is one of the chain (`ChainInv`: a transaction is pending until
it is mined, and names what its client asked for) and one of each client.  A step of a client leaves what
the invariant says of another alone, or adds a transaction to the chain, which only takes away
from what is claimed.  Of its own transactions a client has at most the one it knows of, unless
an answer was lost (`EffectInv`); the index it holds is that of the element, or somebody has
changed the array since (`IndexInv`); and each attempt it lost to its nonce is matched by another
call's transaction, or by one of its own whose answer was lost (`NonceInv`).  That second case was
missing in an earlier form of `GivesUpOnNonceLate`: it held within the bounds of the run, the
induction failed, and TLC refuted it with two retries and two faults.

**Pool.**  The lock keeps its holder alone; within it the map holds exactly the open connections.

**Block upload.**  The parts of a stream abut up to the byte sent last (`Parts`); a stream is closed
before its end only when its node has refused it (`ClosedWhole`), so what a node stores is whole;
a goroutine ends without an error only when the block is stored, now or before (`EndsStored`); no
goroutine of a resumed call fails, and no context ends, before the first fault
(`ErrorHasCause`); and the counters are those of the blocks acknowledged to this call (`Counted`).

**Wallets.**  A command that began when another had ended well for the same name finds the file, in
a directory that can be searched (`ThereInv`), and so never opens it (`BeforeInv`); what is whole in
a file, or has been read, is the key of a command that has ended well (`WholeInv`).  The proof
needs that no private key is one of the values that mark a missing or torn file, which
`KeystoreAssumption` says.

**Deployments.**  A transaction is sent only after the receipts of all before it have been seen, so
they are on the chain (`ChainHasInv`), and `NeedsComeFirst` says that their order is one in which
each finds what it refers to; the client has the addresses of just these (`ClientHasInv`).

**Commands.**  A file that is stored under a pair of names can be read back to the names and the
content it was uploaded with, by whoever has the key it was encrypted under (`NamesMatch`); each
command is then a step that ends with what is there, or fails (`CommandInv`).

**Reader.**  An answer that says a block is missing was given of a block that was not there when
the call was made, and one that says it was found is of a block that is still there (`AnswersInv`).
What is parsed is parsed from the calldata of a block on the chain (`ParsedInv`); and that
`ParseAddChunksTx` undoes `AddFileChunks` is a lemma about both (`UploadParses`), by the width of
the integers and the prefix that is put before a digest.

**Layout.**  With what `Valid` leaves of the settings the sizes have the relations that the buffer
needs (`SizesOfSetting`, `BufferSizes`), and each phase hands on the length the next one expects
(`LayoutInv`): shards are as many as the setting says because a block is at least one byte, and hold
the wrapped data because their size is rounded up.

**Stream encryption.**  Half of the proof is arithmetic: where blocks and their plaintext start
(`Rooms`, `PlaintextStarts`, `DataSizes`), that a sealed block ends where the next one starts, and
the last one with the ciphertext (`SealedSizes`, `SealedBlocksApart`), that no target is outgrown
(`TargetRoom`, `TargetFits`) and that numbers of blocks stay below the values of the counter
(`NoncesDiffer`).  The rest is `StreamInv`, which says what lies where between two turns of a loop.
While the blocks from `NumBlocks - step` on are sealed, the plaintext of those before is in its place:
a plaintext starts no later than its block, so what is sealed over it is the plaintext of blocks
that are done.  While the blocks before `step` have been opened and compacted, those from `step` on lie
where they arrived, each byte as it was sealed or damaged, and `Open` takes a block exactly when it is
all as it was sealed (`OpensSealed`).

Each proof first shows, by lemmas named `...Change`, which actions can disturb the variables
concerned, and then treats those actions.  The strengthenings were checked with TLC first.

Only model-checked: all liveness (`CallEnds`, `EventuallyCommitted`, `CallReturns`, `CallsReturn`,
`AllReturn`), since the prover handles neither fairness nor `ENABLED`; and three properties of the
run `coding`.  `RecoverableIffEnoughLeft` and `NeverWrong` rest on two codewords with `DataBlocks` equal
symbols being equal, which is an induction over the degree of a polynomial, and `ProofsSound` on the
levels of a tree, which are a recursive function, and on a fold over the nodes of a proof; induction
over data is beyond the installed provers.

## Not modelled

* Generated code (`private/ipc/contracts`, `private/pb`): about 14000 of the repository's 21870
  lines of implementation.  It is the binding to the contract and to the nodes, and appears in the
  model as the external contract and nodes.  Of the rest more than half of the lines are mapped.
* Code that keeps no state and decides nothing: formatting of sizes and versions, the progress
  bar, flags and output of the command line, `wallet list` and `wallet balance`, the table of
  error hashes, logging, metrics and tracing, test helpers.
* The ciphers, hashes, CIDs, protobuf and ABI encodings: libraries, symbolic where a property
  depends on them.
* Time: back-offs and polling intervals take any time.  `BaseDelay * 2^attempt` does not overflow
  with the attempts the SDK sets.
