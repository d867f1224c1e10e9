---------------------------- MODULE UploadPipeline ----------------------------
(***************************************************************************)
(* One resumable file upload: every call of Upload on one IPCFileUpload,    *)
(* from the first to the last, as MultiUpload.uploadSingleFile runs it      *)
(* (sdk/multi_upload.go), with the uploadState it leaves behind for the     *)
(* next call (sdk/model.go) and the chain and storage nodes it talks to.    *)
(*                                                                          *)
(* A call runs three goroutines joined by an errgroup:                      *)
(*   reader   cuts the stream into chunks, sends one AddFileChunks          *)
(*            transaction per batch, records the batch in uploadState;      *)
(*   waiter   waits for each transaction's receipt, then hands the chunks   *)
(*            of the batch over, one by one;                                *)
(*   uploader stores the blocks of one chunk at a time on storage nodes.    *)
(* The reader feeds the waiter through a channel of ChunkBuffer batches,    *)
(* the waiter feeds the uploader through an unbuffered one.  When all three *)
(* have returned without error the call waits until the contract reports    *)
(* the file filled and sends CommitFile.                                    *)
(*                                                                          *)
(* Upload2 (sdk/sdk_ipc_upload_download2.go) is the same program: the same   *)
(* goroutines, channels and uploadState, with createChunkUpload2 for         *)
(* createChunkUpload, its own checks of the options before a call starts and *)
(* no mutex, which a call on a file of its own never waits for.  Everything  *)
(* below is true of both.                                                    *)
(*                                                                          *)
(* The stream is NumChunks chunks long; positions in it, and the file       *)
(* sizes, are counted in chunks.  A chunk carries its index (what the       *)
(* contract files it under) and its offset (where in the stream its bytes   *)
(* come from): the code computes them from different counters.              *)
(***************************************************************************)
EXTENDS Integers, Sequences, FiniteSets

CONSTANTS
  NumChunks,    \* length of the stream, in chunks
  Block,        \* the blocks of a chunk
  BatchSize,    \* chunkBatchSize: chunks per AddFileChunks transaction
  ChunkBuffer,  \* chunkBuffer: capacity of waitTransactionsCh
  MaxRetries,   \* withRetry.MaxAttempts
  MaxUploads,   \* bound: calls of Upload the caller makes
  Faults,       \* the kinds of disturbance that may strike a call
  MaxFaults     \* bound: disturbances in a behaviour

FaultKind == {"read", "rpc", "send", "lost", "receipt", "block", "revert", "cancel"}

ASSUME PipelineAssumption ==
  /\ NumChunks \in Nat
  /\ IsFiniteSet(Block) /\ Block # {}
  /\ BatchSize \in Nat \ {0}      \* WithChunkBatchSize raises it to 1
  /\ ChunkBuffer \in Nat          \* WithChunkBuffer raises it to 0
  /\ MaxRetries \in Nat           \* New raises it to 0
  /\ MaxUploads \in Nat
  /\ Faults \subseteq FaultKind
  /\ MaxFaults \in Nat

VARIABLES
  \* the call in progress
  phase,            \* how far uploadSingleFile has come; "idle" between calls
  result,           \* what the last call returned
  isContinuation,   \* the call resumes an earlier one
  ctxDone,          \* the caller's context is cancelled
  gErr,             \* a goroutine of the errgroup returned an error
  tries,            \* failed attempts of the retry loop that is running
  attempt, faults,  \* calls made and disturbances so far (bounded)
  \* uploadState, which outlives the call
  preCreatedChunks, \* chunk index -> its transaction, a Go map
  chunkCount, actualFileSize,
  dagLinks,         \* offsets of the chunks linked to the DAG root, in order
  isCommitted,
  chunksCounter,    \* the public progress counter
  \* reader
  readerPc, chunkIndex, position, batch, stopReading, batchTx, recorded,
  waitCh,           \* waitTransactionsCh: the transactions of the batches in it
  \* waiter
  waiterPc, listed, waitTx, nextChunk,
  \* uploader
  uploaderPc, current, blocksLeft, blockFailed,
  \* chain and storage nodes (external)
  txs,              \* AddFileChunks transactions, in nonce order
  commits,          \* statuses of the CommitFile transactions, in nonce order
  stored,           \* <<chunk, block>> pairs a node has accepted
  filled            \* <<chunk, block>> pairs the contract knows to be stored

callVars     == <<phase, result, isContinuation, ctxDone, gErr>>
boundVars    == <<attempt, faults>>
stateVars    == <<preCreatedChunks, chunkCount, actualFileSize, dagLinks>>
progressVars == <<isCommitted, chunksCounter>>
readerVars   == <<readerPc, chunkIndex, position, batch, stopReading, batchTx, recorded>>
waiterVars   == <<waiterPc, listed, waitTx, nextChunk>>
uploaderVars == <<uploaderPc, current, blocksLeft, blockFailed>>
chainVars    == <<txs, commits>>
nodeVars     == <<stored, filled>>

vars == <<callVars, tries, boundVars, stateVars, progressVars, readerVars, waitCh,
          waiterVars, uploaderVars, chainVars, nodeVars>>

-----------------------------------------------------------------------------
(* Chunks and transactions *)

Batch  == [start : Nat, offset : Nat, len : Nat]
Status == {"pending", "success", "reverted"}
Tx     == [start : Nat, offset : Nat, len : Nat, status : Status]

EmptyBatch(i, p) == [start |-> i, offset |-> p, len |-> 0]

ChunksOf(b) == b.start .. (b.start + b.len - 1)

\* The AddFileChunks call of a batch: its chunks, and the index of the first.
AddFileChunksTx(b) ==
  [start |-> b.start, offset |-> b.offset, len |-> b.len, status |-> "pending"]

\* The chunks the contract has recorded for the file.
Registered ==
  UNION {ChunksOf(txs[t]) : t \in {u \in DOMAIN txs : txs[u].status = "success"}}

FileCommitted == \E i \in DOMAIN commits : commits[i] = "success"

\* IsFileFilled: every block of every recorded chunk is filled.
IsFileFilled == Registered \X Block \subseteq filled

LowestKeys(m) == {c \in DOMAIN m : \A d \in DOMAIN m : c <= d}
Without(m, c) == [d \in DOMAIN m \ {c} |-> m[d]]
With(m, c, t) == [d \in DOMAIN m \cup {c} |-> IF d = c THEN t ELSE m[d]]
EmptyMap == [c \in {} |-> 0]

-----------------------------------------------------------------------------
(* Errors, cancellation and the disturbances behind them *)

\* chunkCtx.Done(): the caller cancelled, or a goroutine returned an error.
Interrupted == ctxDone \/ gErr

Disturb(kind) == /\ kind \in Faults
                 /\ faults < MaxFaults
                 /\ faults' = faults + 1
                 /\ UNCHANGED attempt

\* An operation under the context fails once it is done, and may fail anyway.
Fails(kind) == \/ Interrupted /\ UNCHANGED boundVars
               \/ Disturb(kind)

\* WithRetry.Do after a retryable error: back off and call the operation again.
RetryUnbounded == ~Interrupted /\ tries' = tries + 1   \* mutant
Retry == /\ tries < MaxRetries
         /\ ~Interrupted
         /\ tries' = tries + 1

\* WaitForTx returns nil: the receipt is there and has status 1.
AnyReceipt(status) == status # "pending"               \* mutant
Confirmed(status) == status = "success"

EndCall(r) == /\ phase' = "idle" /\ result' = r
              /\ isContinuation' = FALSE /\ ctxDone' = FALSE /\ gErr' = FALSE

-----------------------------------------------------------------------------
(* The initial state: CreateFileUpload has created the file on the chain and *)
(* returned a new IPCFileUpload.                                            *)

Init ==
  /\ phase = "idle" /\ result = "none" /\ isContinuation = FALSE
  /\ ctxDone = FALSE /\ gErr = FALSE /\ tries = 0 /\ attempt = 0 /\ faults = 0
  /\ preCreatedChunks = EmptyMap /\ chunkCount = 0 /\ actualFileSize = 0
  /\ dagLinks = <<>> /\ isCommitted = FALSE /\ chunksCounter = 0
  /\ readerPc = "off" /\ chunkIndex = 0 /\ position = 0 /\ batch = EmptyBatch(0, 0)
  /\ stopReading = FALSE /\ batchTx = 0 /\ recorded = 0 /\ waitCh = <<>>
  /\ waiterPc = "off" /\ listed = EmptyMap /\ waitTx = 0 /\ nextChunk = 0
  /\ uploaderPc = "off" /\ current = 0 /\ blocksLeft = {} /\ blockFailed = FALSE
  /\ txs = <<>> /\ commits = <<>> /\ stored = {} /\ filled = {}

-----------------------------------------------------------------------------
(* Start of a call *)

\* What a continuation takes over from the calls before it: where to go on in the
\* stream, the index of the next chunk, the chunks left behind.
ResumeFromStart == 0                                   \* mutant
ResumePosition == IF isContinuation THEN actualFileSize ELSE 0
ResumeIndex == IF isContinuation THEN chunkCount ELSE 0
NothingLeftBehind == EmptyMap                          \* mutant
LeftBehind == preCreatedChunks
AlwaysList == "list"                                   \* mutant
FirstWaiterStep == IF isContinuation THEN "list" ELSE "receive"

\* The caller calls Upload, with a fresh reader over the same stream.
StartUpload ==
  /\ phase = "idle" /\ attempt < MaxUploads
  /\ ~isCommitted
  /\ phase' = "resolve" /\ result' = "running"
  /\ isContinuation' = (chunkCount > 0)
  /\ attempt' = attempt + 1
  /\ UNCHANGED <<ctxDone, gErr, tries, faults, stateVars, progressVars, readerVars,
                 waitCh, waiterVars, uploaderVars, chainVars, nodeVars>>

RejectCommitted ==
  /\ phase = "idle" /\ attempt < MaxUploads
  /\ isCommitted
  /\ EndCall("alreadyCommitted")
  /\ attempt' = attempt + 1
  /\ UNCHANGED <<tries, faults, stateVars, progressVars,
                 readerVars, waitCh, waiterVars, uploaderVars, chainVars, nodeVars>>

\* GetBucketByName answers; the channels are made, the goroutines start.
StartGoroutines ==
  /\ phase = "resolve"
  /\ phase' = "pipeline"
  /\ readerPc' = "skip"
  /\ waiterPc' = FirstWaiterStep
  /\ uploaderPc' = "receive"
  /\ UNCHANGED <<result, isContinuation, ctxDone, gErr, tries, boundVars, stateVars,
                 progressVars, chunkIndex, position, batch, stopReading, batchTx,
                 recorded, waitCh, listed, waitTx, nextChunk, current, blocksLeft,
                 blockFailed, chainVars, nodeVars>>

\* A read of the contract fails (after its own retries) and with it the call.
QueryFails ==
  /\ phase \in {"resolve", "lookup", "poll"}
  /\ Fails("rpc")
  /\ EndCall("error")
  /\ UNCHANGED <<tries, stateVars, progressVars, readerVars,
                 waitCh, waiterVars, uploaderVars, chainVars, nodeVars>>

\* The caller cancels the context of the call.
Cancel ==
  /\ phase # "idle" /\ ~ctxDone
  /\ Disturb("cancel")
  /\ ctxDone' = TRUE
  /\ UNCHANGED <<phase, result, isContinuation, gErr, tries, stateVars, progressVars,
                 readerVars, waitCh, waiterVars, uploaderVars, chainVars, nodeVars>>

-----------------------------------------------------------------------------
(* The reader goroutine.  It closes waitTransactionsCh when it returns, so   *)
(* "the channel is closed" is readerPc = "done".                            *)

ReaderOther == <<phase, result, isContinuation, ctxDone, progressVars, waiterVars,
                 uploaderVars, nodeVars, commits>>

ReaderReturns(err) == readerPc' = "done" /\ gErr' = (gErr \/ err)

\* The chunk index and the stream position come from different fields.
SkipToPosition ==
  /\ readerPc = "skip"
  /\ chunkIndex' = ResumeIndex
  /\ position' = ResumePosition
  /\ batch' = EmptyBatch(chunkIndex', position')
  /\ readerPc' = "read"
  /\ UNCHANGED <<ReaderOther, gErr, tries, boundVars, stateVars, stopReading, batchTx,
                 recorded, waitCh, txs>>

\* readUpTo returns bytes; createChunkUpload encodes them and announces the
\* chunk to the node.
ReadChunk ==
  /\ readerPc = "read"
  /\ position < NumChunks
  /\ batch' = [batch EXCEPT !.len = @ + 1]
  /\ chunkIndex' = chunkIndex + 1 /\ position' = position + 1
  /\ readerPc' = IF batch.len + 1 = BatchSize THEN "add" ELSE "read"
  /\ UNCHANGED <<ReaderOther, gErr, tries, boundVars, stateVars, stopReading, batchTx,
                 recorded, waitCh, txs>>

\* readUpTo returns io.EOF: an error for an empty file, else the last batch.
ReadEOF ==
  /\ readerPc = "read"
  /\ position >= NumChunks
  /\ IF chunkIndex = 0 \/ batch.len = 0
     THEN ReaderReturns(chunkIndex = 0) /\ UNCHANGED stopReading
     ELSE readerPc' = "add" /\ stopReading' = TRUE /\ UNCHANGED gErr
  /\ UNCHANGED <<ReaderOther, tries, boundVars, stateVars, chunkIndex, position, batch,
                 batchTx, recorded, waitCh, txs>>

\* The stream, the encoding or the announcement of a chunk fails.
ReadFails ==
  /\ readerPc \in {"skip", "read"}
  /\ Fails("read")
  /\ ReaderReturns(TRUE)
  /\ UNCHANGED <<ReaderOther, tries, stateVars, chunkIndex, position, batch, stopReading,
                 batchTx, recorded, waitCh, txs>>

\* createBatchedChunkTransaction: the transaction is sent ...
AddFileChunks ==
  /\ readerPc = "add"
  /\ txs' = Append(txs, AddFileChunksTx(batch))
  /\ batchTx' = Len(txs) + 1
  /\ recorded' = 0
  /\ readerPc' = "record"
  /\ tries' = 0
  /\ UNCHANGED <<ReaderOther, gErr, boundVars, stateVars, chunkIndex, position, batch,
                 stopReading, waitCh>>

\* ... or an error comes back, of a transaction that was not sent ("send") or
\* that was, its answer lost ("lost").  A retryable error is retried.
AddFileChunksFails ==
  /\ readerPc = "add"
  /\ \/ Disturb("send") /\ UNCHANGED txs
     \/ Disturb("lost") /\ txs' = Append(txs, AddFileChunksTx(batch))
  /\ \/ Retry /\ UNCHANGED <<readerPc, gErr>>
     \/ ReaderReturns(TRUE) /\ tries' = 0
  /\ UNCHANGED <<ReaderOther, stateVars, chunkIndex, position, batch, stopReading,
                 batchTx, recorded, waitCh>>

\* preCreateChunk, for the next chunk of the batch.
PreCreateChunk ==
  /\ readerPc = "record"
  /\ preCreatedChunks' = With(preCreatedChunks, batch.start + recorded, batchTx)
  /\ chunkCount' = chunkCount + 1
  /\ actualFileSize' = actualFileSize + 1
  /\ dagLinks' = Append(dagLinks, batch.offset + recorded)
  /\ recorded' = recorded + 1
  /\ readerPc' = IF recorded + 1 = batch.len THEN "push" ELSE "record"
  /\ UNCHANGED <<ReaderOther, gErr, tries, boundVars, chunkIndex, position, batch,
                 stopReading, batchTx, waitCh, txs>>

\* The batch has been passed on: read the next one, or return.
NextBatch ==
  /\ IF stopReading THEN ReaderReturns(FALSE) ELSE readerPc' = "read" /\ UNCHANGED gErr
  /\ batch' = EmptyBatch(chunkIndex, position)

\* The batch goes into the channel's buffer ...
PushBatch ==
  /\ readerPc = "push"
  /\ Len(waitCh) < ChunkBuffer
  /\ waitCh' = Append(waitCh, batchTx)
  /\ NextBatch
  /\ UNCHANGED <<ReaderOther, tries, boundVars, stateVars, chunkIndex, position,
                 stopReading, batchTx, recorded, txs>>

\* ... or straight to the waiter, when that is ready to receive.
HandOverBatch ==
  /\ readerPc = "push" /\ waiterPc = "receive"
  /\ waitCh = <<>>
  /\ NextBatch
  /\ waitTx' = batchTx /\ waiterPc' = "wait"
  /\ UNCHANGED <<phase, result, isContinuation, ctxDone, tries, boundVars, stateVars,
                 progressVars, chunkIndex, position, stopReading, batchTx, recorded,
                 waitCh, listed, nextChunk, uploaderVars, chainVars, nodeVars>>

PushAborted ==
  /\ readerPc = "push" /\ Interrupted
  /\ ReaderReturns(TRUE)
  /\ UNCHANGED <<ReaderOther, tries, boundVars, stateVars, chunkIndex, position, batch,
                 stopReading, batchTx, recorded, waitCh, txs>>

-----------------------------------------------------------------------------
(* The waiter goroutine.  It closes fileUploadChunksCh when it returns.      *)

WaiterOther == <<phase, result, isContinuation, ctxDone, tries, stateVars, progressVars,
                 readerVars, chainVars, nodeVars>>

WaiterReturns(err) == waiterPc' = "done" /\ gErr' = (gErr \/ err)

\* The loop over the snapshot: on with the lowest index, or to the channel.
NextListed(m) ==
  IF DOMAIN m = {} THEN waiterPc' = "receive" /\ UNCHANGED nextChunk
  ELSE waiterPc' = "waitListed" /\ nextChunk' \in LowestKeys(m)

\* On a continuation: a snapshot of the chunks earlier calls left behind.
ListPreCreatedChunks ==
  /\ waiterPc = "list"
  /\ listed' = LeftBehind
  /\ NextListed(LeftBehind)
  /\ UNCHANGED <<WaiterOther, gErr, boundVars, waitCh, waitTx, uploaderVars>>

\* The transaction whose receipt the waiter is waiting for.
AwaitedTx == IF waiterPc = "waitListed" THEN listed[nextChunk] ELSE waitTx

ReceiveBatch ==
  /\ waiterPc = "receive" /\ waitCh # <<>>
  /\ waitTx' = Head(waitCh) /\ waitCh' = Tail(waitCh)
  /\ waiterPc' = "wait"
  /\ UNCHANGED <<WaiterOther, gErr, boundVars, listed, nextChunk, uploaderVars>>

\* The channel is closed and empty.
WaiterFinishes ==
  /\ waiterPc = "receive" /\ waitCh = <<>> /\ readerPc = "done"
  /\ WaiterReturns(FALSE)
  /\ UNCHANGED <<WaiterOther, boundVars, waitCh, listed, waitTx, nextChunk, uploaderVars>>

\* WaitForTx returns.
TxConfirmed ==
  /\ waiterPc \in {"waitListed", "wait"}
  /\ Confirmed(txs[AwaitedTx].status)
  /\ waiterPc' = IF waiterPc = "wait" THEN "send" ELSE "sendListed"
  /\ nextChunk' = IF waiterPc = "wait" THEN txs[AwaitedTx].start ELSE nextChunk
  /\ UNCHANGED <<WaiterOther, gErr, boundVars, waitCh, listed, waitTx, uploaderVars>>

\* WaitForTx fails: status 0, an error of the node, or the context.
WaitForTxFails ==
  /\ waiterPc \in {"waitListed", "wait"}
  /\ \/ txs[AwaitedTx].status = "reverted" /\ UNCHANGED boundVars
     \/ Fails("receipt")
  /\ WaiterReturns(TRUE)
  /\ UNCHANGED <<WaiterOther, waitCh, listed, waitTx, nextChunk, uploaderVars>>

\* Handing a chunk over fileUploadChunksCh is one step with the uploader.
UploaderTakes(c) ==
  /\ uploaderPc = "receive"
  /\ uploaderPc' = "blocks" /\ current' = c /\ blocksLeft' = Block /\ blockFailed' = FALSE

SendListedChunk ==
  /\ waiterPc = "sendListed"
  /\ UploaderTakes(nextChunk)
  /\ listed' = Without(listed, nextChunk)
  /\ NextListed(Without(listed, nextChunk))
  /\ UNCHANGED <<WaiterOther, gErr, boundVars, waitCh, waitTx>>

\* The loop over the chunks of a batch goes on.
MoreChunksButLast(c, t) == c + 1 \in ChunksOf(txs[t])  \* mutant
MoreChunks(c, t) == c \in ChunksOf(txs[t])

SendBatchChunk ==
  /\ waiterPc = "send"
  /\ UploaderTakes(nextChunk)
  /\ nextChunk' = nextChunk + 1
  /\ waiterPc' = IF MoreChunks(nextChunk', waitTx) THEN "send" ELSE "receive"
  /\ UNCHANGED <<WaiterOther, gErr, boundVars, waitCh, listed, waitTx>>

WaiterAborted ==
  /\ waiterPc \in {"receive", "send", "sendListed"} /\ Interrupted
  /\ WaiterReturns(TRUE)
  /\ UNCHANGED <<WaiterOther, boundVars, waitCh, listed, waitTx, nextChunk, uploaderVars>>

-----------------------------------------------------------------------------
(* The uploader goroutine: uploadChunk stores the blocks of a chunk, in any  *)
(* order, and returns when every block has an outcome.                       *)

UploaderOther == <<phase, result, isContinuation, ctxDone, tries, isCommitted,
                   chunkCount, actualFileSize, dagLinks, readerVars, waitCh,
                   waiterVars, chainVars, filled>>

UploaderReturns(err) == uploaderPc' = "done" /\ gErr' = (gErr \/ err)

\* BlockAlreadyFilled is no error when resuming.
NothingForgiven == FALSE                               \* mutant
ForgivesFilled == isContinuation

\* uploadChunk returns nil.
BlocksTried == blocksLeft = {}                         \* mutant
ChunkStored == blocksLeft = {} /\ ~blockFailed

\* The node accepts the block, unless the contract already has it: then the
\* answer is BlockAlreadyFilled.
UploadBlock(b) ==
  /\ uploaderPc = "blocks" /\ b \in blocksLeft
  /\ blocksLeft' = blocksLeft \ {b}
  /\ IF <<current, b>> \in filled
     THEN blockFailed' = (blockFailed \/ ~ForgivesFilled) /\ UNCHANGED stored
     ELSE stored' = stored \cup {<<current, b>>} /\ UNCHANGED blockFailed
  /\ UNCHANGED <<UploaderOther, gErr, boundVars, preCreatedChunks, chunksCounter,
                 uploaderPc, current>>

\* The upload of a block fails, before or after the node has stored it; the
\* first failure cancels the context of the others.
UploadBlockFails(b) ==
  /\ uploaderPc = "blocks" /\ b \in blocksLeft
  /\ \/ blockFailed /\ UNCHANGED boundVars
     \/ Fails("block")
  /\ blocksLeft' = blocksLeft \ {b}
  /\ blockFailed' = TRUE
  /\ stored' \in {stored, stored \cup {<<current, b>>}}
  /\ UNCHANGED <<UploaderOther, gErr, preCreatedChunks, chunksCounter, uploaderPc, current>>

ChunkUploaded ==
  /\ uploaderPc = "blocks" /\ ChunkStored
  /\ preCreatedChunks' = Without(preCreatedChunks, current)
  /\ chunksCounter' = chunksCounter + 1
  /\ uploaderPc' = "receive"
  /\ UNCHANGED <<UploaderOther, gErr, boundVars, current, blocksLeft, blockFailed, stored>>

UploadChunkFails ==
  /\ uploaderPc = "blocks" /\ blocksLeft = {} /\ blockFailed
  /\ UploaderReturns(TRUE)
  /\ UNCHANGED <<UploaderOther, boundVars, preCreatedChunks, chunksCounter, current,
                 blocksLeft, blockFailed, stored>>

\* The channel is closed.
UploaderFinishes ==
  /\ uploaderPc = "receive" /\ waiterPc = "done"
  /\ UploaderReturns(FALSE)
  /\ UNCHANGED <<UploaderOther, boundVars, preCreatedChunks, chunksCounter, current,
                 blocksLeft, blockFailed, stored>>

UploaderAborted ==
  /\ uploaderPc = "receive" /\ Interrupted
  /\ UploaderReturns(TRUE)
  /\ UNCHANGED <<UploaderOther, boundVars, preCreatedChunks, chunksCounter, current,
                 blocksLeft, blockFailed, stored>>

-----------------------------------------------------------------------------
(* The end of a call *)

\* The goroutines and their locals are gone.
NoGoroutines ==
  /\ readerPc' = "off" /\ chunkIndex' = 0 /\ position' = 0 /\ batch' = EmptyBatch(0, 0)
  /\ stopReading' = FALSE /\ batchTx' = 0 /\ recorded' = 0 /\ waitCh' = <<>>
  /\ waiterPc' = "off" /\ listed' = EmptyMap /\ waitTx' = 0 /\ nextChunk' = 0
  /\ uploaderPc' = "off" /\ current' = 0 /\ blocksLeft' = {} /\ blockFailed' = FALSE

\* g.Wait.
Wait ==
  /\ phase = "pipeline"
  /\ readerPc = "done" /\ waiterPc = "done" /\ uploaderPc = "done"
  /\ IF gErr THEN EndCall("error")
     ELSE phase' = "lookup" /\ UNCHANGED <<result, isContinuation, ctxDone, gErr>>
  /\ NoGoroutines
  /\ UNCHANGED <<tries, boundVars, stateVars, progressVars, chainVars, nodeVars>>

AfterWaitOther == <<boundVars, stateVars, readerVars, waitCh, waiterVars, uploaderVars,
                    nodeVars, chunksCounter, txs>>

\* dagRoot.Build and GetFileByName.
GetFileByName ==
  /\ phase = "lookup" /\ phase' = "poll"
  /\ UNCHANGED <<AfterWaitOther, result, isContinuation, ctxDone, gErr, tries,
                 isCommitted, commits>>

\* IsFileFilled answers no: the call sleeps and asks again.
PollAgain == phase = "poll" /\ ~IsFileFilled /\ UNCHANGED vars

FileFilled ==
  /\ phase = "poll" /\ IsFileFilled
  /\ phase' = "commit"
  /\ UNCHANGED <<AfterWaitOther, result, isContinuation, ctxDone, gErr, tries,
                 isCommitted, commits>>

\* CommitFile is sent; the file counts as committed before the receipt.
CommitFile ==
  /\ phase = "commit"
  /\ commits' = Append(commits, "pending")
  /\ isCommitted' = TRUE
  /\ phase' = "confirm" /\ tries' = 0
  /\ UNCHANGED <<AfterWaitOther, result, isContinuation, ctxDone, gErr>>

CommitFileFails ==
  /\ phase = "commit"
  /\ \/ Disturb("send") /\ UNCHANGED commits
     \/ Disturb("lost") /\ commits' = Append(commits, "pending")
  /\ \/ Retry /\ UNCHANGED callVars
     \/ EndCall("error") /\ tries' = 0
  /\ UNCHANGED <<stateVars, readerVars, waitCh, waiterVars, uploaderVars, nodeVars,
                 progressVars, txs>>

CommitConfirmed ==
  /\ phase = "confirm" /\ Confirmed(commits[Len(commits)])
  /\ EndCall("ok")
  /\ UNCHANGED <<AfterWaitOther, tries, isCommitted, commits>>

CommitNotConfirmed ==
  /\ phase = "confirm"
  /\ \/ commits[Len(commits)] = "reverted" /\ UNCHANGED boundVars
     \/ Fails("receipt")
  /\ EndCall("error")
  /\ UNCHANGED <<tries, stateVars, readerVars, waitCh, waiterVars, uploaderVars, nodeVars,
                 progressVars, chainVars>>

-----------------------------------------------------------------------------
(* The chain and the storage nodes (external) *)

ChainOther == <<callVars, tries, attempt, stateVars, progressVars, readerVars, waitCh,
                waiterVars, uploaderVars>>

\* The next AddFileChunks transaction is mined.  The contract refuses a chunk
\* it already has; anything else that reverts is a disturbance.
MineAddFileChunks ==
  \E t \in DOMAIN txs :
    /\ txs[t].status = "pending"
    /\ \A u \in 1 .. (t - 1) : txs[u].status # "pending"
    /\ LET fresh == ChunksOf(txs[t]) \cap Registered = {} IN
         \/ /\ txs' = [txs EXCEPT ![t].status = IF fresh THEN "success" ELSE "reverted"]
            /\ UNCHANGED faults
         \/ /\ fresh /\ Disturb("revert")
            /\ txs' = [txs EXCEPT ![t].status = "reverted"]
    /\ UNCHANGED <<ChainOther, commits, nodeVars>>

\* CommitFile succeeds once, on a file that is filled.
MineCommitFile ==
  \E i \in DOMAIN commits :
    /\ commits[i] = "pending"
    /\ \A j \in 1 .. (i - 1) : commits[j] # "pending"
    /\ LET valid == ~FileCommitted /\ IsFileFilled IN
         \/ /\ commits' = [commits EXCEPT ![i] = IF valid THEN "success" ELSE "reverted"]
            /\ UNCHANGED faults
         \/ /\ valid /\ Disturb("revert")
            /\ commits' = [commits EXCEPT ![i] = "reverted"]
    /\ UNCHANGED <<ChainOther, txs, nodeVars>>

\* A node reports a block it stores to the contract.
FillBlock ==
  \E s \in stored \ filled :
    /\ filled' = filled \cup {s}
    /\ UNCHANGED <<ChainOther, faults, stored, chainVars>>

-----------------------------------------------------------------------------
(* The system *)

Caller == StartUpload \/ RejectCommitted

Main == StartGoroutines \/ QueryFails \/ Wait \/ GetFileByName \/ PollAgain
        \/ FileFilled \/ CommitFile \/ CommitFileFails \/ CommitConfirmed \/ CommitNotConfirmed

Reader == SkipToPosition \/ ReadChunk \/ ReadEOF \/ ReadFails \/ AddFileChunks
          \/ AddFileChunksFails \/ PreCreateChunk \/ PushBatch \/ HandOverBatch
          \/ PushAborted

Waiter == ListPreCreatedChunks \/ ReceiveBatch \/ WaiterFinishes \/ TxConfirmed
          \/ WaitForTxFails \/ SendListedChunk \/ SendBatchChunk \/ WaiterAborted

Uploader == (\E b \in Block : UploadBlock(b) \/ UploadBlockFails(b))
            \/ ChunkUploaded \/ UploadChunkFails \/ UploaderFinishes \/ UploaderAborted

Environment == MineAddFileChunks \/ MineCommitFile \/ FillBlock

\* The caller has made its last call.
CallerStops == phase = "idle" /\ attempt = MaxUploads /\ UNCHANGED vars

Next == Caller \/ Main \/ Reader \/ Waiter \/ Uploader \/ Cancel \/ Environment
        \/ CallerStops

Spec == Init /\ [][Next]_vars

=============================================================================
