--------------------------- MODULE UploadProperties ---------------------------
(***************************************************************************)
(* The properties of the upload pipeline, and its refinement of FileUpload. *)
(***************************************************************************)
EXTENDS UploadPipeline

TxId == 1 .. Len(txs)

\* A Go map from chunk indices to transactions.
IsTxMap(m) == DOMAIN m \subseteq Nat /\ \A c \in DOMAIN m : m[c] \in TxId

FlagType ==
  /\ isContinuation \in BOOLEAN /\ ctxDone \in BOOLEAN /\ gErr \in BOOLEAN
  /\ isCommitted \in BOOLEAN /\ stopReading \in BOOLEAN /\ blockFailed \in BOOLEAN

CallType ==
  /\ phase \in {"idle", "resolve", "pipeline", "lookup", "poll", "commit", "confirm"}
  /\ result \in {"none", "running", "ok", "error", "alreadyCommitted"}
  /\ tries \in 0 .. MaxRetries /\ attempt \in 0 .. MaxUploads /\ faults \in 0 .. MaxFaults

StateType ==
  /\ IsTxMap(preCreatedChunks)
  /\ chunkCount \in Nat /\ actualFileSize \in Nat /\ dagLinks \in Seq(Nat)
  /\ chunksCounter \in Nat

ReaderType ==
  /\ readerPc \in {"off", "skip", "read", "add", "record", "push", "done"}
  /\ chunkIndex \in Nat /\ position \in Nat /\ batch \in Batch
  /\ batchTx \in Nat /\ (readerPc \in {"record", "push"} => batchTx \in TxId)
  /\ recorded \in Nat

WaiterType ==
  /\ waitCh \in Seq(Nat) /\ \A i \in DOMAIN waitCh : waitCh[i] \in TxId
  /\ waiterPc \in {"off", "list", "waitListed", "sendListed", "receive", "wait", "send",
                   "done"}
  /\ IsTxMap(listed) /\ nextChunk \in Nat
  /\ (waiterPc \in {"waitListed", "sendListed"} => nextChunk \in DOMAIN listed)
  /\ waitTx \in Nat /\ (waiterPc \in {"wait", "send"} => waitTx \in TxId)

UploaderType ==
  /\ uploaderPc \in {"off", "receive", "blocks", "done"}
  /\ current \in Nat /\ blocksLeft \subseteq Block

ChainType ==
  /\ txs \in Seq(Tx) /\ commits \in Seq(Status)
  /\ stored \subseteq Nat \X Block /\ filled \subseteq Nat \X Block

\* The values the variables may take: positions and counters are natural
\* numbers, every transaction the call still refers to has been sent.
TypeOK == FlagType /\ CallType /\ StateType /\ ReaderType /\ WaiterType /\ UploaderType
          /\ ChainType

\* The root links the chunks in stream order, each once, whatever calls they
\* were read in, the sizes agree with it, and what every transaction files
\* under an index is what stands there in the stream: skipToPosition and the
\* resumed chunk index come from two fields of uploadState.
StreamOrder ==
  /\ dagLinks = [i \in 1 .. chunkCount |-> i - 1]
  /\ actualFileSize = chunkCount
  /\ \A t \in TxId : txs[t].offset = txs[t].start

\* Between calls and during them, every chunk that was counted is remembered in
\* preCreatedChunks until a node has stored all its blocks: no failure between
\* preCreateChunk and chunkUploaded makes a resumed upload skip it.
NoChunkLost ==
  \A c \in 0 .. (chunkCount - 1) :
    c \in DOMAIN preCreatedChunks \/ {c} \X Block \subseteq stored

\* A block is sent to a node only when the transaction that registers its chunk
\* has succeeded, in a first call and in a resumed one.
UploadAfterRegistration ==
  uploaderPc = "blocks" => current \in Registered

\* As long as nothing has failed, every remembered chunk is still on its way:
\* not yet listed or passed on, in the channel, with the waiter, or with the
\* uploader.  A hand-over that drops a chunk would leave it for no one.
Listed == IF waiterPc = "list" THEN DOMAIN preCreatedChunks ELSE DOMAIN listed
WithReader == IF readerPc \in {"record", "push"} THEN ChunksOf(batch) ELSE {}
InChannel == UNION {ChunksOf(txs[waitCh[i]]) : i \in DOMAIN waitCh}
WithWaiter == CASE waiterPc = "wait" -> ChunksOf(txs[waitTx])
                [] waiterPc = "send" -> {c \in ChunksOf(txs[waitTx]) : c >= nextChunk}
                [] OTHER -> {}
WithUploader == IF uploaderPc = "blocks" THEN {current} ELSE {}

InFlight ==
  /\ phase = "pipeline" /\ ~gErr =>
       DOMAIN preCreatedChunks
         \subseteq Listed \cup WithReader \cup InChannel \cup WithWaiter \cup WithUploader
  /\ phase \in {"lookup", "poll", "commit", "confirm"} => DOMAIN preCreatedChunks = {}

\* CommitFile is sent for the whole stream: every chunk of it linked, sized,
\* registered, with all its blocks known to the contract and none still pending.
WholeFile ==
  /\ dagLinks = [i \in 1 .. NumChunks |-> i - 1] /\ actualFileSize = NumChunks
  /\ Registered = 0 .. (NumChunks - 1)
  /\ (0 .. (NumChunks - 1)) \X Block \subseteq filled
  /\ DOMAIN preCreatedChunks = {}

CommitWholeFile == phase = "commit" \/ commits # <<>> => WholeFile

\* A call that is not a continuation never offers a block to a node that the
\* contract already has: BlockAlreadyFilled would fail such a call.
FreshCallNeverRefills ==
  uploaderPc = "blocks" /\ ~isContinuation =>
    \A b \in blocksLeft : <<current, b>> \notin filled

\* The pipeline implements the promise made to the caller.
Promise == INSTANCE FileUpload
  WITH Chunk <- 0 .. (NumChunks - 1), registered <- Registered, present <- stored,
       committed <- FileCommitted, succeeded <- (result = "ok")

ImplementsFileUpload == Promise!Spec

-----------------------------------------------------------------------------
(* The strengthenings that make the invariants inductive (UploadInvariantProofs) *)

\* The reader's counters agree with uploadState: the batch it is building starts
\* where the recorded chunks end, and while it records one, each chunk it has
\* recorded has been counted.  A first call starts with nothing recorded.
ReaderAligned ==
  /\ readerPc \in {"read", "add", "record", "push"} =>
       /\ batch.offset = batch.start
       /\ chunkIndex = batch.start + batch.len /\ position = chunkIndex
  /\ readerPc \in {"read", "add"} => chunkCount = batch.start
  /\ readerPc \in {"add", "record", "push"} => batch.len > 0
  /\ readerPc = "record" => chunkCount = batch.start + recorded /\ recorded < batch.len
  /\ readerPc = "push" => chunkCount = batch.start + batch.len
  /\ readerPc # "off" => phase = "pipeline"
  /\ phase = "resolve" \/ readerPc = "skip" => isContinuation \/ chunkCount = 0

StreamInv == TypeOK /\ StreamOrder /\ ReaderAligned

\* A block the uploader is done with is stored unless one has failed, and the
\* contract only knows of blocks that are stored.
BlocksDone ==
  /\ uploaderPc = "blocks" /\ ~blockFailed =>
       \A b \in Block \ blocksLeft : <<current, b>> \in stored
  /\ filled \subseteq stored

StoredInv == StreamInv /\ NoChunkLost /\ BlocksDone

\* Every map entry, and the batch in the reader's hands, names the transaction
\* that carries the chunk; what the waiter is about to hand over is registered.
ListsTx(m) == \A c \in DOMAIN m : c \in ChunksOf(txs[m[c]])

TxsNamed ==
  /\ ListsTx(preCreatedChunks) /\ ListsTx(listed)
  /\ \A t \in TxId : txs[t].len > 0
  /\ readerPc \in {"record", "push"} =>
       txs[batchTx].start = batch.start /\ txs[batchTx].len = batch.len

HandsOverRegistered ==
  /\ waiterPc = "send" =>
       txs[waitTx].status = "success" /\ nextChunk \in ChunksOf(txs[waitTx])
  /\ waiterPc = "sendListed" => txs[listed[nextChunk]].status = "success"

RegisteredInv == StreamInv /\ TxsNamed /\ HandsOverRegistered /\ UploadAfterRegistration

\* Goroutines run only inside g.Wait; one that returns without error leaves nothing
\* behind for the next: the waiter is the last to go through the channel, the uploader
\* returns after the waiter.
HandOverOrder ==
  /\ phase # "pipeline" => readerPc = "off" /\ waiterPc = "off" /\ uploaderPc = "off"
  /\ waiterPc \in {"off", "receive", "wait", "send"} => DOMAIN listed = {}
  /\ waiterPc = "done" /\ ~gErr =>
       DOMAIN listed = {} /\ waitCh = <<>> /\ readerPc = "done"
  /\ uploaderPc = "done" /\ ~gErr => waiterPc = "done"

PreCreatedCounted == DOMAIN preCreatedChunks \subseteq 0 .. (chunkCount - 1)

FlightInv == RegisteredInv /\ HandOverOrder /\ PreCreatedCounted /\ InFlight

\* Nothing is read beyond the stream, and a reader that returns without error has
\* recorded all of it.
StreamRead ==
  /\ chunkCount <= NumChunks /\ position <= NumChunks
  /\ \A t \in TxId : txs[t].start + txs[t].len <= NumChunks
  /\ stopReading => readerPc \in {"add", "record", "push", "done"}
  /\ stopReading /\ readerPc # "done" => position = NumChunks
  /\ readerPc = "done" /\ ~gErr => chunkCount = NumChunks
  /\ phase \in {"lookup", "poll", "commit", "confirm"} => chunkCount = NumChunks

\* A counted chunk is registered, or still remembered.
CountedRegistered ==
  \A c \in 0 .. (chunkCount - 1) : c \in DOMAIN preCreatedChunks \/ c \in Registered

CommitInv == FlightInv /\ StreamRead /\ CountedRegistered /\ CommitWholeFile

\* Where the chunks end that have been passed on to the waiter, or left to later calls.
Unsent == IF readerPc \in {"record", "push"} THEN batch.start ELSE chunkCount

EndOf(t) == txs[t].start + txs[t].len

\* The batches on their way to the uploader are in stream order.
ChannelOrdered ==
  /\ \A i \in DOMAIN waitCh :
       /\ EndOf(waitCh[i]) <= Unsent
       /\ \A j \in DOMAIN waitCh : i < j => EndOf(waitCh[i]) <= txs[waitCh[j]].start
  /\ waiterPc \in {"wait", "send"} =>
       /\ EndOf(waitTx) <= Unsent
       /\ \A i \in DOMAIN waitCh : EndOf(waitTx) <= txs[waitCh[i]].start

\* Blocks are stored of counted chunks only.
StoredCounted ==
  /\ \A c \in DOMAIN listed : c < chunkCount
  /\ uploaderPc = "blocks" => current < chunkCount
  /\ \A s \in stored : s[1] < chunkCount

\* c comes before everything that is still on its way to the uploader.
Behind(c) ==
  /\ c < Unsent
  /\ \A i \in DOMAIN waitCh : c < txs[waitCh[i]].start
  /\ waiterPc = "wait" => c < txs[waitTx].start
  /\ waiterPc = "send" => c < nextChunk

\* So a call that starts from nothing uploads the chunks in order, and each once.
UploadedInOrder ==
  phase = "pipeline" /\ ~isContinuation =>
    /\ waiterPc \notin {"list", "waitListed", "sendListed"}
    /\ uploaderPc = "blocks" =>
         Behind(current) /\ \A b \in blocksLeft : <<current, b>> \notin stored
    /\ \A s \in stored : Behind(s[1])

FreshInv == FlightInv /\ BlocksDone /\ ChannelOrdered /\ StoredCounted /\ UploadedInOrder

-----------------------------------------------------------------------------
(* Liveness *)

\* The goroutines are scheduled, transactions are mined, nodes report blocks;
\* no disturbance has to happen.
Undisturbed(A) == A /\ UNCHANGED faults

Fairness == /\ WF_vars(Undisturbed(Main)) /\ WF_vars(Undisturbed(Reader))
            /\ WF_vars(Undisturbed(Waiter)) /\ WF_vars(Undisturbed(Uploader))
            /\ WF_vars(Undisturbed(MineAddFileChunks))
            /\ WF_vars(Undisturbed(MineCommitFile)) /\ WF_vars(Undisturbed(FillBlock))

FairSpec == Spec /\ Fairness

\* Every call returns: no goroutine is left blocked on a channel whose other
\* end has gone, and no receipt or filled file is awaited for ever.
CallEnds == phase # "idle" ~> phase = "idle"

\* A caller that calls again after each failure.
PersistentSpec == FairSpec /\ WF_vars(StartUpload)

\* As long as the chain executes what is sent to it, a caller who goes on resuming gets
\* the file committed, wherever the calls before were interrupted.
NothingReverted ==
  /\ \A t \in TxId : txs[t].status # "reverted"
  /\ \A i \in DOMAIN commits : commits[i] # "reverted"

EventuallyCommitted == <>(FileCommitted \/ ~NothingReverted)

-----------------------------------------------------------------------------
(* What the repository says, and the code does not do *)

\* "dataCounters tracks the number of chunks ... processed" (sdk/model.go:306):
\* the counter does not exceed the chunks of the file.
ChunksCountedOnce == chunksCounter <= chunkCount

\* "file is already committed" (sdk/multi_upload.go:245) is said of a file that
\* has been committed.
AlreadyCommittedIsTrue == result = "alreadyCommitted" => FileCommitted

=============================================================================
