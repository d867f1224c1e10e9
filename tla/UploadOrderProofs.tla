-------------------------- MODULE UploadOrderProofs ---------------------------
(***************************************************************************)
(* Proofs that no hand-over of the upload pipeline drops a chunk, that     *)
(* CommitFile is sent for the whole stream and nothing less, and that a    *)
(* call which starts from nothing uploads every chunk once, in stream      *)
(* order, and so never offers a node a block the contract has.  The        *)
(* pipeline implements FileUpload.                                         *)
(***************************************************************************)
EXTENDS UploadProofs

USE DEF vars, callVars, boundVars, stateVars, progressVars, readerVars, waiterVars,
        uploaderVars, chainVars, nodeVars

-----------------------------------------------------------------------------
(* The order in which the goroutines return *)

\* A goroutine that returns without error has left nothing behind, whatever step comes.
LEMMA OrderNext ==
  ASSUME StreamInv, HandOverOrder, [Next]_vars
  PROVE  HandOverOrder'
<1> USE DEF HandOverOrder
<1>1. CASE Caller \/ Cancel \/ CallerStops \/ UNCHANGED vars
  <2>1. CASE StartUpload
    BY <2>1 DEF StartUpload
  <2>1a. CASE RejectCommitted
    BY <2>1a DEF RejectCommitted, EndCall
  <2>2. CASE Cancel
    BY <2>2 DEF Cancel
  <2>3. CASE CallerStops \/ UNCHANGED vars
    BY <2>3 DEF CallerStops
  <2>. QED
    BY <1>1, <2>1, <2>1a, <2>2, <2>3 DEF Caller
<1>2. CASE Main
  <2>1. CASE StartGoroutines
    BY <2>1 DEF StartGoroutines, FirstWaiterStep
  <2>2. CASE Wait
    BY <2>2 DEF Wait, NoGoroutines, EndCall, EmptyMap
  <2>3. CASE QueryFails \/ GetFileByName \/ FileFilled \/ CommitFile \/ CommitConfirmed
    BY <2>3
    DEF QueryFails, GetFileByName, FileFilled, CommitFile, CommitConfirmed,
        AfterWaitOther, EndCall
  <2>4. CASE CommitFileFails \/ CommitNotConfirmed
    BY <2>4 DEF CommitFileFails, CommitNotConfirmed, EndCall
  <2>5. CASE PollAgain
    BY <2>5 DEF PollAgain
  <2>. QED
    BY <1>2, <2>1, <2>2, <2>3, <2>4, <2>5, Zenon DEF Main
<1>3. CASE Reader
  <2>1. CASE HandOverBatch
    BY <2>1 DEF HandOverBatch, NextBatch, ReaderReturns, StreamInv, ReaderAligned
  <2>2. CASE ReadFails \/ PushAborted
    BY <2>2 DEF ReadFails, PushAborted, ReaderOther, ReaderReturns, StreamInv, ReaderAligned
  <2>3. CASE SkipToPosition \/ ReadChunk \/ AddFileChunks \/ PreCreateChunk
    BY <2>3
    DEF SkipToPosition, ReadChunk, AddFileChunks, PreCreateChunk, ReaderOther, StreamInv, ReaderAligned
  <2>4. CASE ReadEOF
    BY <2>4 DEF ReadEOF, ReaderReturns, ReaderOther, StreamInv, ReaderAligned
  <2>5. CASE AddFileChunksFails
    <3>1. readerPc = "add" /\ UNCHANGED <<phase, waiterPc, listed, waitCh, uploaderPc>>
      BY <2>5 DEF AddFileChunksFails, ReaderOther
    <3>2. \/ readerPc' = readerPc /\ gErr' = gErr
          \/ readerPc' = "done" /\ gErr' = TRUE
      <4>1. \/ UNCHANGED <<readerPc, gErr>>
            \/ readerPc' = "done" /\ gErr' = (gErr \/ TRUE)
        BY <2>5, Zenon DEF AddFileChunksFails, ReaderReturns
      <4>. QED
        BY <4>1
    <3>. QED
      BY <3>1, <3>2 DEF StreamInv, ReaderAligned
  <2>6. CASE PushBatch
    BY <2>6 DEF PushBatch, NextBatch, ReaderReturns, ReaderOther, StreamInv, ReaderAligned
  <2>. QED
    BY <1>3, <2>1, <2>2, <2>3, <2>4, <2>5, <2>6, Zenon DEF Reader
<1>4. CASE Waiter
  <2>1. CASE ListPreCreatedChunks
    BY <2>1 DEF ListPreCreatedChunks, NextListed, WaiterOther
  <2>2. CASE SendListedChunk
    BY <2>2 DEF SendListedChunk, NextListed, WaiterOther, UploaderTakes
  <2>3. CASE ReceiveBatch \/ TxConfirmed
    BY <2>3 DEF ReceiveBatch, TxConfirmed, WaiterOther
  <2>4. CASE SendBatchChunk
    BY <2>4 DEF SendBatchChunk, WaiterOther, UploaderTakes
  <2>5. CASE WaiterFinishes
    BY <2>5 DEF WaiterFinishes, WaiterOther, WaiterReturns
  <2>6. CASE WaitForTxFails \/ WaiterAborted
    BY <2>6 DEF WaitForTxFails, WaiterAborted, WaiterOther, WaiterReturns
  <2>. QED
    BY <1>4, <2>1, <2>2, <2>3, <2>4, <2>5, <2>6, Zenon DEF Waiter
<1>5. CASE Uploader
  <2>1. ASSUME NEW b \in Block, UploadBlock(b) \/ UploadBlockFails(b) PROVE HandOverOrder'
    BY <2>1 DEF UploadBlock, UploadBlockFails, UploaderOther
  <2>2. CASE ChunkUploaded
    BY <2>2 DEF ChunkUploaded, UploaderOther
  <2>3. CASE UploadChunkFails \/ UploaderAborted
    BY <2>3 DEF UploadChunkFails, UploaderAborted, UploaderReturns, UploaderOther
  <2>4. CASE UploaderFinishes
    BY <2>4 DEF UploaderFinishes, UploaderReturns, UploaderOther
  <2>. QED
    BY <1>5, <2>1, <2>2, <2>3, <2>4, Zenon DEF Uploader
<1>6. CASE Environment
  BY <1>6 DEF Environment, MineAddFileChunks, MineCommitFile, FillBlock, ChainOther
<1>. QED
  BY <1>1, <1>2, <1>3, <1>4, <1>5, <1>6 DEF Next

-----------------------------------------------------------------------------
(* No hand-over drops a chunk *)

\* A chunk is remembered only after it has been counted.
LEMMA CountedNext ==
  ASSUME StreamInv, PreCreatedCounted, [Next]_vars
  PROVE  PreCreatedCounted'
<1>1. CASE UNCHANGED <<preCreatedChunks, chunkCount>>
  BY <1>1 DEF PreCreatedCounted
<1>2. CASE PreCreateChunk
  <2>1. /\ chunkCount \in Nat /\ chunkCount' = chunkCount + 1
        /\ batch.start + recorded = chunkCount
    BY <1>2 DEF PreCreateChunk, StreamInv, ReaderAligned, TypeOK, StateType
  <2>2. DOMAIN preCreatedChunks' = DOMAIN preCreatedChunks \cup {chunkCount}
    BY <1>2, <2>1 DEF PreCreateChunk, With
  <2>. QED
    BY <2>1, <2>2 DEF PreCreatedCounted
<1>3. CASE ChunkUploaded
  <2>1. DOMAIN preCreatedChunks' \subseteq DOMAIN preCreatedChunks /\ UNCHANGED chunkCount
    BY <1>3 DEF ChunkUploaded, UploaderOther, Without
  <2>. QED
    BY <2>1 DEF PreCreatedCounted
<1>. QED
  BY <1>1, <1>2, <1>3, ChunksChange, Zenon

\* Where a remembered chunk is while nothing has failed.
OnItsWay == Listed \cup WithReader \cup InChannel \cup WithWaiter \cup WithUploader

\* A transaction keeps its chunks.
LEMMA ChunksOfKept ==
  ASSUME TypeOK, [Next]_vars
  PROVE  \A t \in TxId : ChunksOf(txs'[t]) = ChunksOf(txs[t])
  BY TxsGrow DEF ChunksOf

\* So where the waiter and the uploader do not move, no chunk does.
LEMMA NothingMoves ==
  ASSUME TypeOK, [Next]_vars,
         UNCHANGED <<waiterPc, listed, waitTx, nextChunk, waitCh, uploaderPc, current>>,
         WithReader \subseteq WithReader',
         DOMAIN preCreatedChunks \subseteq DOMAIN preCreatedChunks'
  PROVE  OnItsWay \subseteq OnItsWay'
<1>1. \A t \in TxId : ChunksOf(txs'[t]) = ChunksOf(txs[t])
  BY ChunksOfKept
<1>2. Listed \subseteq Listed' /\ WithUploader' = WithUploader
  BY DEF Listed, WithUploader
<1>3. InChannel' = InChannel
  BY <1>1 DEF InChannel, TypeOK, WaiterType
<1>4. WithWaiter' = WithWaiter
  BY <1>1 DEF WithWaiter, TypeOK, WaiterType
<1>. QED
  BY <1>2, <1>3, <1>4 DEF OnItsWay

\* What is remembered is on its way.
AllOnTheirWay == DOMAIN preCreatedChunks \subseteq OnItsWay

\* The reader's steps: a batch that is sent is with the reader until it is passed on.
LEMMA ReaderStep ==
  ASSUME FlightInv, [Next]_vars, AllOnTheirWay, Reader, ~gErr'
  PROVE  AllOnTheirWay'
<1> USE DEF AllOnTheirWay
<1>ok. /\ TypeOK /\ TxsNamed /\ batch \in Batch /\ waitCh \in Seq(Nat)
       /\ TypeOK' /\ (readerPc \in {"record", "push"} => batchTx \in TxId)
       /\ (waiterPc = "receive" => DOMAIN listed = {})
  BY TypeNext
  DEF FlightInv, RegisteredInv, StreamInv, HandOverOrder, TypeOK, ReaderType, WaiterType
<1>1. CASE \/ SkipToPosition \/ ReadChunk \/ ReadEOF \/ AddFileChunks
           \/ AddFileChunksFails /\ readerPc' # "done"
  <2>1. UNCHANGED <<waiterVars, waitCh, uploaderVars, preCreatedChunks>>
    BY <1>1
    DEF SkipToPosition, ReadChunk, ReadEOF, AddFileChunks, AddFileChunksFails, ReaderOther
  <2>2. readerPc \notin {"record", "push"}
    BY <1>1 DEF SkipToPosition, ReadChunk, ReadEOF, AddFileChunks, AddFileChunksFails
  <2>3. WithReader \subseteq WithReader'
    BY <2>2 DEF WithReader
  <2>. QED
    BY <1>ok, <2>1, <2>3, NothingMoves
<1>2. CASE ReadFails \/ PushAborted
  BY <1>2 DEF ReadFails, PushAborted, ReaderReturns
<1>3. CASE AddFileChunksFails /\ readerPc' = "done"
  <2>1. readerPc = "add"
    BY <1>3 DEF AddFileChunksFails
  <2>2. gErr' = (gErr \/ TRUE)
    BY <1>3, <2>1, Zenon DEF AddFileChunksFails, ReaderReturns
  <2>. QED
    BY <2>2
<1>4. CASE PreCreateChunk
  <2>1. /\ UNCHANGED <<waiterVars, waitCh, uploaderVars, batch, txs>>
        /\ readerPc = "record" /\ readerPc' \in {"record", "push"}
        /\ DOMAIN preCreatedChunks' = DOMAIN preCreatedChunks \cup {batch.start + recorded}
    BY <1>4 DEF PreCreateChunk, ReaderOther, With
  <2>2. batch.start + recorded \in ChunksOf(batch)
    <3>1. recorded \in Nat /\ recorded < batch.len
      BY <2>1 DEF FlightInv, RegisteredInv, StreamInv, ReaderAligned, TypeOK, ReaderType
    <3>. QED
      BY <3>1, <1>ok DEF ChunksOf, Batch
  <2>3. WithReader = ChunksOf(batch) /\ WithReader' = ChunksOf(batch)
    BY <2>1 DEF WithReader
  <2>4. OnItsWay \subseteq OnItsWay'
    BY <1>ok, <2>1, <2>3, NothingMoves
  <2>5. WithReader' \subseteq OnItsWay'
    BY DEF OnItsWay
  <2>. QED
    BY <2>1, <2>2, <2>3, <2>4, <2>5
<1>5. CASE PushBatch \/ HandOverBatch
  <2>1. /\ readerPc = "push" /\ readerPc' \in {"read", "done"}
        /\ UNCHANGED <<listed, txs, preCreatedChunks, uploaderVars, batchTx>>
    BY <1>5 DEF PushBatch, HandOverBatch, NextBatch, ReaderOther, ReaderReturns
  <2>2. ChunksOf(txs[batchTx]) = ChunksOf(batch)
    BY <1>ok, <2>1 DEF TxsNamed, ChunksOf
  <2>3. WithReader = ChunksOf(batch) /\ WithUploader' = WithUploader
    BY <2>1 DEF WithReader, WithUploader
  <2>4. CASE PushBatch
    <3>1. waitCh' = Append(waitCh, batchTx) /\ UNCHANGED waiterVars
      BY <2>4 DEF PushBatch, ReaderOther
    <3>2. Listed' = Listed /\ WithWaiter' = WithWaiter
      BY <2>1, <3>1 DEF Listed, WithWaiter
    <3>3. InChannel \cup ChunksOf(txs[batchTx]) \subseteq InChannel'
      <4>1. /\ \A i \in DOMAIN waitCh : i \in DOMAIN waitCh' /\ waitCh'[i] = waitCh[i]
            /\ Len(waitCh) + 1 \in DOMAIN waitCh' /\ waitCh'[Len(waitCh) + 1] = batchTx
        BY <1>ok, <2>1, <3>1
      <4>. QED
        BY <2>1, <4>1 DEF InChannel
    <3>. QED
      BY <2>1, <2>2, <2>3, <3>2, <3>3 DEF OnItsWay
  <2>5. CASE HandOverBatch
    <3>1. /\ waiterPc = "receive" /\ waiterPc' = "wait" /\ waitTx' = batchTx
          /\ UNCHANGED waitCh
      BY <2>5 DEF HandOverBatch
    <3>2. Listed' = Listed /\ InChannel' = InChannel
      BY <2>1, <3>1 DEF Listed, InChannel
    <3>3. WithWaiter' = ChunksOf(txs[batchTx]) /\ WithWaiter = {}
      BY <2>1, <3>1 DEF WithWaiter
    <3>. QED
      BY <2>1, <2>2, <2>3, <3>2, <3>3 DEF OnItsWay
  <2>. QED
    BY <1>5, <2>4, <2>5
<1>. QED
  BY <1>1, <1>2, <1>3, <1>4, <1>5, Zenon DEF Reader

\* The waiter's steps: a batch leaves the channel for the waiter, and its chunks leave the
\* waiter one by one for the uploader.
LEMMA WaiterStep ==
  ASSUME FlightInv, [Next]_vars, AllOnTheirWay, Waiter, ~gErr'
  PROVE  AllOnTheirWay'
<1> USE DEF AllOnTheirWay
<1>ok. /\ TypeOK /\ waitCh \in Seq(Nat) /\ nextChunk \in Nat
       /\ (waiterPc \in {"receive", "wait", "send"} => DOMAIN listed = {})
       /\ (waiterPc = "send" => waitTx \in TxId /\ txs[waitTx] \in Tx)
       /\ (waiterPc = "send" => nextChunk \in ChunksOf(txs[waitTx]))
  BY DEF FlightInv, RegisteredInv, StreamInv, HandOverOrder, HandsOverRegistered, TypeOK,
         WaiterType, ChainType, TxId
<1>0. CASE WaitForTxFails \/ WaiterAborted
  BY <1>0 DEF WaitForTxFails, WaiterAborted, WaiterReturns
<1>1. UNCHANGED <<readerVars, preCreatedChunks, txs>> /\ WithReader' = WithReader
  <2>1. UNCHANGED <<readerVars, preCreatedChunks, txs>>
    BY DEF Waiter, ListPreCreatedChunks, ReceiveBatch, WaiterFinishes, TxConfirmed,
           WaitForTxFails, SendListedChunk, SendBatchChunk, WaiterAborted, WaiterOther
  <2>. QED
    BY <2>1 DEF WithReader
<1>2. CASE ListPreCreatedChunks
  <2>1. /\ waiterPc = "list" /\ waiterPc' \in {"receive", "waitListed"}
        /\ listed' = preCreatedChunks
    BY <1>2 DEF ListPreCreatedChunks, NextListed, LeftBehind
  <2>. QED
    BY <1>1, <2>1 DEF Listed, OnItsWay
<1>3. CASE ReceiveBatch
  <2>1. /\ waiterPc = "receive" /\ waiterPc' = "wait" /\ waitCh # <<>>
        /\ waitTx' = Head(waitCh) /\ waitCh' = Tail(waitCh)
        /\ UNCHANGED <<listed, uploaderVars>>
    BY <1>3 DEF ReceiveBatch
  <2>2. Listed' = Listed /\ WithUploader' = WithUploader
    BY <2>1 DEF Listed, WithUploader
  <2>3. WithWaiter = {} /\ WithWaiter' = ChunksOf(txs[Head(waitCh)])
    BY <1>1, <2>1 DEF WithWaiter
  <2>4. InChannel \subseteq InChannel' \cup ChunksOf(txs[Head(waitCh)])
    <3>1. ASSUME NEW i \in DOMAIN waitCh
          PROVE  waitCh[i] = Head(waitCh) \/ \E j \in DOMAIN waitCh' : waitCh'[j] = waitCh[i]
      <4>1. CASE i = 1
        BY <4>1, <1>ok, <2>1
      <4>2. CASE i > 1
        <5>1. i - 1 \in DOMAIN Tail(waitCh) /\ Tail(waitCh)[i - 1] = waitCh[i]
          BY <4>2, <1>ok, <2>1
        <5>. QED
          BY <5>1, <2>1
      <4>. QED
        BY <4>1, <4>2, <1>ok
    <3>. QED
      BY <3>1, <1>1 DEF InChannel
  <2>. QED
    BY <1>1, <2>2, <2>3, <2>4 DEF OnItsWay
<1>4. CASE WaiterFinishes
  BY <1>1, <1>4
  DEF WaiterFinishes, WaiterReturns, Listed, InChannel, WithWaiter, WithUploader, OnItsWay
<1>5. CASE TxConfirmed
  <2>1. /\ UNCHANGED <<listed, waitTx, waitCh, uploaderVars>>
        /\ \/ waiterPc = "wait" /\ waiterPc' = "send" /\ nextChunk' = txs[waitTx].start
           \/ waiterPc = "waitListed" /\ waiterPc' = "sendListed"
    BY <1>5 DEF TxConfirmed, AwaitedTx
  <2>2. Listed' = Listed /\ WithUploader' = WithUploader /\ InChannel' = InChannel
    BY <1>1, <2>1 DEF Listed, WithUploader, InChannel
  <2>3. WithWaiter' = WithWaiter
    <3>1. CASE waiterPc = "wait"
      <4>1. txs[waitTx] \in Tx
        BY <3>1, <1>ok DEF TypeOK, WaiterType, ChainType, TxId
      <4>2. \A c \in ChunksOf(txs[waitTx]) : c >= txs[waitTx].start
        BY <4>1 DEF ChunksOf, Tx
      <4>. QED
        BY <1>1, <2>1, <3>1, <4>2 DEF WithWaiter
    <3>2. CASE waiterPc = "waitListed"
      BY <1>1, <2>1, <3>2 DEF WithWaiter
    <3>. QED
      BY <2>1, <3>1, <3>2
  <2>. QED
    BY <1>1, <2>2, <2>3 DEF OnItsWay
<1>6. CASE SendListedChunk
  <2>1. /\ waiterPc = "sendListed" /\ waiterPc' \in {"receive", "waitListed"}
        /\ DOMAIN listed' = DOMAIN listed \ {nextChunk}
        /\ uploaderPc = "receive" /\ uploaderPc' = "blocks" /\ current' = nextChunk
        /\ UNCHANGED waitCh
    BY <1>6 DEF SendListedChunk, NextListed, UploaderTakes, Without
  <2>2. Listed \subseteq Listed' \cup WithUploader'
    BY <2>1 DEF Listed, WithUploader
  <2>3. WithUploader = {} /\ WithWaiter = {} /\ InChannel' = InChannel
    BY <1>1, <2>1 DEF WithUploader, WithWaiter, InChannel
  <2>. QED
    BY <1>1, <2>2, <2>3 DEF OnItsWay
<1>7. CASE SendBatchChunk
  <2>1. /\ waiterPc = "send" /\ nextChunk' = nextChunk + 1
        /\ waiterPc' = IF nextChunk + 1 \in ChunksOf(txs[waitTx]) THEN "send" ELSE "receive"
        /\ uploaderPc = "receive" /\ uploaderPc' = "blocks" /\ current' = nextChunk
        /\ UNCHANGED <<waitCh, listed, waitTx>>
    BY <1>7, <1>1 DEF SendBatchChunk, UploaderTakes, MoreChunks
  <2>2. Listed' = Listed /\ InChannel' = InChannel /\ WithUploader = {}
        /\ WithUploader' = {nextChunk}
    BY <1>1, <2>1 DEF Listed, InChannel, WithUploader
  <2>3. WithWaiter \subseteq WithWaiter' \cup {nextChunk}
    <3>1. \A c \in ChunksOf(txs[waitTx]) : c \in Int /\ (c > nextChunk =>
            nextChunk + 1 \in ChunksOf(txs[waitTx]) /\ c >= nextChunk + 1)
      BY <1>ok, <2>1 DEF ChunksOf, Tx
    <3>2. WithWaiter = {c \in ChunksOf(txs[waitTx]) : c >= nextChunk}
      BY <2>1 DEF WithWaiter
    <3>3. waiterPc' = "send" =>
            WithWaiter' = {c \in ChunksOf(txs[waitTx]) : c >= nextChunk + 1}
      BY <1>1, <2>1 DEF WithWaiter
    <3>. QED
      BY <1>ok, <2>1, <3>1, <3>2, <3>3
  <2>. QED
    BY <1>1, <2>2, <2>3 DEF OnItsWay
<1>. QED
  BY <1>0, <1>2, <1>3, <1>4, <1>5, <1>6, <1>7, Zenon DEF Waiter

\* The uploader's steps: a chunk leaves the uploader when it leaves uploadState.
LEMMA UploaderStep ==
  ASSUME FlightInv, [Next]_vars, AllOnTheirWay, Uploader, ~gErr'
  PROVE  AllOnTheirWay'
<1> USE DEF AllOnTheirWay
<1>1. UNCHANGED <<readerVars, waitCh, waiterVars, txs>>
  <2>1. ASSUME NEW b \in Block, UploadBlock(b) \/ UploadBlockFails(b)
        PROVE  UNCHANGED <<readerVars, waitCh, waiterVars, txs>>
    BY <2>1 DEF UploadBlock, UploadBlockFails, UploaderOther
  <2>. QED
    BY <2>1
    DEF Uploader, ChunkUploaded, UploadChunkFails, UploaderFinishes, UploaderAborted,
        UploaderOther
<1>2. /\ WithReader' = WithReader /\ InChannel' = InChannel /\ WithWaiter' = WithWaiter
      /\ (DOMAIN preCreatedChunks' \subseteq DOMAIN preCreatedChunks =>
            DOMAIN preCreatedChunks' \cap Listed \subseteq Listed')
  BY <1>1 DEF WithReader, InChannel, WithWaiter, Listed
<1>3. ASSUME NEW b \in Block, UploadBlock(b) \/ UploadBlockFails(b)
      PROVE  AllOnTheirWay'
  <2>1. UNCHANGED <<preCreatedChunks, uploaderPc, current>>
    BY <1>3 DEF UploadBlock, UploadBlockFails, UploaderOther
  <2>. QED
    BY <1>2, <2>1 DEF WithUploader, OnItsWay
<1>4. CASE ChunkUploaded
  <2>1. DOMAIN preCreatedChunks' = DOMAIN preCreatedChunks \ {current}
    BY <1>4 DEF ChunkUploaded, Without
  <2>. QED
    BY <1>2, <2>1 DEF WithUploader, OnItsWay
<1>5. CASE UploadChunkFails \/ UploaderAborted
  BY <1>5 DEF UploadChunkFails, UploaderAborted, UploaderReturns
<1>6. CASE UploaderFinishes
  BY <1>2, <1>6 DEF UploaderFinishes, UploaderReturns, WithUploader, OnItsWay
<1>. QED
  BY <1>3, <1>4, <1>5, <1>6, Zenon DEF Uploader

\* The other steps move no chunk: a call starts with the chunks that are left, and ends
\* with none when nothing failed.
LEMMA OtherStep ==
  ASSUME FlightInv, [Next]_vars, ~Reader, ~Waiter, ~Uploader
  PROVE  InFlight'
<1> DEFINE After == {"lookup", "poll", "commit", "confirm"}
<1>ok. TypeOK /\ HandOverOrder /\ PreCreatedCounted
  BY DEF FlightInv, RegisteredInv, StreamInv
<1>in. /\ phase = "pipeline" /\ ~gErr => DOMAIN preCreatedChunks \subseteq OnItsWay
       /\ phase \in After => DOMAIN preCreatedChunks = {}
  BY DEF FlightInv, InFlight, OnItsWay
<1>1. CASE StartGoroutines
  <2>1. /\ phase = "resolve" /\ phase' = "pipeline" /\ UNCHANGED preCreatedChunks
        /\ waiterPc' = IF isContinuation THEN "list" ELSE "receive"
    BY <1>1 DEF StartGoroutines, FirstWaiterStep
  <2>2. ~isContinuation => DOMAIN preCreatedChunks = {}
    <3>1. ~isContinuation => chunkCount = 0
      BY <2>1 DEF FlightInv, RegisteredInv, StreamInv, ReaderAligned
    <3>2. 0 .. (0 - 1) = {}
      OBVIOUS
    <3>. QED
      BY <3>1, <3>2, <1>ok DEF PreCreatedCounted
  <2>3. isContinuation => Listed' = DOMAIN preCreatedChunks
    BY <2>1 DEF Listed
  <2>. QED
    BY <2>1, <2>2, <2>3 DEF InFlight
<1>2. CASE Wait
  <2>1. /\ phase = "pipeline" /\ UNCHANGED preCreatedChunks
        /\ readerPc = "done" /\ waiterPc = "done" /\ uploaderPc = "done"
        /\ phase' = "idle" \/ (phase' = "lookup" /\ ~gErr)
    BY <1>2 DEF Wait, EndCall
  <2>2. ~gErr => Listed = {} /\ WithReader = {} /\ WithWaiter = {} /\ WithUploader = {}
                 /\ InChannel = {}
    BY <2>1, <1>ok
    DEF HandOverOrder, Listed, WithReader, WithWaiter, WithUploader, InChannel
  <2>. QED
    BY <2>1, <2>2, <1>in DEF InFlight, OnItsWay
<1>3. CASE \/ Caller \/ QueryFails \/ GetFileByName \/ FileFilled \/ CommitFile
           \/ CommitConfirmed \/ CommitNotConfirmed
  <2>1. UNCHANGED preCreatedChunks /\ phase' # "pipeline"
    BY <1>3
    DEF Caller, StartUpload, RejectCommitted, QueryFails, GetFileByName, FileFilled, CommitFile,
        CommitConfirmed, CommitNotConfirmed, EndCall, AfterWaitOther
  <2>2. phase' \in After => phase \in After
    BY <1>3
    DEF Caller, StartUpload, RejectCommitted, QueryFails, GetFileByName, FileFilled, CommitFile,
        CommitConfirmed, CommitNotConfirmed, EndCall, AfterWaitOther
  <2>. QED
    BY <2>1, <2>2, <1>in DEF InFlight
<1>4. CASE CommitFileFails
  BY <1>4, <1>in DEF CommitFileFails, EndCall, InFlight
<1>5. CASE PollAgain \/ Cancel \/ Environment \/ CallerStops \/ UNCHANGED vars
  <2>1. UNCHANGED <<phase, gErr, preCreatedChunks, readerVars, waiterVars, waitCh, uploaderVars>>
    BY <1>5
    DEF PollAgain, Cancel, CallerStops, Environment, MineAddFileChunks, MineCommitFile,
        FillBlock, ChainOther
  <2>2. WithReader' = WithReader
    BY <2>1 DEF WithReader
  <2>3. OnItsWay \subseteq OnItsWay'
    BY <1>ok, <2>1, <2>2, NothingMoves
  <2>. QED
    BY <2>1, <2>3, <1>in DEF InFlight, OnItsWay
<1>. QED
  BY <1>1, <1>2, <1>3, <1>4, <1>5, Zenon DEF Next, Main

\* No goroutine takes the error of another back.
LEMMA ErrorStays ==
  ASSUME Reader \/ Waiter \/ Uploader, ~gErr'
  PROVE  ~gErr
<1>1. CASE Reader /\ ~AddFileChunksFails
  BY <1>1
  DEF Reader, SkipToPosition, ReadChunk, ReadEOF, ReadFails, AddFileChunks,
      PreCreateChunk, PushBatch, HandOverBatch, PushAborted, NextBatch, ReaderReturns
<1>2. CASE AddFileChunksFails
  BY <1>2, Zenon DEF AddFileChunksFails, ReaderReturns
<1>3. CASE Waiter
  BY <1>3
  DEF Waiter, ListPreCreatedChunks, ReceiveBatch, WaiterFinishes, TxConfirmed,
      WaitForTxFails, SendListedChunk, SendBatchChunk, WaiterAborted, WaiterReturns
<1>4. CASE Uploader
  BY <1>4
  DEF Uploader, UploadBlock, UploadBlockFails, ChunkUploaded, UploadChunkFails,
      UploaderFinishes, UploaderAborted, UploaderReturns
<1>. QED
  BY <1>1, <1>2, <1>3, <1>4, Zenon

\* FlightInv is inductive.
LEMMA FlightNext == FlightInv /\ [Next]_vars => FlightInv'
<1> SUFFICES ASSUME FlightInv, [Next]_vars PROVE FlightInv'
  OBVIOUS
<1>1. RegisteredInv'
  BY StreamNext, TxsNamedNext, HandOverNext, UploadNext DEF FlightInv, RegisteredInv
<1>2. HandOverOrder' /\ PreCreatedCounted'
  BY OrderNext, CountedNext DEF FlightInv, RegisteredInv
<1>3. InFlight'
  <2>1. CASE Reader \/ Waiter \/ Uploader
    <3>1. phase = "pipeline" /\ phase' = "pipeline"
      <4>1. phase = "pipeline"
        BY <2>1
        DEF FlightInv, HandOverOrder, Reader, SkipToPosition, ReadChunk, ReadEOF, ReadFails,
            AddFileChunks, AddFileChunksFails, PreCreateChunk, PushBatch, HandOverBatch,
            PushAborted, Waiter, ListPreCreatedChunks, ReceiveBatch, WaiterFinishes, TxConfirmed,
            WaitForTxFails, SendListedChunk, SendBatchChunk, WaiterAborted, Uploader,
            UploadBlock, UploadBlockFails, ChunkUploaded, UploadChunkFails, UploaderFinishes,
            UploaderAborted
      <4>2. phase' = phase
        BY <2>1
        DEF Reader, SkipToPosition, ReadChunk, ReadEOF, ReadFails,
            AddFileChunks, AddFileChunksFails, PreCreateChunk, PushBatch, HandOverBatch,
            PushAborted, Waiter, ListPreCreatedChunks, ReceiveBatch, WaiterFinishes, TxConfirmed,
            WaitForTxFails, SendListedChunk, SendBatchChunk, WaiterAborted, Uploader,
            UploadBlock, UploadBlockFails, ChunkUploaded, UploadChunkFails, UploaderFinishes,
            UploaderAborted, ReaderOther, WaiterOther, UploaderOther
      <4>. QED
        BY <4>1, <4>2
    <3>2. ~gErr' => ~gErr
      BY <2>1, ErrorStays
    <3>3. ~gErr => AllOnTheirWay
      BY <3>1 DEF FlightInv, InFlight, AllOnTheirWay, OnItsWay
    <3>4. ~gErr' => AllOnTheirWay'
      BY <2>1, <3>2, <3>3, ReaderStep, WaiterStep, UploaderStep, Zenon
    <3>. QED
      BY <3>1, <3>4 DEF InFlight, AllOnTheirWay, OnItsWay
  <2>. QED
    BY <2>1, OtherStep, Zenon
<1>. QED
  BY <1>1, <1>2, <1>3 DEF FlightInv

\* A new IPCFileUpload has nothing in flight.
LEMMA FlightInit == Init => FlightInv
  BY StreamInit
  DEF Init, FlightInv, RegisteredInv, TxsNamed, ListsTx, TxId, EmptyMap, HandsOverRegistered,
      UploadAfterRegistration, HandOverOrder, PreCreatedCounted, InFlight

\* Every remembered chunk is with someone until its blocks are stored, or a goroutine has
\* failed: no hand-over between the goroutines drops one.
THEOREM InFlightCorrect == Spec => []InFlight
<1>1. FlightInv => InFlight
  BY DEF FlightInv
<1>. QED
  BY <1>1, FlightInit, FlightNext, PTL DEF Spec

-----------------------------------------------------------------------------
(* CommitFile is sent for the whole stream *)

\* What a step may do to the reader's place in the stream and what it has recorded.
LEMMA ReadNext ==
  ASSUME StreamInv, HandOverOrder, StreamRead, [Next]_vars
  PROVE  /\ chunkCount' <= NumChunks /\ position' <= NumChunks
         /\ stopReading' => readerPc' \in {"add", "record", "push", "done"}
         /\ stopReading' /\ readerPc' # "done" => position' = NumChunks
         /\ readerPc' = "done" /\ ~gErr' => chunkCount' = NumChunks
         /\ phase' \in {"lookup", "poll", "commit", "confirm"} => chunkCount' = NumChunks
<1> USE DEF StreamRead
<1>ok. /\ chunkCount \in Nat /\ position \in Nat /\ NumChunks \in Nat /\ batch \in Batch
       /\ actualFileSize = chunkCount /\ recorded \in Nat /\ chunkIndex \in Nat
  BY PipelineAssumption DEF StreamInv, StreamOrder, TypeOK, StateType, ReaderType
<1>off. phase # "pipeline" => readerPc = "off"
  BY DEF HandOverOrder
<1>1. CASE Caller \/ Cancel \/ CallerStops \/ UNCHANGED vars
  <2>1. CASE Caller
    BY <2>1, <1>ok, <1>off DEF Caller, StartUpload, RejectCommitted, EndCall
  <2>2. CASE Cancel \/ CallerStops \/ UNCHANGED vars
    BY <2>2, <1>ok DEF Cancel, CallerStops
  <2>. QED
    BY <1>1, <2>1, <2>2
<1>2. CASE Main
  <2>1. CASE StartGoroutines
    BY <2>1, <1>ok, <1>off DEF StartGoroutines
  <2>2. CASE Wait
    BY <2>2, <1>ok DEF Wait, NoGoroutines, EndCall
  <2>3. CASE QueryFails \/ GetFileByName \/ FileFilled \/ CommitFile \/ CommitConfirmed
    BY <2>3, <1>ok, <1>off
    DEF QueryFails, GetFileByName, FileFilled, CommitFile, CommitConfirmed,
        AfterWaitOther, EndCall
  <2>4. CASE CommitFileFails \/ CommitNotConfirmed
    BY <2>4, <1>ok, <1>off DEF CommitFileFails, CommitNotConfirmed, EndCall
  <2>5. CASE PollAgain
    BY <2>5, <1>ok DEF PollAgain
  <2>. QED
    BY <1>2, <2>1, <2>2, <2>3, <2>4, <2>5, Zenon DEF Main
<1>3. CASE Reader
  <2>1. readerPc # "off" /\ phase = "pipeline" /\ phase' = "pipeline"
    <3>1. readerPc # "off" /\ phase' = phase
      BY <1>3
      DEF Reader, SkipToPosition, ReadChunk, ReadEOF, ReadFails, AddFileChunks,
          AddFileChunksFails, PreCreateChunk, PushBatch, HandOverBatch, PushAborted, ReaderOther
    <3>. QED
      BY <3>1, <1>off
  <2> USE DEF StreamInv, ReaderAligned
  <2>2. CASE SkipToPosition
    BY <2>1, <2>2, <1>ok DEF SkipToPosition, ResumePosition
  <2>3. CASE ReadChunk
    BY <2>1, <2>3, <1>ok DEF ReadChunk
  <2>4. CASE ReadEOF
    <3>1. chunkCount = batch.start /\ chunkIndex = batch.start + batch.len /\ position = chunkIndex
          /\ position = NumChunks
      BY <2>4, <1>ok DEF ReadEOF
    <3>. QED
      BY <2>1, <2>4, <3>1, <1>ok DEF ReadEOF, ReaderReturns, Batch
  <2>5. CASE ReadFails \/ PushAborted
    BY <2>1, <2>5, <1>ok DEF ReadFails, PushAborted, ReaderReturns
  <2>6. CASE AddFileChunks
    BY <2>1, <2>6, <1>ok DEF AddFileChunks
  <2>7. CASE AddFileChunksFails
    <3>1. readerPc = "add" /\ UNCHANGED <<stateVars, position, stopReading>>
      BY <2>7 DEF AddFileChunksFails
    <3>2. readerPc' = readerPc \/ (readerPc' = "done" /\ gErr' = (gErr \/ TRUE))
      BY <2>7, Zenon DEF AddFileChunksFails, ReaderReturns
    <3>. QED
      BY <2>1, <3>1, <3>2, <1>ok
  <2>8. CASE PreCreateChunk
    <3>1. chunkCount = batch.start + recorded /\ recorded < batch.len
          /\ position = batch.start + batch.len
      BY <2>8 DEF PreCreateChunk
    <3>. QED
      BY <2>1, <2>8, <3>1, <1>ok DEF PreCreateChunk, Batch
  <2>9. CASE PushBatch \/ HandOverBatch
    <3>1. chunkCount = position
      BY <2>9 DEF PushBatch, HandOverBatch
    <3>. QED
      BY <2>1, <2>9, <3>1, <1>ok DEF PushBatch, HandOverBatch, NextBatch, ReaderReturns
  <2>. QED
    BY <1>3, <2>2, <2>3, <2>4, <2>5, <2>6, <2>7, <2>8, <2>9, Zenon DEF Reader
<1>4. CASE Waiter
  <2>1. UNCHANGED <<phase, readerVars, chunkCount>>
    BY <1>4
    DEF Waiter, ListPreCreatedChunks, ReceiveBatch, WaiterFinishes, TxConfirmed, WaitForTxFails,
        SendListedChunk, SendBatchChunk, WaiterAborted, WaiterOther
  <2>2. ~gErr' => ~gErr
    BY <1>4, ErrorStays
  <2>. QED
    BY <2>1, <2>2, <1>ok
<1>5. CASE Uploader
  <2>1. UNCHANGED <<phase, readerVars, chunkCount>>
    BY <1>5
    DEF Uploader, UploadBlock, UploadBlockFails, ChunkUploaded, UploadChunkFails,
        UploaderFinishes, UploaderAborted, UploaderOther
  <2>2. ~gErr' => ~gErr
    BY <1>5, ErrorStays
  <2>. QED
    BY <2>1, <2>2, <1>ok
<1>6. CASE Environment
  BY <1>6, <1>ok DEF Environment, MineAddFileChunks, MineCommitFile, FillBlock, ChainOther
<1>. QED
  BY <1>1, <1>2, <1>3, <1>4, <1>5, <1>6 DEF Next

\* No transaction goes beyond the stream.
LEMMA TxsInStream ==
  ASSUME StreamInv, StreamRead, [Next]_vars
  PROVE  \A t \in TxId' : txs'[t].start + txs'[t].len <= NumChunks
<1>ok. /\ txs \in Seq(Tx) /\ batch \in Batch /\ TypeOK
       /\ \A t \in 1 .. Len(txs) : txs[t].start + txs[t].len <= NumChunks
  BY DEF StreamInv, TypeOK, ReaderType, ChainType, StreamRead, TxId
<1>1. CASE txs' = txs
  BY <1>ok, <1>1 DEF TxId
<1>2. CASE readerPc = "add" /\ txs' = Append(txs, AddFileChunksTx(batch))
  <2>1. AddFileChunksTx(batch).start + AddFileChunksTx(batch).len <= NumChunks
    BY <1>2 DEF AddFileChunksTx, StreamInv, ReaderAligned, StreamRead
  <2>. QED
    BY <1>ok, <1>2, <2>1 DEF TxId
<1>3. CASE MineAddFileChunks
  <2>1. Len(txs') = Len(txs)
    BY <1>ok, <1>3, MinedTx DEF TypeOK, CallType
  <2>. QED
    BY <1>ok, <2>1, TxsGrow DEF TxId
<1>. QED
  BY <1>1, <1>2, <1>3, TxsChange, Zenon

\* A chunk stops being remembered only when it is registered.
LEMMA CountedRegisteredNext ==
  ASSUME RegisteredInv, CountedRegistered, [Next]_vars
  PROVE  CountedRegistered'
<1> USE DEF CountedRegistered
<1>ok. Registered \subseteq Registered'
  BY RegisteredGrows DEF RegisteredInv, StreamInv
<1>1. CASE UNCHANGED <<preCreatedChunks, chunkCount>>
  BY <1>1, <1>ok
<1>2. CASE PreCreateChunk
  <2>1. chunkCount \in Nat /\ chunkCount' = chunkCount + 1
        /\ batch.start + recorded = chunkCount
    BY <1>2 DEF PreCreateChunk, RegisteredInv, StreamInv, ReaderAligned, TypeOK, StateType
  <2>2. DOMAIN preCreatedChunks' = DOMAIN preCreatedChunks \cup {chunkCount}
    BY <1>2, <2>1 DEF PreCreateChunk, With
  <2>. QED
    BY <2>1, <2>2, <1>ok
<1>3. CASE ChunkUploaded
  <2>1. current \in Registered
    BY <1>3 DEF ChunkUploaded, RegisteredInv, UploadAfterRegistration
  <2>2. DOMAIN preCreatedChunks' = DOMAIN preCreatedChunks \ {current} /\ UNCHANGED chunkCount
    BY <1>3 DEF ChunkUploaded, UploaderOther, Without
  <2>. QED
    BY <2>1, <2>2, <1>ok
<1>. QED
  BY <1>1, <1>2, <1>3, ChunksChange, Zenon

\* The contract goes on knowing of the blocks it knows of.
LEMMA FilledGrows ==
  ASSUME [Next]_vars
  PROVE  filled \subseteq filled'
<1>1. ASSUME NEW b \in Block, UploadBlock(b) \/ UploadBlockFails(b)
      PROVE  filled \subseteq filled'
  BY <1>1 DEF UploadBlock, UploadBlockFails, UploaderOther
<1>2. CASE FillBlock
  BY <1>2 DEF FillBlock
<1>. QED
  BY <1>1, <1>2, BlocksChange, Zenon

\* A transaction that ends in the stream registers chunks of the stream.
LEMMA ChunksBelow ==
  ASSUME NEW x \in Tx, NEW n \in Nat, x.start + x.len <= n
  PROVE  ChunksOf(x) \subseteq 0 .. (n - 1)
BY DEF ChunksOf, Tx

\* The contract has no chunk beyond the stream.
LEMMA RegisteredInStream ==
  ASSUME TypeOK, StreamRead
  PROVE  Registered \subseteq 0 .. (NumChunks - 1)
<1>1. ASSUME NEW c \in Registered PROVE c \in 0 .. (NumChunks - 1)
  <2>1. PICK t \in TxId : c \in ChunksOf(txs[t])
    BY DEF Registered, TypeOK, ChainType, TxId
  <2>2. txs[t] \in Tx /\ txs[t].start + txs[t].len <= NumChunks
    BY DEF TypeOK, ChainType, TxId, StreamRead
  <2>. QED
    BY <2>1, <2>2, ChunksBelow, PipelineAssumption
<1>. QED
  BY <1>1

\* Once the whole file is there, a resumed call finds nothing to add to it.
LEMMA WholeFileKept ==
  ASSUME StreamInv, StreamInv', StreamRead, StreamRead', WholeFile, [Next]_vars
  PROVE  WholeFile'
<1>ok. /\ TypeOK /\ TypeOK' /\ NumChunks \in Nat /\ chunkCount \in Nat /\ chunkCount = NumChunks
       /\ chunkCount' <= NumChunks
  BY PipelineAssumption DEF StreamInv, TypeOK, StateType, StreamOrder, WholeFile, StreamRead
<1>1. chunkCount' = NumChunks /\ DOMAIN preCreatedChunks' = {}
  <2>1. CASE UNCHANGED <<preCreatedChunks, chunkCount>>
    BY <2>1, <1>ok DEF WholeFile
  <2>2. CASE PreCreateChunk
    BY <2>2, <1>ok DEF PreCreateChunk
  <2>3. CASE ChunkUploaded
    BY <2>3, <1>ok DEF ChunkUploaded, UploaderOther, Without, WholeFile
  <2>. QED
    BY <2>1, <2>2, <2>3, ChunksChange, Zenon
<1>2. dagLinks' = [i \in 1 .. NumChunks |-> i - 1] /\ actualFileSize' = NumChunks
  BY <1>1 DEF StreamInv, StreamOrder
<1>3. Registered' = 0 .. (NumChunks - 1)
  <2>1. 0 .. (NumChunks - 1) \subseteq Registered'
    BY <1>ok, RegisteredGrows DEF WholeFile
  <2>2. Registered' \subseteq 0 .. (NumChunks - 1)
    <3>1. ASSUME NEW c \in Registered' PROVE c \in 0 .. (NumChunks - 1)
      <4>1. PICK t \in TxId' : c \in ChunksOf(txs'[t])
        <5>1. txs' \in Seq(Tx)
          BY <1>ok DEF TypeOK, ChainType
        <5>2. PICK t \in DOMAIN txs' : c \in ChunksOf(txs'[t])
          BY Zenon DEF Registered
        <5>3. DOMAIN txs' = TxId'
          BY <5>1 DEF TxId
        <5>. QED
          BY <5>2, <5>3, Zenon
      <4>2. txs'[t] \in Tx /\ txs'[t].start + txs'[t].len <= NumChunks
        BY <1>ok DEF TypeOK, ChainType, TxId, StreamRead
      <4>3. ChunksOf(txs'[t]) \subseteq 0 .. (NumChunks - 1)
        BY <4>2, <1>ok, ChunksBelow
      <4>. QED
        BY <4>1, <4>3
    <3>. QED
      BY <3>1
  <2>. QED
    BY <2>1, <2>2
<1>4. (0 .. (NumChunks - 1)) \X Block \subseteq filled'
  BY FilledGrows DEF WholeFile
<1>. QED
  BY <1>1, <1>2, <1>3, <1>4 DEF WholeFile

\* CommitFile is first sent by a call that has seen the file filled.
LEMMA CommitStart ==
  ASSUME phase # "commit", commits = <<>>, [Next]_vars
  PROVE  commits' = <<>> /\ (phase' = "commit" => FileFilled)
<1>1. CASE Caller \/ Cancel \/ CallerStops \/ UNCHANGED vars
  BY <1>1 DEF Caller, StartUpload, RejectCommitted, EndCall, Cancel, CallerStops
<1>2. CASE Main /\ ~FileFilled
  BY <1>2
  DEF Main, StartGoroutines, QueryFails, Wait, GetFileByName, PollAgain, CommitFile,
      CommitFileFails, CommitConfirmed, CommitNotConfirmed, AfterWaitOther, EndCall
<1>3. CASE FileFilled
  BY <1>3 DEF FileFilled
<1>4. CASE Reader
  BY <1>4
  DEF Reader, SkipToPosition, ReadChunk, ReadEOF, ReadFails, AddFileChunks,
      AddFileChunksFails, PreCreateChunk, PushBatch, HandOverBatch, PushAborted, ReaderOther
<1>5. CASE Waiter
  BY <1>5
  DEF Waiter, ListPreCreatedChunks, ReceiveBatch, WaiterFinishes, TxConfirmed, WaitForTxFails,
      SendListedChunk, SendBatchChunk, WaiterAborted, WaiterOther
<1>6. CASE Uploader
  BY <1>6
  DEF Uploader, UploadBlock, UploadBlockFails, ChunkUploaded, UploadChunkFails,
      UploaderFinishes, UploaderAborted, UploaderOther
<1>7. CASE Environment
  BY <1>7 DEF Environment, MineAddFileChunks, MineCommitFile, FillBlock, ChainOther
<1>. QED
  BY <1>1, <1>2, <1>3, <1>4, <1>5, <1>6, <1>7, Zenon DEF Next

\* What the contract calls filled is then the whole file.
LEMMA FilledIsWhole ==
  ASSUME CommitInv, FileFilled
  PROVE  WholeFile
<1>1. /\ TypeOK /\ StreamOrder /\ StreamRead /\ CountedRegistered /\ phase = "poll"
      /\ IsFileFilled
  BY DEF CommitInv, FlightInv, RegisteredInv, StreamInv, FileFilled
<1>2. chunkCount = NumChunks /\ DOMAIN preCreatedChunks = {}
  BY <1>1 DEF StreamRead, CommitInv, FlightInv, InFlight
<1>3. Registered = 0 .. (NumChunks - 1)
  BY <1>1, <1>2, RegisteredInStream DEF CountedRegistered
<1>. QED
  BY <1>1, <1>2, <1>3 DEF WholeFile, StreamOrder, IsFileFilled

\* CommitInv is inductive.
LEMMA CommitNext == CommitInv /\ [Next]_vars => CommitInv'
<1> SUFFICES ASSUME CommitInv, [Next]_vars PROVE CommitInv'
  OBVIOUS
<1>1. FlightInv'
  BY FlightNext DEF CommitInv
<1>2. StreamRead' /\ CountedRegistered'
  BY ReadNext, TxsInStream, CountedRegisteredNext
  DEF CommitInv, FlightInv, RegisteredInv, StreamRead
<1>3. CommitWholeFile'
  <2>1. CASE phase = "commit" \/ commits # <<>>
    <3>1. WholeFile
      BY <2>1 DEF CommitInv, CommitWholeFile
    <3>2. WholeFile'
      BY <1>1, <1>2, <3>1, WholeFileKept DEF CommitInv, FlightInv, RegisteredInv
    <3>. QED
      BY <3>2 DEF CommitWholeFile
  <2>2. CASE phase # "commit" /\ commits = <<>>
    <3>1. commits' = <<>> /\ (phase' = "commit" => FileFilled)
      BY <2>2, CommitStart
    <3>2. FileFilled => WholeFile'
      BY <1>1, <1>2, FilledIsWhole, WholeFileKept DEF CommitInv, FlightInv, RegisteredInv
    <3>. QED
      BY <3>1, <3>2 DEF CommitWholeFile
  <2>. QED
    BY <2>1, <2>2
<1>. QED
  BY <1>1, <1>2, <1>3 DEF CommitInv

\* No call sends CommitFile for part of the stream, wherever earlier calls were interrupted.
THEOREM CommitWholeFileCorrect == Spec => []CommitWholeFile
<1>1. Init => CommitInv
  BY FlightInit, PipelineAssumption
  DEF Init, CommitInv, StreamRead, CountedRegistered, CommitWholeFile, TxId
<1>2. CommitInv => CommitWholeFile
  BY DEF CommitInv
<1>. QED
  BY <1>1, <1>2, CommitNext, PTL DEF Spec

-----------------------------------------------------------------------------
(* What has been passed on *)

\* What is left to pass on begins ever later, and never beyond the counted chunks.
LEMMA UnsentGrows ==
  ASSUME StreamInv, [Next]_vars
  PROVE  Unsent \in Nat /\ Unsent' \in Nat /\ Unsent <= chunkCount /\ Unsent <= Unsent'
<1>ok. /\ TypeOK /\ TypeOK' /\ ReaderAligned /\ ReaderAligned'
       /\ chunkCount \in Nat /\ chunkCount' \in Nat /\ batch \in Batch /\ batch' \in Batch
       /\ recorded \in Nat /\ recorded' \in Nat
  BY StreamNext DEF StreamInv, TypeOK, StateType, ReaderType
<1>1. Unsent \in Nat /\ Unsent <= chunkCount
  BY <1>ok DEF Unsent, ReaderAligned, Batch
<1>2. Unsent' \in Nat /\ Unsent' <= chunkCount'
  BY <1>ok DEF Unsent, ReaderAligned, Batch
<1>3. chunkCount <= chunkCount'
  <2>1. PreCreateChunk => chunkCount' = chunkCount + 1
    BY DEF PreCreateChunk
  <2>2. ChunkUploaded => chunkCount' = chunkCount
    BY DEF ChunkUploaded, UploaderOther
  <2>. QED
    BY <1>ok, <2>1, <2>2, ChunksChange
<1>4. CASE UNCHANGED <<batch, batchTx>> /\ readerPc' = readerPc
  BY <1>1, <1>3, <1>4, <1>ok DEF Unsent
<1>5. CASE UNCHANGED <<batch, batchTx>> /\ PreCreateChunk
  BY <1>1, <1>5, <1>ok DEF Unsent, PreCreateChunk
<1>6. CASE readerPc' \notin {"record", "push"}
  BY <1>1, <1>3, <1>6, <1>ok DEF Unsent
<1>7. CASE AddFileChunks
  <2>1. readerPc = "add" /\ readerPc' = "record" /\ UNCHANGED batch
    BY <1>7 DEF AddFileChunks
  <2>. QED
    BY <2>1, <1>ok DEF Unsent, ReaderAligned
<1>. QED
  BY <1>1, <1>2, <1>4, <1>5, <1>6, <1>7, BatchChange, Zenon

-----------------------------------------------------------------------------
(* The way to the uploader *)

\* Steps after which less is on its way.
OrderKept ==
  /\ waitCh' = waitCh \/ waitCh' = <<>>
  /\ UNCHANGED <<waiterPc, waitTx, nextChunk>> \/ waiterPc' \notin {"wait", "send"}

\* Every step is such a step, or one of the waiter's or of the reader's hand-overs.
LEMMA OrderChange ==
  ASSUME [Next]_vars
  PROVE  \/ OrderKept
         \/ PushBatch
         \/ HandOverBatch
         \/ ReceiveBatch
         \/ TxConfirmed
         \/ SendBatchChunk
<1> USE DEF OrderKept
<1>1. CASE Caller \/ Cancel \/ CallerStops \/ UNCHANGED vars
  BY <1>1 DEF Caller, StartUpload, RejectCommitted, Cancel, CallerStops
<1>2. CASE Main
  <2>1. CASE StartGoroutines
    BY <2>1 DEF StartGoroutines, FirstWaiterStep
  <2>. QED
    BY <1>2, <2>1
    DEF Main, QueryFails, Wait, NoGoroutines, GetFileByName, PollAgain,
        FileFilled, CommitFile, CommitFileFails, CommitConfirmed, CommitNotConfirmed,
        AfterWaitOther
<1>3. CASE Reader
  <2>1. CASE PushBatch \/ HandOverBatch
    BY <2>1, Zenon
  <2>. QED
    BY <1>3, <2>1
    DEF Reader, SkipToPosition, ReadChunk, ReadEOF, ReadFails, AddFileChunks,
        AddFileChunksFails, PreCreateChunk, PushAborted, ReaderOther
<1>4. CASE Waiter
  <2>1. CASE ReceiveBatch \/ TxConfirmed \/ SendBatchChunk
    BY <2>1, Zenon
  <2>2. CASE ListPreCreatedChunks \/ SendListedChunk
    BY <2>2 DEF ListPreCreatedChunks, SendListedChunk, NextListed
  <2>3. CASE WaiterFinishes \/ WaitForTxFails \/ WaiterAborted
    BY <2>3 DEF WaiterFinishes, WaitForTxFails, WaiterAborted, WaiterReturns
  <2>. QED
    BY <1>4, <2>1, <2>2, <2>3, Zenon DEF Waiter
<1>5. CASE Uploader
  <2>1. ASSUME NEW b \in Block, UploadBlock(b) \/ UploadBlockFails(b)
        PROVE  UNCHANGED <<waitCh, waiterVars>>
    BY <2>1 DEF UploadBlock, UploadBlockFails, UploaderOther
  <2>. QED
    BY <1>5, <2>1
    DEF Uploader, ChunkUploaded, UploadChunkFails, UploaderFinishes, UploaderAborted,
        UploaderOther
<1>6. CASE Environment
  BY <1>6 DEF Environment, MineAddFileChunks, MineCommitFile, FillBlock, ChainOther
<1>. QED
  BY <1>1, <1>2, <1>3, <1>4, <1>5, <1>6 DEF Next

\* The transactions on their way, by number: where their chunks start and end.
LEMMA TxsPlaced ==
  ASSUME StreamInv, TxsNamed, [Next]_vars
  PROVE  \A t \in TxId : /\ txs[t].start \in Nat /\ txs[t].len \in Nat \ {0}
                         /\ txs'[t].start = txs[t].start /\ txs'[t].len = txs[t].len
<1>1. TypeOK /\ \A t \in TxId : txs[t] \in Tx /\ txs[t].len > 0
  BY DEF StreamInv, TypeOK, ChainType, TxId, TxsNamed
<1>. QED
  BY <1>1, TxsGrow DEF Tx

\* Batches reach the uploader in the order in which they were read.
LEMMA ChannelOrderedNext ==
  ASSUME RegisteredInv, ChannelOrdered, [Next]_vars
  PROVE  ChannelOrdered'
<1> DEFINE First(t) == txs[t].start
           After(t) == txs[t].start + txs[t].len
<1>ok. /\ StreamInv /\ TxsNamed /\ waitCh \in Seq(Nat) /\ \A i \in DOMAIN waitCh : waitCh[i] \in TxId
       /\ (waiterPc \in {"wait", "send"} => waitTx \in TxId)
  BY DEF RegisteredInv, StreamInv, TypeOK, WaiterType
<1>t. /\ \A t \in TxId : First(t) \in Nat /\ After(t) \in Nat
      /\ \A t \in TxId : txs'[t].start = First(t) /\ txs'[t].start + txs'[t].len = After(t)
  BY <1>ok, TxsPlaced
<1>u. Unsent \in Nat /\ Unsent' \in Nat /\ Unsent <= Unsent'
  BY <1>ok, UnsentGrows
<1>b. readerPc = "push" =>
        /\ batchTx \in TxId /\ First(batchTx) = Unsent /\ After(batchTx) = chunkCount
  BY <1>ok DEF TxsNamed, Unsent, StreamInv, ReaderAligned, TypeOK, ReaderType
<1>in. /\ \A i \in DOMAIN waitCh : After(waitCh[i]) <= Unsent
       /\ \A i, j \in DOMAIN waitCh : i < j => After(waitCh[i]) <= First(waitCh[j])
       /\ waiterPc \in {"wait", "send"} =>
            After(waitTx) <= Unsent /\ \A i \in DOMAIN waitCh : After(waitTx) <= First(waitCh[i])
  BY DEF ChannelOrdered, EndOf
<1> SUFFICES
      /\ \A i \in DOMAIN waitCh' : waitCh'[i] \in TxId /\ After(waitCh'[i]) <= Unsent'
      /\ \A i, j \in DOMAIN waitCh' : i < j => After(waitCh'[i]) <= First(waitCh'[j])
      /\ waiterPc' \in {"wait", "send"} =>
           /\ waitTx' \in TxId /\ After(waitTx') <= Unsent'
           /\ \A i \in DOMAIN waitCh' : After(waitTx') <= First(waitCh'[i])
  BY <1>t DEF ChannelOrdered, EndOf
<1> HIDE DEF First, After
<1>1. CASE OrderKept
  BY <1>1, <1>ok, <1>t, <1>u, <1>in DEF OrderKept
<1>2. CASE PushBatch
  <2>1. /\ readerPc = "push" /\ readerPc' \notin {"record", "push"} /\ Unsent' = chunkCount
        /\ waitCh' = Append(waitCh, batchTx) /\ UNCHANGED <<waiterPc, waitTx>>
    BY <1>2 DEF PushBatch, NextBatch, ReaderReturns, ReaderOther, Unsent
  <2>2. /\ \A i \in DOMAIN waitCh : waitCh'[i] = waitCh[i] /\ i < Len(waitCh) + 1
        /\ waitCh'[Len(waitCh) + 1] = batchTx
        /\ DOMAIN waitCh' = DOMAIN waitCh \cup {Len(waitCh) + 1}
    BY <1>ok, <2>1
  <2>. QED
    BY <1>ok, <1>t, <1>u, <1>b, <1>in, <2>1, <2>2
<1>3. CASE HandOverBatch
  <2>1. /\ readerPc = "push" /\ readerPc' \notin {"record", "push"} /\ Unsent' = chunkCount
        /\ waitCh' = <<>> /\ waitTx' = batchTx
    BY <1>3 DEF HandOverBatch, NextBatch, ReaderReturns, Unsent
  <2>. QED
    BY <1>t, <1>u, <1>b, <2>1
<1>4. CASE ReceiveBatch
  <2>1. waitCh # <<>> /\ waitTx' = Head(waitCh) /\ waitCh' = Tail(waitCh)
    BY <1>4 DEF ReceiveBatch
  <2>2. /\ 1 \in DOMAIN waitCh /\ waitTx' = waitCh[1]
        /\ \A i \in DOMAIN waitCh' : i + 1 \in DOMAIN waitCh /\ waitCh'[i] = waitCh[i + 1]
                                     /\ 1 < i + 1 /\ i \in Nat
    BY <1>ok, <2>1
  <2>. QED
    BY <1>ok, <1>t, <1>u, <1>in, <2>2
<1>5. CASE TxConfirmed
  <2>1. UNCHANGED <<waitCh, waitTx>> /\ (waiterPc' \in {"wait", "send"} => waiterPc = "wait")
    BY <1>5 DEF TxConfirmed
  <2>. QED
    BY <1>ok, <1>t, <1>u, <1>in, <2>1
<1>6. CASE SendBatchChunk
  <2>1. UNCHANGED <<waitCh, waitTx>> /\ waiterPc = "send"
    BY <1>6 DEF SendBatchChunk
  <2>. QED
    BY <1>ok, <1>t, <1>u, <1>in, <2>1
<1>. QED
  BY <1>1, <1>2, <1>3, <1>4, <1>5, <1>6, OrderChange, Zenon

-----------------------------------------------------------------------------
(* What is stored *)

\* A call forgets no chunk it has counted.
LEMMA CountGrows ==
  ASSUME StreamInv, [Next]_vars
  PROVE  chunkCount \in Nat /\ chunkCount' \in Nat /\ chunkCount <= chunkCount'
<1>1. chunkCount \in Nat
  BY DEF StreamInv, TypeOK, StateType
<1>2. PreCreateChunk => chunkCount' = chunkCount + 1
  BY DEF PreCreateChunk
<1>3. ChunkUploaded => chunkCount' = chunkCount
  BY DEF ChunkUploaded, UploaderOther
<1>. QED
  BY <1>1, <1>2, <1>3, ChunksChange

\* A block is stored of the uploader's chunk, or not at all.
LEMMA StoredChange ==
  ASSUME [Next]_vars
  PROVE  \/ stored' = stored
         \/ /\ uploaderPc = "blocks" /\ UNCHANGED <<uploaderPc, current>>
            /\ \E b \in blocksLeft :
                 /\ blocksLeft' = blocksLeft \ {b}
                 /\ stored' \subseteq stored \cup {<<current, b>>}
<1>1. ASSUME NEW b \in Block, UploadBlock(b)
      PROVE  /\ uploaderPc = "blocks" /\ UNCHANGED <<uploaderPc, current>> /\ b \in blocksLeft
             /\ blocksLeft' = blocksLeft \ {b} /\ stored' \subseteq stored \cup {<<current, b>>}
  BY <1>1 DEF UploadBlock
<1>2. ASSUME NEW b \in Block, UploadBlockFails(b)
      PROVE  /\ uploaderPc = "blocks" /\ UNCHANGED <<uploaderPc, current>> /\ b \in blocksLeft
             /\ blocksLeft' = blocksLeft \ {b} /\ stored' \subseteq stored \cup {<<current, b>>}
  BY <1>2 DEF UploadBlockFails
<1>3. FillBlock => stored' = stored
  BY DEF FillBlock
<1>4. UNCHANGED nodeVars => stored' = stored
  OBVIOUS
<1>. QED
  BY <1>1, <1>2, <1>3, <1>4, BlocksChange, Zenon

\* The chunk the waiter is about to hand over.
LEMMA NextInBatch ==
  ASSUME RegisteredInv, ChannelOrdered, waiterPc = "send"
  PROVE  /\ nextChunk \in Nat /\ nextChunk < Unsent
         /\ \A i \in DOMAIN waitCh : nextChunk < txs[waitCh[i]].start
<1>1. /\ waitTx \in TxId /\ nextChunk \in ChunksOf(txs[waitTx]) /\ txs \in Seq(Tx)
      /\ nextChunk \in Nat /\ waitCh \in Seq(Nat) /\ \A i \in DOMAIN waitCh : waitCh[i] \in TxId
  BY DEF RegisteredInv, StreamInv, TypeOK, WaiterType, ChainType, HandsOverRegistered
<1>2. txs[waitTx] \in Tx /\ \A i \in DOMAIN waitCh : txs[waitCh[i]].start \in Nat
  <2>1. \A t \in TxId : txs[t] \in Tx
    BY <1>1 DEF TxId
  <2>2. \A x \in Tx : x.start \in Nat
    BY DEF Tx
  <2>. QED
    BY <1>1, <2>1, <2>2
<1>3. nextChunk < EndOf(waitTx) /\ EndOf(waitTx) \in Nat
  <2>1. ASSUME NEW x \in Tx, nextChunk \in ChunksOf(x)
        PROVE  nextChunk < x.start + x.len /\ x.start + x.len \in Nat
    <3>1. x.start \in Nat /\ x.len \in Nat /\ nextChunk <= x.start + x.len - 1
      BY <2>1 DEF ChunksOf, Tx
    <3>. QED
      BY <1>1, <3>1
  <2>. QED
    BY <1>1, <1>2, <2>1, Zenon DEF EndOf
<1>4. chunkCount \in Nat /\ batch.start \in Nat
  BY DEF RegisteredInv, StreamInv, TypeOK, StateType, ReaderType, Batch
<1>. QED
  BY <1>1, <1>2, <1>3, <1>4 DEF ChannelOrdered, Unsent

\* Blocks are stored of counted chunks.
LEMMA StoredCountedNext ==
  ASSUME RegisteredInv, PreCreatedCounted, ChannelOrdered, StoredCounted, [Next]_vars
  PROVE  StoredCounted'
<1> USE DEF StoredCounted
<1>ok. /\ StreamInv /\ TypeOK /\ chunkCount \in Nat /\ chunkCount' \in Nat
       /\ chunkCount <= chunkCount' /\ current \in Nat /\ stored \subseteq Nat \X Block
       /\ DOMAIN listed \subseteq Nat
  BY CountGrows DEF RegisteredInv, StreamInv, TypeOK, UploaderType, ChainType, WaiterType, IsTxMap
<1>1. \A c \in DOMAIN listed' : c < chunkCount'
  <2>1. \A c \in DOMAIN preCreatedChunks : c \in Nat /\ c < chunkCount
    BY <1>ok DEF PreCreatedCounted
  <2>2. DOMAIN listed' \subseteq DOMAIN listed \cup DOMAIN preCreatedChunks
    BY ListedChange DEF EmptyMap, Without
  <2>. QED
    BY <1>ok, <2>1, <2>2
<1>2. uploaderPc' = "blocks" => current' < chunkCount'
  <2>1. CASE UNCHANGED <<uploaderPc, current>>
    BY <1>ok, <2>1
  <2>2. CASE uploaderPc' # "blocks"
    BY <2>2
  <2>3. CASE SendListedChunk
    <3>1. nextChunk \in DOMAIN listed /\ current' = nextChunk
      BY <1>ok, <2>3 DEF SendListedChunk, UploaderTakes, TypeOK, WaiterType
    <3>. QED
      BY <1>ok, <3>1
  <2>4. CASE SendBatchChunk
    <3>1. waiterPc = "send" /\ current' = nextChunk
      BY <2>4 DEF SendBatchChunk, UploaderTakes
    <3>2. nextChunk \in Nat /\ nextChunk < Unsent /\ Unsent \in Nat /\ Unsent <= chunkCount
      BY <1>ok, <3>1, NextInBatch, UnsentGrows
    <3>. QED
      BY <1>ok, <3>1, <3>2
  <2>. QED
    BY <2>1, <2>2, <2>3, <2>4, UploaderChange, Zenon
<1>3. \A s \in stored' : s[1] < chunkCount'
  <2>1. \A s \in stored : s[1] \in Nat
    BY <1>ok
  <2>2. CASE stored' = stored
    BY <1>ok, <2>1, <2>2
  <2>3. ASSUME uploaderPc = "blocks", NEW b, stored' \subseteq stored \cup {<<current, b>>}
        PROVE  \A s \in stored' : s[1] < chunkCount'
    BY <1>ok, <2>1, <2>3
  <2>. QED
    BY <2>2, <2>3, StoredChange, Zenon
<1>. QED
  BY <1>1, <1>2, <1>3

-----------------------------------------------------------------------------
(* A call that starts from nothing *)

\* What comes before everything on its way goes on doing so.
LEMMA BehindKept ==
  ASSUME RegisteredInv, ChannelOrdered, [Next]_vars, NEW c \in Nat, Behind(c)
  PROVE  Behind(c)'
<1> DEFINE First(t) == txs[t].start
<1>ok. /\ StreamInv /\ TxsNamed /\ waitCh \in Seq(Nat) /\ \A i \in DOMAIN waitCh : waitCh[i] \in TxId
       /\ (waiterPc \in {"wait", "send"} => waitTx \in TxId) /\ nextChunk \in Nat
  BY DEF RegisteredInv, StreamInv, TypeOK, WaiterType
<1>t. /\ \A t \in TxId : txs'[t].start = First(t)
      /\ \A t \in TxId : First(t) \in Nat
  BY <1>ok, TxsPlaced
<1>u. Unsent \in Nat /\ Unsent' \in Nat /\ Unsent <= Unsent'
  BY <1>ok, UnsentGrows
<1>b. readerPc = "push" => batchTx \in TxId /\ First(batchTx) = Unsent
  BY <1>ok DEF TxsNamed, Unsent, StreamInv, TypeOK, ReaderType
<1>in. /\ c < Unsent /\ \A i \in DOMAIN waitCh : c < First(waitCh[i])
       /\ waiterPc = "wait" => c < First(waitTx)
       /\ waiterPc = "send" => c < nextChunk
  BY DEF Behind
<1> SUFFICES
      /\ \A i \in DOMAIN waitCh' : waitCh'[i] \in TxId /\ c < First(waitCh'[i])
      /\ waiterPc' = "wait" => waitTx' \in TxId /\ c < First(waitTx')
      /\ waiterPc' = "send" => c < nextChunk'
  BY <1>t, <1>u, <1>in DEF Behind
<1> HIDE DEF First
<1>1. CASE OrderKept
  BY <1>1, <1>ok, <1>t, <1>u, <1>in DEF OrderKept
<1>2. CASE PushBatch
  <2>1. readerPc = "push" /\ waitCh' = Append(waitCh, batchTx) /\ UNCHANGED waiterVars
    BY <1>2 DEF PushBatch, ReaderOther
  <2>2. /\ \A i \in DOMAIN waitCh : waitCh'[i] = waitCh[i]
        /\ waitCh'[Len(waitCh) + 1] = batchTx
        /\ DOMAIN waitCh' = DOMAIN waitCh \cup {Len(waitCh) + 1}
    BY <1>ok, <2>1
  <2>. QED
    BY <1>ok, <1>t, <1>u, <1>in, <1>b, <2>1, <2>2
<1>3. CASE HandOverBatch
  <2>1. readerPc = "push" /\ waitCh' = <<>> /\ waitTx' = batchTx /\ waiterPc' = "wait"
    BY <1>3 DEF HandOverBatch
  <2>. QED
    BY <1>t, <1>u, <1>in, <1>b, <2>1
<1>4. CASE ReceiveBatch
  <2>1. /\ waitCh # <<>> /\ waitTx' = Head(waitCh) /\ waitCh' = Tail(waitCh)
        /\ waiterPc' = "wait"
    BY <1>4 DEF ReceiveBatch
  <2>2. /\ 1 \in DOMAIN waitCh /\ waitTx' = waitCh[1]
        /\ \A i \in DOMAIN waitCh' : i + 1 \in DOMAIN waitCh /\ waitCh'[i] = waitCh[i + 1]
    BY <1>ok, <2>1
  <2>. QED
    BY <1>ok, <1>t, <1>u, <1>in, <2>1, <2>2
<1>5. CASE TxConfirmed
  <2>1. /\ UNCHANGED <<waitCh, waitTx>> /\ waiterPc' # "wait"
        /\ (waiterPc' = "send" => waiterPc = "wait" /\ nextChunk' = First(waitTx))
    BY <1>5 DEF TxConfirmed, AwaitedTx, First
  <2>. QED
    BY <1>ok, <1>t, <1>u, <1>in, <2>1
<1>6. CASE SendBatchChunk
  <2>1. /\ UNCHANGED <<waitCh, waitTx>> /\ waiterPc = "send" /\ waiterPc' # "wait"
        /\ nextChunk' = nextChunk + 1
    BY <1>6 DEF SendBatchChunk
  <2>. QED
    BY <1>ok, <1>t, <1>u, <1>in, <2>1
<1>. QED
  BY <1>1, <1>2, <1>3, <1>4, <1>5, <1>6, OrderChange, Zenon

\* A call that starts from nothing never goes through chunks left behind.
LEMMA ListChange ==
  ASSUME [Next]_vars, phase = "pipeline", waiterPc \notin {"list", "waitListed", "sendListed"}
  PROVE  waiterPc' \notin {"list", "waitListed", "sendListed"}
<1>1. CASE Caller \/ Cancel \/ CallerStops \/ UNCHANGED vars
  BY <1>1 DEF Caller, StartUpload, RejectCommitted, Cancel, CallerStops
<1>2. CASE Main
  BY <1>2
  DEF Main, StartGoroutines, QueryFails, Wait, NoGoroutines, GetFileByName, PollAgain,
      FileFilled, CommitFile, CommitFileFails, CommitConfirmed, CommitNotConfirmed
<1>3. CASE Reader
  BY <1>3
  DEF Reader, SkipToPosition, ReadChunk, ReadEOF, ReadFails, AddFileChunks,
      AddFileChunksFails, PreCreateChunk, PushBatch, HandOverBatch, PushAborted, ReaderOther
<1>4. CASE Waiter
  BY <1>4
  DEF Waiter, ListPreCreatedChunks, ReceiveBatch, WaiterFinishes, TxConfirmed, WaitForTxFails,
      SendListedChunk, SendBatchChunk, WaiterAborted, WaiterReturns
<1>5. CASE Uploader
  <2>1. UNCHANGED waiterVars
    BY <1>5
    DEF Uploader, UploadBlock, UploadBlockFails, ChunkUploaded, UploadChunkFails,
        UploaderFinishes, UploaderAborted, UploaderOther
  <2>. QED
    BY <2>1
<1>6. CASE Environment
  BY <1>6 DEF Environment, MineAddFileChunks, MineCommitFile, FillBlock, ChainOther
<1>. QED
  BY <1>1, <1>2, <1>3, <1>4, <1>5, <1>6 DEF Next

\* A call is in g.Wait because it was, or because its goroutines start.
LEMMA CallChange ==
  ASSUME [Next]_vars, phase' = "pipeline"
  PROVE  StartGoroutines \/ (phase = "pipeline" /\ isContinuation' = isContinuation)
<1>1. CASE Caller \/ Cancel \/ CallerStops \/ UNCHANGED vars
  BY <1>1 DEF Caller, StartUpload, RejectCommitted, Cancel, CallerStops, EndCall
<1>2. CASE Main
  <2>1. CASE StartGoroutines
    BY <2>1, Zenon
  <2>. QED
    BY <1>2, <2>1
    DEF Main, QueryFails, Wait, GetFileByName, PollAgain, FileFilled, CommitFile,
        CommitFileFails, CommitConfirmed, CommitNotConfirmed, EndCall
<1>3. CASE Reader
  BY <1>3
  DEF Reader, SkipToPosition, ReadChunk, ReadEOF, ReadFails, AddFileChunks,
      AddFileChunksFails, PreCreateChunk, PushBatch, HandOverBatch, PushAborted, ReaderOther
<1>4. CASE Waiter
  BY <1>4
  DEF Waiter, ListPreCreatedChunks, ReceiveBatch, WaiterFinishes, TxConfirmed, WaitForTxFails,
      SendListedChunk, SendBatchChunk, WaiterAborted, WaiterOther
<1>5. CASE Uploader
  BY <1>5
  DEF Uploader, UploadBlock, UploadBlockFails, ChunkUploaded, UploadChunkFails,
      UploaderFinishes, UploaderAborted, UploaderOther
<1>6. CASE Environment
  BY <1>6 DEF Environment, MineAddFileChunks, MineCommitFile, FillBlock, ChainOther
<1>. QED
  BY <1>1, <1>2, <1>3, <1>4, <1>5, <1>6 DEF Next

\* What the uploader has left of its chunk.
LEMMA LeftChange ==
  ASSUME [Next]_vars, uploaderPc' = "blocks"
  PROVE  \/ UNCHANGED <<uploaderPc, current, blocksLeft, stored>>
         \/ /\ UNCHANGED <<uploaderPc, current>>
            /\ \E b \in blocksLeft : /\ blocksLeft' = blocksLeft \ {b}
                                     /\ stored' \subseteq stored \cup {<<current, b>>}
         \/ SendListedChunk
         \/ SendBatchChunk
<1>1. CASE Caller \/ Cancel \/ CallerStops \/ UNCHANGED vars
  BY <1>1 DEF Caller, StartUpload, RejectCommitted, Cancel, CallerStops
<1>2. CASE Main
  BY <1>2
  DEF Main, StartGoroutines, QueryFails, Wait, NoGoroutines, GetFileByName, PollAgain,
      FileFilled, CommitFile, CommitFileFails, CommitConfirmed, CommitNotConfirmed, AfterWaitOther
<1>3. CASE Reader
  BY <1>3
  DEF Reader, SkipToPosition, ReadChunk, ReadEOF, ReadFails, AddFileChunks,
      AddFileChunksFails, PreCreateChunk, PushBatch, HandOverBatch, PushAborted, ReaderOther
<1>4. CASE Waiter
  <2>1. CASE SendListedChunk \/ SendBatchChunk
    BY <2>1, Zenon
  <2>. QED
    BY <1>4, <2>1
    DEF Waiter, ListPreCreatedChunks, ReceiveBatch, WaiterFinishes, TxConfirmed, WaitForTxFails,
        WaiterAborted, WaiterOther
<1>5. CASE Uploader
  <2>1. ASSUME NEW b \in Block, UploadBlock(b)
        PROVE  /\ UNCHANGED <<uploaderPc, current>> /\ b \in blocksLeft
               /\ blocksLeft' = blocksLeft \ {b} /\ stored' \subseteq stored \cup {<<current, b>>}
    BY <2>1 DEF UploadBlock
  <2>2. ASSUME NEW b \in Block, UploadBlockFails(b)
        PROVE  /\ UNCHANGED <<uploaderPc, current>> /\ b \in blocksLeft
               /\ blocksLeft' = blocksLeft \ {b} /\ stored' \subseteq stored \cup {<<current, b>>}
    BY <2>2 DEF UploadBlockFails
  <2>3. ~(ChunkUploaded \/ UploadChunkFails \/ UploaderFinishes \/ UploaderAborted)
    BY DEF ChunkUploaded, UploadChunkFails, UploaderFinishes, UploaderAborted, UploaderReturns
  <2>. QED
    BY <1>5, <2>1, <2>2, <2>3, Zenon DEF Uploader
<1>6. CASE Environment
  BY <1>6 DEF Environment, MineAddFileChunks, MineCommitFile, FillBlock, ChainOther
<1>. QED
  BY <1>1, <1>2, <1>3, <1>4, <1>5, <1>6 DEF Next

\* In such a call the chunks reach the uploader in stream order, each once.
LEMMA UploadedInOrderNext ==
  ASSUME RegisteredInv, ChannelOrdered, StoredCounted, UploadedInOrder, [Next]_vars
  PROVE  UploadedInOrder'
<1> SUFFICES ASSUME phase' = "pipeline", ~isContinuation'
             PROVE  /\ waiterPc' \notin {"list", "waitListed", "sendListed"}
                    /\ uploaderPc' = "blocks" =>
                         /\ Behind(current)'
                         /\ \A b \in blocksLeft' : <<current', b>> \notin stored'
                    /\ \A s \in stored' : Behind(s[1])'
  BY DEF UploadedInOrder
<1>ok. /\ StreamInv /\ stored \subseteq Nat \X Block /\ current \in Nat /\ nextChunk \in Nat
       /\ blocksLeft \subseteq Block /\ chunkCount \in Nat
  BY DEF RegisteredInv, StreamInv, TypeOK, ChainType, UploaderType, WaiterType, StateType
<1>0. \A s \in stored : s = <<s[1], s[2]>> /\ s[1] \in Nat
  BY <1>ok
<1>1. CASE StartGoroutines
  <2>1. /\ phase = "resolve" /\ ~isContinuation /\ stored' = stored
        /\ waiterPc' = "receive" /\ uploaderPc' = "receive"
    BY <1>1 DEF StartGoroutines, FirstWaiterStep
  <2>2. chunkCount = 0
    BY <2>1, <1>ok DEF StreamInv, ReaderAligned
  <2>3. stored = {}
    BY <2>2, <1>0 DEF StoredCounted
  <2>. QED
    BY <2>1, <2>3
<1>2. CASE phase = "pipeline" /\ isContinuation' = isContinuation
  <2>1. /\ waiterPc \notin {"list", "waitListed", "sendListed"}
        /\ uploaderPc = "blocks" =>
             Behind(current) /\ \A b \in blocksLeft : <<current, b>> \notin stored
        /\ \A s \in stored : Behind(s[1])
    BY <1>2 DEF UploadedInOrder
  <2>2. waiterPc' \notin {"list", "waitListed", "sendListed"}
    BY <1>2, <2>1, ListChange
  <2>3. \A c \in Nat : Behind(c) => Behind(c)'
    BY BehindKept
  <2>4. \A s \in stored' : Behind(s[1])'
    <3>1. CASE stored' = stored
      BY <3>1, <2>1, <2>3, <1>0
    <3>2. ASSUME uploaderPc = "blocks", NEW b, stored' \subseteq stored \cup {<<current, b>>}
          PROVE  \A s \in stored' : Behind(s[1])'
      BY <3>2, <2>1, <2>3, <1>0, <1>ok
    <3>. QED
      BY <3>1, <3>2, StoredChange, Zenon
  <2>5. ASSUME uploaderPc' = "blocks"
        PROVE  Behind(current)' /\ \A b \in blocksLeft' : <<current', b>> \notin stored'
    <3>1. CASE UNCHANGED <<uploaderPc, current, blocksLeft, stored>>
      <4>1. Behind(current)
        BY <2>1, <2>5, <3>1
      <4>. QED
        BY <2>1, <2>5, <3>1, <4>1, BehindKept, <1>ok
    <3>2. ASSUME UNCHANGED <<uploaderPc, current>>, NEW b \in blocksLeft,
                 blocksLeft' = blocksLeft \ {b}, stored' \subseteq stored \cup {<<current, b>>}
          PROVE  Behind(current)' /\ \A d \in blocksLeft' : <<current', d>> \notin stored'
      <4>1. Behind(current)'
        BY <2>1, <2>5, <3>2, BehindKept, <1>ok
      <4>2. ASSUME NEW d \in blocksLeft' PROVE <<current', d>> \notin stored'
        BY <2>1, <2>5, <3>2, <4>2
      <4>. QED
        BY <4>1, <4>2
    <3>3. CASE SendListedChunk
      BY <2>1, <3>3 DEF SendListedChunk
    <3>4. CASE SendBatchChunk
      <4>1. /\ waiterPc = "send" /\ current' = nextChunk /\ nextChunk' = nextChunk + 1
            /\ waiterPc' # "wait" /\ UNCHANGED <<stored, waitCh, txs, readerPc, batch, chunkCount>>
        BY <3>4 DEF SendBatchChunk, UploaderTakes, WaiterOther
      <4>2. nextChunk < Unsent /\ \A i \in DOMAIN waitCh : nextChunk < txs[waitCh[i]].start
        BY <4>1, NextInBatch
      <4>3. Behind(current)'
        BY <4>1, <4>2, <1>ok DEF Behind, Unsent
      <4>4. \A s \in stored : s[1] < nextChunk
        BY <2>1, <4>1 DEF Behind
      <4>. QED
        BY <4>1, <4>3, <4>4, <1>ok
    <3>. QED
      BY <2>5, <3>1, <3>2, <3>3, <3>4, LeftChange, Zenon
  <2>. QED
    BY <2>2, <2>4, <2>5
<1>. QED
  BY <1>1, <1>2, CallChange

\* A new IPCFileUpload has nothing stored, and each step keeps the order.
LEMMA FreshInit == Init => FreshInv
  BY FlightInit, PipelineAssumption
  DEF Init, FreshInv, BlocksDone, ChannelOrdered, StoredCounted, UploadedInOrder, EmptyMap

LEMMA FreshNext == FreshInv /\ NoChunkLost /\ [Next]_vars => FreshInv'
<1> SUFFICES ASSUME FreshInv, NoChunkLost, [Next]_vars PROVE FreshInv'
  OBVIOUS
<1> USE DEF FreshInv
<1>1. RegisteredInv /\ PreCreatedCounted /\ StoredInv
  BY DEF FlightInv, RegisteredInv, StoredInv
<1>. QED
  BY <1>1, FlightNext, BlocksCounted, ChannelOrderedNext, StoredCountedNext, UploadedInOrderNext

\* A call that is not a continuation never meets a block the contract already has, so
\* BlockAlreadyFilled, which only continuations forgive, cannot fail it.
THEOREM FreshCallNeverRefillsCorrect == Spec => []FreshCallNeverRefills
<1>1. FreshInv => FreshCallNeverRefills
  BY DEF FreshInv, FlightInv, HandOverOrder, UploadedInOrder, BlocksDone, FreshCallNeverRefills
<1>. QED
  BY <1>1, FreshInit, FreshNext, NoChunkLostCorrect, PTL DEF Spec

-----------------------------------------------------------------------------
(* Upload implements FileUpload: whatever the calls on a file are and      *)
(* however they end, each of their steps is one of that specification, or  *)
(* changes nothing it speaks of.                                           *)

Index == 0 .. (NumChunks - 1)

\* A receipt is awaited of a CommitFile that has been sent.
CommitSent == phase = "confirm" => commits # <<>>

PromiseInv == CommitInv /\ FreshInv /\ NoChunkLost /\ CommitSent

-----------------------------------------------------------------------------
(* What a step changes of what FileUpload speaks of *)

\* Transactions are sent or mined; sending more than one at once does not happen.
LEMMA CommitsChange ==
  ASSUME [Next]_vars
  PROVE  \/ UNCHANGED commits
         \/ commits' = Append(commits, "pending")
         \/ MineCommitFile
<1>1. CASE Caller \/ Cancel \/ CallerStops \/ UNCHANGED vars
  BY <1>1 DEF Caller, StartUpload, RejectCommitted, Cancel, CallerStops
<1>2. CASE Main
  BY <1>2
  DEF Main, StartGoroutines, QueryFails, Wait, GetFileByName, PollAgain, FileFilled,
      CommitFile, CommitFileFails, CommitConfirmed, CommitNotConfirmed, AfterWaitOther
<1>3. CASE Reader
  BY <1>3
  DEF Reader, SkipToPosition, ReadChunk, ReadEOF, ReadFails, AddFileChunks,
      AddFileChunksFails, PreCreateChunk, PushBatch, HandOverBatch, PushAborted, ReaderOther
<1>4. CASE Waiter
  BY <1>4
  DEF Waiter, ListPreCreatedChunks, ReceiveBatch, WaiterFinishes, TxConfirmed, WaitForTxFails,
      SendListedChunk, SendBatchChunk, WaiterAborted, WaiterOther
<1>5. CASE Uploader
  BY <1>5
  DEF Uploader, UploadBlock, UploadBlockFails, ChunkUploaded, UploadChunkFails,
      UploaderFinishes, UploaderAborted, UploaderOther
<1>6. CASE Environment
  BY <1>6 DEF Environment, MineAddFileChunks, FillBlock
<1>. QED
  BY <1>1, <1>2, <1>3, <1>4, <1>5, <1>6 DEF Next

\* Success is reported by CommitConfirmed alone.
LEMMA ResultChange ==
  ASSUME [Next]_vars
  PROVE  \/ UNCHANGED result
         \/ result' # "ok"
         \/ CommitConfirmed
<1>1. CASE Caller \/ Cancel \/ CallerStops \/ UNCHANGED vars
  BY <1>1 DEF Caller, StartUpload, RejectCommitted, EndCall, Cancel, CallerStops
<1>2. CASE Main
  BY <1>2
  DEF Main, StartGoroutines, QueryFails, Wait, GetFileByName, PollAgain, FileFilled,
      CommitFile, CommitFileFails, CommitNotConfirmed, EndCall
<1>3. CASE Reader
  BY <1>3
  DEF Reader, SkipToPosition, ReadChunk, ReadEOF, ReadFails, AddFileChunks,
      AddFileChunksFails, PreCreateChunk, PushBatch, HandOverBatch, PushAborted, ReaderOther
<1>4. CASE Waiter
  BY <1>4
  DEF Waiter, ListPreCreatedChunks, ReceiveBatch, WaiterFinishes, TxConfirmed, WaitForTxFails,
      SendListedChunk, SendBatchChunk, WaiterAborted, WaiterOther
<1>5. CASE Uploader
  BY <1>5
  DEF Uploader, UploadBlock, UploadBlockFails, ChunkUploaded, UploadChunkFails,
      UploaderFinishes, UploaderAborted, UploaderOther
<1>6. CASE Environment
  BY <1>6 DEF Environment, MineAddFileChunks, MineCommitFile, FillBlock, ChainOther
<1>. QED
  BY <1>1, <1>2, <1>3, <1>4, <1>5, <1>6 DEF Next

\* A step that sees to the chain or the nodes does nothing else.
LEMMA OneAtATime ==
  ASSUME [Next]_vars
  PROVE  /\ MineAddFileChunks => UNCHANGED <<commits, nodeVars, result>>
         /\ MineCommitFile => UNCHANGED <<txs, nodeVars, result>>
         /\ FillBlock => UNCHANGED <<txs, commits, stored, result>>
         /\ CommitConfirmed => UNCHANGED <<txs, commits, nodeVars>>
         /\ \A b \in Block : UploadBlock(b) \/ UploadBlockFails(b) =>
              UNCHANGED <<txs, commits, filled, result>>
  BY DEF MineAddFileChunks, MineCommitFile, FillBlock, ChainOther, CommitConfirmed,
         AfterWaitOther, UploadBlock, UploadBlockFails, UploaderOther

\* A transaction that has only been sent does not register anything yet.
LEMMA SentRegistersNothing ==
  ASSUME TypeOK, txs' = txs \/ txs' = Append(txs, AddFileChunksTx(batch))
  PROVE  Registered' = Registered
<1>1. CASE txs' = txs
  BY <1>1 DEF Registered
<1>2. CASE txs' = Append(txs, AddFileChunksTx(batch))
  <2>1. txs \in Seq(Tx)
    BY DEF TypeOK, ChainType
  <2>2. Len(txs) \in Nat /\ DOMAIN txs = 1 .. Len(txs) /\ DOMAIN txs' = 1 .. (Len(txs) + 1)
    BY <2>1, <1>2
  <2>3. \A t \in DOMAIN txs : t \in DOMAIN txs' /\ txs'[t] = txs[t]
    BY <2>1, <1>2
  <2>4. txs'[Len(txs) + 1].status = "pending"
    BY <2>1, <1>2 DEF AddFileChunksTx
  <2>5. ASSUME NEW t \in DOMAIN txs', txs'[t].status = "success" PROVE t \in DOMAIN txs
    <3>1. t # Len(txs) + 1
      BY <2>4, <2>5
    <3>. QED
      BY <2>2, <2>5, <3>1
  <2>6. {t \in DOMAIN txs' : txs'[t].status = "success"} = {t \in DOMAIN txs : txs[t].status = "success"}
    BY <2>3, <2>5
  <2>7. \A t \in DOMAIN txs : ChunksOf(txs'[t]) = ChunksOf(txs[t])
    BY <2>3
  <2>. QED
    BY <2>6, <2>7 DEF Registered
<1>. QED
  BY <1>1, <1>2

\* Nor does a CommitFile that has only been sent commit the file.
LEMMA SentCommitsNothing ==
  ASSUME TypeOK, commits' = commits \/ commits' = Append(commits, "pending")
  PROVE  FileCommitted' = FileCommitted
<1>1. CASE commits' = commits
  BY <1>1 DEF FileCommitted
<1>2. CASE commits' = Append(commits, "pending")
  <2>1. commits \in Seq(Status)
    BY DEF TypeOK, ChainType
  <2>2. \A i \in DOMAIN commits : i \in DOMAIN commits' /\ commits'[i] = commits[i]
    BY <2>1, <1>2
  <2>3. ASSUME NEW i \in DOMAIN commits', commits'[i] = "success" PROVE i \in DOMAIN commits
    <3>1. Len(commits) \in Nat /\ DOMAIN commits' = 1 .. (Len(commits) + 1)
          /\ commits'[Len(commits) + 1] = "pending"
      BY <2>1, <1>2
    <3>2. i # Len(commits) + 1
      BY <3>1, <2>3
    <3>. QED
      BY <2>1, <2>3, <3>1, <3>2
  <2>4. FileCommitted' <=> FileCommitted
    BY <2>2, <2>3 DEF FileCommitted
  <2>. QED
    BY <2>4 DEF FileCommitted
<1>. QED
  BY <1>1, <1>2
-----------------------------------------------------------------------------
(* The steps of FileUpload *)

\* Every step of FileUpload needs some of what the pipeline has proved.
LEMMA InvUnfolded ==
  ASSUME PromiseInv
  PROVE  /\ TypeOK /\ TxsNamed /\ UploadAfterRegistration /\ StreamRead /\ CommitWholeFile
         /\ BlocksDone /\ StoredCounted /\ NumChunks \in Nat
         /\ Registered \subseteq Index /\ stored \subseteq Index \X Block
<1>1. /\ TypeOK /\ TxsNamed /\ UploadAfterRegistration /\ StreamRead /\ CommitWholeFile
      /\ BlocksDone /\ StoredCounted
  BY DEF PromiseInv, CommitInv, FreshInv, FlightInv, RegisteredInv, StreamInv
<1>2. NumChunks \in Nat
  BY PipelineAssumption
<1>3. Registered \subseteq Index
  BY <1>1, RegisteredInStream DEF Index
<1>4. ASSUME NEW s \in stored PROVE s \in Index \X Block
  <2>1. s \in Nat \X Block
    BY <1>1 DEF TypeOK, ChainType
  <2>2. s[1] < chunkCount /\ chunkCount <= NumChunks /\ chunkCount \in Nat
    BY <1>1 DEF StoredCounted, StreamRead, TypeOK, StateType
  <2>3. s[1] \in Index
    BY <1>2, <2>1, <2>2 DEF Index
  <2>. QED
    BY <2>1, <2>3
<1>. QED
  BY <1>1, <1>2, <1>3, <1>4

\* A transaction that is mined registers its batch, or nothing.
LEMMA MinedRegisters ==
  ASSUME PromiseInv, MineAddFileChunks, UNCHANGED <<commits, nodeVars, result>>
  PROVE  Promise!Next \/ UNCHANGED Promise!vars
<1>ok. /\ TypeOK /\ TxsNamed /\ StreamRead /\ txs \in Seq(Tx) /\ NumChunks \in Nat
  BY InvUnfolded DEF TypeOK, ChainType
<1>1. FileCommitted' = FileCommitted /\ (result = "ok")' = (result = "ok")
  BY DEF FileCommitted
<1>2. PICK t \in DOMAIN txs, s \in {"success", "reverted"} :
        /\ txs[t].status = "pending" /\ txs' = [txs EXCEPT ![t].status = s]
        /\ s = "success" => ChunksOf(txs[t]) \cap Registered = {}
  <2>1. PICK t \in DOMAIN txs :
          /\ txs[t].status = "pending"
          /\ \/ txs' = [txs EXCEPT ![t].status = "success"] /\ ChunksOf(txs[t]) \cap Registered = {}
             \/ txs' = [txs EXCEPT ![t].status = "reverted"]
    BY DEF MineAddFileChunks
  <2>. QED
    BY <2>1
<1>3. DOMAIN txs' = DOMAIN txs
  BY <1>2
<1>4. \A u \in DOMAIN txs : /\ txs'[u].start = txs[u].start /\ txs'[u].len = txs[u].len
                           /\ txs'[u].status = IF u = t THEN s ELSE txs[u].status
  BY <1>ok, <1>2 DEF Tx
<1>4a. \A u \in DOMAIN txs : ChunksOf(txs'[u]) = ChunksOf(txs[u])
  BY <1>4 DEF ChunksOf
<1>5. CASE s = "reverted"
  <2>2. {u \in DOMAIN txs' : txs'[u].status = "success"} = {u \in DOMAIN txs : txs[u].status = "success"}
    BY <1>2, <1>3, <1>4, <1>5
  <2>3. Registered' = Registered
    BY <1>4a, <2>2 DEF Registered
  <2>. QED
    BY <1>1, <2>3 DEF Promise!vars
<1>6. CASE s = "success"
  <2> DEFINE S == ChunksOf(txs[t])
  <2>2. {u \in DOMAIN txs' : txs'[u].status = "success"}
          = {u \in DOMAIN txs : txs[u].status = "success"} \cup {t}
    BY <1>2, <1>3, <1>4, <1>6
  <2>3. Registered' = Registered \cup S
    BY <1>4a, <2>2 DEF Registered
  <2>4. txs[t] \in Tx /\ txs[t].len > 0 /\ txs[t].start + txs[t].len <= NumChunks
    BY <1>ok DEF TxsNamed, StreamRead, TxId
  <2>5. txs[t].start \in Nat /\ txs[t].len \in Nat
    BY <2>4 DEF Tx
  <2>6. S # {} /\ S \in SUBSET Index
    <3>1. txs[t].start \in S
      BY <2>4, <2>5 DEF ChunksOf
    <3>2. S \subseteq Index
      BY <1>ok, <2>4, <2>5 DEF ChunksOf, Index
    <3>. QED
      BY <3>1, <3>2
  <2>7. Promise!Register(S)
    BY <1>1, <1>2, <1>6, <2>3, <2>6 DEF Promise!Register
  <2>. QED
    BY <2>6, <2>7 DEF Promise!Next, Index
<1>. QED
  BY <1>2, <1>5, <1>6

\* A CommitFile that succeeds commits a file that is whole.
LEMMA MinedCommits ==
  ASSUME PromiseInv, MineCommitFile, UNCHANGED <<txs, nodeVars, result>>
  PROVE  Promise!Next \/ UNCHANGED Promise!vars
<1>ok. /\ CommitWholeFile /\ BlocksDone /\ commits \in Seq(Status) /\ stored \subseteq Index \X Block
  BY InvUnfolded DEF TypeOK, ChainType
<1>1. Registered' = Registered /\ (result = "ok")' = (result = "ok")
  BY DEF Registered
<1>2. PICK i \in DOMAIN commits :
        /\ commits[i] = "pending"
        /\ \/ commits' = [commits EXCEPT ![i] = "success"] /\ ~FileCommitted
           \/ commits' = [commits EXCEPT ![i] = "reverted"]
  BY DEF MineCommitFile
<1>3. DOMAIN commits' = DOMAIN commits /\ \A j \in DOMAIN commits \ {i} : commits'[j] = commits[j]
  BY <1>ok, <1>2
<1>4. CASE commits' = [commits EXCEPT ![i] = "reverted"]
  <2>1. commits'[i] = "reverted"
    BY <1>ok, <1>4
  <2>2. FileCommitted' = FileCommitted
    BY <1>2, <1>3, <2>1 DEF FileCommitted
  <2>. QED
    BY <1>1, <2>2 DEF Promise!vars
<1>5. CASE commits' = [commits EXCEPT ![i] = "success"] /\ ~FileCommitted
  <2>1. FileCommitted' = TRUE
    BY <1>ok, <1>3, <1>5 DEF FileCommitted
  <2>2. WholeFile
    BY <1>2, <1>ok DEF CommitWholeFile
  <2>3. Registered = Index /\ filled = Index \X Block
    BY <1>ok, <2>2 DEF WholeFile, BlocksDone, Index
  <2>4. Promise!Commit
    BY <1>1, <1>5, <2>1, <2>3 DEF Promise!Commit, Index
  <2>. QED
    BY <2>4 DEF Promise!Next
<1>. QED
  BY <1>2, <1>4, <1>5

\* Blocks are stored of the chunk in the uploader's hands, which is registered.
LEMMA UploadStores ==
  ASSUME PromiseInv, NEW b \in Block, UploadBlock(b) \/ UploadBlockFails(b),
         UNCHANGED <<txs, commits, filled, result>>
  PROVE  Promise!Next \/ UNCHANGED Promise!vars
<1>1. UploadAfterRegistration /\ Registered \subseteq Index
  BY InvUnfolded
<1>2. Registered' = Registered /\ FileCommitted' = FileCommitted /\ (result = "ok")' = (result = "ok")
  BY DEF Registered, FileCommitted
<1>3. CASE UNCHANGED stored
  BY <1>2, <1>3 DEF Promise!vars
<1>4. CASE stored' = stored \cup {<<current, b>>}
  <2>1. current \in Registered /\ current \in Index
    BY <1>1 DEF UploadBlock, UploadBlockFails, UploadAfterRegistration
  <2>2. Promise!Store(current, b)
    BY <1>2, <1>4, <2>1 DEF Promise!Store
  <2>. QED
    BY <2>1, <2>2 DEF Promise!Next, Index
<1>. QED
  BY <1>3, <1>4 DEF UploadBlock, UploadBlockFails

\* A block is reported that a node has.
LEMMA ReportFills ==
  ASSUME PromiseInv, FillBlock, UNCHANGED <<txs, commits, stored, result>>
  PROVE  Promise!Next
<1>1. stored \subseteq Index \X Block
  BY InvUnfolded
<1>2. Registered' = Registered /\ FileCommitted' = FileCommitted /\ (result = "ok")' = (result = "ok")
  BY DEF Registered, FileCommitted
<1>3. PICK s \in stored : filled' = filled \cup {s}
  BY DEF FillBlock
<1>4. PICK c \in Index, b \in Block : s = <<c, b>>
  BY <1>1, <1>3
<1>5. Promise!Fill(c, b)
  BY <1>2, <1>3, <1>4 DEF Promise!Fill
<1>. QED
  BY <1>4, <1>5 DEF Promise!Next, Index

\* All other steps change nothing but what the call reports, which is success only once
\* the file is committed.
LEMMA OthersReport ==
  ASSUME PromiseInv, UNCHANGED nodeVars,
         txs' = txs \/ txs' = Append(txs, AddFileChunksTx(batch)),
         commits' = commits \/ commits' = Append(commits, "pending"),
         UNCHANGED result \/ result' # "ok" \/ CommitConfirmed
  PROVE  Promise!Next \/ UNCHANGED Promise!vars
<1>1. TypeOK
  BY InvUnfolded
<1>2. Registered' = Registered /\ FileCommitted' = FileCommitted
  BY <1>1, SentRegistersNothing, SentCommitsNothing
<1>3. CASE UNCHANGED result
  <2>1. (result = "ok")' = (result = "ok")
    BY <1>3
  <2>. QED
    BY <1>2, <2>1 DEF Promise!vars
<1>4. CASE result' # "ok"
  <2>1. (result = "ok")' = FALSE
    BY <1>4
  <2>2. Promise!Report
    BY <1>2, <2>1 DEF Promise!Report
  <2>. QED
    BY <2>2 DEF Promise!Next
<1>5. CASE CommitConfirmed
  <2>1. result' = "ok" /\ commits[Len(commits)] = "success"
    BY <1>5 DEF CommitConfirmed, EndCall, Confirmed
  <2>2. Len(commits) \in DOMAIN commits
    <3>1. commits # <<>>
      BY <1>5 DEF CommitConfirmed, PromiseInv, CommitSent
    <3>2. commits \in Seq(Status)
      BY <1>1 DEF TypeOK, ChainType
    <3>. QED
      BY <3>1, <3>2
  <2>3. FileCommitted = TRUE /\ (result = "ok")' = TRUE
    BY <2>1, <2>2 DEF FileCommitted
  <2>4. Promise!Report
    BY <1>2, <2>3 DEF Promise!Report
  <2>. QED
    BY <2>4 DEF Promise!Next
<1>. QED
  BY <1>3, <1>4, <1>5
-----------------------------------------------------------------------------
(* The refinement *)

\* The pipeline comes to wait for a receipt by sending CommitFile.
LEMMA CommitSentNext ==
  ASSUME TypeOK, CommitSent, [Next]_vars
  PROVE  CommitSent'
<1>a. commits \in Seq(Status)
  BY DEF TypeOK, ChainType
<1>1. phase' = "confirm" => phase = "confirm" \/ CommitFile
  <2>1. CASE Caller \/ Cancel \/ CallerStops \/ UNCHANGED vars
    BY <2>1 DEF Caller, StartUpload, RejectCommitted, EndCall, Cancel, CallerStops
  <2>2. CASE Main
    BY <2>2
    DEF Main, StartGoroutines, QueryFails, Wait, GetFileByName, PollAgain, FileFilled,
        CommitFileFails, CommitConfirmed, CommitNotConfirmed, EndCall
  <2>3. CASE Reader
    BY <2>3
    DEF Reader, SkipToPosition, ReadChunk, ReadEOF, ReadFails, AddFileChunks,
        AddFileChunksFails, PreCreateChunk, PushBatch, HandOverBatch, PushAborted, ReaderOther
  <2>4. CASE Waiter
    BY <2>4
    DEF Waiter, ListPreCreatedChunks, ReceiveBatch, WaiterFinishes, TxConfirmed,
        WaitForTxFails, SendListedChunk, SendBatchChunk, WaiterAborted, WaiterOther
  <2>5. CASE Uploader
    BY <2>5
    DEF Uploader, UploadBlock, UploadBlockFails, ChunkUploaded, UploadChunkFails,
        UploaderFinishes, UploaderAborted, UploaderOther
  <2>6. CASE Environment
    BY <2>6 DEF Environment, MineAddFileChunks, MineCommitFile, FillBlock, ChainOther
  <2>. QED
    BY <2>1, <2>2, <2>3, <2>4, <2>5, <2>6 DEF Next
<1>2. CommitFile => commits' # <<>>
  BY <1>a DEF CommitFile
<1>3. commits # <<>> => commits' # <<>>
  <2>1. CASE MineCommitFile
    <3>1. DOMAIN commits' = DOMAIN commits
      BY <2>1 DEF MineCommitFile
    <3>. QED
      BY <1>a, <3>1
  <2>2. CASE commits' = commits \/ commits' = Append(commits, "pending")
    BY <1>a, <2>2
  <2>. QED
    BY <2>1, <2>2, CommitsChange
<1>. QED
  BY <1>1, <1>2, <1>3 DEF CommitSent

LEMMA PromiseInit == Init => PromiseInv
<1> SUFFICES ASSUME Init PROVE PromiseInv
  OBVIOUS
<1>1. CommitInv
  BY FlightInit, PipelineAssumption
  DEF Init, CommitInv, StreamRead, CountedRegistered, CommitWholeFile, TxId
<1>2. FreshInv
  BY FreshInit
<1>3. NoChunkLost /\ CommitSent
  BY PipelineAssumption DEF Init, NoChunkLost, CommitSent
<1>. QED
  BY <1>1, <1>2, <1>3 DEF PromiseInv

LEMMA PromiseInvNext == PromiseInv /\ [Next]_vars => PromiseInv'
<1> SUFFICES ASSUME PromiseInv, [Next]_vars PROVE PromiseInv'
  OBVIOUS
<1>1. CommitInv' /\ FreshInv'
  BY CommitNext, FreshNext DEF PromiseInv
<1>2. StoredInv
  BY DEF PromiseInv, StoredInv, FreshInv, FlightInv, RegisteredInv
<1>3. NoChunkLost'
  BY <1>2, ChunksKept
<1>4. CommitSent'
  BY InvUnfolded, CommitSentNext DEF PromiseInv
<1>. QED
  BY <1>1, <1>3, <1>4 DEF PromiseInv

\* Every step of the pipeline is one of FileUpload, or changes nothing it speaks of.
LEMMA PromiseStep ==
  ASSUME PromiseInv, [Next]_vars
  PROVE  Promise!Next \/ UNCHANGED Promise!vars
<1>1. CASE MineAddFileChunks
  BY <1>1, OneAtATime, MinedRegisters
<1>2. CASE MineCommitFile
  BY <1>2, OneAtATime, MinedCommits
<1>3. CASE FillBlock
  BY <1>3, OneAtATime, ReportFills
<1>4. ASSUME NEW b \in Block, UploadBlock(b) \/ UploadBlockFails(b)
      PROVE  Promise!Next \/ UNCHANGED Promise!vars
  BY <1>4, OneAtATime, UploadStores
<1>5. CASE /\ ~MineAddFileChunks /\ ~MineCommitFile /\ ~FillBlock
           /\ ~(\E b \in Block : UploadBlock(b) \/ UploadBlockFails(b))
  <2>1. UNCHANGED nodeVars
    BY <1>5, BlocksChange
  <2>2. txs' = txs \/ txs' = Append(txs, AddFileChunksTx(batch))
    BY <1>5, TxsChange
  <2>3. commits' = commits \/ commits' = Append(commits, "pending")
    BY <1>5, CommitsChange
  <2>4. UNCHANGED result \/ result' # "ok" \/ CommitConfirmed
    BY ResultChange
  <2>. QED
    BY <2>1, <2>2, <2>3, <2>4, OthersReport
<1>. QED
  BY <1>1, <1>2, <1>3, <1>4, <1>5

\* Whatever calls of Upload are made and however they end, the file is uploaded as FileUpload
\* says: registered, then stored, then filled, then committed once and as a whole, and only
\* then reported as a success.
THEOREM UploadImplementsFileUpload == Spec => ImplementsFileUpload
<1>1. Init => Promise!Init
  <2> SUFFICES ASSUME Init PROVE Promise!Init
    OBVIOUS
  <2>1. Registered = {} /\ FileCommitted = FALSE
    BY DEF Init, Registered, FileCommitted
  <2>. QED
    BY <2>1 DEF Init, Promise!Init
<1>2. PromiseInv /\ [Next]_vars => [Promise!Next]_Promise!vars
  BY PromiseStep
<1>. QED
  BY <1>1, <1>2, PromiseInit, PromiseInvNext, PTL DEF Spec, ImplementsFileUpload, Promise!Spec
=============================================================================
