---------------------------- MODULE UploadProofs ------------------------------
(***************************************************************************)
(* Type correctness and the first safety invariants of the upload pipeline,*)
(* for every stream length, block set, batch size, channel capacity, fault *)
(* set and bound.                                                          *)
(***************************************************************************)
EXTENDS UploadProperties, TLAPS

USE DEF vars, callVars, boundVars, stateVars, progressVars, readerVars, waiterVars,
        uploaderVars, chainVars, nodeVars

-----------------------------------------------------------------------------
(* The flags: Boolean values are Zenon's, the rest of the type is SMT's *)

\* No step of the call, of a goroutine or of the chain stores anything but a
\* truth value in a flag.
LEMMA FlagNext == FlagType /\ [Next]_vars => FlagType'
<1> SUFFICES ASSUME FlagType, [Next]_vars PROVE FlagType'
  OBVIOUS
<1> USE DEF FlagType
<1>1. CASE Caller
  <2>1. CASE StartUpload
    BY <2>1, SMT DEF StartUpload
  <2>2. CASE RejectCommitted
    BY <2>2, Zenon DEF RejectCommitted, EndCall
  <2>. QED
    BY <1>1, <2>1, <2>2 DEF Caller
<1>2. CASE Main
  <2>1. CASE Wait
    BY <2>1, Zenon DEF Wait, EndCall, NoGoroutines
  <2>2. CASE QueryFails
    BY <2>2, Zenon DEF QueryFails, EndCall
  <2>3. CASE CommitFile
    BY <2>3, Zenon DEF CommitFile, AfterWaitOther
  <2>4. CASE CommitFileFails
    BY <2>4, Zenon DEF CommitFileFails, EndCall
  <2>5. CASE CommitConfirmed \/ CommitNotConfirmed
    BY <2>5, Zenon DEF CommitConfirmed, CommitNotConfirmed, EndCall, AfterWaitOther
  <2>. QED
    BY <1>2, <2>1, <2>2, <2>3, <2>4, <2>5, Zenon
    DEF Main, StartGoroutines, GetFileByName, PollAgain, FileFilled, AfterWaitOther
<1>3. CASE Reader
  <2>1. CASE ReadEOF
    BY <2>1, Zenon DEF ReadEOF, ReaderOther, ReaderReturns
  <2>2. CASE AddFileChunksFails
    BY <2>2, Zenon DEF AddFileChunksFails, ReaderOther, ReaderReturns
  <2>3. CASE PushBatch
    BY <2>3, Zenon DEF PushBatch, NextBatch, ReaderOther, ReaderReturns
  <2>4. CASE HandOverBatch
    BY <2>4, Zenon DEF HandOverBatch, NextBatch, ReaderReturns
  <2>5. CASE SkipToPosition \/ ReadChunk \/ AddFileChunks \/ PreCreateChunk
    BY <2>5, Zenon DEF SkipToPosition, ReadChunk, AddFileChunks, PreCreateChunk, ReaderOther
  <2>6. CASE ReadFails \/ PushAborted
    BY <2>6, Zenon DEF ReadFails, PushAborted, ReaderReturns, ReaderOther
  <2>. QED
    BY <1>3, <2>1, <2>2, <2>3, <2>4, <2>5, <2>6, Zenon DEF Reader
<1>4. CASE Waiter
  BY <1>4, Zenon
  DEF Waiter, ListPreCreatedChunks, ReceiveBatch, WaiterFinishes, TxConfirmed, WaitForTxFails,
      SendListedChunk, SendBatchChunk, WaiterAborted, WaiterOther, WaiterReturns, UploaderTakes
<1>5. CASE Uploader
  <2>1. ASSUME NEW b \in Block, UploadBlock(b) \/ UploadBlockFails(b)
        PROVE  FlagType'
    BY <2>1, Zenon DEF UploadBlock, UploadBlockFails, UploaderOther
  <2>. QED
    BY <1>5, <2>1, Zenon
    DEF Uploader, ChunkUploaded, UploadChunkFails, UploaderFinishes, UploaderAborted,
        UploaderReturns, UploaderOther
<1>6. CASE Cancel \/ CallerStops \/ UNCHANGED vars
  <2>1. CASE Cancel
    BY <2>1, Zenon DEF Cancel
  <2>2. CASE CallerStops \/ UNCHANGED vars
    BY <2>2, Zenon DEF CallerStops
  <2>. QED
    BY <1>6, <2>1, <2>2
<1>7. CASE Environment
  BY <1>7, ZenonT(30) DEF Environment, MineAddFileChunks, MineCommitFile, FillBlock, ChainOther
<1>. QED
  BY <1>1, <1>2, <1>3, <1>4, <1>5, <1>6, <1>7, Zenon DEF Next

-----------------------------------------------------------------------------
(* The data operators *)

\* Recording a chunk (preCreateChunk) keeps a map from chunk indices to
\* transactions.
LEMMA WithType ==
  ASSUME NEW m, IsTxMap(m), NEW c \in Nat, NEW t \in TxId
  PROVE  IsTxMap(With(m, c, t))
  BY DEF IsTxMap, With

\* Forgetting a chunk (chunkUploaded) does so too.
LEMMA WithoutType ==
  ASSUME NEW m, IsTxMap(m), NEW c
  PROVE  IsTxMap(Without(m, c))
  BY DEF IsTxMap, Without

\* Going on with the lowest index of the snapshot (NextListed) leaves the waiter at one of
\* its keys, or at the channel.
LEMMA NextListedType ==
  ASSUME NEW m, IsTxMap(m), nextChunk \in Nat, NextListed(m)
  PROVE  /\ waiterPc' \in {"receive", "waitListed"} /\ nextChunk' \in Nat
         /\ waiterPc' = "waitListed" => nextChunk' \in DOMAIN m
<1>1. LowestKeys(m) \subseteq DOMAIN m
  BY DEF LowestKeys
<1>. QED
  BY <1>1 DEF NextListed, IsTxMap

\* The reader goes on with an empty batch where the last one ended (NextBatch).
LEMMA NextBatchType ==
  ASSUME chunkIndex \in Nat, position \in Nat, NextBatch
  PROVE  batch' \in Batch /\ readerPc' \in {"read", "done"}
BY DEF NextBatch, ReaderReturns, EmptyBatch, Batch

\* A batch with one more chunk is a batch.
LEMMA LongerBatch ==
  ASSUME batch \in Batch
  PROVE  /\ [batch EXCEPT !.len = @ + 1] \in Batch
         /\ [batch EXCEPT !.len = @ + 1]
              = [start |-> batch.start, offset |-> batch.offset, len |-> batch.len + 1]
<1>1. batch.start \in Nat /\ batch.offset \in Nat /\ batch.len + 1 \in Nat
  BY DEF Batch
<1>2. [batch EXCEPT !.len = @ + 1]
        = [start |-> batch.start, offset |-> batch.offset, len |-> batch.len + 1]
  BY DEF Batch
<1>. QED
  BY <1>1, <1>2 DEF Batch

\* So is a transaction with another status, wherever it stands in the sequence.
LEMMA StatusChange ==
  ASSUME txs \in Seq(Tx), NEW t \in DOMAIN txs, NEW s \in Status,
         txs' = [txs EXCEPT ![t].status = s]
  PROVE  txs' \in Seq(Tx) /\ Len(txs') = Len(txs)
<1>1. ASSUME NEW x \in Tx PROVE [x EXCEPT !.status = s] \in Tx
  BY DEF Tx
<1>2. txs[t] \in Tx /\ txs' = [txs EXCEPT ![t] = [txs[t] EXCEPT !.status = s]]
  OBVIOUS
<1>. QED
  BY <1>1, <1>2

\* A disturbance stays within its bound.
LEMMA DisturbType ==
  ASSUME faults \in 0 .. MaxFaults, NEW kind, Disturb(kind)
  PROVE  faults' \in 0 .. MaxFaults /\ attempt' = attempt
  BY PipelineAssumption DEF Disturb

\* A retry stays within withRetry.MaxAttempts.
LEMMA RetryType ==
  ASSUME tries \in 0 .. MaxRetries, Retry
  PROVE  tries' \in 0 .. MaxRetries
  BY PipelineAssumption DEF Retry

\* A transaction whose answer is lost is a transaction all the same.
LEMMA AddFileChunksFailsType ==
  ASSUME txs \in Seq(Tx), batch \in Batch, tries \in 0 .. MaxRetries, AddFileChunksFails
  PROVE  /\ txs' \in Seq(Tx) /\ Len(txs') >= Len(txs) /\ Len(txs') \in Nat
         /\ tries' \in 0 .. MaxRetries
<1>1. AddFileChunksTx(batch) \in Tx
  BY DEF AddFileChunksTx, Batch, Tx, Status
<1>2. CASE txs' = txs
  BY <1>2, RetryType, PipelineAssumption DEF AddFileChunksFails, Disturb, ReaderReturns
<1>3. CASE txs' = Append(txs, AddFileChunksTx(batch))
  <2>1. tries' \in 0 .. MaxRetries
    BY RetryType, PipelineAssumption DEF AddFileChunksFails, Disturb, ReaderReturns
  <2>. QED
    BY <1>1, <1>3, <2>1
<1>. QED
  BY <1>2, <1>3 DEF AddFileChunksFails

\* So is a CommitFile whose answer is lost.
LEMMA CommitFileFailsType ==
  ASSUME commits \in Seq(Status), CommitFileFails
  PROVE  commits' \in Seq(Status)
<1>1. CASE commits' = commits
  BY <1>1
<1>2. CASE commits' = Append(commits, "pending")
  BY <1>2 DEF Status
<1>. QED
  BY <1>1, <1>2 DEF CommitFileFails

\* Mining gives a transaction a status and leaves the others alone.
LEMMA MinedTx ==
  ASSUME txs \in Seq(Tx), faults \in 0 .. MaxFaults, MineAddFileChunks
  PROVE  txs' \in Seq(Tx) /\ Len(txs') = Len(txs) /\ faults' \in 0 .. MaxFaults
<1>1. PICK t \in DOMAIN txs, s \in Status : txs' = [txs EXCEPT ![t].status = s]
  BY DEF MineAddFileChunks, Status
<1>2. faults' \in 0 .. MaxFaults
  BY DisturbType, PipelineAssumption DEF MineAddFileChunks
<1>. QED
  BY <1>1, <1>2, StatusChange

\* The same for CommitFile transactions.
LEMMA MinedCommit ==
  ASSUME commits \in Seq(Status), faults \in 0 .. MaxFaults, MineCommitFile
  PROVE  commits' \in Seq(Status) /\ faults' \in 0 .. MaxFaults
<1>1. PICK i \in DOMAIN commits, s \in Status : commits' = [commits EXCEPT ![i] = s]
  BY DEF MineCommitFile, Status
<1>2. faults' \in 0 .. MaxFaults
  BY DisturbType, PipelineAssumption DEF MineCommitFile
<1>. QED
  BY <1>1, <1>2

\* Reading a chunk moves the index and the position on.
LEMMA ReadChunkType ==
  ASSUME chunkIndex \in Nat, position \in Nat, batch \in Batch, ReadChunk
  PROVE  chunkIndex' \in Nat /\ position' \in Nat /\ batch' \in Batch
<1>1. chunkIndex' \in Nat /\ position' \in Nat
  BY DEF ReadChunk
<1>2. batch' \in Batch
  BY LongerBatch DEF ReadChunk
<1>. QED
  BY <1>1, <1>2

-----------------------------------------------------------------------------
(* Type correctness *)

\* The initial state is well typed.
LEMMA TypeInit == Init => TypeOK
<1> SUFFICES ASSUME Init PROVE TypeOK
  OBVIOUS
<1>1. FlagType
  BY Zenon DEF Init, FlagType
<1>. QED
  BY <1>1, PipelineAssumption
  DEF Init, TypeOK, CallType, StateType, ReaderType, WaiterType, UploaderType, ChainType,
      EmptyMap, EmptyBatch, Batch, TxId, IsTxMap

\* Each step of the caller, of the call and of its goroutines, and of the chain
\* keeps the state well typed.
LEMMA TypeNext == TypeOK /\ [Next]_vars => TypeOK'
<1> SUFFICES ASSUME TypeOK, [Next]_vars PROVE TypeOK'
  OBVIOUS
<1>0. FlagType'
  BY FlagNext DEF TypeOK
<1> USE <1>0, PipelineAssumption
    DEF TypeOK, CallType, StateType, ReaderType, WaiterType, UploaderType, ChainType, TxId, IsTxMap
<1>1. CASE StartUpload
  BY <1>1 DEF StartUpload
<1>2. CASE RejectCommitted
  BY <1>2 DEF RejectCommitted, EndCall
<1>3. CASE StartGoroutines
  BY <1>3 DEF StartGoroutines, FirstWaiterStep
<1>4. CASE QueryFails
  BY <1>4 DEF QueryFails, EndCall, Fails, Disturb
<1>5. CASE Wait
  BY <1>5 DEF Wait, EndCall, NoGoroutines, EmptyMap, EmptyBatch, Batch
<1>6. CASE GetFileByName
  BY <1>6 DEF GetFileByName, AfterWaitOther
<1>7. CASE PollAgain
  BY <1>7 DEF PollAgain
<1>8. CASE FileFilled
  BY <1>8 DEF FileFilled, AfterWaitOther
<1>9. CASE CommitFile
  BY <1>9 DEF CommitFile, AfterWaitOther, Status
<1>10. CASE CommitFileFails
  <2>1. tries' \in 0 .. MaxRetries
    BY <1>10 DEF CommitFileFails, Retry
  <2>2. faults' \in 0 .. MaxFaults /\ attempt' = attempt
    BY <1>10 DEF CommitFileFails, Disturb
  <2>3. commits' \in Seq(Status)
    BY <1>10, CommitFileFailsType
  <2>4. CallType'
    BY <1>10, <2>1, <2>2, Zenon DEF CommitFileFails, EndCall, callVars
  <2>. QED
    BY <1>10, <2>3, <2>4 DEF CommitFileFails
<1>11. CASE CommitConfirmed
  BY <1>11 DEF CommitConfirmed, EndCall, AfterWaitOther
<1>12. CASE CommitNotConfirmed
  BY <1>12 DEF CommitNotConfirmed, EndCall, Fails, Disturb
<1>13. CASE SkipToPosition
  BY <1>13 DEF SkipToPosition, ReaderOther, ResumeIndex, ResumePosition, EmptyBatch, Batch
<1>14. CASE ReadChunk
  <2>1. chunkIndex' \in Nat /\ position' \in Nat /\ batch' \in Batch
    BY <1>14, ReadChunkType
  <2>2. readerPc' \in {"read", "add"}
    BY <1>14 DEF ReadChunk
  <2>3. UNCHANGED <<ReaderOther, gErr, tries, boundVars, stateVars, stopReading, batchTx,
                    recorded, waitCh, txs>>
    BY <1>14 DEF ReadChunk
  <2>. QED
    BY <2>1, <2>2, <2>3 DEF ReaderOther
<1>15. CASE ReadEOF
  BY <1>15 DEF ReadEOF, ReaderOther, ReaderReturns
<1>16. CASE ReadFails
  BY <1>16 DEF ReadFails, ReaderOther, ReaderReturns, Fails, Disturb
<1>17. CASE AddFileChunks
  BY <1>17 DEF AddFileChunks, ReaderOther, AddFileChunksTx, Batch, Tx, Status
<1>18. CASE AddFileChunksFails
  <2>1. faults' \in 0 .. MaxFaults /\ attempt' = attempt
    BY <1>18 DEF AddFileChunksFails, Disturb
  <2>2. readerPc' \in {"add", "done"}
    BY <1>18 DEF AddFileChunksFails, Retry, ReaderReturns
  <2>3. /\ txs' \in Seq(Tx) /\ Len(txs') >= Len(txs) /\ Len(txs') \in Nat
        /\ tries' \in 0 .. MaxRetries
    BY <1>18, AddFileChunksFailsType
  <2>4. UNCHANGED <<ReaderOther, stateVars, chunkIndex, position, batch, stopReading,
                    batchTx, recorded, waitCh>>
    BY <1>18 DEF AddFileChunksFails
  <2>. QED
    BY <2>1, <2>2, <2>3, <2>4 DEF ReaderOther
<1>19. CASE PreCreateChunk
  <2>1. batch.start + recorded \in Nat /\ batch.offset + recorded \in Nat
    BY DEF Batch
  <2>2. batchTx \in TxId
    BY <1>19 DEF PreCreateChunk
  <2>3. IsTxMap(With(preCreatedChunks, batch.start + recorded, batchTx))
    BY <2>1, <2>2, WithType
  <2>4. IsTxMap(preCreatedChunks)'
    BY <1>19, <2>3 DEF PreCreateChunk
  <2>. QED
    BY <1>19, <2>1, <2>4 DEF PreCreateChunk, ReaderOther
<1>20. CASE PushBatch
  <2>1. batch' \in Batch /\ readerPc' \in {"read", "done"}
    BY <1>20, NextBatchType DEF PushBatch
  <2>2. waitCh' \in Seq(Nat) /\ \A i \in DOMAIN waitCh' : waitCh'[i] \in TxId
    BY <1>20 DEF PushBatch
  <2>3. ReaderType'
    BY <1>20, <2>1 DEF PushBatch
  <2>. QED
    BY <1>20, <2>2, <2>3 DEF PushBatch, ReaderOther
<1>21. CASE HandOverBatch
  <2>1. batch' \in Batch /\ readerPc' \in {"read", "done"}
    BY <1>21, NextBatchType DEF HandOverBatch
  <2>2. ReaderType'
    BY <1>21, <2>1 DEF HandOverBatch
  <2>. QED
    BY <1>21, <2>2 DEF HandOverBatch
<1>22. CASE PushAborted
  BY <1>22 DEF PushAborted, ReaderOther, ReaderReturns
<1>23. CASE ListPreCreatedChunks
  <2>1. /\ waiterPc' \in {"receive", "waitListed"} /\ nextChunk' \in Nat
        /\ waiterPc' = "waitListed" => nextChunk' \in DOMAIN listed'
    BY <1>23, NextListedType DEF ListPreCreatedChunks, LeftBehind
  <2>2. IsTxMap(listed)'
    BY <1>23 DEF ListPreCreatedChunks, WaiterOther, LeftBehind
  <2>3. waitCh' = waitCh /\ waitTx' = waitTx /\ txs' = txs
    BY <1>23 DEF ListPreCreatedChunks, WaiterOther
  <2>4. WaiterType'
    BY <2>1, <2>2, <2>3
  <2>. QED
    BY <1>23, <2>4 DEF ListPreCreatedChunks, WaiterOther
<1>24. CASE ReceiveBatch
  <2>1. /\ waitCh \in Seq(Nat) /\ waitCh # <<>> /\ waitCh' = Tail(waitCh) /\ waitTx' = Head(waitCh)
        /\ waiterPc' = "wait"
    BY <1>24 DEF ReceiveBatch
  <2>2. /\ waitCh' \in Seq(Nat) /\ waitTx' = waitCh[1] /\ 1 \in DOMAIN waitCh
        /\ \A i \in DOMAIN waitCh' : i + 1 \in DOMAIN waitCh /\ waitCh'[i] = waitCh[i + 1]
    BY <2>1
  <2>3. UNCHANGED <<WaiterOther, gErr, boundVars, listed, nextChunk, uploaderVars>>
    BY <1>24 DEF ReceiveBatch
  <2>4. WaiterType'
    BY <2>1, <2>2, <2>3 DEF WaiterOther
  <2>. QED
    BY <2>3, <2>4 DEF WaiterOther
<1>25. CASE WaiterFinishes
  <2>1. waiterPc' = "done" /\ UNCHANGED <<WaiterOther, boundVars, waitCh, listed, waitTx, nextChunk, uploaderVars>>
    BY <1>25 DEF WaiterFinishes, WaiterReturns
  <2>2. WaiterType'
    BY <2>1 DEF WaiterOther
  <2>. QED
    BY <2>1, <2>2 DEF WaiterOther
<1>26. CASE TxConfirmed
  <2>1. AwaitedTx \in TxId
    BY <1>26 DEF TxConfirmed, AwaitedTx
  <2>2. txs[AwaitedTx] \in Tx
    BY <2>1
  <2>3. nextChunk' \in Nat
    BY <1>26, <2>2 DEF TxConfirmed, Tx
  <2>4. WaiterType'
    <3>1. /\ UNCHANGED <<waitCh, listed, waitTx, txs>> /\ waiterPc \in {"waitListed", "wait"}
          /\ waiterPc' = (IF waiterPc = "wait" THEN "send" ELSE "sendListed")
          /\ waiterPc # "wait" => nextChunk' = nextChunk
      BY <1>26 DEF TxConfirmed, WaiterOther
    <3>. QED
      BY <2>3, <3>1
  <2>. QED
    BY <1>26, <2>4 DEF TxConfirmed, WaiterOther
<1>27. CASE WaitForTxFails
  <2>1. faults' \in 0 .. MaxFaults
    BY <1>27 DEF WaitForTxFails, Fails, Disturb
  <2>2. attempt' = attempt
    BY <1>27 DEF WaitForTxFails, Fails, Disturb
  <2>3. waiterPc' = "done" /\ UNCHANGED <<WaiterOther, waitCh, listed, waitTx, nextChunk, uploaderVars>>
    BY <1>27 DEF WaitForTxFails, WaiterReturns
  <2>4. WaiterType' /\ ChainType' /\ UploaderType'
    BY <2>3 DEF WaiterOther
  <2>5. CallType' /\ StateType' /\ ReaderType'
    BY <2>1, <2>2, <2>3 DEF WaiterOther
  <2>. QED
    BY <2>4, <2>5
<1>28. CASE SendListedChunk
  <2>1. IsTxMap(Without(listed, nextChunk))
    BY WithoutType
  <2>2. /\ waiterPc' \in {"receive", "waitListed"} /\ nextChunk' \in Nat
        /\ waiterPc' = "waitListed" => nextChunk' \in DOMAIN listed'
    BY <1>28, <2>1, NextListedType DEF SendListedChunk
  <2>3. IsTxMap(listed)'
    BY <1>28, <2>1 DEF SendListedChunk, WaiterOther
  <2>4. WaiterType'
    BY <1>28, <2>2, <2>3 DEF SendListedChunk, WaiterOther
  <2>5. UploaderType'
    BY <1>28 DEF SendListedChunk, UploaderTakes
  <2>. QED
    BY <1>28, <2>4, <2>5 DEF SendListedChunk, WaiterOther
<1>29. CASE SendBatchChunk
  BY <1>29 DEF SendBatchChunk, WaiterOther, UploaderTakes, MoreChunks, ChunksOf
<1>30. CASE WaiterAborted
  BY <1>30 DEF WaiterAborted, WaiterOther, WaiterReturns
<1>31. ASSUME NEW b \in Block, UploadBlock(b) PROVE TypeOK'
  BY <1>31 DEF UploadBlock, UploaderOther, ForgivesFilled
<1>32. ASSUME NEW b \in Block, UploadBlockFails(b) PROVE TypeOK'
  BY <1>32 DEF UploadBlockFails, UploaderOther, Fails, Disturb
<1>33. CASE ChunkUploaded
  <2>1. IsTxMap(preCreatedChunks)'
    BY <1>33, WithoutType DEF ChunkUploaded, UploaderOther
  <2>. QED
    BY <1>33, <2>1 DEF ChunkUploaded, UploaderOther
<1>34. CASE UploadChunkFails
  BY <1>34 DEF UploadChunkFails, UploaderOther, UploaderReturns
<1>35. CASE UploaderFinishes
  BY <1>35 DEF UploaderFinishes, UploaderOther, UploaderReturns
<1>36. CASE UploaderAborted
  BY <1>36 DEF UploaderAborted, UploaderOther, UploaderReturns
<1>37. CASE Cancel
  BY <1>37 DEF Cancel, Disturb
<1>38. CASE MineAddFileChunks
  <2>1. txs' \in Seq(Tx) /\ Len(txs') = Len(txs) /\ faults' \in 0 .. MaxFaults
    BY <1>38, MinedTx
  <2>2. UNCHANGED <<ChainOther, commits, nodeVars>>
    BY <1>38 DEF MineAddFileChunks
  <2>. QED
    BY <2>1, <2>2 DEF ChainOther
<1>39. CASE MineCommitFile
  <2>1. commits' \in Seq(Status) /\ faults' \in 0 .. MaxFaults
    BY <1>39, MinedCommit
  <2>2. UNCHANGED <<ChainOther, txs, nodeVars>>
    BY <1>39 DEF MineCommitFile
  <2>. QED
    BY <2>1, <2>2 DEF ChainOther
<1>40. CASE FillBlock
  BY <1>40 DEF FillBlock, ChainOther
<1>41. CASE CallerStops
  BY <1>41 DEF CallerStops
<1>42. CASE UNCHANGED vars
  BY <1>42
<1>. QED
  BY <1>1, <1>2, <1>3, <1>4, <1>5, <1>6, <1>7, <1>8, <1>9, <1>10, <1>11, <1>12, <1>13, <1>14, <1>15, <1>16, <1>17, <1>18, <1>19, <1>20, <1>21, <1>22, <1>23, <1>24, <1>25, <1>26, <1>27, <1>28, <1>29, <1>30, <1>31, <1>32, <1>33, <1>34, <1>35, <1>36, <1>37, <1>38, <1>39, <1>40, <1>41, <1>42
  DEF Next, Caller, Main, Reader, Waiter, Uploader, Environment

\* The state is well typed in every behaviour.
THEOREM TypeCorrect == Spec => []TypeOK
  BY TypeInit, TypeNext, PTL DEF Spec

-----------------------------------------------------------------------------
(* The stream is recorded in order *)

\* Steps that leave the reader's position and the recorded chunks alone; the
\* reader may return in one.
StreamKept ==
  /\ UNCHANGED <<chunkIndex, position, batch, recorded, chunkCount, actualFileSize,
                 dagLinks>>
  /\ \/ readerPc' = readerPc
     \/ readerPc' = "done" /\ readerPc # "off"
  /\ \/ UNCHANGED <<phase, isContinuation>>
     \/ readerPc = "off" /\ phase' # "resolve"

\* A step that leaves them alone keeps the reader aligned and the links in order.
LEMMA StreamKeptAligned ==
  ASSUME StreamInv, StreamKept
  PROVE  ReaderAligned' /\ dagLinks' = [i \in 1 .. chunkCount' |-> i - 1]
         /\ actualFileSize' = chunkCount'
  BY DEF StreamInv, StreamOrder, ReaderAligned, StreamKept

\* Every step but those of the reader that move it on, and the start and the end
\* of its goroutine, is such a step.
LEMMA KeepsStream ==
  ASSUME StreamInv,
         \/ RejectCommitted \/ QueryFails \/ GetFileByName \/ PollAgain \/ FileFilled
         \/ CommitFile \/ CommitFileFails \/ CommitConfirmed \/ CommitNotConfirmed
         \/ ReadFails \/ AddFileChunksFails \/ PushAborted \/ Waiter \/ Uploader \/ Cancel
         \/ Environment \/ CallerStops \/ UNCHANGED vars
  PROVE  StreamKept
<1> USE DEF StreamKept
<1>off. phase # "pipeline" => readerPc = "off"
  BY DEF StreamInv, ReaderAligned
<1>1. CASE RejectCommitted \/ QueryFails
  BY <1>1, <1>off DEF RejectCommitted, QueryFails, EndCall
<1>2. CASE GetFileByName \/ PollAgain \/ FileFilled \/ CommitFile \/ CommitConfirmed
  BY <1>2, <1>off
  DEF GetFileByName, PollAgain, FileFilled, CommitFile, CommitConfirmed, EndCall,
      AfterWaitOther
<1>3. CASE CommitFileFails \/ CommitNotConfirmed
  BY <1>3, <1>off DEF CommitFileFails, CommitNotConfirmed, EndCall
<1>4. CASE ReadFails \/ AddFileChunksFails \/ PushAborted
  BY <1>4 DEF ReadFails, AddFileChunksFails, PushAborted, ReaderOther, ReaderReturns, Retry,
              Disturb
<1>5. CASE Waiter
  BY <1>5
  DEF Waiter, ListPreCreatedChunks, ReceiveBatch, WaiterFinishes, TxConfirmed, WaitForTxFails,
      SendListedChunk, SendBatchChunk, WaiterAborted, WaiterOther
<1>6. CASE Uploader
  BY <1>6
  DEF Uploader, UploadBlock, UploadBlockFails, ChunkUploaded, UploadChunkFails,
      UploaderFinishes, UploaderAborted, UploaderOther
<1>7. CASE Cancel \/ CallerStops \/ UNCHANGED vars
  BY <1>7 DEF Cancel, CallerStops
<1>8. CASE Environment
  BY <1>8 DEF Environment, MineAddFileChunks, MineCommitFile, FillBlock, ChainOther
<1>. QED
  BY <1>1, <1>2, <1>3, <1>4, <1>5, <1>6, <1>7, <1>8

\* The other steps keep the reader aligned with uploadState, and the links in order.
LEMMA StreamMoves ==
  ASSUME StreamInv,
         \/ StartUpload \/ StartGoroutines \/ Wait \/ SkipToPosition \/ ReadChunk \/ ReadEOF
         \/ AddFileChunks \/ PreCreateChunk \/ PushBatch \/ HandOverBatch
  PROVE  ReaderAligned' /\ dagLinks' = [i \in 1 .. chunkCount' |-> i - 1]
         /\ actualFileSize' = chunkCount'
<1>ok. TypeOK
  BY DEF StreamInv
<1> USE DEF ReaderAligned
<1>1. CASE StartUpload
  <2>1. chunkCount > 0 \/ chunkCount = 0
    BY DEF StreamInv, TypeOK, StateType
  <2>2. isContinuation' \/ chunkCount' = 0
    BY <1>1, <2>1, Zenon DEF StartUpload
  <2>3. UNCHANGED <<readerVars, stateVars>> /\ readerPc = "off"
    BY <1>1 DEF StartUpload, StreamInv
  <2>. QED
    BY <2>2, <2>3 DEF StreamInv, StreamOrder
<1>2. CASE StartGoroutines
  BY <1>2 DEF StartGoroutines, StreamInv, StreamOrder
<1>3. CASE Wait
  BY <1>3 DEF Wait, EndCall, NoGoroutines, StreamInv, StreamOrder
<1>4. CASE SkipToPosition
  BY <1>4 DEF SkipToPosition, ReaderOther, ResumeIndex, ResumePosition, EmptyBatch, StreamInv,
              StreamOrder, TypeOK, StateType
<1>5. CASE ReadChunk
  <2>1. batch \in Batch
    BY DEF StreamInv, TypeOK, ReaderType
  <2>2. batch' = [start |-> batch.start, offset |-> batch.offset, len |-> batch.len + 1]
    BY <1>5, <2>1, LongerBatch DEF ReadChunk
  <2>3. /\ chunkIndex' = chunkIndex + 1 /\ position' = position + 1
        /\ readerPc = "read" /\ readerPc' \in {"read", "add"}
        /\ UNCHANGED <<phase, isContinuation, stateVars, recorded>>
    BY <1>5 DEF ReadChunk, ReaderOther
  <2>. QED
    BY <2>1, <2>2, <2>3 DEF StreamInv, StreamOrder, Batch
<1>6. CASE ReadEOF
  BY <1>6 DEF ReadEOF, ReaderOther, ReaderReturns, StreamInv, StreamOrder, TypeOK, ReaderType, Batch
<1>7. CASE AddFileChunks
  BY <1>7 DEF AddFileChunks, ReaderOther, StreamInv, StreamOrder, TypeOK, ReaderType, Batch
<1>8. CASE PreCreateChunk
  BY <1>8 DEF PreCreateChunk, ReaderOther, StreamInv, StreamOrder, TypeOK, ReaderType, StateType, Batch
<1>9. CASE PushBatch \/ HandOverBatch
  BY <1>9 DEF PushBatch, HandOverBatch, NextBatch, ReaderReturns, ReaderOther, EmptyBatch,
              StreamInv, StreamOrder, TypeOK, ReaderType, Batch
<1>. QED
  BY <1>1, <1>2, <1>3, <1>4, <1>5, <1>6, <1>7, <1>8, <1>9

\* Only the reader sends AddFileChunks transactions, and only mining changes them.
LEMMA TxsChange ==
  ASSUME [Next]_vars
  PROVE  \/ txs' = txs
         \/ readerPc = "add" /\ txs' = Append(txs, AddFileChunksTx(batch))
         \/ MineAddFileChunks
<1>1. CASE Caller \/ Cancel \/ CallerStops \/ UNCHANGED vars
  BY <1>1 DEF Caller, StartUpload, RejectCommitted, Cancel, CallerStops
<1>2. CASE Main
  BY <1>2
  DEF Main, StartGoroutines, QueryFails, Wait, GetFileByName, PollAgain, FileFilled,
      CommitFile, CommitFileFails, CommitConfirmed, CommitNotConfirmed, AfterWaitOther
<1>3. CASE Reader
  <2>1. CASE AddFileChunks \/ AddFileChunksFails
    BY <2>1 DEF AddFileChunks, AddFileChunksFails
  <2>. QED
    BY <1>3, <2>1
    DEF Reader, SkipToPosition, ReadChunk, ReadEOF, ReadFails, PreCreateChunk, PushBatch,
        HandOverBatch, PushAborted
<1>4. CASE Waiter
  BY <1>4
  DEF Waiter, ListPreCreatedChunks, ReceiveBatch, WaiterFinishes, TxConfirmed, WaitForTxFails,
      SendListedChunk, SendBatchChunk, WaiterAborted, WaiterOther
<1>5. CASE Uploader
  BY <1>5
  DEF Uploader, UploadBlock, UploadBlockFails, ChunkUploaded, UploadChunkFails,
      UploaderFinishes, UploaderAborted, UploaderOther
<1>6. CASE Environment
  BY <1>6 DEF Environment, MineCommitFile, FillBlock
<1>. QED
  BY <1>1, <1>2, <1>3, <1>4, <1>5, <1>6 DEF Next

\* What a transaction files under an index is what stands there in the stream.
LEMMA TxsInOrder ==
  ASSUME StreamInv, [Next]_vars
  PROVE  \A t \in TxId' : txs'[t].offset = txs'[t].start
<1>1. /\ txs \in Seq(Tx) /\ \A t \in 1 .. Len(txs) : txs[t].offset = txs[t].start
      /\ batch \in Batch
  BY DEF StreamInv, StreamOrder, TypeOK, ReaderType, ChainType, TxId
<1>2. CASE txs' = txs
  BY <1>1, <1>2 DEF TxId
<1>3. CASE readerPc = "add" /\ txs' = Append(txs, AddFileChunksTx(batch))
  <2>1. AddFileChunksTx(batch).offset = AddFileChunksTx(batch).start
    BY <1>3 DEF AddFileChunksTx, StreamInv, ReaderAligned
  <2>. QED
    BY <1>1, <1>3, <2>1 DEF TxId
<1>4. CASE MineAddFileChunks
  <2>1. PICK t \in DOMAIN txs, s \in Status : txs' = [txs EXCEPT ![t].status = s]
    BY <1>4 DEF MineAddFileChunks, Status
  <2>2. \A u \in 1 .. Len(txs) : /\ txs'[u].offset = txs[u].offset
                                 /\ txs'[u].start = txs[u].start
    BY <1>1, <2>1 DEF Tx
  <2>3. Len(txs') = Len(txs)
    BY <1>1, <2>1, StatusChange
  <2>. QED
    BY <1>1, <2>2, <2>3 DEF TxId
<1>5. \/ txs' = txs
      \/ MineAddFileChunks
      \/ readerPc = "add" /\ txs' = Append(txs, AddFileChunksTx(batch))
  BY TxsChange, Zenon
<1>. QED
  BY <1>2, <1>3, <1>4, <1>5

\* A new IPCFileUpload has recorded nothing.
LEMMA StreamInit == Init => StreamInv
  BY TypeInit DEF Init, StreamInv, StreamOrder, ReaderAligned, TxId

\* StreamInv is inductive.
LEMMA StreamNext == StreamInv /\ [Next]_vars => StreamInv'
<1> SUFFICES ASSUME StreamInv, [Next]_vars PROVE StreamInv'
  OBVIOUS
<1>1. TypeOK'
  BY TypeNext DEF StreamInv
<1>2. /\ ReaderAligned' /\ dagLinks' = [i \in 1 .. chunkCount' |-> i - 1]
      /\ actualFileSize' = chunkCount'
  BY KeepsStream, StreamKeptAligned, StreamMoves, Zenon DEF Next, Caller, Main, Reader
<1>. QED
  BY <1>1, <1>2, TxsInOrder DEF StreamInv, StreamOrder

\* The root links the chunks in stream order, and every transaction files them
\* under the index that is their place in it, in every behaviour.
THEOREM StreamCorrect == Spec => []StreamOrder
<1>1. StreamInv => StreamOrder
  BY DEF StreamInv
<1>. QED
  BY <1>1, StreamInit, StreamNext, PTL DEF Spec

-----------------------------------------------------------------------------
(* No chunk is lost *)

\* A node forgets no block.
LEMMA StoredGrows ==
  ASSUME [Next]_vars
  PROVE  stored \subseteq stored'
<1>1. CASE Caller \/ Cancel \/ CallerStops \/ UNCHANGED vars
  BY <1>1 DEF Caller, StartUpload, RejectCommitted, Cancel, CallerStops
<1>2. CASE Main
  BY <1>2
  DEF Main, StartGoroutines, QueryFails, Wait, GetFileByName, PollAgain, FileFilled,
      CommitFile, CommitFileFails, CommitConfirmed, CommitNotConfirmed, AfterWaitOther
<1>3. CASE Reader
  BY <1>3
  DEF Reader, SkipToPosition, ReadChunk, ReadEOF, ReadFails, AddFileChunks,
      AddFileChunksFails, PreCreateChunk, PushBatch, HandOverBatch, PushAborted, ReaderOther
<1>4. CASE Waiter
  BY <1>4
  DEF Waiter, ListPreCreatedChunks, ReceiveBatch, WaiterFinishes, TxConfirmed, WaitForTxFails,
      SendListedChunk, SendBatchChunk, WaiterAborted, WaiterOther
<1>5. CASE Uploader
  <2>1. ASSUME NEW b \in Block, UploadBlock(b) \/ UploadBlockFails(b)
        PROVE  stored \subseteq stored'
    BY <2>1 DEF UploadBlock, UploadBlockFails
  <2>. QED
    BY <1>5, <2>1
    DEF Uploader, ChunkUploaded, UploadChunkFails, UploaderFinishes, UploaderAborted
<1>6. CASE Environment
  BY <1>6 DEF Environment, MineAddFileChunks, MineCommitFile, FillBlock
<1>. QED
  BY <1>1, <1>2, <1>3, <1>4, <1>5, <1>6 DEF Next

\* preCreateChunk and chunkUploaded are all that changes the chunks of uploadState.
LEMMA ChunksChange ==
  ASSUME [Next]_vars
  PROVE  \/ UNCHANGED <<preCreatedChunks, chunkCount>>
         \/ PreCreateChunk
         \/ ChunkUploaded
<1>1. CASE Caller \/ Cancel \/ CallerStops \/ UNCHANGED vars
  BY <1>1 DEF Caller, StartUpload, RejectCommitted, Cancel, CallerStops
<1>2. CASE Main
  BY <1>2
  DEF Main, StartGoroutines, QueryFails, Wait, GetFileByName, PollAgain, FileFilled,
      CommitFile, CommitFileFails, CommitConfirmed, CommitNotConfirmed, AfterWaitOther
<1>3. CASE Reader
  BY <1>3
  DEF Reader, SkipToPosition, ReadChunk, ReadEOF, ReadFails, AddFileChunks,
      AddFileChunksFails, PushBatch, HandOverBatch, PushAborted
<1>4. CASE Waiter
  BY <1>4
  DEF Waiter, ListPreCreatedChunks, ReceiveBatch, WaiterFinishes, TxConfirmed, WaitForTxFails,
      SendListedChunk, SendBatchChunk, WaiterAborted, WaiterOther
<1>5. CASE Uploader
  <2>1. ASSUME NEW b \in Block, UploadBlock(b) \/ UploadBlockFails(b)
        PROVE  UNCHANGED <<preCreatedChunks, chunkCount>>
    BY <2>1 DEF UploadBlock, UploadBlockFails, UploaderOther
  <2>. QED
    BY <1>5, <2>1
    DEF Uploader, UploadChunkFails, UploaderFinishes, UploaderAborted, UploaderOther
<1>6. CASE Environment
  BY <1>6 DEF Environment, MineAddFileChunks, MineCommitFile, FillBlock, ChainOther
<1>. QED
  BY <1>1, <1>2, <1>3, <1>4, <1>5, <1>6 DEF Next

\* What may happen to the uploader's blocks, the nodes and the contract's view.
LEMMA BlocksChange ==
  ASSUME [Next]_vars
  PROVE  \/ UNCHANGED <<uploaderVars, nodeVars>>
         \/ uploaderPc' # "blocks" /\ UNCHANGED nodeVars
         \/ blocksLeft' = Block /\ UNCHANGED nodeVars
         \/ \E b \in Block : UploadBlock(b) \/ UploadBlockFails(b)
         \/ FillBlock
<1>1. CASE Caller \/ Cancel \/ CallerStops \/ UNCHANGED vars
  BY <1>1 DEF Caller, StartUpload, RejectCommitted, Cancel, CallerStops
<1>2. CASE Main
  BY <1>2
  DEF Main, StartGoroutines, QueryFails, Wait, NoGoroutines, GetFileByName, PollAgain,
      FileFilled, CommitFile, CommitFileFails, CommitConfirmed, CommitNotConfirmed,
      AfterWaitOther
<1>3. CASE Reader
  BY <1>3
  DEF Reader, SkipToPosition, ReadChunk, ReadEOF, ReadFails, AddFileChunks,
      AddFileChunksFails, PreCreateChunk, PushBatch, HandOverBatch, PushAborted, ReaderOther
<1>4. CASE Waiter
  BY <1>4
  DEF Waiter, ListPreCreatedChunks, ReceiveBatch, WaiterFinishes, TxConfirmed, WaitForTxFails,
      SendListedChunk, SendBatchChunk, WaiterAborted, WaiterOther, UploaderTakes
<1>5. CASE Uploader
  BY <1>5
  DEF Uploader, ChunkUploaded, UploadChunkFails, UploaderFinishes, UploaderAborted,
      UploaderReturns, UploaderOther
<1>6. CASE Environment
  BY <1>6 DEF Environment, MineAddFileChunks, MineCommitFile, ChainOther
<1>. QED
  BY <1>1, <1>2, <1>3, <1>4, <1>5, <1>6 DEF Next

\* A chunk leaves uploadState only by chunkUploaded, with its blocks stored, and
\* enters it under the next index.
LEMMA ChunksKept ==
  ASSUME StoredInv, [Next]_vars
  PROVE  NoChunkLost'
<1> USE DEF NoChunkLost
<1>1. CASE UNCHANGED <<preCreatedChunks, chunkCount>>
  BY <1>1, StoredGrows DEF StoredInv
<1>2. CASE PreCreateChunk
  <2>1. chunkCount \in Nat /\ chunkCount' = chunkCount + 1
        /\ batch.start + recorded = chunkCount /\ UNCHANGED stored
    BY <1>2 DEF PreCreateChunk, ReaderOther, StoredInv, StreamInv, ReaderAligned, TypeOK, StateType
  <2>2. DOMAIN preCreatedChunks' = DOMAIN preCreatedChunks \cup {chunkCount}
    BY <1>2, <2>1 DEF PreCreateChunk, With
  <2>. QED
    BY <2>1, <2>2 DEF StoredInv
<1>3. CASE ChunkUploaded
  <2>1. {current} \X Block \subseteq stored
    BY <1>3 DEF ChunkUploaded, ChunkStored, StoredInv, BlocksDone
  <2>2. DOMAIN preCreatedChunks' = DOMAIN preCreatedChunks \ {current}
        /\ UNCHANGED <<chunkCount, stored>>
    BY <1>3 DEF ChunkUploaded, UploaderOther, Without
  <2>. QED
    BY <2>1, <2>2 DEF StoredInv
<1>4. \/ UNCHANGED <<preCreatedChunks, chunkCount>>
      \/ PreCreateChunk
      \/ ChunkUploaded
  BY ChunksChange, Zenon
<1>. QED
  BY <1>1, <1>2, <1>3, <1>4

\* The uploader's account of the blocks of its chunk is true.
LEMMA BlocksCounted ==
  ASSUME StoredInv, [Next]_vars
  PROVE  BlocksDone'
<1> USE DEF BlocksDone
<1>1. CASE UNCHANGED <<uploaderVars, nodeVars>>
  BY <1>1 DEF StoredInv
<1>2. CASE uploaderPc' # "blocks" /\ UNCHANGED nodeVars
  BY <1>2 DEF StoredInv
<1>3. CASE blocksLeft' = Block /\ UNCHANGED nodeVars
  BY <1>3 DEF StoredInv
<1>4. ASSUME NEW b \in Block, UploadBlock(b) PROVE BlocksDone'
  BY <1>4 DEF UploadBlock, UploaderOther, StoredInv, ForgivesFilled
<1>5. ASSUME NEW b \in Block, UploadBlockFails(b) PROVE BlocksDone'
  BY <1>5 DEF UploadBlockFails, UploaderOther, StoredInv
<1>6. CASE FillBlock
  BY <1>6 DEF FillBlock, ChainOther, StoredInv
<1>7. \/ UNCHANGED <<uploaderVars, nodeVars>>
      \/ uploaderPc' # "blocks" /\ UNCHANGED nodeVars
      \/ blocksLeft' = Block /\ UNCHANGED nodeVars
      \/ \E b \in Block : UploadBlock(b) \/ UploadBlockFails(b)
      \/ FillBlock
  BY BlocksChange, Zenon
<1>. QED
  BY <1>1, <1>2, <1>3, <1>4, <1>5, <1>6, <1>7

\* No failure, retry or resumption loses a chunk that was counted.
THEOREM NoChunkLostCorrect == Spec => []NoChunkLost
<1>1. Init => StoredInv
  BY StreamInit, TypeInit DEF Init, StoredInv, NoChunkLost, BlocksDone
<1>2. StoredInv /\ [Next]_vars => StoredInv'
  BY StreamNext, ChunksKept, BlocksCounted DEF StoredInv
<1>3. StoredInv => NoChunkLost
  BY DEF StoredInv
<1>. QED
  BY <1>1, <1>2, <1>3, PTL DEF Spec

-----------------------------------------------------------------------------
(* Blocks are uploaded after their chunk is registered *)

\* A transaction keeps its chunks, and once it has succeeded it stays so.
LEMMA TxsGrow ==
  ASSUME TypeOK, [Next]_vars
  PROVE  \A t \in TxId : /\ t \in TxId'
                         /\ txs'[t].start = txs[t].start /\ txs'[t].len = txs[t].len
                         /\ txs[t].status = "success" => txs'[t].status = "success"
<1>1. txs \in Seq(Tx)
  BY DEF TypeOK, ChainType
<1>2. CASE txs' = txs
  BY <1>2 DEF TxId
<1>3. CASE txs' = Append(txs, AddFileChunksTx(batch))
  BY <1>1, <1>3 DEF TxId
<1>4. CASE MineAddFileChunks
  <2>1. PICK t \in DOMAIN txs, s \in Status :
          txs[t].status = "pending" /\ txs' = [txs EXCEPT ![t].status = s]
    BY <1>4 DEF MineAddFileChunks, Status
  <2>2. Len(txs') = Len(txs)
    BY <1>1, <2>1, StatusChange
  <2>3. \A u \in 1 .. Len(txs) :
          /\ txs'[u].start = txs[u].start /\ txs'[u].len = txs[u].len
          /\ txs[u].status = "success" => txs'[u].status = "success"
    BY <1>1, <2>1 DEF Tx
  <2>. QED
    BY <1>1, <2>2, <2>3 DEF TxId
<1>. QED
  BY <1>2, <1>3, <1>4, TxsChange, Zenon

\* The contract forgets no chunk.
LEMMA RegisteredGrows ==
  ASSUME TypeOK, [Next]_vars
  PROVE  Registered \subseteq Registered'
<1>1. ASSUME NEW c \in Registered PROVE c \in Registered'
  <2>1. PICK t \in TxId : txs[t].status = "success" /\ c \in ChunksOf(txs[t])
    BY DEF Registered, TypeOK, ChainType, TxId
  <2>2. /\ t \in TxId' /\ txs'[t].status = "success"
        /\ txs'[t].start = txs[t].start /\ txs'[t].len = txs[t].len
    BY <2>1, TxsGrow
  <2>3. c \in ChunksOf(txs'[t])
    BY <2>1, <2>2 DEF ChunksOf
  <2>4. txs' \in Seq(Tx)
    BY TypeNext DEF TypeOK, ChainType
  <2>. QED
    BY <2>2, <2>3, <2>4 DEF Registered, TxId
<1>. QED
  BY <1>1

\* So a map that names the transactions of its chunks goes on naming them.
LEMMA ListsKept ==
  ASSUME TypeOK, [Next]_vars, NEW m, IsTxMap(m), ListsTx(m)
  PROVE  \A c \in DOMAIN m : c \in ChunksOf(txs'[m[c]])
  BY TxsGrow DEF ListsTx, ChunksOf, IsTxMap

\* What may happen to the snapshot the waiter works through.
LEMMA ListedChange ==
  ASSUME [Next]_vars
  PROVE  \/ UNCHANGED listed
         \/ listed' = EmptyMap
         \/ listed' = preCreatedChunks
         \/ listed' = Without(listed, nextChunk)
<1>1. CASE Caller \/ Cancel \/ CallerStops \/ UNCHANGED vars
  BY <1>1 DEF Caller, StartUpload, RejectCommitted, Cancel, CallerStops
<1>2. CASE Main
  BY <1>2
  DEF Main, StartGoroutines, QueryFails, Wait, NoGoroutines, GetFileByName, PollAgain,
      FileFilled, CommitFile, CommitFileFails, CommitConfirmed, CommitNotConfirmed,
      AfterWaitOther
<1>3. CASE Reader
  BY <1>3
  DEF Reader, SkipToPosition, ReadChunk, ReadEOF, ReadFails, AddFileChunks,
      AddFileChunksFails, PreCreateChunk, PushBatch, HandOverBatch, PushAborted, ReaderOther
<1>4. CASE Waiter
  BY <1>4
  DEF Waiter, ListPreCreatedChunks, ReceiveBatch, WaiterFinishes, TxConfirmed, WaitForTxFails,
      SendListedChunk, SendBatchChunk, WaiterAborted, LeftBehind
<1>5. CASE Uploader
  <2>1. ASSUME NEW b \in Block, UploadBlock(b) \/ UploadBlockFails(b)
        PROVE  UNCHANGED listed
    BY <2>1 DEF UploadBlock, UploadBlockFails, UploaderOther
  <2>. QED
    BY <1>5, <2>1
    DEF Uploader, ChunkUploaded, UploadChunkFails, UploaderFinishes, UploaderAborted,
        UploaderOther
<1>6. CASE Environment
  BY <1>6 DEF Environment, MineAddFileChunks, MineCommitFile, FillBlock, ChainOther
<1>. QED
  BY <1>1, <1>2, <1>3, <1>4, <1>5, <1>6 DEF Next

\* What may happen to the batch that has been sent.
LEMMA BatchChange ==
  ASSUME [Next]_vars
  PROVE  \/ UNCHANGED <<batch, batchTx>> /\ (readerPc' = readerPc \/ PreCreateChunk)
         \/ readerPc' \notin {"record", "push"}
         \/ AddFileChunks
<1>1. CASE Caller \/ Cancel \/ CallerStops \/ UNCHANGED vars
  BY <1>1 DEF Caller, StartUpload, RejectCommitted, Cancel, CallerStops
<1>2. CASE Main
  BY <1>2
  DEF Main, StartGoroutines, QueryFails, Wait, NoGoroutines, GetFileByName, PollAgain,
      FileFilled, CommitFile, CommitFileFails, CommitConfirmed, CommitNotConfirmed,
      AfterWaitOther
<1>3. CASE Reader
  <2>1. CASE AddFileChunks \/ PreCreateChunk
    BY <2>1 DEF PreCreateChunk
  <2>2. CASE SkipToPosition \/ ReadChunk \/ ReadEOF \/ ReadFails
    BY <2>2 DEF SkipToPosition, ReadChunk, ReadEOF, ReadFails, ReaderReturns
  <2>3. CASE AddFileChunksFails
    BY <2>3 DEF AddFileChunksFails, ReaderReturns, Retry, Disturb
  <2>4. CASE PushBatch \/ HandOverBatch \/ PushAborted
    BY <2>4 DEF PushBatch, HandOverBatch, PushAborted, NextBatch, ReaderReturns
  <2>. QED
    BY <1>3, <2>1, <2>2, <2>3, <2>4, Zenon DEF Reader
<1>4. CASE Waiter
  BY <1>4
  DEF Waiter, ListPreCreatedChunks, ReceiveBatch, WaiterFinishes, TxConfirmed, WaitForTxFails,
      SendListedChunk, SendBatchChunk, WaiterAborted, WaiterOther
<1>5. CASE Uploader
  <2>1. ASSUME NEW b \in Block, UploadBlock(b) \/ UploadBlockFails(b)
        PROVE  UNCHANGED readerVars
    BY <2>1 DEF UploadBlock, UploadBlockFails, UploaderOther
  <2>. QED
    BY <1>5, <2>1
    DEF Uploader, ChunkUploaded, UploadChunkFails, UploaderFinishes, UploaderAborted,
        UploaderOther
<1>6. CASE Environment
  BY <1>6 DEF Environment, MineAddFileChunks, MineCommitFile, FillBlock, ChainOther
<1>. QED
  BY <1>1, <1>2, <1>3, <1>4, <1>5, <1>6 DEF Next

\* Every reference to a transaction is to the one that carries the chunk.
LEMMA TxsNamedNext ==
  ASSUME RegisteredInv, [Next]_vars
  PROVE  TxsNamed'
<1>ok. /\ TypeOK /\ TypeOK' /\ ReaderAligned
       /\ ListsTx(preCreatedChunks) /\ ListsTx(listed)
       /\ IsTxMap(preCreatedChunks) /\ IsTxMap(listed)
  BY TypeNext DEF RegisteredInv, StreamInv, TypeOK, StateType, WaiterType, TxsNamed
<1>1. /\ \A c \in DOMAIN preCreatedChunks : c \in ChunksOf(txs'[preCreatedChunks[c]])
      /\ \A c \in DOMAIN listed : c \in ChunksOf(txs'[listed[c]])
  BY <1>ok, ListsKept
<1>2. ListsTx(preCreatedChunks)'
  <2>1. CASE UNCHANGED <<preCreatedChunks, chunkCount>>
    BY <1>1, <2>1 DEF ListsTx
  <2>2. CASE PreCreateChunk
    <3>1. /\ txs[batchTx].start = batch.start /\ txs[batchTx].len = batch.len
          /\ batchTx \in TxId /\ recorded \in Nat /\ recorded < batch.len /\ batch \in Batch
      BY <2>2, <1>ok
      DEF PreCreateChunk, RegisteredInv, TxsNamed, ReaderAligned, TypeOK, ReaderType
    <3>2. batch.start + recorded \in ChunksOf(txs[batchTx])
      BY <3>1 DEF ChunksOf, Batch
    <3>3. txs' = txs /\ preCreatedChunks'
                        = With(preCreatedChunks, batch.start + recorded, batchTx)
      BY <2>2 DEF PreCreateChunk
    <3>. QED
      BY <1>1, <3>2, <3>3 DEF ListsTx, With
  <2>3. CASE ChunkUploaded
    BY <1>1, <2>3 DEF ListsTx, ChunkUploaded, Without
  <2>. QED
    BY <2>1, <2>2, <2>3, ChunksChange, Zenon
<1>3. ListsTx(listed)'
  BY <1>1, ListedChange DEF ListsTx, Without, EmptyMap
<1>4. \A t \in TxId' : txs'[t].len > 0
  <2>1. txs \in Seq(Tx) /\ \A t \in TxId : txs[t].len > 0
    BY <1>ok DEF TypeOK, ChainType, RegisteredInv, TxsNamed
  <2>2. CASE txs' = txs
    BY <2>1, <2>2 DEF TxId
  <2>3. CASE readerPc = "add" /\ txs' = Append(txs, AddFileChunksTx(batch))
    <3>1. AddFileChunksTx(batch).len > 0
      BY <1>ok, <2>3 DEF ReaderAligned, AddFileChunksTx
    <3>. QED
      BY <2>1, <2>3, <3>1 DEF TxId
  <2>4. CASE MineAddFileChunks
    <3>1. Len(txs') = Len(txs)
      BY <2>1, <2>4, MinedTx, <1>ok DEF TypeOK, CallType
    <3>. QED
      BY <2>1, <3>1, <1>ok, TxsGrow DEF TxId
  <2>. QED
    BY <2>2, <2>3, <2>4, TxsChange, Zenon
<1>5. readerPc' \in {"record", "push"} =>
        txs'[batchTx'].start = batch'.start /\ txs'[batchTx'].len = batch'.len
  <2>1. CASE /\ UNCHANGED <<batch, batchTx>>
             /\ readerPc' = readerPc \/ PreCreateChunk
    <3>1. ASSUME readerPc' \in {"record", "push"} PROVE readerPc \in {"record", "push"}
      BY <2>1, <3>1 DEF PreCreateChunk
    <3>. QED
      BY <2>1, <3>1, <1>ok, TxsGrow DEF RegisteredInv, TxsNamed, TypeOK, ReaderType
  <2>2. CASE AddFileChunks
    BY <2>2, <1>ok DEF AddFileChunks, ReaderOther, AddFileChunksTx, TypeOK, ChainType
  <2>. QED
    BY <2>1, <2>2, BatchChange, Zenon
<1>. QED
  BY <1>2, <1>3, <1>4, <1>5 DEF TxsNamed

\* What may bring the waiter to a hand-over.
LEMMA HandOverChange ==
  ASSUME [Next]_vars
  PROVE  \/ UNCHANGED <<waiterPc, waitTx, nextChunk, listed>>
         \/ waiterPc' \notin {"send", "sendListed"}
         \/ TxConfirmed
         \/ SendBatchChunk
<1>1. CASE Caller \/ Cancel \/ CallerStops \/ UNCHANGED vars
  BY <1>1 DEF Caller, StartUpload, RejectCommitted, Cancel, CallerStops
<1>2. CASE Main
  <2>1. CASE StartGoroutines
    BY <2>1 DEF StartGoroutines, FirstWaiterStep
  <2>. QED
    BY <1>2, <2>1
    DEF Main, QueryFails, Wait, NoGoroutines, GetFileByName, PollAgain, FileFilled,
        CommitFile, CommitFileFails, CommitConfirmed, CommitNotConfirmed, AfterWaitOther
<1>3. CASE Reader
  BY <1>3
  DEF Reader, SkipToPosition, ReadChunk, ReadEOF, ReadFails, AddFileChunks,
      AddFileChunksFails, PreCreateChunk, PushBatch, HandOverBatch, PushAborted, ReaderOther
<1>4. CASE Waiter
  <2>1. CASE ListPreCreatedChunks \/ SendListedChunk
    BY <2>1 DEF ListPreCreatedChunks, SendListedChunk, NextListed
  <2>2. CASE ReceiveBatch \/ WaiterFinishes \/ WaitForTxFails \/ WaiterAborted
    BY <2>2 DEF ReceiveBatch, WaiterFinishes, WaitForTxFails, WaiterAborted, WaiterReturns
  <2>. QED
    BY <1>4, <2>1, <2>2, Zenon DEF Waiter
<1>5. CASE Uploader
  <2>1. ASSUME NEW b \in Block, UploadBlock(b) \/ UploadBlockFails(b)
        PROVE  UNCHANGED waiterVars
    BY <2>1 DEF UploadBlock, UploadBlockFails, UploaderOther
  <2>. QED
    BY <1>5, <2>1
    DEF Uploader, ChunkUploaded, UploadChunkFails, UploaderFinishes, UploaderAborted,
        UploaderOther
<1>6. CASE Environment
  BY <1>6 DEF Environment, MineAddFileChunks, MineCommitFile, FillBlock, ChainOther
<1>. QED
  BY <1>1, <1>2, <1>3, <1>4, <1>5, <1>6 DEF Next

\* Only the two hand-overs give the uploader a chunk.
LEMMA UploaderChange ==
  ASSUME [Next]_vars
  PROVE  \/ UNCHANGED <<uploaderPc, current>>
         \/ uploaderPc' # "blocks"
         \/ SendListedChunk
         \/ SendBatchChunk
<1>1. CASE Caller \/ Cancel \/ CallerStops \/ UNCHANGED vars
  BY <1>1 DEF Caller, StartUpload, RejectCommitted, Cancel, CallerStops
<1>2. CASE Main
  BY <1>2
  DEF Main, StartGoroutines, QueryFails, Wait, NoGoroutines, GetFileByName, PollAgain,
      FileFilled, CommitFile, CommitFileFails, CommitConfirmed, CommitNotConfirmed,
      AfterWaitOther
<1>3. CASE Reader
  BY <1>3
  DEF Reader, SkipToPosition, ReadChunk, ReadEOF, ReadFails, AddFileChunks,
      AddFileChunksFails, PreCreateChunk, PushBatch, HandOverBatch, PushAborted, ReaderOther
<1>4. CASE Waiter
  BY <1>4, Zenon
  DEF Waiter, ListPreCreatedChunks, ReceiveBatch, WaiterFinishes, TxConfirmed,
      WaitForTxFails, WaiterAborted
<1>5. CASE Uploader
  <2>1. ASSUME NEW b \in Block, UploadBlock(b) \/ UploadBlockFails(b)
        PROVE  UNCHANGED <<uploaderPc, current>>
    BY <2>1 DEF UploadBlock, UploadBlockFails
  <2>. QED
    BY <1>5, <2>1
    DEF Uploader, ChunkUploaded, UploadChunkFails, UploaderFinishes, UploaderAborted,
        UploaderReturns
<1>6. CASE Environment
  BY <1>6 DEF Environment, MineAddFileChunks, MineCommitFile, FillBlock, ChainOther
<1>. QED
  BY <1>1, <1>2, <1>3, <1>4, <1>5, <1>6 DEF Next

\* The waiter hands over chunks of transactions that have succeeded, and no others.
LEMMA HandOverNext ==
  ASSUME RegisteredInv, [Next]_vars
  PROVE  HandsOverRegistered'
<1>ok. TypeOK /\ TxsNamed
  BY DEF RegisteredInv, StreamInv
<1>1. CASE UNCHANGED <<waiterPc, waitTx, nextChunk, listed>>
  <2>1. ASSUME waiterPc = "send"
        PROVE  txs'[waitTx].status = "success" /\ nextChunk \in ChunksOf(txs'[waitTx])
    BY <2>1, <1>ok, TxsGrow
    DEF RegisteredInv, HandsOverRegistered, TypeOK, WaiterType, ChunksOf
  <2>2. ASSUME waiterPc = "sendListed"
        PROVE  txs'[listed[nextChunk]].status = "success"
    BY <2>2, <1>ok, TxsGrow DEF RegisteredInv, HandsOverRegistered, TypeOK, WaiterType, IsTxMap
  <2>. QED
    BY <1>1, <2>1, <2>2 DEF HandsOverRegistered
<1>2. CASE waiterPc' \notin {"send", "sendListed"}
  BY <1>2 DEF HandsOverRegistered
<1>3. CASE TxConfirmed
  <2>1. AwaitedTx \in TxId /\ txs[AwaitedTx] \in Tx
    <3>1. AwaitedTx \in TxId
      BY <1>3, <1>ok DEF TxConfirmed, AwaitedTx, TypeOK, WaiterType, IsTxMap
    <3>. QED
      BY <3>1, <1>ok DEF TypeOK, ChainType, TxId
  <2>2. txs[AwaitedTx].start \in ChunksOf(txs[AwaitedTx])
    BY <2>1, <1>ok DEF ChunksOf, Tx, TxsNamed
  <2>3. txs[AwaitedTx].status = "success"
    BY <1>3 DEF TxConfirmed, Confirmed
  <2>4. UNCHANGED <<txs, listed, waitTx>>
    BY <1>3 DEF TxConfirmed, WaiterOther
  <2>5. CASE waiterPc = "wait"
    BY <1>3, <2>2, <2>3, <2>4, <2>5 DEF TxConfirmed, AwaitedTx, HandsOverRegistered
  <2>6. CASE waiterPc = "waitListed"
    BY <1>3, <2>3, <2>4, <2>6 DEF TxConfirmed, AwaitedTx, HandsOverRegistered
  <2>. QED
    BY <1>3, <2>5, <2>6 DEF TxConfirmed
<1>4. CASE SendBatchChunk
  BY <1>4
  DEF SendBatchChunk, MoreChunks, WaiterOther, HandsOverRegistered, RegisteredInv
<1>. QED
  BY <1>1, <1>2, <1>3, <1>4, HandOverChange, Zenon

\* So the uploader takes a chunk over only when it is registered.
LEMMA UploadNext ==
  ASSUME RegisteredInv, [Next]_vars
  PROVE  UploadAfterRegistration'
<1> USE DEF UploadAfterRegistration
<1>ok. TypeOK /\ TxsNamed /\ HandsOverRegistered /\ Registered \subseteq Registered'
  BY RegisteredGrows DEF RegisteredInv, StreamInv
<1>0. ASSUME NEW t \in TxId, txs[t].status = "success", NEW c \in ChunksOf(txs[t])
      PROVE  c \in Registered
  BY <1>0, <1>ok DEF Registered, TypeOK, ChainType, TxId
<1>1. CASE UNCHANGED <<uploaderPc, current>>
  BY <1>1, <1>ok DEF RegisteredInv
<1>2. CASE uploaderPc' # "blocks"
  BY <1>2
<1>3. CASE SendListedChunk
  <2>1. waiterPc = "sendListed" /\ current' = nextChunk
    BY <1>3 DEF SendListedChunk, UploaderTakes
  <2>2. /\ listed[nextChunk] \in TxId /\ nextChunk \in ChunksOf(txs[listed[nextChunk]])
        /\ txs[listed[nextChunk]].status = "success"
    BY <2>1, <1>ok DEF TypeOK, WaiterType, IsTxMap, TxsNamed, ListsTx, HandsOverRegistered
  <2>. QED
    BY <2>1, <2>2, <1>0, <1>ok
<1>4. CASE SendBatchChunk
  <2>1. waiterPc = "send" /\ current' = nextChunk
    BY <1>4 DEF SendBatchChunk, UploaderTakes
  <2>2. /\ waitTx \in TxId /\ nextChunk \in ChunksOf(txs[waitTx])
        /\ txs[waitTx].status = "success"
    BY <2>1, <1>ok DEF TypeOK, WaiterType, HandsOverRegistered
  <2>. QED
    BY <2>1, <2>2, <1>0, <1>ok
<1>. QED
  BY <1>1, <1>2, <1>3, <1>4, UploaderChange, Zenon

\* A node is never sent a block of a chunk that is not on the chain.
THEOREM UploadAfterRegistrationCorrect == Spec => []UploadAfterRegistration
<1>1. Init => RegisteredInv
  BY StreamInit
  DEF Init, RegisteredInv, TxsNamed, ListsTx, TxId, EmptyMap, HandsOverRegistered,
      UploadAfterRegistration
<1>2. RegisteredInv /\ [Next]_vars => RegisteredInv'
  BY StreamNext, TxsNamedNext, HandOverNext, UploadNext DEF RegisteredInv
<1>3. RegisteredInv => UploadAfterRegistration
  BY DEF RegisteredInv
<1>. QED
  BY <1>1, <1>2, <1>3, PTL DEF Spec
=============================================================================
