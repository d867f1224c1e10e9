---------------------------- MODULE DownloadProofs ----------------------------
(***************************************************************************)
(* Proofs about Download, Download2 and DownloadArchival, for every number  *)
(* of chunks and blocks, every limit, channel capacity and bound on faults: *)
(* wrong data is not written, right data is not refused, and the goroutines *)
(* together keep the promise of FileDownload.  ArchivalMetadata lists every *)
(* block in its place.                                                      *)
(***************************************************************************)
EXTENDS Download, ArchivalMetadata, FiniteSetTheorems, TLAPS

USE DEF vars, groupVars, creatorVars, chunkVars, outputVars

-----------------------------------------------------------------------------
(* Types *)

\* What is put on a channel, or written, is one more of what was there.
LEMMA OneMore ==
  ASSUME NEW S, NEW s \in Seq(S), NEW e \in S
  PROVE  Append(s, e) \in Seq(S)
  OBVIOUS

\* The contexts are live or done, and the failure is that of a step.
LEMMA GroupTypeStep ==
  ASSUME GroupType, [Next]_vars
  PROVE  GroupType'
<1> USE DEF GroupType
<1>1. CASE Cancel \/ Ended \/ UNCHANGED vars
  BY <1>1 DEF Cancel, Ended
<1>2. CASE Creator
  BY <1>2
  DEF Creator, CheckContext, CreateChunkDownload, SendChunkDownload, CreatorEnds, CreatorFails, Fail
<1>3. CASE Processor
  BY <1>3
  DEF Processor, Receive, ReceiveEnds, WaitBlocks, Assemble, Write, WriteFails, Count,
      ProcessorFails, Fail
<1>4. ASSUME NEW b \in Block, BlockStep(b) PROVE GroupType'
  BY <1>4
  DEF BlockStep, Launch, Resolve, FetchBlock, FetchFails, FetchWrong, RetryRange, VerifyWrong,
      Deliver, BlockFails, BlockOther
<1>. QED
  BY <1>1, <1>2, <1>3, <1>4 DEF Next

\* The creator counts up to the last chunk, and the channel carries chunks.
LEMMA CreatorTypeStep ==
  ASSUME CreatorType, [Next]_vars
  PROVE  CreatorType'
<1> USE DEF CreatorType
<1>a. NumChunks \in Nat
  BY DownloadAssumption
<1>1. CASE Cancel \/ Ended \/ UNCHANGED vars
  BY <1>1 DEF Cancel, Ended
<1>2. CASE Creator
  <2>1. CASE CheckContext \/ CreateChunkDownload \/ CreatorEnds
    BY <2>1 DEF CheckContext, CreateChunkDownload, CreatorEnds, CreatorFails
  <2>2. CASE SendChunkDownload
    <3>1. CASE CreatorFails("ctx")
      BY <3>1 DEF CreatorFails
    <3>2. CASE queue' = Append(queue, next) /\ next' = next + 1 /\ creator' = "check"
      <4>1. next \in Chunk /\ next' \in 1..(NumChunks + 1)
        BY <2>2, <3>2, <1>a DEF SendChunkDownload, Chunk
      <4>. QED
        BY <3>2, <4>1, OneMore
    <3>. QED
      BY <2>2, <3>1, <3>2 DEF SendChunkDownload
  <2>. QED
    BY <1>2, <2>1, <2>2 DEF Creator
<1>3. CASE Processor
  <2>1. CASE Receive
    <3>1. queue \in Seq(Chunk) /\ queue # <<>> /\ queue' = Tail(queue)
      BY <2>1 DEF Receive
    <3>2. queue' \in Seq(Chunk)
      BY <3>1
    <3>. QED
      BY <2>1, <3>2 DEF Receive
  <2>. QED
    BY <1>3, <2>1 DEF Processor, ReceiveEnds, WaitBlocks, Assemble, Write, WriteFails, Count
<1>4. ASSUME NEW b \in Block, BlockStep(b) PROVE CreatorType'
  BY <1>4
  DEF BlockStep, Launch, Resolve, FetchBlock, FetchFails, FetchWrong, RetryRange, BlockOther
<1>. QED
  BY <1>1, <1>2, <1>3, <1>4 DEF Next

\* The processor is at a chunk that came through the channel.
LEMMA ProcessorTypeStep ==
  ASSUME ProcessorType, CreatorType, [Next]_vars
  PROVE  ProcessorType'
<1> USE DEF ProcessorType
<1>1. CASE Cancel \/ Ended \/ UNCHANGED vars
  BY <1>1 DEF Cancel, Ended
<1>2. CASE Creator
  BY <1>2
  DEF Creator, CheckContext, CreateChunkDownload, SendChunkDownload, CreatorEnds, CreatorOther
<1>3. CASE Processor
  <2>1. CASE Receive
    <3>1. Head(queue) \in Chunk
      BY <2>1 DEF Receive, CreatorType
    <3>. QED
      BY <2>1, <3>1, DownloadAssumption DEF Receive, Chunk
  <2>. QED
    BY <1>3, <2>1
    DEF Processor, ReceiveEnds, WaitBlocks, Assemble, Write, WriteFails, Count, ProcessorFails
<1>4. ASSUME NEW b \in Block, BlockStep(b) PROVE ProcessorType'
  BY <1>4
  DEF BlockStep, Launch, Resolve, FetchBlock, FetchFails, FetchWrong, RetryRange, BlockOther
<1>. QED
  BY <1>1, <1>2, <1>3, <1>4 DEF Next

\* What a goroutine of a block does to its state, its attempts, the channel and the flag.
LEMMA BlockTypeStep ==
  ASSUME BlockType, ProcessorType, [Next]_vars
  PROVE  BlockType'
<1> USE DEF BlockType
<1>1. CASE Cancel \/ Ended \/ UNCHANGED vars
  BY <1>1 DEF Cancel, Ended
<1>2. CASE Creator
  BY <1>2
  DEF Creator, CheckContext, CreateChunkDownload, SendChunkDownload, CreatorEnds, CreatorOther
<1>3. CASE Processor
  <2>1. CASE Receive
    <3>1. blockErr' \in BOOLEAN
      BY <2>1 DEF Receive
    <3>2. fetch' \in [Block -> FetchState]
      BY <2>1 DEF Receive, FetchState
    <3>3. attempts' \in [Block -> Nat]
      BY <2>1 DEF Receive
    <3>4. arrived' \in Seq(Block) /\ good' \subseteq Block
      BY <2>1 DEF Receive
    <3>. QED
      BY <3>1, <3>2, <3>3, <3>4
  <2>. QED
    BY <1>3, <2>1 DEF Processor, ReceiveEnds, WaitBlocks, Assemble, Write, WriteFails, Count
<1>4. ASSUME NEW b \in Block, BlockStep(b) PROVE BlockType'
  <2>1. CASE Launch(b) \/ (Resolve(b) /\ UNCHANGED blockErr)
    <3>1. fetch' = [fetch EXCEPT ![b] = "resolve"] \/ fetch' = [fetch EXCEPT ![b] = "fetch"]
          \/ fetch' = [fetch EXCEPT ![b] = "failed"]
      BY <2>1 DEF Launch, Resolve, BlockFails
    <3>2. fetch' \in [Block -> FetchState]
      BY <3>1 DEF FetchState
    <3>3. UNCHANGED <<blockErr, attempts, arrived, good>>
      BY <2>1 DEF Launch, Resolve, BlockFails
    <3>. QED
      BY <3>2, <3>3
  <2>2. CASE BlockFails(b)
    <3>1. fetch' \in [Block -> FetchState]
      BY <2>2 DEF BlockFails, FetchState
    <3>. QED
      BY <2>2, <3>1 DEF BlockFails
  <2>3. CASE Deliver(b) /\ (good' = good \/ good' = good \union {b})
    <3>1. fetch' \in [Block -> FetchState]
      BY <2>3 DEF Deliver, FetchState
    <3>2. arrived' \in Seq(Block)
      BY <2>3, OneMore DEF Deliver
    <3>3. good' \subseteq Block
      BY <2>3
    <3>. QED
      BY <2>3, <3>1, <3>2, <3>3 DEF Deliver
  <2>4. CASE RetryRange(b)
    <3>1. attempts[b] \in Nat /\ attempts' = [attempts EXCEPT ![b] = attempts[b] + 1]
      BY <2>4 DEF RetryRange
    <3>2. attempts' \in [Block -> Nat]
      BY <3>1
    <3>. QED
      BY <2>4, <3>2 DEF RetryRange
  <2>. QED
    BY <1>4, <2>1, <2>2, <2>3, <2>4
    DEF BlockStep, Resolve, FetchBlock, FetchFails, FetchWrong, VerifyWrong
<1>. QED
  BY <1>1, <1>2, <1>3, <1>4 DEF Next

\* Chunks are written and counted, and a fault is used up when it happens.
LEMMA OutputTypeStep ==
  ASSUME OutputType, ProcessorType, [Next]_vars
  PROVE  OutputType'
<1> USE DEF OutputType
<1>a. MaxFaults \in Nat
  BY DownloadAssumption
<1>b. Fault => faults' \in 0..MaxFaults
  BY <1>a DEF Fault
<1>1. CASE Cancel \/ Ended \/ UNCHANGED vars
  BY <1>1 DEF Cancel, Ended
<1>2. CASE Creator
  BY <1>2, <1>b
  DEF Creator, CheckContext, CreateChunkDownload, SendChunkDownload, CreatorEnds, CreatorOther
<1>3. CASE Processor
  <2>1. CASE Write
    <3>1. CASE written' = Append(written, [chunk |-> chunk, right |-> DataRight])
               /\ UNCHANGED <<torn, faults>>
      <4>1. DataRight \in BOOLEAN
        BY DEF DataRight
      <4>2. chunk \in 0..NumChunks
        BY DEF ProcessorType
      <4>3. [chunk |-> chunk, right |-> DataRight] \in [chunk : 0..NumChunks, right : BOOLEAN]
        BY <4>1, <4>2
      <4>4. written' \in Seq([chunk : 0..NumChunks, right : BOOLEAN])
        BY <3>1, <4>3, OneMore
      <4>. QED
        BY <2>1, <3>1, <4>4 DEF Write
    <3>2. CASE Fault /\ torn' \in BOOLEAN /\ UNCHANGED written
      BY <2>1, <3>2, <1>b DEF Write
    <3>. QED
      BY <2>1, <3>1, <3>2 DEF Write
  <2>2. CASE Count
    BY <2>2 DEF Count
  <2>. QED
    BY <1>3, <2>1, <2>2 DEF Processor, Receive, ReceiveEnds, WaitBlocks, Assemble, WriteFails
<1>4. ASSUME NEW b \in Block, BlockStep(b) PROVE OutputType'
  <2>1. UNCHANGED outputVars
    BY <1>4
    DEF BlockStep, Launch, Resolve, FetchBlock, FetchFails, FetchWrong, RetryRange, BlockOther
  <2>2. faults' \in 0..MaxFaults
    BY <1>4, <1>b
    DEF BlockStep, Launch, Resolve, FetchBlock, FetchFails, FetchWrong, RetryRange
  <2>3. blocks' = blocks \/ blocks' = blocks + 1
    BY <1>4
    DEF BlockStep, Launch, Resolve, FetchBlock, FetchFails, FetchWrong, RetryRange,
        BlockFails, VerifyWrong, Deliver
  <2>. QED
    BY <2>1, <2>2, <2>3
<1>. QED
  BY <1>1, <1>2, <1>3, <1>4 DEF Next

\* Every variable of the downloads has its type in every reachable state.
THEOREM DownloadTypes == Spec => []TypeOK
<1>1. Init => TypeOK
  <2> SUFFICES ASSUME Init PROVE TypeOK
    OBVIOUS
  <2>1. GroupType /\ ProcessorType
    BY DownloadAssumption DEF Init, GroupType, ProcessorType
  <2>2. CreatorType
    BY DownloadAssumption DEF Init, CreatorType, Chunk
  <2>3. BlockType
    <3>1. fetch \in [Block -> FetchState]
      BY DEF Init, FetchState
    <3>2. attempts \in [Block -> Nat]
      BY DEF Init
    <3>3. arrived \in Seq(Block)
      BY DEF Init
    <3>4. good \subseteq Block
      BY DEF Init
    <3>5. blockErr \in BOOLEAN
      BY DEF Init
    <3>. QED
      BY <3>1, <3>2, <3>3, <3>4, <3>5 DEF BlockType
  <2>4. OutputType
    <3>1. written \in Seq([chunk : 0..NumChunks, right : BOOLEAN])
      BY DEF Init
    <3>2. torn \in BOOLEAN /\ blocks \in Nat /\ chunks \in Nat
      BY DEF Init
    <3>3. faults \in 0..MaxFaults
      BY DownloadAssumption DEF Init
    <3>. QED
      BY <3>1, <3>2, <3>3 DEF OutputType
  <2>. QED
    BY <2>1, <2>2, <2>3, <2>4 DEF TypeOK
<1>2. TypeOK /\ [Next]_vars => TypeOK'
  BY GroupTypeStep, CreatorTypeStep, ProcessorTypeStep, BlockTypeStep, OutputTypeStep DEF TypeOK
<1>. QED
  BY <1>1, <1>2, PTL DEF Spec
-----------------------------------------------------------------------------
(* Which data is written *)

\* The block has come through the channel.
Here(b) == \E k \in DOMAIN arrived : arrived[k] = b

\* Goroutines of blocks run only while the processor waits for them; one that has failed has
\* left the error; one that has ended has delivered its block, and has verified it when the
\* download is archival.
BlockInv ==
  /\ \A b \in Block : fetch[b] \in {"resolve", "fetch"} => processor = "fetch"
  /\ \A b \in Block : fetch[b] = "failed" => blockErr
  /\ \A b \in Block : fetch[b] = "ended" => Here(b) /\ (Archival => b \in good)

\* What is assembled is complete, what is written is right where that can be told, and data is
\* refused only when that of a block was wrong.
DataInv ==
  /\ processor \in {"assemble", "write"} => \A b \in Block : fetch[b] = "ended"
  /\ processor = "write" /\ (Archival \/ Sealed) => DataRight
  /\ failure = "data" => processor = "ended" /\ good # Block
  /\ OnlyRightData

\* One goroutine moves on without having come to its end.
LEMMA MovesOn ==
  ASSUME BlockType, BlockInv, NEW b \in Block, NEW s \in {"resolve", "fetch"},
         processor = "fetch", fetch' = [fetch EXCEPT ![b] = s],
         UNCHANGED <<processor, blockErr, arrived, good>>
  PROVE  BlockInv'
<1>1. ASSUME NEW a \in Block PROVE fetch'[a] = IF a = b THEN s ELSE fetch[a]
  BY DEF BlockType
<1>2. ASSUME NEW a \in Block, fetch'[a] = "failed" PROVE blockErr'
  BY <1>1, <1>2 DEF BlockInv
<1>3. ASSUME NEW a \in Block, fetch'[a] = "ended" PROVE Here(a)' /\ (Archival => a \in good')
  BY <1>1, <1>3 DEF BlockInv, Here
<1>. QED
  BY <1>2, <1>3 DEF BlockInv

\* A goroutine fails, which is remembered.
LEMMA FailsBlock ==
  ASSUME BlockType, BlockInv, NEW b \in Block, BlockFails(b), UNCHANGED processor
  PROVE  BlockInv'
<1>1. ASSUME NEW a \in Block PROVE fetch'[a] = IF a = b THEN "failed" ELSE fetch[a]
  BY DEF BlockType, BlockFails
<1>2. blockErr' /\ UNCHANGED <<processor, arrived, good>>
  BY DEF BlockFails
<1>3. ASSUME NEW a \in Block, fetch'[a] = "ended" PROVE Here(a)' /\ (Archival => a \in good')
  BY <1>1, <1>2, <1>3 DEF BlockInv, Here
<1>4. ASSUME NEW a \in Block, fetch'[a] \in {"resolve", "fetch"} PROVE processor' = "fetch"
  BY <1>1, <1>2, <1>4 DEF BlockInv
<1>. QED
  BY <1>2, <1>3, <1>4 DEF BlockInv

\* A goroutine delivers its block, which is verified when the download is archival.
LEMMA DeliversBlock ==
  ASSUME BlockType, BlockInv, NEW b \in Block, Deliver(b), UNCHANGED processor,
         good' = good \/ good' = good \union {b}, Archival => b \in good'
  PROVE  BlockInv'
<1>1. ASSUME NEW a \in Block PROVE fetch'[a] = IF a = b THEN "ended" ELSE fetch[a]
  BY DEF BlockType, Deliver
<1>2. arrived \in Seq(Block) /\ arrived' = Append(arrived, b)
  BY DEF BlockType, Deliver
<1>3. \A k \in DOMAIN arrived : k \in DOMAIN arrived' /\ arrived'[k] = arrived[k]
  BY <1>2
<1>4. Len(arrived) + 1 \in DOMAIN arrived' /\ arrived'[Len(arrived) + 1] = b
  BY <1>2
<1>5. ASSUME NEW a \in Block, fetch'[a] = "ended" PROVE Here(a)' /\ (Archival => a \in good')
  <2>1. CASE a = b
    BY <1>4, <2>1 DEF Here
  <2>2. CASE a # b
    BY <1>1, <1>3, <1>5, <2>2 DEF BlockInv, Here
  <2>. QED
    BY <2>1, <2>2
<1>6. ASSUME NEW a \in Block, fetch'[a] = "failed" PROVE blockErr'
  BY <1>1, <1>6 DEF BlockInv, Deliver
<1>7. ASSUME NEW a \in Block, fetch'[a] \in {"resolve", "fetch"} PROVE processor' = "fetch"
  BY <1>1, <1>7 DEF BlockInv
<1>. QED
  BY <1>5, <1>6, <1>7 DEF BlockInv

\* The goroutines of the blocks keep account of what they did.
LEMMA BlockInvStep ==
  ASSUME BlockType, BlockInv, [Next]_vars
  PROVE  BlockInv'
<1>1. CASE Creator \/ Cancel \/ Ended \/ UNCHANGED vars
  <2>1. UNCHANGED <<processor, blockErr, fetch, arrived, good>>
    BY <1>1
    DEF Creator, CheckContext, CreateChunkDownload, SendChunkDownload, CreatorEnds, CreatorOther,
        Cancel, Ended
  <2>. QED
    BY <2>1 DEF BlockInv, Here
<1>2. CASE Processor
  <2>1. CASE Receive
    <3>1. \A b \in Block : fetch'[b] = "idle"
      BY <2>1 DEF Receive
    <3>. QED
      BY <3>1 DEF BlockInv
  <2>2. CASE WaitBlocks
    <3>1. \A b \in Block : fetch[b] \notin {"resolve", "fetch"}
      BY <2>2 DEF WaitBlocks, Running
    <3>2. UNCHANGED <<blockErr, fetch, arrived, good>>
      BY <2>2 DEF WaitBlocks
    <3>. QED
      BY <3>1, <3>2 DEF BlockInv, Here
  <2>3. CASE ReceiveEnds \/ Assemble \/ Write \/ WriteFails \/ Count
    <3>1. processor # "fetch" /\ UNCHANGED <<blockErr, fetch, arrived, good>>
      BY <2>3 DEF ReceiveEnds, Assemble, Write, WriteFails, Count
    <3>. QED
      BY <3>1 DEF BlockInv, Here
  <2>. QED
    BY <1>2, <2>1, <2>2, <2>3 DEF Processor
<1>3. ASSUME NEW b \in Block, BlockStep(b) PROVE BlockInv'
  <2>1. CASE Launch(b)
    BY <2>1, MovesOn DEF Launch
  <2>2. CASE Resolve(b)
    <3>1. UNCHANGED processor
      BY <2>2 DEF Resolve, BlockOther
    <3>2. CASE BlockFails(b)
      BY <3>1, <3>2, FailsBlock
    <3>3. CASE fetch' = [fetch EXCEPT ![b] = "fetch"] /\ UNCHANGED <<blockErr, arrived, good>>
      BY <2>2, <3>1, <3>3, MovesOn DEF Resolve, BlockInv
    <3>. QED
      BY <2>2, <3>2, <3>3 DEF Resolve
  <2>3. CASE FetchBlock(b)
    BY <2>3, DeliversBlock DEF FetchBlock, BlockOther
  <2>4. CASE FetchFails(b)
    BY <2>4, FailsBlock DEF FetchFails, BlockOther
  <2>5. CASE FetchWrong(b)
    BY <2>5, FailsBlock, DeliversBlock DEF FetchWrong, VerifyWrong, BlockOther
  <2>6. CASE RetryRange(b)
    <3>1. UNCHANGED <<processor, blockErr, fetch, arrived, good>>
      BY <2>6 DEF RetryRange, BlockOther
    <3>. QED
      BY <3>1 DEF BlockInv, Here
  <2>. QED
    BY <1>3, <2>1, <2>2, <2>3, <2>4, <2>5, <2>6 DEF BlockStep
<1>. QED
  BY <1>1, <1>2, <1>3 DEF Next
\* The chunk was encrypted under the index it is decrypted under.
LEMMA AlwaysOpens == ProcessorType => Opens(chunk)
<1>1. NumChunks \in Nat /\ RangeStart \in Nat
  BY DownloadAssumption
<1>2. ProcessorType => chunk \in 0..NumChunks
  BY DEF ProcessorType
<1>. QED
  BY <1>1, <1>2 DEF Opens, IndexOf, SealedAs

\* Blocks that all came are put where they belong, so that only wrong data makes them wrong.
LEMMA AllAssembled ==
  ASSUME BlockInv, \A b \in Block : fetch[b] = "ended"
  PROVE  DataRight <=> good = Block
<1>1. \A b \in Block : \E k \in DOMAIN arrived : arrived[k] = b
  BY DEF BlockInv, Here
<1>2. Assembled = [b \in Block |-> b]
  BY <1>1 DEF Assembled
<1>. QED
  BY <1>2 DEF DataRight

\* What is not touched keeps its data.
LEMMA DataKept ==
  ASSUME DataInv, UNCHANGED <<processor, fetch, arrived, good, written>>,
         failure' = failure \/ (failure' # "data" /\ failure = "none")
  PROVE  DataInv'
<1>1. DataRight' = DataRight
  BY DEF DataRight, Assembled
<1>2. OnlyRightData'
  BY DEF DataInv, OnlyRightData
<1>. QED
  BY <1>1, <1>2 DEF DataInv

\* The processor does something else than to assemble or to write.
LEMMA DataLeft ==
  ASSUME DataInv, processor' \notin {"assemble", "write"}, processor # "ended",
         UNCHANGED written, failure' # "data" \/ UNCHANGED failure
  PROVE  DataInv'
<1>1. OnlyRightData'
  BY DEF DataInv, OnlyRightData
<1>2. failure' # "data"
  BY DEF DataInv
<1>. QED
  BY <1>1, <1>2 DEF DataInv

\* Wrong data is not written where it can be told, and right data is not refused.
LEMMA DataInvStep ==
  ASSUME BlockType, ProcessorType, OutputType, BlockInv, DataInv, [Next]_vars
  PROVE  DataInv'
<1>1. CASE Creator \/ Cancel \/ Ended \/ UNCHANGED vars
  <2>1. UNCHANGED <<processor, fetch, arrived, good, written>>
    BY <1>1
    DEF Creator, CheckContext, CreateChunkDownload, SendChunkDownload, CreatorEnds, CreatorOther,
        Cancel, Ended
  <2>2. failure' = failure \/ (failure' # "data" /\ failure = "none")
    BY <1>1
    DEF Creator, CheckContext, CreateChunkDownload, SendChunkDownload, CreatorEnds, CreatorFails,
        Fail, Cancel, Ended
  <2>. QED
    BY <2>1, <2>2, DataKept
<1>2. CASE Processor
  <2>1. CASE Receive \/ ReceiveEnds \/ Count \/ WriteFails
    <3>1. processor' \notin {"assemble", "write"} /\ processor # "ended" /\ UNCHANGED written
      BY <2>1 DEF Receive, ReceiveEnds, Count, WriteFails, ProcessorFails
    <3>2. failure' # "data" \/ UNCHANGED failure
      BY <2>1 DEF Receive, ReceiveEnds, Count, WriteFails, ProcessorFails, Fail
    <3>. QED
      BY <3>1, <3>2, DataLeft
  <2>2. CASE WaitBlocks
    <3>1. CASE blockErr
      <4>1. processor' = "ended" /\ processor = "fetch" /\ UNCHANGED written
        BY <2>2, <3>1 DEF WaitBlocks, ProcessorFails
      <4>2. failure' # "data" \/ UNCHANGED failure
        BY <2>2, <3>1 DEF WaitBlocks, ProcessorFails, Fail
      <4>. QED
        BY <4>1, <4>2, DataLeft
    <3>2. CASE ~blockErr
      <4>1. processor' = "assemble" /\ processor = "fetch"
            /\ UNCHANGED <<fetch, good, written, failure>>
        BY <2>2, <3>2 DEF WaitBlocks
      <4>2. ASSUME NEW b \in Block PROVE fetch[b] = "ended"
        <5>1. fetch[b] \notin {"idle", "resolve", "fetch"}
          BY <2>2 DEF WaitBlocks, Running, Launched
        <5>2. fetch[b] # "failed"
          BY <3>2 DEF BlockInv
        <5>. QED
          BY <5>1, <5>2 DEF BlockType, FetchState
      <4>3. OnlyRightData'
        BY <4>1 DEF DataInv, OnlyRightData
      <4>4. failure' # "data"
        BY <4>1 DEF DataInv
      <4>. QED
        BY <4>1, <4>2, <4>3, <4>4 DEF DataInv
    <3>. QED
      BY <3>1, <3>2
  <2>3. CASE Assemble
    <3>0. processor = "assemble" /\ UNCHANGED <<fetch, arrived, good, written>>
      BY <2>3 DEF Assemble
    <3>a. DataRight <=> good = Block
      BY <3>0, AllAssembled DEF DataInv
    <3>b. DataRight' <=> DataRight
      BY <3>0 DEF DataRight, Assembled
    <3>c. OnlyRightData'
      BY <3>0 DEF DataInv, OnlyRightData
    <3>1. CASE ProcessorFails("data") /\ ~(Opens(chunk) /\ DataRight)
      <4>1. processor' = "ended" /\ good' # Block
        BY <3>0, <3>1, <3>a, AlwaysOpens DEF ProcessorFails
      <4>. QED
        BY <4>1, <3>c DEF DataInv
    <3>2. CASE (DataRight \/ ~CanDetect) /\ processor' = "write" /\ UNCHANGED failure
      <4>1. Archival => good = Block
        BY <3>0 DEF DataInv, BlockInv, BlockType
      <4>2. Sealed => DataRight
        BY <3>2 DEF CanDetect
      <4>3. Archival \/ Sealed => DataRight'
        BY <4>1, <4>2, <3>a, <3>b
      <4>4. \A b \in Block : fetch'[b] = "ended"
        BY <3>0 DEF DataInv
      <4>5. failure' # "data"
        BY <3>0, <3>2 DEF DataInv
      <4>. QED
        BY <3>2, <3>c, <4>3, <4>4, <4>5 DEF DataInv
    <3>. QED
      BY <2>3, <3>1, <3>2 DEF Assemble
  <2>4. CASE Write
    <3>1. processor = "write" /\ processor' \in {"count", "write failed"} /\ UNCHANGED failure
      BY <2>4 DEF Write
    <3>2. failure' # "data"
      BY <3>1 DEF DataInv
    <3>3. CASE UNCHANGED written
      BY <3>1, <3>3, DataLeft
    <3>4. CASE written' = Append(written, [chunk |-> chunk, right |-> DataRight])
      <4>1. written \in Seq([chunk : 0..NumChunks, right : BOOLEAN])
        BY DEF OutputType
      <4>2. ASSUME Archival \/ Sealed, NEW k \in DOMAIN written' PROVE written'[k].right
        <5>1. CASE k \in DOMAIN written
          <6>1. written'[k] = written[k]
            BY <3>4, <4>1, <5>1
          <6>. QED
            BY <4>2, <5>1, <6>1 DEF DataInv, OnlyRightData
        <5>2. CASE k \notin DOMAIN written
          <6>1. written'[k] = [chunk |-> chunk, right |-> DataRight]
            BY <3>4, <4>1, <4>2, <5>2
          <6>2. DataRight
            BY <3>1, <4>2 DEF DataInv
          <6>. QED
            BY <6>1, <6>2
        <5>. QED
          BY <5>1, <5>2
      <4>3. OnlyRightData'
        BY <4>2 DEF OnlyRightData
      <4>. QED
        BY <3>1, <3>2, <4>3 DEF DataInv
    <3>. QED
      BY <2>4, <3>3, <3>4 DEF Write
  <2>. QED
    BY <1>2, <2>1, <2>2, <2>3, <2>4 DEF Processor
<1>3. ASSUME NEW b \in Block, BlockStep(b) PROVE DataInv'
  <2>1. UNCHANGED <<processor, failure, written>>
    BY <1>3
    DEF BlockStep, Launch, Resolve, FetchBlock, FetchFails, FetchWrong, RetryRange, BlockOther
  <2>2. processor = "fetch"
    BY <1>3
    DEF BlockStep, Launch, Resolve, FetchBlock, FetchFails, FetchWrong, RetryRange, BlockInv
  <2>. QED
    BY <2>1, <2>2, DataLeft
<1>. QED
  BY <1>1, <1>2, <1>3 DEF Next

\* With a check of the blocks' CIDs, or with encryption, wrong data is never written.
THEOREM WrongDataIsNotWritten == Spec => []OnlyRightData
<1>1. Init => BlockInv /\ DataInv
  BY DEF Init, BlockInv, DataInv, OnlyRightData
<1>2. TypeOK /\ BlockInv /\ DataInv /\ [Next]_vars => BlockInv' /\ DataInv'
  BY BlockInvStep, DataInvStep DEF TypeOK
<1>3. DataInv => OnlyRightData
  BY DEF DataInv
<1>. QED
  BY <1>1, <1>2, <1>3, DownloadTypes, PTL DEF Spec

\* Blocks that are all right are never refused, in whichever order they came.
THEOREM RightDataIsAccepted == Spec => []RightDataAccepted
<1>1. Init => BlockInv /\ DataInv
  BY DEF Init, BlockInv, DataInv, OnlyRightData
<1>2. TypeOK /\ BlockInv /\ DataInv /\ [Next]_vars => BlockInv' /\ DataInv'
  BY BlockInvStep, DataInvStep DEF TypeOK
<1>3. DataInv => RightDataAccepted
  BY DEF DataInv, RightDataAccepted
<1>. QED
  BY <1>1, <1>2, <1>3, DownloadTypes, PTL DEF Spec
-----------------------------------------------------------------------------
(* The promise to the caller *)

InHand == processor \in {"fetch", "assemble", "write", "write failed"}

\* Chunks the processor has taken off the channel: those written and the one in hand.
Taken == IF InHand THEN Len(written) + 1 ELSE Len(written)

\* The channel holds the chunks between those taken and the one the creator is at, in order.
ChannelInOrder ==
  /\ InHand => chunk = Taken
  /\ processor # "ended" => /\ Len(queue) + Taken = next - 1
                           /\ \A i \in DOMAIN queue : queue[i] = Taken + i

WrittenInOrder == \A i \in DOMAIN written : written[i].chunk = i

\* A goroutine that ends without a failure has done all its work, and a write that was cut
\* short is a failure.
EndsComplete ==
  /\ creator = "ended" /\ failure = "none" => next = NumChunks + 1
  /\ processor = "ended" /\ failure = "none" => creator = "ended" /\ Len(written) = NumChunks
  /\ torn => processor = "write failed" \/ (processor = "ended" /\ failure # "none")

PromiseInv == ChannelInOrder /\ WrittenInOrder /\ EndsComplete
\* The channel and what has been taken off it do not change.
LEMMA ChannelKept ==
  ASSUME ChannelInOrder, UNCHANGED <<queue, next, written>>,
         processor' # "ended" => processor # "ended",
         InHand' => InHand /\ UNCHANGED chunk,
         processor' = "ended" \/ (InHand' <=> InHand)
  PROVE  ChannelInOrder'
BY DEF ChannelInOrder, Taken

\* The creator puts the next chunk at the end, the processor takes the first one, and a chunk
\* that has been written is no longer in hand.
LEMMA ChannelInOrderStep ==
  ASSUME TypeOK, BlockInv, ChannelInOrder, [Next]_vars
  PROVE  ChannelInOrder'
<1>a. queue \in Seq(Chunk) /\ next \in Nat
  BY DownloadAssumption DEF TypeOK, CreatorType
<1>b. written \in Seq([chunk : 0..NumChunks, right : BOOLEAN])
  BY DEF TypeOK, OutputType
<1>c. Len(written) \in Nat
  BY <1>b
<1>1. CASE Cancel \/ Ended \/ UNCHANGED vars
  BY <1>1, ChannelKept DEF Cancel, Ended, InHand
<1>2. CASE Creator
  <2>1. UNCHANGED <<processor, chunk, written>>
    BY <1>2
    DEF Creator, CheckContext, CreateChunkDownload, SendChunkDownload, CreatorEnds, CreatorOther
  <2>2. CASE UNCHANGED <<queue, next>>
    BY <2>1, <2>2, ChannelKept DEF InHand
  <2>3. CASE queue' = Append(queue, next) /\ next' = next + 1
    <3>1. Taken' = Taken /\ (InHand' <=> InHand)
      BY <2>1 DEF Taken, InHand
    <3>2. Taken \in Nat
      BY <1>c DEF Taken
    <3>3. ASSUME processor # "ended" PROVE Len(queue') + Taken = next' - 1
      <4>1. Len(queue) + Taken = next - 1
        BY <3>3 DEF ChannelInOrder
      <4>2. Len(queue') = Len(queue) + 1 /\ Len(queue) \in Nat
        BY <1>a, <2>3
      <4>. QED
        BY <1>a, <2>3, <3>2, <4>1, <4>2
    <3>4. ASSUME processor # "ended", NEW i \in DOMAIN queue' PROVE queue'[i] = Taken + i
      <4>1. Len(queue) + Taken = next - 1 /\ Len(queue) \in Nat
        BY <1>a, <3>4 DEF ChannelInOrder
      <4>2. CASE i \in DOMAIN queue
        <5>1. queue'[i] = queue[i]
          BY <1>a, <2>3, <4>2
        <5>. QED
          BY <3>4, <4>2, <5>1 DEF ChannelInOrder
      <4>3. CASE i \notin DOMAIN queue
        <5>1. i = Len(queue) + 1 /\ queue'[i] = next
          BY <1>a, <2>3, <3>4, <4>3
        <5>. QED
          BY <1>a, <3>2, <4>1, <5>1
      <4>. QED
        BY <4>2, <4>3
    <3>. QED
      BY <2>1, <3>1, <3>3, <3>4 DEF ChannelInOrder
  <2>. QED
    BY <1>2, <2>2, <2>3
    DEF Creator, CheckContext, CreateChunkDownload, SendChunkDownload, CreatorEnds, CreatorFails
<1>3. CASE Processor
  <2>1. CASE Receive
    <3>1. queue # <<>> /\ queue' = Tail(queue) /\ chunk' = Head(queue) /\ UNCHANGED <<next, written>>
      BY <2>1 DEF Receive
    <3>2. InHand' /\ ~InHand /\ processor # "ended" /\ processor' # "ended"
      BY <2>1 DEF Receive, InHand
    <3>3. Taken = Len(written) /\ Taken' = Len(written) + 1
      BY <3>1, <3>2 DEF Taken
    <3>4. Len(queue) + Len(written) = next - 1 /\ \A i \in DOMAIN queue : queue[i] = Len(written) + i
      BY <3>2, <3>3 DEF ChannelInOrder
    <3>5. 1 \in DOMAIN queue /\ chunk' = queue[1]
      BY <1>a, <3>1
    <3>6. chunk' = Taken'
      BY <3>3, <3>4, <3>5
    <3>7. Len(queue) \in Nat /\ Len(queue') = Len(queue) - 1
      BY <1>a, <3>1
    <3>8. Len(queue') + Taken' = next' - 1
      <4>1. next' = next /\ Len(queue) + Len(written) = next - 1
        BY <3>1, <3>4
      <4>2. Taken' = Len(written) + 1
        BY <3>3
      <4>. QED
        BY <1>a, <1>c, <3>7, <4>1, <4>2
    <3>9. ASSUME NEW i \in DOMAIN queue' PROVE queue'[i] = Taken' + i
      <4>1. i + 1 \in DOMAIN queue /\ queue'[i] = queue[i + 1] /\ i \in Nat
        BY <1>a, <3>1, <3>9
      <4>. QED
        BY <1>c, <3>3, <3>4, <4>1
    <3>. QED
      BY <3>2, <3>6, <3>8, <3>9 DEF ChannelInOrder
  <2>2. CASE ReceiveEnds \/ WaitBlocks \/ Assemble \/ WriteFails
    <3>1. UNCHANGED <<queue, next, written, chunk>>
      BY <2>2 DEF ReceiveEnds, WaitBlocks, Assemble, WriteFails
    <3>2. processor # "ended" /\ (processor' = "ended" \/ (InHand' /\ InHand))
      BY <2>2 DEF ReceiveEnds, WaitBlocks, Assemble, WriteFails, ProcessorFails, InHand
    <3>3. InHand' => processor' # "ended"
      BY DEF InHand
    <3>. QED
      BY <3>1, <3>2, <3>3, ChannelKept
  <2>3. CASE Count
    BY <2>3, ChannelKept DEF Count, InHand
  <2>4. CASE Write
    <3>1. processor = "write" /\ UNCHANGED <<queue, next, chunk>>
      BY <2>4 DEF Write
    <3>2. CASE processor' = "write failed" /\ UNCHANGED written
      BY <3>1, <3>2, ChannelKept DEF InHand
    <3>3. CASE processor' = "count" /\ written' = Append(written, [chunk |-> chunk, right |-> DataRight])
      <4>1. Len(written') = Len(written) + 1
        BY <1>b, <3>3
      <4>2. ~InHand' /\ InHand
        BY <3>1, <3>3 DEF InHand
      <4>3. Taken' = Taken
        BY <4>1, <4>2 DEF Taken
      <4>. QED
        BY <3>1, <4>2, <4>3 DEF ChannelInOrder
    <3>. QED
      BY <2>4, <3>2, <3>3 DEF Write
  <2>. QED
    BY <1>3, <2>1, <2>2, <2>3, <2>4 DEF Processor
<1>4. ASSUME NEW b \in Block, BlockStep(b) PROVE ChannelInOrder'
  <2>1. UNCHANGED <<processor, chunk, queue, next, written>>
    BY <1>4
    DEF BlockStep, Launch, Resolve, FetchBlock, FetchFails, FetchWrong, RetryRange, BlockOther
  <2>. QED
    BY <2>1, ChannelKept DEF InHand
<1>. QED
  BY <1>1, <1>2, <1>3, <1>4 DEF Next

\* Only Write writes, and it writes the chunk in hand.
LEMMA OnlyWriteWrites ==
  ASSUME [Next]_vars
  PROVE  Write \/ UNCHANGED <<written, torn>>
<1>1. CASE Cancel \/ Ended \/ UNCHANGED vars
  BY <1>1 DEF Cancel, Ended
<1>2. CASE Creator
  BY <1>2
  DEF Creator, CheckContext, CreateChunkDownload, SendChunkDownload, CreatorEnds, CreatorOther
<1>3. CASE Processor
  BY <1>3 DEF Processor, Receive, ReceiveEnds, WaitBlocks, Assemble, WriteFails, Count
<1>4. ASSUME NEW b \in Block, BlockStep(b) PROVE UNCHANGED <<written, torn>>
  BY <1>4
  DEF BlockStep, Launch, Resolve, FetchBlock, FetchFails, FetchWrong, RetryRange, BlockOther
<1>. QED
  BY <1>1, <1>2, <1>3, <1>4 DEF Next

LEMMA WrittenInOrderStep ==
  ASSUME TypeOK, ChannelInOrder, WrittenInOrder, [Next]_vars
  PROVE  WrittenInOrder'
<1>1. CASE UNCHANGED written
  BY <1>1 DEF WrittenInOrder
<1>2. CASE Write /\ written' # written
  <2>1. written' = Append(written, [chunk |-> chunk, right |-> DataRight])
    BY <1>2 DEF Write
  <2>2. chunk = Len(written) + 1
    BY <1>2 DEF Write, ChannelInOrder, Taken, InHand
  <2>3. written \in Seq([chunk : 0..NumChunks, right : BOOLEAN])
    BY DEF TypeOK, OutputType
  <2>4. ASSUME NEW i \in DOMAIN written' PROVE written'[i].chunk = i
    <3>1. CASE i \in DOMAIN written
      <4>1. written'[i] = written[i]
        BY <2>1, <2>3, <3>1
      <4>. QED
        BY <3>1, <4>1 DEF WrittenInOrder
    <3>2. CASE i \notin DOMAIN written
      <4>1. i = Len(written) + 1 /\ written'[i] = [chunk |-> chunk, right |-> DataRight]
        BY <2>1, <2>3, <2>4, <3>2
      <4>. QED
        BY <2>2, <4>1
    <3>. QED
      BY <3>1, <3>2
  <2>. QED
    BY <2>4 DEF WrittenInOrder
<1>. QED
  BY <1>1, <1>2, OnlyWriteWrites
\* A goroutine that ends without having done all its work leaves the failure.
LEMMA EndsCompleteStep ==
  ASSUME TypeOK, BlockInv, ChannelInOrder, EndsComplete, [Next]_vars
  PROVE  EndsComplete'
<1>1. CASE Cancel \/ Ended \/ UNCHANGED vars
  <2>1. UNCHANGED <<creator, next, processor, failure, written, torn>>
    BY <1>1 DEF Cancel, Ended
  <2>. QED
    BY <2>1 DEF EndsComplete
<1>2. CASE Creator
  <2>1. UNCHANGED <<processor, written, torn>>
    BY <1>2
    DEF Creator, CheckContext, CreateChunkDownload, SendChunkDownload, CreatorEnds, CreatorOther
  <2>2. creator # "ended"
    BY <1>2 DEF Creator, CheckContext, CreateChunkDownload, SendChunkDownload, CreatorEnds
  <2>3. CASE CreatorEnds
    <3>1. next' = NumChunks + 1 /\ UNCHANGED failure
      BY <2>3, DownloadAssumption DEF CreatorEnds, TypeOK, CreatorType
    <3>. QED
      BY <2>1, <2>2, <3>1 DEF EndsComplete
  <2>4. CASE failure' # "none"
    BY <2>1, <2>4 DEF EndsComplete
  <2>5. CASE creator' # "ended" /\ UNCHANGED failure
    BY <2>1, <2>2, <2>5 DEF EndsComplete
  <2>6. \A e \in {"ctx", "create"} : CreatorFails(e) => failure' # "none"
    BY DEF CreatorFails, Fail
  <2>. QED
    BY <1>2, <2>3, <2>4, <2>5, <2>6
    DEF Creator, CheckContext, CreateChunkDownload, SendChunkDownload
<1>3. CASE Processor
  <2>0. UNCHANGED creatorVars
    BY <1>3 DEF Processor, Receive, ReceiveEnds, WaitBlocks, Assemble, Write, WriteFails, Count
  <2>a. processor # "ended"
    BY <1>3 DEF Processor, Receive, ReceiveEnds, WaitBlocks, Assemble, Write, WriteFails, Count
  <2>b. \A e \in {"ctx", "block", "data", "write"} :
          ProcessorFails(e) => failure' # "none" /\ processor' = "ended"
    BY DEF ProcessorFails, Fail
  <2>1. CASE Write
    <3>1. UNCHANGED <<creator, failure>> /\ processor = "write"
          /\ processor' \in {"count", "write failed"}
      BY <2>0, <2>1 DEF Write
    <3>2. processor' = "count" => torn' = torn
      BY <2>1 DEF Write
    <3>3. ~torn
      BY <3>1 DEF EndsComplete
    <3>4. torn' => processor' = "write failed"
      BY <3>1, <3>2, <3>3
    <3>. QED
      BY <2>0, <3>1, <3>4 DEF EndsComplete
  <2>2. CASE ~Write /\ processor' = "ended" /\ failure' # "none"
    BY <2>0, <2>2, OnlyWriteWrites DEF EndsComplete
  <2>3. CASE creator = "ended" /\ queue = <<>> /\ processor = "receive" /\ processor' = "ended"
             /\ UNCHANGED <<failure, written, torn>>
    <3>1. ~InHand /\ Taken = Len(written)
      BY <2>3 DEF InHand, Taken
    <3>2. Len(queue) = 0
      BY <2>3
    <3>3. written \in Seq([chunk : 0..NumChunks, right : BOOLEAN])
      BY DEF TypeOK, OutputType
    <3>4. Len(written) = next - 1
      BY <2>3, <3>1, <3>2, <3>3 DEF ChannelInOrder
    <3>5. failure = "none" => Len(written) = NumChunks
      BY <2>3, <3>4, DownloadAssumption DEF EndsComplete
    <3>6. ~torn
      BY <2>3 DEF EndsComplete
    <3>. QED
      BY <2>0, <2>3, <3>5, <3>6 DEF EndsComplete
  <2>4. CASE processor # "write failed" /\ processor' # "ended" /\ UNCHANGED <<failure, written, torn>>
    BY <2>0, <2>a, <2>4 DEF EndsComplete
  <2>5. CASE Receive \/ Count
    BY <2>4, <2>5 DEF Receive, Count
  <2>6. CASE ReceiveEnds
    BY <2>b, <2>2, <2>3, <2>6, OnlyWriteWrites DEF ReceiveEnds, Write
  <2>7. CASE WaitBlocks
    BY <2>b, <2>2, <2>4, <2>7 DEF WaitBlocks, Write
  <2>8. CASE Assemble
    BY <2>b, <2>2, <2>4, <2>8 DEF Assemble, Write
  <2>9. CASE WriteFails
    BY <2>b, <2>2, <2>9 DEF WriteFails, Write
  <2>. QED
    BY <1>3, <2>1, <2>5, <2>6, <2>7, <2>8, <2>9 DEF Processor
<1>4. ASSUME NEW b \in Block, BlockStep(b) PROVE EndsComplete'
  <2>1. UNCHANGED <<creator, next, processor, failure, written, torn>>
    BY <1>4
    DEF BlockStep, Launch, Resolve, FetchBlock, FetchFails, FetchWrong, RetryRange, BlockOther
  <2>. QED
    BY <2>1 DEF EndsComplete
<1>. QED
  BY <1>1, <1>2, <1>3, <1>4 DEF Next

\* Once both goroutines have ended nothing that the caller sees changes.
LEMMA ReturnedStays ==
  ASSUME BlockInv, Returned # "no", [Next]_vars
  PROVE  UNCHANGED <<creator, processor, failure>>
<1>1. creator = "ended" /\ processor = "ended"
  BY DEF Returned
<1>2. ASSUME NEW b \in Block, BlockStep(b) PROVE FALSE
  BY <1>1, <1>2
  DEF BlockStep, Launch, Resolve, FetchBlock, FetchFails, FetchWrong, RetryRange, BlockInv
<1>. QED
  BY <1>1, <1>2
  DEF Next, Cancel, Ended, Creator, CheckContext, CreateChunkDownload, SendChunkDownload,
      CreatorEnds, Processor, Receive, ReceiveEnds, WaitBlocks, Assemble, Write, WriteFails, Count

\* A position of a sequence with one more is one of it or the last.
LEMMA LastOrBefore ==
  ASSUME NEW n \in Nat, NEW i \in 1..(n + 1)
  PROVE  i \in 1..n \/ i = n + 1
  OBVIOUS

LEMMA ElementOf ==
  ASSUME NEW S, NEW s \in Seq(S), NEW i \in 1..Len(s)
  PROVE  s[i] \in S
  OBVIOUS

\* The chunks written, as FileDownload sees them.
Seen == [k \in DOMAIN written |-> written[k].chunk]

LEMMA OneMoreSeen ==
  ASSUME NEW e, written \in Seq([chunk : 0..NumChunks, right : BOOLEAN]),
         e \in [chunk : 0..NumChunks, right : BOOLEAN], written' = Append(written, e)
  PROVE  Seen' = Append(Seen, e.chunk) /\ Len(Seen) = Len(written)
<1>1. NumChunks \in Nat
  BY DownloadAssumption
<1>2. ASSUME NEW i \in 1..Len(written) PROVE written[i].chunk \in Nat
  <2>1. written[i] \in [chunk : 0..NumChunks, right : BOOLEAN]
    BY <1>2, ElementOf
  <2>2. written[i].chunk \in 0..NumChunks
    BY <2>1
  <2>. QED
    BY <1>1, <2>2
<1>3. Len(written) \in Nat /\ DOMAIN written = 1..Len(written)
  OBVIOUS
<1>4. Seen = [k \in 1..Len(written) |-> written[k].chunk]
  BY <1>3 DEF Seen
<1>5. Seen \in Seq(Nat) /\ Len(Seen) = Len(written)
  BY <1>2, <1>3, <1>4
<1>6. written' \in Seq([chunk : 0..NumChunks, right : BOOLEAN]) /\ Len(written') = Len(written) + 1
  BY OneMore
<1>7. DOMAIN written' = 1..(Len(written) + 1)
  BY <1>6
<1>8. Seen' = [k \in 1..(Len(written) + 1) |-> written'[k].chunk]
  BY <1>7 DEF Seen
<1>9. ASSUME NEW i \in 1..(Len(written) + 1) PROVE Seen'[i] = Append(Seen, e.chunk)[i]
  <2>1. CASE i \in 1..Len(written)
    <3>1. written'[i] = written[i]
      BY <2>1
    <3>2. Append(Seen, e.chunk)[i] = Seen[i]
      BY <1>5, <2>1
    <3>. QED
      BY <1>4, <1>8, <2>1, <3>1, <3>2
  <2>2. CASE i = Len(written) + 1
    <3>1. written'[i] = e
      BY <2>2
    <3>2. Append(Seen, e.chunk)[i] = e.chunk
      BY <1>5, <2>2
    <3>. QED
      BY <1>8, <3>1, <3>2
  <2>. QED
    BY <1>3, <2>1, <2>2, LastOrBefore
<1>10. e.chunk \in Nat
  BY <1>1
<1>11. Append(Seen, e.chunk) \in Seq(Nat) /\ Len(Append(Seen, e.chunk)) = Len(written) + 1
  BY <1>5, <1>10
<1>12. Append(Seen, e.chunk) = [k \in 1..(Len(written) + 1) |-> Append(Seen, e.chunk)[k]]
  BY <1>11
<1>. QED
  BY <1>5, <1>8, <1>9, <1>12

\* Every step is one of FileDownload, or changes nothing that the caller sees.
LEMMA PromiseStep ==
  ASSUME TypeOK, BlockInv, PromiseInv, PromiseInv', [Next]_vars
  PROVE  [Promise!Next]_Promise!vars
<1>a. NumChunks \in Nat
  BY DownloadAssumption
<1>b. written \in Seq([chunk : 0..NumChunks, right : BOOLEAN])
  BY DEF TypeOK, OutputType
<1>1. CASE UNCHANGED <<written, torn>> /\ Returned' = Returned
  BY <1>1 DEF Promise!vars
<1>2. CASE UNCHANGED <<written, torn>> /\ Returned' # Returned
  <2>1. Returned = "no"
    BY <1>2, ReturnedStays DEF Returned
  <2>2. Returned' \in {"success", "error"}
    BY <1>2, <2>1 DEF Returned
  <2>3. Returned' = "success" => Len(written) = NumChunks
    BY <1>2 DEF Returned, PromiseInv, EndsComplete
  <2>4. Len(Seen) = Len(written)
    <3>1. Len(written) \in Nat /\ Seen = [k \in 1..Len(written) |-> written[k].chunk]
      BY <1>b DEF Seen
    <3>. QED
      BY <3>1
  <2>5. Promise!Return
    BY <1>2, <2>1, <2>2, <2>3, <2>4 DEF Promise!Return, Seen
  <2>. QED
    BY <2>5 DEF Promise!Next
<1>3. CASE Write /\ ~UNCHANGED <<written, torn>>
  <2>1. Returned = "no" /\ Returned' = "no"
    BY <1>3 DEF Write, Returned
  <2>2. ~torn
    BY <1>3 DEF Write, PromiseInv, EndsComplete
  <2>3. chunk = Len(written) + 1 /\ chunk <= NumChunks
    <3>1. chunk = Taken /\ Taken = Len(written) + 1
      BY <1>3 DEF Write, PromiseInv, ChannelInOrder, Taken, InHand
    <3>. QED
      <4>1. chunk \in 0..NumChunks
        BY DEF TypeOK, ProcessorType
      <4>. QED
        BY <1>a, <3>1, <4>1
  <2>4. Len(Seen) = Len(written) /\ Len(written) \in Nat
    <3>1. Len(written) \in Nat /\ Seen = [k \in 1..Len(written) |-> written[k].chunk]
      BY <1>b DEF Seen
    <3>. QED
      BY <3>1
  <2>5. Len(written) < NumChunks
    BY <1>a, <2>3, <2>4
  <2>6. CASE written' = Append(written, [chunk |-> chunk, right |-> DataRight]) /\ UNCHANGED torn
    <3>1. DataRight \in BOOLEAN /\ chunk \in 0..NumChunks
      BY DEF DataRight, TypeOK, ProcessorType
    <3>2. [chunk |-> chunk, right |-> DataRight] \in [chunk : 0..NumChunks, right : BOOLEAN]
      BY <3>1
    <3>3. Seen' = Append(Seen, chunk)
      <4>1. Seen' = Append(Seen, [chunk |-> chunk, right |-> DataRight].chunk)
        BY <1>b, <2>6, <3>2, OneMoreSeen
      <4>. QED
        BY <4>1
    <3>4. Promise!WriteNext
      BY <2>1, <2>2, <2>3, <2>4, <2>5, <2>6, <3>3 DEF Promise!WriteNext, Seen
    <3>. QED
      BY <3>4 DEF Promise!Next
  <2>7. CASE UNCHANGED written /\ torn' = TRUE
    <3>1. Promise!WritePart
      BY <2>1, <2>2, <2>4, <2>5, <2>7 DEF Promise!WritePart, Seen
    <3>. QED
      BY <3>1 DEF Promise!Next
  <2>8. torn \in BOOLEAN
    BY DEF TypeOK, OutputType
  <2>9. torn' \in BOOLEAN /\ torn' # torn => torn' = TRUE
    BY <2>2, <2>8
  <2>. QED
    BY <1>3, <2>6, <2>7, <2>9 DEF Write
<1>. QED
  BY <1>1, <1>2, <1>3, OnlyWriteWrites

\* The downloads keep the promise of FileDownload: whatever goes wrong and whenever, chunks are
\* written once each and in order, and nil is returned only after the last of them.
THEOREM DownloadKeepsPromise == Spec => Promised
<1>1. Init => BlockInv /\ PromiseInv
  <2> SUFFICES ASSUME Init PROVE BlockInv /\ PromiseInv
    OBVIOUS
  <2>1. BlockInv
    BY DEF Init, BlockInv
  <2>2. ChannelInOrder /\ WrittenInOrder
    BY DEF Init, ChannelInOrder, WrittenInOrder, InHand, Taken
  <2>3. EndsComplete
    BY DEF Init, EndsComplete
  <2>. QED
    BY <2>1, <2>2, <2>3 DEF PromiseInv
<1>2. TypeOK /\ BlockInv /\ PromiseInv /\ [Next]_vars => BlockInv' /\ PromiseInv'
  BY BlockInvStep, ChannelInOrderStep, WrittenInOrderStep, EndsCompleteStep
  DEF TypeOK, PromiseInv
<1>3. Init => Promise!Init
  <2> SUFFICES ASSUME Init PROVE Promise!Init
    OBVIOUS
  <2>1. [k \in DOMAIN written |-> written[k].chunk] = <<>>
    BY DEF Init
  <2>. QED
    BY <2>1 DEF Init, Promise!Init, Returned
<1>4. TypeOK /\ BlockInv /\ PromiseInv /\ PromiseInv' /\ [Next]_vars => [Promise!Next]_Promise!vars
  BY PromiseStep
<1>. QED
  BY <1>1, <1>2, <1>3, <1>4, DownloadTypes, PTL DEF Spec, Promised, Promise!Spec
-----------------------------------------------------------------------------
(* The counters *)

Delivered == {b \in Block : fetch[b] = "ended"}

\* The blocks of n chunks.
BlocksOf(n) == n * NumBlocks

\* The goroutines of the chunk are started block by block.
InOrder == \E k \in Nat : Launched = 1..k

\* Chunks are counted right after they are written, and blocks as they arrive: those of the
\* chunks written, and of the chunk at hand those that have been delivered.
CounterInv ==
  /\ Len(written) = chunks + (IF processor = "count" THEN 1 ELSE 0)
  /\ processor \in {"receive", "count"} \/ (processor = "ended" /\ failure = "none") =>
       blocks = BlocksOf(Len(written))
  /\ processor = "fetch" => blocks = BlocksOf(Len(written)) + Cardinality(Delivered)
  /\ processor \in {"assemble", "write"} => blocks = BlocksOf(Len(written)) + NumBlocks

\* The goroutine that is started is the first that has not been.
LEMMA LaunchesFirstIdle ==
  ASSUME InOrder, NEW b \in Block, Launch(b)
  PROVE  fetch[b] = "idle" /\ \E k \in Nat : Launched = 1..k /\ b = k + 1
<1>1. PICK k \in Nat : Launched = 1..k
  BY DEF InOrder
<1>2. Cardinality(1..k) = k
  <2>1. Cardinality(1..k) = IF 1 > k THEN 0 ELSE k - 1 + 1
    BY FS_Interval
  <2>. QED
    BY <2>1
<1>3. b = k + 1
  BY <1>1, <1>2 DEF Launch
<1>4. b \notin Launched
  BY <1>1, <1>3
<1>. QED
  BY <1>1, <1>3, <1>4 DEF Launched

\* What is started remains so until the next chunk.
LEMMA InOrderStep ==
  ASSUME BlockType, InOrder, [Next]_vars
  PROVE  InOrder'
<1>1. CASE Launched' = Launched
  BY <1>1 DEF InOrder
<1>2. CASE Cancel \/ Ended \/ UNCHANGED vars
  <2>1. fetch' = fetch
    BY <1>2 DEF Cancel, Ended
  <2>. QED
    BY <1>1, <2>1 DEF Launched
<1>3. CASE Creator
  <2>1. fetch' = fetch
    BY <1>3
    DEF Creator, CheckContext, CreateChunkDownload, SendChunkDownload, CreatorEnds, CreatorOther
  <2>. QED
    BY <1>1, <2>1 DEF Launched
<1>4. CASE Receive
  <2>1. Launched' = 1..0
    BY <1>4 DEF Receive, Launched
  <2>. QED
    BY <2>1 DEF InOrder
<1>5. CASE Processor /\ ~Receive
  <2>1. fetch' = fetch
    BY <1>5 DEF Processor, ReceiveEnds, WaitBlocks, Assemble, Write, WriteFails, Count
  <2>. QED
    BY <1>1, <2>1 DEF Launched
<1>6. ASSUME NEW b \in Block, BlockStep(b) PROVE InOrder'
  <2>1. CASE Launch(b)
    <3>1. PICK k \in Nat : Launched = 1..k /\ b = k + 1
      BY <2>1, LaunchesFirstIdle
    <3>2. Launched' = Launched \union {b}
      BY <2>1 DEF Launch, Launched, BlockType
    <3>3. Launched' = 1..(k + 1)
      BY <3>1, <3>2
    <3>. QED
      BY <3>3 DEF InOrder
  <2>2. CASE ~Launch(b)
    <3>1. fetch' = fetch \/ \E s \in {"fetch", "failed", "ended"} :
            fetch[b] # "idle" /\ fetch' = [fetch EXCEPT ![b] = s]
      BY <1>6, <2>2
      DEF BlockStep, Resolve, FetchBlock, FetchFails, FetchWrong, RetryRange, VerifyWrong, BlockFails,
          Deliver
    <3>. QED
      BY <1>1, <3>1 DEF Launched, BlockType
  <2>. QED
    BY <2>1, <2>2
<1>. QED
  BY <1>2, <1>3, <1>4, <1>5, <1>6 DEF Next

LEMMA BlocksOfNext ==
  ASSUME NEW n \in Nat
  PROVE  BlocksOf(0) = 0 /\ BlocksOf(n) \in Nat /\ BlocksOf(n + 1) = BlocksOf(n) + NumBlocks
<1>1. NumBlocks \in Nat
  BY DownloadAssumption
<1>. QED
  BY <1>1 DEF BlocksOf

LEMMA BlockFinite == IsFiniteSet(Block) /\ Cardinality(Block) = NumBlocks
<1>1. NumBlocks \in Nat /\ 1 \in Int /\ NumBlocks \in Int
  BY DownloadAssumption
<1>2. IsFiniteSet(1..NumBlocks)
        /\ Cardinality(1..NumBlocks) = IF 1 > NumBlocks THEN 0 ELSE NumBlocks - 1 + 1
  BY <1>1, FS_Interval
<1>. QED
  BY <1>1, <1>2, DownloadAssumption DEF Block

\* A block that is delivered is one more.
LEMMA OneMoreDelivered ==
  ASSUME BlockType, NEW b \in Block, fetch[b] # "ended", fetch' = [fetch EXCEPT ![b] = "ended"]
  PROVE  Cardinality(Delivered') = Cardinality(Delivered) + 1 /\ Cardinality(Delivered) \in Nat
<1>1. Delivered' = Delivered \union {b} /\ b \notin Delivered
  BY DEF Delivered, BlockType
<1>2. IsFiniteSet(Delivered)
  BY BlockFinite, FS_Subset DEF Delivered
<1>. QED
  BY <1>1, <1>2, FS_AddElement, FS_CardinalityType

\* The invariant speaks of nothing that these steps change.
LEMMA CounterKept ==
  ASSUME CounterInv,
         UNCHANGED <<written, chunks, processor, blocks>>, Delivered' = Delivered,
         failure' = "none" => failure = "none"
  PROVE  CounterInv'
<1> USE DEF CounterInv
<1>. QED
  OBVIOUS

\* A goroutine of a block counts it when it has delivered it.
LEMMA CounterBlockStep ==
  ASSUME BlockType, OutputType, BlockInv, InOrder, CounterInv, NEW b \in Block, BlockStep(b)
  PROVE  CounterInv'
<1>1. UNCHANGED <<written, chunks, processor, failure>>
  BY DEF BlockStep, Launch, Resolve, FetchBlock, FetchFails, FetchWrong, RetryRange, BlockOther
<1>2. CASE Deliver(b) /\ fetch[b] = "fetch"
  <2>1. fetch' = [fetch EXCEPT ![b] = "ended"] /\ blocks' = blocks + 1
    BY <1>2 DEF Deliver
  <2>2. Cardinality(Delivered') = Cardinality(Delivered) + 1 /\ Cardinality(Delivered) \in Nat
    BY <1>2, <2>1, OneMoreDelivered
  <2>3. processor = "fetch"
    BY <1>2 DEF BlockInv
  <2>4. blocks = BlocksOf(Len(written)) + Cardinality(Delivered)
    BY <2>3 DEF CounterInv
  <2>5. BlocksOf(Len(written)) \in Nat
    <3>1. Len(written) \in Nat
      BY DEF OutputType
    <3>. QED
      BY <3>1, BlocksOfNext
  <2>6. blocks' = BlocksOf(Len(written)) + Cardinality(Delivered')
    BY <2>1, <2>2, <2>4, <2>5
  <2>7. Len(written) = chunks
    BY <2>3 DEF CounterInv, OutputType
  <2>8. chunks = chunks + 0
    BY DEF OutputType
  <2>. QED
    BY <1>1, <2>3, <2>6, <2>7, <2>8 DEF CounterInv
<1>3. CASE UNCHANGED blocks /\ \E s \in {"resolve", "fetch", "failed"} :
             fetch[b] # "ended" /\ fetch' = [fetch EXCEPT ![b] = s]
  <2>1. Delivered' = Delivered
    BY <1>3 DEF Delivered, BlockType
  <2>. QED
    BY <1>1, <1>3, <2>1, CounterKept
<1>4. CASE UNCHANGED <<blocks, fetch>>
  <2>1. Delivered' = Delivered
    BY <1>4 DEF Delivered
  <2>. QED
    BY <1>1, <1>4, <2>1, CounterKept
<1>5. CASE Launch(b)
  <2>2. fetch[b] # "ended"
    BY <1>5, LaunchesFirstIdle
  <2>. QED
    BY <1>3, <1>5, <2>2 DEF Launch
<1>6. CASE ~Launch(b)
  BY <1>2, <1>3, <1>4, <1>6
  DEF BlockStep, Resolve, FetchBlock, FetchFails, FetchWrong, RetryRange, VerifyWrong, BlockFails
<1>. QED
  BY <1>5, <1>6

\* When the goroutines of a chunk have ended without an error, all blocks have been delivered.
LEMMA AllDelivered ==
  ASSUME BlockType, BlockInv, Launched = Block, Running = {}, ~blockErr
  PROVE  Cardinality(Delivered) = NumBlocks
<1>1. ASSUME NEW b \in Block PROVE fetch[b] = "ended"
  <2>1. fetch[b] \in FetchState
    BY DEF BlockType
  <2>2. fetch[b] # "idle" /\ fetch[b] \notin {"resolve", "fetch"} /\ fetch[b] # "failed"
    BY DEF Launched, Running, BlockInv
  <2>. QED
    BY <2>1, <2>2 DEF FetchState
<1>2. Delivered = Block
  BY <1>1 DEF Delivered
<1>. QED
  BY <1>2, BlockFinite

\* The processor counts a chunk when it has written it.
LEMMA CounterProcessorStep ==
  ASSUME TypeOK, BlockInv, CounterInv, Processor
  PROVE  CounterInv'
<1>a. written \in Seq([chunk : 0..NumChunks, right : BOOLEAN]) /\ chunks \in Nat /\ blocks \in Nat
  BY DEF TypeOK, OutputType
<1>b. Len(written) \in Nat /\ BlocksOf(Len(written)) \in Nat
  BY <1>a, BlocksOfNext
<1>c. processor # "count" => Len(written) = chunks
  BY <1>a DEF CounterInv
<1>1. CASE Receive
  <2>1. /\ processor = "receive" /\ processor' = "fetch" /\ UNCHANGED <<written, chunks, blocks>>
        /\ Delivered' = {}
    BY <1>1 DEF Receive, Delivered
  <2>2. Cardinality(Delivered') = 0
    BY <2>1, FS_EmptySet
  <2>3. blocks = BlocksOf(Len(written)) + 0
    BY <1>b, <2>1 DEF CounterInv
  <2>4. Len(written) = chunks + 0
    BY <1>a, <1>c, <2>1
  <2>. QED
    BY <2>1, <2>2, <2>3, <2>4 DEF CounterInv
<1>2. CASE processor # "count" /\ processor' = "ended" /\ UNCHANGED <<written, chunks, blocks>>
           /\ (failure' = "none" => processor = "receive")
  <2>1. failure' = "none" => blocks = BlocksOf(Len(written))
    BY <1>2 DEF CounterInv
  <2>2. Len(written) = chunks + 0
    BY <1>a, <1>c, <1>2
  <2>. QED
    BY <1>2, <2>1, <2>2 DEF CounterInv
<1>3. ASSUME NEW e \in {"ctx", "block", "data", "write"}, ProcessorFails(e), processor # "count",
             UNCHANGED <<written, chunks, blocks>>
      PROVE  CounterInv'
  <2>1. processor' = "ended" /\ failure' # "none"
    BY <1>3 DEF ProcessorFails, Fail
  <2>. QED
    BY <1>2, <1>3, <2>1
<1>4. CASE ReceiveEnds
  BY <1>2, <1>3, <1>4 DEF ReceiveEnds
<1>5. CASE WaitBlocks /\ processor' = "assemble"
  <2>1. Cardinality(Delivered) = NumBlocks
    <3>1. Launched = Block /\ Running = {} /\ ~blockErr
      BY <1>5 DEF WaitBlocks, ProcessorFails
    <3>. QED
      BY <3>1, AllDelivered DEF TypeOK
  <2>2. processor = "fetch" /\ UNCHANGED <<written, chunks, blocks>>
    BY <1>5 DEF WaitBlocks
  <2>3. blocks = BlocksOf(Len(written)) + NumBlocks
    BY <2>1, <2>2 DEF CounterInv
  <2>4. Len(written) = chunks + 0
    BY <1>a, <1>c, <2>2
  <2>. QED
    BY <1>5, <2>2, <2>3, <2>4 DEF CounterInv
<1>6. CASE WaitBlocks
  BY <1>3, <1>5, <1>6 DEF WaitBlocks
<1>7. CASE Assemble
  <2>1. processor = "assemble" /\ UNCHANGED <<written, chunks, blocks>>
    BY <1>7 DEF Assemble
  <2>2. CASE processor' = "write"
    <3>1. blocks = BlocksOf(Len(written)) + NumBlocks /\ Len(written) = chunks + 0
      BY <1>a, <1>c, <2>1 DEF CounterInv
    <3>. QED
      BY <2>1, <2>2, <3>1 DEF CounterInv
  <2>. QED
    BY <1>3, <1>7, <2>1, <2>2 DEF Assemble
<1>8. CASE Write
  <2>1. processor = "write" /\ UNCHANGED <<chunks, blocks>>
    BY <1>8 DEF Write
  <2>2. blocks = BlocksOf(Len(written)) + NumBlocks
    BY <2>1 DEF CounterInv
  <2>3. Len(written) = chunks
    BY <1>c, <2>1
  <2>4. CASE processor' = "count" /\ written' = Append(written, [chunk |-> chunk, right |-> DataRight])
    <3>1. Len(written') = Len(written) + 1
      BY <1>a, <2>4
    <3>2. blocks' = BlocksOf(Len(written'))
      BY <1>b, <2>1, <2>2, <3>1, BlocksOfNext
    <3>3. Len(written') = chunks' + 1
      BY <2>1, <2>3, <3>1
    <3>. QED
      BY <2>4, <3>2, <3>3 DEF CounterInv
  <2>5. CASE processor' = "write failed" /\ UNCHANGED written
    <3>1. Len(written') = chunks' + 0
      <4>1. Len(written) = chunks + 0
        BY <1>a, <2>3
      <4>. QED
        BY <2>1, <2>5, <4>1, Zenon
    <3>. QED
      BY <2>5, <3>1 DEF CounterInv
  <2>. QED
    BY <1>8, <2>4, <2>5 DEF Write
<1>9. CASE WriteFails
  BY <1>3, <1>9 DEF WriteFails
<1>10. CASE Count
  <2>1. processor = "count" /\ processor' = "receive" /\ chunks' = chunks + 1 /\ UNCHANGED <<written, blocks>>
    BY <1>10 DEF Count
  <2>2. Len(written) = chunks + 1 /\ blocks = BlocksOf(Len(written))
    BY <2>1 DEF CounterInv
  <2>3. Len(written') = chunks' + 0
    BY <1>a, <2>1, <2>2
  <2>. QED
    BY <2>1, <2>2, <2>3 DEF CounterInv
<1>. QED
  BY <1>1, <1>4, <1>6, <1>7, <1>8, <1>9, <1>10 DEF Processor

LEMMA CounterStep ==
  ASSUME TypeOK, BlockInv, InOrder, CounterInv, [Next]_vars
  PROVE  CounterInv'
<1>1. CASE Cancel \/ Ended \/ UNCHANGED vars
  <2>1. UNCHANGED <<written, chunks, processor, blocks, fetch, failure>>
    BY <1>1 DEF Cancel, Ended
  <2>2. Delivered' = Delivered
    BY <2>1 DEF Delivered
  <2>. QED
    BY <2>1, <2>2, CounterKept
<1>2. CASE Creator
  <2>1. UNCHANGED <<written, chunks, processor, blocks, fetch>> /\ (failure' = "none" => failure = "none")
    BY <1>2
    DEF Creator, CheckContext, CreateChunkDownload, SendChunkDownload, CreatorEnds, CreatorOther,
        CreatorFails, Fail
  <2>2. Delivered' = Delivered
    BY <2>1 DEF Delivered
  <2>. QED
    BY <2>1, <2>2, CounterKept
<1>. QED
  BY <1>1, <1>2, CounterProcessorStep, CounterBlockStep DEF Next, TypeOK

\* A successful call has counted every chunk and every block of the file once, and the counter
\* of chunks is behind the writes by no more than one at any time.
THEOREM DownloadCountsAgree == Spec => []CountersAgree
<1>1. Init => BlockInv /\ PromiseInv /\ InOrder /\ CounterInv
  <2> SUFFICES ASSUME Init PROVE BlockInv /\ PromiseInv /\ InOrder /\ CounterInv
    OBVIOUS
  <2>1. BlockInv
    BY DEF Init, BlockInv
  <2>2. PromiseInv
    BY DEF Init, PromiseInv, ChannelInOrder, WrittenInOrder, EndsComplete, InHand, Taken
  <2>3. InOrder
    <3>1. Launched = 1..0
      BY DEF Init, Launched
    <3>. QED
      BY <3>1 DEF InOrder
  <2>4. CounterInv
    <3>1. Len(written) = 0 /\ BlocksOf(0) = 0
      BY BlocksOfNext DEF Init
    <3>. QED
      BY <3>1 DEF Init, CounterInv
  <2>. QED
    BY <2>1, <2>2, <2>3, <2>4
<1>2. TypeOK /\ BlockInv /\ PromiseInv /\ InOrder /\ CounterInv /\ [Next]_vars
      => BlockInv' /\ PromiseInv' /\ InOrder' /\ CounterInv'
  BY BlockInvStep, ChannelInOrderStep, WrittenInOrderStep, EndsCompleteStep, InOrderStep, CounterStep
  DEF TypeOK, PromiseInv
<1>3. TypeOK /\ PromiseInv /\ CounterInv => CountersAgree
  <2> SUFFICES ASSUME TypeOK, PromiseInv, CounterInv PROVE CountersAgree
    OBVIOUS
  <2>1. chunks \in Nat /\ Len(written) = chunks + (IF processor = "count" THEN 1 ELSE 0)
    BY DEF TypeOK, OutputType, CounterInv
  <2>2. ASSUME Returned = "success"
        PROVE  chunks = NumChunks /\ blocks = NumChunks * NumBlocks
    <3>1. processor = "ended" /\ failure = "none"
      BY <2>2 DEF Returned
    <3>2. Len(written) = NumChunks
      BY <3>1 DEF PromiseInv, EndsComplete
    <3>3. blocks = BlocksOf(Len(written))
      BY <3>1 DEF CounterInv
    <3>. QED
      BY <2>1, <3>1, <3>2, <3>3 DEF BlocksOf
  <2>. QED
    BY <2>1, <2>2 DEF CountersAgree
<1>. QED
  BY <1>1, <1>2, <1>3, DownloadTypes, PTL DEF Spec

-----------------------------------------------------------------------------
(* ArchivalMetadata: the answers in the channel, and the list *)

Pair == [cid : Nat \X Nat, pdp : BOOLEAN]
Answer == [pos : Nat, cid : Nat \X Nat, pdp : BOOLEAN]

MetaTypeInv ==
  /\ pc \in {"ask", "launch", "gather", "success", "error"}
  /\ task \in [Position -> {"idle", "running", "ended"}]
  /\ failed \in BOOLEAN /\ ch \in Seq(Answer) /\ result \in Seq([Position -> Pair])

\* The answer for a block of the chunk the loop is at, and whether the channel has it.
AnswerFor(b) == [pos |-> b, cid |-> <<At, b>>, pdp |-> <<At, b>> \in archived]
Answered(b) == \E k \in DOMAIN ch : ch[k] = AnswerFor(b)

\* What is in the channel are answers for blocks of that chunk, of every block whose goroutine
\* has ended unless one has failed.
AnswersInv ==
  pc \in {"launch", "gather"} =>
    /\ \A k \in DOMAIN ch : \E b \in Position : ch[k] = AnswerFor(b)
    /\ \A b \in Position : ~failed /\ task[b] = "ended" => Answered(b)

\* The answers are listed when every goroutine has ended and none has failed.
GatherInv == pc = "gather" => ~failed /\ \A b \in Position : task[b] = "ended"

MetaInv == MetaTypeInv /\ AnswersInv /\ GatherInv /\ ListedInPlace
-----------------------------------------------------------------------------
LEMMA AnswerType == MetaTypeInv => \A b \in Position : AnswerFor(b) \in Answer
<1>. SUFFICES ASSUME MetaTypeInv, NEW b \in Position PROVE AnswerFor(b) \in Answer
  OBVIOUS
<1>1. At \in Nat /\ b \in Nat
  BY DEF MetaTypeInv, At, Position
<1>. QED
  BY <1>1 DEF AnswerFor, Answer

\* The answers are put where they belong, in whichever order they came.
LEMMA EachListed ==
  ASSUME MetaTypeInv, AnswersInv, GatherInv, pc = "gather"
  PROVE  Listed = [b \in Position |-> [cid |-> <<At, b>>, pdp |-> <<At, b>> \in archived]]
<1>1. ASSUME NEW b \in Position
      PROVE  (CHOOSE r \in Range(ch) : r.pos = b) = AnswerFor(b)
  <2>1. AnswerFor(b) \in Range(ch) /\ AnswerFor(b).pos = b
    <3>1. Answered(b)
      BY DEF AnswersInv, GatherInv
    <3>. QED
      BY <3>1 DEF Answered, Range, AnswerFor
  <2>2. ASSUME NEW r \in Range(ch), r.pos = b
        PROVE  r = AnswerFor(b)
    <3>1. PICK a \in Position : r = AnswerFor(a)
      BY DEF AnswersInv, Range
    <3>2. a = b
      BY <2>2, <3>1 DEF AnswerFor
    <3>. QED
      BY <3>1, <3>2
  <2>. QED
    BY <2>1, <2>2
<1>2. ASSUME NEW b \in Position
      PROVE  AnswerFor(b).cid = <<At, b>> /\ AnswerFor(b).pdp = (<<At, b>> \in archived)
  BY DEF AnswerFor
<1>. QED
  BY <1>1, <1>2 DEF Listed

\* A step that leaves the channel and the list alone leaves the answers in it alone.
LEMMA AnswersKept ==
  ASSUME UNCHANGED <<archived, ch, result>>
  PROVE  \A b : AnswerFor(b)' = AnswerFor(b) /\ Answered(b)' = Answered(b)
  BY DEF AnswerFor, Answered, At

LEMMA EmptyChannel == <<>> \in Seq(Answer)
  OBVIOUS

LEMMA MetaInvInit == MetaInit => MetaInv
<1>. SUFFICES ASSUME MetaInit PROVE MetaInv
  OBVIOUS
<1>1. pc = "ask" /\ task = [b \in Position |-> "idle"] /\ failed = FALSE /\ ch = <<>> /\ result = <<>>
  BY DEF MetaInit
<1>2. result \in Seq([Position -> Pair]) /\ DOMAIN result = {}
  BY <1>1
<1>3. ch \in Seq(Answer)
  BY <1>1, EmptyChannel
<1>4. MetaTypeInv
  BY <1>1, <1>2, <1>3 DEF MetaTypeInv
<1>5. AnswersInv /\ GatherInv /\ ListedInPlace
  BY <1>1, <1>2 DEF AnswersInv, GatherInv, ListedInPlace
<1>. QED
  BY <1>4, <1>5 DEF MetaInv

LEMMA ResolveStep ==
  ASSUME MetaInv, NEW b \in Position, ResolvePDP(b)
  PROVE  MetaInv'
<1>. DEFINE r == AnswerFor(b)
<1>1. MetaTypeInv /\ AnswersInv /\ GatherInv /\ ListedInPlace
  BY DEF MetaInv
<1>2. /\ task[b] = "running" /\ task' = [task EXCEPT ![b] = "ended"] /\ ch' = Append(ch, r)
      /\ UNCHANGED <<archived, pc, failed, result>>
  BY DEF ResolvePDP, AnswerFor
<1>3. r \in Answer /\ ch \in Seq(Answer)
  BY <1>1, AnswerType DEF MetaTypeInv
<1>. HIDE DEF r
<1>4. /\ ch' \in Seq(Answer) /\ DOMAIN ch' = DOMAIN ch \union {Len(ch) + 1}
      /\ ch'[Len(ch) + 1] = r /\ \A k \in DOMAIN ch : ch'[k] = ch[k]
  BY <1>2, <1>3
<1>5. \A a : AnswerFor(a)' = AnswerFor(a)
  BY <1>2 DEF AnswerFor, At
<1>6. MetaTypeInv'
  BY <1>1, <1>2, <1>4 DEF MetaTypeInv
<1>7. GatherInv' /\ ListedInPlace'
  BY <1>1, <1>2 DEF GatherInv, ListedInPlace, MetaTypeInv
<1>8. AnswersInv'
  <2>. SUFFICES ASSUME pc \in {"launch", "gather"}
                PROVE  /\ \A k \in DOMAIN ch' : \E a \in Position : ch'[k] = AnswerFor(a)
                       /\ \A a \in Position : ~failed /\ task'[a] = "ended" =>
                            \E k \in DOMAIN ch' : ch'[k] = AnswerFor(a)
    BY <1>2, <1>5 DEF AnswersInv, Answered
  <2>1. \A k \in DOMAIN ch' : \E a \in Position : ch'[k] = AnswerFor(a)
    BY <1>1, <1>4 DEF AnswersInv, r
  <2>2. ASSUME NEW a \in Position, ~failed, task'[a] = "ended"
        PROVE  \E k \in DOMAIN ch' : ch'[k] = AnswerFor(a)
    <3>1. CASE a = b
      BY <1>4, <3>1 DEF r
    <3>2. CASE a # b
      <4>1. task[a] = "ended"
        BY <1>1, <1>2, <2>2, <3>2 DEF MetaTypeInv
      <4>2. PICK k \in DOMAIN ch : ch[k] = AnswerFor(a)
        BY <1>1, <2>2, <4>1 DEF AnswersInv, Answered
      <4>. QED
        BY <1>4, <4>2
    <3>. QED
      BY <3>1, <3>2
  <2>. QED
    BY <2>1, <2>2
<1>. QED
  BY <1>6, <1>7, <1>8 DEF MetaInv

LEMMA GatherStep ==
  ASSUME MetaInv, Gather
  PROVE  MetaInv'
<1>1. MetaTypeInv /\ AnswersInv /\ GatherInv /\ ListedInPlace
  BY DEF MetaInv
<1>2. /\ pc = "gather" /\ pc' = "ask" /\ result' = Append(result, Listed)
      /\ UNCHANGED <<archived, task, failed, ch>>
  BY DEF Gather
<1>3. Listed = [b \in Position |-> [cid |-> <<At, b>>, pdp |-> <<At, b>> \in archived]]
  BY <1>1, <1>2, EachListed
<1>4. Listed \in [Position -> Pair]
  <2>1. At \in Nat /\ Position \subseteq Nat
    BY <1>1 DEF MetaTypeInv, At, Position
  <2>. QED
    BY <1>3, <2>1 DEF Pair
<1>5. result \in Seq([Position -> Pair])
  BY <1>1 DEF MetaTypeInv
<1>6. /\ result' \in Seq([Position -> Pair]) /\ DOMAIN result' = DOMAIN result \union {At}
      /\ result'[At] = Listed /\ \A c \in DOMAIN result : result'[c] = result[c]
  BY <1>2, <1>4, <1>5 DEF At
<1>7. MetaTypeInv'
  BY <1>1, <1>2, <1>6 DEF MetaTypeInv
<1>8. AnswersInv' /\ GatherInv'
  BY <1>2 DEF AnswersInv, GatherInv
<1>9. ListedInPlace'
  <2>1. ASSUME NEW c \in DOMAIN result', NEW b \in Position
        PROVE  result'[c][b] = [cid |-> <<c, b>>, pdp |-> <<c, b>> \in archived]
    <3>1. CASE c = At
      BY <1>3, <1>6, <3>1
    <3>2. CASE c \in DOMAIN result
      BY <1>1, <1>6, <3>2 DEF ListedInPlace
    <3>. QED
      BY <1>6, <3>1, <3>2
  <2>. QED
    BY <1>2, <2>1 DEF ListedInPlace
<1>. QED
  BY <1>7, <1>8, <1>9 DEF MetaInv

\* The other steps leave the list alone, and the channel or clear it.
LEMMA OtherMetaStep ==
  ASSUME MetaInv,
         AskChunk \/ WaitResolved \/ Succeed \/ UNCHANGED metaVars
           \/ (\E b \in Position : Ask(b) \/ ResolvePDPFails(b))
  PROVE  MetaInv'
<1>1. MetaTypeInv /\ AnswersInv /\ GatherInv /\ ListedInPlace
  BY DEF MetaInv
<1>2. UNCHANGED <<archived, result>>
  BY DEF AskChunk, WaitResolved, Succeed, Ask, ResolvePDPFails, metaVars
<1>3. ListedInPlace'
  BY <1>1, <1>2 DEF ListedInPlace
<1>4. CASE AskChunk
  <2>1. /\ pc' \in {"launch", "error"} /\ ch' = <<>> /\ failed' = FALSE
        /\ task' = [b \in Position |-> "idle"]
    BY <1>4 DEF AskChunk
  <2>2. MetaTypeInv' /\ GatherInv'
    BY <1>1, <1>2, <2>1, EmptyChannel DEF MetaTypeInv, GatherInv
  <2>3. AnswersInv'
    BY <2>1 DEF AnswersInv
  <2>. QED
    BY <1>3, <2>2, <2>3 DEF MetaInv
<1>5. ASSUME NEW b \in Position, Ask(b)
      PROVE  MetaInv'
  <2>1. pc = "launch" /\ task' = [task EXCEPT ![b] = "running"] /\ UNCHANGED <<pc, failed, ch>>
    BY <1>5 DEF Ask
  <2>2. MetaTypeInv' /\ GatherInv'
    BY <1>1, <1>2, <2>1 DEF MetaTypeInv, GatherInv
  <2>3. AnswersInv'
    BY <1>1, <1>2, <2>1, AnswersKept DEF AnswersInv, MetaTypeInv
  <2>. QED
    BY <1>3, <2>2, <2>3 DEF MetaInv
<1>6. ASSUME NEW b \in Position, ResolvePDPFails(b)
      PROVE  MetaInv'
  <2>1. task[b] = "running" /\ task' = [task EXCEPT ![b] = "ended"] /\ failed' = TRUE /\ UNCHANGED <<pc, ch>>
    BY <1>6 DEF ResolvePDPFails
  <2>2. MetaTypeInv' /\ GatherInv'
    BY <1>1, <1>2, <2>1 DEF MetaTypeInv, GatherInv
  <2>3. AnswersInv'
    BY <1>1, <1>2, <2>1, AnswersKept DEF AnswersInv
  <2>. QED
    BY <1>3, <2>2, <2>3 DEF MetaInv
<1>7. CASE WaitResolved
  <2>1. /\ pc = "launch" /\ pc' = (IF failed THEN "error" ELSE "gather") /\ UNCHANGED <<task, failed, ch>>
        /\ \A b \in Position : task[b] = "ended"
    BY <1>7 DEF WaitResolved
  <2>2. MetaTypeInv' /\ GatherInv'
    BY <1>1, <1>2, <2>1 DEF MetaTypeInv, GatherInv
  <2>3. AnswersInv'
    BY <1>1, <1>2, <2>1, AnswersKept DEF AnswersInv
  <2>. QED
    BY <1>3, <2>2, <2>3 DEF MetaInv
<1>8. CASE Succeed \/ UNCHANGED metaVars
  <2>1. (pc' = "success" \/ pc' = pc) /\ UNCHANGED <<task, failed, ch>>
    BY <1>8 DEF Succeed, metaVars
  <2>2. MetaTypeInv' /\ GatherInv'
    BY <1>1, <1>2, <2>1 DEF MetaTypeInv, GatherInv
  <2>3. AnswersInv'
    BY <1>1, <1>2, <2>1, AnswersKept DEF AnswersInv
  <2>. QED
    BY <1>3, <2>2, <2>3 DEF MetaInv
<1>. QED
  BY <1>4, <1>5, <1>6, <1>7, <1>8

LEMMA MetaInvNext == MetaInv /\ [MetaNext]_metaVars => MetaInv'
<1>. SUFFICES ASSUME MetaInv, [MetaNext]_metaVars PROVE MetaInv'
  OBVIOUS
<1>. QED
  BY ResolveStep, GatherStep, OtherMetaStep DEF MetaNext, MetaEnded

\* ArchivalMetadata lists every block at its position, with PDP data exactly when a provider
\* has it, in whichever order the providers answer, for every number of chunks and blocks.
THEOREM BlocksListedInPlace == MetaSpec => []ListedInPlace
<1>1. MetaInv => ListedInPlace
  BY DEF MetaInv
<1>. QED
  BY <1>1, MetaInvInit, MetaInvNext, PTL DEF MetaSpec
=============================================================================
