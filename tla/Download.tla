------------------------------- MODULE Download ------------------------------
(***************************************************************************)
(* Download, Download2 and DownloadArchival: one goroutine creates the     *)
(* downloads of the chunks, another takes them off a channel and, chunk    *)
(* by chunk, fetches the blocks with at most MaxConcurrency goroutines,    *)
(* puts them in order, recovers the data and writes it.  The three calls   *)
(* differ in where a block comes from: from a node, or from a PDP provider *)
(* that a node knows, with retries and with a check of the block's CID.    *)
(***************************************************************************)
EXTENDS Naturals, Sequences, FiniteSets

CONSTANTS
  NumChunks,       \* chunks of the file, or of the range of it
  RangeStart,      \* index in the file of the first of them
  NumBlocks,       \* blocks of a chunk
  MaxConcurrency,  \* maxConcurrency
  ChunkBuffer,     \* chunkBuffer
  MaxAttempts,     \* withRetry.MaxAttempts
  Archival,        \* whether this is DownloadArchival
  Sealed,          \* whether the chunks are encrypted
  ParityBlocks,    \* parity blocks of a chunk, 0 without erasure coding
  MaxFaults        \* answers that are not what they should be, at most

ASSUME DownloadAssumption ==
  /\ {NumChunks, RangeStart, ChunkBuffer, MaxAttempts, ParityBlocks, MaxFaults} \subseteq Nat
  /\ {NumBlocks, MaxConcurrency} \subseteq Nat \ {0}
  /\ {Archival, Sealed} \subseteq BOOLEAN

Chunk == 1..NumChunks
Block == 1..NumBlocks

VARIABLES
  ctx,        \* the context of the errgroup: "live" or "done"
  caller,     \* the caller's context
  failure,    \* the error the errgroup keeps, the first one, or "none"
  creator,    \* "check", "create", "send" or "ended"
  next,       \* the chunk the creator is at
  queue,      \* chunkDownloadCh
  processor,  \* "receive", "fetch", "assemble", "write", "write failed", "count" or "ended"
  chunk,      \* the chunk the processor is at
  chunkCtx,   \* the context of the chunk's errgroup
  blockErr,   \* that errgroup has an error
  fetch,      \* state of the goroutine of every block
  attempts,   \* answers of the PDP provider that were transient errors, by block
  arrived,    \* what is in ch: positions of blocks, as they came
  good,       \* positions whose data is that of the block
  written,    \* chunks written to the writer, and whether with the right data
  torn,       \* the last write was cut short
  blocks,     \* blocksCounter
  chunks,     \* chunksCounter
  faults      \* MaxFaults counts down

groupVars == <<ctx, caller, failure>>
creatorVars == <<creator, next>>
chunkVars == <<chunk, chunkCtx, blockErr, fetch, attempts, arrived, good>>
outputVars == <<written, torn, chunks>>
vars == <<groupVars, creatorVars, queue, processor, chunkVars, outputVars, blocks, faults>>

Init ==
  /\ ctx = "live" /\ caller = "live" /\ failure = "none"
  /\ creator = "check" /\ next = 1 /\ queue = <<>>
  /\ processor = "receive" /\ chunk = 0 /\ chunkCtx = "done" /\ blockErr = FALSE
  /\ fetch = [b \in Block |-> "idle"] /\ attempts = [b \in Block |-> 0]
  /\ arrived = <<>> /\ good = {}
  /\ written = <<>> /\ torn = FALSE
  /\ blocks = 0 /\ chunks = 0 /\ faults = MaxFaults

\* A goroutine of the errgroup returns an error: the first one is kept and ends the contexts.
Fail(e) ==
  /\ failure' = IF failure = "none" THEN e ELSE failure
  /\ ctx' = "done"
  /\ UNCHANGED caller

Fault == faults > 0 /\ faults' = faults - 1
-----------------------------------------------------------------------------
(* The caller may give up at any time.                                     *)

Cancel ==
  /\ caller = "live"
  /\ caller' = "done" /\ ctx' = "done" /\ chunkCtx' = "done"
  /\ UNCHANGED <<failure, creatorVars, queue, processor, chunk, blockErr, fetch, attempts,
                 arrived, good, outputVars, blocks, faults>>
-----------------------------------------------------------------------------
(* The goroutine that creates the chunk downloads.                         *)

CreatorOther == UNCHANGED <<processor, chunk, blockErr, fetch, attempts, arrived, good, outputVars, blocks>>

CreatorFails(e) == Fail(e) /\ chunkCtx' = "done" /\ creator' = "ended" /\ UNCHANGED <<next, queue>>

CheckContext ==
  /\ creator = "check" /\ next <= NumChunks
  /\ \/ ctx = "done" /\ CreatorFails("ctx")
     \/ ctx = "live" /\ creator' = "create" /\ UNCHANGED <<groupVars, chunkCtx, next, queue>>
  /\ UNCHANGED faults /\ CreatorOther

\* createChunkDownload; a request whose context has ended may still have been answered.
CreateChunkDownload ==
  /\ creator = "create"
  /\ \/ creator' = "send" /\ UNCHANGED <<groupVars, chunkCtx, next, queue, faults>>
     \/ ctx = "done" /\ CreatorFails("ctx") /\ UNCHANGED faults
     \/ Fault /\ CreatorFails("create")
  /\ CreatorOther

\* A send on a channel without a buffer needs the receiver at its receive.
CanSend == Len(queue) < ChunkBuffer \/ (ChunkBuffer = 0 /\ queue = <<>> /\ processor = "receive")

SendInAnyCase ==   \* mutant: does not watch the context
  /\ creator = "send" /\ CanSend
  /\ queue' = Append(queue, next) /\ next' = next + 1 /\ creator' = "check"
  /\ UNCHANGED <<groupVars, chunkCtx, faults>> /\ CreatorOther

SendChunkDownload ==
  /\ creator = "send"
  /\ \/ ctx = "done" /\ CreatorFails("ctx")
     \/ CanSend /\ queue' = Append(queue, next) /\ next' = next + 1 /\ creator' = "check"
                /\ UNCHANGED <<groupVars, chunkCtx>>
  /\ UNCHANGED faults /\ CreatorOther

\* The channel is closed, here and when the creator fails.
CreatorEnds ==
  /\ creator = "check" /\ next > NumChunks
  /\ creator' = "ended"
  /\ UNCHANGED <<groupVars, chunkCtx, next, queue, faults>> /\ CreatorOther
-----------------------------------------------------------------------------
(* The goroutine that downloads the chunks.                                *)

Receive ==
  /\ processor = "receive" /\ queue # <<>>
  /\ chunk' = Head(queue) /\ queue' = Tail(queue)
  /\ processor' = "fetch" /\ chunkCtx' = ctx /\ blockErr' = FALSE
  /\ fetch' = [b \in Block |-> "idle"] /\ attempts' = [b \in Block |-> 0]
  /\ arrived' = <<>> /\ good' = {}
  /\ UNCHANGED <<groupVars, creatorVars, outputVars, blocks, faults>>

ProcessorFails(e) == Fail(e) /\ chunkCtx' = "done" /\ processor' = "ended"

\* The channel is closed and empty, or the context has ended: either may be seen first.
ReceiveEndsQuietly ==   \* mutant: no error when the context has ended
  /\ processor = "receive"
  /\ ctx = "done" \/ (creator = "ended" /\ queue = <<>>)
  /\ processor' = "ended"
  /\ UNCHANGED <<groupVars, creatorVars, queue, chunkVars, outputVars, blocks, faults>>

ReceiveEnds ==
  /\ processor = "receive"
  /\ \/ creator = "ended" /\ queue = <<>> /\ processor' = "ended" /\ UNCHANGED <<groupVars, chunkCtx>>
     \/ ctx = "done" /\ ProcessorFails("ctx")
  /\ UNCHANGED <<creatorVars, queue, chunk, blockErr, fetch, attempts, arrived, good, outputVars, blocks, faults>>

Running == {b \in Block : fetch[b] \in {"resolve", "fetch"}}
Launched == {b \in Block : fetch[b] # "idle"}

\* g.Go waits while the limit is reached.
MayLaunch == Cardinality(Running) < MaxConcurrency

\* The loop starts a goroutine for every block in turn, also after one has failed.
Launch(b) ==
  /\ processor = "fetch" /\ b = Cardinality(Launched) + 1
  /\ MayLaunch
  /\ fetch' = [fetch EXCEPT ![b] = IF Archival THEN "resolve" ELSE "fetch"]
  /\ UNCHANGED <<groupVars, creatorVars, queue, processor, chunk, chunkCtx, blockErr, attempts,
                 arrived, good, outputVars, blocks, faults>>

BlockOther == UNCHANGED <<groupVars, creatorVars, queue, processor, chunk, outputVars>>

BlockFails(b) ==
  /\ fetch' = [fetch EXCEPT ![b] = "failed"]
  /\ blockErr' = TRUE /\ chunkCtx' = "done"
  /\ UNCHANGED <<attempts, arrived, good, blocks>>

Deliver(b) ==
  /\ fetch' = [fetch EXCEPT ![b] = "ended"]
  /\ arrived' = Append(arrived, b)
  /\ blocks' = blocks + 1
  /\ UNCHANGED <<blockErr, chunkCtx, attempts>>

\* resolveBlock.
Resolve(b) ==
  /\ fetch[b] = "resolve"
  /\ \/ /\ fetch' = [fetch EXCEPT ![b] = "fetch"]
        /\ UNCHANGED <<chunkCtx, blockErr, attempts, arrived, good, blocks, faults>>
     \/ chunkCtx = "done" /\ BlockFails(b) /\ UNCHANGED faults
     \/ Fault /\ BlockFails(b)
  /\ BlockOther

\* The data is that of the block.
FetchBlock(b) ==
  /\ fetch[b] = "fetch"
  /\ Deliver(b) /\ good' = good \union {b}
  /\ UNCHANGED faults /\ BlockOther

\* An error, or the end of the context.
FetchFails(b) ==
  /\ fetch[b] = "fetch"
  /\ Fault \/ (chunkCtx = "done" /\ UNCHANGED faults)
  /\ BlockFails(b) /\ BlockOther

\* cids.VerifyRaw, which only DownloadArchival calls.
VerifyWrong(b) == IF Archival THEN BlockFails(b) ELSE Deliver(b) /\ UNCHANGED good

\* The data is not that of the block.
FetchWrong(b) ==
  /\ fetch[b] = "fetch"
  /\ Fault /\ VerifyWrong(b)
  /\ BlockOther

\* rangeDownload tries again after a transient error, until attempts run out or the wait is
\* cut short by the context.
RetryRange(b) ==
  /\ Archival /\ fetch[b] = "fetch" /\ chunkCtx = "live"
  /\ attempts[b] < MaxAttempts
  /\ Fault
  /\ attempts' = [attempts EXCEPT ![b] = @ + 1]
  /\ UNCHANGED <<fetch, chunkCtx, blockErr, arrived, good, blocks>> /\ BlockOther

\* g.Wait: all goroutines of the chunk have ended.
WaitBlocks ==
  /\ processor = "fetch" /\ Launched = Block /\ Running = {}
  /\ IF blockErr THEN ProcessorFails("block")
     ELSE processor' = "assemble" /\ UNCHANGED <<groupVars, chunkCtx>>
  /\ UNCHANGED <<creatorVars, queue, chunk, blockErr, fetch, attempts, arrived, good, outputVars, blocks, faults>>

AssembledAsTheyCame == arrived   \* mutant: forgets the positions

\* blocks[retrieved.Pos] = data
Assembled == [b \in Block |-> IF \E k \in DOMAIN arrived : arrived[k] = b THEN b ELSE 0]

\* What the blocks are put together to is right, or wrong, or an error: of ExtractBlockData,
\* of the erasure code while the damage is within the parity, or of the cipher.
DataRight == good = Block /\ Assembled = [b \in Block |-> b]

\* Chunk.Index, which CreateRangeFileDownload sets.
IndexOf(c) == c - 1 + RangeStart

\* A chunk is encrypted under its index in the file, and decrypted under Chunk.Index.
SealedAs(c) == RangeStart + c - 1
Opens(c) == Sealed => IndexOf(c) = SealedAs(c)

DetectNothing == FALSE   \* mutant: what is not encrypted is written as well

CanDetect == Sealed \/ (ParityBlocks > 0 /\ NumBlocks - Cardinality(good) <= ParityBlocks)

Assemble ==
  /\ processor = "assemble"
  /\ \/ /\ Opens(chunk) /\ (DataRight \/ ~CanDetect)
        /\ processor' = "write" /\ UNCHANGED <<groupVars, chunkCtx>>
     \/ ~(Opens(chunk) /\ DataRight) /\ ProcessorFails("data")
  /\ UNCHANGED <<creatorVars, queue, chunk, blockErr, fetch, attempts, arrived, good, outputVars, blocks, faults>>

Write ==
  /\ processor = "write"
  /\ \/ /\ written' = Append(written, [chunk |-> chunk, right |-> DataRight])
        /\ processor' = "count"
        /\ UNCHANGED <<torn, faults>>
     \/ /\ Fault /\ torn' \in BOOLEAN
        /\ processor' = "write failed"
        /\ UNCHANGED written
  /\ UNCHANGED <<groupVars, creatorVars, queue, chunkVars, chunks, blocks>>

WriteFails ==
  /\ processor = "write failed"
  /\ ProcessorFails("write")
  /\ UNCHANGED <<creatorVars, queue, chunk, blockErr, fetch, attempts, arrived, good, outputVars, blocks, faults>>

CountNothing ==   \* mutant: the chunk is not counted
  /\ processor = "count"
  /\ processor' = "receive"
  /\ UNCHANGED <<groupVars, creatorVars, queue, chunkVars, outputVars, blocks, faults>>

Count ==
  /\ processor = "count"
  /\ chunks' = chunks + 1 /\ processor' = "receive"
  /\ UNCHANGED <<groupVars, creatorVars, queue, chunkVars, written, torn, blocks, faults>>

Ended == creator = "ended" /\ processor = "ended" /\ UNCHANGED vars
-----------------------------------------------------------------------------
Creator == CheckContext \/ CreateChunkDownload \/ SendChunkDownload \/ CreatorEnds
BlockStep(b) ==
  \/ Launch(b) \/ Resolve(b) \/ FetchBlock(b) \/ FetchFails(b) \/ FetchWrong(b) \/ RetryRange(b)
Processor == Receive \/ ReceiveEnds \/ WaitBlocks \/ Assemble \/ Write \/ WriteFails \/ Count

Next == Cancel \/ Creator \/ Processor \/ (\E b \in Block : BlockStep(b)) \/ Ended

Spec == Init /\ [][Next]_vars

\* The scheduler runs every goroutine, and every request is answered or its context ends.
FairSpec ==
  /\ Spec
  /\ WF_vars(Creator) /\ WF_vars(Processor)
  /\ \A b \in Block : WF_vars(BlockStep(b))
-----------------------------------------------------------------------------
(* Properties.                                                             *)

FetchState == {"idle", "resolve", "fetch", "ended", "failed"}

GroupType ==
  /\ ctx \in {"live", "done"} /\ caller \in {"live", "done"} /\ chunkCtx \in {"live", "done"}
  /\ failure \in {"none", "ctx", "create", "block", "data", "write"}

CreatorType ==
  /\ creator \in {"check", "create", "send", "ended"} /\ next \in 1..(NumChunks + 1)
  /\ creator \in {"create", "send"} => next <= NumChunks
  /\ queue \in Seq(Chunk)

ProcessorType ==
  /\ processor \in {"receive", "fetch", "assemble", "write", "write failed", "count", "ended"}
  /\ chunk \in 0..NumChunks

BlockType ==
  /\ blockErr \in BOOLEAN /\ fetch \in [Block -> FetchState] /\ attempts \in [Block -> Nat]
  /\ arrived \in Seq(Block) /\ good \subseteq Block

OutputType ==
  /\ written \in Seq([chunk : 0..NumChunks, right : BOOLEAN]) /\ torn \in BOOLEAN
  /\ blocks \in Nat /\ chunks \in Nat /\ faults \in 0..MaxFaults

TypeOK == GroupType /\ CreatorType /\ ProcessorType /\ BlockType /\ OutputType

Returned == IF creator = "ended" /\ processor = "ended"
              THEN IF failure = "none" THEN "success" ELSE "error" ELSE "no"

\* Whatever goes wrong and whenever, chunks are written once each and in order, and nil is
\* returned only after the last of them.
Promise ==
  INSTANCE FileDownload WITH
    written <- [k \in DOMAIN written |-> written[k].chunk],
    returned <- Returned

Promised == Promise!Spec

\* With a check of the blocks' CIDs or with encryption wrong data from a node or a provider
\* is never written, whichever blocks it is in and in whichever order blocks arrive.
OnlyRightData ==
  Archival \/ Sealed => \A k \in DOMAIN written : written[k].right

\* Right blocks make up the chunk in whichever order they arrive, and wherever in the file
\* the range of chunks starts.
RightDataAccepted == failure = "data" => good # Block

\* No goroutine outlives its chunk: a block is in flight only while the processor waits for
\* the blocks of the chunk, and never more than the limit allows.
InFlightBounded ==
  /\ Cardinality(Running) <= MaxConcurrency
  /\ processor # "fetch" => Running = {}

\* A successful call has counted every block and every chunk; before that the counter of
\* chunks is behind the writes by no more than one.
CountersAgree ==
  /\ chunks <= Len(written) /\ Len(written) <= chunks + 1
  /\ Returned = "success" => chunks = NumChunks /\ blocks = NumChunks * NumBlocks

\* Every call returns: no goroutine waits for another for ever, with any chunk buffer, after
\* any failure and after the caller gave up.
CallReturns == <>(Returned # "no")
=============================================================================
