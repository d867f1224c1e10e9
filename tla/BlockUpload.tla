----------------------------- MODULE BlockUpload -----------------------------
(***************************************************************************)
(* uploadChunk: the blocks of a chunk are sent to storage nodes by at most *)
(* MaxConcurrency goroutines, each block as a stream of parts of PartSize  *)
(* bytes of which the first carries the block's metadata.  A node may      *)
(* refuse a block in the middle of the stream, because it is filled        *)
(* already or for any other reason: Send then returns io.EOF, and the      *)
(* reason comes with CloseAndRecv.  UploadPipeline has all this as the     *)
(* outcome of a block.                                                     *)
(***************************************************************************)
EXTENDS Naturals, Sequences, FiniteSets

CONSTANTS
  Sizes,           \* the sizes a block may have, in bytes
  NumBlocks,       \* blocks of the chunk
  PartSize,        \* blockPartSize
  MaxConcurrency,  \* maxConcurrency
  MaxFaults        \* connections, streams and answers that fail, at most

ASSUME BlockUploadAssumption ==
  /\ Sizes \subseteq Nat \ {0} /\ {NumBlocks, PartSize, MaxConcurrency} \subseteq Nat \ {0}
  /\ MaxFaults \in Nat

Block == 1..NumBlocks

VARIABLES
  isResuming,  \* the call continues an earlier one
  filled,      \* blocks the contract has as filled
  size,        \* size of every block
  ctx,         \* the errgroup's context: "live" or "done"
  failed,      \* a goroutine has returned an error
  task,        \* "idle", "connect", "send", "close", "ended" or "failed", by block
  from,        \* the byte the next part starts after
  stream,      \* what a node has received of a block: [first, bytes]
  refusal,     \* why a node has ended the stream: "none", "filled" or "error"
  stored,      \* blocks that nodes have accepted
  blockCount,  \* the file upload's counter of blocks
  bytesCount,  \* what every block has added to its counter of bytes
  outcome,     \* what uploadChunk has returned
  faults       \* MaxFaults counts down

envVars == <<isResuming, filled, size>>
vars == <<envVars, ctx, failed, task, from, stream, refusal, stored, blockCount, bytesCount, outcome, faults>>

Init ==
  /\ isResuming \in BOOLEAN /\ filled \in SUBSET Block /\ size \in [Block -> Sizes]
  /\ ctx = "live" /\ failed = FALSE
  /\ task = [b \in Block |-> "idle"] /\ from = [b \in Block |-> 0]
  /\ stream = [b \in Block |-> <<>>] /\ refusal = [b \in Block |-> "none"]
  /\ stored = {} /\ blockCount = 0 /\ bytesCount = [b \in Block |-> 0]
  /\ outcome = "none" /\ faults = MaxFaults

Fault == faults > 0 /\ faults' = faults - 1
Running == {b \in Block : task[b] \in {"connect", "send", "close"}}

\* The goroutine of a block goes on, or returns an error, which ends the context of the others.
GoTo(b, l) == task' = [task EXCEPT ![b] = l] /\ UNCHANGED <<ctx, failed>>
Fail(b) == task' = [task EXCEPT ![b] = "failed"] /\ ctx' = "done" /\ failed' = TRUE

\* The caller's context ends.
Cancel ==
  /\ ctx = "live" /\ outcome = "none" /\ ctx' = "done" /\ Fault
  /\ UNCHANGED <<envVars, failed, task, from, stream, refusal, stored, blockCount, bytesCount, outcome>>

\* g.Go, for every block in turn, waits for a goroutine to end when the limit is reached.
Launch(b) ==
  /\ outcome = "none" /\ task[b] = "idle" /\ \A a \in 1..(b - 1) : task[a] # "idle"
  /\ Cardinality(Running) < MaxConcurrency
  /\ GoTo(b, "connect")
  /\ UNCHANGED <<envVars, from, stream, refusal, stored, blockCount, bytesCount, outcome, faults>>

\* IPCClient and FileUploadBlock, the nonce and the signature.
Connect(b) ==
  /\ task[b] = "connect"
  /\ \/ GoTo(b, "send") /\ UNCHANGED faults
     \/ Fail(b) /\ Fault
  /\ UNCHANGED <<envVars, from, stream, refusal, stored, blockCount, bytesCount, outcome>>
-----------------------------------------------------------------------------
(* uploadIPCBlockSegments                                                  *)

LoopEnd(b) == size[b]

PartEnd(b) == IF from[b] + PartSize > size[b] THEN size[b] ELSE from[b] + PartSize

HeaderAlways(b) == TRUE   \* mutant: the metadata is not cleared
FirstPart(b) == from[b] = 0

\* A part goes out; when the node has ended the stream Send returns io.EOF, which is no error.
SendPart(b) ==
  /\ task[b] = "send" /\ ctx = "live" /\ from[b] < LoopEnd(b)
  /\ IF refusal[b] # "none"
       THEN GoTo(b, "close") /\ UNCHANGED <<from, stream>>
       ELSE /\ stream' = [stream EXCEPT ![b] = Append(@, [first |-> FirstPart(b), bytes |-> <<from[b] + 1, PartEnd(b)>>])]
            /\ from' = [from EXCEPT ![b] = @ + PartSize]
            /\ GoTo(b, "send")
  /\ UNCHANGED <<envVars, refusal, stored, blockCount, bytesCount, outcome, faults>>

SentAll(b) ==
  /\ task[b] = "send" /\ from[b] >= LoopEnd(b)
  /\ GoTo(b, "close")
  /\ UNCHANGED <<envVars, from, stream, refusal, stored, blockCount, bytesCount, outcome, faults>>

\* The end of the context fails the connection, the loop over the parts and CloseAndRecv.
Aborted(b) ==
  /\ ctx = "done" /\ task[b] \in {"connect", "send", "close"}
  /\ task[b] = "send" => from[b] < LoopEnd(b)
  /\ Fail(b)
  /\ UNCHANGED <<envVars, from, stream, refusal, stored, blockCount, bytesCount, outcome, faults>>

\* The node knows from the first part that the block is filled, or fails at any time.
NodeRefuses(b) ==
  /\ task[b] \in {"send", "close"} /\ refusal[b] = "none" /\ b \notin stored
  /\ \/ stream[b] # <<>> /\ b \in filled /\ refusal' = [refusal EXCEPT ![b] = "filled"] /\ UNCHANGED faults
     \/ Fault /\ refusal' = [refusal EXCEPT ![b] = "error"]
  /\ UNCHANGED <<envVars, ctx, failed, task, from, stream, stored, blockCount, bytesCount, outcome>>

NodeStores(b) ==
  /\ task[b] = "close" /\ refusal[b] = "none" /\ b \notin filled \union stored
  /\ stored' = stored \union {b}
  /\ UNCHANGED <<envVars, ctx, failed, task, from, stream, refusal, blockCount, bytesCount, outcome, faults>>
-----------------------------------------------------------------------------
(* CloseAndRecv                                                            *)

BlockOther == UNCHANGED <<envVars, from, stream, refusal, stored, outcome>>
Count(b) == blockCount' = blockCount + 1 /\ bytesCount' = [bytesCount EXCEPT ![b] = @ + size[b]]

\* The node's answer, which may be lost.
Accepted(b) ==
  /\ task[b] = "close" /\ b \in stored
  /\ \/ GoTo(b, "ended") /\ Count(b) /\ UNCHANGED faults
     \/ Fail(b) /\ Fault /\ UNCHANGED <<blockCount, bytesCount>>
  /\ BlockOther

ForgivesNothing == FALSE  \* mutant: a resumed one does not
Forgives == isResuming

SkipCounted(b) ==   \* mutant: a skipped block is counted again
  /\ task[b] = "close" /\ refusal[b] = "filled" /\ Forgives
  /\ GoTo(b, "ended") /\ Count(b) /\ UNCHANGED faults /\ BlockOther

SkipFilled(b) ==
  /\ task[b] = "close" /\ refusal[b] = "filled" /\ Forgives
  /\ GoTo(b, "ended")
  /\ UNCHANGED <<blockCount, bytesCount, faults>> /\ BlockOther

Refused(b) ==
  /\ task[b] = "close" /\ refusal[b] # "none" /\ ~(refusal[b] = "filled" /\ Forgives)
  /\ Fail(b)
  /\ UNCHANGED <<blockCount, bytesCount, faults>> /\ BlockOther

WaitForever ==   \* mutant: waits for blocks that have failed as well
  /\ outcome = "none" /\ \A b \in Block : task[b] = "ended"
  /\ outcome' = IF failed THEN "error" ELSE "nil"
  /\ UNCHANGED <<envVars, ctx, failed, task, from, stream, refusal, stored, blockCount, bytesCount, faults>>

\* g.Wait.
Wait ==
  /\ outcome = "none" /\ \A b \in Block : task[b] \in {"ended", "failed"}
  /\ outcome' = IF failed THEN "error" ELSE "nil"
  /\ UNCHANGED <<envVars, ctx, failed, task, from, stream, refusal, stored, blockCount, bytesCount, faults>>

BlockStep(b) ==
  \/ Launch(b) \/ Connect(b) \/ SendPart(b) \/ SentAll(b)
  \/ Aborted(b) \/ Accepted(b) \/ SkipFilled(b) \/ Refused(b)

Ended == outcome # "none" /\ UNCHANGED vars

Next == Cancel \/ (\E b \in Block : BlockStep(b) \/ NodeRefuses(b) \/ NodeStores(b)) \/ Wait \/ Ended

Spec == Init /\ [][Next]_vars

NodeAnswers(b) == NodeRefuses(b) \/ NodeStores(b)

\* The scheduler runs every goroutine, and a node answers: it stores or refuses.
FairSpec ==
  Spec /\ WF_vars(Wait) /\ \A b \in Block : WF_vars(BlockStep(b)) /\ WF_vars(NodeAnswers(b))
-----------------------------------------------------------------------------
(* Properties.                                                             *)

TypeOK ==
  /\ task \in [Block -> {"idle", "connect", "send", "close", "ended", "failed"}]
  /\ refusal \in [Block -> {"none", "filled", "error"}] /\ stored \subseteq Block
  /\ blockCount \in 0..NumBlocks /\ outcome \in {"none", "nil", "error"}

\* What a node has been sent of a block: every byte once and in order, and the metadata with
\* the first part only.
Whole(b) ==
  LET part == stream[b] IN
  /\ part # <<>> /\ part[Len(part)].bytes[2] = size[b]
  /\ \A k \in DOMAIN part :
       /\ part[k].bytes[1] = IF k = 1 THEN 1 ELSE part[k - 1].bytes[2] + 1
       /\ part[k].bytes[1] <= part[k].bytes[2]
       /\ part[k].first = (k = 1)

\* uploadChunk returns nil only when every block is with a node: it has all the bytes from
\* this call, or the block from an earlier one, which only a resumed call accepts.
NilMeansStored ==
  outcome = "nil" => \A b \in Block : (b \in stored /\ Whole(b)) \/ (b \in filled /\ isResuming)

\* Blocks that are filled fail no resumed call, whatever their number and wherever the
\* streams were refused: a call that fails has met a fault or the end of its context.
ResumeNotRefused == outcome = "error" /\ isResuming => faults < MaxFaults

\* The counters have what nodes acknowledged to this call: all it stored on success, and
\* blocks of an earlier call never.
CountsAcknowledged ==
  LET mine == {b \in stored : task[b] = "ended"} IN
  /\ blockCount = Cardinality(mine)
  /\ bytesCount = [b \in Block |-> IF b \in mine THEN size[b] ELSE 0]
  /\ outcome = "nil" => mine = stored

\* What uploadChunk reports, by its result and by its counters, is what the nodes have.
ReportsStored == NilMeansStored /\ CountsAcknowledged

\* uploadChunk returns.
ChunkUploadReturns == <>(outcome # "none")
=============================================================================
