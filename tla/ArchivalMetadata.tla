--------------------------- MODULE ArchivalMetadata --------------------------
(***************************************************************************)
(* ArchivalMetadata: the blocks of a file are listed chunk by chunk; for   *)
(* the blocks of a chunk goroutines ask the PDP providers concurrently.    *)
(* A block that no provider has is listed without PDP data; any other      *)
(* error ends the call.                                                    *)
(***************************************************************************)
EXTENDS Naturals, Sequences, FiniteSets, SequencesExt

CONSTANTS
  ChunksOfFile,   \* chunks the node lists
  BlocksOfChunk,  \* blocks of each of them
  MaxAsking,      \* maxConcurrency
  MaxRefusals     \* requests that fail, at most

ASSUME MetadataAssumption ==
  {ChunksOfFile, MaxRefusals} \subseteq Nat /\ {BlocksOfChunk, MaxAsking} \subseteq Nat \ {0}

Position == 1..BlocksOfChunk

VARIABLES
  archived,   \* blocks of the file a provider has
  pc,         \* "ask", "launch", "gather", "success" or "error"
  task,       \* state of the goroutine of every block of the chunk
  failed,     \* one of them has returned an error
  ch,         \* the channel of resolved blocks
  result,     \* result.Chunks: for every block its CID and whether there is PDP data
  refusals    \* MaxRefusals counts down

metaVars == <<archived, pc, task, failed, ch, result, refusals>>

At == Len(result) + 1   \* the chunk the loop is at

MetaInit ==
  /\ archived \in SUBSET ((1..ChunksOfFile) \X Position)
  /\ pc = "ask" /\ task = [b \in Position |-> "idle"] /\ failed = FALSE /\ ch = <<>>
  /\ result = <<>> /\ refusals = MaxRefusals

\* FileDownloadCreate has answered; FileDownloadChunkCreate for the next chunk.
AskChunk ==
  /\ pc = "ask" /\ At <= ChunksOfFile
  /\ \/ pc' = "launch" /\ UNCHANGED refusals
     \/ refusals > 0 /\ refusals' = refusals - 1 /\ pc' = "error"
  /\ task' = [b \in Position |-> "idle"] /\ failed' = FALSE /\ ch' = <<>>
  /\ UNCHANGED <<archived, result>>

Asking == {b \in Position : task[b] = "running"}

Ask(b) ==
  /\ pc = "launch" /\ Cardinality(Asking) < MaxAsking
  /\ task[b] = "idle" /\ \A a \in 1..(b - 1) : task[a] # "idle"
  /\ task' = [task EXCEPT ![b] = "running"]
  /\ UNCHANGED <<archived, pc, failed, ch, result, refusals>>

\* A provider knows the block, or answers NotFound.
ResolvePDP(b) ==
  /\ task[b] = "running"
  /\ task' = [task EXCEPT ![b] = "ended"]
  /\ ch' = Append(ch, [pos |-> b, cid |-> <<At, b>>, pdp |-> <<At, b>> \in archived])
  /\ UNCHANGED <<archived, pc, failed, result, refusals>>

\* Any other error, also that of the context once another goroutine has failed.
ResolvePDPFails(b) ==
  /\ task[b] = "running"
  /\ IF failed THEN UNCHANGED refusals ELSE refusals > 0 /\ refusals' = refusals - 1
  /\ task' = [task EXCEPT ![b] = "ended"] /\ failed' = TRUE
  /\ UNCHANGED <<archived, pc, ch, result>>

WaitResolved ==
  /\ pc = "launch" /\ \A b \in Position : task[b] = "ended"
  /\ pc' = IF failed THEN "error" ELSE "gather"
  /\ UNCHANGED <<archived, task, failed, ch, result, refusals>>

ListAsTheyCame == [k \in DOMAIN ch |-> [cid |-> ch[k].cid, pdp |-> ch[k].pdp]]   \* mutant: forgets Pos

\* archivalChunk.Blocks[resolved.Pos]
Listed ==
  [b \in Position |-> LET r == CHOOSE r \in Range(ch) : r.pos = b IN [cid |-> r.cid, pdp |-> r.pdp]]

Gather ==
  /\ pc = "gather"
  /\ result' = Append(result, Listed)
  /\ pc' = "ask"
  /\ UNCHANGED <<archived, task, failed, ch, refusals>>

Succeed ==
  /\ pc = "ask" /\ At > ChunksOfFile
  /\ pc' = "success"
  /\ UNCHANGED <<archived, task, failed, ch, result, refusals>>

MetaEnded == pc \in {"success", "error"} /\ UNCHANGED metaVars

MetaNext ==
  \/ AskChunk \/ WaitResolved \/ Gather \/ Succeed \/ MetaEnded
  \/ \E b \in Position : Ask(b) \/ ResolvePDP(b) \/ ResolvePDPFails(b)

MetaSpec == MetaInit /\ [][MetaNext]_metaVars
-----------------------------------------------------------------------------
(* Properties.                                                             *)

\* In whichever order the providers answer, every block is listed at its position, with PDP
\* data exactly when a provider has it.
ListedInPlace ==
  \A c \in DOMAIN result, b \in Position :
    result[c][b] = [cid |-> <<c, b>>, pdp |-> <<c, b>> \in archived]
=============================================================================
