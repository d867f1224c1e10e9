----------------------------- MODULE ChainReader -----------------------------
(***************************************************************************)
(* Reading the chain in batches: receipts by hash and blocks by number,    *)
(* and the chunks that the calls of addFileChunk and addFileChunks in them *)
(* register, from the calldata alone.  The chain grows meanwhile; the node *)
(* executes the requests of a batch one by one.  There is one transaction  *)
(* to a block, so that a number stands for its hash as well.               *)
(***************************************************************************)
EXTENDS Integers, Sequences

CONSTANTS
  RootCIDs,    \* CIDs of chunks
  Digests,     \* digests in the CIDs of blocks
  Batches,     \* chunks as an upload sends them: sequences of consecutive chunks
  Foreign,     \* calldata that others send
  Int64Space,  \* 2^64
  MaxBlocks,
  MaxRequests

Half == Int64Space \div 2
cidPrefix == <<1, 112, 18, 32>>

\* Sizes and indexes of the SDK are int64, and not negative.
Blocks == [cid : {<<cidPrefix, d>> : d \in Digests}, size : 0..(Half - 1)]
Chunks == [cid : RootCIDs, size : 0..(Half - 1), index : 0..(Half - 1), blocks : Seq(Blocks)]

ASSUME ChainReaderAssumption ==
  /\ {Half, MaxBlocks, MaxRequests} \subseteq Nat /\ Int64Space = 2 * Half /\ Half > 0
  /\ "invalid" \notin RootCIDs
  /\ Batches \subseteq Seq(Chunks)
  /\ \A b \in Batches : b # <<>> /\ \A i \in DOMAIN b : b[i].index = b[1].index + i - 1

VARIABLES
  chain,      \* the calldata of every block
  kind,       \* "blocks" or "receipts"
  requests,   \* numbers that are asked for
  asked,      \* length of the chain when the call was made
  answers,    \* what the node has answered so far, by request
  responses,  \* what the call has returned
  parsed,     \* the chunks of a transaction
  source,     \* its block
  phase       \* "idle", "asked", "returned", "parsed", "error" or "panic"

readerVars == <<chain, kind, requests, asked, answers, responses, parsed, source, phase>>
-----------------------------------------------------------------------------
(* Calldata.                                                               *)

\* toIPCProtoChunk keeps the digest of a block's CID, createBatchedChunkTransaction the index
\* of the first chunk.
AddFileChunks(batch) ==
  [method |-> "addFileChunks",
   cids |-> [i \in DOMAIN batch |-> batch[i].cid],
   sizes |-> [i \in DOMAIN batch |-> batch[i].size],
   blockCIDs |-> [i \in DOMAIN batch |-> [j \in DOMAIN batch[i].blocks |-> Tail(batch[i].blocks[j].cid)]],
   blockSizes |-> [i \in DOMAIN batch |-> [j \in DOMAIN batch[i].blocks |-> batch[i].blocks[j].size]],
   start |-> batch[1].index]

\* big.Int.Int64: the low 64 bits.
Int64(v) == ((v + Half) % Int64Space) - Half

FromByteArrayCID(digest) == <<cidPrefix>> \o digest

StartOfAll(call, i) == Int64(call.start)   \* mutant: the index is not advanced
IndexOf(call, i) == Int64(call.start) + i - 1

Chunk(call, i) ==
  [cid |-> call.cids[i], size |-> Int64(call.sizes[i]), index |-> IndexOf(call, i),
   blocks |-> [j \in DOMAIN call.blockCIDs[i] |->
                 [cid |-> FromByteArrayCID(call.blockCIDs[i][j]), size |-> Int64(call.blockSizes[i][j])]]]

ValidCID(c) == c # "invalid"

\* What ParseAddChunksTx makes of a chunk; it takes the lists to be as long as that of the CIDs.
OutcomeOf(call, i) ==
  CASE ~ValidCID(call.cids[i]) -> "error"
    [] ValidCID(call.cids[i]) /\ (i \notin DOMAIN call.blockCIDs \/ i \notin DOMAIN call.blockSizes) -> "panic"
    [] OTHER -> IF Len(call.blockCIDs[i]) # Len(call.blockSizes[i]) THEN "error"
                ELSE IF i \notin DOMAIN call.sizes THEN "panic" ELSE "parsed"

\* ParseAddChunkTx is the case of one chunk.
Outcome(call) ==
  LET bad == {i \in DOMAIN call.cids : OutcomeOf(call, i) # "parsed"} IN
  IF call.method = "other" THEN "error"
  ELSE IF bad = {} THEN "parsed" ELSE OutcomeOf(call, CHOOSE i \in bad : \A j \in bad : i <= j)
-----------------------------------------------------------------------------
(* The calls.                                                              *)

ReaderInit ==
  /\ chain = <<>> /\ kind \in {"blocks", "receipts"}
  /\ requests = <<>> /\ asked = 0 /\ answers = <<>> /\ responses = <<>>
  /\ parsed = <<>> /\ source = 0 /\ phase = "idle"

Calls == {AddFileChunks(b) : b \in Batches} \union Foreign

MineBlock ==
  /\ Len(chain) < MaxBlocks /\ phase \in {"idle", "asked"}
  /\ \E c \in Calls : chain' = Append(chain, c)
  /\ UNCHANGED <<kind, requests, asked, answers, responses, parsed, source, phase>>

Ask ==
  /\ phase = "idle" /\ phase' = "asked"
  /\ \E k \in 1..MaxRequests : requests' \in [1..k -> 1..MaxBlocks] /\ answers' = [i \in 1..k |-> "none"]
  /\ asked' = Len(chain)
  /\ UNCHANGED <<chain, kind, responses, parsed, source>>

\* null for what is not there (yet); a request may also fail alone.
Answer(i) ==
  /\ phase = "asked" /\ answers[i] = "none"
  /\ \E a \in {"error", IF requests[i] \in DOMAIN chain THEN "found" ELSE "null"} : answers' = [answers EXCEPT ![i] = a]
  /\ UNCHANGED <<chain, kind, requests, asked, responses, parsed, source, phase>>

\* The timeout of the receipts, or the connection.
CallFails ==
  /\ phase = "asked" /\ phase' = "error"
  /\ UNCHANGED <<chain, kind, requests, asked, answers, responses, parsed, source>>

LeftOut ==   \* mutant: a response is left out when its request has failed
  LET ok == SelectSeq([i \in DOMAIN requests |-> i], LAMBDA i : answers[i] # "error") IN
  [i \in DOMAIN ok |-> [number |-> requests[i], got |-> answers[ok[i]], item |-> requests[ok[i]]]]

\* Each response has the number, or the key, of its request; null becomes NotFound, in
\* BlockFromJSON and for a receipt alike.
Responses == [i \in DOMAIN requests |-> [number |-> requests[i], got |-> answers[i], item |-> requests[i]]]

Returns ==
  /\ phase = "asked" /\ \A i \in DOMAIN requests : answers[i] # "none"
  /\ phase' = "returned" /\ responses' = Responses
  /\ UNCHANGED <<chain, kind, requests, asked, answers, parsed, source>>

\* The transactions of a block, by either parser.
Parse ==
  /\ phase = "returned" /\ kind = "blocks"
  /\ \E i \in DOMAIN responses :
       LET call == chain[responses[i].item] IN
       /\ responses[i].got = "found"
       /\ source' = responses[i].item /\ phase' = Outcome(call)
       /\ parsed' = IF phase' = "parsed" THEN [j \in DOMAIN call.cids |-> Chunk(call, j)] ELSE <<>>
  /\ UNCHANGED <<chain, kind, requests, asked, answers, responses>>

ReaderEnded == phase \in {"returned", "parsed", "error", "panic"} /\ UNCHANGED readerVars

ReaderNext == MineBlock \/ Ask \/ (\E i \in DOMAIN answers : Answer(i)) \/ CallFails \/ Returns \/ Parse \/ ReaderEnded

ReaderSpec == ReaderInit /\ [][ReaderNext]_readerVars
-----------------------------------------------------------------------------
(* Properties.                                                             *)

\* Every request of a batch has its response, under its own number: what was there when the
\* call was made is never reported missing, although others fail or are missing.  From the
\* calldata of an upload the reader gets the chunks that were uploaded, whole CIDs and
\* indexes included.
ReaderTruth ==
  /\ phase = "returned" =>
       /\ DOMAIN responses = DOMAIN requests
       /\ \A i \in DOMAIN responses :
            /\ responses[i].number = requests[i]
            /\ responses[i].got # "error" => responses[i].item = requests[i]
            /\ responses[i].got = "null" => requests[i] > asked
  /\ \A b \in Batches : source # 0 /\ chain[source] = AddFileChunks(b) => phase = "parsed" /\ parsed = b
=============================================================================
