------------------------------ MODULE MCCoding ------------------------------
(* What happens to the bytes of a chunk: a behaviour encrypts chunks in the     *)
(* uploader's buffer and decrypts them ("stream"), or codes a chunk and         *)
(* extracts it ("chunk"), or does so stripe by stripe ("stripes"), or takes the *)
(* lengths of a chunk through an upload and back ("layout"), or proves a leaf   *)
(* of the tree of what it reads ("tree").  The sizes                            *)
(* keep the relations they have in the code: 16 for 32 KiB, a header of 5 that  *)
(* is no multiple of 4, a tag of 4; DataBlocks divides every size of a          *)
(* ciphertext, as 16 data blocks do; a chunk may hold the magic byte, and its   *)
(* size may be no multiple of DataBlocks.                                       *)
EXTENDS StripeCoding, StreamEnc, ChunkLayout

VARIABLES
  mode,
  data, chunkPhase, chunkBlocks, chunkDamaged, cut, result,
  leaves, nLeaves, treePhase, at, memtree, proof, index, claim

chunkVars == <<data, chunkPhase, chunkBlocks, chunkDamaged, cut, result>>
treeVars == <<leaves, nLeaves, treePhase, at, memtree, proof, index, claim>>
mcVars == <<mode, vars, streamVars, chunkVars, layoutVars, treeVars>>

CiphertextSizes == 12..44
AllSettings == [maxBlocks : 0..6, parity : -1..4, key : {0, 16, 32}]
SmallData == {<<1>>, <<3>>, <<1, 3>>, <<3, 0, 1>>, <<2, 3, 3, 4>>, <<4, 1, 0, 2>>}

Chunk == INSTANCE ChunkCoding WITH
  prefix <- 1, magicSuffix <- <<3>>, Data <- SmallData, MaxDamaged <- 2,
  phase <- chunkPhase, blocks <- chunkBlocks, damaged <- chunkDamaged

Tree == INSTANCE Memtree WITH
  Lengths <- {0, 1, 3, 5, 9}, MaxLeaves <- 8, data <- leaves, phase <- treePhase, mem <- memtree

ASSUME Chunk!WrapAssumption /\ Tree!MemtreeAssumption

MCInit ==
  /\ mode \in {"stream", "chunk", "stripes", "layout", "tree"}
  /\ StreamInit /\ (mode # "stream" => target = 12)
  /\ Chunk!Init /\ (mode # "chunk" => data = <<1>>)
  /\ Init /\ (mode # "stripes" => size = 2 /\ mem[3] = 1)
  /\ LayoutInit /\ (mode # "layout" => setting = [maxBlocks |-> 2, parity |-> 0, key |-> 0])
  /\ Tree!Init /\ (mode # "tree" => leaves = <<>> /\ nLeaves = 1)

MCNext ==
  \/ mode = "stream" /\ StreamNext /\ UNCHANGED <<mode, vars, chunkVars, layoutVars, treeVars>>
  \/ mode = "chunk" /\ Chunk!Next /\ UNCHANGED <<mode, vars, streamVars, layoutVars, treeVars>>
  \/ mode = "stripes" /\ Next /\ UNCHANGED <<mode, streamVars, chunkVars, layoutVars, treeVars>>
  \/ mode = "layout" /\ LayoutNext /\ UNCHANGED <<mode, vars, streamVars, chunkVars, treeVars>>
  \/ mode = "tree" /\ Tree!Next /\ UNCHANGED <<mode, vars, streamVars, chunkVars, layoutVars>>

MCSpec == MCInit /\ [][MCNext]_mcVars

RecoverableIffEnoughLeft == Chunk!RecoverableIffEnoughLeft
ProofsSound == Tree!ProofsSound
=============================================================================
