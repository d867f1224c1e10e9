----------------------------- MODULE ChunkLayout -----------------------------
(***************************************************************************)
(* The sizes a chunk of Upload goes through: what New accepts, how much is *)
(* read into a buffer of which capacity, the encryption and the wrapping   *)
(* that happen in place in it, the shards, the blocks BuildDAG cuts, and      *)
(* the way back in Download.  Only lengths are kept.                       *)
(***************************************************************************)
EXTENDS CodingMath

CONSTANTS
  BlockSize,      \* 1 MB
  keyLength,      \* 32
  CipherOverhead, \* bytes encryption adds: nonce and tag
  CodeOverhead,   \* bytes the erasure code adds: size and magic suffix
  Maxlinks,       \* links of a node of the DAG, at most
  IndexSpace,     \* 256, the values of the uint8 that is the index of a block in its signature
  Settings        \* what callers of New ask: records [maxBlocks, parity, key]

\* The Reed-Solomon library rounds shards up beyond 256 of them: that is left out.
ASSUME ChunkLayoutAssumption ==
  /\ {BlockSize, CipherOverhead, CodeOverhead} \subseteq Nat \ {0} /\ BlockSize > CipherOverhead
  /\ {keyLength, IndexSpace} \subseteq Nat \ {0} /\ Maxlinks \in Nat /\ Maxlinks > 1
  /\ Settings \subseteq [maxBlocks : Int, parity : Int, key : Nat]

VARIABLES
  setting,     \* maxBlocksInChunk, parityBlocksCount and the length of the encryption key
  layoutPhase, \* "new", "read", "encrypt", "encode", "dag", "stored", "extract", "decrypt", ...
  fileBytes,   \* bytes of the file in the chunk
  len,         \* len(data)
  cap,         \* cap(data)
  blockSize,
  numBlocks,   \* number of blocks
  inner,       \* whether they are inner nodes of the DAG, without data
  sizePrefix   \* the size prefix of the wrapped data

layoutVars == <<setting, layoutPhase, fileBytes, len, cap, blockSize, numBlocks, inner, sizePrefix>>

Encrypted == setting.key > 0
Coded == setting.parity > 0
dataBlocks == setting.maxBlocks - setting.parity

LayoutInit ==
  /\ setting \in Settings /\ layoutPhase = "new"
  /\ fileBytes = 0 /\ len = 0 /\ cap = 0 /\ blockSize = 0 /\ numBlocks = 0 /\ inner = FALSE /\ sizePrefix = 0

Valid(s) ==
  /\ s.maxBlocks >= 2
  /\ s.key \in {0, keyLength}
  /\ s.parity <= s.maxBlocks \div 2

New ==
  /\ layoutPhase = "new"
  /\ layoutPhase' = IF Valid(setting) THEN "read" ELSE "refused"
  /\ UNCHANGED <<setting, fileBytes, len, cap, blockSize, numBlocks, inner, sizePrefix>>

\* calculateBufferSizeAndCapacity.
EncryptionOverhead == IF Encrypted THEN CipherOverhead ELSE 0
DataSize == (IF Coded THEN dataBlocks ELSE setting.maxBlocks) * BlockSize
bufferSize == DataSize - EncryptionOverhead

CapacityOfData == bufferSize   \* mutant: no room for what is added
bufferCapacity == bufferSize + EncryptionOverhead + (IF Coded THEN CodeOverhead ELSE 0)

\* readUpTo; less than a buffer at the end of the file.
Read ==
  /\ layoutPhase = "read"
  /\ fileBytes' \in 1..bufferSize /\ len' = fileBytes' /\ cap' = bufferCapacity
  /\ layoutPhase' = "encrypt"
  /\ UNCHANGED <<setting, blockSize, numBlocks, inner, sizePrefix>>

\* encryption.Encrypt makes room for the nonce within the capacity.
EncryptChunk ==
  /\ layoutPhase = "encrypt"
  /\ IF Encrypted /\ cap < len + CipherOverhead
       THEN layoutPhase' = "ErrBufferTooSmall" /\ UNCHANGED len
       ELSE layoutPhase' = "encode" /\ len' = len + EncryptionOverhead
  /\ UNCHANGED <<setting, fileBytes, cap, blockSize, numBlocks, inner, sizePrefix>>

\* Encode: wrapData, Split and the shards in one slice.
Encode ==
  /\ layoutPhase = "encode"
  /\ layoutPhase' = "dag"
  /\ IF Coded
       THEN /\ sizePrefix' = len
            /\ blockSize' = CeilDiv(len + CodeOverhead, dataBlocks)
            /\ len' = blockSize' * setting.maxBlocks
            /\ cap' = len'
       ELSE blockSize' = BlockSize /\ UNCHANGED <<sizePrefix, len, cap>>
  /\ UNCHANGED <<setting, fileBytes, numBlocks, inner>>

\* The links of the root are the leaves while there are no more than Maxlinks of them.
BuildDAG ==
  /\ layoutPhase = "dag"
  /\ LET leaves == CeilDiv(len, blockSize) IN
     /\ inner' = (leaves > Maxlinks)
     /\ numBlocks' = IF leaves > Maxlinks THEN CeilDiv(leaves, Maxlinks) ELSE leaves
  /\ layoutPhase' = "sign"
  /\ UNCHANGED <<setting, fileBytes, len, cap, blockSize, sizePrefix>>

\* uploadChunk signs every block with its index, which must fit its type.
SignBlock ==
  /\ layoutPhase = "sign"
  /\ layoutPhase' = IF numBlocks > IndexSpace THEN "not signed" ELSE "stored"
  /\ UNCHANGED <<setting, fileBytes, len, cap, blockSize, numBlocks, inner, sizePrefix>>

\* Download: ExtractBlockData finds no data in an inner node; ExtractData joins the data
\* shards and unwraps, or blocks are joined.
ExtractChunk ==
  /\ layoutPhase = "stored"
  /\ IF inner \/ (Coded /\ (numBlocks # setting.maxBlocks \/ sizePrefix + CodeOverhead > blockSize * dataBlocks))
       THEN layoutPhase' = "no data" /\ UNCHANGED len
       ELSE layoutPhase' = "decrypt" /\ len' = IF Coded THEN sizePrefix ELSE len
  /\ UNCHANGED <<setting, fileBytes, cap, blockSize, numBlocks, inner, sizePrefix>>

Decrypt ==
  /\ layoutPhase = "decrypt"
  /\ IF Encrypted /\ len < CipherOverhead
       THEN layoutPhase' = "ErrUnexpectedEOF" /\ UNCHANGED len
       ELSE layoutPhase' = "received" /\ len' = len - EncryptionOverhead
  /\ UNCHANGED <<setting, fileBytes, cap, blockSize, numBlocks, inner, sizePrefix>>

LayoutEnded == layoutPhase \in {"refused", "ErrBufferTooSmall", "not signed", "no data", "ErrUnexpectedEOF", "received"} /\ UNCHANGED layoutVars

LayoutNext == New \/ Read \/ EncryptChunk \/ Encode \/ BuildDAG \/ SignBlock \/ ExtractChunk \/ Decrypt \/ LayoutEnded

LayoutSpec == LayoutInit /\ [][LayoutNext]_layoutVars
-----------------------------------------------------------------------------
(* Properties.                                                             *)

\* With every setting New accepts, the buffer is read full and still has the room that
\* encryption and wrapping need in place; the chunk has no more blocks than maxBlocksInChunk,
\* exactly that many when it is erasure coded, none longer than BlockSize but for the bytes
\* that wrapping adds; and what is downloaded is as long as what was read, unless there are
\* more blocks than a block's index or the root of the DAG can take.
ChunkFits ==
  /\ layoutPhase # "ErrBufferTooSmall" /\ layoutPhase # "ErrUnexpectedEOF"
  /\ layoutPhase = "encode" /\ Coded => cap >= len + CodeOverhead
  /\ layoutPhase = "stored" /\ ~inner =>
       /\ numBlocks <= setting.maxBlocks /\ (Coded => numBlocks = setting.maxBlocks)
       /\ blockSize <= BlockSize + CodeOverhead
  /\ layoutPhase = "no data" => setting.maxBlocks > Maxlinks
  /\ layoutPhase = "not signed" => setting.maxBlocks > IndexSpace
  /\ layoutPhase = "received" => len = fileBytes
=============================================================================
