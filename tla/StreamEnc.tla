------------------------------ MODULE StreamEnc ------------------------------
(***************************************************************************)
(* The encryption of the chunks of Upload2 and its inverse, package        *)
(* streamenc: a chunk is encrypted in place, block by block from the last  *)
(* to the first, in a buffer that all chunks share, and decrypted in place *)
(* from the first block to the last, the plaintext being compacted to the  *)
(* front.  The sizes are constants, with the relations they have in the    *)
(* code.  A byte is a symbol: which plaintext byte it is, or which byte of *)
(* which sealed text.                                                      *)
(***************************************************************************)
EXTENDS CodingMath, Sequences

CONSTANTS
  MaxBlockSize,   \* 32 KiB
  HeaderSize,     \* version, nonce and plaintext size
  tagSize,
  ecDataBlocks,   \* what the size of a ciphertext is a multiple of
  Targets,        \* values of targetCiphertextSize
  NumChunks,      \* chunks read into the one buffer
  NonceSpace,     \* 2^32, the values of the counter in a nonce
  InitialNonces   \* initial values of that counter that are drawn

\* A tag is as long as a byte for each data block.  The header has four bytes for the size, so
\* that a chunk is never large enough for the counter in the nonces to come round.
ASSUME StreamAssumption ==
  /\ {MaxBlockSize, HeaderSize, NumChunks} \subseteq Nat
  /\ {ecDataBlocks, NonceSpace} \subseteq Nat \ {0} /\ tagSize = ecDataBlocks
  /\ MaxBlockSize > HeaderSize + tagSize /\ MaxBlockSize % ecDataBlocks = 0
  /\ Targets \subseteq 0..(NonceSpace * MaxBlockSize) /\ InitialNonces \subseteq 0..(NonceSpace - 1)

VARIABLES
  target,        \* capacity of buf
  buf,           \* the uploader's buffer
  n,             \* bytes of the chunk in it
  chunk,         \* chunks read so far
  streamPhase,   \* "read", "encrypt", "seal", "header", "open", "clear", ...
  step,          \* blocks of the chunk sealed, or opened
  nonce,         \* initialNonce of the chunk
  received,      \* the downloader's buffer
  offset         \* plaintext recovered in it

streamVars == <<target, buf, n, chunk, streamPhase, step, nonce, received, offset>>
-----------------------------------------------------------------------------
(* Sizes.                                                                  *)

Block0DataSize == MaxBlockSize - HeaderSize - tagSize
BlockNDataSize == MaxBlockSize - tagSize

MinCipherTextSize == CeilDiv(HeaderSize + tagSize + 1, ecDataBlocks) * ecDataBlocks

NumBlocks(size) ==
  CASE size = 0 -> 0
    [] size > 0 /\ size <= Block0DataSize -> 1
    [] OTHER -> 1 + CeilDiv(size - Block0DataSize, BlockNDataSize)

PlaintextStart(i) == IF i = 0 THEN 0 ELSE Block0DataSize + (i - 1) * BlockNDataSize

BlockDataSize(size, i) ==
  IF i = 0
    THEN IF NumBlocks(size) = 1 THEN size ELSE Block0DataSize
    ELSE IF i < NumBlocks(size) - 1 THEN BlockNDataSize ELSE size - PlaintextStart(i)

LastBlockPadding(blocks, lastData) ==
  LET filled == IF blocks = 1 THEN HeaderSize + lastData ELSE lastData
  IN  (ecDataBlocks - (filled % ecDataBlocks)) % ecDataBlocks

\* Bytes of a block that are sealed: the data, and the padding of the last block.
PaddedLen(size, i) ==
  LET data == BlockDataSize(size, i)
  IN  IF i = NumBlocks(size) - 1
        THEN data + LastBlockPadding(NumBlocks(size), data)
        ELSE IF i = 0 THEN Block0DataSize ELSE BlockNDataSize

TotalSize(size) ==
  LET last == NumBlocks(size) - 1
  IN  PaddedLen(size, last) + tagSize + (IF last = 0 THEN HeaderSize ELSE last * MaxBlockSize)

Overhead(size) == IF size = 0 THEN 0 ELSE TotalSize(size) - size

\* Targets that MaxPlaintextSizeForTarget accepts.
ValidTarget(t) == t >= MinCipherTextSize /\ t % ecDataBlocks = 0

MaxPlaintextForgetsTag(t) ==   \* mutant: no room for the tag of the last block
  LET blocks == CeilDiv(t, MaxBlockSize) IN
  IF blocks = 1
    THEN LesserOf(t - HeaderSize - tagSize, Block0DataSize)
    ELSE Block0DataSize + (blocks - 2) * BlockNDataSize
           + LesserOf(t - (blocks - 1) * MaxBlockSize, BlockNDataSize)

MaxPlaintextSizeForTarget(t) ==
  LET blocks == CeilDiv(t, MaxBlockSize) IN
  IF blocks = 1
    THEN LesserOf(t - HeaderSize - tagSize, Block0DataSize)
    ELSE Block0DataSize + (blocks - 2) * BlockNDataSize
           + LesserOf(t - (blocks - 1) * MaxBlockSize - tagSize, BlockNDataSize)

BlockNonceForgetsIndex(initial, i) == initial   \* mutant: one nonce for all blocks

BlockNonce(initial, i) == (initial + i) % NonceSpace
-----------------------------------------------------------------------------
(* Buffers are functions from positions, from 0, to bytes.                 *)

Plain(c, k) == <<"plain", c, k>>
Zero == <<"zero">>
Damaged == <<"damaged">>
\* AES-GCM: text sealed under a nonce; Open yields the text if it is given these bytes.
Sealed(v, text) == [k \in 1..(Len(text) + tagSize) |-> <<"sealed", v, text, k>>]
Header(v, size) == [k \in 1..HeaderSize |-> <<"header", v, size, k>>]

Slice(b, from, to) == [k \in 1..(to - from) |-> b[from + k - 1]]
Copied(b, at, s) ==
  [k \in DOMAIN b |-> IF k \in at..(at + Len(s) - 1) THEN s[k - at + 1] ELSE b[k]]
Cleared(b, from, to) == [k \in DOMAIN b |-> IF k \in from..(to - 1) THEN Zero ELSE b[k]]

NoBuffer == <<>>
-----------------------------------------------------------------------------
StreamInit ==
  /\ target \in {t \in Targets : ValidTarget(t)}
  /\ buf = [k \in 0..(target - 1) |-> Zero]
  /\ n = 0 /\ chunk = 0 /\ streamPhase = "read" /\ step = 0 /\ nonce = 0
  /\ received = NoBuffer /\ offset = 0

\* readUpTo fills the buffer, but for the last chunk of the stream.
ReadUpTo ==
  /\ streamPhase = "read" /\ chunk < NumChunks
  /\ LET bufSize == MaxPlaintextSizeForTarget(target) IN
     /\ n' \in IF chunk = NumChunks - 1 THEN 1..bufSize ELSE {bufSize}
     /\ buf' = Copied(buf, 0, [k \in 1..n' |-> Plain(chunk, k - 1)])
  /\ chunk' = chunk + 1
  /\ streamPhase' = "encrypt"
  /\ UNCHANGED <<target, step, nonce, received, offset>>

\* Without room for the ciphertext Encrypt returns ErrBufferTooSmall: see CiphertextSize.
Encrypt ==
  /\ streamPhase = "encrypt" /\ target >= TotalSize(n)
  /\ nonce' \in InitialNonces
  /\ step' = 0
  /\ streamPhase' = "seal"
  /\ UNCHANGED <<target, buf, n, chunk, received, offset>>

\* The block sealed when s have been: right to left.
BlockToSeal(s) == NumBlocks(n) - 1 - s

\* One turn of the loop of Encrypt.  The block goes through tmp, so reading it and
\* writing its ciphertext do not interfere.
SealBlock ==
  /\ streamPhase = "seal" /\ step < NumBlocks(n)
  /\ LET i     == BlockToSeal(step)
         start == PlaintextStart(i)
         end   == LesserOf(start + (IF i = 0 THEN Block0DataSize ELSE BlockNDataSize), n)
         tmp   == [k \in 1..PaddedLen(n, i) |-> IF k <= end - start THEN buf[start + k - 1] ELSE Zero]
         at    == IF i = 0 THEN HeaderSize ELSE i * MaxBlockSize
     IN  buf' = Copied(buf, at, Sealed(BlockNonce(nonce, i), tmp))
  /\ step' = step + 1
  /\ UNCHANGED <<target, n, chunk, streamPhase, nonce, received, offset>>

WriteHeader ==
  /\ streamPhase = "seal" /\ step = NumBlocks(n)
  /\ buf' = Copied(buf, 0, Header(nonce, n))
  /\ streamPhase' = "sent"
  /\ UNCHANGED <<target, n, chunk, step, nonce, received, offset>>

\* The chunk is uploaded, and downloaded into a buffer of its own; a node may have damaged a
\* byte of a block it stores.
Receive ==
  /\ streamPhase = "sent"
  /\ LET arrived == [k \in 0..(TotalSize(n) - 1) |-> buf[k]] IN
     \/ received' = arrived
     \/ \E k \in HeaderSize..(TotalSize(n) - 1) : received' = [arrived EXCEPT ![k] = Damaged]
  /\ step' = 0 /\ offset' = 0
  /\ streamPhase' = "open"
  /\ UNCHANGED <<target, buf, n, chunk, nonce>>

\* The slice of the buffer with block i, and the part of it that Open is given.
BlockStart(i) == i * MaxBlockSize
BlockEnd(i) == LesserOf(BlockStart(i) + MaxBlockSize, TotalSize(n))
SealedStart(i) == IF i = 0 THEN HeaderSize ELSE BlockStart(i)

TextOf(b, i) ==
  [k \in 1..(BlockEnd(i) - SealedStart(i) - tagSize) |->
     LET y == b[SealedStart(i) + k - 1] IN IF y = Damaged THEN y ELSE y[3][k]]
OpensAnything(b, i) == b[SealedStart(i)][1] = "sealed"   \* mutant: the tag is not checked

Opens(b, i) ==
  LET s == Slice(b, SealedStart(i), BlockEnd(i)) IN
  /\ s[1][1] = "sealed"
  /\ s = Sealed(BlockNonce(nonce, i), s[1][3])

\* DecryptBlock: in place, trailing bytes cleared, the text of block 0 moved over the header.
DecryptBlock(b, i) ==
  LET actual == BlockDataSize(n, i)
      opened == Copied(b, SealedStart(i), TextOf(b, i))
      trimmed == Cleared(opened, SealedStart(i) + actual, SealedStart(i) + Len(TextOf(b, i)))
  IN  IF i = 0 THEN Copied(trimmed, 0, Slice(trimmed, HeaderSize, HeaderSize + actual)) ELSE trimmed

\* One turn of the loop of DecryptAllBlocks, which knows n and the nonce from the header.
OpenBlock ==
  /\ streamPhase = "open" /\ step < NumBlocks(n)
  /\ Opens(received, step)
  /\ LET size == BlockDataSize(n, step)
         b    == DecryptBlock(received, step)
     IN  /\ received' = Copied(b, offset, Slice(b, BlockStart(step), BlockStart(step) + size))
         /\ offset' = offset + size
  /\ step' = step + 1
  /\ UNCHANGED <<target, buf, n, chunk, streamPhase, nonce>>

OpenFails ==
  /\ streamPhase = "open" /\ step < NumBlocks(n)
  /\ ~Opens(received, step)
  /\ streamPhase' = "corrupted"
  /\ UNCHANGED <<target, buf, n, chunk, step, nonce, received, offset>>

ClearRest ==
  /\ streamPhase = "open" /\ step = NumBlocks(n)
  /\ received' = Cleared(received, offset, TotalSize(n))
  /\ streamPhase' = "received"
  /\ UNCHANGED <<target, buf, n, chunk, step, nonce, offset>>

\* The next turn of Upload2's loop.
NextChunk ==
  /\ streamPhase = "received" /\ chunk < NumChunks
  /\ streamPhase' = "read" /\ received' = NoBuffer /\ step' = 0 /\ offset' = 0
  /\ UNCHANGED <<target, buf, n, chunk, nonce>>

StreamEnded ==
  /\ streamPhase = "corrupted" \/ (streamPhase = "received" /\ chunk = NumChunks)
  /\ UNCHANGED streamVars

StreamNext ==
  \/ ReadUpTo \/ Encrypt \/ SealBlock \/ WriteHeader
  \/ Receive \/ OpenBlock \/ OpenFails \/ ClearRest \/ NextChunk \/ StreamEnded

StreamSpec == StreamInit /\ [][StreamNext]_streamVars
-----------------------------------------------------------------------------
(* Properties.                                                             *)

\* The buffer Upload2 allocates for a target is enough for every chunk it reads into it: no
\* chunk fails with ErrBufferTooSmall.  A ciphertext can be dealt out to ecDataBlocks shards
\* without padding, and Overhead, from which the downloader computes its size, agrees with
\* what was written.  A chunk that fills the buffer uses the whole target, but for a target
\* whose last block has room for a tag only.
CiphertextSize ==
  /\ n > 0 => TotalSize(n) <= target
  /\ streamPhase = "sent" =>
       /\ TotalSize(n) % ecDataBlocks = 0
       /\ TotalSize(n) = n + Overhead(n)
       /\ \A k \in 0..(n + Overhead(n) - 1) : buf[k][1] \in {"header", "sealed"}
       /\ chunk < NumChunks /\ target % MaxBlockSize # tagSize => TotalSize(n) = target

\* A chunk that is decrypted yields the plaintext and nothing else, although its blocks were
\* encrypted in the buffer they were read into ("Encrypt blocks right-to-left so each block's
\* ciphertext never overwrites unprocessed plaintext", streamenc.go:203), are compacted over
\* blocks that are still to be opened, the uploader's buffer held another chunk before, and a
\* stored byte may be damaged; and an undamaged chunk is decrypted.
RoundTrip ==
  /\ streamPhase = "corrupted" => \E k \in DOMAIN received : received[k] = Damaged
  /\ streamPhase = "received" =>
       /\ offset = n
       /\ \A k \in DOMAIN received :
            received[k] = IF k < n THEN Plain(chunk - 1, k) ELSE Zero

\* No two blocks of a chunk are sealed under one nonce, also when its counter wraps.
NoncesDistinct ==
  streamPhase = "sent" =>
    \A i, j \in 0..(NumBlocks(n) - 1) :
      i # j => buf[SealedStart(i)][2] # buf[SealedStart(j)][2]
=============================================================================
