---------------------------- MODULE StripeCoding -----------------------------
(***************************************************************************)
(* The erasure coding of a chunk of Upload2 and its inverse in Download2:  *)
(* the ciphertext is cut into stripes, every stripe is encoded to shards   *)
(* in the memory of the ciphertext as far as the library finds room there, *)
(* and block i is made of the i-th shards of all stripes.  The downloader  *)
(* takes the size from the header at the front of the blocks, cuts every   *)
(* block into the shards of the stripes again, and decodes stripe by       *)
(* stripe.                                                                 *)
(***************************************************************************)
EXTENDS ErasureCode

CONSTANTS
  maxStripeSize,  \* 2 MiB
  SizeBytes,     \* bytes that tell the size of the ciphertext
  Sizes,          \* sizes of the ciphertext
  Capacity,       \* of the buffer it is in
  MaxDamaged      \* blocks with a damaged byte, at most

\* For the last conjunct see the comment in downloadChunkBlocksV2.
ASSUME StripeAssumption ==
  /\ {maxStripeSize, SizeBytes, Capacity} \subseteq Nat \ {0} /\ MaxDamaged \in Nat
  /\ SizeBytes = 2 /\ Sizes \subseteq SizeBytes..Capacity /\ Capacity < Field * Field
  /\ CeilDiv(maxStripeSize, DataBlocks) >= SizeBytes

VARIABLES
  size,        \* of the ciphertext
  original,    \* the ciphertext
  mem,         \* the uploader's buffer
  shards,      \* the shards of the stripes encoded so far
  phase,       \* "encode", "stored", "decode", "ended"
  blocks,      \* the blocks as the nodes have them
  damaged,     \* blocks with a wrong byte
  recovered,   \* size of the ciphertext, from its header
  blockOffset, \* in every block, what has been decoded of it
  ciphertext   \* decoded so far, or Failed

uploadVars == <<size, original, mem, shards>>
vars == <<size, original, mem, shards, phase, blocks, damaged, recovered, blockOffset, ciphertext>>

Panic == <<-2>>

\* The header holds the size of the plaintext, which determines that of the ciphertext.
SizeHeader(c) == <<c \div Field, c % Field>>
ParseHeader(h) == h[1] * Field + h[2]

StripeSize(c, j) == LesserOf(maxStripeSize, c - j * maxStripeSize)

StripeCapWhole(c, j) == Capacity - j * maxStripeSize   \* mutant: the slice may grow into the next stripes

\* SplitStripes gives stripe j no room beyond its end.
StripeCap(c, j) == StripeSize(c, j)

Init ==
  /\ size \in Sizes
  /\ \E fill \in Byte :
       mem = SizeHeader(size) \o [k \in 1..(Capacity - SizeBytes) |-> (fill * k + 1) % Field]
  /\ original = SubSeq(mem, 1, size)
  /\ shards = <<>> /\ phase = "encode" /\ blocks = <<>> /\ damaged = {}
  /\ recovered = 0 /\ blockOffset = 0 /\ ciphertext = <<>>

EncodeStripe ==
  LET j   == Len(shards)
      at  == j * maxStripeSize
      len == StripeSize(size, j)
  IN  /\ phase = "encode" /\ j < CeilDiv(size, maxStripeSize)
      /\ shards' = Append(shards, Shards(mem, at, len))
      /\ mem' = MemoryAfter(mem, at, len, StripeCap(size, j))
      /\ UNCHANGED <<size, original, phase, blocks, damaged, recovered, blockOffset, ciphertext>>

\* Shard i of stripe j when the blocks are put together: what lies in the buffer may have
\* been overwritten meanwhile.
ShardNow(i, j) ==
  LET len == StripeSize(size, j - 1) IN
  IF InMemory(len, StripeCap(size, j - 1), i)
    THEN LET from == (j - 1) * maxStripeSize + (i - 1) * ShardSize(len)
         IN  SubSeq(mem, from + 1, from + ShardSize(len))
    ELSE shards[j][i]

ColumnMajor == FlattenSeq([i \in 1..Total |-> FlattenSeq([j \in 1..Len(shards) |-> ShardNow(i, j)])])

\* BuildDAG cuts the data every blockSize bytes; every block is stored on a node.
BuildBlocks ==
  /\ phase = "encode" /\ Len(shards) = CeilDiv(size, maxStripeSize)
  /\ LET blockSize == Len(ColumnMajor) \div Total
     IN  blocks' = [i \in 1..Total |-> SubSeq(ColumnMajor, (i - 1) * blockSize + 1, i * blockSize)]
  /\ phase' = "stored"
  /\ UNCHANGED <<size, original, mem, shards, damaged, recovered, blockOffset, ciphertext>>

Damage ==
  /\ phase = "stored" /\ Cardinality(damaged) < MaxDamaged
  /\ \E i \in DOMAIN blocks \ damaged :
       /\ \E k \in DOMAIN blocks[i] : blocks' = [blocks EXCEPT ![i][k] = (@ + 1) % Field]
       /\ damaged' = damaged \union {i}
  /\ UNCHANGED <<size, original, mem, shards, phase, recovered, blockOffset, ciphertext>>

\* Whole data blocks, until there are enough bytes for the header.
RecoverSize ==
  /\ phase = "stored"
  /\ recovered' = ParseHeader(SubSeq(Join(blocks), 1, SizeBytes))
  /\ phase' = "decode"
  /\ UNCHANGED <<uploadVars, blocks, damaged, blockOffset, ciphertext>>

\* One turn of the loop over the stripes.  A size that is not that of the blocks, from a
\* damaged header, takes slices beyond their end.
DecodeStripe ==
  LET j         == blockOffset \div CeilDiv(maxStripeSize, DataBlocks)
      shardSize == CeilDiv(StripeSize(recovered, j), DataBlocks)
      inRange   == blockOffset + shardSize <= Len(blocks[1])
      stripe    == Extract([i \in 1..Total |-> SubSeq(blocks[i], blockOffset + 1, blockOffset + shardSize)])
  IN  /\ phase = "decode" /\ j < CeilDiv(recovered, maxStripeSize)
      /\ blockOffset' = IF inRange /\ stripe # Failed THEN blockOffset + shardSize ELSE blockOffset
      /\ ciphertext' = IF ~inRange THEN Panic
                       ELSE IF stripe = Failed THEN Failed ELSE ciphertext \o stripe
      /\ phase' = IF ~inRange \/ stripe = Failed \/ (j + 1) * maxStripeSize >= recovered THEN "ended" ELSE phase
      /\ UNCHANGED <<uploadVars, blocks, damaged, recovered>>

\* A header damaged to size zero leaves nothing to decode, and nothing to decrypt.
NothingToDecode ==
  /\ phase = "decode" /\ recovered = 0
  /\ phase' = "ended"
  /\ UNCHANGED <<uploadVars, blocks, damaged, recovered, blockOffset, ciphertext>>

Ended == phase = "ended" /\ UNCHANGED vars

Next ==
  \/ EncodeStripe \/ BuildBlocks \/ Damage \/ RecoverSize \/ DecodeStripe \/ NothingToDecode \/ Ended

Spec == Init /\ [][Next]_vars
-----------------------------------------------------------------------------
(* Properties.                                                             *)

\* Undamaged blocks give back the ciphertext, in order and to the byte, although the library
\* computes parity in whatever room a slice has behind its length.  No more damaged blocks
\* than there is parity never give a wrong ciphertext: the download fails, or none of the
\* damage is in what is decoded.
NeverWrong ==
  phase = "ended" =>
    /\ damaged = {} => ciphertext = original
    /\ Cardinality(damaged) <= ParityBlocks /\ ciphertext \notin {Failed, Panic} =>
         IsPrefix(ciphertext, original)

\* "ExtractDataRaw extracts the original data from encoded shards without unwrapping.
\* originalSize must be the exact byte count of the data passed to EncodeRaw"
\* (erasure_code.go:121): so the size of what it extracts is that count.
ExtractsOriginal == phase = "ended" /\ damaged = {} => ciphertext = original
=============================================================================
