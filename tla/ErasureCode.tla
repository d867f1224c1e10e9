----------------------------- MODULE ErasureCode -----------------------------
(***************************************************************************)
(* Package erasurecode and what it takes from the Reed-Solomon library: a  *)
(* systematic code with the property of the real one, that any DataBlocks  *)
(* symbols of a codeword determine it.  A byte is a member of the field of *)
(* Field elements; the memory a slice lies in is a sequence of bytes that  *)
(* the library may write to.                                               *)
(***************************************************************************)
EXTENDS CodingMath, Sequences, FiniteSets, SequencesExt

CONSTANTS
  DataBlocks,     \* data shards
  ParityBlocks,   \* parity shards
  Field           \* a prime, the number of values of a byte

Total == DataBlocks + ParityBlocks

\* New refuses empty shard counts; the code has one evaluation point for each shard.
ASSUME CodeAssumption ==
  /\ DataBlocks \in Nat \ {0} /\ ParityBlocks \in Nat \ {0}
  /\ Field \in Nat /\ Total <= Field

Byte == 0..(Field - 1)
Power[b \in 0..Field, e \in 0..DataBlocks] == IF e = 0 THEN 1 ELSE b * Power[b, e - 1]
Total3(f) == FoldSeq(LAMBDA a, b : a + b, 0, f)

\* Values at Total points of the polynomials of degree below DataBlocks.
Codewords ==
  {[i \in 1..Total |-> Total3([j \in 1..DataBlocks |-> a[j] * Power[i - 1, j - 1]]) % Field] :
     a \in [1..DataBlocks -> Byte]}

\* The codeword with the symbols of row at the positions of its domain, DataBlocks of them.
CodewordOf(row) == CHOOSE c \in Codewords : \A i \in DOMAIN row : c[i] = row[i]
-----------------------------------------------------------------------------
(* The library.  A missing shard has no bytes.                             *)

Missing == <<>>
Present(blocks) == {i \in DOMAIN blocks : blocks[i] # Missing}
SizeOf(blocks) ==
  IF Present(blocks) = {} THEN 0 ELSE Len(blocks[CHOOSE i \in Present(blocks) : \A j \in Present(blocks) : i <= j])
Row(blocks, r) == [i \in Present(blocks) |-> blocks[i][r]]

Verify(blocks) ==
  LET size == SizeOf(blocks) IN
  CASE Len(blocks) # Total -> "too few shards"
    [] Len(blocks) = Total /\ size = 0 -> "no data"
    [] Len(blocks) = Total /\ size # 0 /\ \E i \in DOMAIN blocks : Len(blocks[i]) # size -> "shard size"
    [] OTHER -> IF \A r \in 1..size : Row(blocks, r) \in Codewords THEN "ok" ELSE "mismatch"

CanReconstruct(blocks) ==
  /\ Cardinality(Present(blocks)) >= DataBlocks
  /\ \A i \in Present(blocks) : Len(blocks[i]) = SizeOf(blocks)

\* Missing data shards come from the first DataBlocks present ones, then missing parity
\* shards from the data shards; shards that are present stay as they are.
Reconstruct(blocks) ==
  LET first == {i \in Present(blocks) :
                  Cardinality({j \in Present(blocks) : j < i}) < DataBlocks}
      Restored(r) == CodewordOf([i \in first |-> blocks[i][r]])
      Known(r) == [i \in 1..DataBlocks |-> IF i \in Present(blocks) THEN blocks[i][r] ELSE Restored(r)[i]]
      Filled(i, r) == IF i <= DataBlocks THEN Known(r)[i] ELSE CodewordOf(Known(r))[i]
  IN  [i \in 1..Total |->
         IF i \in Present(blocks) THEN blocks[i] ELSE [r \in 1..SizeOf(blocks) |-> Filled(i, r)]]

Join(blocks) == FlattenSeq(SubSeq(blocks, 1, DataBlocks))

\* Split and Encode of the data in mem[at+1..at+len], a slice with room for cap bytes: the
\* library pads and computes parity in that room, as far as whole shards fit into it, and
\* in new memory beyond.
ShardSize(len) == CeilDiv(len, DataBlocks)
RoomUsed(len, cap) == IF cap > len THEN LesserOf(cap, Total * ShardSize(len)) ELSE len
ShardByte(mem, at, len, i, r) ==
  LET DataByte(d) == LET k == (d - 1) * ShardSize(len) + r IN IF k <= len THEN mem[at + k] ELSE 0
  IN  IF i <= DataBlocks THEN DataByte(i) ELSE CodewordOf([d \in 1..DataBlocks |-> DataByte(d)])[i]
Shards(mem, at, len) ==
  [i \in 1..Total |-> [r \in 1..ShardSize(len) |-> ShardByte(mem, at, len, i, r)]]
InMemory(len, cap, i) == i * ShardSize(len) <= RoomUsed(len, cap)
MemoryAfter(mem, at, len, cap) ==
  [q \in DOMAIN mem |->
     LET k == q - at
         i == CeilDiv(k, ShardSize(len))
     IN  IF k <= len \/ k > RoomUsed(len, cap) THEN mem[q]
         ELSE IF InMemory(len, cap, i) THEN ShardByte(mem, at, len, i, k - (i - 1) * ShardSize(len))
         ELSE 0]
-----------------------------------------------------------------------------
(* What the two decoders share.                                            *)

Failed == <<-1>>

ExtractUnverified(blocks) == Join(blocks)   \* mutant: takes the data shards as they come

ExtractOnlyComplete(blocks) ==   \* mutant: does not reconstruct
  IF Verify(blocks) = "ok" THEN Join(blocks) ELSE Failed

\* ExtractDataRaw, which does not look at originalSize, and ExtractData without unwrapData.
Extract(blocks) ==
  IF Verify(blocks) = "ok" THEN Join(blocks)
  ELSE IF /\ Verify(blocks) = "shard size" /\ CanReconstruct(blocks)
          /\ Verify(Reconstruct(blocks)) = "ok"
    THEN Join(Reconstruct(blocks))
  ELSE Failed
=============================================================================
