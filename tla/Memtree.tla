------------------------------- MODULE Memtree -------------------------------
(***************************************************************************)
(* Package merkletree: a reader that pads its data with zeros, the Merkle  *)
(* tree of what it reads in one buffer, level after level, and the proof   *)
(* of a leaf.  A node of the buffer is a tuple: of what is read for it, or *)
(* of the two nodes it is the hash of.                                     *)
(***************************************************************************)
EXTENDS Integers, Sequences, SequencesExt

CONSTANTS
  Lengths,     \* lengths of what the underlying reader has, in leaves
  MaxLeaves    \* leaves of a tree

MemtreeAssumption == Lengths \subseteq Nat /\ MaxLeaves \in Nat \ {0}

VARIABLES
  data,     \* leaves the underlying reader has
  nLeaves,  \* total of the reader, and leaves of the tree
  phase,    \* "read", "build", "proof", "verify", "done" or "error"
  at,       \* leaves taken from the underlying reader
  mem,      \* unpadBuf, then memtreeBuf
  proof,    \* of a leaf: the leaf, the siblings and the root
  index,    \* the index it was made for
  claim     \* the index it is verified for

vars == <<data, nLeaves, phase, at, mem, proof, index, claim>>

Zero == <<0>>
Hash(l, r) == <<l, r>>
NoProof == [Leaf |-> Zero, Proof |-> <<>>, Root |-> Zero]

\* computeTotalNodes: the sizes of the levels.
LevelSizes[c \in 1..MaxLeaves] == IF c = 1 THEN <<1>> ELSE <<c>> \o LevelSizes[(c + 1) \div 2]
Total(sizes) == FoldSeq(LAMBDA a, b : a + b, 0, sizes)
LevelStart(sizes, l) == Total(SubSeq(sizes, 1, l - 1))

Init ==
  /\ \E k \in Lengths : data = [i \in 1..k |-> <<i>>]
  /\ nLeaves \in 1..MaxLeaves
  /\ phase = "read" /\ at = 0 /\ mem = <<>>
  /\ proof = NoProof /\ index = 0 /\ claim = 0

\* Read with a buffer of want leaves, as ReadFull calls it: short reads, and zeros after the
\* end of the data, which the reader underneath may announce with its last bytes or after them.
PaddedRead ==
  LET want == nLeaves - Len(mem) IN
  /\ phase = "read" /\ want > 0
  /\ \E k \in 0..want :
       /\ at + k <= Len(data)
       /\ \/ k > 0 /\ mem' = mem \o SubSeq(data, at + 1, at + k)
          \/ at + k = Len(data) /\ mem' = mem \o SubSeq(data, at + 1, at + k) \o [z \in 1..(want - k) |-> Zero]
       /\ at' = at + k
  /\ UNCHANGED <<data, nLeaves, phase, proof, index, claim>>

ReadFull ==
  /\ phase = "read" /\ Len(mem) = nLeaves
  /\ phase' = "build"
  /\ UNCHANGED <<data, nLeaves, at, mem, proof, index, claim>>

LeftOffByLevel(level, i) == 2 * i   \* mutant: always hashes the leaves

\* Index in the buffer of the left child of node i of a level; its sibling follows it.
LeftOffset(level, i) == LevelStart(LevelSizes[nLeaves], level - 1) + 2 * i

\* One turn of the loops of BuildSha254Memtree: the next node of the buffer.
HashNode ==
  LET sizes == LevelSizes[nLeaves]
      level == CHOOSE l \in DOMAIN sizes :
                 LevelStart(sizes, l) <= Len(mem) /\ Len(mem) < LevelStart(sizes, l) + sizes[l]
      left  == LeftOffset(level, Len(mem) - LevelStart(sizes, level))
  IN  /\ phase = "build" /\ Len(mem) < Total(sizes)
      /\ mem' = Append(mem, Hash(mem[left + 1], mem[left + 2]))
      /\ UNCHANGED <<data, nLeaves, phase, at, proof, index, claim>>

Built ==
  /\ phase = "build" /\ Len(mem) = Total(LevelSizes[nLeaves])
  /\ phase' = "proof"
  /\ UNCHANGED <<data, nLeaves, at, mem, proof, index, claim>>

Sibling(i) == IF i % 2 = 0 THEN i + 1 ELSE i - 1
Above(i, levels) == i \div 2^levels

\* The number of leaves is taken from that of the nodes, which tells only some of them.
MemtreeProof ==
  LET leaves == (Len(mem) + 1) \div 2
      sizes  == LevelSizes[leaves]
      Node(l, i) == mem[LevelStart(sizes, l) + i + 1]
  IN  /\ phase = "proof"
      /\ IF Total(sizes) # Len(mem)
           THEN phase' = "error" /\ UNCHANGED <<proof, index>>
           ELSE \E i \in 0..(leaves - 1) :
                  /\ index' = i
                  /\ proof' = [Leaf  |-> Node(1, i),
                               Proof |-> [l \in 1..(Len(sizes) - 1) |-> Node(l, Sibling(Above(i, l - 1)))],
                               Root  |-> mem[LevelStart(sizes, Len(sizes)) + 1]]
                  /\ phase' = "verify"
      /\ UNCHANGED <<data, nLeaves, at, mem, claim>>

\* The hash the proof leads to from its leaf at an index.
Climb(p, i) ==
  FoldLeft(LAMBDA current, l : IF Above(i, l - 1) % 2 = 0 THEN Hash(current, p.Proof[l]) ELSE Hash(p.Proof[l], current),
           p.Leaf, [l \in DOMAIN p.Proof |-> l])

VerifyMerkleProof(p, i) == Climb(p, i) = p.Root

\* Somebody verifies the proof, for the index it was made for or for another one.
Verify ==
  /\ phase = "verify"
  /\ claim' \in 0..(nLeaves - 1)
  /\ phase' = IF VerifyMerkleProof(proof, claim') THEN "verified" ELSE "done"
  /\ UNCHANGED <<data, nLeaves, at, mem, proof, index>>

Ended == phase \in {"done", "verified", "error"} /\ UNCHANGED vars

Next == PaddedRead \/ ReadFull \/ HashNode \/ Built \/ MemtreeProof \/ Verify \/ Ended

Spec == Init /\ [][Next]_vars
-----------------------------------------------------------------------------
(* Properties.                                                             *)

\* A proof verifies for the leaf it was made for, and for another index only when the leaf
\* there is the same; the root commits to the data padded with zeros, however it was read;
\* and a tree of a power of two of leaves, as pieces have, always gives proofs.
ProofsSound ==
  /\ phase = "done" => claim # index
  /\ phase = "verified" => mem[claim + 1] = proof.Leaf
  /\ phase = "verify" => proof.Leaf = IF index < Len(data) THEN data[index + 1] ELSE Zero
  /\ phase = "error" => nLeaves \notin {1, 2, 4, 8}
=============================================================================
