---------------------------- MODULE CodingProofs ----------------------------
(***************************************************************************)
(* What happens to the bytes of a chunk: proofs of the properties that     *)
(* MCCoding checks of the lengths of a chunk of Upload, for every size and *)
(* every setting, and of the encryption of the chunks of Upload2, for      *)
(* every size of block, header and tag, every target and every chunk.      *)
(***************************************************************************)
EXTENDS StreamEnc, ChunkLayout, TLAPS

-----------------------------------------------------------------------------
(* Quotients                                                               *)


LEMMA DivFacts ==
  ASSUME NEW x \in Nat, NEW b \in Nat \ {0}
  PROVE  /\ x \div b \in Nat /\ b * (x \div b) <= x /\ x < b * (x \div b) + b
  OBVIOUS

LEMMA Product ==
  ASSUME NEW b \in Nat \ {0}, NEW p \in Int, NEW q \in Int, b * p < b * q + b
  PROVE  p <= q
<1>1. CASE p > q
  <2>1. p >= q + 1 
    BY <1>1
  <2>2. b * p >= b * (q + 1)
    BY <2>1
  <2>. QED BY <2>2
<1>. QED BY <1>1

LEMMA CeilDivBounds ==
  ASSUME NEW a \in Nat, NEW b \in Nat \ {0}
  PROVE  /\ CeilDiv(a, b) \in Nat
         /\ a <= b * CeilDiv(a, b) /\ b * CeilDiv(a, b) < a + b
<1>1. a + b - 1 \in Nat
  OBVIOUS
<1>. QED
  BY <1>1, DivFacts DEF CeilDiv

LEMMA CeilDivLeast ==
  ASSUME NEW a \in Nat, NEW b \in Nat \ {0}, NEW k \in Nat, a <= b * k
  PROVE  CeilDiv(a, b) <= k
<1>. DEFINE q == CeilDiv(a, b)
<1>1. q \in Nat /\ b * q < a + b
  BY CeilDivBounds
<1>. HIDE DEF q
<1>2. b * q < b * k + b
  BY <1>1
<1>3. q <= k
  BY <1>1, <1>2, Product
<1>. QED
  BY <1>3 DEF q

LEMMA CeilDivExact ==
  ASSUME NEW b \in Nat \ {0}, NEW k \in Nat
  PROVE  CeilDiv(b * k, b) = k
<1>. DEFINE q == CeilDiv(b * k, b)
<1>1. b * k \in Nat
  OBVIOUS
<1>2. q \in Nat /\ b * k <= b * q /\ q <= k
  BY <1>1, CeilDivBounds, CeilDivLeast
<1>. HIDE DEF q
<1>3. k <= q
  BY <1>2, Product
<1>4. q = k
  BY <1>2, <1>3
<1>. QED
  BY <1>4 DEF q

-----------------------------------------------------------------------------
(* Multiples                                                               *)

LEMMA ModFacts ==
  ASSUME NEW x \in Nat, NEW b \in Nat \ {0}
  PROVE  /\ x % b \in 0..(b - 1) /\ x = b * (x \div b) + (x % b) /\ x \div b \in Nat
<1>. DEFINE q == x \div b
            r == x % b
<1>1. r \in 0..(b - 1) /\ q \in Nat
  OBVIOUS
<1>2. r = x - b * q
  OBVIOUS
<1>. HIDE DEF q, r
<1>3. x = b * q + r
  BY <1>1, <1>2
<1>. QED
  BY <1>1, <1>3 DEF q, r

LEMMA MultipleMod ==
  ASSUME NEW b \in Nat \ {0}, NEW k \in Nat
  PROVE  (b * k) % b = 0
<1>. DEFINE x == b * k
            q == x \div b
            r == x % b
<1>1. x \in Nat
  OBVIOUS
<1>2. r \in 0..(b - 1) /\ x = b * q + r /\ q \in Nat
  BY <1>1, ModFacts
<1>3. r = b * (k - q)
  BY <1>2
<1>. HIDE DEF q, r
<1>4. ASSUME k - q # 0 PROVE FALSE
  <2>1. CASE k - q >= 1
    <3>1. b * (k - q) >= b
      BY <2>1, <1>2
    <3>. QED
      BY <1>2, <1>3, <3>1
  <2>2. CASE k - q <= -1
    <3>1. b * (k - q) <= -b
      BY <2>2, <1>2
    <3>. QED
      BY <1>2, <1>3, <3>1
  <2>. QED
    BY <1>2, <1>4, <2>1, <2>2
<1>5. r = 0
  BY <1>3, <1>4
<1>. QED
  BY <1>5 DEF r

LEMMA SmallMod ==
  ASSUME NEW b \in Nat \ {0}, NEW x \in 0..(b - 1)
  PROVE  x % b = x
  OBVIOUS

\* What is padded to a multiple is the least multiple.
LEMMA PadLeast ==
  ASSUME NEW x \in Nat, NEW b \in Nat \ {0}
  PROVE  LET pad == (b - (x % b)) % b IN
         /\ pad \in Nat /\ (x + pad) % b = 0
         /\ \A y \in Nat : y % b = 0 /\ x <= y => x + pad <= y
<1>. DEFINE q == x \div b
            r == x % b
            pad == (b - r) % b
<1>1. r \in 0..(b - 1) /\ x = b * q + r /\ q \in Nat
  BY ModFacts
<1>. HIDE DEF q, r
<1>2. CASE r = 0
  <2>1. pad = 0
    <3>1. (b * 1) % b = 0
      BY MultipleMod
    <3>. QED
      BY <1>2, <3>1
  <2>2. (x + 0) % b = 0
    BY <1>1, <1>2, MultipleMod
  <2>. QED
    BY <2>1, <2>2 DEF r
<1>3. CASE r # 0
  <2>1. pad = b - r
    <3>1. b - r \in 0..(b - 1)
      BY <1>1, <1>3
    <3>. QED
      BY <3>1, SmallMod
  <2>2. x + pad = b * (q + 1)
    BY <1>1, <2>1
  <2>3. (x + pad) % b = 0
    <3>1. q + 1 \in Nat
      BY <1>1
    <3>2. (b * (q + 1)) % b = 0
      BY <3>1, MultipleMod
    <3>. HIDE DEF pad
    <3>. QED
      BY <2>2, <3>2
  <2>4. ASSUME NEW y \in Nat, y % b = 0, x <= y
        PROVE  x + pad <= y
    <3>. DEFINE p == y \div b
    <3>1. y = b * p /\ p \in Nat
      BY <2>4, ModFacts
    <3>. HIDE DEF p
    <3>2. b * q < b * p
      BY <1>1, <1>3, <2>4, <3>1
    <3>3. q + 1 <= p
      <4>1. CASE p <= q
        <5>1. b * p <= b * q
          BY <1>1, <3>1, <4>1
        <5>. QED
          BY <1>1, <3>1, <3>2, <5>1
      <4>. QED
        BY <1>1, <3>1, <4>1
    <3>4. b * (q + 1) <= b * p
      BY <1>1, <3>1, <3>3
    <3>. QED
      BY <2>2, <3>1, <3>4
  <2>5. pad \in Nat
    BY <1>1, <1>3, <2>1
  <2>. QED
    BY <2>3, <2>4, <2>5 DEF r
<1>. QED
  BY <1>2, <1>3

LEMMA MultiplesSum ==
  ASSUME NEW b \in Nat \ {0}, NEW x \in Nat, NEW y \in Nat, x % b = 0, y % b = 0
  PROVE  /\ (x + y) % b = 0
         /\ x <= y => (y - x) % b = 0
         /\ \A k \in Nat : (k * x) % b = 0
         /\ x < y => x + b <= y
<1>. DEFINE p == x \div b
            q == y \div b
<1>1. x = b * p /\ y = b * q /\ p \in Nat /\ q \in Nat
  BY ModFacts
<1>. HIDE DEF p, q
<1>2. x + y = b * (p + q)
  BY <1>1
<1>3. ASSUME x <= y PROVE p <= q /\ y - x = b * (q - p)
  <2>1. b * p < b * q + b
    BY <1>1, <1>3
  <2>. QED
    BY <1>1, <2>1, Product
<1>4. ASSUME NEW k \in Nat PROVE (k * x) % b = 0
  <2>1. k * x = b * (k * p) /\ k * p \in Nat
    BY <1>1
  <2>. QED
    BY <2>1, MultipleMod
<1>5. ASSUME x < y PROVE x + b <= y
  <2>1. p # q /\ p <= q
    BY <1>1, <1>3, <1>5
  <2>2. b * (p + 1) <= b * q
    BY <1>1, <2>1
  <2>. QED
    BY <1>1, <2>2
<1>. QED
  BY <1>1, <1>2, <1>3, <1>4, <1>5, MultipleMod

LEMMA ModUnique ==
  ASSUME NEW b \in Nat \ {0}, NEW q \in Int, NEW r \in 0..(b - 1)
  PROVE  (b * q + r) % b = r
<1>. DEFINE x == b * q + r
<1>1. x \in Int /\ x = b * q + r
  OBVIOUS
<1>. HIDE DEF x
<1>2. r = x % b
  BY <1>1
<1>. QED
  BY <1>2 DEF x

-----------------------------------------------------------------------------
(* Lengths of a chunk of Upload: invariant                                 *)

\* The bytes that are encoded; the chunk was read into the buffer.
EncryptedSize == fileBytes + EncryptionOverhead
ReadInv == Valid(setting) /\ fileBytes \in 1..bufferSize

\* The shards hold the wrapped data, and are not longer than a block and what wraps it.
ShardsInv ==
  /\ blockSize \in Nat \ {0} /\ blockSize <= BlockSize + CodeOverhead
  /\ IF Coded THEN /\ sizePrefix = EncryptedSize /\ len = blockSize * setting.maxBlocks
                   /\ sizePrefix + CodeOverhead <= blockSize * dataBlocks
     ELSE len = EncryptedSize /\ len <= blockSize * setting.maxBlocks

BlocksInv ==
  /\ numBlocks \in Nat /\ numBlocks <= setting.maxBlocks
  /\ inner \in BOOLEAN
  /\ IF inner THEN setting.maxBlocks > Maxlinks ELSE Coded => numBlocks = setting.maxBlocks

LayoutInv ==
  /\ setting \in Settings
  /\ layoutPhase \in {"new", "refused", "read", "encrypt", "encode", "dag", "sign", "not signed",
                      "stored", "no data", "decrypt", "received"}
  /\ layoutPhase = "read" => Valid(setting)
  /\ layoutPhase = "encrypt" => ReadInv /\ len = fileBytes /\ cap = bufferCapacity
  /\ layoutPhase = "encode" => ReadInv /\ len = EncryptedSize /\ cap = bufferCapacity
  /\ layoutPhase = "dag" => ReadInv /\ ShardsInv
  /\ layoutPhase \in {"sign", "stored", "not signed"} => ReadInv /\ ShardsInv /\ BlocksInv
  /\ layoutPhase = "not signed" => numBlocks > IndexSpace
  /\ layoutPhase = "no data" => setting.maxBlocks > Maxlinks
  /\ layoutPhase = "decrypt" => ReadInv /\ len = EncryptedSize
  /\ layoutPhase = "received" => len = fileBytes

-----------------------------------------------------------------------------
(* Lengths of a chunk of Upload: the invariant is kept                     *)

\* What the settings that New accepts make of the sizes.
LEMMA SizesOfSetting ==
  ASSUME setting \in Settings, Valid(setting)
  PROVE  /\ setting.maxBlocks \in Nat \ {0} /\ setting.parity \in Int /\ setting.parity < setting.maxBlocks
         /\ dataBlocks \in Int /\ dataBlocks = setting.maxBlocks - setting.parity
         /\ Coded => dataBlocks \in Nat \ {0} /\ dataBlocks < setting.maxBlocks
         /\ EncryptionOverhead \in Nat /\ EncryptionOverhead < BlockSize
         /\ Encrypted => EncryptionOverhead = CipherOverhead
         /\ BlockSize \in Nat \ {0} /\ CodeOverhead \in Nat \ {0} /\ CipherOverhead \in Nat \ {0}
<1>1. setting.maxBlocks \in Int /\ setting.parity \in Int /\ setting.key \in Nat
  BY ChunkLayoutAssumption
<1>2. setting.maxBlocks >= 2 /\ setting.parity <= setting.maxBlocks \div 2
  BY DEF Valid
<1>3. setting.maxBlocks \in Nat \ {0} /\ setting.parity < setting.maxBlocks
  BY <1>1, <1>2
<1>4. BlockSize \in Nat \ {0} /\ CodeOverhead \in Nat \ {0} /\ CipherOverhead \in Nat \ {0}
      /\ CipherOverhead < BlockSize
  BY ChunkLayoutAssumption
<1>. QED
  BY <1>1, <1>3, <1>4 DEF dataBlocks, Coded, EncryptionOverhead, Encrypted

\* The buffer of a chunk is not empty.
LEMMA BufferSizes ==
  ASSUME setting \in Settings, Valid(setting)
  PROVE  /\ bufferSize \in Nat /\ bufferSize + EncryptionOverhead = DataSize
         /\ DataSize = IF Coded THEN dataBlocks * BlockSize ELSE setting.maxBlocks * BlockSize
         /\ bufferCapacity = DataSize + (IF Coded THEN CodeOverhead ELSE 0)
<1>1. ASSUME NEW k \in Nat \ {0} PROVE k * BlockSize \in Nat /\ k * BlockSize >= BlockSize
  BY SizesOfSetting
<1>2. DataSize = IF Coded THEN dataBlocks * BlockSize ELSE setting.maxBlocks * BlockSize
  BY DEF DataSize
<1>3. DataSize \in Nat /\ DataSize >= BlockSize
  BY <1>1, <1>2, SizesOfSetting
<1>. QED
  BY <1>2, <1>3, SizesOfSetting DEF bufferSize, bufferCapacity

LEMMA EncryptedSizes ==
  ASSUME setting \in Settings, ReadInv
  PROVE  /\ EncryptedSize \in Nat \ {0} /\ EncryptedSize <= DataSize
         /\ fileBytes \in Nat /\ DataSize \in Nat
<1>1. Valid(setting) /\ fileBytes \in 1..bufferSize
  BY DEF ReadInv
<1>2. bufferSize \in Nat /\ bufferSize + EncryptionOverhead = DataSize /\ EncryptionOverhead \in Nat
  BY <1>1, BufferSizes, SizesOfSetting
<1>. QED
  BY <1>1, <1>2 DEF EncryptedSize

\* The shards of a coded chunk are no longer than a block and what wraps the data.
LEMMA ShardsFit ==
  ASSUME NEW k \in Nat \ {0}, NEW b \in Nat \ {0}, NEW w \in Nat \ {0}, NEW l \in Nat, l <= k * b
  PROVE  /\ CeilDiv(l + w, k) \in Nat \ {0} /\ CeilDiv(l + w, k) <= b + w
         /\ l + w <= CeilDiv(l + w, k) * k
<1>1. l + w \in Nat /\ k * (b + w) = k * b + k * w /\ k * w >= w /\ b + w \in Nat
  OBVIOUS
<1>2. l + w <= k * (b + w)
  BY <1>1
<1>3. CeilDiv(l + w, k) <= b + w
  BY <1>1, <1>2, CeilDivLeast
<1>4. CeilDiv(l + w, k) \in Nat /\ l + w <= k * CeilDiv(l + w, k)
  BY <1>1, CeilDivBounds
<1>5. CeilDiv(l + w, k) # 0
  BY <1>4
<1>. QED
  BY <1>3, <1>4, <1>5

LEMMA EncodeInv == LayoutInv /\ Encode => LayoutInv'
<1>. SUFFICES ASSUME LayoutInv, Encode PROVE LayoutInv'
  OBVIOUS
<1>1. ReadInv /\ len = EncryptedSize /\ setting \in Settings /\ layoutPhase' = "dag"
      /\ UNCHANGED <<setting, fileBytes, numBlocks, inner>>
  BY DEF Encode, LayoutInv
<1>2. Valid(setting)
  BY <1>1 DEF ReadInv
<1>3. len \in Nat \ {0} /\ len <= DataSize
  BY <1>1, EncryptedSizes
<1>4. ReadInv' /\ EncryptedSize' = EncryptedSize /\ Coded' = Coded /\ dataBlocks' = dataBlocks
  BY <1>1 DEF ReadInv, EncryptedSize, EncryptionOverhead, Encrypted, bufferSize, DataSize,
                  Coded, dataBlocks, Valid
<1>5. CASE Coded
  <2>1. sizePrefix' = len /\ blockSize' = CeilDiv(len + CodeOverhead, dataBlocks)
        /\ len' = blockSize' * setting.maxBlocks
    BY <1>5 DEF Encode
  <2>2. len <= dataBlocks * BlockSize
    BY <1>2, <1>3, <1>1, <1>5, BufferSizes
  <2>3. dataBlocks \in Nat \ {0} /\ BlockSize \in Nat \ {0} /\ CodeOverhead \in Nat \ {0}
    BY <1>1, <1>2, <1>5, SizesOfSetting
  <2>4. blockSize' \in Nat \ {0} /\ blockSize' <= BlockSize + CodeOverhead
        /\ len + CodeOverhead <= blockSize' * dataBlocks
    BY <1>3, <2>1, <2>2, <2>3, ShardsFit
  <2>5. ShardsInv'
    BY <1>1, <1>4, <1>5, <2>1, <2>4 DEF ShardsInv
  <2>. QED
    BY <1>1, <1>4, <2>5 DEF LayoutInv
<1>6. CASE ~Coded
  <2>1. blockSize' = BlockSize /\ len' = len
    BY <1>6 DEF Encode
  <2>2. len <= setting.maxBlocks * BlockSize
    BY <1>2, <1>3, <1>1, <1>6, BufferSizes
  <2>3. BlockSize \in Nat \ {0} /\ CodeOverhead \in Nat /\ setting.maxBlocks \in Nat
    BY <1>1, <1>2, SizesOfSetting
  <2>4. len <= BlockSize * setting.maxBlocks
    BY <2>2, <2>3
  <2>5. ShardsInv'
    BY <1>1, <1>4, <1>6, <2>1, <2>3, <2>4 DEF ShardsInv
  <2>. QED
    BY <1>1, <1>4, <2>5 DEF LayoutInv
<1>. QED
  BY <1>5, <1>6

LEMMA BuildDAGInv == LayoutInv /\ BuildDAG => LayoutInv'
<1>. SUFFICES ASSUME LayoutInv, BuildDAG PROVE LayoutInv'
  OBVIOUS
<1>. DEFINE leaves == CeilDiv(len, blockSize)
<1>1. ReadInv /\ ShardsInv /\ setting \in Settings /\ layoutPhase' = "sign"
      /\ UNCHANGED <<setting, fileBytes, len, cap, blockSize, sizePrefix>>
  BY DEF BuildDAG, LayoutInv
<1>2. inner' = (leaves > Maxlinks) /\ numBlocks' = IF leaves > Maxlinks THEN CeilDiv(leaves, Maxlinks) ELSE leaves
  BY DEF BuildDAG
<1>3. ReadInv' /\ ShardsInv' /\ Coded' = Coded
  BY <1>1 DEF ReadInv, ShardsInv, EncryptedSize, EncryptionOverhead, Encrypted, bufferSize, DataSize,
                  Coded, dataBlocks, Valid
<1>4. blockSize \in Nat \ {0} /\ setting.maxBlocks \in Nat /\ Maxlinks \in Nat \ {0}
  BY <1>1, SizesOfSetting, ChunkLayoutAssumption DEF ReadInv, ShardsInv
<1>5. leaves \in Nat /\ leaves <= setting.maxBlocks /\ (Coded => leaves = setting.maxBlocks)
  <2>1. CASE Coded
    BY <1>1, <1>4, <2>1, CeilDivExact DEF ShardsInv
  <2>2. CASE ~Coded
    <3>1. len \in Nat /\ len <= blockSize * setting.maxBlocks
      BY <1>1, <2>2, EncryptedSizes DEF ShardsInv
    <3>. QED
      BY <1>4, <2>2, <3>1, CeilDivBounds, CeilDivLeast
  <2>. QED
    BY <2>1, <2>2
<1>. HIDE DEF leaves
<1>6. CeilDiv(leaves, Maxlinks) \in Nat /\ CeilDiv(leaves, Maxlinks) <= leaves
  <2>1. leaves <= Maxlinks * leaves
    BY <1>4, <1>5
  <2>. QED
    BY <1>4, <1>5, <2>1, CeilDivBounds, CeilDivLeast
<1>7. BlocksInv'
  <2>1. CASE leaves > Maxlinks
    <3>1. inner' = TRUE
      BY <1>2, <2>1, Zenon
    <3>2. numBlocks' \in Nat /\ numBlocks' <= setting.maxBlocks /\ setting.maxBlocks > Maxlinks
      <4>1. numBlocks' = CeilDiv(leaves, Maxlinks)
        BY <1>2, <2>1, Zenon
      <4>. QED
        BY <1>4, <1>5, <1>6, <2>1, <4>1
    <3>. QED
      BY <1>1, <3>1, <3>2 DEF BlocksInv
  <2>2. CASE ~(leaves > Maxlinks)
    <3>1. numBlocks' = leaves
      BY <1>2, <2>2, Zenon
    <3>2. inner' = FALSE
      <4>1. (leaves > Maxlinks) = FALSE
        BY <1>4, <1>5, <2>2, SMT
      <4>. QED
        BY <1>2, <4>1, Zenon
    <3>3. numBlocks' \in Nat /\ numBlocks' <= setting.maxBlocks /\ (Coded => numBlocks' = setting.maxBlocks)
      BY <1>5, <3>1
    <3>. QED
      BY <1>1, <1>3, <3>2, <3>3 DEF BlocksInv
  <2>. QED
    BY <2>1, <2>2
<1>. QED
  BY <1>1, <1>3, <1>7 DEF LayoutInv

LEMMA LayoutInvInit == LayoutInit => LayoutInv
  BY DEF LayoutInit, LayoutInv

LEMMA LayoutInvNext == LayoutInv /\ [LayoutNext]_layoutVars => LayoutInv'
<1>. SUFFICES ASSUME LayoutInv, [LayoutNext]_layoutVars PROVE LayoutInv'
  OBVIOUS
<1>. USE DEF ReadInv, EncryptedSize, EncryptionOverhead, Encrypted, bufferSize, bufferCapacity, DataSize, Coded,
             dataBlocks, Valid
<1>1. CASE New
  BY <1>1 DEF New, LayoutInv
<1>2. CASE Read
  BY <1>2 DEF Read, LayoutInv
<1>3. CASE EncryptChunk
  <2>1. ReadInv /\ len = fileBytes /\ cap = bufferCapacity /\ setting \in Settings /\ layoutPhase = "encrypt"
        /\ UNCHANGED <<setting, fileBytes, cap, blockSize, numBlocks, inner, sizePrefix>>
    BY <1>3 DEF EncryptChunk, LayoutInv
  <2>2. ~(Encrypted /\ cap < len + CipherOverhead)
    <3>1. EncryptedSize \in Nat /\ EncryptedSize <= DataSize /\ DataSize \in Nat
      BY <2>1, EncryptedSizes
    <3>2. cap >= DataSize /\ cap \in Nat
      BY <2>1, <3>1, BufferSizes, SizesOfSetting
    <3>3. Encrypted => EncryptedSize = len + CipherOverhead
      BY <2>1
    <3>. HIDE DEF ReadInv, EncryptedSize, EncryptionOverhead, Encrypted, bufferSize, bufferCapacity, DataSize
    <3>. QED
      BY <3>1, <3>2, <3>3
  <2>3. layoutPhase' = "encode" /\ len' = len + EncryptionOverhead
    BY <1>3, <2>2 DEF EncryptChunk
  <2>. QED
    BY <2>1, <2>3 DEF LayoutInv
<1>4. CASE Encode
  BY <1>4, EncodeInv
<1>5. CASE BuildDAG
  BY <1>5, BuildDAGInv
<1>6. CASE SignBlock
  BY <1>6 DEF SignBlock, LayoutInv, ShardsInv, BlocksInv
<1>7. CASE ExtractChunk
  <2>1. ReadInv /\ ShardsInv /\ BlocksInv /\ setting \in Settings /\ layoutPhase = "stored"
        /\ UNCHANGED <<setting, fileBytes, cap, blockSize, numBlocks, inner, sizePrefix>>
    BY <1>7 DEF ExtractChunk, LayoutInv
  <2>2. CASE inner
    <3>1. layoutPhase' = "no data" /\ setting.maxBlocks > Maxlinks
      BY <1>7, <2>1, <2>2 DEF ExtractChunk, BlocksInv
    <3>. QED
      BY <2>1, <3>1 DEF LayoutInv
  <2>3. CASE ~inner
    <3>1. ~(Coded /\ (numBlocks # setting.maxBlocks \/ sizePrefix + CodeOverhead > blockSize * dataBlocks))
      <4>1. Coded => sizePrefix \in Nat /\ CodeOverhead \in Nat /\ blockSize * dataBlocks \in Int
                     /\ sizePrefix + CodeOverhead <= blockSize * dataBlocks
        <5>1. Coded => sizePrefix = EncryptedSize /\ sizePrefix + CodeOverhead <= blockSize * dataBlocks
          BY <2>1 DEF ShardsInv
        <5>2. EncryptedSize \in Nat /\ blockSize \in Nat /\ dataBlocks \in Int /\ CodeOverhead \in Nat
          BY <2>1, EncryptedSizes, SizesOfSetting DEF ShardsInv
        <5>. HIDE DEF ReadInv, EncryptedSize, Coded, dataBlocks
        <5>. QED
          BY <5>1, <5>2
      <4>2. Coded => numBlocks = setting.maxBlocks
        BY <2>1, <2>3 DEF BlocksInv
      <4>. HIDE DEF Coded, dataBlocks
      <4>. QED
        BY <4>1, <4>2
    <3>2. layoutPhase' = "decrypt" /\ len' = IF Coded THEN sizePrefix ELSE len
      BY <1>7, <2>3, <3>1 DEF ExtractChunk
    <3>3. len' = EncryptedSize
      BY <2>1, <3>2 DEF ShardsInv
    <3>. QED
      BY <2>1, <3>2, <3>3 DEF LayoutInv
  <2>. QED
    BY <2>2, <2>3
<1>8. CASE Decrypt
  <2>1. ReadInv /\ len = EncryptedSize /\ setting \in Settings /\ layoutPhase = "decrypt"
        /\ UNCHANGED <<setting, fileBytes, cap, blockSize, numBlocks, inner, sizePrefix>>
    BY <1>8 DEF Decrypt, LayoutInv
  <2>2. fileBytes \in Nat /\ EncryptionOverhead \in Nat /\ CipherOverhead \in Nat
    BY <2>1, EncryptedSizes, SizesOfSetting
  <2>3. layoutPhase' = "received" /\ len' = len - EncryptionOverhead
    BY <1>8, <2>1, <2>2 DEF Decrypt
  <2>4. len' = fileBytes
    BY <2>1, <2>2, <2>3
  <2>. QED
    BY <2>1, <2>3, <2>4 DEF LayoutInv
<1>9. CASE LayoutEnded \/ UNCHANGED layoutVars
  <2>1. UNCHANGED <<setting, layoutPhase, fileBytes, len, cap, blockSize, numBlocks, inner, sizePrefix>>
    BY <1>9 DEF LayoutEnded, layoutVars
  <2>2. /\ ReadInv' = ReadInv /\ EncryptedSize' = EncryptedSize /\ bufferCapacity' = bufferCapacity
        /\ Valid(setting)' = Valid(setting)
    BY <2>1
  <2>3. ShardsInv' = ShardsInv /\ BlocksInv' = BlocksInv
    BY <2>1 DEF ShardsInv, BlocksInv
  <2>. HIDE DEF ReadInv, EncryptedSize, bufferCapacity, Valid
  <2>. QED
    BY <2>1, <2>2, <2>3 DEF LayoutInv
<1>. QED
  BY <1>1, <1>2, <1>3, <1>4, <1>5, <1>6, <1>7, <1>8, <1>9 DEF LayoutNext

LEMMA LayoutInvFits == LayoutInv => ChunkFits
<1>. SUFFICES ASSUME LayoutInv PROVE ChunkFits
  OBVIOUS
<1>1. ASSUME layoutPhase = "encode", Coded
      PROVE  cap >= len + CodeOverhead
  <2>1. ReadInv /\ len = EncryptedSize /\ cap = bufferCapacity /\ setting \in Settings
    BY <1>1 DEF LayoutInv
  <2>2. len \in Nat /\ len <= DataSize /\ DataSize \in Nat /\ cap = DataSize + CodeOverhead /\ CodeOverhead \in Nat
    BY <1>1, <2>1, EncryptedSizes, BufferSizes, SizesOfSetting DEF ReadInv
  <2>. QED
    BY <2>2
<1>2. ASSUME layoutPhase = "not signed"
      PROVE  setting.maxBlocks > IndexSpace
  <2>1. numBlocks > IndexSpace /\ numBlocks <= setting.maxBlocks /\ numBlocks \in Nat
        /\ ReadInv /\ setting \in Settings
    BY <1>2 DEF LayoutInv, BlocksInv
  <2>2. setting.maxBlocks \in Nat /\ IndexSpace \in Nat
    BY <2>1, SizesOfSetting, ChunkLayoutAssumption DEF ReadInv
  <2>. QED
    BY <2>1, <2>2
<1>3. layoutPhase = "stored" /\ ~inner =>
        /\ numBlocks <= setting.maxBlocks /\ (Coded => numBlocks = setting.maxBlocks)
        /\ blockSize <= BlockSize + CodeOverhead
  BY DEF LayoutInv, BlocksInv, ShardsInv
<1>. QED
  BY <1>1, <1>2, <1>3 DEF ChunkFits, LayoutInv

\* With every setting New accepts, and for every size of a block and of what encryption and
\* wrapping add: calculateBufferSizeAndCapacity leaves the room that Encrypt and wrapData need
\* in place, a chunk has no more and no longer blocks than it should, and what is downloaded is
\* as long as what was read.
THEOREM ChunksFit == LayoutSpec => []ChunkFits
  BY LayoutInvInit, LayoutInvNext, LayoutInvFits, PTL DEF LayoutSpec

-----------------------------------------------------------------------------
(* Where the blocks of a stream lie                                        *)

LEMMA StreamConstants ==
  /\ MaxBlockSize \in Nat \ {0} /\ HeaderSize \in Nat /\ tagSize \in Nat \ {0}
  /\ ecDataBlocks \in Nat \ {0} /\ tagSize = ecDataBlocks
  /\ MaxBlockSize % ecDataBlocks = 0 /\ tagSize % ecDataBlocks = 0
  /\ Block0DataSize \in Nat \ {0} /\ HeaderSize + Block0DataSize + tagSize = MaxBlockSize
  /\ BlockNDataSize \in Nat \ {0} /\ BlockNDataSize + tagSize = MaxBlockSize
<1>1. (ecDataBlocks * 1) % ecDataBlocks = 0
  BY MultipleMod, StreamAssumption
<1>2. MaxBlockSize \in Nat /\ HeaderSize \in Nat /\ tagSize \in Nat \ {0} /\ MaxBlockSize > HeaderSize + tagSize
  BY StreamAssumption
<1>. QED
  BY <1>1, <1>2, StreamAssumption DEF Block0DataSize, BlockNDataSize

\* Plaintext that fits into block i.
Room(i) == IF i = 0 THEN Block0DataSize ELSE BlockNDataSize

LEMMA Rooms ==
  ASSUME NEW i \in Nat
  PROVE  /\ Room(i) \in Nat \ {0} /\ BlockStart(i) \in Nat /\ SealedStart(i) \in Nat
         /\ BlockStart(i + 1) = BlockStart(i) + MaxBlockSize
         /\ SealedStart(i) + Room(i) + tagSize = BlockStart(i + 1)
         /\ BlockStart(i) <= SealedStart(i) /\ HeaderSize <= SealedStart(i)
         /\ i # 0 => SealedStart(i) = BlockStart(i)
         /\ BlockStart(0) = 0 /\ SealedStart(0) = HeaderSize
<1>1. i * MaxBlockSize \in Nat /\ (i + 1) * MaxBlockSize = i * MaxBlockSize + MaxBlockSize /\ 0 * MaxBlockSize = 0
      /\ (i # 0 => i * MaxBlockSize >= MaxBlockSize)
  BY StreamConstants
<1>. QED
  BY <1>1, StreamConstants DEF Room, BlockStart, SealedStart

LEMMA BlockStartsWhole ==
  ASSUME NEW i \in Nat
  PROVE  BlockStart(i) % ecDataBlocks = 0
<1>1. \A k \in Nat : (k * MaxBlockSize) % ecDataBlocks = 0
  <2>1. ecDataBlocks \in Nat \ {0} /\ MaxBlockSize \in Nat /\ MaxBlockSize % ecDataBlocks = 0
    BY StreamConstants
  <2>. QED
    BY <2>1, MultiplesSum
<1>. QED
  BY <1>1 DEF BlockStart

LEMMA BlockStartsGrow ==
  ASSUME NEW i \in Nat, NEW j \in Nat, i < j
  PROVE  BlockStart(i + 1) <= BlockStart(j) /\ SealedStart(i) < SealedStart(j)
<1>1. MaxBlockSize * (i + 1) <= MaxBlockSize * j
  BY StreamConstants
<1>2. BlockStart(i + 1) <= BlockStart(j)
  BY <1>1, StreamConstants DEF BlockStart
<1>. QED
  BY <1>2, Rooms, StreamConstants

\* The plaintext of a block starts no later than the block.
LEMMA PlaintextStarts ==
  ASSUME NEW i \in Nat
  PROVE  /\ PlaintextStart(i) \in Nat /\ PlaintextStart(i) <= BlockStart(i)
         /\ PlaintextStart(i + 1) = PlaintextStart(i) + Room(i)
         /\ PlaintextStart(0) = 0
<1>1. CASE i = 0
  BY <1>1, StreamConstants DEF PlaintextStart, BlockStart, Room
<1>2. CASE i # 0
  <2>1. PlaintextStart(i) = Block0DataSize + (i - 1) * BlockNDataSize
        /\ PlaintextStart(i + 1) = Block0DataSize + i * BlockNDataSize
    BY <1>2 DEF PlaintextStart
  <2>2. i * BlockNDataSize = (i - 1) * BlockNDataSize + BlockNDataSize /\ (i - 1) * BlockNDataSize \in Nat
    BY <1>2, StreamConstants
  <2>3. i * MaxBlockSize = i * BlockNDataSize + i * tagSize /\ i * tagSize \in Nat
    BY StreamConstants
  <2>4. Block0DataSize <= BlockNDataSize
    BY StreamConstants
  <2>. QED
    BY <1>2, <2>1, <2>2, <2>3, <2>4, StreamConstants DEF BlockStart, Room, PlaintextStart
<1>. QED
  BY <1>1, <1>2

LEMMA PlaintextStartsGrow ==
  ASSUME NEW i \in Nat, NEW j \in Nat, i < j
  PROVE  PlaintextStart(i + 1) <= PlaintextStart(j)
<1>1. PlaintextStart(i + 1) = Block0DataSize + i * BlockNDataSize
      /\ PlaintextStart(j) = Block0DataSize + (j - 1) * BlockNDataSize
  BY DEF PlaintextStart
<1>2. BlockNDataSize * i <= BlockNDataSize * (j - 1)
  BY StreamConstants
<1>. QED
  BY <1>1, <1>2, StreamConstants

\* There are as many blocks as the plaintext needs.
LEMMA NumBlocksFit ==
  ASSUME NEW size \in Nat \ {0}
  PROVE  /\ NumBlocks(size) \in Nat \ {0}
         /\ PlaintextStart(NumBlocks(size) - 1) < size
         /\ size <= PlaintextStart(NumBlocks(size) - 1) + Room(NumBlocks(size) - 1)
<1>1. CASE size <= Block0DataSize
  <2>1. NumBlocks(size) = 1
    BY <1>1 DEF NumBlocks
  <2>2. NumBlocks(size) - 1 = 0
    BY <2>1
  <2>3. PlaintextStart(0) = 0 /\ Room(0) = Block0DataSize
    BY DEF PlaintextStart, Room
  <2>. QED
    BY <1>1, <2>1, <2>2, <2>3, StreamConstants
<1>2. CASE size > Block0DataSize
  <2>. DEFINE rest == size - Block0DataSize
              k == CeilDiv(rest, BlockNDataSize)
  <2>1. rest \in Nat \ {0}
    BY <1>2, StreamConstants
  <2>2. k \in Nat /\ rest <= BlockNDataSize * k /\ BlockNDataSize * k < rest + BlockNDataSize
    BY <2>1, StreamConstants, CeilDivBounds
  <2>3. NumBlocks(size) = 1 + k
    BY <1>2, StreamConstants DEF NumBlocks
  <2>. HIDE DEF k
  <2>4. k # 0
    BY <2>1, <2>2, StreamConstants
  <2>5. PlaintextStart(k) = Block0DataSize + (k - 1) * BlockNDataSize
    BY <2>4 DEF PlaintextStart
  <2>6. (k - 1) * BlockNDataSize = BlockNDataSize * k - BlockNDataSize /\ Room(k) = BlockNDataSize
    BY <2>2, <2>4, StreamConstants DEF Room
  <2>. QED
    BY <2>2, <2>3, <2>5, <2>6, StreamConstants
<1>. QED
  BY <1>1, <1>2, StreamConstants

\* The plaintext of a block, without gaps.
LEMMA DataSizes ==
  ASSUME NEW size \in Nat \ {0}, NEW i \in 0..(NumBlocks(size) - 1)
  PROVE  /\ i \in Nat /\ BlockDataSize(size, i) \in 1..Room(i)
         /\ i = NumBlocks(size) - 1 => PlaintextStart(i) + BlockDataSize(size, i) = size
         /\ i < NumBlocks(size) - 1 =>
              /\ BlockDataSize(size, i) = Room(i)
              /\ PlaintextStart(i) + BlockDataSize(size, i) = PlaintextStart(i + 1)
              /\ PlaintextStart(i + 1) < size
         /\ LesserOf(PlaintextStart(i) + Room(i), size) = PlaintextStart(i) + BlockDataSize(size, i)
<1>1. /\ NumBlocks(size) \in Nat \ {0}
      /\ PlaintextStart(NumBlocks(size) - 1) < size
      /\ size <= PlaintextStart(NumBlocks(size) - 1) + Room(NumBlocks(size) - 1)
  BY NumBlocksFit
<1>2. i \in Nat /\ PlaintextStart(i) \in Nat /\ Room(i) \in Nat \ {0}
  BY <1>1, Rooms, PlaintextStarts
<1>3. CASE i = NumBlocks(size) - 1
  <2>1. BlockDataSize(size, i) = size - PlaintextStart(i)
    BY <1>1, <1>3, PlaintextStarts DEF BlockDataSize
  <2>. QED
    BY <1>1, <1>2, <1>3, <2>1 DEF LesserOf
<1>4. CASE i < NumBlocks(size) - 1
  <2>1. BlockDataSize(size, i) = Room(i)
    BY <1>1, <1>2, <1>4 DEF BlockDataSize, Room
  <2>2. PlaintextStart(i + 1) = PlaintextStart(i) + Room(i)
    BY <1>2, PlaintextStarts
  <2>3. PlaintextStart(i + 1) <= PlaintextStart(NumBlocks(size) - 1) /\ PlaintextStart(NumBlocks(size) - 1) \in Nat
    BY <1>1, <1>2, <1>4, PlaintextStartsGrow, PlaintextStarts
  <2>. QED
    BY <1>1, <1>2, <1>4, <2>1, <2>2, <2>3 DEF LesserOf
<1>. QED
  BY <1>1, <1>2, <1>3, <1>4

\* A sealed block ends where the next one starts, the last one with the ciphertext.
LEMMA SealedSizes ==
  ASSUME NEW size \in Nat \ {0}, NEW i \in 0..(NumBlocks(size) - 1)
  PROVE  /\ PaddedLen(size, i) \in Nat /\ BlockDataSize(size, i) <= PaddedLen(size, i)
         /\ PaddedLen(size, i) <= Room(i)
         /\ i < NumBlocks(size) - 1 => PaddedLen(size, i) = Room(i)
         /\ i = NumBlocks(size) - 1 =>
              /\ SealedStart(i) + PaddedLen(size, i) + tagSize = TotalSize(size)
              /\ TotalSize(size) % ecDataBlocks = 0
              /\ \A y \in Nat : y % ecDataBlocks = 0 /\ SealedStart(i) + BlockDataSize(size, i) + tagSize <= y
                                  => TotalSize(size) <= y
<1>1. /\ i \in Nat /\ BlockDataSize(size, i) \in 1..Room(i) /\ Room(i) \in Nat
      /\ NumBlocks(size) \in Nat \ {0}
  BY DataSizes, Rooms, NumBlocksFit
<1>2. CASE i < NumBlocks(size) - 1
  BY <1>1, <1>2, StreamConstants DEF PaddedLen, Room
<1>3. CASE i = NumBlocks(size) - 1
  <2>. DEFINE data == BlockDataSize(size, i)
              filled == IF i = 0 THEN HeaderSize + data ELSE data
              pad == (ecDataBlocks - (filled % ecDataBlocks)) % ecDataBlocks
  <2>1. data \in Nat /\ filled \in Nat /\ data <= Room(i)
    BY <1>1, StreamConstants
  <2>2. PaddedLen(size, i) = data + pad
    BY <1>1, <1>3 DEF PaddedLen, LastBlockPadding
  <2>3. /\ pad \in Nat /\ (filled + pad) % ecDataBlocks = 0
        /\ \A y \in Nat : y % ecDataBlocks = 0 /\ filled <= y => filled + pad <= y
    BY <2>1, StreamConstants, PadLeast
  <2>4. TotalSize(size) = PaddedLen(size, i) + tagSize + (IF i = 0 THEN HeaderSize ELSE BlockStart(i))
    BY <1>3 DEF TotalSize, BlockStart
  <2>. HIDE DEF data, pad
  <2>5. BlockStart(i) \in Nat /\ BlockStart(i) % ecDataBlocks = 0
    BY <1>1, Rooms, BlockStartsWhole
  <2>6. TotalSize(size) = BlockStart(i) + (filled + pad) + tagSize
        /\ SealedStart(i) + data = BlockStart(i) + filled
    <3>1. pad \in Nat /\ HeaderSize \in Nat /\ tagSize \in Nat /\ BlockStart(i) \in Nat
      BY <2>3, <2>5, StreamConstants
    <3>2. CASE i = 0
      <4>1. filled = HeaderSize + data /\ BlockStart(i) = 0 /\ SealedStart(i) = HeaderSize
            /\ TotalSize(size) = PaddedLen(size, i) + tagSize + HeaderSize
        BY <2>4, <3>2, Rooms
      <4>. HIDE DEF filled
      <4>. QED
        BY <2>1, <2>2, <3>1, <4>1
    <3>3. CASE i # 0
      <4>1. filled = data /\ SealedStart(i) = BlockStart(i)
            /\ TotalSize(size) = PaddedLen(size, i) + tagSize + BlockStart(i)
        BY <1>1, <2>4, <3>3, Rooms
      <4>. HIDE DEF filled
      <4>. QED
        BY <2>1, <2>2, <3>1, <4>1
    <3>. QED
      BY <3>2, <3>3
  <2>. HIDE DEF filled
  <2>7. SealedStart(i) + PaddedLen(size, i) + tagSize = TotalSize(size)
    BY <1>1, <2>1, <2>2, <2>3, <2>5, <2>6, Rooms, StreamConstants
  <2>8. (BlockStart(i) + (filled + pad)) % ecDataBlocks = 0
    BY <2>1, <2>3, <2>5, StreamConstants, MultiplesSum
  <2>9. TotalSize(size) % ecDataBlocks = 0
    BY <2>1, <2>3, <2>5, <2>6, <2>8, StreamConstants, MultiplesSum
  <2>10. ASSUME NEW y \in Nat, y % ecDataBlocks = 0, SealedStart(i) + data + tagSize <= y
         PROVE  TotalSize(size) <= y
    <3>1. BlockStart(i) + tagSize + filled <= y
      BY <1>1, <2>1, <2>5, <2>6, <2>10, Rooms, StreamConstants
    <3>2. (BlockStart(i) + tagSize) % ecDataBlocks = 0 /\ BlockStart(i) + tagSize \in Nat
      <4>1. ecDataBlocks \in Nat \ {0} /\ tagSize \in Nat /\ tagSize % ecDataBlocks = 0
        BY StreamConstants
      <4>2. \A x \in Nat : x % ecDataBlocks = 0 => (x + tagSize) % ecDataBlocks = 0
        BY <4>1, MultiplesSum
      <4>. QED
        BY <2>5, <4>1, <4>2
    <3>3. (y - (BlockStart(i) + tagSize)) % ecDataBlocks = 0
      BY <2>1, <2>10, <3>1, <3>2, StreamConstants, MultiplesSum
    <3>4. filled + pad <= y - (BlockStart(i) + tagSize)
      BY <2>1, <2>3, <3>1, <3>2, <3>3
    <3>5. filled + pad \in Nat /\ BlockStart(i) \in Nat /\ tagSize \in Nat
      BY <2>1, <2>3, <2>5, StreamConstants
    <3>. QED
      BY <2>6, <3>4, <3>5
  <2>11. PaddedLen(size, i) <= Room(i)
    <3>1. BlockStart(i + 1) % ecDataBlocks = 0 /\ BlockStart(i + 1) \in Nat
      BY <1>1, Rooms, BlockStartsWhole
    <3>2. SealedStart(i) + data + tagSize <= BlockStart(i + 1)
      BY <1>1, <2>1, <3>1, Rooms, StreamConstants
    <3>3. TotalSize(size) <= BlockStart(i + 1)
      BY <2>10, <3>1, <3>2
    <3>. QED
      BY <1>1, <2>1, <2>2, <2>3, <2>7, <3>1, <3>3, Rooms, StreamConstants
  <2>. QED
    BY <1>3, <2>1, <2>2, <2>3, <2>7, <2>9, <2>10, <2>11 DEF data
<1>. QED
  BY <1>1, <1>2, <1>3

\* A target leaves room for some plaintext in its last block, or for a tag only.
LEMMA TargetRoom ==
  ASSUME NEW t \in Nat, ValidTarget(t)
  PROVE  LET last == CeilDiv(t, MaxBlockSize) - 1
             w == t - SealedStart(last) - tagSize
         IN /\ last \in Nat /\ w \in 0..Room(last) /\ BlockStart(last) < t
            /\ MaxPlaintextSizeForTarget(t) = PlaintextStart(last) + w
            /\ MaxPlaintextSizeForTarget(t) \in Nat \ {0}
            /\ w = 0 => t % MaxBlockSize = tagSize
<1>. DEFINE blocks == CeilDiv(t, MaxBlockSize)
            last == blocks - 1
            w == t - SealedStart(last) - tagSize
<1>1. t % ecDataBlocks = 0 /\ t >= MinCipherTextSize
  BY DEF ValidTarget
<1>2. t >= HeaderSize + tagSize + 1
  <2>. DEFINE a == HeaderSize + tagSize + 1
              c == CeilDiv(a, ecDataBlocks)
  <2>1. a \in Nat /\ ecDataBlocks \in Nat \ {0}
    BY StreamConstants
  <2>2. c \in Nat /\ a <= ecDataBlocks * c
    BY <2>1, CeilDivBounds
  <2>3. MinCipherTextSize = c * ecDataBlocks
    BY DEF MinCipherTextSize
  <2>. HIDE DEF c, a
  <2>4. t >= a
    BY <1>1, <2>1, <2>2, <2>3
  <2>. QED
    BY <2>4 DEF a
<1>3. blocks \in Nat /\ t <= MaxBlockSize * blocks /\ MaxBlockSize * blocks < t + MaxBlockSize
  BY StreamConstants, CeilDivBounds
<1>4. MaxPlaintextSizeForTarget(t) =
        IF blocks = 1 THEN LesserOf(t - HeaderSize - tagSize, Block0DataSize)
        ELSE Block0DataSize + (blocks - 2) * BlockNDataSize
               + LesserOf(t - (blocks - 1) * MaxBlockSize - tagSize, BlockNDataSize)
  BY DEF MaxPlaintextSizeForTarget
<1>. HIDE DEF blocks
<1>5. last \in Nat /\ BlockStart(last) \in Nat /\ BlockStart(last + 1) = BlockStart(last) + MaxBlockSize
  <2>1. blocks # 0
    BY <1>2, <1>3, StreamConstants
  <2>2. last \in Nat
    BY <1>3, <2>1
  <2>. QED
    BY <2>2, Rooms
<1>6. BlockStart(last) < t /\ t <= BlockStart(last) + MaxBlockSize
  <2>1. BlockStart(last) = MaxBlockSize * blocks - MaxBlockSize
    BY <1>3, StreamConstants DEF BlockStart
  <2>. QED
    BY <1>3, <2>1, StreamConstants
<1>7. CASE blocks = 1
  <2>1. last = 0 /\ BlockStart(last) = 0 /\ SealedStart(last) = HeaderSize /\ PlaintextStart(last) = 0
        /\ Room(last) = Block0DataSize
    BY <1>7, Rooms DEF PlaintextStart, Room
  <2>2. t <= MaxBlockSize
    BY <1>6, <2>1, StreamConstants
  <2>3. w \in 1..Block0DataSize
    BY <1>2, <2>1, <2>2, StreamConstants
  <2>4. MaxPlaintextSizeForTarget(t) = w
    BY <1>4, <1>7, <2>1, <2>3, StreamConstants DEF LesserOf
  <2>. HIDE DEF w, last
  <2>5. /\ last \in Nat /\ w \in 0..Room(last) /\ BlockStart(last) < t
        /\ MaxPlaintextSizeForTarget(t) = PlaintextStart(last) + w
        /\ MaxPlaintextSizeForTarget(t) \in Nat \ {0}
        /\ w = 0 => t % MaxBlockSize = tagSize
    BY <1>5, <1>6, <2>1, <2>3, <2>4, StreamConstants
  <2>. QED
    BY <2>5 DEF w, last, blocks
<1>8. CASE blocks # 1
  <2>1. last \in Nat \ {0}
    BY <1>3, <1>5, <1>8
  <2>2. SealedStart(last) = BlockStart(last) /\ Room(last) = BlockNDataSize
        /\ PlaintextStart(last) = Block0DataSize + (last - 1) * BlockNDataSize
    BY <2>1, Rooms DEF Room, PlaintextStart
  <2>. DEFINE r == t - BlockStart(last)
  <2>3. r \in 1..MaxBlockSize /\ w = r - tagSize
    BY <1>5, <1>6, <2>2, StreamConstants
  <2>4. r % ecDataBlocks = 0
    <3>1. BlockStart(last) % ecDataBlocks = 0 /\ BlockStart(last) <= t /\ ecDataBlocks \in Nat \ {0}
      BY <1>5, <1>6, BlockStartsWhole, StreamConstants
    <3>. QED
      BY <1>1, <1>5, <3>1, MultiplesSum
  <2>. HIDE DEF r
  <2>5. tagSize <= r
    <3>1. ecDataBlocks \in Nat \ {0} /\ tagSize = ecDataBlocks /\ r \in Nat /\ 0 < r
      BY <2>3, StreamConstants
    <3>2. 0 % ecDataBlocks = 0
      BY <3>1, SmallMod
    <3>3. 0 + ecDataBlocks <= r
      BY <2>4, <3>1, <3>2, MultiplesSum
    <3>. QED
      BY <3>1, <3>3
  <2>6. w \in 0..BlockNDataSize
    BY <2>3, <2>5, StreamConstants
  <2>7. MaxPlaintextSizeForTarget(t) = PlaintextStart(last) + w
    <3>1. blocks - 2 = last - 1 /\ t - (blocks - 1) * MaxBlockSize - tagSize = w
      BY <1>3, <2>2 DEF BlockStart
    <3>2. LesserOf(w, BlockNDataSize) = w
      BY <2>6, StreamConstants DEF LesserOf
    <3>. HIDE DEF w, last
    <3>. QED
      BY <1>4, <1>8, <2>2, <3>1, <3>2
  <2>. HIDE DEF w, last
  <2>8. PlaintextStart(last) \in Nat \ {0}
    <3>1. last - 1 \in Nat /\ BlockNDataSize \in Nat
      BY <2>1, StreamConstants
    <3>2. (last - 1) * BlockNDataSize \in Nat
      BY <3>1
    <3>. QED
      BY <2>2, <3>2, StreamConstants
  <2>9. ASSUME w = 0 PROVE t % MaxBlockSize = tagSize
    <3>1. t = MaxBlockSize * last + tagSize
      <4>1. t = BlockStart(last) + tagSize
        BY <1>5, <2>3, <2>9, StreamConstants DEF r
      <4>2. BlockStart(last) = MaxBlockSize * last
        BY <2>1, StreamConstants DEF BlockStart
      <4>. QED
        BY <4>1, <4>2
    <3>2. tagSize \in 0..(MaxBlockSize - 1)
      BY StreamConstants
    <3>3. MaxBlockSize \in Nat \ {0} /\ last \in Int
      BY <2>1, StreamConstants
    <3>4. (MaxBlockSize * last + tagSize) % MaxBlockSize = tagSize
      BY <3>2, <3>3, ModUnique
    <3>. QED
      BY <3>1, <3>4
  <2>10. /\ last \in Nat /\ w \in 0..Room(last) /\ BlockStart(last) < t
         /\ MaxPlaintextSizeForTarget(t) = PlaintextStart(last) + w
         /\ MaxPlaintextSizeForTarget(t) \in Nat \ {0}
         /\ w = 0 => t % MaxBlockSize = tagSize
    BY <1>5, <1>6, <2>2, <2>6, <2>7, <2>8, <2>9, StreamConstants
  <2>. QED
    BY <2>10 DEF w, last, blocks
<1>. QED
  BY <1>7, <1>8

\* No plaintext up to MaxPlaintextSizeForTarget outgrows the target; the largest one fills it.
LEMMA TargetFits ==
  ASSUME NEW t \in Nat, ValidTarget(t), NEW size \in 1..MaxPlaintextSizeForTarget(t)
  PROVE  /\ TotalSize(size) \in Nat /\ TotalSize(size) <= t
         /\ NumBlocks(size) <= CeilDiv(t, MaxBlockSize)
         /\ size = MaxPlaintextSizeForTarget(t) /\ t % MaxBlockSize # tagSize => TotalSize(size) = t
<1>. DEFINE last == CeilDiv(t, MaxBlockSize) - 1
            w == t - SealedStart(last) - tagSize
            b == NumBlocks(size) - 1
<1>1. /\ last \in Nat /\ w \in 0..Room(last) /\ BlockStart(last) < t
      /\ MaxPlaintextSizeForTarget(t) = PlaintextStart(last) + w
      /\ MaxPlaintextSizeForTarget(t) \in Nat \ {0}
      /\ w = 0 => t % MaxBlockSize = tagSize
  BY TargetRoom
<1>1a. CeilDiv(t, MaxBlockSize) \in Nat
  BY CeilDivBounds, StreamConstants
<1>2. size \in Nat \ {0} /\ size <= PlaintextStart(last) + w
  BY <1>1
<1>3. b \in 0..(NumBlocks(size) - 1) /\ b \in Nat /\ NumBlocks(size) \in Nat
  BY <1>2, NumBlocksFit
<1>4. /\ PlaintextStart(b) < size /\ size = PlaintextStart(b) + BlockDataSize(size, b)
      /\ BlockDataSize(size, b) \in 1..Room(b)
  BY <1>2, <1>3, DataSizes, NumBlocksFit
<1>5. /\ PaddedLen(size, b) \in Nat /\ BlockDataSize(size, b) <= PaddedLen(size, b) /\ PaddedLen(size, b) <= Room(b)
      /\ SealedStart(b) + PaddedLen(size, b) + tagSize = TotalSize(size)
      /\ \A y \in Nat : y % ecDataBlocks = 0 /\ SealedStart(b) + BlockDataSize(size, b) + tagSize <= y
                          => TotalSize(size) <= y
  BY <1>2, <1>3, SealedSizes
<1>6. t % ecDataBlocks = 0
  BY DEF ValidTarget
<1>7. SealedStart(last) \in Nat /\ t = SealedStart(last) + w + tagSize
  <2>1. SealedStart(last) \in Nat /\ tagSize \in Nat
    BY <1>1, Rooms, StreamConstants
  <2>. HIDE DEF last
  <2>. QED
    BY <2>1 DEF w
<1>. HIDE DEF last, w, b
<1>8. /\ PlaintextStart(last) \in Nat /\ PlaintextStart(last + 1) = PlaintextStart(last) + Room(last)
      /\ PlaintextStart(b) \in Nat /\ PlaintextStart(b + 1) = PlaintextStart(b) + Room(b)
      /\ Room(last) \in Nat /\ Room(b) \in Nat /\ tagSize \in Nat
      /\ SealedStart(b) \in Nat /\ SealedStart(b) + Room(b) + tagSize = BlockStart(b + 1)
      /\ BlockStart(last) \in Nat
  BY <1>1, <1>3, Rooms, PlaintextStarts, StreamConstants
<1>9. TotalSize(size) \in Nat
  BY <1>5, <1>8
<1>10. b <= last
  <2>1. ASSUME last < b PROVE FALSE
    <3>1. PlaintextStart(last + 1) <= PlaintextStart(b)
      BY <1>1, <1>3, <2>1, PlaintextStartsGrow
    <3>. QED
      BY <1>1, <1>2, <1>4, <1>8, <3>1
  <2>. QED
    BY <1>1, <1>3, <2>1
<1>11. TotalSize(size) <= t
  <2>1. CASE b = last
    <3>1. BlockDataSize(size, b) <= w
      BY <1>1, <1>2, <1>4, <1>8, <2>1
    <3>2. SealedStart(b) + BlockDataSize(size, b) + tagSize <= t
      BY <1>1, <1>4, <1>7, <1>8, <2>1, <3>1
    <3>. QED
      BY <1>5, <1>6, <3>2
  <2>2. CASE b < last
    <3>1. BlockStart(b + 1) <= BlockStart(last)
      BY <1>1, <1>3, <2>2, BlockStartsGrow
    <3>2. TotalSize(size) <= BlockStart(b + 1)
      BY <1>5, <1>8
    <3>. QED
      BY <1>1, <1>8, <1>9, <3>1, <3>2
  <2>. QED
    BY <1>1, <1>3, <1>10, <2>1, <2>2
<1>12. ASSUME size = MaxPlaintextSizeForTarget(t), t % MaxBlockSize # tagSize
       PROVE  TotalSize(size) = t
  <2>1. w > 0 /\ size = PlaintextStart(last) + w
    BY <1>1, <1>12
  <2>2. b = last
    <3>1. ASSUME b < last PROVE FALSE
      <4>1. PlaintextStart(b + 1) <= PlaintextStart(last)
        BY <1>1, <1>3, <3>1, PlaintextStartsGrow
      <4>. QED
        BY <1>1, <1>4, <1>8, <2>1, <4>1
    <3>. QED
      BY <1>1, <1>3, <1>10, <3>1
  <2>3. BlockDataSize(size, b) = w
    BY <1>1, <1>4, <1>8, <2>1, <2>2
  <2>4. t <= TotalSize(size)
    BY <1>1, <1>5, <1>7, <1>8, <2>2, <2>3
  <2>. QED
    BY <1>9, <1>11, <2>4
<1>13. NumBlocks(size) <= CeilDiv(t, MaxBlockSize)
  BY <1>1, <1>1a, <1>3, <1>10 DEF b, last
<1>. QED
  BY <1>9, <1>11, <1>12, <1>13

\* No nonce comes up twice in a chunk.
LEMMA NoncesDiffer ==
  ASSUME NEW t \in Targets, ValidTarget(t), NEW size \in 1..MaxPlaintextSizeForTarget(t),
         NEW v \in InitialNonces,
         NEW i \in 0..(NumBlocks(size) - 1), NEW j \in 0..(NumBlocks(size) - 1), i # j
  PROVE  BlockNonce(v, i) # BlockNonce(v, j)
<1>1. t \in Nat /\ t <= NonceSpace * MaxBlockSize /\ NonceSpace \in Nat \ {0} /\ v \in Nat
  <2>1. t \in 0..(NonceSpace * MaxBlockSize) /\ NonceSpace \in Nat \ {0} /\ v \in 0..(NonceSpace - 1)
    BY StreamAssumption
  <2>. QED
    BY <2>1
<1>2. CeilDiv(t, MaxBlockSize) <= NonceSpace
  <2>1. t <= MaxBlockSize * NonceSpace
    BY <1>1, StreamConstants
  <2>. QED
    BY <1>1, <2>1, CeilDivLeast, StreamConstants
<1>3. NumBlocks(size) \in Nat /\ CeilDiv(t, MaxBlockSize) \in Nat /\ NumBlocks(size) <= CeilDiv(t, MaxBlockSize)
  <2>1. MaxPlaintextSizeForTarget(t) \in Nat
    BY <1>1, TargetRoom
  <2>2. size \in Nat \ {0}
    BY <2>1
  <2>. QED
    BY <1>1, <2>2, NumBlocksFit, TargetFits, CeilDivBounds, StreamConstants
<1>4. ASSUME NEW a \in Nat, NEW c \in Nat, a < c, c < NonceSpace, BlockNonce(v, a) = BlockNonce(v, c)
      PROVE  FALSE
  <2>. DEFINE p == (v + a) \div NonceSpace
              q == (v + c) \div NonceSpace
              r == (v + a) % NonceSpace
              s == (v + c) % NonceSpace
  <2>1. /\ r \in 0..(NonceSpace - 1) /\ v + a = NonceSpace * p + r /\ p \in Nat
        /\ s \in 0..(NonceSpace - 1) /\ v + c = NonceSpace * q + s /\ q \in Nat
    <3>1. v + a \in Nat /\ v + c \in Nat
      BY <1>1, <1>4
    <3>. QED
      BY <1>1, <3>1, ModFacts
  <2>2. r = s
    BY <1>4 DEF BlockNonce
  <2>. HIDE DEF p, q, r, s
  <2>3. c - a = NonceSpace * (q - p)
    BY <1>1, <1>4, <2>1, <2>2
  <2>4. q - p >= 1
    <3>1. CASE q - p <= 0
      <4>1. NonceSpace * (q - p) <= 0
        BY <1>1, <2>1, <3>1
      <4>. QED
        BY <1>4, <2>3, <4>1
    <3>. QED
      BY <2>1, <3>1
  <2>5. NonceSpace * (q - p) >= NonceSpace
    BY <1>1, <2>1, <2>4
  <2>. QED
    BY <1>1, <1>4, <2>3, <2>5
<1>5. i \in Nat /\ j \in Nat /\ i < NonceSpace /\ j < NonceSpace
  BY <1>1, <1>2, <1>3
<1>. QED
  BY <1>4, <1>5

-----------------------------------------------------------------------------
(* Where the sealed blocks lie                                             *)

LEMMA SealedBlocksApart ==
  ASSUME NEW size \in Nat \ {0}, NEW i \in 0..(NumBlocks(size) - 1)
  PROVE  /\ i \in Nat /\ SealedStart(i) \in Nat /\ PaddedLen(size, i) + tagSize \in Nat \ {0}
         /\ PaddedLen(size, i) \in Nat /\ TotalSize(size) \in Nat
         /\ SealedStart(i) + PaddedLen(size, i) + tagSize <= TotalSize(size)
         /\ SealedStart(i) + PaddedLen(size, i) + tagSize <= BlockStart(i + 1)
         /\ LesserOf(BlockStart(i) + MaxBlockSize, TotalSize(size)) = SealedStart(i) + PaddedLen(size, i) + tagSize
         /\ \A j \in (i + 1)..(NumBlocks(size) - 1) :
              SealedStart(i) + PaddedLen(size, i) + tagSize <= SealedStart(j)
<1>. DEFINE last == NumBlocks(size) - 1
            End(j) == SealedStart(j) + PaddedLen(size, j) + tagSize
<1>1. /\ i \in Nat /\ last \in Nat /\ i <= last
      /\ SealedStart(i) \in Nat /\ BlockStart(i + 1) \in Nat /\ tagSize \in Nat \ {0}
      /\ BlockStart(i + 1) = BlockStart(i) + MaxBlockSize
      /\ SealedStart(last) \in Nat /\ BlockStart(last) \in Nat
      /\ SealedStart(i) + Room(i) + tagSize = BlockStart(i + 1) /\ BlockStart(last) <= SealedStart(last)
      /\ Room(i) \in Nat
  <2>1. NumBlocks(size) \in Nat \ {0}
    BY NumBlocksFit
  <2>2. i \in Nat /\ i + 1 \in Nat /\ last \in Nat /\ i <= last
    BY <2>1
  <2>. QED
    BY <2>2, Rooms, StreamConstants
<1>2. last \in 0..(NumBlocks(size) - 1)
  BY <1>1
<1>3. /\ PaddedLen(size, i) \in Nat /\ PaddedLen(size, i) <= Room(i)
      /\ i < last => PaddedLen(size, i) = Room(i)
      /\ PaddedLen(size, last) \in Nat
      /\ End(last) = TotalSize(size)
  BY <1>2, SealedSizes
<1>4. TotalSize(size) \in Nat /\ SealedStart(last) <= TotalSize(size) /\ End(i) \in Nat
  BY <1>1, <1>3
<1>5. End(i) <= BlockStart(i + 1)
  BY <1>1, <1>3
<1>6. ASSUME i < last PROVE End(i) = BlockStart(i + 1) /\ BlockStart(i + 1) <= TotalSize(size)
  <2>1. BlockStart(i + 1) <= BlockStart(last)
    BY <1>1, <1>6, BlockStartsGrow
  <2>. QED
    BY <1>1, <1>3, <1>4, <1>6, <2>1
<1>7. End(i) <= TotalSize(size)
  <2>1. CASE i = last
    BY <1>3, <1>4, <2>1
  <2>2. CASE i < last
    BY <1>4, <1>6, <2>2
  <2>. QED
    BY <1>1, <2>1, <2>2
<1>8. LesserOf(BlockStart(i) + MaxBlockSize, TotalSize(size)) = End(i)
  <2>1. CASE i = last
    BY <1>1, <1>3, <1>4, <1>5, <2>1 DEF LesserOf
  <2>2. CASE i < last
    BY <1>1, <1>4, <1>6, <2>2 DEF LesserOf
  <2>. QED
    BY <1>1, <2>1, <2>2
<1>9. ASSUME NEW j \in (i + 1)..last PROVE End(i) <= SealedStart(j)
  <2>1. j \in Nat /\ i < j
    BY <1>1
  <2>2. BlockStart(i + 1) <= BlockStart(j) /\ BlockStart(j) <= SealedStart(j)
        /\ BlockStart(j) \in Nat /\ SealedStart(j) \in Nat
    BY <1>1, <2>1, BlockStartsGrow, Rooms
  <2>. QED
    BY <1>1, <1>4, <1>5, <2>2
<1>. HIDE DEF last
<1>10. SealedStart(i) \in Nat /\ PaddedLen(size, i) + tagSize \in Nat \ {0}
  BY <1>1, <1>3
<1>. QED
  BY <1>1, <1>3, <1>4, <1>5, <1>7, <1>8, <1>9, <1>10 DEF last

\* Every byte of a ciphertext is of its header or of a sealed block.
LEMMA Covered ==
  ASSUME NEW size \in Nat \ {0}, NEW k \in HeaderSize..(TotalSize(size) - 1)
  PROVE  \E i \in 0..(NumBlocks(size) - 1) :
           k - SealedStart(i) + 1 \in 1..(PaddedLen(size, i) + tagSize)
<1>. DEFINE i == k \div MaxBlockSize
            last == NumBlocks(size) - 1
<1>1. last \in Nat /\ last \in 0..(NumBlocks(size) - 1)
  BY NumBlocksFit
<1>2. TotalSize(size) \in Nat /\ TotalSize(size) <= BlockStart(last + 1) /\ k \in Nat
  <2>1. TotalSize(size) = SealedStart(last) + PaddedLen(size, last) + tagSize
    BY <1>1, SealedSizes
  <2>2. TotalSize(size) \in Nat /\ TotalSize(size) <= BlockStart(last + 1)
    BY <1>1, <2>1, SealedBlocksApart
  <2>. QED
    BY <2>2, StreamConstants
<1>3. i \in Nat /\ MaxBlockSize * i <= k /\ k < MaxBlockSize * i + MaxBlockSize
  BY <1>2, StreamConstants, DivFacts
<1>. HIDE DEF i, last
<1>4. BlockStart(i) <= k /\ k < BlockStart(i + 1)
      /\ BlockStart(i) \in Nat /\ SealedStart(i) \in Nat /\ BlockStart(i + 1) \in Nat
  <2>1. BlockStart(i) = MaxBlockSize * i /\ BlockStart(i + 1) = BlockStart(i) + MaxBlockSize /\ SealedStart(i) \in Nat
        /\ BlockStart(i) \in Nat
    <3>1. BlockStart(i) = MaxBlockSize * i
      BY <1>3, StreamConstants DEF BlockStart
    <3>. QED
      BY <1>3, <3>1, Rooms
  <2>. QED
    BY <1>3, <2>1, StreamConstants
<1>5. i <= last
  <2>1. ASSUME last < i PROVE FALSE
    <3>1. BlockStart(last + 1) <= BlockStart(i) /\ BlockStart(last + 1) \in Nat
      <4>1. last + 1 \in Nat
        BY <1>1
      <4>. QED
        BY <1>1, <1>3, <2>1, <4>1, BlockStartsGrow, Rooms
    <3>. QED
      BY <1>2, <1>4, <3>1
  <2>. QED
    BY <1>1, <1>3, <2>1
<1>6. i \in 0..(NumBlocks(size) - 1)
  BY <1>3, <1>5 DEF last
<1>7. SealedStart(i) <= k
  <2>1. SealedStart(0) = HeaderSize /\ (i # 0 => SealedStart(i) = BlockStart(i))
    BY <1>3, Rooms
  <2>2. HeaderSize <= k
    BY <1>2, StreamConstants
  <2>. QED
    BY <1>4, <2>1, <2>2
<1>8. k < SealedStart(i) + PaddedLen(size, i) + tagSize
  <2>1. CASE i = last
    <3>1. SealedStart(i) + PaddedLen(size, i) + tagSize = TotalSize(size)
      BY <1>6, <2>1, SealedSizes DEF last
    <3>. QED
      BY <1>2, <3>1
  <2>2. CASE i < last
    <3>1. PaddedLen(size, i) = Room(i)
      BY <1>6, <2>2, SealedSizes DEF last
    <3>. QED
      BY <1>3, <1>4, <3>1, Rooms
  <2>. QED
    BY <1>1, <1>3, <1>5, <2>1, <2>2
<1>9. PaddedLen(size, i) \in Nat /\ tagSize \in Nat
  BY <1>6, SealedBlocksApart, StreamConstants
<1>10. k - SealedStart(i) + 1 \in 1..(PaddedLen(size, i) + tagSize)
  BY <1>2, <1>4, <1>7, <1>8, <1>9
<1>. QED
  BY <1>6, <1>10

\* A plaintext is not longer than its ciphertext.
LEMMA PlaintextShorter ==
  ASSUME NEW size \in Nat \ {0}
  PROVE  size <= TotalSize(size) /\ TotalSize(size) \in Nat /\ HeaderSize <= TotalSize(size)
<1>. DEFINE last == NumBlocks(size) - 1
<1>1. last \in Nat /\ last \in 0..(NumBlocks(size) - 1)
  BY NumBlocksFit
<1>2. PlaintextStart(last) + BlockDataSize(size, last) = size /\ BlockDataSize(size, last) \in Nat
  <2>1. BlockDataSize(size, last) \in 1..Room(last)
    BY <1>1, DataSizes
  <2>. QED
    BY <1>1, <2>1, DataSizes, Rooms
<1>3. /\ BlockDataSize(size, last) <= PaddedLen(size, last) /\ PaddedLen(size, last) \in Nat
      /\ SealedStart(last) + PaddedLen(size, last) + tagSize = TotalSize(size)
  BY <1>1, SealedSizes
<1>4. PlaintextStart(last) <= BlockStart(last) /\ BlockStart(last) <= SealedStart(last)
      /\ PlaintextStart(last) \in Nat
      /\ HeaderSize <= SealedStart(last) /\ SealedStart(last) \in Nat /\ BlockStart(last) \in Nat
  BY <1>1, PlaintextStarts, Rooms
<1>. HIDE DEF last
<1>. QED
  BY <1>2, <1>3, <1>4, StreamConstants

-----------------------------------------------------------------------------
(* Buffers                                                                 *)

LEMMA LengthIs ==
  ASSUME NEW s, NEW m \in Nat, s = [k \in 1..m |-> s[k]]
  PROVE  Len(s) = m
  OBVIOUS

LEMMA CopiedBytes ==
  ASSUME NEW b, DOMAIN b \subseteq Nat, NEW from \in Nat, NEW s, NEW m \in Nat, Len(s) = m
  PROVE  /\ DOMAIN Copied(b, from, s) = DOMAIN b
         /\ \A p \in DOMAIN b : p < from \/ p >= from + m => Copied(b, from, s)[p] = b[p]
         /\ \A k \in 1..m : from + k - 1 \in DOMAIN b => Copied(b, from, s)[from + k - 1] = s[k]
<1>. DEFINE c == Copied(b, from, s)
<1>1. c = [k \in DOMAIN b |-> IF k \in from..(from + m - 1) THEN s[k - from + 1] ELSE b[k]]
  BY DEF Copied
<1>. HIDE DEF c
<1>2. DOMAIN c = DOMAIN b
  BY <1>1
<1>3. ASSUME NEW p \in DOMAIN b, p < from \/ p >= from + m
      PROVE  c[p] = b[p]
  <2>1. p \in Nat /\ p \notin from..(from + m - 1)
    BY <1>3
  <2>. QED
    BY <1>1, <2>1
<1>4. ASSUME NEW k \in 1..m, from + k - 1 \in DOMAIN b
      PROVE  c[from + k - 1] = s[k]
  <2>1. from + k - 1 \in from..(from + m - 1) /\ (from + k - 1) - from + 1 = k
    OBVIOUS
  <2>. QED
    BY <1>1, <1>4, <2>1
<1>. QED
  BY <1>2, <1>3, <1>4 DEF c

LEMMA ClearedBytes ==
  ASSUME NEW b, DOMAIN b \subseteq Nat, NEW from \in Nat, NEW to \in Nat
  PROVE  /\ DOMAIN Cleared(b, from, to) = DOMAIN b
         /\ \A p \in DOMAIN b : p < from \/ p >= to => Cleared(b, from, to)[p] = b[p]
         /\ \A p \in DOMAIN b : from <= p /\ p < to => Cleared(b, from, to)[p] = Zero
<1>. DEFINE c == Cleared(b, from, to)
<1>1. c = [k \in DOMAIN b |-> IF k \in from..(to - 1) THEN Zero ELSE b[k]]
  BY DEF Cleared
<1>. HIDE DEF c
<1>2. \A p \in DOMAIN b : p \in Nat /\ (p \in from..(to - 1) <=> from <= p /\ p < to)
  OBVIOUS
<1>3. DOMAIN c = DOMAIN b
  BY <1>1
<1>4. \A p \in DOMAIN b : p < from \/ p >= to => c[p] = b[p]
  BY <1>1, <1>2
<1>5. \A p \in DOMAIN b : from <= p /\ p < to => c[p] = Zero
  BY <1>1, <1>2
<1>. QED
  BY <1>3, <1>4, <1>5 DEF c

\* The bytes of a sealed text, and of the text.
LEMMA SealedBytes ==
  ASSUME NEW v, NEW text, NEW m \in Nat, text = [k \in 1..m |-> text[k]]
  PROVE  /\ Len(text) = m
         /\ Sealed(v, text) = [k \in 1..(m + tagSize) |-> <<"sealed", v, text, k>>]
         /\ Len(Sealed(v, text)) = m + tagSize
         /\ \A k \in 1..(m + tagSize) : Sealed(v, text)[k] = <<"sealed", v, text, k>>
<1>. DEFINE s == Sealed(v, text)
<1>1. Len(text) = m
  BY LengthIs
<1>2. s = [k \in 1..(m + tagSize) |-> <<"sealed", v, text, k>>]
  BY <1>1 DEF Sealed
<1>3. m + tagSize \in Nat
  BY StreamConstants
<1>. HIDE DEF s
<1>4. s = [k \in 1..(m + tagSize) |-> s[k]] /\ \A k \in 1..(m + tagSize) : s[k] = <<"sealed", v, text, k>>
  BY <1>2
<1>5. Len(s) = m + tagSize
  BY <1>3, <1>4, LengthIs
<1>. QED
  BY <1>1, <1>2, <1>4, <1>5 DEF s

-----------------------------------------------------------------------------
(* The encryption of a chunk: invariant                                    *)

\* The text of a block of the chunk, and its bytes when it is sealed.
Text(i) ==
  [k \in 1..PaddedLen(n, i) |->
     IF k <= BlockDataSize(n, i) THEN Plain(chunk - 1, PlaintextStart(i) + k - 1) ELSE Zero]
SealedByte(i, k) == <<"sealed", BlockNonce(nonce, i), Text(i), k>>
BytesOf(i) == 1..(PaddedLen(n, i) + tagSize)

\* Block i of a buffer is the sealed text.
Lies(b, i) == \A k \in BytesOf(i) : b[SealedStart(i) + k - 1] = SealedByte(i, k)
LiesDamaged(b, i) == \A k \in BytesOf(i) : b[SealedStart(i) + k - 1] \in {SealedByte(i, k), Damaged}

\* The plaintext below a position is in its place.
PlainBelow(b, m) == \A k \in 0..(n - 1) : k < m => b[k] = Plain(chunk - 1, k)

\* The plaintext of the blocks that have been opened.
Recovered(s) == IF s = NumBlocks(n) THEN n ELSE PlaintextStart(s)

\* A chunk has been read that the target has room for, a whole buffer but at the end.
ChunkInv ==
  /\ target \in Targets /\ ValidTarget(target)
  /\ chunk \in Nat /\ chunk <= NumChunks
  /\ n = 0 \/ n \in 1..MaxPlaintextSizeForTarget(target)
  /\ n = 0 <=> chunk = 0
  /\ chunk # 0 /\ chunk < NumChunks => n = MaxPlaintextSizeForTarget(target)

BufferInv ==
  /\ DOMAIN buf = 0..(target - 1)
  /\ streamPhase \in {"encrypt", "seal", "sent", "open", "corrupted", "received"} => chunk # 0
  /\ streamPhase = "encrypt" => PlainBelow(buf, n)
  /\ streamPhase \in {"seal", "sent", "open"} => nonce \in InitialNonces
  /\ streamPhase = "seal" =>
       /\ step \in 0..NumBlocks(n)
       /\ PlainBelow(buf, PlaintextStart(NumBlocks(n) - step))
       /\ \A i \in (NumBlocks(n) - step)..(NumBlocks(n) - 1) : Lies(buf, i)
  /\ streamPhase = "sent" =>
       /\ \A k \in 0..(HeaderSize - 1) : buf[k] = Header(nonce, n)[k + 1]
       /\ \A i \in 0..(NumBlocks(n) - 1) : Lies(buf, i)

ReceivedInv ==
  /\ streamPhase = "open" =>
       /\ step \in 0..NumBlocks(n) /\ offset = Recovered(step)
       /\ DOMAIN received = 0..(TotalSize(n) - 1)
       /\ PlainBelow(received, offset)
       /\ \A i \in step..(NumBlocks(n) - 1) : LiesDamaged(received, i)
  /\ streamPhase = "corrupted" => \E k \in DOMAIN received : received[k] = Damaged
  /\ streamPhase = "received" =>
       /\ offset = n
       /\ \A k \in DOMAIN received : received[k] = IF k < n THEN Plain(chunk - 1, k) ELSE Zero

StreamInv ==
  /\ streamPhase \in {"read", "encrypt", "seal", "sent", "open", "corrupted", "received"}
  /\ ChunkInv /\ BufferInv /\ ReceivedInv

\* What is known of the sizes of a chunk that has been read.
LEMMA ChunkSizes ==
  ASSUME ChunkInv, chunk # 0
  PROVE  /\ n \in Nat \ {0} /\ target \in Nat /\ TotalSize(n) \in Nat /\ TotalSize(n) <= target
         /\ n <= TotalSize(n) /\ HeaderSize <= TotalSize(n) /\ NumBlocks(n) \in Nat \ {0}
<1>1. target \in Nat
  <2>1. target \in 0..(NonceSpace * MaxBlockSize)
    BY StreamAssumption DEF ChunkInv
  <2>. QED
    BY <2>1
<1>2. n \in 1..MaxPlaintextSizeForTarget(target) /\ ValidTarget(target)
  BY DEF ChunkInv
<1>3. n \in Nat \ {0}
  BY <1>1, <1>2, TargetRoom
<1>. QED
  BY <1>1, <1>2, <1>3, TargetFits, PlaintextShorter, NumBlocksFit

LEMMA TextBytes ==
  ASSUME ChunkInv, chunk # 0, NEW i \in 0..(NumBlocks(n) - 1)
  PROVE  /\ Len(Text(i)) = PaddedLen(n, i)
         /\ Sealed(BlockNonce(nonce, i), Text(i)) = [k \in BytesOf(i) |-> SealedByte(i, k)]
         /\ Len(Sealed(BlockNonce(nonce, i), Text(i))) = PaddedLen(n, i) + tagSize
         /\ \A k \in BytesOf(i) : Sealed(BlockNonce(nonce, i), Text(i))[k] = SealedByte(i, k)
<1>1. n \in Nat \ {0}
  BY ChunkSizes
<1>2. PaddedLen(n, i) \in Nat
  BY <1>1, SealedBlocksApart
<1>. DEFINE t == Text(i)
<1>3. t = [k \in 1..PaddedLen(n, i) |-> t[k]]
  BY DEF Text
<1>. HIDE DEF t
<1>4. /\ Len(t) = PaddedLen(n, i)
      /\ Sealed(BlockNonce(nonce, i), t) =
           [k \in 1..(PaddedLen(n, i) + tagSize) |-> <<"sealed", BlockNonce(nonce, i), t, k>>]
      /\ Len(Sealed(BlockNonce(nonce, i), t)) = PaddedLen(n, i) + tagSize
      /\ \A k \in 1..(PaddedLen(n, i) + tagSize) :
           Sealed(BlockNonce(nonce, i), t)[k] = <<"sealed", BlockNonce(nonce, i), t, k>>
  BY <1>2, <1>3, SealedBytes
<1>. QED
  BY <1>4 DEF t, BytesOf, SealedByte

-----------------------------------------------------------------------------
(* The encryption of a chunk: the invariant is kept                        *)

\* Blocks and plaintext are those of the same chunk after a step that keeps it.
LEMMA SameChunk ==
  ASSUME UNCHANGED <<n, chunk, nonce>>
  PROVE  /\ \A i, k : SealedByte(i, k)' = SealedByte(i, k)
         /\ \A i : BytesOf(i)' = BytesOf(i)
         /\ \A i : Lies(buf, i)' <=> Lies(buf', i)
         /\ \A i : LiesDamaged(received, i)' <=> LiesDamaged(received', i)
         /\ \A m : PlainBelow(buf, m)' <=> PlainBelow(buf', m)
         /\ PlainBelow(received, offset)' <=> PlainBelow(received', offset')
<1>1. \A i, k : SealedByte(i, k)' = SealedByte(i, k)
  BY DEF SealedByte, Text
<1>2. \A i : BytesOf(i)' = BytesOf(i)
  BY DEF BytesOf
<1>3. \A i : Lies(buf, i)' <=> Lies(buf', i)
  BY <1>1, <1>2 DEF Lies
<1>4. \A i : LiesDamaged(received, i)' <=> LiesDamaged(received', i)
  BY <1>1, <1>2 DEF LiesDamaged
<1>5. \A m : PlainBelow(buf, m)' <=> PlainBelow(buf', m)
  BY DEF PlainBelow
<1>6. PlainBelow(received, offset)' <=> PlainBelow(received', offset')
  BY DEF PlainBelow
<1>. QED
  BY <1>1, <1>2, <1>3, <1>4, <1>5, <1>6

LEMMA BlockPositions ==
  ASSUME ChunkInv, chunk # 0, NEW i \in 0..(NumBlocks(n) - 1), NEW k \in BytesOf(i)
  PROVE  /\ k \in Nat /\ SealedStart(i) \in Nat /\ PaddedLen(n, i) \in Nat /\ SealedStart(i) + k - 1 \in Nat
         /\ SealedStart(i) + k - 1 \in 0..(TotalSize(n) - 1) /\ SealedStart(i) + k - 1 \in 0..(target - 1)
         /\ HeaderSize <= SealedStart(i) + k - 1
         /\ SealedStart(i) <= SealedStart(i) + k - 1
         /\ SealedStart(i) + k - 1 < SealedStart(i) + (PaddedLen(n, i) + tagSize)
         /\ \A h \in 0..(NumBlocks(n) - 1) :
              h < i => SealedStart(h) + (PaddedLen(n, h) + tagSize) <= SealedStart(i) + k - 1
<1>1. n \in Nat \ {0} /\ target \in Nat /\ TotalSize(n) \in Nat /\ TotalSize(n) <= target
  BY ChunkSizes
<1>2. /\ i \in Nat /\ SealedStart(i) \in Nat /\ PaddedLen(n, i) \in Nat
      /\ SealedStart(i) + PaddedLen(n, i) + tagSize <= TotalSize(n)
  BY <1>1, SealedBlocksApart
<1>3. k \in 1..(PaddedLen(n, i) + tagSize) /\ tagSize \in Nat /\ HeaderSize \in Nat /\ HeaderSize <= SealedStart(i)
  BY <1>2, Rooms, StreamConstants DEF BytesOf
<1>. DEFINE p == SealedStart(i) + k - 1
<1>4. /\ p \in Nat /\ p < TotalSize(n) /\ p < target /\ HeaderSize <= p /\ SealedStart(i) <= p
      /\ p < SealedStart(i) + (PaddedLen(n, i) + tagSize)
  BY <1>1, <1>2, <1>3
<1>5. ASSUME NEW h \in 0..(NumBlocks(n) - 1), h < i
      PROVE  SealedStart(h) + (PaddedLen(n, h) + tagSize) <= p
  <2>1. i \in (h + 1)..(NumBlocks(n) - 1)
    BY <1>2, <1>5
  <2>2. /\ SealedStart(h) + PaddedLen(n, h) + tagSize <= SealedStart(i)
        /\ SealedStart(h) \in Nat /\ PaddedLen(n, h) \in Nat
    BY <1>1, <2>1, SealedBlocksApart
  <2>. HIDE DEF p
  <2>. QED
    BY <1>2, <1>3, <1>4, <2>2
<1>6. p \in 0..(TotalSize(n) - 1) /\ p \in 0..(target - 1)
  <2>. HIDE DEF p
  <2>. QED
    BY <1>1, <1>4
<1>7. k \in Nat
  BY <1>2, <1>3
<1>. QED
  BY <1>2, <1>4, <1>5, <1>6, <1>7

LEMMA StreamInvInit == StreamInit => StreamInv
<1>. SUFFICES ASSUME StreamInit PROVE StreamInv
  OBVIOUS
<1>1. target \in Targets /\ ValidTarget(target) /\ DOMAIN buf = 0..(target - 1)
      /\ n = 0 /\ chunk = 0 /\ streamPhase = "read"
  BY DEF StreamInit
<1>2. NumChunks \in Nat
  BY StreamAssumption
<1>. QED
  BY <1>1, <1>2 DEF StreamInv, ChunkInv, BufferInv, ReceivedInv

LEMMA ReadUpToInv == StreamInv /\ ReadUpTo => StreamInv'
<1>. SUFFICES ASSUME StreamInv, ReadUpTo PROVE StreamInv'
  OBVIOUS
<1>. DEFINE bufSize == MaxPlaintextSizeForTarget(target)
            read == [k \in 1..n' |-> Plain(chunk, k - 1)]
<1>1. /\ streamPhase = "read" /\ chunk < NumChunks /\ chunk' = chunk + 1 /\ streamPhase' = "encrypt"
      /\ n' \in IF chunk = NumChunks - 1 THEN 1..bufSize ELSE {bufSize}
      /\ buf' = Copied(buf, 0, read)
      /\ UNCHANGED <<target, step, nonce, received, offset>>
  BY DEF ReadUpTo
<1>2. /\ target \in Targets /\ ValidTarget(target) /\ chunk \in Nat /\ NumChunks \in Nat
      /\ DOMAIN buf = 0..(target - 1)
  BY StreamAssumption DEF StreamInv, ChunkInv, BufferInv
<1>3. target \in Nat
  <2>1. target \in 0..(NonceSpace * MaxBlockSize)
    BY <1>2, StreamAssumption
  <2>. QED
    BY <2>1
<1>4. bufSize \in Nat \ {0}
  BY <1>2, <1>3, TargetRoom
<1>. HIDE DEF bufSize
<1>5. n' \in 1..bufSize /\ (chunk' < NumChunks => n' = bufSize) /\ chunk' \in Nat \ {0} /\ chunk' <= NumChunks
  BY <1>1, <1>2, <1>4
<1>6. ChunkInv'
  <2>1. n' # 0
    BY <1>4, <1>5
  <2>. QED
    BY <1>1, <1>2, <1>5, <2>1 DEF ChunkInv, bufSize
<1>7. n' \in Nat \ {0} /\ n' <= target
  <2>1. n' \in Nat \ {0}
    BY <1>4, <1>5
  <2>2. n' \in 1..MaxPlaintextSizeForTarget(target)
    BY <1>5 DEF bufSize
  <2>3. TotalSize(n') \in Nat /\ TotalSize(n') <= target /\ n' <= TotalSize(n')
    BY <1>2, <1>3, <2>1, <2>2, TargetFits, PlaintextShorter
  <2>. QED
    BY <1>3, <2>1, <2>3
<1>8. Len(read) = n' /\ \A k \in 1..n' : read[k] = Plain(chunk, k - 1)
  <2>1. read = [k \in 1..n' |-> read[k]] /\ n' \in Nat
    BY <1>7
  <2>. HIDE DEF read
  <2>2. Len(read) = n'
    BY <2>1, LengthIs
  <2>. QED
    BY <2>2 DEF read
<1>. HIDE DEF read
<1>9. /\ DOMAIN buf' = DOMAIN buf
      /\ \A k \in 1..n' : 0 + k - 1 \in DOMAIN buf => buf'[0 + k - 1] = read[k]
  <2>1. DOMAIN buf \subseteq Nat /\ 0 \in Nat /\ n' \in Nat
    BY <1>2, <1>3, <1>7
  <2>. QED
    BY <1>1, <1>8, <2>1, CopiedBytes
<1>10. ASSUME NEW k \in 0..(n' - 1)
       PROVE  buf'[k] = Plain(chunk' - 1, k)
  <2>a. k \in Nat /\ k < n'
    <3>. DEFINE m == n'
    <3>1. m \in Nat \ {0} /\ k \in 0..(m - 1)
      BY <1>7
    <3>. HIDE DEF m
    <3>2. k \in Nat /\ k < m
      BY <3>1
    <3>. QED
      BY <3>2 DEF m
  <2>1. k + 1 \in 1..n' /\ 0 + (k + 1) - 1 = k /\ k \in DOMAIN buf /\ chunk' - 1 = chunk
    <3>1. k + 1 \in 1..n' /\ 0 + (k + 1) - 1 = k
      BY <1>7, <2>a
    <3>2. k \in 0..(target - 1)
      BY <1>3, <1>7, <2>a
    <3>3. chunk' - 1 = chunk
      BY <1>1, <1>2
    <3>. QED
      BY <1>2, <3>1, <3>2, <3>3
  <2>2. buf'[k] = read[k + 1]
    BY <1>9, <2>1
  <2>3. read[k + 1] = Plain(chunk, k)
    BY <1>8, <2>1
  <2>. QED
    BY <2>1, <2>2, <2>3
<1>11. PlainBelow(buf, n)'
  BY <1>10 DEF PlainBelow
<1>12. BufferInv'
  BY <1>1, <1>2, <1>5, <1>9, <1>11 DEF BufferInv
<1>. QED
  BY <1>1, <1>6, <1>12 DEF StreamInv, ReceivedInv

LEMMA EncryptInv == StreamInv /\ Encrypt => StreamInv'
<1>. SUFFICES ASSUME StreamInv, Encrypt PROVE StreamInv'
  OBVIOUS
<1>1. /\ streamPhase = "encrypt" /\ streamPhase' = "seal" /\ step' = 0 /\ nonce' \in InitialNonces
      /\ UNCHANGED <<target, buf, n, chunk, received, offset>>
  BY DEF Encrypt
<1>2. ChunkInv /\ chunk # 0 /\ PlainBelow(buf, n) /\ DOMAIN buf = 0..(target - 1)
  BY <1>1 DEF StreamInv, BufferInv
<1>3. NumBlocks(n) \in Nat \ {0}
  BY <1>2, ChunkSizes
<1>4. ChunkInv'
  BY <1>1, <1>2 DEF ChunkInv
<1>5. PlainBelow(buf, PlaintextStart(NumBlocks(n) - step))'
  <2>1. n \in Nat
    BY <1>2, ChunkSizes
  <2>2. \A k \in 0..(n - 1) : buf[k] = Plain(chunk - 1, k)
    BY <1>2, <2>1 DEF PlainBelow
  <2>. QED
    BY <1>1, <2>2 DEF PlainBelow
<1>6. step' \in 0..NumBlocks(n') /\ (NumBlocks(n') - step')..(NumBlocks(n') - 1) = {}
  BY <1>1, <1>3
<1>7. BufferInv'
  BY <1>1, <1>2, <1>5, <1>6 DEF BufferInv
<1>. QED
  BY <1>1, <1>4, <1>7 DEF StreamInv, ReceivedInv

LEMMA SealBlockInv == StreamInv /\ SealBlock => StreamInv'
<1>. SUFFICES ASSUME StreamInv, SealBlock PROVE StreamInv'
  OBVIOUS
<1>. DEFINE i == NumBlocks(n) - 1 - step
            start == PlaintextStart(i)
            end == LesserOf(start + Room(i), n)
            tmp == [k \in 1..PaddedLen(n, i) |-> IF k <= end - start THEN buf[start + k - 1] ELSE Zero]
            s == Sealed(BlockNonce(nonce, i), tmp)
<1>1. /\ streamPhase = "seal" /\ step < NumBlocks(n) /\ step' = step + 1
      /\ buf' = Copied(buf, SealedStart(i), s)
      /\ UNCHANGED <<target, n, chunk, streamPhase, nonce, received, offset>>
  BY DEF SealBlock, BlockToSeal, Room, SealedStart, BlockStart
<1>2. /\ ChunkInv /\ chunk # 0 /\ DOMAIN buf = 0..(target - 1) /\ nonce \in InitialNonces
      /\ step \in 0..NumBlocks(n)
      /\ PlainBelow(buf, PlaintextStart(NumBlocks(n) - step))
      /\ \A j \in (NumBlocks(n) - step)..(NumBlocks(n) - 1) : Lies(buf, j)
  BY <1>1 DEF StreamInv, BufferInv
<1>3. /\ n \in Nat \ {0} /\ target \in Nat /\ TotalSize(n) \in Nat /\ TotalSize(n) <= target
      /\ n <= TotalSize(n) /\ NumBlocks(n) \in Nat \ {0}
  BY <1>2, ChunkSizes
<1>4. i \in 0..(NumBlocks(n) - 1) /\ i \in Nat /\ NumBlocks(n) - step = i + 1 /\ NumBlocks(n) - step' = i
  BY <1>1, <1>2, <1>3
<1>. HIDE DEF i
<1>5. /\ start \in Nat /\ start <= BlockStart(i) /\ PlaintextStart(i + 1) = start + Room(i)
      /\ BlockStart(i) <= SealedStart(i) /\ BlockStart(i) \in Nat /\ SealedStart(i) \in Nat
      /\ end = start + BlockDataSize(n, i) /\ BlockDataSize(n, i) \in 1..Room(i) /\ Room(i) \in Nat
  BY <1>3, <1>4, PlaintextStarts, Rooms, DataSizes
<1>6. /\ PaddedLen(n, i) \in Nat /\ PaddedLen(n, i) + tagSize \in Nat
      /\ SealedStart(i) + PaddedLen(n, i) + tagSize <= TotalSize(n)
      /\ \A j \in (i + 1)..(NumBlocks(n) - 1) : SealedStart(i) + PaddedLen(n, i) + tagSize <= SealedStart(j)
  BY <1>3, <1>4, SealedBlocksApart
<1>7. tmp = Text(i)
  <2>1. ASSUME NEW k \in 1..PaddedLen(n, i), k <= BlockDataSize(n, i)
        PROVE  buf[start + k - 1] = Plain(chunk - 1, start + k - 1)
    <3>1. start + k - 1 \in 0..(n - 1) /\ start + k - 1 < PlaintextStart(i + 1)
      <4>1. end <= n
        BY <1>3, <1>5 DEF LesserOf
      <4>2. k \in Nat /\ BlockDataSize(n, i) \in Nat
        BY <1>5, <1>6
      <4>. HIDE DEF start, end
      <4>. QED
        BY <1>3, <1>5, <2>1, <4>1, <4>2
    <3>. QED
      BY <1>2, <1>4, <3>1 DEF PlainBelow
  <2>2. end - start = BlockDataSize(n, i)
    <3>1. BlockDataSize(n, i) \in Nat
      BY <1>5
    <3>. HIDE DEF start, end
    <3>. QED
      BY <1>5, <3>1
  <2>3. tmp = [k \in 1..PaddedLen(n, i) |-> IF k <= BlockDataSize(n, i) THEN buf[start + k - 1] ELSE Zero]
    BY <2>2
  <2>. HIDE DEF tmp, end
  <2>. QED
    BY <2>1, <2>3 DEF Text
<1>8. Len(s) = PaddedLen(n, i) + tagSize /\ \A k \in BytesOf(i) : s[k] = SealedByte(i, k)
  BY <1>2, <1>4, <1>7, TextBytes
<1>. HIDE DEF s, tmp, end
<1>9. /\ DOMAIN buf' = DOMAIN buf
      /\ \A p \in DOMAIN buf :
           p < SealedStart(i) \/ p >= SealedStart(i) + (PaddedLen(n, i) + tagSize) => buf'[p] = buf[p]
      /\ \A k \in 1..(PaddedLen(n, i) + tagSize) :
           SealedStart(i) + k - 1 \in DOMAIN buf => buf'[SealedStart(i) + k - 1] = s[k]
  <2>1. DOMAIN buf \subseteq Nat
    BY <1>2, <1>3
  <2>2. SealedStart(i) \in Nat
    BY <1>5
  <2>. QED
    BY <1>1, <1>6, <1>8, <2>1, <2>2, CopiedBytes
<1>10. Lies(buf', i)
  <2>1. ASSUME NEW k \in BytesOf(i) PROVE SealedStart(i) + k - 1 \in DOMAIN buf
    BY <1>2, <1>4, BlockPositions
  <2>. QED
    BY <1>8, <1>9, <2>1 DEF Lies, BytesOf
<1>11. ASSUME NEW j \in (i + 1)..(NumBlocks(n) - 1)
       PROVE  Lies(buf', j)
  <2>1. j \in 0..(NumBlocks(n) - 1) /\ Lies(buf, j)
    BY <1>2, <1>4
  <2>2. i < j
    BY <1>4
  <2>3. ASSUME NEW k \in BytesOf(j)
        PROVE  buf'[SealedStart(j) + k - 1] = buf[SealedStart(j) + k - 1]
    <3>1. /\ SealedStart(j) + k - 1 \in DOMAIN buf
          /\ SealedStart(j) + k - 1 >= SealedStart(i) + (PaddedLen(n, i) + tagSize)
      BY <1>2, <1>4, <2>1, <2>2, BlockPositions
    <3>. QED
      BY <1>9, <3>1
  <2>. QED
    BY <2>1, <2>3 DEF Lies
<1>12. PlainBelow(buf', start)
  <2>1. ASSUME NEW k \in 0..(n - 1), k < start
        PROVE  buf'[k] = Plain(chunk - 1, k)
    <3>1. k \in DOMAIN buf /\ k < SealedStart(i) /\ k < PlaintextStart(i + 1)
      <4>. HIDE DEF start
      <4>. QED
        BY <1>2, <1>3, <1>5, <2>1
    <3>. QED
      BY <1>2, <1>4, <1>9, <3>1 DEF PlainBelow
  <2>. QED
    BY <2>1 DEF PlainBelow
<1>13. ChunkInv'
  BY <1>1, <1>2 DEF ChunkInv
<1>14. PlainBelow(buf, PlaintextStart(NumBlocks(n) - step))'
  BY <1>1, <1>4, <1>12, SameChunk
<1>15. \A j \in i..(NumBlocks(n) - 1) : Lies(buf, j)'
  <2>1. \A j \in i..(NumBlocks(n) - 1) : j = i \/ j \in (i + 1)..(NumBlocks(n) - 1)
    BY <1>3, <1>4
  <2>. QED
    BY <1>1, <1>10, <1>11, <2>1, SameChunk
<1>16. step' \in 0..NumBlocks(n')
  BY <1>1, <1>2, <1>3
<1>17. BufferInv'
  BY <1>1, <1>2, <1>4, <1>9, <1>14, <1>15, <1>16 DEF BufferInv
<1>. QED
  BY <1>1, <1>13, <1>17 DEF StreamInv, ReceivedInv

LEMMA WriteHeaderInv == StreamInv /\ WriteHeader => StreamInv'
<1>. SUFFICES ASSUME StreamInv, WriteHeader PROVE StreamInv'
  OBVIOUS
<1>. DEFINE h == Header(nonce, n)
<1>1. /\ streamPhase = "seal" /\ step = NumBlocks(n) /\ streamPhase' = "sent"
      /\ buf' = Copied(buf, 0, h)
      /\ UNCHANGED <<target, n, chunk, step, nonce, received, offset>>
  BY DEF WriteHeader
<1>2. /\ ChunkInv /\ chunk # 0 /\ DOMAIN buf = 0..(target - 1) /\ nonce \in InitialNonces
      /\ \A j \in (NumBlocks(n) - step)..(NumBlocks(n) - 1) : Lies(buf, j)
  BY <1>1 DEF StreamInv, BufferInv
<1>3. /\ n \in Nat \ {0} /\ target \in Nat /\ TotalSize(n) \in Nat /\ TotalSize(n) <= target
      /\ HeaderSize <= TotalSize(n) /\ NumBlocks(n) \in Nat \ {0} /\ HeaderSize \in Nat
  BY <1>2, ChunkSizes, StreamConstants
<1>4. h = [k \in 1..HeaderSize |-> h[k]]
  BY DEF Header
<1>. HIDE DEF h
<1>5. Len(h) = HeaderSize
  BY <1>3, <1>4, LengthIs
<1>6. /\ DOMAIN buf' = DOMAIN buf
      /\ \A p \in DOMAIN buf : p < 0 \/ p >= 0 + HeaderSize => buf'[p] = buf[p]
      /\ \A k \in 1..HeaderSize : 0 + k - 1 \in DOMAIN buf => buf'[0 + k - 1] = h[k]
  <2>1. DOMAIN buf \subseteq Nat /\ 0 \in Nat
    BY <1>2, <1>3
  <2>. QED
    BY <1>1, <1>3, <1>5, <2>1, CopiedBytes
<1>7. ASSUME NEW k \in 0..(HeaderSize - 1) PROVE buf'[k] = h[k + 1]
  <2>1. k + 1 \in 1..HeaderSize /\ 0 + (k + 1) - 1 = k /\ k \in DOMAIN buf
    BY <1>2, <1>3
  <2>. QED
    BY <1>6, <2>1
<1>8. ASSUME NEW j \in 0..(NumBlocks(n) - 1) PROVE Lies(buf', j)
  <2>1. Lies(buf, j)
    BY <1>1, <1>2, <1>3
  <2>2. ASSUME NEW k \in BytesOf(j)
        PROVE  buf'[SealedStart(j) + k - 1] = buf[SealedStart(j) + k - 1]
    <3>1. SealedStart(j) + k - 1 \in DOMAIN buf /\ HeaderSize <= SealedStart(j) + k - 1
          /\ SealedStart(j) + k - 1 \in Nat
      BY <1>2, BlockPositions
    <3>2. SealedStart(j) + k - 1 >= 0 + HeaderSize
      BY <1>3, <3>1
    <3>. QED
      BY <1>6, <3>1, <3>2
  <2>. QED
    BY <2>1, <2>2 DEF Lies
<1>9. ChunkInv'
  BY <1>1, <1>2 DEF ChunkInv
<1>10. \A j \in 0..(NumBlocks(n) - 1) : Lies(buf, j)'
  BY <1>1, <1>8, SameChunk
<1>11. \A k \in 0..(HeaderSize - 1) : buf'[k] = Header(nonce', n')[k + 1]
  BY <1>1, <1>7 DEF h
<1>12. BufferInv'
  BY <1>1, <1>2, <1>6, <1>10, <1>11 DEF BufferInv
<1>. QED
  BY <1>1, <1>9, <1>12 DEF StreamInv, ReceivedInv

-----------------------------------------------------------------------------
(* The decryption of a chunk: the invariant is kept                        *)

LEMMA ReceiveInv == StreamInv /\ Receive => StreamInv'
<1>. SUFFICES ASSUME StreamInv, Receive PROVE StreamInv'
  OBVIOUS
<1>. DEFINE arrived == [k \in 0..(TotalSize(n) - 1) |-> buf[k]]
<1>1. /\ streamPhase = "sent" /\ streamPhase' = "open" /\ step' = 0 /\ offset' = 0
      /\ \/ received' = arrived
         \/ \E k \in HeaderSize..(TotalSize(n) - 1) : received' = [arrived EXCEPT ![k] = Damaged]
      /\ UNCHANGED <<target, buf, n, chunk, nonce>>
  BY DEF Receive
<1>2. /\ ChunkInv /\ chunk # 0 /\ DOMAIN buf = 0..(target - 1) /\ nonce \in InitialNonces
      /\ \A i \in 0..(NumBlocks(n) - 1) : Lies(buf, i)
  BY <1>1 DEF StreamInv, BufferInv
<1>3. n \in Nat \ {0} /\ NumBlocks(n) \in Nat \ {0}
  BY <1>2, ChunkSizes
<1>4. /\ DOMAIN received' = 0..(TotalSize(n) - 1)
      /\ \A k \in 0..(TotalSize(n) - 1) : received'[k] \in {buf[k], Damaged}
  BY <1>1
<1>. HIDE DEF arrived
<1>5. ASSUME NEW i \in 0..(NumBlocks(n) - 1) PROVE LiesDamaged(received', i)
  <2>1. ASSUME NEW k \in BytesOf(i)
        PROVE  received'[SealedStart(i) + k - 1] \in {SealedByte(i, k), Damaged}
    <3>1. SealedStart(i) + k - 1 \in 0..(TotalSize(n) - 1)
      BY <1>2, BlockPositions
    <3>2. buf[SealedStart(i) + k - 1] = SealedByte(i, k)
      BY <1>2 DEF Lies
    <3>. QED
      BY <1>4, <3>1, <3>2
  <2>. QED
    BY <2>1 DEF LiesDamaged
<1>6. PlainBelow(received', 0)
  BY <1>3 DEF PlainBelow
<1>7. Recovered(0)' = 0
  <2>1. NumBlocks(n') # 0
    BY <1>1, <1>3
  <2>2. PlaintextStart(0) = 0
    BY DEF PlaintextStart
  <2>. QED
    BY <2>1, <2>2 DEF Recovered
<1>8. PlainBelow(received, offset)' /\ \A i \in 0..(NumBlocks(n) - 1) : LiesDamaged(received, i)'
  BY <1>1, <1>5, <1>6, SameChunk
<1>9. step' \in 0..NumBlocks(n')
  BY <1>1, <1>3
<1>10. ReceivedInv'
  BY <1>1, <1>4, <1>7, <1>8, <1>9 DEF ReceivedInv
<1>11. ChunkInv'
  BY <1>1, <1>2 DEF ChunkInv
<1>12. BufferInv'
  BY <1>1, <1>2 DEF BufferInv
<1>. QED
  BY <1>1, <1>10, <1>11, <1>12 DEF StreamInv

LEMMA BlockEnds ==
  ASSUME ChunkInv, chunk # 0, NEW i \in 0..(NumBlocks(n) - 1)
  PROVE  /\ BlockEnd(i) - SealedStart(i) = PaddedLen(n, i) + tagSize
         /\ BlockEnd(i) - SealedStart(i) - tagSize = PaddedLen(n, i)
<1>1. n \in Nat \ {0}
  BY ChunkSizes
<1>2. /\ SealedStart(i) \in Nat /\ PaddedLen(n, i) \in Nat
      /\ BlockEnd(i) = SealedStart(i) + PaddedLen(n, i) + tagSize
  BY <1>1, SealedBlocksApart DEF BlockEnd
<1>. QED
  BY <1>2, StreamConstants

\* The two kinds of bytes that lie in a block.
LEMMA SealedByteParts ==
  ASSUME NEW i, NEW k
  PROVE  /\ SealedByte(i, k)[1] = "sealed" /\ SealedByte(i, k)[3] = Text(i)
         /\ SealedByte(i, k) # Damaged /\ Damaged[1] # "sealed"
<1>. DEFINE v == BlockNonce(nonce, i)
            t == Text(i)
<1>1. SealedByte(i, k) = <<"sealed", v, t, k>>
  BY DEF SealedByte
<1>. HIDE DEF v, t
<1>2. <<"sealed", v, t, k>>[1] = "sealed" /\ <<"sealed", v, t, k>>[3] = t
  OBVIOUS
<1>3. Damaged[1] = "damaged"
  BY DEF Damaged
<1>4. Damaged[1] # "sealed"
  BY <1>3
<1>. QED
  BY <1>1, <1>2, <1>4 DEF t

\* Open succeeds on the block that was sealed and on nothing a damaged byte makes of it.
LEMMA OpensSealed ==
  ASSUME ChunkInv, chunk # 0, NEW i \in 0..(NumBlocks(n) - 1), LiesDamaged(received, i)
  PROVE  Opens(received, i) <=> Lies(received, i)
<1>. DEFINE s == Slice(received, SealedStart(i), BlockEnd(i))
            v == BlockNonce(nonce, i)
<1>1. s = [k \in BytesOf(i) |-> received[SealedStart(i) + k - 1]]
  BY BlockEnds DEF Slice, BytesOf
<1>2. 1 \in BytesOf(i)
  <2>1. n \in Nat \ {0}
    BY ChunkSizes
  <2>2. PaddedLen(n, i) + tagSize \in Nat \ {0}
    BY <2>1, SealedBlocksApart
  <2>. QED
    BY <2>2 DEF BytesOf
<1>3. Sealed(v, Text(i)) = [k \in BytesOf(i) |-> SealedByte(i, k)]
  BY TextBytes
<1>4. Opens(received, i) <=> s[1][1] = "sealed" /\ s = Sealed(v, s[1][3])
  BY DEF Opens
<1>5. s[1] \in {SealedByte(i, 1), Damaged}
  BY <1>1, <1>2 DEF LiesDamaged
<1>6. ASSUME Opens(received, i) PROVE Lies(received, i)
  <2>1. s[1] = SealedByte(i, 1)
    BY <1>4, <1>5, <1>6, SealedByteParts
  <2>2. s[1][3] = Text(i)
    BY <2>1, SealedByteParts
  <2>3. s = [k \in BytesOf(i) |-> SealedByte(i, k)]
    BY <1>3, <1>4, <1>6, <2>2
  <2>4. \A k \in BytesOf(i) : s[k] = SealedByte(i, k) /\ s[k] = received[SealedStart(i) + k - 1]
    <3>. HIDE DEF s
    <3>. QED
      BY <1>1, <2>3
  <2>. QED
    BY <2>4 DEF Lies
<1>7. ASSUME Lies(received, i) PROVE Opens(received, i)
  <2>1. s = [k \in BytesOf(i) |-> SealedByte(i, k)]
    BY <1>1, <1>7 DEF Lies
  <2>2. s[1] = SealedByte(i, 1)
    <3>. HIDE DEF s
    <3>. QED
      BY <1>2, <2>1
  <2>3. s[1][1] = "sealed" /\ s[1][3] = Text(i)
    BY <2>2, SealedByteParts
  <2>. HIDE DEF s
  <2>. QED
    BY <1>3, <1>4, <2>1, <2>3
<1>. QED
  BY <1>6, <1>7

LEMMA OpenedText ==
  ASSUME ChunkInv, chunk # 0, NEW i \in 0..(NumBlocks(n) - 1), Lies(received, i)
  PROVE  TextOf(received, i) = Text(i)
<1>. DEFINE t == Text(i)
<1>1. PaddedLen(n, i) \in Nat /\ t = [k \in 1..PaddedLen(n, i) |-> t[k]]
  <2>1. n \in Nat \ {0}
    BY ChunkSizes
  <2>. QED
    BY <2>1, SealedBlocksApart DEF Text
<1>2. ASSUME NEW k \in 1..PaddedLen(n, i)
      PROVE  LET y == received[SealedStart(i) + k - 1] IN (IF y = Damaged THEN y ELSE y[3][k]) = t[k]
  <2>1. k \in BytesOf(i)
    BY <1>1, StreamConstants DEF BytesOf
  <2>2. received[SealedStart(i) + k - 1] = SealedByte(i, k)
    BY <2>1 DEF Lies
  <2>3. SealedByte(i, k) # Damaged /\ SealedByte(i, k)[3] = t
    BY SealedByteParts
  <2>. HIDE DEF t
  <2>. QED
    BY <2>2, <2>3
<1>. DEFINE f(k) == LET y == received[SealedStart(i) + k - 1] IN IF y = Damaged THEN y ELSE y[3][k]
<1>3. TextOf(received, i) = [k \in 1..PaddedLen(n, i) |-> f(k)]
  BY BlockEnds DEF TextOf
<1>4. \A k \in 1..PaddedLen(n, i) : f(k) = t[k]
  BY <1>2
<1>. HIDE DEF f, t
<1>5. TextOf(received, i) = t
  BY <1>1, <1>3, <1>4
<1>. QED
  BY <1>5 DEF t

\* The numbers of a block that is opened.
LEMMA OpenNumbers ==
  ASSUME ChunkInv, chunk # 0, NEW i \in 0..(NumBlocks(n) - 1)
  PROVE  /\ i \in Nat /\ n \in Nat \ {0} /\ TotalSize(n) \in Nat /\ n <= TotalSize(n)
         /\ BlockDataSize(n, i) \in Nat /\ PaddedLen(n, i) \in Nat /\ BlockDataSize(n, i) <= PaddedLen(n, i)
         /\ PlaintextStart(i) \in Nat /\ BlockStart(i) \in Nat /\ SealedStart(i) \in Nat
         /\ PlaintextStart(i) <= BlockStart(i) /\ BlockStart(i) <= SealedStart(i)
         /\ SealedStart(i) + PaddedLen(n, i) <= TotalSize(n)
         /\ Recovered(i) = PlaintextStart(i)
         /\ Recovered(i + 1) = PlaintextStart(i) + BlockDataSize(n, i)
         /\ Recovered(i + 1) <= n
<1>1. n \in Nat \ {0} /\ TotalSize(n) \in Nat /\ n <= TotalSize(n) /\ NumBlocks(n) \in Nat \ {0}
  BY ChunkSizes
<1>2. i \in Nat /\ i # NumBlocks(n)
  BY <1>1
<1>3. Room(i) \in Nat /\ BlockStart(i) \in Nat /\ SealedStart(i) \in Nat /\ BlockStart(i) <= SealedStart(i)
  BY <1>2, Rooms
<1>4. BlockDataSize(n, i) \in Nat
  <2>1. BlockDataSize(n, i) \in 1..Room(i)
    BY <1>1, DataSizes
  <2>. QED
    BY <1>3, <2>1
<1>5. PaddedLen(n, i) \in Nat /\ BlockDataSize(n, i) <= PaddedLen(n, i)
  BY <1>1, SealedSizes
<1>6. SealedStart(i) + PaddedLen(n, i) <= TotalSize(n)
  <2>1. SealedStart(i) + PaddedLen(n, i) + tagSize <= TotalSize(n)
    BY <1>1, SealedBlocksApart
  <2>. QED
    BY <1>1, <1>3, <1>5, <2>1, StreamConstants
<1>7. PlaintextStart(i) \in Nat /\ PlaintextStart(i) <= BlockStart(i)
  BY <1>2, PlaintextStarts
<1>8. Recovered(i) = PlaintextStart(i)
  BY <1>2 DEF Recovered
<1>9. Recovered(i + 1) = PlaintextStart(i) + BlockDataSize(n, i) /\ Recovered(i + 1) <= n
  <2>1. CASE i = NumBlocks(n) - 1
    <3>1. i + 1 = NumBlocks(n)
      BY <1>1, <2>1
    <3>2. PlaintextStart(i) + BlockDataSize(n, i) = n
      BY <1>1, <2>1, DataSizes
    <3>. QED
      BY <1>1, <3>1, <3>2 DEF Recovered
  <2>2. CASE i < NumBlocks(n) - 1
    <3>1. i + 1 # NumBlocks(n)
      BY <1>1, <1>2, <2>2
    <3>2. PlaintextStart(i) + BlockDataSize(n, i) = PlaintextStart(i + 1) /\ PlaintextStart(i + 1) < n
      BY <1>1, <2>2, DataSizes
    <3>3. PlaintextStart(i + 1) \in Nat
      BY <1>4, <1>7, <3>2
    <3>. QED
      BY <1>1, <3>1, <3>2, <3>3 DEF Recovered
  <2>. QED
    BY <1>1, <1>2, <2>1, <2>2
<1>. QED
  BY <1>1, <1>2, <1>3, <1>4, <1>5, <1>6, <1>7, <1>8, <1>9

LEMMA SliceBytes ==
  ASSUME NEW b, NEW from \in Nat, NEW m \in Nat
  PROVE  /\ Len(Slice(b, from, from + m)) = m
         /\ \A k \in 1..m : Slice(b, from, from + m)[k] = b[from + k - 1]
<1>. DEFINE s == Slice(b, from, from + m)
<1>1. (from + m) - from = m
  OBVIOUS
<1>2. s = [k \in 1..m |-> b[from + k - 1]]
  BY <1>1 DEF Slice
<1>. HIDE DEF s
<1>3. s = [k \in 1..m |-> s[k]] /\ \A k \in 1..m : s[k] = b[from + k - 1]
  BY <1>2
<1>4. Len(s) = m
  BY <1>3, LengthIs
<1>. QED
  BY <1>3, <1>4 DEF s

\* DecryptBlock leaves the plaintext of a block at the start of the block, and the other blocks alone.
LEMMA Decrypted ==
  ASSUME ChunkInv, chunk # 0, NEW i \in 0..(NumBlocks(n) - 1),
         DOMAIN received = 0..(TotalSize(n) - 1), Lies(received, i)
  PROVE  /\ DOMAIN DecryptBlock(received, i) = DOMAIN received
         /\ \A p \in DOMAIN received :
              p < BlockStart(i) \/ p >= SealedStart(i) + PaddedLen(n, i)
                => DecryptBlock(received, i)[p] = received[p]
         /\ \A k \in 1..BlockDataSize(n, i) :
              DecryptBlock(received, i)[BlockStart(i) + k - 1] = Plain(chunk - 1, PlaintextStart(i) + k - 1)
<1>. DEFINE actual == BlockDataSize(n, i)
            padded == PaddedLen(n, i)
            from == SealedStart(i)
            to == BlockStart(i)
            opened == Copied(received, from, Text(i))
            trimmed == Cleared(opened, from + actual, from + padded)
            s == Slice(trimmed, HeaderSize, HeaderSize + actual)
            b == DecryptBlock(received, i)
            P(k) == Plain(chunk - 1, PlaintextStart(i) + k - 1)
<1>1. /\ actual \in Nat /\ padded \in Nat /\ actual <= padded /\ from \in Nat /\ to \in Nat /\ to <= from
      /\ TotalSize(n) \in Nat /\ from + padded <= TotalSize(n) /\ HeaderSize \in Nat
  BY OpenNumbers, StreamConstants
<1>2. Len(Text(i)) = padded /\ TextOf(received, i) = Text(i)
  BY OpenedText, TextBytes
<1>3. b = IF i = 0 THEN Copied(trimmed, 0, s) ELSE trimmed
  BY <1>2 DEF DecryptBlock
<1>4. \A k \in 1..actual : Text(i)[k] = P(k)
  <2>1. \A k \in 1..actual : k \in 1..padded /\ k <= actual
    <3>. HIDE DEF actual, padded
    <3>. QED
      BY <1>1
  <2>. QED
    BY <2>1 DEF Text
<1>5. DOMAIN received = 0..(TotalSize(n) - 1) /\ DOMAIN received \subseteq Nat
  BY <1>1
<1>6. /\ DOMAIN opened = DOMAIN received
      /\ \A p \in DOMAIN received : p < from \/ p >= from + padded => opened[p] = received[p]
      /\ \A k \in 1..padded : from + k - 1 \in DOMAIN received => opened[from + k - 1] = Text(i)[k]
  <2>. HIDE DEF from, padded
  <2>. QED
    BY <1>1, <1>2, <1>5, CopiedBytes
<1>7. i = 0 => from = HeaderSize /\ to = 0
  BY Rooms
<1>8. i # 0 => from = to
  <2>1. i \in Nat
    BY OpenNumbers
  <2>. QED
    BY <2>1, Rooms
<1>. HIDE DEF opened, actual, padded, from, to, P, b
<1>9. /\ DOMAIN trimmed = DOMAIN received
      /\ \A p \in DOMAIN received : p < from + actual \/ p >= from + padded => trimmed[p] = opened[p]
  <2>1. from + actual \in Nat /\ from + padded \in Nat /\ DOMAIN opened \subseteq Nat
    BY <1>1, <1>5, <1>6
  <2>2. /\ DOMAIN trimmed = DOMAIN opened
        /\ \A p \in DOMAIN opened : p < from + actual \/ p >= from + padded => trimmed[p] = opened[p]
    BY <2>1, ClearedBytes
  <2>. HIDE DEF trimmed
  <2>. QED
    BY <1>6, <2>2
<1>. HIDE DEF trimmed
<1>10. \A p \in DOMAIN received : p < from \/ p >= from + padded => trimmed[p] = received[p]
  <2>1. ASSUME NEW p \in DOMAIN received, p < from \/ p >= from + padded
        PROVE  p < from + actual \/ p >= from + padded
    BY <1>1, <1>5, <2>1
  <2>. QED
    BY <1>6, <1>9, <2>1
<1>11. ASSUME NEW k \in 1..actual
       PROVE  from + k - 1 \in DOMAIN received /\ trimmed[from + k - 1] = P(k)
  <2>1. from + k - 1 \in DOMAIN received /\ from + k - 1 < from + actual /\ k \in 1..padded
    BY <1>1, <1>5
  <2>. QED
    BY <1>4, <1>6, <1>9, <2>1
<1>12. CASE i # 0
  <2>1. b = trimmed /\ from = to
    BY <1>3, <1>8, <1>12
  <2>. QED
    BY <1>9, <1>10, <1>11, <2>1 DEF actual, padded, from, to, P, b
<1>13. CASE i = 0
  <2>1. b = Copied(trimmed, 0, s) /\ from = HeaderSize /\ to = 0
    BY <1>3, <1>7, <1>13
  <2>2. Len(s) = actual /\ \A k \in 1..actual : s[k] = trimmed[HeaderSize + k - 1]
    BY <1>1, SliceBytes
  <2>. HIDE DEF s
  <2>3. /\ DOMAIN b = DOMAIN trimmed
        /\ \A p \in DOMAIN trimmed : p < 0 \/ p >= 0 + actual => b[p] = trimmed[p]
        /\ \A k \in 1..actual : 0 + k - 1 \in DOMAIN trimmed => b[0 + k - 1] = s[k]
    <3>1. 0 \in Nat /\ DOMAIN trimmed \subseteq Nat
      BY <1>5, <1>9
    <3>. QED
      BY <1>1, <2>1, <2>2, <3>1, CopiedBytes
  <2>4. ASSUME NEW p \in DOMAIN received, p < to \/ p >= from + padded PROVE b[p] = received[p]
    <3>1. p \in Nat /\ p >= 0 + actual
      BY <1>1, <1>5, <2>1, <2>4
    <3>2. p < from \/ p >= from + padded
      BY <1>1, <2>4, <3>1
    <3>. QED
      BY <1>9, <1>10, <2>3, <3>1, <3>2
  <2>5. ASSUME NEW k \in 1..actual PROVE b[to + k - 1] = P(k)
    <3>1. 0 + k - 1 \in DOMAIN trimmed
      BY <1>1, <1>5, <1>9
    <3>. QED
      BY <1>11, <2>1, <2>2, <2>3, <3>1
  <2>. QED
    BY <1>9, <2>3, <2>4, <2>5 DEF actual, padded, from, to, P, b
<1>. QED
  BY <1>12, <1>13

LEMMA OpenBlockInv == StreamInv /\ OpenBlock => StreamInv'
<1>. SUFFICES ASSUME StreamInv, OpenBlock PROVE StreamInv'
  OBVIOUS
<1>. DEFINE size == BlockDataSize(n, step)
            b == DecryptBlock(received, step)
            s == Slice(b, BlockStart(step), BlockStart(step) + size)
<1>1. /\ streamPhase = "open" /\ step < NumBlocks(n) /\ Opens(received, step)
      /\ received' = Copied(b, offset, s) /\ offset' = offset + size /\ step' = step + 1
      /\ UNCHANGED <<target, buf, n, chunk, streamPhase, nonce>>
  BY DEF OpenBlock
<1>2. ChunkInv /\ chunk # 0 /\ nonce \in InitialNonces /\ DOMAIN buf = 0..(target - 1)
  BY <1>1 DEF StreamInv, BufferInv
<1>3. /\ step \in 0..NumBlocks(n) /\ offset = Recovered(step)
      /\ DOMAIN received = 0..(TotalSize(n) - 1)
      /\ PlainBelow(received, offset)
      /\ \A i \in step..(NumBlocks(n) - 1) : LiesDamaged(received, i)
  BY <1>1 DEF StreamInv, ReceivedInv
<1>4. NumBlocks(n) \in Nat /\ step \in 0..(NumBlocks(n) - 1) /\ step \in step..(NumBlocks(n) - 1)
  BY <1>1, <1>2, <1>3, ChunkSizes
<1>5. Lies(received, step)
  BY <1>1, <1>2, <1>3, <1>4, OpensSealed
<1>6. /\ step \in Nat /\ n \in Nat \ {0} /\ TotalSize(n) \in Nat /\ n <= TotalSize(n)
      /\ size \in Nat /\ PaddedLen(n, step) \in Nat /\ size <= PaddedLen(n, step)
      /\ PlaintextStart(step) \in Nat /\ BlockStart(step) \in Nat /\ SealedStart(step) \in Nat
      /\ PlaintextStart(step) <= BlockStart(step) /\ BlockStart(step) <= SealedStart(step)
      /\ SealedStart(step) + PaddedLen(n, step) <= TotalSize(n)
      /\ Recovered(step) = PlaintextStart(step)
      /\ Recovered(step + 1) = PlaintextStart(step) + size
      /\ Recovered(step + 1) <= n
  BY <1>2, <1>4, OpenNumbers
<1>7. /\ DOMAIN b = DOMAIN received
      /\ \A p \in DOMAIN received :
           p < BlockStart(step) \/ p >= SealedStart(step) + PaddedLen(n, step) => b[p] = received[p]
      /\ \A k \in 1..size : b[BlockStart(step) + k - 1] = Plain(chunk - 1, PlaintextStart(step) + k - 1)
  BY <1>2, <1>3, <1>4, <1>5, Decrypted
<1>. HIDE DEF b, size
<1>8. Len(s) = size /\ \A k \in 1..size : s[k] = b[BlockStart(step) + k - 1]
  <2>1. BlockStart(step) \in Nat /\ size \in Nat
    BY <1>6
  <2>. QED
    BY <2>1, SliceBytes
<1>. HIDE DEF s
<1>9. offset = PlaintextStart(step) /\ offset' = Recovered(step + 1) /\ DOMAIN b \subseteq Nat
  BY <1>1, <1>3, <1>6, <1>7
<1>10. /\ DOMAIN received' = DOMAIN b
       /\ \A p \in DOMAIN b : p < offset \/ p >= offset + size => received'[p] = b[p]
       /\ \A k \in 1..size : offset + k - 1 \in DOMAIN b => received'[offset + k - 1] = s[k]
  <2>1. offset \in Nat /\ size \in Nat
    BY <1>6, <1>9
  <2>2. received' = Copied(b, offset, s) /\ Len(s) = size /\ DOMAIN b \subseteq Nat
    BY <1>1, <1>8, <1>9
  <2>. DEFINE c == Copied(b, offset, s)
  <2>3. DOMAIN c = DOMAIN b
    BY <2>1, <2>2, CopiedBytes
  <2>4. \A p \in DOMAIN b : p < offset \/ p >= offset + size => c[p] = b[p]
    BY <2>1, <2>2, CopiedBytes
  <2>5. \A k \in 1..size : offset + k - 1 \in DOMAIN b => c[offset + k - 1] = s[k]
    BY <2>1, <2>2, CopiedBytes
  <2>6. received' = c
    BY <2>2
  <2>. HIDE DEF c
  <2>. QED
    BY <2>3, <2>4, <2>5, <2>6
<1>11. PlainBelow(received', offset')
  <2>1. ASSUME NEW k \in 0..(n - 1), k < offset + size PROVE received'[k] = Plain(chunk - 1, k)
    <3>1. k \in Nat /\ k \in DOMAIN b
      BY <1>3, <1>6, <1>7
    <3>2. CASE k < offset
      <4>1. k < BlockStart(step)
        BY <1>6, <1>9, <3>1, <3>2
      <4>2. received'[k] = received[k]
        BY <1>7, <1>10, <3>1, <3>2, <4>1
      <4>. QED
        BY <1>3, <3>2, <4>2 DEF PlainBelow
    <3>3. CASE ~(k < offset)
      <4>. DEFINE h == k - offset + 1
      <4>1. h \in 1..size /\ offset + h - 1 = k
        BY <1>6, <1>9, <2>1, <3>1, <3>3
      <4>. HIDE DEF h
      <4>2. received'[k] = s[h] /\ s[h] = b[BlockStart(step) + h - 1]
        BY <1>8, <1>10, <3>1, <4>1
      <4>3. b[BlockStart(step) + h - 1] = Plain(chunk - 1, PlaintextStart(step) + h - 1)
        BY <1>7, <4>1
      <4>. QED
        BY <1>9, <4>1, <4>2, <4>3
    <3>. QED
      BY <3>2, <3>3
  <2>. QED
    BY <1>1, <2>1 DEF PlainBelow
<1>12. ASSUME NEW i \in (step + 1)..(NumBlocks(n) - 1) PROVE LiesDamaged(received', i)
  <2>1. i \in 0..(NumBlocks(n) - 1) /\ step < i /\ LiesDamaged(received, i)
    <3>1. i \in step..(NumBlocks(n) - 1)
      BY <1>4, <1>6
    <3>. QED
      BY <1>3, <1>4, <1>6, <3>1
  <2>2. ASSUME NEW k \in BytesOf(i)
        PROVE  received'[SealedStart(i) + k - 1] = received[SealedStart(i) + k - 1]
    <3>. DEFINE p == SealedStart(i) + k - 1
    <3>1. p \in DOMAIN received /\ p \in Nat /\ SealedStart(step) + (PaddedLen(n, step) + tagSize) <= p
      BY <1>2, <1>3, <1>4, <2>1, BlockPositions
    <3>. HIDE DEF p
    <3>2. p >= SealedStart(step) + PaddedLen(n, step)
      BY <1>6, <3>1, StreamConstants
    <3>3. p >= offset + size
      BY <1>6, <1>9, <3>1, <3>2
    <3>4. received'[p] = received[p]
      BY <1>7, <1>10, <3>1, <3>2, <3>3
    <3>. QED
      BY <3>4 DEF p
  <2>. QED
    BY <2>1, <2>2 DEF LiesDamaged
<1>13. PlainBelow(received, offset)' /\ \A i \in (step + 1)..(NumBlocks(n) - 1) : LiesDamaged(received, i)'
  BY <1>1, <1>11, <1>12, SameChunk
<1>14. step' \in 0..NumBlocks(n')
  BY <1>1, <1>4
<1>15. offset' = Recovered(step)'
  BY <1>1, <1>9 DEF Recovered
<1>16. ReceivedInv'
  BY <1>1, <1>3, <1>7, <1>10, <1>13, <1>14, <1>15 DEF ReceivedInv
<1>17. ChunkInv'
  BY <1>1, <1>2 DEF ChunkInv
<1>18. BufferInv'
  BY <1>1, <1>2 DEF BufferInv
<1>. QED
  BY <1>1, <1>16, <1>17, <1>18 DEF StreamInv

LEMMA OpenFailsInv == StreamInv /\ OpenFails => StreamInv'
<1>. SUFFICES ASSUME StreamInv, OpenFails PROVE StreamInv'
  OBVIOUS
<1>1. /\ streamPhase = "open" /\ step < NumBlocks(n) /\ ~Opens(received, step) /\ streamPhase' = "corrupted"
      /\ UNCHANGED <<target, buf, n, chunk, step, nonce, received, offset>>
  BY DEF OpenFails
<1>2. ChunkInv /\ chunk # 0 /\ DOMAIN buf = 0..(target - 1)
  BY <1>1 DEF StreamInv, BufferInv
<1>3. /\ step \in 0..NumBlocks(n) /\ DOMAIN received = 0..(TotalSize(n) - 1)
      /\ \A i \in step..(NumBlocks(n) - 1) : LiesDamaged(received, i)
  BY <1>1 DEF StreamInv, ReceivedInv
<1>4. step \in 0..(NumBlocks(n) - 1) /\ step \in step..(NumBlocks(n) - 1)
  BY <1>1, <1>2, <1>3, ChunkSizes
<1>5. PICK k \in BytesOf(step) : received[SealedStart(step) + k - 1] = Damaged
  <2>1. ~Lies(received, step)
    BY <1>1, <1>2, <1>3, <1>4, OpensSealed
  <2>. QED
    BY <1>3, <1>4, <2>1 DEF Lies, LiesDamaged
<1>6. SealedStart(step) + k - 1 \in DOMAIN received
  BY <1>2, <1>3, <1>4, BlockPositions
<1>7. \E p \in DOMAIN received : received[p] = Damaged
  BY <1>5, <1>6
<1>8. ReceivedInv'
  BY <1>1, <1>7 DEF ReceivedInv
<1>9. ChunkInv'
  BY <1>1, <1>2 DEF ChunkInv
<1>10. BufferInv'
  BY <1>1, <1>2 DEF BufferInv
<1>. QED
  BY <1>1, <1>8, <1>9, <1>10 DEF StreamInv

LEMMA ClearRestInv == StreamInv /\ ClearRest => StreamInv'
<1>. SUFFICES ASSUME StreamInv, ClearRest PROVE StreamInv'
  OBVIOUS
<1>1. /\ streamPhase = "open" /\ step = NumBlocks(n) /\ streamPhase' = "received"
      /\ received' = Cleared(received, offset, TotalSize(n))
      /\ UNCHANGED <<target, buf, n, chunk, step, nonce, offset>>
  BY DEF ClearRest
<1>2. ChunkInv /\ chunk # 0 /\ DOMAIN buf = 0..(target - 1)
  BY <1>1 DEF StreamInv, BufferInv
<1>3. offset = n /\ DOMAIN received = 0..(TotalSize(n) - 1) /\ PlainBelow(received, n)
  BY <1>1 DEF StreamInv, ReceivedInv, Recovered
<1>4. n \in Nat \ {0} /\ TotalSize(n) \in Nat
  BY <1>2, ChunkSizes
<1>. DEFINE c == Cleared(received, n, TotalSize(n))
<1>5. /\ DOMAIN c = DOMAIN received
      /\ \A p \in DOMAIN received : p < n \/ p >= TotalSize(n) => c[p] = received[p]
      /\ \A p \in DOMAIN received : n <= p /\ p < TotalSize(n) => c[p] = Zero
  <2>1. DOMAIN received \subseteq Nat
    BY <1>3, <1>4
  <2>. QED
    BY <1>4, <2>1, ClearedBytes
<1>6. received' = c
  BY <1>1, <1>3
<1>. HIDE DEF c
<1>7. ASSUME NEW k \in DOMAIN received'
      PROVE  received'[k] = IF k < n THEN Plain(chunk - 1, k) ELSE Zero
  <2>1. k \in DOMAIN received /\ k \in 0..(TotalSize(n) - 1)
    BY <1>3, <1>5, <1>6
  <2>2. CASE k < n
    <3>1. k \in 0..(n - 1)
      BY <1>4, <2>1, <2>2
    <3>2. received[k] = Plain(chunk - 1, k)
      BY <1>3, <2>2, <3>1 DEF PlainBelow
    <3>. QED
      BY <1>5, <1>6, <2>1, <2>2, <3>2
  <2>3. CASE ~(k < n)
    <3>1. n <= k /\ k < TotalSize(n)
      BY <1>4, <2>1, <2>3
    <3>. QED
      BY <1>5, <1>6, <2>1, <2>3, <3>1
  <2>. QED
    BY <2>2, <2>3
<1>8. ReceivedInv'
  BY <1>1, <1>3, <1>7 DEF ReceivedInv
<1>9. ChunkInv'
  BY <1>1, <1>2 DEF ChunkInv
<1>10. BufferInv'
  BY <1>1, <1>2 DEF BufferInv
<1>. QED
  BY <1>1, <1>8, <1>9, <1>10 DEF StreamInv

LEMMA NextChunkInv == StreamInv /\ NextChunk => StreamInv'
<1>. SUFFICES ASSUME StreamInv, NextChunk PROVE StreamInv'
  OBVIOUS
<1>1. streamPhase' = "read" /\ UNCHANGED <<target, buf, n, chunk, nonce>>
  BY DEF NextChunk
<1>2. ChunkInv'
  BY <1>1 DEF StreamInv, ChunkInv
<1>3. BufferInv' /\ ReceivedInv'
  BY <1>1 DEF StreamInv, BufferInv, ReceivedInv
<1>. QED
  BY <1>1, <1>2, <1>3 DEF StreamInv

LEMMA StreamInvStutters == StreamInv /\ UNCHANGED streamVars => StreamInv'
<1>. SUFFICES ASSUME StreamInv, UNCHANGED streamVars PROVE StreamInv'
  OBVIOUS
<1>1. UNCHANGED <<target, buf, n, chunk, streamPhase, step, nonce, received, offset>>
  BY DEF streamVars
<1>2. ChunkInv'
  BY <1>1 DEF StreamInv, ChunkInv
<1>3. /\ \A i : (Lies(buf, i)' <=> Lies(buf, i)) /\ (LiesDamaged(received, i)' <=> LiesDamaged(received, i))
      /\ \A m : PlainBelow(buf, m)' <=> PlainBelow(buf, m)
      /\ PlainBelow(received, offset)' <=> PlainBelow(received, offset)
  BY <1>1, SameChunk
<1>4. BufferInv'
  BY <1>1, <1>3 DEF StreamInv, BufferInv
<1>5. ReceivedInv'
  <2>1. Recovered(step)' = Recovered(step)
    BY <1>1 DEF Recovered
  <2>. QED
    BY <1>1, <1>3, <2>1 DEF StreamInv, ReceivedInv
<1>. QED
  BY <1>1, <1>2, <1>4, <1>5 DEF StreamInv

LEMMA StreamInvNext == StreamInv /\ [StreamNext]_streamVars => StreamInv'
<1>. SUFFICES ASSUME StreamInv, [StreamNext]_streamVars PROVE StreamInv'
  OBVIOUS
<1>1. CASE ReadUpTo
  BY <1>1, ReadUpToInv
<1>2. CASE Encrypt
  BY <1>2, EncryptInv
<1>3. CASE SealBlock
  BY <1>3, SealBlockInv
<1>4. CASE WriteHeader
  BY <1>4, WriteHeaderInv
<1>5. CASE Receive
  BY <1>5, ReceiveInv
<1>6. CASE OpenBlock
  BY <1>6, OpenBlockInv
<1>7. CASE OpenFails
  BY <1>7, OpenFailsInv
<1>8. CASE ClearRest
  BY <1>8, ClearRestInv
<1>9. CASE NextChunk
  BY <1>9, NextChunkInv
<1>10. CASE StreamEnded
  BY <1>10, StreamInvStutters DEF StreamEnded
<1>11. CASE UNCHANGED streamVars
  BY <1>11, StreamInvStutters
<1>. QED
  BY <1>1, <1>2, <1>3, <1>4, <1>5, <1>6, <1>7, <1>8, <1>9, <1>10, <1>11 DEF StreamNext

LEMMA StreamInvHolds == StreamSpec => []StreamInv
<1>1. StreamInit => StreamInv
  BY StreamInvInit
<1>2. StreamInv /\ [StreamNext]_streamVars => StreamInv'
  BY StreamInvNext
<1>. QED
  BY <1>1, <1>2, PTL DEF StreamSpec

-----------------------------------------------------------------------------
(* The encryption of a chunk: theorems                                     *)

LEMMA InvFitsTarget == StreamInv => CiphertextSize
<1>. SUFFICES ASSUME StreamInv PROVE CiphertextSize
  OBVIOUS
<1>1. ChunkInv
  BY DEF StreamInv
<1>2. ASSUME n > 0 PROVE TotalSize(n) <= target
  <2>1. chunk # 0
    BY <1>1, <1>2 DEF ChunkInv
  <2>. QED
    BY <1>1, <2>1, ChunkSizes
<1>3. ASSUME streamPhase = "sent"
      PROVE  /\ TotalSize(n) % ecDataBlocks = 0
             /\ TotalSize(n) = n + Overhead(n)
             /\ \A k \in 0..(n + Overhead(n) - 1) : buf[k][1] \in {"header", "sealed"}
             /\ chunk < NumChunks /\ target % MaxBlockSize # tagSize => TotalSize(n) = target
  <2>1. /\ chunk # 0
        /\ \A k \in 0..(HeaderSize - 1) : buf[k] = Header(nonce, n)[k + 1]
        /\ \A i \in 0..(NumBlocks(n) - 1) : Lies(buf, i)
    BY <1>3 DEF StreamInv, BufferInv
  <2>2. /\ n \in Nat \ {0} /\ target \in Nat /\ TotalSize(n) \in Nat
        /\ HeaderSize <= TotalSize(n) /\ HeaderSize \in Nat
    BY <1>1, <2>1, ChunkSizes, StreamConstants
  <2>3. TotalSize(n) % ecDataBlocks = 0
    <3>. DEFINE last == NumBlocks(n) - 1
    <3>1. last \in 0..(NumBlocks(n) - 1)
      BY <2>2, NumBlocksFit
    <3>. QED
      BY <2>2, <3>1, SealedSizes
  <2>4. TotalSize(n) = n + Overhead(n)
    <3>1. Overhead(n) = TotalSize(n) - n
      BY <2>2 DEF Overhead
    <3>. QED
      BY <2>2, <3>1
  <2>5. ASSUME NEW k \in 0..(TotalSize(n) - 1) PROVE buf[k][1] \in {"header", "sealed"}
    <3>1. CASE k < HeaderSize
      <4>1. k \in 0..(HeaderSize - 1) /\ k + 1 \in 1..HeaderSize
        BY <2>2, <3>1
      <4>2. buf[k] = <<"header", nonce, n, k + 1>>
        BY <2>1, <4>1 DEF Header
      <4>3. buf[k][1] = "header"
        BY <4>2
      <4>. QED
        BY <4>3
    <3>2. CASE ~(k < HeaderSize)
      <4>1. k \in HeaderSize..(TotalSize(n) - 1)
        BY <2>2, <3>2
      <4>2. PICK i \in 0..(NumBlocks(n) - 1) : k - SealedStart(i) + 1 \in 1..(PaddedLen(n, i) + tagSize)
        BY <2>2, <4>1, Covered
      <4>. DEFINE h == k - SealedStart(i) + 1
      <4>3. h \in BytesOf(i) /\ SealedStart(i) + h - 1 = k
        <5>1. SealedStart(i) \in Nat
          BY <2>2, SealedBlocksApart
        <5>. QED
          BY <2>2, <4>2, <5>1 DEF BytesOf
      <4>. HIDE DEF h
      <4>4. buf[k] = SealedByte(i, h)
        BY <2>1, <4>3 DEF Lies
      <4>5. buf[k][1] = "sealed"
        BY <4>4, SealedByteParts
      <4>. QED
        BY <4>5
    <3>. QED
      BY <3>1, <3>2
  <2>6. ASSUME chunk < NumChunks, target % MaxBlockSize # tagSize PROVE TotalSize(n) = target
    <3>1. ValidTarget(target) /\ n = MaxPlaintextSizeForTarget(target) /\ n \in 1..MaxPlaintextSizeForTarget(target)
      BY <1>1, <2>1, <2>2, <2>6 DEF ChunkInv
    <3>2. /\ TotalSize(n) <= target
          /\ n = MaxPlaintextSizeForTarget(target) /\ target % MaxBlockSize # tagSize => TotalSize(n) = target
      <4>. DEFINE t == target
                  size == n
      <4>1. t \in Nat /\ ValidTarget(t) /\ size \in 1..MaxPlaintextSizeForTarget(t)
        BY <2>2, <3>1
      <4>. HIDE DEF t, size
      <4>2. /\ TotalSize(size) <= t
            /\ size = MaxPlaintextSizeForTarget(t) /\ t % MaxBlockSize # tagSize => TotalSize(size) = t
        BY <4>1, TargetFits
      <4>. QED
        BY <4>2 DEF t, size
    <3>. QED
      BY <2>6, <3>1, <3>2
  <2>7. \A k \in 0..(n + Overhead(n) - 1) : buf[k][1] \in {"header", "sealed"}
    <3>1. Overhead(n) = TotalSize(n) - n
      BY <2>2 DEF Overhead
    <3>. SUFFICES ASSUME NEW k \in 0..(n + Overhead(n) - 1) PROVE buf[k][1] \in {"header", "sealed"}
      OBVIOUS
    <3>2. k \in 0..(TotalSize(n) - 1)
      BY <2>2, <3>1
    <3>. QED
      BY <2>5, <3>2
  <2>. QED
    BY <2>3, <2>4, <2>6, <2>7, Zenon
<1>. QED
  BY <1>2, <1>3 DEF CiphertextSize

LEMMA InvNoncesDiffer == StreamInv => NoncesDistinct
<1>. SUFFICES ASSUME StreamInv, streamPhase = "sent",
                     NEW i \in 0..(NumBlocks(n) - 1), NEW j \in 0..(NumBlocks(n) - 1), i # j
              PROVE  buf[SealedStart(i)][2] # buf[SealedStart(j)][2]
  BY DEF NoncesDistinct
<1>1. /\ ChunkInv /\ chunk # 0 /\ nonce \in InitialNonces
      /\ \A h \in 0..(NumBlocks(n) - 1) : Lies(buf, h)
  BY DEF StreamInv, BufferInv
<1>2. ASSUME NEW h \in 0..(NumBlocks(n) - 1) PROVE buf[SealedStart(h)][2] = BlockNonce(nonce, h)
  <2>1. n \in Nat \ {0}
    BY <1>1, ChunkSizes
  <2>2. SealedStart(h) \in Nat /\ PaddedLen(n, h) + tagSize \in Nat \ {0}
    BY <2>1, SealedBlocksApart
  <2>3. 1 \in BytesOf(h) /\ SealedStart(h) + 1 - 1 = SealedStart(h)
    BY <2>2 DEF BytesOf
  <2>4. buf[SealedStart(h)] = SealedByte(h, 1)
    BY <1>1, <2>3 DEF Lies
  <2>. DEFINE t == Text(h)
              v == BlockNonce(nonce, h)
  <2>5. SealedByte(h, 1) = <<"sealed", v, t, 1>>
    BY DEF SealedByte
  <2>. HIDE DEF t, v
  <2>6. buf[SealedStart(h)][2] = v
    BY <2>4, <2>5
  <2>. QED
    BY <2>6 DEF v
<1>3. BlockNonce(nonce, i) # BlockNonce(nonce, j)
  <2>1. target \in Targets /\ ValidTarget(target) /\ n \in 1..MaxPlaintextSizeForTarget(target)
    BY <1>1 DEF ChunkInv
  <2>. QED
    BY <1>1, <2>1, NoncesDiffer
<1>. QED
  BY <1>2, <1>3

LEMMA InvRoundTrips == StreamInv => RoundTrip
  BY DEF StreamInv, ReceivedInv, RoundTrip

\* MaxPlaintextSizeForTarget never reads more into the buffer of Upload2 than Encrypt has room
\* for, the ciphertext is what Overhead says and can be dealt out to the data blocks, and a full
\* buffer fills its target, for every target MaxPlaintextSizeForTarget accepts.
THEOREM CiphertextsFit == StreamSpec => []CiphertextSize
  BY StreamInvHolds, InvFitsTarget, PTL

\* No two blocks of a chunk are sealed under one nonce, wherever the counter starts: a chunk has
\* no more blocks than the counter has values.
THEOREM NoncesStayDistinct == StreamSpec => []NoncesDistinct
  BY StreamInvHolds, InvNoncesDiffer, PTL

\* Encrypt, which seals the blocks of a chunk from the last to the first in the buffer that holds
\* the plaintext, and DecryptAllBlocks, which opens them from the first to the last and compacts
\* them in theirs, give back the plaintext of a chunk of any size, or fail for a damaged byte.
THEOREM ChunksRoundTrip == StreamSpec => []RoundTrip
  BY StreamInvHolds, InvRoundTrips, PTL
=============================================================================
