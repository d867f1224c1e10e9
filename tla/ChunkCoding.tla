----------------------------- MODULE ChunkCoding -----------------------------
(***************************************************************************)
(* The erasure coding of a chunk by Encode and its inverse ExtractData:    *)
(* the data is wrapped between its size and a magic suffix, dealt out to   *)
(* shards, and recovered from the shards that are left; others are         *)
(* missing, damaged or cut short.                                          *)
(***************************************************************************)
EXTENDS ErasureCode

CONSTANTS
  prefix,        \* bytes of the size
  magicSuffix,   \* the bytes that follow the data
  Data,          \* contents of the chunk
  MaxDamaged     \* shards with a damaged byte, at most

WrapAssumption ==
  /\ prefix = 1 /\ magicSuffix \in Seq(Byte) /\ MaxDamaged \in Nat
  /\ \A d \in Data : d \in Seq(Byte) /\ Len(d) < Field

VARIABLES
  data,      \* the chunk
  phase,     \* "read", "coded", "extracted"
  blocks,    \* the shards, as they are stored
  damaged,   \* shards with a wrong byte
  cut,       \* a shard has lost its last byte
  result     \* what ExtractData returns

vars == <<data, phase, blocks, damaged, cut, result>>

WrapOverhead == prefix + Len(magicSuffix)

Wrap(d) == <<Len(d)>> \o d \o magicSuffix

Unwrap(buf) ==
  LET dataEnd == prefix + buf[1] IN
  IF \/ Len(buf) < WrapOverhead
     \/ dataEnd + Len(magicSuffix) > Len(buf)
     \/ SubSeq(buf, dataEnd + 1, dataEnd + Len(magicSuffix)) # magicSuffix
    THEN Failed
    ELSE SubSeq(buf, prefix + 1, dataEnd)

Init ==
  /\ data \in Data
  /\ phase = "read" /\ blocks = <<>> /\ damaged = {} /\ cut = FALSE /\ result = Failed

Encode ==
  /\ phase = "read"
  /\ blocks' = Shards(Wrap(data), 0, Len(Wrap(data)))
  /\ phase' = "coded"
  /\ UNCHANGED <<data, damaged, cut, result>>

Lose ==
  /\ phase = "coded"
  /\ \E i \in Present(blocks) \ damaged : blocks' = [blocks EXCEPT ![i] = Missing]
  /\ UNCHANGED <<data, phase, damaged, cut, result>>

Damage ==
  /\ phase = "coded" /\ Cardinality(damaged) < MaxDamaged /\ ~cut
  /\ \E i \in Present(blocks) \ damaged :
       /\ \E r \in DOMAIN blocks[i] : blocks' = [blocks EXCEPT ![i][r] = (@ + 1) % Field]
       /\ damaged' = damaged \union {i}
  /\ UNCHANGED <<data, phase, cut, result>>

\* A damaged shard too, and one that has a byte left.
CutShort ==
  /\ phase = "coded" /\ damaged = {} /\ ~cut
  /\ \E i \in Present(blocks) :
       /\ Len(blocks[i]) > 1
       /\ blocks' = [blocks EXCEPT ![i] = SubSeq(@, 1, Len(@) - 1)]
       /\ damaged' = {i}
  /\ cut' = TRUE
  /\ UNCHANGED <<data, phase, result>>

ExtractData ==
  /\ phase = "coded"
  /\ result' = LET joined == Extract(blocks) IN IF joined = Failed THEN Failed ELSE Unwrap(joined)
  /\ phase' = "extracted"
  /\ UNCHANGED <<data, blocks, damaged, cut>>

Ended == phase = "extracted" /\ UNCHANGED vars

Next == Encode \/ Lose \/ Damage \/ CutShort \/ ExtractData \/ Ended

Spec == Init /\ [][Next]_vars
-----------------------------------------------------------------------------
(* Properties.                                                             *)

Lost == Total - Cardinality(Present(blocks))

\* Every chunk, also one that no multiple of DataBlocks is long, is recovered exactly while
\* no more than ParityBlocks shards are missing and none is damaged ("missing no more than
\* %d shards", erasure_code_test.go:75), and never beyond (:98).  Redundancy that is not used
\* up by missing shards detects damaged ones: no more than ParityBlocks missing and damaged
\* shards together never give wrong data.
RecoverableIffEnoughLeft ==
  phase = "extracted" =>
    /\ damaged = {} => result = IF Lost <= ParityBlocks THEN data ELSE Failed
    /\ damaged # {} /\ Lost + Cardinality(damaged) <= ParityBlocks => result = Failed
=============================================================================
