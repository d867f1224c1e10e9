------------------------------ MODULE NodesProofs -----------------------------
(***************************************************************************)
(* What calls share on their way to the nodes.  The pool of connections    *)
(* stays consistent, for any number of calls of get and close and any      *)
(* addresses: the invariant has two parts, how the steps of the calls and  *)
(* the lock belong together, and what the holder of the write lock may     *)
(* rely on between its second look and its insertion.  What uploadChunk    *)
(* reports is what the nodes have, and a resumed call is refused for no    *)
(* block that is there already: for every number and every size of blocks  *)
(* and parts, every limit and any number of faults.                        *)
(***************************************************************************)
EXTENDS ConnectionPool, BlockUpload, FiniteSetTheorems, TLAPS

-----------------------------------------------------------------------------
(* The pool *)

\* The write lock is held alone, by the call that is at one of the steps under it; the read
\* lock is held by those that read.
LockInv ==
  /\ \A g \in Goroutine : pc[g] \in {"check", "new", "insert", "close"} => writer = g
  /\ \A g \in Goroutine : g \in readers <=> pc[g] = "read"
  /\ writer # None => readers = {}
  /\ \A c \in Closer : pc[c] \notin {"read", "check", "new", "insert"}

\* The map's connections are open and at their address; an open connection is in the map, or
\* about to be inserted where there is none.
MapInv ==
  /\ \A a \in Addr : connections[a] # None => connections[a] \in open /\ AddrOf[connections[a]] = a
  /\ \A c \in open : connections[AddrOf[c]] = c \/ pc[c] = "insert"
  /\ \A g \in Getter : pc[g] \in {"new", "insert"} => connections[AddrOf[g]] = None
  /\ \A g \in Getter : pc[g] = "insert" => g \in open

PoolInv == PoolTypeOK /\ LockInv /\ MapInv

\* The invariant holds before the first call.
LEMMA InitInv == PoolInit => PoolInv
  BY PoolAssumption DEF PoolInit, PoolInv, PoolTypeOK, LockInv, MapInv, Goroutine, Location

\* Every step of a call keeps the types.
LEMMA TypeStep == PoolTypeOK /\ LockInv /\ [PoolNext]_poolVars => PoolTypeOK'
<1> SUFFICES ASSUME PoolTypeOK, LockInv, [PoolNext]_poolVars PROVE PoolTypeOK'
  OBVIOUS
<1> USE PoolAssumption DEF PoolTypeOK, Goroutine, Location, MoveTo, Return, Unlock
<1>1. ASSUME NEW g \in Getter, Get(g) PROVE PoolTypeOK'
  <2>1. CASE RLock(g)
    BY <2>1 DEF RLock
  <2>2. CASE Hit(g)
    BY <2>2 DEF Hit
  <2>3. CASE Miss(g)
    BY <2>3 DEF Miss
  <2>4. CASE Lock(g)
    BY <2>4 DEF Lock
  <2>5. CASE CheckHit(g)
    BY <2>5 DEF CheckHit
  <2>6. CASE CheckMiss(g)
    BY <2>6 DEF CheckMiss
  <2>7. CASE NewClient(g)
    BY <2>7 DEF NewClient
  <2>8. CASE NewClientFails(g)
    BY <2>8 DEF NewClientFails
  <2>9. CASE Insert(g)
    BY <2>9 DEF Insert
  <2> QED BY <1>1, <2>1, <2>2, <2>3, <2>4, <2>5, <2>6, <2>7, <2>8, <2>9 DEF Get
<1>2. ASSUME NEW c \in Closer, Close(c) PROVE PoolTypeOK'
  <2>1. CASE StartClose(c)
    BY <2>1 DEF StartClose
  <2>2. CASE Lock(c)
    BY <2>2 DEF Lock
  <2>3. ASSUME NEW a \in Addr, CloseOne(c, a) PROVE PoolTypeOK'
    BY <2>3 DEF CloseOne
  <2>4. CASE CloseReturns(c)
    BY <2>4 DEF CloseReturns
  <2> QED BY <1>2, <2>1, <2>2, <2>3, <2>4 DEF Close
<1>3. CASE UNCHANGED poolVars
  BY <1>3 DEF poolVars
<1> QED BY <1>1, <1>2, <1>3 DEF PoolNext, PoolEnded

\* Every step of a call keeps the discipline of the lock.
LEMMA LockStep == PoolTypeOK /\ LockInv /\ [PoolNext]_poolVars => LockInv'
<1> SUFFICES ASSUME PoolTypeOK, LockInv, [PoolNext]_poolVars PROVE LockInv'
  OBVIOUS
<1> USE PoolAssumption DEF PoolTypeOK, LockInv, Goroutine, MoveTo, Return, Unlock
<1>1. ASSUME NEW g \in Getter, Get(g) PROVE LockInv'
  <2>1. CASE RLock(g)
    BY <2>1 DEF RLock
  <2>2. CASE Hit(g)
    BY <2>2 DEF Hit
  <2>3. CASE Miss(g)
    BY <2>3 DEF Miss
  <2>4. CASE Lock(g)
    BY <2>4 DEF Lock
  <2>5. CASE CheckHit(g)
    BY <2>5 DEF CheckHit
  <2>6. CASE CheckMiss(g)
    BY <2>6 DEF CheckMiss
  <2>7. CASE NewClient(g)
    BY <2>7 DEF NewClient
  <2>8. CASE NewClientFails(g)
    BY <2>8 DEF NewClientFails
  <2>9. CASE Insert(g)
    BY <2>9 DEF Insert
  <2> QED BY <1>1, <2>1, <2>2, <2>3, <2>4, <2>5, <2>6, <2>7, <2>8, <2>9 DEF Get
<1>2. ASSUME NEW c \in Closer, Close(c) PROVE LockInv'
  <2>1. CASE StartClose(c)
    BY <2>1 DEF StartClose
  <2>2. CASE Lock(c)
    BY <2>2 DEF Lock
  <2>3. ASSUME NEW a \in Addr, CloseOne(c, a) PROVE LockInv'
    BY <2>3 DEF CloseOne
  <2>4. CASE CloseReturns(c)
    BY <2>4 DEF CloseReturns
  <2> QED BY <1>2, <2>1, <2>2, <2>3, <2>4 DEF Close
<1>3. CASE UNCHANGED poolVars
  BY <1>3 DEF poolVars
<1> QED BY <1>1, <1>2, <1>3 DEF PoolNext, PoolEnded

\* The map changes under the write lock only, so that what its holder has seen stays true.
LEMMA MapStep == PoolInv /\ [PoolNext]_poolVars => MapInv'
<1> SUFFICES ASSUME PoolTypeOK, LockInv, MapInv, [PoolNext]_poolVars PROVE MapInv'
  BY DEF PoolInv
<1> USE PoolAssumption DEF PoolTypeOK, LockInv, MapInv, Goroutine, MoveTo, Return, Unlock
<1>1. ASSUME NEW g \in Getter, Get(g) PROVE MapInv'
  <2>1. CASE RLock(g)
    BY <2>1 DEF RLock
  <2>2. CASE Hit(g)
    BY <2>2 DEF Hit
  <2>3. CASE Miss(g)
    BY <2>3 DEF Miss
  <2>4. CASE Lock(g)
    BY <2>4 DEF Lock
  <2>5. CASE CheckHit(g)
    BY <2>5 DEF CheckHit
  <2>6. CASE CheckMiss(g)
    BY <2>6 DEF CheckMiss
  <2>7. CASE NewClient(g)
    BY <2>7 DEF NewClient
  <2>8. CASE NewClientFails(g)
    BY <2>8 DEF NewClientFails
  <2>9. CASE Insert(g)
    BY <2>9 DEF Insert
  <2> QED BY <1>1, <2>1, <2>2, <2>3, <2>4, <2>5, <2>6, <2>7, <2>8, <2>9 DEF Get
<1>2. ASSUME NEW c \in Closer, Close(c) PROVE MapInv'
  <2>1. CASE StartClose(c)
    BY <2>1 DEF StartClose
  <2>2. CASE Lock(c)
    BY <2>2 DEF Lock
  <2>3. ASSUME NEW a \in Addr, CloseOne(c, a) PROVE MapInv'
    BY <2>3 DEF CloseOne
  <2>4. CASE CloseReturns(c)
    BY <2>4 DEF CloseReturns
  <2> QED BY <1>2, <2>1, <2>2, <2>3, <2>4 DEF Close
<1>3. CASE UNCHANGED poolVars
  BY <1>3 DEF poolVars
<1> QED BY <1>1, <1>2, <1>3 DEF PoolNext, PoolEnded

\* Two calls are never between their second look and their insertion at once.
LEMMA ConsistentByInv == PoolInv => PoolConsistent
<1> SUFFICES ASSUME PoolInv PROVE PoolConsistent
  OBVIOUS
<1> USE PoolAssumption DEF PoolInv, PoolTypeOK, LockInv, MapInv, Goroutine
<1>1. OneConnection
  BY DEF OneConnection
<1>2. NoneLost
  BY DEF NoneLost
<1>3. NoneStale
  BY DEF NoneStale
<1> QED BY <1>1, <1>2, <1>3 DEF PoolConsistent

\* The lock and the map keep their invariant.
THEOREM PoolInvariant == PoolSpec => []PoolInv
<1>1. PoolInv /\ [PoolNext]_poolVars => PoolInv'
  BY TypeStep, LockStep, MapStep DEF PoolInv
<1> QED BY InitInv, <1>1, PTL DEF PoolSpec

\* However calls of get and close meet, no address has two open connections, none is lost to
\* close, and the map has no closed one.
THEOREM PoolStaysConsistent == PoolSpec => []PoolConsistent
  BY PoolInvariant, ConsistentByInv, PTL
-----------------------------------------------------------------------------
(* uploadChunk *)

Part == [first : BOOLEAN, bytes : Nat \X Nat]

TypeInv ==
  /\ isResuming \in BOOLEAN /\ filled \subseteq Block /\ size \in [Block -> Nat \ {0}]
  /\ ctx \in {"live", "done"} /\ failed \in BOOLEAN
  /\ task \in [Block -> {"idle", "connect", "send", "close", "ended", "failed"}]
  /\ from \in [Block -> Nat] /\ stream \in [Block -> Seq(Part)]
  /\ refusal \in [Block -> {"none", "filled", "error"}] /\ stored \subseteq Block
  /\ blockCount \in Nat /\ bytesCount \in [Block -> Nat]
  /\ outcome \in {"none", "nil", "error"} /\ faults \in 0..MaxFaults

\* The parts of a stream, up to the byte that was sent last.
Parts(b) ==
  /\ stream[b] = <<>> <=> from[b] = 0
  /\ stream[b] # <<>> => stream[b][Len(stream[b])].bytes[2] = IF from[b] > size[b] THEN size[b] ELSE from[b]
  /\ \A k \in DOMAIN stream[b] :
       /\ stream[b][k].bytes[1] = IF k = 1 THEN 1 ELSE stream[b][k - 1].bytes[2] + 1
       /\ stream[b][k].bytes[1] <= stream[b][k].bytes[2]
       /\ stream[b][k].first = (k = 1)

\* A stream is closed early only when a node has refused it, and kept by a node only when whole.
ClosedWhole(b) ==
  /\ task[b] \in {"close", "ended"} /\ refusal[b] = "none" => from[b] >= size[b]
  /\ b \in stored => task[b] \in {"close", "ended", "failed"} /\ from[b] >= size[b] /\ refusal[b] = "none"

\* A goroutine ends without an error when its block is stored, now or before.
EndsStored(b) ==
  /\ refusal[b] = "filled" => b \in filled
  /\ task[b] = "ended" => b \in stored \/ (refusal[b] = "filled" /\ isResuming)
  /\ task[b] = "failed" => failed
  /\ outcome # "none" => task[b] \in {"ended", "failed"}

Troubled == failed \/ ctx = "done" \/ \E b \in Block : refusal[b] = "error"

\* An error has a cause, and in a resumed call that is a fault.
ErrorHasCause ==
  /\ outcome = "nil" => ~failed
  /\ outcome = "error" => failed
  /\ isResuming /\ Troubled => faults < MaxFaults

Acknowledged == {b \in stored : task[b] = "ended"}

Counted ==
  /\ blockCount = Cardinality(Acknowledged)
  /\ bytesCount = [b \in Block |-> IF b \in Acknowledged THEN size[b] ELSE 0]

BlockUploadInv ==
  /\ TypeInv /\ \A b \in Block : Parts(b) /\ ClosedWhole(b) /\ EndsStored(b)
  /\ ErrorHasCause /\ Counted
-----------------------------------------------------------------------------
(* What a step changes. *)

\* The steps of the call, of the goroutine of a block and of a node, in terms of what later
\* lemmas speak of; c is the block concerned.
Step(c) ==
  \/ Cancel \/ Wait
  \/ Launch(c) \/ Connect(c) \/ SendPart(c) \/ SentAll(c) \/ Aborted(c)
  \/ Accepted(c) \/ SkipFilled(c) \/ Refused(c) \/ NodeRefuses(c) \/ NodeStores(c)

LEMMA NextIsStep ==
  ASSUME Next
  PROVE  (\E c \in Block : Step(c)) \/ UNCHANGED vars
<1>1. 1 \in Block
  BY BlockUploadAssumption DEF Block
<1> QED BY <1>1, Zenon DEF Next, Step, BlockStep, Ended

\* A fault is one less to come.
LEMMA FaultTyped ==
  ASSUME faults \in 0..MaxFaults, Fault
  PROVE  faults' \in 0..MaxFaults /\ faults' < MaxFaults
BY BlockUploadAssumption DEF Fault

\* A part that is sent is not empty and ends within the block.
LEMMA PartTyped ==
  ASSUME TypeInv, NEW b \in Block, from[b] < size[b]
  PROVE  /\ PartEnd(b) \in Nat /\ from[b] + 1 <= PartEnd(b)
         /\ PartEnd(b) = IF from[b] + PartSize > size[b] THEN size[b] ELSE from[b] + PartSize
         /\ [first |-> FirstPart(b), bytes |-> <<from[b] + 1, PartEnd(b)>>] \in Part
         /\ from[b] + PartSize \in Nat /\ from[b] + PartSize # 0
<1>1. PartSize \in Nat \ {0} /\ from[b] \in Nat /\ size[b] \in Nat
  BY BlockUploadAssumption DEF TypeInv
<1>2. PartEnd(b) = IF from[b] + PartSize > size[b] THEN size[b] ELSE from[b] + PartSize
  BY DEF PartEnd
<1>3. PartEnd(b) \in Nat /\ from[b] + 1 <= PartEnd(b)
  BY <1>1, <1>2
<1>4. FirstPart(b) \in BOOLEAN
  BY DEF FirstPart
<1>5. [first |-> FirstPart(b), bytes |-> <<from[b] + 1, PartEnd(b)>>] \in Part
  BY <1>1, <1>3, <1>4 DEF Part
<1> QED BY <1>1, <1>2, <1>3, <1>5

\* What every step leaves alone; a part is sent only by a goroutine that is not at the end of
\* its block and whose node has not refused.
LEMMA StreamStep ==
  ASSUME TypeInv, NEW c \in Block, Step(c)
  PROVE  /\ isResuming' = isResuming /\ filled' = filled /\ size' = size
         /\ \/ stream' = stream /\ from' = from
            \/ /\ from[c] < size[c]
               /\ stream' = [stream EXCEPT ![c] = Append(@, [first |-> FirstPart(c), bytes |-> <<from[c] + 1, PartEnd(c)>>])]
               /\ from' = [from EXCEPT ![c] = @ + PartSize]
<1> USE DEF envVars
<1>1. CASE SendPart(c)
  BY <1>1 DEF SendPart, LoopEnd
<1>2. CASE ~SendPart(c)
  BY <1>2 DEF Step, Cancel, Wait, Launch, Connect, SentAll, Aborted, Accepted, SkipFilled, Refused,
              NodeRefuses, NodeStores, BlockOther
<1> QED BY <1>1, <1>2

\* Every variable keeps its type.
LEMMA StepTyped ==
  ASSUME TypeInv, NEW c \in Block, Step(c)
  PROVE  TypeInv'
<1> USE DEF TypeInv, envVars, GoTo, Fail
<1>1. CASE Cancel
  BY <1>1, FaultTyped DEF Cancel
<1>2. CASE Wait
  BY <1>2 DEF Wait
<1>3. CASE Launch(c)
  BY <1>3 DEF Launch
<1>4. CASE Connect(c)
  BY <1>4, FaultTyped DEF Connect
<1>5. CASE SendPart(c)
  <2>1. from[c] < size[c]
    BY <1>5 DEF SendPart, LoopEnd
  <2>2. /\ [first |-> FirstPart(c), bytes |-> <<from[c] + 1, PartEnd(c)>>] \in Part /\ from[c] + PartSize \in Nat
    BY <2>1, PartTyped
  <2>3. Append(stream[c], [first |-> FirstPart(c), bytes |-> <<from[c] + 1, PartEnd(c)>>]) \in Seq(Part)
    BY <2>2
  <2>4. stream' \in [Block -> Seq(Part)] /\ from' \in [Block -> Nat]
    <3>1. /\ stream' = stream \/ stream' = [stream EXCEPT ![c] = Append(stream[c], [first |-> FirstPart(c), bytes |-> <<from[c] + 1, PartEnd(c)>>])]
          /\ from' = from \/ from' = [from EXCEPT ![c] = from[c] + PartSize]
      BY <1>5, StreamStep
    <3> DEFINE t == Append(stream[c], [first |-> FirstPart(c), bytes |-> <<from[c] + 1, PartEnd(c)>>])
    <3>2. t \in Seq(Part)
      BY <2>3
    <3> HIDE DEF t
    <3>3. stream' = stream \/ stream' = [stream EXCEPT ![c] = t]
      BY <3>1 DEF t
    <3>4. stream' \in [Block -> Seq(Part)]
      BY <3>2, <3>3
    <3>5. from' \in [Block -> Nat]
      BY <2>2, <3>1
    <3> QED BY <3>4, <3>5
  <2>5. task' \in [Block -> {"idle", "connect", "send", "close", "ended", "failed"}]
    BY <1>5 DEF SendPart
  <2>6. /\ UNCHANGED <<isResuming, filled, size, ctx, failed, refusal, stored, blockCount, bytesCount, outcome, faults>>
    BY <1>5 DEF SendPart
  <2> QED BY <2>4, <2>5, <2>6
<1>6. CASE SentAll(c)
  BY <1>6 DEF SentAll
<1>7. CASE Aborted(c)
  BY <1>7 DEF Aborted
<1>8. CASE Accepted(c)
  <2>1. blockCount' \in Nat /\ bytesCount' \in [Block -> Nat]
    <3>1. bytesCount[c] \in Nat /\ size[c] \in Nat
      OBVIOUS
    <3>2. bytesCount[c] + size[c] \in Nat
      BY <3>1
    <3>3. CASE UNCHANGED <<blockCount, bytesCount>>
      BY <3>3
    <3>4. CASE blockCount' = blockCount + 1 /\ bytesCount' = [bytesCount EXCEPT ![c] = bytesCount[c] + size[c]]
      BY <3>2, <3>4
    <3> QED BY <1>8, <3>3, <3>4, Zenon DEF Accepted, Count
  <2>2. faults' \in 0..MaxFaults
    BY <1>8, FaultTyped DEF Accepted
  <2>3. /\ task' \in [Block -> {"idle", "connect", "send", "close", "ended", "failed"}]
        /\ ctx' \in {"live", "done"} /\ failed' \in BOOLEAN
        /\ UNCHANGED <<isResuming, filled, size, from, stream, refusal, stored, outcome>>
    BY <1>8 DEF Accepted, BlockOther
  <2> QED BY <2>1, <2>2, <2>3
<1>9. CASE SkipFilled(c)
  BY <1>9 DEF SkipFilled, BlockOther
<1>10. CASE Refused(c)
  BY <1>10 DEF Refused, BlockOther
<1>11. CASE NodeRefuses(c)
  BY <1>11, FaultTyped DEF NodeRefuses
<1>12. CASE NodeStores(c)
  BY <1>12 DEF NodeStores
<1> QED BY <1>1, <1>2, <1>3, <1>4, <1>5, <1>6, <1>7, <1>8, <1>9, <1>10, <1>11, <1>12 DEF Step

\* Each part goes on where the one before it ended, and only the first has the metadata.
LEMMA PartsKept ==
  ASSUME BlockUploadInv, NEW c \in Block, Step(c), NEW b \in Block
  PROVE  Parts(b)'
<1>1. TypeInv /\ Parts(b)
  BY DEF BlockUploadInv
<1>2. size' = size
  BY <1>1, StreamStep
<1>3. CASE stream'[b] = stream[b] /\ from'[b] = from[b]
  BY <1>1, <1>2, <1>3 DEF Parts
<1>4. CASE /\ b = c /\ from[b] < size[b]
           /\ stream'[b] = Append(stream[b], [first |-> FirstPart(b), bytes |-> <<from[b] + 1, PartEnd(b)>>])
           /\ from'[b] = from[b] + PartSize
  <2> DEFINE s == stream[b]
             p == [first |-> FirstPart(b), bytes |-> <<from[b] + 1, PartEnd(b)>>]
             t == stream'[b]
  <2>1. s \in Seq(Part) /\ Len(s) \in Nat /\ DOMAIN s = 1..Len(s) /\ from[b] \in Nat /\ size[b] \in Nat
    BY <1>1 DEF TypeInv
  <2>2. /\ PartEnd(b) \in Nat /\ from[b] + 1 <= PartEnd(b)
        /\ PartEnd(b) = IF from[b] + PartSize > size[b] THEN size[b] ELSE from[b] + PartSize
        /\ p \in Part /\ from[b] + PartSize # 0
    BY <1>1, <1>4, PartTyped
  <2>3. /\ t = Append(s, p) /\ Len(t) = Len(s) + 1 /\ DOMAIN t = 1..(Len(s) + 1)
        /\ t[Len(s) + 1] = p /\ \A k \in DOMAIN s : t[k] = s[k]
    <3>1. t = Append(s, p)
      BY <1>4
    <3> HIDE DEF p, t, s
    <3> QED BY <2>1, <2>2, <3>1
  <2>4. p.first = (from[b] = 0) /\ p.bytes[1] = from[b] + 1 /\ p.bytes[2] = PartEnd(b)
    BY DEF FirstPart
  <2>5. Len(s) = 0 <=> from[b] = 0
    <3>1. s = <<>> <=> Len(s) = 0
      BY <2>1
    <3> QED BY <1>1, <3>1 DEF Parts
  <2>6. Len(s) # 0 => s[Len(s)].bytes[2] = from[b]
    <3>1. s # <<>> => s[Len(s)].bytes[2] = IF from[b] > size[b] THEN size[b] ELSE from[b]
      BY <1>1 DEF Parts
    <3>2. Len(s) # 0 => s # <<>>
      BY <2>1
    <3> QED BY <1>4, <2>1, <3>1, <3>2
  <2>7. t # <<>> /\ t[Len(t)].bytes[2] = IF from'[b] > size[b] THEN size[b] ELSE from'[b]
    <3>1. t # <<>>
      BY <2>3
    <3>2. t[Len(t)].bytes[2] = PartEnd(b)
      BY <2>3, <2>4
    <3> QED BY <1>4, <2>2, <3>1, <3>2
  <2>8. ASSUME NEW k \in DOMAIN t
        PROVE  /\ t[k].bytes[1] = IF k = 1 THEN 1 ELSE t[k - 1].bytes[2] + 1
               /\ t[k].bytes[1] <= t[k].bytes[2]
               /\ t[k].first = (k = 1)
    <3>1. CASE k \in DOMAIN s
      <4>1. t[k] = s[k] /\ (k # 1 => t[k - 1] = s[k - 1])
        <5>1. k # 1 => k - 1 \in DOMAIN s
          BY <2>1, <3>1
        <5> QED BY <2>3, <3>1, <5>1
      <4> QED BY <1>1, <3>1, <4>1 DEF Parts
    <3>2. CASE k = Len(s) + 1
      <4>1. t[k] = p
        BY <2>3, <3>2
      <4>2. k # 1 => t[k - 1] = s[Len(s)] /\ Len(s) # 0
        <5>1. k # 1 => Len(s) \in DOMAIN s /\ k - 1 = Len(s) /\ Len(s) # 0
          BY <2>1, <3>2
        <5> QED BY <2>3, <5>1
      <4>3. k = 1 <=> Len(s) = 0
        BY <2>1, <3>2
      <4>4. t[k].bytes[1] = IF k = 1 THEN 1 ELSE t[k - 1].bytes[2] + 1
        BY <2>1, <2>4, <2>5, <2>6, <4>1, <4>2, <4>3
      <4>5. t[k].bytes[1] <= t[k].bytes[2]
        BY <2>2, <2>4, <4>1
      <4>6. t[k].first = (k = 1)
        BY <2>4, <2>5, <4>1, <4>3
      <4> QED BY <4>4, <4>5, <4>6
    <3>3. k \in DOMAIN s \/ k = Len(s) + 1
      BY <2>1, <2>3
    <3> QED BY <3>1, <3>2, <3>3
  <2>9. stream'[b] = <<>> <=> from'[b] = 0
    BY <1>4, <2>2, <2>7
  <2> QED BY <1>2, <2>7, <2>8, <2>9 DEF Parts
<1>5. \/ stream'[b] = stream[b] /\ from'[b] = from[b]
      \/ /\ b = c /\ from[b] < size[b]
         /\ stream'[b] = Append(stream[b], [first |-> FirstPart(b), bytes |-> <<from[b] + 1, PartEnd(b)>>])
         /\ from'[b] = from[b] + PartSize
  <2>1. stream \in [Block -> Seq(Part)] /\ from \in [Block -> Nat]
    BY <1>1 DEF TypeInv
  <2>2. CASE stream' = stream /\ from' = from
    BY <2>2
  <2>3. CASE /\ from[c] < size[c]
             /\ stream' = [stream EXCEPT ![c] = Append(@, [first |-> FirstPart(c), bytes |-> <<from[c] + 1, PartEnd(c)>>])]
             /\ from' = [from EXCEPT ![c] = @ + PartSize]
    <3>1. CASE b = c
      BY <2>1, <2>3, <3>1
    <3>2. CASE b # c
      BY <2>1, <2>3, <3>2
    <3> QED BY <3>1, <3>2
  <2> QED BY <1>1, <2>2, <2>3, StreamStep
<1> QED BY <1>3, <1>4, <1>5

\* No stream is closed before its end, nor a block stored, unless a node has refused it.
LEMMA ClosedKept ==
  ASSUME BlockUploadInv, NEW c \in Block, Step(c), NEW b \in Block
  PROVE  ClosedWhole(b)'
<1>1. TypeInv /\ ClosedWhole(b)
  BY DEF BlockUploadInv
<1>2. /\ PartSize \in Nat /\ from[b] \in Nat /\ size[b] \in Nat
  BY <1>1, BlockUploadAssumption DEF TypeInv
<1> USE <1>1 DEF TypeInv, ClosedWhole, envVars, GoTo, Fail, BlockOther
<1>3. CASE Cancel
  BY <1>3 DEF Cancel
<1>4. CASE Wait
  BY <1>4 DEF Wait
<1>5. CASE Launch(c)
  BY <1>5 DEF Launch
<1>6. CASE Connect(c)
  BY <1>6 DEF Connect
<1>7. CASE SendPart(c)
  BY <1>2, <1>7 DEF SendPart, LoopEnd
<1>8. CASE SentAll(c)
  BY <1>8 DEF SentAll, LoopEnd
<1>9. CASE Aborted(c)
  BY <1>9 DEF Aborted
<1>10. CASE Accepted(c)
  BY <1>10 DEF Accepted
<1>11. CASE SkipFilled(c)
  BY <1>11 DEF SkipFilled
<1>12. CASE Refused(c)
  BY <1>12 DEF Refused
<1>13. CASE NodeRefuses(c)
  BY <1>13 DEF NodeRefuses
<1>14. CASE NodeStores(c)
  BY <1>14 DEF NodeStores
<1> QED BY <1>3, <1>4, <1>5, <1>6, <1>7, <1>8, <1>9, <1>10, <1>11, <1>12, <1>13, <1>14 DEF Step

\* A goroutine that ends without an error has stored its block, or found it stored.
LEMMA EndsKept ==
  ASSUME BlockUploadInv, NEW c \in Block, Step(c), NEW b \in Block
  PROVE  EndsStored(b)'
<1>1. TypeInv /\ EndsStored(b)
  BY DEF BlockUploadInv
<1> USE <1>1 DEF TypeInv, EndsStored, envVars, GoTo, Fail, BlockOther
<1>3. CASE Cancel
  BY <1>3 DEF Cancel
<1>4. CASE Wait
  BY <1>4 DEF Wait
<1>5. CASE Launch(c)
  BY <1>5 DEF Launch
<1>6. CASE Connect(c)
  BY <1>6 DEF Connect
<1>7. CASE SendPart(c)
  BY <1>7 DEF SendPart
<1>8. CASE SentAll(c)
  BY <1>8 DEF SentAll
<1>9. CASE Aborted(c)
  BY <1>9 DEF Aborted
<1>10. CASE Accepted(c)
  BY <1>10 DEF Accepted
<1>11. CASE SkipFilled(c)
  BY <1>11 DEF SkipFilled, Forgives
<1>12. CASE Refused(c)
  BY <1>12 DEF Refused
<1>13. CASE NodeRefuses(c)
  BY <1>13 DEF NodeRefuses
<1>14. CASE NodeStores(c)
  BY <1>14 DEF NodeStores
<1> QED BY <1>3, <1>4, <1>5, <1>6, <1>7, <1>8, <1>9, <1>10, <1>11, <1>12, <1>13, <1>14 DEF Step

\* In a resumed call no goroutine fails and no context ends before the first fault.
LEMMA CauseKept ==
  ASSUME BlockUploadInv, NEW c \in Block, Step(c)
  PROVE  ErrorHasCause'
<1>1. TypeInv /\ ErrorHasCause
  BY DEF BlockUploadInv
<1>2. \A b \in Block : outcome # "none" => task[b] \in {"ended", "failed"}
  BY DEF BlockUploadInv, EndsStored
<1>0. Fault => faults' < MaxFaults
  BY <1>1, FaultTyped DEF TypeInv
<1> USE <1>1 DEF TypeInv, ErrorHasCause, Troubled, envVars, GoTo, Fail, BlockOther
<1>3. CASE Cancel
  BY <1>3, FaultTyped DEF Cancel
<1>4. CASE Wait
  BY <1>4 DEF Wait
<1>5. CASE Launch(c)
  BY <1>5 DEF Launch
<1>6. CASE Connect(c)
  <2>1. CASE GoTo(c, "send") /\ UNCHANGED faults
    BY <1>6, <2>1 DEF Connect
  <2>2. CASE Fail(c) /\ Fault
    BY <1>2, <1>6, <2>2, <1>0 DEF Connect
  <2> QED BY <1>6, <2>1, <2>2 DEF Connect
<1>7. CASE SendPart(c)
  BY <1>7 DEF SendPart
<1>8. CASE SentAll(c)
  BY <1>8 DEF SentAll
<1>9. CASE Aborted(c)
  BY <1>2, <1>9 DEF Aborted
<1>10. CASE Accepted(c)
  <2>1. CASE GoTo(c, "ended") /\ UNCHANGED faults
    BY <1>10, <2>1 DEF Accepted
  <2>2. CASE Fail(c) /\ Fault
    BY <1>2, <1>10, <2>2, <1>0 DEF Accepted
  <2> QED BY <1>10, <2>1, <2>2 DEF Accepted
<1>11. CASE SkipFilled(c)
  BY <1>11 DEF SkipFilled
<1>12. CASE Refused(c)
  BY <1>2, <1>12 DEF Refused, Forgives
<1>13. CASE NodeRefuses(c)
  BY <1>13, FaultTyped DEF NodeRefuses
<1>14. CASE NodeStores(c)
  BY <1>14 DEF NodeStores
<1> QED BY <1>3, <1>4, <1>5, <1>6, <1>7, <1>8, <1>9, <1>10, <1>11, <1>12, <1>13, <1>14 DEF Step

\* A block is counted by the answer of the node that has stored it, and by nothing else.
LEMMA AcknowledgedStep ==
  ASSUME BlockUploadInv, NEW c \in Block, Step(c)
  PROVE  \/ Acknowledged' = Acknowledged /\ UNCHANGED <<blockCount, bytesCount>>
         \/ c \notin Acknowledged /\ Acknowledged' = Acknowledged \union {c} /\ Count(c)
<1>1. TypeInv /\ ClosedWhole(c)
  BY DEF BlockUploadInv
<1> USE <1>1 DEF TypeInv, ClosedWhole, Acknowledged, envVars, GoTo, Fail, BlockOther
<1>3. CASE Cancel
  BY <1>3 DEF Cancel
<1>4. CASE Wait
  BY <1>4 DEF Wait
<1>5. CASE Launch(c)
  BY <1>5 DEF Launch
<1>6. CASE Connect(c)
  BY <1>6 DEF Connect
<1>7. CASE SendPart(c)
  BY <1>7 DEF SendPart
<1>8. CASE SentAll(c)
  BY <1>8 DEF SentAll
<1>9. CASE Aborted(c)
  BY <1>9 DEF Aborted
<1>10. CASE Accepted(c)
  BY <1>10 DEF Accepted
<1>11. CASE SkipFilled(c)
  BY <1>11 DEF SkipFilled
<1>12. CASE Refused(c)
  BY <1>12 DEF Refused
<1>13. CASE NodeRefuses(c)
  BY <1>13 DEF NodeRefuses
<1>14. CASE NodeStores(c)
  BY <1>14 DEF NodeStores
<1> QED BY <1>3, <1>4, <1>5, <1>6, <1>7, <1>8, <1>9, <1>10, <1>11, <1>12, <1>13, <1>14 DEF Step

LEMMA AcknowledgedFinite ==
  ASSUME TypeInv
  PROVE  IsFiniteSet(Acknowledged)
<1>1. IsFiniteSet(Block)
  BY FS_Interval, BlockUploadAssumption DEF Block
<1>2. Acknowledged \subseteq Block
  BY DEF TypeInv, Acknowledged
<1> QED BY <1>1, <1>2, FS_Subset

\* The counters are those of the acknowledged blocks.
LEMMA CountedKept ==
  ASSUME BlockUploadInv, NEW c \in Block, Step(c)
  PROVE  Counted'
<1>1. TypeInv /\ Counted
  BY DEF BlockUploadInv
<1>2. size' = size
  BY <1>1, StreamStep
<1>3. CASE Acknowledged' = Acknowledged /\ UNCHANGED <<blockCount, bytesCount>>
  BY <1>1, <1>2, <1>3 DEF Counted
<1>4. CASE c \notin Acknowledged /\ Acknowledged' = Acknowledged \union {c} /\ Count(c)
  <2>1. Cardinality(Acknowledged \union {c}) = Cardinality(Acknowledged) + 1
    BY <1>1, <1>4, AcknowledgedFinite, FS_AddElement
  <2>2. blockCount' = Cardinality(Acknowledged')
    BY <1>1, <1>4, <2>1 DEF Counted, Count
  <2>3. bytesCount' = [b \in Block |-> IF b \in Acknowledged' THEN size'[b] ELSE 0]
    <3>1. bytesCount' = [bytesCount EXCEPT ![c] = @ + size[c]]
      BY <1>4 DEF Count
    <3>2. bytesCount = [b \in Block |-> IF b \in Acknowledged THEN size[b] ELSE 0]
      BY <1>1 DEF Counted
    <3>3. \A b \in Block : bytesCount'[b] = IF b \in Acknowledged' THEN size'[b] ELSE 0
      BY <1>1, <1>2, <1>4, <3>1, <3>2 DEF TypeInv
    <3>4. bytesCount' = [b \in Block |-> bytesCount'[b]]
      BY <3>1, <3>2
    <3> QED BY <3>3, <3>4, Zenon
  <2> QED BY <2>2, <2>3 DEF Counted
<1> QED BY <1>3, <1>4, AcknowledgedStep
-----------------------------------------------------------------------------
(* The theorems. *)

LEMMA InvInit ==
  ASSUME Init
  PROVE  BlockUploadInv
<1> USE DEF Init
<1>1. TypeInv
  <2>1. size \in [Block -> Nat \ {0}]
    BY BlockUploadAssumption
  <2>2. stream \in [Block -> Seq(Part)]
    <3>1. <<>> \in Seq(Part)
      OBVIOUS
    <3> QED BY <3>1
  <2>3. bytesCount \in [Block -> Nat] /\ from \in [Block -> Nat]
    OBVIOUS
  <2>4. faults \in 0..MaxFaults
    BY BlockUploadAssumption
  <2>5. /\ task \in [Block -> {"idle", "connect", "send", "close", "ended", "failed"}]
        /\ refusal \in [Block -> {"none", "filled", "error"}]
    OBVIOUS
  <2> QED BY <2>1, <2>2, <2>3, <2>4, <2>5 DEF TypeInv
<1>2. \A b \in Block : Parts(b) /\ ClosedWhole(b) /\ EndsStored(b)
  BY DEF Parts, ClosedWhole, EndsStored
<1>3. ErrorHasCause
  BY DEF ErrorHasCause, Troubled
<1>4. Acknowledged = {}
  BY DEF Acknowledged
<1>5. Counted
  BY <1>4, FS_EmptySet DEF Counted
<1> QED BY <1>1, <1>2, <1>3, <1>5 DEF BlockUploadInv

LEMMA InvNext ==
  ASSUME BlockUploadInv, [Next]_vars
  PROVE  BlockUploadInv'
<1>1. ASSUME NEW c \in Block, Step(c)
      PROVE  BlockUploadInv'
  <2>1. TypeInv'
    BY <1>1, StepTyped DEF BlockUploadInv
  <2>2. \A b \in Block : Parts(b)' /\ ClosedWhole(b)' /\ EndsStored(b)'
    BY <1>1, PartsKept, ClosedKept, EndsKept
  <2>3. ErrorHasCause' /\ Counted'
    BY <1>1, CauseKept, CountedKept
  <2>4. Block' = Block
    BY DEF Block
  <2> QED BY <2>1, <2>2, <2>3, <2>4 DEF BlockUploadInv
<1>2. CASE UNCHANGED vars
  BY <1>2 DEF BlockUploadInv, TypeInv, Parts, ClosedWhole, EndsStored, ErrorHasCause, Troubled, Counted,
              Acknowledged, vars, envVars
<1> QED BY <1>1, <1>2, NextIsStep

\* In every state of uploadChunk the parts of a stream abut, a stream is closed early only
\* when its node has refused it, an error has a cause, and the counters are those of the
\* blocks that nodes have acknowledged.
THEOREM BlockUploadSafe == Spec => []BlockUploadInv
<1>1. Init => BlockUploadInv
  BY InvInit
<1>2. BlockUploadInv /\ [Next]_vars => BlockUploadInv'
  BY InvNext
<1> QED BY <1>1, <1>2, PTL DEF Spec

\* A stream that has been sent to its end holds every byte once and in order.
LEMMA SentIsWhole ==
  ASSUME TypeInv, NEW b \in Block, Parts(b), from[b] >= size[b]
  PROVE  Whole(b)
<1>1. from[b] \in Nat /\ size[b] \in Nat \ {0}
  BY DEF TypeInv
<1>2. stream[b] # <<>>
  BY <1>1 DEF Parts
<1>3. stream[b][Len(stream[b])].bytes[2] = size[b]
  BY <1>1, <1>2 DEF Parts
<1> QED BY <1>2, <1>3 DEF Parts, Whole

\* What uploadChunk reports, by its result and by its counters, is what the nodes have: for
\* every size of the blocks and the parts, every limit and every fault.
THEOREM ReportsStoredAlways == Spec => []ReportsStored
<1>1. BlockUploadInv => ReportsStored
  <2> SUFFICES ASSUME BlockUploadInv PROVE ReportsStored
    OBVIOUS
  <2>1. /\ TypeInv /\ ErrorHasCause /\ Counted
        /\ \A b \in Block : Parts(b) /\ ClosedWhole(b) /\ EndsStored(b)
    BY DEF BlockUploadInv
  <2>2. ASSUME outcome = "nil", NEW b \in Block
        PROVE  task[b] = "ended"
    BY <2>1, <2>2 DEF ErrorHasCause, EndsStored
  <2>3. NilMeansStored
    <3> SUFFICES ASSUME outcome = "nil", NEW b \in Block
                 PROVE  (b \in stored /\ Whole(b)) \/ (b \in filled /\ isResuming)
      BY DEF NilMeansStored
    <3>1. b \in stored \/ (b \in filled /\ isResuming)
      BY <2>1, <2>2 DEF EndsStored
    <3>2. b \in stored => Whole(b)
      BY <2>1, SentIsWhole DEF ClosedWhole
    <3> QED BY <3>1, <3>2
  <2>4. CountsAcknowledged
    <3>1. outcome = "nil" => Acknowledged = stored
      BY <2>1, <2>2 DEF Acknowledged, TypeInv
    <3> QED BY <2>1, <3>1 DEF CountsAcknowledged, Counted, Acknowledged
  <2> QED BY <2>3, <2>4 DEF ReportsStored
<1> QED BY <1>1, BlockUploadSafe, PTL

\* A resumed call fails for no block that is filled, however many there are: its error has met
\* a fault or the end of the caller's context.
THEOREM ResumeNotRefusedEver == Spec => []ResumeNotRefused
<1>1. BlockUploadInv => ResumeNotRefused
  BY DEF BlockUploadInv, ErrorHasCause, Troubled, ResumeNotRefused
<1> QED BY <1>1, BlockUploadSafe, PTL
=============================================================================
