------------------------------- MODULE MCNodes -------------------------------
(* What calls share on their way to the nodes: a behaviour is that of three     *)
(* calls of the pool's get, two of them for one address, and two of close, or   *)
(* that of uploadChunk with blocks of one part, of two parts and of a part and  *)
(* a bit.                                                                       *)
EXTENDS ConnectionPool, BlockUpload, TLC

CONSTANTS g1, g2, g3, k1, k2, a1, a2

Getters == {g1, g2, g3}
Closers == {k1, k2}
Addrs == {a1, a2}
Asked == (g1 :> a1) @@ (g2 :> a1) @@ (g3 :> a2)

VARIABLE mode   \* "pool" or "chunk"

mcVars == <<mode, poolVars, vars>>

MCInit ==
  /\ mode \in {"pool", "chunk"}
  /\ PoolInit /\ Init
  /\ IF mode = "pool" THEN ~isResuming /\ filled = {} /\ size = <<2, 2, 2>>
     ELSE size \in {<<2, 3, 4>>, <<4, 2, 2>>}

PoolStep(A) == mode = "pool" /\ A /\ UNCHANGED <<mode, vars>>
ChunkStep(A) == mode = "chunk" /\ A /\ UNCHANGED <<mode, poolVars>>

MCNext == PoolStep(PoolNext) \/ ChunkStep(Next)

MCSpec ==
  /\ MCInit /\ [][MCNext]_mcVars
  /\ \A g \in Getter : WF_mcVars(PoolStep(Get(g)))
  /\ \A c \in Closer : WF_mcVars(PoolStep(Close(c)))
  /\ WF_mcVars(ChunkStep(Wait))
  /\ \A b \in 1..3 : WF_mcVars(ChunkStep(BlockStep(b))) /\ WF_mcVars(ChunkStep(NodeAnswers(b)))

\* Every get and every close returns, and so does uploadChunk.
AllReturn == IF mode = "pool" THEN PoolReturns ELSE ChunkUploadReturns
=============================================================================
