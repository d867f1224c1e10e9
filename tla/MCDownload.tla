------------------------------ MODULE MCDownload -----------------------------
(* A behaviour is that of one call: a download from nodes of encrypted chunks,  *)
(* an archival download of chunks that are not, or ArchivalMetadata.            *)
EXTENDS Download, ArchivalMetadata

VARIABLE mode   \* the call: "nodes", "archive" or "metadata"

mcVars == <<mode, vars, metaVars>>

Archive == INSTANCE Download WITH Archival <- TRUE, Sealed <- FALSE, ChunkBuffer <- 0, MaxAttempts <- 1

ASSUME Archive!DownloadAssumption

MCInit ==
  /\ mode \in {"nodes", "archive", "metadata"}
  /\ Init /\ MetaInit /\ (mode # "metadata" => archived = {})

DownloadStep(A) == A /\ UNCHANGED <<mode, metaVars>>
MetadataStep(A) == mode = "metadata" /\ A /\ UNCHANGED <<mode, vars>>

MCNext ==
  \/ mode = "nodes" /\ DownloadStep(Next)
  \/ mode = "archive" /\ DownloadStep(Archive!Next)
  \/ MetadataStep(MetaNext)

\* Every goroutine of the call that is made runs.
Run(A, B) == DownloadStep((mode = "nodes" /\ A) \/ (mode = "archive" /\ B))
MCSpec ==
  /\ MCInit /\ [][MCNext]_mcVars
  /\ WF_mcVars(Run(Creator, Archive!Creator)) /\ WF_mcVars(Run(Processor, Archive!Processor))
  /\ \A b \in Block : WF_mcVars(Run(BlockStep(b), Archive!BlockStep(b)))
  /\ WF_mcVars(MetadataStep(MetaNext))

\* Every call returns: no goroutine waits for another for ever, with any chunk buffer, after
\* any failure and after the caller gave up.
CallsReturn == IF mode = "metadata" THEN <>(pc \in {"success", "error"}) ELSE CallReturns
=============================================================================
