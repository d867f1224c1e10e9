------------------------------ MODULE FileUpload ------------------------------
(***************************************************************************)
(* What resumable uploading promises the caller, however many calls of      *)
(* Upload it takes (sdk/multi_upload.go, uploadSingleFile): chunks are      *)
(* registered with the contract, blocks are stored only for registered      *)
(* chunks, and the file is committed once, when every chunk of the stream   *)
(* is registered and every block of it is known to the contract.  Only then *)
(* may a call report success.                                               *)
(***************************************************************************)
CONSTANTS Chunk,   \* the chunks of the stream
          Block    \* the blocks of a chunk

VARIABLES registered,  \* chunks the contract has recorded
          present,     \* <<chunk, block>> pairs a storage node holds
          filled,      \* <<chunk, block>> pairs the contract knows to be stored
          committed,   \* the file is committed
          succeeded    \* the last call returned success

vars == <<registered, present, filled, committed, succeeded>>

Init == /\ registered = {} /\ present = {} /\ filled = {}
        /\ committed = FALSE /\ succeeded = FALSE

\* A batch of new chunks is registered, as a whole.
Register(S) ==
  /\ S # {} /\ S \cap registered = {}
  /\ registered' = registered \cup S
  /\ UNCHANGED <<present, filled, committed, succeeded>>

Store(c, b) ==
  /\ c \in registered
  /\ present' = present \cup {<<c, b>>}
  /\ UNCHANGED <<registered, filled, committed, succeeded>>

Fill(c, b) ==
  /\ <<c, b>> \in present
  /\ filled' = filled \cup {<<c, b>>}
  /\ UNCHANGED <<registered, present, committed, succeeded>>

Commit ==
  /\ ~committed
  /\ registered = Chunk /\ filled = Chunk \X Block
  /\ committed' = TRUE
  /\ UNCHANGED <<registered, present, filled, succeeded>>

\* A call returns, or the next one starts.
Report ==
  /\ succeeded' \in {FALSE, committed}
  /\ UNCHANGED <<registered, present, filled, committed>>

Next ==
  \/ \E S \in SUBSET Chunk : Register(S)
  \/ \E c \in Chunk, b \in Block : Store(c, b) \/ Fill(c, b)
  \/ Commit
  \/ Report

Spec == Init /\ [][Next]_vars

=============================================================================
