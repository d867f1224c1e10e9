----------------------------- MODULE FileDownload ----------------------------
(***************************************************************************)
(* What downloading a file promises the caller: the chunks of the file are *)
(* written once each and in order, the call returns once, and it returns   *)
(* without an error only when the whole file has been written.             *)
(***************************************************************************)
EXTENDS Naturals, Sequences

CONSTANT NumChunks

VARIABLES
  written,    \* chunks written completely, in the order they were
  torn,       \* the last write was cut short
  returned    \* "no", "success" or "error"

vars == <<written, torn, returned>>

Init == written = <<>> /\ torn = FALSE /\ returned = "no"

WriteNext ==
  /\ returned = "no" /\ ~torn /\ Len(written) < NumChunks
  /\ written' = Append(written, Len(written) + 1)
  /\ UNCHANGED <<torn, returned>>

WritePart ==
  /\ returned = "no" /\ ~torn /\ Len(written) < NumChunks
  /\ torn' = TRUE
  /\ UNCHANGED <<written, returned>>

Return ==
  /\ returned = "no"
  /\ returned' \in IF Len(written) = NumChunks THEN {"success", "error"} ELSE {"error"}
  /\ UNCHANGED <<written, torn>>

Next == WriteNext \/ WritePart \/ Return

Spec == Init /\ [][Next]_vars
=============================================================================
