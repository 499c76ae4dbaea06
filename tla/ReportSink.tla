----------------------------- MODULE ReportSink -----------------------------
(***************************************************************************)
(* What the command may rely on when it writes a page, with no format, no  *)
(* buffer and no device in sight: the destination is opened, written to    *)
(* and closed, whatever happens in between, and the answer is good exactly *)
(* if all of the page is there.  ReportWrite implements it; Cli is built   *)
(* on it.                                                                  *)
(***************************************************************************)
VARIABLES
  sink,   \* "unopened", "open" or "closed"
  dest,   \* what became of the destination: untouched, partial or complete
  outcome \* what the write answered: "none" yet, "ok" or "failed"

sinkvars == <<sink, dest, outcome>>

Init == sink = "unopened" /\ dest = "untouched" /\ outcome = "none"

\* A file that is opened loses what it held; standard output does not.
Open ==
  /\ sink = "unopened" /\ outcome = "none"
  /\ sink' = "open"
  /\ dest' \in {"untouched", "partial"}
  /\ UNCHANGED outcome

OpenFails ==
  /\ sink = "unopened" /\ outcome = "none"
  /\ outcome' = "failed"
  /\ UNCHANGED <<sink, dest>>

Deliver ==
  /\ sink = "open"
  /\ dest' = "partial"
  /\ UNCHANGED <<sink, outcome>>

CloseWell  == sink = "open" /\ sink' = "closed" /\ dest' = "complete" /\ outcome' = "ok"
CloseBadly == sink = "open" /\ sink' = "closed" /\ dest' \in {dest, "partial"} /\ outcome' = "failed"

Next == Open \/ OpenFails \/ Deliver \/ CloseWell \/ CloseBadly

Spec == Init /\ [][Next]_sinkvars

-----------------------------------------------------------------------------
\* The type invariant.
TypeOK ==
  /\ sink \in {"unopened", "open", "closed"}
  /\ dest \in {"untouched", "partial", "complete"}
  /\ outcome \in {"none", "ok", "failed"}
=============================================================================
