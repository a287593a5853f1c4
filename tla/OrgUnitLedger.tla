--------------------------- MODULE OrgUnitLedger ---------------------------
(***************************************************************************)
(* What the kernel promises to its readers, whatever the write functions   *)
(* do in between: an append-only log, and a projection that changes only   *)
(* in the same instant in which events about ONE node are appended.        *)
(***************************************************************************)
EXTENDS Integers, Sequences

CONSTANTS Blank,         \* the projection of a tenant without events
          Acceptable(_)  \* the projections a reader may ever be shown

VARIABLES log, projection

ledgerVars == <<log, projection>>

Init == log = <<>> /\ projection = Blank

(* One transaction becomes visible: it appends events about one node, and  *)
(* whatever it does to the projection shows in the same instant.           *)
Publish ==
  /\ Len(log') > Len(log)
  /\ SubSeq(log', 1, Len(log)) = log
  /\ \A i, j \in (Len(log) + 1) .. Len(log') : log'[i].node = log'[j].node
  /\ Acceptable(projection')

Spec == Init /\ [][Publish]_ledgerVars
=============================================================================
