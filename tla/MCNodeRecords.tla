----------------------------- MODULE MCNodeRecords -----------------------------
(* Values for the constants of NodeRecords, for TLC. *)
EXTENDS NodeRecordsInductive

OneHost == {"h1"}
TwoRequests == {"r1", "r2"}
=============================================================================
