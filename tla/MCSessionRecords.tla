-------------------------- MODULE MCSessionRecords --------------------------
(* Small instances of SessionRecords; the configurations give the bounds.  *)
EXTENDS SessionRecords
=============================================================================
