---------------------------- MODULE MCSessionMutex ----------------------------
(* Small instances of SessionMutex; the configurations give the bounds.    *)
EXTENDS SessionMutex
=============================================================================
