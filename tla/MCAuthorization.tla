--------------------------- MODULE MCAuthorization ---------------------------
(* Small instances of Authorization; the configurations give the bounds.   *)
EXTENDS Authorization
=============================================================================
