--------------------------- MODULE MCProviderCall ---------------------------
(* Small instances of ProviderCall; the configurations give the bounds.    *)
EXTENDS ProviderCall
=============================================================================
