-------------------------- MODULE MCTelegramPolling --------------------------
(* Small instances of TelegramPolling; the configuration gives the bounds. *)
EXTENDS TelegramPolling
=============================================================================
