------------------------- MODULE MCConversationTurns -------------------------
(* Small instances of ConversationTurns; the turns are interchangeable.     *)
EXTENDS ConversationTurns, TLC

AnyTurn == Permutations(Turns)
=============================================================================
