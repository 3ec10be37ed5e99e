---------------------------- MODULE AuthorizedStep ----------------------------
(***************************************************************************)
(* What an authorization promises (loop/WorkflowTypes.ts): a step that     *)
(* needs the user's confirmation is one unit.  It is asked for once, and   *)
(* then refused, or started once and ended; a request nobody answers may   *)
(* be dropped.                                                             *)
(***************************************************************************)
CONSTANT Steps

VARIABLE step

Init == step = [t \in Steps |-> "unasked"]

Move(t, from, to) == step[t] = from /\ step' = [step EXCEPT ![t] = to]

Ask(t) == Move(t, "unasked", "asked")
Refuse(t) == Move(t, "asked", "over")
Start(t) == Move(t, "asked", "running")
End(t) == Move(t, "running", "over")

Next == \E t \in Steps : Ask(t) \/ Refuse(t) \/ Start(t) \/ End(t)

Spec == Init /\ [][Next]_step
=============================================================================
