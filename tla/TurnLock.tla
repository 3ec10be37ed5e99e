------------------------------- MODULE TurnLock -------------------------------
(***************************************************************************)
(* What SessionManager.withMutex promises (session/SessionManager.ts): the *)
(* operations of a conversation run one at a time, in the order of their   *)
(* calls.                                                                  *)
(***************************************************************************)
EXTENDS Integers

CONSTANT Bound \* operations there may be

VARIABLE place \* of each operation, numbered in the order of the calls

Operations == 1..Bound

Init == place = [n \in Operations |-> "out"]

Move(n, from, to) == place[n] = from /\ place' = [place EXCEPT ![n] = to]

Ask(n) ==
    /\ \A m \in 1..(n - 1) : place[m] # "out"
    /\ Move(n, "out", "waiting")

Begin(n) ==
    /\ \A m \in 1..(n - 1) : place[m] = "over"
    /\ Move(n, "waiting", "inside")

End(n) == Move(n, "inside", "over")

Next == \E n \in Operations : Ask(n) \/ Begin(n) \/ End(n)

Spec == Init /\ [][Next]_place
=============================================================================
