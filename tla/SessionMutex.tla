----------------------------- MODULE SessionMutex -----------------------------
(***************************************************************************)
(* The mutex of one conversation: SessionManager.withMutex and the part of *)
(* cleanupInactiveSessions that forgets it (session/SessionManager.ts).    *)
(* It is a chain of promises: an operation waits for the one that called   *)
(* before it, and whoever calls next waits for it.  Operations are         *)
(* numbered in the order of their calls; mutexes of different              *)
(* conversations are independent, so one is modelled.                      *)
(***************************************************************************)
EXTENDS Integers

CONSTANTS MaxOps,     \* bound: operations of the run
          MayTimeOut, \* TRUE: an operation may wait for 45 s
          MayClean    \* TRUE: the conversation may be swept as inactive

ASSUME MutexAssumption == MaxOps \in Nat
ASSUME SwitchAssumption == MayTimeOut \in BOOLEAN /\ MayClean \in BOOLEAN

VARIABLES
    calls,    \* calls of withMutex so far, but for those made inside another
    at,       \* where each operation is
    waitsFor, \* its `current`: the operation whose promise it awaits, or 0
    tail,     \* sessionMutexes: the operation whose promise is stored, or 0
    sweep,    \* "idle", or "closing": it awaits the transcript's close
    cuts      \* history: the last operations called before a sweep's end

mutexVars == <<calls, at, waitsFor, tail, sweep, cuts>>

Ops == 1..MaxOps

MutexInit ==
    /\ calls = 0
    /\ at = [n \in Ops |-> "out"]
    /\ waitsFor = [n \in Ops |-> 0]
    /\ tail = 0
    /\ sweep = "idle"
    /\ cuts = {}

(* The promise of an operation is resolved, as its function is over or it  *)
(* gave up waiting, or there is none (0).                                  *)
Resolved(n) == n # 0 => at[n] \in {"done", "expired"}

(* The operation's function has begun and has not returned.                *)
Inside(n) == at[n] \in {"inside", "nested"}

Call ==
    /\ calls < MaxOps
    /\ calls' = calls + 1
    /\ at' = [at EXCEPT ![calls'] = "waiting"]
    /\ waitsFor' = [waitsFor EXCEPT ![calls'] = tail]
    /\ tail' = calls'
    /\ UNCHANGED <<sweep, cuts>>

Enter(n) ==
    /\ at[n] = "waiting"
    /\ Resolved(waitsFor[n])
    /\ at' = [at EXCEPT ![n] = "inside"]
    /\ UNCHANGED <<calls, waitsFor, tail, sweep, cuts>>

(* The function returns or throws.                                         *)
Leave(n) ==
    /\ at[n] = "inside"
    /\ at' = [at EXCEPT ![n] = "done"]
    /\ UNCHANGED <<calls, waitsFor, tail, sweep, cuts>>

(* The wait ends by its timeout: the promise is resolved all the same.     *)
TimeOut(n) ==
    /\ MayTimeOut /\ at[n] = "waiting"
    /\ at' = [at EXCEPT ![n] = "expired"]
    /\ UNCHANGED <<calls, waitsFor, tail, sweep, cuts>>

(* withMutex within the function, recognised by lockStorage: it runs at    *)
(* once, and leaves the chain as it is.                                    *)
NestedCall(n) ==
    /\ at[n] = "inside"
    /\ at' = [at EXCEPT ![n] = "nested"]
    /\ UNCHANGED <<calls, waitsFor, tail, sweep, cuts>>

(* Mistake: the nested call waits for the last promise of the chain.       *)
NestedReturnsInTurn(n) ==
    /\ at[n] = "nested"
    /\ Resolved(tail)
    /\ at' = [at EXCEPT ![n] = "inside"]
    /\ UNCHANGED <<calls, waitsFor, tail, sweep, cuts>>

NestedReturns(n) ==
    /\ at[n] = "nested"
    /\ at' = [at EXCEPT ![n] = "inside"]
    /\ UNCHANGED <<calls, waitsFor, tail, sweep, cuts>>

(* Mistake: the timer of an operation does not look at whose promise is    *)
(* stored.                                                                 *)
ForgetAnyTail ==
    /\ \E n \in Ops : Resolved(n)
    /\ tail' = 0
    /\ UNCHANGED <<calls, at, waitsFor, sweep, cuts>>

(* The timer of 60 s an operation sets when its promise is resolved.       *)
ForgetTail ==
    /\ tail # 0 /\ Resolved(tail)
    /\ tail' = 0
    /\ UNCHANGED <<calls, at, waitsFor, sweep, cuts>>

(* No call for 15 minutes, so nobody waits, though one may be inside.      *)
SweepBegins ==
    /\ MayClean /\ sweep = "idle"
    /\ \A n \in Ops : at[n] # "waiting"
    /\ sweep' = "closing"
    /\ UNCHANGED <<calls, at, waitsFor, tail, cuts>>

SweepEnds ==
    /\ sweep = "closing"
    /\ sweep' = "idle"
    /\ tail' = 0
    /\ cuts' = cuts \union {calls}
    /\ UNCHANGED <<calls, at, waitsFor>>

Step(n) == Enter(n) \/ Leave(n) \/ TimeOut(n) \/ NestedCall(n) \/ NestedReturns(n)

MutexNext == Call \/ (\E n \in Ops : Step(n)) \/ ForgetTail \/ SweepBegins \/ SweepEnds

MutexSpec == MutexInit /\ [][MutexNext]_mutexVars

(* A promise that is resolved wakes who awaits it, and what an operation   *)
(* does under the mutex makes only so many nested calls and ends.          *)
MutexFairness == \A n \in Ops : WF_mutexVars(Enter(n)) /\ SF_mutexVars(Leave(n)) /\ WF_mutexVars(NestedReturns(n))

MutexLiveSpec == MutexSpec /\ MutexFairness

-----------------------------------------------------------------------------
(* Properties                                                              *)

MutexTypeOK ==
    /\ calls \in 0..MaxOps
    /\ at \in [Ops -> {"out", "waiting", "inside", "nested", "done", "expired"}]
    /\ waitsFor \in [Ops -> 0..MaxOps] /\ \A n \in Ops : waitsFor[n] < n
    /\ tail \in 0..calls
    /\ sweep \in {"idle", "closing"}
    /\ cuts \subseteq 0..calls

(* withMutex: no two operations on a conversation run at the same time.    *)
MutualExclusion ==
    \A m, n \in Ops : Inside(m) /\ Inside(n) => m = n

(* withMutex: an operation begins after every earlier one is over, unless  *)
(* between the two somebody gave up waiting, or the sweep forgot those who *)
(* had called before.                                                      *)
BeginsInTurn ==
    \A m, n \in Ops :
        (m < n /\ (Inside(n) \/ at[n] = "done")) =>
            \/ Resolved(m)
            \/ \E k \in Ops : m < k /\ k <= n /\ (at[k] = "expired" \/ k - 1 \in cuts)

(* While nobody gives up waiting and nothing is swept, what the chain does *)
(* is what a lock that is taken in turn does; a nested call is inside.     *)
Lock == INSTANCE TurnLock WITH
    Bound <- MaxOps,
    place <- [n \in Ops |-> CASE at[n] = "nested" -> "inside"
                             [] at[n] = "done" -> "over"
                             [] OTHER -> at[n]]

RunsInTurn == Lock!Spec

(* withMutex: an operation that waits behind others, with nested calls     *)
(* among them, comes to its end.                                           *)
EveryOpEnds == \A n \in Ops : (at[n] = "waiting") ~> Resolved(n)
=============================================================================
