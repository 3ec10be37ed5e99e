--------------------------- MODULE CircuitBreaker ---------------------------
(***************************************************************************)
(* The circuit breaker that stands in front of every model provider and of *)
(* the Cognitive Kernel (core/CircuitBreaker.ts), together with callers    *)
(* that are admitted by it and report back later.  A caller is a slot of   *)
(* Calls: it is "idle", or out through canExecute ("manual", and "retry"   *)
(* once it reported a failure and tries again on the same admission) or    *)
(* through execute.                                                        *)
(*                                                                         *)
(* Time is the two countdowns the code derives from Date.now():            *)
(*   failWait  ticks until now - lastFailureTime >= resetTimeoutMs         *)
(*   nextWait  ticks until now >= nextAttemptAt                            *)
(* canExecute and getState read the first, execute reads the second.       *)
(* The two consecutive counters are compared with >= only, so they are     *)
(* kept saturated at their thresholds.                                     *)
(***************************************************************************)
EXTENDS Integers, FiniteSets

CONSTANTS Calls,             \* slots of concurrent callers
          FailureThreshold,  \* failures in a row that open the circuit (5)
          SuccessThreshold,  \* successes in a row that close it again (3)
          ResetTimeout       \* ticks of resetTimeoutMs (30 s)

ASSUME CircuitAssumption ==
    /\ IsFiniteSet(Calls)
    /\ FailureThreshold \in Nat \ {0}
    /\ SuccessThreshold \in Nat \ {0}
    /\ ResetTimeout \in Nat \ {0}

VARIABLES state, consecutiveFailures, consecutiveSuccesses, halfOpenAttempts,
          failWait, nextWait,
          call,         \* [Calls -> {"idle", "manual", "retry", "execute"}]
          manualTrials, \* history: canExecute admissions since the circuit was last
                        \* closed, set by hand, or open for a whole cool-down
          coolDown,     \* history: ticks left of the cool-down of the last failure
                        \* that opened the circuit
          silentEnds    \* the callers of this behaviour: may one end without reporting?

breaker == <<state, consecutiveFailures, consecutiveSuccesses,
             halfOpenAttempts, failWait, nextWait>>
vars == <<state, consecutiveFailures, consecutiveSuccesses, halfOpenAttempts,
          failWait, nextWait, call, manualTrials, coolDown, silentEnds>>

ManualOut == {c \in Calls : call[c] \in {"manual", "retry"}}

Init ==
    /\ state = "CLOSED"
    /\ consecutiveFailures = 0
    /\ consecutiveSuccesses = 0
    /\ halfOpenAttempts = 0
    /\ failWait = 0
    /\ nextWait = 0
    /\ call = [c \in Calls |-> "idle"]
    /\ manualTrials = 0
    /\ coolDown = 0
    /\ silentEnds \in BOOLEAN

-----------------------------------------------------------------------------
(* transitionTo.  (An operator introduced by "Mistake" is a seeded one that *)
(* the runs must catch.)                                                    *)

TransitionTo(new) ==
    /\ state' = new
    /\ halfOpenAttempts' = IF new = "HALF_OPEN" THEN 0 ELSE halfOpenAttempts

(* canExecute, the three ways in which it answers true.                    *)

AllowClosed ==
    /\ state = "CLOSED"
    /\ UNCHANGED breaker

\* Mistake: the caller is let through and the circuit stays open.
AllowWithoutTesting ==
    /\ state = "OPEN"
    /\ failWait = 0
    /\ UNCHANGED breaker

AllowAfterCooldown ==
    /\ state = "OPEN"
    /\ failWait = 0
    /\ TransitionTo("HALF_OPEN")
    /\ UNCHANGED <<consecutiveFailures, consecutiveSuccesses, failWait, nextWait>>

\* Mistake: the attempts are counted and nobody looks at the count.
AllowTrialUnlimited ==
    /\ state = "HALF_OPEN"
    /\ halfOpenAttempts' = halfOpenAttempts + 1
    /\ UNCHANGED <<state, consecutiveFailures, consecutiveSuccesses, failWait, nextWait>>

\* Mistake: one trial per half-open period (the code before halfOpenAttempts).
AllowOneTrial ==
    /\ state = "HALF_OPEN"
    /\ halfOpenAttempts = 0
    /\ halfOpenAttempts' = 1
    /\ UNCHANGED <<state, consecutiveFailures, consecutiveSuccesses, failWait, nextWait>>

AllowTrial ==
    /\ state = "HALF_OPEN"
    /\ halfOpenAttempts < SuccessThreshold
    /\ halfOpenAttempts' = halfOpenAttempts + 1
    /\ UNCHANGED <<state, consecutiveFailures, consecutiveSuccesses, failWait, nextWait>>

CanExecute == AllowClosed \/ AllowAfterCooldown \/ AllowTrial

(* onSuccess: HALF_OPEN closes once enough successes came in a row.        *)

\* Mistake: one success too many is waited for.
OnSuccessLate ==
    LET successes == consecutiveSuccesses + 1
        close == state = "HALF_OPEN" /\ successes > SuccessThreshold
    IN  /\ consecutiveSuccesses' = IF successes > SuccessThreshold
                                   THEN SuccessThreshold ELSE successes
        /\ consecutiveFailures' = 0
        /\ IF close THEN TransitionTo("CLOSED") ELSE UNCHANGED <<state, halfOpenAttempts>>
        /\ UNCHANGED <<failWait, nextWait>>

OnSuccess ==
    LET successes == consecutiveSuccesses + 1
        close == state = "HALF_OPEN" /\ successes >= SuccessThreshold
    IN  /\ consecutiveSuccesses' = IF successes > SuccessThreshold
                                   THEN SuccessThreshold ELSE successes
        /\ consecutiveFailures' = 0
        /\ IF close THEN TransitionTo("CLOSED") ELSE UNCHANGED <<state, halfOpenAttempts>>
        /\ UNCHANGED <<failWait, nextWait>>

(* onFailure: HALF_OPEN opens at once, CLOSED opens at the threshold; an   *)
(* open circuit only has its failure time moved.                           *)
OnFailure ==
    LET failures == consecutiveFailures + 1
        open == \/ state = "HALF_OPEN"
                \/ state = "CLOSED" /\ failures >= FailureThreshold
    IN  /\ consecutiveFailures' = IF failures > FailureThreshold
                                  THEN FailureThreshold ELSE failures
        /\ consecutiveSuccesses' = 0
        /\ failWait' = ResetTimeout
        /\ IF open
           THEN TransitionTo("OPEN") /\ nextWait' = ResetTimeout
           ELSE UNCHANGED <<state, halfOpenAttempts, nextWait>>

-----------------------------------------------------------------------------
(* Steps of the callers.  The history of the admissions restarts when the  *)
(* circuit closes and when the cool-down of its opening is over (Tick);    *)
(* the kind of callers never changes.                                      *)

PeriodAdmissions(counted) ==
    /\ manualTrials' = IF state' = "CLOSED" THEN 0 ELSE counted
    /\ coolDown' = IF state' = "CLOSED" THEN 0
                   ELSE IF state # "OPEN" /\ state' = "OPEN" THEN ResetTimeout
                   ELSE coolDown
    /\ silentEnds' = silentEnds

\* reset and forceOpen begin a history of their own.
PeriodForgotten ==
    /\ manualTrials' = 0
    /\ coolDown' = 0
    /\ silentEnds' = silentEnds

AdmitManual(c) ==
    /\ call[c] = "idle"
    /\ CanExecute
    /\ call' = [call EXCEPT ![c] = "manual"]
    /\ PeriodAdmissions(manualTrials + 1)

(* A caller that canExecute admits and that returns before its first       *)
(* attempt (no model chosen, no time left): nothing is ever reported.      *)
AdmitAndLeave ==
    /\ silentEnds
    /\ CanExecute
    /\ UNCHANGED call
    /\ PeriodAdmissions(manualTrials + 1)

(* execute() up to its await of fn: nothing limits it while HALF_OPEN.     *)
AdmitExecute(c) ==
    /\ call[c] = "idle"
    /\ state = "OPEN" => nextWait = 0
    /\ IF state = "OPEN" THEN TransitionTo("HALF_OPEN")
                         ELSE UNCHANGED <<state, halfOpenAttempts>>
    /\ UNCHANGED <<consecutiveFailures, consecutiveSuccesses, failWait, nextWait>>
    /\ call' = [call EXCEPT ![c] = "execute"]
    /\ PeriodAdmissions(manualTrials)

Finish(c) ==
    /\ call[c] # "idle"
    /\ call' = [call EXCEPT ![c] = "idle"]
    /\ PeriodAdmissions(manualTrials)

(* The call settles: recordSuccess / the resolved branch of execute.       *)
RecordSuccess(c) == OnSuccess /\ Finish(c)

(* recordFailure / the rejected branch of execute.                         *)
RecordFailure(c) == OnFailure /\ Finish(c)

(* ProviderFactory reports each failed attempt and tries once more without *)
(* asking canExecute again (MAX_RETRIES = 1).                              *)
RetryAfterFailure(c) ==
    /\ call[c] = "manual"
    /\ OnFailure
    /\ call' = [call EXCEPT ![c] = "retry"]
    /\ PeriodAdmissions(manualTrials)

(* A caller of the manual API that was admitted and returns without        *)
(* calling recordSuccess or recordFailure for its last attempt.            *)
EndSilently(c) ==
    /\ silentEnds
    /\ call[c] \in {"manual", "retry"}
    /\ UNCHANGED breaker
    /\ Finish(c)

-----------------------------------------------------------------------------
(* getState, which the 60 s monitor reaches through getAllMetrics.         *)
GetState ==
    /\ AllowAfterCooldown
    /\ PeriodAdmissions(manualTrials)
    /\ UNCHANGED call

Reset ==
    /\ state' = "CLOSED"
    /\ consecutiveFailures' = 0
    /\ consecutiveSuccesses' = 0
    /\ halfOpenAttempts' = 0
    /\ PeriodForgotten
    /\ UNCHANGED <<failWait, nextWait, call>>

ForceOpen ==
    /\ TransitionTo("OPEN")
    /\ nextWait' = ResetTimeout
    /\ PeriodForgotten
    /\ UNCHANGED <<consecutiveFailures, consecutiveSuccesses, failWait, call>>

Elapse(wait) == IF wait = 0 THEN 0 ELSE wait - 1

Tick ==
    /\ failWait + nextWait > 0
    /\ failWait' = Elapse(failWait)
    /\ nextWait' = Elapse(nextWait)
    /\ coolDown' = Elapse(coolDown)
    /\ manualTrials' = IF coolDown = 1 THEN 0 ELSE manualTrials
    /\ UNCHANGED <<state, consecutiveFailures, consecutiveSuccesses,
                   halfOpenAttempts, call, silentEnds>>

Settle(c) ==
    RecordSuccess(c) \/ RecordFailure(c) \/ RetryAfterFailure(c) \/ EndSilently(c)

Next ==
    \/ \E c \in Calls : AdmitManual(c) \/ AdmitExecute(c) \/ Settle(c)
    \/ AdmitAndLeave \/ GetState \/ Reset \/ ForceOpen \/ Tick

Spec == Init /\ [][Next]_vars

(* The clock runs, the monitor's interval fires, an awaited call settles.  *)
Fairness ==
    /\ WF_vars(Tick)
    /\ WF_vars(GetState)
    /\ \A c \in Calls : WF_vars(Settle(c))

(* Traffic: somebody keeps asking canExecute.                              *)
Traffic == WF_vars(\E c \in Calls : AdmitManual(c))

LiveSpec == Spec /\ Fairness /\ Traffic

-----------------------------------------------------------------------------
(* Properties                                                              *)

TypeOK ==
    /\ state \in {"CLOSED", "OPEN", "HALF_OPEN"}
    /\ consecutiveFailures \in 0..FailureThreshold
    /\ consecutiveSuccesses \in 0..SuccessThreshold
    /\ halfOpenAttempts \in 0..SuccessThreshold
    /\ failWait \in 0..ResetTimeout
    /\ nextWait \in 0..ResetTimeout
    /\ call \in [Calls -> {"idle", "manual", "retry", "execute"}]
    /\ manualTrials \in Nat
    /\ coolDown \in 0..ResetTimeout
    /\ silentEnds \in BOOLEAN

(* If every caller reports, a half-open circuit that has given out all its *)
(* attempts is waiting for somebody: when nobody is out any more it would  *)
(* refuse every caller for ever, whatever the provider's health (the       *)
(* incident told at the declaration of halfOpenAttempts).                  *)
NotWedged ==
    ~silentEnds /\ state = "HALF_OPEN" /\ halfOpenAttempts = SuccessThreshold
        => ManualOut # {}

(* If every caller reports, what the half-open period spends is never more *)
(* than it earned: each counted attempt is still out or has become one of  *)
(* the consecutive successes (the successes left over from before count    *)
(* only until the first one of the period, which then closes the circuit). *)
AttemptsAccounted ==
    ~silentEnds /\ state = "HALF_OPEN" =>
        /\ consecutiveSuccesses < SuccessThreshold =>
               halfOpenAttempts <= Cardinality(ManualOut) + consecutiveSuccesses
        /\ consecutiveSuccesses >= SuccessThreshold =>
               halfOpenAttempts <= Cardinality(ManualOut)

(* No avalanche on a broken provider (the comment at halfOpenAttempts): from *)
(* one full cool-down to the next, or until it closes, a circuit lets at   *)
(* most successThreshold callers and the one that made it half-open, which *)
(* transitionTo forgets to count, through canExecute: across failures that *)
(* open it again, late answers of earlier callers, and the different times *)
(* that canExecute and execute wait for.                                   *)
ProbesBounded == manualTrials <= SuccessThreshold + 1

(* An open circuit is tested again: no late answer keeps it open for ever. *)
OpenIsTested == state = "OPEN" ~> state # "OPEN"

(* A test period ends, with the circuit closed or open again, as long as   *)
(* callers keep coming and report what happened.                           *)
TestPeriodEnds == state = "HALF_OPEN" /\ ~silentEnds ~> state # "HALF_OPEN"
=============================================================================
