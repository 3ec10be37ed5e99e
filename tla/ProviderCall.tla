---------------------------- MODULE ProviderCall ----------------------------
(***************************************************************************)
(* One provider's circuit breaker under the calls that ProviderFactory     *)
(* makes to it (core/ProviderFactory.ts, chatWithFallback).  A call asks   *)
(* canExecute once and then makes up to two attempts and, with Ollama, one *)
(* more without streaming.  A step of a call is what it does between two   *)
(* awaits:                                                                 *)
(*   "first", "second"  it awaits the provider's answer to that attempt    *)
(*   "backoff"          it awaits the pause before the second attempt      *)
(*   "plain"            it awaits the answer without streaming             *)
(***************************************************************************)
EXTENDS Integers, FiniteSets

CONSTANTS Calls, FailureThreshold, SuccessThreshold, ResetTimeout

ASSUME CallsAssumption ==
    /\ FailureThreshold \in Nat \ {0}
    /\ SuccessThreshold \in Nat \ {0}
    /\ ResetTimeout \in Nat \ {0}

VARIABLES state, consecutiveFailures, consecutiveSuccesses, halfOpenAttempts,
          failWait, nextWait, manualTrials, coolDown,   \* of CircuitBreaker
          provider,   \* the breaker's provider: "ollama", "cloud", or "local"
                      \* (a server NewClaw manages)
          phase,      \* [Calls -> {"idle", "first", "backoff", "second", "plain"}]
          reported,   \* calls whose first attempt was recorded as a failure
          stopped     \* calls whose external signal is aborted

\* How the breaker sees a call.
CallOf(c) ==
    CASE phase[c] \in {"idle", "plain"} -> "idle"
      [] phase[c] = "first" -> "manual"
      [] OTHER -> IF c \in reported THEN "retry" ELSE "manual"

CB == INSTANCE CircuitBreaker WITH call <- [c \in Calls |-> CallOf(c)],
                                   silentEnds <- TRUE

vars == <<state, consecutiveFailures, consecutiveSuccesses, halfOpenAttempts,
          failWait, nextWait, manualTrials, coolDown, provider, phase, reported,
          stopped>>
trials == <<manualTrials, coolDown>>
breaker == <<state, consecutiveFailures, consecutiveSuccesses,
             halfOpenAttempts, failWait, nextWait>>

\* A provider that watches the stream for silence has no clock of the caller's.
HasDeadline == provider # "ollama"

Init ==
    /\ state = "CLOSED"
    /\ consecutiveFailures = 0 /\ consecutiveSuccesses = 0 /\ halfOpenAttempts = 0
    /\ failWait = 0 /\ nextWait = 0
    /\ manualTrials = 0 /\ coolDown = 0
    /\ provider \in {"ollama", "cloud", "local"}
    /\ phase = [c \in Calls |-> "idle"]
    /\ reported = {}
    /\ stopped = {}

-----------------------------------------------------------------------------
GoTo(c, p) == phase' = [phase EXCEPT ![c] = p] /\ UNCHANGED provider

(* The call leaves the circuit: to return, or to try without streaming.    *)
Leave(c, p) ==
    /\ GoTo(c, p)
    /\ reported' = reported \ {c}
    /\ stopped' = IF p = "idle" THEN stopped \ {c} ELSE stopped
    /\ CB!PeriodAdmissions(manualTrials)

(* From the call to the await of the first attempt, or to an early return  *)
(* after canExecute was asked: no model chosen, or no time left.           *)
Start(c) ==
    /\ phase[c] = "idle"
    /\ CB!CanExecute
    /\ GoTo(c, "first")
    /\ CB!PeriodAdmissions(manualTrials + 1)
    /\ UNCHANGED <<reported, stopped>>

StartAndReturn(c) ==
    /\ phase[c] = "idle"
    /\ CB!CanExecute
    /\ CB!PeriodAdmissions(manualTrials + 1)
    /\ UNCHANGED <<provider, phase, reported, stopped>>

(* "Stop": the abort reaches the attempt, not the pause.                   *)
Stop(c) ==
    /\ phase[c] # "idle" /\ c \notin stopped
    /\ stopped' = stopped \union {c}
    /\ UNCHANGED <<breaker, trials, provider, phase, reported>>

Attempting(c) == phase[c] \in {"first", "second"}

(* Whatever the attempt gave, a stopped call discards it.                  *)
Cancelled(c) ==
    /\ Attempting(c) /\ c \in stopped
    /\ UNCHANGED breaker
    /\ Leave(c, "idle")

\* Mistake: an attempt cut by "Stop" is an answer of the provider like any other.
AttemptEndsUnchecked(c) == Attempting(c)

(* An attempt that ends with the call still wanted.                        *)
AttemptEnds(c) == Attempting(c) /\ c \notin stopped

Answered(c) ==
    /\ AttemptEnds(c)
    /\ CB!OnSuccess
    /\ Leave(c, "idle")

(* Nothing in the answer: not a success, not a failure, not retried.  With *)
(* a deadline, also an attempt that it cut before any content.             *)
CameBackEmpty(c) ==
    /\ AttemptEnds(c)
    /\ UNCHANGED breaker
    /\ Leave(c, "idle")

(* registrarFalhaSeForAvaria: a local server that is switched off, or whose *)
(* record cannot be read, does not count.                                  *)
RecordIfDamaged(counted) ==
    IF counted THEN CB!OnFailure ELSE UNCHANGED breaker

Counts == IF provider = "local" THEN BOOLEAN ELSE {TRUE}

(* The first attempt failed in a way worth repeating and a second one fits. *)
RetryLater(c, counted) ==
    /\ AttemptEnds(c) /\ phase[c] = "first"
    /\ RecordIfDamaged(counted)
    /\ GoTo(c, "backoff")
    /\ reported' = IF counted THEN reported \union {c} ELSE reported
    /\ CB!PeriodAdmissions(manualTrials)
    /\ UNCHANGED stopped

(* The first attempt failed but there is no time for the pause, or it      *)
(* failed for good, or the second one failed: the error returned is final, *)
(* unless Ollama is asked once more without streaming.                     *)
GiveUp(c, counted) ==
    /\ AttemptEnds(c)
    /\ RecordIfDamaged(counted)
    /\ \/ HasDeadline /\ Leave(c, "idle")
       \/ provider = "ollama" /\ Leave(c, "plain")

AfterBackoff(c) ==
    /\ phase[c] = "backoff"
    /\ UNCHANGED breaker
    /\ IF c \in stopped
       THEN Leave(c, "idle")
       ELSE GoTo(c, "second") /\ UNCHANGED <<reported, stopped, trials>>

\* Mistake: the answer without streaming is reported on a spent admission.
PlainEndsReporting(c) ==
    /\ phase[c] = "plain"
    /\ CB!OnSuccess
    /\ Leave(c, "idle")

(* fallbackNonStreaming answers or fails; the breaker hears of neither.    *)
PlainEnds(c) ==
    /\ phase[c] = "plain"
    /\ UNCHANGED breaker
    /\ Leave(c, "idle")

Proceed(c) ==
    \/ Cancelled(c) \/ Answered(c) \/ CameBackEmpty(c)
    \/ \E counted \in Counts : RetryLater(c, counted) \/ GiveUp(c, counted)
    \/ AfterBackoff(c) \/ PlainEnds(c)

(* The 60 s monitor, and the clock.                                        *)
Monitor ==
    /\ CB!AllowAfterCooldown
    /\ CB!PeriodAdmissions(manualTrials)
    /\ UNCHANGED <<provider, phase, reported, stopped>>

Tick ==
    /\ failWait + nextWait > 0
    /\ failWait' = CB!Elapse(failWait)
    /\ nextWait' = CB!Elapse(nextWait)
    /\ coolDown' = CB!Elapse(coolDown)
    /\ manualTrials' = IF coolDown = 1 THEN 0 ELSE manualTrials
    /\ UNCHANGED <<state, consecutiveFailures, consecutiveSuccesses,
                   halfOpenAttempts, provider, phase, reported, stopped>>

Next ==
    \/ \E c \in Calls : Start(c) \/ StartAndReturn(c) \/ Stop(c) \/ Proceed(c)
    \/ Monitor \/ Tick

Spec == Init /\ [][Next]_vars

-----------------------------------------------------------------------------
(* Properties                                                              *)

TypeOK ==
    /\ provider \in {"ollama", "cloud", "local"}
    /\ phase \in [Calls -> {"idle", "first", "backoff", "second", "plain"}]
    /\ reported \subseteq {c \in Calls : phase[c] \in {"backoff", "second"}}
    /\ stopped \subseteq {c \in Calls : phase[c] # "idle"}
    /\ CB!TypeOK

(* The calls use the breaker as CircuitBreaker assumes: one admission, at  *)
(* most one retry on it, at most one report for each attempt.              *)
UsesBreaker == CB!Spec

(* What CircuitBreaker promises holds when these are its callers: from one *)
(* cool-down to the next at most successThreshold + 1 calls are let        *)
(* through to a failing provider, whatever calls end without a report.     *)
CallsProbeBounded == CB!ProbesBounded

(* "Stop" never counts for or against the provider: no step of a stopped   *)
(* call moves the breaker (the abort makes the attempt fail like a broken  *)
(* connection, and both the answer and the catch must tell them apart).    *)
StopIsNoEvidence ==
    [][\A c \in Calls : c \in stopped /\ phase'[c] # phase[c] => UNCHANGED breaker]_vars

=============================================================================
