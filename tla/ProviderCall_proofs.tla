-------------------------- MODULE ProviderCall_proofs --------------------------
(* Theorems about ProviderCall, for any number of calls and any thresholds  *)
(* of the breaker.                                                           *)
EXTENDS ProviderCall, TLAPS

(* What a step of a call relies on: where calls are, that only a call which *)
(* waits for or makes its second attempt was recorded, that only a call     *)
(* under way is stopped, and that a closed circuit counts no probes.        *)
CallsInv ==
    /\ phase \in [Calls -> {"idle", "first", "backoff", "second", "plain"}]
    /\ reported \subseteq {c \in Calls : phase[c] \in {"backoff", "second"}}
    /\ stopped \subseteq {c \in Calls : phase[c] # "idle"}
    /\ state = "CLOSED" => manualTrials = 0 /\ coolDown = 0

(* The calls as the breaker sees them.                                       *)
View == [c \in Calls |-> CallOf(c)]

LEMMA CallOfIs ==
    ASSUME NEW c \in Calls
    PROVE  /\ phase[c] \in {"idle", "plain"} => CallOf(c) = "idle"
           /\ phase[c] = "first" => CallOf(c) = "manual"
           /\ phase[c] \in {"backoff", "second"} /\ c \in reported => CallOf(c) = "retry"
           /\ phase[c] \in {"backoff", "second"} /\ c \notin reported => CallOf(c) = "manual"
  BY DEF CallOf

(* A step of one call changes the breaker's view of that call only.          *)
LEMMA OnlyOneMoves ==
    ASSUME CallsInv, NEW c \in Calls, NEW p, phase' = [phase EXCEPT ![c] = p],
           reported' \in {reported, reported \ {c}, reported \union {c}}
    PROVE  View' = [View EXCEPT ![c] = CallOf(c)']
  <1>1. ASSUME NEW d \in Calls, d # c PROVE CallOf(d)' = CallOf(d)
    <2>1. phase'[d] = phase[d] /\ (d \in reported' <=> d \in reported)
      BY <1>1 DEF CallsInv
    <2> QED
      BY <2>1 DEF CallOf
  <1> QED
    BY <1>1 DEF View

LEMMA CallsInit == Init => CallsInv
  BY DEF Init, CallsInv

LEMMA CallsStep == CallsInv /\ [Next]_vars => CallsInv'
  <1> SUFFICES ASSUME CallsInv, [Next]_vars PROVE CallsInv'
    OBVIOUS
  <1>1. ASSUME NEW c \in Calls, NEW p \in {"idle", "plain"}, Leave(c, p) PROVE CallsInv'
    BY <1>1 DEF Leave, GoTo, CB!PeriodAdmissions, CallsInv
  <1>2. ASSUME NEW c \in Calls, Start(c) PROVE CallsInv'
    BY <1>2 DEF Start, GoTo, CB!PeriodAdmissions, CallsInv
  <1>3. ASSUME NEW c \in Calls, StartAndReturn(c) PROVE CallsInv'
    BY <1>3 DEF StartAndReturn, CB!PeriodAdmissions, CallsInv
  <1>4. ASSUME NEW c \in Calls, Stop(c) PROVE CallsInv'
    BY <1>4 DEF Stop, breaker, trials, CallsInv
  <1>5. ASSUME NEW c \in Calls, Proceed(c) PROVE CallsInv'
    <2>1. CASE Cancelled(c) \/ Answered(c) \/ CameBackEmpty(c) \/ PlainEnds(c)
      BY <2>1, <1>1 DEF Cancelled, Answered, CameBackEmpty, PlainEnds
    <2>2. ASSUME NEW counted \in Counts, RetryLater(c, counted) PROVE CallsInv'
      BY <2>2 DEF RetryLater, GoTo, CB!PeriodAdmissions, CallsInv, AttemptEnds, Attempting
    <2>3. ASSUME NEW counted \in Counts, GiveUp(c, counted) PROVE CallsInv'
      BY <2>3, <1>1 DEF GiveUp
    <2>4. CASE AfterBackoff(c)
      <3>1. CASE c \in stopped
        BY <2>4, <3>1, <1>1 DEF AfterBackoff
      <3>2. CASE c \notin stopped
        BY <2>4, <3>2 DEF AfterBackoff, GoTo, breaker, trials, CallsInv
      <3> QED
        BY <3>1, <3>2
    <2> QED
      BY <1>5, <2>1, <2>2, <2>3, <2>4 DEF Proceed
  <1>6. CASE Monitor
    BY <1>6 DEF Monitor, CB!PeriodAdmissions, CallsInv
  <1>7. CASE Tick
    BY <1>7 DEF Tick, CB!Elapse, CallsInv
  <1>8. CASE UNCHANGED vars
    BY <1>8 DEF vars, CallsInv
  <1> QED
    BY <1>2, <1>3, <1>4, <1>5, <1>6, <1>7, <1>8 DEF Next

-----------------------------------------------------------------------------
(* The calls make CircuitBreaker's steps.                                    *)

(* The breaker is left alone and so is its view of the calls.                *)
LEMMA IsStutter ==
    ASSUME CallsInv, UNCHANGED breaker, View' = View,
           trials' = trials \/ CB!PeriodAdmissions(manualTrials)
    PROVE  UNCHANGED CB!vars
  BY DEF CallsInv, breaker, trials, View, CB!vars, CB!PeriodAdmissions

(* A call that is out leaves the circuit.                                    *)
LEMMA LeaveIsFinish ==
    ASSUME CallsInv, NEW c \in Calls, NEW p \in {"idle", "plain"}, Leave(c, p),
           phase[c] \in {"first", "backoff", "second"}
    PROVE  CB!Finish(c)
  <1>1. phase' = [phase EXCEPT ![c] = p] /\ reported' = reported \ {c}
    BY DEF Leave, GoTo
  <1>2. View' = [View EXCEPT ![c] = CallOf(c)']
    BY <1>1, OnlyOneMoves
  <1>3. CallOf(c)' = "idle"
    BY <1>1, CallOfIs DEF CallsInv, CallOf
  <1>4. View[c] # "idle"
    BY CallOfIs DEF View
  <1> QED
    BY <1>2, <1>3, <1>4 DEF CB!Finish, View, Leave

LEMMA LeaveIsSilent ==
    ASSUME CallsInv, NEW c \in Calls, NEW p \in {"idle", "plain"}, Leave(c, p), UNCHANGED breaker,
           phase[c] \in {"first", "backoff", "second"}
    PROVE  CB!EndSilently(c)
  <1>1. View[c] \in {"manual", "retry"}
    BY CallOfIs DEF View
  <1>2. UNCHANGED CB!breaker
    BY DEF breaker, CB!breaker
  <1> QED
    BY <1>1, <1>2, LeaveIsFinish DEF CB!EndSilently, View

LEMMA StartIsAdmission ==
    ASSUME CallsInv, NEW c \in Calls, Start(c)
    PROVE  CB!AdmitManual(c)
  <1>1. phase' = [phase EXCEPT ![c] = "first"] /\ reported' = reported /\ phase[c] = "idle"
    BY DEF Start, GoTo
  <1>2. View' = [View EXCEPT ![c] = CallOf(c)']
    BY <1>1, OnlyOneMoves
  <1>3. CallOf(c)' = "manual"
    BY <1>1 DEF CallsInv, CallOf
  <1>4. View[c] = "idle"
    BY <1>1, CallOfIs DEF View
  <1> QED
    BY <1>2, <1>3, <1>4 DEF CB!AdmitManual, View, Start

LEMMA RetryIsRetry ==
    ASSUME CallsInv, NEW c \in Calls, NEW counted \in BOOLEAN, RetryLater(c, counted)
    PROVE  CB!RetryAfterFailure(c) \/ UNCHANGED CB!vars
  <1>1. /\ phase' = [phase EXCEPT ![c] = "backoff"] /\ phase[c] = "first"
        /\ reported' = IF counted THEN reported \union {c} ELSE reported
        /\ CB!PeriodAdmissions(manualTrials) /\ RecordIfDamaged(counted)
    BY DEF RetryLater, GoTo
  <1>2. View' = [View EXCEPT ![c] = CallOf(c)']
    BY <1>1, OnlyOneMoves
  <1>3. View[c] = "manual"
    BY <1>1, CallOfIs DEF View
  <1>4. CASE counted
    <2>1. CallOf(c)' = "retry"
      BY <1>1, <1>4 DEF CallsInv, CallOf
    <2> QED
      BY <1>1, <1>2, <1>3, <1>4, <2>1 DEF CB!RetryAfterFailure, View, RecordIfDamaged
  <1>5. CASE ~counted
    <2>1. CallOf(c)' = "manual"
      BY <1>1, <1>5 DEF CallsInv, CallOf
    <2>2. View' = View
      BY <1>2, <1>3, <2>1 DEF View
    <2> QED
      BY <1>1, <1>5, <2>2, IsStutter DEF RecordIfDamaged
  <1> QED
    BY <1>4, <1>5

LEMMA ProceedIsSettling ==
    ASSUME CallsInv, NEW c \in Calls, Proceed(c)
    PROVE  CB!Settle(c) \/ UNCHANGED CB!vars
  <1>0. Counts \subseteq BOOLEAN
    BY DEF Counts
  <1>1. CASE Cancelled(c) \/ CameBackEmpty(c)
    <2>1. phase[c] \in {"first", "second"} /\ UNCHANGED breaker /\ Leave(c, "idle")
      BY <1>1 DEF Cancelled, CameBackEmpty, AttemptEnds, Attempting
    <2> QED
      BY <2>1, LeaveIsSilent DEF CB!Settle
  <1>2. CASE Answered(c)
    <2>1. phase[c] \in {"first", "second"} /\ CB!OnSuccess /\ Leave(c, "idle")
      BY <1>2 DEF Answered, AttemptEnds, Attempting
    <2> QED
      BY <2>1, LeaveIsFinish DEF CB!Settle, CB!RecordSuccess
  <1>3. ASSUME NEW counted \in Counts, RetryLater(c, counted)
        PROVE  CB!Settle(c) \/ UNCHANGED CB!vars
    BY <1>0, <1>3, RetryIsRetry DEF CB!Settle
  <1>4. ASSUME NEW counted \in Counts, GiveUp(c, counted)
        PROVE  CB!Settle(c)
    <2>1. /\ phase[c] \in {"first", "second"} /\ RecordIfDamaged(counted)
          /\ \E p \in {"idle", "plain"} : Leave(c, p)
      BY <1>4 DEF GiveUp, AttemptEnds, Attempting
    <2>2. CASE counted
      BY <2>1, <2>2, LeaveIsFinish DEF CB!Settle, CB!RecordFailure, RecordIfDamaged
    <2>3. CASE ~counted
      BY <2>1, <2>3, LeaveIsSilent DEF CB!Settle, RecordIfDamaged
    <2> QED
      BY <1>0, <2>2, <2>3
  <1>5. CASE AfterBackoff(c)
    <2>1. phase[c] = "backoff" /\ UNCHANGED breaker
      BY <1>5 DEF AfterBackoff
    <2>2. CASE c \in stopped
      BY <1>5, <2>1, <2>2, LeaveIsSilent DEF AfterBackoff, CB!Settle
    <2>3. CASE c \notin stopped
      <3>1. phase' = [phase EXCEPT ![c] = "second"] /\ UNCHANGED <<reported, trials>>
        BY <1>5, <2>3 DEF AfterBackoff, GoTo
      <3>2. View' = [View EXCEPT ![c] = CallOf(c)']
        BY <3>1, OnlyOneMoves
      <3>3. CallOf(c)' = CallOf(c)
        BY <2>1, <3>1 DEF CallsInv, CallOf
      <3>4. View' = View
        BY <3>2, <3>3 DEF View
      <3> QED
        BY <2>1, <3>1, <3>4, IsStutter
    <2> QED
      BY <2>2, <2>3
  <1>6. CASE PlainEnds(c)
    <2>1. /\ phase[c] = "plain" /\ UNCHANGED breaker /\ CB!PeriodAdmissions(manualTrials)
          /\ phase' = [phase EXCEPT ![c] = "idle"] /\ reported' = reported \ {c}
      BY <1>6 DEF PlainEnds, Leave, GoTo
    <2>2. View' = [View EXCEPT ![c] = CallOf(c)']
      BY <2>1, OnlyOneMoves
    <2>3. CallOf(c)' = CallOf(c)
      BY <2>1 DEF CallsInv, CallOf
    <2>4. View' = View
      BY <2>2, <2>3 DEF View
    <2> QED
      BY <2>1, <2>4, IsStutter
  <1> QED
    BY <1>1, <1>2, <1>3, <1>4, <1>5, <1>6 DEF Proceed

LEMMA StepIsBreakers == CallsInv /\ [Next]_vars => [CB!Next]_(CB!vars)
  <1> SUFFICES ASSUME CallsInv, [Next]_vars PROVE CB!Next \/ UNCHANGED CB!vars
    OBVIOUS
  <1>1. ASSUME NEW c \in Calls, Start(c) PROVE CB!Next
    BY <1>1, StartIsAdmission DEF CB!Next
  <1>2. ASSUME NEW c \in Calls, StartAndReturn(c) PROVE CB!Next
    <2>1. View' = View
      BY <1>2 DEF StartAndReturn, View, CallOf
    <2>2. CB!AdmitAndLeave
      BY <1>2, <2>1 DEF CB!AdmitAndLeave, StartAndReturn, View
    <2> QED
      BY <2>2 DEF CB!Next
  <1>3. ASSUME NEW c \in Calls, Stop(c) PROVE UNCHANGED CB!vars
    <2>1. UNCHANGED <<phase, reported, trials>> /\ UNCHANGED breaker
      BY <1>3 DEF Stop
    <2>2. View' = View
      BY <2>1 DEF View, CallOf
    <2> QED
      BY <2>1, <2>2, IsStutter
  <1>4. ASSUME NEW c \in Calls, Proceed(c) PROVE CB!Next \/ UNCHANGED CB!vars
    BY <1>4, ProceedIsSettling DEF CB!Next
  <1>5. CASE Monitor
    <2>1. View' = View
      BY <1>5 DEF Monitor, View, CallOf
    <2>2. CB!GetState
      BY <1>5, <2>1 DEF Monitor, CB!GetState, View
    <2> QED
      BY <2>2 DEF CB!Next
  <1>6. CASE Tick
    <2>1. View' = View
      BY <1>6 DEF Tick, View, CallOf
    <2>2. CB!Tick
      BY <1>6, <2>1 DEF Tick, CB!Tick, View
    <2> QED
      BY <2>2 DEF CB!Next
  <1>7. CASE UNCHANGED vars
    <2>1. UNCHANGED <<phase, reported, trials>> /\ UNCHANGED breaker
      BY <1>7 DEF vars, breaker, trials
    <2>2. View' = View
      BY <2>1 DEF View, CallOf
    <2> QED
      BY <2>1, <2>2, IsStutter
  <1> QED
    BY <1>1, <1>2, <1>3, <1>4, <1>5, <1>6, <1>7 DEF Next

(* UsesBreaker: every step of ProviderFactory's calls is a step of the      *)
(* callers CircuitBreaker assumes, or none, so that what holds of the       *)
(* breaker holds of it under these calls.                                    *)
THEOREM CallsUseBreaker == Spec => UsesBreaker
  <1>1. Init => CB!Init
    BY DEF Init, CB!Init, CallOf
  <1> QED
    BY <1>1, CallsInit, CallsStep, StepIsBreakers, PTL DEF Spec, UsesBreaker, CB!Spec

(* StopIsNoEvidence: what a stopped call does next is discard what it got,  *)
(* leave the pause, or end its try without streaming, and none of them      *)
(* tells the breaker anything.                                               *)
THEOREM StopIsNeverEvidence == Spec => StopIsNoEvidence
  <1>1. CallsInv /\ [Next]_vars
          => [\A c \in Calls : c \in stopped /\ phase'[c] # phase[c] => UNCHANGED breaker]_vars
    <2> SUFFICES ASSUME CallsInv, Next, NEW c \in Calls, c \in stopped, phase'[c] # phase[c]
                 PROVE  UNCHANGED breaker
      OBVIOUS
    <2>1. ASSUME NEW d \in Calls, Start(d) PROVE FALSE
      BY <2>1 DEF Start, GoTo, CallsInv
    <2>2. ASSUME NEW d \in Calls, Proceed(d) PROVE UNCHANGED breaker
      <3>1. \E p : phase' = [phase EXCEPT ![d] = p]
        BY <2>2 DEF Proceed, Cancelled, Answered, CameBackEmpty, RetryLater, GiveUp,
                    AfterBackoff, PlainEnds, Leave, GoTo
      <3>2. d = c
        BY <3>1 DEF CallsInv
      <3> QED
        BY <2>2, <3>2 DEF Proceed, Cancelled, Answered, CameBackEmpty, RetryLater, GiveUp,
                          AfterBackoff, PlainEnds, AttemptEnds
    <2>3. ~(Monitor \/ Tick) /\ \A d \in Calls : ~StartAndReturn(d) /\ ~Stop(d)
      BY DEF Monitor, Tick, StartAndReturn, Stop
    <2> QED
      BY <2>1, <2>2, <2>3 DEF Next
  <1> QED
    BY <1>1, CallsInit, CallsStep, PTL DEF Spec, StopIsNoEvidence

-----------------------------------------------------------------------------
(* The breaker under these calls.                                            *)

(* The fields of the breaker, and what it let through since its cool-down.   *)
BreakerInv ==
    /\ state \in {"CLOSED", "OPEN", "HALF_OPEN"}
    /\ consecutiveFailures \in 0..FailureThreshold
    /\ consecutiveSuccesses \in 0..SuccessThreshold
    /\ halfOpenAttempts \in 0..SuccessThreshold
    /\ failWait \in 0..ResetTimeout /\ nextWait \in 0..ResetTimeout
    /\ manualTrials \in Nat /\ coolDown \in 0..ResetTimeout
    /\ state = "CLOSED" => manualTrials = 0 /\ coolDown = 0
    /\ state = "HALF_OPEN" => manualTrials <= halfOpenAttempts + 1 /\ coolDown = 0
    /\ state = "OPEN" =>
           /\ coolDown <= failWait /\ coolDown <= nextWait
           /\ manualTrials <= IF coolDown = 0 THEN 0 ELSE SuccessThreshold + 1

LEMMA AdmissionKeeps ==
    ASSUME BreakerInv, CB!CanExecute, CB!PeriodAdmissions(manualTrials + 1)
    PROVE  BreakerInv'
  <1> USE CallsAssumption DEF BreakerInv, CB!PeriodAdmissions
  <1>1. CASE CB!AllowClosed
    BY <1>1 DEF CB!AllowClosed, CB!breaker
  <1>2. CASE CB!AllowAfterCooldown
    BY <1>2 DEF CB!AllowAfterCooldown, CB!TransitionTo
  <1>3. CASE CB!AllowTrial
    BY <1>3 DEF CB!AllowTrial
  <1> QED
    BY <1>1, <1>2, <1>3 DEF CB!CanExecute

LEMMA ReportKeeps ==
    ASSUME BreakerInv, CB!OnSuccess \/ CB!OnFailure \/ UNCHANGED breaker,
           CB!PeriodAdmissions(manualTrials) \/ UNCHANGED <<breaker, trials>>
    PROVE  BreakerInv'
  <1> USE CallsAssumption DEF BreakerInv, CB!PeriodAdmissions
  <1>1. CASE CB!OnSuccess /\ CB!PeriodAdmissions(manualTrials)
    BY <1>1 DEF CB!OnSuccess, CB!TransitionTo
  <1>2. CASE CB!OnFailure /\ CB!PeriodAdmissions(manualTrials)
    BY <1>2 DEF CB!OnFailure, CB!TransitionTo
  <1>3. CASE UNCHANGED breaker
    BY <1>3 DEF breaker, trials
  <1> QED
    BY <1>1, <1>2, <1>3

LEMMA BreakerStep == BreakerInv /\ [Next]_vars => BreakerInv'
  <1> SUFFICES ASSUME BreakerInv, [Next]_vars PROVE BreakerInv'
    OBVIOUS
  <1>1. ASSUME NEW c \in Calls, Start(c) \/ StartAndReturn(c) PROVE BreakerInv'
    BY <1>1, AdmissionKeeps DEF Start, StartAndReturn
  <1>2. ASSUME NEW c \in Calls, Proceed(c) PROVE BreakerInv'
    <2>1. ASSUME NEW q, Leave(c, q), CB!OnSuccess \/ CB!OnFailure \/ UNCHANGED breaker
          PROVE  BreakerInv'
      BY <2>1, ReportKeeps DEF Leave
    <2>2. CASE Cancelled(c) \/ Answered(c) \/ CameBackEmpty(c) \/ PlainEnds(c)
      BY <2>1, <2>2 DEF Cancelled, Answered, CameBackEmpty, PlainEnds
    <2>3. ASSUME NEW counted \in Counts, RetryLater(c, counted) \/ GiveUp(c, counted)
          PROVE  BreakerInv'
      <3>1. CB!OnFailure \/ UNCHANGED breaker
        BY <2>3 DEF RetryLater, GiveUp, RecordIfDamaged
      <3>2. CB!PeriodAdmissions(manualTrials)
        BY <2>3 DEF RetryLater, GiveUp, Leave
      <3> QED
        BY <3>1, <3>2, ReportKeeps
    <2>4. CASE AfterBackoff(c)
      <3>1. UNCHANGED breaker
        BY <2>4 DEF AfterBackoff
      <3>2. CB!PeriodAdmissions(manualTrials) \/ UNCHANGED <<breaker, trials>>
        BY <2>4 DEF AfterBackoff, Leave
      <3> QED
        BY <3>1, <3>2, ReportKeeps
    <2> QED
      BY <1>2, <2>2, <2>3, <2>4 DEF Proceed
  <1>3. ASSUME NEW c \in Calls, Stop(c) PROVE BreakerInv'
    BY <1>3, ReportKeeps DEF Stop
  <1>4. CASE Monitor
    BY <1>4, CallsAssumption
       DEF Monitor, CB!AllowAfterCooldown, CB!TransitionTo, CB!PeriodAdmissions, BreakerInv
  <1>5. CASE Tick
    <2>1. /\ failWait' = IF failWait = 0 THEN 0 ELSE failWait - 1
          /\ nextWait' = IF nextWait = 0 THEN 0 ELSE nextWait - 1
          /\ coolDown' = IF coolDown = 0 THEN 0 ELSE coolDown - 1
      BY <1>5 DEF Tick, CB!Elapse
    <2>2. failWait' \in 0..ResetTimeout /\ nextWait' \in 0..ResetTimeout
      BY <2>1, CallsAssumption DEF BreakerInv
    <2> QED
      BY <1>5, <2>1, <2>2, CallsAssumption DEF Tick, BreakerInv
  <1>6. CASE UNCHANGED vars
    BY <1>6 DEF vars, BreakerInv
  <1> QED
    BY <1>1, <1>2, <1>3, <1>4, <1>5, <1>6 DEF Next

(* The calls and the breaker they share stay well typed: a call that was     *)
(* recorded waits for or makes its second attempt, a stopped one is under    *)
(* way.                                                                      *)
THEOREM TypeCorrect == Spec => []TypeOK
  <1>1. Init => BreakerInv
    BY CallsAssumption DEF Init, BreakerInv
  <1>2. Spec => [](provider \in {"ollama", "cloud", "local"})
    <2>1. Init => provider \in {"ollama", "cloud", "local"}
      BY DEF Init
    <2>2. [Next]_vars => provider' = provider
      BY DEF Next, Start, StartAndReturn, Stop, Proceed, Cancelled, Answered, CameBackEmpty,
             RetryLater, GiveUp, AfterBackoff, PlainEnds, Leave, GoTo, Monitor, Tick, vars
    <2>3. provider \in {"ollama", "cloud", "local"} /\ [Next]_vars
            => (provider \in {"ollama", "cloud", "local"})'
      BY <2>2
    <2> QED
      BY <2>1, <2>3, PTL DEF Spec
  <1>3. CallsInv /\ BreakerInv /\ provider \in {"ollama", "cloud", "local"} => TypeOK
    BY CallsAssumption DEF CallsInv, BreakerInv, TypeOK, CB!TypeOK, CallOf
  <1> QED
    BY <1>1, <1>2, <1>3, BreakerStep, CallsInit, CallsStep, PTL DEF Spec

(* CallsProbeBounded: what ProbesBounded says of any callers holds of        *)
(* ProviderFactory's, stopped, empty and failed calls included.              *)
THEOREM CallsProbeLittle == Spec => []CallsProbeBounded
  <1>1. Init => BreakerInv
    BY CallsAssumption DEF Init, BreakerInv
  <1>2. BreakerInv => CallsProbeBounded
    BY CallsAssumption DEF BreakerInv, CallsProbeBounded, CB!ProbesBounded
  <1> QED
    BY <1>1, <1>2, BreakerStep, PTL DEF Spec

=============================================================================
