------------------------- MODULE Primitives_proofs --------------------------
(***************************************************************************)
(* What the two primitives that others wait on guarantee.  CircuitBreaker, *)
(* for any number of callers and any thresholds: its state is well typed,  *)
(* a circuit that does not close admits a bounded number of probes from    *)
(* one cool-down to the next, and it is never left with all of them spent. *)
(* SessionMutex, for any number of operations: that an operation begins    *)
(* only after the earlier ones are over, unless somebody between them gave *)
(* up waiting or a sweep cut the chain between them; and hence, when nobody *)
(* gives up and the conversation is not swept, that no two run at once,    *)
(* and that the chain of promises implements a lock that is taken in turn  *)
(* (TurnLock); and that the chain has no deadlock, whoever gives up and    *)
(* whatever is swept.                                                      *)
(***************************************************************************)
EXTENDS CircuitBreaker, SessionMutex, FiniteSetTheorems, WellFoundedInduction, TLAPS

-----------------------------------------------------------------------------
(* CircuitBreaker                                                          *)

(* Each step of the breaker keeps every variable in its type, gives out at *)
(* most successThreshold counted attempts per half-open period besides the *)
(* uncounted one that began it, and lets nobody begin another period before *)
(* the cool-down of the last opening is over.                              *)
ProbesCounted ==
    /\ state = "CLOSED" => manualTrials = 0 /\ coolDown = 0
    /\ state = "HALF_OPEN" => manualTrials <= halfOpenAttempts + 1 /\ coolDown = 0
    /\ state = "OPEN" =>
           /\ coolDown <= failWait /\ coolDown <= nextWait
           /\ manualTrials <= IF coolDown = 0 THEN 0 ELSE SuccessThreshold + 1

TypeInv == TypeOK /\ ProbesCounted

LEMMA TypeInvInit == Init => TypeInv
  BY CircuitAssumption DEF Init, TypeInv, TypeOK, ProbesCounted

LEMMA TypeInvStep == TypeInv /\ [Next]_vars => TypeInv'
  <1> SUFFICES ASSUME TypeInv, [Next]_vars PROVE TypeInv'
    OBVIOUS
  <1> USE CircuitAssumption DEF TypeInv, TypeOK, ProbesCounted, TransitionTo, PeriodAdmissions
  <1>1. ASSUME NEW c \in Calls, AdmitManual(c) PROVE TypeInv'
    <2>1. CASE AllowClosed
      BY <1>1, <2>1 DEF AdmitManual, AllowClosed, breaker
    <2>2. CASE AllowAfterCooldown
      BY <1>1, <2>2 DEF AdmitManual, AllowAfterCooldown
    <2>3. CASE AllowTrial
      BY <1>1, <2>3 DEF AdmitManual, AllowTrial
    <2>4. QED
      BY <1>1, <2>1, <2>2, <2>3 DEF AdmitManual, CanExecute
  <1>2. ASSUME NEW c \in Calls, AdmitExecute(c) PROVE TypeInv'
    BY <1>2 DEF AdmitExecute
  <1>3. ASSUME NEW c \in Calls, RecordSuccess(c) PROVE TypeInv'
    BY <1>3 DEF RecordSuccess, OnSuccess, Finish
  <1>4. ASSUME NEW c \in Calls, RecordFailure(c) PROVE TypeInv'
    BY <1>4 DEF RecordFailure, OnFailure, Finish
  <1>5. ASSUME NEW c \in Calls, RetryAfterFailure(c) PROVE TypeInv'
    BY <1>5 DEF RetryAfterFailure, OnFailure
  <1>6. ASSUME NEW c \in Calls, EndSilently(c) PROVE TypeInv'
    BY <1>6 DEF EndSilently, Finish, breaker
  <1>7. CASE GetState
    BY <1>7 DEF GetState, AllowAfterCooldown
  <1>8. CASE Reset
    BY <1>8 DEF Reset, PeriodForgotten
  <1>9. CASE ForceOpen
    BY <1>9 DEF ForceOpen, PeriodForgotten
  <1>10. CASE Tick
    BY <1>10 DEF Tick, Elapse
  <1>11. CASE AdmitAndLeave
    <2>1. CASE AllowClosed
      BY <1>11, <2>1 DEF AdmitAndLeave, AllowClosed, breaker
    <2>2. CASE AllowAfterCooldown
      BY <1>11, <2>2 DEF AdmitAndLeave, AllowAfterCooldown
    <2>3. CASE AllowTrial
      BY <1>11, <2>3 DEF AdmitAndLeave, AllowTrial
    <2>4. QED
      BY <1>11, <2>1, <2>2, <2>3 DEF AdmitAndLeave, CanExecute
  <1>12. CASE UNCHANGED vars
    BY <1>12 DEF vars
  <1>13. QED
    BY <1>1, <1>2, <1>3, <1>4, <1>5, <1>6, <1>7, <1>8, <1>9, <1>10, <1>11, <1>12
       DEF Next, Settle

(* Every variable stays in its type (the field types of CircuitBreaker).   *)
THEOREM TypeCorrect == Spec => []TypeOK
  <1>1. TypeInv => TypeOK
    BY DEF TypeInv
  <1>2. QED
    BY <1>1, TypeInvInit, TypeInvStep, PTL DEF Spec

(* From one cool-down to the next canExecute lets at most successThreshold *)
(* + 1 callers through to a provider whose circuit does not close, whatever *)
(* the callers do afterwards.                                              *)
THEOREM ProbesAreBounded == Spec => []ProbesBounded
  <1>1. TypeInv => ProbesBounded
    BY CircuitAssumption DEF TypeInv, TypeOK, ProbesCounted, ProbesBounded
  <1>2. QED
    BY <1>1, TypeInvInit, TypeInvStep, PTL DEF Spec

-----------------------------------------------------------------------------
(* Counting the callers that are out through canExecute.                   *)

LEMMA ManualOutFinite ==
    IsFiniteSet(ManualOut) /\ Cardinality(ManualOut) \in Nat
  BY CircuitAssumption, FS_Subset, FS_CardinalityType DEF ManualOut

(* An admission through canExecute puts one caller more out.               *)
LEMMA AdmitAddsOne ==
    ASSUME TypeOK, NEW c \in Calls, AdmitManual(c)
    PROVE  Cardinality(ManualOut') = Cardinality(ManualOut) + 1
  <1>1. ManualOut' = ManualOut \union {c} /\ c \notin ManualOut
    BY DEF TypeOK, AdmitManual, ManualOut
  <1>2. QED
    BY <1>1, ManualOutFinite, FS_AddElement

(* A caller that settles takes at most itself away.                        *)
LEMMA FinishRemovesAtMostOne ==
    ASSUME TypeOK, NEW c \in Calls, Finish(c)
    PROVE  Cardinality(ManualOut') >= Cardinality(ManualOut) - 1
  <1>1. ManualOut' = ManualOut \ {c}
    BY DEF TypeOK, Finish, ManualOut
  <1>2. CASE c \in ManualOut
    BY <1>1, <1>2, ManualOutFinite, FS_RemoveElement
  <1>3. CASE c \notin ManualOut
    <2>1. ManualOut' = ManualOut
      BY <1>1, <1>3
    <2>2. QED
      BY <2>1, ManualOutFinite
  <1>4. QED
    BY <1>2, <1>3

(* No step changes who calls.                                              *)
LEMMA CallersStay == [Next]_vars => silentEnds' = silentEnds
  <1> SUFFICES ASSUME [Next]_vars PROVE silentEnds' = silentEnds
    OBVIOUS
  <1> QED
    BY DEF Next, Settle, AdmitManual, AdmitExecute, RecordSuccess, RecordFailure,
           RetryAfterFailure, EndSilently, Finish, AdmitAndLeave, GetState, Reset,
           ForceOpen, Tick, PeriodAdmissions, PeriodForgotten, vars

(* The accounting is kept by every step when callers always report.        *)
LEMMA AccountingStep == TypeOK /\ AttemptsAccounted /\ [Next]_vars => AttemptsAccounted'
  <1> SUFFICES ASSUME TypeOK, AttemptsAccounted, [Next]_vars,
                      ~silentEnds', state' = "HALF_OPEN"
               PROVE  AttemptsAccounted'
    BY DEF AttemptsAccounted
  <1>0. ~silentEnds
    BY CallersStay
  <1>a. ManualOut' \subseteq Calls
    BY DEF ManualOut
  <1>b. PICK out \in Nat, outNext \in Nat :
            out = Cardinality(ManualOut) /\ outNext = Cardinality(ManualOut')
    BY <1>a, ManualOutFinite, CircuitAssumption, FS_Subset, FS_CardinalityType
  <1>c. state = "HALF_OPEN" =>
          /\ consecutiveSuccesses < SuccessThreshold =>
                 halfOpenAttempts <= out + consecutiveSuccesses
          /\ consecutiveSuccesses >= SuccessThreshold => halfOpenAttempts <= out
    BY <1>0, <1>b DEF AttemptsAccounted
  <1> DEFINE Goal ==
          /\ consecutiveSuccesses' < SuccessThreshold =>
                 halfOpenAttempts' <= outNext + consecutiveSuccesses'
          /\ consecutiveSuccesses' >= SuccessThreshold => halfOpenAttempts' <= outNext
  <1>d. SUFFICES Goal
    BY <1>b DEF AttemptsAccounted
  <1> USE CircuitAssumption, <1>c DEF TypeOK
  <1>1. ASSUME NEW c \in Calls, AdmitManual(c) PROVE Goal
    <2>1. outNext = out + 1
      BY <1>1, <1>b, AdmitAddsOne
    <2>2. CASE AllowClosed
      BY <2>2 DEF AllowClosed, breaker
    <2>3. CASE AllowAfterCooldown
      BY <2>1, <2>3 DEF AllowAfterCooldown, TransitionTo
    <2>4. CASE AllowTrial
      BY <2>1, <2>4 DEF AllowTrial
    <2>5. QED
      BY <1>1, <2>2, <2>3, <2>4 DEF AdmitManual, CanExecute
  <1>2. ASSUME NEW c \in Calls, AdmitExecute(c) PROVE Goal
    <2>1. ManualOut' = ManualOut
      BY <1>2 DEF AdmitExecute, ManualOut
    <2>2. outNext = out
      BY <2>1, <1>b
    <2>3. QED
      BY <1>2, <2>2 DEF AdmitExecute, TransitionTo
  <1>3. ASSUME NEW c \in Calls, RecordSuccess(c) PROVE Goal
    <2>1. outNext >= out - 1
      BY <1>3, <1>b, FinishRemovesAtMostOne DEF RecordSuccess
    <2>2. QED
      BY <1>3, <2>1 DEF RecordSuccess, OnSuccess, TransitionTo
  <1>4. ASSUME NEW c \in Calls, RecordFailure(c) \/ RetryAfterFailure(c)
        PROVE  FALSE
    BY <1>4 DEF RecordFailure, RetryAfterFailure, OnFailure, TransitionTo
  <1>5. CASE GetState
    BY <1>5 DEF GetState, AllowAfterCooldown, TransitionTo
  <1>6. ~Reset /\ ~ForceOpen
    BY DEF Reset, ForceOpen, TransitionTo
  <1>7. CASE Tick \/ UNCHANGED vars
    <2>1. ManualOut' = ManualOut
      BY <1>7 DEF Tick, vars, ManualOut
    <2>2. outNext = out
      BY <2>1, <1>b
    <2>3. QED
      BY <1>7, <2>2 DEF Tick, vars
  <1>8. QED
    BY <1>0, <1>1, <1>2, <1>3, <1>4, <1>5, <1>6, <1>7
       DEF Next, Settle, EndSilently, AdmitAndLeave

(* When every caller reports, the attempts of a half-open period are       *)
(* covered by callers that are out and successes that came back.           *)
THEOREM AttemptsAreAccounted == Spec => []AttemptsAccounted
  <1>1. Init => AttemptsAccounted
    BY DEF Init, AttemptsAccounted
  <1>2. TypeOK /\ AttemptsAccounted /\ [Next]_vars => AttemptsAccounted'
    BY AccountingStep
  <1>3. QED
    BY <1>1, <1>2, TypeCorrect, PTL DEF Spec

(* When every caller reports, the circuit is never stuck half-open with    *)
(* nobody left to close it.                                                *)
THEOREM NeverWedged == Spec => []NotWedged
  <1>1. TypeOK /\ AttemptsAccounted => NotWedged
    <2> SUFFICES ASSUME TypeOK, AttemptsAccounted, ~silentEnds, state = "HALF_OPEN",
                        halfOpenAttempts = SuccessThreshold, ManualOut = {}
                 PROVE  FALSE
      BY DEF NotWedged
    <2>1. Cardinality(ManualOut) = 0
      BY FS_EmptySet
    <2>2. CASE consecutiveSuccesses < SuccessThreshold
      <3>1. halfOpenAttempts <= 0 + consecutiveSuccesses
        BY <2>1, <2>2 DEF AttemptsAccounted
      <3>2. QED
        BY <3>1, <2>2, CircuitAssumption DEF TypeOK
    <2>3. CASE consecutiveSuccesses >= SuccessThreshold
      <3>1. halfOpenAttempts <= 0 + 0
        BY <2>1, <2>3 DEF AttemptsAccounted
      <3>2. QED
        BY <3>1, CircuitAssumption DEF TypeOK
    <2>4. QED
      BY <2>2, <2>3, CircuitAssumption DEF TypeOK
  <1>2. Spec => []AttemptsAccounted
    BY AttemptsAreAccounted
  <1>3. QED
    BY <1>1, <1>2, TypeCorrect, PTL

-----------------------------------------------------------------------------
(* SessionMutex                                                            *)

(* Nobody has to wait for operation n: it is over, or was forgotten.       *)
Free(n) == Resolved(n) \/ n \in cuts

(* The operations that have called are the first ones; each waits for its  *)
(* predecessor, or for nobody, its predecessor being over or forgotten.    *)
Chain ==
    /\ \A n \in Ops : n <= calls <=> at[n] # "out"
    /\ \A n \in Ops : n <= calls =>
           \/ waitsFor[n] = n - 1
           \/ waitsFor[n] = 0 /\ Free(n - 1)
    /\ tail = calls \/ (tail = 0 /\ Free(calls))

Begun(n) == Inside(n) \/ at[n] = "done"

(* An operation that has begun found its predecessor over or forgotten.    *)
BehindFree == \A n \in Ops : Begun(n) => Free(n - 1)

IInv == MutexTypeOK /\ Chain /\ BehindFree /\ BeginsInTurn

LEMMA TypeStep == MutexTypeOK /\ [MutexNext]_mutexVars => MutexTypeOK'
<1> SUFFICES ASSUME MutexTypeOK, [MutexNext]_mutexVars PROVE MutexTypeOK'
  OBVIOUS
<1> USE MutexAssumption DEF MutexTypeOK, Ops
<1>1. CASE Call
  BY <1>1 DEF Call
<1>2. ASSUME NEW n \in Ops, Step(n) PROVE MutexTypeOK'
  BY <1>2 DEF Step, Enter, Leave, TimeOut, NestedCall, NestedReturns
<1>3. CASE ForgetTail
  BY <1>3 DEF ForgetTail
<1>4. CASE SweepBegins
  BY <1>4 DEF SweepBegins
<1>5. CASE SweepEnds
  <2>1. calls \in 0..calls
    OBVIOUS
  <2> QED
    BY <1>5, <2>1 DEF SweepEnds
<1>6. CASE UNCHANGED mutexVars
  BY <1>6 DEF mutexVars
<1> QED
  BY <1>1, <1>2, <1>3, <1>4, <1>5, <1>6 DEF MutexNext

(* The states of withMutex are well formed, whatever the number of         *)
(* operations, with timeouts and sweeps or without.                        *)
THEOREM MutexTypeCorrect == MutexSpec => []MutexTypeOK
<1>1. MutexInit => MutexTypeOK
  BY MutexAssumption DEF MutexInit, MutexTypeOK, Ops
<1> QED
  BY <1>1, TypeStep, PTL DEF MutexSpec

(* A step of one operation leaves the others where they are, and never     *)
(* takes back that a promise is resolved.                                  *)
LEMMA StepIsLocal ==
    ASSUME MutexTypeOK, NEW n \in Ops, Step(n)
    PROVE  /\ UNCHANGED <<calls, waitsFor, tail, sweep, cuts>>
           /\ at[n] \in {"waiting", "inside", "nested"}
           /\ at'[n] \in {"inside", "nested", "done", "expired"}
           /\ \A m \in Ops \ {n} : at'[m] = at[m]
           /\ \A m \in Ops : Resolved(m) => Resolved(m)'
           /\ \A m \in 0..MaxOps : Free(m) => Free(m)'
           /\ Resolved(0) /\ Resolved(0)'
<1>1. /\ UNCHANGED <<calls, waitsFor, tail, sweep, cuts>>
      /\ at[n] \in {"waiting", "inside", "nested"}
      /\ at'[n] \in {"inside", "nested", "done", "expired"}
      /\ \A m \in Ops \ {n} : at'[m] = at[m]
  BY DEF Step, Enter, Leave, TimeOut, NestedCall, NestedReturns, MutexTypeOK
<1>2. /\ \A m \in Ops : Resolved(m) => Resolved(m)'
      /\ Resolved(0) /\ Resolved(0)'
  BY <1>1 DEF Resolved, Ops
<1>3. \A m \in 0..MaxOps : Resolved(m) => Resolved(m)'
  BY <1>2, MutexAssumption DEF Ops
<1>4. \A m \in 0..MaxOps : Free(m) => Free(m)'
  BY <1>1, <1>3 DEF Free
<1> QED
  BY <1>1, <1>2, <1>4

LEMMA ChainKept ==
    ASSUME MutexTypeOK, Chain, [MutexNext]_mutexVars
    PROVE  Chain'
<1> USE MutexAssumption DEF MutexTypeOK, Ops
<1>1. CASE Call
  <2>1. calls' = calls + 1 /\ calls' \in Ops /\ tail' = calls'
    BY <1>1 DEF Call
  <2>2. /\ at'[calls'] = "waiting" /\ waitsFor'[calls'] = tail
        /\ \A n \in Ops : n # calls' => at'[n] = at[n] /\ waitsFor'[n] = waitsFor[n]
    BY <1>1, <2>1 DEF Call
  <2>3. ASSUME NEW n \in Ops PROVE n <= calls' <=> at'[n] # "out"
    <3>1. CASE n = calls'
      BY <2>1, <2>2, <3>1
    <3>2. CASE n # calls'
      <4>1. n <= calls' <=> n <= calls
        BY <2>1, <3>2
      <4> QED
        BY <2>2, <3>2, <4>1 DEF Chain
    <3> QED
      BY <3>1, <3>2
  <2>4. ASSUME NEW n \in 0..MaxOps, n <= calls, Free(n) PROVE Free(n)'
    BY <1>1, <2>1, <2>2, <2>4 DEF Call, Free, Resolved
  <2>5. ASSUME NEW n \in Ops, n <= calls'
        PROVE  (waitsFor[n] = n - 1 \/ (waitsFor[n] = 0 /\ Free(n - 1)))'
    <3>1. CASE n = calls'
      BY <2>1, <2>2, <2>4, <3>1 DEF Chain
    <3>2. CASE n # calls'
      <4>1. n <= calls /\ n - 1 \in 0..MaxOps /\ n - 1 <= calls
        BY <2>1, <2>5, <3>2
      <4> QED
        BY <2>2, <2>4, <3>2, <4>1 DEF Chain
    <3> QED
      BY <3>1, <3>2
  <2> QED
    BY <2>1, <2>3, <2>5 DEF Chain
<1>2. ASSUME NEW n \in Ops, Step(n) PROVE Chain'
  <2>1. \A m \in 0..MaxOps : Free(m) => Free(m)'
    BY <1>2, StepIsLocal
  <2>2. \A m \in Ops : m - 1 \in 0..MaxOps
    OBVIOUS
  <2>3. UNCHANGED <<calls, waitsFor, tail>> /\ calls \in 0..MaxOps
    BY <1>2, StepIsLocal
  <2>4. \A m \in Ops : at'[m] # "out" <=> at[m] # "out"
    BY <1>2, StepIsLocal
  <2> QED
    BY <2>1, <2>2, <2>3, <2>4 DEF Chain
<1>3. CASE ForgetTail
  BY <1>3 DEF ForgetTail, Chain, Free, Resolved
<1>4. CASE SweepBegins \/ SweepEnds
  BY <1>4 DEF SweepBegins, SweepEnds, Chain, Free, Resolved
<1>5. CASE UNCHANGED mutexVars
  BY <1>5 DEF mutexVars, Chain, Free, Resolved
<1> QED
  BY <1>1, <1>2, <1>3, <1>4, <1>5 DEF MutexNext

LEMMA BehindFreeKept ==
    ASSUME MutexTypeOK, Chain, BehindFree, [MutexNext]_mutexVars
    PROVE  BehindFree'
<1> USE MutexAssumption DEF MutexTypeOK, Ops
<1>1. CASE Call
  <2>1. calls + 1 \in Ops /\ UNCHANGED cuts
    BY <1>1 DEF Call
  <2>2. at[calls + 1] = "out" /\ at' = [at EXCEPT ![calls + 1] = "waiting"]
    BY <1>1, <2>1 DEF Call, Chain
  <2> QED
    BY <2>1, <2>2 DEF BehindFree, Begun, Inside, Free, Resolved
<1>2. ASSUME NEW n \in Ops, Step(n) PROVE BehindFree'
  <2> SUFFICES ASSUME NEW m \in Ops, Begun(m)' PROVE Free(m - 1)'
    BY DEF BehindFree
  <2>1. m - 1 \in 0..MaxOps
    OBVIOUS
  <2>2. Free(m - 1)
    <3>1. CASE Begun(m)
      BY <3>1 DEF BehindFree
    <3>2. CASE ~Begun(m)
      <4>1. m = n
        BY <1>2, <3>2, StepIsLocal DEF Begun, Inside
      <4>2. Enter(m)
        BY <1>2, <3>2, <4>1
           DEF Step, Enter, Leave, TimeOut, NestedCall, NestedReturns, Begun, Inside
      <4>3. m <= calls
        BY <4>2 DEF Enter, Chain
      <4> QED
        BY <4>2, <4>3 DEF Enter, Chain, Free
    <3> QED
      BY <3>1, <3>2
  <2> QED
    BY <1>2, <2>1, <2>2, StepIsLocal
<1>3. CASE ForgetTail \/ SweepBegins
  BY <1>3 DEF ForgetTail, SweepBegins, BehindFree, Begun, Inside, Free, Resolved
<1>4. CASE SweepEnds
  BY <1>4 DEF SweepEnds, BehindFree, Begun, Inside, Free, Resolved
<1>5. CASE UNCHANGED mutexVars
  BY <1>5 DEF mutexVars, BehindFree, Begun, Inside, Free, Resolved
<1> QED
  BY <1>1, <1>2, <1>3, <1>4, <1>5 DEF MutexNext

(* Who begins found its predecessor over or forgotten.  A cut before it or *)
(* a predecessor that gave up is the excuse; a predecessor that had begun  *)
(* had itself begun in turn.                                               *)
LEMMA BeginsInTurnKept ==
    ASSUME MutexTypeOK, Chain, BehindFree, BehindFree', BeginsInTurn, [MutexNext]_mutexVars
    PROVE  BeginsInTurn'
<1> USE MutexAssumption DEF MutexTypeOK, Ops
<1>1. CASE Call
  <2>1. calls + 1 \in Ops /\ UNCHANGED cuts
    BY <1>1 DEF Call
  <2>2. at[calls + 1] = "out" /\ at' = [at EXCEPT ![calls + 1] = "waiting"]
    BY <1>1, <2>1 DEF Call, Chain
  <2> QED
    BY <2>1, <2>2 DEF BeginsInTurn, Inside, Resolved
<1>2. ASSUME NEW p \in Ops, Step(p) PROVE BeginsInTurn'
  <2> DEFINE Excuse(k) == at[k] = "expired" \/ k - 1 \in cuts
  <2>1. \A k \in Ops : Excuse(k) => at'[k] = "expired" \/ k - 1 \in cuts'
    BY <1>2, StepIsLocal
  <2>2. \A k \in Ops : Resolved(k) => Resolved(k)'
    BY <1>2, StepIsLocal
  <2> SUFFICES ASSUME NEW m \in Ops, NEW n \in Ops, m < n, Begun(n)'
               PROVE  Resolved(m) \/ \E k \in Ops : m < k /\ k <= n /\ Excuse(k)
    BY <2>1, <2>2 DEF BeginsInTurn, Begun
  <2>3. CASE Begun(n)
    BY <2>3 DEF BeginsInTurn, Begun
  <2>4. CASE ~Begun(n)
    <3>1. n = p
      BY <1>2, <2>4, StepIsLocal DEF Begun, Inside
    <3>2. n - 1 \in Ops /\ UNCHANGED cuts
      BY <1>2, StepIsLocal
    <3>3. at'[n - 1] = at[n - 1]
      BY <1>2, <3>1, <3>2, StepIsLocal
    <3>4. Resolved(n - 1) \/ n - 1 \in cuts
      BY <3>2, <3>3 DEF BehindFree, Free, Resolved
    <3>5. CASE n - 1 \in cuts
      BY <3>5
    <3>6. CASE m = n - 1
      BY <3>4, <3>5, <3>6
    <3>7. CASE m < n - 1 /\ at[n - 1] = "expired"
      BY <3>2, <3>7
    <3>8. CASE m < n - 1 /\ at[n - 1] = "done"
      <4>1. Resolved(m) \/ \E k \in Ops : m < k /\ k <= n - 1 /\ Excuse(k)
        BY <3>2, <3>8 DEF BeginsInTurn
      <4>2. \A k \in Ops : k <= n - 1 => k <= n
        OBVIOUS
      <4> QED
        BY <4>1, <4>2
    <3> QED
      BY <3>2, <3>4, <3>5, <3>6, <3>7, <3>8 DEF Resolved
  <2> QED
    BY <2>3, <2>4
<1>3. CASE ForgetTail \/ SweepBegins
  BY <1>3 DEF ForgetTail, SweepBegins, BeginsInTurn, Inside, Resolved
<1>4. CASE SweepEnds
  BY <1>4 DEF SweepEnds, BeginsInTurn, Inside, Resolved
<1>5. CASE UNCHANGED mutexVars
  BY <1>5 DEF mutexVars, BeginsInTurn, Inside, Resolved
<1> QED
  BY <1>1, <1>2, <1>3, <1>4, <1>5 DEF MutexNext

LEMMA MutexInvariant == MutexSpec => []IInv
<1>1. MutexInit => IInv
  BY MutexAssumption
     DEF MutexInit, IInv, MutexTypeOK, Chain, BehindFree, BeginsInTurn, Begun, Inside,
         Free, Resolved, Ops
<1>2. IInv /\ [MutexNext]_mutexVars => IInv'
  <2> SUFFICES ASSUME IInv, [MutexNext]_mutexVars PROVE IInv'
    OBVIOUS
  <2>1. MutexTypeOK'
    BY TypeStep DEF IInv
  <2>2. Chain'
    BY ChainKept DEF IInv
  <2>3. BehindFree'
    BY BehindFreeKept DEF IInv
  <2>4. BeginsInTurn'
    BY <2>3, BeginsInTurnKept DEF IInv
  <2> QED
    BY <2>1, <2>2, <2>3, <2>4 DEF IInv
<1> QED
  BY <1>1, <1>2, PTL DEF MutexSpec

(* An operation begins after every earlier one is over, unless between the *)
(* two somebody gave up waiting or the sweep forgot those who had called   *)
(* before.                                                                 *)
THEOREM TurnsAreKept == MutexSpec => []BeginsInTurn
<1>1. IInv => BeginsInTurn
  BY DEF IInv
<1> QED
  BY <1>1, MutexInvariant, PTL

LEMMA Least ==
    ASSUME NEW T, T \subseteq Nat, T # {}
    PROVE  \E x \in T : \A y \in T : x <= y
<1>1. IsWellFoundedOn(OpToRel(<, Nat), Nat)
  BY NatLessThanWellFounded
<1>2. PICK x \in T : \A y \in T : ~(<<y, x>> \in OpToRel(<, Nat))
  BY <1>1, WFMin
<1>3. ASSUME NEW y \in T PROVE x <= y
  <2>1. <<y, x>> \notin {pair \in Nat \X Nat : pair[1] < pair[2]}
    BY ONLY <1>2, <1>3, Zenon DEF OpToRel
  <2> QED
    BY <2>1
<1> QED
  BY <1>3

(* As long as an operation waits, one that called no later is inside, or   *)
(* waits for a promise that is resolved and may enter: nobody waits, by    *)
(* way of others or of a nested call, for an operation that waits for it,  *)
(* for itself, or for one that will never call.  It is what EveryOpEnds    *)
(* needs of the chain, whatever times out or is swept.                     *)
THEOREM SomebodyGoesOn ==
    MutexSpec => [](\A n \in Ops : at[n] = "waiting" =>
                       \E m \in 1..n : Inside(m) \/ (at[m] = "waiting" /\ Resolved(waitsFor[m])))
<1>1. IInv => \A n \in Ops : at[n] = "waiting" =>
                  \E m \in 1..n : Inside(m) \/ (at[m] = "waiting" /\ Resolved(waitsFor[m]))
  <2> SUFFICES ASSUME IInv, NEW n \in Ops, at[n] = "waiting"
               PROVE  \E m \in 1..n : Inside(m) \/ (at[m] = "waiting" /\ Resolved(waitsFor[m]))
    OBVIOUS
  <2> DEFINE T == {m \in Ops : at[m] = "waiting"}
  <2>1. T \subseteq Nat /\ n \in T
    BY MutexAssumption DEF Ops
  <2> HIDE DEF T
  <2>2. PICK first \in T : \A m \in T : first <= m
    BY <2>1, Least
  <2>3. /\ first \in Ops /\ at[first] = "waiting" /\ first \in 1..n
        /\ \A m \in Ops : m < first => at[m] # "waiting"
    BY <2>1, <2>2, MutexAssumption DEF T, Ops
  <2> DEFINE w == waitsFor[first]
  <2>4. w \in 0..MaxOps /\ w < first
    BY <2>3, MutexAssumption DEF IInv, MutexTypeOK
  <2> HIDE DEF w
  <2>5. CASE w = 0
    BY <2>3, <2>5 DEF w, Resolved
  <2>6. CASE w # 0
    <3>1. w \in Ops /\ w \in 1..n
      BY <2>3, <2>4, <2>6, MutexAssumption DEF Ops
    <3>2. at[w] # "out"
      BY <2>3, <2>4, <3>1, MutexAssumption DEF IInv, MutexTypeOK, Chain, Ops
    <3>3. Inside(w) \/ at[w] \in {"done", "expired"}
      BY <2>3, <2>4, <3>1, <3>2 DEF IInv, MutexTypeOK, Inside
    <3> QED
      BY <2>3, <3>1, <3>3 DEF w, Resolved
  <2> QED
    BY <2>5, <2>6
<1> QED
  BY <1>1, MutexInvariant, PTL

(* Nobody has given up waiting, and no sweep has cut the chain.            *)
Undisturbed == cuts = {} /\ sweep = "idle" /\ \A n \in Ops : at[n] # "expired"

LEMMA StaysUndisturbed ==
    ASSUME MayClean = FALSE, MayTimeOut = FALSE PROVE MutexSpec => []Undisturbed
<1>1. MutexInit => Undisturbed
  BY DEF MutexInit, Ops, Undisturbed
<1>2. MutexTypeOK /\ Undisturbed /\ [MutexNext]_mutexVars => Undisturbed'
  <2> SUFFICES ASSUME MutexTypeOK, Undisturbed, [MutexNext]_mutexVars PROVE Undisturbed'
    OBVIOUS
  <2> USE DEF Undisturbed
  <2>1. CASE Call
    BY <2>1, MutexAssumption DEF Call, MutexTypeOK, Ops
  <2>2. ASSUME NEW n \in Ops, Step(n) PROVE Undisturbed'
    BY <2>2, MayTimeOut = FALSE
       DEF Step, Enter, Leave, TimeOut, NestedCall, NestedReturns, MutexTypeOK
  <2>3. CASE ForgetTail \/ SweepBegins \/ SweepEnds \/ UNCHANGED mutexVars
    BY <2>3, MayClean = FALSE DEF ForgetTail, SweepBegins, SweepEnds, mutexVars
  <2> QED
    BY <2>1, <2>2, <2>3 DEF MutexNext
<1> QED
  BY <1>1, <1>2, MutexTypeCorrect, PTL DEF MutexSpec

(* If nobody gives up waiting and the conversation is not swept, no two    *)
(* operations on it run at the same time.                                  *)
THEOREM OneAtATime ==
    ASSUME MayClean = FALSE, MayTimeOut = FALSE PROVE MutexSpec => []MutualExclusion
<1>1. Undisturbed /\ BeginsInTurn => MutualExclusion
  BY MutexAssumption DEF Undisturbed, BeginsInTurn, MutualExclusion, Inside, Resolved, Ops
<1> QED
  BY <1>1, TurnsAreKept, StaysUndisturbed, PTL

-----------------------------------------------------------------------------
(* SessionMutex is a lock that is taken in turn.                           *)

Place == [n \in Ops |-> CASE at[n] = "nested" -> "inside"
                          [] at[n] = "done" -> "over"
                          [] OTHER -> at[n]]

LEMMA PlaceIs ==
    ASSUME MutexTypeOK, NEW n \in Ops
    PROVE  /\ Place[n] = "out" <=> at[n] = "out"
           /\ Place[n] = "waiting" <=> at[n] = "waiting"
           /\ Place[n] = "inside" <=> Inside(n)
           /\ Place[n] = "over" <=> at[n] = "done"
  BY DEF Place, Inside, MutexTypeOK

(* An operation that goes on is, in the lock, where it went.               *)
LEMMA PlaceMoves ==
    ASSUME MutexTypeOK, NEW n \in Ops, NEW s,
           at' = [at EXCEPT ![n] = s]
    PROVE  Place' = [Place EXCEPT ![n] = CASE s = "nested" -> "inside"
                                           [] s = "done" -> "over"
                                           [] OTHER -> s]
  BY DEF Place, MutexTypeOK

LEMMA PlaceStays == at' = at => Place' = Place
  BY DEF Place

(* Each step of the chain of promises is a step of that lock, or none: a   *)
(* call is asked for, the wait for a promise ends when it is the turn of   *)
(* who waited, and neither a nested call nor the timer that forgets a      *)
(* promise shows.                                                          *)
THEOREM MutexIsALock ==
    ASSUME MayClean = FALSE, MayTimeOut = FALSE PROVE MutexSpec => RunsInTurn
<1> DEFINE Known == MutexTypeOK /\ Chain /\ BeginsInTurn /\ Undisturbed
<1>1. MutexInit => Lock!Init
  BY DEF MutexInit, Lock!Init, Lock!Operations, Ops
<1>2. Known /\ BeginsInTurn' /\ Undisturbed' /\ [MutexNext]_mutexVars => [Lock!Next]_Place
  <2> SUFFICES ASSUME Known, BeginsInTurn', Undisturbed', [MutexNext]_mutexVars
               PROVE  Lock!Next \/ UNCHANGED Place
    OBVIOUS
  <2>0. \A n \in Ops : n \in Int /\ 1..(n - 1) \subseteq Ops /\ \A m \in 1..(n - 1) : m < n
    BY MutexAssumption DEF Ops
  <2>1. CASE Call
    <3>1. PICK k \in Ops : k = calls + 1
      BY <2>1, MutexAssumption DEF Call, MutexTypeOK, Ops
    <3>2. at' = [at EXCEPT ![k] = "waiting"] /\ at[k] = "out"
      BY <2>1, <3>1, MutexAssumption DEF Call, MutexTypeOK, Chain, Ops
    <3>3. \A m \in 1..(k - 1) : m \in Ops /\ at[m] # "out"
      BY <3>1, MutexAssumption DEF MutexTypeOK, Chain, Ops
    <3>4. Place' = [Place EXCEPT ![k] = "waiting"]
      BY <3>2, PlaceMoves
    <3>5. Lock!Ask(k)
      BY <3>2, <3>3, <3>4, PlaceIs DEF Lock!Ask, Lock!Move, Place
    <3> QED
      BY <3>5 DEF Lock!Next, Lock!Operations, Ops
  <2>2. ASSUME NEW n \in Ops, Enter(n) PROVE Lock!Begin(n)
    <3>1. at[n] = "waiting" /\ at' = [at EXCEPT ![n] = "inside"]
      BY <2>2 DEF Enter
    <3>2. at'[n] = "inside"
      BY <3>1 DEF MutexTypeOK
    <3>3. \A m \in 1..(n - 1) : at'[m] = "done" /\ at'[m] = at[m]
      BY <2>0, <3>1, <3>2 DEF BeginsInTurn, Inside, Resolved, Undisturbed, MutexTypeOK, Ops
    <3>4. Place' = [Place EXCEPT ![n] = "inside"]
      BY <3>1, PlaceMoves
    <3> QED
      BY <2>0, <3>1, <3>3, <3>4, PlaceIs DEF Lock!Begin, Lock!Move, Place
  <2>3. ASSUME NEW n \in Ops, Leave(n) PROVE Lock!End(n)
    <3>1. at[n] = "inside" /\ at' = [at EXCEPT ![n] = "done"]
      BY <2>3 DEF Leave
    <3>2. Place' = [Place EXCEPT ![n] = "over"]
      BY <3>1, PlaceMoves
    <3> QED
      BY <3>1, <3>2, PlaceIs DEF Inside, Lock!End, Lock!Move, Place
  <2>4. ASSUME NEW n \in Ops, NestedCall(n) \/ NestedReturns(n) PROVE UNCHANGED Place
    BY <2>4 DEF NestedCall, NestedReturns, Place, MutexTypeOK
  <2>5. ~SweepBegins /\ ~SweepEnds /\ \A n \in Ops : ~TimeOut(n)
    BY MayClean = FALSE, MayTimeOut = FALSE DEF SweepBegins, SweepEnds, TimeOut, Undisturbed
  <2>6. CASE ForgetTail \/ UNCHANGED mutexVars
    BY <2>6, PlaceStays DEF ForgetTail, mutexVars
  <2> QED
    BY <2>1, <2>2, <2>3, <2>4, <2>5, <2>6
       DEF MutexNext, Step, Lock!Next, Lock!Operations, Ops
<1>3. MutexSpec => []Known
  <2>1. IInv => MutexTypeOK /\ Chain /\ BeginsInTurn
    BY DEF IInv
  <2> QED
    BY <2>1, MutexInvariant, StaysUndisturbed, PTL
<1>4. Known => BeginsInTurn /\ Undisturbed
  OBVIOUS
<1>5. RunsInTurn <=> Lock!Init /\ [][Lock!Next]_Place
  BY DEF RunsInTurn, Lock!Spec, Place
<1> HIDE DEF Known
<1> QED
  BY <1>1, <1>2, <1>3, <1>4, <1>5, PTL DEF MutexSpec

=============================================================================
