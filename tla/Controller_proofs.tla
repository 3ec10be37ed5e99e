------------------------- MODULE Controller_proofs --------------------------
(***************************************************************************)
(* What AgentController keeps of the turns it runs.  Scheduler, for any    *)
(* tasks, any minutes they ask for and any length of the day: timers       *)
(* follow the rows, and a task runs at most once for each of its times.    *)
(* ConversationTurns, for any number of turns, steps of goals or not: Stop *)
(* reaches what works, a conversation is never stuck, and facts and        *)
(* feedback are those of the turn they are about.                          *)
(***************************************************************************)
EXTENDS Scheduler, ConversationTurns, WellFoundedInduction, TLAPS

-----------------------------------------------------------------------------
(* Scheduler                                                               *)

Sound ==
    /\ clock \in 0..(2 * Day - 1)
    /\ life \in {"down", "booting", "up", "stopped"}
    /\ timer \in [Tasks -> {NoTimer} \union Nat]
    /\ firing \subseteq Tasks
    /\ row \in [Tasks -> {"none", "on", "off", "deleted"}]

(* A timer is of an active row in every life of the process, and while the *)
(* scheduler is up an active row has one.                                  *)
TimersAreActive == \A t \in Tasks : timer[t] # NoTimer => row[t] = "on"
ActiveHaveTimers ==
    life = "up" => \A t \in Tasks : row[t] = "on" => timer[t] # NoTimer \/ t \in firing

TimersInv == Sound /\ TimersAreActive /\ ActiveHaveTimers

(* A minute counted from the midnight before is one the task asks for, of  *)
(* this day or of the next.                                                *)
Asks(t, m) == m \in Times[t] \/ m - Day \in Times[t]

(* A timer that the task owes nothing for is due in a minute it asks for   *)
(* that has not begun.                                                     *)
Awaits(t, left) ==
    \E m \in Nat : Asks(t, m) /\ 2 * m > clock /\ clock + left \in {2 * m, 2 * m + 1}
DueIsAsked ==
    \A t \in Tasks :
        timer[t] # NoTimer /\ Times[t] # {} => t \in owed \/ Awaits(t, timer[t])

OccurrenceInv == TimersInv /\ DueIsAsked

-----------------------------------------------------------------------------
(* The least of a set of naturals.                                         *)
LEMMA MinIsLeast ==
    ASSUME NEW S, S \subseteq Nat, S # {}
    PROVE  Min(S) \in S /\ \A y \in S : Min(S) <= y
  <1>1. \E x \in S : \A y \in S : ~(<<y, x>> \in OpToRel(<, Nat))
    BY NatLessThanWellFounded, WFMin
  <1>2. PICK x \in S : \A y \in S : ~(<<y, x>> \in OpToRel(<, Nat))
    BY <1>1
  <1>3. \A y \in S : ~(y < x)
    BY <1>2 DEF OpToRel
  <1>4. \A y \in S : x <= y
    BY <1>3
  <1> QED
    BY <1>4 DEF Min

(* How far a timer is set: to a minute the task asks for that has not      *)
(* begun, as far into it as the clock is into the minute that runs.        *)
LEMMA UntilNext ==
    ASSUME clock \in 0..(2 * Day - 1), NEW t \in Tasks
    PROVE  /\ MsUntilNext(t) \in Nat \ {0} /\ MsUntilNext(t) <= 2 * Day
           /\ Times[t] # {} => Awaits(t, MsUntilNext(t))
  <1> DEFINE now == Minute(clock)
             later == {h \in Times[t] : h > now}
             next == IF later # {} THEN Min(later) ELSE Min(Times[t]) + Day
  <1>1. Day \in Nat \ {0} /\ Times[t] \subseteq 0..(Day - 1)
    BY SchedulerAssumption
  <1>2. now \in Nat /\ clock \in Nat /\ now <= Day - 1 /\ clock \in {2 * now, 2 * now + 1}
    BY <1>1 DEF Minute
  <1>3. CASE Times[t] = {}
    <2>1. MsUntilNext(t) = 2
      BY <1>3 DEF MsUntilNext
    <2> QED
      BY <2>1, <1>3, <1>1
  <1>4. CASE Times[t] # {}
    <2>1. MsUntilNext(t) = 2 * (next - now)
      BY <1>4 DEF MsUntilNext
    <2>2. next \in Nat /\ Asks(t, next) /\ next > now /\ next <= now + Day
      <3>1. CASE later # {}
        <4>1. later \subseteq Nat
          BY <1>1
        <4>2. Min(later) \in later
          BY <4>1, <3>1, MinIsLeast
        <4> QED
          BY <4>2, <3>1, <1>1, <1>2 DEF Asks
      <3>2. CASE later = {}
        <4>1. Times[t] \subseteq Nat
          BY <1>1
        <4>2. Min(Times[t]) \in Times[t]
          BY <4>1, <1>4, MinIsLeast
        <4>3. Min(Times[t]) <= now /\ Min(Times[t]) \in Nat /\ Min(Times[t]) \in 0..(Day - 1)
          BY <4>2, <3>2, <1>1, <1>2
        <4>4. next = Min(Times[t]) + Day
          BY <3>2
        <4>5. next - Day = Min(Times[t])
          BY <4>3, <4>4, <1>1
        <4> QED
          BY <4>2, <4>3, <4>4, <4>5, <1>1, <1>2 DEF Asks
      <3> QED
        BY <3>1, <3>2
    <2> HIDE DEF next, now
    <2>3. 2 * next > clock /\ clock + MsUntilNext(t) \in {2 * next, 2 * next + 1}
      BY <2>1, <2>2, <1>1, <1>2
    <2>4. MsUntilNext(t) \in Nat \ {0} /\ MsUntilNext(t) <= 2 * Day
      BY <2>1, <2>2, <1>1, <1>2
    <2>5. Awaits(t, MsUntilNext(t))
      BY <2>2, <2>3 DEF Awaits
    <2> QED
      BY <2>4, <2>5
  <1> QED
    BY <1>3, <1>4

LEMMA ArmedIsUntilNext ==
    ASSUME clock \in 0..(2 * Day - 1), NEW t \in Tasks
    PROVE  Armed(t) = [timer EXCEPT ![t] = MsUntilNext(t)]
  <1> DEFINE S == {MsUntilNext(t), 2 * Day}
  <1>1. MsUntilNext(t) \in Nat /\ MsUntilNext(t) <= 2 * Day /\ Day \in Nat
    BY UntilNext, SchedulerAssumption
  <1>2. Min(S) \in S /\ \A y \in S : Min(S) <= y
    <2>1. S \subseteq Nat /\ S # {}
      BY <1>1
    <2> QED
      BY <2>1, MinIsLeast
  <1>3. Min(S) = MsUntilNext(t)
    BY <1>1, <1>2
  <1> QED
    BY <1>3 DEF Armed

LEMMA ArmedTimer ==
    ASSUME Sound, NEW t \in Tasks
    PROVE  /\ Armed(t) \in [Tasks -> {NoTimer} \union Nat]
           /\ Armed(t)[t] = MsUntilNext(t) /\ Armed(t)[t] # NoTimer
           /\ \A u \in Tasks \ {t} : Armed(t)[u] = timer[u]
  <1>1. Armed(t) = [timer EXCEPT ![t] = MsUntilNext(t)]
    BY ArmedIsUntilNext DEF Sound
  <1>2. MsUntilNext(t) \in Nat
    BY UntilNext DEF Sound
  <1>3. timer \in [Tasks -> {NoTimer} \union Nat]
    BY DEF Sound
  <1> QED
    BY <1>1, <1>2, <1>3 DEF NoTimer

-----------------------------------------------------------------------------
(* Timers follow rows.                                                     *)

LEMMA Wraps ==
    ASSUME NEW d \in Nat \ {0}, NEW c \in 0..(d - 1)
    PROVE  (c + 1) % d = IF c + 1 = d THEN 0 ELSE c + 1
  <1>1. d % d = 0
    OBVIOUS
  <1>2. \A e \in 0..(d - 1) : e % d = e
    OBVIOUS
  <1> QED
    BY <1>1, <1>2

LEMMA NextClock ==
    ASSUME clock \in 0..(2 * Day - 1)
    PROVE  (clock + 1) % (2 * Day) = IF clock + 1 = 2 * Day THEN 0 ELSE clock + 1
  <1>1. 2 * Day \in Nat \ {0}
    BY SchedulerAssumption
  <1> QED
    BY <1>1, Wraps

LEMMA TimersInit == SchedulerInit => OccurrenceInv
  <1> SUFFICES ASSUME SchedulerInit PROVE OccurrenceInv
    OBVIOUS
  <1> USE DEF SchedulerInit
  <1>1. Sound
    BY SchedulerAssumption DEF Sound, NoTimer
  <1>2. TimersAreActive /\ ActiveHaveTimers /\ DueIsAsked
    BY DEF TimersAreActive, ActiveHaveTimers, DueIsAsked
  <1> QED
    BY <1>1, <1>2 DEF OccurrenceInv, TimersInv

LEMMA OneTaskStep ==
    ASSUME TimersInv, NEW t \in Tasks,
           \/ CreateTask(t) \/ DeleteTask(t) \/ ToggleOn(t) \/ ToggleOff(t)
           \/ Trigger(t) \/ TriggerEnds(t)
    PROVE  TimersInv'
  <1> USE DEF TimersInv
  <1>0. timer \in [Tasks -> {NoTimer} \union Nat] /\ row \in [Tasks -> {"none", "on", "off", "deleted"}]
    BY DEF Sound
  <1>1. /\ Armed(t) \in [Tasks -> {NoTimer} \union Nat] /\ Armed(t)[t] # NoTimer
        /\ \A u \in Tasks \ {t} : Armed(t)[u] = timer[u]
    BY ArmedTimer
  <1>2. /\ Disarmed(t) \in [Tasks -> {NoTimer} \union Nat] /\ Disarmed(t)[t] = NoTimer
        /\ \A u \in Tasks \ {t} : Disarmed(t)[u] = timer[u]
    BY <1>0 DEF Disarmed
  <1>3. UNCHANGED <<clock, life>> /\ clock' \in 0..(2 * Day - 1)
    BY DEF CreateTask, DeleteTask, ToggleOn, ToggleOff, Trigger, TriggerEnds, Sound
  <1> HIDE DEF TimersInv
  <1>4. CASE CreateTask(t) \/ ToggleOn(t)
    <2>1. timer' = Armed(t) /\ row' = [row EXCEPT ![t] = "on"] /\ firing' = firing
      BY <1>4 DEF CreateTask, ToggleOn
    <2> QED
      BY <2>1, <1>0, <1>1, <1>3 DEF TimersInv, Sound, TimersAreActive, ActiveHaveTimers
  <1>5. CASE DeleteTask(t) \/ ToggleOff(t)
    <2>1. PICK s \in {"off", "deleted"} : row' = [row EXCEPT ![t] = s]
      BY <1>5 DEF DeleteTask, ToggleOff
    <2>2. timer' = Disarmed(t) /\ firing' = firing
      BY <1>5 DEF DeleteTask, ToggleOff
    <2> QED
      BY <2>1, <2>2, <1>0, <1>2, <1>3 DEF TimersInv, Sound, TimersAreActive, ActiveHaveTimers
  <1>6. CASE Trigger(t)
    <2>1. timer' = Disarmed(t) /\ firing' = firing \union {t} /\ row' = row
      BY <1>6 DEF Trigger
    <2> QED
      BY <2>1, <1>0, <1>2, <1>3 DEF TimersInv, Sound, TimersAreActive, ActiveHaveTimers
  <1>7. CASE TriggerEnds(t)
    <2>1. firing' = firing \ {t} /\ row' = row
      BY <1>7 DEF TriggerEnds
    <2>2. CASE row[t] = "on"
      <3>1. timer' = Armed(t)
        BY <2>2, <1>7 DEF TriggerEnds
      <3> QED
        BY <3>1, <2>1, <2>2, <1>0, <1>1, <1>3 DEF TimersInv, Sound, TimersAreActive, ActiveHaveTimers
    <2>3. CASE row[t] # "on"
      <3>1. timer' = timer
        BY <2>3, <1>7 DEF TriggerEnds
      <3> QED
        BY <3>1, <2>1, <2>3, <1>0, <1>3 DEF TimersInv, Sound, TimersAreActive, ActiveHaveTimers
    <2> QED
      BY <2>2, <2>3
  <1> QED
    BY <1>4, <1>5, <1>6, <1>7

LEMMA TickTimers ==
    ASSUME Sound, Tick
    PROVE  /\ \A t \in Tasks : timer'[t] = IF timer[t] > 0 THEN timer[t] - 1 ELSE timer[t]
           /\ timer' \in [Tasks -> {NoTimer} \union Nat]
           /\ clock' = IF clock + 1 = 2 * Day THEN 0 ELSE clock + 1
           /\ clock' \in 0..(2 * Day - 1)
  <1>1. timer' = [t \in Tasks |-> IF timer[t] > 0 THEN timer[t] - 1 ELSE timer[t]]
    BY DEF Tick
  <1>2. \A t \in Tasks : timer[t] \in {NoTimer} \union Nat
    BY DEF Sound
  <1>3. clock' = IF clock + 1 = 2 * Day THEN 0 ELSE clock + 1
    BY NextClock DEF Tick, Sound
  <1>4. Day \in Nat \ {0} /\ clock \in 0..(2 * Day - 1)
    BY SchedulerAssumption DEF Sound
  <1> QED
    BY <1>1, <1>2, <1>3, <1>4 DEF NoTimer

LEMMA TimersStep == TimersInv /\ [SchedulerNext]_schedulerVars => TimersInv'
  <1> SUFFICES ASSUME TimersInv, [SchedulerNext]_schedulerVars PROVE TimersInv'
    OBVIOUS
  <1>1. ASSUME NEW t \in Tasks,
               \/ CreateTask(t) \/ DeleteTask(t) \/ ToggleOn(t) \/ ToggleOff(t)
               \/ Trigger(t) \/ TriggerEnds(t)
        PROVE  TimersInv'
    BY <1>1, OneTaskStep
  <1>0. Sound /\ TimersAreActive /\ ActiveHaveTimers
    BY DEF TimersInv
  <1>2. CASE Boot
    BY <1>0, <1>2 DEF Boot, TimersInv, Sound, TimersAreActive, ActiveHaveTimers
  <1>3. CASE StartAll
    <2>1. timer' = [t \in Tasks |-> IF row[t] = "on" THEN Armed(t)[t] ELSE timer[t]]
      BY <1>3 DEF StartAll
    <2>2. \A t \in Tasks : Armed(t)[t] # NoTimer /\ Armed(t)[t] \in {NoTimer} \union Nat
      BY <1>0, ArmedTimer
    <2>3. \A t \in Tasks : timer[t] \in {NoTimer} \union Nat
      BY <1>0 DEF Sound
    <2>4. \A t \in Tasks : row[t] = "on" <=> timer'[t] # NoTimer
      BY <2>1, <2>2, <1>0 DEF TimersAreActive
    <2>5. timer' \in [Tasks -> {NoTimer} \union Nat]
      BY <2>1, <2>2, <2>3
    <2>6. life' = "up" /\ UNCHANGED <<clock, row, firing>>
      BY <1>3 DEF StartAll
    <2>7. Sound'
      BY <2>5, <2>6, <1>0 DEF Sound
    <2> QED
      BY <2>4, <2>6, <2>7 DEF TimersInv, TimersAreActive, ActiveHaveTimers
  <1>4. CASE StopAll \/ Exit
    <2>1. /\ timer' = [t \in Tasks |-> NoTimer] /\ life' \in {"down", "stopped"}
          /\ UNCHANGED <<clock, row>> /\ firing' \subseteq Tasks
      BY <1>4, <1>0 DEF StopAll, Exit, Sound
    <2> QED
      BY <2>1, <1>0 DEF TimersInv, Sound, TimersAreActive, ActiveHaveTimers
  <1>5. CASE Tick
    <2>1. /\ \A t \in Tasks : timer'[t] = IF timer[t] > 0 THEN timer[t] - 1 ELSE timer[t]
          /\ timer' \in [Tasks -> {NoTimer} \union Nat] /\ clock' \in 0..(2 * Day - 1)
      BY <1>0, <1>5, TickTimers
    <2>2. UNCHANGED <<life, row, firing>>
      BY <1>5 DEF Tick
    <2>3. Sound'
      BY <2>1, <2>2, <1>0 DEF Sound
    <2>4. \A t \in Tasks : timer'[t] # NoTimer <=> timer[t] # NoTimer
      <3> SUFFICES ASSUME NEW t \in Tasks PROVE timer'[t] # NoTimer <=> timer[t] # NoTimer
        OBVIOUS
      <3>1. timer[t] \in {NoTimer} \union Nat
        BY <1>0 DEF Sound
      <3> QED
        BY <3>1, <2>1 DEF NoTimer
    <2> QED
      BY <2>2, <2>3, <2>4, <1>0 DEF TimersInv, TimersAreActive, ActiveHaveTimers
  <1>6. CASE UNCHANGED schedulerVars
    BY <1>0, <1>6 DEF schedulerVars, TimersInv, Sound, TimersAreActive, ActiveHaveTimers
  <1> QED
    BY <1>1, <1>2, <1>3, <1>4, <1>5, <1>6 DEF SchedulerNext

(* TimersFollowRows, whatever users, starts, stops and late timers do: the *)
(* end of a trigger that finds its row switched off or deleted arms nothing, *)
(* and one that finds it active always arms.                               *)
THEOREM TimersAlwaysFollowRows == SchedulerSpec => []TimersFollowRows
  <1>1. SchedulerInit => TimersInv
    BY TimersInit DEF OccurrenceInv
  <1>2. TimersInv => TimersFollowRows
    BY DEF TimersInv, TimersAreActive, ActiveHaveTimers, TimersFollowRows
  <1> QED
    BY <1>1, <1>2, TimersStep, PTL DEF SchedulerSpec

-----------------------------------------------------------------------------
(* Once per occurrence.                                                    *)

(* A step that takes no time leaves each timer as it was, removes it, or   *)
(* sets it anew.                                                           *)
LEMMA KeepsDue ==
    ASSUME OccurrenceInv, UNCHANGED clock,
           \A t \in Tasks : \/ timer'[t] = NoTimer
                            \/ timer'[t] = timer[t] /\ (t \in owed => t \in owed')
                            \/ timer'[t] = MsUntilNext(t)
    PROVE  DueIsAsked'
  <1> SUFFICES ASSUME NEW t \in Tasks, timer'[t] # NoTimer, Times[t] # {}, t \notin owed'
               PROVE  Awaits(t, timer[t])'
    BY DEF DueIsAsked
  <1>1. CASE timer'[t] = MsUntilNext(t)
    <2>1. Awaits(t, MsUntilNext(t))
      BY UntilNext DEF OccurrenceInv, TimersInv, Sound
    <2> QED
      BY <2>1, <1>1 DEF Awaits, Asks
  <1>2. CASE timer'[t] = timer[t] /\ (t \in owed => t \in owed')
    <2>1. Awaits(t, timer[t])
      BY <1>2 DEF OccurrenceInv, DueIsAsked
    <2> QED
      BY <2>1, <1>2 DEF Awaits, Asks
  <1> QED
    BY <1>1, <1>2

LEMMA DueAtOneTask ==
    ASSUME OccurrenceInv, NEW t \in Tasks,
           \/ CreateTask(t) \/ DeleteTask(t) \/ ToggleOn(t) \/ ToggleOff(t)
           \/ Trigger(t) \/ TriggerEnds(t)
    PROVE  DueIsAsked'
  <1>0. Sound /\ timer \in [Tasks -> {NoTimer} \union Nat]
    BY DEF OccurrenceInv, TimersInv, Sound
  <1>1. /\ Armed(t)[t] = MsUntilNext(t)
        /\ \A u \in Tasks \ {t} : Armed(t)[u] = timer[u]
    BY <1>0, ArmedTimer
  <1>2. Disarmed(t)[t] = NoTimer /\ \A u \in Tasks \ {t} : Disarmed(t)[u] = timer[u]
    BY <1>0 DEF Disarmed
  <1>3. UNCHANGED clock /\ timer' \in {Armed(t), Disarmed(t), timer}
    BY DEF CreateTask, DeleteTask, ToggleOn, ToggleOff, Trigger, TriggerEnds
  <1>4. owed' = owed \/ (owed' = owed \ {t} /\ timer' = Disarmed(t))
    <2>1. CASE Trigger(t)
      BY <2>1 DEF Trigger
    <2>2. CASE ~Trigger(t)
      BY <2>2 DEF CreateTask, DeleteTask, ToggleOn, ToggleOff, TriggerEnds
    <2> QED
      BY <2>1, <2>2
  <1>5. \A u \in Tasks : \/ timer'[u] = NoTimer
                         \/ timer'[u] = timer[u] /\ (u \in owed => u \in owed')
                         \/ timer'[u] = MsUntilNext(u)
    BY <1>1, <1>2, <1>3, <1>4
  <1> QED
    BY <1>3, <1>5, KeepsDue

(* A half minute passes.  When a minute begins that a timer waits for, its *)
(* task is owed a run.                                                     *)
LEMMA DueAtTick == OccurrenceInv /\ Tick => DueIsAsked'
  <1> SUFFICES ASSUME OccurrenceInv, Tick,
                      NEW t \in Tasks, timer'[t] # NoTimer, Times[t] # {}, t \notin owed'
               PROVE  Awaits(t, timer[t])'
    BY DEF DueIsAsked
  <1>1. Sound /\ DueIsAsked
    BY DEF OccurrenceInv, TimersInv
  <1>2. /\ timer'[t] = IF timer[t] > 0 THEN timer[t] - 1 ELSE timer[t]
        /\ clock' = IF clock + 1 = 2 * Day THEN 0 ELSE clock + 1
    BY <1>1, TickTimers
  <1>3. /\ Day \in Nat \ {0} /\ Times[t] \subseteq 0..(Day - 1)
        /\ clock \in 0..(2 * Day - 1) /\ timer[t] \in {NoTimer} \union Nat
    BY <1>1, SchedulerAssumption DEF Sound
  <1>4. timer[t] # NoTimer
    BY <1>2, <1>3 DEF NoTimer
  <1>5. t \notin owed
    BY DEF Tick
  <1>6. PICK m \in Nat : Asks(t, m) /\ 2 * m > clock /\ clock + timer[t] \in {2 * m, 2 * m + 1}
    BY <1>1, <1>4, <1>5 DEF DueIsAsked, Awaits
  <1>7. timer[t] \in Nat /\ timer[t] > 0 /\ timer'[t] = timer[t] - 1
    <2>1. timer[t] \in Nat
      BY <1>3, <1>4
    <2> QED
      BY <2>1, <1>2, <1>3, <1>6
  <1>8. clock' % 2 = 0 => Minute(clock') \notin Times[t]
    BY DEF Tick
  <1>9. CASE clock + 1 # 2 * Day
    <2>1. clock' = clock + 1
      BY <1>2, <1>9
    <2>2. 2 * m # clock'
      <3> SUFFICES ASSUME 2 * m = clock' PROVE FALSE
        OBVIOUS
      <3>1. clock' % 2 = 0 /\ Minute(clock') = m
        BY DEF Minute
      <3>2. m \notin Times[t] /\ m - Day \in Times[t]
        BY <3>1, <1>6, <1>8 DEF Asks
      <3>3. m - Day >= 0
        BY <3>2, <1>3
      <3> QED
        BY <3>3, <2>1, <1>3, <1>9
    <2>3. 2 * m > clock' /\ clock' + timer'[t] \in {2 * m, 2 * m + 1}
      BY <2>1, <2>2, <1>3, <1>6, <1>7
    <2> QED
      BY <2>3, <1>6 DEF Awaits, Asks
  <1>10. CASE clock + 1 = 2 * Day
    <2>1. clock' = 0
      BY <1>2, <1>10
    <2>2. m >= Day
      BY <1>3, <1>6, <1>10
    <2>3. m - Day \in Times[t]
      BY <2>2, <1>3, <1>6 DEF Asks
    <2>4. clock' % 2 = 0 /\ Minute(clock') = 0
      BY <2>1 DEF Minute
    <2>5. m # Day
      <3> SUFFICES ASSUME m = Day PROVE FALSE
        OBVIOUS
      <3>1. m - Day = 0
        BY <1>3
      <3> QED
        BY <3>1, <2>3, <2>4, <1>8
    <2>6. /\ m - Day \in Nat /\ 2 * (m - Day) > clock'
          /\ clock' + timer'[t] \in {2 * (m - Day), 2 * (m - Day) + 1}
      BY <2>1, <2>2, <2>5, <1>3, <1>6, <1>7, <1>10
    <2>7. Asks(t, m - Day)
      BY <2>3 DEF Asks
    <2> QED
      BY <2>6, <2>7 DEF Awaits, Asks
  <1> QED
    BY <1>9, <1>10

LEMMA OccurrenceStep == OccurrenceInv /\ [SchedulerNext]_schedulerVars => OccurrenceInv'
  <1> SUFFICES ASSUME OccurrenceInv, [SchedulerNext]_schedulerVars PROVE DueIsAsked'
    BY TimersStep DEF OccurrenceInv
  <1>1. ASSUME NEW t \in Tasks,
               \/ CreateTask(t) \/ DeleteTask(t) \/ ToggleOn(t) \/ ToggleOff(t)
               \/ Trigger(t) \/ TriggerEnds(t)
        PROVE  DueIsAsked'
    BY <1>1, DueAtOneTask
  <1>2. CASE Boot \/ StopAll \/ Exit \/ UNCHANGED schedulerVars
    <2>1. UNCHANGED <<clock, owed>> /\ (timer' = timer \/ timer' = [t \in Tasks |-> NoTimer])
      BY <1>2 DEF Boot, StopAll, Exit, schedulerVars
    <2> QED
      BY <2>1, KeepsDue
  <1>3. CASE StartAll
    <2>1. /\ UNCHANGED <<clock, owed>>
          /\ timer' = [t \in Tasks |-> IF row[t] = "on" THEN Armed(t)[t] ELSE timer[t]]
      BY <1>3 DEF StartAll
    <2>2. \A t \in Tasks : Armed(t)[t] = MsUntilNext(t)
      BY ArmedTimer DEF OccurrenceInv, TimersInv
    <2> QED
      BY <2>1, <2>2, KeepsDue
  <1>4. CASE Tick
    BY <1>4, DueAtTick
  <1> QED
    BY <1>1, <1>2, <1>3, <1>4 DEF SchedulerNext

(* OncePerOccurrence, for any tasks, minutes and length of the day: whoever*)
(* arms a timer in a minute the task already ran in arms it for another one. *)
THEOREM OnceForEach == SchedulerSpec => OncePerOccurrence
  <1>1. OccurrenceInv /\ [SchedulerNext]_schedulerVars
            => [\A t \in Tasks : t \in firing' \ firing /\ Times[t] # {} => t \in owed]_schedulerVars
    <2> SUFFICES ASSUME OccurrenceInv, SchedulerNext,
                        NEW t \in Tasks, t \in firing' \ firing, Times[t] # {}
                 PROVE  t \in owed
      OBVIOUS
    <2>1. Trigger(t)
      <3>1. ASSUME NEW u \in Tasks, CreateTask(u) \/ DeleteTask(u) \/ ToggleOn(u) \/ ToggleOff(u)
            PROVE  FALSE
        BY <3>1 DEF CreateTask, DeleteTask, ToggleOn, ToggleOff
      <3>2. ~Boot /\ ~StartAll /\ ~StopAll /\ ~Exit /\ ~Tick
        BY DEF Boot, StartAll, StopAll, Exit, Tick
      <3>3. \A u \in Tasks : ~TriggerEnds(u)
        BY DEF TriggerEnds
      <3>4. PICK u \in Tasks : Trigger(u)
        BY <3>1, <3>2, <3>3 DEF SchedulerNext
      <3>5. u = t
        BY <3>4 DEF Trigger
      <3> QED
        BY <3>4, <3>5
    <2>2. timer[t] = 0 /\ timer[t] # NoTimer
      BY <2>1 DEF Trigger, NoTimer
    <2>3. clock \in Nat
      BY SchedulerAssumption DEF OccurrenceInv, TimersInv, Sound
    <2>4. ~Awaits(t, timer[t])
      <3> SUFFICES ASSUME NEW m \in Nat, 2 * m > clock, clock + timer[t] \in {2 * m, 2 * m + 1}
                   PROVE  FALSE
        BY DEF Awaits
      <3> QED
        BY <2>2, <2>3
    <2> QED
      BY <2>2, <2>4 DEF OccurrenceInv, DueIsAsked
  <1> QED
    BY <1>1, TimersInit, OccurrenceStep, PTL DEF SchedulerSpec, OncePerOccurrence

-----------------------------------------------------------------------------
(* ConversationTurns                                                       *)

(* A registered turn works; while none is overtaken, nothing else does.    *)
GuardInv == TypeOK /\ NeverStuck /\ StopReaches /\ (~overdue => ~aged)

(* While no turn is overtaken, the entry is that of the turn that works and*)
(* its facts are its own.                                                  *)
EntryIsOwn ==
    ~overdue => /\ active # None => entry.of = active
                /\ entry.facts \subseteq {active}
                /\ entry.block \in {None, active}
                /\ active = None => entry.facts = {} /\ entry.block = None
                /\ misread = {}
FactsInv == GuardInv /\ EntryIsOwn

(* Each validation obeys a controller that is in the list or was aborted,  *)
(* so a turn of the user starts with every earlier one interrupted.        *)
SignalsListed ==
    ~overdue => /\ \A v \in validating : v.signal \in pending \union cut
                /\ active # None => active \in pending \union cut
OthersCut ==
    ~overdue /\ active \in Turns \ ofGoal =>
        /\ \A v \in validating : v.tool = active \/ v.signal \in cut
        /\ entry.notes \subseteq {active}
HearsInv == FactsInv /\ SignalsListed /\ OthersCut /\ UserHearsOwn

(* The four maps change together, so what activeTurns has is at work.      *)
LEMMA GuardInit == Init => GuardInv
  <1> SUFFICES ASSUME Init PROVE GuardInv
    OBVIOUS
  <1>1. entry \in [of : Turns \union {None}, facts : SUBSET Turns,
                  block : Turns \union {None}, notes : SUBSET Turns]
    BY DEF Init, Blank
  <1>2. phase \in [Turns -> {"new", "preparing", "thinking", "judging", "returning",
                       "over", "rejected"}]
    BY DEF Init
  <1>3. \A t \in Turns : ~Working(t)
    BY DEF Init, Working
  <1>4. TypeOK
    BY <1>1, <1>2 DEF Init, TypeOK
  <1>5. QED
    BY <1>3, <1>4 DEF Init, GuardInv, NeverStuck, StopReaches

LEMMA GuardStep == GuardInv /\ [Next]_vars => GuardInv'
  <1> SUFFICES ASSUME GuardInv, [Next]_vars PROVE GuardInv'
    OBVIOUS
  <1> USE NoneAssumption DEF state, validations, history, Working, Enter,
                          Replace, Blank, Registers, Facts
  <1>1. ASSUME NEW t \in Turns, Starts(t) PROVE GuardInv'
    <2>0. cut' \subseteq Turns /\ pending' \subseteq Turns
      BY <1>1 DEF Starts, Registers, GuardInv, TypeOK
    <2>1. TypeOK'
      <3>1. entry' \in [of : Turns \union {None}, facts : SUBSET Turns,
                       block : Turns \union {None}, notes : SUBSET Turns]
        BY <1>1 DEF Starts, Replace, Blank
      <3>2. active' \in Turns /\ aged' \in BOOLEAN /\ aborted' \subseteq Turns /\ holds' = {}
        BY <1>1 DEF Starts, Replace, GuardInv, TypeOK
      <3>3. phase' \in [Turns -> {"new", "preparing", "thinking", "judging",
                                "returning", "over", "rejected"}]
        BY <1>1 DEF Starts, Enter, GuardInv, TypeOK
      <3>4. QED
        BY <1>1, <2>0, <3>1, <3>2, <3>3 DEF Starts, GuardInv, TypeOK, history
    <2>2. NeverStuck'
      BY <1>1 DEF Starts, GuardInv, TypeOK, NeverStuck
    <2>3. StopReaches' /\ (~overdue => ~aged)'
      BY <1>1 DEF Starts, GuardInv, TypeOK, NeverStuck, StopReaches
    <2>4. QED
      BY <2>1, <2>2, <2>3 DEF GuardInv
  <1>2. ASSUME NEW t \in Turns, Rejected(t) PROVE GuardInv'
    <2>1. TypeOK'
      BY <1>2 DEF Rejected, GuardInv, TypeOK
    <2>2. NeverStuck'
      BY <1>2 DEF Rejected, GuardInv, TypeOK, NeverStuck
    <2>3. StopReaches' /\ (~overdue => ~aged)'
      BY <1>2 DEF Rejected, GuardInv, TypeOK, NeverStuck, StopReaches
    <2>4. QED
      BY <2>1, <2>2, <2>3 DEF GuardInv
  <1>3. ASSUME NEW t \in Turns, ContextReady(t) PROVE GuardInv'
    <2>1. TypeOK'
      BY <1>3 DEF ContextReady, GuardInv, TypeOK
    <2>2. NeverStuck'
      BY <1>3 DEF ContextReady, GuardInv, TypeOK, NeverStuck
    <2>3. StopReaches' /\ (~overdue => ~aged)'
      BY <1>3 DEF ContextReady, GuardInv, TypeOK, NeverStuck, StopReaches
    <2>4. QED
      BY <2>1, <2>2, <2>3 DEF GuardInv
  <1>4. ASSUME NEW t \in Turns, Step(t) PROVE GuardInv'
    <2>1. TypeOK'
      BY <1>4 DEF Step, GuardInv, TypeOK
    <2>2. NeverStuck'
      BY <1>4 DEF Step, GuardInv, TypeOK, NeverStuck
    <2>3. StopReaches' /\ (~overdue => ~aged)'
      BY <1>4 DEF Step, GuardInv, TypeOK, NeverStuck, StopReaches
    <2>4. QED
      BY <2>1, <2>2, <2>3 DEF GuardInv
  <1>5. ASSUME NEW t \in Turns, ToolRuns(t) PROVE GuardInv'
    <2>1. TypeOK'
      BY <1>5 DEF ToolRuns, GuardInv, TypeOK
    <2>2. NeverStuck'
      BY <1>5 DEF ToolRuns, GuardInv, TypeOK, NeverStuck
    <2>3. StopReaches' /\ (~overdue => ~aged)'
      BY <1>5 DEF ToolRuns, GuardInv, TypeOK, NeverStuck, StopReaches
    <2>4. QED
      BY <2>1, <2>2, <2>3 DEF GuardInv
  <1>6. ASSUME NEW t \in Turns, ProviderFails(t) PROVE GuardInv'
    <2>1. TypeOK'
      BY <1>6 DEF ProviderFails, GuardInv, TypeOK
    <2>2. NeverStuck'
      BY <1>6 DEF ProviderFails, GuardInv, TypeOK, NeverStuck
    <2>3. StopReaches' /\ (~overdue => ~aged)'
      BY <1>6 DEF ProviderFails, GuardInv, TypeOK, NeverStuck, StopReaches
    <2>4. QED
      BY <2>1, <2>2, <2>3 DEF GuardInv
  <1>7. ASSUME NEW t \in Turns, AsksJudge(t) PROVE GuardInv'
    <2>1. TypeOK'
      BY <1>7 DEF AsksJudge, GuardInv, TypeOK
    <2>2. NeverStuck'
      BY <1>7 DEF AsksJudge, GuardInv, TypeOK, NeverStuck
    <2>3. StopReaches' /\ (~overdue => ~aged)'
      BY <1>7 DEF AsksJudge, GuardInv, TypeOK, NeverStuck, StopReaches
    <2>4. QED
      BY <2>1, <2>2, <2>3 DEF GuardInv
  <1>8. ASSUME NEW t \in Turns, JudgeAnswers(t) PROVE GuardInv'
    <2>1. TypeOK'
      BY <1>8 DEF JudgeAnswers, GuardInv, TypeOK
    <2>2. NeverStuck'
      BY <1>8 DEF JudgeAnswers, GuardInv, TypeOK, NeverStuck
    <2>3. StopReaches' /\ (~overdue => ~aged)'
      BY <1>8 DEF JudgeAnswers, GuardInv, TypeOK, NeverStuck, StopReaches
    <2>4. QED
      BY <2>1, <2>2, <2>3 DEF GuardInv
  <1>9. ASSUME NEW t \in Turns, EndsOtherwise(t) PROVE GuardInv'
    <2>1. TypeOK'
      BY <1>9 DEF EndsOtherwise, GuardInv, TypeOK
    <2>2. NeverStuck'
      BY <1>9 DEF EndsOtherwise, GuardInv, TypeOK, NeverStuck
    <2>3. StopReaches' /\ (~overdue => ~aged)'
      BY <1>9 DEF EndsOtherwise, GuardInv, TypeOK, NeverStuck, StopReaches
    <2>4. QED
      BY <2>1, <2>2, <2>3 DEF GuardInv
  <1>10. ASSUME NEW t \in Turns, Returns(t) PROVE GuardInv'
    <2>1. TypeOK'
      BY <1>10 DEF Returns, GuardInv, TypeOK
    <2>2. NeverStuck'
      BY <1>10 DEF Returns, GuardInv, TypeOK, NeverStuck
    <2>3. StopReaches' /\ (~overdue => ~aged)'
      BY <1>10 DEF Returns, GuardInv, TypeOK, NeverStuck, StopReaches
    <2>4. QED
      BY <2>1, <2>2, <2>3 DEF GuardInv
  <1>11. ASSUME NEW v \in validating, ValidationEnds(v) PROVE GuardInv'
    <2>1. TypeOK'
      BY <1>11 DEF ValidationEnds, GuardInv, TypeOK
    <2>2. NeverStuck'
      BY <1>11 DEF ValidationEnds, GuardInv, TypeOK, NeverStuck
    <2>3. StopReaches' /\ (~overdue => ~aged)'
      BY <1>11 DEF ValidationEnds, GuardInv, TypeOK, NeverStuck, StopReaches
    <2>4. QED
      BY <2>1, <2>2, <2>3 DEF GuardInv
  <1>12. CASE Cancel
    <2>1. TypeOK'
      BY <1>12 DEF Cancel, GuardInv, TypeOK
    <2>2. NeverStuck'
      BY <1>12 DEF Cancel, GuardInv, TypeOK, NeverStuck
    <2>3. StopReaches' /\ (~overdue => ~aged)'
      BY <1>12 DEF Cancel, GuardInv, TypeOK, NeverStuck, StopReaches
    <2>4. QED
      BY <2>1, <2>2, <2>3 DEF GuardInv
  <1>13. CASE Age
    <2>1. TypeOK'
      BY <1>13 DEF Age, GuardInv, TypeOK
    <2>2. NeverStuck'
      BY <1>13 DEF Age, GuardInv, TypeOK, NeverStuck
    <2>3. StopReaches' /\ (~overdue => ~aged)'
      BY <1>13 DEF Age, GuardInv, TypeOK, NeverStuck, StopReaches
    <2>4. QED
      BY <2>1, <2>2, <2>3 DEF GuardInv
  <1>14. CASE UNCHANGED vars
    <2>1. TypeOK'
      BY <1>14 DEF vars, GuardInv, TypeOK
    <2>2. NeverStuck'
      BY <1>14 DEF vars, GuardInv, TypeOK, NeverStuck
    <2>3. StopReaches' /\ (~overdue => ~aged)'
      BY <1>14 DEF vars, GuardInv, TypeOK, NeverStuck, StopReaches
    <2>4. QED
      BY <2>1, <2>2, <2>3 DEF GuardInv
  <1>15. QED
    BY <1>1, <1>2, <1>3, <1>4, <1>5, <1>6, <1>7, <1>8, <1>9, <1>10,
       <1>11, <1>12, <1>13, <1>14 DEF Next

(* Every reachable state of the maps is well typed, and a commitResponse   *)
(* that holds an entry is being judged.                                    *)
THEOREM TypeCorrect == Spec => []TypeOK
  <1>1. GuardInv => TypeOK
    BY DEF GuardInv
  <1>2. QED
    BY <1>1, GuardInit, GuardStep, PTL DEF Spec

(* The answer of a turn that nobody overtook is read from its own entry.   *)
LEMMA FactsInit == Init => FactsInv
  BY GuardInit DEF Init, FactsInv, EntryIsOwn, Blank

LEMMA FactsStep == FactsInv /\ [Next]_vars => FactsInv'
  <1> SUFFICES ASSUME FactsInv, [Next]_vars PROVE FactsInv'
    OBVIOUS
  <1> USE NoneAssumption DEF state, validations, history, Working, Enter,
                          Replace, Blank, Registers, Facts
  <1>1. ASSUME NEW t \in Turns, Starts(t) PROVE FactsInv'
    <2>1. GuardInv'
      BY <1>1, GuardStep DEF FactsInv, Next
    <2>2. EntryIsOwn'
      BY <1>1 DEF Starts, FactsInv, EntryIsOwn, GuardInv, TypeOK,
                     NeverStuck, StopReaches
    <2>3. QED
      BY <2>1, <2>2 DEF FactsInv
  <1>2. ASSUME NEW t \in Turns, Rejected(t) PROVE FactsInv'
    <2>1. GuardInv'
      BY <1>2, GuardStep DEF FactsInv, Next
    <2>2. EntryIsOwn'
      BY <1>2 DEF Rejected, FactsInv, EntryIsOwn, GuardInv, TypeOK,
                     NeverStuck, StopReaches
    <2>3. QED
      BY <2>1, <2>2 DEF FactsInv
  <1>3. ASSUME NEW t \in Turns, ContextReady(t) PROVE FactsInv'
    <2>1. GuardInv'
      BY <1>3, GuardStep DEF FactsInv, Next
    <2>2. EntryIsOwn'
      BY <1>3 DEF ContextReady, FactsInv, EntryIsOwn, GuardInv, TypeOK,
                     NeverStuck, StopReaches
    <2>3. QED
      BY <2>1, <2>2 DEF FactsInv
  <1>4. ASSUME NEW t \in Turns, Step(t) PROVE FactsInv'
    <2>1. GuardInv'
      BY <1>4, GuardStep DEF FactsInv, Next
    <2>2. EntryIsOwn'
      BY <1>4 DEF Step, FactsInv, EntryIsOwn, GuardInv, TypeOK,
                     NeverStuck, StopReaches
    <2>3. QED
      BY <2>1, <2>2 DEF FactsInv
  <1>5. ASSUME NEW t \in Turns, ToolRuns(t) PROVE FactsInv'
    <2>1. GuardInv'
      BY <1>5, GuardStep DEF FactsInv, Next
    <2>2. EntryIsOwn'
      BY <1>5 DEF ToolRuns, FactsInv, EntryIsOwn, GuardInv, TypeOK,
                     NeverStuck, StopReaches
    <2>3. QED
      BY <2>1, <2>2 DEF FactsInv
  <1>6. ASSUME NEW t \in Turns, ProviderFails(t) PROVE FactsInv'
    <2>1. GuardInv'
      BY <1>6, GuardStep DEF FactsInv, Next
    <2>2. EntryIsOwn'
      BY <1>6 DEF ProviderFails, FactsInv, EntryIsOwn, GuardInv, TypeOK,
                     NeverStuck, StopReaches
    <2>3. QED
      BY <2>1, <2>2 DEF FactsInv
  <1>7. ASSUME NEW t \in Turns, AsksJudge(t) PROVE FactsInv'
    <2>1. GuardInv'
      BY <1>7, GuardStep DEF FactsInv, Next
    <2>2. EntryIsOwn'
      BY <1>7 DEF AsksJudge, FactsInv, EntryIsOwn, GuardInv, TypeOK,
                     NeverStuck, StopReaches
    <2>3. QED
      BY <2>1, <2>2 DEF FactsInv
  <1>8. ASSUME NEW t \in Turns, JudgeAnswers(t) PROVE FactsInv'
    <2>1. GuardInv'
      BY <1>8, GuardStep DEF FactsInv, Next
    <2>2. EntryIsOwn'
      BY <1>8 DEF JudgeAnswers, FactsInv, EntryIsOwn, GuardInv, TypeOK,
                     NeverStuck, StopReaches
    <2>3. QED
      BY <2>1, <2>2 DEF FactsInv
  <1>9. ASSUME NEW t \in Turns, EndsOtherwise(t) PROVE FactsInv'
    <2>1. GuardInv'
      BY <1>9, GuardStep DEF FactsInv, Next
    <2>2. EntryIsOwn'
      BY <1>9 DEF EndsOtherwise, FactsInv, EntryIsOwn, GuardInv, TypeOK,
                     NeverStuck, StopReaches
    <2>3. QED
      BY <2>1, <2>2 DEF FactsInv
  <1>10. ASSUME NEW t \in Turns, Returns(t) PROVE FactsInv'
    <2>1. GuardInv'
      BY <1>10, GuardStep DEF FactsInv, Next
    <2>2. EntryIsOwn'
      BY <1>10 DEF Returns, FactsInv, EntryIsOwn, GuardInv, TypeOK,
                     NeverStuck, StopReaches
    <2>3. QED
      BY <2>1, <2>2 DEF FactsInv
  <1>11. ASSUME NEW v \in validating, ValidationEnds(v) PROVE FactsInv'
    <2>1. GuardInv'
      BY <1>11, GuardStep DEF FactsInv, Next
    <2>2. EntryIsOwn'
      BY <1>11 DEF ValidationEnds, FactsInv, EntryIsOwn, GuardInv, TypeOK,
                     NeverStuck, StopReaches
    <2>3. QED
      BY <2>1, <2>2 DEF FactsInv
  <1>12. CASE Cancel
    <2>1. GuardInv'
      BY <1>12, GuardStep DEF FactsInv, Next
    <2>2. EntryIsOwn'
      BY <1>12 DEF Cancel, FactsInv, EntryIsOwn, GuardInv, TypeOK,
                     NeverStuck, StopReaches
    <2>3. QED
      BY <2>1, <2>2 DEF FactsInv
  <1>13. CASE Age
    <2>1. GuardInv'
      BY <1>13, GuardStep DEF FactsInv, Next
    <2>2. EntryIsOwn'
      BY <1>13 DEF Age, FactsInv, EntryIsOwn, GuardInv, TypeOK,
                     NeverStuck, StopReaches
    <2>3. QED
      BY <2>1, <2>2 DEF FactsInv
  <1>14. CASE UNCHANGED vars
    <2>1. GuardInv'
      BY <1>14, GuardStep DEF FactsInv, Next
    <2>2. EntryIsOwn'
      BY <1>14 DEF vars, FactsInv, EntryIsOwn, GuardInv, TypeOK,
                     NeverStuck, StopReaches
    <2>3. QED
      BY <2>1, <2>2 DEF FactsInv
  <1>15. QED
    BY <1>1, <1>2, <1>3, <1>4, <1>5, <1>6, <1>7, <1>8, <1>9, <1>10,
       <1>11, <1>12, <1>13, <1>14 DEF Next

(* run() aborts the validations of earlier turns before it starts.         *)
LEMMA HearsInit == Init => HearsInv
  BY FactsInit, NoneAssumption DEF Init, HearsInv, SignalsListed, OthersCut, UserHearsOwn

LEMMA HearsStep == HearsInv /\ [Next]_vars => HearsInv'
  <1> SUFFICES ASSUME HearsInv, [Next]_vars PROVE HearsInv'
    OBVIOUS
  <1> USE NoneAssumption DEF state, validations, history, Working, Enter,
                          Replace, Blank, Registers, Facts
  <1>1. ASSUME NEW t \in Turns, Starts(t) PROVE HearsInv'
    <2>1. FactsInv'
      BY <1>1, FactsStep DEF HearsInv, Next
    <2>2. (SignalsListed /\ OthersCut)'
      BY <1>1 DEF Starts, HearsInv, SignalsListed, OthersCut, FactsInv,
                     EntryIsOwn, GuardInv, TypeOK, NeverStuck, StopReaches
    <2>3. UserHearsOwn'
      BY <1>1 DEF Starts, HearsInv, OthersCut, UserHearsOwn, FactsInv,
                     GuardInv, TypeOK, StopReaches
    <2>4. QED
      BY <2>1, <2>2, <2>3 DEF HearsInv
  <1>2. ASSUME NEW t \in Turns, Rejected(t) PROVE HearsInv'
    <2>1. FactsInv'
      BY <1>2, FactsStep DEF HearsInv, Next
    <2>2. (SignalsListed /\ OthersCut)'
      BY <1>2 DEF Rejected, HearsInv, SignalsListed, OthersCut, FactsInv,
                     EntryIsOwn, GuardInv, TypeOK, NeverStuck, StopReaches
    <2>3. UserHearsOwn'
      BY <1>2 DEF Rejected, HearsInv, OthersCut, UserHearsOwn, FactsInv,
                     GuardInv, TypeOK, StopReaches
    <2>4. QED
      BY <2>1, <2>2, <2>3 DEF HearsInv
  <1>3. ASSUME NEW t \in Turns, ContextReady(t) PROVE HearsInv'
    <2>1. FactsInv'
      BY <1>3, FactsStep DEF HearsInv, Next
    <2>2. (SignalsListed /\ OthersCut)'
      BY <1>3 DEF ContextReady, HearsInv, SignalsListed, OthersCut, FactsInv,
                     EntryIsOwn, GuardInv, TypeOK, NeverStuck, StopReaches
    <2>3. UserHearsOwn'
      BY <1>3 DEF ContextReady, HearsInv, OthersCut, UserHearsOwn, FactsInv,
                     GuardInv, TypeOK, StopReaches
    <2>4. QED
      BY <2>1, <2>2, <2>3 DEF HearsInv
  <1>4. ASSUME NEW t \in Turns, Step(t) PROVE HearsInv'
    <2>1. FactsInv'
      BY <1>4, FactsStep DEF HearsInv, Next
    <2>2. (SignalsListed /\ OthersCut)'
      BY <1>4 DEF Step, HearsInv, SignalsListed, OthersCut, FactsInv,
                     EntryIsOwn, GuardInv, TypeOK, NeverStuck, StopReaches
    <2>3. UserHearsOwn'
      BY <1>4 DEF Step, HearsInv, OthersCut, UserHearsOwn, FactsInv,
                     GuardInv, TypeOK, StopReaches
    <2>4. QED
      BY <2>1, <2>2, <2>3 DEF HearsInv
  <1>5. ASSUME NEW t \in Turns, ToolRuns(t) PROVE HearsInv'
    <2>1. FactsInv'
      BY <1>5, FactsStep DEF HearsInv, Next
    <2>2. (SignalsListed /\ OthersCut)'
      BY <1>5 DEF ToolRuns, HearsInv, SignalsListed, OthersCut, FactsInv,
                     EntryIsOwn, GuardInv, TypeOK, NeverStuck, StopReaches
    <2>3. UserHearsOwn'
      BY <1>5 DEF ToolRuns, HearsInv, OthersCut, UserHearsOwn, FactsInv,
                     GuardInv, TypeOK, StopReaches
    <2>4. QED
      BY <2>1, <2>2, <2>3 DEF HearsInv
  <1>6. ASSUME NEW t \in Turns, ProviderFails(t) PROVE HearsInv'
    <2>1. FactsInv'
      BY <1>6, FactsStep DEF HearsInv, Next
    <2>2. (SignalsListed /\ OthersCut)'
      BY <1>6 DEF ProviderFails, HearsInv, SignalsListed, OthersCut, FactsInv,
                     EntryIsOwn, GuardInv, TypeOK, NeverStuck, StopReaches
    <2>3. UserHearsOwn'
      BY <1>6 DEF ProviderFails, HearsInv, OthersCut, UserHearsOwn, FactsInv,
                     GuardInv, TypeOK, StopReaches
    <2>4. QED
      BY <2>1, <2>2, <2>3 DEF HearsInv
  <1>7. ASSUME NEW t \in Turns, AsksJudge(t) PROVE HearsInv'
    <2>1. FactsInv'
      BY <1>7, FactsStep DEF HearsInv, Next
    <2>2. (SignalsListed /\ OthersCut)'
      BY <1>7 DEF AsksJudge, HearsInv, SignalsListed, OthersCut, FactsInv,
                     EntryIsOwn, GuardInv, TypeOK, NeverStuck, StopReaches
    <2>3. UserHearsOwn'
      BY <1>7 DEF AsksJudge, HearsInv, OthersCut, UserHearsOwn, FactsInv,
                     GuardInv, TypeOK, StopReaches
    <2>4. QED
      BY <2>1, <2>2, <2>3 DEF HearsInv
  <1>8. ASSUME NEW t \in Turns, JudgeAnswers(t) PROVE HearsInv'
    <2>1. FactsInv'
      BY <1>8, FactsStep DEF HearsInv, Next
    <2>2. (SignalsListed /\ OthersCut)'
      BY <1>8 DEF JudgeAnswers, HearsInv, SignalsListed, OthersCut, FactsInv,
                     EntryIsOwn, GuardInv, TypeOK, NeverStuck, StopReaches
    <2>3. UserHearsOwn'
      BY <1>8 DEF JudgeAnswers, HearsInv, OthersCut, UserHearsOwn, FactsInv,
                     GuardInv, TypeOK, StopReaches
    <2>4. QED
      BY <2>1, <2>2, <2>3 DEF HearsInv
  <1>9. ASSUME NEW t \in Turns, EndsOtherwise(t) PROVE HearsInv'
    <2>1. FactsInv'
      BY <1>9, FactsStep DEF HearsInv, Next
    <2>2. (SignalsListed /\ OthersCut)'
      BY <1>9 DEF EndsOtherwise, HearsInv, SignalsListed, OthersCut, FactsInv,
                     EntryIsOwn, GuardInv, TypeOK, NeverStuck, StopReaches
    <2>3. UserHearsOwn'
      BY <1>9 DEF EndsOtherwise, HearsInv, OthersCut, UserHearsOwn, FactsInv,
                     GuardInv, TypeOK, StopReaches
    <2>4. QED
      BY <2>1, <2>2, <2>3 DEF HearsInv
  <1>10. ASSUME NEW t \in Turns, Returns(t) PROVE HearsInv'
    <2>1. FactsInv'
      BY <1>10, FactsStep DEF HearsInv, Next
    <2>2. (SignalsListed /\ OthersCut)'
      BY <1>10 DEF Returns, HearsInv, SignalsListed, OthersCut, FactsInv,
                     EntryIsOwn, GuardInv, TypeOK, NeverStuck, StopReaches
    <2>3. UserHearsOwn'
      BY <1>10 DEF Returns, HearsInv, OthersCut, UserHearsOwn, FactsInv,
                     GuardInv, TypeOK, StopReaches
    <2>4. QED
      BY <2>1, <2>2, <2>3 DEF HearsInv
  <1>11. ASSUME NEW v \in validating, ValidationEnds(v) PROVE HearsInv'
    <2>1. FactsInv'
      BY <1>11, FactsStep DEF HearsInv, Next
    <2>2. (SignalsListed /\ OthersCut)'
      BY <1>11 DEF ValidationEnds, HearsInv, SignalsListed, OthersCut, FactsInv,
                     EntryIsOwn, GuardInv, TypeOK, NeverStuck, StopReaches
    <2>3. UserHearsOwn'
      BY <1>11 DEF ValidationEnds, HearsInv, OthersCut, UserHearsOwn, FactsInv,
                     GuardInv, TypeOK, StopReaches
    <2>4. QED
      BY <2>1, <2>2, <2>3 DEF HearsInv
  <1>12. CASE Cancel
    <2>1. FactsInv'
      BY <1>12, FactsStep DEF HearsInv, Next
    <2>2. (SignalsListed /\ OthersCut)'
      BY <1>12 DEF Cancel, HearsInv, SignalsListed, OthersCut, FactsInv,
                     EntryIsOwn, GuardInv, TypeOK, NeverStuck, StopReaches
    <2>3. UserHearsOwn'
      BY <1>12 DEF Cancel, HearsInv, OthersCut, UserHearsOwn, FactsInv,
                     GuardInv, TypeOK, StopReaches
    <2>4. QED
      BY <2>1, <2>2, <2>3 DEF HearsInv
  <1>13. CASE Age
    <2>1. FactsInv'
      BY <1>13, FactsStep DEF HearsInv, Next
    <2>2. (SignalsListed /\ OthersCut)'
      BY <1>13 DEF Age, HearsInv, SignalsListed, OthersCut, FactsInv,
                     EntryIsOwn, GuardInv, TypeOK, NeverStuck, StopReaches
    <2>3. UserHearsOwn'
      BY <1>13 DEF Age, HearsInv, OthersCut, UserHearsOwn, FactsInv,
                     GuardInv, TypeOK, StopReaches
    <2>4. QED
      BY <2>1, <2>2, <2>3 DEF HearsInv
  <1>14. CASE UNCHANGED vars
    <2>1. FactsInv'
      BY <1>14, FactsStep DEF HearsInv, Next
    <2>2. (SignalsListed /\ OthersCut)'
      BY <1>14 DEF vars, HearsInv, SignalsListed, OthersCut, FactsInv,
                     EntryIsOwn, GuardInv, TypeOK, NeverStuck, StopReaches
    <2>3. UserHearsOwn'
      BY <1>14 DEF vars, HearsInv, OthersCut, UserHearsOwn, FactsInv,
                     GuardInv, TypeOK, StopReaches
    <2>4. QED
      BY <2>1, <2>2, <2>3 DEF HearsInv
  <1>15. QED
    BY <1>1, <1>2, <1>3, <1>4, <1>5, <1>6, <1>7, <1>8, <1>9, <1>10,
       <1>11, <1>12, <1>13, <1>14 DEF Next

(* While no turn outlasts TURN_STALE_MS, whatever works is what activeTurns*)
(* has: /stop reaches it and the guard of runWithTools refuses another.    *)
THEOREM StopAlwaysReaches == Spec => []StopReaches
  <1>1. GuardInv => StopReaches
    BY DEF GuardInv
  <1>2. QED
    BY <1>1, GuardInit, GuardStep, PTL DEF Spec

(* However turns are overtaken, refused or stopped, the guard never refuses*)
(* on behalf of a turn that is over (clearActiveTurn).                     *)
THEOREM NeverLeftStuck == Spec => []NeverStuck
  <1>1. GuardInv => NeverStuck
    BY DEF GuardInv
  <1>2. QED
    BY <1>1, GuardInit, GuardStep, PTL DEF Spec

(* The facts run() returns are those of the turn that answers.             *)
THEOREM FactsAreTheTurns == Spec => []FactsAreOwn
  <1>1. FactsInv => FactsAreOwn
    BY DEF FactsInv, EntryIsOwn, FactsAreOwn
  <1>2. QED
    BY <1>1, FactsInit, FactsStep, PTL DEF Spec

(* What the observer tells a turn of the user is about that turn's tools.  *)
THEOREM UserHearsOwnTools == Spec => []UserHearsOwn
  <1>1. HearsInv => UserHearsOwn
    BY DEF HearsInv
  <1>2. QED
    BY <1>1, HearsInit, HearsStep, PTL DEF Spec

=============================================================================
