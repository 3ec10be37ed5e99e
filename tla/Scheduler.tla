------------------------------ MODULE Scheduler ------------------------------
(***************************************************************************)
(* Scheduled messages: the rows of services/SchedulerService.ts, the timer *)
(* each active one has while the process is up, and the trigger handler    *)
(* of core/AgentController.ts.  A timer is armed for a minute of the day   *)
(* but counts from where in a minute it was armed, so it fires as far into *)
(* its minute.  Time is cut in half minutes and the day is short; the      *)
(* clock of the machine is not set meanwhile.                              *)
(***************************************************************************)
EXTENDS Integers, FiniteSetsExt

CONSTANTS Tasks,
          Times,      \* the minutes of the day each task asks for; {} where
                      \* its cron expression names no hour
          Day,        \* minutes of a day
          MaxTouches  \* bound: operations of users, starts of the process

ASSUME SchedulerAssumption ==
    /\ Day \in Nat \ {0} /\ MaxTouches \in Nat
    /\ Times \in [Tasks -> SUBSET (0..(Day - 1))]

VARIABLES
    clock,   \* half minutes since midnight
    life,    \* the process: "down", "booting", "up", "stopped"
    row,     \* scheduled_tasks
    timer,   \* timers: half minutes left of the timer of a task, or NoTimer
    firing,  \* the tasks whose trigger is awaited
    owed,    \* history: tasks a minute of theirs began for since they ran
    touches

schedulerVars == <<clock, life, row, timer, firing, owed, touches>>

NoTimer == -1
Minute(c) == c \div 2
Alive == life # "down"

SchedulerInit ==
    /\ clock \in 0..(2 * Day - 1)
    /\ life = "down"
    /\ row = [t \in Tasks |-> "none"]
    /\ timer = [t \in Tasks |-> NoTimer]
    /\ firing = {} /\ owed = {} /\ touches = 0

\* Mistake: a minute that has begun is still to come.
MsUntilNextOrNow(t) ==
    LET now == Minute(clock)
        later == {h \in Times[t] : h >= now}
        next == IF later # {} THEN Min(later) ELSE Min(Times[t]) + Day
    IN  IF Times[t] = {} THEN 2 ELSE 2 * (next - now)

(* In half minutes.                                                         *)
MsUntilNext(t) ==
    LET now == Minute(clock)
        later == {h \in Times[t] : h > now}
        next == IF later # {} THEN Min(later) ELSE Min(Times[t]) + Day
    IN  IF Times[t] = {} THEN 2 ELSE 2 * (next - now)

Armed(t) == [timer EXCEPT ![t] = Min({MsUntilNext(t), 2 * Day})]
Disarmed(t) == [timer EXCEPT ![t] = NoTimer]

Touch == touches < MaxTouches /\ touches' = touches + 1

-----------------------------------------------------------------------------
(* The tool the model calls: its operations end within one step of the     *)
(* event loop.                                                              *)
CreateTask(t) ==
    /\ Alive /\ row[t] = "none" /\ Touch
    /\ row' = [row EXCEPT ![t] = "on"]
    /\ timer' = Armed(t)
    /\ UNCHANGED <<clock, life, firing, owed>>

DeleteTask(t) ==
    /\ Alive /\ row[t] \in {"on", "off"} /\ Touch
    /\ row' = [row EXCEPT ![t] = "deleted"]
    /\ timer' = Disarmed(t)
    /\ UNCHANGED <<clock, life, firing, owed>>

(* A task that is on may be switched on: its timer starts anew.            *)
ToggleOn(t) ==
    /\ Alive /\ row[t] \in {"on", "off"} /\ Touch
    /\ row' = [row EXCEPT ![t] = "on"]
    /\ timer' = Armed(t)
    /\ UNCHANGED <<clock, life, firing, owed>>

ToggleOff(t) ==
    /\ Alive /\ row[t] \in {"on", "off"} /\ Touch
    /\ row' = [row EXCEPT ![t] = "off"]
    /\ timer' = Disarmed(t)
    /\ UNCHANGED <<clock, life, firing, owed>>

-----------------------------------------------------------------------------
(* The process.  Channels may be up before the timeout of startAll ends.   *)
Boot ==
    /\ life = "down" /\ Touch
    /\ life' = "booting"
    /\ UNCHANGED <<clock, row, timer, firing, owed>>

StartAll ==
    /\ life = "booting"
    /\ life' = "up"
    /\ timer' = [t \in Tasks |-> IF row[t] = "on" THEN Armed(t)[t] ELSE timer[t]]
    /\ UNCHANGED <<clock, row, firing, owed, touches>>

StopAll ==
    /\ life \in {"booting", "up"}
    /\ life' = "stopped"
    /\ timer' = [t \in Tasks |-> NoTimer]
    /\ UNCHANGED <<clock, row, firing, owed, touches>>

(* The end of the process, told to stop or not: the table remains.         *)
Exit ==
    /\ Alive
    /\ life' = "down"
    /\ timer' = [t \in Tasks |-> NoTimer] /\ firing' = {}
    /\ UNCHANGED <<clock, row, owed, touches>>

-----------------------------------------------------------------------------
(* A timer that is due may be late.  The entry of one that fired remains   *)
(* in the map until it is replaced, and stopping it does nothing.          *)
Trigger(t) ==
    /\ timer[t] = 0
    /\ timer' = Disarmed(t)
    /\ firing' = firing \union {t}
    /\ owed' = owed \ {t}
    /\ UNCHANGED <<clock, life, row, touches>>

\* Mistake: a failure of the handler leaves before the next timer is armed.
TriggerEndsOrFails(t) ==
    /\ t \in firing
    /\ firing' = firing \ {t}
    /\ timer' \in {IF row[t] = "on" THEN Armed(t) ELSE timer, timer}
    /\ UNCHANGED <<clock, life, row, owed, touches>>

\* Mistake: the row is not read again.
TriggerEndsUnread(t) ==
    /\ t \in firing
    /\ firing' = firing \ {t}
    /\ timer' = Armed(t)
    /\ UNCHANGED <<clock, life, row, owed, touches>>

(* Whether the handler failed or not: the row is read again.               *)
TriggerEnds(t) ==
    /\ t \in firing
    /\ firing' = firing \ {t}
    /\ timer' = IF row[t] = "on" THEN Armed(t) ELSE timer
    /\ UNCHANGED <<clock, life, row, owed, touches>>

(* The handler awaits nothing, so no time passes until it ends.            *)
Tick ==
    /\ firing = {}
    /\ clock' = (clock + 1) % (2 * Day)
    /\ timer' = [t \in Tasks |-> IF timer[t] > 0 THEN timer[t] - 1 ELSE timer[t]]
    /\ owed' = IF clock' % 2 = 0
               THEN owed \union {t \in Tasks : Minute(clock') \in Times[t]}
               ELSE owed
    /\ UNCHANGED <<life, row, firing, touches>>

SchedulerNext ==
    \/ \E t \in Tasks : CreateTask(t) \/ DeleteTask(t) \/ ToggleOn(t) \/ ToggleOff(t)
    \/ Boot \/ StartAll \/ StopAll \/ Exit
    \/ \E t \in Tasks : Trigger(t) \/ TriggerEnds(t)
    \/ Tick

SchedulerSpec == SchedulerInit /\ [][SchedulerNext]_schedulerVars
        /\ WF_schedulerVars(Tick) /\ WF_schedulerVars(StartAll)
        /\ \A t \in Tasks : WF_schedulerVars(Trigger(t)) /\ WF_schedulerVars(TriggerEnds(t))

-----------------------------------------------------------------------------
(* Properties                                                              *)

(* While the scheduler is up, a task has a timer exactly if its row is     *)
(* active; only while its trigger is awaited it may have none.             *)
TimersFollowRows ==
    life = "up" => \A t \in Tasks :
        /\ row[t] = "on" => timer[t] # NoTimer \/ t \in firing
        /\ timer[t] # NoTimer => row[t] = "on"

(* A task runs at most once for each minute it asks for, whoever arms its  *)
(* timer in that minute again: the trigger, a user, a start.               *)
OncePerOccurrence ==
    [][\A t \in Tasks : t \in firing' \ firing /\ Times[t] # {} => t \in owed]_schedulerVars

(* A task that stays active in a process that stays up runs again and      *)
(* again.                                                                  *)
KeepsRunning ==
    \A t \in Tasks : <>[](life = "up" /\ row[t] = "on") => []<>(t \in firing)
=============================================================================
