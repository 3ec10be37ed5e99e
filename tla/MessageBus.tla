----------------------------- MODULE MessageBus -----------------------------
(***************************************************************************)
(* One conversation's way through MessageBus and ConversationQueueManager  *)
(* (channels/MessageBus.ts, core/ConversationQueueManager.ts): duplicates  *)
(* are dropped, /cancelar bypasses the queue, a text sent while a goal     *)
(* runs supplements it, a text sent while another waits joins it, anything *)
(* else takes a turn in the queue.  Queues, joined texts and the active    *)
(* goal are all kept per conversation, so one conversation is the system.  *)
(*                                                                         *)
(* A message is its number in the order in which messages reach            *)
(* processMessage.  Of a goal (loop/GoalOrchestrator.ts, loop/GoalStore.ts)*)
(* the bus sees whether the most recent one of the conversation is         *)
(*   "live"   active, executing, replanning, or blocked on itself          *)
(*   "auth"   blocked with a pending authorization                         *)
(*   "over"   completed, failed or abandoned                               *)
(***************************************************************************)
EXTENDS Integers, Sequences, SequencesExt

CONSTANTS MaxMessages,   \* bound: messages of the run
          MaxCopies,     \* bound: texts in hand when the channel repeats one
          MaxPending     \* MAX_PENDING, messages waiting in the queue (20)

ASSUME BusAssumption == {MaxMessages, MaxCopies, MaxPending} \subseteq Nat

VARIABLES
    smooth,      \* rigid: sends resolve at once, there are no buttons, no turn
                 \* breaks, and ids may be forgotten by age; or else the reverse
    kind,        \* kind of each message so far: "text", "file", "cancel"
    recent,      \* recentMessageIds
    waiting,     \* the queue: entries [n, head, texts], not started
    run,         \* the running task, or Idle
    made,        \* entries made so far, their identity n
    open,        \* textosEmEspera: the entry that later texts join, 0 if none
    acking,      \* entries whose processMessage awaits the send of its ACK
    ackSent,     \* ackSentForCurrentBurst
    goal,        \* the most recent goal: "none", "live", "auth", "over"
    runner,      \* who executes it: "nobody", "turn", "button"
    supplements, \* its supplements that nobody has read
    handed,      \* history: messages given to a turn or read by a goal
    dropped,     \* history: messages discarded from the queue by /cancelar
    refused,     \* history: messages refused by backpressure
    broken       \* history: messages of turns that broke

queueVars == <<waiting, made, open, acking, ackSent>>
goalVars == <<goal, runner, supplements>>
busVars == <<smooth, kind, recent, waiting, run, made, open, acking, ackSent, goal,
          runner, supplements, handed, dropped, refused, broken>>

Messages == 1..Len(kind)
Idle == [phase |-> "idle", n |-> 0, head |-> 0, texts |-> <<>>]
Ids(entries) == UNION {ToSet(entries[i].texts) : i \in DOMAIN entries}
Copies == FoldSeq(LAMBDA e, n : n + Len(e.texts),
                  Len(handed) + Len(supplements), waiting)

BusInit ==
    /\ smooth \in BOOLEAN
    /\ kind = <<>> /\ recent = {}
    /\ waiting = <<>> /\ run = Idle /\ made = 0
    /\ open = 0 /\ acking = {} /\ ackSent = FALSE
    /\ goal = "none" /\ runner = "nobody" /\ supplements = <<>>
    /\ handed = <<>> /\ dropped = {} /\ refused = {} /\ broken = {}

-----------------------------------------------------------------------------
(* ConversationQueueManager.enqueue and the task it is given.  The head of *)
(* an entry is 0 when it was made of supplements nobody read.              *)

Entry(head, texts) == [n |-> made + 1, head |-> head, texts |-> texts]

BeginTask(e) ==
    /\ run' = [phase |-> "prepare", n |-> e.n, head |-> e.head, texts |-> e.texts]
    /\ handed' = handed \o e.texts

(* Behind another task.  Only the first of a burst is acknowledged, and    *)
(* the entry opens for later texts when that send is over.                 *)
Queue(e, joinable) ==
    LET awaits == ~smooth /\ ~ackSent
    IN  /\ waiting' = Append(waiting, e)
        /\ made' = e.n
        /\ ackSent' = TRUE
        /\ acking' = IF joinable /\ awaits THEN acking \union {e.n} ELSE acking
        /\ open' = IF joinable /\ ~awaits THEN e.n ELSE 0

Full == Len(waiting) >= MaxPending

(* Mistake: the end of a burst leaves ackSentForCurrentBurst set.          *)
StartNextStillAcked ==
    IF waiting = <<>>
    THEN /\ run' = Idle
         /\ UNCHANGED <<waiting, open, ackSent, handed>>
    ELSE /\ BeginTask(Head(waiting))
         /\ waiting' = Tail(waiting)
         /\ open' = IF open = Head(waiting).n THEN 0 ELSE open
         /\ UNCHANGED ackSent

(* p-queue takes the next task, or is idle, which ends the burst.          *)
StartNext ==
    IF waiting = <<>>
    THEN /\ run' = Idle
         /\ ackSent' = FALSE
         /\ UNCHANGED <<waiting, open, handed>>
    ELSE /\ BeginTask(Head(waiting))
         /\ waiting' = Tail(waiting)
         /\ open' = IF open = Head(waiting).n THEN 0 ELSE open
         /\ UNCHANGED ackSent

(* emEspera.push: the entry that is open, if it still waits, reads it.     *)
Join(texts) ==
    waiting' = [i \in DOMAIN waiting |->
                   IF waiting[i].n = open
                   THEN [waiting[i] EXCEPT !.texts = @ \o texts]
                   ELSE waiting[i]]

-----------------------------------------------------------------------------
(* processMessage, once the duplicate has been ruled out.                  *)

(* Mistake: /cancelar stops the turn but leaves the queue as it is.        *)
RouteCancelQueueKept(m) ==
    /\ kind'[m] = "cancel"
    /\ open' = 0 /\ ackSent' = FALSE
    /\ dropped' = dropped \union Ids(waiting)
    /\ goal' = IF goal \in {"live", "auth"} THEN "over" ELSE goal
    /\ run' = [run EXCEPT !.phase = IF @ = "turn" THEN "leave" ELSE @]
    /\ UNCHANGED <<waiting, made, acking, runner, supplements, handed, refused>>

RouteCancel(m) ==
    /\ kind'[m] = "cancel"
    /\ waiting' = <<>> /\ open' = 0 /\ ackSent' = FALSE
    /\ dropped' = dropped \union Ids(waiting)
    /\ goal' = IF goal \in {"live", "auth"} THEN "over" ELSE goal
    /\ run' = [run EXCEPT !.phase = IF @ = "turn" THEN "leave" ELSE @]
    /\ UNCHANGED <<made, acking, runner, supplements, handed, refused>>

RouteToGoal(m) ==
    /\ kind'[m] = "text" /\ goal = "live"
    /\ supplements' = Append(supplements, m)
    /\ UNCHANGED <<queueVars, run, goal, runner, handed, dropped, refused>>

RouteToWaiting(m) ==
    /\ kind'[m] = "text" /\ goal # "live" /\ open # 0
    /\ Join(<<m>>)
    /\ UNCHANGED <<made, open, acking, ackSent, run, goalVars, handed, dropped, refused>>

TakesTurn(m) ==
    \/ kind'[m] = "file"
    \/ kind'[m] = "text" /\ goal # "live" /\ open = 0

RouteToRun(m) ==
    /\ TakesTurn(m) /\ run = Idle
    /\ BeginTask(Entry(m, <<m>>))
    /\ made' = made + 1
    /\ open' = 0
    /\ UNCHANGED <<waiting, acking, ackSent, goalVars, dropped, refused>>

RouteToQueue(m) ==
    /\ TakesTurn(m) /\ run # Idle /\ ~Full
    /\ Queue(Entry(m, <<m>>), kind'[m] = "text")
    /\ UNCHANGED <<run, goalVars, handed, dropped, refused>>

RouteRefused(m) ==
    /\ TakesTurn(m) /\ run # Idle /\ Full
    /\ refused' = refused \union {m}
    /\ open' = 0
    /\ UNCHANGED <<waiting, made, acking, ackSent, run, goalVars, handed, dropped>>

(* Mistake: the id of a message is remembered only when its turn ends.     *)
ProcessNotInFlight(m) ==
    /\ m \notin recent
    /\ \/ RouteCancel(m) \/ RouteToGoal(m) \/ RouteToWaiting(m)
       \/ RouteToRun(m) \/ RouteToQueue(m) \/ RouteRefused(m)
    /\ UNCHANGED <<recent, broken>>

(* processMessage of m: the id is remembered unless the message is refused. *)
Process(m) ==
    /\ m \notin recent
    /\ \/ /\ \/ RouteCancel(m) \/ RouteToGoal(m) \/ RouteToWaiting(m)
             \/ RouteToRun(m) \/ RouteToQueue(m)
          /\ recent' = recent \union {m}
       \/ RouteRefused(m) /\ UNCHANGED recent
    /\ UNCHANGED broken

Send(k) ==
    /\ Len(kind) < MaxMessages
    /\ kind' = Append(kind, k)
    /\ Process(Len(kind) + 1)

(* The channel delivers a message again (a known id changes nothing).      *)
Redeliver(m) ==
    /\ kind[m] # "cancel" /\ Copies < MaxCopies
    /\ UNCHANGED kind
    /\ Process(m)

ForgetId(m) ==
    /\ smooth /\ m \in recent
    /\ recent' = recent \ {m}
    /\ UNCHANGED <<kind, queueVars, run, goalVars, handed, dropped, refused, broken>>

AckReturns(n) ==
    /\ n \in acking
    /\ acking' = acking \ {n}
    /\ open' = n
    /\ UNCHANGED <<kind, recent, waiting, run, made, ackSent, goalVars, handed,
                   dropped, refused, broken>>

-----------------------------------------------------------------------------
(* The turn: processMessageCore.                                           *)

GoalStep ==
    UNCHANGED <<kind, recent, queueVars, dropped, refused, broken>>

(* Media and the transcript are done: GoalOrchestrator.process registers   *)
(* the turn, from where /cancelar can reach it, and expires old goals.     *)
EnterProcess ==
    /\ run.phase = "prepare"
    /\ run' = [run EXCEPT !.phase = "turn"]
    /\ goal' \in {goal} \union
           (IF goal \in {"live", "auth"} /\ runner = "nobody" THEN {"over"} ELSE {})
    /\ UNCHANGED <<runner, supplements, handed>>
    /\ GoalStep

(* A new goal; one that was there is abandoned, with what it had not read. *)
StartGoal ==
    /\ run.phase = "turn"
    /\ run' = [run EXCEPT !.phase = "goal"]
    /\ goal' = "live" /\ runner' = "turn" /\ supplements' = <<>>
    /\ UNCHANGED handed
    /\ GoalStep

(* The text approves what the goal waits for, or rejects it.               *)
ResumeByText ==
    /\ run.phase = "turn" /\ goal = "auth"
    /\ run' = [run EXCEPT !.phase = "goal"]
    /\ \/ goal' = "live" /\ runner' = "turn"
       \/ goal' = "over" /\ UNCHANGED runner
    /\ UNCHANGED <<supplements, handed>>
    /\ GoalStep

(* The workflow callback of a button, outside the queue.                   *)
ResumeByButton ==
    /\ ~smooth /\ goal = "auth" /\ run.phase # "goal"
    /\ \/ goal' = "live" /\ runner' = "button"
       \/ goal' = "over" /\ UNCHANGED runner
    /\ UNCHANGED <<run, supplements, handed>>
    /\ GoalStep

Executing == goal = "live" /\ runner # "nobody"

(* The checkpoint between two cycles of GoalExecutionLoop.                 *)
ReadSupplements ==
    /\ Executing /\ supplements # <<>>
    /\ handed' = handed \o supplements
    /\ supplements' = <<>>
    /\ UNCHANGED <<run, goal, runner>>
    /\ GoalStep

GoalStops ==
    /\ Executing
    /\ goal' \in {"over", "auth"}
    /\ runner' = "nobody"
    /\ UNCHANGED <<run, supplements, handed>>
    /\ GoalStep

-----------------------------------------------------------------------------
(* The end of the task: markDone, then reprocessOrphanedSupplements.       *)

Remember == recent' = IF run.head = 0 THEN recent ELSE recent \union {run.head}

(* Mistake: what the goal has not read is forgotten with it.               *)
LeaveUnreadAlways ==
    /\ StartNext
    /\ UNCHANGED <<made, acking, goalVars, refused>>

(* Nothing is left unread, or what is left is captured again by the goal.  *)
LeaveUnread ==
    /\ supplements = <<>> \/ goal = "live"
    /\ StartNext
    /\ UNCHANGED <<made, acking, goalVars, refused>>

(* Unread supplements go through processMessage as a message of their own, *)
(* inside the task that ends.                                              *)
Reprocess ==
    /\ supplements # <<>> /\ goal # "live"
    /\ supplements' = <<>>
    /\ IF open = 0 /\ ~Full
       THEN /\ Queue(Entry(0, supplements), TRUE)
            /\ run' = [Idle EXCEPT !.phase = "closing", !.n = made + 1]
            /\ UNCHANGED refused
       ELSE /\ IF open # 0
               THEN Join(supplements) /\ UNCHANGED refused
               ELSE refused' = refused \union ToSet(supplements) /\ UNCHANGED waiting
            /\ run' = [Idle EXCEPT !.phase = "closing"]
            /\ UNCHANGED <<made, open, acking, ackSent>>
    /\ UNCHANGED <<goal, runner, handed>>

TurnEnds ==
    /\ run.phase \in {"turn", "leave", "goal"}
    /\ run.phase = "goal" => ~(goal = "live" /\ runner = "turn")
    /\ Remember
    /\ LeaveUnread \/ Reprocess
    /\ UNCHANGED <<kind, dropped, broken>>

TurnCloses ==
    /\ run.phase = "closing" /\ run.n \notin acking
    /\ StartNext
    /\ UNCHANGED <<kind, recent, made, acking, goalVars, dropped, refused, broken>>

(* markFailed: a goal that was running in the turn runs no more.           *)
TurnBreaks ==
    /\ ~smooth /\ run.phase \in {"prepare", "turn", "goal"}
    /\ recent' = recent \ {run.head}
    /\ broken' = broken \union ToSet(run.texts)
    /\ runner' = IF runner = "turn" THEN "nobody" ELSE runner
    /\ StartNext
    /\ UNCHANGED <<kind, made, acking, goal, supplements, dropped, refused>>

TurnProgress == EnterProcess \/ GoalStops \/ TurnEnds \/ TurnCloses

BusNext ==
    /\ \/ \E k \in {"text", "file", "cancel"} : Send(k)
       \/ \E m \in Messages : Redeliver(m) \/ ForgetId(m)
       \/ \E n \in acking : AckReturns(n)
       \/ StartGoal \/ ResumeByText \/ ResumeByButton \/ ReadSupplements
       \/ TurnProgress \/ TurnBreaks
    /\ UNCHANGED smooth

(* A turn and the goal it runs come to an end, and a send returns.         *)
BusSpec ==
    /\ BusInit /\ [][BusNext]_busVars
    /\ WF_busVars(TurnProgress /\ UNCHANGED smooth)
    /\ WF_busVars((\E n \in acking : AckReturns(n)) /\ UNCHANGED smooth)

-----------------------------------------------------------------------------
(* Properties                                                              *)

BusTypeOK ==
    /\ kind \in Seq({"text", "file", "cancel"})
    /\ {recent, dropped, refused, broken} \subseteq SUBSET Messages
    /\ {ToSet(handed), ToSet(supplements), Ids(waiting)} \subseteq SUBSET Messages
    /\ run.phase \in {"idle", "prepare", "turn", "goal", "leave", "closing"}
    /\ open \in 0..made /\ acking \subseteq 1..made
    /\ goal \in {"none", "live", "auth", "over"}
    /\ runner \in {"nobody", "turn", "button"}
    /\ run = Idle => waiting = <<>> /\ ackSent = FALSE

(* A message is given to a turn or to a goal once, whatever the channel    *)
(* delivers again while its id is remembered, unless the turn that had it  *)
(* broke.                                                                  *)
HandedOnce ==
    ~smooth => \A i, j \in DOMAIN handed :
        handed[i] = handed[j] => i = j \/ handed[i] \in broken

(* What /cancelar discarded from the queue never runs while its id is      *)
(* remembered.                                                             *)
DiscardedStaysOut ==
    [][~smooth => \A i \in DOMAIN handed' \ DOMAIN handed : handed'[i] \notin dropped]_busVars

(* Where sends resolve at once and no turn breaks, no text is swallowed:   *)
(* each one is handed over, or was discarded by a /cancelar, or was refused *)
(* with a notice to its sender.                                            *)
EveryTextSettles ==
    \A m \in 1..MaxMessages :
        (smooth /\ m \in Messages /\ kind[m] = "text") ~>
            (m \in ToSet(handed) \union dropped \union refused)
=============================================================================
