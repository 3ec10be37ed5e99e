----------------------------- MODULE Authorization -----------------------------
(***************************************************************************)
(* Human confirmation of dangerous tools in one conversation of a channel  *)
(* with buttons: the transactions of loop/WorkflowEngine.ts, the goal that *)
(* waits for one (loop/GoalStore.ts), the pendency AgentLoop remembers for *)
(* an answer typed as text (loop/AuthorizationManager.ts), and the two     *)
(* paths of an answer: the turn of a text (loop/GoalOrchestrator.ts,       *)
(* loop/AgentLoop.ts), which runs in the conversation's queue, and the     *)
(* callback of a button (core/AgentController.ts), which runs under the    *)
(* mutex of the session (withMutex, session/SessionManager.ts).  Tables    *)
(* are persisted, the rest is lost in a restart.                           *)
(***************************************************************************)
EXTENDS Integers

CONSTANTS Callbacks, \* bound: callbacks of buttons at a time
          MaxTxns,   \* bound: requests for authorization
          MaxGoals,  \* bound: goals
          MaxMishaps \* bound: restarts, and waits for the mutex that are given up

ASSUME AuthAssumption ==
    /\ "turn" \notin Callbacks
    /\ MaxTxns \in Nat /\ MaxGoals \in Nat /\ MaxMishaps \in Nat

VARIABLES
    asked,    \* requests so far, numbered from 1
    row,      \* workflow_transactions: state of each request's row
    shown,    \* requests whose buttons the user has
    pending,  \* authManager: the request of the conversation, or 0
    goals,    \* goals so far, numbered from 1
    status,   \* status of each goal
    waitsFor, \* pending_txn_id of each goal, or 0
    doing,    \* what the turn and each callback are doing
    line,     \* the mutex: the callbacks that one that enters now waits for
    before,   \* those that each waiting callback still waits for
    runs,     \* history: how often the tool of each request was started
    refused,  \* history: requests the user refused
    mishaps,
    buttonsOnly, \* fixed: the user answers by buttons only, no tool is
                 \* switched off meanwhile and the process is not restarted
    patient      \* fixed: and no wait for the mutex takes 45 s, nor does the
                 \* sweep come upon a callback under way

txnVars == <<asked, row, shown, pending>>
goalVars == <<goals, status, waitsFor>>
mutexVars == <<line, before>>
historyVars == <<runs, refused>>
fixedVars == <<buttonsOnly, patient>>
vars == <<txnVars, goalVars, doing, mutexVars, historyVars, mishaps, fixedVars>>

Txns == 1..MaxTxns
Goals == 1..MaxGoals
Actors == {"turn"} \union Callbacks

(* A turn is "open" once its message is recorded, "routed" once it is no   *)
(* answer to a goal that waits, and with the "agent" when it was one that  *)
(* WorkflowEngine could make nothing of.  A callback is "pressed" until it *)
(* has the mutex.  A tool runs for the "goal" or for the "agent" path; a   *)
(* loop runs its goal until it ends or blocks, and is the "first" of the   *)
(* goal or "resumed".                                                      *)
Idle == [at |-> "idle"]
Opened == [at |-> "open"]
Routed == [at |-> "routed"]
Agent == [at |-> "agent"]
Pressed(t) == [at |-> "pressed", txn |-> t]
Tool(t, path) == [at |-> "tool", txn |-> t, path |-> path]
Loop(g, kind) == [at |-> "loop", goal |-> g, kind |-> kind]

Init ==
    /\ asked = 0 /\ row = [t \in Txns |-> "unused"]
    /\ shown = {} /\ pending = 0
    /\ goals = 0
    /\ status = [g \in Goals |-> "none"]
    /\ waitsFor = [g \in Goals |-> 0]
    /\ doing = [a \in Actors |-> Idle]
    /\ runs = [t \in Txns |-> 0] /\ refused = {}
    /\ line = {} /\ before = [c \in Callbacks |-> {}]
    /\ mishaps = 0 /\ buttonsOnly \in BOOLEAN /\ patient \in {FALSE, buttonsOnly}

Do(a, what) == doing' = [doing EXCEPT ![a] = what]

(* withMutex: a callback waits for the promise of the one before it, which *)
(* is resolved when that one leaves, or gives up its own wait; through it  *)
(* for every earlier one up to the first that gave up.                     *)
Resolves(c) ==
    LET chain == {c} \union before[c]
    IN  /\ line' = IF c \in line THEN line \ chain ELSE line
        /\ before' = [d \in Callbacks |->
                         IF d = c THEN {} ELSE IF c \in before[d] THEN before[d] \ chain ELSE before[d]]

(* An actor is done; a callback leaves the mutex.                          *)
Rests(a) ==
    /\ Do(a, Idle)
    /\ IF a = "turn" THEN UNCHANGED mutexVars ELSE Resolves(a)

Mishap == mishaps < MaxMishaps /\ mishaps' = mishaps + 1

(* getTransaction finds it, whatever its status.                           *)
Stored(t) == t # 0 /\ row[t] \in {"pending", "executing"}

(* getActiveBySession, getByTxnId.                                         *)
Live(g) == status[g] \in {"running", "blocked"}
WaitingFor(t) == {g \in Goals : Live(g) /\ waitsFor[g] = t}
Runs(a, g) == doing[a].at = "loop" /\ doing[a].goal = g

(* setStatus or update to a terminal status.                               *)
EndGoals(which) ==
    /\ status' = [g \in Goals |-> IF g \in which THEN "over" ELSE status[g]]
    /\ waitsFor' = [g \in Goals |-> IF g \in which THEN 0 ELSE waitsFor[g]]

-----------------------------------------------------------------------------
(* WorkflowEngine                                                          *)

CreateTransaction ==
    /\ asked < MaxTxns
    /\ asked' = asked + 1
    /\ row' = [row EXCEPT ![asked'] = "pending"]

(* resume: the status of the row is not looked at.                         *)
ResumeApproved(a, t, path) ==
    /\ Stored(t)
    /\ row' = [row EXCEPT ![t] = "executing"]
    /\ runs' = [runs EXCEPT ![t] = @ + 1]
    /\ Do(a, Tool(t, path))
    /\ UNCHANGED refused

(* Mistake: the row of a refused request is marked, and stays.             *)
ResumeRejectedMarking(t) ==
    /\ Stored(t)
    /\ refused' = refused \union {t}
    /\ UNCHANGED <<row, runs>>

ResumeRejected(t) ==
    /\ Stored(t)
    /\ row' = [row EXCEPT ![t] = "deleted"]
    /\ refused' = refused \union {t}
    /\ UNCHANGED runs

(* resume: the tool is gone; the row goes and nothing else happens.        *)
ToolNotFound(t) ==
    /\ ~buttonsOnly /\ Stored(t)
    /\ row' = [row EXCEPT ![t] = "deleted"]
    /\ UNCHANGED historyVars

PurgeExpired(t) ==
    /\ Stored(t)
    /\ row' = [row EXCEPT ![t] = "purged"]
    /\ UNCHANGED <<asked, shown, pending, goalVars, doing, mutexVars, historyVars, mishaps, fixedVars>>

-----------------------------------------------------------------------------
(* A turn of the conversation's queue.                                     *)

(* recordUserMessage passes through the mutex.                             *)
TurnOpens ==
    /\ doing["turn"] = Idle /\ line = {}
    /\ Do("turn", Opened)
    /\ UNCHANGED <<txnVars, goalVars, mutexVars, historyVars, mishaps, fixedVars>>

(* Not a short answer, or not one that processarTurno knows, or there is   *)
(* no goal that waits for one.                                             *)
TurnRoutes ==
    /\ doing["turn"] = Opened
    /\ Do("turn", Routed)
    /\ UNCHANGED <<txnVars, goalVars, mutexVars, historyVars, mishaps, fixedVars>>

(* A turn that changes nothing here, or that failed or was cancelled.      *)
TurnEnds ==
    /\ doing["turn"] \in {Opened, Routed, Agent}
    /\ Do("turn", Idle)
    /\ UNCHANGED <<txnVars, goalVars, mutexVars, historyVars, mishaps, fixedVars>>

(* expireStale: a goal that waits is abandoned by its age.                 *)
ExpireStale(g) ==
    /\ doing["turn"] = Opened
    /\ Live(g) /\ \A a \in Actors : ~Runs(a, g)
    /\ EndGoals({g})
    /\ UNCHANGED <<txnVars, goals, doing, mutexVars, historyVars, mishaps, fixedVars>>

(* AgentLoop asks for a tool of its own; without a goal.                   *)
TurnAsks ==
    /\ doing["turn"] \in {Routed, Agent}
    /\ CreateTransaction
    /\ pending' = asked' /\ shown' = shown \union {asked'}
    /\ Do("turn", Idle)
    /\ UNCHANGED <<goalVars, mutexVars, historyVars, mishaps, fixedVars>>

(* A new goal; the one that was there is abandoned.                        *)
TurnStartsGoal ==
    /\ doing["turn"] = Routed
    /\ goals < MaxGoals
    /\ goals' = goals + 1
    /\ status' = [g \in Goals |-> IF g = goals' THEN "running"
                                  ELSE IF Live(g) THEN "over" ELSE status[g]]
    /\ waitsFor' = [g \in Goals |-> IF Live(g) THEN 0 ELSE waitsFor[g]]
    /\ Do("turn", Loop(goals', "first"))
    /\ UNCHANGED <<txnVars, mutexVars, historyVars, mishaps, fixedVars>>

(* processarTurno: a short yes or no to the goal that waits.               *)
TextAnswersGoal(g) ==
    /\ ~buttonsOnly /\ doing["turn"] = Opened /\ status[g] = "blocked"
    /\ \/ /\ ResumeApproved("turn", waitsFor[g], "goal")
          /\ UNCHANGED goalVars
       \/ /\ ResumeRejected(waitsFor[g])
          /\ EndGoals(WaitingFor(waitsFor[g]))
          /\ Do("turn", Idle)
          /\ UNCHANGED goals
       \/ /\ ToolNotFound(waitsFor[g])
          /\ Do("turn", Agent)
          /\ UNCHANGED goalVars
       \/ /\ ~Stored(waitsFor[g])
          /\ Do("turn", Agent)
          /\ UNCHANGED <<row, goalVars, historyVars>>
    /\ UNCHANGED <<asked, shown, pending, mutexVars, mishaps, fixedVars>>

(* AgentLoop: a short yes or no to the pendency it remembers.              *)
TextAnswersAgent ==
    /\ ~buttonsOnly /\ doing["turn"] \in {Routed, Agent}
    /\ \/ /\ ResumeApproved("turn", pending, "agent")
          /\ UNCHANGED pending
       \/ /\ ResumeRejected(pending)
          /\ pending' = 0
          /\ Do("turn", Idle)
       \/ /\ ToolNotFound(pending)
          /\ UNCHANGED <<pending, doing>>
    /\ UNCHANGED <<asked, shown, goalVars, mutexVars, mishaps, fixedVars>>

-----------------------------------------------------------------------------
(* The callback of a button.                                               *)

Press(c, t) ==
    /\ doing[c] = Idle /\ t \in shown
    /\ Do(c, Pressed(t))
    /\ before' = [before EXCEPT ![c] = line]
    /\ line' = line \union {c}
    /\ UNCHANGED <<txnVars, goalVars, historyVars, mishaps, fixedVars>>

(* The wait took 45 s: the callback throws, and its promise is resolved    *)
(* though the one it waited for works on.                                  *)
GivesUp(c) ==
    /\ ~patient /\ Mishap
    /\ doing[c].at = "pressed" /\ before[c] # {}
    /\ Rests(c)
    /\ UNCHANGED <<txnVars, goalVars, historyVars, fixedVars>>

(* So does the record of a message that waited behind them, or the sweep   *)
(* of inactive sessions forgets the last promise.                          *)
LineIsForgotten ==
    /\ ~patient /\ Mishap
    /\ line # {} /\ line' = {}
    /\ UNCHANGED <<txnVars, goalVars, doing, before, historyVars, fixedVars>>

Forget(t) == pending' = IF pending = t THEN 0 ELSE pending

(* Mistake: the refusal leaves the goal that waits for the request.        *)
ClickRejectsLeavingGoal(c, t) ==
    /\ ResumeRejected(t)
    /\ Forget(t)
    /\ Rests(c)
    /\ UNCHANGED <<status, waitsFor>>

ClickRejects(c, t) ==
    /\ ResumeRejected(t)
    /\ EndGoals(WaitingFor(t))
    /\ Forget(t)
    /\ Rests(c)

ClickExpired(c, t) ==
    /\ ~Stored(t)
    /\ Forget(t)
    /\ Rests(c)
    /\ UNCHANGED <<row, status, waitsFor, historyVars>>

ClickFindsNoTool(c, t) ==
    /\ ToolNotFound(t)
    /\ Forget(t)
    /\ Rests(c)
    /\ UNCHANGED <<status, waitsFor>>

ClickApproves(c, t) ==
    /\ ResumeApproved(c, t, "goal")
    /\ UNCHANGED <<status, waitsFor, pending, mutexVars>>

(* Mistake: the callback does not wait for the mutex.                      *)
NeverWaits(c) == doing[c].at = "pressed"
HasMutex(c) == doing[c].at = "pressed" /\ before[c] = {}

Answer(c, t) == ClickApproves(c, t) \/ ClickRejects(c, t) \/ ClickExpired(c, t) \/ ClickFindsNoTool(c, t)
Click(c) ==
    /\ HasMutex(c)
    /\ Answer(c, doing[c].txn)
    /\ UNCHANGED <<asked, shown, goals, mishaps, fixedVars>>

-----------------------------------------------------------------------------
(* The tool returns, or fails: the row goes, and a goal that waits for the *)
(* request resumes.                                                        *)

(* Mistake: pending_txn_id is not cleared by the update of resumeGoal.     *)
ResumeGoalStillWaiting(a, g) ==
    /\ status' = [status EXCEPT ![g] = "running"]
    /\ Do(a, Loop(g, "resumed")) /\ UNCHANGED mutexVars
    /\ UNCHANGED waitsFor

ResumeGoal(a, g) ==
    /\ status' = [status EXCEPT ![g] = "running"]
    /\ waitsFor' = [waitsFor EXCEPT ![g] = 0]
    /\ Do(a, Loop(g, "resumed")) /\ UNCHANGED mutexVars

(* Mistake: the answer goes to AgentLoop without a look for a goal.        *)
ContinueWithoutGoal(a, t) ==
    /\ pending' = 0
    /\ Rests(a)
    /\ UNCHANGED <<status, waitsFor>>

(* Mistake: a callback that resumes a goal keeps AgentLoop's pendency.     *)
ContinueRemembering(a, t) ==
    \/ /\ doing[a].path = "goal"
       /\ \E g \in WaitingFor(t) : ResumeGoal(a, g)
       /\ UNCHANGED pending
    \/ /\ doing[a].path = "agent" \/ WaitingFor(t) = {}
       /\ pending' = 0
       /\ Rests(a)
       /\ UNCHANGED <<status, waitsFor>>

Continue(a, t) ==
    \/ /\ doing[a].path = "goal"
       /\ \E g \in WaitingFor(t) : ResumeGoal(a, g)
       /\ IF a # "turn" THEN Forget(t) ELSE UNCHANGED pending
    \/ /\ doing[a].path = "agent" \/ WaitingFor(t) = {}
       /\ pending' = IF a # "turn" \/ doing[a].path = "agent" THEN 0 ELSE pending
       /\ Rests(a)
       /\ UNCHANGED <<status, waitsFor>>

ToolEnds(a) ==
    /\ doing[a].at = "tool"
    /\ row' = [row EXCEPT ![doing[a].txn] = "deleted"]
    /\ Continue(a, doing[a].txn)
    /\ UNCHANGED <<asked, shown, goals, historyVars, mishaps, fixedVars>>

-----------------------------------------------------------------------------
(* GoalExecutionLoop, which `a` runs.                                      *)

(* A step needs authorization; a step AgentLoop carries out is remembered  *)
(* there too.  The update to "blocked" is refused for a goal abandoned     *)
(* since its last cycle, the rest of it is not.  The buttons go out with   *)
(* the answer of a first run; the answer of a resumed one is only a text.  *)
LoopNeedsAuth(a) ==
    /\ doing[a].at = "loop"
    /\ CreateTransaction
    /\ pending' \in {pending, asked'}
    /\ LET g == doing[a].goal
       IN  /\ status' = [status EXCEPT ![g] = IF @ = "running" THEN "blocked" ELSE @]
           /\ waitsFor' = [waitsFor EXCEPT ![g] = asked']
    /\ shown' = IF doing[a].kind = "resumed" THEN shown ELSE shown \union {asked'}
    /\ Rests(a)
    /\ UNCHANGED <<goals, historyVars, mishaps, fixedVars>>

LoopEnds(a) ==
    /\ doing[a].at = "loop"
    /\ EndGoals({doing[a].goal})
    /\ Rests(a)
    /\ UNCHANGED <<txnVars, goals, historyVars, mishaps, fixedVars>>

-----------------------------------------------------------------------------
(* cancelActiveGoal (/cancelar), outside the queue and the mutex.          *)
Cancel(g) ==
    /\ Live(g)
    /\ EndGoals({g})
    /\ UNCHANGED <<txnVars, goals, doing, mutexVars, historyVars, mishaps, fixedVars>>

(* The process restarts: every goal that is not over is abandoned.         *)
Restart ==
    /\ ~buttonsOnly /\ Mishap
    /\ doing' = [a \in Actors |-> Idle]
    /\ line' = {} /\ before' = [c \in Callbacks |-> {}]
    /\ pending' = 0
    /\ EndGoals({g \in Goals : Live(g)})
    /\ UNCHANGED <<asked, row, shown, goals, historyVars, fixedVars>>

Next ==
    \/ TurnOpens \/ TurnRoutes \/ TurnEnds \/ TurnAsks \/ TurnStartsGoal
    \/ TextAnswersAgent
    \/ \E g \in Goals : ExpireStale(g) \/ TextAnswersGoal(g) \/ Cancel(g)
    \/ \E t \in Txns : PurgeExpired(t) \/ \E c \in Callbacks : Press(c, t)
    \/ \E c \in Callbacks : Click(c) \/ GivesUp(c)
    \/ \E a \in Actors : ToolEnds(a) \/ LoopNeedsAuth(a) \/ LoopEnds(a)
    \/ LineIsForgotten \/ Restart

Spec == Init /\ [][Next]_vars

(* A tool returns or fails: exec_command ends a process that shows no      *)
(* activity, and resume turns an exception into a failure.                 *)
LiveSpec == Spec /\ \A a \in Actors : WF_vars(ToolEnds(a))

-----------------------------------------------------------------------------
(* Properties                                                              *)

Running(t) == \E a \in Actors : doing[a].at = "tool" /\ doing[a].txn = t

Doings(txns, known) ==
    {Idle, Opened, Routed, Agent}
        \union [at : {"pressed"}, txn : 1..txns]
        \union [at : {"tool"}, txn : 1..txns, path : {"goal", "agent"}]
        \union [at : {"loop"}, goal : 1..known, kind : {"first", "resumed"}]

TypeOK ==
    /\ asked \in 0..MaxTxns
    /\ row \in [Txns -> {"unused", "pending", "executing", "deleted", "purged"}]
    /\ \A t \in Txns : row[t] = "unused" <=> t > asked
    /\ shown \subseteq 1..asked /\ pending \in 0..asked
    /\ goals \in 0..MaxGoals
    /\ status \in [Goals -> {"none", "running", "blocked", "over"}]
    /\ waitsFor \in [Goals -> 0..asked]
    /\ \A g \in Goals : /\ status[g] = "none" <=> g > goals
                        /\ status[g] = "blocked" => waitsFor[g] # 0
    /\ doing \in [Actors -> Doings(asked, goals)]
    /\ runs \in [Txns -> Nat] /\ refused \subseteq 1..asked
    /\ line \subseteq Callbacks /\ before \in [Callbacks -> SUBSET Callbacks]
    /\ mishaps \in 0..MaxMishaps
    /\ buttonsOnly \in BOOLEAN /\ patient \in {FALSE, buttonsOnly}

(* The request as the user sees it: what is asked, refused, carried out;    *)
(* where a text or a restart may come between, or a wait that is given up,  *)
(* or the sweep, lets a callback in beside another, it is no unit.          *)
Step == [t \in Txns |->
            IF ~patient \/ row[t] = "unused" THEN "unasked"
            ELSE IF runs[t] > 1 THEN "run twice"
            ELSE IF Running(t) THEN "running"
            ELSE IF Stored(t) THEN "asked"
            ELSE "over"]

Promise == INSTANCE AuthorizedStep WITH Steps <- Txns, step <- Step
StepIsOneUnit == Promise!Spec

(* ResumeGoal: one loop at a time runs a goal, though a text and a button, *)
(* or two buttons, may both have approved its request.                     *)
OneLoopPerGoal ==
    \A g \in Goals : \A a, b \in Actors : Runs(a, g) /\ Runs(b, g) => a = b

(* ResumeRejected: the tool of a request the user refused is not started.  *)
RefusedNeverRuns ==
    [][\A t \in refused : runs'[t] = runs[t]]_vars

(* A goal that waits can still be answered: its request is stored, or was  *)
(* purged by its age (getByTxnId, after esquecerAutorizacao; buttons only, *)
(* and no tool is switched off meanwhile).                                 *)
WaitingGoalHasRequest ==
    buttonsOnly => \A g \in Goals : status[g] = "blocked" =>
        Stored(waitsFor[g]) \/ (waitsFor[g] # 0 /\ row[waitsFor[g]] = "purged")

(* esquecerAutorizacao: AgentLoop remembers no request that was answered.  *)
PendingIsOpen ==
    buttonsOnly /\ pending # 0 => Stored(pending) \/ row[pending] = "purged"

(* A goal whose request is being carried out does not wait for it forever. *)
ApprovedGoalContinues ==
    \A g \in Goals : \A t \in Txns :
        (buttonsOnly /\ status[g] = "blocked" /\ waitsFor[g] = t /\ Running(t)) ~>
            (waitsFor[g] # t)
=============================================================================
