------------------------------- MODULE GoalLoop -------------------------------
(***************************************************************************)
(* One goal from its creation to its end: its row (loop/GoalStore.ts) and  *)
(* the loop that plans it, runs its steps, judges it and plans it again    *)
(* (loop/GoalExecutionLoop.ts).  The planner, the judges, the tools and    *)
(* the agent are what the loop awaits: each may answer anything it can     *)
(* answer, or throw.  While it waits the user may cancel or add to the     *)
(* request, and the process may restart.  Blockers, hints, criteria and    *)
(* attempts are left out, but for what the loop decides by them.           *)
(***************************************************************************)
EXTENDS Integers, Sequences, FiniteSets

CONSTANTS Files,        \* files the goal may produce and send
          PlanSizes,    \* bound: lengths of the planner's plans
          MaxRetry,     \* GOAL_LIMITS.MAX_RETRY_BUDGET
          MaxReplan,    \* GOAL_LIMITS.MAX_REPLAN_BUDGET
          MaxCycles,    \* GOAL_LIMITS.MAX_CYCLES
          Milestones,   \* bound: length of the roadmap of a construction
          MaxSupplements, MaxResumes, \* bounds: what the user adds, approvals
          MaxCrashes    \* bound: restarts of the process

ASSUME LimitsAssumption ==
    /\ MaxRetry \in Nat /\ MaxReplan \in Nat /\ MaxCycles \in Nat \ {0}
    /\ Milestones \in Nat \ {0} /\ PlanSizes \subseteq Nat \ {0}
    /\ MaxSupplements \in Nat /\ MaxResumes \in Nat /\ MaxCrashes \in Nat

VARIABLES
    status, plan, sent, tried,   \* the row: currentPlan, sentArtifacts, strategiesTried
    retryBudget, replanBudget,
    construction, ahead,  \* the row: isConstruction, milestones after the current one
    request,      \* the row: pending_txn_id is set
    proved,       \* the row: steps with a successful attempt of this generation
    supplements,  \* GoalStore.supplements
    pc,           \* what the loop awaits
    answer,       \* the CycleResult of the step that ran
    call,         \* planWithSpiral: the replanBudget of the goal it was given,
                  \* and where the loop goes on
    idle,         \* ciclosSemAvanco
    replans,      \* totalReplans of this run of the loop
    unsent,       \* sends of a validated goal that failed
    result,       \* what the last run of the loop returned
    added, resumes, crashes,  \* history: supplements, approvals, restarts
    spent, granted            \* history: calls of replan, bonuses granted

row == <<status, plan, sent, tried, retryBudget, replanBudget, construction, ahead, request, proved>>
loop == <<pc, answer, call, idle, replans, unsent, result>>
history == <<added, resumes, crashes, spent, granted>>
vars == <<row, supplements, loop, history>>

Terminal == {"completed", "failed", "abandoned"}
Statuses == {"active", "executing", "blocked", "replanning"} \union Terminal

(* A step is run by the agent or by a named tool, or sends a file; a send   *)
(* the agent put off remembers the step it comes from, and whether a replan *)
(* carried it over into another plan.                                       *)
Kinds == [kind : {"agent", "tool"}] \union [kind : {"send"}, file : Files]
Planned(what, n) == [what |-> what, id |-> n, origin |-> 0, carried |-> FALSE, state |-> "pending"]
PutOff(f, step) == [what |-> [kind |-> "send", file |-> f], id |-> f,
                    origin |-> step.id, carried |-> FALSE, state |-> "pending"]

(* GoalPlanner numbers the steps of every plan from 1.                      *)
PlannerPlans == UNION {[1..n -> Kinds] : n \in PlanSizes}
Numbered(kinds) == [n \in DOMAIN kinds |-> Planned(kinds[n], n)]

IsSend(s) == s.what.kind = "send"
IsPending(s) == s.state = "pending"
IsCompleted(s) == s.state = "completed"

(* The steps of a plan at these places, in their order (plan.filter).       *)
Those(p, places) ==
    LET those[n \in 0..Len(p)] ==
            IF n = 0 THEN <<>>
            ELSE IF n \in places THEN Append(those[n - 1], p[n]) ELSE those[n - 1]
    IN  those[Len(p)]

Pending(p) == Those(p, {i \in DOMAIN p : IsPending(p[i])})
Completed(p) == Those(p, {i \in DOMAIN p : IsCompleted(p[i])})
PendingSends(p) == Those(p, {i \in DOMAIN p : IsPending(p[i]) /\ IsSend(p[i])})
FilesOf(p) == {p[i].what.file : i \in {j \in DOMAIN p : IsSend(p[j])}}

(* pendingDeferredSends: sends put off that another plan does not make.     *)
Kept(old, new) ==
    Those(old, {i \in DOMAIN old : /\ IsPending(old[i]) /\ IsSend(old[i]) /\ old[i].origin # 0
                                   /\ old[i].what.file \notin FilesOf(new) \union sent})
Carry(old, new) == LET kept == Kept(old, new)
                   IN  [i \in DOMAIN kept |-> [kept[i] EXCEPT !.carried = TRUE]]

-----------------------------------------------------------------------------
(* GoalStore                                                               *)

Allowed(from, to) ==
    \/ from = to
    \/ from = "active" /\ to \in {"executing", "replanning", "abandoned"}
    \/ from = "executing" /\ to \in {"blocked", "replanning"} \union Terminal
    \/ from = "blocked" /\ to \in {"executing", "replanning", "failed", "abandoned"}
    \/ from = "replanning" /\ to \in {"executing", "blocked"} \union Terminal

(* update: a refused status is dropped, the rest of the patch is written.   *)
StatusAfter(from, to) == IF Allowed(from, to) THEN to ELSE from

(* setStatus: refused, or written whole.                                    *)
SetStatus(to) ==
    /\ status' = StatusAfter(status, to)
    /\ request' = (request /\ ~(Allowed(status, to) /\ to \in Terminal))

(* addBlocker, then an update to a status that is allowed from "blocked".   *)
BlockedThen(to) == StatusAfter(StatusAfter(status, "blocked"), to)

Less(n) == IF n = 0 THEN 0 ELSE n - 1

(* markStepDone *)
Done(p, s) == [i \in DOMAIN p |-> IF p[i].id = s.id THEN [p[i] EXCEPT !.state = "completed"] ELSE p[i]]
MarkStepDone(s) == plan' = Done(plan, s)

NoAnswer == [outcome |-> "none", defers |-> {}]
NoCall == [budget |-> 0, then |-> "cycle"]

-----------------------------------------------------------------------------
Init ==
    /\ status = "active" /\ plan = <<>> /\ sent = {} /\ tried = {}
    /\ retryBudget = MaxRetry /\ replanBudget = MaxReplan
    /\ construction \in BOOLEAN /\ ahead = IF construction THEN Milestones - 1 ELSE 0
    /\ request = FALSE /\ proved = {}
    /\ supplements = FALSE
    /\ pc = "new" /\ answer = NoAnswer /\ call = NoCall /\ idle = 0 /\ replans = 0
    /\ unsent = {} /\ result = "none"
    /\ added = 0 /\ resumes = 0 /\ crashes = 0 /\ spent = 0 /\ granted = 0

Return(what) == pc' = "over" /\ result' = what

UnchangedBudgets == UNCHANGED <<retryBudget, replanBudget>>
UnchangedDelivery == UNCHANGED <<sent, proved>>
UnchangedControl == UNCHANGED <<answer, call, idle, replans, unsent>>

Running == {"planning", "cycle", "step", "handling", "after", "replanning", "validating",
            "nextMilestone", "sending", "lastValidation", "delivering"}

-----------------------------------------------------------------------------
(* executeGoal *)

ExecuteGoal ==
    /\ pc = "new"
    /\ pc' = "planning"
    /\ status' = StatusAfter(status, "replanning")
    /\ UNCHANGED <<plan, sent, tried, construction, ahead, request, proved, supplements, result, history>>
    /\ UnchangedBudgets /\ UnchangedControl

(* The risk analyser finds that the plan cannot work.                       *)
FirstPlanBlocked ==
    /\ pc = "planning"
    /\ SetStatus("failed")
    /\ Return("failed")
    /\ UNCHANGED <<plan, sent, tried, construction, ahead, proved, supplements, history>>
    /\ UnchangedBudgets /\ UnchangedControl

(* rejectPlanWithoutAnswerStep: the loop begins without a plan.             *)
FirstPlanWithoutAnswer ==
    /\ pc = "planning" /\ ~construction
    /\ plan' = Carry(plan, <<>>)
    /\ status' = BlockedThen("replanning")
    /\ pc' = "cycle"
    /\ UNCHANGED <<sent, tried, construction, ahead, request, proved, supplements, result, history>>
    /\ UnchangedBudgets /\ UnchangedControl

FirstPlan ==
    /\ pc = "planning"
    /\ \E kinds \in PlannerPlans : plan' = Numbered(kinds)
    /\ status' = StatusAfter(status, "executing")
    /\ pc' = "cycle"
    /\ UNCHANGED <<construction, ahead, sent, tried, request, proved, supplements, result, history>>
    /\ UnchangedBudgets /\ UnchangedControl

(* resumeGoal: the approved step ran outside of the loop.                   *)
ResumeGoal ==
    /\ pc = "over" /\ status = "blocked" /\ request
    /\ resumes < MaxResumes /\ resumes' = resumes + 1
    /\ IF Pending(plan) # <<>>
       THEN LET s == Head(Pending(plan))
            IN  /\ MarkStepDone(s)
                /\ proved' = proved \union {s.id}
                /\ retryBudget' = Less(retryBudget)
       ELSE UNCHANGED <<plan, proved, retryBudget>>
    /\ status' = "executing" /\ request' = FALSE
    /\ pc' = "cycle" /\ idle' = 0 /\ replans' = 0 /\ result' = "none"
    /\ UNCHANGED <<sent, tried, replanBudget, construction, ahead, supplements, answer, call, unsent>>
    /\ UNCHANGED <<added, crashes, spent, granted>>

-----------------------------------------------------------------------------
(* runLoopInternal: the start of a cycle                                    *)

OnlySendsLeft == \A i \in DOMAIN plan : IsPending(plan[i]) => IsSend(plan[i])

(* Mistake: a plan without steps left is not taken for done.                *)
BeginCycleStepping ==
    /\ pc = "cycle" /\ idle < MaxCycles /\ status # "abandoned"
    /\ pc' = "step"
    /\ UNCHANGED <<row, supplements, result, history>> /\ UnchangedControl

StopsAbandoned ==
    /\ pc = "cycle" /\ idle < MaxCycles /\ status = "abandoned"
    /\ Return("failed")
    /\ UNCHANGED <<row, supplements, history>> /\ UnchangedControl

BeginCycle ==
    /\ pc = "cycle" /\ idle < MaxCycles /\ status # "abandoned"
    /\ pc' = IF OnlySendsLeft THEN "validating" ELSE "step"
    /\ UNCHANGED <<row, supplements, result, history>> /\ UnchangedControl

(* No abandonment is looked for here.                                       *)
CyclesSpent ==
    /\ pc = "cycle" /\ idle >= MaxCycles
    /\ pc' = IF Pending(plan) = <<>> THEN "lastValidation" ELSE "delivering"
    /\ unsent' = {}
    /\ UNCHANGED <<row, supplements, answer, call, idle, replans, result, history>>

-----------------------------------------------------------------------------
(* runStepExecutionPhase: executeStep and the judge of its output           *)

Current == Head(Pending(plan))
Answers(outcome, files) == answer' = [outcome |-> outcome, defers |-> files]
ByAgent(s) == s.what.kind = "agent"

(* The goal was abandoned while the step ran: what it did is recorded.      *)
StepOfAbandoned ==
    /\ pc = "step" /\ status = "abandoned"
    /\ retryBudget' = Less(retryBudget)
    /\ Return("failed")
    /\ UNCHANGED <<status, plan, sent, tried, replanBudget, construction, ahead, request, proved>>
    /\ UNCHANGED <<supplements, history>> /\ UnchangedControl

(* An agent sends nothing in a goal: its sends are put off, but for a file  *)
(* the delivery guard gave out.  The attempt of an agent counts as proved   *)
(* when no tool failed in it or the judge of its output is sure of it.      *)
StepSucceeds ==
    /\ pc = "step" /\ status # "abandoned"
    /\ LET s == Current
       IN  \E defers \in {{}} \union {{f} : f \in IF ByAgent(s) THEN Files ELSE {}} :
             /\ Answers("success", defers)
             /\ retryBudget' = IF defers = {} THEN Less(retryBudget) ELSE Less(Less(retryBudget))
             /\ \/ proved' = proved \union {s.id}
                \/ ByAgent(s) /\ UNCHANGED proved
             /\ \/ UNCHANGED sent
                \/ ByAgent(s) /\ \E f \in Files : sent' = sent \union {f}
    /\ pc' = "handling"
    /\ UNCHANGED <<status, plan, tried, replanBudget, construction, ahead, request, supplements>>
    /\ UNCHANGED <<call, idle, replans, unsent, result, history>>

(* The judge rejects the output: a retry only when it can help.             *)
StepMismatches ==
    /\ pc = "step" /\ status # "abandoned"
    /\ retryBudget' = Less(retryBudget)
    /\ \/ ByAgent(Current) /\ retryBudget' > 0 /\ Answers("partial", {})
       \/ Answers("blocked", {})
    /\ pc' = "handling"
    /\ UNCHANGED <<status, plan, sent, tried, replanBudget, construction, ahead, request, proved, supplements>>
    /\ UNCHANGED <<call, idle, replans, unsent, result, history>>

(* evaluate, handleGroundingBlock, handleProviderFailure, or a request for  *)
(* authorization: before the step, by the agent, or because the tool was    *)
(* denied a permission, and then there is no transaction to answer.         *)
StepFails ==
    /\ pc = "step" /\ status # "abandoned"
    /\ \/ retryBudget > 0 /\ Answers("partial", {})
       \/ Answers("blocked", {}) \/ Answers("failed", {})
       \/ Answers("asks", {}) \/ Answers("denied", {})
       \/ "install" \notin tried /\ Answers("dependency", {})
    /\ retryBudget' \in {retryBudget, Less(retryBudget)}
    /\ pc' = "handling"
    /\ UNCHANGED <<status, plan, sent, tried, replanBudget, construction, ahead, request, proved, supplements>>
    /\ UNCHANGED <<call, idle, replans, unsent, result, history>>

(* The file a modification starts from is empty.                            *)
SourceIsEmpty ==
    /\ pc = "step" /\ status # "abandoned" /\ Current.what.kind = "tool"
    /\ retryBudget' = Less(retryBudget)
    /\ SetStatus("failed")
    /\ Return("failed")
    /\ UNCHANGED <<plan, sent, tried, replanBudget, construction, ahead, proved, supplements, history>>
    /\ UnchangedControl

-----------------------------------------------------------------------------
(* What a cycle makes of the answer                                         *)

Handles(outcome) == pc = "handling" /\ answer.outcome = outcome

(* Sends of an earlier try of the same step give way to those of this one.  *)
Supersede(p, s) ==
    Those(p, {i \in DOMAIN p : ~(IsPending(p[i]) /\ IsSend(p[i]) /\ p[i].origin = s.id)})

HandleSuccess ==
    /\ Handles("success")
    /\ LET s == Current
           done == Done(plan, s)
           new == {f \in answer.defers : f \notin FilesOf(PendingSends(done)) \union sent}
       IN  /\ plan' = IF new = {} THEN done
                      ELSE Append(Supersede(done, s), PutOff(CHOOSE f \in new : TRUE, s))
           /\ sent' = IF IsSend(s) THEN sent \union {s.what.file} ELSE sent
    /\ pc' = "after"
    /\ UNCHANGED <<status, tried, construction, ahead, request, proved, supplements>>
    /\ UnchangedBudgets /\ UNCHANGED <<answer, call, idle, replans, unsent, result, history>>

(* Mistake: the blocker blocks the goal.                                    *)
HandlePartialBlocking ==
    /\ Handles("partial")
    /\ retryBudget' = Less(retryBudget)
    /\ status' = StatusAfter(status, "blocked")
    /\ idle' = idle + 1
    /\ pc' = "after"
    /\ UNCHANGED <<plan, sent, tried, replanBudget, construction, ahead, request, proved>>
    /\ UNCHANGED <<supplements, answer, call, replans, unsent, result, history>>

(* Mistake: a retry is no cycle without progress.                           *)
HandlePartialUncounted ==
    /\ Handles("partial")
    /\ pc' = "after"
    /\ UNCHANGED <<row, supplements, answer, call, idle, replans, unsent, result, history>>

(* recordBlocker: the goal stays in the status it has.                      *)
HandlePartial ==
    /\ Handles("partial")
    /\ retryBudget' = Less(retryBudget)
    /\ idle' = idle + 1
    /\ pc' = "after"
    /\ UNCHANGED <<status, plan, sent, tried, replanBudget, construction, ahead, request, proved>>
    /\ UNCHANGED <<supplements, answer, call, replans, unsent, result, history>>

(* Without confirmations the step counts as done and is not run.            *)
AutoApproved ==
    /\ answer.outcome \in {"asks", "denied"} /\ pc = "handling"
    /\ MarkStepDone(Current)
    /\ proved' \in {proved, proved \union {Current.id}}
    /\ pc' = "after"
    /\ UNCHANGED <<status, sent, tried, construction, ahead, request, supplements>>
    /\ UnchangedBudgets /\ UNCHANGED <<answer, call, idle, replans, unsent, result, history>>

HandleNeedsAuth ==
    /\ answer.outcome \in {"asks", "denied"} /\ pc = "handling"
    /\ status' = StatusAfter(status, "blocked")
    /\ request' = (answer.outcome = "asks")
    /\ Return("waits")
    /\ UNCHANGED <<plan, sent, tried, construction, ahead, proved, supplements, history>>
    /\ UnchangedBudgets /\ UnchangedControl

InstallId == -1
VerifyId == -2

HandleNeedsDependency ==
    /\ Handles("dependency")
    /\ tried' = tried \union {"install"}
    /\ \E install \in {"tool", "agent"}, verifies \in BOOLEAN :
         /\ verifies => install = "tool"
         /\ plan' = Completed(plan)
                    \o <<Planned([kind |-> install], InstallId)>>
                    \o (IF verifies THEN <<Planned([kind |-> "tool"], VerifyId)>> ELSE <<>>)
                    \o Pending(plan)
    /\ idle' = idle + 1
    /\ pc' = "after"
    /\ UNCHANGED <<status, sent, construction, ahead, request, proved, supplements>>
    /\ UnchangedBudgets /\ UNCHANGED <<answer, call, replans, unsent, result, history>>

(* planWithSpiral is called with a goal whose budget is that.               *)
Respiral(budget, then) ==
    /\ pc' = "replanning"
    /\ call' = [budget |-> budget, then |-> then]
    /\ spent' = spent + 1

(* Mistake: the budget that a replan costs is not written.                  *)
HandleBlockedFree ==
    /\ Handles("blocked") /\ replanBudget > 0
    /\ status' = BlockedThen("replanning")
    /\ idle' = idle + 1
    /\ Respiral(replanBudget, "after")
    /\ UNCHANGED <<plan, sent, tried, replanBudget, retryBudget, construction, ahead, request, proved, supplements>>
    /\ UNCHANGED <<answer, replans, unsent, result, added, resumes, crashes, granted>>

(* The goal planWithSpiral gets was read before the budget went down.       *)
HandleBlocked ==
    /\ Handles("blocked") /\ replanBudget > 0
    /\ status' = BlockedThen("replanning")
    /\ replanBudget' = replanBudget - 1
    /\ idle' = idle + 1
    /\ Respiral(replanBudget, "after")
    /\ UNCHANGED <<plan, sent, tried, retryBudget, construction, ahead, request, proved, supplements>>
    /\ UNCHANGED <<answer, replans, unsent, result, added, resumes, crashes, granted>>

HandleBlockedSpent ==
    /\ Handles("blocked") /\ replanBudget = 0
    /\ status' = StatusAfter(status, "blocked")
    /\ pc' = "delivering" /\ unsent' = {}
    /\ UNCHANGED <<plan, sent, tried, construction, ahead, request, proved, supplements>>
    /\ UnchangedBudgets /\ UNCHANGED <<answer, call, idle, replans, result, history>>

HandleFailed ==
    /\ Handles("failed")
    /\ SetStatus("failed")
    /\ pc' = "delivering" /\ unsent' = {}
    /\ UNCHANGED <<plan, sent, tried, construction, ahead, proved, supplements>>
    /\ UnchangedBudgets /\ UNCHANGED <<answer, call, idle, replans, result, history>>

(* The end of a cycle: what the user added meanwhile.                       *)
NoSupplement ==
    /\ pc = "after" /\ ~supplements
    /\ pc' = "cycle" /\ answer' = NoAnswer
    /\ UNCHANGED <<row, supplements, call, idle, replans, unsent, result, history>>

ReplanForSupplement ==
    /\ pc = "after" /\ supplements /\ replanBudget > 0
    /\ supplements' = FALSE
    /\ status' = StatusAfter(status, "replanning")
    /\ replanBudget' = replanBudget - 1
    /\ Respiral(replanBudget - 1, "cycle")
    /\ answer' = NoAnswer
    /\ UNCHANGED <<plan, sent, tried, retryBudget, construction, ahead, request, proved>>
    /\ UNCHANGED <<idle, replans, unsent, result, added, resumes, crashes, granted>>

SupplementAsFeedback ==
    /\ pc = "after" /\ supplements /\ replanBudget = 0
    /\ supplements' = FALSE
    /\ pc' = "cycle" /\ answer' = NoAnswer
    /\ UNCHANGED <<row, call, idle, replans, unsent, result, history>>

-----------------------------------------------------------------------------
(* planWithSpiral, once the planner and the risk analyser have answered     *)

GoesOn == pc' = call.then /\ replans' = replans + 1

(* A plan the analyser blocks costs another replan, counted from the goal   *)
(* as it was given or, when it was read again, as it is; the plan is used.  *)
Budgets == {call.budget, replanBudget}
SpiralBlocked(risky, base) ==
    [status |-> IF risky THEN StatusAfter(StatusAfter(status, "replanning"), "blocked") ELSE status,
     budget |-> IF risky THEN Less(base) ELSE replanBudget]

PlanRejected ==
    /\ pc = "replanning"
    /\ \E base \in Budgets : replanBudget' = Less(base)
    /\ status' = BlockedThen("replanning")
    /\ plan' = Carry(plan, <<>>)
    /\ GoesOn
    /\ UNCHANGED <<sent, tried, retryBudget, construction, ahead, request, proved, supplements>>
    /\ UNCHANGED <<answer, call, idle, unsent, result, history>>

PlanWithoutAnswer ==
    /\ pc = "replanning" /\ ~construction
    /\ \E risky \in BOOLEAN, base \in Budgets :
         replanBudget' = SpiralBlocked(risky, base).budget
    /\ status' = BlockedThen("replanning")
    /\ plan' = Carry(plan, <<>>)
    /\ GoesOn
    /\ UNCHANGED <<sent, tried, retryBudget, construction, ahead, request, proved, supplements>>
    /\ UNCHANGED <<answer, call, idle, unsent, result, history>>

(* A plan that is no new strategy is replaced by one step of the agent.     *)
FreeFormId == -3

Replan ==
    /\ pc = "replanning"
    /\ \E risky \in BOOLEAN, base \in Budgets :
         LET after == SpiralBlocked(risky, base)
         IN  /\ status' = StatusAfter(after.status, "executing")
             /\ replanBudget' = after.budget
    /\ \E new \in {Numbered(kinds) : kinds \in PlannerPlans}
                  \union {<<Planned([kind |-> "agent"], FreeFormId)>>} :
         plan' = new \o Carry(plan, new)
    /\ retryBudget' = MaxRetry /\ proved' = {}
    /\ GoesOn
    /\ UNCHANGED <<construction, ahead, sent, tried, request, supplements>>
    /\ UNCHANGED <<answer, call, idle, unsent, result, history>>

-----------------------------------------------------------------------------
(* runValidationPhase *)

(* runValidationAchievedPhase: the next milestone starts from no plan.      *)
MilestoneReached ==
    /\ pc = "validating" /\ ahead > 0
    /\ ahead' = ahead - 1 /\ plan' = <<>>
    /\ pc' = "nextMilestone"
    /\ UNCHANGED <<status, sent, tried, construction, request, proved, supplements>>
    /\ UnchangedBudgets /\ UnchangedControl /\ UNCHANGED <<result, history>>

MilestonePlanBlocked ==
    /\ pc = "nextMilestone"
    /\ SetStatus("failed")
    /\ Return("failed")
    /\ UNCHANGED <<plan, sent, tried, construction, ahead, proved, supplements, history>>
    /\ UnchangedBudgets /\ UnchangedControl

MilestonePlan ==
    /\ pc = "nextMilestone"
    /\ \E kinds \in PlannerPlans : plan' = Numbered(kinds)
    /\ status' = StatusAfter(status, "executing")
    /\ proved' = {}
    /\ idle' = idle + 1 /\ pc' = "cycle"
    /\ UNCHANGED <<construction, ahead, sent, tried, request, supplements>>
    /\ UnchangedBudgets /\ UNCHANGED <<answer, call, replans, unsent, result, history>>

GoalAchieved ==
    /\ pc = "validating" /\ ahead = 0
    /\ pc' = "sending" /\ unsent' = {}
    /\ UNCHANGED <<row, supplements, answer, call, idle, replans, result, history>>

(* The sends put off until now, in the order of the plan.                   *)
ToSend == LET sends == PendingSends(plan)
          IN  Those(sends, {i \in DOMAIN sends : sends[i].id \notin unsent})

(* The file of a send that does not exist may be replaced by another one.   *)
SendOne ==
    /\ pc = "sending" /\ ToSend # <<>>
    /\ LET s == Head(ToSend)
       IN  \E f \in {s.what.file} \union (Files \ sent) :
             \/ /\ f \notin sent /\ sent' = sent \union {f}
                /\ MarkStepDone(s) /\ UNCHANGED unsent
             \/ /\ f \in sent
                /\ MarkStepDone(s) /\ UNCHANGED <<sent, unsent>>
             \/ /\ f \notin sent
                /\ unsent' = unsent \union {s.id} /\ UNCHANGED <<sent, plan>>
    /\ retryBudget' \in {retryBudget, Less(retryBudget)}
    /\ UNCHANGED <<status, tried, replanBudget, construction, ahead, request, proved, supplements>>
    /\ UNCHANGED <<pc, answer, call, idle, replans, result, history>>

AllSent ==
    /\ pc = "sending" /\ ToSend = <<>>
    /\ IF unsent = {} THEN SetStatus("completed") /\ Return("success")
                      ELSE SetStatus("failed") /\ Return("failed")
    /\ UNCHANGED <<plan, sent, tried, construction, ahead, proved, supplements, history>>
    /\ UnchangedBudgets /\ UnchangedControl

(* runValidationNotAchievedPhase: files found on the disk are sent first,   *)
(* once in a goal.                                                          *)
FoundId == -4

DeliverablesFound ==
    /\ pc = "validating" /\ "deliverables" \notin tried
    /\ \E f \in Files \ (sent \union FilesOf(PendingSends(plan))) :
         plan' = Append(Completed(plan),
                        Planned([kind |-> "send", file |-> f], FoundId))
    /\ tried' = tried \union {"deliverables"}
    /\ status' = StatusAfter(status, "executing")
    /\ idle' = idle + 1 /\ pc' = "cycle"
    /\ UNCHANGED <<sent, construction, ahead, request, proved, supplements>>
    /\ UnchangedBudgets /\ UNCHANGED <<answer, call, replans, unsent, result, history>>

NotAchieved ==
    /\ pc = "validating" /\ replanBudget > 0
    /\ status' = BlockedThen("replanning")
    /\ replanBudget' = replanBudget - 1
    /\ idle' = idle + 1
    /\ Respiral(replanBudget, "cycle")
    /\ UNCHANGED <<plan, sent, tried, retryBudget, construction, ahead, request, proved, supplements>>
    /\ UNCHANGED <<answer, replans, unsent, result, added, resumes, crashes, granted>>

(* The budget is spent and most of the plan is done.                        *)
BonusReplan ==
    /\ pc = "validating" /\ replanBudget = 0 /\ replans <= 1
    /\ granted' = granted + 1
    /\ status' = StatusAfter(StatusAfter(status, "replanning"), "blocked")
    /\ replanBudget' = 1
    /\ idle' = idle + 1
    /\ Respiral(1, "cycle")
    /\ UNCHANGED <<plan, sent, tried, retryBudget, construction, ahead, request, proved, supplements>>
    /\ UNCHANGED <<answer, replans, unsent, result, added, resumes, crashes>>

BudgetSpent ==
    /\ pc = "validating" /\ replanBudget = 0
    /\ SetStatus("failed")
    /\ pc' = "delivering" /\ unsent' = {}
    /\ UNCHANGED <<plan, sent, tried, construction, ahead, proved, supplements>>
    /\ UnchangedBudgets /\ UNCHANGED <<answer, call, idle, replans, result, history>>

(* After the last cycle: one more validation when nothing is left to do.    *)
LastValidation ==
    /\ pc = "lastValidation"
    /\ \/ /\ ahead = 0
          /\ SetStatus("completed") /\ Return("success")
       \/ pc' = "delivering" /\ UNCHANGED <<status, request, result>>
    /\ UNCHANGED <<plan, sent, tried, construction, ahead, proved, supplements, history>>
    /\ UnchangedBudgets /\ UnchangedControl

(* entregarProntosAntesDaFalha: sends whose step succeeded in this plan.    *)
Ready == {i \in DOMAIN plan : /\ IsPending(plan[i]) /\ IsSend(plan[i])
                              /\ plan[i].origin \in proved
                              /\ plan[i].what.file \notin sent
                              /\ plan[i].id \notin unsent}

DeliverReady ==
    /\ pc = "delivering"
    /\ \E i \in Ready :
         \/ /\ sent' = sent \union {plan[i].what.file}
            /\ MarkStepDone(plan[i]) /\ UNCHANGED unsent
         \/ /\ unsent' = unsent \union {plan[i].id}
            /\ UNCHANGED <<sent, plan>>
    /\ retryBudget' \in {retryBudget, Less(retryBudget)}
    /\ UNCHANGED <<status, tried, replanBudget, construction, ahead, request, proved, supplements>>
    /\ UNCHANGED <<pc, answer, call, idle, replans, result, history>>

FailAfterDelivery ==
    /\ pc = "delivering" /\ Ready = {}
    /\ SetStatus("failed")
    /\ Return("failed")
    /\ UNCHANGED <<plan, sent, tried, construction, ahead, proved, supplements, history>>
    /\ UnchangedBudgets /\ UnchangedControl

-----------------------------------------------------------------------------
(* What happens meanwhile                                                   *)

(* The planner or a judge throws: the goal stays as it is.                  *)
LoopThrows ==
    /\ pc \in {"planning", "replanning", "validating", "nextMilestone", "lastValidation"}
    /\ Return("threw")
    /\ UNCHANGED <<row, supplements, history>> /\ UnchangedControl

(* Stop, /cancelar, another request, or expireStale, which spares the goals *)
(* whose loop runs.                                                         *)
Abandon ==
    /\ status \notin Terminal
    /\ SetStatus("abandoned")
    /\ UNCHANGED <<plan, sent, tried, construction, ahead, proved, supplements, loop, history>>
    /\ UnchangedBudgets

(* abortGoalFromAuth *)
Refuse ==
    /\ pc = "over" /\ status = "blocked" /\ request
    /\ status' = "failed" /\ request' = FALSE
    /\ UNCHANGED <<plan, sent, tried, construction, ahead, proved, supplements, loop, history>>
    /\ UnchangedBudgets

(* trySupplementActiveGoal *)
Supplement ==
    /\ status \notin Terminal /\ ~(status = "blocked" /\ request)
    /\ added < MaxSupplements /\ added' = added + 1
    /\ supplements' = TRUE
    /\ UNCHANGED <<row, loop, resumes, crashes, spent, granted>>

(* A restart loses the loop and what was added; the next process abandons   *)
(* every goal that is not over before it takes a message.                   *)
Crash ==
    /\ crashes < MaxCrashes /\ crashes' = crashes + 1
    /\ pc \in Running \union {"over"}
    /\ SetStatus("abandoned")
    /\ pc' = "down" /\ supplements' = FALSE
    /\ answer' = NoAnswer /\ call' = NoCall /\ unsent' = {} /\ result' = "none"
    /\ idle' = 0 /\ replans' = 0
    /\ UNCHANGED <<plan, sent, tried, construction, ahead, proved>>
    /\ UnchangedBudgets /\ UNCHANGED <<added, resumes, spent, granted>>

RunStep == StepOfAbandoned \/ StepSucceeds \/ StepMismatches \/ StepFails \/ SourceIsEmpty
Handle ==
    \/ HandleSuccess \/ HandlePartial \/ AutoApproved \/ HandleNeedsAuth \/ HandleNeedsDependency
    \/ HandleBlocked \/ HandleBlockedSpent \/ HandleFailed
Validate ==
    \/ MilestoneReached \/ MilestonePlanBlocked \/ MilestonePlan
    \/ GoalAchieved \/ SendOne \/ AllSent
    \/ DeliverablesFound \/ NotAchieved \/ BonusReplan \/ BudgetSpent
    \/ LastValidation \/ DeliverReady \/ FailAfterDelivery

Work ==
    \/ FirstPlanBlocked \/ FirstPlanWithoutAnswer \/ FirstPlan
    \/ StopsAbandoned \/ BeginCycle \/ CyclesSpent
    \/ RunStep \/ Handle
    \/ NoSupplement \/ ReplanForSupplement \/ SupplementAsFeedback
    \/ PlanRejected \/ PlanWithoutAnswer \/ Replan
    \/ Validate

Next ==
    \/ Work \/ LoopThrows
    \/ ExecuteGoal \/ ResumeGoal
    \/ Abandon \/ Refuse \/ Supplement \/ Crash

(* What the loop awaits answers, or throws.                                 *)
Spec == Init /\ [][Next]_vars /\ WF_vars(Work)

-----------------------------------------------------------------------------
(* Every variable stays in its type (the columns of the goals table and the *)
(* local variables of runLoopInternal).                                     *)
ControlOK ==
    /\ status \in Statuses /\ request \in BOOLEAN
    /\ retryBudget \in 0..MaxRetry /\ replanBudget \in Nat
    /\ construction \in BOOLEAN /\ ahead \in 0..(Milestones - 1) /\ idle \in Nat /\ replans \in Nat
    /\ pc \in Running \union {"new", "over", "down"}
    /\ call \in [budget : Nat, then : {"after", "cycle"}]
    /\ result \in {"none", "success", "failed", "waits", "threw"}
    /\ resumes \in Nat /\ spent \in Nat /\ granted \in Nat

TypeOK ==
    /\ ControlOK
    /\ sent \subseteq Files /\ tried \subseteq {"install", "deliverables"}
    /\ \A i \in DOMAIN plan : plan[i].what \in Kinds /\ plan[i].state \in {"pending", "completed"}
    /\ answer.defers \subseteq Files
    /\ pc \in {"step", "handling"} => Pending(plan) # <<>>

(* What the loop tells the user is what the row says: a success of a goal   *)
(* that is completed, a failure of one that failed, a question of one that  *)
(* is blocked, unless the user abandoned it or refused meanwhile            *)
(* (runValidationAchievedPhase, setStatus and its table of transitions).    *)
OutcomeRecorded ==
    pc = "over" =>
        /\ result = "success" => status \in {"completed", "abandoned"}
        /\ result = "failed" => status \in {"failed", "abandoned"}
        /\ result = "waits" => status \in {"blocked", "failed", "abandoned"}

(* The planner is called again at most MAX_REPLAN_BUDGET times, and twice   *)
(* for each bonus; a run of the loop grants at most two (planWithSpiral,    *)
(* handleBlockedOutcome, runValidationNotAchievedPhase).                    *)
ReplansBounded ==
    /\ spent <= MaxReplan + 2 * granted
    /\ granted <= 2 * (resumes + 1)

(* Every run of the loop ends, whatever planner, judges and tools answer    *)
(* (the cycles without progress of runLoopInternal, and the budget).        *)
LoopEnds == (pc \in Running) ~> (pc \in {"over", "down"})

=============================================================================
