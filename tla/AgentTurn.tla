------------------------------ MODULE AgentTurn ------------------------------
(***************************************************************************)
(* One turn of the agent, AgentLoop.runWithTools (loop/AgentLoop.ts), from *)
(* its first await to its return, with the state machine it reports to     *)
(* (loop/AgentFSM.ts), which throws on an event its table does not have.   *)
(* What the turn awaits is the intent router, the model, a tool and the    *)
(* judge of its answer: each may return whatever it can return.  "Stop"    *)
(* may arrive during any await.  The guards that count repeated outputs    *)
(* and tools of a group may trip after any tool.                           *)
(***************************************************************************)
EXTENDS Integers

CONSTANTS Budgets,       \* STEP_BUDGETS
          ToolBudget,    \* STEP_BUDGETS.tool
          MaxBudget,     \* the largest of them, STEP_BUDGETS.planner
          EditsAllowed, EditsStop,   \* edits of one file: 4, and 7 end the loop
          BlocksStop, FailuresStop,  \* repeated calls, failures in a row: 3 and 3
          MaxCalls       \* bound: tool calls in one answer of the model

ASSUME LimitsAssumption ==
    /\ MaxBudget \in Nat \ {0} /\ Budgets \subseteq 1..MaxBudget /\ MaxBudget \in Budgets
    /\ ToolBudget \in 1..MaxBudget
    /\ EditsAllowed \in Nat /\ EditsStop \in Nat
    /\ BlocksStop \in Nat \ {0} /\ FailuresStop \in Nat \ {0} /\ MaxCalls \in Nat \ {0}

VARIABLES
    fsm, pc,              \* the state machine, and what the turn awaits or does next
    stepCount, maxSteps,
    dedupAbort,           \* a guard ended the loop
    extended,             \* contextGuardWriteExtensionUsed
    counts,               \* steps without progress, edits, blocked repeats, failures in a row
    native, best,         \* hasUsedNativeTools, lastBestContent is not empty
    seen,                 \* what cycleHistory and usedToolInputs tell
    batch, terminal, others,  \* calls left of an answer; terminalBatchResult is set,
                              \* and the step ran another tool as well
    call,                 \* the tool that runs, and whether it needs authorization
    aborted,              \* the turn's signal
    late,                 \* history: requests to the model sent after Stop
    ranUnasked,           \* history: a tool ran for a call that needs authorization
    blockedAction,        \* history: a JSON call was blocked after TOOL_REQUESTED
    result

control == <<fsm, pc>>
budget == <<stepCount, maxSteps, dedupAbort, extended>>
memory == <<counts, native, best, seen>>
inHand == <<batch, terminal, others, call>>
history == <<late, ranUnasked, blockedAction>>
vars == <<control, budget, memory, inHand, aborted, history, result>>

Awaits == {"routing", "fast", "context", "model", "tool", "action",
           "deliveryModel", "deliveryTool", "synthesis", "fallback", "commit"}
Between == {"idle", "loop", "batch", "json", "deliver", "deliveryBatch", "closing"}
Ends == {"over", "thrown"}
(* "command" is exec_command, "guarded" the other tools that can need to be *)
(* authorized (ssh_exec, api_request, what deletes memories), "lookup" what *)
(* may be delivered as it is, "search" the rest.                            *)
Tools == {"read", "write", "edit", "command", "send", "lookup", "search", "guarded"}
NeedsOf(k) == IF k \in {"command", "guarded"} THEN BOOLEAN ELSE {FALSE}
Calls == {c \in [tool : Tools, needs : BOOLEAN] : c.needs \in NeedsOf(c.tool)}

(* requiresAuthorization, of a tool, its arguments and the mode, at the     *)
(* moment it is asked.                                                      *)
PassesGate(needs) == ~needs

Working == {"THINKING", "EXECUTING_TOOL", "SYNTHESIZING"}
Final == {"DONE", "ERROR", "TIMEOUT", "CANCELLED"}
Model == {"LLM_REQUEST", "LLM_RESPONSE"}

(* TRANSITIONS, by event: where it is accepted and where it leads; a state  *)
(* that does not accept it refuses it, by throwing.                         *)
AcceptedIn ==
    [START_TURN |-> {"IDLE"},
     LLM_REQUEST |-> {"THINKING", "SYNTHESIZING"}, LLM_RESPONSE |-> {"THINKING", "SYNTHESIZING"},
     TOOL_REQUESTED |-> {"THINKING"}, TOOL_COMPLETED |-> {"EXECUTING_TOOL"},
     SYNTHESIS_REQUIRED |-> {"THINKING", "SYNTHESIZING"},
     FINAL_READY |-> Working, AUTH_REQUIRED |-> {"THINKING", "EXECUTING_TOOL"},
     FAIL |-> Working, TIMEOUT |-> Working, CANCEL |-> Working]
LeadsTo ==
    [START_TURN |-> "THINKING", TOOL_REQUESTED |-> "EXECUTING_TOOL", TOOL_COMPLETED |-> "THINKING",
     SYNTHESIS_REQUIRED |-> "SYNTHESIZING", FINAL_READY |-> "DONE", AUTH_REQUIRED |-> "DONE",
     FAIL |-> "ERROR", TIMEOUT |-> "TIMEOUT", CANCEL |-> "CANCELLED"]
Move(s, event) == IF s \notin AcceptedIn[event] THEN "REFUSED"
                  ELSE IF event \in Model THEN s ELSE LeadsTo[event]

Reach(s, where) == /\ fsm' = s
                   /\ pc' = IF s = "REFUSED" THEN "thrown" ELSE where
On(event) == Move(fsm, event)
Answered == On("LLM_RESPONSE")

Return(s, what) == Reach(s, "over") /\ result' = what
Commit(s) == Reach(s, "commit") /\ result' = "text"   \* commitResponse awaits the judge

(* The model refuses at once a request whose signal is aborted already.     *)
Request(s, where) == /\ Reach(Move(s, "LLM_REQUEST"), where)
                     /\ late' = IF aborted THEN late + 1 ELSE late
Outcomes == IF late > 0 THEN {"cancelled"}
            ELSE {"answer", "timeout", "error"} \union (IF aborted THEN {"cancelled"} ELSE {})

-----------------------------------------------------------------------------
(* setupTurn and the fast path.                                             *)
Begin ==
    /\ pc = "idle"
    /\ Reach(On("START_TURN"), "routing")
    /\ UNCHANGED <<budget, memory, inHand, aborted, history, result>>

(* A text that answers a pending request, a greeting or the time.           *)
AnswersDirectly ==
    /\ pc = "routing"
    /\ Return(On("FINAL_READY"), "direct")
    /\ UNCHANGED <<budget, memory, inHand, aborted, history>>

Routed ==
    /\ pc = "routing"
    /\ pc' \in {"fast", "context"}
    /\ UNCHANGED <<fsm, budget, memory, inHand, aborted, history, result>>

(* toolFirstFastPath, which runs the tool itself: it has a gate of its own, *)
(* and a short list of tools.  Only a tool that succeeded is told to the    *)
(* state machine.                                                           *)
FastPathAllowed == {"send", "lookup", "search"}
FastPathLeaves ==
    /\ pc = "fast" /\ pc' = "context"
    /\ UNCHANGED <<fsm, budget, memory, inHand, aborted, history, result>>

FastPathEnds ==
    /\ pc = "fast"
    /\ \E c \in Calls : /\ c.tool \in FastPathAllowed /\ PassesGate(c.needs)
                       /\ ranUnasked' = (ranUnasked \/ c.needs)
    /\ \/ Commit(Move(Move(On("TOOL_REQUESTED"), "TOOL_COMPLETED"), "FINAL_READY"))
       \/ pc' = "context" /\ UNCHANGED <<fsm, result>>
    /\ UNCHANGED <<budget, memory, inHand, aborted, late, blockedAction>>

NoSession ==
    /\ pc = "context"
    /\ pc' = "over" /\ result' = "no_session"
    /\ UNCHANGED <<fsm, budget, memory, inHand, aborted, history>>

ContextReady ==
    /\ pc = "context"
    /\ pc' = "loop"
    /\ maxSteps' \in Budgets
    /\ UNCHANGED <<fsm, stepCount, dedupAbort, extended, memory, inHand, aborted, history, result>>

-----------------------------------------------------------------------------
(* The loop: checkContextGrowthGuard, then a request to the model.          *)
GoesOn == stepCount < maxSteps /\ ~dedupAbort

Step ==
    /\ pc = "loop" /\ GoesOn
    /\ stepCount' = stepCount + 1
    /\ Request(fsm, "model")
    /\ UNCHANGED <<maxSteps, dedupAbort, extended, memory, inHand, aborted, ranUnasked, blockedAction, result>>

(* The context is full after a read with nothing written: two steps more,   *)
(* once.                                                                    *)
ExtensionAlwaysLeft == TRUE   \* Mistake: nobody remembers it was used.
ExtensionLeft == ~extended
ExtendedStep ==
    /\ pc = "loop" /\ GoesOn /\ stepCount > 0
    /\ seen.read /\ ~seen.touched /\ ExtensionLeft
    /\ extended' = TRUE
    /\ stepCount' = stepCount + 1
    /\ maxSteps' = IF maxSteps < stepCount + 3 THEN stepCount + 3 ELSE maxSteps
    /\ Request(fsm, "model")
    /\ UNCHANGED <<dedupAbort, memory, inHand, aborted, ranUnasked, blockedAction, result>>

(* Full otherwise: the loop ends.                                           *)
FullStep ==
    /\ pc = "loop" /\ GoesOn /\ stepCount > 0
    /\ stepCount' = stepCount + 1
    /\ dedupAbort' = TRUE
    /\ UNCHANGED <<control, maxSteps, extended, memory, inHand, aborted, history, result>>

-----------------------------------------------------------------------------
(* What the model answered.                                                 *)
Cancelled(where) ==
    /\ pc = where /\ "cancelled" \in Outcomes
    /\ Return(Move(Answered, "CANCEL"), "cancelled")
    /\ UNCHANGED <<budget, memory, inHand, aborted, history>>

ModelFails(outcome, event) ==
    /\ pc = "model" /\ outcome \in Outcomes
    /\ Return(Move(Answered, event), outcome)
    /\ UNCHANGED <<budget, memory, inHand, aborted, history>>

ModelAnswers == pc = "model" /\ "answer" \in Outcomes

(* A plan in prose instead of the protocol: the second one in a row ends    *)
(* the turn with the best text so far, as any does after native calls.      *)
PlansInProse ==
    /\ ModelAnswers
    /\ counts' = [counts EXCEPT !.nonProgress = @ + 1]
    /\ \/ native /\ Return(Move(Answered, "FINAL_READY"), "text")
       \/ counts'.nonProgress >= 2 /\ best /\ Return(Move(Answered, "FINAL_READY"), "text")
       \/ ~(counts'.nonProgress >= 2 /\ best) /\ Reach(Answered, "loop") /\ UNCHANGED result
    /\ UNCHANGED <<budget, native, best, seen, inHand, aborted, history>>

Progress == counts' = [counts EXCEPT !.nonProgress = 0]

AnswersFinally ==
    /\ ModelAnswers
    /\ Progress
    /\ Commit(Move(Answered, "FINAL_READY"))
    /\ UNCHANGED <<budget, native, best, seen, inHand, aborted, history>>

(* Neither a call nor an end: an answer that says it is incomplete.         *)
AnswersIncompletely ==
    /\ ModelAnswers
    /\ Progress
    /\ best' \in {best, TRUE}
    /\ Reach(Answered, "loop")
    /\ UNCHANGED <<budget, native, seen, inHand, aborted, history, result>>

CallsTools ==
    /\ ModelAnswers
    /\ Progress
    /\ best' \in {best, TRUE} /\ native' = TRUE
    /\ batch' \in 1..MaxCalls /\ terminal' = FALSE /\ others' = FALSE
    /\ Reach(Answered, "batch")
    /\ UNCHANGED <<budget, seen, call, aborted, history, result>>

CallsByJson ==
    /\ ModelAnswers
    /\ Progress
    /\ best' \in {best, TRUE}
    /\ Reach(Answered, "json")
    /\ UNCHANGED <<budget, native, seen, inHand, aborted, history, result>>

-----------------------------------------------------------------------------
(* Calls of tools, as runNativeToolCallDispatch and runJsonActionDispatch   *)
(* share them.                                                              *)
Abort(condition) == dedupAbort' = (dedupAbort \/ condition)
NextCall(stop) == batch' = IF stop THEN 0 ELSE batch - 1

(* A call made before: blocked, and the third block of it ends the loop.    *)
Repeats(where) ==
    /\ pc = where /\ seen.used
    /\ counts' = [counts EXCEPT !.blocks = @ + 1]
    /\ Abort(counts'.blocks >= BlocksStop)

(* Entries cycleHistory gets without a tool having run.                     *)
LoadsTools(used) ==
    seen' = [seen EXCEPT !.tools = TRUE, !.read = FALSE, !.success = "more", !.used = used]
DefersSend == seen' = [seen EXCEPT !.tools = TRUE, !.read = FALSE, !.sent = TRUE, !.used = TRUE]

(* "edit" counts per file; beyond EditsAllowed it is blocked, at EditsStop  *)
(* the loop ends.                                                           *)
Edits == counts' = [counts EXCEPT !.edits = @ + 1]
EditIsBlocked == counts.edits + 1 > EditsAllowed

(* cycleHistory after tool k ran, usedToolInputs with it.                   *)
Recorded(k, ok) ==
    [tools |-> TRUE, used |-> TRUE, read |-> k = "read",
     touched |-> seen.touched \/ k \in {"write", "edit"},
     wrote |-> seen.wrote \/ (ok /\ k = "write"),
     sent |-> seen.sent \/ (ok /\ k = "send"),
     success |-> IF ~ok THEN seen.success
                 ELSE IF seen.success = "none" /\ k = "lookup" THEN "direct" ELSE "more"]

(* ProactiveRecovery, the executor of all paths but the fast one.  It       *)
(* refuses a call that needs authorization.  A call that failed it may make *)
(* again with changed arguments or replace by another tool, and asks        *)
(* nothing more: the calls that ran, and the tool and success it ends with. *)
RecoveryRefuses == ~PassesGate(call.needs)

(* RECOVERY, whose fallbacks and changed arguments never need to be asked.  *)
(* Mistake: a fallback that does.                                           *)
ReplacementsByCommand(k) == IF k = "edit" THEN {"edit", "command"} ELSE {k} \intersect {"lookup", "search"}
Replacements(k) == IF k = "edit" THEN {"edit", "write"} ELSE {k} \intersect {"lookup", "search"}
Replaced == {[tool |-> k, needs |-> needs] : k \in Replacements(call.tool), needs \in BOOLEAN} \intersect Calls

Ended(c, ok, ran) == [tool |-> c.tool, ok |-> ok, ran |-> ran]
Recovered ==
    IF RecoveryRefuses THEN {Ended(call, FALSE, {})}
    ELSE {Ended(call, ok, {call}) : ok \in BOOLEAN}
         \union {Ended(call, FALSE, {call, c}) : c \in Replaced}
         \union {Ended(c, TRUE, {call, c}) : c \in Replaced}
Executed(r) == ranUnasked' = (ranUnasked \/ \E c \in r.ran : c.needs)

(* The guards after a tool: failures in a row, and the two that count equal *)
(* outputs and tools of a group, either of which may trip.                  *)
Guards(ok) == /\ counts' = [counts EXCEPT !.failures = IF ok THEN 0 ELSE @ + 1]
              /\ \E trips \in BOOLEAN : Abort(trips \/ counts'.failures >= FailuresStop)

AsksAuthorization == Return(Move(On("TOOL_REQUESTED"), "AUTH_REQUIRED"), "authorization")

(* executeAndRecord asks before the call is put in hand.                     *)
RunTool(k, where) ==
    /\ \E needs \in NeedsOf(k) : PassesGate(needs) /\ call' = [tool |-> k, needs |-> needs]
    /\ IF k = "edit" THEN ~EditIsBlocked /\ Edits ELSE UNCHANGED counts
    /\ Reach(On("TOOL_REQUESTED"), where)

-----------------------------------------------------------------------------
(* Native calls, one after the other.                                       *)
InBatch == pc = "batch" /\ batch > 0
KeepsBatch == UNCHANGED <<terminal, others, call>>

(* Known failed reads, tools that do not exist; audio sent before counts as *)
(* a call made.                                                             *)
PassOver ==
    /\ InBatch
    /\ NextCall(FALSE) /\ KeepsBatch
    /\ seen' \in {seen, [seen EXCEPT !.used = TRUE]}
    /\ UNCHANGED <<control, budget, counts, native, best, aborted, history, result>>

CallRepeats ==
    /\ InBatch
    /\ Repeats("batch")
    /\ NextCall(counts'.blocks >= BlocksStop) /\ KeepsBatch
    /\ UNCHANGED <<control, stepCount, maxSteps, extended, native, best, seen, aborted, history, result>>

CallLoadsTools ==
    /\ InBatch
    /\ LoadsTools(TRUE)
    /\ others' = TRUE
    /\ NextCall(FALSE)
    /\ UNCHANGED <<control, budget, counts, native, best, terminal, call, aborted, history, result>>

CallDefersSend ==
    /\ InBatch
    /\ DefersSend
    /\ NextCall(FALSE) /\ KeepsBatch
    /\ UNCHANGED <<control, budget, counts, native, best, aborted, history, result>>

CallAsksAuthorization ==
    /\ InBatch
    /\ AsksAuthorization
    /\ UNCHANGED <<budget, memory, inHand, aborted, history>>

(* Mistake: a blocked call never completes its cycle.                       *)
CallIsBlockedHalfway ==
    /\ InBatch /\ EditIsBlocked
    /\ Edits
    /\ Abort(counts'.edits >= EditsStop)
    /\ NextCall(counts'.edits >= EditsStop) /\ KeepsBatch
    /\ Reach(On("TOOL_REQUESTED"), "batch")
    /\ UNCHANGED <<stepCount, maxSteps, extended, native, best, seen, aborted, history, result>>

CallIsBlocked ==
    /\ InBatch /\ EditIsBlocked
    /\ Edits
    /\ Abort(counts'.edits >= EditsStop)
    /\ NextCall(counts'.edits >= EditsStop) /\ KeepsBatch
    /\ Reach(Move(On("TOOL_REQUESTED"), "TOOL_COMPLETED"), "batch")
    /\ UNCHANGED <<stepCount, maxSteps, extended, native, best, seen, aborted, history, result>>

CallRuns ==
    /\ InBatch
    /\ \E k \in Tools : RunTool(k, "tool")
    /\ UNCHANGED <<budget, native, best, seen, batch, terminal, others, aborted, history, result>>

(* A written file or a command raises the budget to that of tools; a        *)
(* delivery with no fact to tell ends the turn after the batch.             *)
CallEnds ==
    /\ pc = "tool"
    /\ \E r \in Recovered :
        /\ Executed(r)
        /\ Guards(r.ok)
        /\ seen' = Recorded(r.tool, r.ok)
        /\ others' = (others \/ r.tool # "send")
        /\ maxSteps' = IF r.ok /\ r.tool \in {"write", "command"} /\ maxSteps < ToolBudget
                       THEN ToolBudget ELSE maxSteps
        /\ terminal' \in {terminal, terminal \/ (call.tool = "send" /\ r.ok)}
    /\ NextCall(FALSE)
    /\ Reach(On("TOOL_COMPLETED"), "batch")
    /\ UNCHANGED <<stepCount, extended, native, best, call, aborted, late, blockedAction, result>>

BatchEnds ==
    /\ pc = "batch" /\ batch = 0
    /\ IF terminal /\ ~others
       THEN Return(On("FINAL_READY"), "delivered")
       ELSE pc' = "loop" /\ UNCHANGED <<fsm, result>>
    /\ UNCHANGED <<budget, memory, inHand, aborted, history>>

-----------------------------------------------------------------------------
(* A call in the JSON protocol.                                             *)
ActionIsUnknown ==
    /\ pc = "json" /\ pc' = "loop"
    /\ UNCHANGED <<fsm, budget, memory, inHand, aborted, history, result>>

ActionRepeats ==
    /\ Repeats("json") /\ pc' = "loop"
    /\ UNCHANGED <<fsm, stepCount, maxSteps, extended, native, best, seen, inHand, aborted, history, result>>

ActionLoadsTools ==
    /\ pc = "json" /\ pc' = "loop"
    /\ LoadsTools(seen.used)
    /\ UNCHANGED <<fsm, budget, counts, native, best, inHand, aborted, history, result>>

(* After TOOL_REQUESTED the call is blocked, and nothing completes it.      *)
ActionBlocked == Reach(On("TOOL_REQUESTED"), "loop") /\ blockedAction' = TRUE

EditActionIsBlocked ==
    /\ pc = "json" /\ EditIsBlocked
    /\ Edits
    /\ Abort(counts'.edits >= EditsStop)
    /\ ActionBlocked
    /\ UNCHANGED <<stepCount, maxSteps, extended, native, best, seen, inHand, aborted, late, ranUnasked, result>>

AudioActionIsBlocked ==
    /\ pc = "json"
    /\ ActionBlocked
    /\ UNCHANGED <<budget, memory, inHand, aborted, late, ranUnasked, result>>

ActionAsksAuthorization ==
    /\ pc = "json"
    /\ AsksAuthorization
    /\ UNCHANGED <<budget, memory, inHand, aborted, history>>

ActionRuns ==
    /\ pc = "json"
    /\ \E k \in Tools : RunTool(k, "action")
    /\ UNCHANGED <<budget, native, best, seen, batch, terminal, others, aborted, history, result>>

ActionEnds ==
    /\ pc = "action"
    /\ \E r \in Recovered :
        /\ Executed(r)
        /\ Guards(r.ok)
        /\ seen' = Recorded(r.tool, r.ok)
        /\ \/ call.tool = "send" /\ r.ok /\ Return(On("FINAL_READY"), "delivered")
           \/ Reach(On("TOOL_COMPLETED"), "loop") /\ UNCHANGED result
    /\ UNCHANGED <<stepCount, maxSteps, extended, native, best, inHand, aborted, late, blockedAction>>

-----------------------------------------------------------------------------
(* After the loop: a file was written and never sent; two steps more.       *)
DeliverySteps == 2
LeaveLoop ==
    /\ pc = "loop" /\ ~GoesOn
    /\ \/ pc' = "deliver" /\ seen.wrote /\ ~seen.sent
       \/ pc' = "closing"
    /\ UNCHANGED <<fsm, budget, memory, inHand, aborted, history, result>>

(* Mistake: the steps of the delivery are not counted.                      *)
CountsNoDelivery == UNCHANGED stepCount
CountsDelivery == stepCount' = stepCount + 1

AskDelivery ==
    /\ pc = "deliver" /\ stepCount < maxSteps + DeliverySteps
    /\ CountsDelivery
    /\ Request(fsm, "deliveryModel")
    /\ UNCHANGED <<maxSteps, dedupAbort, extended, memory, inHand, aborted, ranUnasked, blockedAction, result>>

DeliveryStepsSpent ==
    /\ pc = "deliver" /\ stepCount >= maxSteps + DeliverySteps
    /\ pc' = "closing"
    /\ UNCHANGED <<fsm, budget, memory, inHand, aborted, history, result>>

DeliveryFails ==
    /\ pc = "deliveryModel" /\ Outcomes \ {"cancelled"} # {}
    /\ Reach(Answered, "closing")
    /\ UNCHANGED <<budget, memory, inHand, aborted, history, result>>

DeliveryCalls ==
    /\ pc = "deliveryModel" /\ "answer" \in Outcomes
    /\ batch' \in 1..MaxCalls
    /\ Reach(Answered, "deliveryBatch")
    /\ UNCHANGED <<budget, memory, terminal, others, call, aborted, history, result>>

DeliveryPassOver ==
    /\ pc = "deliveryBatch" /\ batch > 0
    /\ NextCall(FALSE) /\ KeepsBatch
    /\ UNCHANGED <<control, budget, memory, aborted, history, result>>

(* This path has no gate of its own, and hands any call to the executor.   *)
DeliveryCallRuns ==
    /\ pc = "deliveryBatch" /\ batch > 0
    /\ call' \in Calls
    /\ Reach(On("TOOL_REQUESTED"), "deliveryTool")
    /\ UNCHANGED <<budget, memory, batch, terminal, others, aborted, history, result>>

DeliveryCallEnds ==
    /\ pc = "deliveryTool"
    /\ seen' = [seen EXCEPT !.tools = TRUE, !.used = TRUE]
    /\ \E r \in Recovered :
        /\ Executed(r)
        /\ \/ /\ call.tool = "send" /\ r.ok
              /\ Return(Move(On("TOOL_COMPLETED"), "FINAL_READY"), "delivered")
              /\ UNCHANGED batch
           \/ /\ Reach(On("TOOL_COMPLETED"), "deliveryBatch")
              /\ NextCall(FALSE)
              /\ UNCHANGED result
    /\ UNCHANGED <<budget, counts, native, best, terminal, others, call, aborted, late, blockedAction>>

DeliveryBatchEnds ==
    /\ pc = "deliveryBatch" /\ batch = 0
    /\ pc' = "deliver"
    /\ UNCHANGED <<fsm, budget, memory, inHand, aborted, history, result>>
-----------------------------------------------------------------------------
(* runSynthesisAndFallbackPhase.  The best text so far counts as good when  *)
(* it is long and no guard ended the loop.                                  *)
MayBeGood == IF best /\ ~dedupAbort THEN BOOLEAN ELSE {FALSE}

DeliversToolOutput ==
    /\ pc = "closing" /\ seen.tools /\ seen.success = "direct"
    /\ FALSE \in MayBeGood
    /\ Return(On("FINAL_READY"), "direct")
    /\ UNCHANGED <<budget, memory, inHand, aborted, history>>

AskSynthesis ==
    /\ pc = "closing" /\ seen.tools /\ FALSE \in MayBeGood
    /\ Request(On("SYNTHESIS_REQUIRED"), "synthesis")
    /\ UNCHANGED <<budget, memory, inHand, aborted, ranUnasked, blockedAction, result>>

(* Without a synthesis: the best text, or one request more.                 *)
FallBack(s) ==
    IF best /\ ~dedupAbort
    THEN Commit(Move(s, "FINAL_READY")) /\ UNCHANGED late
    ELSE Request(Move(s, "SYNTHESIS_REQUIRED"), "fallback") /\ UNCHANGED result

NothingToSynthesize ==
    /\ pc = "closing"
    /\ ~seen.tools \/ TRUE \in MayBeGood
    /\ FallBack(fsm)
    /\ UNCHANGED <<budget, memory, inHand, aborted, ranUnasked, blockedAction>>

(* Mistake: a cancelled synthesis is taken for an empty one.                *)
SynthesisEndsUnchecked ==
    /\ pc = "synthesis"
    /\ \/ Commit(Move(Answered, "FINAL_READY")) /\ UNCHANGED late
       \/ FallBack(Answered)
    /\ UNCHANGED <<budget, memory, inHand, aborted, ranUnasked, blockedAction>>

SynthesisEnds ==
    /\ pc = "synthesis" /\ Outcomes \ {"cancelled"} # {}
    /\ \/ "answer" \in Outcomes /\ Commit(Move(Answered, "FINAL_READY")) /\ UNCHANGED late
       \/ FallBack(Answered)
    /\ UNCHANGED <<budget, memory, inHand, aborted, ranUnasked, blockedAction>>

FallbackEnds ==
    /\ pc = "fallback" /\ Outcomes \ {"cancelled"} # {}
    /\ Commit(Move(Answered, "FINAL_READY"))
    /\ UNCHANGED <<budget, memory, inHand, aborted, history>>

Judged ==
    /\ pc = "commit" /\ pc' = "over"
    /\ UNCHANGED <<fsm, budget, memory, inHand, aborted, history, result>>

Stop ==
    /\ pc \in Awaits /\ ~aborted
    /\ aborted' = TRUE
    /\ UNCHANGED <<control, budget, memory, inHand, history, result>>

-----------------------------------------------------------------------------
Init ==
    /\ fsm = "IDLE" /\ pc = "idle"
    /\ stepCount = 0 /\ maxSteps = 0 /\ dedupAbort = FALSE /\ extended = FALSE
    /\ counts = [nonProgress |-> 0, edits |-> 0, blocks |-> 0, failures |-> 0]
    /\ native = FALSE /\ best = FALSE
    /\ seen = [tools |-> FALSE, used |-> FALSE, read |-> FALSE, touched |-> FALSE,
               wrote |-> FALSE, sent |-> FALSE, success |-> "none"]
    /\ batch = 0 /\ terminal = FALSE /\ others = FALSE
    /\ call = [tool |-> "read", needs |-> FALSE]
    /\ aborted = FALSE /\ late = 0 /\ ranUnasked = FALSE /\ blockedAction = FALSE
    /\ result = "none"

Setup == AnswersDirectly \/ Routed \/ FastPathLeaves \/ FastPathEnds \/ NoSession \/ ContextReady
Answers == \/ \E w \in {"model", "deliveryModel", "synthesis", "fallback"} : Cancelled(w)
           \/ ModelFails("timeout", "TIMEOUT") \/ ModelFails("error", "FAIL")
           \/ PlansInProse \/ AnswersFinally \/ AnswersIncompletely \/ CallsTools \/ CallsByJson
NativeCalls == \/ PassOver \/ CallRepeats \/ CallLoadsTools \/ CallDefersSend
               \/ CallAsksAuthorization \/ CallIsBlocked \/ CallRuns \/ CallEnds \/ BatchEnds
JsonCall == \/ ActionIsUnknown \/ ActionRepeats \/ ActionLoadsTools \/ EditActionIsBlocked
            \/ AudioActionIsBlocked \/ ActionAsksAuthorization \/ ActionRuns \/ ActionEnds
Delivery == \/ AskDelivery \/ DeliveryStepsSpent \/ DeliveryFails \/ DeliveryCalls
            \/ DeliveryPassOver \/ DeliveryCallRuns \/ DeliveryCallEnds \/ DeliveryBatchEnds
Closing == \/ DeliversToolOutput \/ AskSynthesis \/ NothingToSynthesize
           \/ SynthesisEnds \/ FallbackEnds \/ Judged

TurnStep == \/ Setup \/ Step \/ ExtendedStep \/ FullStep \/ LeaveLoop
            \/ Answers \/ NativeCalls \/ JsonCall \/ Delivery \/ Closing
Next == Begin \/ TurnStep \/ Stop

(* Whatever a turn awaits comes back: the model answers, fails or is cut,   *)
(* and tools end.                                                           *)
Spec == Init /\ [][Next]_vars /\ WF_vars(TurnStep)

-----------------------------------------------------------------------------
FsmStates == Working \union Final \union {"IDLE", "REFUSED"}
ControlOK ==
    /\ fsm \in FsmStates /\ pc \in Awaits \union Between \union Ends
    /\ native \in BOOLEAN /\ best \in BOOLEAN
    /\ terminal \in BOOLEAN /\ others \in BOOLEAN /\ call \in Calls
    /\ aborted \in BOOLEAN /\ late \in Nat /\ ranUnasked \in BOOLEAN /\ blockedAction \in BOOLEAN
    /\ result \in {"none", "text", "direct", "delivered", "authorization", "cancelled",
                   "timeout", "error", "no_session"}
CountsOK ==
    /\ stepCount \in Nat /\ maxSteps \in Nat /\ dedupAbort \in BOOLEAN /\ extended \in BOOLEAN
    /\ counts \in [nonProgress : Nat, edits : Nat, blocks : Nat, failures : Nat]
    /\ counts.failures < FailuresStop + MaxCalls
    /\ batch \in 0..MaxCalls
SeenOK == seen \in [tools : BOOLEAN, used : BOOLEAN, read : BOOLEAN, touched : BOOLEAN,
                    wrote : BOOLEAN, sent : BOOLEAN, success : {"none", "direct", "more"}]
TypeOK == ControlOK /\ CountsOK /\ SeenOK

(* However guards extend and raise the budget, a turn makes at most the     *)
(* largest budget and four steps: two of the extension, two of the          *)
(* delivery.                                                                *)
StepsBounded == stepCount <= MaxBudget + 2 + DeliverySteps

(* The state machine tells what the turn is doing and how it ended.  Where  *)
(* a JSON call was blocked it may not, and may throw.                       *)
Shown ==
    /\ pc = "idle" => fsm = "IDLE"
    /\ pc \in {"tool", "action", "deliveryTool"} => fsm = "EXECUTING_TOOL"
    /\ pc \in {"synthesis", "fallback"} => fsm = "SYNTHESIZING"
    /\ pc = "commit" => fsm = "DONE"
    /\ pc = "over" => fsm = IF result = "cancelled" THEN "CANCELLED"
                            ELSE IF result = "timeout" THEN "TIMEOUT"
                            ELSE IF result = "error" THEN "ERROR"
                            ELSE IF result = "no_session" THEN "THINKING" ELSE "DONE"
    /\ pc # "thrown"
    /\ pc \in (Awaits \union Between) \ {"idle", "tool", "action", "deliveryTool",
                                         "synthesis", "fallback", "commit"} => fsm = "THINKING"
FsmFollows == blockedAction \/ Shown

(* After Stop the model is asked at most once more.                         *)
OneRequestAfterStop == late <= 1

(* "Who gates before never gets here with a tool that needs authorization;  *)
(* who does not is refused" (ProactiveRecovery.execute): on no path of a    *)
(* turn, the fast one, native and JSON calls, the delivery with no gate of  *)
(* its own, or a replacement after a failure, does a tool run for a call    *)
(* that needs it; and where it can be asked for it is not refused instead.  *)
NothingRunsUnasked ==
    /\ ~ranUnasked
    /\ pc \in {"tool", "action"} => ~call.needs

(* Every turn returns or throws.                                            *)
TurnEnds == pc = "routing" ~> pc \in Ends

(* "Every call that entered EXECUTING_TOOL has to come back to THINKING,    *)
(* also when a protection blocks it" (AgentLoop.ts:3670-3674): no turn is   *)
(* thrown out by its state machine.                                         *)
NeverThrows == pc # "thrown"
=============================================================================
