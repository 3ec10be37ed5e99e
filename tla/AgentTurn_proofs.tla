-------------------------- MODULE AgentTurn_proofs --------------------------
(* Theorems about AgentTurn, for every step budget and every limit of its  *)
(* guards.                                                                 *)
EXTENDS AgentTurn, TLAPS

(* What the table of transitions says where the turn uses it.              *)
LEMMA Table ==
    /\ Move("IDLE", "START_TURN") = "THINKING"
    /\ \A e \in Model : Move("THINKING", e) = "THINKING" /\ Move("SYNTHESIZING", e) = "SYNTHESIZING"
    /\ Move("THINKING", "TOOL_REQUESTED") = "EXECUTING_TOOL"
    /\ Move("EXECUTING_TOOL", "TOOL_COMPLETED") = "THINKING"
    /\ \A s \in {"THINKING", "SYNTHESIZING"} : Move(s, "SYNTHESIS_REQUIRED") = "SYNTHESIZING"
    /\ \A s \in Working : /\ Move(s, "FINAL_READY") = "DONE" /\ Move(s, "FAIL") = "ERROR"
                          /\ Move(s, "TIMEOUT") = "TIMEOUT" /\ Move(s, "CANCEL") = "CANCELLED"
    /\ Move("EXECUTING_TOOL", "AUTH_REQUIRED") = "DONE"
  BY DEF Move, AcceptedIn, LeadsTo, Model, Working

(* The answer is settled while the judge is awaited.                       *)
FsmInv == /\ blockedAction \in BOOLEAN
          /\ FsmFollows
          /\ pc = "commit" => result = "text"

LEMMA FsmStep == FsmInv /\ [Next]_vars => FsmInv'
  <1> SUFFICES ASSUME FsmInv, [Next]_vars PROVE FsmInv'
    OBVIOUS
  <1> USE Table DEF FsmInv, FsmFollows, Shown, Awaits, Between, Reach, On, Answered, Return, Commit, Request, Working, Model,
                    control, history
  <1>1. CASE Begin
    BY <1>1 DEF Begin
  <1>2. CASE AnswersDirectly
    BY <1>2 DEF AnswersDirectly
  <1>3. CASE Routed
    BY <1>3 DEF Routed
  <1>4. CASE FastPathLeaves
    BY <1>4 DEF FastPathLeaves
  <1>52. CASE FastPathEnds
    BY <1>52 DEF FastPathEnds
  <1>5. CASE NoSession
    BY <1>5 DEF NoSession
  <1>6. CASE ContextReady
    BY <1>6 DEF ContextReady
  <1>7. CASE Step
    BY <1>7 DEF Step, GoesOn
  <1>8. CASE ExtendedStep
    BY <1>8 DEF ExtendedStep, GoesOn, ExtensionLeft
  <1>9. CASE FullStep
    BY <1>9 DEF FullStep, GoesOn
  <1>10. CASE LeaveLoop
    BY <1>10 DEF LeaveLoop
  <1>11. CASE \E w \in {"model", "deliveryModel", "synthesis", "fallback"} : Cancelled(w)
    BY <1>11 DEF Cancelled
  <1>12. CASE ModelFails("timeout", "TIMEOUT")
    BY <1>12 DEF ModelFails
  <1>13. CASE ModelFails("error", "FAIL")
    BY <1>13 DEF ModelFails
  <1>14. CASE PlansInProse
    BY <1>14 DEF PlansInProse, ModelAnswers
  <1>15. CASE AnswersFinally
    BY <1>15 DEF AnswersFinally, ModelAnswers, Progress
  <1>16. CASE AnswersIncompletely
    BY <1>16 DEF AnswersIncompletely, ModelAnswers, Progress
  <1>17. CASE CallsTools
    BY <1>17 DEF CallsTools, ModelAnswers, Progress
  <1>18. CASE CallsByJson
    BY <1>18 DEF CallsByJson, ModelAnswers, Progress
  <1>19. CASE PassOver
    BY <1>19 DEF PassOver, InBatch, NextCall, KeepsBatch
  <1>20. CASE CallRepeats
    BY <1>20 DEF CallRepeats, InBatch, Repeats, Abort, NextCall, KeepsBatch
  <1>21. CASE CallLoadsTools
    BY <1>21 DEF CallLoadsTools, InBatch, LoadsTools, NextCall
  <1>22. CASE CallDefersSend
    BY <1>22 DEF CallDefersSend, InBatch, DefersSend, NextCall, KeepsBatch
  <1>23. CASE CallAsksAuthorization
    BY <1>23 DEF CallAsksAuthorization, InBatch, AsksAuthorization
  <1>24. CASE CallIsBlocked
    BY <1>24 DEF CallIsBlocked, InBatch, Edits, Abort, NextCall, KeepsBatch
  <1>25. CASE CallRuns
    BY <1>25 DEF CallRuns, InBatch, RunTool, Edits
  <1>26. CASE CallEnds
    BY <1>26 DEF CallEnds, Guards, Abort, NextCall, Recorded
  <1>27. CASE BatchEnds
    BY <1>27 DEF BatchEnds
  <1>28. CASE ActionIsUnknown
    BY <1>28 DEF ActionIsUnknown
  <1>29. CASE ActionRepeats
    BY <1>29 DEF ActionRepeats, Repeats, Abort
  <1>30. CASE ActionLoadsTools
    BY <1>30 DEF ActionLoadsTools, LoadsTools
  <1>31. CASE EditActionIsBlocked
    BY <1>31 DEF EditActionIsBlocked, Edits, Abort, ActionBlocked
  <1>32. CASE AudioActionIsBlocked
    BY <1>32 DEF AudioActionIsBlocked, ActionBlocked
  <1>33. CASE ActionAsksAuthorization
    BY <1>33 DEF ActionAsksAuthorization, AsksAuthorization
  <1>34. CASE ActionRuns
    BY <1>34 DEF ActionRuns, RunTool, Edits
  <1>35. CASE ActionEnds
    BY <1>35 DEF ActionEnds, Guards, Abort, Recorded
  <1>36. CASE AskDelivery
    BY <1>36 DEF AskDelivery, CountsDelivery, DeliverySteps
  <1>37. CASE DeliveryStepsSpent
    BY <1>37 DEF DeliveryStepsSpent, DeliverySteps
  <1>38. CASE DeliveryFails
    BY <1>38 DEF DeliveryFails
  <1>39. CASE DeliveryCalls
    BY <1>39 DEF DeliveryCalls
  <1>40. CASE DeliveryPassOver
    BY <1>40 DEF DeliveryPassOver, NextCall, KeepsBatch
  <1>41. CASE DeliveryCallRuns
    BY <1>41 DEF DeliveryCallRuns
  <1>42. CASE DeliveryCallEnds
    BY <1>42 DEF DeliveryCallEnds, NextCall
  <1>43. CASE DeliveryBatchEnds
    BY <1>43 DEF DeliveryBatchEnds
  <1>44. CASE DeliversToolOutput
    BY <1>44 DEF DeliversToolOutput
  <1>45. CASE AskSynthesis
    BY <1>45 DEF AskSynthesis
  <1>46. CASE NothingToSynthesize
    BY <1>46 DEF NothingToSynthesize, FallBack
  <1>47. CASE SynthesisEnds
    BY <1>47 DEF SynthesisEnds, FallBack
  <1>48. CASE FallbackEnds
    BY <1>48 DEF FallbackEnds
  <1>49. CASE Judged
    BY <1>49 DEF Judged
  <1>50. CASE Stop
    BY <1>50 DEF Stop
  <1>51. CASE UNCHANGED vars
    BY <1>51 DEF vars
  <1>53. QED
    BY <1>1, <1>2, <1>3, <1>4, <1>5, <1>6, <1>7, <1>8, <1>9, <1>10, <1>11, <1>12, <1>13, <1>14, <1>15, <1>16, <1>17, <1>18, <1>19, <1>20, <1>21, <1>22, <1>23, <1>24, <1>25, <1>26, <1>27, <1>28, <1>29, <1>30, <1>31, <1>32, <1>33, <1>34, <1>35, <1>36, <1>37, <1>38, <1>39, <1>40, <1>41, <1>42, <1>43, <1>44, <1>45, <1>46, <1>47, <1>48, <1>49, <1>50, <1>51, <1>52
       DEF Next, TurnStep, Setup, Answers, NativeCalls, JsonCall, Delivery, Closing

(* The budget is raised by two steps once, and the delivery adds two.      *)
StepInv == /\ stepCount \in Nat /\ maxSteps \in Nat /\ extended \in BOOLEAN
           /\ maxSteps <= MaxBudget + (IF extended THEN 2 ELSE 0)
           /\ stepCount <= maxSteps + 2
           /\ pc \in {"idle", "routing", "fast", "context"} => stepCount = 0 /\ ~extended

LEMMA StepStep == StepInv /\ [Next]_vars => StepInv'
  <1> SUFFICES ASSUME StepInv, [Next]_vars PROVE StepInv'
    OBVIOUS
  <1> USE LimitsAssumption DEF StepInv, Reach, Return, Commit, Request, control, budget
  <1>1. CASE Begin
    BY <1>1 DEF Begin
  <1>2. CASE AnswersDirectly
    BY <1>2 DEF AnswersDirectly
  <1>3. CASE Routed
    BY <1>3 DEF Routed
  <1>4. CASE FastPathLeaves
    BY <1>4 DEF FastPathLeaves
  <1>52. CASE FastPathEnds
    BY <1>52 DEF FastPathEnds
  <1>5. CASE NoSession
    BY <1>5 DEF NoSession
  <1>6. CASE ContextReady
    <2>1. /\ maxSteps' \in Nat /\ maxSteps' <= MaxBudget
          /\ stepCount' = 0 /\ ~extended' /\ extended' \in BOOLEAN /\ pc' = "loop"
      BY <1>6 DEF ContextReady
    <2>2. MaxBudget \in Nat
      BY LimitsAssumption
    <2>3. maxSteps' <= MaxBudget + (IF extended' THEN 2 ELSE 0)
      BY <2>1, <2>2
    <2>4. stepCount' \in Nat /\ stepCount' <= maxSteps' + 2
      <3>1. \A m \in Nat : 0 \in Nat /\ 0 <= m + 2
        OBVIOUS
      <3>2. QED
        BY <2>1, <3>1
    <2>5. ~(pc' \in {"idle", "routing", "fast", "context"})
      BY <2>1
    <2>6. QED
      BY <2>1, <2>3, <2>4, <2>5
  <1>7. CASE Step
    BY <1>7 DEF Step, GoesOn
  <1>8. CASE ExtendedStep
    BY <1>8 DEF ExtendedStep, GoesOn, ExtensionLeft
  <1>9. CASE FullStep
    BY <1>9 DEF FullStep, GoesOn
  <1>10. CASE LeaveLoop
    BY <1>10 DEF LeaveLoop
  <1>11. CASE \E w \in {"model", "deliveryModel", "synthesis", "fallback"} : Cancelled(w)
    BY <1>11 DEF Cancelled
  <1>12. CASE ModelFails("timeout", "TIMEOUT")
    BY <1>12 DEF ModelFails
  <1>13. CASE ModelFails("error", "FAIL")
    BY <1>13 DEF ModelFails
  <1>14. CASE PlansInProse
    BY <1>14 DEF PlansInProse, ModelAnswers
  <1>15. CASE AnswersFinally
    BY <1>15 DEF AnswersFinally, ModelAnswers, Progress
  <1>16. CASE AnswersIncompletely
    BY <1>16 DEF AnswersIncompletely, ModelAnswers, Progress
  <1>17. CASE CallsTools
    BY <1>17 DEF CallsTools, ModelAnswers, Progress
  <1>18. CASE CallsByJson
    BY <1>18 DEF CallsByJson, ModelAnswers, Progress
  <1>19. CASE PassOver
    BY <1>19 DEF PassOver, InBatch, NextCall, KeepsBatch
  <1>20. CASE CallRepeats
    BY <1>20 DEF CallRepeats, InBatch, Repeats, Abort, NextCall, KeepsBatch
  <1>21. CASE CallLoadsTools
    BY <1>21 DEF CallLoadsTools, InBatch, LoadsTools, NextCall
  <1>22. CASE CallDefersSend
    BY <1>22 DEF CallDefersSend, InBatch, DefersSend, NextCall, KeepsBatch
  <1>23. CASE CallAsksAuthorization
    BY <1>23 DEF CallAsksAuthorization, InBatch, AsksAuthorization
  <1>24. CASE CallIsBlocked
    BY <1>24 DEF CallIsBlocked, InBatch, Edits, Abort, NextCall, KeepsBatch
  <1>25. CASE CallRuns
    BY <1>25 DEF CallRuns, InBatch, RunTool, Edits
  <1>26. CASE CallEnds
    BY <1>26 DEF CallEnds, Guards, Abort, NextCall, Recorded
  <1>27. CASE BatchEnds
    BY <1>27 DEF BatchEnds
  <1>28. CASE ActionIsUnknown
    BY <1>28 DEF ActionIsUnknown
  <1>29. CASE ActionRepeats
    BY <1>29 DEF ActionRepeats, Repeats, Abort
  <1>30. CASE ActionLoadsTools
    BY <1>30 DEF ActionLoadsTools, LoadsTools
  <1>31. CASE EditActionIsBlocked
    BY <1>31 DEF EditActionIsBlocked, Edits, Abort, ActionBlocked
  <1>32. CASE AudioActionIsBlocked
    BY <1>32 DEF AudioActionIsBlocked, ActionBlocked
  <1>33. CASE ActionAsksAuthorization
    BY <1>33 DEF ActionAsksAuthorization, AsksAuthorization
  <1>34. CASE ActionRuns
    BY <1>34 DEF ActionRuns, RunTool, Edits
  <1>35. CASE ActionEnds
    BY <1>35 DEF ActionEnds, Guards, Abort, Recorded
  <1>36. CASE AskDelivery
    BY <1>36 DEF AskDelivery, CountsDelivery, DeliverySteps
  <1>37. CASE DeliveryStepsSpent
    BY <1>37 DEF DeliveryStepsSpent, DeliverySteps
  <1>38. CASE DeliveryFails
    BY <1>38 DEF DeliveryFails
  <1>39. CASE DeliveryCalls
    BY <1>39 DEF DeliveryCalls
  <1>40. CASE DeliveryPassOver
    BY <1>40 DEF DeliveryPassOver, NextCall, KeepsBatch
  <1>41. CASE DeliveryCallRuns
    BY <1>41 DEF DeliveryCallRuns
  <1>42. CASE DeliveryCallEnds
    BY <1>42 DEF DeliveryCallEnds, NextCall
  <1>43. CASE DeliveryBatchEnds
    BY <1>43 DEF DeliveryBatchEnds
  <1>44. CASE DeliversToolOutput
    BY <1>44 DEF DeliversToolOutput
  <1>45. CASE AskSynthesis
    BY <1>45 DEF AskSynthesis
  <1>46. CASE NothingToSynthesize
    BY <1>46 DEF NothingToSynthesize, FallBack
  <1>47. CASE SynthesisEnds
    BY <1>47 DEF SynthesisEnds, FallBack
  <1>48. CASE FallbackEnds
    BY <1>48 DEF FallbackEnds
  <1>49. CASE Judged
    BY <1>49 DEF Judged
  <1>50. CASE Stop
    BY <1>50 DEF Stop
  <1>51. CASE UNCHANGED vars
    BY <1>51 DEF vars
  <1>53. QED
    BY <1>1, <1>2, <1>3, <1>4, <1>5, <1>6, <1>7, <1>8, <1>9, <1>10, <1>11, <1>12, <1>13, <1>14, <1>15, <1>16, <1>17, <1>18, <1>19, <1>20, <1>21, <1>22, <1>23, <1>24, <1>25, <1>26, <1>27, <1>28, <1>29, <1>30, <1>31, <1>32, <1>33, <1>34, <1>35, <1>36, <1>37, <1>38, <1>39, <1>40, <1>41, <1>42, <1>43, <1>44, <1>45, <1>46, <1>47, <1>48, <1>49, <1>50, <1>51, <1>52
       DEF Next, TurnStep, Setup, Answers, NativeCalls, JsonCall, Delivery, Closing

(* A request after Stop is answered by "cancelled", which ends the turn.   *)
LateInv == /\ late \in {0, 1}
           /\ late = 1 => aborted /\ pc \in {"model", "deliveryModel", "synthesis", "fallback",
                                             "over", "thrown"}

LEMMA LateStep == LateInv /\ [Next]_vars => LateInv'
  <1> SUFFICES ASSUME LateInv, [Next]_vars PROVE LateInv'
    OBVIOUS
  <1> USE DEF LateInv, Reach, Return, Commit, Request, Outcomes, control, history, Awaits
  <1>1. CASE Begin
    BY <1>1 DEF Begin
  <1>2. CASE AnswersDirectly
    BY <1>2 DEF AnswersDirectly
  <1>3. CASE Routed
    BY <1>3 DEF Routed
  <1>4. CASE FastPathLeaves
    BY <1>4 DEF FastPathLeaves
  <1>52. CASE FastPathEnds
    BY <1>52 DEF FastPathEnds
  <1>5. CASE NoSession
    BY <1>5 DEF NoSession
  <1>6. CASE ContextReady
    BY <1>6 DEF ContextReady
  <1>7. CASE Step
    BY <1>7 DEF Step, GoesOn
  <1>8. CASE ExtendedStep
    BY <1>8 DEF ExtendedStep, GoesOn, ExtensionLeft
  <1>9. CASE FullStep
    BY <1>9 DEF FullStep, GoesOn
  <1>10. CASE LeaveLoop
    BY <1>10 DEF LeaveLoop
  <1>11. CASE \E w \in {"model", "deliveryModel", "synthesis", "fallback"} : Cancelled(w)
    BY <1>11 DEF Cancelled
  <1>12. CASE ModelFails("timeout", "TIMEOUT")
    BY <1>12 DEF ModelFails
  <1>13. CASE ModelFails("error", "FAIL")
    BY <1>13 DEF ModelFails
  <1>14. CASE PlansInProse
    BY <1>14 DEF PlansInProse, ModelAnswers
  <1>15. CASE AnswersFinally
    BY <1>15 DEF AnswersFinally, ModelAnswers, Progress
  <1>16. CASE AnswersIncompletely
    BY <1>16 DEF AnswersIncompletely, ModelAnswers, Progress
  <1>17. CASE CallsTools
    BY <1>17 DEF CallsTools, ModelAnswers, Progress
  <1>18. CASE CallsByJson
    BY <1>18 DEF CallsByJson, ModelAnswers, Progress
  <1>19. CASE PassOver
    BY <1>19 DEF PassOver, InBatch, NextCall, KeepsBatch
  <1>20. CASE CallRepeats
    BY <1>20 DEF CallRepeats, InBatch, Repeats, Abort, NextCall, KeepsBatch
  <1>21. CASE CallLoadsTools
    BY <1>21 DEF CallLoadsTools, InBatch, LoadsTools, NextCall
  <1>22. CASE CallDefersSend
    BY <1>22 DEF CallDefersSend, InBatch, DefersSend, NextCall, KeepsBatch
  <1>23. CASE CallAsksAuthorization
    BY <1>23 DEF CallAsksAuthorization, InBatch, AsksAuthorization
  <1>24. CASE CallIsBlocked
    BY <1>24 DEF CallIsBlocked, InBatch, Edits, Abort, NextCall, KeepsBatch
  <1>25. CASE CallRuns
    BY <1>25 DEF CallRuns, InBatch, RunTool, Edits
  <1>26. CASE CallEnds
    BY <1>26 DEF CallEnds, Guards, Abort, NextCall, Recorded
  <1>27. CASE BatchEnds
    BY <1>27 DEF BatchEnds
  <1>28. CASE ActionIsUnknown
    BY <1>28 DEF ActionIsUnknown
  <1>29. CASE ActionRepeats
    BY <1>29 DEF ActionRepeats, Repeats, Abort
  <1>30. CASE ActionLoadsTools
    BY <1>30 DEF ActionLoadsTools, LoadsTools
  <1>31. CASE EditActionIsBlocked
    BY <1>31 DEF EditActionIsBlocked, Edits, Abort, ActionBlocked
  <1>32. CASE AudioActionIsBlocked
    BY <1>32 DEF AudioActionIsBlocked, ActionBlocked
  <1>33. CASE ActionAsksAuthorization
    BY <1>33 DEF ActionAsksAuthorization, AsksAuthorization
  <1>34. CASE ActionRuns
    BY <1>34 DEF ActionRuns, RunTool, Edits
  <1>35. CASE ActionEnds
    BY <1>35 DEF ActionEnds, Guards, Abort, Recorded
  <1>36. CASE AskDelivery
    BY <1>36 DEF AskDelivery, CountsDelivery, DeliverySteps
  <1>37. CASE DeliveryStepsSpent
    BY <1>37 DEF DeliveryStepsSpent, DeliverySteps
  <1>38. CASE DeliveryFails
    BY <1>38 DEF DeliveryFails
  <1>39. CASE DeliveryCalls
    BY <1>39 DEF DeliveryCalls
  <1>40. CASE DeliveryPassOver
    BY <1>40 DEF DeliveryPassOver, NextCall, KeepsBatch
  <1>41. CASE DeliveryCallRuns
    BY <1>41 DEF DeliveryCallRuns
  <1>42. CASE DeliveryCallEnds
    BY <1>42 DEF DeliveryCallEnds, NextCall
  <1>43. CASE DeliveryBatchEnds
    BY <1>43 DEF DeliveryBatchEnds
  <1>44. CASE DeliversToolOutput
    BY <1>44 DEF DeliversToolOutput
  <1>45. CASE AskSynthesis
    BY <1>45 DEF AskSynthesis
  <1>46. CASE NothingToSynthesize
    BY <1>46 DEF NothingToSynthesize, FallBack
  <1>47. CASE SynthesisEnds
    BY <1>47 DEF SynthesisEnds, FallBack
  <1>48. CASE FallbackEnds
    BY <1>48 DEF FallbackEnds
  <1>49. CASE Judged
    BY <1>49 DEF Judged
  <1>50. CASE Stop
    BY <1>50 DEF Stop
  <1>51. CASE UNCHANGED vars
    BY <1>51 DEF vars
  <1>53. QED
    BY <1>1, <1>2, <1>3, <1>4, <1>5, <1>6, <1>7, <1>8, <1>9, <1>10, <1>11, <1>12, <1>13, <1>14, <1>15, <1>16, <1>17, <1>18, <1>19, <1>20, <1>21, <1>22, <1>23, <1>24, <1>25, <1>26, <1>27, <1>28, <1>29, <1>30, <1>31, <1>32, <1>33, <1>34, <1>35, <1>36, <1>37, <1>38, <1>39, <1>40, <1>41, <1>42, <1>43, <1>44, <1>45, <1>46, <1>47, <1>48, <1>49, <1>50, <1>51, <1>52
       DEF Next, TurnStep, Setup, Answers, NativeCalls, JsonCall, Delivery, Closing

(* The table leads from states to states.                                  *)
LEMMA MoveTypes == \A s \in FsmStates : \A e \in DOMAIN AcceptedIn : Move(s, e) \in FsmStates
  BY DEF Move, AcceptedIn, LeadsTo, Model, FsmStates, Working, Final

LEMMA Events == DOMAIN AcceptedIn = {"START_TURN", "LLM_REQUEST", "LLM_RESPONSE", "TOOL_REQUESTED",
    "TOOL_COMPLETED", "SYNTHESIS_REQUIRED", "FINAL_READY", "AUTH_REQUIRED", "FAIL", "TIMEOUT", "CANCEL"}
  BY DEF AcceptedIn

(* A call put in hand is one that can be.                                  *)
LEMMA CallInHand == ASSUME NEW k \in Tools, NEW where, RunTool(k, where) PROVE call' \in Calls
<1>1. PICK needs \in NeedsOf(k) : call' = [tool |-> k, needs |-> needs]
  BY DEF RunTool
<1>2. needs \in BOOLEAN
  BY DEF NeedsOf
<1> QED
  BY <1>1, <1>2 DEF Calls

LEMMA ControlStep == ControlOK /\ [Next]_vars => ControlOK'
  <1> SUFFICES ASSUME ControlOK, [Next]_vars PROVE ControlOK'
    OBVIOUS
  <1> USE MoveTypes, Events DEF ControlOK, Reach, On, Answered, Return, Commit, Request,
                                Awaits, Between, Ends, control, memory, inHand, history
  <1>1. CASE Begin
    BY <1>1 DEF Begin
  <1>2. CASE AnswersDirectly
    BY <1>2 DEF AnswersDirectly
  <1>3. CASE Routed
    BY <1>3 DEF Routed
  <1>4. CASE FastPathLeaves
    BY <1>4 DEF FastPathLeaves
  <1>52. CASE FastPathEnds
    BY <1>52 DEF FastPathEnds, PassesGate
  <1>5. CASE NoSession
    BY <1>5 DEF NoSession
  <1>6. CASE ContextReady
    BY <1>6 DEF ContextReady
  <1>7. CASE Step
    BY <1>7 DEF Step, GoesOn
  <1>8. CASE ExtendedStep
    BY <1>8 DEF ExtendedStep, GoesOn, ExtensionLeft
  <1>9. CASE FullStep
    BY <1>9 DEF FullStep, GoesOn
  <1>10. CASE LeaveLoop
    BY <1>10 DEF LeaveLoop
  <1>11. CASE \E w \in {"model", "deliveryModel", "synthesis", "fallback"} : Cancelled(w)
    BY <1>11 DEF Cancelled
  <1>12. CASE ModelFails("timeout", "TIMEOUT")
    BY <1>12 DEF ModelFails
  <1>13. CASE ModelFails("error", "FAIL")
    BY <1>13 DEF ModelFails
  <1>14. CASE PlansInProse
    BY <1>14 DEF PlansInProse, ModelAnswers
  <1>15. CASE AnswersFinally
    BY <1>15 DEF AnswersFinally, ModelAnswers, Progress
  <1>16. CASE AnswersIncompletely
    BY <1>16 DEF AnswersIncompletely, ModelAnswers, Progress
  <1>17. CASE CallsTools
    BY <1>17 DEF CallsTools, ModelAnswers, Progress
  <1>18. CASE CallsByJson
    BY <1>18 DEF CallsByJson, ModelAnswers, Progress
  <1>19. CASE PassOver
    BY <1>19 DEF PassOver, InBatch, NextCall, KeepsBatch
  <1>20. CASE CallRepeats
    BY <1>20 DEF CallRepeats, InBatch, Repeats, Abort, NextCall, KeepsBatch
  <1>21. CASE CallLoadsTools
    BY <1>21 DEF CallLoadsTools, InBatch, LoadsTools, NextCall
  <1>22. CASE CallDefersSend
    BY <1>22 DEF CallDefersSend, InBatch, DefersSend, NextCall, KeepsBatch
  <1>23. CASE CallAsksAuthorization
    BY <1>23 DEF CallAsksAuthorization, InBatch, AsksAuthorization
  <1>24. CASE CallIsBlocked
    BY <1>24 DEF CallIsBlocked, InBatch, Edits, Abort, NextCall, KeepsBatch
  <1>25. CASE CallRuns
    <2>1. call' \in Calls
      BY <1>25, CallInHand DEF CallRuns
    <2> QED
      BY <1>25, <2>1 DEF CallRuns, RunTool
  <1>26. CASE CallEnds
    BY <1>26 DEF CallEnds, Executed
  <1>27. CASE BatchEnds
    BY <1>27 DEF BatchEnds
  <1>28. CASE ActionIsUnknown
    BY <1>28 DEF ActionIsUnknown
  <1>29. CASE ActionRepeats
    BY <1>29 DEF ActionRepeats, Repeats, Abort
  <1>30. CASE ActionLoadsTools
    BY <1>30 DEF ActionLoadsTools, LoadsTools
  <1>31. CASE EditActionIsBlocked
    BY <1>31 DEF EditActionIsBlocked, Edits, Abort, ActionBlocked
  <1>32. CASE AudioActionIsBlocked
    BY <1>32 DEF AudioActionIsBlocked, ActionBlocked
  <1>33. CASE ActionAsksAuthorization
    BY <1>33 DEF ActionAsksAuthorization, AsksAuthorization
  <1>34. CASE ActionRuns
    <2>1. call' \in Calls
      BY <1>34, CallInHand DEF ActionRuns
    <2> QED
      BY <1>34, <2>1 DEF ActionRuns, RunTool
  <1>35. CASE ActionEnds
    BY <1>35 DEF ActionEnds, Executed
  <1>36. CASE AskDelivery
    BY <1>36 DEF AskDelivery, CountsDelivery, DeliverySteps
  <1>37. CASE DeliveryStepsSpent
    BY <1>37 DEF DeliveryStepsSpent, DeliverySteps
  <1>38. CASE DeliveryFails
    BY <1>38 DEF DeliveryFails
  <1>39. CASE DeliveryCalls
    BY <1>39 DEF DeliveryCalls
  <1>40. CASE DeliveryPassOver
    BY <1>40 DEF DeliveryPassOver, NextCall, KeepsBatch
  <1>41. CASE DeliveryCallRuns
    BY <1>41 DEF DeliveryCallRuns
  <1>42. CASE DeliveryCallEnds
    <2>1. ranUnasked' \in BOOLEAN
      BY <1>42 DEF DeliveryCallEnds, Executed
    <2>2. UNCHANGED <<native, best, terminal, others, call, aborted, late, blockedAction>>
      BY <1>42 DEF DeliveryCallEnds
    <2>3. pc' \in Awaits \union Between \union Ends /\ result' \in {result, "delivered"}
      BY <1>42 DEF DeliveryCallEnds
    <2>4. fsm' \in FsmStates
      <3>1. Move(fsm, "TOOL_COMPLETED") \in FsmStates
        OBVIOUS
      <3>2. Move(Move(fsm, "TOOL_COMPLETED"), "FINAL_READY") \in FsmStates
        BY <3>1
      <3> QED
        BY <1>42, <3>1, <3>2 DEF DeliveryCallEnds
    <2> QED
      BY <2>1, <2>2, <2>3, <2>4
  <1>43. CASE DeliveryBatchEnds
    BY <1>43 DEF DeliveryBatchEnds
  <1>44. CASE DeliversToolOutput
    BY <1>44 DEF DeliversToolOutput
  <1>45. CASE AskSynthesis
    BY <1>45 DEF AskSynthesis
  <1>46. CASE NothingToSynthesize
    BY <1>46 DEF NothingToSynthesize, FallBack
  <1>47. CASE SynthesisEnds
    BY <1>47 DEF SynthesisEnds, FallBack
  <1>48. CASE FallbackEnds
    BY <1>48 DEF FallbackEnds
  <1>49. CASE Judged
    BY <1>49 DEF Judged
  <1>50. CASE Stop
    BY <1>50 DEF Stop
  <1>51. CASE UNCHANGED vars
    BY <1>51 DEF vars
  <1>53. QED
    BY <1>1, <1>2, <1>3, <1>4, <1>5, <1>6, <1>7, <1>8, <1>9, <1>10, <1>11, <1>12, <1>13, <1>14, <1>15, <1>16, <1>17, <1>18, <1>19, <1>20, <1>21, <1>22, <1>23, <1>24, <1>25, <1>26, <1>27, <1>28, <1>29, <1>30, <1>31, <1>32, <1>33, <1>34, <1>35, <1>36, <1>37, <1>38, <1>39, <1>40, <1>41, <1>42, <1>43, <1>44, <1>45, <1>46, <1>47, <1>48, <1>49, <1>50, <1>51, <1>52
       DEF Next, TurnStep, Setup, Answers, NativeCalls, JsonCall, Delivery, Closing

LEMMA SeenStep == SeenOK /\ [Next]_vars => SeenOK'
  <1> SUFFICES ASSUME SeenOK, [Next]_vars PROVE SeenOK'
    OBVIOUS
  <1> USE DEF SeenOK, memory
  <1>1. CASE Begin
    BY <1>1 DEF Begin
  <1>2. CASE AnswersDirectly
    BY <1>2 DEF AnswersDirectly
  <1>3. CASE Routed
    BY <1>3 DEF Routed
  <1>4. CASE FastPathLeaves
    BY <1>4 DEF FastPathLeaves
  <1>52. CASE FastPathEnds
    BY <1>52 DEF FastPathEnds
  <1>5. CASE NoSession
    BY <1>5 DEF NoSession
  <1>6. CASE ContextReady
    BY <1>6 DEF ContextReady
  <1>7. CASE Step
    BY <1>7 DEF Step, GoesOn
  <1>8. CASE ExtendedStep
    BY <1>8 DEF ExtendedStep, GoesOn, ExtensionLeft
  <1>9. CASE FullStep
    BY <1>9 DEF FullStep, GoesOn
  <1>10. CASE LeaveLoop
    BY <1>10 DEF LeaveLoop
  <1>11. CASE \E w \in {"model", "deliveryModel", "synthesis", "fallback"} : Cancelled(w)
    BY <1>11 DEF Cancelled
  <1>12. CASE ModelFails("timeout", "TIMEOUT")
    BY <1>12 DEF ModelFails
  <1>13. CASE ModelFails("error", "FAIL")
    BY <1>13 DEF ModelFails
  <1>14. CASE PlansInProse
    BY <1>14 DEF PlansInProse, ModelAnswers
  <1>15. CASE AnswersFinally
    BY <1>15 DEF AnswersFinally, ModelAnswers, Progress
  <1>16. CASE AnswersIncompletely
    BY <1>16 DEF AnswersIncompletely, ModelAnswers, Progress
  <1>17. CASE CallsTools
    BY <1>17 DEF CallsTools, ModelAnswers, Progress
  <1>18. CASE CallsByJson
    BY <1>18 DEF CallsByJson, ModelAnswers, Progress
  <1>19. CASE PassOver
    BY <1>19 DEF PassOver, InBatch, NextCall, KeepsBatch
  <1>20. CASE CallRepeats
    BY <1>20 DEF CallRepeats, InBatch, Repeats, Abort, NextCall, KeepsBatch
  <1>21. CASE CallLoadsTools
    BY <1>21 DEF CallLoadsTools, InBatch, LoadsTools, NextCall
  <1>22. CASE CallDefersSend
    BY <1>22 DEF CallDefersSend, InBatch, DefersSend, NextCall, KeepsBatch
  <1>23. CASE CallAsksAuthorization
    BY <1>23 DEF CallAsksAuthorization, InBatch, AsksAuthorization
  <1>24. CASE CallIsBlocked
    BY <1>24 DEF CallIsBlocked, InBatch, Edits, Abort, NextCall, KeepsBatch
  <1>25. CASE CallRuns
    BY <1>25 DEF CallRuns, InBatch, RunTool, Edits
  <1>26. CASE CallEnds
    BY <1>26 DEF CallEnds, Guards, Abort, NextCall, Recorded
  <1>27. CASE BatchEnds
    BY <1>27 DEF BatchEnds
  <1>28. CASE ActionIsUnknown
    BY <1>28 DEF ActionIsUnknown
  <1>29. CASE ActionRepeats
    BY <1>29 DEF ActionRepeats, Repeats, Abort
  <1>30. CASE ActionLoadsTools
    BY <1>30 DEF ActionLoadsTools, LoadsTools
  <1>31. CASE EditActionIsBlocked
    BY <1>31 DEF EditActionIsBlocked, Edits, Abort, ActionBlocked
  <1>32. CASE AudioActionIsBlocked
    BY <1>32 DEF AudioActionIsBlocked, ActionBlocked
  <1>33. CASE ActionAsksAuthorization
    BY <1>33 DEF ActionAsksAuthorization, AsksAuthorization
  <1>34. CASE ActionRuns
    BY <1>34 DEF ActionRuns, RunTool, Edits
  <1>35. CASE ActionEnds
    BY <1>35 DEF ActionEnds, Guards, Abort, Recorded
  <1>36. CASE AskDelivery
    BY <1>36 DEF AskDelivery, CountsDelivery, DeliverySteps
  <1>37. CASE DeliveryStepsSpent
    BY <1>37 DEF DeliveryStepsSpent, DeliverySteps
  <1>38. CASE DeliveryFails
    BY <1>38 DEF DeliveryFails
  <1>39. CASE DeliveryCalls
    BY <1>39 DEF DeliveryCalls
  <1>40. CASE DeliveryPassOver
    BY <1>40 DEF DeliveryPassOver, NextCall, KeepsBatch
  <1>41. CASE DeliveryCallRuns
    BY <1>41 DEF DeliveryCallRuns
  <1>42. CASE DeliveryCallEnds
    BY <1>42 DEF DeliveryCallEnds, NextCall
  <1>43. CASE DeliveryBatchEnds
    BY <1>43 DEF DeliveryBatchEnds
  <1>44. CASE DeliversToolOutput
    BY <1>44 DEF DeliversToolOutput
  <1>45. CASE AskSynthesis
    BY <1>45 DEF AskSynthesis
  <1>46. CASE NothingToSynthesize
    BY <1>46 DEF NothingToSynthesize, FallBack
  <1>47. CASE SynthesisEnds
    BY <1>47 DEF SynthesisEnds, FallBack
  <1>48. CASE FallbackEnds
    BY <1>48 DEF FallbackEnds
  <1>49. CASE Judged
    BY <1>49 DEF Judged
  <1>50. CASE Stop
    BY <1>50 DEF Stop
  <1>51. CASE UNCHANGED vars
    BY <1>51 DEF vars
  <1>53. QED
    BY <1>1, <1>2, <1>3, <1>4, <1>5, <1>6, <1>7, <1>8, <1>9, <1>10, <1>11, <1>12, <1>13, <1>14, <1>15, <1>16, <1>17, <1>18, <1>19, <1>20, <1>21, <1>22, <1>23, <1>24, <1>25, <1>26, <1>27, <1>28, <1>29, <1>30, <1>31, <1>32, <1>33, <1>34, <1>35, <1>36, <1>37, <1>38, <1>39, <1>40, <1>41, <1>42, <1>43, <1>44, <1>45, <1>46, <1>47, <1>48, <1>49, <1>50, <1>51, <1>52
       DEF Next, TurnStep, Setup, Answers, NativeCalls, JsonCall, Delivery, Closing

(* A failure ends the loop at the limit; the calls left of the batch go on. *)
CountsInv == /\ CountsOK
             /\ ~dedupAbort => counts.failures < FailuresStop
             /\ pc \in {"batch", "tool"} => counts.failures + batch < FailuresStop + MaxCalls
             /\ pc \in {"model", "json", "action"} => ~dedupAbort
             /\ pc \in {"tool", "deliveryTool"} => batch > 0

LEMMA CountsStep == CountsInv /\ [Next]_vars => CountsInv'
  <1> SUFFICES ASSUME CountsInv, [Next]_vars PROVE CountsInv'
    OBVIOUS
  <1> USE LimitsAssumption DEF CountsInv, CountsOK, Reach, Return, Commit, Request,
                               control, budget, memory, inHand
  <1>1. CASE Begin
    BY <1>1 DEF Begin
  <1>2. CASE AnswersDirectly
    BY <1>2 DEF AnswersDirectly
  <1>3. CASE Routed
    BY <1>3 DEF Routed
  <1>4. CASE FastPathLeaves
    BY <1>4 DEF FastPathLeaves
  <1>52. CASE FastPathEnds
    BY <1>52 DEF FastPathEnds
  <1>5. CASE NoSession
    BY <1>5 DEF NoSession
  <1>6. CASE ContextReady
    BY <1>6 DEF ContextReady
  <1>7. CASE Step
    BY <1>7 DEF Step, GoesOn
  <1>8. CASE ExtendedStep
    BY <1>8 DEF ExtendedStep, GoesOn, ExtensionLeft
  <1>9. CASE FullStep
    BY <1>9 DEF FullStep, GoesOn
  <1>10. CASE LeaveLoop
    BY <1>10 DEF LeaveLoop
  <1>11. CASE \E w \in {"model", "deliveryModel", "synthesis", "fallback"} : Cancelled(w)
    BY <1>11 DEF Cancelled
  <1>12. CASE ModelFails("timeout", "TIMEOUT")
    BY <1>12 DEF ModelFails
  <1>13. CASE ModelFails("error", "FAIL")
    BY <1>13 DEF ModelFails
  <1>14. CASE PlansInProse
    BY <1>14 DEF PlansInProse, ModelAnswers
  <1>15. CASE AnswersFinally
    BY <1>15 DEF AnswersFinally, ModelAnswers, Progress
  <1>16. CASE AnswersIncompletely
    BY <1>16 DEF AnswersIncompletely, ModelAnswers, Progress
  <1>17. CASE CallsTools
    BY <1>17 DEF CallsTools, ModelAnswers, Progress
  <1>18. CASE CallsByJson
    BY <1>18 DEF CallsByJson, ModelAnswers, Progress
  <1>19. CASE PassOver
    BY <1>19 DEF PassOver, InBatch, NextCall, KeepsBatch
  <1>20. CASE CallRepeats
    BY <1>20 DEF CallRepeats, InBatch, Repeats, Abort, NextCall, KeepsBatch
  <1>21. CASE CallLoadsTools
    BY <1>21 DEF CallLoadsTools, InBatch, LoadsTools, NextCall
  <1>22. CASE CallDefersSend
    BY <1>22 DEF CallDefersSend, InBatch, DefersSend, NextCall, KeepsBatch
  <1>23. CASE CallAsksAuthorization
    BY <1>23 DEF CallAsksAuthorization, InBatch, AsksAuthorization
  <1>24. CASE CallIsBlocked
    BY <1>24 DEF CallIsBlocked, InBatch, Edits, Abort, NextCall, KeepsBatch
  <1>25. CASE CallRuns
    BY <1>25 DEF CallRuns, InBatch, RunTool, Edits
  <1>26. CASE CallEnds
    <2>1. PICK r \in Recovered : Guards(r.ok)
      BY <1>26 DEF CallEnds
    <2>2. counts' = [counts EXCEPT !.failures = IF r.ok THEN 0 ELSE counts.failures + 1]
      BY <2>1 DEF Guards
    <2>3. /\ counts' \in [nonProgress : Nat, edits : Nat, blocks : Nat, failures : Nat]
          /\ counts'.failures <= counts.failures + 1
      <3>1. CASE r.ok
        BY <2>2, <3>1
      <3>2. CASE ~r.ok
        BY <2>2, <3>2
      <3>3. QED
        BY <3>1, <3>2
    <2>4. dedupAbort' \in BOOLEAN /\ (~dedupAbort' => counts'.failures < FailuresStop)
      <3>1. PICK trips \in BOOLEAN : Abort(trips \/ counts'.failures >= FailuresStop)
        BY <2>1 DEF Guards
      <3>2. dedupAbort' \in BOOLEAN
        BY <3>1 DEF Abort
      <3>3. ~dedupAbort' => ~(counts'.failures >= FailuresStop)
        BY <3>1, Zenon DEF Abort
      <3>4. QED
        BY <2>3, <3>2, <3>3
    <2>5. /\ pc = "tool" /\ pc' \in {"batch", "thrown"} /\ batch' = batch - 1
          /\ maxSteps' \in Nat /\ UNCHANGED <<stepCount, extended>>
      BY <1>26 DEF CallEnds, NextCall
    <2>6. QED
      BY <2>3, <2>4, <2>5
  <1>27. CASE BatchEnds
    BY <1>27 DEF BatchEnds
  <1>28. CASE ActionIsUnknown
    BY <1>28 DEF ActionIsUnknown
  <1>29. CASE ActionRepeats
    BY <1>29 DEF ActionRepeats, Repeats, Abort
  <1>30. CASE ActionLoadsTools
    BY <1>30 DEF ActionLoadsTools, LoadsTools
  <1>31. CASE EditActionIsBlocked
    BY <1>31 DEF EditActionIsBlocked, Edits, Abort, ActionBlocked
  <1>32. CASE AudioActionIsBlocked
    BY <1>32 DEF AudioActionIsBlocked, ActionBlocked
  <1>33. CASE ActionAsksAuthorization
    BY <1>33 DEF ActionAsksAuthorization, AsksAuthorization
  <1>34. CASE ActionRuns
    BY <1>34 DEF ActionRuns, RunTool, Edits
  <1>35. CASE ActionEnds
    <2>1. PICK r \in Recovered : Guards(r.ok)
      BY <1>35 DEF ActionEnds
    <2>2. counts' = [counts EXCEPT !.failures = IF r.ok THEN 0 ELSE counts.failures + 1]
      BY <2>1 DEF Guards
    <2>3. /\ counts' \in [nonProgress : Nat, edits : Nat, blocks : Nat, failures : Nat]
          /\ counts'.failures <= counts.failures + 1
      <3>1. CASE r.ok
        BY <2>2, <3>1
      <3>2. CASE ~r.ok
        BY <2>2, <3>2
      <3>3. QED
        BY <3>1, <3>2
    <2>4. dedupAbort' \in BOOLEAN /\ (~dedupAbort' => counts'.failures < FailuresStop)
      <3>1. PICK trips \in BOOLEAN : Abort(trips \/ counts'.failures >= FailuresStop)
        BY <2>1 DEF Guards
      <3>2. dedupAbort' \in BOOLEAN
        BY <3>1 DEF Abort
      <3>3. ~dedupAbort' => ~(counts'.failures >= FailuresStop)
        BY <3>1, Zenon DEF Abort
      <3>4. QED
        BY <2>3, <3>2, <3>3
    <2>5. /\ pc = "action" /\ pc' \in {"loop", "over", "thrown"}
          /\ UNCHANGED <<stepCount, maxSteps, extended, batch>>
      BY <1>35 DEF ActionEnds
    <2>6. QED
      BY <2>3, <2>4, <2>5
  <1>36. CASE AskDelivery
    BY <1>36 DEF AskDelivery, CountsDelivery, DeliverySteps
  <1>37. CASE DeliveryStepsSpent
    BY <1>37 DEF DeliveryStepsSpent, DeliverySteps
  <1>38. CASE DeliveryFails
    BY <1>38 DEF DeliveryFails
  <1>39. CASE DeliveryCalls
    BY <1>39 DEF DeliveryCalls
  <1>40. CASE DeliveryPassOver
    BY <1>40 DEF DeliveryPassOver, NextCall, KeepsBatch
  <1>41. CASE DeliveryCallRuns
    BY <1>41 DEF DeliveryCallRuns
  <1>42. CASE DeliveryCallEnds
    BY <1>42 DEF DeliveryCallEnds, NextCall
  <1>43. CASE DeliveryBatchEnds
    BY <1>43 DEF DeliveryBatchEnds
  <1>44. CASE DeliversToolOutput
    BY <1>44 DEF DeliversToolOutput
  <1>45. CASE AskSynthesis
    BY <1>45 DEF AskSynthesis
  <1>46. CASE NothingToSynthesize
    BY <1>46 DEF NothingToSynthesize, FallBack
  <1>47. CASE SynthesisEnds
    BY <1>47 DEF SynthesisEnds, FallBack
  <1>48. CASE FallbackEnds
    BY <1>48 DEF FallbackEnds
  <1>49. CASE Judged
    BY <1>49 DEF Judged
  <1>50. CASE Stop
    BY <1>50 DEF Stop
  <1>51. CASE UNCHANGED vars
    BY <1>51 DEF vars
  <1>53. QED
    BY <1>1, <1>2, <1>3, <1>4, <1>5, <1>6, <1>7, <1>8, <1>9, <1>10, <1>11, <1>12, <1>13, <1>14, <1>15, <1>16, <1>17, <1>18, <1>19, <1>20, <1>21, <1>22, <1>23, <1>24, <1>25, <1>26, <1>27, <1>28, <1>29, <1>30, <1>31, <1>32, <1>33, <1>34, <1>35, <1>36, <1>37, <1>38, <1>39, <1>40, <1>41, <1>42, <1>43, <1>44, <1>45, <1>46, <1>47, <1>48, <1>49, <1>50, <1>51, <1>52
       DEF Next, TurnStep, Setup, Answers, NativeCalls, JsonCall, Delivery, Closing

(* Every reachable state of a turn is well typed; the failures in a row     *)
(* stay below the limit and the calls of one answer.                        *)
THEOREM TypeCorrect == Spec => []TypeOK
  <1>1. Init => ControlOK /\ SeenOK /\ CountsInv
    <2> SUFFICES ASSUME Init PROVE ControlOK /\ SeenOK /\ CountsInv
      OBVIOUS
    <2> USE DEF Init
    <2>1. ControlOK
      BY DEF ControlOK, FsmStates, Awaits, Between, Ends, Tools, Calls, NeedsOf
    <2>2. SeenOK
      BY DEF SeenOK
    <2>3. /\ counts \in [nonProgress : Nat, edits : Nat, blocks : Nat, failures : Nat]
          /\ counts.failures = 0
      OBVIOUS
    <2>4. stepCount = 0 /\ maxSteps = 0 /\ ~dedupAbort /\ ~extended /\ batch = 0 /\ pc = "idle"
          /\ dedupAbort \in BOOLEAN /\ extended \in BOOLEAN
      OBVIOUS
    <2>5. CountsInv
      BY <2>3, <2>4, LimitsAssumption DEF CountsInv, CountsOK
    <2>6. QED
      BY <2>1, <2>2, <2>5
  <1>2. ControlOK /\ SeenOK /\ CountsInv => TypeOK
    BY DEF TypeOK, CountsInv
  <1>3. QED
    BY <1>1, <1>2, ControlStep, SeenStep, CountsStep, PTL DEF Spec

(* The state machine of a turn follows it until a JSON call is blocked.    *)
THEOREM FsmIsFollowed == Spec => []FsmFollows
  <1>1. Init => FsmInv
    BY DEF Init, FsmInv, FsmFollows, Shown, Awaits, Between
  <1>2. FsmInv => FsmFollows
    BY DEF FsmInv
  <1>3. QED
    BY <1>1, <1>2, FsmStep, PTL DEF Spec

(* A turn makes at most the largest budget and four steps.                 *)
THEOREM StepsAreBounded == Spec => []StepsBounded
  <1>1. Init => StepInv
    <2> SUFFICES ASSUME Init PROVE StepInv
      OBVIOUS
    <2>1. stepCount = 0 /\ maxSteps = 0 /\ ~extended /\ extended \in BOOLEAN
      BY DEF Init
    <2>2. MaxBudget \in Nat
      BY LimitsAssumption
    <2>3. maxSteps <= MaxBudget + (IF extended THEN 2 ELSE 0)
      BY <2>1, <2>2
    <2>4. QED
      BY <2>1, <2>3 DEF StepInv
  <1>2. StepInv => StepsBounded
    BY LimitsAssumption DEF StepInv, StepsBounded, DeliverySteps
  <1>3. QED
    BY <1>1, <1>2, StepStep, PTL DEF Spec

(* After Stop the model is asked at most once more.                        *)
THEOREM AskedOnceAfterStop == Spec => []OneRequestAfterStop
  <1>1. Init => LateInv
    BY DEF Init, LateInv
  <1>2. LateInv => OneRequestAfterStop
    BY DEF LateInv, OneRequestAfterStop
  <1>3. QED
    BY <1>1, <1>2, LateStep, PTL DEF Spec

-----------------------------------------------------------------------------
(* What is executed was asked for                                          *)

(* Steps that put no call in hand.                                         *)
LEMMA NothingInHand ==
    ASSUME NothingRunsUnasked, UNCHANGED <<ranUnasked, call>>,
           pc' \in {"tool", "action"} => pc' = pc
    PROVE  NothingRunsUnasked'
  BY DEF NothingRunsUnasked

(* A call that is put in hand has passed the gate of its path.             *)
LEMMA GatedInHand ==
    ASSUME NothingRunsUnasked, UNCHANGED ranUnasked, NEW k, NEW where, RunTool(k, where)
    PROVE  NothingRunsUnasked'
<1>1. ~call'.needs
  BY DEF RunTool, PassesGate
<1> QED
  BY <1>1 DEF NothingRunsUnasked

(* What recovery puts in a call's place are tools that never need to be    *)
(* authorized, and it refuses a call that does.                            *)
LEMMA ReplacementsAreFree == \A c \in Replaced : ~c.needs
<1> SUFFICES ASSUME NEW c \in Replaced PROVE ~c.needs
  OBVIOUS
<1>1. PICK k \in Replacements(call.tool), n \in BOOLEAN : c = [tool |-> k, needs |-> n]
  BY DEF Replaced
<1>2. c.tool \in {"edit", "write", "lookup", "search"}
  BY <1>1 DEF Replacements
<1>3. c.needs \in NeedsOf(c.tool)
  BY DEF Replaced, Calls
<1> QED
  BY <1>2, <1>3 DEF NeedsOf

LEMMA RecoveredIsAsked == \A r \in Recovered : \A c \in r.ran : ~c.needs
<1>1. CASE call.needs
  BY <1>1 DEF Recovered, RecoveryRefuses, PassesGate, Ended
<1>2. CASE ~call.needs
  <2>1. \A r \in Recovered : r.ran \subseteq {call} \union Replaced
    BY DEF Recovered, Ended
  <2> QED
    BY <1>2, <2>1, ReplacementsAreFree
<1> QED
  BY <1>1, <1>2

(* What is executed, by whatever path but the fast one, ends so.           *)
LEMMA RecoveryInHand ==
    ASSUME NothingRunsUnasked, NEW r \in Recovered, Executed(r), NEW s, NEW where, Reach(s, where),
           where \notin {"tool", "action"}
    PROVE  NothingRunsUnasked'
<1>1. \A c \in r.ran : ~c.needs
  BY RecoveredIsAsked
<1> QED
  BY <1>1 DEF NothingRunsUnasked, Executed, Reach

LEMMA UnaskedStep == NothingRunsUnasked /\ [Next]_vars => NothingRunsUnasked'
  <1> SUFFICES ASSUME NothingRunsUnasked, [Next]_vars PROVE NothingRunsUnasked'
    OBVIOUS
  <1> USE DEF inHand, history, control, Reach, Return, Commit, Request
  <1>1. CASE Begin \/ Setup \/ Step \/ ExtendedStep \/ FullStep \/ LeaveLoop
    <2>1. CASE FastPathEnds
      <3>1. ~ranUnasked' /\ pc' \notin {"tool", "action"}
        BY <2>1 DEF FastPathEnds, PassesGate, NothingRunsUnasked
      <3> QED
        BY <3>1 DEF NothingRunsUnasked
    <2>2. CASE ~FastPathEnds
      BY <1>1, <2>2, NothingInHand
         DEF Begin, Setup, AnswersDirectly, Routed, FastPathLeaves, NoSession, ContextReady,
             Step, ExtendedStep, FullStep, LeaveLoop
    <2> QED
      BY <2>1, <2>2
  <1>2. CASE Answers
    BY <1>2, NothingInHand
       DEF Answers, Cancelled, ModelFails, PlansInProse, AnswersFinally,
           AnswersIncompletely, CallsTools, CallsByJson
  <1>3. CASE NativeCalls
    <2>1. CASE CallRuns
      BY <2>1, GatedInHand DEF CallRuns
    <2>2. CASE CallEnds
      BY <2>2, RecoveryInHand DEF CallEnds
    <2>3. CASE PassOver \/ CallRepeats \/ CallLoadsTools \/ CallDefersSend
      BY <2>3, NothingInHand
         DEF PassOver, CallRepeats, CallLoadsTools, CallDefersSend, KeepsBatch
    <2>4. CASE CallAsksAuthorization \/ CallIsBlocked \/ BatchEnds
      BY <2>4, NothingInHand
         DEF CallAsksAuthorization, AsksAuthorization, CallIsBlocked, BatchEnds, KeepsBatch
    <2> QED
      BY <1>3, <2>1, <2>2, <2>3, <2>4 DEF NativeCalls
  <1>4. CASE JsonCall
    <2>1. CASE ActionRuns
      BY <2>1, GatedInHand DEF ActionRuns
    <2>2. CASE ActionEnds
      BY <2>2, RecoveryInHand DEF ActionEnds
    <2>3. CASE ActionIsUnknown \/ ActionRepeats \/ ActionLoadsTools
      BY <2>3, NothingInHand DEF ActionIsUnknown, ActionRepeats, ActionLoadsTools
    <2>4. CASE EditActionIsBlocked \/ AudioActionIsBlocked \/ ActionAsksAuthorization
      BY <2>4, NothingInHand
         DEF EditActionIsBlocked, AudioActionIsBlocked, ActionBlocked,
             ActionAsksAuthorization, AsksAuthorization
    <2> QED
      BY <1>4, <2>1, <2>2, <2>3, <2>4 DEF JsonCall
  <1>5. CASE Delivery
    <2>1. CASE DeliveryCallRuns
      BY <2>1 DEF DeliveryCallRuns, NothingRunsUnasked
    <2>2. CASE DeliveryCallEnds
      BY <2>2, RecoveryInHand DEF DeliveryCallEnds
    <2>3. CASE AskDelivery \/ DeliveryStepsSpent \/ DeliveryFails \/ DeliveryCalls
      BY <2>3, NothingInHand DEF AskDelivery, DeliveryStepsSpent, DeliveryFails, DeliveryCalls
    <2>4. CASE DeliveryPassOver \/ DeliveryBatchEnds
      BY <2>4, NothingInHand DEF DeliveryPassOver, DeliveryBatchEnds, KeepsBatch
    <2> QED
      BY <1>5, <2>1, <2>2, <2>3, <2>4 DEF Delivery
  <1>6. CASE Closing
    BY <1>6, NothingInHand
       DEF Closing, DeliversToolOutput, AskSynthesis, NothingToSynthesize, SynthesisEnds,
           FallBack, FallbackEnds, Judged
  <1>7. CASE Stop \/ UNCHANGED vars
    BY <1>7, NothingInHand DEF Stop, vars
  <1> QED
    BY <1>1, <1>2, <1>3, <1>4, <1>5, <1>6, <1>7 DEF Next, TurnStep

(* On none of the paths of a turn, the fast one, native calls, JSON calls  *)
(* or delivery, does a tool run for a call that needs the user's           *)
(* authorization, nor in place of one that failed; and where the turn can  *)
(* ask for it, the call never reaches the executor that would only refuse  *)
(* it.                                                                     *)
THEOREM NothingUnasked == Spec => []NothingRunsUnasked
  <1>1. Init => NothingRunsUnasked
    BY DEF Init, NothingRunsUnasked
  <1>2. QED
    BY <1>1, UnaskedStep, PTL DEF Spec

=============================================================================
