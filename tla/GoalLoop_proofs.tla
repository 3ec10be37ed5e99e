--------------------------- MODULE GoalLoop_proofs ---------------------------
(* Theorems about GoalLoop, for every set of files, every length of plan    *)
(* and every limit.                                                         *)
EXTENDS GoalLoop, FiniteSetTheorems, WellFoundedInduction, TLAPS

(* Where the loop may still end well the row is in a status that "completed" *)
(* can be reached from, and where it gives up in one that "failed" can be.  *)
StatusFits ==
    /\ pc = "new" => status \in {"active", "abandoned"}
    /\ pc = "planning" => status \in {"replanning", "abandoned"}
    /\ pc \in {"cycle", "step", "handling", "after", "validating", "nextMilestone",
               "sending", "lastValidation"}
         => status \in {"executing", "replanning", "abandoned"}
    /\ pc = "replanning" => status \in {"replanning", "blocked", "abandoned"}
    /\ pc = "delivering" => status # "active" /\ status # "completed"

(* The bonuses of the run of the loop that is on, by the replans it made.   *)
Bonuses(n) == IF n = 0 THEN 0 ELSE IF n = 1 THEN 1 ELSE 2
BonusesFit ==
    /\ granted <= 2 * resumes + 2
    /\ pc \notin {"over", "down", "replanning"} => granted <= 2 * resumes + Bonuses(replans)
    /\ pc = "replanning" => granted <= 2 * resumes + Bonuses(replans + 1)

(* The budget left pays for what was not spent; planWithSpiral writes at    *)
(* most the budget that is there.                                           *)
BudgetFits ==
    /\ spent + replanBudget <= MaxReplan + 2 * granted
    /\ pc = "replanning" => call.budget <= replanBudget + 1

StatusInv == ControlOK /\ StatusFits /\ OutcomeRecorded
BudgetInv == ControlOK /\ BonusesFit /\ BudgetFits

(* By the assumption on the limits the start is as the invariants say.      *)
LEMMA StatusInit == Init => StatusInv
  <1> SUFFICES ASSUME Init PROVE StatusInv
    OBVIOUS
  <1> USE LimitsAssumption
  <1>1. construction \in BOOLEAN /\ ahead \in 0..(Milestones - 1)
    <2>1. CASE construction
      BY <2>1 DEF Init
    <2>2. CASE ~construction
      BY <2>2 DEF Init
    <2>3. QED
      BY <2>1, <2>2 DEF Init
  <1>2. call \in [budget : Nat, then : {"after", "cycle"}]
    BY DEF Init, NoCall
  <1>3. /\ status = "active" /\ retryBudget = MaxRetry /\ replanBudget = MaxReplan
        /\ pc = "new" /\ idle = 0 /\ replans = 0 /\ result = "none"
        /\ resumes = 0 /\ spent = 0 /\ granted = 0
    BY DEF Init
  <1>4. request \in BOOLEAN
    BY DEF Init
  <1>5. QED
    BY <1>1, <1>2, <1>3, <1>4
       DEF StatusInv, ControlOK, StatusFits, OutcomeRecorded, Statuses, Terminal, Running

(* Each step writes a status the table of transitions leads to.             *)
LEMMA StatusStep == StatusInv /\ [Next]_vars => StatusInv'
  <1> SUFFICES ASSUME StatusInv, [Next]_vars PROVE StatusInv'
    OBVIOUS
  <1> USE LimitsAssumption DEF StatusInv, ControlOK, StatusFits, OutcomeRecorded, Statuses, Terminal, Running, StatusAfter, Allowed
  <1>1. CASE ExecuteGoal
    BY <1>1 DEF ExecuteGoal, UnchangedBudgets, UnchangedControl, history
  <1>2. CASE ResumeGoal
    <2>1. retryBudget' \in 0..MaxRetry
      <3>1. CASE Pending(plan) # <<>>
        BY <1>2, <3>1 DEF ResumeGoal, Less
      <3>2. CASE Pending(plan) = <<>>
        BY <1>2, <3>2 DEF ResumeGoal
      <3>3. QED
        BY <3>1, <3>2
    <2>2. /\ status' = "executing" /\ request' \in BOOLEAN
          /\ pc' = "cycle" /\ idle' = 0 /\ replans' = 0 /\ result' = "none"
          /\ resumes' = resumes + 1 /\ pc \in {"over", "down"}
          /\ UNCHANGED <<construction, ahead, replanBudget, call, spent, granted>>
      BY <1>2 DEF ResumeGoal
    <2>3. QED
      BY <2>1, <2>2
  <1>3. CASE Abandon
    BY <1>3 DEF Abandon, SetStatus, UnchangedBudgets, loop, history
  <1>4. CASE Refuse
    BY <1>4 DEF Refuse, UnchangedBudgets, loop, history
  <1>5. CASE Supplement
    BY <1>5 DEF Supplement, row, loop
  <1>6. CASE Crash
    BY <1>6 DEF Crash, SetStatus, StatusAfter, Allowed, Statuses, Terminal, UnchangedBudgets, NoCall
  <1>7. CASE LoopThrows
    BY <1>7 DEF LoopThrows, row, history, Return, UnchangedControl
  <1>8. CASE FirstPlanBlocked
    BY <1>8 DEF FirstPlanBlocked, SetStatus, Return, UnchangedBudgets, UnchangedControl, history
  <1>9. CASE FirstPlanWithoutAnswer
    BY <1>9 DEF FirstPlanWithoutAnswer, BlockedThen, UnchangedBudgets, UnchangedControl, history
  <1>10. CASE FirstPlan
    BY <1>10 DEF FirstPlan, UnchangedBudgets, UnchangedControl, history
  <1>11. CASE StopsAbandoned
    BY <1>11 DEF StopsAbandoned, Return, row, history, UnchangedControl
  <1>12. CASE BeginCycle
    BY <1>12 DEF BeginCycle, row, history, UnchangedControl
  <1>13. CASE CyclesSpent
    BY <1>13 DEF CyclesSpent, row, history
  <1>14. CASE StepOfAbandoned
    BY <1>14 DEF StepOfAbandoned, Return, Less, history, UnchangedControl
  <1>15. CASE StepSucceeds
    BY <1>15 DEF StepSucceeds, Less, history
  <1>16. CASE StepMismatches
    BY <1>16 DEF StepMismatches, Less, history
  <1>17. CASE StepFails
    BY <1>17 DEF StepFails, Less, history
  <1>18. CASE SourceIsEmpty
    BY <1>18 DEF SourceIsEmpty, SetStatus, Return, Less, history, UnchangedControl
  <1>19. CASE HandleSuccess
    BY <1>19 DEF HandleSuccess, Handles, UnchangedBudgets, history
  <1>20. CASE HandlePartial
    BY <1>20 DEF HandlePartial, Handles, Less, history
  <1>21. CASE AutoApproved
    BY <1>21 DEF AutoApproved, UnchangedBudgets, history
  <1>22. CASE HandleNeedsAuth
    BY <1>22 DEF HandleNeedsAuth, Return, UnchangedBudgets, UnchangedControl, history
  <1>23. CASE HandleNeedsDependency
    BY <1>23 DEF HandleNeedsDependency, Handles, UnchangedBudgets, history
  <1>24. CASE HandleBlocked
    BY <1>24 DEF HandleBlocked, Handles, BlockedThen, Respiral
  <1>25. CASE HandleBlockedSpent
    BY <1>25 DEF HandleBlockedSpent, Handles, UnchangedBudgets, history
  <1>26. CASE HandleFailed
    BY <1>26 DEF HandleFailed, Handles, SetStatus, UnchangedBudgets, history
  <1>27. CASE NoSupplement
    BY <1>27 DEF NoSupplement, row, history
  <1>28. CASE ReplanForSupplement
    BY <1>28 DEF ReplanForSupplement, Respiral
  <1>29. CASE SupplementAsFeedback
    BY <1>29 DEF SupplementAsFeedback, row, history
  <1>30. CASE PlanRejected
    BY <1>30 DEF PlanRejected, GoesOn, BlockedThen, Budgets, Less, history
  <1>31. CASE PlanWithoutAnswer
    BY <1>31 DEF PlanWithoutAnswer, GoesOn, BlockedThen, Budgets, SpiralBlocked, Less, history
  <1>32. CASE Replan
    BY <1>32 DEF Replan, GoesOn, Budgets, SpiralBlocked, Less, history
  <1>33. CASE MilestoneReached
    BY <1>33 DEF MilestoneReached, UnchangedBudgets, UnchangedControl, history
  <1>34. CASE MilestonePlanBlocked
    BY <1>34 DEF MilestonePlanBlocked, SetStatus, Return, UnchangedBudgets, UnchangedControl, history
  <1>35. CASE MilestonePlan
    BY <1>35 DEF MilestonePlan, UnchangedBudgets, history
  <1>36. CASE GoalAchieved
    BY <1>36 DEF GoalAchieved, row, history
  <1>37. CASE SendOne
    BY <1>37 DEF SendOne, Less, history
  <1>38. CASE AllSent
    BY <1>38 DEF AllSent, SetStatus, Return, UnchangedBudgets, UnchangedControl, history
  <1>39. CASE DeliverablesFound
    BY <1>39 DEF DeliverablesFound, UnchangedBudgets, history
  <1>40. CASE NotAchieved
    BY <1>40 DEF NotAchieved, BlockedThen, Respiral
  <1>41. CASE BonusReplan
    BY <1>41 DEF BonusReplan, Respiral
  <1>42. CASE BudgetSpent
    BY <1>42 DEF BudgetSpent, SetStatus, UnchangedBudgets, history
  <1>43. CASE LastValidation
    BY <1>43 DEF LastValidation, SetStatus, Return, UnchangedBudgets, UnchangedControl, history
  <1>44. CASE DeliverReady
    BY <1>44 DEF DeliverReady, Less, history
  <1>45. CASE FailAfterDelivery
    BY <1>45 DEF FailAfterDelivery, SetStatus, Return, UnchangedBudgets, UnchangedControl, history
  <1>46. CASE UNCHANGED vars
    BY <1>46 DEF vars, row, loop, history
  <1>47. QED
    BY <1>1, <1>2, <1>3, <1>4, <1>5, <1>6, <1>7, <1>8, <1>9, <1>10,
       <1>11, <1>12, <1>13, <1>14, <1>15, <1>16, <1>17, <1>18, <1>19,
       <1>20, <1>21, <1>22, <1>23, <1>24, <1>25, <1>26, <1>27, <1>28,
       <1>29, <1>30, <1>31, <1>32, <1>33, <1>34, <1>35, <1>36, <1>37,
       <1>38, <1>39, <1>40, <1>41, <1>42, <1>43, <1>44, <1>45, <1>46
       DEF Next, Work, RunStep, Handle, Validate

LEMMA BudgetInit == Init => BudgetInv
  <1> SUFFICES ASSUME Init PROVE BudgetInv
    OBVIOUS
  <1> USE LimitsAssumption
  <1>1. construction \in BOOLEAN /\ ahead \in 0..(Milestones - 1)
    <2>1. CASE construction
      BY <2>1 DEF Init
    <2>2. CASE ~construction
      BY <2>2 DEF Init
    <2>3. QED
      BY <2>1, <2>2 DEF Init
  <1>2. call \in [budget : Nat, then : {"after", "cycle"}]
    BY DEF Init, NoCall
  <1>3. /\ status = "active" /\ retryBudget = MaxRetry /\ replanBudget = MaxReplan
        /\ pc = "new" /\ idle = 0 /\ replans = 0 /\ result = "none"
        /\ resumes = 0 /\ spent = 0 /\ granted = 0
    BY DEF Init
  <1>4. request \in BOOLEAN
    BY DEF Init
  <1>5. QED
    BY <1>1, <1>2, <1>3, <1>4
       DEF BudgetInv, ControlOK, BonusesFit, BudgetFits, Bonuses, Statuses, Terminal, Running

(* Each call of the planner is paid by the budget or by a bonus.            *)
LEMMA BudgetStep == BudgetInv /\ [Next]_vars => BudgetInv'
  <1> SUFFICES ASSUME BudgetInv, [Next]_vars PROVE BudgetInv'
    OBVIOUS
  <1> USE LimitsAssumption DEF BudgetInv, ControlOK, BonusesFit, BudgetFits, Bonuses, Statuses, Terminal, Running, StatusAfter, Allowed
  <1>1. CASE ExecuteGoal
    BY <1>1 DEF ExecuteGoal, UnchangedBudgets, UnchangedControl, history
  <1>2. CASE ResumeGoal
    <2>1. retryBudget' \in 0..MaxRetry
      <3>1. CASE Pending(plan) # <<>>
        BY <1>2, <3>1 DEF ResumeGoal, Less
      <3>2. CASE Pending(plan) = <<>>
        BY <1>2, <3>2 DEF ResumeGoal
      <3>3. QED
        BY <3>1, <3>2
    <2>2. /\ status' = "executing" /\ request' \in BOOLEAN
          /\ pc' = "cycle" /\ idle' = 0 /\ replans' = 0 /\ result' = "none"
          /\ resumes' = resumes + 1 /\ pc \in {"over", "down"}
          /\ UNCHANGED <<construction, ahead, replanBudget, call, spent, granted>>
      BY <1>2 DEF ResumeGoal
    <2>3. QED
      BY <2>1, <2>2
  <1>3. CASE Abandon
    BY <1>3 DEF Abandon, SetStatus, UnchangedBudgets, loop, history
  <1>4. CASE Refuse
    BY <1>4 DEF Refuse, UnchangedBudgets, loop, history
  <1>5. CASE Supplement
    BY <1>5 DEF Supplement, row, loop
  <1>6. CASE Crash
    BY <1>6 DEF Crash, SetStatus, UnchangedBudgets, NoCall
  <1>7. CASE LoopThrows
    BY <1>7 DEF LoopThrows, row, history, Return, UnchangedControl
  <1>8. CASE FirstPlanBlocked
    BY <1>8 DEF FirstPlanBlocked, SetStatus, Return, UnchangedBudgets, UnchangedControl, history
  <1>9. CASE FirstPlanWithoutAnswer
    BY <1>9 DEF FirstPlanWithoutAnswer, BlockedThen, UnchangedBudgets, UnchangedControl, history
  <1>10. CASE FirstPlan
    BY <1>10 DEF FirstPlan, UnchangedBudgets, UnchangedControl, history
  <1>11. CASE StopsAbandoned
    BY <1>11 DEF StopsAbandoned, Return, row, history, UnchangedControl
  <1>12. CASE BeginCycle
    BY <1>12 DEF BeginCycle, row, history, UnchangedControl
  <1>13. CASE CyclesSpent
    BY <1>13 DEF CyclesSpent, row, history
  <1>14. CASE StepOfAbandoned
    BY <1>14 DEF StepOfAbandoned, Return, Less, history, UnchangedControl
  <1>15. CASE StepSucceeds
    BY <1>15 DEF StepSucceeds, Less, history
  <1>16. CASE StepMismatches
    BY <1>16 DEF StepMismatches, Less, history
  <1>17. CASE StepFails
    BY <1>17 DEF StepFails, Less, history
  <1>18. CASE SourceIsEmpty
    BY <1>18 DEF SourceIsEmpty, SetStatus, Return, Less, history, UnchangedControl
  <1>19. CASE HandleSuccess
    BY <1>19 DEF HandleSuccess, Handles, UnchangedBudgets, history
  <1>20. CASE HandlePartial
    BY <1>20 DEF HandlePartial, Handles, Less, history
  <1>21. CASE AutoApproved
    BY <1>21 DEF AutoApproved, UnchangedBudgets, history
  <1>22. CASE HandleNeedsAuth
    BY <1>22 DEF HandleNeedsAuth, Return, UnchangedBudgets, UnchangedControl, history
  <1>23. CASE HandleNeedsDependency
    BY <1>23 DEF HandleNeedsDependency, Handles, UnchangedBudgets, history
  <1>24. CASE HandleBlocked
    BY <1>24 DEF HandleBlocked, Handles, BlockedThen, Respiral
  <1>25. CASE HandleBlockedSpent
    BY <1>25 DEF HandleBlockedSpent, Handles, UnchangedBudgets, history
  <1>26. CASE HandleFailed
    BY <1>26 DEF HandleFailed, Handles, SetStatus, UnchangedBudgets, history
  <1>27. CASE NoSupplement
    BY <1>27 DEF NoSupplement, row, history
  <1>28. CASE ReplanForSupplement
    BY <1>28 DEF ReplanForSupplement, Respiral
  <1>29. CASE SupplementAsFeedback
    BY <1>29 DEF SupplementAsFeedback, row, history
  <1>30. CASE PlanRejected
    BY <1>30 DEF PlanRejected, GoesOn, BlockedThen, Budgets, Less, history
  <1>31. CASE PlanWithoutAnswer
    BY <1>31 DEF PlanWithoutAnswer, GoesOn, BlockedThen, Budgets, SpiralBlocked, Less, history
  <1>32. CASE Replan
    BY <1>32 DEF Replan, GoesOn, Budgets, SpiralBlocked, Less, history
  <1>33. CASE MilestoneReached
    BY <1>33 DEF MilestoneReached, UnchangedBudgets, UnchangedControl, history
  <1>34. CASE MilestonePlanBlocked
    BY <1>34 DEF MilestonePlanBlocked, SetStatus, Return, UnchangedBudgets, UnchangedControl, history
  <1>35. CASE MilestonePlan
    BY <1>35 DEF MilestonePlan, UnchangedBudgets, history
  <1>36. CASE GoalAchieved
    BY <1>36 DEF GoalAchieved, row, history
  <1>37. CASE SendOne
    BY <1>37 DEF SendOne, Less, history
  <1>38. CASE AllSent
    BY <1>38 DEF AllSent, SetStatus, Return, UnchangedBudgets, UnchangedControl, history
  <1>39. CASE DeliverablesFound
    BY <1>39 DEF DeliverablesFound, UnchangedBudgets, history
  <1>40. CASE NotAchieved
    BY <1>40 DEF NotAchieved, BlockedThen, Respiral
  <1>41. CASE BonusReplan
    BY <1>41 DEF BonusReplan, Respiral
  <1>42. CASE BudgetSpent
    BY <1>42 DEF BudgetSpent, SetStatus, UnchangedBudgets, history
  <1>43. CASE LastValidation
    BY <1>43 DEF LastValidation, SetStatus, Return, UnchangedBudgets, UnchangedControl, history
  <1>44. CASE DeliverReady
    BY <1>44 DEF DeliverReady, Less, history
  <1>45. CASE FailAfterDelivery
    BY <1>45 DEF FailAfterDelivery, SetStatus, Return, UnchangedBudgets, UnchangedControl, history
  <1>46. CASE UNCHANGED vars
    BY <1>46 DEF vars, row, loop, history
  <1>47. QED
    BY <1>1, <1>2, <1>3, <1>4, <1>5, <1>6, <1>7, <1>8, <1>9, <1>10,
       <1>11, <1>12, <1>13, <1>14, <1>15, <1>16, <1>17, <1>18, <1>19,
       <1>20, <1>21, <1>22, <1>23, <1>24, <1>25, <1>26, <1>27, <1>28,
       <1>29, <1>30, <1>31, <1>32, <1>33, <1>34, <1>35, <1>36, <1>37,
       <1>38, <1>39, <1>40, <1>41, <1>42, <1>43, <1>44, <1>45, <1>46
       DEF Next, Work, RunStep, Handle, Validate

(* The scalar part of the type invariant (the columns of the goals table    *)
(* and the counters of runLoopInternal), for every limit.                   *)
THEOREM ControlCorrect == Spec => []ControlOK
  <1>1. StatusInv => ControlOK
    BY DEF StatusInv
  <1>2. QED
    BY <1>1, StatusInit, StatusStep, PTL DEF Spec

(* What the loop tells the user is what the row says, for every planner,    *)
(* judge and tool, and for every interleaving of abandonments, supplements, *)
(* answers and restarts (setStatus, runValidationAchievedPhase).            *)
THEOREM OutcomeIsRecorded == Spec => []OutcomeRecorded
  <1>1. StatusInv => OutcomeRecorded
    BY DEF StatusInv
  <1>2. QED
    BY <1>1, StatusInit, StatusStep, PTL DEF Spec

(* The planner is called again at most as often as the budget and the       *)
(* bonuses pay for (planWithSpiral, runValidationNotAchievedPhase).         *)
THEOREM ReplansAreBounded == Spec => []ReplansBounded
  <1>1. BudgetInv => ReplansBounded
    BY LimitsAssumption DEF BudgetInv, BudgetFits, BonusesFit, ReplansBounded, ControlOK
  <1>2. QED
    BY <1>1, BudgetInit, BudgetStep, PTL DEF Spec

-----------------------------------------------------------------------------
(* What Those returns, for every plan: by a least counterexample, since the *)
(* theorems on induction cannot be instantiated.                            *)

LEMMA Least ==
    ASSUME NEW T, T \subseteq Nat, T # {}
    PROVE  \E x \in T : \A y \in T : x <= y
  <1>1. IsWellFoundedOn(OpToRel(<, Nat), Nat)
    BY NatLessThanWellFounded
  <1>2. PICK x \in T : \A y \in T : ~(<<y, x>> \in OpToRel(<, Nat))
    BY <1>1, WFMin
  <1>3. ASSUME NEW y \in T PROVE x <= y
    <2>1. <<y, x>> \notin {pair \in Nat \X Nat : pair[1] < pair[2]}
      BY ONLY <1>2, <1>3, Zenon DEF OpToRel
    <2>2. QED
      BY <2>1
  <1>4. QED
    BY <1>3

(* The recursive function that Those defines, for the first m steps.        *)
Builds(F, p, places, m) ==
    F = [n \in 0..m |-> IF n = 0 THEN <<>>
                        ELSE IF n \in places THEN Append(F[n - 1], p[n]) ELSE F[n - 1]]

LEMMA BuildsExists ==
    ASSUME NEW p, NEW places, NEW m \in Nat
    PROVE  \E F : Builds(F, p, places, m)
  <1> DEFINE T == {k \in Nat : ~ \E F : Builds(F, p, places, k)}
  <1>1. SUFFICES ASSUME T # {} PROVE FALSE
    BY Zenon
  <1>2. PICK k \in T : \A y \in T : k <= y
    BY <1>1, Least
  <1> HIDE DEF T
  <1>3. k \in Nat /\ ~ \E F : Builds(F, p, places, k)
    BY DEF T
  <1>4. k # 0
    <2>1. Builds([n \in {0} |-> <<>>], p, places, 0)
      BY DEF Builds
    <2>2. QED
      BY <2>1, <1>3
  <1>5. k - 1 \in Nat /\ k - 1 \notin T
    BY <1>2, <1>3, <1>4
  <1>6. PICK G : Builds(G, p, places, k - 1)
    BY <1>5 DEF T
  <1> DEFINE H == [n \in 0..k |-> IF n = k THEN IF k \in places THEN Append(G[k - 1], p[k]) ELSE G[k - 1]
                                  ELSE G[n]]
             R == [n \in 0..k |-> IF n = 0 THEN <<>>
                                  ELSE IF n \in places THEN Append(H[n - 1], p[n]) ELSE H[n - 1]]
  <1>7. ASSUME NEW n \in 0..k PROVE H[n] = R[n]
    <2>1. CASE n = k
      <3>1. k - 1 \in 0..k /\ H[k - 1] = G[k - 1]
        BY <1>3, <1>4
      <3>2. R[k] = IF k \in places THEN Append(H[k - 1], p[k]) ELSE H[k - 1]
        BY <1>3, <1>4
      <3>3. H[k] = IF k \in places THEN Append(G[k - 1], p[k]) ELSE G[k - 1]
        BY <1>3
      <3> HIDE DEF H, R
      <3>4. QED
        BY <3>1, <3>2, <3>3, <2>1
    <2>2. CASE n # k
      <3>1. n \in 0..(k - 1)
        BY <2>2, <1>7, <1>3
      <3>2. H[n] = G[n]
        BY <2>2, <1>7
      <3>3. G[n] = IF n = 0 THEN <<>>
                   ELSE IF n \in places THEN Append(G[n - 1], p[n]) ELSE G[n - 1]
        BY <3>1, <1>6 DEF Builds
      <3>4. n # 0 => n - 1 \in 0..k /\ H[n - 1] = G[n - 1]
        BY <3>1, <1>3
      <3>5. R[n] = IF n = 0 THEN <<>>
                   ELSE IF n \in places THEN Append(H[n - 1], p[n]) ELSE H[n - 1]
        BY <1>7
      <3> HIDE DEF H, R
      <3>6. QED
        BY <3>2, <3>3, <3>4, <3>5
    <2>3. QED
      BY <2>1, <2>2
  <1>8. H = R
    BY <1>7
  <1>9. Builds(H, p, places, k)
    BY <1>8 DEF Builds
  <1>10. QED
    BY <1>9, <1>3

LEMMA ThoseIsBuilt ==
    ASSUME NEW p, NEW places, Len(p) \in Nat
    PROVE  \E F : Builds(F, p, places, Len(p)) /\ Those(p, places) = F[Len(p)]
  <1> DEFINE C == CHOOSE F : Builds(F, p, places, Len(p))
  <1>1. Builds(C, p, places, Len(p))
    BY BuildsExists, Zenon
  <1>2. Those(p, places) = C[Len(p)]
    BY Zenon DEF Those, Builds
  <1>3. QED
    BY <1>1, <1>2

LEMMA Appended ==
    ASSUME NEW S, NEW s \in Seq(S), NEW e \in S
    PROVE  Append(s, e) \in Seq(S) /\ Append(s, e) # <<>>
  <1>1. Append(s, e) \in Seq(S) /\ Len(Append(s, e)) = Len(s) + 1
    OBVIOUS
  <1>2. Len(s) \in Nat
    OBVIOUS
  <1>3. Len(Append(s, e)) # 0
    BY <1>1, <1>2
  <1>4. QED
    BY <1>1, <1>3

(* Those is a sequence of the steps at its places, empty if there are none. *)
LEMMA ThoseAre ==
    ASSUME NEW S, NEW p \in Seq(S), NEW places, places \subseteq DOMAIN p
    PROVE  /\ Those(p, places) \in Seq({p[i] : i \in places})
           /\ Those(p, places) = <<>> <=> places = {}
  <1> DEFINE Chosen == {p[i] : i \in places}
  <1>1. Len(p) \in Nat /\ DOMAIN p = 1..Len(p)
    OBVIOUS
  <1>2. PICK F : Builds(F, p, places, Len(p)) /\ Those(p, places) = F[Len(p)]
    BY <1>1, ThoseIsBuilt
  <1> DEFINE Fits(n) == /\ F[n] \in Seq(Chosen)
                        /\ F[n] = <<>> <=> \A i \in 1..n : i \notin places
             T == {n \in 0..Len(p) : ~Fits(n)}
  <1>3. ASSUME T # {} PROVE FALSE
    <2>1. T \subseteq Nat
      BY <1>1
    <2>2. PICK k \in T : \A y \in T : k <= y
      BY <2>1, <1>3, Least
    <2>3. k \in 0..Len(p) /\ ~Fits(k)
      OBVIOUS
    <2>4. k # 0
      <3>1. F[0] = <<>>
        BY <1>2, <1>1 DEF Builds
      <3>2. F[0] \in Seq(Chosen)
        BY <3>1
      <3>3. Fits(0)
        BY <3>1, <3>2
      <3>4. QED
        BY <3>3, <2>3
    <2>5. k - 1 \in 0..Len(p) /\ Fits(k - 1)
      <3>1. k - 1 \in 0..Len(p) /\ k - 1 \notin T
        BY <2>1, <2>2, <2>3, <2>4, <1>1
      <3>2. QED
        BY <3>1
    <2>6. F[k] = IF k \in places THEN Append(F[k - 1], p[k]) ELSE F[k - 1]
      BY <1>2, <1>1, <2>3, <2>4 DEF Builds
    <2> HIDE DEF T, Chosen
    <2>7. CASE k \in places
      <3>1. F[k] = Append(F[k - 1], p[k]) /\ p[k] \in Chosen
        BY <2>6, <2>7 DEF Chosen
      <3>2. F[k] \in Seq(Chosen) /\ F[k] # <<>>
        BY <3>1, <2>5, Appended
      <3>3. k \in 1..k
        BY <2>3, <2>4, <1>1
      <3>4. QED
        BY <3>2, <3>3, <2>3, <2>7
    <2>8. CASE k \notin places
      <3>1. F[k] = F[k - 1]
        BY <2>6, <2>8
      <3>2. 1..k = 1..(k - 1) \union {k}
        BY <2>3, <2>4, <1>1
      <3>3. QED
        BY <3>1, <3>2, <2>8, <2>3, <2>5
    <2>9. QED
      BY <2>7, <2>8
  <1>4. Fits(Len(p))
    <2>1. Len(p) \in 0..Len(p)
      BY <1>1
    <2>2. QED
      BY <2>1, <1>3
  <1>5. places = {} <=> \A i \in 1..Len(p) : i \notin places
    BY <1>1
  <1>6. QED
    BY <1>2, <1>4, <1>5

-----------------------------------------------------------------------------
(* The plan                                                                 *)

Steps == [what : Kinds, id : Int \union Files, origin : Int \union Files,
          carried : BOOLEAN, state : {"pending", "completed"}]

(* What the plan is made of, and that a cycle which runs a step has one.    *)
PlanFits ==
    /\ plan \in Seq(Steps)
    /\ sent \subseteq Files /\ tried \subseteq {"install", "deliverables"}
    /\ answer.defers \subseteq Files
HasStep == pc \in {"step", "handling"} => \E i \in DOMAIN plan : IsPending(plan[i])
PlanInv == call.then \in {"after", "cycle"} /\ PlanFits /\ HasStep

LEMMA IsSeq ==
    ASSUME NEW S, NEW n \in Nat, NEW f \in [1..n -> S]
    PROVE  f \in Seq(S) /\ Len(f) = n
  OBVIOUS

LEMMA SubSeqs ==
    ASSUME NEW S, NEW R, R \subseteq S, NEW p \in Seq(R)
    PROVE  p \in Seq(S)
  OBVIOUS

LEMMA ThoseSteps ==
    ASSUME NEW p \in Seq(Steps), NEW places, places \subseteq DOMAIN p
    PROVE  /\ Those(p, places) \in Seq(Steps)
           /\ Those(p, places) # <<>> => \E i \in places : Head(Those(p, places)) = p[i]
  <1> DEFINE Chosen == {p[i] : i \in places}
  <1>1. Those(p, places) \in Seq(Chosen)
    BY ThoseAre
  <1>2. Chosen \subseteq Steps
    OBVIOUS
  <1>3. Those(p, places) \in Seq(Steps)
    BY <1>1, <1>2, SubSeqs
  <1>4. Those(p, places) # <<>> => Head(Those(p, places)) \in Chosen
    <2> HIDE DEF Chosen
    <2>1. QED
      BY <1>1
  <1>5. QED
    BY <1>3, <1>4

LEMMA PlannedIsStep ==
    ASSUME NEW kind \in Kinds, NEW n \in Int
    PROVE  Planned(kind, n) \in Steps
  BY DEF Planned, Steps

LEMMA NumberedIsPlan ==
    ASSUME NEW kinds \in PlannerPlans
    PROVE  Numbered(kinds) \in Seq(Steps)
  <1>1. PICK n \in PlanSizes : kinds \in [1..n -> Kinds]
    BY DEF PlannerPlans
  <1>2. n \in Nat
    BY LimitsAssumption
  <1>3. \A i \in 1..n : Planned(kinds[i], i) \in Steps
    BY <1>1, <1>2, PlannedIsStep
  <1>4. Numbered(kinds) \in [1..n -> Steps]
    BY <1>1, <1>3 DEF Numbered
  <1>5. QED
    BY <1>2, <1>4, IsSeq

LEMMA CarryIsPlan ==
    ASSUME NEW old \in Seq(Steps), NEW new
    PROVE  Carry(old, new) \in Seq(Steps)
  <1>1. Kept(old, new) \in Seq(Steps)
    BY ThoseSteps DEF Kept
  <1>2. PICK kept \in Seq(Steps) : kept = Kept(old, new)
    BY <1>1
  <1>3. Len(kept) \in Nat /\ DOMAIN kept = 1..Len(kept) /\ \A i \in 1..Len(kept) : kept[i] \in Steps
    OBVIOUS
  <1>4. \A i \in 1..Len(kept) : [kept[i] EXCEPT !.carried = TRUE] \in Steps
    BY <1>3 DEF Steps
  <1>5. Carry(old, new) = [i \in 1..Len(kept) |-> [kept[i] EXCEPT !.carried = TRUE]]
    BY <1>2, <1>3 DEF Carry
  <1>6. Carry(old, new) \in [1..Len(kept) -> Steps]
    BY <1>4, <1>5
  <1>7. QED
    BY <1>3, <1>6, IsSeq

LEMMA DoneIsPlan ==
    ASSUME NEW p \in Seq(Steps), NEW s
    PROVE  Done(p, s) \in Seq(Steps)
  <1>1. Len(p) \in Nat /\ DOMAIN p = 1..Len(p) /\ \A i \in 1..Len(p) : p[i] \in Steps
    OBVIOUS
  <1>2. \A i \in 1..Len(p) : [p[i] EXCEPT !.state = "completed"] \in Steps
    BY <1>1 DEF Steps
  <1>3. Done(p, s) \in [1..Len(p) -> Steps]
    BY <1>1, <1>2 DEF Done
  <1>4. QED
    BY <1>1, <1>3, IsSeq

LEMMA PendingArePlan == plan \in Seq(Steps) => Pending(plan) \in Seq(Steps)
  BY ThoseSteps DEF Pending

LEMMA CompletedArePlan == plan \in Seq(Steps) => Completed(plan) \in Seq(Steps)
  BY ThoseSteps DEF Completed

(* The step a cycle runs is a pending one of the plan.                      *)
LEMMA CurrentIsPending ==
    ASSUME PlanInv, pc \in {"step", "handling"}
    PROVE  Pending(plan) # <<>> /\ \E i \in DOMAIN plan : Current = plan[i] /\ IsPending(plan[i])
  <1> DEFINE places == {i \in DOMAIN plan : IsPending(plan[i])}
  <1>1. places # {}
    BY DEF PlanInv, HasStep
  <1>2. Pending(plan) = Those(plan, places) /\ plan \in Seq(Steps) /\ places \subseteq DOMAIN plan
    BY DEF Pending, PlanInv, PlanFits
  <1>3. Pending(plan) # <<>>
    <2> HIDE DEF places
    <2>1. QED
      BY <1>1, <1>2, ThoseAre
  <1>4. \E i \in places : Head(Pending(plan)) = plan[i]
    <2> HIDE DEF places
    <2>1. QED
      BY <1>2, <1>3, ThoseSteps
  <1>5. QED
    BY <1>3, <1>4 DEF Current

LEMMA PlanInit == Init => PlanInv
  BY DEF Init, PlanInv, PlanFits, HasStep, NoAnswer, NoCall

LEMMA FileOfSend == ASSUME NEW s \in Steps, IsSend(s) PROVE s.what.file \in Files
  BY DEF Steps, Kinds, IsSend

LEMMA SendsAreSteps ==
    ASSUME plan \in Seq(Steps)
    PROVE  /\ PendingSends(plan) \in Seq(Steps) /\ ToSend \in Seq(Steps)
           /\ ToSend # <<>> => Head(ToSend) \in Steps /\ IsSend(Head(ToSend))
  <1> DEFINE sendPlaces == {i \in DOMAIN plan : IsPending(plan[i]) /\ IsSend(plan[i])}
             sends == PendingSends(plan)
             left == {i \in DOMAIN sends : sends[i].id \notin unsent}
  <1>1. sends \in Seq({plan[i] : i \in sendPlaces})
    BY ThoseAre DEF PendingSends
  <1>2. sends \in Seq(Steps)
    BY ThoseSteps DEF PendingSends
  <1>3. ToSend = Those(sends, left)
    BY DEF ToSend
  <1> HIDE DEF left
  <1>4. left \subseteq DOMAIN sends
    BY DEF left
  <1> HIDE DEF sends
  <1>5. ToSend \in Seq(Steps) /\ (ToSend # <<>> => \E i \in left : Head(ToSend) = sends[i])
    BY <1>2, <1>3, <1>4, ThoseSteps
  <1>6. \A i \in DOMAIN sends : sends[i] \in {plan[j] : j \in sendPlaces}
    BY <1>1
  <1>7. ToSend # <<>> => Head(ToSend) \in Steps /\ IsSend(Head(ToSend))
    BY <1>4, <1>5, <1>6
  <1>8. QED
    BY <1>2, <1>5, <1>7 DEF sends

(* Each step replaces the plan by one made of steps.                        *)
LEMMA PlanStep == PlanInv /\ [Next]_vars => PlanInv'
  <1> SUFFICES ASSUME PlanInv, [Next]_vars PROVE PlanInv'
    OBVIOUS
  <1> USE DEF PlanInv, PlanFits, HasStep
  <1>1. CASE ExecuteGoal
    BY <1>1 DEF ExecuteGoal, UnchangedBudgets, UnchangedControl, history
  <1>2. CASE ResumeGoal
    <2>1. plan' \in Seq(Steps)
      BY <1>2, DoneIsPlan DEF ResumeGoal, MarkStepDone
    <2>2. QED
      BY <1>2, <2>1 DEF ResumeGoal
  <1>3. CASE Abandon
    BY <1>3 DEF Abandon, UnchangedBudgets, loop, history
  <1>4. CASE Refuse
    BY <1>4 DEF Refuse, UnchangedBudgets, loop, history
  <1>5. CASE Supplement
    BY <1>5 DEF Supplement, row, loop
  <1>6. CASE Crash
    BY <1>6 DEF Crash, UnchangedBudgets, NoAnswer, NoCall, Running
  <1>7. CASE LoopThrows
    BY <1>7 DEF LoopThrows, row, history, Return, UnchangedControl
  <1>8. CASE FirstPlanBlocked
    BY <1>8 DEF FirstPlanBlocked, Return, UnchangedBudgets, UnchangedControl, history
  <1>9. CASE FirstPlanWithoutAnswer
    <2>1. plan' \in Seq(Steps)
      BY <1>9, CarryIsPlan DEF FirstPlanWithoutAnswer
    <2>2. QED
      BY <1>9, <2>1 DEF FirstPlanWithoutAnswer, UnchangedBudgets, UnchangedControl, history
  <1>10. CASE FirstPlan
    <2>1. plan' \in Seq(Steps)
      BY <1>10, NumberedIsPlan DEF FirstPlan
    <2>2. QED
      BY <1>10, <2>1 DEF FirstPlan, UnchangedBudgets, UnchangedControl, history
  <1>11. CASE StopsAbandoned
    BY <1>11 DEF StopsAbandoned, Return, row, history, UnchangedControl
  <1>12. CASE BeginCycle
    <2>1. pc' = "step" => \E i \in DOMAIN plan : IsPending(plan[i])
      BY <1>12 DEF BeginCycle, OnlySendsLeft
    <2>2. pc' # "handling" /\ UNCHANGED <<plan, sent, tried, answer, call>>
      BY <1>12 DEF BeginCycle, row, UnchangedControl
    <2>3. QED
      BY <2>1, <2>2
  <1>13. CASE CyclesSpent
    BY <1>13 DEF CyclesSpent, row, history
  <1>14. CASE StepOfAbandoned
    BY <1>14 DEF StepOfAbandoned, Return, history, UnchangedControl
  <1>15. CASE StepSucceeds
    <2>1. answer'.defers \subseteq Files /\ sent' \subseteq Files
      BY <1>15 DEF StepSucceeds, Answers
    <2>2. pc = "step" /\ pc' = "handling" /\ UNCHANGED <<plan, tried, call>>
      BY <1>15 DEF StepSucceeds
    <2>3. QED
      BY <2>1, <2>2
  <1>16. CASE StepMismatches
    BY <1>16 DEF StepMismatches, Answers, history
  <1>17. CASE StepFails
    BY <1>17 DEF StepFails, Answers, history
  <1>18. CASE SourceIsEmpty
    BY <1>18 DEF SourceIsEmpty, Return, history, UnchangedControl
  <1>19. CASE HandleSuccess
    <2> DEFINE s == Current
               done == Done(plan, s)
               new == {f \in answer.defers : f \notin FilesOf(PendingSends(done)) \union sent}
    <2>1. s \in Steps
      BY <1>19, CurrentIsPending DEF HandleSuccess, Handles
    <2>2. done \in Seq(Steps) /\ Supersede(done, s) \in Seq(Steps)
      BY DoneIsPlan, ThoseSteps DEF Supersede
    <2>3. new # {} => PutOff(CHOOSE f \in new : TRUE, s) \in Steps
      <3>1. SUFFICES ASSUME new # {} PROVE PutOff(CHOOSE f \in new : TRUE, s) \in Steps
        OBVIOUS
      <3>2. PICK f \in Files : f = CHOOSE g \in new : TRUE
        BY <3>1
      <3>3. [kind |-> "send", file |-> f] \in Kinds
        BY DEF Kinds
      <3>4. s.id \in Int \union Files
        BY <2>1 DEF Steps
      <3>5. PutOff(f, s) \in Steps
        BY <3>3, <3>4 DEF PutOff, Steps
      <3>6. QED
        BY <3>2, <3>5
    <2>4. plan' = IF new = {} THEN done
                  ELSE Append(Supersede(done, s), PutOff(CHOOSE f \in new : TRUE, s))
      BY <1>19 DEF HandleSuccess
    <2>5. sent' = IF IsSend(s) THEN sent \union {s.what.file} ELSE sent
      BY <1>19 DEF HandleSuccess
    <2> HIDE DEF s, done, new
    <2>6. plan' \in Seq(Steps)
      BY <2>2, <2>3, <2>4, Appended
    <2>7. sent' \subseteq Files
      BY <2>1, <2>5, FileOfSend
    <2>8. pc' = "after" /\ UNCHANGED <<tried, answer, call>>
      BY <1>19 DEF HandleSuccess
    <2>9. QED
      BY <2>6, <2>7, <2>8
  <1>20. CASE HandlePartial
    BY <1>20 DEF HandlePartial, Handles, history
  <1>21. CASE AutoApproved
    <2>1. plan' \in Seq(Steps)
      BY <1>21, DoneIsPlan DEF AutoApproved, MarkStepDone
    <2>2. QED
      BY <1>21, <2>1 DEF AutoApproved
  <1>22. CASE HandleNeedsAuth
    BY <1>22 DEF HandleNeedsAuth, Return, UnchangedBudgets, UnchangedControl, history
  <1>23. CASE HandleNeedsDependency
    <2>1. PICK install \in {"tool", "agent"}, verifies \in BOOLEAN :
            plan' = Completed(plan)
                    \o <<Planned([kind |-> install], InstallId)>>
                    \o (IF verifies THEN <<Planned([kind |-> "tool"], VerifyId)>> ELSE <<>>)
                    \o Pending(plan)
      BY <1>23 DEF HandleNeedsDependency
    <2>2. /\ Planned([kind |-> install], InstallId) \in Steps
          /\ Planned([kind |-> "tool"], VerifyId) \in Steps
      <3>1. [kind |-> install] \in Kinds /\ [kind |-> "tool"] \in Kinds
        BY DEF Kinds
      <3>2. InstallId \in Int /\ VerifyId \in Int
        BY DEF InstallId, VerifyId
      <3>3. QED
        BY <3>1, <3>2, PlannedIsStep
    <2>3. Completed(plan) \in Seq(Steps) /\ Pending(plan) \in Seq(Steps)
      BY CompletedArePlan, PendingArePlan
    <2>4. plan' \in Seq(Steps)
      BY <2>1, <2>2, <2>3
    <2>5. pc' = "after" /\ tried' = tried \union {"install"} /\ UNCHANGED <<sent, answer, call>>
      BY <1>23 DEF HandleNeedsDependency
    <2>6. QED
      BY <2>4, <2>5
  <1>24. CASE HandleBlocked
    BY <1>24 DEF HandleBlocked, Handles, Respiral
  <1>25. CASE HandleBlockedSpent
    BY <1>25 DEF HandleBlockedSpent, Handles, UnchangedBudgets, history
  <1>26. CASE HandleFailed
    BY <1>26 DEF HandleFailed, Handles, UnchangedBudgets, history
  <1>27. CASE NoSupplement
    BY <1>27 DEF NoSupplement, row, history, NoAnswer
  <1>28. CASE ReplanForSupplement
    BY <1>28 DEF ReplanForSupplement, Respiral, NoAnswer
  <1>29. CASE SupplementAsFeedback
    BY <1>29 DEF SupplementAsFeedback, row, history, NoAnswer
  <1>30. CASE PlanRejected
    <2>1. plan' \in Seq(Steps)
      BY <1>30, CarryIsPlan DEF PlanRejected
    <2>2. pc' \notin {"step", "handling"}
      BY <1>30 DEF PlanRejected, GoesOn
    <2>3. QED
      BY <1>30, <2>1, <2>2 DEF PlanRejected
  <1>31. CASE PlanWithoutAnswer
    <2>1. plan' \in Seq(Steps)
      BY <1>31, CarryIsPlan DEF PlanWithoutAnswer
    <2>2. pc' \notin {"step", "handling"}
      BY <1>31 DEF PlanWithoutAnswer, GoesOn
    <2>3. QED
      BY <1>31, <2>1, <2>2 DEF PlanWithoutAnswer
  <1>32. CASE Replan
    <2>1. PICK new \in {Numbered(kinds) : kinds \in PlannerPlans}
                       \union {<<Planned([kind |-> "agent"], FreeFormId)>>} :
            plan' = new \o Carry(plan, new)
      BY <1>32 DEF Replan
    <2>2. new \in Seq(Steps)
      <3>1. <<Planned([kind |-> "agent"], FreeFormId)>> \in Seq(Steps)
        <4>1. Planned([kind |-> "agent"], FreeFormId) \in Steps
          BY PlannedIsStep DEF Kinds, FreeFormId
        <4>2. QED
          BY <4>1
      <3>2. QED
        BY <2>1, <3>1, NumberedIsPlan
    <2>3. plan' \in Seq(Steps)
      <3>1. Carry(plan, new) \in Seq(Steps)
        BY CarryIsPlan
      <3>2. QED
        BY <2>1, <2>2, <3>1
    <2>4. pc' \notin {"step", "handling"}
      BY <1>32 DEF Replan, GoesOn
    <2>5. QED
      BY <1>32, <2>3, <2>4 DEF Replan
  <1>33. CASE MilestoneReached
    BY <1>33 DEF MilestoneReached, UnchangedBudgets, UnchangedControl, history
  <1>34. CASE MilestonePlanBlocked
    BY <1>34 DEF MilestonePlanBlocked, Return, UnchangedBudgets, UnchangedControl, history
  <1>35. CASE MilestonePlan
    <2>1. plan' \in Seq(Steps)
      BY <1>35, NumberedIsPlan DEF MilestonePlan
    <2>2. QED
      BY <1>35, <2>1 DEF MilestonePlan
  <1>36. CASE GoalAchieved
    BY <1>36 DEF GoalAchieved, row, history
  <1>37. CASE SendOne
    <2>1. Head(ToSend) \in Steps /\ IsSend(Head(ToSend))
      BY <1>37, SendsAreSteps DEF SendOne
    <2>2. Head(ToSend).what.file \in Files
      BY <2>1, FileOfSend
    <2>3. sent' \subseteq Files
      BY <1>37, <2>2 DEF SendOne
    <2>4. plan' \in Seq(Steps)
      <3>1. plan' = plan \/ plan' = Done(plan, Head(ToSend))
        BY <1>37 DEF SendOne, MarkStepDone
      <3>2. QED
        BY <3>1, DoneIsPlan
    <2>5. pc = "sending" /\ UNCHANGED <<pc, tried, answer, call>>
      BY <1>37 DEF SendOne
    <2>6. QED
      BY <2>3, <2>4, <2>5
  <1>38. CASE AllSent
    BY <1>38 DEF AllSent, Return, UnchangedBudgets, UnchangedControl, history
  <1>39. CASE DeliverablesFound
    <2>1. PICK f \in Files :
            plan' = Append(Completed(plan), Planned([kind |-> "send", file |-> f], FoundId))
      BY <1>39 DEF DeliverablesFound
    <2>2. Planned([kind |-> "send", file |-> f], FoundId) \in Steps
      <3>1. [kind |-> "send", file |-> f] \in Kinds
        BY DEF Kinds
      <3>2. QED
        BY <3>1, PlannedIsStep DEF FoundId
    <2>3. plan' \in Seq(Steps)
      BY <2>1, <2>2, CompletedArePlan, Appended
    <2>4. pc' = "cycle" /\ tried' = tried \union {"deliverables"} /\ UNCHANGED <<sent, answer, call>>
      BY <1>39 DEF DeliverablesFound
    <2>5. QED
      BY <2>3, <2>4
  <1>40. CASE NotAchieved
    BY <1>40 DEF NotAchieved, Respiral
  <1>41. CASE BonusReplan
    BY <1>41 DEF BonusReplan, Respiral
  <1>42. CASE BudgetSpent
    BY <1>42 DEF BudgetSpent, UnchangedBudgets, history
  <1>43. CASE LastValidation
    BY <1>43 DEF LastValidation, Return, UnchangedBudgets, UnchangedControl, history
  <1>44. CASE DeliverReady
    <2>1. PICK i \in Ready :
            \/ /\ sent' = sent \union {plan[i].what.file}
               /\ MarkStepDone(plan[i]) /\ UNCHANGED unsent
            \/ UNCHANGED <<sent, plan>>
      BY <1>44 DEF DeliverReady
    <2>2. plan[i].what.file \in Files
      <3>1. i \in DOMAIN plan /\ IsSend(plan[i]) /\ plan[i] \in Steps
        BY DEF Ready
      <3>2. QED
        BY <3>1, FileOfSend
    <2>3. sent' \subseteq Files
      BY <2>1, <2>2
    <2>4. plan' \in Seq(Steps)
      <3>1. plan' = plan \/ plan' = Done(plan, plan[i])
        BY <2>1 DEF MarkStepDone
      <3>2. QED
        BY <3>1, DoneIsPlan
    <2>5. pc = "delivering" /\ UNCHANGED <<pc, tried, answer, call>>
      BY <1>44 DEF DeliverReady
    <2>6. QED
      BY <2>3, <2>4, <2>5
  <1>45. CASE FailAfterDelivery
    BY <1>45 DEF FailAfterDelivery, Return, UnchangedBudgets, UnchangedControl, history
  <1>46. CASE UNCHANGED vars
    BY <1>46 DEF vars, row, loop, history
  <1>47. QED
    BY <1>1, <1>2, <1>3, <1>4, <1>5, <1>6, <1>7, <1>8, <1>9, <1>10,
       <1>11, <1>12, <1>13, <1>14, <1>15, <1>16, <1>17, <1>18, <1>19,
       <1>20, <1>21, <1>22, <1>23, <1>24, <1>25, <1>26, <1>27, <1>28,
       <1>29, <1>30, <1>31, <1>32, <1>33, <1>34, <1>35, <1>36, <1>37,
       <1>38, <1>39, <1>40, <1>41, <1>42, <1>43, <1>44, <1>45, <1>46
       DEF Next, Work, RunStep, Handle, Validate

(* Every variable stays in its type, the plan too, and a cycle that runs a  *)
(* step or handles its outcome has a pending one (runLoopInternal takes the *)
(* first pending step, and nothing replaces the plan meanwhile).            *)
THEOREM TypeCorrect == Spec => []TypeOK
  <1>1. ControlOK /\ PlanInv => TypeOK
    <2> SUFFICES ASSUME ControlOK, PlanInv PROVE TypeOK
      OBVIOUS
    <2>1. \A i \in DOMAIN plan : plan[i] \in Steps
      BY DEF PlanInv, PlanFits
    <2>2. \A i \in DOMAIN plan : plan[i].what \in Kinds /\ plan[i].state \in {"pending", "completed"}
      BY <2>1 DEF Steps
    <2>3. pc \in {"step", "handling"} => Pending(plan) # <<>>
      BY CurrentIsPending
    <2>4. QED
      BY <2>2, <2>3 DEF TypeOK, PlanInv, PlanFits
  <1>2. Spec => []PlanInv
    BY PlanInit, PlanStep, PTL DEF Spec
  <1>3. QED
    BY <1>1, <1>2, ControlCorrect, PTL
-----------------------------------------------------------------------------
(* A run of the loop uses itself up: a measure that each step decreases.    *)

(* What the loop has yet to do: cycles without progress it may still make;  *)
(* plans it will be given, unasked or for what the user added; whether it   *)
(* is still in its cycles; the steps of the plan; the sends, once the       *)
(* cycles are over those not tried yet; and the way to the end of a cycle.  *)
CyclesLeft == MaxCycles - idle
ToPlan == (IF supplements THEN 2 ELSE 0) + (IF pc \in {"planning", "replanning"} THEN 1 ELSE 0)
InCycles == pc \notin {"lastValidation", "sending", "delivering"}
StillInCycles == IF InCycles THEN 1 ELSE 0
Todo(p) == {p[i].id : i \in {j \in DOMAIN p : IsPending(p[j]) /\ ~IsSend(p[j])}}
Sends(p) == {p[i].id : i \in {j \in DOMAIN p : IsPending(p[j]) /\ IsSend(p[j])}}
Untried == Sends(plan) \ (IF InCycles THEN {} ELSE unsent)
Way == CASE pc = "after" -> 5
         [] pc = "cycle" -> 4
         [] pc \in {"step", "validating"} -> 3
         [] pc \in {"handling", "nextMilestone"} -> 2
         [] pc = "lastValidation" -> 1
         [] OTHER -> 0

Measure == <<CyclesLeft, ToPlan, StillInCycles, Cardinality(Todo(plan)), Cardinality(Untried), Way>>
Measures == Nat \X Nat \X Nat \X Nat \X Nat \X Nat

(* The order of dictionaries.                                               *)
LexLess(a, b) == \E k \in 1..6 : a[k] < b[k] /\ \A j \in 1..(k - 1) : a[j] = b[j]

(* It suffices that no part before the one that decreases grows.            *)
LEMMA Lower ==
    ASSUME NEW a \in Measures, NEW b \in Measures,
           NEW k \in 1..6, a[k] < b[k], \A j \in 1..(k - 1) : a[j] <= b[j]
    PROVE  LexLess(a, b)
<1>1. \A j \in 1..6 : a[j] \in Nat /\ b[j] \in Nat
  BY DEF Measures
<1> DEFINE T == {j \in 1..6 : a[j] < b[j]}
<1>2. T \subseteq Nat /\ T # {}
  OBVIOUS
<1>3. PICK m \in T : \A n \in T : m <= n
  BY <1>2, Least
<1>4. m \in 1..6 /\ a[m] < b[m] /\ m <= k /\ \A j \in 1..6 : j < m => ~(a[j] < b[j])
  BY <1>3
<1>5. ASSUME NEW j \in 1..(m - 1) PROVE a[j] = b[j]
  <2>1. j \in 1..6 /\ j \in 1..(k - 1) /\ j < m
    BY <1>4
  <2>2. a[j] <= b[j] /\ ~(a[j] < b[j])
    BY <2>1, <1>4
  <2>3. QED
    BY <1>1, <2>1, <2>2
<1>6. QED
  BY <1>4, <1>5 DEF LexLess

(* Nothing decreases for ever: among any measures there is one that no      *)
(* other of them is below, so that a loop that goes on lowering its measure *)
(* (runLoopInternal) comes to an end.                                       *)
THEOREM MeasuresAreWellFounded ==
    ASSUME NEW T, T \subseteq Measures, T # {}
    PROVE  \E x \in T : \A y \in T : ~LexLess(y, x)
<1>1. ASSUME NEW k \in 1..6, NEW S, S \subseteq T, S # {}
      PROVE  \E x \in S : \A y \in S : x[k] <= y[k]
  <2> DEFINE N == {x[k] : x \in S}
  <2>1. N \subseteq Nat
    BY <1>1 DEF Measures
  <2>2. N # {}
    BY <1>1
  <2>3. PICK n \in N : \A m \in N : n <= m
    BY <2>1, <2>2, Least
  <2>4. QED
    BY <2>3
<1>2. PICK x1 \in T : \A y \in T : x1[1] <= y[1]
  BY <1>1
<1> DEFINE S2 == {y \in T : y[1] = x1[1]}
           S3 == {y \in S2 : \A z \in S2 : y[2] <= z[2]}
           S4 == {y \in S3 : \A z \in S3 : y[3] <= z[3]}
           S5 == {y \in S4 : \A z \in S4 : y[4] <= z[4]}
           S6 == {y \in S5 : \A z \in S5 : y[5] <= z[5]}
           S7 == {y \in S6 : \A z \in S6 : y[6] <= z[6]}
<1>3. S2 \subseteq T /\ S2 # {}
  BY <1>2
<1> HIDE DEF S2
<1>4. S3 \subseteq S2 /\ S3 # {}
  BY <1>1, <1>3
<1> HIDE DEF S3
<1>5. S4 \subseteq S3 /\ S4 # {}
  BY <1>1, <1>3, <1>4
<1> HIDE DEF S4
<1>6. S5 \subseteq S4 /\ S5 # {}
  BY <1>1, <1>3, <1>4, <1>5
<1> HIDE DEF S5
<1>7. S6 \subseteq S5 /\ S6 # {}
  BY <1>1, <1>3, <1>4, <1>5, <1>6
<1> HIDE DEF S6
<1>8. S7 \subseteq S6 /\ S7 # {}
  BY <1>1, <1>3, <1>4, <1>5, <1>6, <1>7
<1> HIDE DEF S7
<1>9. PICK x \in S7 : TRUE
  BY <1>8
<1>10. x \in T /\ x \in S2 /\ x \in S3 /\ x \in S4 /\ x \in S5 /\ x \in S6
  BY <1>3, <1>4, <1>5, <1>6, <1>7, <1>8, <1>9
<1>11. ASSUME NEW y \in T, LexLess(y, x) PROVE FALSE
  <2>1. PICK k \in 1..6 : y[k] < x[k] /\ \A j \in 1..(k - 1) : y[j] = x[j]
    BY <1>11 DEF LexLess
  <2>2. \A j \in 1..6 : x[j] \in Nat /\ y[j] \in Nat
    BY <1>10 DEF Measures
  <2>3. x[1] = x1[1] /\ x1[1] <= y[1]
    BY <1>2, <1>10 DEF S2
  <2>4. k # 1
    BY <2>1, <2>2, <2>3
  <2>5. y \in S2
    BY <2>1, <2>3, <2>4 DEF S2
  <2>6. k # 2
    BY <2>1, <2>2, <2>5, <1>10 DEF S3
  <2>7. y \in S3
    BY <2>1, <2>4, <2>5, <2>6, <1>10 DEF S3
  <2>8. k # 3
    BY <2>1, <2>2, <2>7, <1>10 DEF S4
  <2>9. y \in S4
    BY <2>1, <2>4, <2>6, <2>7, <2>8, <1>10 DEF S4
  <2>10. k # 4
    BY <2>1, <2>2, <2>9, <1>10 DEF S5
  <2>11. y \in S5
    BY <2>1, <2>4, <2>6, <2>8, <2>9, <2>10, <1>10 DEF S5
  <2>12. k # 5
    BY <2>1, <2>2, <2>11, <1>10 DEF S6
  <2>13. y \in S6
    BY <2>1, <2>4, <2>6, <2>8, <2>10, <2>11, <2>12, <1>10 DEF S6
  <2>14. k = 6
    BY <2>4, <2>6, <2>8, <2>10, <2>12
  <2>15. x[6] <= y[6]
    BY <2>13, <1>9 DEF S7
  <2>16. QED
    BY <2>1, <2>2, <2>14, <2>15
<1>12. QED
  BY <1>10, <1>11

(* A step is only run, handled and judged in a cycle that may yet pass      *)
(* without progress, and only an agent puts a send off.                     *)
EffortInv ==
    /\ ControlOK /\ PlanInv
    /\ idle <= MaxCycles
    /\ pc \in {"step", "handling", "validating", "nextMilestone"} => idle < MaxCycles
    /\ pc = "handling" /\ answer.defers # {} => ByAgent(Current)

LEMMA EffortInit == Init => EffortInv
  BY LimitsAssumption, StatusInit, PlanInit DEF Init, EffortInv, StatusInv

LEMMA EffortStep == EffortInv /\ ControlOK' /\ [Next]_vars => EffortInv'
  <1> SUFFICES ASSUME EffortInv, ControlOK', [Next]_vars
               PROVE  /\ idle' <= MaxCycles
                      /\ pc' \in {"step", "handling", "validating", "nextMilestone"} => idle' < MaxCycles
                      /\ pc' = "handling" /\ answer'.defers # {} => ByAgent(Current')
    BY PlanStep DEF EffortInv
  <1>1. idle \in Nat /\ MaxCycles \in Nat \ {0}
    BY LimitsAssumption DEF EffortInv, ControlOK
  <1>2. plan' = plan => Current' = Current
    BY DEF Current, Pending
  <1>3. CASE ExecuteGoal
    BY <1>1, <1>2, <1>3 DEF EffortInv, ExecuteGoal, UnchangedControl
  <1>4. CASE ResumeGoal
    BY <1>1, <1>2, <1>4 DEF EffortInv, ResumeGoal
  <1>5. CASE Abandon
    BY <1>1, <1>2, <1>5 DEF EffortInv, Abandon, loop
  <1>6. CASE Refuse
    BY <1>1, <1>2, <1>6 DEF EffortInv, Refuse, loop
  <1>7. CASE Supplement
    BY <1>1, <1>2, <1>7 DEF EffortInv, Supplement, row, loop
  <1>8. CASE Crash
    BY <1>1, <1>2, <1>8 DEF EffortInv, Crash, NoAnswer
  <1>9. CASE LoopThrows
    BY <1>1, <1>2, <1>9 DEF EffortInv, LoopThrows, Return, UnchangedControl, row
  <1>10. CASE FirstPlanBlocked
    BY <1>1, <1>2, <1>10 DEF EffortInv, FirstPlanBlocked, Return, UnchangedControl
  <1>11. CASE FirstPlanWithoutAnswer
    BY <1>1, <1>2, <1>11 DEF EffortInv, FirstPlanWithoutAnswer, UnchangedControl
  <1>12. CASE FirstPlan
    BY <1>1, <1>2, <1>12 DEF EffortInv, FirstPlan, UnchangedControl
  <1>13. CASE StopsAbandoned
    BY <1>1, <1>2, <1>13 DEF EffortInv, StopsAbandoned, Return, UnchangedControl, row
  <1>14. CASE BeginCycle
    BY <1>1, <1>2, <1>14 DEF EffortInv, BeginCycle, UnchangedControl, row
  <1>15. CASE CyclesSpent
    BY <1>1, <1>2, <1>15 DEF EffortInv, CyclesSpent, row
  <1>16. CASE StepOfAbandoned
    BY <1>1, <1>2, <1>16 DEF EffortInv, StepOfAbandoned, Return, UnchangedControl
  <1>17. CASE StepSucceeds
    BY <1>1, <1>2, <1>17 DEF EffortInv, StepSucceeds, Answers
  <1>18. CASE StepMismatches
    BY <1>1, <1>2, <1>18 DEF EffortInv, StepMismatches, Answers
  <1>19. CASE StepFails
    BY <1>1, <1>2, <1>19 DEF EffortInv, StepFails, Answers
  <1>20. CASE SourceIsEmpty
    BY <1>1, <1>2, <1>20 DEF EffortInv, SourceIsEmpty, Return, UnchangedControl
  <1>21. CASE HandleSuccess
    BY <1>1, <1>2, <1>21 DEF EffortInv, HandleSuccess, Handles
  <1>22. CASE HandlePartial
    BY <1>1, <1>2, <1>22 DEF EffortInv, HandlePartial, Handles
  <1>23. CASE AutoApproved
    BY <1>1, <1>2, <1>23 DEF EffortInv, AutoApproved
  <1>24. CASE HandleNeedsAuth
    BY <1>1, <1>2, <1>24 DEF EffortInv, HandleNeedsAuth, Return, UnchangedControl
  <1>25. CASE HandleNeedsDependency
    BY <1>1, <1>2, <1>25 DEF EffortInv, HandleNeedsDependency, Handles
  <1>26. CASE HandleBlocked
    BY <1>1, <1>2, <1>26 DEF EffortInv, HandleBlocked, Handles, Respiral
  <1>27. CASE HandleBlockedSpent
    BY <1>1, <1>2, <1>27 DEF EffortInv, HandleBlockedSpent, Handles
  <1>28. CASE HandleFailed
    BY <1>1, <1>2, <1>28 DEF EffortInv, HandleFailed, Handles
  <1>29. CASE NoSupplement
    BY <1>1, <1>2, <1>29 DEF EffortInv, NoSupplement, row, NoAnswer
  <1>30. CASE ReplanForSupplement
    BY <1>1, <1>2, <1>30 DEF EffortInv, ReplanForSupplement, Respiral, NoAnswer
  <1>31. CASE SupplementAsFeedback
    BY <1>1, <1>2, <1>31 DEF EffortInv, SupplementAsFeedback, row, NoAnswer
  <1>32. CASE PlanRejected
    BY <1>1, <1>2, <1>32 DEF EffortInv, PlanInv, PlanRejected, GoesOn
  <1>33. CASE PlanWithoutAnswer
    BY <1>1, <1>2, <1>33 DEF EffortInv, PlanInv, PlanWithoutAnswer, GoesOn
  <1>34. CASE Replan
    BY <1>1, <1>2, <1>34 DEF EffortInv, PlanInv, Replan, GoesOn
  <1>35. CASE MilestoneReached
    BY <1>1, <1>2, <1>35 DEF EffortInv, MilestoneReached, UnchangedControl
  <1>36. CASE MilestonePlanBlocked
    BY <1>1, <1>2, <1>36 DEF EffortInv, MilestonePlanBlocked, Return, UnchangedControl
  <1>37. CASE MilestonePlan
    BY <1>1, <1>2, <1>37 DEF EffortInv, MilestonePlan
  <1>38. CASE GoalAchieved
    BY <1>1, <1>2, <1>38 DEF EffortInv, GoalAchieved, row
  <1>39. CASE SendOne
    BY <1>1, <1>2, <1>39 DEF EffortInv, SendOne
  <1>40. CASE AllSent
    BY <1>1, <1>2, <1>40 DEF EffortInv, AllSent, Return, UnchangedControl
  <1>41. CASE DeliverablesFound
    BY <1>1, <1>2, <1>41 DEF EffortInv, DeliverablesFound
  <1>42. CASE NotAchieved
    BY <1>1, <1>2, <1>42 DEF EffortInv, NotAchieved, Respiral
  <1>43. CASE BonusReplan
    BY <1>1, <1>2, <1>43 DEF EffortInv, BonusReplan, Respiral
  <1>44. CASE BudgetSpent
    BY <1>1, <1>2, <1>44 DEF EffortInv, BudgetSpent
  <1>45. CASE LastValidation
    BY <1>1, <1>2, <1>45 DEF EffortInv, LastValidation, Return, UnchangedControl
  <1>46. CASE DeliverReady
    BY <1>1, <1>2, <1>46 DEF EffortInv, DeliverReady
  <1>47. CASE FailAfterDelivery
    BY <1>1, <1>2, <1>47 DEF EffortInv, FailAfterDelivery, Return, UnchangedControl
  <1>48. CASE UNCHANGED vars
    BY <1>1, <1>2, <1>48 DEF EffortInv, vars, row, loop
  <1>49. QED
    BY <1>3, <1>4, <1>5, <1>6, <1>7, <1>8, <1>9, <1>10, <1>11, <1>12, <1>13,
       <1>14, <1>15, <1>16, <1>17, <1>18, <1>19, <1>20, <1>21, <1>22, <1>23,
       <1>24, <1>25, <1>26, <1>27, <1>28, <1>29, <1>30, <1>31, <1>32, <1>33,
       <1>34, <1>35, <1>36, <1>37, <1>38, <1>39, <1>40, <1>41, <1>42, <1>43,
       <1>44, <1>45, <1>46, <1>47, <1>48
       DEF Next, Work, RunStep, Handle, Validate

LEMMA FiniteIds ==
    ASSUME NEW p \in Seq(Steps)
    PROVE  IsFiniteSet(Todo(p)) /\ IsFiniteSet(Sends(p))
<1>1. ASSUME NEW places, places \subseteq DOMAIN p
      PROVE  IsFiniteSet({p[i].id : i \in places})
  <2>1. IsFiniteSet(places)
    <3>1. DOMAIN p = 1..Len(p) /\ Len(p) \in Nat
      OBVIOUS
    <3>2. IsFiniteSet(1..Len(p))
      BY <3>1, FS_Interval
    <3>3. QED
      BY <1>1, <3>1, <3>2, FS_Subset
  <2> DEFINE ids == {p[i].id : i \in places}
             f == [i \in places |-> p[i].id]
  <2>2. f \in Surjection(places, ids)
    BY DEF Surjection
  <2>3. QED
    BY <2>1, <2>2, FS_Surjection
<1>2. QED
  BY <1>1 DEF Todo, Sends

LEMMA Fewer ==
    ASSUME NEW S, IsFiniteSet(S), NEW T, T \subseteq S
    PROVE  /\ Cardinality(T) \in Nat /\ Cardinality(S) \in Nat /\ Cardinality(T) <= Cardinality(S)
           /\ T # S => Cardinality(T) < Cardinality(S)
<1>1. Cardinality(S) \in Nat
  BY FS_CardinalityType
<1>2. IsFiniteSet(T) /\ Cardinality(T) <= Cardinality(S) /\ (Cardinality(S) = Cardinality(T) => S = T)
  BY FS_Subset
<1>3. Cardinality(T) \in Nat
  BY <1>2, FS_CardinalityType
<1>4. QED
  BY <1>1, <1>2, <1>3

(* A step that is done leaves the pending ones, and all with its number.    *)
LEMMA DoneIsFewer ==
    ASSUME NEW p \in Seq(Steps), NEW s
    PROVE  Todo(Done(p, s)) \subseteq Todo(p) \ {s.id} /\ Sends(Done(p, s)) \subseteq Sends(p) \ {s.id}
<1> DEFINE d == Done(p, s)
<1>1. DOMAIN d = DOMAIN p
  BY DEF Done
<1>2. ASSUME NEW i \in DOMAIN d, IsPending(d[i]) PROVE d[i] = p[i] /\ p[i].id # s.id
  <2>1. d[i] = IF p[i].id = s.id THEN [p[i] EXCEPT !.state = "completed"] ELSE p[i]
    BY <1>1 DEF Done
  <2>2. p[i] \in Steps
    BY <1>1
  <2>3. [p[i] EXCEPT !.state = "completed"].state = "completed"
    BY <2>2 DEF Steps
  <2> HIDE DEF d
  <2>4. QED
    BY <1>2, <2>1, <2>3 DEF IsPending
<1> HIDE DEF d
<1>3. QED
  BY <1>1, <1>2 DEF Todo, Sends, d

(* The measure is one, and what may decrease in it.                         *)
LEMMA MeasureIsOne == EffortInv => Measure \in Measures
  <1> SUFFICES ASSUME EffortInv PROVE Measure \in Measures
    OBVIOUS
  <1>1. CyclesLeft \in Nat
    BY LimitsAssumption DEF EffortInv, ControlOK, CyclesLeft
  <1>2. ToPlan \in Nat /\ StillInCycles \in Nat
    BY DEF ToPlan, StillInCycles
  <1>3. Way \in Nat
    BY DEF Way
  <1>4. plan \in Seq(Steps)
    BY DEF EffortInv, PlanInv, PlanFits
  <1>5. Cardinality(Todo(plan)) \in Nat
    BY <1>4, FiniteIds, FS_CardinalityType
  <1>6. Cardinality(Untried) \in Nat
    <2>1. Untried \subseteq Sends(plan)
      BY DEF Untried
    <2>2. QED
      BY <2>1, <1>4, FiniteIds, Fewer
  <1>7. QED
    BY <1>1, <1>2, <1>3, <1>5, <1>6 DEF Measure, Measures

LEMMA MeasureStaysOne == (EffortInv => Measure \in Measures)'
  BY MeasureIsOne, PTL


(* The parts of the measure that a step leaves as they are, and the one     *)
(* that it lowers.                                                          *)
LEMMA Lowered ==
    ASSUME EffortInv, EffortInv',
           \/ idle' = idle + 1
           \/ idle' = idle /\ ToPlan' < ToPlan
           \/ /\ idle' = idle /\ ToPlan' = ToPlan
              /\ \/ InCycles /\ ~InCycles'
                 \/ /\ InCycles' = InCycles /\ Todo(plan') \subseteq Todo(plan)
                    /\ \/ Todo(plan') # Todo(plan)
                       \/ /\ Untried' \subseteq Untried
                          /\ Untried' # Untried \/ Way' < Way
    PROVE  LexLess(Measure', Measure)
<1>1. Measure \in Measures /\ Measure' \in Measures
  BY MeasureIsOne, MeasureStaysOne
<1>2. /\ Measure[1] = CyclesLeft /\ Measure[2] = ToPlan /\ Measure[3] = StillInCycles
      /\ Measure[4] = Cardinality(Todo(plan)) /\ Measure[5] = Cardinality(Untried) /\ Measure[6] = Way
      /\ Measure'[1] = CyclesLeft' /\ Measure'[2] = ToPlan' /\ Measure'[3] = StillInCycles'
      /\ Measure'[4] = Cardinality(Todo(plan')) /\ Measure'[5] = Cardinality(Untried') /\ Measure'[6] = Way'
  BY DEF Measure
<1>3. /\ idle' = idle + 1 => CyclesLeft' < CyclesLeft
      /\ idle' = idle => CyclesLeft' = CyclesLeft
  <2>1. idle \in Nat /\ MaxCycles \in Nat
    BY LimitsAssumption DEF EffortInv, ControlOK
  <2>2. QED
    BY <2>1 DEF CyclesLeft
<1>4. /\ InCycles /\ ~InCycles' => StillInCycles' < StillInCycles
      /\ InCycles' = InCycles => StillInCycles' = StillInCycles
  BY DEF StillInCycles
<1>5. plan \in Seq(Steps)
  BY DEF EffortInv, PlanInv, PlanFits
<1>6. /\ Todo(plan') \subseteq Todo(plan) => Cardinality(Todo(plan')) <= Cardinality(Todo(plan))
      /\ Todo(plan') \subseteq Todo(plan) /\ Todo(plan') # Todo(plan)
           => Cardinality(Todo(plan')) < Cardinality(Todo(plan))
  BY <1>5, FiniteIds, Fewer
<1>7. /\ Untried' \subseteq Untried => Cardinality(Untried') <= Cardinality(Untried)
      /\ Untried' \subseteq Untried /\ Untried' # Untried => Cardinality(Untried') < Cardinality(Untried)
  <2>1. Untried \subseteq Sends(plan) /\ IsFiniteSet(Sends(plan))
    BY <1>5, FiniteIds DEF Untried
  <2>2. IsFiniteSet(Untried)
    BY <2>1, FS_Subset
  <2>3. QED
    BY <2>2, Fewer
<1>8. \A n \in 1..6 : Measure[n] \in Nat /\ Measure'[n] \in Nat
  BY <1>1 DEF Measures
<1>9. \E k \in 1..6 : Measure'[k] < Measure[k] /\ \A n \in 1..(k - 1) : Measure'[n] <= Measure[n]
  <2>1. CASE idle' = idle + 1
    BY <1>2, <1>3, <2>1
  <2>2. CASE idle' = idle /\ ToPlan' < ToPlan
    BY <1>2, <1>3, <1>8, <2>2
  <2>3. CASE idle' = idle /\ ToPlan' = ToPlan /\ InCycles /\ ~InCycles'
    BY <1>2, <1>3, <1>4, <1>8, <2>3
  <2>4. CASE /\ idle' = idle /\ ToPlan' = ToPlan
             /\ InCycles' = InCycles /\ Todo(plan') \subseteq Todo(plan)
             /\ Todo(plan') # Todo(plan)
    BY <1>2, <1>3, <1>4, <1>6, <1>8, <2>4
  <2>5. CASE /\ idle' = idle /\ ToPlan' = ToPlan
             /\ InCycles' = InCycles /\ Todo(plan') \subseteq Todo(plan)
             /\ Untried' \subseteq Untried /\ Untried' # Untried
    BY <1>2, <1>3, <1>4, <1>6, <1>7, <1>8, <2>5
  <2>6. CASE /\ idle' = idle /\ ToPlan' = ToPlan
             /\ InCycles' = InCycles /\ Todo(plan') \subseteq Todo(plan)
             /\ Untried' \subseteq Untried /\ Way' < Way
    BY <1>2, <1>3, <1>4, <1>6, <1>7, <1>8, <2>6
  <2>7. QED
    BY <2>1, <2>2, <2>3, <2>4, <2>5, <2>6
<1>10. QED
  BY <1>1, <1>9, Lower

(* A step that keeps the plan and comes nearer to the end of the cycle.     *)
LEMMA Nearer ==
    ASSUME EffortInv, EffortInv', UNCHANGED <<idle, supplements, unsent>>,
           plan' = plan \/ plan' = <<>>,
           \/ pc = "cycle" /\ pc' \in {"step", "validating"}
           \/ pc = "step" /\ pc' = "handling"
           \/ pc = "validating" /\ pc' = "nextMilestone"
           \/ pc = "after" /\ pc' = "cycle"
           \/ pc = "lastValidation" /\ pc' = "delivering"
    PROVE  LexLess(Measure', Measure)
<1>1. ToPlan' = ToPlan /\ InCycles' = InCycles
  BY DEF ToPlan, InCycles
<1>2. Way' < Way
  BY DEF Way
<1>3. Todo(plan') \subseteq Todo(plan) /\ Sends(plan') \subseteq Sends(plan)
  <2>1. Todo(<<>>) = {} /\ Sends(<<>>) = {}
    BY DEF Todo, Sends
  <2>2. QED
    BY <2>1
<1>4. Untried' \subseteq Untried
  BY <1>1, <1>3 DEF Untried
<1>5. QED
  BY <1>1, <1>2, <1>3, <1>4, Lowered

(* A step of the plan that is done, whatever sends it put off.              *)
LEMMA StepIsOver ==
    ASSUME EffortInv, EffortInv', UNCHANGED <<idle, supplements>>,
           pc = "handling", pc' = "after",
           Todo(plan') \subseteq Todo(plan) \ {Current.id},
           \/ ~IsSend(Current)
           \/ Sends(plan') \subseteq Sends(plan) \ {Current.id}
    PROVE  LexLess(Measure', Measure)
<1>1. ToPlan' = ToPlan /\ InCycles' = InCycles /\ InCycles
  BY DEF ToPlan, InCycles
<1>2. PICK i \in DOMAIN plan : Current = plan[i] /\ IsPending(plan[i])
  BY CurrentIsPending DEF EffortInv
<1>3. CASE ~IsSend(Current)
  <2>1. Current.id \in Todo(plan)
    BY <1>2, <1>3 DEF Todo
  <2>2. QED
    BY <1>1, <2>1, Lowered
<1>4. CASE IsSend(Current)
  <2>1. Current.id \in Sends(plan)
    BY <1>2, <1>4 DEF Sends
  <2>2. Untried = Sends(plan) /\ Untried' = Sends(plan')
    BY <1>1 DEF Untried
  <2>3. QED
    BY <1>1, <1>4, <2>1, <2>2, Lowered
<1>5. QED
  BY <1>3, <1>4

(* One send less to try, done or not.                                       *)
LEMMA SendIsTried ==
    ASSUME EffortInv, EffortInv', UNCHANGED <<idle, supplements, pc>>, ~InCycles,
           NEW i \in DOMAIN plan, IsPending(plan[i]), IsSend(plan[i]), plan[i].id \notin unsent,
           \/ MarkStepDone(plan[i]) /\ UNCHANGED unsent
           \/ UNCHANGED plan /\ unsent' = unsent \union {plan[i].id}
    PROVE  LexLess(Measure', Measure)
<1>1. ToPlan' = ToPlan /\ InCycles' = InCycles
  BY DEF ToPlan, InCycles
<1>2. plan \in Seq(Steps)
  BY DEF EffortInv, PlanInv, PlanFits
<1>3. Todo(plan') \subseteq Todo(plan) /\ Sends(plan') \subseteq Sends(plan)
  BY <1>2, DoneIsFewer DEF MarkStepDone
<1>4. plan[i].id \in Untried
  BY DEF Untried, Sends
<1>5. plan[i].id \notin Untried'
  <2>1. CASE MarkStepDone(plan[i])
    <3>1. plan[i].id \notin Sends(plan')
      BY <1>2, <2>1, DoneIsFewer DEF MarkStepDone
    <3>2. QED
      BY <3>1 DEF Untried
  <2>2. CASE unsent' = unsent \union {plan[i].id}
    BY <1>1, <2>2 DEF Untried
  <2>3. QED
    BY <2>1, <2>2
<1>6. Untried' \subseteq Untried
  BY <1>1, <1>3 DEF Untried
<1>7. QED
  BY <1>1, <1>3, <1>4, <1>5, <1>6, Lowered

(* The send that is next is one of the plan.                                *)
LEMMA NextSend ==
    ASSUME plan \in Seq(Steps), ToSend # <<>>
    PROVE  \E i \in DOMAIN plan : /\ Head(ToSend) = plan[i] /\ IsPending(plan[i]) /\ IsSend(plan[i])
                                  /\ plan[i].id \notin unsent
<1> DEFINE sendPlaces == {i \in DOMAIN plan : IsPending(plan[i]) /\ IsSend(plan[i])}
           sends == PendingSends(plan)
           left == {i \in DOMAIN sends : sends[i].id \notin unsent}
<1>1. sends \in Seq({plan[i] : i \in sendPlaces})
  BY ThoseAre DEF PendingSends
<1>2. sends \in Seq(Steps)
  BY ThoseSteps DEF PendingSends
<1>3. ToSend = Those(sends, left)
  BY DEF ToSend
<1>4. \A i \in DOMAIN sends : sends[i] \in {plan[j] : j \in sendPlaces}
  BY <1>1
<1> HIDE DEF left
<1>5. left \subseteq DOMAIN sends
  BY DEF left
<1> HIDE DEF sends
<1>6. PICK i \in left : Head(ToSend) = sends[i]
  BY <1>2, <1>3, <1>5, ThoseSteps
<1>7. Head(ToSend).id \notin unsent
  BY <1>6 DEF left, sends
<1>8. QED
  BY <1>4, <1>5, <1>6, <1>7

(* Each thing the loop does, unless it ends, lowers the measure.            *)
LEMMA WorkLowers ==
    ASSUME EffortInv, EffortInv', Work, pc' \in Running
    PROVE  LexLess(Measure', Measure)
  <1> USE DEF Running
  <1>0. plan \in Seq(Steps) /\ call.then \in {"after", "cycle"}
    BY DEF EffortInv, PlanInv, PlanFits
  <1>1. CASE FirstPlanBlocked
    BY <1>1 DEF FirstPlanBlocked, Return
  <1>2. CASE FirstPlanWithoutAnswer \/ FirstPlan
    <2>1. UNCHANGED <<idle, supplements>> /\ pc = "planning" /\ pc' = "cycle"
      BY <1>2 DEF FirstPlanWithoutAnswer, FirstPlan, UnchangedControl
    <2>2. ToPlan' < ToPlan
      BY <2>1 DEF ToPlan
    <2>3. QED
      BY <2>1, <2>2, Lowered
  <1>3. CASE StopsAbandoned
    BY <1>3 DEF StopsAbandoned, Return
  <1>4. CASE BeginCycle
    BY <1>4, Nearer DEF BeginCycle, UnchangedControl, row
  <1>5. CASE CyclesSpent
    <2>1. UNCHANGED <<idle, supplements>> /\ pc = "cycle" /\ pc' \in {"lastValidation", "delivering"}
      BY <1>5 DEF CyclesSpent
    <2>2. ToPlan' = ToPlan /\ InCycles /\ ~InCycles'
      BY <2>1 DEF ToPlan, InCycles
    <2>3. QED
      BY <2>1, <2>2, Lowered
  <1>6. CASE StepOfAbandoned \/ SourceIsEmpty
    BY <1>6 DEF StepOfAbandoned, SourceIsEmpty, Return
  <1>7. CASE StepSucceeds \/ StepMismatches \/ StepFails
    <2>1. UNCHANGED <<idle, supplements, unsent, plan>> /\ pc = "step" /\ pc' = "handling"
      BY <1>7 DEF StepSucceeds, StepMismatches, StepFails
    <2>2. QED
      BY <2>1, Nearer
  <1>8. CASE HandleSuccess
    <2> DEFINE done == Done(plan, Current)
               new == {f \in answer.defers : f \notin FilesOf(PendingSends(done)) \union sent}
               put == PutOff(CHOOSE f \in new : TRUE, Current)
    <2>1. UNCHANGED <<idle, supplements>> /\ pc = "handling" /\ pc' = "after"
      BY <1>8 DEF HandleSuccess, Handles
    <2>2. plan' = IF new = {} THEN done ELSE Append(Supersede(done, Current), put)
      BY <1>8 DEF HandleSuccess
    <2>3. done \in Seq(Steps) /\ Todo(done) \subseteq Todo(plan) \ {Current.id}
          /\ Sends(done) \subseteq Sends(plan) \ {Current.id}
      BY <1>0, DoneIsPlan, DoneIsFewer
    <2>4. CASE new = {}
      BY <2>1, <2>2, <2>3, <2>4, StepIsOver
    <2>5. CASE new # {}
      <3>1. ~IsSend(Current)
        <4>1. ByAgent(Current)
          BY <2>1, <2>5 DEF EffortInv
        <4>2. QED
          BY <4>1 DEF ByAgent, IsSend
      <3>2. Todo(plan') \subseteq Todo(done)
        <4> HIDE DEF done, new
        <4> DEFINE places == {i \in DOMAIN done : ~(IsPending(done[i]) /\ IsSend(done[i])
                                                    /\ done[i].origin = Current.id)}
                   kept == Supersede(done, Current)
        <4>1. kept \in Seq({done[i] : i \in places})
          <5>1. kept = Those(done, places)
            BY DEF Supersede
          <5>2. places \subseteq DOMAIN done
            OBVIOUS
          <5> HIDE DEF kept, places
          <5>3. QED
            BY <5>1, <5>2, <2>3, ThoseAre
        <4>2. \A i \in DOMAIN kept : \E j \in DOMAIN done : kept[i] = done[j]
          <5> HIDE DEF kept
          <5>1. QED
            BY <4>1
        <4>3. IsSend(put)
          BY DEF PutOff, IsSend
        <4>4. plan' = Append(kept, put)
          BY <2>2, <2>5
        <4> HIDE DEF kept, put, places
        <4>5. \A i \in DOMAIN plan' : plan'[i] = put \/ (i \in DOMAIN kept /\ plan'[i] = kept[i])
          BY <4>1, <4>4
        <4>6. \A i \in DOMAIN plan' : ~IsSend(plan'[i]) => \E j \in DOMAIN done : plan'[i] = done[j]
          BY <4>2, <4>3, <4>5
        <4>7. QED
          BY <4>6 DEF Todo
      <3>3. QED
        BY <2>1, <2>3, <3>1, <3>2, StepIsOver
    <2>6. QED
      BY <2>4, <2>5
  <1>9. CASE AutoApproved
    <2>1. UNCHANGED <<idle, supplements>> /\ pc = "handling" /\ pc' = "after" /\ plan' = Done(plan, Current)
      BY <1>9 DEF AutoApproved, MarkStepDone
    <2>2. QED
      BY <1>0, <2>1, DoneIsFewer, StepIsOver
  <1>10. CASE HandlePartial \/ HandleNeedsDependency \/ HandleBlocked
    <2>1. idle' = idle + 1
      BY <1>10 DEF HandlePartial, HandleNeedsDependency, HandleBlocked
    <2>2. QED
      BY <2>1, Lowered
  <1>11. CASE HandleNeedsAuth
    BY <1>11 DEF HandleNeedsAuth, Return
  <1>12. CASE HandleBlockedSpent \/ HandleFailed
    <2>1. UNCHANGED <<idle, supplements>> /\ pc = "handling" /\ pc' = "delivering"
      BY <1>12 DEF HandleBlockedSpent, HandleFailed, Handles
    <2>2. ToPlan' = ToPlan /\ InCycles /\ ~InCycles'
      BY <2>1 DEF ToPlan, InCycles
    <2>3. QED
      BY <2>1, <2>2, Lowered
  <1>13. CASE NoSupplement
    BY <1>13, Nearer DEF NoSupplement, row
  <1>14. CASE ReplanForSupplement \/ SupplementAsFeedback
    <2>1. /\ idle' = idle /\ pc = "after" /\ pc' \in {"replanning", "cycle"}
          /\ supplements /\ supplements' = FALSE
      BY <1>14 DEF ReplanForSupplement, SupplementAsFeedback, Respiral
    <2>2. ToPlan' < ToPlan
      BY <2>1 DEF ToPlan
    <2>3. QED
      BY <2>1, <2>2, Lowered
  <1>15. CASE PlanRejected \/ PlanWithoutAnswer \/ Replan
    <2>1. UNCHANGED <<idle, supplements>> /\ pc = "replanning" /\ pc' \in {"after", "cycle"}
      BY <1>0, <1>15 DEF PlanRejected, PlanWithoutAnswer, Replan, GoesOn
    <2>2. ToPlan' < ToPlan
      BY <2>1 DEF ToPlan
    <2>3. QED
      BY <2>1, <2>2, Lowered
  <1>16. CASE MilestoneReached
    BY <1>16, Nearer DEF MilestoneReached, UnchangedControl
  <1>17. CASE MilestonePlanBlocked
    BY <1>17 DEF MilestonePlanBlocked, Return
  <1>18. CASE MilestonePlan \/ DeliverablesFound \/ NotAchieved \/ BonusReplan
    <2>1. idle' = idle + 1
      BY <1>18 DEF MilestonePlan, DeliverablesFound, NotAchieved, BonusReplan
    <2>2. QED
      BY <2>1, Lowered
  <1>19. CASE GoalAchieved \/ BudgetSpent
    <2>1. UNCHANGED <<idle, supplements>> /\ pc = "validating" /\ pc' \in {"sending", "delivering"}
      BY <1>19 DEF GoalAchieved, BudgetSpent
    <2>2. ToPlan' = ToPlan /\ InCycles /\ ~InCycles'
      BY <2>1 DEF ToPlan, InCycles
    <2>3. QED
      BY <2>1, <2>2, Lowered
  <1>20. CASE SendOne
    <2>1. PICK i \in DOMAIN plan : /\ Head(ToSend) = plan[i] /\ IsPending(plan[i]) /\ IsSend(plan[i])
                                   /\ plan[i].id \notin unsent
      BY <1>0, <1>20, NextSend DEF SendOne
    <2>2. \/ MarkStepDone(plan[i]) /\ UNCHANGED unsent
          \/ UNCHANGED plan /\ unsent' = unsent \union {plan[i].id}
      BY <1>20, <2>1 DEF SendOne
    <2>3. UNCHANGED <<idle, supplements, pc>> /\ ~InCycles
      BY <1>20 DEF SendOne, InCycles
    <2>4. QED
      BY <2>1, <2>2, <2>3, SendIsTried
  <1>21. CASE AllSent \/ FailAfterDelivery
    BY <1>21 DEF AllSent, FailAfterDelivery, Return
  <1>22. CASE LastValidation
    <2>1. UNCHANGED <<idle, supplements, unsent, plan>> /\ pc = "lastValidation" /\ pc' = "delivering"
      BY <1>22 DEF LastValidation, Return, UnchangedControl
    <2>2. QED
      BY <2>1, Nearer
  <1>23. CASE DeliverReady
    <2>1. PICK i \in Ready : \/ MarkStepDone(plan[i]) /\ UNCHANGED unsent
                             \/ UNCHANGED plan /\ unsent' = unsent \union {plan[i].id}
      BY <1>23 DEF DeliverReady
    <2>2. i \in DOMAIN plan /\ IsPending(plan[i]) /\ IsSend(plan[i]) /\ plan[i].id \notin unsent
      BY <2>1 DEF Ready
    <2>3. UNCHANGED <<idle, supplements, pc>> /\ ~InCycles
      BY <1>23 DEF DeliverReady, InCycles
    <2>4. QED
      BY <2>1, <2>2, <2>3, SendIsTried
  <1>24. QED
    BY <1>1, <1>2, <1>3, <1>4, <1>5, <1>6, <1>7, <1>8, <1>9, <1>10, <1>11, <1>12, <1>13,
       <1>14, <1>15, <1>16, <1>17, <1>18, <1>19, <1>20, <1>21, <1>22, <1>23
       DEF Work, RunStep, Handle, Validate

(* Each thing the loop does ends it or lowers the measure, and meanwhile    *)
(* only the user can raise it, by adding to the request.                    *)
UsesItselfUp ==
    pc \in Running /\ pc' \in Running =>
        \/ LexLess(Measure', Measure)
        \/ ~Work /\ (Measure' = Measure \/ added' = added + 1)

(* A run of the loop uses itself up, whatever planner, judges, tools and    *)
(* user do: with MeasuresAreWellFounded it can go on for ever only if the   *)
(* user adds to the request for ever (runLoopInternal, ciclosSemAvanco).    *)
THEOREM LoopUsesItselfUp == Spec => [][UsesItselfUp]_vars
  <1>1. EffortInv /\ EffortInv' /\ [Next]_vars => [UsesItselfUp]_vars
    <2> SUFFICES ASSUME EffortInv, EffortInv', Next, pc \in Running, pc' \in Running, ~Work
                 PROVE  Measure' = Measure \/ added' = added + 1
      BY WorkLowers DEF UsesItselfUp
    <2>1. CASE Abandon
      <3>1. UNCHANGED <<plan, idle, supplements, pc, unsent>>
        BY <2>1 DEF Abandon, loop
      <3>2. /\ CyclesLeft' = CyclesLeft /\ ToPlan' = ToPlan /\ StillInCycles' = StillInCycles
            /\ Untried' = Untried /\ Way' = Way /\ Cardinality(Todo(plan')) = Cardinality(Todo(plan))
        BY <3>1 DEF CyclesLeft, ToPlan, StillInCycles, InCycles, Untried, Way
      <3>3. QED
        BY <3>2 DEF Measure
    <2>2. CASE Supplement
      BY <2>2 DEF Supplement
    <2>3. CASE LoopThrows \/ ExecuteGoal \/ ResumeGoal \/ Refuse \/ Crash
      BY <2>3 DEF LoopThrows, Return, ExecuteGoal, ResumeGoal, Refuse, Crash, Running
    <2>4. QED
      BY <2>1, <2>2, <2>3 DEF Next
  <1>2. Spec => []EffortInv
    <2>1. Spec => []ControlOK
      BY ControlCorrect
    <2>2. QED
      BY <2>1, EffortInit, EffortStep, PTL DEF Spec
  <1>3. QED
    BY <1>1, <1>2, PTL DEF Spec
=============================================================================
