-------------------------- MODULE Authorization_proofs --------------------------
(***************************************************************************)
(* What the two paths of an answer guarantee for any number of requests,   *)
(* goals, callbacks at a time, restarts and waits for the mutex that are   *)
(* given up: type correctness, that a goal is never run by two loops at a  *)
(* time, and that the tool of a refused request is not started; where only *)
(* buttons answer, that nothing remembers or waits for a request that is   *)
(* gone; and where the mutex holds too, that a request is one unit.        *)
(***************************************************************************)
EXTENDS Authorization, TLAPS

(* A goal that somebody runs waits for nothing, or is over (and nothing    *)
(* brings it back): so nobody can find it by its request and resume it.    *)
RunGoalIsTaken ==
    \A a \in Actors : \A g \in Goals :
        Runs(a, g) => \/ status[g] = "over"
                      \/ status[g] = "running" /\ waitsFor[g] = 0

(* The row of a refused request is gone for good.                          *)
RefusedIsGone == \A t \in refused : row[t] = "deleted"

Taken == RunGoalIsTaken /\ OneLoopPerGoal

-----------------------------------------------------------------------------
(* What an actor may be doing                                              *)

LEMMA DoingShape ==
    ASSUME TypeOK, NEW a \in Actors
    PROVE  /\ doing[a].at \in {"idle", "open", "routed", "agent", "pressed", "tool", "loop"}
           /\ doing[a].at = "pressed" => doing[a].txn \in 1..asked
           /\ doing[a].at = "tool" =>
                  /\ doing[a].txn \in 1..asked
                  /\ doing[a].path \in {"goal", "agent"}
           /\ doing[a].at = "loop" => doing[a].goal \in 1..goals
<1>1. doing[a] \in Doings(asked, goals)
  BY DEF TypeOK
<1>2. CASE doing[a] \in {Idle, Opened, Routed, Agent}
  BY <1>2 DEF Idle, Opened, Routed, Agent
<1>3. CASE doing[a] \in [at : {"tool"}, txn : 1..asked, path : {"goal", "agent"}]
  BY <1>3
<1>5. CASE doing[a] \in [at : {"pressed"}, txn : 1..asked]
  BY <1>5
<1>4. CASE doing[a] \in [at : {"loop"}, goal : 1..goals, kind : {"first", "resumed"}]
  BY <1>4
<1> QED
  BY <1>1, <1>2, <1>3, <1>4, <1>5 DEF Doings

(* More requests and goals leave room for what there was.                  *)
LEMMA DoingsGrow ==
    ASSUME NEW m \in Nat, NEW n \in Nat, NEW g \in Nat, NEW h \in Nat,
           m <= n, g <= h
    PROVE  Doings(m, g) \subseteq Doings(n, h)
<1>1. 1..m \subseteq 1..n /\ 1..g \subseteq 1..h
  OBVIOUS
<1> QED
  BY <1>1 DEF Doings

LEMMA DoTyped ==
    ASSUME TypeOK, asked' \in Nat, goals' \in Nat, asked <= asked', goals <= goals',
           NEW a \in Actors, NEW what \in Doings(asked', goals'), Do(a, what)
    PROVE  doing' \in [Actors -> Doings(asked', goals')]
<1>1. Doings(asked, goals) \subseteq Doings(asked', goals')
  BY DoingsGrow, AuthAssumption DEF TypeOK
<1> QED
  BY <1>1 DEF TypeOK, Do

LEMMA DoingTyped ==
    ASSUME TypeOK, asked' \in Nat, goals' \in Nat, asked <= asked', goals <= goals',
           UNCHANGED doing
    PROVE  doing' \in [Actors -> Doings(asked', goals')]
<1>1. Doings(asked, goals) \subseteq Doings(asked', goals')
  BY DoingsGrow, AuthAssumption DEF TypeOK
<1> QED
  BY <1>1 DEF TypeOK

LEMMA DoingMembers ==
    ASSUME NEW n \in Nat, NEW h \in Nat
    PROVE  /\ Idle \in Doings(n, h) /\ Opened \in Doings(n, h)
           /\ Routed \in Doings(n, h) /\ Agent \in Doings(n, h)
           /\ \A t \in 1..n : Pressed(t) \in Doings(n, h)
           /\ \A t \in 1..n : \A p \in {"goal", "agent"} : Tool(t, p) \in Doings(n, h)
           /\ \A g \in 1..h : \A r \in {"first", "resumed"} : Loop(g, r) \in Doings(n, h)
  BY DEF Doings, Pressed, Tool, Loop

(* Whoever rests does nothing any more, and the mutex stays a line of       *)
(* callbacks.                                                               *)
LEMMA RestsTyped ==
    ASSUME TypeOK, NEW a \in Actors, Rests(a)
    PROVE  /\ Do(a, Idle)
           /\ line' \subseteq Callbacks /\ before' \in [Callbacks -> SUBSET Callbacks]
<1>1. CASE a = "turn"
  BY <1>1 DEF Rests, mutexVars, TypeOK
<1>2. CASE a # "turn"
  BY <1>2 DEF Rests, Resolves, TypeOK, Actors
<1> QED
  BY <1>1, <1>2 DEF Rests

-----------------------------------------------------------------------------
(* Type correctness                                                        *)

LEMMA TypeInit == Init => TypeOK
<1> SUFFICES ASSUME Init PROVE TypeOK
  OBVIOUS
<1>1. doing \in [Actors -> Doings(asked, goals)]
  BY DEF Init, Doings
<1>2. line \subseteq Callbacks /\ before \in [Callbacks -> SUBSET Callbacks]
  BY DEF Init
<1>3. mishaps \in 0..MaxMishaps /\ buttonsOnly \in BOOLEAN /\ patient \in {FALSE, buttonsOnly}
  <2>1. mishaps = 0 /\ buttonsOnly \in BOOLEAN /\ patient \in {FALSE, buttonsOnly}
    BY DEF Init
  <2>2. 0 \in 0..MaxMishaps
    BY AuthAssumption
  <2> QED
    BY <2>1, <2>2
<1>4. /\ asked \in 0..MaxTxns /\ goals \in 0..MaxGoals /\ pending \in 0..asked
      /\ shown \subseteq 1..asked /\ refused \subseteq 1..asked
  BY AuthAssumption DEF Init
<1>5. /\ row \in [Txns -> {"unused", "pending", "executing", "deleted", "purged"}]
      /\ \A t \in Txns : row[t] = "unused" <=> t > asked
      /\ runs \in [Txns -> Nat]
  BY AuthAssumption DEF Init, Txns
<1>6. /\ status \in [Goals -> {"none", "running", "blocked", "over"}]
      /\ waitsFor \in [Goals -> 0..asked]
      /\ \A g \in Goals : /\ status[g] = "none" <=> g > goals
                          /\ status[g] = "blocked" => waitsFor[g] # 0
  BY AuthAssumption DEF Init, Goals
<1> QED
  BY <1>1, <1>2, <1>3, <1>4, <1>5, <1>6 DEF TypeOK

(* The two outcomes of WorkflowEngine.resume keep the tables typed.        *)
LEMMA ResumeTyped ==
    ASSUME TypeOK, UNCHANGED <<asked, goals>>, NEW a \in Actors, NEW t \in 0..asked,
           NEW p \in {"goal", "agent"}, ResumeApproved(a, t, p)
    PROVE  /\ row' \in [Txns -> {"unused", "pending", "executing", "deleted", "purged"}]
           /\ \A u \in Txns : row'[u] = "unused" <=> u > asked
           /\ runs' \in [Txns -> Nat]
           /\ UNCHANGED refused
           /\ doing' \in [Actors -> Doings(asked, goals)]
<1> USE AuthAssumption DEF Txns, Goals
<1>1. t \in 1..asked /\ t \in Txns
  BY DEF ResumeApproved, Stored, TypeOK
<1>2. doing' \in [Actors -> Doings(asked, goals)]
  <2>1. Tool(t, p) \in Doings(asked', goals') /\ Do(a, Tool(t, p))
    BY <1>1, DoingMembers DEF ResumeApproved, TypeOK
  <2>2. asked' \in Nat /\ goals' \in Nat /\ asked <= asked' /\ goals <= goals'
    BY DEF TypeOK
  <2> QED
    BY <2>1, <2>2, DoTyped
<1> QED
  BY <1>1, <1>2 DEF ResumeApproved, TypeOK

LEMMA NoToolTyped ==
    ASSUME TypeOK, UNCHANGED asked, NEW t \in 0..asked, ToolNotFound(t)
    PROVE  /\ row' \in [Txns -> {"unused", "pending", "executing", "deleted", "purged"}]
           /\ \A u \in Txns : row'[u] = "unused" <=> u > asked
           /\ UNCHANGED historyVars
<1> USE AuthAssumption DEF Txns
<1>1. t \in 1..asked /\ t \in Txns
  BY DEF ToolNotFound, Stored, TypeOK
<1> QED
  BY <1>1 DEF ToolNotFound, TypeOK

LEMMA RejectTyped ==
    ASSUME TypeOK, UNCHANGED asked, NEW t \in 0..asked, ResumeRejected(t)
    PROVE  /\ row' \in [Txns -> {"unused", "pending", "executing", "deleted", "purged"}]
           /\ \A u \in Txns : row'[u] = "unused" <=> u > asked
           /\ refused' \subseteq 1..asked
           /\ UNCHANGED runs
<1> USE AuthAssumption DEF Txns
<1>1. t \in 1..asked /\ t \in Txns
  BY DEF ResumeRejected, Stored, TypeOK
<1> QED
  BY <1>1 DEF ResumeRejected, TypeOK

LEMMA TurnTyped ==
    ASSUME TypeOK,
           \/ TurnOpens \/ TurnRoutes \/ TurnEnds \/ TurnAsks \/ TurnStartsGoal
           \/ TextAnswersAgent
    PROVE  TypeOK'
<1> USE AuthAssumption DEF Txns, Goals, txnVars, goalVars, mutexVars, historyVars, fixedVars
<1>0. "turn" \in Actors
  BY DEF Actors
<1>1. CASE TurnOpens \/ TurnRoutes \/ TurnEnds
  <2>0. UNCHANGED <<txnVars, goalVars, mutexVars, historyVars, mishaps, fixedVars>>
    BY <1>1 DEF TurnOpens, TurnRoutes, TurnEnds
  <2>1. \E what \in {Idle, Opened, Routed} : Do("turn", what)
    BY <1>1 DEF TurnOpens, TurnRoutes, TurnEnds
  <2>2. asked \in Nat /\ goals \in Nat /\ UNCHANGED <<asked, goals>>
    BY <2>0 DEF TypeOK
  <2>3. doing' \in [Actors -> Doings(asked', goals')]
    BY <1>0, <2>1, <2>2, DoTyped, DoingMembers
  <2> QED
    BY <2>0, <2>3 DEF TypeOK
<1>2. CASE TurnAsks
  <2>0. /\ UNCHANGED <<goalVars, mutexVars, historyVars, mishaps, fixedVars>>
        /\ pending' = asked' /\ shown' = shown \union {asked'}
        /\ row' = [row EXCEPT ![asked'] = "pending"] /\ Do("turn", Idle)
    BY <1>2 DEF TurnAsks, CreateTransaction
  <2>1. /\ asked' = asked + 1 /\ asked' \in Txns /\ asked' \in 0..MaxTxns
        /\ asked \in Nat /\ goals \in Nat
    BY <1>2 DEF TurnAsks, CreateTransaction, TypeOK
  <2>2. doing' \in [Actors -> Doings(asked', goals')]
    BY <1>0, <2>0, <2>1, DoTyped, DoingMembers
  <2>3. /\ row' \in [Txns -> {"unused", "pending", "executing", "deleted", "purged"}]
        /\ \A u \in Txns : row'[u] = "unused" <=> u > asked'
    BY <2>0, <2>1 DEF TypeOK
  <2>4. /\ shown' \subseteq 1..asked' /\ pending' \in 0..asked'
        /\ refused' \subseteq 1..asked' /\ waitsFor' \in [Goals -> 0..asked']
    BY <2>0, <2>1 DEF TypeOK
  <2> QED
    BY <2>0, <2>1, <2>2, <2>3, <2>4 DEF TypeOK
<1>3. CASE TurnStartsGoal
  <2>1. goals' = goals + 1 /\ asked' = asked /\ goals' \in 0..MaxGoals
    BY <1>3 DEF TurnStartsGoal, TypeOK
  <2>2. doing' \in [Actors -> Doings(asked', goals')]
    <3>1. Loop(goals', "first") \in Doings(asked', goals')
      BY <2>1, DoingMembers DEF TypeOK
    <3>2. Do("turn", Loop(goals', "first"))
      BY <1>3 DEF TurnStartsGoal
    <3>3. asked' \in Nat /\ goals' \in Nat /\ asked <= asked' /\ goals <= goals'
      BY <2>1 DEF TypeOK
    <3> QED
      BY <1>0, <3>1, <3>2, <3>3, DoTyped
  <2>3. /\ status' \in [Goals -> {"none", "running", "blocked", "over"}]
        /\ waitsFor' \in [Goals -> 0..asked']
        /\ \A g \in Goals : /\ status'[g] = "none" <=> g > goals'
                            /\ status'[g] = "blocked" => waitsFor'[g] # 0
    <3>1. \A g \in Goals : status'[g] = IF g = goals + 1 THEN "running"
                                        ELSE IF Live(g) THEN "over" ELSE status[g]
      BY <1>3, <2>1 DEF TurnStartsGoal
    <3>2. \A g \in Goals : waitsFor'[g] = IF Live(g) THEN 0 ELSE waitsFor[g]
      BY <1>3 DEF TurnStartsGoal
    <3>3. /\ status' \in [Goals -> {"none", "running", "blocked", "over"}]
          /\ waitsFor' \in [Goals -> 0..asked']
      BY <1>3, <2>1 DEF TurnStartsGoal, TypeOK
    <3>4. ASSUME NEW g \in Goals
          PROVE  /\ status'[g] = "none" <=> g > goals'
                 /\ status'[g] = "blocked" => waitsFor'[g] # 0
      <4>1. goals \in Nat /\ goals' = goals + 1 /\ g \in Int /\ (status[g] = "none" <=> g > goals)
        BY <2>1, AuthAssumption DEF TypeOK, Goals
      <4>2. status[g] = "blocked" => waitsFor[g] # 0
        BY DEF TypeOK
      <4> QED
        BY <3>1, <3>2, <4>1, <4>2 DEF Live
    <3> QED
      BY <3>3, <3>4
  <2>4. UNCHANGED <<txnVars, mutexVars, historyVars, mishaps, fixedVars>>
    BY <1>3 DEF TurnStartsGoal
  <2> QED
    BY <2>1, <2>2, <2>3, <2>4 DEF TypeOK
<1>4. CASE TextAnswersAgent
  <2>0. /\ UNCHANGED <<asked, shown, goals, status, waitsFor, mutexVars, mishaps, fixedVars>>
        /\ pending \in 0..asked /\ asked \in Nat /\ goals \in Nat
    BY <1>4 DEF TextAnswersAgent, TypeOK
  <2>1. CASE ResumeApproved("turn", pending, "agent") /\ UNCHANGED pending
    BY <1>0, <2>0, <2>1, ResumeTyped DEF TypeOK
  <2>2. CASE ResumeRejected(pending) /\ pending' = 0 /\ Do("turn", Idle)
    <3>1. doing' \in [Actors -> Doings(asked', goals')]
      BY <1>0, <2>0, <2>2, DoTyped, DoingMembers
    <3>2. /\ row' \in [Txns -> {"unused", "pending", "executing", "deleted", "purged"}]
          /\ \A u \in Txns : row'[u] = "unused" <=> u > asked
          /\ refused' \subseteq 1..asked
          /\ UNCHANGED runs
      BY <2>0, <2>2, RejectTyped
    <3>3. pending' \in 0..asked' /\ UNCHANGED <<asked, goals>>
      BY <2>0, <2>2
    <3> HIDE DEF Txns, Goals
    <3> QED
      BY <2>0, <3>1, <3>2, <3>3 DEF TypeOK
  <2>3. CASE ToolNotFound(pending) /\ UNCHANGED <<pending, doing>>
    BY <2>0, <2>3, NoToolTyped DEF TypeOK
  <2> QED
    BY <1>4, <2>1, <2>2, <2>3 DEF TextAnswersAgent
<1> QED
  BY <1>1, <1>2, <1>3, <1>4

LEMMA EndGoalsTyped ==
    ASSUME TypeOK, UNCHANGED <<asked, goals>>, NEW which, EndGoals(which),
           \A g \in which : status[g] # "none"
    PROVE  /\ status' \in [Goals -> {"none", "running", "blocked", "over"}]
           /\ waitsFor' \in [Goals -> 0..asked']
           /\ \A g \in Goals : /\ status'[g] = "none" <=> g > goals'
                               /\ status'[g] = "blocked" => waitsFor'[g] # 0
  BY DEF EndGoals, TypeOK

LEMMA GoalTyped ==
    ASSUME TypeOK, NEW g \in Goals, ExpireStale(g) \/ TextAnswersGoal(g) \/ Cancel(g)
    PROVE  TypeOK'
<1> USE AuthAssumption DEF txnVars, mutexVars, historyVars, fixedVars
<1>0. "turn" \in Actors
  BY DEF Actors
<1>1. CASE ExpireStale(g)
  <2>1. /\ UNCHANGED <<txnVars, goals, doing, mutexVars, historyVars, mishaps, fixedVars>>
        /\ EndGoals({g}) /\ status[g] # "none"
    BY <1>1 DEF ExpireStale, Live
  <2> QED
    BY <2>1, EndGoalsTyped DEF TypeOK
<1>2. CASE Cancel(g)
  <2>1. /\ UNCHANGED <<txnVars, goals, doing, mutexVars, historyVars, mishaps, fixedVars>>
        /\ EndGoals({g}) /\ status[g] # "none"
    BY <1>2 DEF Cancel, Live
  <2> QED
    BY <2>1, EndGoalsTyped DEF TypeOK
<1>3. CASE TextAnswersGoal(g)
  <2>0. /\ UNCHANGED <<asked, shown, pending, goals, mutexVars, mishaps, fixedVars>>
        /\ waitsFor[g] \in 0..asked /\ asked \in Nat /\ goals \in Nat
    <3>1. UNCHANGED <<asked, shown, pending, goals, mutexVars, mishaps, fixedVars>>
      BY <1>3 DEF TextAnswersGoal, goalVars
    <3> QED
      BY <3>1 DEF TypeOK
  <2>1. CASE ResumeApproved("turn", waitsFor[g], "goal") /\ UNCHANGED goalVars
    BY <1>0, <2>0, <2>1, ResumeTyped DEF TypeOK, goalVars
  <2>2. CASE /\ ResumeRejected(waitsFor[g])
             /\ EndGoals(WaitingFor(waitsFor[g]))
             /\ Do("turn", Idle)
    <3>1. doing' \in [Actors -> Doings(asked', goals')]
      BY <1>0, <2>0, <2>2, DoTyped, DoingMembers
    <3>2. /\ row' \in [Txns -> {"unused", "pending", "executing", "deleted", "purged"}]
          /\ \A u \in Txns : row'[u] = "unused" <=> u > asked
          /\ refused' \subseteq 1..asked
          /\ UNCHANGED runs
      BY <2>0, <2>2, RejectTyped
    <3>3. \A h \in WaitingFor(waitsFor[g]) : status[h] # "none"
      BY DEF WaitingFor, Live
    <3> QED
      BY <2>0, <2>2, <3>1, <3>2, <3>3, EndGoalsTyped DEF TypeOK
  <2>3. CASE ToolNotFound(waitsFor[g]) /\ Do("turn", Agent) /\ UNCHANGED goalVars
    <3>1. doing' \in [Actors -> Doings(asked', goals')]
      BY <1>0, <2>0, <2>3, DoTyped, DoingMembers
    <3> QED
      BY <2>0, <2>3, <3>1, NoToolTyped DEF TypeOK, goalVars
  <2>4. CASE Do("turn", Agent) /\ UNCHANGED <<row, goalVars, historyVars>>
    <3>1. doing' \in [Actors -> Doings(asked', goals')]
      BY <1>0, <2>0, <2>4, DoTyped, DoingMembers
    <3> QED
      BY <2>0, <2>4, <3>1 DEF TypeOK, goalVars
  <2> QED
    BY <1>3, <2>1, <2>2, <2>3, <2>4 DEF TextAnswersGoal
<1> QED
  BY <1>1, <1>2, <1>3

LEMMA PressTyped ==
    ASSUME TypeOK, NEW c \in Callbacks, NEW t \in Txns, Press(c, t)
    PROVE  TypeOK'
<1>1. /\ UNCHANGED <<txnVars, goalVars, historyVars, mishaps, fixedVars>>
      /\ c \in Actors /\ t \in 1..asked /\ asked \in Nat /\ goals \in Nat
  BY AuthAssumption DEF Press, TypeOK, Actors
<1>2. UNCHANGED <<asked, goals>> /\ Do(c, Pressed(t))
  BY <1>1 DEF Press, txnVars, goalVars
<1>3. doing' \in [Actors -> Doings(asked', goals')]
  BY <1>1, <1>2, DoTyped, DoingMembers
<1>4. line' \subseteq Callbacks /\ before' \in [Callbacks -> SUBSET Callbacks]
  BY DEF Press, TypeOK
<1> QED
  BY <1>1, <1>3, <1>4 DEF txnVars, goalVars, historyVars, fixedVars, TypeOK

(* Nothing but who waits for whom.                                         *)
LEMMA MutexTyped ==
    ASSUME TypeOK, LineIsForgotten \/ \E c \in Callbacks : GivesUp(c)
    PROVE  TypeOK'
<1> USE AuthAssumption DEF Mishap, txnVars, goalVars, historyVars, fixedVars
<1>1. CASE LineIsForgotten
  <2>1. UNCHANGED <<txnVars, goalVars, doing, before, historyVars, fixedVars>>
    BY <1>1 DEF LineIsForgotten
  <2>2. line' = {} /\ mishaps' \in 0..MaxMishaps
    BY <1>1, AuthAssumption DEF LineIsForgotten, TypeOK
  <2>3. UNCHANGED <<asked, goals>>
    BY <2>1
  <2> QED
    BY <2>1, <2>2, <2>3 DEF TypeOK
<1>2. ASSUME NEW c \in Callbacks, GivesUp(c) PROVE TypeOK'
  <2>1. /\ UNCHANGED <<txnVars, goalVars, historyVars, fixedVars>>
        /\ mishaps' \in 0..MaxMishaps /\ asked \in Nat /\ goals \in Nat
    BY <1>2, AuthAssumption DEF GivesUp, TypeOK
  <2>2. /\ Do(c, Idle) /\ c \in Actors
        /\ line' \subseteq Callbacks /\ before' \in [Callbacks -> SUBSET Callbacks]
    BY <1>2, RestsTyped DEF GivesUp, Actors
  <2>3. doing' \in [Actors -> Doings(asked', goals')]
    BY <2>1, <2>2, DoTyped, DoingMembers
  <2> QED
    BY <2>1, <2>2, <2>3 DEF TypeOK
<1> QED
  BY <1>1, <1>2

LEMMA PurgeTyped ==
    ASSUME TypeOK, NEW t \in Txns, PurgeExpired(t)
    PROVE  TypeOK'
  BY AuthAssumption DEF PurgeExpired, Stored, goalVars, mutexVars, historyVars, fixedVars, TypeOK, Txns

LEMMA ClickTyped ==
    ASSUME TypeOK, NEW c \in Callbacks, Click(c)
    PROVE  TypeOK'
<1> USE AuthAssumption DEF mutexVars, fixedVars
<1> DEFINE t == doing[c].txn
<1>0. c \in Actors /\ t \in 1..asked /\ t \in 0..asked /\ 0 \in 0..asked
  <2>1. c \in Actors /\ doing[c].at = "pressed"
    BY DEF Click, HasMutex, Actors
  <2>2. asked \in Nat
    BY DEF TypeOK
  <2> QED
    BY <2>1, <2>2, DoingShape
<1>1. UNCHANGED <<asked, shown, goals, mishaps, fixedVars>> /\ asked \in Nat /\ goals \in Nat
  BY DEF Click, TypeOK
<1>2. ASSUME Rests(c)
      PROVE  /\ doing' \in [Actors -> Doings(asked', goals')]
             /\ line' \subseteq Callbacks /\ before' \in [Callbacks -> SUBSET Callbacks]
  BY <1>0, <1>1, <1>2, RestsTyped, DoTyped, DoingMembers
<1> HIDE DEF t
<1>3. CASE ClickApproves(c, t)
  BY <1>0, <1>1, <1>3, ResumeTyped DEF ClickApproves, TypeOK
<1>4. CASE ClickRejects(c, t)
  <2>1. \A h \in WaitingFor(t) : status[h] # "none"
    BY DEF WaitingFor, Live
  <2>2. /\ row' \in [Txns -> {"unused", "pending", "executing", "deleted", "purged"}]
        /\ \A u \in Txns : row'[u] = "unused" <=> u > asked
        /\ refused' \subseteq 1..asked
        /\ UNCHANGED runs
    BY <1>0, <1>1, <1>4, RejectTyped DEF ClickRejects
  <2>3. pending' \in 0..asked'
    BY <1>0, <1>1, <1>4 DEF ClickRejects, Forget, TypeOK
  <2> QED
    BY <1>1, <1>2, <1>4, <2>1, <2>2, <2>3, EndGoalsTyped DEF ClickRejects, TypeOK
<1>5. CASE ClickExpired(c, t)
  BY <1>0, <1>1, <1>2, <1>5 DEF ClickExpired, Forget, historyVars, TypeOK
<1>6. CASE ClickFindsNoTool(c, t)
  <2>1. pending' \in 0..asked' /\ UNCHANGED <<status, waitsFor>>
    BY <1>0, <1>1, <1>6 DEF ClickFindsNoTool, Forget, TypeOK
  <2> QED
    BY <1>0, <1>1, <1>2, <1>6, <2>1, NoToolTyped DEF ClickFindsNoTool, historyVars, TypeOK
<1> QED
  BY <1>3, <1>4, <1>5, <1>6 DEF Click, Answer, t

LEMMA ActorTyped ==
    ASSUME TypeOK, NEW a \in Actors, ToolEnds(a) \/ LoopNeedsAuth(a) \/ LoopEnds(a)
    PROVE  TypeOK'
<1> USE AuthAssumption DEF mutexVars, historyVars, fixedVars, txnVars
<1>1. CASE ToolEnds(a)
  <2> DEFINE t == doing[a].txn
  <2>0. /\ UNCHANGED <<asked, shown, goals, runs, refused, mishaps, fixedVars>>
        /\ t \in 1..asked /\ t \in Txns /\ asked \in Nat /\ goals \in Nat
    <3>1. doing[a].at = "tool" /\ UNCHANGED <<asked, shown, goals, runs, refused, mishaps, fixedVars>>
      BY <1>1 DEF ToolEnds
    <3>2. asked \in 0..MaxTxns /\ goals \in Nat
      BY DEF TypeOK
    <3> QED
      BY <3>1, <3>2, DoingShape, AuthAssumption DEF Txns
  <2>1. /\ row' \in [Txns -> {"unused", "pending", "executing", "deleted", "purged"}]
        /\ \A u \in Txns : row'[u] = "unused" <=> u > asked
    BY <1>1, <2>0 DEF ToolEnds, Txns, TypeOK
  <2>2. pending' \in 0..asked
    BY <1>1, <2>0 DEF ToolEnds, Continue, Forget, TypeOK
  <2>3. CASE \E g \in WaitingFor(t) : ResumeGoal(a, g)
    <3>1. PICK g \in Goals : ResumeGoal(a, g) /\ status[g] # "none"
      BY <2>3 DEF WaitingFor, Live
    <3>2. g \in 1..goals
      BY <3>1 DEF Goals, TypeOK
    <3>3. doing' \in [Actors -> Doings(asked', goals')]
      BY <2>0, <3>1, <3>2, DoTyped, DoingMembers DEF ResumeGoal
    <3>5. UNCHANGED mutexVars
      BY <3>1 DEF ResumeGoal
    <3>4. /\ status' \in [Goals -> {"none", "running", "blocked", "over"}]
          /\ waitsFor' \in [Goals -> 0..asked]
          /\ \A h \in Goals : /\ status'[h] = "none" <=> h > goals
                              /\ status'[h] = "blocked" => waitsFor'[h] # 0
      BY <3>1, <3>2 DEF ResumeGoal, TypeOK
    <3> QED
      BY <2>0, <2>1, <2>2, <3>3, <3>4, <3>5 DEF TypeOK
  <2>4. CASE Rests(a) /\ UNCHANGED <<status, waitsFor>>
    <3>1. /\ doing' \in [Actors -> Doings(asked', goals')]
          /\ line' \subseteq Callbacks /\ before' \in [Callbacks -> SUBSET Callbacks]
      BY <2>0, <2>4, RestsTyped, DoTyped, DoingMembers
    <3> QED
      BY <2>0, <2>1, <2>2, <2>4, <3>1 DEF TypeOK
  <2> QED
    BY <1>1, <2>3, <2>4 DEF ToolEnds, Continue
<1>2. CASE LoopNeedsAuth(a)
  <2>0. /\ asked' = asked + 1 /\ asked' \in Txns /\ asked' \in 0..MaxTxns
        /\ UNCHANGED <<goals, runs, refused, mishaps, fixedVars>>
        /\ asked \in Nat /\ goals \in Nat
    BY <1>2 DEF LoopNeedsAuth, CreateTransaction, Txns, TypeOK
  <2>1. /\ doing' \in [Actors -> Doings(asked', goals')]
        /\ line' \subseteq Callbacks /\ before' \in [Callbacks -> SUBSET Callbacks]
    BY <1>2, <2>0, RestsTyped, DoTyped, DoingMembers DEF LoopNeedsAuth
  <2>2. doing[a].goal \in Goals
    <3>1. doing[a].goal \in 1..goals /\ goals \in 0..MaxGoals
      BY <1>2, DoingShape DEF LoopNeedsAuth, TypeOK
    <3> QED
      BY <3>1, AuthAssumption DEF Goals
  <2>3. /\ status' \in [Goals -> {"none", "running", "blocked", "over"}]
        /\ waitsFor' \in [Goals -> 0..asked']
        /\ \A g \in Goals : /\ status'[g] = "none" <=> g > goals'
                            /\ status'[g] = "blocked" => waitsFor'[g] # 0
    BY <1>2, <2>0, <2>2 DEF LoopNeedsAuth, TypeOK
  <2>4. /\ row' \in [Txns -> {"unused", "pending", "executing", "deleted", "purged"}]
        /\ \A u \in Txns : row'[u] = "unused" <=> u > asked'
    <3>1. row' = [row EXCEPT ![asked'] = "pending"]
      BY <1>2 DEF LoopNeedsAuth, CreateTransaction
    <3> QED
      BY <3>1, <2>0 DEF TypeOK, Txns
  <2>5. /\ shown' \subseteq 1..asked' /\ pending' \in 0..asked'
        /\ refused' \subseteq 1..asked'
    BY <1>2, <2>0 DEF LoopNeedsAuth, TypeOK
  <2> QED
    BY <2>0, <2>1, <2>3, <2>4, <2>5 DEF TypeOK
<1>3. CASE LoopEnds(a)
  <2>1. \A g \in {doing[a].goal} : status[g] # "none"
    <3>1. doing[a].goal \in 1..goals /\ goals \in 0..MaxGoals
      BY <1>3, DoingShape DEF LoopEnds, TypeOK
    <3>2. doing[a].goal \in Goals
      BY <3>1, AuthAssumption DEF Goals
    <3> QED
      BY <3>1, <3>2 DEF TypeOK
  <2>2. UNCHANGED <<asked, row, shown, pending, goals, runs, refused, mishaps, fixedVars>>
    BY <1>3 DEF LoopEnds
  <2>3. /\ doing' \in [Actors -> Doings(asked', goals')]
        /\ line' \subseteq Callbacks /\ before' \in [Callbacks -> SUBSET Callbacks]
    <3>1. Rests(a) /\ UNCHANGED <<asked, goals>> /\ asked \in Nat /\ goals \in Nat
      BY <1>3, <2>2 DEF LoopEnds, TypeOK
    <3> QED
      BY <3>1, RestsTyped, DoTyped, DoingMembers
  <2>4. /\ status' \in [Goals -> {"none", "running", "blocked", "over"}]
        /\ waitsFor' \in [Goals -> 0..asked']
        /\ \A g \in Goals : /\ status'[g] = "none" <=> g > goals'
                            /\ status'[g] = "blocked" => waitsFor'[g] # 0
    BY <1>3, <2>1, <2>2, EndGoalsTyped DEF LoopEnds
  <2> QED
    BY <2>2, <2>3, <2>4 DEF TypeOK
<1> QED
  BY <1>1, <1>2, <1>3

(* Only a restart changes what all actors do at once, and it ends all that *)
(* they were doing.                                                        *)
LEMMA TypeStep == TypeOK /\ [Next]_vars => TypeOK'
<1> SUFFICES ASSUME TypeOK, [Next]_vars PROVE TypeOK'
  OBVIOUS
<1>1. CASE Restart
  <2>1. /\ UNCHANGED <<asked, row, shown, goals, runs, refused, fixedVars>>
        /\ mishaps' \in 0..MaxMishaps /\ pending' \in 0..asked'
        /\ line' \subseteq Callbacks /\ before' \in [Callbacks -> SUBSET Callbacks]
    BY <1>1, AuthAssumption DEF Restart, Mishap, historyVars, TypeOK
  <2>2. doing' \in [Actors -> Doings(asked', goals')]
    BY <1>1, <2>1, DoingMembers DEF Restart, TypeOK
  <2>3. EndGoals({g \in Goals : Live(g)}) /\ \A g \in {g \in Goals : Live(g)} : status[g] # "none"
    BY <1>1 DEF Restart, Live
  <2> QED
    BY <2>1, <2>2, <2>3, EndGoalsTyped DEF TypeOK, fixedVars
<1>2. CASE UNCHANGED vars
  BY <1>2 DEF vars, txnVars, goalVars, mutexVars, historyVars, fixedVars, TypeOK
<1> QED
  BY <1>1, <1>2, TurnTyped, GoalTyped, PressTyped, MutexTyped, PurgeTyped, ClickTyped, ActorTyped DEF Next

(* The tables and the actors of a conversation are well formed: requests   *)
(* and goals are numbered without gaps, and a blocked goal knows what for. *)
THEOREM TypeCorrect == Spec => []TypeOK
  BY TypeInit, TypeStep, PTL DEF Spec

-----------------------------------------------------------------------------
(* A refused request                                                       *)

(* A row that was deleted stays so and its tool is not started; and only a *)
(* request whose row goes becomes refused.                                 *)
RowsGoForGood ==
    /\ \A t \in Txns : row[t] = "deleted" => row'[t] = "deleted" /\ runs'[t] = runs[t]
    /\ \A t \in Txns : t \in refused' => t \in refused \/ row'[t] = "deleted"

LEMMA ResumeGoesForGood ==
    ASSUME TypeOK, NEW a, NEW t \in 0..asked, NEW p,
           ResumeApproved(a, t, p) \/ ResumeRejected(t) \/ ToolNotFound(t)
    PROVE  RowsGoForGood
<1>1. t \in Txns /\ row[t] # "deleted"
  BY AuthAssumption DEF ResumeApproved, ResumeRejected, ToolNotFound, Stored, Txns, TypeOK
<1> QED
  BY <1>1 DEF ResumeApproved, ResumeRejected, ToolNotFound, historyVars, RowsGoForGood, TypeOK

LEMMA CreateGoesForGood ==
    ASSUME TypeOK, CreateTransaction, UNCHANGED historyVars
    PROVE  RowsGoForGood
<1>1. asked + 1 \in Txns /\ row[asked + 1] = "unused"
  BY AuthAssumption DEF CreateTransaction, Txns, TypeOK
<1> QED
  BY <1>1 DEF CreateTransaction, historyVars, RowsGoForGood, TypeOK

LEMMA RowsStep == TypeOK /\ [Next]_vars => RowsGoForGood
<1> SUFFICES ASSUME TypeOK, [Next]_vars PROVE RowsGoForGood
  OBVIOUS
<1>1. CASE UNCHANGED <<row, historyVars>>
  BY <1>1 DEF historyVars, RowsGoForGood
<1>2. CASE UNCHANGED <<row, runs, refused>>
  BY <1>2 DEF RowsGoForGood
<1>3. CASE TurnAsks \/ \E a \in Actors : LoopNeedsAuth(a)
  BY <1>3, CreateGoesForGood DEF TurnAsks, LoopNeedsAuth
<1>4. CASE TextAnswersAgent
  <2>1. pending \in 0..asked
    BY DEF TypeOK
  <2> QED
    BY <1>4, <2>1, ResumeGoesForGood DEF TextAnswersAgent
<1>5. ASSUME NEW g \in Goals, TextAnswersGoal(g) PROVE RowsGoForGood
  <2>1. waitsFor[g] \in 0..asked
    BY DEF TypeOK
  <2> QED
    BY <1>1, <1>5, <2>1, ResumeGoesForGood DEF TextAnswersGoal
<1>6. ASSUME NEW c \in Callbacks, Click(c) PROVE RowsGoForGood
  <2> DEFINE t == doing[c].txn
  <2>1. Answer(c, t) /\ t \in 0..asked
    <3>1. asked \in Nat /\ c \in Actors
      BY DEF TypeOK, Actors
    <3> QED
      BY <1>6, <3>1, DoingShape DEF Click, HasMutex
  <2> HIDE DEF t
  <2>2. CASE ClickExpired(c, t)
    BY <2>2, <1>1 DEF ClickExpired
  <2> QED
    BY <2>1, <2>2, ResumeGoesForGood DEF Answer, ClickApproves, ClickRejects, ClickFindsNoTool
<1>7. ASSUME NEW t \in Txns, PurgeExpired(t) PROVE RowsGoForGood
  BY <1>7 DEF PurgeExpired, Stored, historyVars, RowsGoForGood, TypeOK
<1>8. ASSUME NEW a \in Actors, ToolEnds(a) PROVE RowsGoForGood
  BY <1>8 DEF ToolEnds, historyVars, RowsGoForGood, TypeOK
<1>9. CASE TurnOpens \/ TurnRoutes \/ TurnEnds \/ TurnStartsGoal
  BY <1>9, <1>1, <1>2 DEF TurnOpens, TurnRoutes, TurnEnds, TurnStartsGoal, txnVars, historyVars
<1>10. ASSUME NEW g \in Goals, ExpireStale(g) \/ Cancel(g) PROVE RowsGoForGood
  BY <1>10, <1>1 DEF ExpireStale, Cancel, txnVars
<1>11. CASE Restart \/ LineIsForgotten \/ UNCHANGED vars
  BY <1>11, <1>1 DEF Restart, LineIsForgotten, vars, txnVars
<1>12. ASSUME NEW a \in Actors, LoopEnds(a) PROVE RowsGoForGood
  BY <1>12, <1>1 DEF LoopEnds, txnVars
<1>13. ASSUME NEW c \in Callbacks, GivesUp(c) \/ \E t \in Txns : Press(c, t) PROVE RowsGoForGood
  BY <1>13, <1>1 DEF GivesUp, Press, txnVars
<1> QED
  BY <1>3, <1>4, <1>5, <1>6, <1>7, <1>8, <1>9, <1>10, <1>11, <1>12, <1>13 DEF Next

(* ResumeRejected, whatever arrives later by text or by button, in this    *)
(* process or in the next one: the tool of a refused request never starts. *)
THEOREM RefusalHolds == Spec => RefusedNeverRuns
<1> DEFINE Refused == TypeOK /\ RefusedIsGone
<1>1. Init => Refused
  BY TypeInit DEF Init, RefusedIsGone
<1>2. Refused /\ [Next]_vars => Refused'
  <2> SUFFICES ASSUME TypeOK, RefusedIsGone, [Next]_vars PROVE TypeOK' /\ RefusedIsGone'
    OBVIOUS
  <2>1. TypeOK' /\ RowsGoForGood
    BY TypeStep, RowsStep
  <2>2. refused' \subseteq Txns
    BY <2>1, AuthAssumption DEF TypeOK, Txns
  <2> QED
    BY <2>1, <2>2 DEF RowsGoForGood, RefusedIsGone
<1>3. Refused /\ [Next]_vars => [\A t \in refused : runs'[t] = runs[t]]_vars
  <2> SUFFICES ASSUME TypeOK, RefusedIsGone, [Next]_vars,  NEW t \in refused
               PROVE  runs'[t] = runs[t]
    OBVIOUS
  <2>1. t \in Txns
    BY AuthAssumption DEF TypeOK, Txns
  <2> QED
    BY <2>1, RowsStep DEF RowsGoForGood, RefusedIsGone
<1> QED
  BY <1>1, <1>2, <1>3, PTL DEF Spec, RefusedNeverRuns

-----------------------------------------------------------------------------
(* A goal is run by one loop                                               *)

(* Steps that put nobody to run a goal, and change a goal somebody runs    *)
(* only by ending it.                                                      *)
LEMMA NobodyStarts ==
    ASSUME TypeOK, Taken,
           \A a \in Actors : \A g \in Goals : Runs(a, g)' => Runs(a, g),
           \A a \in Actors : \A g \in Goals : Runs(a, g)' =>
               \/ status'[g] = "over"
               \/ status'[g] = status[g] /\ waitsFor'[g] = waitsFor[g]
    PROVE  Taken'
  BY DEF Taken, RunGoalIsTaken, OneLoopPerGoal

(* Only an actor's own step changes what it does.                          *)
LEMMA DoRuns ==
    ASSUME TypeOK, NEW a \in Actors, NEW what, Do(a, what)
    PROVE  /\ doing'[a] = what
           /\ \A b \in Actors : b # a => doing'[b] = doing[b]
  BY DEF Do, TypeOK

LEMMA DoNoLoop ==
    ASSUME TypeOK, NEW a \in Actors, NEW what, Do(a, what), what.at # "loop"
    PROVE  \A b \in Actors : \A g \in Goals : Runs(b, g)' => Runs(b, g)
  BY DoRuns DEF Runs

LEMMA NoLoops ==
    /\ Idle.at # "loop" /\ Opened.at # "loop" /\ Routed.at # "loop" /\ Agent.at # "loop"
    /\ \A t : Pressed(t).at # "loop"
    /\ \A t, p : Tool(t, p).at # "loop"
  BY DEF Idle, Opened, Routed, Agent, Pressed, Tool

(* A goal that somebody takes up is one that nobody runs.                  *)
LEMMA OneStarts ==
    ASSUME TypeOK, Taken, NEW a \in Actors, NEW g \in Goals, NEW kind,
           \A b \in Actors : ~Runs(b, g),
           Do(a, Loop(g, kind)), status'[g] = "running", waitsFor'[g] = 0,
           \A h \in Goals \ {g} :
               \/ status'[h] = "over"
               \/ status'[h] = status[h] /\ waitsFor'[h] = waitsFor[h]
    PROVE  Taken'
<1>1. doing'[a].at = "loop" /\ doing'[a].goal = g
  BY DoRuns DEF Loop
<1>2. \A b \in Actors : \A h \in Goals : h # g /\ Runs(b, h)' => Runs(b, h)
  BY <1>1, DoRuns DEF Runs
<1>3. \A b \in Actors : Runs(b, g)' => b = a
  BY DoRuns DEF Runs
<1> QED
  BY <1>1, <1>2, <1>3 DEF Taken, RunGoalIsTaken, OneLoopPerGoal

(* What ends goals, and what becomes of the others.                        *)
LEMMA EndGoalsEnds ==
    ASSUME TypeOK, NEW which, EndGoals(which)
    PROVE  \A g \in Goals : \/ status'[g] = "over"
                            \/ status'[g] = status[g] /\ waitsFor'[g] = waitsFor[g]
  BY DEF EndGoals

(* A goal that was not created yet waits for nothing.                      *)
Fresh == \A g \in Goals : status[g] = "none" => waitsFor[g] = 0

LEMMA FreshStep == TypeOK /\ Fresh /\ [Next]_vars => Fresh'
<1> SUFFICES ASSUME TypeOK, Fresh, [Next]_vars PROVE Fresh'
  OBVIOUS
<1>1. CASE UNCHANGED <<status, waitsFor>>
  BY <1>1 DEF Fresh
<1>2. ASSUME NEW which, EndGoals(which) PROVE Fresh'
  BY <1>2, EndGoalsEnds DEF Fresh
<1>3. CASE TurnOpens \/ TurnRoutes \/ TurnEnds \/ TurnAsks \/ TextAnswersAgent
  BY <1>1, <1>3 DEF TurnOpens, TurnRoutes, TurnEnds, TurnAsks, TextAnswersAgent, goalVars
<1>4. CASE TurnStartsGoal
  <2>1. \A g \in Goals : status'[g] = "none" => status[g] = "none" /\ waitsFor'[g] = waitsFor[g]
    BY <1>4 DEF TurnStartsGoal, Live, TypeOK
  <2> QED
    BY <2>1 DEF Fresh
<1>5. ASSUME NEW g \in Goals, ExpireStale(g) \/ TextAnswersGoal(g) \/ Cancel(g) PROVE Fresh'
  BY <1>1, <1>2, <1>5 DEF ExpireStale, TextAnswersGoal, Cancel, goalVars
<1>6. ASSUME NEW c \in Callbacks, Click(c) PROVE Fresh'
  BY <1>1, <1>2, <1>6
     DEF Click, Answer, ClickApproves, ClickRejects, ClickExpired, ClickFindsNoTool
<1>10. ASSUME NEW t \in Txns,
              PurgeExpired(t) \/ \E c \in Callbacks : Press(c, t)
       PROVE  Fresh'
  BY <1>1, <1>10 DEF PurgeExpired, Press, goalVars
<1>11. ASSUME LineIsForgotten \/ \E c \in Callbacks : GivesUp(c) PROVE Fresh'
  BY <1>1, <1>11 DEF LineIsForgotten, GivesUp, goalVars
<1>7. ASSUME NEW a \in Actors, ToolEnds(a) PROVE Fresh'
  BY <1>1, <1>7 DEF ToolEnds, Continue, ResumeGoal, WaitingFor, Fresh, TypeOK
<1>8. ASSUME NEW a \in Actors, LoopNeedsAuth(a) PROVE Fresh'
  <2>1. status[doing[a].goal] # "none"
    <3>1. doing[a].goal \in 1..goals /\ goals \in 0..MaxGoals
      BY <1>8, DoingShape DEF LoopNeedsAuth, TypeOK
    <3>2. doing[a].goal \in Goals
      BY <3>1, AuthAssumption DEF Goals
    <3> QED
      BY <3>1, <3>2 DEF TypeOK
  <2> QED
    BY <1>8, <2>1 DEF LoopNeedsAuth, Fresh, TypeOK
<1>9. CASE Restart \/ (\E a \in Actors : LoopEnds(a)) \/ UNCHANGED vars
  BY <1>1, <1>2, <1>9 DEF Restart, LoopEnds, vars, goalVars
<1> QED
  BY <1>3, <1>4, <1>5, <1>6, <1>7, <1>8, <1>9, <1>10, <1>11 DEF Next

LEMMA TakenStep == TypeOK /\ Fresh /\ Taken /\ [Next]_vars => Taken'
<1> SUFFICES ASSUME TypeOK, Fresh, Taken, [Next]_vars PROVE Taken'
  OBVIOUS
<1>0. "turn" \in Actors /\ Callbacks \subseteq Actors
  BY DEF Actors
<1>1. CASE UNCHANGED <<doing, status, waitsFor>>
  BY <1>1, NobodyStarts DEF Runs
<1>2. ASSUME UNCHANGED <<status, waitsFor>>,
             \A a \in Actors : \A g \in Goals : Runs(a, g)' => Runs(a, g)
      PROVE  Taken'
  BY <1>2, NobodyStarts
<1>3. ASSUME NEW which, EndGoals(which),
             \A a \in Actors : \A g \in Goals : Runs(a, g)' => Runs(a, g)
      PROVE  Taken'
  BY <1>3, NobodyStarts, EndGoalsEnds
<1>4. CASE TurnOpens \/ TurnRoutes \/ TurnEnds \/ TurnAsks
  BY <1>0, <1>2, <1>4, DoNoLoop, NoLoops
     DEF TurnOpens, TurnRoutes, TurnEnds, TurnAsks, goalVars
<1>5. CASE TurnStartsGoal
  <2>1. goals' = goals + 1 /\ goals' \in Goals /\ status[goals'] = "none"
    BY <1>5, AuthAssumption DEF TurnStartsGoal, TypeOK, Goals
  <2>2. \A b \in Actors : ~Runs(b, goals')
    BY <2>1 DEF Taken, RunGoalIsTaken
  <2>3. Do("turn", Loop(goals', "first"))
    BY <1>5 DEF TurnStartsGoal
  <2>4. status'[goals'] = "running" /\ waitsFor'[goals'] = 0
    BY <1>5, <2>1 DEF TurnStartsGoal, Fresh, Live
  <2>5. \A h \in Goals \ {goals'} :
            \/ status'[h] = "over"
            \/ status'[h] = status[h] /\ waitsFor'[h] = waitsFor[h]
    BY <1>5 DEF TurnStartsGoal
  <2> QED
    BY <1>0, <2>1, <2>2, <2>3, <2>4, <2>5, OneStarts
<1>6. CASE TextAnswersAgent
  <2>1. CASE UNCHANGED doing
    BY <1>1, <1>6, <2>1 DEF TextAnswersAgent, goalVars
  <2>2. CASE ResumeApproved("turn", pending, "agent") \/ Do("turn", Idle)
    BY <1>0, <1>2, <1>6, <2>2, DoNoLoop, NoLoops DEF TextAnswersAgent, ResumeApproved, goalVars
  <2> QED
    BY <1>6, <2>1, <2>2 DEF TextAnswersAgent
<1>7. ASSUME NEW g \in Goals, TextAnswersGoal(g) PROVE Taken'
  BY <1>0, <1>2, <1>3, <1>7, DoNoLoop, NoLoops DEF TextAnswersGoal, ResumeApproved, goalVars
<1>8. ASSUME NEW g \in Goals, ExpireStale(g) \/ Cancel(g) PROVE Taken'
  BY <1>3, <1>8 DEF ExpireStale, Cancel, Runs
<1>15. ASSUME NEW a \in Actors, Rests(a)
       PROVE  \A b \in Actors : \A g \in Goals : Runs(b, g)' => Runs(b, g)
  BY <1>15, DoNoLoop, NoLoops DEF Rests
<1>9. ASSUME NEW c \in Callbacks, Click(c) PROVE Taken'
  <2> DEFINE t == doing[c].txn
  <2>0. Answer(c, t) /\ UNCHANGED goals
    BY <1>9 DEF Click
  <2> HIDE DEF t
  <2>1. CASE ClickExpired(c, t) \/ ClickFindsNoTool(c, t)
    BY <1>0, <1>2, <1>15, <2>1 DEF ClickExpired, ClickFindsNoTool
  <2>2. CASE ClickApproves(c, t)
    BY <1>0, <1>2, <2>2, DoNoLoop, NoLoops DEF ClickApproves, ResumeApproved
  <2>3. CASE ClickRejects(c, t)
    BY <1>0, <1>3, <1>15, <2>3 DEF ClickRejects
  <2> QED
    BY <2>0, <2>1, <2>2, <2>3 DEF Answer
<1>16. ASSUME NEW t \in Txns, PurgeExpired(t) PROVE Taken'
  BY <1>1, <1>16 DEF PurgeExpired, goalVars
<1>17. ASSUME NEW c \in Callbacks, GivesUp(c) \/ \E t \in Txns : Press(c, t) PROVE Taken'
  BY <1>0, <1>2, <1>15, <1>17, DoNoLoop, NoLoops DEF GivesUp, Press, goalVars
<1>18. CASE LineIsForgotten
  BY <1>1, <1>18 DEF LineIsForgotten, goalVars
<1>10. ASSUME NEW a \in Actors, ToolEnds(a) PROVE Taken'
  <2>1. doing[a].txn # 0
    <3>1. doing[a].txn \in 1..asked
      BY <1>10, DoingShape DEF ToolEnds
    <3> QED
      BY <3>1
  <2>2. ASSUME NEW g \in WaitingFor(doing[a].txn), ResumeGoal(a, g) PROVE Taken'
    <3>1. g \in Goals /\ Live(g) /\ waitsFor[g] # 0
      BY <2>1 DEF WaitingFor
    <3>2. \A b \in Actors : ~Runs(b, g)
      BY <3>1 DEF Taken, RunGoalIsTaken, Live
    <3>3. status'[g] = "running" /\ waitsFor'[g] = 0
      BY <2>2, <3>1 DEF ResumeGoal, TypeOK
    <3>4. \A h \in Goals \ {g} : status'[h] = status[h] /\ waitsFor'[h] = waitsFor[h]
      BY <2>2, <3>1 DEF ResumeGoal, TypeOK
    <3> QED
      BY <2>2, <3>1, <3>2, <3>3, <3>4, OneStarts DEF ResumeGoal
  <2>3. CASE Rests(a) /\ UNCHANGED <<status, waitsFor>>
    BY <1>2, <1>15, <2>3
  <2> QED
    BY <1>10, <2>2, <2>3 DEF ToolEnds, Continue
<1>11. ASSUME NEW a \in Actors, LoopNeedsAuth(a) PROVE Taken'
  <2>1. Do(a, Idle) /\ Runs(a, doing[a].goal) /\ doing[a].goal \in Goals
    <3>1. doing[a].goal \in 1..goals /\ goals \in 0..MaxGoals /\ MaxGoals \in Nat
      BY <1>11, DoingShape, AuthAssumption DEF LoopNeedsAuth, TypeOK
    <3> QED
      BY <1>11, <3>1 DEF LoopNeedsAuth, Rests, Runs, Goals
  <2>2. \A b \in Actors : \A g \in Goals : Runs(b, g)' => Runs(b, g) /\ b # a
    BY <2>1, DoRuns, NoLoops, DoNoLoop DEF Runs
  <2>3. \A b \in Actors : \A g \in Goals : Runs(b, g)' => g # doing[a].goal
    BY <2>1, <2>2 DEF Taken, OneLoopPerGoal
  <2>4. \A g \in Goals : g # doing[a].goal =>
            status'[g] = status[g] /\ waitsFor'[g] = waitsFor[g]
    BY <1>11 DEF LoopNeedsAuth, TypeOK
  <2> QED
    BY <2>2, <2>3, <2>4, NobodyStarts
<1>12. ASSUME NEW a \in Actors, LoopEnds(a) PROVE Taken'
  BY <1>3, <1>12, <1>15 DEF LoopEnds
<1>13. CASE Restart
  <2>1. \A a \in Actors : \A g \in Goals : ~Runs(a, g)'
    BY <1>13, NoLoops DEF Restart, Runs
  <2> QED
    BY <1>3, <1>13, <2>1 DEF Restart
<1>14. CASE UNCHANGED vars
  BY <1>1, <1>14 DEF vars, goalVars
<1> QED
  BY <1>4, <1>5, <1>6, <1>7, <1>8, <1>9, <1>10, <1>11, <1>12, <1>13, <1>14,
     <1>16, <1>17, <1>18 DEF Next

(* ResumeGoal: even when a text and a button have both approved a request, *)
(* the goal that waits for it is taken up once: whoever comes second finds *)
(* no goal by the request, and no goal is run by two loops.                *)
THEOREM OneLoop == Spec => []OneLoopPerGoal
<1>1. Init => Taken /\ Fresh
  BY NoLoops DEF Init, Fresh, Taken, RunGoalIsTaken, OneLoopPerGoal, Runs
<1>2. Taken => OneLoopPerGoal
  BY DEF Taken
<1> QED
  BY <1>1, <1>2, TypeInit, TypeStep, FreshStep, TakenStep, PTL DEF Spec

-----------------------------------------------------------------------------
(* Answers by buttons only                                                 *)

(* No two goals wait for the same request.                                 *)
OneWaits ==
    \A g, h \in Goals : waitsFor[g] = waitsFor[h] /\ waitsFor[g] # 0 => g = h

(* Only a callback runs a tool, and it looks for a goal afterwards.        *)
ClicksRunTools ==
    buttonsOnly => /\ doing["turn"].at # "tool"
                   /\ \A c \in Callbacks : doing[c].at = "tool" => doing[c].path = "goal"

(* The row of a request that somebody still waits for was not deleted.     *)
PendingIsThere == buttonsOnly /\ pending # 0 => row[pending] # "deleted"
WaitedIsThere ==
    buttonsOnly => \A g \in Goals : status[g] = "blocked" => row[waitsFor[g]] # "deleted"

LEMMA OneWaitsStep == TypeOK /\ OneWaits /\ [Next]_vars => OneWaits'
<1> SUFFICES ASSUME TypeOK, OneWaits, [Next]_vars PROVE OneWaits'
  OBVIOUS
<1>1. ASSUME \A g \in Goals : waitsFor'[g] \in {0, waitsFor[g]} PROVE OneWaits'
  BY <1>1 DEF OneWaits
<1>2. CASE UNCHANGED waitsFor
  BY <1>2 DEF OneWaits
<1>3. ASSUME NEW which, EndGoals(which) PROVE OneWaits'
  BY <1>1, <1>3 DEF EndGoals
<1>4. CASE TurnOpens \/ TurnRoutes \/ TurnEnds \/ TurnAsks \/ TextAnswersAgent
  BY <1>2, <1>4 DEF TurnOpens, TurnRoutes, TurnEnds, TurnAsks, TextAnswersAgent, goalVars
<1>5. CASE TurnStartsGoal
  BY <1>1, <1>5 DEF TurnStartsGoal
<1>6. ASSUME NEW g \in Goals, ExpireStale(g) \/ TextAnswersGoal(g) \/ Cancel(g) PROVE OneWaits'
  BY <1>2, <1>3, <1>6 DEF ExpireStale, TextAnswersGoal, Cancel, goalVars
<1>7. ASSUME NEW c \in Callbacks, Click(c) PROVE OneWaits'
  BY <1>2, <1>3, <1>7
     DEF Click, Answer, ClickApproves, ClickRejects, ClickExpired, ClickFindsNoTool
<1>11. ASSUME NEW t \in Txns, PurgeExpired(t) \/ \E c \in Callbacks : Press(c, t)
       PROVE  OneWaits'
  BY <1>2, <1>11 DEF PurgeExpired, Press, goalVars
<1>12. ASSUME LineIsForgotten \/ \E c \in Callbacks : GivesUp(c) PROVE OneWaits'
  BY <1>2, <1>12 DEF LineIsForgotten, GivesUp, goalVars
<1>8. ASSUME NEW a \in Actors, ToolEnds(a) PROVE OneWaits'
  <2>1. CASE \E g \in WaitingFor(doing[a].txn) : ResumeGoal(a, g)
    BY <1>1, <2>1 DEF ResumeGoal, TypeOK
  <2> QED
    BY <1>2, <1>8, <2>1 DEF ToolEnds, Continue
<1>9. ASSUME NEW a \in Actors, LoopNeedsAuth(a) PROVE OneWaits'
  <2> DEFINE r == doing[a].goal
  <2>1. asked' = asked + 1 /\ asked \in Nat
    BY <1>9, AuthAssumption DEF LoopNeedsAuth, CreateTransaction, TypeOK
  <2>2. \A g \in Goals : /\ waitsFor[g] \in 0..asked
                         /\ waitsFor'[g] = IF g = r THEN asked' ELSE waitsFor[g]
    BY <1>9 DEF LoopNeedsAuth, TypeOK
  <2>3. \A g \in Goals : waitsFor[g] # asked'
    BY <2>1, <2>2
  <2> HIDE DEF r
  <2> QED
    BY <2>2, <2>3 DEF OneWaits
<1>10. CASE Restart \/ (\E a \in Actors : LoopEnds(a)) \/ UNCHANGED vars
  BY <1>2, <1>3, <1>10 DEF Restart, LoopEnds, vars, goalVars
<1> QED
  BY <1>4, <1>5, <1>6, <1>7, <1>8, <1>9, <1>10, <1>11, <1>12 DEF Next

LEMMA Fixed == [Next]_vars => UNCHANGED <<buttonsOnly, patient>>
  BY DEF Next, TurnOpens, TurnRoutes, TurnEnds, TurnAsks, TurnStartsGoal,
         TextAnswersAgent, ExpireStale, TextAnswersGoal, Cancel, Click, PurgeExpired,
         ToolEnds, LoopNeedsAuth, LoopEnds, Press, GivesUp, LineIsForgotten, Restart,
         fixedVars, vars

LEMMA ClicksStep == TypeOK /\ ClicksRunTools /\ [Next]_vars => ClicksRunTools'
<1> SUFFICES ASSUME TypeOK, ClicksRunTools, [Next]_vars, buttonsOnly, buttonsOnly'
             PROVE  ClicksRunTools'
  BY Fixed DEF ClicksRunTools
<1>0. "turn" \in Actors /\ "turn" \notin Callbacks /\ Callbacks \subseteq Actors
  BY AuthAssumption DEF Actors
<1>1. CASE UNCHANGED doing
  BY <1>1 DEF ClicksRunTools
<1>2. ASSUME NEW a \in Actors, NEW what, Do(a, what), what.at # "tool"
      PROVE  ClicksRunTools'
  BY <1>2, DoRuns, <1>0 DEF ClicksRunTools, Actors
<1>3. CASE TurnOpens \/ TurnRoutes \/ TurnEnds \/ TurnAsks
  BY <1>0, <1>2, <1>3 DEF TurnOpens, TurnRoutes, TurnEnds, TurnAsks, Idle, Opened, Routed
<1>4. CASE TurnStartsGoal
  BY <1>0, <1>2, <1>4 DEF TurnStartsGoal, Loop
<1>5. ASSUME NEW g \in Goals, ExpireStale(g) \/ TextAnswersGoal(g) \/ Cancel(g)
      PROVE  ClicksRunTools'
  BY <1>1, <1>5 DEF ExpireStale, TextAnswersGoal, Cancel
<1>10. ASSUME NEW a \in Actors, Rests(a) PROVE ClicksRunTools'
  BY <1>2, <1>10 DEF Rests, Idle
<1>6. ASSUME NEW c \in Callbacks, Click(c) PROVE ClicksRunTools'
  <2>1. ASSUME NEW t, ClickApproves(c, t) PROVE ClicksRunTools'
    <3>1. Do(c, Tool(t, "goal"))
      BY <2>1 DEF ClickApproves, ResumeApproved
    <3> QED
      BY <1>0, <3>1, DoRuns DEF ClicksRunTools, Tool
  <2> QED
    BY <1>0, <1>6, <1>10, <2>1 DEF Click, Answer, ClickRejects, ClickExpired, ClickFindsNoTool
<1>7. ASSUME NEW t \in Txns, PurgeExpired(t) PROVE ClicksRunTools'
  BY <1>1, <1>7 DEF PurgeExpired
<1>8. ASSUME NEW a \in Actors, ToolEnds(a) \/ LoopNeedsAuth(a) \/ LoopEnds(a)
      PROVE  ClicksRunTools'
  BY <1>2, <1>8, <1>10 DEF ToolEnds, Continue, ResumeGoal, LoopNeedsAuth, LoopEnds, Loop
<1>9. CASE TextAnswersAgent \/ Restart \/ LineIsForgotten \/ UNCHANGED vars
  BY <1>1, <1>9 DEF TextAnswersAgent, Restart, LineIsForgotten, vars
<1>11. ASSUME NEW c \in Callbacks, GivesUp(c) PROVE ClicksRunTools'
  BY <1>0, <1>10, <1>11 DEF GivesUp
<1>12. ASSUME NEW c \in Callbacks, NEW t \in Txns, Press(c, t) PROVE ClicksRunTools'
  BY <1>0, <1>2, <1>12 DEF Press, Pressed
<1> QED
  BY <1>3, <1>4, <1>5, <1>6, <1>7, <1>8, <1>9, <1>11, <1>12 DEF Next

(* Steps that delete no row, and remember or wait for nothing but what was *)
(* there and the request just made.                                        *)
LEMMA NothingGoes ==
    ASSUME TypeOK, PendingIsThere, WaitedIsThere, UNCHANGED buttonsOnly,
           \A t \in Txns : row'[t] = "deleted" => row[t] = "deleted",
           \/ pending' \in {0, pending}
           \/ row'[pending'] = "pending",
           \A g \in Goals : \/ status'[g] # "blocked"
                            \/ status'[g] = status[g] /\ waitsFor'[g] = waitsFor[g]
                            \/ row'[waitsFor'[g]] = "pending"
    PROVE  PendingIsThere' /\ WaitedIsThere'
<1>1. pending \in 0..MaxTxns /\ (pending # 0 => pending \in Txns)
  BY AuthAssumption DEF TypeOK, Txns
<1>2. \A g \in Goals : status[g] = "blocked" => waitsFor[g] \in Txns
  BY AuthAssumption DEF TypeOK, Txns
<1>3. PendingIsThere'
  BY <1>1 DEF PendingIsThere
<1>4. WaitedIsThere'
  BY <1>2 DEF WaitedIsThere
<1> QED
  BY <1>3, <1>4

(* A request that is answered takes with it who remembers or waits for it. *)
LEMMA OneGoes ==
    ASSUME TypeOK, PendingIsThere, WaitedIsThere, UNCHANGED buttonsOnly, NEW t \in Txns,
           row' = [row EXCEPT ![t] = "deleted"],
           pending' \in {0, pending}, pending' # t,
           \A g \in Goals : \/ status'[g] # "blocked"
                            \/ /\ status'[g] = status[g] /\ waitsFor'[g] = waitsFor[g]
                               /\ waitsFor[g] # t
    PROVE  PendingIsThere' /\ WaitedIsThere'
<1>1. pending # 0 => pending \in Txns
  BY AuthAssumption DEF TypeOK, Txns
<1>2. \A g \in Goals : status[g] = "blocked" => waitsFor[g] \in Txns
  BY AuthAssumption DEF TypeOK, Txns
<1>3. \A u \in Txns : u # t => row'[u] = row[u]
  BY DEF TypeOK
<1>4. PendingIsThere'
  BY <1>1, <1>3 DEF PendingIsThere
<1>5. WaitedIsThere'
  BY <1>2, <1>3 DEF WaitedIsThere
<1> QED
  BY <1>4, <1>5

LEMMA ThereStep ==
    /\ TypeOK /\ ClicksRunTools /\ OneWaits /\ PendingIsThere /\ WaitedIsThere
    /\ [Next]_vars
    => PendingIsThere' /\ WaitedIsThere'
<1> SUFFICES ASSUME TypeOK, ClicksRunTools, OneWaits, PendingIsThere, WaitedIsThere,
                    [Next]_vars, buttonsOnly, UNCHANGED buttonsOnly
             PROVE  PendingIsThere' /\ WaitedIsThere'
  BY Fixed DEF PendingIsThere, WaitedIsThere
<1>0. "turn" \notin Callbacks /\ Callbacks \subseteq Actors
  BY AuthAssumption DEF Actors
<1>1. ASSUME UNCHANGED row, pending' \in {0, pending},
             \A g \in Goals : \/ status'[g] # "blocked"
                              \/ status'[g] = status[g] /\ waitsFor'[g] = waitsFor[g]
      PROVE  PendingIsThere' /\ WaitedIsThere'
  BY <1>1, NothingGoes
<1>2. ASSUME NEW which, EndGoals(which), UNCHANGED <<row, pending>>
      PROVE  PendingIsThere' /\ WaitedIsThere'
  BY <1>1, <1>2, EndGoalsEnds
<1>3. CASE TurnOpens \/ TurnRoutes \/ TurnEnds
  BY <1>1, <1>3 DEF TurnOpens, TurnRoutes, TurnEnds, txnVars, goalVars
<1>4. ASSUME CreateTransaction
      PROVE  /\ \A t \in Txns : row'[t] = "deleted" => row[t] = "deleted"
             /\ row'[asked'] = "pending"
  <2>1. asked + 1 \in Txns
    BY <1>4, AuthAssumption DEF CreateTransaction, TypeOK, Txns
  <2> QED
    BY <1>4, <2>1 DEF CreateTransaction, TypeOK
<1>5. CASE TurnAsks
  BY <1>4, <1>5, NothingGoes DEF TurnAsks, goalVars
<1>6. CASE TurnStartsGoal
  <2>1. \A g \in Goals : \/ status'[g] # "blocked"
                         \/ status'[g] = status[g] /\ waitsFor'[g] = waitsFor[g]
    BY <1>6 DEF TurnStartsGoal, Live, TypeOK
  <2> QED
    BY <1>1, <1>6, <2>1 DEF TurnStartsGoal, txnVars
<1>7. ASSUME NEW g \in Goals, ExpireStale(g) \/ TextAnswersGoal(g) \/ Cancel(g)
      PROVE  PendingIsThere' /\ WaitedIsThere'
  BY <1>2, <1>7 DEF ExpireStale, TextAnswersGoal, Cancel, txnVars
<1>8. ASSUME NEW c \in Callbacks, Click(c) PROVE PendingIsThere' /\ WaitedIsThere'
  <2> DEFINE t == doing[c].txn
  <2>0. Answer(c, t) /\ t \in Txns /\ t # 0
    <3>1. asked \in 0..MaxTxns
      BY DEF TypeOK
    <3> QED
      BY <1>0, <1>8, <3>1, DoingShape, AuthAssumption DEF Click, HasMutex, Txns
  <2> HIDE DEF t
  <2>1. CASE ClickApproves(c, t)
    <3>1. \A u \in Txns : row'[u] = "deleted" => row[u] = "deleted"
      BY <2>1 DEF ClickApproves, ResumeApproved, TypeOK
    <3> QED
      BY <2>1, <3>1, NothingGoes DEF ClickApproves
  <2>2. CASE ClickRejects(c, t)
    <3>1. \A g \in Goals : \/ status'[g] # "blocked"
                           \/ /\ status'[g] = status[g] /\ waitsFor'[g] = waitsFor[g]
                              /\ waitsFor[g] # t
      BY <2>2 DEF ClickRejects, EndGoals, WaitingFor, Live
    <3>2. pending' \in {0, pending} /\ pending' # t
      BY <2>0, <2>2 DEF ClickRejects, Forget
    <3> QED
      BY <2>0, <2>2, <3>1, <3>2, OneGoes DEF ClickRejects, ResumeRejected
  <2>3. CASE ClickExpired(c, t)
    BY <1>1, <2>3 DEF ClickExpired, Forget
  <2> QED
    BY <2>0, <2>1, <2>2, <2>3 DEF Answer, ClickFindsNoTool, ToolNotFound
<1>9. ASSUME NEW t \in Txns, PurgeExpired(t) PROVE PendingIsThere' /\ WaitedIsThere'
  <2>1. \A u \in Txns : row'[u] = "deleted" => row[u] = "deleted"
    BY <1>9 DEF PurgeExpired, TypeOK
  <2> QED
    BY <1>9, <2>1, NothingGoes DEF PurgeExpired, goalVars
<1>10. ASSUME NEW a \in Actors, ToolEnds(a) PROVE PendingIsThere' /\ WaitedIsThere'
  <2> DEFINE t == doing[a].txn
  <2>1. a \in Callbacks /\ a # "turn" /\ doing[a].path = "goal"
    BY <1>0, <1>10 DEF ClicksRunTools, Actors, ToolEnds
  <2>2. t \in Txns /\ t # 0
    <3>1. asked \in 0..MaxTxns
      BY DEF TypeOK
    <3> QED
      BY <1>10, <3>1, DoingShape, AuthAssumption DEF ToolEnds, Txns
  <2>3. row' = [row EXCEPT ![t] = "deleted"]
    BY <1>10 DEF ToolEnds
  <2>4. pending' \in {0, pending} /\ pending' # t
    BY <1>10, <2>1, <2>2 DEF ToolEnds, Continue, Forget
  <2>5. \A g \in Goals : \/ status'[g] # "blocked"
                         \/ /\ status'[g] = status[g] /\ waitsFor'[g] = waitsFor[g]
                            /\ waitsFor[g] # t
    <3>1. CASE WaitingFor(t) = {} /\ UNCHANGED <<status, waitsFor>>
      BY <3>1 DEF WaitingFor, Live
    <3>2. CASE \E g \in WaitingFor(t) : ResumeGoal(a, g)
      <4>1. PICK h \in WaitingFor(t) : ResumeGoal(a, h)
        BY <3>2
      <4>2. h \in Goals /\ waitsFor[h] = t
        BY <4>1 DEF WaitingFor
      <4>3. status'[h] = "running"
        BY <4>1, <4>2 DEF ResumeGoal, TypeOK
      <4>4. \A g \in Goals \ {h} : status'[g] = status[g] /\ waitsFor'[g] = waitsFor[g]
        BY <4>1, <4>2 DEF ResumeGoal, TypeOK
      <4>5. \A g \in Goals \ {h} : waitsFor[g] # t
        BY <2>2, <4>2 DEF OneWaits
      <4> QED
        BY <4>3, <4>4, <4>5
    <3> QED
      BY <1>10, <2>1, <3>1, <3>2 DEF ToolEnds, Continue
  <2> QED
    BY <2>2, <2>3, <2>4, <2>5, OneGoes
<1>11. ASSUME NEW a \in Actors, LoopNeedsAuth(a) PROVE PendingIsThere' /\ WaitedIsThere'
  <2>1. \/ pending' = pending
        \/ row'[pending'] = "pending"
    BY <1>4, <1>11 DEF LoopNeedsAuth
  <2>2. \A g \in Goals : \/ status'[g] = status[g] /\ waitsFor'[g] = waitsFor[g]
                         \/ row'[waitsFor'[g]] = "pending"
    BY <1>4, <1>11 DEF LoopNeedsAuth, TypeOK
  <2> QED
    BY <1>4, <1>11, <2>1, <2>2, NothingGoes DEF LoopNeedsAuth
<1>12. ASSUME NEW a \in Actors, LoopEnds(a) PROVE PendingIsThere' /\ WaitedIsThere'
  BY <1>2, <1>12 DEF LoopEnds, txnVars
<1>13. CASE TextAnswersAgent \/ Restart \/ UNCHANGED vars
  BY <1>1, <1>13 DEF TextAnswersAgent, Restart, vars, txnVars, goalVars
<1>14. ASSUME LineIsForgotten \/ \E c \in Callbacks : GivesUp(c) \/ \E t \in Txns : Press(c, t)
       PROVE  PendingIsThere' /\ WaitedIsThere'
  BY <1>1, <1>14 DEF LineIsForgotten, GivesUp, Press, txnVars, goalVars
<1> QED
  BY <1>3, <1>5, <1>6, <1>7, <1>8, <1>9, <1>10, <1>11, <1>12, <1>13, <1>14 DEF Next

ByButtons ==
    TypeOK /\ ClicksRunTools /\ OneWaits /\ PendingIsThere /\ WaitedIsThere

LEMMA ByButtonsInit == Init => ByButtons
<1> SUFFICES ASSUME Init PROVE ByButtons
  OBVIOUS
<1>1. \A a \in Actors : doing[a].at # "tool"
  BY DEF Init, Idle
<1>2. "turn" \in Actors /\ Callbacks \subseteq Actors
  BY DEF Actors
<1> QED
  BY <1>1, <1>2, TypeInit
     DEF Init, ByButtons, ClicksRunTools, OneWaits, PendingIsThere, WaitedIsThere

LEMMA ByButtonsStep == ByButtons /\ [Next]_vars => ByButtons'
  BY TypeStep, ClicksStep, OneWaitsStep, ThereStep DEF ByButtons

(* esquecerAutorizacao: whatever is answered by a button, AgentLoop does   *)
(* not go on remembering it, so that a later yes is no answer to it.       *)
THEOREM PendencyIsOpen == Spec => []PendingIsOpen
<1>1. ByButtons => PendingIsOpen
  <2> SUFFICES ASSUME ByButtons, buttonsOnly, pending # 0
               PROVE  Stored(pending) \/ row[pending] = "purged"
    BY DEF PendingIsOpen
  <2>1. pending \in 1..asked /\ pending \in Txns /\ ~(pending > asked)
    BY AuthAssumption DEF ByButtons, TypeOK, Txns
  <2> QED
    BY <2>1 DEF ByButtons, PendingIsThere, TypeOK, Stored
<1> QED
  BY <1>1, ByButtonsInit, ByButtonsStep, PTL DEF Spec

(* getByTxnId: where buttons answer, a goal that waits is found by its     *)
(* request, which is still stored or was purged by its age; no answer      *)
(* leaves a goal behind whose request is gone.                             *)
THEOREM WaitingIsAnswerable == Spec => []WaitingGoalHasRequest
<1>1. ByButtons => WaitingGoalHasRequest
  <2> SUFFICES ASSUME ByButtons, buttonsOnly, NEW g \in Goals, status[g] = "blocked"
               PROVE  \/ Stored(waitsFor[g])
                      \/ waitsFor[g] # 0 /\ row[waitsFor[g]] = "purged"
    BY DEF WaitingGoalHasRequest
  <2>1. waitsFor[g] \in 0..asked /\ waitsFor[g] # 0
    BY DEF ByButtons, TypeOK
  <2>2. waitsFor[g] \in Txns /\ ~(waitsFor[g] > asked)
    BY <2>1, AuthAssumption DEF ByButtons, TypeOK, Txns
  <2> QED
    BY <2>1, <2>2 DEF ByButtons, WaitedIsThere, TypeOK, Stored
<1> QED
  BY <1>1, ByButtonsInit, ByButtonsStep, PTL DEF Spec

-----------------------------------------------------------------------------
(* A request is one unit: the mutex of the session                         *)

(* Whoever pressed a button stands in the line until it rests; of two in   *)
(* it one waits for the other, and whoever works waits for nobody.         *)
InLine ==
    patient =>
        /\ \A c \in Callbacks : c \in line <=> doing[c].at # "idle"
        /\ \A c \in Callbacks : before[c] \subseteq line /\ c \notin before[c]
        /\ \A c \in Callbacks : doing[c].at # "pressed" => before[c] = {}
        /\ \A c, d \in line : c = d \/ c \in before[d] \/ d \in before[c]

(* A request is carried out at most once, and its row says so meanwhile.   *)
RunsOnce ==
    patient => \A t \in Txns :
        /\ row[t] \in {"unused", "pending"} => runs[t] = 0
        /\ row[t] = "executing" => Running(t)
        /\ runs[t] <= 1

(* So two that wait for nobody are one.                                    *)
LEMMA OneWorks ==
    ASSUME TypeOK, InLine, patient, NEW c \in Callbacks, NEW d \in Callbacks,
           doing[c].at # "idle", doing[d].at # "idle", before[c] = {}, before[d] = {}
    PROVE  c = d
  BY DEF InLine

LEMMA LineKept ==
    ASSUME TypeOK, InLine, UNCHANGED <<mutexVars, patient>>,
           \A c \in Callbacks : /\ doing'[c].at = "idle" <=> doing[c].at = "idle"
                                /\ doing'[c].at # "pressed" =>
                                       doing[c].at # "pressed" \/ before[c] = {}
    PROVE  InLine'
  BY DEF InLine, mutexVars

LEMMA LineLeft ==
    ASSUME TypeOK, InLine, UNCHANGED patient, NEW c \in Callbacks,
           before[c] = {}, doing[c].at # "idle", Rests(c)
    PROVE  InLine'
<1> SUFFICES ASSUME patient PROVE InLine'
  BY DEF InLine
<1>1. c \in Actors /\ c # "turn"
  BY AuthAssumption DEF Actors
<1>2. doing'[c].at = "idle" /\ \A d \in Callbacks : d # c => doing'[d] = doing[d]
  BY <1>1, DoRuns DEF Rests, Idle, Actors
<1>3. /\ line' = line \ {c}
      /\ \A d \in Callbacks : before'[d] = IF d = c THEN {} ELSE before[d] \ {c}
  BY <1>1 DEF Rests, Resolves, InLine
<1>4. \A d \in Callbacks : d \in line' <=> doing'[d].at # "idle"
  BY <1>2, <1>3 DEF InLine
<1>5. /\ \A d \in Callbacks : before'[d] \subseteq line' /\ d \notin before'[d]
      /\ \A d \in Callbacks : doing'[d].at # "pressed" => before'[d] = {}
  <2> SUFFICES ASSUME NEW d \in Callbacks
               PROVE  /\ before'[d] \subseteq line' /\ d \notin before'[d]
                      /\ doing'[d].at # "pressed" => before'[d] = {}
    OBVIOUS
  <2>1. CASE d = c
    BY <1>3, <2>1
  <2>2. CASE d # c
    <3>1. /\ before[d] \subseteq line /\ d \notin before[d]
          /\ doing[d].at # "pressed" => before[d] = {}
      BY DEF InLine
    <3>2. before'[d] = before[d] \ {c} /\ doing'[d] = doing[d]
      BY <1>2, <1>3, <2>2
    <3> QED
      BY <1>3, <3>1, <3>2
  <2> QED
    BY <2>1, <2>2
<1>6. \A d, e \in line' : d = e \/ d \in before'[e] \/ e \in before'[d]
  <2> SUFFICES ASSUME NEW d \in line', NEW e \in line', d # e
               PROVE  d \in before'[e] \/ e \in before'[d]
    OBVIOUS
  <2>1. d \in line /\ d # c /\ e \in line /\ e # c /\ d \in Callbacks /\ e \in Callbacks
    BY <1>3 DEF TypeOK
  <2>2. d \in before[e] \/ e \in before[d]
    BY <2>1 DEF InLine
  <2> QED
    BY <1>3, <2>1, <2>2
<1> QED
  BY <1>4, <1>5, <1>6 DEF InLine

LEMMA LineStep == TypeOK /\ InLine /\ [Next]_vars => InLine'
<1> SUFFICES ASSUME TypeOK, InLine, [Next]_vars, patient, UNCHANGED <<buttonsOnly, patient>>
             PROVE  InLine'
  BY Fixed DEF InLine
<1>0. "turn" \notin Callbacks /\ "turn" \in Actors /\ Callbacks \subseteq Actors /\ buttonsOnly
  BY AuthAssumption DEF Actors, TypeOK
<1>1. CASE UNCHANGED <<doing, mutexVars>>
  BY <1>1, LineKept
<1>2. ASSUME NEW what, Do("turn", what), UNCHANGED mutexVars PROVE InLine'
  <2>1. \A c \in Callbacks : doing'[c] = doing[c]
    BY <1>0, <1>2, DoRuns
  <2> QED
    BY <1>2, <2>1, LineKept
<1>3. ASSUME NEW a \in Actors, doing[a].at \in {"tool", "loop"}, Rests(a) PROVE InLine'
  <2>1. CASE a = "turn"
    BY <1>2, <1>3, <2>1 DEF Rests
  <2>2. CASE a # "turn"
    <3>1. a \in Callbacks /\ before[a] = {}
      BY <1>3, <2>2 DEF Actors, InLine
    <3> QED
      BY <1>3, <3>1, LineLeft
  <2> QED
    BY <2>1, <2>2
<1>4. CASE TurnOpens \/ TurnRoutes \/ TurnEnds \/ TurnAsks \/ TurnStartsGoal
  BY <1>2, <1>4 DEF TurnOpens, TurnRoutes, TurnEnds, TurnAsks, TurnStartsGoal
<1>5. ASSUME NEW g \in Goals, ExpireStale(g) \/ TextAnswersGoal(g) \/ Cancel(g) PROVE InLine'
  BY <1>0, <1>1, <1>5 DEF ExpireStale, TextAnswersGoal, Cancel
<1>6. ASSUME NEW t \in Txns, PurgeExpired(t) PROVE InLine'
  BY <1>1, <1>6 DEF PurgeExpired
<1>7. ASSUME NEW c \in Callbacks, NEW t \in Txns, Press(c, t) PROVE InLine'
  <2>1. doing[c].at = "idle" /\ c \in Actors
    BY <1>0, <1>7 DEF Press, Idle
  <2>2. doing'[c].at = "pressed" /\ \A d \in Callbacks : d # c => doing'[d] = doing[d]
    BY <1>0, <1>7, DoRuns DEF Press, Pressed
  <2>3. /\ line' = line \union {c}
        /\ \A d \in Callbacks : before'[d] = IF d = c THEN line ELSE before[d]
    BY <1>7 DEF Press, TypeOK
  <2>4. c \notin line
    BY <2>1 DEF InLine
  <2>5. \A d \in Callbacks : d \in line' <=> doing'[d].at # "idle"
    BY <2>2, <2>3 DEF InLine
  <2>6. /\ \A d \in Callbacks : before'[d] \subseteq line' /\ d \notin before'[d]
        /\ \A d \in Callbacks : doing'[d].at # "pressed" => before'[d] = {}
    BY <2>2, <2>3, <2>4 DEF InLine
  <2>7. \A d, e \in line' : d = e \/ d \in before'[e] \/ e \in before'[d]
    <3> SUFFICES ASSUME NEW d \in line', NEW e \in line', d # e
                 PROVE  d \in before'[e] \/ e \in before'[d]
      OBVIOUS
    <3>1. d \in Callbacks /\ e \in Callbacks
      BY <2>3 DEF TypeOK
    <3>2. CASE d = c \/ e = c
      BY <2>3, <3>1, <3>2
    <3>3. CASE d # c /\ e # c
      <4>1. d \in before[e] \/ e \in before[d]
        BY <2>3, <3>3 DEF InLine
      <4> QED
        BY <2>3, <3>1, <3>3, <4>1
    <3> QED
      BY <3>2, <3>3
  <2> QED
    BY <2>5, <2>6, <2>7 DEF InLine
<1>8. ASSUME NEW c \in Callbacks, Click(c) PROVE InLine'
  <2>1. doing[c].at = "pressed" /\ before[c] = {} /\ c \in Actors
    BY <1>0, <1>8 DEF Click, HasMutex
  <2>2. CASE Rests(c)
    BY <2>1, <2>2, LineLeft
  <2>3. ASSUME NEW t, ClickApproves(c, t) PROVE InLine'
    <3>1. Do(c, Tool(t, "goal")) /\ UNCHANGED mutexVars
      BY <2>3 DEF ClickApproves, ResumeApproved
    <3>2. doing'[c].at = "tool" /\ \A d \in Callbacks : d # c => doing'[d] = doing[d]
      BY <1>0, <2>1, <3>1, DoRuns DEF Tool
    <3> QED
      BY <2>1, <3>1, <3>2, LineKept
  <2> QED
    BY <1>8, <2>2, <2>3 DEF Click, Answer, ClickRejects, ClickExpired, ClickFindsNoTool
<1>9. ASSUME NEW a \in Actors, ToolEnds(a) PROVE InLine'
  <2>1. CASE Rests(a)
    BY <1>3, <1>9, <2>1 DEF ToolEnds
  <2>2. ASSUME NEW g, ResumeGoal(a, g) PROVE InLine'
    <3>1. Do(a, Loop(g, "resumed")) /\ UNCHANGED mutexVars /\ doing[a].at = "tool"
      BY <1>9, <2>2 DEF ResumeGoal, ToolEnds
    <3>2. doing'[a].at = "loop" /\ \A d \in Callbacks : d # a => doing'[d] = doing[d]
      BY <1>0, <3>1, DoRuns DEF Loop
    <3> QED
      BY <3>1, <3>2, LineKept
  <2> QED
    BY <1>9, <2>1, <2>2 DEF ToolEnds, Continue
<1>10. ASSUME NEW a \in Actors, LoopNeedsAuth(a) \/ LoopEnds(a) PROVE InLine'
  BY <1>3, <1>10 DEF LoopNeedsAuth, LoopEnds
<1>11. CASE TextAnswersAgent \/ LineIsForgotten \/ (\E c \in Callbacks : GivesUp(c)) \/ Restart
  BY <1>0, <1>11 DEF TextAnswersAgent, LineIsForgotten, GivesUp, Restart
<1>12. CASE UNCHANGED vars
  BY <1>1, <1>12 DEF vars
<1> QED
  BY <1>4, <1>5, <1>6, <1>7, <1>8, <1>9, <1>10, <1>11, <1>12 DEF Next

-----------------------------------------------------------------------------
(* Who carries a request out                                               *)

(* A step after which the same tools run.                                  *)
LEMMA NotMoving ==
    ASSUME \A a \in Actors : \/ doing'[a] = doing[a]
                             \/ doing[a].at # "tool" /\ doing'[a].at # "tool"
    PROVE  \A t : Running(t)' <=> Running(t)
  BY DEF Running

LEMMA DoNotMoving ==
    ASSUME TypeOK, NEW a \in Actors, NEW what, Do(a, what),
           what.at # "tool", doing[a].at # "tool"
    PROVE  \A t : Running(t)' <=> Running(t)
  BY DoRuns, NotMoving

(* A button approves: nothing else runs, and the request was not carried   *)
(* out before.                                                             *)
LEMMA ApproveIsFirst ==
    ASSUME TypeOK, ClicksRunTools, InLine, RunsOnce, patient,
           NEW c \in Callbacks, Click(c)
    PROVE  /\ \A t : ~Running(t)
           /\ doing[c].txn \in Txns
           /\ Stored(doing[c].txn) => row[doing[c].txn] = "pending" /\ runs[doing[c].txn] = 0
<1>1. c \in Actors /\ doing[c].at = "pressed" /\ before[c] = {} /\ buttonsOnly
  BY DEF Click, HasMutex, Actors, TypeOK
<1>2. doing[c].txn \in Txns
  <2>1. doing[c].txn \in 1..asked /\ asked \in 0..MaxTxns
    BY <1>1, DoingShape DEF TypeOK
  <2> QED
    BY <2>1, AuthAssumption DEF Txns
<1>3. \A t : ~Running(t)
  <2> SUFFICES ASSUME NEW d \in Actors, doing[d].at = "tool" PROVE FALSE
    BY DEF Running
  <2>1. d \in Callbacks /\ before[d] = {}
    BY <1>1 DEF ClicksRunTools, Actors, InLine
  <2> QED
    BY <1>1, <2>1, OneWorks
<1> QED
  BY <1>2, <1>3 DEF RunsOnce, Stored

(* A tool returns: it was the only one.                                    *)
LEMMA EndIsOnly ==
    ASSUME TypeOK, ClicksRunTools, InLine, patient, NEW a \in Actors, ToolEnds(a)
    PROVE  /\ \A t : ~Running(t)'
           /\ \A t : Running(t) <=> t = doing[a].txn
<1>1. buttonsOnly /\ doing[a].at = "tool"
  BY DEF ToolEnds, TypeOK
<1>2. \A d \in Actors : doing[d].at = "tool" => d = a
  <2> SUFFICES ASSUME NEW d \in Actors, doing[d].at = "tool" PROVE d = a
    OBVIOUS
  <2>1. /\ d \in Callbacks /\ before[d] = {}
        /\ a \in Callbacks /\ before[a] = {}
    BY <1>1 DEF ClicksRunTools, Actors, InLine
  <2> QED
    BY <1>1, <2>1, OneWorks
<1>3. Do(a, Idle) \/ \E g : Do(a, Loop(g, "resumed"))
  BY DEF ToolEnds, Continue, ResumeGoal, Rests
<1>4. doing'[a].at # "tool" /\ \A d \in Actors : d # a => doing'[d] = doing[d]
  <2>1. Idle.at # "tool" /\ \A g : Loop(g, "resumed").at # "tool"
    BY DEF Idle, Loop
  <2>2. \E what : Do(a, what) /\ what.at # "tool"
    BY <1>3, <2>1
  <2> QED
    BY <2>2, DoRuns
<1> QED
  BY <1>1, <1>2, <1>4 DEF Running

(* Steps that change no tool: what they leave to be shown of the tables.   *)
LEMMA OnceKept ==
    ASSUME RunsOnce, UNCHANGED <<runs, patient>>,
           \A t \in Txns : /\ Running(t)' <=> Running(t)
                           /\ \/ row'[t] = row[t]
                              \/ row'[t] \notin {"unused", "executing", "pending"}
                              \/ row'[t] = "pending" /\ row[t] = "unused"
    PROVE  RunsOnce'
  BY DEF RunsOnce

LEMMA OnceStep ==
    TypeOK /\ ClicksRunTools /\ InLine /\ RunsOnce /\ [Next]_vars => RunsOnce'
<1> SUFFICES ASSUME TypeOK, ClicksRunTools, InLine, RunsOnce, [Next]_vars, patient,
                    UNCHANGED <<buttonsOnly, patient>>
             PROVE  RunsOnce'
  BY Fixed DEF RunsOnce
<1>0. "turn" \in Actors /\ Callbacks \subseteq Actors /\ buttonsOnly
  BY DEF Actors, TypeOK
<1>1. ASSUME UNCHANGED <<row, runs>>, \A t : Running(t)' <=> Running(t) PROVE RunsOnce'
  BY <1>1, OnceKept
<1>2. CASE UNCHANGED <<row, runs, doing>>
  BY <1>2, NotMoving, <1>1
<1>3. ASSUME CreateTransaction, UNCHANGED runs, \A t : Running(t)' <=> Running(t)
      PROVE  RunsOnce'
  <2>1. \A t \in Txns : row'[t] = row[t] \/ (row'[t] = "pending" /\ row[t] = "unused")
    <3>1. asked + 1 \in Txns /\ row[asked + 1] = "unused"
      BY <1>3, AuthAssumption DEF CreateTransaction, TypeOK, Txns
    <3>2. row' = [row EXCEPT ![asked + 1] = "pending"]
      BY <1>3 DEF CreateTransaction
    <3> QED
      BY <3>1, <3>2 DEF TypeOK
  <2> QED
    BY <1>3, <2>1, OnceKept
<1>4. CASE TurnOpens \/ TurnRoutes \/ TurnEnds \/ TurnStartsGoal
  <2>1. UNCHANGED <<row, runs>>
    BY <1>4 DEF TurnOpens, TurnRoutes, TurnEnds, TurnStartsGoal, txnVars, historyVars
  <2>2. doing["turn"].at # "tool" /\ \E what : Do("turn", what) /\ what.at # "tool"
    BY <1>0, <1>4
       DEF ClicksRunTools, TurnOpens, TurnRoutes, TurnEnds, TurnStartsGoal,
           Idle, Opened, Routed, Loop
  <2> QED
    BY <1>0, <1>1, <2>1, <2>2, DoNotMoving
<1>5. CASE TurnAsks
  <2>1. doing["turn"].at # "tool" /\ Do("turn", Idle) /\ Idle.at # "tool"
    BY <1>0, <1>5 DEF ClicksRunTools, TurnAsks, Idle
  <2> QED
    BY <1>0, <1>3, <1>5, <2>1, DoNotMoving DEF TurnAsks, historyVars
<1>6. ASSUME NEW g \in Goals, ExpireStale(g) \/ TextAnswersGoal(g) \/ Cancel(g) PROVE RunsOnce'
  BY <1>0, <1>2, <1>6 DEF ExpireStale, TextAnswersGoal, Cancel, txnVars, historyVars
<1>7. ASSUME NEW t \in Txns, PurgeExpired(t) PROVE RunsOnce'
  <2>1. /\ UNCHANGED <<doing, runs>>
        /\ \A u \in Txns : row'[u] = row[u] \/ row'[u] = "purged"
    BY <1>7 DEF PurgeExpired, historyVars, TypeOK
  <2> QED
    BY <2>1, NotMoving, OnceKept
<1>8. ASSUME NEW c \in Callbacks, NEW t \in Txns, Press(c, t) PROVE RunsOnce'
  <2>1. doing[c].at # "tool" /\ Do(c, Pressed(t)) /\ Pressed(t).at # "tool"
    BY <1>8 DEF Press, Idle, Pressed
  <2> QED
    BY <1>0, <1>1, <1>8, <2>1, DoNotMoving DEF Press, txnVars, historyVars
<1>9. ASSUME NEW c \in Callbacks, Click(c) PROVE RunsOnce'
  <2> DEFINE t == doing[c].txn
  <2>0. /\ Answer(c, t) /\ c \in Actors /\ doing[c].at = "pressed"
        /\ \A u : ~Running(u)
        /\ t \in Txns /\ (Stored(t) => row[t] = "pending" /\ runs[t] = 0)
    BY <1>0, <1>9, ApproveIsFirst DEF Click, HasMutex
  <2> HIDE DEF t
  <2>1. ASSUME Rests(c) PROVE \A u : Running(u)' <=> Running(u)
    <3>1. Do(c, Idle) /\ Idle.at # "tool" /\ doing[c].at # "tool"
      BY <2>0, <2>1 DEF Rests, Idle
    <3> QED
      BY <2>0, <3>1, DoNotMoving
  <2>2. CASE ClickApproves(c, t)
    <3>1. /\ runs' = [runs EXCEPT ![t] = @ + 1] /\ row' = [row EXCEPT ![t] = "executing"]
          /\ Do(c, Tool(t, "goal")) /\ Stored(t)
      BY <2>2 DEF ClickApproves, ResumeApproved
    <3>2. \A u : u = t => Running(u)'
      <4>1. doing'[c] = Tool(t, "goal")
        BY <2>0, <3>1, DoRuns
      <4>2. doing'[c].at = "tool" /\ doing'[c].txn = t
        BY <4>1 DEF Tool
      <4> QED
        BY <2>0, <4>2 DEF Running
    <3>3. runs'[t] = 1 /\ row'[t] = "executing"
      BY <2>0, <3>1 DEF TypeOK
    <3>4. \A u \in Txns : u # t => runs'[u] = runs[u] /\ row'[u] = row[u] /\ row[u] # "executing"
      BY <2>0, <3>1 DEF TypeOK, RunsOnce
    <3> SUFFICES ASSUME NEW u \in Txns
                 PROVE  /\ row'[u] \in {"unused", "pending"} => runs'[u] = 0
                        /\ row'[u] = "executing" => Running(u)'
                        /\ runs'[u] <= 1
      BY DEF RunsOnce
    <3>5. CASE u = t
      BY <3>2, <3>3, <3>5
    <3>6. CASE u # t
      BY <3>4, <3>6 DEF RunsOnce
    <3> QED
      BY <3>5, <3>6
  <2>3. CASE ClickRejects(c, t)
    <3>1. UNCHANGED runs /\ \A u \in Txns : row'[u] = row[u] \/ row'[u] = "deleted"
      BY <2>3 DEF ClickRejects, ResumeRejected, TypeOK
    <3> QED
      BY <2>1, <2>3, <3>1, OnceKept DEF ClickRejects
  <2>4. CASE ClickExpired(c, t)
    BY <1>1, <2>1, <2>4 DEF ClickExpired, historyVars
  <2> QED
    BY <1>0, <2>0, <2>2, <2>3, <2>4 DEF Answer, ClickFindsNoTool, ToolNotFound
<1>10. ASSUME NEW a \in Actors, ToolEnds(a) PROVE RunsOnce'
  <2> DEFINE t == doing[a].txn
  <2>1. /\ UNCHANGED runs /\ row' = [row EXCEPT ![t] = "deleted"]
        /\ \A u : Running(u) <=> u = t
    BY <1>10, EndIsOnly DEF ToolEnds, historyVars
  <2>2. \A u \in Txns : row'[u] = IF u = t THEN "deleted" ELSE row[u]
    BY <2>1 DEF TypeOK
  <2> HIDE DEF t
  <2> QED
    BY <2>1, <2>2 DEF RunsOnce
<1>11. ASSUME NEW a \in Actors, LoopNeedsAuth(a) \/ LoopEnds(a) PROVE RunsOnce'
  <2>1. doing[a].at # "tool" /\ Do(a, Idle) /\ Idle.at # "tool"
    BY <1>11 DEF LoopNeedsAuth, LoopEnds, Rests, Idle
  <2>2. \A t : Running(t)' <=> Running(t)
    BY <2>1, DoNotMoving
  <2> QED
    BY <1>1, <1>3, <1>11, <2>2 DEF LoopNeedsAuth, LoopEnds, txnVars, historyVars
<1>12. CASE TextAnswersAgent \/ LineIsForgotten \/ (\E c \in Callbacks : GivesUp(c)) \/ Restart
  BY <1>0, <1>12 DEF TextAnswersAgent, LineIsForgotten, GivesUp, Restart
<1>13. CASE UNCHANGED vars
  BY <1>2, <1>13 DEF vars, txnVars, historyVars
<1> QED
  BY <1>4, <1>5, <1>6, <1>7, <1>8, <1>9, <1>10, <1>11, <1>12, <1>13 DEF Next

-----------------------------------------------------------------------------
(* A request is one unit: the refinement of AuthorizedStep                 *)

OneByOne == TypeOK /\ ClicksRunTools /\ InLine /\ RunsOnce

LEMMA OneByOneInit == Init => OneByOne
<1> SUFFICES ASSUME Init PROVE OneByOne
  OBVIOUS
<1>1. TypeOK /\ ClicksRunTools
  BY ByButtonsInit DEF ByButtons
<1>2. \A c \in Callbacks : doing[c].at = "idle" /\ before[c] = {}
  BY DEF Init, Idle, Actors
<1> QED
  BY <1>1, <1>2 DEF Init, OneByOne, InLine, RunsOnce

LEMMA OneByOneStep == OneByOne /\ [Next]_vars => OneByOne'
  BY TypeStep, ClicksStep, LineStep, OnceStep DEF OneByOne

(* What the user sees of a request that is never run twice.                *)
LEMMA StepShape ==
    OneByOne /\ patient => \A t \in Txns :
        Step[t] = IF row[t] = "unused" THEN "unasked"
                  ELSE IF Running(t) THEN "running"
                  ELSE IF Stored(t) THEN "asked"
                  ELSE "over"
<1> SUFFICES ASSUME OneByOne, patient, NEW t \in Txns
             PROVE  Step[t] = IF row[t] = "unused" THEN "unasked"
                              ELSE IF Running(t) THEN "running"
                              ELSE IF Stored(t) THEN "asked"
                              ELSE "over"
  OBVIOUS
<1>1. ~(runs[t] > 1)
  BY DEF OneByOne, RunsOnce, TypeOK
<1> QED
  BY <1>1 DEF Step

LEMMA StepShapeNext ==
    (OneByOne /\ patient => \A t \in Txns :
        Step[t] = IF row[t] = "unused" THEN "unasked"
                  ELSE IF Running(t) THEN "running"
                  ELSE IF Stored(t) THEN "asked"
                  ELSE "over")'
  BY StepShape, PTL

LEMMA StepStays ==
    ASSUME OneByOne, OneByOne', UNCHANGED <<row, patient>>, patient,
           \A t \in Txns : Running(t)' <=> Running(t)
    PROVE  UNCHANGED Step
<1>1. \A t \in Txns : Step'[t] = Step[t]
  BY StepShape, StepShapeNext DEF Stored
<1> QED
  BY <1>1 DEF Step

(* A step that concerns one request moves that request only.               *)
LEMMA StepMoves ==
    ASSUME OneByOne, OneByOne', UNCHANGED patient, patient, NEW t \in Txns,
           \A u \in Txns \ {t} : row'[u] = row[u] /\ (Running(u)' <=> Running(u)),
           NEW to,
           \/ to = "running" /\ row'[t] # "unused" /\ Running(t)'
           \/ to = "asked" /\ row'[t] = "pending" /\ ~Running(t)'
           \/ to = "over" /\ row'[t] \in {"deleted", "purged"} /\ ~Running(t)'
    PROVE  Step' = [Step EXCEPT ![t] = to]
<1>1. \A u \in Txns \ {t} : Step'[u] = Step[u]
  BY StepShape, StepShapeNext DEF Stored
<1>2. Step'[t] = to
  BY StepShapeNext, AuthAssumption DEF Stored, Txns
<1> QED
  BY <1>1, <1>2 DEF Step

LEMMA RequestIsAsked ==
    ASSUME OneByOne, OneByOne', UNCHANGED patient, patient, CreateTransaction,
           \A t : Running(t)' <=> Running(t)
    PROVE  Promise!Next
<1> DEFINE t == asked + 1
<1>1. t \in Txns /\ row[t] = "unused" /\ row' = [row EXCEPT ![t] = "pending"]
  BY AuthAssumption DEF OneByOne, CreateTransaction, TypeOK, Txns
<1>2. ~Running(t)
  <2>1. \A a \in Actors : doing[a].at = "tool" => doing[a].txn \in 1..asked
    BY DoingShape DEF OneByOne
  <2>2. t \notin 1..asked
    BY DEF OneByOne, TypeOK
  <2> HIDE DEF t
  <2> QED
    BY <2>1, <2>2 DEF Running
<1>3. \A u \in Txns \ {t} : row'[u] = row[u]
  BY <1>1 DEF OneByOne, TypeOK
<1>4. row'[t] = "pending"
  BY <1>1 DEF OneByOne, TypeOK
<1> HIDE DEF t
<1>5. Step' = [Step EXCEPT ![t] = "asked"]
  BY <1>1, <1>2, <1>3, <1>4, StepMoves
<1>6. Step[t] = "unasked"
  BY <1>1, StepShape
<1> QED
  BY <1>1, <1>5, <1>6 DEF Promise!Next, Promise!Ask, Promise!Move

(* A row that goes while nobody runs its tool: refused, or never answered. *)
LEMMA RequestIsRefused ==
    ASSUME OneByOne, OneByOne', UNCHANGED patient, patient, NEW t \in Txns,
           Stored(t), ~Running(t), NEW gone \in {"deleted", "purged"},
           row' = [row EXCEPT ![t] = gone],
           \A u : Running(u)' <=> Running(u)
    PROVE  Promise!Next
<1>1. \A u \in Txns \ {t} : row'[u] = row[u]
  BY DEF OneByOne, TypeOK
<1>2. row'[t] = gone
  BY DEF OneByOne, TypeOK
<1>3. Step' = [Step EXCEPT ![t] = "over"]
  BY <1>1, <1>2, StepMoves
<1>4. Step[t] = "asked"
  BY StepShape DEF Stored
<1> QED
  BY <1>3, <1>4 DEF Promise!Next, Promise!Refuse, Promise!Move

LEMMA ClickIsMove ==
    ASSUME OneByOne, OneByOne', UNCHANGED <<buttonsOnly, patient>>, patient,
           NEW c \in Callbacks, Click(c)
    PROVE  Promise!Next \/ UNCHANGED Step
<1> DEFINE t == doing[c].txn
<1>0. /\ Answer(c, t) /\ c \in Actors /\ doing[c].at = "pressed" /\ buttonsOnly
      /\ \A u : ~Running(u)
      /\ t \in Txns
  BY ApproveIsFirst DEF OneByOne, Click, HasMutex, Actors, TypeOK
<1> HIDE DEF t
<1>1. ASSUME Rests(c) PROVE \A u : Running(u)' <=> Running(u)
  <2>1. Do(c, Idle) /\ Idle.at # "tool" /\ doing[c].at # "tool"
    BY <1>0, <1>1 DEF Rests, Idle
  <2> QED
    BY <1>0, <2>1, DoNotMoving DEF OneByOne
<1>2. CASE ClickApproves(c, t)
  <2>1. /\ Do(c, Tool(t, "goal"))
        /\ Stored(t) /\ row' = [row EXCEPT ![t] = "executing"]
    BY <1>2 DEF ClickApproves, ResumeApproved
  <2>2. /\ doing'[c].at = "tool" /\ doing'[c].txn = t
        /\ \A d \in Actors : d # c => doing'[d] = doing[d]
    BY <1>0, <2>1, DoRuns DEF OneByOne, Tool
  <2>3. \A u \in Txns : Running(u)' <=> u = t
    BY <1>0, <2>2 DEF Running
  <2>4. row'[t] = "executing" /\ \A u \in Txns \ {t} : row'[u] = row[u]
    BY <1>0, <2>1 DEF OneByOne, TypeOK
  <2>5. Step' = [Step EXCEPT ![t] = "running"]
    BY <1>0, <2>3, <2>4, StepMoves
  <2>6. Step[t] = "asked"
    BY <1>0, <2>1, StepShape DEF Stored
  <2> QED
    BY <1>0, <2>5, <2>6 DEF Promise!Next, Promise!Start, Promise!Move
<1>3. CASE ClickRejects(c, t)
  <2>1. Stored(t) /\ row' = [row EXCEPT ![t] = "deleted"] /\ Rests(c)
    BY <1>3 DEF ClickRejects, ResumeRejected
  <2> QED
    BY <1>0, <1>1, <2>1, RequestIsRefused
<1>4. CASE ClickExpired(c, t)
  BY <1>1, <1>4, StepStays DEF ClickExpired
<1> QED
  BY <1>0, <1>2, <1>3, <1>4 DEF Answer, ClickFindsNoTool, ToolNotFound

LEMMA ToolEndIsMove ==
    ASSUME OneByOne, OneByOne', UNCHANGED patient, patient, NEW a \in Actors, ToolEnds(a)
    PROVE  Promise!Next
<1> DEFINE t == doing[a].txn
<1>1. doing[a].at = "tool" /\ row' = [row EXCEPT ![t] = "deleted"]
  BY DEF ToolEnds
<1>2. t \in Txns /\ row[t] # "unused"
  <2>1. t \in 1..asked /\ asked \in 0..MaxTxns
    BY <1>1, DoingShape DEF OneByOne, TypeOK
  <2> QED
    BY <2>1, AuthAssumption DEF OneByOne, TypeOK, Txns
<1>3. \A u : ~Running(u)' /\ (Running(u) <=> u = t)
  BY EndIsOnly DEF OneByOne
<1>4. row'[t] = "deleted" /\ \A u \in Txns \ {t} : row'[u] = row[u]
  BY <1>1, <1>2 DEF OneByOne, TypeOK
<1> HIDE DEF t
<1>5. Step' = [Step EXCEPT ![t] = "over"]
  BY <1>2, <1>3, <1>4, StepMoves
<1>6. Step[t] = "running"
  BY <1>2, <1>3, StepShape
<1> QED
  BY <1>2, <1>5, <1>6 DEF Promise!Next, Promise!End, Promise!Move

LEMMA UnitStep == OneByOne /\ OneByOne' /\ [Next]_vars => [Promise!Next]_Step
<1> SUFFICES ASSUME OneByOne, OneByOne', [Next]_vars
             PROVE  Promise!Next \/ UNCHANGED Step
  OBVIOUS
<1>0. UNCHANGED <<buttonsOnly, patient>>
  BY Fixed
<1>1. CASE ~patient
  BY <1>0, <1>1 DEF Step
<1>2. CASE patient
  <2>0. "turn" \in Actors /\ Callbacks \subseteq Actors /\ buttonsOnly /\ TypeOK
    BY <1>2 DEF Actors, OneByOne, TypeOK
  <2>1. ASSUME UNCHANGED row, \A t : Running(t)' <=> Running(t) PROVE UNCHANGED Step
    BY <1>0, <1>2, <2>1, StepStays
  <2>2. CASE UNCHANGED <<row, doing>>
    BY <2>1, <2>2, NotMoving
  <2>3. CASE TurnOpens \/ TurnRoutes \/ TurnEnds \/ TurnStartsGoal
    <3>1. UNCHANGED row
      BY <2>3 DEF TurnOpens, TurnRoutes, TurnEnds, TurnStartsGoal, txnVars
    <3>2. doing["turn"].at # "tool" /\ \E what : Do("turn", what) /\ what.at # "tool"
      BY <2>0, <2>3
         DEF OneByOne, ClicksRunTools, TurnOpens, TurnRoutes, TurnEnds, TurnStartsGoal,
             Idle, Opened, Routed, Loop
    <3> QED
      BY <2>0, <2>1, <3>1, <3>2, DoNotMoving
  <2>4. CASE TurnAsks
    <3>1. doing["turn"].at # "tool" /\ Do("turn", Idle) /\ Idle.at # "tool"
      BY <2>0, <2>4 DEF OneByOne, ClicksRunTools, TurnAsks, Idle
    <3> QED
      BY <1>0, <1>2, <2>0, <2>4, <3>1, DoNotMoving, RequestIsAsked DEF TurnAsks
  <2>5. ASSUME NEW g \in Goals, ExpireStale(g) \/ TextAnswersGoal(g) \/ Cancel(g)
        PROVE  Promise!Next \/ UNCHANGED Step
    BY <2>0, <2>2, <2>5 DEF ExpireStale, TextAnswersGoal, Cancel, txnVars
  <2>6. ASSUME NEW c \in Callbacks, Click(c) PROVE Promise!Next \/ UNCHANGED Step
    BY <1>0, <1>2, <2>6, ClickIsMove
  <2>7. ASSUME NEW t \in Txns, PurgeExpired(t) PROVE Promise!Next \/ UNCHANGED Step
    <3>1. Stored(t) /\ row' = [row EXCEPT ![t] = "purged"] /\ UNCHANGED doing
      BY <2>7 DEF PurgeExpired
    <3>2. \A u : Running(u)' <=> Running(u)
      BY <3>1, NotMoving
    <3>3. CASE ~Running(t)
      BY <1>0, <1>2, <3>1, <3>2, <3>3, RequestIsRefused
    <3>4. CASE Running(t)
      <4>1. /\ row'[t] = "purged" /\ row[t] # "unused"
            /\ \A u \in Txns \ {t} : row'[u] = row[u]
        BY <2>0, <3>1 DEF TypeOK, Stored
      <4>2. \A u \in Txns : Step'[u] = Step[u]
        BY <1>0, <1>2, <3>2, <3>4, <4>1, StepShape, StepShapeNext DEF Stored
      <4> QED
        BY <4>2 DEF Step
    <3> QED
      BY <3>3, <3>4
  <2>8. ASSUME NEW c \in Callbacks, NEW t \in Txns, Press(c, t) PROVE UNCHANGED Step
    <3>1. doing[c].at # "tool" /\ Do(c, Pressed(t)) /\ Pressed(t).at # "tool" /\ UNCHANGED row
      BY <2>8 DEF Press, Idle, Pressed, txnVars
    <3> QED
      BY <2>0, <2>1, <3>1, DoNotMoving
  <2>9. ASSUME NEW a \in Actors, ToolEnds(a) PROVE Promise!Next
    BY <1>0, <1>2, <2>9, ToolEndIsMove
  <2>10. ASSUME NEW a \in Actors, LoopNeedsAuth(a) \/ LoopEnds(a)
         PROVE  Promise!Next \/ UNCHANGED Step
    <3>1. doing[a].at # "tool" /\ Do(a, Idle) /\ Idle.at # "tool"
      BY <2>10 DEF LoopNeedsAuth, LoopEnds, Rests, Idle
    <3>2. \A t : Running(t)' <=> Running(t)
      BY <2>0, <3>1, DoNotMoving
    <3> QED
      BY <1>0, <1>2, <2>1, <2>10, <3>2, RequestIsAsked DEF LoopNeedsAuth, LoopEnds, txnVars
  <2>11. CASE TextAnswersAgent \/ LineIsForgotten \/ (\E c \in Callbacks : GivesUp(c)) \/ Restart
    BY <1>2, <2>0, <2>11 DEF TextAnswersAgent, LineIsForgotten, GivesUp, Restart
  <2>12. CASE UNCHANGED vars
    BY <2>2, <2>12 DEF vars, txnVars
  <2> QED
    BY <2>3, <2>4, <2>5, <2>6, <2>7, <2>8, <2>9, <2>10, <2>11, <2>12 DEF Next
<1> QED
  BY <1>1, <1>2

(* WorkflowEngine and its callers implement the authorization as the user  *)
(* is promised it, where the user answers by buttons only, no wait for the *)
(* mutex of the session takes 45 s and the sweep comes upon no callback:   *)
(* however many of them are under way, a request is asked for once, then   *)
(* refused or dropped, or its tool is started once and ended, whatever     *)
(* goals are abandoned, resumed or cancelled meanwhile.                    *)
THEOREM OneUnit == Spec => StepIsOneUnit
<1>1. Init => Promise!Init
  BY DEF Init, Promise!Init, Step
<1> QED
  BY <1>1, OneByOneInit, OneByOneStep, UnitStep, PTL
     DEF Spec, StepIsOneUnit, Promise!Spec

=============================================================================
