-------------------------- MODULE ConversationTurns --------------------------
(***************************************************************************)
(* The turns of one conversation, as AgentLoop.run and the guard of        *)
(* runWithTools admit them (loop/AgentLoop.ts).  A turn is called by the   *)
(* bus, by a step of a goal (goalTrace) or, outside the queue, by a        *)
(* scheduled task.  What a turn shares with the others are the maps of the *)
(* conversation: the controller Stop aborts (activeTurns), the state in    *)
(* which it leaves the facts run() returns with its answer                 *)
(* (activeTurnStates), and the validations that go on in the background    *)
(* (validacoesPorConversa).  What a turn does inside is AgentTurn.         *)
(***************************************************************************)
CONSTANTS Turns, None

ASSUME NoneAssumption == None \notin Turns

VARIABLES
    ofGoal,      \* rigid: turns that are steps of a goal
    overdue,     \* rigid: a turn may last longer than TURN_STALE_MS
    phase,       \* of each turn
    active,      \* the turn whose controller activeTurns has
    aged,        \* its turnStartTimes is older than TURN_STALE_MS
    aborted,     \* turns at work whose controller was aborted
    entry,       \* the TurnState activeTurnStates has
    holds,       \* turns whose commitResponse holds that very object
    pending,     \* validacoesPorConversa: turns whose controllers are in the list
    cut,         \* turns whose validations were interrupted
    validating,  \* validations that run: whose tool, and whose signal they obey
    misread,     \* history: turns whose answer carried facts of another
    misheard     \* history: turns told by the observer about another's tools

state == <<entry, holds>>
validations == <<pending, cut, validating>>
history == <<misread, misheard>>
vars == <<ofGoal, overdue, phase, active, aged, aborted, state, validations, history>>

Working(t) == phase[t] \in {"preparing", "thinking", "judging", "returning"}
Enter(t, p) == phase' = [phase EXCEPT ![t] = p]

(* A missing entry is a blank one without signal, as getTurnState makes it; *)
(* once replaced or deleted, nobody reads the object that was there.        *)
Blank(t) == [of |-> t, facts |-> {}, block |-> None, notes |-> {}]
Replace(o) == entry' = o /\ holds' = {}

-----------------------------------------------------------------------------
(* run(): a new request of the user interrupts the validations of earlier   *)
(* turns, unless a turn is active.                                          *)
RegistersOnly(t) ==   \* Mistake: it interrupts nothing.
    pending' = pending \union {t} /\ UNCHANGED cut
Registers(t) ==
    IF t \notin ofGoal /\ active = None
    THEN cut' = cut \union pending /\ pending' = {t}
    ELSE pending' = pending \union {t} /\ UNCHANGED cut

Starts(t) ==
    /\ phase[t] = "new"
    /\ active = None \/ aged     \* turnoAtivoNaoVencido is false
    /\ Registers(t)
    /\ Replace(Blank(t))
    /\ active' = t /\ aged' = FALSE
    /\ aborted' = IF active = None THEN aborted ELSE aborted \union {active}
    /\ Enter(t, "preparing")
    /\ UNCHANGED <<ofGoal, overdue, validating, history>>

Facts == entry.facts \union ({entry.block} \ {None})

(* Mistakes: the refusal carries the facts of the turn that works, or *)
(* its finally clears what that turn is using.                              *)
RejectedTelling(t) ==
    /\ phase[t] = "new"
    /\ active # None /\ ~aged
    /\ Registers(t)
    /\ Enter(t, "rejected")
    /\ misread' = IF Facts = {} THEN misread ELSE misread \union {t}
    /\ UNCHANGED <<ofGoal, overdue, active, aged, aborted, state, validating, misheard>>
RejectedClearing(t) ==
    /\ phase[t] = "new"
    /\ active # None /\ ~aged
    /\ Registers(t)
    /\ Enter(t, "rejected")
    /\ active' = None /\ aged' = FALSE /\ Replace(Blank(None))
    /\ UNCHANGED <<ofGoal, overdue, aborted, validating, history>>

(* "Ainda estou processando sua mensagem anterior": nothing of the turn     *)
(* that works is touched.                                                   *)
Rejected(t) ==
    /\ phase[t] = "new"
    /\ active # None /\ ~aged
    /\ Registers(t)
    /\ Enter(t, "rejected")
    /\ UNCHANGED <<ofGoal, overdue, active, aged, aborted, state, validating, history>>

-----------------------------------------------------------------------------
(* What a turn does to the maps between its awaits.                         *)
ContextReady(t) ==
    /\ phase[t] = "preparing"
    /\ entry' = [entry EXCEPT !.notes = {}]
    /\ Enter(t, "thinking")
    /\ UNCHANGED <<ofGoal, overdue, active, aged, aborted, holds, validations, history>>

(* A step begins: the feedback of the observer goes into its messages.      *)
Step(t) ==
    /\ phase[t] = "thinking"
    /\ misheard' = IF entry.notes \subseteq {t} THEN misheard ELSE misheard \union {t}
    /\ entry' = [entry EXCEPT !.notes = {}]
    /\ UNCHANGED <<ofGoal, overdue, phase, active, aged, aborted, holds, validations, misread>>

(* A tool ran: what it changed is noted, and its validation starts.  Bound: *)
(* where a turn may be overtaken, validations are not followed.             *)
ToolRuns(t) ==
    /\ phase[t] = "thinking"
    /\ entry' = [entry EXCEPT !.facts = @ \union {t}]
    /\ validating' = IF overdue THEN validating
                     ELSE validating \union {[tool |-> t, signal |-> entry.of]}
    /\ UNCHANGED <<ofGoal, overdue, phase, active, aged, aborted, holds, pending, cut, history>>

(* The provider failed, and the turn answers with a fixed message.          *)
ProviderFails(t) ==
    /\ phase[t] = "thinking"
    /\ entry' = [entry EXCEPT !.facts = @ \union {t}]
    /\ Enter(t, "returning")
    /\ UNCHANGED <<ofGoal, overdue, active, aged, aborted, holds, validations, history>>

(* commitResponse keeps the object it found while the judge is awaited.     *)
AsksJudge(t) ==
    /\ phase[t] = "thinking"
    /\ entry' = [entry EXCEPT !.block = None]
    /\ holds' = holds \union {t}
    /\ Enter(t, "judging")
    /\ UNCHANGED <<ofGoal, overdue, active, aged, aborted, validations, history>>

JudgeAnswers(t) ==
    /\ phase[t] = "judging"
    /\ entry' \in {entry} \union (IF t \in holds THEN {[entry EXCEPT !.block = t]} ELSE {})
    /\ holds' = holds \ {t}
    /\ Enter(t, "returning")
    /\ UNCHANGED <<ofGoal, overdue, active, aged, aborted, validations, history>>

(* A direct answer, Stop, a tool that asks for authorization, an exception. *)
EndsOtherwise(t) ==
    /\ phase[t] \in {"preparing", "thinking"}
    /\ Enter(t, "returning")
    /\ UNCHANGED <<ofGoal, overdue, active, aged, aborted, state, validations, history>>

(* The rest of run(): the facts are those of the entry, and "finally"       *)
(* clears the conversation, whoever's it is by now.                         *)
ReturnsUnclearedOnStop(t) ==   \* Mistake: a stopped turn clears nothing.
    /\ phase[t] = "returning"
    /\ misread' = IF Facts \subseteq {t} THEN misread ELSE misread \union {t}
    /\ aborted' = aborted \ {t}
    /\ IF t \in aborted
       THEN UNCHANGED <<state, active, aged>>
       ELSE Replace(Blank(None)) /\ active' = None /\ aged' = FALSE
    /\ Enter(t, "over")
    /\ UNCHANGED <<ofGoal, overdue, validations, misheard>>
Returns(t) ==
    /\ phase[t] = "returning"
    /\ misread' = IF Facts \subseteq {t} THEN misread ELSE misread \union {t}
    /\ aborted' = aborted \ {t}
    /\ Replace(Blank(None)) /\ active' = None /\ aged' = FALSE
    /\ Enter(t, "over")
    /\ UNCHANGED <<ofGoal, overdue, validations, misheard>>

-----------------------------------------------------------------------------
(* tryValidateTool: an interrupted validation is discarded; a disapproval   *)
(* goes to the state the conversation has by then.                          *)
ValidationEnds(v) ==
    /\ v \in validating
    /\ validating' = validating \ {v}
    /\ \/ UNCHANGED entry
       \/ v.signal \notin cut /\ entry' = [entry EXCEPT !.notes = @ \union {v.tool}]
    /\ UNCHANGED <<ofGoal, overdue, phase, active, aged, aborted, holds, pending, cut, history>>

Cancel ==
    /\ active # None /\ active \notin aborted
    /\ aborted' = aborted \union {active}
    /\ UNCHANGED <<ofGoal, overdue, phase, active, aged, state, validations, history>>

Age ==
    /\ overdue /\ active # None /\ ~aged
    /\ aged' = TRUE
    /\ UNCHANGED <<ofGoal, overdue, phase, active, aborted, state, validations, history>>

-----------------------------------------------------------------------------
Init ==
    /\ ofGoal \in SUBSET Turns /\ overdue \in BOOLEAN
    /\ phase = [t \in Turns |-> "new"]
    /\ active = None /\ aged = FALSE /\ aborted = {}
    /\ entry = Blank(None) /\ holds = {}
    /\ pending = {} /\ cut = {} /\ validating = {}
    /\ misread = {} /\ misheard = {}

Next ==
    \/ \E t \in Turns : \/ Starts(t) \/ Rejected(t) \/ ContextReady(t) \/ Step(t) \/ ToolRuns(t)
                        \/ ProviderFails(t) \/ AsksJudge(t) \/ JudgeAnswers(t)
                        \/ EndsOtherwise(t) \/ Returns(t)
    \/ \E v \in validating : ValidationEnds(v)
    \/ Cancel \/ Age

Spec == Init /\ [][Next]_vars

-----------------------------------------------------------------------------
TypeOK ==
    /\ ofGoal \subseteq Turns /\ overdue \in BOOLEAN
    /\ phase \in [Turns -> {"new", "preparing", "thinking", "judging", "returning", "over", "rejected"}]
    /\ active \in Turns \union {None} /\ aged \in BOOLEAN /\ aborted \subseteq Turns
    /\ entry \in [of : Turns \union {None}, facts : SUBSET Turns,
                  block : Turns \union {None}, notes : SUBSET Turns]
    /\ \A t \in holds : phase[t] = "judging"
    /\ {pending, cut} \subseteq SUBSET Turns
    /\ validating \subseteq [tool : Turns, signal : Turns \union {None}]
    /\ {misread, misheard} \subseteq SUBSET Turns

(* While no turn outlasts TURN_STALE_MS, Stop reaches whatever works, and   *)
(* so does the guard: two turns never work at once.                         *)
StopReaches == ~overdue => \A t \in Turns : Working(t) => active = t

(* The conversation is never left refusing requests with nothing at work,   *)
(* even when a turn was overtaken.                                          *)
NeverStuck == active # None => Working(active)

(* While no turn outlasts TURN_STALE_MS, the facts returned with an answer  *)
(* are those of its own turn, and a refusal carries none.                   *)
FactsAreOwn == ~overdue => misread = {}

(* What the observer tells a turn of the user is about that turn's tools,   *)
(* while no turn outlasts TURN_STALE_MS: what a step of a goal is told may  *)
(* be about an earlier step.                                                *)
UserHearsOwn == ~overdue => misheard \subseteq ofGoal
=============================================================================
