# NewClaw: models, checks and proofs

NewClaw is a personal assistant that talks on chat channels (Telegram, WhatsApp, Discord, Signal, web),
runs goals made of tool calls, asks its user before risky ones, and calls model providers that fail
often. The program is one Node.js process. Nothing in it runs in parallel, yet almost everything in it
interleaves: every `await` lets another message, button, timer or answer in. This project models the
parts whose correctness depends on those interleavings, checks them with TLC on small instances, and
proves the most important results with TLAPS for every size.

Source paths below are relative to `src/src/`.

## 1. Inventory

| Component | State it keeps | Operations | Talks to | Modelled by |
|---|---|---|---|---|
| Circuit breaker (`core/CircuitBreaker.ts`) | state, two consecutive counters, half-open attempts, last failure time, next attempt time | `execute`, `canExecute`, `recordSuccess`, `recordFailure`, `getState`, `reset`, `forceOpen` | ProviderFactory, CognitiveKernelGate, a 60 s monitor | `CircuitBreaker` |
| Provider calls (`core/ProviderFactory.ts`) | a call's attempt, its abort signal, what it already reported | `chatWithFallback`: admit, attempt, back off, retry, try without streaming | breaker, adapters, the user's Stop | `ProviderCall` (partly) |
| Message bus (`channels/MessageBus.ts`) | recent message ids, texts joined to a waiting entry | `processMessage`, the queued task, `reprocessOrphanedSupplements`, `/cancelar` | channels, conversation queue, goal orchestrator | `MessageBus` (partly) |
| Conversation queue (`core/ConversationQueueManager.ts`) | one p-queue per conversation, ACK of the burst | `enqueue`, `clearQueue`, idle event | message bus | `MessageBus` (partly) |
| Session mutex (`session/SessionManager.ts`) | last promise per conversation | `withMutex`, `cleanupInactiveSessions` | every turn, every button callback | `SessionMutex` |
| Session records (`session/SessionTranscript.ts`, `SessionManager.ts`, `SessionAutoCleaner.ts`) | JSONL transcript, index file, table of summaries, open sessions | record, compress, close, compact, rebuild the index | turns, the cleaner | `SessionRecords` |
| Workflow engine (`loop/WorkflowEngine.ts`) | table of authorization requests | `createTransaction`, `resume`, `purgeExpired` | goal loop, agent loop, button callback | `Authorization` |
| Authorization pendency (`loop/AuthorizationManager.ts`) | the request AgentLoop remembers | add, get, remove | agent loop | `Authorization` |
| Goal store (`loop/GoalStore.ts`) | goals: status, plan, budgets, pending request; supplements | `update`, `setStatus`, `expireStale`, supplements | orchestrator and loop | `GoalLoop`, `Authorization`, `MessageBus` |
| Goal orchestrator (`loop/GoalOrchestrator.ts`) | registered turns | `process`, `resumeFromAuth`, `cancelActiveGoal` | bus, goal loop, agent loop | `Authorization`, `MessageBus` (partly) |
| Goal loop (`loop/GoalExecutionLoop.ts`) | cycles, replans, what is unsent | `executeGoal`, `resumeGoal`, outcomes of steps, replanning, validation, delivery | goal store, planner, judges, tools, agent loop | `GoalLoop` |
| Agent loop, one turn (`loop/AgentLoop.ts`, `AgentFSM.ts`, `ProactiveRecovery.ts`) | FSM, steps, guards of the turn, batch of calls | set up, fast path, model and tools, delivery, synthesis, commit, Stop | providers, tools, authorization | `AgentTurn` |
| Agent loop, its turns (`loop/AgentLoop.ts`) | active turn, signal and per-turn facts by conversation; validations under way | `run`, `cancel`, `tryValidateTool` | goal loop, bus | `ConversationTurns` |
| Telegram polling (`channels/TelegramPollingSupervisor.ts`) | connection state, retries, PID lock file | `start`, `pollingLoop`, 409s, circuit, `stop` | Telegram, other processes | `TelegramPolling` |
| Scheduler (`services/SchedulerService.ts`) | rows, one timer per active task | create, delete, toggle, start, stop, trigger | agent loop, by an event | `Scheduler` |
| Lifecycle, background queue | timers, services to stop, tasks | start, `shutdown` | everything at exit | not modelled |
| Memory, skills, validation, prompts, dashboard, backup, channel and provider adapters | SQLite graph, prompt texts, HTTP | ranking, composition, I/O | | not modelled: judgements of quality or pure I/O, no state protocol |

What is hard in each, and what makes it correct:

- **Breaker.** Answers of calls admitted in one state arrive in another; the attempts of a half-open
  circuit are a budget that callers spend and may never account for. Correct when an open circuit is
  tested again, a struggling provider is probed a bounded number of times, and no half-open circuit is
  left refusing everybody.
- **Provider calls.** One admission, at most two attempts, each reported at most once; Stop must never
  count for or against the provider.
- **Bus and queue.** Redelivery, joining, supplements, backpressure and `/cancelar` each take a message
  by a different way. Correct when a message is handed over once, what was cancelled stays out and no
  text is swallowed.
- **Mutex.** A chain of promises with timeouts, a timer that forgets its end and a sweep that forgets it
  all. Correct when operations begin in turn and all of them end.
- **Session records.** A file, an index saved now and then, a table of summaries, two background jobs and
  a process that may die. Correct when every message is either in the summary or in what the next turn
  reads, and none that was recorded is lost.
- **Authorization.** One request may be answered by a text, by a button (again), or never; the goal that
  waits for it may be abandoned, expire or be cancelled; the process may restart. Correct when a refused
  tool never runs, one loop runs a goal, and a goal never waits for something nobody can answer.
- **Goal loop.** Several thousand lines of outcomes that replan, retry, reopen or give up, each with a
  budget of its own. Correct when it ends, within its budgets, and the row says what was returned.
- **A turn.** Protections that block, defer, redirect or repeat calls around a state machine that refuses
  what its table does not list. Correct when the machine is followed, steps are bounded, nothing runs
  that needed a confirmation, and a stopped turn stops asking.
- **Turns of a conversation.** Maps keyed by conversation, read and cleared by calls that overlap. Correct
  when Stop reaches what works and what is told to a turn is about that turn.
- **Polling.** A lock file, signals and crashes of several lives of the process. Correct when one reads
  updates and a circuit that opened closes again.
- **Scheduler.** A timer holds a task as it was, and counts from where in a minute it was armed. Correct
  when a task runs at most once for each of its times and as long as it is active.

`PROJECT.json` lists the hazards line by line with the properties that watch them.

## 2. Modules

`MC<Module>` only extends its module for TLC; the `.cfg` files give the bounds. An operator introduced
or marked by a comment "Mistake" is not part of the model: it is a definition below it with an error such as
one makes, kept to show that a property notices.

**`CircuitBreaker`** is the breaker with its callers. A caller is a slot that is idle, out through
`canExecute` (`manual`, and `retry` after one reported failure: ProviderFactory tries again without asking
again) or out through `execute`. Each method is a definition (`TransitionTo`, `OnSuccess`, `OnFailure`,
`CanExecute` with its three ways to say yes). Time is the two countdowns the code derives from
`Date.now()`; they are separate because `canExecute` reads `lastFailureTime` and `execute` reads
`nextAttemptAt`, and late failures move only the first. The consecutive counters are only compared with
`>=`, so they saturate at their thresholds. `manualTrials` is a history: the admissions through `canExecute` since
the last full cool-down was over (`coolDown` counts it) or the circuit closed. `silentEnds` is a variable that
no step changes: whether callers of this execution may return without reporting; the breaker alone cannot
promise the same in both cases.

**`ProviderCall`** is `chatWithFallback` from `canExecute` to its last return, for the calls to one
provider, cut at its awaits: first attempt, backoff, second attempt, request without streaming. A variable
`provider` that no step changes chooses among Ollama (silence watchdog, one more request without
streaming), a cloud provider (deadline), and a local server, whose failure counts only if a file says it
should be running. It instantiates `CircuitBreaker` and uses its operators for the breaker's part of each
step. `UsesBreaker == CB!Spec` is a refinement: with the mapping `CallOf`, what the calls do is what
`CircuitBreaker`'s callers may do. `CallsProbeBounded` is one of the breaker's promises, read of these calls.

**`MessageBus`** is one conversation of bus and queue. A message is its number in the order in which
messages reach `processMessage`. `Process` has one disjunct per way out of `processMessage`; an entry of
the queue is `[n, head, texts]`, with `texts` what later messages joined. The task goes through the phases
`prepare` (media, transcript), `turn` (registered with the orchestrator), `goal`, and `leave`/`closing`
(end, reprocessing of supplements). Of goals it keeps what the bus can see: `none`, `live`, `auth`, `over`.
`smooth`, which no step changes, marks the executions in which sends resolve at once and turns do not break.

**`SessionMutex`** is `withMutex` as operations numbered by their calls, each awaiting the promise that was
last when it called. `tail` is the stored promise, `sweep` the two halves of `cleanupInactiveSessions` around its
await, `cuts` a history of where a sweep cut the chain. A nested call is recognised by AsyncLocalStorage and
touches nothing.

**`TurnLock`** is the abstract promise of `withMutex`: operations ask in turn, one is inside at a time, and it is
the first of those not over. `SessionMutex!RunsInTurn` instantiates it: a nested call counts as inside.

**`SessionRecords`** is one conversation's transcript. A line takes one unit of the file, so an offset is a
number of lines; `durable` is how much of the file has left the process. A recording call reads and summarises
what is old, waits for the mutex and writes under it; the sweep closes the session, the cleaner
compacts it (`Compact...`), a crash keeps what is durable. A compaction keeps the transcript it began with
(`compact.index`), although a rebuild that ends meanwhile puts another in its place, and saves the index of its own
when it closes it. A rebuild reads a number of lines between those there when it began and those there when it ends,
and what follows then counts on from the index it saved. `Windows` names five short windows of the code
that a run leaves open or shut (section 6).

**`Authorization`** composes workflow engine, pendency, goal store, orchestrator and callback for one
conversation. The actors are the `turn` of the queue and any number of `Callbacks` of buttons; each is
idle, in a phase of its turn, running a tool, or running a goal's loop. A callback is first `Pressed` and waits
for the mutex of the session: `line` is whom the next one that presses will wait for, `before` whom each waiting one
still waits for, which is `withMutex`'s chain of promises as far as callbacks can tell. A wait that took 45 s is given
up (`GivesUp`), which lets those behind it in beside whoever still works; the wait of a message's record that is
given up, and the sweep of inactive sessions, make the next one wait for nobody (`LineIsForgotten`). `TextAnswersGoal`,
`TextAnswersAgent` and `Click` are the three ways to `WorkflowEngine.resume`, which never looks whether the tool runs
already; `ToolEnds` is what follows its await, with the whole continuation (delete the row, find the goal that
waits, resume it or tell AgentLoop). `Restart` keeps the tables and loses the memory, and abandons goals as the
boot does. Two variables that no step changes mark executions: `buttonsOnly` those without texts, restarts and tools
switched off, `patient` those among them in which no wait is given up and no sweep comes upon a callback.

**`AuthorizedStep`** is the abstract promise of a request: asked, then refused or started once and ended.
`Authorization!StepIsOneUnit` instantiates it under the mapping `Step`.

**`GoalLoop`** is one goal, from its creation over the loops that run it to its end. The row is
`status`, `plan`, `sent`, `tried`, the budgets and so on; `StatusAfter` is the transition table of GoalStore
with its refusals, through which every change of status goes. `pc` is what the loop awaits; each
`handle...Outcome` is an action, and so is each way on from `planWithSpiral` and from the validation. A plan
is a sequence of steps for the agent, for a tool or that send a file; put-off sends and what a replan keeps
of them (`Carry`) are there. The user may cancel or add to the request whenever the loop awaits, the process
may restart.

**`AgentTurn`** is one turn of `runWithTools`: setup with its ways around the loop, the request to the model
with all its answers, the batch of native calls with the protections in the order in which each call
passes them, the single call in JSON, the delivery loop, synthesis, fallback and commit. `Move` is the table
of AgentFSM; where the code asks for a transition the table does not list, the turn ends in `thrown`, as the
code does. `Stop` may come at any await. A call is a tool and whether it `needs` the user's authorization, which may
depend on its arguments; the fast path, which runs a tool by itself (`FastPathAllowed` is its list, at 2052 its own
gate), the batch, the JSON call, the delivery and every call by which recovery replaces one that failed
(`Replacements`) are told to the history `ranUnasked`. The replacements pass no gate of their own.

**`ConversationTurns`** is what AgentLoop keeps per conversation across turns: the entry of the active turn,
its signal, its facts and its feedback, and the validations that go on in the background. A turn is a user
request or a step of a goal; it may be refused, stopped, or overtaken once it is older than `TURN_STALE_MS`
(`Age`).

**`TelegramPolling`** is the supervisor in up to `MaxLives` lives of the process, with the lock file and
Telegram's side of a connection (`lingers`: a connection that a dead process left open). `start`,
`acquireLock` (its look and its writing are two steps), the grace, `pollingLoop`, the 409s and the circuit,
`stop` and the end of the process are actions. What `acquireLock` and `releaseLock` ask of the system may fail:
`MisreadLock` is the two inner catches (a file that cannot be read or is half written, 339; any error of
`process.kill`, so also a live process it may not signal, 348), after which the lock is taken whoever has it;
`ProceedUnlocked` is the outer one (364-367), which goes on without having written the lock, or having emptied it.

**`Scheduler`** is the table of scheduled tasks and one timer per active task. `clock` runs in half minutes,
because a timer armed in the second half of a minute fires in the second half of its minute. `owed` is a
history: the tasks one of whose minutes has begun since they ran.

**`*_proofs`** hold the theorems (section 5): `Primitives_proofs` is about `CircuitBreaker` and `SessionMutex`,
`Channels_proofs` about `MessageBus` and `TelegramPolling`, `Controller_proofs` about `Scheduler` and
`ConversationTurns`, the others about the module they are named after. Where one module of proofs extends two
components, the definitions of one of them carry its name (`MutexSpec`, `BusSpec`, `SchedulerSpec`).

## 3. Runs

| Run | Instance | Checks | Distinct states |
|---|---|---|---|
| `breaker` | 3 callers that all report, or of which some end in silence; thresholds 2 and 3, cool-down 2 ticks | `NotWedged`, `ProbesBounded`, `OpenIsTested`, `TestPeriodEnds` | 60 249 |
| `provider` | 2 calls, thresholds 2, three kinds of provider | `UsesBreaker`, `StopIsNoEvidence` | 19 604 |
| `bus` | 4 messages, redelivery, forgotten ids, queue of 2, ACKs that await, buttons, breaking turns | `BusTypeOK`, `HandedOnce`, `DiscardedStaysOut`, `EveryTextSettles` | 1 121 867 |
| `mutex` | 4 operations, timeouts, sweep | `BeginsInTurn`, `EveryOpEnds` | 40 700 |
| `records` | 6 messages, 2 at once, index saved every 3, compression from 2, a crash, a close, a compaction | `TypeOK`, `NumbersGrow`, `NothingHidden`, `RecordedIsKept` | 2 566 325 |
| `auth` | 2 requests, 2 goals, 2 callbacks at a time, texts, tools switched off, one restart or wait given up | `OneLoopPerGoal`, `RefusedNeverRuns`, `PendingIsOpen`, `WaitingGoalHasRequest`, `StepIsOneUnit`, `ApprovedGoalContinues` | 894 669 |
| `goal` | one file, plans of one step, budgets 1, 2 cycles, 2 milestones, one supplement, resumption, restart | `TypeOK`, `OutcomeRecorded`, `ReplansBounded`, `LoopEnds` | 353 120 |
| `agent_turn` | budgets 1 and 2, batches of 2 calls, guards at their least thresholds | `StepsBounded`, `FsmFollows`, `OneRequestAfterStop`, `NothingRunsUnasked`, `TurnEnds` | 1 242 619 |
| `turns` | 4 interchangeable turns of one conversation | `StopReaches`, `NeverStuck`, `FactsAreOwn`, `UserHearsOwn` | 716 073 |
| `polling` | 3 lives of the process, 2 up at once, MAX_RETRIES 1, 2 errors | `OnePoller`, `Reconnects` | 360 140 |
| `scheduler` | 2 tasks, one of them with two times, a day of 5 minutes, 8 touches | `TimersFollowRows`, `OncePerOccurrence`, `KeepsRunning` | 28 548 |
| `agent_throws` | as `agent_turn` | `NeverThrows` fails (section 6) | |

Some properties are about a part of the executions only, marked by a variable that no step changes:
`silentEnds` (breaker), `smooth` (bus), `buttonsOnly` and `patient` (authorization), `overdue` (turns). One run then
checks what holds in all executions and what holds in the marked ones.

Why the bounds are enough to be worth running:

- *Breaker.* Three callers let one spend the last attempt while a second is late from the closed period
  and a third retries; a success threshold of 3 leaves room for a period that begins with leftover
  successes. Cool-down 2 lets a late failure move one countdown and not the other.
- *Provider calls.* With two calls, one can be stopped or late in each phase while the other is in any
  other. The breaker's thresholds of 2 are the least at which a counter has a middle.
- *Bus.* With four messages one can run, two wait (one of them joined, or a file behind it) and a fourth
  is refused or joins. `MaxCopies` bounds how many texts are in hand when the channel repeats one.
- *Mutex.* Four operations: one inside, one that gives up behind it, one behind that, and one that calls
  around a sweep. The theorems hold for any number.
- *Records.* Six messages pass the saving of the index twice and compress twice; the crash, the close and
  the compaction fall between any two steps of them. Each of the five windows, opened alone, breaks a property:
  four of them within these bounds, `ahead` with eight messages of a single writer. With the
  windows shut, eight messages, two crashes and other rhythms of saving the index were run too.
- *Authorization.* Two requests and two goals: a goal that asks twice, or two goals one of which was
  abandoned with its request, or a goal and a request of AgentLoop's own. Two callbacks at a time are enough
  for a third press: the second gives up behind the tool of the first, and presses again beside it. One mishap: a
  second restart adds nothing, as a restart empties all actors, and one wait given up already lets two in.
- *Goal.* A plan of one step already is replanned, put off, carried over and completed by a later one;
  plans of one and two steps were run too (4.6 million states, the same results). Budgets of 1 and a bonus
  make the loop pass every limit. One file, because each file is sent independently of others.
- *A turn.* Two calls per batch: one decides on the other. Each guard is at the least threshold at which
  it is passed once before it trips.
- *Turns.* One working, one overtaken, one refused, and one after them.
- *Polling.* Two lives up at once with a third that died before. Two errors: one in `acquireLock` of each of two
  lives, or one there and one of the network.
- *Scheduler.* Time is cyclic, so the days are not bounded. Two times and the gap over midnight, and a
  task armed for the next minute always.

`CHECK_DEADLOCK FALSE` stands where the system may really stop (users have no more to say, every operation
is over, a turn returned, a breaker that refuses for good); the breaker's and the scheduler's runs check
deadlock.

## 4. Fairness

- *Breaker:* the clock advances; the 60 s monitor calls `getState`; each awaited call settles (providers
  are called with a timeout or a watchdog). `Traffic` is the assumption that somebody keeps asking
  `canExecute`, needed for a test period to end because nothing but calls moves a half-open circuit.
- *Bus:* a turn and the goal it runs progress (their waits have timeouts), and the send of an ACK returns.
  Nothing is assumed about users, redelivery, buttons or `/cancelar`.
- *Mutex:* a resolved promise wakes its waiter (`Enter`), a nested call returns, and an operation makes
  finitely many nested calls (strong fairness of `Leave`).
- *Authorization:* only that a tool returns or fails (`ToolEnds`). exec_command, the tool that
  most often needs authorization, stops a process that shows no activity, and `resume` catches what a tool throws.
- *Goal* (`Work`) and *turn* (`TurnStep`): what is awaited comes back, as an answer or an error; models have
  watchdogs, tools their own limits. Which answer comes is never assumed, nor that the user does anything.
- *Polling* (`Proceed`): waits end and `pollingLoop` goes on. Nothing about signals, crashes, the network or
  Telegram.
- *Scheduler:* the clock advances, a timer that is due fires at some time, `startAll`'s timeout ends and a
  trigger returns (its handler awaits nothing).

## 5. Proofs

Each theorem holds for every value of the constants that the named assumptions of its module allow: any number of
messages, calls, requests, turns, tasks or lives, any budgets and thresholds. Those about a part of the executions
say so by a variable that no step changes, as the runs do. The invariants below were checked by TLC on the runs'
instances before they were proved.

- `Primitives_proofs`, *breaker*: `TypeCorrect`; `ProbesAreBounded` (whatever callers do); `AttemptsAreAccounted`
  and `NeverWedged` (when every caller reports). `NotWedged` is not inductive: that the attempts are
  spent says nothing of who is out. The strengthening is the accounting: in half-open each counted
  attempt is still out or is one of the consecutive successes, and those stay below the threshold or the
  circuit closes. Cardinality facts are cited from FiniteSetTheorems.
- `Primitives_proofs`, *mutex*: `MutexTypeCorrect`; `TurnsAreKept` (`BeginsInTurn`, timeouts and sweeps included);
  `OneAtATime` (mutual exclusion if nobody gives up and nothing is swept). The invariant is `Chain`
  (each operation waits for its predecessor, or its predecessor is over or was forgotten), `BehindFree`
  (who has begun found it so), and the property itself, which carries the conclusion down the chain.
  `MutexIsALock` is a refinement under the same two hypotheses: the chain of promises implements `TurnLock`, which
  adds to `OneAtATime` that it is always the first of those who wait that enters, and that nested calls and the timer
  that forgets a promise do not show. With timeouts or with the sweep, TLC refutes it. `SomebodyGoesOn` is freedom from
  deadlock, timeouts and sweeps included: while one waits, an operation that called no later is inside or may enter. A
  least waiting operation is the argument: it waits for an earlier one that has called, and that is inside or over.
- `ProviderCall_proofs`: `CallsUseBreaker` (`UsesBreaker`, the refinement of `CircuitBreaker` by the calls: initial
  states map to initial states and each step to a step of one caller or a stutter); `StopIsNeverEvidence`
  (`StopIsNoEvidence`). `CallsInv` says which phases a call may have reported or been stopped in, and that
  a closed circuit counts no probes; without the last, a step that leaves the breaker as it is need not map
  to one that does. `TypeCorrect`, and `CallsProbeLittle`: the bound on the probes from one cool-down to the next holds
  for the composed system, among whose calls some end without a report.
- `Channels_proofs`, *bus*: `BusTypeCorrect`; `NeverHandedTwice` (`HandedOnce`); `DiscardedNeverRuns`
  (`DiscardedStaysOut`), in the executions that `smooth` does not restrict. The invariant places each message:
  `Shapes` types the variables, `Numbered` says that waiting entries are numbered apart and headed by one of their
  texts, and `Placed` says that a message is in at most one of the waiting texts and the unread supplements, that
  one handed over is in neither unless its turn broke, and that the ids of all of these are remembered.
  `NothingSwallowed` is about the executions that `smooth` marks: every text and file that reached `processMessage`
  waits, is unread with the goal, or was handed over, discarded or refused. It is the part of `EveryTextSettles` that
  a step could break. `Steady` is what it needs: no send is awaited, a goal that takes supplements or left some unread
  has a turn that has not ended (so that `reprocessOrphanedSupplements` still comes), and the entry that later texts
  join is in the queue, not running. Each of these three fails in the executions that are not `smooth`, and then
  texts are swallowed (section 6, *Bus*).
- `Channels_proofs`, *polling*: `TypeCorrect`; `OnlyOnePolls`, with every failure of `acquireLock` and
  `releaseLock`. `HoldsLock`: who reads updates and was not told to end finds its own pid in the file, unless it
  proceeded without a lock or was robbed of it, by one that wrote after looking, that misread it, or whose failed
  write emptied the file; `FoundGone`: who writes over a pid it found dead found its process gone, and gone is for good.
- `Authorization_proofs`: `TypeCorrect`; `RefusalHolds` (`RefusedNeverRuns`): a refused request has lost
  its row, and rows of numbers already given are never inserted again; `OneLoop` (`OneLoopPerGoal`): the
  invariants say that a goal being run does not wait for any request that could be carried out, so
  nobody else can resume it, even when a text and a button both had its request approved. Where buttons alone
  answer, whether callbacks overlap or not, `PendencyIsOpen` and `WaitingIsAnswerable`. `ByButtons` is their invariant:
  only callbacks run tools and they then look for a goal (`ClicksRunTools`), no two goals wait for one request
  (`OneWaits`), and the row somebody waits for was not deleted. `OneUnit` is the refinement of `AuthorizedStep`, shown
  action by action, in the executions that `patient` marks: `InLine` is what the chain of promises then is (of two
  callbacks one waits for the other, and who works waits for nobody), so one works at a time; and `RunsOnce` that a
  row in `executing` has its tool running, and that no tool was started twice. Any number of callbacks may press.
- `GoalLoop_proofs`: `ControlCorrect` and `TypeCorrect`; `OutcomeIsRecorded`: `StatusFits` adds, for each place of the
  loop, from which statuses the table still lets the row reach what the loop is about to return;
  `ReplansAreBounded`: the calls made and the budget left add up to the first budget and what was granted
  (`BudgetFits`), and bonuses to those of the runs begun (`BonusesFit`). `TypeCorrect` covers the plan, which
  replans, carried sends and dependencies rebuild (`PlanInv`), and needs what `Those`, a recursive function over
  the places of a plan, returns for every plan (`ThoseAre`). The library's induction theorems cannot be
  instantiated by the provers, so such lemmas argue from a least counterexample (`WFMin` on the naturals).
  `LoopUsesItselfUp` is the argument for `LoopEnds`: everything the loop does ends it or lowers a `Measure` of six
  naturals in the order of dictionaries (cycles without progress left, plans to come, whether it is still in its cycles,
  steps to run, sends to try, way to the end of the cycle), and only an addition of the user can raise it meanwhile;
  `MeasuresAreWellFounded` says that nothing is lowered for ever. Two facts make it true, which `EffortInv` adds: a step
  is run, handled and judged only in a cycle that may yet pass without progress, and only an agent puts sends off, so
  that a send that is done leaves no other behind. `GoalLoop_proofs` leaves to TLC that some step of the loop is
  always enabled, and fairness.
- `SessionRecords_proofs`: `RecordsTypeCorrect` (`TypeOK` is inductive as it stands) and `NumbersAlwaysGrow`,
  whichever windows are open. `NumbersGrow` says nothing of what will be written: `Numbers` adds that the counter the
  next entry follows (the index in memory, or the one an opening would find) is not behind any line, and that the
  lines a compaction holds grow; `Phases` says who holds the conversation in each phase of a compaction.
  `SortedIsInOrder` is the lemma that the order of a compaction is what a sort gives, for any finite set of lines.
  The other theorems rest on `Fits`, which relates the file to everybody who reads or writes it. An index in use,
  saved, or kept by a compaction is `At` the file: it was right when the file ended at its `lastOffset`, the lines
  after that have greater numbers, and its marks are at checkpoint entries, so that it may lag but never
  mislead. A checkpoint comes after everything its summary was made of (`Summaries`); what a call or a compaction has
  read misses only what is summed up (`ReadsFrom`, `CallFits`); what a compaction will write says as much as the
  file (`CompactionFits`); and `Held` says who may be where in each phase. `FitsStep` shows that every step keeps it
  as long as the numbers grow, crashes that leave no misleading index included (`CrashFits`). From it:
  - `NothingHiddenWhileNumbersGrow`, with all five windows shut: in every state of an execution whose file has had
    growing numbers so far, nothing is hidden, after any number of crashes, closes, openings,
    rebuilds, compressions and compactions, whichever step a crash fell on and whether the saved index survived it.
    (A finite execution is covered by stuttering on from its last state.)
  - `FirstCrashHidesNothing`, with the five shut: the process that comes after the first crash hides nothing. Its
    numbers do grow: the crash only shortens a file that had them.
  - `NothingHiddenUntilCrash` and `RecordedAlwaysKept`, with `lateWrite`, `staleRead` and `unflushed` shut, whatever
    the two windows that only a crash opens.
- `AgentTurn_proofs`: `TypeCorrect`; `FsmIsFollowed` (the table is evaluated once, in the lemma `Table`);
  `StepsAreBounded` (`StepInv`: the budget passes its maximum by two once,
  when it was extended, and the steps pass the budget by the two of the delivery); `AskedOnceAfterStop`
  (`LateInv`: a request sent after Stop can only be answered by "cancelled", which ends the turn);
  `NothingUnasked` (`NothingRunsUnasked`), over every way in which a turn executes a call: the fast path's, the
  batch's, JSON's and the delivery's calls, and recovery's replacements of them, about which it rests on what
  RECOVERY's table can put there.
- `Controller_proofs`, *scheduler*: `TimersAlwaysFollowRows`; `OnceForEach` (`OncePerOccurrence`), for any set of
  times. A task that is armed again in its minute is the difficulty; `DueIsAsked` says that a timer whose task owes
  nothing is due in a minute the task asks for that has not begun.
- `Controller_proofs`, *turns*: `TypeCorrect`, `StopAlwaysReaches`, `NeverLeftStuck`, `FactsAreTheTurns`,
  `UserHearsOwnTools`. `GuardInv` says that the registered turn works and, where none is overtaken, that
  nothing else does; `EntryIsOwn` that the entry then holds only its facts; `SignalsListed` and
  `OthersCut` that a validation of another turn has had its signal cut before a user's turn begins.

So every invariant and every action property of the passing runs has a theorem, `NothingHidden` under a hypothesis.
What is left:

- the liveness properties (`OpenIsTested`, `TestPeriodEnds`, `EveryTextSettles`, `EveryOpEnds`,
  `ApprovedGoalContinues`, `LoopEnds`, `TurnEnds`, `Reconnects`, `KeepsRunning`), which the provers cannot do under
  fairness. `NothingSwallowed`, `SomebodyGoesOn` and `LoopUsesItselfUp` are what a step could break of
  `EveryTextSettles`, `EveryOpEnds` and `LoopEnds`; `NeverWedged` of `TestPeriodEnds`;
- `NothingHidden` once numbers have repeated. A process that trusts a saved index of up to `SaveEvery - 1` entries
  ago gives the numbers of the lines after it again; `NothingHidden` claims nothing while two lines carry one number,
  but a compaction, or a second crash that cuts the file, can make the numbers grow again. An inductive invariant has to
  say what the file is worth in between. TLC checks these executions in `records`; longer ones, of up to four crashes,
  were simulated (130 million states) without a counterexample.

Where `lateWrite`, `staleRead` or `unflushed` is open there is nothing to prove: each makes `RecordedIsKept` or
`NothingHidden` false.

## 6. Where the code departs from what it says

One disagreement has a run whose counterexample shows it (`findings` in `PROJECT.json` quotes the lines):
`agent_throws`. A JSON call that is blocked (`AgentLoop.ts` 2789-2813) returns to the loop without
`TOOL_COMPLETED`; the next request to the model is a transition the table forbids and throws out of the turn.

Others were met while modelling. A property either is stated for the executions in which they do not
occur or was chosen so that it holds across them:

- *Breaker and callers.* A stopped call, an empty answer, a call without a model or an uncounted local
  failure records nothing but has spent an attempt; once all are spent the circuit stays half-open and
  refuses every call (`ProviderFactory.ts` 587, `CognitiveKernelGate.ts` 152). The admission that turns a
  circuit half-open is not counted (one probe more than `successThreshold`; `ProbesBounded` says that it is at most
  `successThreshold + 1` from one cool-down to the next); `execute` limits nothing while half-open although its comment says one attempt; successes
  reported while open count towards closing.
- *Bus.* The ACK is awaited (499-508) before the waiting entry is opened for later texts (511); if the entry
  has started by then, the texts join a list already read, and are swallowed. Unread supplements join a
  waiting entry behind texts sent after them; supplements of a goal that only waits for authorization are
  reprocessed as if it had ended; a supplement to a goal resumed by a button stays unread when the goal
  ends; `/cancelar` during the media and transcript phase finds no registered turn; a broken turn frees
  only its head's id; the age timer forgets ids still in flight.
- *Mutex.* An operation that gives up after 45 s resolves its own promise (142) while the one it waited for
  is inside, so the next one enters beside it, which the comment at 115 excludes. The sweep forgets a mutex
  that came into use while it awaited the transcript's close.
- *Records.* After a crash the saved index is up to nine entries old: numbers repeat, and entries that
  come later sort among or before those they follow. The sweep drops the summary from memory, and it is
  used again only after a restart. `init`'s rebuild lets two transcripts open on one file after a crash.
  The windows: an append between `end()` and its completion is lost (`lateWrite`); a compaction that reads
  before a write is out loses it (`unflushed`); a crash between the new file and the removal of the old
  index hides entries (`torn`); a read that a compaction overtakes summarises the wrong lines (`staleRead`); a crash
  that leaves a saved index which counts lines that are not in the file (the index is written at once, the stream
  is not) makes the next checkpoints point past live lines (`ahead`). The last was met in trying to prove
  `NothingHidden` across a crash.
- *Authorization.* `resume` does not look at the status it stores and the text path takes no mutex, so a text
  and a button run the tool twice. So do buttons alone, with a tool of more than 45 s: the first press runs it, the
  second gives up waiting and thereby resolves its promise (`SessionManager.ts` 142), and the third enters beside the
  first and resumes the same row; or the record of a message gives up; or the sweep forgets the mutex of a
  session whose callback has worked for 15 minutes. The comment at 115 and `S99_WorkflowCallback_SerializedWithTurn.test.ts`
  say that callbacks are serialised. `StepIsOneUnit` is therefore about the executions without such a wait
  (`patient`); the other properties hold with overlapping callbacks too. A restart between `executing` and the deletion of a row leaves the old
  button able to run it again; the text path to a goal's request never clears AgentLoop's pendency; a
  resumed goal that needs a second authorization shows no buttons; a goal abandoned for a new task leaves
  its request answerable. With texts, or with a tool switched off, a goal can be left blocked on a
  request that is gone.
- *Goal loop.* Sends that were put off are lost where a milestone ends (1499-1502) and in two other
  replacements of the plan, although `S348_DeferredSend_KeptAcrossReplan.test.ts` says they are kept; a step
  that needs authorization without options leaves the goal blocked on no request (1202-1226); a
  cancellation during validation still lets files be sent and success returned, while the row stays abandoned;
  after the last cycle files are delivered for an abandoned goal too; the `+1` bonus pays for two replans.
  `adjustedRoadmap` never arrives, so the branches at 470, 648 and 1512 never run.
- *A turn.* After Stop, the remaining calls of a batch are still dispatched: retries break on the signal, but
  recovery's changed arguments and fallback tools run without it (`ProactiveRecovery.ts` 310, 355).
  None of these replacements passes the gate of authorization; that none of them needs it is a matter of RECOVERY's
  table. The fast path's tool has no signal. A turn without a session leaves its machine in THINKING.
- *Turns.* A turn older than `TURN_STALE_MS` is overtaken though turns have no time limit any more; its
  `finally` (1618) then clears the entries of the one that overtook it, so Stop no longer reaches that one and a
  third may start beside it. A validation of an earlier step of a goal pushes its verdict into whatever
  turn the conversation has by then, although the comment at 852 says per turn.
- *Polling.* The lock's look and its writing are separate, so two processes that start together both read. So do
  two when the lock cannot be read (339), when `process.kill` fails for a live process, as with EPERM (348), or when
  the lock cannot be written ("proceeding anyway", 364-367): `OnePoller` says that one of the two was then robbed, or
  went on without a lock, and that there is no other way but for a life that was told to end;
  a process refused because the old one lives never tries again; `stop` during `getMe` is not seen before
  `bot.start`; a `start` after a signal resets it. Since `onStart` precedes the first `getUpdates` and resets the
  retries, 409s of `getUpdates` always cool down 10 s and never open the circuit.
- *Scheduler.* A task armed again in its minute before its second (by a user, or a start) loses that day's
  time; a cron expression that names no hour (`0 * * * *`) fires every minute instead of every hour;
  `parseTimeInput` turns "8h30" into hours 8 and 30, and keeps only the first of several minutes; the cap at
  24 h says re-evaluate but triggers; a clock set back (an hour, in autumn) triggers twice. `last_run` is
  written though the turn was refused because the conversation was busy.

## 7. What the models leave out

- *Breaker:* metrics and the registry's map. *Provider calls:* choice of provider and model, prompts, the
  queue per provider.
- *Bus:* messages are numbered by the order they are routed, so the await of the stored-secret notice is
  folded away; non-priority commands and attachments are one kind, `file`; marking a message done follows
  its sends in one step; adapters' start, stop and reconnection are not there. The sweep of idle queues is
  left out: a queue it removes equals a new one.
- *Mutex:* the 60 s timer fires at any time after its promise is resolved.
- *Records:* a session is closed only when idle, and not compacted while its index has to be rebuilt or it
  is closing; texts are numbers, summaries are the sets of messages they were made of.
- *Authorization:* of the mutex, what callbacks do to each other: a turn's record of a message waits for a line
  that is empty, or gives up, and holds it for no time of its own; asking and blocking are one step (only a
  progress message is awaited between them); kernel escalations (off by default) and the in-memory table
  are not modelled.
- *Goal loop:* what planner, risk analyser, judges, tools and agent answer is chosen freely; blockers,
  criteria, attempts, hints, the details of strategy diversity and the kernel's escalation are left out, but
  for what the loop decides by them.
- *A turn:* the guards that count equal tools (4 or more) and groups (6 or more) may trip after any tool;
  edits are of one file; that the context is full and that the user wants an analysis are chosen freely.
- *Turns:* validations are not followed in executions in which a turn is overtaken.
- *Polling:* lengths of waits; pids are those of one machine and are not given again, so that equal pids in two
  containers are covered only as a lock that is misread; `stop` may come any number of times after the signal; an error that is neither
  409 nor network ends the loop, as in the code.
- *Scheduler:* parsing of times and actions; the database may not fail.
- *Not modelled at all:* LifecycleManager (`shutdown` runs once, stops services in turn, and the process
  exits) and BackgroundCognitionQueue (a loop that takes one task at a time; one that timed out runs on); the
  memory graph, skills, prompt composition and validation by models, whose correctness is about the
  quality of what they choose; dashboard, backup, synchronisation and the adapters of channels and providers,
  which are input and output.

## 8. Plan

Done: the eleven components above with their runs, theorems for all of them, and the three refinements proved.

What would come next, in this order:

1. `NothingHidden` in files whose numbers have repeated: an invariant for what such a file is worth.
2. That the line of `Authorization`'s callbacks is what `SessionMutex` does, as a refinement.
3. `GoalLoop` and `Authorization` composed: the request of `needs_auth` and the loop that resumes.
4. Reconnection of adapters in the bus with `stopAll`, and the lifecycle's shutdown across components.
