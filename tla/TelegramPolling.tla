---------------------------- MODULE TelegramPolling ----------------------------
(***************************************************************************)
(* Who reads the updates of the bot: the lives of the process, one after   *)
(* another or side by side, each with a TelegramPollingSupervisor          *)
(* (channels/TelegramPollingSupervisor.ts), the lock file they share, and  *)
(* Telegram, which lets one connection read at a time and answers 409 to   *)
(* another.  SIGTERM or SIGINT calls stop from the supervisor's own        *)
(* handler at once and from MessageBus.stopAll later; how often it is      *)
(* called is left open.  So are delays: whatever waits may end any time.   *)
(***************************************************************************)
EXTENDS Integers, FiniteSets

CONSTANTS MaxLives,   \* bound: lives of the process
          MaxUp,      \* bound: lives at the same time
          MaxRetries, \* MAX_RETRIES
          MaxErrors   \* bound: failures of getMe, of bot.start's set-up and of
                      \* what acquireLock and releaseLock ask of the system

ASSUME LimitsAssumption == {MaxLives, MaxUp} \subseteq Nat /\ MaxRetries \in Nat /\ MaxErrors \in Nat

Lives == 1..MaxLives   \* by the order in which they begin; 0 is none

VARIABLES
    at,        \* what start and pollingLoop of each life are doing
    found,     \* the pid each life found in the lock file, of one that is over
    stopped,   \* lives whose supervisor has "stopped" set
    signalled, \* lives that were told to end
    retries,   \* retryAttempt
    lock,      \* the pid in the lock file; 0: no file, or no pid to be read in it
    robbed,    \* history: lives whose lock was written over or emptied by one
               \* that had not found it there, or not read it, or read them dead
    unlocked,  \* history: lives that went on without having written the lock
    lingers,   \* Telegram still has the connection of a life that is over
    errors

lockFile == <<found, lock, robbed, unlocked>>
stopping == <<stopped, signalled>>
telegram == <<lingers, errors>>
vars == <<at, lockFile, stopping, retries, telegram>>

Up(p) == at[p] \notin {"down", "gone"}
Go(p, where) == at' = [at EXCEPT ![p] = where]

-----------------------------------------------------------------------------
(* The process begins; startAll calls start, which resets "stopped" even if *)
(* the signal came first.                                                   *)
Begin(p) ==
    /\ at[p] = "down" /\ (p > 1 => at[p - 1] # "down")
    /\ Cardinality({q \in Lives : Up(q)}) < MaxUp
    /\ Go(p, "up")
    /\ UNCHANGED <<lockFile, stopping, retries, telegram>>

Start(p) ==
    /\ at[p] = "up"
    /\ stopped' = stopped \ {p}
    /\ Go(p, "locking") \/ Go(p, "off")   \* detectClusterMode: secondary
    /\ UNCHANGED <<lockFile, signalled, retries, telegram>>

(* acquireLock looks whether the pid in the file lives, and then writes its *)
(* own: another process may do so in between.                               *)
ReadLock(p) ==
    /\ at[p] = "locking"
    /\ found' = [found EXCEPT ![p] = lock]
    /\ Go(p, IF lock \in Lives \ {p} /\ Up(lock) THEN "off" ELSE "writing")
    /\ UNCHANGED <<lock, robbed, unlocked, stopping, retries, telegram>>

(* A call to the file system or to process.kill that throws.                *)
SystemFails == errors < MaxErrors /\ errors' = errors + 1

(* The inner catches: a file that cannot be read or is half written, or a   *)
(* live process that process.kill cannot reach (another user's, another     *)
(* machine's), is a lock that nobody has.                                   *)
MisreadLock(p) ==
    /\ at[p] = "locking"
    /\ SystemFails
    /\ found' = [found EXCEPT ![p] = 0]
    /\ Go(p, "writing")
    /\ UNCHANGED <<lock, robbed, unlocked, stopping, retries, lingers>>

(* What p does to the file is done to whoever has it by now; only one that  *)
(* p found to be over loses nothing.                                        *)
WritesOver(p, pid) ==
    /\ lock' = pid
    /\ robbed' = robbed \union ({lock} \ {0, p, found[p]})

WriteLock(p) ==
    /\ at[p] = "writing"
    /\ WritesOver(p, p)
    /\ found' = [found EXCEPT ![p] = 0]
    /\ Go(p, "grace")
    /\ UNCHANGED <<unlocked, stopping, retries, telegram>>

(* The outer catch, "proceeding anyway": the file is as it was, or the      *)
(* write has emptied it before it failed.                                   *)
ProceedUnlocked(p) ==
    /\ at[p] = "writing"
    /\ SystemFails
    /\ WritesOver(p, 0) \/ UNCHANGED <<lock, robbed>>
    /\ unlocked' = unlocked \union {p}
    /\ found' = [found EXCEPT ![p] = 0]
    /\ Go(p, "grace")
    /\ UNCHANGED <<stopping, retries, lingers>>

-----------------------------------------------------------------------------
(* The head of pollingLoop, with the retryAttempt it finds.                 *)
Attempt(p, r) ==
    Go(p, IF p \in stopped THEN "off" ELSE IF r > MaxRetries THEN "circuitOpen" ELSE "asking")

GraceEnds(p) ==
    /\ at[p] = "grace"
    /\ Attempt(p, retries[p])
    /\ UNCHANGED <<lockFile, stopping, retries, telegram>>

CooldownEnds(p) ==
    /\ at[p] = "coolingDown"
    /\ Attempt(p, retries[p])
    /\ UNCHANGED <<lockFile, stopping, retries, telegram>>

CircuitStaysOpen(p) ==   \* Mistake: the next attempt opens it again.
    /\ at[p] = "circuitOpen"
    /\ Attempt(p, retries[p])
    /\ UNCHANGED <<lockFile, stopping, retries, telegram>>
CircuitCloses(p) ==
    /\ at[p] = "circuitOpen"
    /\ retries' = [retries EXCEPT ![p] = 0]
    /\ Attempt(p, 0)
    /\ UNCHANGED <<lockFile, stopping, telegram>>

(* bot.start is called whether stop came during getMe or not.               *)
GetMeAnswers(p) ==
    /\ at[p] = "asking"
    /\ Go(p, "starting")
    /\ UNCHANGED <<lockFile, stopping, retries, telegram>>

(* onStart: the first getUpdates goes out after it.                         *)
BotStarts(p) ==
    /\ at[p] = "starting"
    /\ retries' = [retries EXCEPT ![p] = 0]
    /\ Go(p, "polling")
    /\ UNCHANGED <<lockFile, stopping, telegram>>

(* The catch of the loop, which a stopped life leaves.  After MAX_RETRIES   *)
(* handle409 does not cool down: the head opens the circuit.                *)
Conflict(p) ==
    /\ retries' = [retries EXCEPT ![p] = IF p \in stopped THEN @ ELSE @ + 1]
    /\ Go(p, IF p \in stopped THEN "off"
             ELSE IF retries[p] >= MaxRetries THEN "circuitOpen" ELSE "coolingDown")
NetworkError(p) ==
    /\ Go(p, IF p \in stopped THEN "off" ELSE "coolingDown")
    /\ UNCHANGED retries
OtherError(p) ==
    /\ Go(p, "off")
    /\ UNCHANGED retries

SetupFails(p) ==
    /\ at[p] \in {"asking", "starting"}
    /\ SystemFails
    /\ Conflict(p) \/ NetworkError(p) \/ OtherError(p)
    /\ UNCHANGED <<lockFile, stopping, lingers>>

(* 409 to getUpdates: another connection reads.                             *)
PollingFails(p) ==
    /\ at[p] = "polling"
    /\ lingers \/ \E q \in Lives \ {p} : at[q] = "polling"
    /\ Conflict(p)
    /\ UNCHANGED <<lockFile, stopping, telegram>>

-----------------------------------------------------------------------------
(* stop: "stopped" is set, and the lock goes when the 5 s are over.         *)
StopBegins(p) ==
    /\ Up(p)
    /\ signalled' = signalled \union {p}
    /\ stopped' = stopped \union {p}
    /\ UNCHANGED <<at, lockFile, retries, telegram>>

ReleaseAnyLock(p) == lock' = 0 /\ errors' = errors   \* Mistake: the pid is not compared.
ReleaseLock(p) ==
    \/ lock' = (IF lock = p THEN 0 ELSE lock) /\ errors' = errors
    \/ SystemFails /\ lock' = lock   \* the catch of releaseLock

(* bot.stop does nothing to a bot that has not started.                     *)
StopEnds(p) ==
    /\ Up(p) /\ p \in signalled
    /\ ReleaseLock(p)
    /\ lingers' = (lingers \/ at[p] = "polling")
    /\ Go(p, IF at[p] \in {"starting", "polling"} THEN "off" ELSE at[p])
    /\ UNCHANGED <<found, robbed, unlocked, stopping, retries>>

(* The process exits once the bus has stopped, or dies before; its memory   *)
(* goes with it, the lock does not.  A lock that was being written is left  *)
(* empty.                                                                   *)
Ends(p) ==
    /\ Up(p)
    /\ \/ UNCHANGED <<lock, robbed>>
       \/ at[p] = "writing" /\ WritesOver(p, 0)
    /\ Go(p, "gone")
    /\ found' = [found EXCEPT ![p] = 0] /\ retries' = [retries EXCEPT ![p] = 0]
    /\ stopped' = stopped \ {p} /\ signalled' = signalled \ {p}
    /\ lingers' = (lingers \/ at[p] = "polling")
    /\ UNCHANGED <<unlocked, errors>>

ConnectionCloses ==
    /\ lingers /\ lingers' = FALSE
    /\ UNCHANGED <<at, lockFile, stopping, retries, errors>>

-----------------------------------------------------------------------------
Init ==
    /\ at = [p \in Lives |-> "down"]
    /\ found = [p \in Lives |-> 0] /\ lock = 0 /\ robbed = {} /\ unlocked = {}
    /\ stopped = {} /\ signalled = {}
    /\ retries = [p \in Lives |-> 0]
    /\ lingers = FALSE /\ errors = 0

(* What goes on by itself once the supervisor was started.                  *)
Proceed(p) ==
    \/ ReadLock(p) \/ MisreadLock(p) \/ WriteLock(p) \/ ProceedUnlocked(p) \/ GraceEnds(p)
    \/ CooldownEnds(p) \/ CircuitCloses(p) \/ GetMeAnswers(p) \/ BotStarts(p)

Next ==
    \/ \E p \in Lives :
         \/ Begin(p) \/ Start(p) \/ Proceed(p) \/ SetupFails(p) \/ PollingFails(p)
         \/ StopBegins(p) \/ StopEnds(p) \/ Ends(p)
    \/ ConnectionCloses

Spec == Init /\ [][Next]_vars /\ \A p \in Lives : WF_vars(Proceed(p))

-----------------------------------------------------------------------------
TypeOK ==
    /\ {robbed, unlocked, stopped, signalled} \subseteq SUBSET Lives
    /\ at \in [Lives -> {"down", "up", "locking", "writing", "grace", "asking",
                         "starting", "polling", "coolingDown", "circuitOpen", "off", "gone"}]
    /\ found \in [Lives -> 0..MaxLives] /\ lock \in 0..MaxLives
    /\ retries \in [Lives -> 0..(MaxRetries + 1)]
    /\ lingers \in BOOLEAN /\ errors \in 0..MaxErrors

(* Of two lives that nobody told to end, both read updates only if one had  *)
(* its lock written over by a life that had not found it dead, or proceeded *)
(* without one: a refused life, one that ends, or one whose lock is stale   *)
(* never opens the door to a second reader.                                 *)
OnePoller ==
    \A p, q \in Lives :
        p # q /\ at[p] = "polling" /\ at[q] = "polling"
            => {p, q} \intersect (robbed \union unlocked \union signalled) # {}

(* A life that cools down reads updates again, unless it ends or meets an   *)
(* error that is neither a conflict nor the network's.                      *)
Reconnects ==
    \A p \in Lives : at[p] \in {"coolingDown", "circuitOpen"} ~> at[p] \in {"polling", "off", "gone"}
=============================================================================
