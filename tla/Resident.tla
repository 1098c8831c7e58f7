------------------------------ MODULE Resident ------------------------------
(***************************************************************************)
(* The process of the resident service (watch and syncOnce in main.go): a  *)
(* turn, then a wait for the timer or a signal, forever.  A turn logs in   *)
(* to Vault as VaultAuth describes and runs ceph commands (runCommand in   *)
(* ceph.go) under the same deadline.  What the turns do to Vault is the    *)
(* subject of SecretSync, where a turn is Poll and the steps after it.     *)
(***************************************************************************)
EXTENDS VaultAuth

CONSTANT Interval       \* -interval

ASSUME ResidentAssumption == Interval \in Nat \ {0}

VARIABLES
    at,             \* the place in watch, or in a ceph command of the turn
    waited,         \* the time since select was entered
    trigger,        \* the signals in the channel "trigger", which holds one
    owed,           \* a signal has come since the configuration was last loaded
    stopping        \* ctx is cancelled: SIGTERM or an interrupt has come

watchVars == <<at, waited, trigger, owed, stopping>>
vars == <<cache, client, issued, phase, section, answer, logins, spent, outcome,
          at, waited, trigger, owed, stopping>>

Place == {"load", "turn", "command", "orphan", "select", "exited"}

TypeOK ==
    /\ AuthTypeOK
    /\ at \in Place
    /\ waited \in 0..Interval
    /\ trigger \in 0..1
    /\ owed \in BOOLEAN
    /\ stopping \in BOOLEAN

\* A process that has just been started, for whatever reason.
Started ==
    /\ at' = "load"
    /\ waited' = 0
    /\ trigger' = 0
    /\ stopping' = FALSE

Init ==
    /\ AuthInit
    /\ at = "load"
    /\ waited = 0
    /\ trigger = 0
    /\ owed = FALSE
    /\ stopping = FALSE

-----------------------------------------------------------------------------
(* The loop.                                                               *)

\* syncOnce reads the configuration, which may have changed since the last
\* turn, and starts the deadline only then.
LoadConfig(s) ==
    /\ at = "load"
    /\ BeginTurn(s)
    /\ at' = "turn"
    /\ owed' = FALSE
    /\ UNCHANGED <<waited, trigger, stopping>>

\* The configuration is missing, partial or invalid: watch prints and waits.
LoadFails ==
    /\ at = "load"
    /\ at' = "select"
    /\ waited' = 0
    /\ owed' = FALSE
    /\ UNCHANGED <<authVars, trigger, stopping>>

\* Variant of Cancelled: the context of the turn has no deadline.
CancelledByStop == stopping

\* The context of the turn: requests and commands under way fail.
Cancelled == stopping \/ spent = Timeout

\* A step of the turn; the last one leads to the select of watch.
Turn(step) ==
    /\ at = "turn"
    /\ step
    /\ at' = IF phase' = "closed" THEN "select" ELSE "turn"
    /\ waited' = 0
    /\ UNCHANGED <<trigger, owed, stopping>>

\* A ceph command of synchronize is started, and ends.
RunCommand ==
    /\ at = "turn" /\ phase = "request"
    /\ ~Cancelled
    /\ at' = "command"
    /\ UNCHANGED <<authVars, waited, trigger, owed, stopping>>

CommandEnds ==
    /\ at = "command"
    /\ at' = "turn"
    /\ UNCHANGED <<authVars, waited, trigger, owed, stopping>>

\* The process that exec has started is killed.  Output also waits until
\* nobody has the pipe open any more; when the command is a wrapper ("sudo -n
\* ceph") the process it has started goes on, and keeps the pipe.
CommandKilled ==
    /\ at = "command" /\ Cancelled
    /\ at' \in {"turn", "orphan"}
    /\ UNCHANGED <<authVars, waited, trigger, owed, stopping>>

\* The pipe is closed at last; the command has failed, and the turn with it.
OrphanEnds ==
    /\ at = "orphan"
    /\ EndTurn("failed")
    /\ at' = "select"
    /\ waited' = 0
    /\ UNCHANGED <<trigger, owed, stopping>>

Work ==
    \/ Turn(ConnectStep)
    \/ ~Cancelled /\ Turn(VaultStep)
    \/ Turn(TurnEnds)
    \/ RunCommand \/ CommandEnds

\* The deadline has passed, or the process is to stop.
GiveUp == (Cancelled /\ Turn(LoginFails \/ TurnFails)) \/ CommandKilled

Woken ==
    /\ at = "select"
    /\ trigger = 1
    /\ trigger' = 0
    /\ at' = "load"
    /\ UNCHANGED <<authVars, waited, owed, stopping>>

TimerFires ==
    /\ at = "select"
    /\ waited = Interval
    /\ at' = "load"
    /\ UNCHANGED <<authVars, waited, trigger, owed, stopping>>

\* Variant of Stops: signals come first.
StopsWhenQuiet ==
    /\ at = "select"
    /\ stopping /\ trigger = 0
    /\ at' = "exited"
    /\ UNCHANGED <<authVars, waited, trigger, owed, stopping>>

Stops ==
    /\ at = "select"
    /\ stopping
    /\ at' = "exited"
    /\ UNCHANGED <<authVars, waited, trigger, owed, stopping>>

-----------------------------------------------------------------------------
(* The environment.                                                        *)

\* Variant of Signal: the channel has no buffer.
SignalUnbuffered ==
    /\ at # "exited"
    /\ trigger' = IF at = "select" THEN 1 ELSE trigger
    /\ owed' = TRUE
    /\ UNCHANGED <<authVars, at, waited, stopping>>

\* SIGHUP or SIGUSR1: the runtime drops it when the channel is full.
Signal ==
    /\ at # "exited"
    /\ trigger' = 1
    /\ owed' = TRUE
    /\ UNCHANGED <<authVars, at, waited, stopping>>

Terminate ==
    /\ at # "exited" /\ ~stopping
    /\ stopping' = TRUE
    /\ UNCHANGED <<authVars, at, waited, trigger, owed>>

\* The process dies and systemd starts it again, or it was stopped and an
\* operator does.  The login cache is in memory only.
Restart ==
    /\ cache' = EmptyCache
    /\ client' = NoClient
    /\ issued' = [t \in Token |-> Unissued]
    /\ phase' = "closed"
    /\ section' = NoSection
    /\ answer' = NoToken
    /\ logins' = 0
    /\ spent' = 0
    /\ outcome' = "none"
    /\ Started
    /\ UNCHANGED owed

\* Time does not pass while select has a branch to take, nor after the deadline
\* of a turn, unless the process waits for an orphan.
Ready ==
    \/ at = "select" /\ (trigger = 1 \/ waited = Interval \/ stopping)
    \/ at # "orphan" /\ spent = Timeout

Tick ==
    /\ ~Ready
    /\ AuthTick
    /\ waited' = IF at = "select" THEN waited + 1 ELSE waited
    /\ UNCHANGED <<at, trigger, owed, stopping>>

Next ==
    \/ \E s \in Section : LoadConfig(s)
    \/ LoadFails \/ Work \/ GiveUp \/ OrphanEnds
    \/ Woken \/ TimerFires \/ Stops
    \/ Signal \/ Terminate \/ Restart
    \/ (\E t \in Token : Revoke(t)) /\ UNCHANGED watchVars
    \/ Tick

\* Time passes and the process runs: it loads its configuration, notices the
\* end of a context and leaves select.  Nothing it asks for has to be answered.
\* select chooses at random among the branches that are ready, so one that is
\* ready again and again is taken.
Fairness ==
    /\ WF_vars(\E s \in Section : LoadConfig(s))
    /\ WF_vars(GiveUp)
    /\ WF_vars(Woken \/ TimerFires \/ Stops)
    /\ SF_vars(Stops)
    /\ WF_vars(Tick)

Spec == Init /\ [][Next]_vars /\ Fairness

-----------------------------------------------------------------------------
(* Properties.                                                             *)

\* A signal is not forgotten, however many come and wherever the loop is: it
\* is in the channel, or the configuration is about to be loaded.  (README
\* "Reloading triggers an immediate synchronization on that node"; the
\* channel of capacity one in main, select in watch.)
SignalIsKept == owed => (trigger = 1 \/ at \in {"load", "exited"})

\* The service goes on to its next turn, whatever Vault and Ceph do not
\* answer, unless it has been stopped or waits for a process that a killed
\* command has left behind.  (README "then polls every 15 seconds"; watch,
\* the deadline of syncOnce, runCommand.)
KeepsPolling == []<>(at = "load") \/ <>[](at = "exited") \/ <>[](at = "orphan")

\* A service that is told to stop does, even if signals keep coming and
\* select prefers them, unless it waits for such a process.  (NotifyContext
\* in main; watch.)
StopsWhenTold == stopping ~> (at \in {"exited", "orphan"} \/ ~stopping)

=============================================================================
