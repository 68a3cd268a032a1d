-------------------------- MODULE PeriodicExecutor --------------------------
(***************************************************************************)
(* The periodic executor (util/periodicexecutor.go) that runs every puller *)
(* of the server (server/agentcomm/puller.go), and the REST handler that   *)
(* pauses the puller of states while it adds a machine                     *)
(* (server/restservice/machines.go).                                       *)
(*                                                                         *)
(* One goroutine waits for a tick or for the end.  It stops the ticker     *)
(* while the function runs, and reads the setting with the interval after  *)
(* every turn.  Handlers stop the ticker too; calls of Pause are counted.  *)
(* Time is left out: an armed ticker may fire at any moment.               *)
(***************************************************************************)
EXTENDS Integers, FiniteSets

CONSTANTS
  Intervals,         \* values of the setting in the database; 0 disables
  InactiveInterval,  \* the interval of a disabled executor
  Handlers,          \* handlers that add a machine
  MaxSettings        \* bound: changes of the setting

VARIABLES
  setting,     \* the setting in the database
  settings,    \* how often it was changed
  interval, active, pauseCount,
  ticker,      \* "stopped", "armed", or "fired": a tick is in its channel
  loop,        \* executorLoop
  handlers,    \* "out", or "in": between Pause and the deferred Unpause
  forgot,      \* history: a reset has forgotten a handler, and not all have left since
  shutdown     \* the goroutine in Shutdown

timer == <<interval, active, pauseCount, ticker>>
vars == <<setting, settings, timer, loop, handlers, forgot, shutdown>>

\* NewPeriodicExecutor
Init ==
  /\ setting \in Intervals
  /\ settings = 0
  /\ interval = IF setting = 0 THEN InactiveInterval ELSE setting
  /\ active = (setting # 0)
  /\ pauseCount = 0
  /\ ticker = "armed"
  /\ loop = "select"
  /\ handlers = [h \in Handlers |-> "out"]
  /\ forgot = FALSE
  /\ shutdown = "no"

\* The same when the server starts again.
Started(i) ==
  /\ interval' = IF i = 0 THEN InactiveInterval ELSE i
  /\ active' = (i # 0)
  /\ pauseCount' = 0
  /\ ticker' = "armed"
  /\ loop' = "select"

\* Nobody is between Pause and Unpause.
Quiet == loop # "running" /\ \A h \in Handlers : handlers[h] = "out"

Fire ==
  /\ ticker = "armed"
  /\ ticker' = "fired"
  /\ UNCHANGED <<setting, settings, interval, active, pauseCount, loop, handlers, forgot, shutdown>>

-----------------------------------------------------------------------------
(* The counted stops of the ticker                                         *)

\* A stopped ticker has no tick in its channel either (Go 1.23).
Pause ==
  /\ ticker' = "stopped"
  /\ pauseCount' = pauseCount + 1
  /\ UNCHANGED <<interval, active>>

\* Mutated form: the ticker starts again whatever the count.
UnpauseAtOnce ==
  /\ pauseCount' = IF pauseCount > 0 THEN pauseCount - 1 ELSE 0
  /\ ticker' = "armed"
  /\ UNCHANGED <<interval, active>>

Unpause ==
  /\ pauseCount' = IF pauseCount > 0 THEN pauseCount - 1 ELSE 0
  /\ ticker' = IF pauseCount' = 0 THEN "armed" ELSE ticker
  /\ UNCHANGED <<interval, active>>

\* Forgets the pauses of others.
reset(new) ==
  /\ pauseCount' = 0
  /\ interval' = new
  /\ ticker' = "armed"
  /\ forgot' = (\E h \in Handlers : handlers[h] = "in")

-----------------------------------------------------------------------------
(* executorLoop                                                            *)

\* The loop takes a tick out of the channel.
TakeTick ==
  /\ loop = "select"
  /\ ticker = "fired"
  /\ ticker' = "armed"
  /\ loop' = IF active THEN "ticked" ELSE "check"
  /\ UNCHANGED <<setting, settings, interval, active, pauseCount, handlers, forgot, shutdown>>

\* Others may pause the executor between the tick and this.
RunBegins ==
  /\ loop = "ticked"
  /\ Pause
  /\ loop' = "running"
  /\ UNCHANGED <<setting, settings, handlers, forgot, shutdown>>

RunEnds ==
  /\ loop = "running"
  /\ Unpause
  /\ loop' = "check"
  /\ forgot' = (forgot /\ \E h \in Handlers : handlers[h] = "in")
  /\ UNCHANGED <<setting, settings, handlers, shutdown>>

\* The interval in force after the setting was read as next, with the ticker
\* left alone or reset.
Adopt(next) ==
  \/ /\ next = 0 /\ active
     /\ IF interval # InactiveInterval
        THEN reset(InactiveInterval) ELSE UNCHANGED <<interval, pauseCount, ticker, forgot>>
     /\ active' = FALSE
  \/ /\ next # 0 /\ next # interval
     /\ reset(next)
     /\ active' = TRUE
  \/ /\ ~(next = 0 /\ active)
     /\ ~(next # 0 /\ next # interval)
     /\ UNCHANGED <<timer, forgot>>

\* Mutated form: an interval that was found stays in force.
CheckActiveOnly ==
  /\ loop = "check"
  /\ IF active THEN Adopt(setting) ELSE UNCHANGED <<timer, forgot>>
  /\ loop' = "select"
  /\ UNCHANGED <<setting, settings, handlers, shutdown>>

\* getIntervalFunc; when it fails the interval in force counts as the new one.
Check ==
  /\ loop = "check"
  /\ Adopt(setting) \/ Adopt(interval)
  /\ loop' = "select"
  /\ UNCHANGED <<setting, settings, handlers, shutdown>>

\* The loop receives from done, pauses and returns, which ends Shutdown.
TakeDone ==
  /\ loop = "select"
  /\ shutdown = "sending"
  /\ Pause
  /\ loop' = "returned"
  /\ shutdown' = "done"
  /\ UNCHANGED <<setting, settings, handlers, forgot>>

Shutdown ==
  /\ shutdown = "no"
  /\ shutdown' = "sending"
  /\ UNCHANGED <<setting, settings, timer, loop, handlers, forgot>>

-----------------------------------------------------------------------------
(* Others                                                                  *)

\* A handler that adds a machine stops the ticker for the time it needs.
Enter(h) ==
  /\ handlers[h] = "out"
  /\ Pause
  /\ handlers' = [handlers EXCEPT ![h] = "in"]
  /\ UNCHANGED <<setting, settings, loop, forgot, shutdown>>

Leave(h) ==
  /\ handlers[h] = "in"
  /\ Unpause
  /\ handlers' = [handlers EXCEPT ![h] = "out"]
  /\ forgot' = (forgot /\ ~(loop # "running" /\ \A g \in Handlers \ {h} : handlers[g] = "out"))
  /\ UNCHANGED <<setting, settings, loop, shutdown>>

\* A user changes the setting.
Set(i) ==
  /\ settings < MaxSettings
  /\ i # setting
  /\ setting' = i
  /\ settings' = settings + 1
  /\ UNCHANGED <<timer, loop, handlers, forgot, shutdown>>

Loop == TakeTick \/ RunBegins \/ RunEnds \/ Check \/ TakeDone
Next ==
  \/ Fire \/ Loop \/ Shutdown
  \/ \E h \in Handlers : Enter(h) \/ Leave(h)
  \/ \E i \in Intervals : Set(i)

Spec == Init /\ [][Next]_vars

\* An armed ticker fires, the loop goes on, the function returns, and handlers
\* leave.  Go's select is fair: a sender on done is received in the end although
\* ticks compete.  The setting can be read again and again.  Handlers come to an
\* end of coming: nobody adds machines for ever.
Fairness ==
  /\ WF_vars(Fire) /\ WF_vars(TakeTick) /\ WF_vars(RunBegins) /\ WF_vars(RunEnds)
  /\ WF_vars(Check) /\ SF_vars(loop = "check" /\ Adopt(setting) /\ Check)
  /\ SF_vars(TakeDone)
  /\ \A h \in Handlers : WF_vars(Leave(h))
FairSpec == Spec /\ Fairness

-----------------------------------------------------------------------------
(* Properties                                                              *)

\* Type invariant.
TypeOK ==
  /\ setting \in Intervals /\ settings \in 0..MaxSettings
  /\ interval \in (Intervals \ {0}) \cup {InactiveInterval}
  /\ active \in BOOLEAN
  /\ pauseCount \in 0..(Cardinality(Handlers) + 1)
  /\ ticker \in {"stopped", "armed", "fired"}
  /\ loop \in {"select", "ticked", "running", "check", "returned"}
  /\ handlers \in [Handlers -> {"out", "in"}]
  /\ forgot \in BOOLEAN
  /\ shutdown \in {"no", "sending", "done"}

\* The ticker starts again after as many Unpause as Pause and not before: while a
\* handler is inside, or the function runs, no tick comes, and when all have left it
\* does run.  A change of the interval forgets those inside, and until they have left
\* their Unpause counts for others.
PausedIsQuiet ==
  loop # "returned" =>
    /\ ~forgot => pauseCount = Cardinality({h \in Handlers : handlers[h] = "in"})
                               + (IF loop = "running" THEN 1 ELSE 0)
    /\ ~forgot /\ ~Quiet => ticker = "stopped"
    /\ Quiet => ticker # "stopped"

=============================================================================
