------------------------------- MODULE Pullers -------------------------------
(***************************************************************************)
(* The puller of host reservations (HostsPuller) as the function of a      *)
(* periodic executor (PeriodicExecutor): a pull begins when the executor   *)
(* begins to run its function and ends when the function returns.  Nobody  *)
(* but the state puller is paused by handlers in the code; here this one   *)
(* may be, too.                                                            *)
(***************************************************************************)
EXTENDS HostsPuller

CONSTANTS Intervals, InactiveInterval, Handlers, MaxSettings

ASSUME IntervalsAssumption ==
  /\ Intervals \subseteq Nat
  /\ Intervals # {}
  /\ InactiveInterval \in Nat \ {0}
ASSUME HandlersAssumption == IsFiniteSet(Handlers) /\ MaxSettings \in Nat

VARIABLES setting, settings, interval, active, pauseCount, ticker, loop, handlers, forgot, shutdown

E == INSTANCE PeriodicExecutor
executorVars ==
  <<setting, settings, interval, active, pauseCount, ticker, loop, handlers, forgot, shutdown>>
allVars == <<vars, executorVars>>

RunPuller == E!RunBegins /\ Begin
PullerReturns == E!RunEnds /\ (Finish \/ Fail)

\* The server restarts: the setting and the database stay.
ServerRestarts ==
  /\ shutdown = "no"
  /\ Restart
  /\ E!Started(setting)
  /\ handlers' = [h \in Handlers |-> "out"]
  /\ forgot' = FALSE
  /\ UNCHANGED <<setting, settings, shutdown>>

\* What goes on while the puller does nothing, and while the executor does nothing.
ExecutorOnly ==
  /\ \/ E!Fire \/ E!TakeTick \/ E!Check \/ E!TakeDone \/ E!Shutdown
     \/ \E h \in Handlers : E!Enter(h) \/ E!Leave(h)
     \/ \E i \in Intervals : E!Set(i)
  /\ UNCHANGED vars
PullerOnly ==
  /\ \/ ReadPage \/ Unsupported
     \/ \E h \in Reservations, p \in Places \cup {0} : Change(h, p)
  /\ UNCHANGED executorVars

PullersInit == Init /\ E!Init
PullersNext == RunPuller \/ PullerReturns \/ ServerRestarts \/ ExecutorOnly \/ PullerOnly

\* As in PeriodicExecutor; the function returns because Kea answers.
PullersSpec ==
  /\ PullersInit /\ [][PullersNext]_allVars
  /\ WF_allVars(E!Fire /\ UNCHANGED vars)
  /\ WF_allVars(E!TakeTick /\ UNCHANGED vars)
  /\ WF_allVars(RunPuller)
  /\ WF_allVars(ReadPage /\ UNCHANGED executorVars)
  /\ WF_allVars(E!RunEnds /\ Finish)
  /\ WF_allVars(E!Check /\ UNCHANGED vars)
  /\ SF_allVars(loop = "check" /\ E!Adopt(setting) /\ E!Check /\ UNCHANGED vars)
  /\ SF_allVars(E!TakeDone /\ UNCHANGED vars)
  /\ \A h \in Handlers : WF_allVars(E!Leave(h) /\ UNCHANGED vars)

-----------------------------------------------------------------------------
(* Properties                                                              *)

\* Type invariant of the executor.
ExecutorTypeOK == E!TypeOK

\* The executor's property of that name, with the types of both: paused is quiet, as
\* PeriodicExecutor says.
PausedIsQuiet == TypeOK /\ ExecutorTypeOK /\ E!PausedIsQuiet

\* When nobody disables or pauses the puller any more, and changes and faults have come to
\* an end, the database comes to agree with Kea, unless a change could not be noticed: the
\* executor runs the puller again and again, whatever pauses, intervals and failures to read
\* the setting came before.
EnabledConverges ==
  <>[](setting \notin {0, InactiveInterval} /\ shutdown = "no" /\ \A h \in Handlers : handlers[h] = "out")
    => <>[](db = Pairs(kea) \/ missed)

\* The database follows Kea: after each pull during which nothing changed, and in the end.
MirrorsKea == PullMirrors /\ EnabledConverges

=============================================================================
