-------------------------- MODULE ReviewDispatcher --------------------------
(***************************************************************************)
(* The dispatcher of configuration reviews of the server                   *)
(* (server/configreview/dispatcher.go) and the puller that triggers them   *)
(* when it finds a new configuration (server/apps/statepuller.go).         *)
(*                                                                         *)
(* A review runs in a goroutine of its own and hands its reports over, on  *)
(* an unbuffered channel, to the worker, which stores them in one database *)
(* transaction unless a configuration has changed meanwhile.  A review     *)
(* that is not an internal one also deletes the reports of the daemons it  *)
(* refers to and begins internal reviews of them.  The map "state" keeps a *)
(* second review of a daemon out while one is in progress.                 *)
(*                                                                         *)
(* A configuration is its hash, a number that grows with each change;      *)
(* the checkers are enabled for every daemon and trigger.                  *)
(***************************************************************************)
EXTENDS Integers, Sequences, FiniteSets, SequencesExt

CONSTANTS
  Daemons,
  Order,       \* the order in which the puller visits them
  Refs,        \* the daemons the checkers of a daemon refer to
  DbFails,     \* whether storing reports may fail
  MaxChanges,  \* bound: changes of configurations
  MaxReviews,  \* bound: goroutines that review one daemon
  MaxExtras    \* bound: reviews that users or the hosts puller ask for, looks at reports, restarts

ASSUME RefsAssumption == Refs \in [Daemons -> SUBSET Daemons] /\ \A d \in Daemons : d \notin Refs[d]
ASSUME OrderAssumption == Order \in Seq(Daemons) /\ ToSet(Order) = Daemons /\ Order # <<>>
ASSUME BoundsAssumption ==
  /\ DbFails \in BOOLEAN
  /\ MaxReviews \in Nat \ {0}
  /\ {MaxChanges, MaxExtras} \subseteq Nat

VARIABLES
  kea,         \* the configurations the daemons run with
  config,      \* their configurations in the database
  reviewed,    \* config_review: the configuration reviewed last, 0 for none
  reports,     \* config_report: the configurations the reports are about
  state,       \* the reviews in progress
  reviews,     \* the goroutines that review each daemon
  reviewWg,    \* how many of them are counted
  worker,      \* awaitReports
  job,         \* the review the worker handles
  todo,        \* the internal reviews it has still to begin
  allReviewsDone,
  shutdown,    \* the goroutine in Shutdown
  awaited,     \* history: daemons under review when it was called
  pull,        \* the puller: the place of the daemon it visits, or visits next
  manual,      \* the daemon somebody is about to ask a review of
  view,        \* what a user who looks at the reports of a daemon has read
  extras       \* these reviews, looks and restarts so far

dbVars == <<config, reviewed, reports>>
workVars == <<worker, job, todo, allReviewsDone, shutdown, awaited>>
callVars == <<pull, manual, view>>
vars == <<kea, dbVars, state, reviews, reviewWg, workVars, callVars, extras>>

Hashes == Nat \ {0}
NoDaemon == [daemon |-> "none"]
NoRefs == [r \in {} |-> 0]

Init ==
  /\ kea = [d \in Daemons |-> 1]
  /\ config = [d \in Daemons |-> 1]
  /\ reviewed = [d \in Daemons |-> 0]
  /\ reports = [d \in Daemons |-> <<>>]
  /\ extras = 0
  /\ state = [d \in Daemons |-> FALSE]
  /\ reviews = [d \in Daemons |-> <<>>]
  /\ reviewWg = 0
  /\ worker = "waiting"
  /\ job = NoDaemon
  /\ todo = {}
  /\ allReviewsDone = FALSE
  /\ shutdown = "no"
  /\ awaited = {}
  /\ pull = [step |-> "idle", at |-> 1]
  /\ manual = NoDaemon
  /\ view = NoDaemon

-----------------------------------------------------------------------------
(* Reviews                                                                 *)

\* History: a review of the daemon has begun since a user began to look.
Overtaken(d) ==
  IF view # NoDaemon /\ view.daemon = d THEN [view EXCEPT !.overtaken = TRUE] ELSE view

\* Mutated form: the map is not looked at.
BeginUnchecked(d, hash, internal) ==
       /\ Len(reviews[d]) < MaxReviews
       /\ state' = [state EXCEPT ![d] = TRUE]
       /\ reviews' = [reviews EXCEPT ![d] = Append(@,
            [step |-> "accepted", hash |-> hash, internal |-> internal, refs |-> NoRefs])]
       /\ view' = Overtaken(d)

\* beginReview, up to the update of the map under the mutex: refused while a
\* review of the daemon is in progress.
Begin(d, hash, internal) ==
  IF state[d]
  THEN UNCHANGED <<state, reviews, view>>
  ELSE /\ Len(reviews[d]) < MaxReviews
       /\ state' = [state EXCEPT ![d] = TRUE]
       /\ reviews' = [reviews EXCEPT ![d] = Append(@,
            [step |-> "accepted", hash |-> hash, internal |-> internal, refs |-> NoRefs])]
       /\ view' = Overtaken(d)

\* reviewWg.Add comes after the mutex is released.  The checkers fetch the daemons
\* they refer to, and run until the review is received.
Start(d, i) ==
  /\ reviews[d][i].step = "accepted"
  /\ reviews' = [reviews EXCEPT
       ![d][i].step = "running", ![d][i].refs = [r \in Refs[d] |-> config[r]]]
  /\ reviewWg' = reviewWg + 1
  /\ UNCHANGED <<kea, dbVars, state, workVars, callVars, extras>>

\* The deferred reviewWg.Done of a goroutine that has handed its review over.
Done(d, i) ==
  /\ reviews[d][i].step = "sent"
  /\ reviews' = [reviews EXCEPT ![d] = RemoveAt(@, i)]
  /\ reviewWg' = reviewWg - 1
  /\ UNCHANGED <<kea, dbVars, state, workVars, callVars, extras>>

-----------------------------------------------------------------------------
(* The worker                                                              *)

\* The worker, or the goroutine that drains the channel, receives a review.
Receive(d, i) ==
  /\ worker \in {"waiting", "draining"}
  /\ job = NoDaemon
  /\ reviews[d][i].step = "running"
  /\ reviews' = [reviews EXCEPT ![d][i].step = "sent"]
  /\ job' = [daemon |-> d, hash |-> reviews[d][i].hash, refs |-> reviews[d][i].refs,
             internal |-> reviews[d][i].internal, step |-> "storing"]
  /\ UNCHANGED <<kea, dbVars, state, reviewWg, worker, todo, allReviewsDone, shutdown, awaited,
                 callVars, extras>>

Storing == job # NoDaemon /\ job.step = "storing"
Unchanged == config[job.daemon] = job.hash /\ \A r \in DOMAIN job.refs : config[r] = job.refs[r]

\* Mutated form: the reports of the daemons referred to stay.
DeletedSubject == IF job.internal THEN {} ELSE {job.daemon}

\* The daemons whose reports a review deletes before it adds its own.
Deleted == IF job.internal THEN {} ELSE {job.daemon} \cup DOMAIN job.refs

\* The transaction commits: the reports and the summary of the review are stored.
Populate ==
  /\ Storing
  /\ Unchanged
  /\ reports' = [d \in Daemons |->
       (IF d \in Deleted THEN <<>> ELSE reports[d])
         \o (IF d = job.daemon THEN <<job.hash>> ELSE <<>>)]
  /\ reviewed' = [reviewed EXCEPT ![job.daemon] = job.hash]
  /\ todo' = IF job.internal THEN {} ELSE DOMAIN job.refs
  /\ job' = [job EXCEPT !.step = "handled"]
  /\ UNCHANGED <<kea, config, state, reviews, reviewWg, worker, allReviewsDone, shutdown, awaited,
                 callVars, extras>>

\* It is rolled back, because a configuration has changed or the database fails.
PopulateFails ==
  /\ Storing
  /\ DbFails \/ ~Unchanged
  /\ job' = [job EXCEPT !.step = "handled"]
  /\ UNCHANGED <<kea, dbVars, state, reviews, reviewWg, worker, todo, allReviewsDone, shutdown,
                 awaited, callVars, extras>>

\* populateReports begins an internal review of a daemon referred to.
BeginInternal(r) ==
  /\ r \in todo
  /\ Begin(r, job.refs[r], TRUE)
  /\ todo' = todo \ {r}
  /\ UNCHANGED <<kea, dbVars, reviewWg, worker, job, allReviewsDone, shutdown, awaited,
                 pull, manual, extras>>

\* The deferred update of the map; the callbacks are nil.
PopulateEnd ==
  /\ job # NoDaemon
  /\ job.step = "handled"
  /\ todo = {}
  /\ state' = [state EXCEPT ![job.daemon] = FALSE]
  /\ awaited' = awaited \ {job.daemon}
  /\ job' = NoDaemon
  /\ UNCHANGED <<kea, dbVars, reviews, reviewWg, worker, todo, allReviewsDone, shutdown,
                 callVars, extras>>

\* The worker sees the cancelled context and lets a goroutine drain the channel.
Drain ==
  /\ worker = "waiting"
  /\ job = NoDaemon
  /\ shutdown = "stopping"
  /\ worker' = "draining"
  /\ UNCHANGED <<kea, dbVars, state, reviews, reviewWg, job, todo, allReviewsDone, shutdown,
                 awaited, callVars, extras>>

\* reviewWg.Wait returns in the worker.
WaitEnd ==
  /\ worker = "draining"
  /\ reviewWg = 0
  /\ ~allReviewsDone
  /\ allReviewsDone' = TRUE
  /\ UNCHANGED <<kea, dbVars, state, reviews, reviewWg, worker, job, todo, shutdown, awaited,
                 callVars, extras>>

\* The default branch of the draining goroutine: no review is ready, or its
\* checkers still run.
DrainEnd ==
  /\ worker = "draining"
  /\ job = NoDaemon
  /\ allReviewsDone
  /\ worker' = "ended"
  /\ UNCHANGED <<kea, dbVars, state, reviews, reviewWg, job, todo, allReviewsDone, shutdown,
                 awaited, callVars, extras>>

UnderReview(d) ==
  \/ job # NoDaemon /\ job.daemon = d
  \/ \E i \in DOMAIN reviews[d] : reviews[d][i].step = "running"

\* The server has stopped its pullers before.
Shutdown ==
  /\ shutdown = "no"
  /\ pull.step = "idle"
  /\ shutdown' = "stopping"
  /\ awaited' = {d \in Daemons : UnderReview(d)}
  /\ UNCHANGED <<kea, dbVars, state, reviews, reviewWg, worker, job, todo, allReviewsDone,
                 callVars, extras>>

ShutdownEnd ==
  /\ shutdown = "stopping"
  /\ worker = "ended"
  /\ shutdown' = "done"
  /\ UNCHANGED <<kea, dbVars, state, reviews, reviewWg, worker, job, todo, allReviewsDone, awaited,
                 callVars, extras>>

-----------------------------------------------------------------------------
(* Triggers                                                                *)

\* The configuration of a daemon is changed.
Changes == FoldFunction(+, 0, kea) - Cardinality(Daemons)
Reconfigure(d) ==
  /\ Changes < MaxChanges
  /\ kea' = [kea EXCEPT ![d] = @ + 1]
  /\ UNCHANGED <<dbVars, state, reviews, reviewWg, workVars, callVars, extras>>

\* Mutated form: only the configurations are compared.
NeverReviewedNeedsNone(d) == kea[d] = config[d]

\* A daemon needs no review when its configuration is the one in the database
\* and some review has been stored.
NeedsNoReview(d) == kea[d] = config[d] /\ reviewed[d] # 0

\* The puller visits one daemon after the other.  It reads the daemon and its
\* review from the database and asks Kea for the configuration.
PullRead ==
  LET d == Order[pull.at] IN
  /\ shutdown = "no"
  /\ pull.step = "idle"
  /\ pull' = [step |-> "read", at |-> pull.at, new |-> kea[d], same |-> NeedsNoReview(d)]
  /\ UNCHANGED <<kea, dbVars, state, reviews, reviewWg, workVars, manual, view, extras>>

\* CommitAppIntoDB
PullCommit ==
  /\ pull.step = "read"
  /\ config' = [config EXCEPT ![Order[pull.at]] = pull.new]
  /\ pull' = [pull EXCEPT !.step = "committed"]
  /\ UNCHANGED <<kea, reviewed, reports, state, reviews, reviewWg, workVars, manual, view, extras>>

\* conditionallyBeginKeaConfigReviews; it does not look whether the review begins.
PullBegin ==
  /\ pull.step = "committed"
  /\ IF pull.same THEN UNCHANGED <<state, reviews, view>> ELSE Begin(Order[pull.at], pull.new, FALSE)
  /\ pull' = [step |-> "idle", at |-> (pull.at % Len(Order)) + 1]
  /\ UNCHANGED <<kea, dbVars, reviewWg, workVars, manual, extras>>

\* A user or the hosts puller reads the daemon, and later asks for a review.
ManualRead(d) ==
  /\ extras < MaxExtras
  /\ manual = NoDaemon
  /\ manual' = [step |-> "read", daemon |-> d, hash |-> config[d]]
  /\ extras' = extras + 1
  /\ UNCHANGED <<kea, dbVars, state, reviews, reviewWg, workVars, pull, view>>

ManualBegin ==
  /\ manual # NoDaemon
  /\ Begin(manual.daemon, manual.hash, FALSE)
  /\ manual' = NoDaemon
  /\ UNCHANGED <<kea, dbVars, reviewWg, workVars, pull, extras>>

\* A user looks at the reports of a daemon and is told to come back while a
\* review is in progress.  Otherwise the summary and then the reports are read,
\* each by a statement of its own.
ReviewInProgress(d) == state[d]

Look(d) ==
  /\ extras < MaxExtras
  /\ view = NoDaemon /\ ~ReviewInProgress(d)
  /\ view' = [step |-> "looking", daemon |-> d, overtaken |-> FALSE]
  /\ extras' = extras + 1
  /\ UNCHANGED <<kea, dbVars, state, reviews, reviewWg, workVars, pull, manual>>

ReadReview ==
  /\ view # NoDaemon /\ view.step = "looking"
  /\ view' = IF reviewed[view.daemon] = 0 THEN NoDaemon
             ELSE [step |-> "reading", daemon |-> view.daemon, overtaken |-> view.overtaken,
                   review |-> reviewed[view.daemon]]
  /\ UNCHANGED <<kea, dbVars, state, reviews, reviewWg, workVars, pull, manual, extras>>

\* The user is shown the summary and the reports.
ReadReports ==
  /\ view # NoDaemon /\ view.step = "reading"
  /\ view' = [step |-> "shown", daemon |-> view.daemon, overtaken |-> view.overtaken,
              review |-> view.review, reports |-> reports[view.daemon]]
  /\ UNCHANGED <<kea, dbVars, state, reviews, reviewWg, workVars, pull, manual, extras>>

Respond ==
  /\ view # NoDaemon /\ view.step = "shown"
  /\ view' = NoDaemon
  /\ UNCHANGED <<kea, dbVars, state, reviews, reviewWg, workVars, pull, manual, extras>>

\* The server ends at any time and starts again; the database and Kea stay.
Restart ==
  /\ extras < MaxExtras
  /\ extras' = extras + 1
  /\ state' = [d \in Daemons |-> FALSE]
  /\ reviews' = [d \in Daemons |-> <<>>]
  /\ reviewWg' = 0
  /\ worker' = "waiting"
  /\ job' = NoDaemon
  /\ todo' = {}
  /\ allReviewsDone' = FALSE
  /\ shutdown' = "no"
  /\ awaited' = {}
  /\ pull' = [step |-> "idle", at |-> 1]
  /\ manual' = NoDaemon
  /\ view' = NoDaemon
  /\ UNCHANGED <<kea, dbVars>>

-----------------------------------------------------------------------------

Review(d) ==
  \E i \in DOMAIN reviews[d] : Start(d, i) \/ Receive(d, i) \/ Done(d, i)
Worker ==
  \/ Populate \/ PopulateFails \/ PopulateEnd \/ Drain \/ WaitEnd \/ DrainEnd
  \/ \E r \in Daemons : BeginInternal(r)
Pull == PullRead \/ PullCommit \/ PullBegin
GetDaemonConfigReports == ReadReview \/ ReadReports \/ Respond

Next ==
  \/ Worker \/ Pull \/ ManualBegin \/ Shutdown \/ ShutdownEnd \/ Restart
  \/ GetDaemonConfigReports
  \/ \E d \in Daemons : Review(d) \/ Reconfigure(d) \/ ManualRead(d) \/ Look(d)

Spec == Init /\ [][Next]_vars

(***************************************************************************)
(* Goroutines that can run do so, the puller's ticker comes back, and the  *)
(* database does not fail for ever.                                        *)
(***************************************************************************)
FairSpec ==
  /\ Spec
  /\ WF_vars(Worker) /\ WF_vars(Pull) /\ WF_vars(ManualBegin) /\ WF_vars(ShutdownEnd) /\ SF_vars(Populate)
  /\ \A d \in Daemons : WF_vars(Review(d))

-----------------------------------------------------------------------------

\* Every variable has its type; reviewWg is never negative, which Go punishes
\* with a panic.
TypeOK ==
  /\ kea \in [Daemons -> Hashes]
  /\ config \in [Daemons -> Hashes]
  /\ reviewed \in [Daemons -> Hashes \cup {0}]
  /\ reports \in [Daemons -> Seq(Hashes)]
  /\ state \in [Daemons -> BOOLEAN]
  /\ \A d \in Daemons : \A i \in DOMAIN reviews[d] :
       /\ reviews[d][i].step \in {"accepted", "running", "sent"}
       /\ reviews[d][i].hash \in Hashes
  /\ reviewWg \in Nat
  /\ worker \in {"waiting", "draining", "ended"}
  /\ job # NoDaemon => job.daemon \in Daemons /\ job.hash \in Hashes
  /\ todo \in SUBSET Daemons
  /\ allReviewsDone \in BOOLEAN
  /\ shutdown \in {"no", "stopping", "done"}
  /\ awaited \in SUBSET Daemons
  /\ pull.at \in DOMAIN Order /\ (pull.step # "idle" => pull.new \in Hashes)
  /\ manual # NoDaemon => manual.daemon \in Daemons /\ manual.hash \in Hashes
  /\ extras \in 0..MaxExtras

\* No two reviews of a daemon are in progress, from their beginning until their
\* reports are stored, whoever asks for them.
InProgress(d) ==
  Cardinality({i \in DOMAIN reviews[d] : reviews[d][i].step # "sent"})
    + (IF job # NoDaemon /\ job.daemon = d THEN 1 ELSE 0)
OneReviewPerDaemon == TypeOK /\ \A d \in Daemons : InProgress(d) <= 1

\* The reports of a daemon stem from one review, the one its summary tells of,
\* although internal reviews add reports without deleting any; and so do those
\* that a user is shown, who reads the two in turn, unless a review of the daemon
\* has begun since the user looked whether there is one.  Shutdown returns when
\* the reports of all reviews that were in progress when it was called have been
\* handled.
ReportsMatchReview ==
  /\ \A d \in Daemons : reports[d] \in {<<>>, <<reviewed[d]>>}
  /\ view # NoDaemon /\ view.step = "shown" /\ ~view.overtaken =>
       view.reports \in {<<>>, <<view.review>>}
  /\ shutdown = "done" => awaited = {}

\* As long as the server is not shut down, a daemon without a review gets one,
\* however often storing it fails, Kea is reconfigured or the server is killed.
FirstReviewIsRetried == [](shutdown = "no") => \A d \in Daemons : <>(reviewed[d] # 0)

=============================================================================
