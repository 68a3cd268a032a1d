----------------------------- MODULE ZoneFetch -----------------------------
(***************************************************************************)
(* Fetching the zones of all monitored DNS servers into the database of    *)
(* the Stork server (server/dnsop/manager.go): FetchZones starts one       *)
(* background goroutine, which spreads the applications over a pool of     *)
(* workers through a closed channel; a worker streams the zones from an    *)
(* agent (server/agentcomm/grpcli.go), upserts them in batches             *)
(* (server/database/model/batch.go, zone.go), saves the state of the       *)
(* inventory (zoneinventorystate.go) and stores it in the shared results.  *)
(*                                                                         *)
(* The agent of a may answer with any element of Contents[a], refuse with  *)
(* one of the reasons agent.go gives, or break the stream at any point;    *)
(* any database transaction may fail.  A zone is a record of its view and  *)
(* its name; an agent lists the views one after the other and no name      *)
(* twice in a view (ContentsAssumption).                                   *)
(***************************************************************************)
EXTENDS Integers, Sequences, FiniteSets, Functions

CONSTANTS
  Apps,         \* monitored DNS servers, each with one daemon
  Workers,      \* the goroutines of the pool (poolSize)
  BatchSize,    \* limit of a batch
  Contents,     \* the sequences of zones the agent of each application may stream
  NoApp,        \* no error recorded
  NoView        \* the empty view name a worker starts with

AllContents == UNION Range(Contents)
ZoneSet == UNION {Range(s) : s \in AllContents}

ASSUME AppsAssumption == IsFiniteSet(Apps) /\ NoApp \notin Apps
ASSUME PoolAssumption == Workers # {} /\ BatchSize \in Nat \ {0}
ASSUME ContentsAssumption ==
  /\ DOMAIN Contents = Apps /\ AllContents \subseteq Seq(ZoneSet)
  /\ \A s \in AllContents : \A i, j \in 1 .. Len(s) :
       /\ s[i].view = s[j].view /\ s[i].name = s[j].name => i = j
       /\ i < j /\ s[i].view = s[j].view => \A k \in i .. j : s[k].view = s[i].view
ASSUME NoViewAssumption == \A z \in ZoneSet : z.view # NoView

VARIABLES
  fetcher,      \* the goroutine of FetchZones
  fetching,     \* fetchingState.fetching
  appsCount,    \* fetchingState.appsCount
  completed,    \* fetchingState.completedAppsCount
  apps,         \* what GetAppsByType returned
  appsChan,     \* applications no worker has taken yet
  results,      \* application -> worker whose state its entry points to
  worker,       \* where each worker is
  app,          \* the application it works on
  state,        \* the ZoneInventoryStateDetails it allocated
  view,         \* the view of the last zone it received
  batch,        \* zones it has not inserted yet
  stream,       \* zones the agent has not sent yet
  served,       \* all zones of that stream
  localZone,    \* table local_zone
  inventory     \* table zone_inventory_state

fetcherVars == <<fetcher, fetching, appsCount, completed, apps, results>>
streamVars  == <<stream, served>>
dbVars      == <<localZone, inventory>>
vars == <<fetcherVars, appsChan, worker, app, state, view, batch, streamVars, dbVars>>

-----------------------------------------------------------------------------
(* ZoneInventoryStateDetails: the error is named by the application whose  *)
(* fetch produced it.  The number of zones it also holds decides nothing.  *)

Statuses == {"ok", "busy", "erred", "uninitialized"}
Details  == [status : Statuses, error : Apps \cup {NoApp}]

NewDetails == [status |-> "ok", error |-> NoApp]
NoDetails  == [status |-> "none", error |-> NoApp]

\* The status and the error of worker w's state after an error of that status.
Erred(w, s) == [state EXCEPT ![w].status = s, ![w].error = app[w]]

\* The reasons agent.go attaches to its errors, and what ReceiveZones and
\* FetchZones make of them.
Reasons == {"ZONE_INVENTORY_NOT_INITED", "ZONE_INVENTORY_BUSY_ERROR", "none"}

StatusOf(reason) ==
  CASE reason = "ZONE_INVENTORY_NOT_INITED" -> "uninitialized"
    [] reason = "ZONE_INVENTORY_BUSY"       -> "busy"
    [] OTHER                                -> "erred"

Init ==
  /\ fetcher = "idle"
  /\ fetching = FALSE
  /\ appsCount = 0
  /\ completed = 0
  /\ apps = {}
  /\ appsChan = {}
  /\ results = <<>>
  /\ worker = [w \in Workers |-> "done"]
  /\ app = [w \in Workers |-> NoApp]
  /\ state = [w \in Workers |-> NewDetails]
  /\ view = [w \in Workers |-> NoView]
  /\ batch = [w \in Workers |-> <<>>]
  /\ stream = [w \in Workers |-> <<>>]
  /\ served = [w \in Workers |-> <<>>]
  /\ localZone = {}
  /\ inventory = [a \in Apps |-> NoDetails]

-----------------------------------------------------------------------------
(* FetchZones and its background goroutine.                                *)

StartFetching ==
  /\ fetcher = "idle"
  /\ ~fetching
  /\ fetcher' = "listing"
  /\ fetching' = TRUE
  /\ appsCount' = 0
  /\ completed' = 0
  /\ UNCHANGED <<apps, appsChan, results, worker, app, state, view, batch, streamVars, dbVars>>

ListAppsFails ==
  /\ fetcher = "listing"
  /\ fetcher' = "idle"
  /\ fetching' = FALSE
  /\ UNCHANGED <<appsCount, completed, apps, appsChan, results, worker, app, state, view, batch,
                 streamVars, dbVars>>

\* The workers of the last round that found the channel empty are gone.
ListApps ==
  /\ fetcher = "listing"
  /\ fetcher' = "waiting"
  /\ apps' \in SUBSET Apps
  /\ appsCount' = Cardinality(apps')
  /\ appsChan' = apps'
  /\ results' = <<>>
  /\ worker' = [w \in Workers |-> "taking"]
  /\ state' = [w \in Workers |-> NewDetails]
  /\ UNCHANGED <<fetching, completed, app, view, batch, streamVars, dbVars>>

\* Mutated form: only the channel is waited for.
WaitedForChannel == appsChan = {}

\* wg.Done is deferred to the end of a worker, once for each of its
\* applications, so wg.Wait returns when all workers that had one are done.
Waited == \A a \in apps : a \in DOMAIN results /\ worker[results[a]] = "done"

\* The notification is in the buffer of the channel before fetching is reset.
Notify ==
  /\ fetcher = "waiting"
  /\ Waited
  /\ fetcher' = "stopping"
  /\ UNCHANGED <<fetching, appsCount, completed, apps, appsChan, results, worker, app, state,
                 view, batch, streamVars, dbVars>>

StopFetching ==
  /\ fetcher = "stopping"
  /\ fetcher' = "idle"
  /\ fetching' = FALSE
  /\ UNCHANGED <<appsCount, completed, apps, appsChan, results, worker, app, state, view, batch,
                 streamVars, dbVars>>

-----------------------------------------------------------------------------
(* A worker takes applications until the channel is empty.  Its state is   *)
(* allocated once, before the first of them.                               *)

Take(w) ==
  /\ worker[w] = "taking"
  /\ \E a \in appsChan :
       /\ app' = [app EXCEPT ![w] = a]
       /\ appsChan' = appsChan \ {a}
  /\ worker' = [worker EXCEPT ![w] = "calling"]
  /\ UNCHANGED <<fetcherVars, state, view, batch, streamVars, dbVars>>

Exit(w) ==
  /\ worker[w] = "taking"
  /\ appsChan = {}
  /\ worker' = [worker EXCEPT ![w] = "done"]
  /\ UNCHANGED <<fetcherVars, appsChan, app, state, view, batch, streamVars, dbVars>>

-----------------------------------------------------------------------------
(* ReceiveZones of the connected agents: one retry on a new connection.    *)

Answered(w) ==
  /\ stream' \in {[stream EXCEPT ![w] = s] : s \in Contents[app[w]]}
  /\ served' = [served EXCEPT ![w] = stream'[w]]
  /\ worker' = [worker EXCEPT ![w] = "receiving"]
  /\ UNCHANGED state

\* The loop over the zones is left with an error of the given status.
Broken(w, s) ==
  /\ state' = Erred(w, s)
  /\ worker' = [worker EXCEPT ![w] = "saving"]

\* Mutated form: a failed call goes on with the next application.
CallSkips(w) ==
  /\ worker[w] = "calling"
  /\ \/ Answered(w)
     \/ /\ worker' = [worker EXCEPT ![w] = "retrying"]
        /\ UNCHANGED <<state, streamVars>>
     \/ /\ worker' = [worker EXCEPT ![w] = "taking"]
        /\ UNCHANGED <<state, streamVars>>
  /\ UNCHANGED <<fetcherVars, appsChan, app, view, batch, dbVars>>

Call(w) ==
  /\ worker[w] = "calling"
  /\ \/ Answered(w)
     \/ /\ worker' = [worker EXCEPT ![w] = "retrying"]
        /\ UNCHANGED <<state, streamVars>>
     \/ /\ Broken(w, "erred")              \* no access point or no connection
        /\ UNCHANGED streamVars
  /\ UNCHANGED <<fetcherVars, appsChan, app, view, batch, dbVars>>

Retry(w) ==
  /\ worker[w] = "retrying"
  /\ \/ Answered(w)
     \/ /\ \E r \in Reasons : Broken(w, StatusOf(r))
        /\ UNCHANGED streamVars
  /\ UNCHANGED <<fetcherVars, appsChan, app, view, batch, dbVars>>

\* Recv returns an error other than the end of the stream.
StreamBreaks(w) ==
  /\ worker[w] = "receiving"
  /\ Broken(w, "erred")
  /\ UNCHANGED <<fetcherVars, appsChan, app, view, batch, streamVars, dbVars>>

-----------------------------------------------------------------------------
(* Batches.  A batch that names a zone twice cannot be inserted: an upsert *)
(* may not affect the same row of table zone a second time.                *)

Rows(w, b) == {[daemon |-> app[w], zone |-> z] : z \in Range(b)}

NamesOnce(b) == \A i, j \in 1 .. Len(b) : b[i].name = b[j].name => i = j

ViewChanges(w, z) == view[w] # z.view

\* The next zone of the stream: Batch.Add, or FlushAndAdd when the view
\* changes.  AddZones inserts all rows of a batch or none of them.
Receive(w) ==
  /\ worker[w] = "receiving"
  /\ stream[w] # <<>>
  /\ LET z     == Head(stream[w])
         flush == ViewChanges(w, z)
         old   == IF flush THEN batch[w] ELSE <<>>
         new   == IF flush THEN <<z>> ELSE Append(batch[w], z)
         full  == Len(new) >= BatchSize
     IN
     /\ stream' = [stream EXCEPT ![w] = Tail(@)]
     /\ view' = [view EXCEPT ![w] = z.view]
     /\ \/ /\ old # <<>>                                    \* the flush fails
           /\ UNCHANGED <<batch, localZone>>
           /\ Broken(w, "erred")
        \/ /\ ~full /\ NamesOnce(old)
           /\ batch' = [batch EXCEPT ![w] = new]
           /\ localZone' = localZone \cup Rows(w, old)
           /\ UNCHANGED <<state, worker>>
        \/ /\ full /\ NamesOnce(old) /\ NamesOnce(new)
           /\ batch' = [batch EXCEPT ![w] = <<>>]
           /\ localZone' = localZone \cup Rows(w, old) \cup Rows(w, new)
           /\ UNCHANGED <<state, worker>>
        \/ /\ full /\ NamesOnce(old)                         \* the insert fails
           /\ batch' = [batch EXCEPT ![w] = new]
           /\ localZone' = localZone \cup Rows(w, old)
           /\ Broken(w, "erred")
  /\ UNCHANGED <<fetcherVars, appsChan, app, served, inventory>>

\* The stream ends without an error: what is left in the batch is flushed,
\* unless the state holds an error.
StreamEnd(w) ==
  /\ worker[w] = "receiving"
  /\ stream[w] = <<>>
  /\ worker' = [worker EXCEPT ![w] = "saving"]
  /\ \/ /\ state[w].error = NoApp /\ NamesOnce(batch[w])
        /\ localZone' = localZone \cup Rows(w, batch[w])
        /\ batch' = [batch EXCEPT ![w] = <<>>]
        /\ UNCHANGED state
     \/ /\ state[w].error = NoApp /\ batch[w] # <<>>
        /\ state' = Erred(w, "erred")
        /\ UNCHANGED <<batch, localZone>>
     \/ /\ state[w].error # NoApp
        /\ UNCHANGED <<state, batch, localZone>>
  /\ UNCHANGED <<fetcherVars, appsChan, app, view, streamVars, inventory>>

\* AddZoneInventoryState upserts a copy of the state.
SaveState(w) ==
  /\ worker[w] = "saving"
  /\ worker' = [worker EXCEPT ![w] = "storing"]
  /\ \/ /\ inventory' = [inventory EXCEPT ![app[w]] = state[w]]
        /\ UNCHANGED state
     \/ /\ state' = Erred(w, "erred")
        /\ UNCHANGED inventory
  /\ UNCHANGED <<fetcherVars, appsChan, app, view, batch, streamVars, localZone>>

\* storeResult and increaseCompletedAppsCount.  The view, the batch and the
\* stream are local to one pass of the loop; the state is not.
StoreResult(w) ==
  /\ worker[w] = "storing"
  /\ results' = [a \in DOMAIN results \cup {app[w]} |-> IF a = app[w] THEN w ELSE results[a]]
  /\ completed' = completed + 1
  /\ worker' = [worker EXCEPT ![w] = "taking"]
  /\ app' = [app EXCEPT ![w] = NoApp]
  /\ view' = [view EXCEPT ![w] = NoView]
  /\ batch' = [batch EXCEPT ![w] = <<>>]
  /\ stream' = [stream EXCEPT ![w] = <<>>]
  /\ served' = [served EXCEPT ![w] = <<>>]
  /\ UNCHANGED <<fetcher, fetching, appsCount, apps, appsChan, state, dbVars>>

-----------------------------------------------------------------------------

Fetcher == StartFetching \/ ListAppsFails \/ ListApps \/ Notify \/ StopFetching
Worker(w) ==
  \/ Take(w) \/ Exit(w) \/ Call(w) \/ Retry(w) \/ Receive(w) \/ StreamBreaks(w)
  \/ StreamEnd(w) \/ SaveState(w) \/ StoreResult(w)

Next == Fetcher \/ \E w \in Workers : Worker(w)

Spec == Init /\ [][Next]_vars

(***************************************************************************)
(* Go runs every goroutine that can run.  That a worker is fair means that *)
(* agents and the database answer, or their connections break; nobody has  *)
(* to start a round.                                                       *)
(***************************************************************************)
Fairness ==
  /\ WF_vars(ListAppsFails \/ ListApps) /\ WF_vars(Notify) /\ WF_vars(StopFetching)
  /\ \A w \in Workers : WF_vars(Worker(w))

FairSpec == Spec /\ Fairness

-----------------------------------------------------------------------------
(* Properties.                                                             *)

WorkerStates == {"taking", "calling", "retrying", "receiving", "saving", "storing", "done"}

\* Every variable has its type.  No batch lists a zone twice, so that the upsert
\* of AddZones never touches a row twice: why FetchZones flushes the batch when
\* the view changes.
TypeOK ==
  /\ fetcher \in {"idle", "listing", "waiting", "stopping"}
  /\ fetching \in BOOLEAN
  /\ appsCount \in Nat /\ completed \in Nat
  /\ apps \in SUBSET Apps /\ appsChan \in SUBSET apps
  /\ DOMAIN results \subseteq apps /\ Range(results) \subseteq Workers
  /\ worker \in [Workers -> WorkerStates]
  /\ app \in [Workers -> Apps \cup {NoApp}]
  /\ state \in [Workers -> Details]
  /\ \A w \in Workers : Len(batch[w]) <= BatchSize /\ NamesOnce(batch[w])
  /\ \A a \in Apps : inventory[a] = NoDetails \/ inventory[a] \in Details

\* A worker that is about to report "ok" for an application has stored every
\* zone its agent streamed, whatever batches, views and retries they went
\* through, and whatever the other workers inserted meanwhile.
OkMeansStored ==
  \A w \in Workers :
    worker[w] = "storing" /\ state[w].status = "ok" => Rows(w, served[w]) \subseteq localZone

\* No application is lost between the channel, the workers and the results, and
\* none is handled by two workers; settled applications are counted once, so the
\* progress that GetZonesFetch reports never runs ahead, and the notification of
\* a round holds all of its applications.
NoAppLost ==
  /\ TypeOK
  /\ fetcher \in {"waiting", "stopping"} =>
    /\ completed = Cardinality(DOMAIN results)
    /\ appsCount = Cardinality(apps)
    /\ fetcher = "stopping" => DOMAIN results = apps
    /\ apps = appsChan \cup DOMAIN results
                \cup {app[w] : w \in {v \in Workers : worker[v] \notin {"taking", "done"}}}
    /\ \A v, w \in Workers :
         worker[v] \notin {"taking", "done"} /\ worker[w] \notin {"taking", "done"} /\ app[v] = app[w]
           => v = w

\* What a round reports of its applications is true and complete.
ResultsAreTrue == OkMeansStored /\ NoAppLost

\* The manager implements its rounds: each application is settled exactly once.
Round == INSTANCE ZoneFetchRound WITH
  active  <- fetcher = "waiting",
  pending <- apps \ DOMAIN results
ImplementsRounds == Round!Spec

=============================================================================
