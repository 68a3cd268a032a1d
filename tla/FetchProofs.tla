---------------------------- MODULE FetchProofs ----------------------------
(***************************************************************************)
(* Proofs about what the server fetches from agents and daemons and then   *)
(* stores: the zones of DNS servers (ZoneFetch), and the numbers of        *)
(* responses and of leases, two of the parts that MCParts puts together.   *)
(*                                                                         *)
(* Zones.  What a round of the DNS manager reports of its applications is  *)
(* true and complete (ResultsAreTrue), and the manager implements the      *)
(* safety part of its abstract specification ZoneFetchRound, for any       *)
(* number of applications, workers and zones and any size of a batch.  The *)
(* strengthening says where each zone of a stream is while a worker        *)
(* receives it: stored, in the batch or still to come, in this order; and  *)
(* that the applications of a round are in the channel, with one worker or *)
(* in the results.                                                         *)
(*                                                                         *)
(* Responses.  No response is in two rows of the table of rates            *)
(* (RatesInv), so the sums over an interval never say too much.            *)
(*                                                                         *)
(* Leases.  How much of a pull of statistics that nothing disturbed is     *)
(* stored, and that what is counted from it is exact (LeasesInv).          *)
(***************************************************************************)
EXTENDS ZoneFetch, MCParts, Integers, TLAPS, FiniteSetTheorems, SequenceTheorems, WellFoundedInduction

-----------------------------------------------------------------------------
(* The invariant                                                           *)

FetcherTypes ==
  /\ fetcher \in {"idle", "listing", "waiting", "stopping"}
  /\ fetching \in BOOLEAN
  /\ appsCount \in Nat /\ completed \in Nat
  /\ apps \in SUBSET Apps /\ appsChan \in SUBSET apps
  /\ DOMAIN results \subseteq apps /\ \A a \in DOMAIN results : results[a] \in Workers
WorkerTypes ==
  /\ worker \in [Workers -> WorkerStates]
  /\ app \in [Workers -> Apps \cup {NoApp}]
  /\ state \in [Workers -> Details]
StreamTypes ==
  /\ DOMAIN view = Workers
  /\ batch \in [Workers -> Seq(ZoneSet)]
  /\ stream \in [Workers -> Seq(ZoneSet)]
  /\ served \in [Workers -> Seq(ZoneSet)]
InventoryTypes ==
  /\ DOMAIN inventory = Apps
  /\ \A a \in Apps : inventory[a] = NoDetails \/ inventory[a] \in Details
Types == FetcherTypes /\ WorkerTypes /\ StreamTypes /\ InventoryTypes

Working(w) == worker[w] \notin {"taking", "done"}

\* The state of a worker names the application whose error it holds, also one of
\* an earlier application.
ErrorNamed(w) == state[w].status = "ok" <=> state[w].error = NoApp

\* A worker has received the first Read(w) zones of its stream; the last of them
\* are in the batch, all of the view it is in, and those before are stored.
Read(w) == Len(served[w]) - Len(stream[w])
Flushed(w) == Read(w) - Len(batch[w])
Row(w, z) == [daemon |-> app[w], zone |-> z]
Received(w) ==
  /\ served[w] \in AllContents
  /\ Flushed(w) >= 0
  /\ Len(stream[w]) <= Len(served[w])
  /\ \A i \in 1 .. Len(stream[w]) : stream[w][i] = served[w][Read(w) + i]
  /\ \A i \in 1 .. Len(batch[w]) :
       batch[w][i] = served[w][Flushed(w) + i] /\ batch[w][i].view = view[w]
  /\ \A i \in 1 .. Flushed(w) : Row(w, served[w][i]) \in localZone
  /\ Len(batch[w]) < BatchSize

\* A worker that has not received anything yet has nothing in its batch.
Fresh(w) == worker[w] \notin {"receiving", "saving", "storing"} => batch[w] = <<>>
BatchFits(w) == Len(batch[w]) <= BatchSize /\ NamesOnce(batch[w])

\* A worker without an error has stored its stream.
Stored(w) ==
  worker[w] \in {"saving", "storing"} /\ state[w].status = "ok" =>
    \A i \in 1 .. Len(served[w]) : Row(w, served[w][i]) \in localZone

Local(w) ==
  /\ ErrorNamed(w) /\ Fresh(w) /\ BatchFits(w) /\ Stored(w)
  /\ worker[w] = "receiving" => Received(w)

\* The applications of a round: in the channel, with a worker, or settled.
Shares ==
  /\ appsChan \cap DOMAIN results = {}
  /\ \A w \in Workers : Working(w) => app[w] \in apps \ (appsChan \cup DOMAIN results)
  /\ \A v, w \in Workers : Working(v) /\ Working(w) /\ app[v] = app[w] => v = w
  /\ fetcher = "waiting" =>
       \A a \in apps : \/ a \in appsChan \cup DOMAIN results
                      \/ \E w \in Workers : Working(w) /\ app[w] = a
  /\ fetcher # "waiting" => appsChan = {} /\ \A w \in Workers : ~ Working(w)
  /\ fetcher = "stopping" => DOMAIN results = apps
Counts ==
  /\ fetcher = "listing" => completed = 0
  /\ fetcher \in {"waiting", "stopping"} =>
       completed = Cardinality(DOMAIN results) /\ appsCount = Cardinality(apps)

IInv == Types /\ Shares /\ Counts /\ \A w \in Workers : Local(w)
-----------------------------------------------------------------------------
(* What a step does not touch                                              *)

\* Nothing that worker w has of its own changes.
Same(w) ==
  /\ worker'[w] = worker[w] /\ app'[w] = app[w] /\ state'[w] = state[w] /\ view'[w] = view[w]
  /\ batch'[w] = batch[w] /\ stream'[w] = stream[w] /\ served'[w] = served[w]

LEMMA Frames ==
  /\ FetcherTypes /\ UNCHANGED <<fetcherVars, appsChan>> => FetcherTypes'
  /\ StreamTypes /\ UNCHANGED <<view, batch, streamVars>> => StreamTypes'
  /\ InventoryTypes /\ UNCHANGED inventory => InventoryTypes'
  /\ Counts /\ UNCHANGED fetcherVars => Counts'
BY DEF FetcherTypes, StreamTypes, InventoryTypes, Counts, fetcherVars, streamVars

\* A worker is not disturbed by the zones that others insert.
LEMMA OthersKeep ==
  ASSUME NEW w \in Workers, Local(w), Same(w), localZone \subseteq localZone'
  PROVE  Local(w)'
BY ZenonT(60) DEF Local, Same, ErrorNamed, Fresh, BatchFits, NamesOnce, Stored, Received, Read, Flushed, Row

\* The shares do not change while each worker keeps its application.
LEMMA SharesKeep ==
  ASSUME Shares, UNCHANGED <<fetcherVars, appsChan, app>>,
         \A w \in Workers : Working(w)' <=> Working(w)
  PROVE  Shares'
<1>1. UNCHANGED <<fetcher, apps, results>>
  BY DEF fetcherVars
<1> QED
  BY <1>1 DEF Shares

-----------------------------------------------------------------------------
(* Initial states and the goroutine of FetchZones                          *)

LEMMA InvInit == Init => IInv
<1> SUFFICES ASSUME Init PROVE IInv
  OBVIOUS
<1> USE DEF Init
<1>1. Types
  <2>0. DOMAIN results = {} /\ FALSE \in BOOLEAN
    OBVIOUS
  <2>1. FetcherTypes
    BY <2>0 DEF FetcherTypes
  <2>2. WorkerTypes
    BY DEF WorkerTypes, WorkerStates, Details, NewDetails, Statuses
  <2>3. StreamTypes /\ InventoryTypes
    BY DEF StreamTypes, InventoryTypes
  <2> QED
    BY <2>1, <2>2, <2>3 DEF Types
<1>2. Shares /\ Counts
  BY DEF Shares, Counts, Working
<1>3. ASSUME NEW w \in Workers PROVE Local(w)
  BY PoolAssumption
     DEF Local, ErrorNamed, Fresh, BatchFits, NamesOnce, Stored, NewDetails
<1> QED
  BY <1>1, <1>2, <1>3 DEF IInv

\* The steps of the goroutine that leave the workers alone.
LEMMA FetcherSteps ==
  ASSUME IInv, StartFetching \/ ListAppsFails \/ Notify \/ StopFetching
  PROVE  IInv'
<1>0. Types /\ Shares /\ Counts /\ UNCHANGED <<appsChan, worker, app, state, view, batch, streamVars, dbVars>>
      /\ UNCHANGED <<apps, results>>
  BY DEF IInv, StartFetching, ListAppsFails, Notify, StopFetching
<1>1. Types'
  <2>1. FetcherTypes'
    <3>1. fetcher' \in {"idle", "listing", "waiting", "stopping"} /\ fetching' \in BOOLEAN
      BY <1>0 DEF Types, FetcherTypes, StartFetching, ListAppsFails, Notify, StopFetching
    <3>2. appsCount' \in Nat /\ completed' \in Nat
      BY <1>0 DEF Types, FetcherTypes, StartFetching, ListAppsFails, Notify, StopFetching
    <3> QED
      BY <1>0, <3>1, <3>2 DEF Types, FetcherTypes
  <2>2. WorkerTypes' /\ StreamTypes' /\ InventoryTypes'
    BY <1>0, Frames DEF Types, WorkerTypes, dbVars
  <2> QED
    BY <2>1, <2>2 DEF Types
<1>2. Counts'
  BY <1>0 DEF Counts, StartFetching, ListAppsFails, Notify, StopFetching
<1>3. Shares'
  <2>1. \A w \in Workers : Working(w)' <=> Working(w)
    BY <1>0 DEF Working
  <2>2. Notify => appsChan = {} /\ DOMAIN results = apps /\ \A w \in Workers : ~ Working(w)
    <3> SUFFICES ASSUME Notify PROVE appsChan = {} /\ DOMAIN results = apps /\ \A w \in Workers : ~ Working(w)
      OBVIOUS
    <3>1. apps \subseteq DOMAIN results
      BY DEF Notify, Waited
    <3>2. DOMAIN results \subseteq apps
      BY <1>0 DEF Types, FetcherTypes
    <3> QED
      BY <1>0, <3>1, <3>2 DEF Shares, Types, FetcherTypes
  <2>3. fetcher' # "waiting" => appsChan = {} /\ \A w \in Workers : ~ Working(w)
    BY <1>0, <2>2 DEF Shares, StartFetching, ListAppsFails, Notify, StopFetching
  <2>4. fetcher' = "stopping" => DOMAIN results = apps
    BY <1>0, <2>2 DEF Shares, StartFetching, ListAppsFails, Notify, StopFetching
  <2>5. fetcher' # "waiting"
    BY DEF StartFetching, ListAppsFails, Notify, StopFetching
  <2> QED
    BY <1>0, <2>1, <2>3, <2>4, <2>5 DEF Shares
<1>4. ASSUME NEW w \in Workers PROVE Local(w)'
  BY <1>0, OthersKeep DEF IInv, Same, streamVars, dbVars
<1> QED
  BY <1>1, <1>2, <1>3, <1>4 DEF IInv

LEMMA ListAppsStep ==
  ASSUME IInv, ListApps
  PROVE  IInv'
<1> USE DEF ListApps
<1>0. Types /\ Shares /\ Counts
  BY DEF IInv
<1>1. Types'
  <2>1. apps' \in SUBSET Apps /\ IsFiniteSet(apps')
    BY FS_Subset, AppsAssumption
  <2>2. appsCount' \in Nat
    BY <2>1, FS_CardinalityType
  <2>3. FetcherTypes'
    BY <1>0, <2>1, <2>2 DEF Types, FetcherTypes
  <2>4. WorkerTypes'
    BY <1>0 DEF Types, WorkerTypes, WorkerStates, Details, NewDetails, Statuses
  <2>5. StreamTypes' /\ InventoryTypes'
    BY <1>0, Frames DEF Types, dbVars
  <2> QED
    BY <2>3, <2>4, <2>5 DEF Types
<1>2. \A w \in Workers : ~ Working(w)'
  BY DEF Working
<1>3. Shares'
  BY <1>0, <1>2 DEF Shares
<1>4. Counts'
  BY <1>0, FS_EmptySet DEF Counts
<1>5. ASSUME NEW w \in Workers PROVE Local(w)'
  <2>1. batch'[w] = <<>>
    BY <1>0 DEF Shares, Working, IInv, Local, Fresh
  <2>2. worker'[w] = "taking" /\ state'[w] = NewDetails
    OBVIOUS
  <2> QED
    BY <2>1, <2>2, PoolAssumption
       DEF Local, ErrorNamed, Fresh, BatchFits, NamesOnce, Stored, NewDetails
<1> QED
  BY <1>1, <1>3, <1>4, <1>5 DEF IInv
-----------------------------------------------------------------------------
(* The steps of a worker between taking an application and settling it     *)

\* All that is left to show of such a step is what it does to its own worker.
LEMMA BusyKeeps ==
  ASSUME IInv, NEW w \in Workers, Working(w), Working(w)',
         UNCHANGED <<fetcherVars, appsChan, app>>,
         WorkerTypes', StreamTypes', InventoryTypes',
         localZone \subseteq localZone', \A v \in Workers \ {w} : Same(v), Local(w)'
  PROVE  IInv'
<1>1. Types' /\ Counts'
  BY Frames DEF IInv, Types
<1>2. \A v \in Workers : Working(v)' <=> Working(v)
  BY DEF Same, Working
<1>3. Shares'
  BY <1>2, SharesKeep DEF IInv
<1>4. \A v \in Workers : Local(v)'
  BY OthersKeep DEF IInv
<1> QED
  BY <1>1, <1>3, <1>4 DEF IInv

\* What an error does to the states.
LEMMA ErredIs ==
  ASSUME WorkerTypes, NEW w \in Workers, NEW s \in Statuses, app[w] \in Apps
  PROVE  /\ Erred(w, s) \in [Workers -> Details]
         /\ Erred(w, s)[w].status = s /\ Erred(w, s)[w].error = app[w]
         /\ \A v \in Workers \ {w} : Erred(w, s)[v] = state[v]
BY DEF Erred, WorkerTypes, Details

\* A working worker has an application, which is none of its errors yet.
LEMMA HasApp ==
  ASSUME IInv, NEW w \in Workers, Working(w)
  PROVE  app[w] \in Apps /\ app[w] # NoApp
BY AppsAssumption DEF IInv, Types, Shares, FetcherTypes

\* Leaving the loop over the zones with an error settles the worker's own part.
LEMMA BrokenKeeps ==
  ASSUME IInv, NEW w \in Workers, Working(w), NEW s \in Statuses \ {"ok"}, Broken(w, s),
         UNCHANGED app, BatchFits(w)'
  PROVE  /\ WorkerTypes' /\ Local(w)' /\ Working(w)'
         /\ \A v \in Workers \ {w} : worker'[v] = worker[v] /\ state'[v] = state[v]
<1>0. WorkerTypes /\ app[w] \in Apps /\ app[w] # NoApp
  BY HasApp DEF IInv, Types
<1>1. /\ state' \in [Workers -> Details]
      /\ state'[w].status = s /\ state'[w].error = app[w]
      /\ \A v \in Workers \ {w} : state'[v] = state[v]
  BY <1>0, ErredIs DEF Broken
<1>2. /\ worker' \in [Workers -> WorkerStates] /\ worker'[w] = "saving"
      /\ \A v \in Workers \ {w} : worker'[v] = worker[v]
  BY <1>0 DEF Broken, WorkerTypes, WorkerStates
<1>3. WorkerTypes'
  BY <1>0, <1>1, <1>2 DEF WorkerTypes
<1>4. Local(w)'
  BY <1>0, <1>1, <1>2 DEF Local, ErrorNamed, Fresh, Stored
<1> QED
  BY <1>1, <1>2, <1>3, <1>4 DEF Working
LEMMA ContentsTyped ==
  ASSUME NEW a \in Apps, NEW s \in Contents[a]
  PROVE  s \in AllContents /\ s \in Seq(ZoneSet)
BY ContentsAssumption DEF AllContents, Range

\* An answer of the agent: the whole stream is still to come.
LEMMA AnsweredKeeps ==
  ASSUME IInv, NEW w \in Workers, worker[w] \in {"calling", "retrying"}, Answered(w),
         UNCHANGED <<fetcherVars, appsChan, app, view, batch, dbVars>>
  PROVE  IInv'
<1>0. /\ Working(w) /\ app[w] \in Apps /\ Types /\ batch[w] = <<>> /\ Local(w)
      /\ localZone' = localZone /\ UNCHANGED inventory
  BY HasApp DEF IInv, Working, Local, Fresh, dbVars
<1>1. PICK s \in Contents[app[w]] : stream' = [stream EXCEPT ![w] = s]
  BY DEF Answered
<1>2. s \in AllContents /\ s \in Seq(ZoneSet)
  BY <1>0, ContentsTyped
<1>3. /\ stream'[w] = s /\ served' = [served EXCEPT ![w] = s] /\ served'[w] = s
      /\ worker' = [worker EXCEPT ![w] = "receiving"] /\ worker'[w] = "receiving"
      /\ state' = state
  BY <1>0, <1>1 DEF Answered, Types, StreamTypes, WorkerTypes
<1>4. WorkerTypes' /\ StreamTypes' /\ InventoryTypes'
  BY <1>0, <1>1, <1>2, <1>3 DEF Types, WorkerTypes, StreamTypes, InventoryTypes, WorkerStates
<1>5. Local(w)'
  <2>1. Received(w)'
    <3>1. Read(w)' = 0 /\ Flushed(w)' = 0 /\ Len(s) \in Nat
      BY <1>0, <1>2, <1>3 DEF Read, Flushed
    <3> QED
      BY <1>0, <1>2, <1>3, <3>1, PoolAssumption DEF Received
  <2> QED
    BY <1>0, <1>3, <2>1 DEF Local, ErrorNamed, Fresh, BatchFits, NamesOnce, Stored
<1>6. \A v \in Workers \ {w} : Same(v)
  BY <1>0, <1>1, <1>3 DEF Same, Types, StreamTypes, WorkerTypes
<1>7. Working(w)'
  BY <1>3 DEF Working
<1> QED
  BY <1>0, <1>4, <1>5, <1>6, <1>7, BusyKeeps

\* A step that leaves the loop with an error and touches only the batch and the
\* stream of the worker.
LEMMA BrokenStep ==
  ASSUME IInv, NEW w \in Workers, Working(w), NEW s \in Statuses \ {"ok"}, Broken(w, s),
         UNCHANGED <<fetcherVars, appsChan, app, inventory>>,
         StreamTypes', BatchFits(w)', localZone \subseteq localZone',
         \A v \in Workers \ {w} :
           /\ view'[v] = view[v] /\ batch'[v] = batch[v]
           /\ stream'[v] = stream[v] /\ served'[v] = served[v]
  PROVE  IInv'
<1>1. /\ WorkerTypes' /\ Local(w)' /\ Working(w)'
      /\ \A v \in Workers \ {w} : worker'[v] = worker[v] /\ state'[v] = state[v]
  BY BrokenKeeps
<1>2. InventoryTypes'
  BY Frames DEF IInv, Types
<1>3. \A v \in Workers \ {w} : Same(v)
  BY <1>1 DEF Same
<1> QED
  BY <1>1, <1>2, <1>3, BusyKeeps

LEMMA CallStep ==
  ASSUME IInv, NEW w \in Workers, Call(w)
  PROVE  IInv'
<1>0. Working(w) /\ BatchFits(w) /\ Types /\ Local(w)
      /\ UNCHANGED <<fetcherVars, appsChan, app, view, batch, dbVars, localZone, inventory>>
  BY DEF Call, Working, IInv, Local, dbVars
<1>1. CASE Answered(w)
  BY <1>0, <1>1, AnsweredKeeps DEF Call
<1>2. CASE /\ worker' = [worker EXCEPT ![w] = "retrying"]
           /\ UNCHANGED <<state, streamVars>>
  <2>0. /\ worker[w] = "calling" /\ worker'[w] = "retrying"
        /\ \A v \in Workers \ {w} : worker'[v] = worker[v]
        /\ UNCHANGED <<stream, served>>
    BY <1>0, <1>2 DEF Call, Types, WorkerTypes, streamVars
  <2>1. WorkerTypes' /\ StreamTypes' /\ InventoryTypes'
    BY <1>0, <1>2, Frames DEF Types, WorkerTypes, WorkerStates
  <2>2. Local(w)'
    BY <1>0, <1>2, <2>0 DEF Local, ErrorNamed, Fresh, BatchFits, NamesOnce, Stored
  <2>3. Working(w)' /\ \A v \in Workers \ {w} : Same(v)
    BY <1>0, <1>2, <2>0 DEF Working, Same
  <2> QED
    BY <1>0, <2>1, <2>2, <2>3, BusyKeeps
<1>3. CASE Broken(w, "erred") /\ UNCHANGED streamVars
  <2>1. "erred" \in Statuses \ {"ok"} /\ StreamTypes' /\ BatchFits(w)'
    BY <1>0, <1>3, Frames DEF Statuses, Types, BatchFits, NamesOnce
  <2>2. UNCHANGED <<stream, served>>
    BY <1>3 DEF streamVars
  <2> QED
    BY <1>0, <1>3, <2>1, <2>2, BrokenStep
<1> QED
  BY <1>1, <1>2, <1>3 DEF Call

LEMMA RetryStep ==
  ASSUME IInv, NEW w \in Workers, Retry(w)
  PROVE  IInv'
<1>0. Working(w) /\ BatchFits(w) /\ Types
      /\ UNCHANGED <<fetcherVars, appsChan, app, view, batch, dbVars, localZone, inventory>>
  BY DEF Retry, Working, IInv, Local, dbVars
<1>1. CASE Answered(w)
  BY <1>0, <1>1, AnsweredKeeps DEF Retry
<1>2. CASE (\E r \in Reasons : Broken(w, StatusOf(r))) /\ UNCHANGED streamVars
  <2>1. PICK r \in Reasons : Broken(w, StatusOf(r))
    BY <1>2
  <2>2. StatusOf(r) \in Statuses \ {"ok"}
    BY DEF StatusOf, Statuses
  <2>3. StreamTypes' /\ BatchFits(w)' /\ UNCHANGED <<stream, served>>
    BY <1>0, <1>2, Frames DEF Types, BatchFits, NamesOnce, streamVars
  <2> QED
    BY <1>0, <2>1, <2>2, <2>3, BrokenStep
<1> QED
  BY <1>1, <1>2 DEF Retry

LEMMA StreamBreaksStep ==
  ASSUME IInv, NEW w \in Workers, StreamBreaks(w)
  PROVE  IInv'
<1>1. /\ Working(w) /\ "erred" \in Statuses \ {"ok"} /\ Broken(w, "erred") /\ Types
      /\ UNCHANGED <<fetcherVars, appsChan, app, view, batch, stream, served, localZone, inventory>>
  BY DEF StreamBreaks, Working, Statuses, IInv, streamVars, dbVars
<1>2. StreamTypes' /\ BatchFits(w)'
  BY <1>1 DEF IInv, Local, Types, StreamTypes, BatchFits, NamesOnce
<1> QED
  BY <1>1, <1>2, BrokenStep
-----------------------------------------------------------------------------
(* Receiving a zone                                                        *)

\* The zone that worker w receives, what it flushes before, and its batch then.
Zone(w) == Head(stream[w])
Old(w) == IF ViewChanges(w, Zone(w)) THEN batch[w] ELSE <<>>
New(w) == IF ViewChanges(w, Zone(w)) THEN <<Zone(w)>> ELSE Append(batch[w], Zone(w))

\* Zones of one view that follow each other have different names.
LEMMA OneViewNamesOnce ==
  \A s \in AllContents, b \in Seq(ZoneSet), f \in Nat : \A v :
    /\ f + Len(b) <= Len(s)
    /\ \A i \in 1 .. Len(b) : b[i] = s[f + i] /\ b[i].view = v
    => NamesOnce(b)
<1> SUFFICES ASSUME NEW s \in AllContents, NEW b \in Seq(ZoneSet), NEW f \in Nat, NEW v,
                    f + Len(b) <= Len(s),
                    \A i \in 1 .. Len(b) : b[i] = s[f + i] /\ b[i].view = v
             PROVE  NamesOnce(b)
  OBVIOUS
<1> SUFFICES ASSUME NEW i \in 1 .. Len(b), NEW j \in 1 .. Len(b), b[i].name = b[j].name
             PROVE  i = j
  BY DEF NamesOnce
<1>1. Len(b) \in Nat /\ s \in Seq(ZoneSet) /\ Len(s) \in Nat
  BY ContentsAssumption
<1>2. f + i \in 1 .. Len(s) /\ f + j \in 1 .. Len(s)
  BY <1>1
<1>3. s[f + i].view = s[f + j].view /\ s[f + i].name = s[f + j].name
  OBVIOUS
<1>4. f + i = f + j
  BY <1>2, <1>3, ContentsAssumption
<1> QED
  BY <1>1, <1>4

\* The next zone of the stream.
LEMMA NextZone ==
  ASSUME IInv, NEW w \in Workers, worker[w] = "receiving", stream[w] # <<>>
  PROVE  /\ Received(w) /\ Read(w) \in Nat /\ Flushed(w) \in Nat
         /\ Len(stream[w]) \in Nat \ {0} /\ Read(w) + Len(stream[w]) = Len(served[w])
         /\ Flushed(w) + Len(batch[w]) = Read(w) /\ Len(batch[w]) \in Nat
         /\ Zone(w) = served[w][Read(w) + 1] /\ Zone(w) \in ZoneSet
         /\ Tail(stream[w]) \in Seq(ZoneSet) /\ Len(Tail(stream[w])) = Len(stream[w]) - 1
         /\ \A i \in 1 .. Len(stream[w]) - 1 : Tail(stream[w])[i] = served[w][Read(w) + 1 + i]
<1>1. /\ Received(w) /\ stream[w] \in Seq(ZoneSet) /\ served[w] \in Seq(ZoneSet)
      /\ batch[w] \in Seq(ZoneSet)
  BY DEF IInv, Local, Types, StreamTypes
<1>2. Len(stream[w]) \in Nat \ {0} /\ Len(served[w]) \in Nat /\ Len(batch[w]) \in Nat
  BY <1>1
<1>3. Read(w) \in Nat /\ Flushed(w) \in Nat
  <2>1. Len(stream[w]) <= Len(served[w]) /\ Flushed(w) >= 0
    BY <1>1 DEF Received
  <2>2. Read(w) \in Nat
    BY <1>2, <2>1 DEF Read
  <2> QED
    BY <1>2, <2>1, <2>2 DEF Flushed
<1>4. Read(w) + Len(stream[w]) = Len(served[w]) /\ Flushed(w) + Len(batch[w]) = Read(w)
  BY <1>2 DEF Read, Flushed
<1>5. stream[w][1] = served[w][Read(w) + 1] /\ stream[w][1] \in ZoneSet
  BY <1>1, <1>2 DEF Received
<1>6. /\ Tail(stream[w]) \in Seq(ZoneSet) /\ Len(Tail(stream[w])) = Len(stream[w]) - 1
      /\ \A i \in 1 .. Len(stream[w]) - 1 : Tail(stream[w])[i] = stream[w][i + 1]
  BY <1>1, <1>2
<1>7. ASSUME NEW i \in 1 .. Len(stream[w]) - 1
      PROVE  Tail(stream[w])[i] = served[w][Read(w) + 1 + i]
  <2>1. i + 1 \in 1 .. Len(stream[w]) /\ Read(w) + (i + 1) = Read(w) + 1 + i
    BY <1>2, <1>3
  <2>2. stream[w][i + 1] = served[w][Read(w) + (i + 1)]
    BY <1>1, <2>1 DEF Received
  <2> QED
    BY <1>6, <2>1, <2>2
<1> QED
  BY <1>1, <1>2, <1>3, <1>4, <1>5, <1>6, <1>7 DEF Zone

\* The batch with that zone holds the last zones read, all of one view, and what
\* comes before them is stored once the old batch is.
LEMMA NewBatch ==
  ASSUME IInv, NEW w \in Workers, worker[w] = "receiving", stream[w] # <<>>
  PROVE  /\ New(w) \in Seq(ZoneSet) /\ Len(New(w)) \in 1 .. BatchSize
         /\ Read(w) + 1 - Len(New(w)) >= 0
         /\ \A i \in 1 .. Len(New(w)) :
              /\ New(w)[i] = served[w][Read(w) + 1 - Len(New(w)) + i]
              /\ New(w)[i].view = Zone(w).view
         /\ \A i \in 1 .. Read(w) + 1 - Len(New(w)) :
              Row(w, served[w][i]) \in localZone \cup Rows(w, Old(w))
<1>1. /\ Received(w) /\ Read(w) \in Nat /\ Flushed(w) \in Nat /\ Len(batch[w]) \in Nat
      /\ Flushed(w) + Len(batch[w]) = Read(w) /\ Zone(w) \in ZoneSet
      /\ Zone(w) = served[w][Read(w) + 1]
      /\ batch[w] \in Seq(ZoneSet) /\ BatchSize \in Nat /\ BatchSize # 0
  BY NextZone, PoolAssumption DEF IInv, Types, StreamTypes
<1>2. CASE ViewChanges(w, Zone(w))
  <2>1. New(w) = <<Zone(w)>> /\ Old(w) = batch[w] /\ Len(New(w)) = 1
    BY <1>2 DEF New, Old
  <2>2. ASSUME NEW i \in 1 .. Read(w)
        PROVE  Row(w, served[w][i]) \in localZone \cup Rows(w, batch[w])
    <3>1. CASE i <= Flushed(w)
      BY <1>1, <3>1 DEF Received
    <3>2. CASE i > Flushed(w)
      <4>1. i - Flushed(w) \in 1 .. Len(batch[w]) /\ Flushed(w) + (i - Flushed(w)) = i
        BY <1>1, <3>2
      <4>2. batch[w][i - Flushed(w)] = served[w][i]
        BY <1>1, <4>1 DEF Received
      <4>3. served[w][i] \in Range(batch[w])
        BY <1>1, <4>1, <4>2, SMTT(30) DEF Range
      <4> QED
        BY <4>3 DEF Row, Rows
    <3> QED
      BY <1>1, <3>1, <3>2
  <2>3. \A i \in 1 .. Len(New(w)) : i = 1
    BY <2>1
  <2>4. New(w) \in Seq(ZoneSet) /\ Len(New(w)) \in 1 .. BatchSize
    BY <1>1, <2>1
  <2>5. Read(w) + 1 - Len(New(w)) = Read(w)
    BY <1>1, <2>1
  <2>6. New(w)[1] = Zone(w)
    BY <1>1, <2>1
  <2>7. ASSUME NEW i \in 1 .. Len(New(w))
        PROVE  /\ New(w)[i] = served[w][Read(w) + 1 - Len(New(w)) + i]
               /\ New(w)[i].view = Zone(w).view
    <3>1. i = 1
      BY <2>3
    <3>2. Read(w) + 1 - Len(New(w)) + i = Read(w) + 1
      BY <2>5, <3>1
    <3> QED
      BY <1>1, <2>6, <3>1, <3>2
  <2>8. \A i \in 1 .. Read(w) + 1 - Len(New(w)) :
          Row(w, served[w][i]) \in localZone \cup Rows(w, Old(w))
    BY <2>1, <2>2, <2>5
  <2>9. Read(w) + 1 - Len(New(w)) >= 0
    BY <1>1, <2>5
  <2> QED
    BY <2>4, <2>7, <2>8, <2>9
<1>3. CASE ~ ViewChanges(w, Zone(w))
  <2>1. New(w) = Append(batch[w], Zone(w)) /\ Zone(w).view = view[w]
    BY <1>3 DEF New, ViewChanges
  <2>2. /\ New(w) \in Seq(ZoneSet) /\ Len(New(w)) = Len(batch[w]) + 1
        /\ New(w)[Len(batch[w]) + 1] = Zone(w)
        /\ \A i \in 1 .. Len(batch[w]) : New(w)[i] = batch[w][i]
    BY <1>1, <2>1
  <2>3. Read(w) + 1 - Len(New(w)) = Flushed(w)
    BY <1>1, <2>2
  <2>4. Len(New(w)) \in 1 .. BatchSize
    BY <1>1, <2>2 DEF Received
  <2>5. ASSUME NEW i \in 1 .. Len(New(w))
        PROVE  New(w)[i] = served[w][Flushed(w) + i] /\ New(w)[i].view = Zone(w).view
    <3>1. CASE i = Len(batch[w]) + 1
      BY <1>1, <2>2, <3>1
    <3>2. CASE i \in 1 .. Len(batch[w])
      BY <1>1, <2>1, <2>2, <3>2 DEF Received
    <3> QED
      BY <1>1, <2>2, <3>1, <3>2
  <2>6. \A i \in 1 .. Flushed(w) : Row(w, served[w][i]) \in localZone
    BY <1>1 DEF Received
  <2>7. \A i \in 1 .. Len(New(w)) :
          /\ New(w)[i] = served[w][Read(w) + 1 - Len(New(w)) + i]
          /\ New(w)[i].view = Zone(w).view
    BY <2>3, <2>5
  <2>8. \A i \in 1 .. Read(w) + 1 - Len(New(w)) :
          Row(w, served[w][i]) \in localZone \cup Rows(w, Old(w))
    BY <2>3, <2>6
  <2>9. Read(w) + 1 - Len(New(w)) >= 0
    BY <1>1, <2>3
  <2>10. New(w) \in Seq(ZoneSet)
    BY <2>2
  <2> QED
    BY <2>4, <2>7, <2>8, <2>9, <2>10
<1> QED
  BY <1>2, <1>3

\* That batch names no zone twice.
LEMMA NewBatchFits ==
  ASSUME IInv, NEW w \in Workers, worker[w] = "receiving", stream[w] # <<>>
  PROVE  NamesOnce(New(w))
<1> DEFINE f == Read(w) + 1 - Len(New(w))
<1>1. /\ New(w) \in Seq(ZoneSet) /\ f \in Nat
      /\ served[w] \in AllContents
      /\ f + Len(New(w)) <= Len(served[w])
  <2>1. Len(New(w)) \in Nat /\ Read(w) + 1 - Len(New(w)) >= 0 /\ New(w) \in Seq(ZoneSet)
    BY NewBatch, PoolAssumption
  <2>2. /\ Read(w) \in Nat /\ Len(stream[w]) \in Nat \ {0}
        /\ Read(w) + Len(stream[w]) = Len(served[w])
    BY NextZone
  <2>3. served[w] \in AllContents
    BY NextZone DEF Received
  <2> QED
    BY <2>1, <2>2, <2>3
<1>2. \A i \in 1 .. Len(New(w)) :
        New(w)[i] = served[w][f + i] /\ New(w)[i].view = Zone(w).view
  BY NewBatch
<1> HIDE DEF f
<1>3. \A v :
         /\ f + Len(New(w)) <= Len(served[w])
         /\ \A i \in 1 .. Len(New(w)) : New(w)[i] = served[w][f + i] /\ New(w)[i].view = v
       => NamesOnce(New(w))
  BY <1>1, OneViewNamesOnce, Zenon
<1> QED
  BY <1>1, <1>2, <1>3, Zenon

\* What every outcome of a receive does to the stream and to the others.
LEMMA ReceiveMoves ==
  ASSUME IInv, NEW w \in Workers, Receive(w)
  PROVE  /\ worker[w] = "receiving" /\ stream[w] # <<>>
         /\ stream' = [stream EXCEPT ![w] = Tail(@)]
         /\ view' = [view EXCEPT ![w] = Zone(w).view]
         /\ UNCHANGED <<fetcherVars, appsChan, app, served, inventory>>
         /\ \/ UNCHANGED <<batch, localZone>> /\ Broken(w, "erred")
            \/ /\ Len(New(w)) < BatchSize
               /\ batch' = [batch EXCEPT ![w] = New(w)]
               /\ localZone' = localZone \cup Rows(w, Old(w))
               /\ UNCHANGED <<state, worker>>
            \/ /\ batch' = [batch EXCEPT ![w] = <<>>]
               /\ localZone' = localZone \cup Rows(w, Old(w)) \cup Rows(w, New(w))
               /\ UNCHANGED <<state, worker>>
            \/ /\ batch' = [batch EXCEPT ![w] = New(w)]
               /\ localZone' = localZone \cup Rows(w, Old(w))
               /\ Broken(w, "erred")
<1>1. Len(New(w)) \in Int /\ BatchSize \in Int
  <2>1. worker[w] = "receiving" /\ stream[w] # <<>>
    BY DEF Receive
  <2> QED
    BY <2>1, NewBatch, PoolAssumption
<1>2. ~ (Len(New(w)) >= BatchSize) => Len(New(w)) < BatchSize
  BY <1>1
<1> QED
  BY <1>2, Zenon DEF Receive, Zone, Old, New
\* The zone is received and the worker goes on.
LEMMA ReceivedOn ==
  ASSUME IInv, NEW w \in Workers, worker[w] = "receiving", stream[w] # <<>>,
         worker'[w] = "receiving", app' = app, served'[w] = served[w],
         stream'[w] = Tail(stream[w]), view'[w] = Zone(w).view,
         \/ /\ Len(New(w)) < BatchSize
            /\ batch'[w] = New(w)
            /\ localZone' = localZone \cup Rows(w, Old(w))
         \/ /\ batch'[w] = <<>>
            /\ localZone' = localZone \cup Rows(w, Old(w)) \cup Rows(w, New(w))
  PROVE  Received(w)'
<1>1. /\ Read(w) \in Nat /\ Len(stream[w]) \in Nat \ {0} /\ served[w] \in AllContents
      /\ Read(w) + Len(stream[w]) = Len(served[w])
      /\ Len(Tail(stream[w])) = Len(stream[w]) - 1
      /\ \A i \in 1 .. Len(stream[w]) - 1 : Tail(stream[w])[i] = served[w][Read(w) + 1 + i]
  BY NextZone DEF Received
<1>2. Read(w)' = Read(w) + 1 /\ Len(stream'[w]) = Len(stream[w]) - 1
  <2>1. Read(w)' = Len(served[w]) - Len(Tail(stream[w]))
    BY DEF Read
  <2>2. Len(served[w]) \in Nat /\ Len(stream[w]) \in Nat /\ Read(w) \in Nat
    BY <1>1
  <2>3. Read(w) + Len(stream[w]) = Len(served[w])
    BY <1>1
  <2>4. Len(served[w]) - (Len(stream[w]) - 1) = Read(w) + 1
    <3>1. \A a, b, c \in Nat : a + b = c => c - (b - 1) = a + 1
      OBVIOUS
    <3> QED
      BY <2>2, <2>3, <3>1, Zenon
  <2> QED
    BY <1>1, <2>1, <2>4
<1>3. \A i \in 1 .. Len(stream'[w]) : stream'[w][i] = served'[w][Read(w)' + i]
  BY <1>1, <1>2
<1>4. Len(stream'[w]) <= Len(served'[w])
  BY <1>1, <1>2
<1> DEFINE f == Read(w) + 1 - Len(New(w))
<1>5. /\ New(w) \in Seq(ZoneSet) /\ Len(New(w)) \in Nat /\ f \in Nat
      /\ Read(w) + 1 = f + Len(New(w))
      /\ \A i \in 1 .. Len(New(w)) : New(w)[i] = served[w][f + i] /\ New(w)[i].view = Zone(w).view
      /\ \A i \in 1 .. f : Row(w, served[w][i]) \in localZone \cup Rows(w, Old(w))
  BY <1>1, NewBatch, PoolAssumption
<1> HIDE DEF f
<1>6. \A i \in Nat : Row(w, served[w][i])' = Row(w, served[w][i])
  BY DEF Row
<1>7. CASE /\ Len(New(w)) < BatchSize
           /\ batch'[w] = New(w)
           /\ localZone' = localZone \cup Rows(w, Old(w))
  <2>1. Flushed(w)' = f
    BY <1>2, <1>5, <1>7 DEF Flushed
  <2>2. \A i \in 1 .. Len(batch'[w]) :
          batch'[w][i] = served'[w][Flushed(w)' + i] /\ batch'[w][i].view = view'[w]
    BY <1>5, <1>7, <2>1
  <2>3. \A i \in 1 .. Flushed(w)' : Row(w, served[w][i])' \in localZone'
    BY <1>5, <1>6, <1>7, <2>1
  <2> QED
    BY <1>1, <1>3, <1>4, <1>5, <1>7, <2>1, <2>2, <2>3 DEF Received
<1>8. CASE /\ batch'[w] = <<>>
           /\ localZone' = localZone \cup Rows(w, Old(w)) \cup Rows(w, New(w))
  <2>1. Flushed(w)' = Read(w) + 1
    BY <1>1, <1>2, <1>8 DEF Flushed
  <2>2. ASSUME NEW i \in 1 .. Read(w) + 1
        PROVE  Row(w, served[w][i]) \in localZone'
    <3>1. CASE i <= f
      BY <1>1, <1>5, <1>8, <3>1
    <3>2. CASE i > f
      <4>1. i - f \in 1 .. Len(New(w)) /\ f + (i - f) = i
        BY <1>1, <1>5, <3>2
      <4>2. New(w)[i - f] = served[w][i]
        BY <1>5, <4>1
      <4>3. served[w][i] \in Range(New(w))
        BY <1>5, <4>1, <4>2 DEF Range
      <4> QED
        BY <1>8, <4>3 DEF Row, Rows
    <3> QED
      BY <1>1, <1>5, <3>1, <3>2
  <2>3. \A i \in 1 .. Flushed(w)' : Row(w, served[w][i])' \in localZone'
    BY <1>1, <1>6, <2>1, <2>2
  <2> QED
    BY <1>1, <1>3, <1>4, <1>8, <2>1, <2>3, PoolAssumption DEF Received
<1> QED
  BY <1>7, <1>8

LEMMA ReceiveStep ==
  ASSUME IInv, NEW w \in Workers, Receive(w)
  PROVE  IInv'
<1>0. /\ worker[w] = "receiving" /\ stream[w] # <<>> /\ Working(w) /\ Types /\ Local(w)
      /\ stream' = [stream EXCEPT ![w] = Tail(@)]
      /\ view' = [view EXCEPT ![w] = Zone(w).view]
      /\ UNCHANGED <<fetcherVars, appsChan, app, served, inventory>>
  BY ReceiveMoves DEF IInv, Working
<1>1. /\ Tail(stream[w]) \in Seq(ZoneSet) /\ New(w) \in Seq(ZoneSet)
      /\ Len(New(w)) \in 1 .. BatchSize /\ NamesOnce(New(w))
  BY <1>0, NextZone, NewBatch, NewBatchFits
<1>2. /\ stream'[w] = Tail(stream[w]) /\ view'[w] = Zone(w).view
      /\ stream' \in [Workers -> Seq(ZoneSet)] /\ DOMAIN view' = Workers
      /\ \A v \in Workers \ {w} : stream'[v] = stream[v] /\ view'[v] = view[v]
  BY <1>0, <1>1 DEF Types, StreamTypes
<1>3. "erred" \in Statuses \ {"ok"}
  BY DEF Statuses
<1>4. InventoryTypes'
  BY <1>0, Frames DEF Types
<1>5. CASE UNCHANGED <<batch, localZone>> /\ Broken(w, "erred")
  <2>1. StreamTypes' /\ BatchFits(w)'
    BY <1>0, <1>2, <1>5 DEF Types, StreamTypes, Local, BatchFits, NamesOnce
  <2> QED
    BY <1>0, <1>2, <1>3, <1>5, <2>1, BrokenStep
<1>6. CASE /\ batch' = [batch EXCEPT ![w] = New(w)]
           /\ localZone' = localZone \cup Rows(w, Old(w))
           /\ Broken(w, "erred")
  <2>1. /\ batch'[w] = New(w) /\ batch' \in [Workers -> Seq(ZoneSet)]
        /\ \A v \in Workers \ {w} : batch'[v] = batch[v]
    BY <1>0, <1>1, <1>6 DEF Types, StreamTypes
  <2>2. StreamTypes'
    BY <1>0, <1>2, <2>1 DEF Types, StreamTypes
  <2>3. BatchFits(w)'
    BY <1>1, <2>1, PoolAssumption DEF BatchFits, NamesOnce
  <2> QED
    BY <1>0, <1>2, <1>3, <1>6, <2>1, <2>2, <2>3, BrokenStep
<1>7. ASSUME NEW b \in {New(w), <<>>}, batch' = [batch EXCEPT ![w] = b],
             localZone \subseteq localZone', UNCHANGED <<state, worker>>, Received(w)'
      PROVE  IInv'
  <2>0. b \in Seq(ZoneSet) /\ batch \in [Workers -> Seq(ZoneSet)]
    <3>1. <<>> \in Seq(ZoneSet) /\ New(w) \in Seq(ZoneSet)
      BY <1>1
    <3> QED
      BY <1>0, <3>1, Zenon DEF Types, StreamTypes
  <2>1. /\ batch'[w] = b /\ batch' \in [Workers -> Seq(ZoneSet)]
        /\ \A v \in Workers \ {w} : batch'[v] = batch[v]
    BY <1>7, <2>0
  <2>2. StreamTypes' /\ WorkerTypes'
    BY <1>0, <1>2, <1>7, <2>1 DEF Types, StreamTypes, WorkerTypes
  <2>3. BatchFits(w)'
    BY <1>1, <2>1, PoolAssumption DEF BatchFits, NamesOnce
  <2>4. Local(w)' /\ Working(w)'
    BY <1>0, <1>7, <2>3 DEF Local, ErrorNamed, Fresh, Stored, Working
  <2>5. \A v \in Workers \ {w} : Same(v)
    BY <1>0, <1>2, <1>7, <2>1 DEF Same
  <2> QED
    BY <1>0, <1>4, <1>7, <2>2, <2>4, <2>5, BusyKeeps
<1>8. CASE /\ Len(New(w)) < BatchSize
           /\ batch' = [batch EXCEPT ![w] = New(w)]
           /\ localZone' = localZone \cup Rows(w, Old(w))
           /\ UNCHANGED <<state, worker>>
  <2>1. batch'[w] = New(w)
    BY <1>0, <1>8 DEF Types, StreamTypes
  <2>2. Received(w)'
    BY <1>0, <1>2, <1>8, <2>1, ReceivedOn
  <2> QED
    BY <1>7, <1>8, <2>2
<1>9. CASE /\ batch' = [batch EXCEPT ![w] = <<>>]
           /\ localZone' = localZone \cup Rows(w, Old(w)) \cup Rows(w, New(w))
           /\ UNCHANGED <<state, worker>>
  <2>1. batch'[w] = <<>>
    BY <1>0, <1>9 DEF Types, StreamTypes
  <2>2. Received(w)'
    BY <1>0, <1>2, <1>9, <2>1, ReceivedOn
  <2> QED
    BY <1>7, <1>9, <2>2
<1> QED
  BY <1>5, <1>6, <1>8, <1>9, ReceiveMoves
-----------------------------------------------------------------------------
(* The end of a stream, and saving the state                               *)

\* At the end of the stream all zones are stored or in the batch.
LEMMA AllRead ==
  ASSUME IInv, NEW w \in Workers, worker[w] = "receiving", stream[w] = <<>>,
         NEW i \in 1 .. Len(served[w])
  PROVE  Row(w, served[w][i]) \in localZone \cup Rows(w, batch[w])
<1>1. /\ Received(w) /\ served[w] \in Seq(ZoneSet) /\ batch[w] \in Seq(ZoneSet)
  BY DEF IInv, Local, Types, StreamTypes
<1>2. Len(stream[w]) = 0 /\ Len(served[w]) \in Nat /\ Len(batch[w]) \in Nat
  BY <1>1
<1>3. Read(w) = Len(served[w])
  BY <1>2 DEF Read
<1>4. Flushed(w) \in Nat /\ Flushed(w) + Len(batch[w]) = Len(served[w])
  BY <1>1, <1>2, <1>3 DEF Received, Flushed
<1>5. CASE i <= Flushed(w)
  BY <1>1, <1>4, <1>5 DEF Received
<1>6. CASE i > Flushed(w)
  <2>1. i - Flushed(w) \in 1 .. Len(batch[w]) /\ Flushed(w) + (i - Flushed(w)) = i
    BY <1>2, <1>4, <1>6
  <2>2. batch[w][i - Flushed(w)] = served[w][i]
    BY <1>1, <2>1 DEF Received
  <2>3. served[w][i] \in Range(batch[w])
    BY <1>1, <2>1, <2>2 DEF Range
  <2> QED
    BY <2>3 DEF Row, Rows
<1> QED
  BY <1>2, <1>4, <1>5, <1>6

LEMMA StreamEndStep ==
  ASSUME IInv, NEW w \in Workers, StreamEnd(w)
  PROVE  IInv'
<1>0. /\ worker[w] = "receiving" /\ stream[w] = <<>> /\ Working(w) /\ Types /\ Local(w)
      /\ worker' = [worker EXCEPT ![w] = "saving"] /\ worker'[w] = "saving"
      /\ \A v \in Workers \ {w} : worker'[v] = worker[v]
      /\ UNCHANGED <<fetcherVars, appsChan, app, view, stream, served, inventory>>
  BY DEF StreamEnd, IInv, Working, Types, WorkerTypes, streamVars
<1>1. InventoryTypes' /\ Working(w)'
  BY <1>0, Frames DEF Types, Working
<1>2. CASE /\ state[w].error = NoApp /\ NamesOnce(batch[w])
           /\ localZone' = localZone \cup Rows(w, batch[w])
           /\ batch' = [batch EXCEPT ![w] = <<>>]
           /\ UNCHANGED state
  <2>1. /\ batch'[w] = <<>> /\ batch' \in [Workers -> Seq(ZoneSet)]
        /\ \A v \in Workers \ {w} : batch'[v] = batch[v]
    BY <1>0, <1>2 DEF Types, StreamTypes
  <2>2. StreamTypes' /\ WorkerTypes'
    BY <1>0, <1>2, <2>1 DEF Types, StreamTypes, WorkerTypes, WorkerStates
  <2>3. Stored(w)'
    BY <1>0, <1>2, AllRead DEF Stored, Row
  <2>4. Local(w)'
    BY <1>0, <1>2, <2>1, <2>3, PoolAssumption DEF Local, ErrorNamed, Fresh, BatchFits, NamesOnce
  <2>5. \A v \in Workers \ {w} : Same(v)
    BY <1>0, <1>2, <2>1 DEF Same
  <2> QED
    BY <1>0, <1>1, <1>2, <2>2, <2>4, <2>5, BusyKeeps
<1>3. CASE /\ state[w].error = NoApp /\ batch[w] # <<>>
           /\ state' = Erred(w, "erred")
           /\ UNCHANGED <<batch, localZone>>
  <2>1. Broken(w, "erred") /\ "erred" \in Statuses \ {"ok"}
    BY <1>0, <1>3 DEF Broken, Statuses
  <2>2. StreamTypes' /\ BatchFits(w)'
    BY <1>0, <1>3 DEF Types, StreamTypes, Local, BatchFits, NamesOnce
  <2> QED
    BY <1>0, <1>3, <2>1, <2>2, BrokenStep
<1>4. CASE /\ state[w].error # NoApp
           /\ UNCHANGED <<state, batch, localZone>>
  <2>1. StreamTypes' /\ WorkerTypes'
    BY <1>0, <1>4 DEF Types, StreamTypes, WorkerTypes, WorkerStates
  <2>2. Local(w)'
    BY <1>0, <1>4 DEF Local, ErrorNamed, Fresh, BatchFits, NamesOnce, Stored
  <2>3. \A v \in Workers \ {w} : Same(v)
    BY <1>0, <1>4 DEF Same
  <2> QED
    BY <1>0, <1>1, <1>4, <2>1, <2>2, <2>3, BusyKeeps
<1> QED
  BY <1>2, <1>3, <1>4 DEF StreamEnd

LEMMA SaveStateStep ==
  ASSUME IInv, NEW w \in Workers, SaveState(w)
  PROVE  IInv'
<1>0. /\ worker[w] = "saving" /\ Working(w) /\ Types /\ Local(w)
      /\ app[w] \in Apps /\ app[w] # NoApp
      /\ worker' = [worker EXCEPT ![w] = "storing"] /\ worker'[w] = "storing"
      /\ \A v \in Workers \ {w} : worker'[v] = worker[v]
      /\ UNCHANGED <<fetcherVars, appsChan, app, view, batch, streamVars, stream, served, localZone>>
  <2>1. worker[w] = "saving" /\ Working(w) /\ Types
    BY DEF SaveState, IInv, Working
  <2> QED
    BY <2>1, HasApp DEF SaveState, IInv, Types, WorkerTypes, streamVars
<1>1. StreamTypes' /\ Working(w)' /\ worker' \in [Workers -> WorkerStates]
  BY <1>0, Frames DEF Types, WorkerTypes, WorkerStates, Working
<1>2. CASE /\ inventory' = [inventory EXCEPT ![app[w]] = state[w]]
           /\ UNCHANGED state
  <2>1. InventoryTypes' /\ WorkerTypes'
    BY <1>0, <1>1, <1>2 DEF Types, InventoryTypes, WorkerTypes
  <2>2. Local(w)' /\ \A v \in Workers \ {w} : Same(v)
    BY <1>0, <1>2 DEF Same, Local, ErrorNamed, Fresh, BatchFits, NamesOnce, Stored, Row
  <2> QED
    BY <1>0, <1>1, <2>1, <2>2, BusyKeeps
<1>3. CASE state' = Erred(w, "erred") /\ UNCHANGED inventory
  <2>1. "erred" \in Statuses
    BY DEF Statuses
  <2>2. /\ state' \in [Workers -> Details]
        /\ state'[w].status = "erred" /\ state'[w].error = app[w]
        /\ \A v \in Workers \ {w} : state'[v] = state[v]
    BY <1>0, <1>3, <2>1, ErredIs DEF Types
  <2>3. WorkerTypes' /\ InventoryTypes'
    BY <1>0, <1>1, <1>3, <2>2, Frames DEF Types, WorkerTypes
  <2>4. Local(w)'
    BY <1>0, <2>2 DEF Local, ErrorNamed, Fresh, BatchFits, NamesOnce, Stored
  <2>5. \A v \in Workers \ {w} : Same(v)
    BY <1>0, <2>2 DEF Same
  <2> QED
    BY <1>0, <1>1, <2>3, <2>4, <2>5, BusyKeeps
<1> QED
  BY <1>2, <1>3 DEF SaveState
-----------------------------------------------------------------------------
(* Taking an application, and settling it                                  *)

LEMMA ExitStep ==
  ASSUME IInv, NEW w \in Workers, Exit(w)
  PROVE  IInv'
<1>0. /\ Types /\ Local(w) /\ Shares /\ Counts /\ worker[w] = "taking"
      /\ worker' = [worker EXCEPT ![w] = "done"] /\ worker'[w] = "done"
      /\ \A v \in Workers \ {w} : worker'[v] = worker[v]
      /\ UNCHANGED <<fetcherVars, appsChan, app, state, view, batch, streamVars, stream, served,
                     localZone, inventory>>
  BY DEF Exit, IInv, Types, WorkerTypes, streamVars, dbVars
<1>1. Types' /\ Counts'
  BY <1>0, Frames DEF Types, WorkerTypes, WorkerStates
<1>2. Shares'
  BY <1>0, SharesKeep DEF Working
<1>3. Local(w)'
  BY <1>0 DEF Local, ErrorNamed, Fresh, BatchFits, NamesOnce, Stored
<1>4. \A v \in Workers \ {w} : Local(v)'
  BY <1>0, OthersKeep DEF IInv, Same
<1> QED
  BY <1>0, <1>1, <1>2, <1>3, <1>4 DEF IInv

LEMMA TakeStep ==
  ASSUME IInv, NEW w \in Workers, Take(w)
  PROVE  IInv'
<1>1. PICK a \in appsChan : app' = [app EXCEPT ![w] = a] /\ appsChan' = appsChan \ {a}
  BY DEF Take
<1>0. /\ Types /\ Local(w) /\ Shares /\ Counts /\ worker[w] = "taking"
      /\ a \in apps /\ appsChan \subseteq apps /\ apps \subseteq Apps
      /\ worker' = [worker EXCEPT ![w] = "calling"] /\ worker'[w] = "calling"
      /\ app'[w] = a
      /\ \A v \in Workers \ {w} : worker'[v] = worker[v] /\ app'[v] = app[v]
      /\ UNCHANGED <<fetcherVars, fetcher, fetching, appsCount, completed, apps, results>>
      /\ UNCHANGED <<state, view, batch, streamVars, stream, served, localZone, inventory>>
  BY <1>1 DEF Take, IInv, Types, FetcherTypes, WorkerTypes, fetcherVars, streamVars, dbVars
<1>2. Types'
  <2>1. FetcherTypes'
    BY <1>0, <1>1 DEF Types, FetcherTypes
  <2>2. WorkerTypes'
    BY <1>0, <1>1 DEF Types, WorkerTypes, WorkerStates
  <2>3. StreamTypes' /\ InventoryTypes'
    BY <1>0, Frames DEF Types
  <2> QED
    BY <2>1, <2>2, <2>3 DEF Types
<1>3. Counts'
  BY <1>0, Frames
<1>4. Shares'
  <2>1. /\ fetcher = "waiting" /\ a \notin DOMAIN results /\ ~ Working(w) /\ Working(w)'
        /\ \A v \in Workers \ {w} : Working(v)' <=> Working(v)
    BY <1>0, <1>1 DEF Shares, Working
  <2>2. \A v \in Workers : Working(v)' =>
          /\ app'[v] \in apps \ (appsChan' \cup DOMAIN results)
          /\ v # w => app'[v] # a
    BY <1>0, <1>1, <2>1 DEF Shares
  <2>3. \A u, v \in Workers : Working(u)' /\ Working(v)' /\ app'[u] = app'[v] => u = v
    BY <1>0, <2>1, <2>2 DEF Shares
  <2>4. ASSUME NEW b \in apps
        PROVE  \/ b \in appsChan' \cup DOMAIN results
               \/ \E v \in Workers : Working(v)' /\ app'[v] = b
    BY <1>0, <1>1, <2>1 DEF Shares
  <2>5. appsChan' \cap DOMAIN results = {}
    BY <1>0, <1>1 DEF Shares
  <2> QED
    BY <1>0, <2>1, <2>2, <2>3, <2>4, <2>5 DEF Shares
<1>5. Local(w)'
  BY <1>0 DEF Local, ErrorNamed, Fresh, BatchFits, NamesOnce, Stored
<1>6. \A v \in Workers \ {w} : Local(v)'
  BY <1>0, OthersKeep DEF IInv, Same
<1> QED
  BY <1>2, <1>3, <1>4, <1>5, <1>6 DEF IInv

LEMMA StoreResultStep ==
  ASSUME IInv, NEW w \in Workers, StoreResult(w)
  PROVE  IInv'
<1>0. /\ Types /\ Local(w) /\ Shares /\ Counts /\ worker[w] = "storing" /\ Working(w)
      /\ app[w] \in apps /\ app[w] \notin appsChan \cup DOMAIN results /\ fetcher = "waiting"
      /\ IsFiniteSet(DOMAIN results)
  <2>1. Types /\ Local(w) /\ Shares /\ Counts /\ worker[w] = "storing" /\ Working(w)
    BY DEF StoreResult, IInv, Working
  <2>2. app[w] \in apps /\ app[w] \notin appsChan \cup DOMAIN results /\ fetcher = "waiting"
    BY <2>1 DEF Shares
  <2>3. DOMAIN results \subseteq Apps
    BY <2>1 DEF Types, FetcherTypes
  <2> QED
    BY <2>1, <2>2, <2>3, FS_Subset, AppsAssumption
<1>1. /\ worker' = [worker EXCEPT ![w] = "taking"] /\ worker'[w] = "taking"
      /\ app' = [app EXCEPT ![w] = NoApp]
      /\ batch' = [batch EXCEPT ![w] = <<>>] /\ batch'[w] = <<>>
      /\ UNCHANGED <<fetcher, fetching, appsCount, apps, appsChan, state, localZone, inventory>>
  BY <1>0 DEF StoreResult, Types, WorkerTypes, StreamTypes, dbVars
<1>2. /\ DOMAIN results' = DOMAIN results \cup {app[w]}
      /\ \A a \in DOMAIN results' : results'[a] = IF a = app[w] THEN w ELSE results[a]
      /\ completed' = completed + 1
  BY DEF StoreResult
<1>3. \A v \in Workers \ {w} : Same(v) /\ (Working(v)' <=> Working(v)) /\ app'[v] = app[v]
  BY <1>0 DEF StoreResult, Types, WorkerTypes, StreamTypes, Same, Working
<1>4. Types'
  <2>1. FetcherTypes'
    <3>1. completed \in Nat /\ completed + 1 \in Nat
      BY <1>0 DEF Types, FetcherTypes
    <3>2. DOMAIN results' \subseteq apps /\ \A a \in DOMAIN results' : results'[a] \in Workers
      BY <1>0, <1>2 DEF Types, FetcherTypes
    <3> QED
      BY <1>0, <1>1, <1>2, <3>1, <3>2 DEF Types, FetcherTypes
  <2>2. WorkerTypes'
    BY <1>0, <1>1 DEF Types, WorkerTypes, WorkerStates
  <2>3. StreamTypes'
    <3>1. <<>> \in Seq(ZoneSet)
      OBVIOUS
    <3> QED
      BY <1>0, <3>1 DEF StoreResult, Types, StreamTypes
  <2>4. InventoryTypes'
    BY <1>0, <1>1, Frames DEF Types
  <2> QED
    BY <2>1, <2>2, <2>3, <2>4 DEF Types
<1>5. Counts'
  <2>1. Cardinality(DOMAIN results') = Cardinality(DOMAIN results) + 1
    BY <1>0, <1>2, FS_AddElement
  <2> QED
    BY <1>0, <1>1, <1>2, <2>1 DEF Counts
<1>6. Shares'
  <2>0. ~ Working(w)'
    BY <1>1 DEF Working
  <2>1. \A v \in Workers : Working(v)' => v # w /\ Working(v) /\ app'[v] = app[v] /\ app[v] # app[w]
    BY <1>0, <1>3, <2>0 DEF Shares
  <2>2. \A v \in Workers : Working(v)' => app'[v] \in apps \ (appsChan \cup DOMAIN results')
    BY <1>0, <1>2, <2>1 DEF Shares
  <2>3. \A u, v \in Workers : Working(u)' /\ Working(v)' /\ app'[u] = app'[v] => u = v
    BY <1>0, <2>1 DEF Shares
  <2>4. ASSUME NEW a \in apps
        PROVE  \/ a \in appsChan \cup DOMAIN results'
               \/ \E v \in Workers : Working(v)' /\ app'[v] = a
    BY <1>0, <1>2, <1>3 DEF Shares
  <2>5. appsChan \cap DOMAIN results' = {}
    BY <1>0, <1>2 DEF Shares
  <2> QED
    BY <1>0, <1>1, <2>2, <2>3, <2>4, <2>5 DEF Shares
<1>7. Local(w)'
  BY <1>0, <1>1, PoolAssumption DEF Local, ErrorNamed, Fresh, BatchFits, NamesOnce, Stored
<1>8. \A v \in Workers \ {w} : Local(v)'
  BY <1>1, <1>3, OthersKeep DEF IInv
<1> QED
  BY <1>4, <1>5, <1>6, <1>7, <1>8 DEF IInv
-----------------------------------------------------------------------------
(* The invariant holds, and the properties follow                          *)

LEMMA InvNext == IInv /\ [Next]_vars => IInv'
<1> SUFFICES ASSUME IInv, [Next]_vars PROVE IInv'
  OBVIOUS
<1>1. CASE Fetcher
  BY <1>1, FetcherSteps, ListAppsStep DEF Fetcher
<1>2. ASSUME NEW w \in Workers, Worker(w) PROVE IInv'
  BY <1>2, TakeStep, ExitStep, CallStep, RetryStep, ReceiveStep, StreamBreaksStep, StreamEndStep,
     SaveStateStep, StoreResultStep DEF Worker
<1>3. CASE UNCHANGED vars
  <2>0. /\ UNCHANGED <<fetcherVars, appsChan, worker, app, state, view, batch, streamVars, stream,
                       served, localZone, inventory>>
        /\ Types /\ Counts /\ Shares
    BY <1>3 DEF vars, streamVars, dbVars, IInv
  <2>1. Types' /\ Counts'
    BY <2>0, Frames DEF Types, WorkerTypes
  <2>2. Shares'
    BY <2>0, SharesKeep DEF Working
  <2>3. \A w \in Workers : Local(w)'
    BY <2>0, OthersKeep DEF IInv, Same
  <2> QED
    BY <2>1, <2>2, <2>3 DEF IInv
<1> QED
  BY <1>1, <1>2, <1>3 DEF Next

LEMMA InvHolds == Spec => []IInv
BY InvInit, InvNext, PTL DEF Spec

LEMMA InvImplies == IInv => ResultsAreTrue
<1> SUFFICES ASSUME IInv PROVE ResultsAreTrue
  OBVIOUS
<1>0. Types /\ Shares /\ Counts /\ \A w \in Workers : Local(w)
  BY DEF IInv
<1>1. OkMeansStored
  <2> SUFFICES ASSUME NEW w \in Workers, worker[w] = "storing", state[w].status = "ok",
                      NEW z \in Range(served[w])
               PROVE  [daemon |-> app[w], zone |-> z] \in localZone
    BY DEF OkMeansStored, Rows
  <2>1. served[w] \in Seq(ZoneSet)
    BY <1>0 DEF Types, StreamTypes
  <2>2. PICK i \in 1 .. Len(served[w]) : z = served[w][i]
    BY <2>1 DEF Range
  <2> QED
    BY <1>0, <2>2 DEF Local, Stored, Row
<1>2. TypeOK
  <2>1. DOMAIN results \subseteq apps /\ Range(results) \subseteq Workers
    BY <1>0 DEF Types, FetcherTypes, Range
  <2>2. \A w \in Workers : Len(batch[w]) <= BatchSize /\ NamesOnce(batch[w])
    BY <1>0 DEF Local, BatchFits
  <2> QED
    BY <1>0, <2>1, <2>2 DEF TypeOK, Types, FetcherTypes, WorkerTypes, InventoryTypes
<1>3. ASSUME fetcher \in {"waiting", "stopping"}
      PROVE  apps = appsChan \cup DOMAIN results \cup {app[w] : w \in {v \in Workers : Working(v)}}
  <2>1. /\ appsChan \subseteq apps /\ DOMAIN results \subseteq apps
        /\ \A v \in Workers : Working(v) => app[v] \in apps
    BY <1>0 DEF Types, FetcherTypes, Shares
  <2>2. \A a \in apps : \/ a \in appsChan \cup DOMAIN results
                        \/ \E v \in Workers : Working(v) /\ app[v] = a
    BY <1>0, <1>3 DEF Shares
  <2> QED
    BY <2>1, <2>2
<1>4. \A v, w \in Workers : Working(v) /\ Working(w) /\ app[v] = app[w] => v = w
  BY <1>0 DEF Shares
<1>5. NoAppLost
  BY <1>0, <1>2, <1>3, <1>4 DEF NoAppLost, Working, Counts, Shares
<1> QED
  BY <1>1, <1>5 DEF ResultsAreTrue

\* What a round of FetchZones reports of its applications is true and complete: a
\* worker that reports "ok" has stored every zone its agent streamed, no batch
\* names a zone twice, and no application is lost or handled twice.
THEOREM ResultsTrue == Spec => []ResultsAreTrue
BY InvHolds, InvImplies, PTL

-----------------------------------------------------------------------------
(* The manager implements its rounds                                       *)

LEMMA RoundStep ==
  ASSUME IInv, [Next]_vars
  PROVE  [Round!Next]_(Round!vars)
<1> USE DEF Round!Next, Round!vars
<1>1. CASE ListApps
  <2>1. DOMAIN results' = {} /\ apps' \in SUBSET Apps
    BY <1>1 DEF ListApps
  <2>2. (apps \ DOMAIN results)' \in SUBSET Apps
    BY <2>1
  <2> QED
    BY <1>1, <2>2 DEF ListApps, Round!Start
<1>2. CASE Notify
  <2>1. apps \ DOMAIN results = {}
    BY <1>2 DEF Notify, Waited
  <2> QED
    BY <1>2, <2>1 DEF Notify, Round!End
<1>3. CASE StartFetching \/ ListAppsFails \/ StopFetching
  BY <1>3 DEF StartFetching, ListAppsFails, StopFetching
<1>4. ASSUME NEW w \in Workers, StoreResult(w)
      PROVE  Round!Next
  <2>1. Working(w) /\ Shares /\ apps \subseteq Apps
    BY <1>4 DEF StoreResult, Working, IInv, Types, FetcherTypes
  <2>2. fetcher = "waiting" /\ app[w] \in apps \ DOMAIN results /\ app[w] \in Apps
    BY <2>1 DEF Shares
  <2>3. DOMAIN results' = DOMAIN results \cup {app[w]} /\ UNCHANGED <<fetcher, apps>>
    BY <1>4 DEF StoreResult
  <2>4. (apps \ DOMAIN results)' = (apps \ DOMAIN results) \ {app[w]}
    BY <2>3
  <2> QED
    BY <2>2, <2>3, <2>4 DEF Round!Settle
<1>5. ASSUME NEW w \in Workers, Worker(w), ~ StoreResult(w)
      PROVE  UNCHANGED fetcherVars
  BY <1>5 DEF Worker, Take, Exit, Call, Retry, Receive, StreamBreaks, StreamEnd, SaveState
<1>6. UNCHANGED vars => UNCHANGED fetcherVars
  BY DEF vars
<1>7. UNCHANGED fetcherVars => UNCHANGED Round!vars
  BY DEF fetcherVars
<1> QED
  BY <1>1, <1>2, <1>3, <1>4, <1>5, <1>6, <1>7 DEF Next, Fetcher

\* FetchZones implements the safety part of its abstract specification: the
\* applications of a round are fixed when it starts, each of them is settled
\* exactly once, and the round ends only when all of them are.
THEOREM RoundsAreImplemented == Spec => Round!Init /\ [][Round!Next]_(Round!vars)
<1>1. Init => Round!Init
  BY DEF Init, Round!Init
<1>2. IInv /\ [Next]_vars => [Round!Next]_(Round!vars)
  BY RoundStep
<1> QED
  BY <1>1, <1>2, InvHolds, PTL DEF Spec

-----------------------------------------------------------------------------
(* The smallest element of a set                                           *)

LEMMA HasSmallest ==
  ASSUME NEW ints, ints \subseteq Nat, ints # {}
  PROVE  \E x \in ints : \A y \in ints : x <= y
<1> DEFINE Below == {ss \in Nat \X Nat : ss[1] < ss[2]}
<1>1. IsWellFoundedOn(Below, Nat)
  BY NatLessThanWellFounded, Zenon DEF OpToRel
<1> HIDE DEF Below
<1>2. PICK x \in ints : \A y \in ints : ~ (<<y, x>> \in Below)
  BY <1>1, WFMin, Zenon
<1>3. \A y \in ints : ~ (y < x)
  BY <1>2 DEF Below
<1> QED BY <1>2, <1>3, SMT

-----------------------------------------------------------------------------
(* Sums over a finite set                                                  *)

\* The element that a sum begins with.
First(xs) == CHOOSE x \in xs : TRUE
\* A function that sums the subsets of xs, or some of them.
Sums(h, f, dom) ==
  h = [s \in dom |-> IF s = {} THEN 0 ELSE f[First(s)] + h[s \ {First(s)}]]

LEMMA SumIs ==
  ASSUME NEW f, NEW xs
  PROVE  R!Sum(f, xs) = (CHOOSE h : Sums(h, f, SUBSET xs))[xs]
BY DEF R!Sum, R!MapThenSumSet, R!MapThenFoldSet, Sums, First

LEMMA Smaller ==
  ASSUME NEW xs, IsFiniteSet(xs), NEW s \in SUBSET xs, s # {}
  PROVE  /\ First(s) \in s /\ First(s) \in xs /\ s \ {First(s)} \in SUBSET xs
         /\ IsFiniteSet(s) /\ Cardinality(s) \in Nat
         /\ Cardinality(s \ {First(s)}) = Cardinality(s) - 1
<1>1. First(s) \in s
  BY DEF First
<1>2. IsFiniteSet(s) /\ Cardinality(s) \in Nat
  BY FS_Subset, FS_CardinalityType
<1> QED BY <1>1, <1>2, FS_RemoveElement

\* There is such a function for every finite set.
LEMMA HasSums ==
  ASSUME NEW f, NEW xs, IsFiniteSet(xs)
  PROVE  \E h : Sums(h, f, SUBSET xs)
<1> DEFINE Upto(n) == {s \in SUBSET xs : Cardinality(s) <= n}
           without == {n \in Nat : ~ \E h : Sums(h, f, Upto(n))}
<1>1. without = {}
  <2> SUFFICES ASSUME without # {} PROVE FALSE
    OBVIOUS
  <2>1. PICK m \in without : \A n \in without : m <= n
    <3>1. without \subseteq Nat
      OBVIOUS
    <3> HIDE DEF without
    <3> QED BY <3>1, HasSmallest
  <2>2. CASE m = 0
    <3> DEFINE h == [s \in Upto(0) |-> 0]
    <3>1. \A s \in Upto(0) : s = {}
      <4> SUFFICES ASSUME NEW s \in Upto(0), s # {} PROVE FALSE
        OBVIOUS
      <4>1. Cardinality(s \ {First(s)}) = Cardinality(s) - 1 /\ Cardinality(s) \in Nat /\ Cardinality(s) <= 0
        BY Smaller
      <4>2. Cardinality(s \ {First(s)}) \in Nat
        BY FS_Subset, FS_CardinalityType
      <4> QED BY <4>1, <4>2
    <3>2. Sums(h, f, Upto(0))
      BY <3>1, Zenon DEF Sums
    <3> QED BY <2>1, <2>2, <3>2
  <2>3. CASE m # 0
    <3>1. m - 1 \in Nat /\ m \in Nat
      BY <2>1, <2>3
    <3>2. m - 1 \notin without
      <4> HIDE DEF without
      <4> QED BY <2>1, <3>1
    <3>3. PICK g : Sums(g, f, Upto(m - 1))
      BY <3>1, <3>2
    <3> DEFINE h == [s \in Upto(m) |-> IF s = {} THEN 0 ELSE f[First(s)] + g[s \ {First(s)}]]
    <3>4. \A s \in Upto(m - 1) : h[s] = g[s] /\ s \in Upto(m)
      <4> SUFFICES ASSUME NEW s \in Upto(m - 1) PROVE h[s] = g[s] /\ s \in Upto(m)
        OBVIOUS
      <4>1. s \in Upto(m)
        BY <3>1, FS_Subset, FS_CardinalityType
      <4>2. g[s] = IF s = {} THEN 0 ELSE f[First(s)] + g[s \ {First(s)}]
        BY <3>3, Zenon DEF Sums
      <4> QED BY <4>1, <4>2, Zenon
    <3>5. \A s \in Upto(m) : s # {} => s \ {First(s)} \in Upto(m - 1)
      BY <3>1, Smaller
    <3>6. \A s \in Upto(m) : s # {} => h[s \ {First(s)}] = g[s \ {First(s)}]
      BY <3>4, <3>5
    <3>7. h = [s \in Upto(m) |-> IF s = {} THEN 0 ELSE f[First(s)] + h[s \ {First(s)}]]
      <4> HIDE DEF Upto
      <4>1. \A s \in Upto(m) : (IF s = {} THEN 0 ELSE f[First(s)] + g[s \ {First(s)}])
                             = (IF s = {} THEN 0 ELSE f[First(s)] + h[s \ {First(s)}])
        BY <3>6
      <4>2. [s \in Upto(m) |-> IF s = {} THEN 0 ELSE f[First(s)] + g[s \ {First(s)}]]
            = [s \in Upto(m) |-> IF s = {} THEN 0 ELSE f[First(s)] + h[s \ {First(s)}]]
        BY <4>1, Zenon
      <4> QED BY <4>2
    <3>8. Sums(h, f, Upto(m))
      BY <3>7 DEF Sums
    <3> QED BY <2>1, <3>8
  <2> QED BY <2>2, <2>3
<1>2. Cardinality(xs) \in Nat /\ Upto(Cardinality(xs)) = SUBSET xs
  <2>1. Cardinality(xs) \in Nat
    BY FS_CardinalityType
  <2>2. \A s \in SUBSET xs : Cardinality(s) <= Cardinality(xs)
    BY FS_Subset
  <2> QED BY <2>1, <2>2
<1>3. \E h : Sums(h, f, Upto(Cardinality(xs)))
  <2> HIDE DEF Upto
  <2> QED BY <1>1, <1>2
<1> QED BY <1>2, <1>3

\* What is summed: any element may be the first, and the sets around it do not matter.
LEMMA SumsAgree ==
  ASSUME NEW f, NEW xs, NEW ys, IsFiniteSet(ys), xs \subseteq ys, \A x \in ys : f[x] \in Int,
         NEW g, NEW h, Sums(g, f, SUBSET xs), Sums(h, f, SUBSET ys)
  PROVE  \A s \in SUBSET xs : g[s] = h[s] /\ g[s] \in Int
<1> SUFFICES ASSUME NEW r \in SUBSET xs, ~(g[r] = h[r] /\ g[r] \in Int) PROVE FALSE
  OBVIOUS
<1> DEFINE bad == {n \in Nat : \E s \in SUBSET xs : n = Cardinality(s) /\ ~(g[s] = h[s] /\ g[s] \in Int)}
<1>1. IsFiniteSet(xs)
  BY FS_Subset
<1>2. bad # {} /\ bad \subseteq Nat
  BY <1>1, FS_Subset, FS_CardinalityType
<1>3. PICK n \in bad : \A m \in bad : n <= m
  <2> HIDE DEF bad
  <2> QED BY <1>2, HasSmallest
<1>4. PICK s \in SUBSET xs : n = Cardinality(s) /\ ~(g[s] = h[s] /\ g[s] \in Int)
  BY <1>3
<1>5. g[s] = IF s = {} THEN 0 ELSE f[First(s)] + g[s \ {First(s)}]
  BY Zenon DEF Sums
<1>6. h[s] = IF s = {} THEN 0 ELSE f[First(s)] + h[s \ {First(s)}]
  <2>1. s \in SUBSET ys
    OBVIOUS
  <2> QED BY <2>1, Zenon DEF Sums
<1>7. s # {}
  BY <1>4, <1>5, <1>6
<1> DEFINE t == s \ {First(s)}
<1>8. /\ First(s) \in ys /\ t \in SUBSET xs /\ Cardinality(t) = Cardinality(s) - 1
      /\ Cardinality(t) \in Nat
  <2>1. First(s) \in xs /\ t \in SUBSET xs /\ Cardinality(t) = Cardinality(s) - 1
    BY <1>1, <1>7, Smaller
  <2>2. Cardinality(t) \in Nat
    BY <1>1, <2>1, FS_Subset, FS_CardinalityType
  <2> QED BY <2>1, <2>2
<1>9. Cardinality(t) \notin bad
  <2> HIDE DEF bad, t
  <2> QED BY <1>2, <1>3, <1>4, <1>8
<1>10. g[t] = h[t] /\ g[t] \in Int
  BY <1>8, <1>9
<1> QED BY <1>4, <1>5, <1>6, <1>7, <1>8, <1>10
LEMMA AnyFirst ==
  ASSUME NEW f, NEW xs, IsFiniteSet(xs), \A x \in xs : f[x] \in Int,
         NEW h, Sums(h, f, SUBSET xs), NEW x \in xs
  PROVE  h[xs] = f[x] + h[xs \ {x}]
<1>0. \A s \in SUBSET xs : h[s] \in Int
  BY SumsAgree
<1> SUFFICES ASSUME NEW r \in SUBSET xs, NEW y \in r, h[r] # f[y] + h[r \ {y}] PROVE FALSE
  <2>1. xs \in SUBSET xs
    OBVIOUS
  <2> QED BY <2>1
<1> DEFINE bad == {n \in Nat : \E s \in SUBSET xs : n = Cardinality(s) /\ \E z \in s : h[s] # f[z] + h[s \ {z}]}
<1>1. bad # {} /\ bad \subseteq Nat
  BY FS_Subset, FS_CardinalityType
<1>2. PICK n \in bad : \A m \in bad : n <= m
  <2> HIDE DEF bad
  <2> QED BY <1>1, HasSmallest
<1>3. PICK s \in SUBSET xs : n = Cardinality(s) /\ \E z \in s : h[s] # f[z] + h[s \ {z}]
  BY <1>2
<1>4. PICK z \in s : h[s] # f[z] + h[s \ {z}]
  BY <1>3
<1> DEFINE c == First(s)  t == s \ {c}  u == s \ {z}
<1>5. h[s] = f[c] + h[t]
  <2>1. h[s] = IF s = {} THEN 0 ELSE f[First(s)] + h[s \ {First(s)}]
    BY Zenon DEF Sums
  <2> QED BY <1>4, <2>1
<1>6. /\ c \in s /\ c \in xs /\ t \in SUBSET xs /\ Cardinality(t) = n - 1 /\ Cardinality(t) \in Nat
  <2>1. c \in s /\ c \in xs /\ t \in SUBSET xs /\ Cardinality(t) = Cardinality(s) - 1
    BY <1>4, Smaller
  <2>2. Cardinality(t) \in Nat
    BY <2>1, FS_Subset, FS_CardinalityType
  <2> QED BY <1>3, <2>1, <2>2
<1>7. c # z
  BY <1>4, <1>5
<1>8. u \in SUBSET xs /\ Cardinality(u) = n - 1
  <2>1. IsFiniteSet(s)
    BY FS_Subset
  <2>2. Cardinality(u) = Cardinality(s) - 1
    BY <1>4, <2>1, FS_RemoveElement
  <2> QED BY <1>3, <2>2
<1>9. n - 1 \notin bad
  <2> HIDE DEF bad, t
  <2> QED BY <1>1, <1>2, <1>6
<1>10. h[t] = f[z] + h[t \ {z}]
  <2>1. z \in t
    BY <1>4, <1>7
  <2> QED BY <1>6, <1>9, <2>1
<1>11. h[u] = f[c] + h[u \ {c}]
  <2>1. c \in u
    BY <1>6, <1>7
  <2> QED BY <1>6, <1>8, <1>9, <2>1
<1>12. t \ {z} = u \ {c} /\ t \ {z} \in SUBSET xs /\ z \in xs
  BY <1>4
<1>13. h[t \ {z}] \in Int /\ f[c] \in Int /\ f[z] \in Int
  BY <1>0, <1>6, <1>12
<1>14. h[s] = f[z] + h[u]
  <2> HIDE DEF bad, c, t, u
  <2> DEFINE v == h[t \ {z}]
  <2>1. v \in Int /\ h[t] = f[z] + v /\ h[u] = f[c] + v
    BY <1>10, <1>11, <1>12, <1>13
  <2> HIDE DEF v
  <2> QED BY <1>5, <1>13, <2>1
<1> QED BY <1>4, <1>14

\* The sum of nothing, of one more, and that it is a number.
LEMMA SumOfNone ==
  ASSUME NEW f
  PROVE  R!Sum(f, {}) = 0
<1> DEFINE h == CHOOSE h : Sums(h, f, SUBSET {})
<1>1. Sums(h, f, SUBSET {})
  BY FS_EmptySet, HasSums
<1>2. {} \in SUBSET {}
  OBVIOUS
<1> HIDE DEF h
<1>3. h[{}] = 0
  BY <1>1, <1>2, Zenon DEF Sums
<1> QED BY <1>3, SumIs DEF h

LEMMA SumType ==
  ASSUME NEW f, NEW xs, IsFiniteSet(xs), \A x \in xs : f[x] \in Int
  PROVE  R!Sum(f, xs) \in Int
<1> DEFINE h == CHOOSE h : Sums(h, f, SUBSET xs)
<1>1. Sums(h, f, SUBSET xs)
  BY HasSums
<1> HIDE DEF h
<1>2. h[xs] \in Int
  BY <1>1, SumsAgree
<1> QED BY <1>2, SumIs DEF h

LEMMA SumOfOneLess ==
  ASSUME NEW f, NEW xs, IsFiniteSet(xs), \A x \in xs : f[x] \in Int, NEW x \in xs
  PROVE  R!Sum(f, xs) = f[x] + R!Sum(f, xs \ {x})
<1> DEFINE h == CHOOSE h : Sums(h, f, SUBSET xs)
           g == CHOOSE g : Sums(g, f, SUBSET (xs \ {x}))
<1>1. Sums(h, f, SUBSET xs)
  BY HasSums
<1>2. Sums(g, f, SUBSET (xs \ {x}))
  <2>1. IsFiniteSet(xs \ {x})
    BY FS_Subset
  <2> QED BY <2>1, HasSums
<1> HIDE DEF g, h
<1>3. h[xs] = f[x] + h[xs \ {x}]
  BY <1>1, AnyFirst
<1>4. g[xs \ {x}] = h[xs \ {x}]
  <2> DEFINE ys == xs \ {x}
  <2>1. ys \subseteq xs /\ ys \in SUBSET ys /\ Sums(g, f, SUBSET ys)
    BY <1>2
  <2> HIDE DEF ys
  <2>2. g[ys] = h[ys]
    BY <1>1, <2>1, SumsAgree
  <2> QED BY <2>2 DEF ys
<1>5. R!Sum(f, xs) = h[xs] /\ R!Sum(f, xs \ {x}) = g[xs \ {x}]
  BY SumIs DEF g, h
<1> QED BY <1>3, <1>4, <1>5

LEMMA SumOfOneMore ==
  ASSUME NEW f, NEW xs, IsFiniteSet(xs), NEW x, x \notin xs, \A y \in xs \cup {x} : f[y] \in Int
  PROVE  R!Sum(f, xs \cup {x}) = f[x] + R!Sum(f, xs)
<1>1. IsFiniteSet(xs \cup {x}) /\ (xs \cup {x}) \ {x} = xs
  BY FS_AddElement
<1> QED BY <1>1, SumOfOneLess

\* A sum of less, over less of what is not negative, is not larger.
LEMMA SumBelow ==
  ASSUME NEW f, NEW g, NEW xs, NEW ys, IsFiniteSet(ys), xs \subseteq ys,
         \A x \in xs : f[x] \in Int /\ f[x] <= g[x],
         \A x \in ys : g[x] \in Int, \A x \in ys \ xs : g[x] >= 0
  PROVE  R!Sum(f, xs) <= R!Sum(g, ys)
<1> DEFINE P(t) == R!Sum(f, xs \cap t) <= R!Sum(g, t)
           bad == {n \in Nat : \E t \in SUBSET ys : n = Cardinality(t) /\ ~P(t)}
<1> SUFFICES ASSUME ~P(ys) PROVE FALSE
  <2>1. xs \cap ys = xs
    OBVIOUS
  <2> QED BY <2>1
<1>1. bad # {} /\ bad \subseteq Nat
  <2>1. ys \in SUBSET ys /\ Cardinality(ys) \in Nat
    BY FS_CardinalityType
  <2> HIDE DEF P
  <2> QED BY <2>1
<1>2. PICK n \in bad : \A m \in bad : n <= m
  <2> HIDE DEF bad
  <2> QED BY <1>1, HasSmallest
<1>3. PICK t \in SUBSET ys : n = Cardinality(t) /\ ~P(t)
  BY <1>2
<1>4. IsFiniteSet(t) /\ IsFiniteSet(xs \cap t)
  BY FS_Subset
<1>5. t # {}
  <2> SUFFICES ASSUME t = {} PROVE FALSE
    OBVIOUS
  <2>1. xs \cap t = {}
    OBVIOUS
  <2>2. R!Sum(f, xs \cap t) = 0 /\ R!Sum(g, t) = 0
    BY <2>1, SumOfNone
  <2> QED BY <1>3, <2>2
<1>6. PICK x \in t : TRUE
  BY <1>5
<1> DEFINE u == t \ {x}
<1>7. u \in SUBSET ys /\ Cardinality(u) = n - 1 /\ Cardinality(u) \in Nat
  <2>1. Cardinality(u) = Cardinality(t) - 1 /\ IsFiniteSet(u)
    BY <1>4, <1>6, FS_RemoveElement
  <2> QED BY <1>3, <2>1, FS_CardinalityType
<1>8. P(u)
  <2>1. Cardinality(u) \notin bad
    <3> HIDE DEF bad, u
    <3> QED BY <1>1, <1>2, <1>7
  <2> HIDE DEF P, u
  <2> QED BY <1>7, <2>1
<1>9. R!Sum(g, t) = g[x] + R!Sum(g, u)
  BY <1>4, <1>6, SumOfOneLess
<1>10. R!Sum(g, u) \in Int /\ R!Sum(f, xs \cap u) \in Int /\ g[x] \in Int
  <2>1. IsFiniteSet(u) /\ IsFiniteSet(xs \cap u)
    BY <1>7, FS_Subset
  <2> QED BY <1>6, <1>7, <2>1, SumType
<1>11. CASE x \in xs
  <2>1. xs \cap u = (xs \cap t) \ {x} /\ x \in xs \cap t
    BY <1>6, <1>11
  <2>2. R!Sum(f, xs \cap t) = f[x] + R!Sum(f, xs \cap u)
    BY <1>4, <2>1, SumOfOneLess
  <2>3. f[x] \in Int /\ f[x] <= g[x]
    BY <1>11
  <2> HIDE DEF u
  <2> QED BY <1>3, <1>8, <1>9, <1>10, <2>2, <2>3
<1>12. CASE x \notin xs
  <2>1. xs \cap u = xs \cap t
    BY <1>6, <1>12
  <2>2. g[x] >= 0
    BY <1>6, <1>12
  <2> HIDE DEF u
  <2> QED BY <1>3, <1>8, <1>9, <1>10, <2>1, <2>2
<1> QED BY <1>11, <1>12

-----------------------------------------------------------------------------
(* Rates of responses                                                      *)

TableRows == [start : Nat, duration : Nat, responses : Nat]
RatesTypes ==
  /\ now \in 0..MaxTime /\ asOf \in 0..now /\ counter \in Int /\ slowest \in Nat
  /\ sent \in [0..MaxTime -> Nat]
  /\ previous \in [at : Int, value : Nat] /\ previous.at <= now
  /\ pull \in [pc : {"none", "asked", "answered", "sampled"}, value : Int, read : Nat]
  /\ pull.read <= now
  /\ intervals \in SUBSET TableRows /\ IsFiniteSet(intervals)
  /\ rates[1].responses \in Int /\ rates[2].responses \in Int
\* Rows follow each other, the present interval follows the last of them, and
\* an answer is read after it began.
RowsFollow ==
  /\ \A i \in intervals : /\ i.start + i.duration <= now
                          /\ previous.at >= 0 => i.start + i.duration <= previous.at
                          /\ R!Pulling("answered") => i.start + i.duration <= pull.read
  /\ \A i, j \in intervals : i.start < j.start => i.start + i.duration <= j.start
  /\ R!Pulling("answered") => previous.at <= pull.read
\* The responses of recs that start at a time or later.
Since(recs, a) == {i \in recs : i.start >= a}
Counted(recs) == R!Sum([i \in recs |-> i.responses], recs)
\* Those of an interval that starts with a sample, if it does so at a time or later.
Gain(value, before) == IF value >= before THEN value - before ELSE value
From(sample, a, gain) == IF sample.at >= 0 /\ sample.at >= a THEN gain ELSE 0
Sample == R!Sampled(counter)
Answer == R!Sampled(pull.value)
\* What is truly sent from one time to another.
Times(a, b) == {t \in a..b : t >= 0}
Truly(f, a, b) == R!Sum(f, Times(a, b))
\* No response since any time counts twice, if it is sent no longer before it
\* than the slowest answer took.
NoneTwice ==
  \A a \in Int : Counted(Since(intervals, a)) + From(previous, a, Gain(Sample, previous.value))
                   <= Truly(sent, a - slowest, now)
\* The same when an answer is on its way: what Kea sends after it is counted
\* from the time of the next sample.
AnswerIsNew ==
  R!Pulling("answered") =>
    /\ Gain(Sample, Answer) <= Truly(sent, pull.read, now)
    /\ \A a \in Int : a <= pull.read =>
         Counted(Since(intervals, a)) + From(previous, a, Gain(Answer, previous.value))
           + Gain(Sample, Answer) <= Truly(sent, a - slowest, now)
RatesHold ==
  /\ rates[1].responses <= Truly(sent, asOf - ShortWindow - slowest, asOf)
  /\ rates[2].responses <= Truly(sent, asOf - LongWindow - slowest, asOf)

RatesInv == RatesTypes /\ RowsFollow /\ NoneTwice /\ AnswerIsNew /\ RatesHold

\* The sums over recs.
LEMMA CountedIs ==
  ASSUME NEW recs, IsFiniteSet(recs), recs \subseteq TableRows
  PROVE  /\ Counted(recs) \in Int
         /\ \A some \in SUBSET recs : Counted(some) \in Int /\ Counted(some) <= Counted(recs)
         /\ \A i \in TableRows :
              Counted(recs \cup {i}) <= Counted(recs) + i.responses
<1> USE DEF TableRows
<1> DEFINE of(some) == [i \in some |-> i.responses]
<1>1. \A some \in SUBSET recs : Counted(some) \in Int /\ Counted(some) <= Counted(recs)
  <2> SUFFICES ASSUME NEW some \in SUBSET recs
               PROVE  Counted(some) \in Int /\ Counted(some) <= Counted(recs)
    OBVIOUS
  <2>1. IsFiniteSet(some)
    BY FS_Subset
  <2>2. /\ \A x \in some : of(some)[x] \in Int /\ of(some)[x] <= of(recs)[x]
        /\ \A x \in recs : of(recs)[x] \in Int
        /\ \A x \in recs \ some : of(recs)[x] >= 0
    OBVIOUS
  <2> HIDE DEF of
  <2>3. R!Sum(of(some), some) \in Int
    BY <2>1, <2>2, SumType
  <2>4. R!Sum(of(some), some) <= R!Sum(of(recs), recs)
    BY <2>2, SumBelow
  <2> QED BY <2>3, <2>4 DEF Counted, of
<1>2. ASSUME NEW i \in TableRows
      PROVE  Counted(recs \cup {i}) <= Counted(recs) + i.responses
  <2>1. CASE i \in recs
    <3>1. recs \cup {i} = recs
      BY <2>1
    <3> QED BY <1>1, <3>1
  <2>2. CASE i \notin recs
    <3> DEFINE more == recs \cup {i}
    <3>1. /\ \A x \in more : of(more)[x] \in Int
          /\ \A x \in recs : of(more)[x] \in Int /\ of(more)[x] <= of(recs)[x]
          /\ \A x \in recs : of(recs)[x] \in Int
          /\ of(more)[i] = i.responses
      OBVIOUS
    <3> HIDE DEF of
    <3>2. R!Sum(of(more), more) = of(more)[i] + R!Sum(of(more), recs)
      BY <2>2, <3>1, SumOfOneMore
    <3>3. R!Sum(of(more), recs) <= R!Sum(of(recs), recs)
      BY <3>1, SumBelow
    <3>4. R!Sum(of(more), recs) \in Int /\ R!Sum(of(recs), recs) \in Int
      BY <3>1, SumType
    <3>5. i.responses \in Int
      OBVIOUS
    <3> QED BY <3>1, <3>2, <3>3, <3>4, <3>5 DEF Counted, of
  <2> QED BY <2>1, <2>2
<1> QED BY <1>1, <1>2

\* The times from one to another, and what is sent in them: it does not become less.
LEMMA TimesAre ==
  ASSUME NEW a \in Int, NEW b \in 0..MaxTime
  PROVE  /\ IsFiniteSet(Times(a, b)) /\ Times(a, b) \subseteq 0..b /\ b \in Nat /\ MaxTime \in Nat
         /\ Times(a, b) \subseteq 0..MaxTime
<1>1. MaxTime \in Nat
  BY RatesAssumption DEF R!RatesAssumption
<1>2. IsFiniteSet(0..b)
  BY <1>1, FS_Interval
<1>3. Times(a, b) \subseteq 0..b
  BY <1>1 DEF Times
<1> QED BY <1>1, <1>2, <1>3, FS_Subset

\* A time is earlier by more.
LEMMA Earlier ==
  ASSUME NEW a \in Int, NEW m \in Int, NEW n \in Int
  PROVE  /\ a - m \in Int
         /\ m <= n => a - n <= a - m
         /\ \A b, c \in Int : a <= b /\ b - c <= n => a - n <= c
OBVIOUS

LEMMA SentGrows ==
  ASSUME NEW f \in [0..MaxTime -> Nat], NEW g \in [0..MaxTime -> Nat],
         \A t \in 0..MaxTime : f[t] <= g[t],
         NEW a \in Int, NEW b \in 0..MaxTime, NEW c \in 0..MaxTime, b <= c, NEW d \in Int, d <= a
  PROVE  Truly(f, a, b) <= Truly(g, d, c)
<1>1. /\ IsFiniteSet(Times(d, c)) /\ Times(a, b) \subseteq Times(d, c)
      /\ Times(a, b) \subseteq 0..MaxTime /\ Times(d, c) \subseteq 0..MaxTime
  <2>1. Times(a, b) \subseteq Times(d, c)
    BY TimesAre DEF Times
  <2> QED BY <2>1, TimesAre
<1>2. /\ \A t \in Times(a, b) : f[t] \in Int /\ f[t] <= g[t]
      /\ \A t \in Times(d, c) : g[t] \in Int
      /\ \A t \in Times(d, c) \ Times(a, b) : g[t] >= 0
  BY <1>1
<1>3. R!Sum(f, Times(a, b)) <= R!Sum(g, Times(d, c))
  BY <1>1, <1>2, SumBelow, Zenon
<1> QED BY <1>3 DEF Truly

LEMMA SentIs ==
  ASSUME NEW f \in [0..MaxTime -> Nat], NEW a \in Int, NEW b \in 0..MaxTime
  PROVE  Truly(f, a, b) \in Nat
<1>1. \A t \in Times(a, b) : f[t] \in Int
  BY TimesAre
<1>2. R!Sum(f, Times(a, b)) \in Int
  BY <1>1, TimesAre, SumType, Zenon
<1>3. /\ {} \subseteq Times(a, b) /\ \A t \in {} : f[t] \in Int /\ f[t] <= f[t]
      /\ \A t \in Times(a, b) \ {} : f[t] >= 0
  BY TimesAre
<1>4. R!Sum(f, {}) <= R!Sum(f, Times(a, b))
  BY <1>1, <1>3, TimesAre, SumBelow, Zenon
<1> QED BY <1>2, <1>4, SumOfNone DEF Truly

\* One more is sent.
LEMMA OneMore ==
  ASSUME NEW f, NEW g, NEW xs, IsFiniteSet(xs), NEW b \in xs, \A t \in xs : f[t] \in Int,
         \A t \in xs : g[t] = IF t = b THEN f[t] + 1 ELSE f[t]
  PROVE  R!Sum(f, xs) + 1 <= R!Sum(g, xs)
<1> DEFINE ys == xs \ {b}
<1>1. IsFiniteSet(ys) /\ ys \subseteq xs
  BY FS_Subset
<1>2. \A t \in xs : g[t] \in Int
  OBVIOUS
<1>3. /\ \A t \in ys : f[t] \in Int /\ f[t] <= g[t]
      /\ \A t \in ys : f[t] \in Int
      /\ \A t \in ys : g[t] \in Int
      /\ \A t \in ys \ ys : g[t] >= 0
      /\ ys \subseteq ys
  BY <1>1
<1>4. R!Sum(f, xs) = f[b] + R!Sum(f, xs \ {b}) /\ R!Sum(g, xs) = g[b] + R!Sum(g, xs \ {b})
  BY <1>2, SumOfOneLess
<1> HIDE DEF ys
<1>5. R!Sum(f, ys) <= R!Sum(g, ys) /\ R!Sum(f, ys) \in Int /\ R!Sum(g, ys) \in Int
  BY <1>1, <1>3, SumBelow, SumType
<1>6. f[b] \in Int /\ g[b] = f[b] + 1
  OBVIOUS
<1> QED BY <1>4, <1>5, <1>6 DEF ys

LEMMA OneIsSent ==
  ASSUME NEW f \in [0..MaxTime -> Nat], NEW g \in [0..MaxTime -> Nat], NEW b \in 0..MaxTime,
         \A t \in 0..MaxTime : g[t] = IF t = b THEN f[t] + 1 ELSE f[t],
         NEW a \in Int, a <= b
  PROVE  Truly(f, a, b) + 1 <= Truly(g, a, b)
<1>1. IsFiniteSet(Times(a, b)) /\ b \in Times(a, b) /\ Times(a, b) \subseteq 0..MaxTime
  <2>1. IsFiniteSet(Times(a, b)) /\ Times(a, b) \subseteq 0..MaxTime /\ b \in Nat
    BY TimesAre
  <2>2. b \in Times(a, b)
    BY <2>1 DEF Times
  <2> QED BY <2>1, <2>2
<1>2. \A t \in Times(a, b) : f[t] \in Int
  BY <1>1
<1>3. \A t \in Times(a, b) : g[t] = IF t = b THEN f[t] + 1 ELSE f[t]
  BY <1>1
<1> QED BY <1>1, <1>2, <1>3, OneMore, Zenon DEF Truly

\* Rows and what is pending are numbers.
LEMMA RatesAreNumbers ==
  ASSUME RatesTypes
  PROVE  /\ Sample \in Nat /\ Answer \in Nat
         /\ MaxTime \in Nat /\ now \in Nat /\ slowest \in Nat /\ now \in 0..MaxTime
         /\ \A s, p \in Nat : Gain(s, p) \in Nat
         /\ \A a \in Int : \A n \in Nat : From(previous, a, n) \in Nat
         /\ \A a \in Int : /\ Since(intervals, a) \subseteq TableRows
                           /\ IsFiniteSet(Since(intervals, a))
                           /\ Counted(Since(intervals, a)) \in Int
         /\ \A a \in Int : a - slowest \in Int /\ Truly(sent, a, now) \in Nat
<1>1. /\ MaxTime \in Nat /\ now \in Nat /\ slowest \in Nat /\ now \in 0..MaxTime
      /\ Sample \in Nat /\ Answer \in Nat
  BY RatesAssumption DEF R!RatesAssumption, RatesTypes, Sample, Answer, R!Sampled
<1>2. \A s, p \in Nat : Gain(s, p) \in Nat
  BY DEF Gain
<1>3. \A a \in Int : \A n \in Nat : From(previous, a, n) \in Nat
  BY DEF From
<1>4. ASSUME NEW a \in Int
      PROVE  /\ Since(intervals, a) \subseteq TableRows /\ IsFiniteSet(Since(intervals, a))
             /\ Counted(Since(intervals, a)) \in Int
  <2>1. Since(intervals, a) \subseteq intervals
    BY DEF Since
  <2>2. Since(intervals, a) \subseteq TableRows /\ IsFiniteSet(Since(intervals, a))
    BY <2>1, FS_Subset DEF RatesTypes
  <2> QED BY <2>2, CountedIs
<1>5. \A a \in Int : Truly(sent, a, now) \in Nat
  BY <1>1, SentIs DEF RatesTypes
<1> QED BY <1>1, <1>2, <1>3, <1>4, <1>5

\* The windows, and when the rates were computed.
LEMMA WindowsAre ==
  ASSUME RatesTypes
  PROVE  /\ ShortWindow \in Nat /\ LongWindow \in Nat
         /\ asOf \in Int /\ asOf \in 0..now /\ asOf \in 0..MaxTime /\ 0..now \subseteq 0..MaxTime
         /\ sent \in [0..MaxTime -> Nat] /\ \A t \in 0..MaxTime : sent[t] <= sent[t]
         /\ rates[1].responses \in Int /\ rates[2].responses \in Int
<1>1. ShortWindow \in Nat /\ LongWindow \in Nat /\ MaxTime \in Nat
  BY RatesAssumption DEF R!RatesAssumption
<1>2. now \in 0..MaxTime /\ asOf \in 0..now
  BY DEF RatesTypes
<1>3. asOf \in Int /\ asOf \in 0..MaxTime /\ 0..now \subseteq 0..MaxTime
  BY <1>1, <1>2
<1>4. sent \in [0..MaxTime -> Nat] /\ rates[1].responses \in Int /\ rates[2].responses \in Int
  BY DEF RatesTypes
<1>5. \A t \in 0..MaxTime : sent[t] <= sent[t]
  <2>1. \A t \in 0..MaxTime : sent[t] \in Nat
    BY <1>4
  <2> QED BY <2>1
<1> QED BY <1>1, <1>2, <1>3, <1>4, <1>5

\* Time, Kea and its restarts: a sample gains at most what is sent.
LEMMA OthersKeepRates ==
  ASSUME RatesInv, RatesTypes', now <= now', NEW more \in {0, 1},
         UNCHANGED <<intervals, previous, pull, slowest, rates, asOf>>,
         \A p \in Nat : Gain(Sample', p) <= Gain(Sample, p) + more,
         \A a \in Int : \A b \in 0..now : Truly(sent, a, b) <= Truly(sent', a, b),
         \A a \in Int : a <= now => Truly(sent, a, now) + more <= Truly(sent', a, now'),
         \A a \in Int : Truly(sent, a, now) <= Truly(sent', a, now')
  PROVE  RatesInv'
<1>1. /\ Sample \in Nat /\ Answer \in Nat /\ slowest \in Nat /\ now \in Nat /\ previous.value \in Nat
      /\ previous.at \in Int /\ previous.at <= now /\ pull.read \in Nat /\ pull.read <= now
      /\ Answer' = Answer /\ Sample' \in Nat /\ now' \in Nat
  BY RatesAreNumbers DEF RatesInv, RatesTypes, Answer, Sample, R!Sampled
<1>2. /\ \A s, p \in Nat : Gain(s, p) \in Nat
      /\ \A a \in Int : \A n \in Nat : From(previous, a, n) \in Nat
      /\ \A a \in Int : Counted(Since(intervals, a)) \in Int
      /\ \A a \in Int : a - slowest \in Int /\ Truly(sent, a, now) \in Nat
  BY RatesAreNumbers DEF RatesInv
<1>3. \A a \in Int : Truly(sent', a, now') \in Nat
  BY SentIs DEF RatesTypes
<1>4. RowsFollow'
  <2>1. \A i \in intervals : i.start \in Nat /\ i.duration \in Nat
    BY DEF RatesInv, RatesTypes, TableRows
  <2> QED BY <1>1, <2>1 DEF RatesInv, RowsFollow, R!Pulling
<1>5. ASSUME NEW a \in Int
      PROVE  Counted(Since(intervals, a)) + From(previous, a, Gain(Sample', previous.value))
               <= Truly(sent', a - slowest, now')
  <2> DEFINE c == Counted(Since(intervals, a))
             g == Gain(Sample, previous.value)  h == Gain(Sample', previous.value)
             t == Truly(sent, a - slowest, now)  u == Truly(sent', a - slowest, now')
  <2>1. c + From(previous, a, g) <= t
    BY DEF RatesInv, NoneTwice
  <2>2. /\ c \in Int /\ g \in Nat /\ h \in Nat /\ t \in Nat /\ u \in Nat /\ h <= g + more /\ t <= u
        /\ a <= now => t + more <= u
    <3>1. c \in Int /\ g \in Nat /\ h \in Nat /\ a - slowest \in Int
      BY <1>1, <1>2
    <3>2. t \in Nat /\ u \in Nat /\ t <= u
      BY <1>2, <1>3, <3>1
    <3>3. h <= g + more
      BY <1>1
    <3>4. a <= now => a - slowest <= now
      BY <1>1
    <3>5. a <= now => t + more <= u
      BY <3>1, <3>4
    <3> HIDE DEF c, g, h, t, u
    <3> QED BY <3>1, <3>2, <3>3, <3>5
  <2> HIDE DEF c, g, h, t, u
  <2>3. CASE previous.at >= 0 /\ previous.at >= a
    <3>1. From(previous, a, g) = g /\ From(previous, a, h) = h /\ a <= now
      BY <1>1, <2>3 DEF From
    <3>2. c + h <= u
      BY <2>1, <2>2, <3>1
    <3> QED BY <3>1, <3>2 DEF c, h, u
  <2>4. CASE ~(previous.at >= 0 /\ previous.at >= a)
    <3>1. From(previous, a, g) = 0 /\ From(previous, a, h) = 0
      BY <2>4 DEF From
    <3>2. c + 0 <= u
      BY <2>1, <2>2, <3>1
    <3> QED BY <3>1, <3>2 DEF c, h, u
  <2> QED BY <2>3, <2>4
<1>6. ASSUME R!Pulling("answered")
      PROVE  /\ Gain(Sample', Answer) <= Truly(sent', pull.read, now')
             /\ \A a \in Int : a <= pull.read =>
                  Counted(Since(intervals, a)) + From(previous, a, Gain(Answer, previous.value))
                    + Gain(Sample', Answer) <= Truly(sent', a - slowest, now')
  <2> DEFINE g == Gain(Sample, Answer)  h == Gain(Sample', Answer)
  <2>1. g \in Nat /\ h \in Nat /\ h <= g + more
    BY <1>1, <1>2
  <2>2. g <= Truly(sent, pull.read, now)
    BY <1>6 DEF RatesInv, AnswerIsNew
  <2>3. ASSUME NEW a \in Int, a <= pull.read
        PROVE  Counted(Since(intervals, a)) + From(previous, a, Gain(Answer, previous.value)) + h
                 <= Truly(sent', a - slowest, now')
    <3> DEFINE c == Counted(Since(intervals, a))
               f == From(previous, a, Gain(Answer, previous.value))
               t == Truly(sent, a - slowest, now)  u == Truly(sent', a - slowest, now')
    <3>1. c + f + g <= t
      BY <1>6, <2>3 DEF RatesInv, AnswerIsNew
    <3>2. a - slowest \in Int /\ a - slowest <= now
      BY <1>1, <2>3
    <3>3. c \in Int /\ f \in Nat /\ t \in Nat /\ u \in Nat /\ t + more <= u
      BY <1>1, <1>2, <1>3, <3>2
    <3> HIDE DEF c, f, g, h, t, u
    <3>4. c + f + h <= u
      BY <2>1, <3>1, <3>3
    <3> QED BY <3>4 DEF c, f, u
  <2>4. h <= Truly(sent', pull.read, now')
    <3> DEFINE t == Truly(sent, pull.read, now)  u == Truly(sent', pull.read, now')
    <3>1. t \in Nat /\ u \in Nat /\ t + more <= u
      <4>1. pull.read \in Int /\ pull.read <= now
        BY <1>1
      <4> QED BY <1>2, <1>3, <4>1
    <3> HIDE DEF g, h, t, u
    <3> QED BY <2>1, <2>2, <3>1 DEF t, u
  <2> QED BY <2>3, <2>4
<1>7. RatesHold'
  <2>1. /\ ShortWindow \in Nat /\ LongWindow \in Nat /\ MaxTime \in Nat /\ slowest \in Nat
        /\ asOf \in 0..now /\ asOf \in 0..MaxTime
        /\ sent \in [0..MaxTime -> Nat] /\ sent' \in [0..MaxTime -> Nat]
        /\ rates[1].responses \in Int /\ rates[2].responses \in Int
    BY RatesAreNumbers, WindowsAre DEF RatesInv, RatesTypes
  <2>2. asOf - ShortWindow - slowest \in Int /\ asOf - LongWindow - slowest \in Int
    BY <2>1
  <2>3. \A a \in Int : /\ Truly(sent, a, asOf) <= Truly(sent', a, asOf)
                       /\ Truly(sent, a, asOf) \in Nat /\ Truly(sent', a, asOf) \in Nat
    BY <2>1, SentIs
  <2>4. ASSUME NEW n \in Int, NEW a \in Int, n <= Truly(sent, a, asOf)
        PROVE  n <= Truly(sent', a, asOf)
    BY <2>3, <2>4
  <2>5. /\ rates[1].responses <= Truly(sent', asOf - ShortWindow - slowest, asOf)
        /\ rates[2].responses <= Truly(sent', asOf - LongWindow - slowest, asOf)
    BY <2>1, <2>2, <2>4 DEF RatesInv, RatesHold
  <2>6. rates' = rates /\ asOf' = asOf /\ slowest' = slowest
    OBVIOUS
  <2> QED BY <2>5, <2>6 DEF RatesHold
<1>8. NoneTwice' /\ AnswerIsNew'
  BY <1>1, <1>5, <1>6 DEF NoneTwice, AnswerIsNew, R!Pulling
<1> QED BY <1>4, <1>7, <1>8 DEF RatesInv

LEMMA TickKeeps ==
  ASSUME RatesInv, R!Tick
  PROVE  RatesInv'
<1>1. /\ MaxTime \in Nat /\ now \in Nat /\ now' = now + 1 /\ now' \in 0..MaxTime /\ now \in 0..MaxTime
      /\ UNCHANGED <<counter, sent, restarts, previous, pull, intervals, rates, asOf, slowest>>
  BY RatesAssumption DEF R!RatesAssumption, RatesInv, RatesTypes, R!Tick, R!keaVars, R!workerVars
<1>2. RatesTypes'
  BY <1>1 DEF RatesInv, RatesTypes
<1>3. Sample' = Sample /\ Sample \in Nat /\ sent \in [0..MaxTime -> Nat]
  BY <1>1, RatesAreNumbers DEF Sample, RatesInv, RatesTypes
<1>4. \A a \in Int : /\ Truly(sent, a, now) <= Truly(sent, a, now')
                     /\ Truly(sent, a, now) \in Nat
  <2>1. now <= now' /\ \A a \in Int : a <= a
    BY <1>1
  <2>2. \A t \in 0..MaxTime : sent[t] <= sent[t]
    BY <1>3
  <2> QED BY <1>1, <1>3, <2>1, <2>2, SentGrows, SentIs
<1>5. \A a \in Int : \A b \in 0..now : Truly(sent, a, b) <= Truly(sent', a, b)
  BY <1>1, <1>3, SentIs
<1>6. \A p \in Nat : Gain(Sample', p) <= Gain(Sample, p) + 0
  BY <1>3 DEF Gain
<1>7. now <= now' /\ \A a \in Int : a <= now => Truly(sent, a, now) + 0 <= Truly(sent', a, now')
  BY <1>1, <1>4
<1> QED BY <1>1, <1>2, <1>4, <1>5, <1>6, <1>7, OthersKeepRates

LEMMA RespondKeepsRates ==
  ASSUME RatesInv, R!Respond
  PROVE  RatesInv'
<1>1. /\ MaxTime \in Nat /\ now \in Nat /\ MaxCounter \in Nat /\ now \in 0..MaxTime
      /\ UNCHANGED <<now, restarts, previous, pull, intervals, rates, asOf, slowest>>
      /\ counter' = IF counter = MaxCounter THEN -MaxCounter - 1 ELSE counter + 1
      /\ sent' = [sent EXCEPT ![now] = sent[now] + 1]
  BY RatesAssumption DEF R!RatesAssumption, RatesInv, RatesTypes, R!Respond, R!workerVars
<1>2. /\ sent \in [0..MaxTime -> Nat] /\ sent' \in [0..MaxTime -> Nat]
      /\ \A t \in 0..MaxTime : sent'[t] = IF t = now THEN sent[t] + 1 ELSE sent[t]
  BY <1>1 DEF RatesInv, RatesTypes
<1>3. RatesTypes'
  BY <1>1, <1>2 DEF RatesInv, RatesTypes
<1>4. \A p \in Nat : Gain(Sample', p) <= Gain(Sample, p) + 1
  <2>1. /\ Sample \in Nat /\ Sample' \in Nat
        /\ Sample' = Sample \/ Sample' = Sample + 1 \/ Sample' = 0
    BY <1>1 DEF Sample, R!Sampled, RatesInv, RatesTypes
  <2>2. ASSUME NEW p \in Nat, NEW m \in Nat, NEW n \in Nat, m = n \/ m = n + 1 \/ m = 0
        PROVE  Gain(m, p) <= Gain(n, p) + 1
    BY <2>2 DEF Gain
  <2> QED BY <2>1, <2>2
<1>5. \A t \in 0..MaxTime : sent[t] <= sent'[t]
  <2>1. \A t \in 0..MaxTime : sent[t] \in Nat
    BY <1>2
  <2> QED BY <1>2, <2>1
<1>6. \A a \in Int : \A b \in 0..MaxTime : Truly(sent, a, b) <= Truly(sent', a, b)
  <2>1. \A a \in Int : a <= a
    OBVIOUS
  <2>2. \A b \in 0..MaxTime : b <= b
    OBVIOUS
  <2> QED BY <1>2, <1>5, <2>1, <2>2, SentGrows, Zenon
<1>7. 0..now \subseteq 0..MaxTime /\ now' = now /\ now <= now'
  BY <1>1
<1>8. \A a \in Int : a <= now => Truly(sent, a, now) + 1 <= Truly(sent', a, now')
  BY <1>1, <1>2, OneIsSent
<1>9. \A a \in Int : Truly(sent, a, now) <= Truly(sent', a, now')
  BY <1>1, <1>6
<1> QED BY <1>1, <1>3, <1>4, <1>6, <1>7, <1>8, <1>9, OthersKeepRates

LEMMA RestartsKeepRates ==
  ASSUME RatesInv, R!KeaRestarts \/ R!ServerRestarts
  PROVE  RatesInv'
<1>1. CASE R!KeaRestarts
  <2>1. /\ counter' = 0 /\ now \in Nat
        /\ UNCHANGED <<now, sent, previous, pull, intervals, rates, asOf, slowest>>
    BY <1>1, RatesAreNumbers DEF RatesInv, R!KeaRestarts, R!workerVars
  <2>2. RatesTypes'
    BY <2>1 DEF RatesInv, RatesTypes
  <2>3. \A p \in Nat : Gain(Sample', p) <= Gain(Sample, p) + 0
    <3>1. Sample' = 0 /\ Sample \in Nat
      BY <2>1, RatesAreNumbers DEF Sample, R!Sampled, RatesInv
    <3> QED BY <3>1 DEF Gain
  <2>4. \A a \in Int : \A b \in 0..now : Truly(sent, a, b) \in Nat
    <3>1. sent \in [0..MaxTime -> Nat] /\ 0..now \subseteq 0..MaxTime
      BY WindowsAre DEF RatesInv
    <3> QED BY <3>1, SentIs
  <2>5. now \in 0..now
    BY <2>1
  <2> HIDE DEF R!KeaRestarts
  <2> QED BY <2>1, <2>2, <2>3, <2>4, <2>5, OthersKeepRates
<1>2. CASE R!ServerRestarts
  <2>1. /\ previous' = R!NoSample /\ pull' = R!NoPull
        /\ UNCHANGED <<now, counter, sent, intervals, rates, asOf, slowest>>
    BY <1>2 DEF R!ServerRestarts, R!keaVars
  <2>2. RatesTypes'
    <3>1. now \in Nat
      BY RatesAreNumbers DEF RatesInv
    <3>2. /\ previous' \in [at : Int, value : Nat] /\ previous'.at <= now
          /\ pull' \in [pc : {"none", "asked", "answered", "sampled"}, value : Int, read : Nat]
          /\ pull'.read <= now
      BY <2>1, <3>1 DEF R!NoSample, R!NoPull
    <3> QED BY <2>1, <3>2 DEF RatesInv, RatesTypes
  <2>3. RowsFollow' /\ AnswerIsNew' /\ RatesHold'
    BY <2>1 DEF RatesInv, RowsFollow, AnswerIsNew, RatesHold, R!NoSample, R!NoPull, R!Pulling
  <2>4. NoneTwice'
    <3> SUFFICES ASSUME NEW a \in Int
                 PROVE  Counted(Since(intervals, a)) + From(previous', a, Gain(Sample', previous'.value))
                          <= Truly(sent, a - slowest, now)
      BY <2>1 DEF NoneTwice
    <3> DEFINE c == Counted(Since(intervals, a))  t == Truly(sent, a - slowest, now)
               f == From(previous, a, Gain(Sample, previous.value))
    <3>1. From(previous', a, Gain(Sample', previous'.value)) = 0
      BY <2>1 DEF From, R!NoSample
    <3>2. c + f <= t
      BY DEF RatesInv, NoneTwice
    <3>3. c \in Int /\ f \in Nat /\ t \in Nat
      <4>1. previous.value \in Nat
        BY DEF RatesInv, RatesTypes
      <4> QED BY <4>1, RatesAreNumbers DEF RatesInv
    <3> HIDE DEF c, f, t
    <3>4. c + 0 <= t
      BY <3>2, <3>3
    <3> QED BY <3>1, <3>4 DEF c, t
  <2> QED BY <2>2, <2>3, <2>4 DEF RatesInv
<1> QED BY <1>1, <1>2

\* A pull that begins or ends leaves rows out at most.
LEMMA PullGoesOn ==
  ASSUME RatesInv, intervals' \subseteq intervals, UNCHANGED <<now, counter, sent, previous, slowest>>,
         ~R!Pulling("answered")'
  PROVE  RowsFollow' /\ NoneTwice' /\ AnswerIsNew' /\ intervals' \in SUBSET TableRows /\ IsFiniteSet(intervals')
<1>1. IsFiniteSet(intervals) /\ intervals \subseteq TableRows
  BY DEF RatesInv, RatesTypes
<1>2. IsFiniteSet(intervals') /\ intervals' \subseteq TableRows
  BY <1>1, FS_Subset
<1>3. RowsFollow'
  BY DEF RatesInv, RowsFollow
<1>4. ASSUME NEW a \in Int
      PROVE  Counted(Since(intervals', a)) + From(previous, a, Gain(Sample, previous.value))
               <= Truly(sent, a - slowest, now)
  <2> DEFINE c == Counted(Since(intervals, a))  d == Counted(Since(intervals', a))
             f == From(previous, a, Gain(Sample, previous.value))  t == Truly(sent, a - slowest, now)
  <2>1. c + f <= t
    BY DEF RatesInv, NoneTwice
  <2>2. Since(intervals', a) \subseteq Since(intervals, a)
    BY DEF Since
  <2>3. c \in Int /\ f \in Nat /\ t \in Nat
    <3>1. previous.value \in Nat
      BY DEF RatesInv, RatesTypes
    <3> QED BY <3>1, RatesAreNumbers DEF RatesInv
  <2>4. d \in Int /\ d <= c
    <3>1. IsFiniteSet(Since(intervals, a)) /\ Since(intervals, a) \subseteq TableRows
      BY RatesAreNumbers DEF RatesInv
    <3> QED BY <2>2, <3>1, CountedIs
  <2> HIDE DEF c, d, f, t
  <2>5. d + f <= t
    BY <2>1, <2>3, <2>4
  <2> QED BY <2>5 DEF d, f, t
<1>5. NoneTwice'
  <2>1. Sample' = Sample
    BY DEF Sample
  <2> QED BY <1>4, <2>1 DEF NoneTwice
<1> QED BY <1>2, <1>3, <1>5 DEF AnswerIsNew

LEMMA PullBeginsOrFails ==
  ASSUME RatesInv, R!getStatsFromApp \/ R!CallFails
  PROVE  RatesInv'
<1>1. /\ UNCHANGED <<now, counter, sent, previous, slowest, rates, asOf>>
      /\ pull' \in {R!NoPull, [R!NoPull EXCEPT !.pc = "asked"]}
      /\ intervals' \subseteq intervals
  BY DEF R!getStatsFromApp, R!CallFails, R!AgeOffRpsIntervals, R!keaVars
<1>2. ~R!Pulling("answered")'
  BY <1>1 DEF R!Pulling, R!NoPull
<1>3. RatesTypes'
  BY <1>1, <1>2, PullGoesOn, RatesAreNumbers DEF RatesInv, RatesTypes, R!NoPull
<1>4. RatesHold'
  BY <1>1 DEF RatesInv, RatesHold
<1> QED BY <1>1, <1>2, <1>3, <1>4, PullGoesOn DEF RatesInv

\* What an answer adds to the present interval is what is pending when it is read.
LEMMA AnswerKeepsRates ==
  ASSUME RatesInv, R!KeaAnswers
  PROVE  RatesInv'
<1>1. /\ pull' = [pc |-> "answered", value |-> counter, read |-> now]
      /\ UNCHANGED <<now, counter, sent, previous, intervals, rates, asOf, slowest>>
  BY DEF R!KeaAnswers, R!keaVars
<1>2. RatesTypes'
  <2>1. now \in Nat /\ counter \in Int
    <3>1. now \in Nat
      BY RatesAreNumbers DEF RatesInv
    <3> QED BY <3>1 DEF RatesInv, RatesTypes
  <2>2. /\ pull' \in [pc : {"none", "asked", "answered", "sampled"}, value : Int, read : Nat]
        /\ pull'.read <= now
    BY <1>1, <2>1
  <2> QED BY <1>1, <2>2 DEF RatesInv, RatesTypes
<1>3. RowsFollow' /\ NoneTwice' /\ RatesHold'
  BY <1>1 DEF RatesInv, RatesTypes, RowsFollow, NoneTwice, RatesHold, Sample, R!Pulling
<1>4. Answer' = Sample /\ Sample' = Sample /\ Sample \in Nat
  BY <1>1, RatesAreNumbers DEF RatesInv, Answer, Sample
<1>5. Gain(Sample, Sample) = 0 /\ previous.value \in Nat /\ now \in Nat
  BY <1>4, RatesAreNumbers DEF Gain, RatesInv, RatesTypes
<1>6. ASSUME NEW a \in Int
      PROVE  Counted(Since(intervals, a)) + From(previous, a, Gain(Sample, previous.value)) + 0
               <= Truly(sent, a - slowest, now)
  <2> DEFINE c == Counted(Since(intervals, a))  t == Truly(sent, a - slowest, now)
             f == From(previous, a, Gain(Sample, previous.value))
  <2>1. c + f <= t
    BY DEF RatesInv, NoneTwice
  <2>2. c \in Int /\ f \in Nat /\ t \in Nat
    BY <1>4, <1>5, RatesAreNumbers DEF RatesInv
  <2> HIDE DEF c, f, t
  <2>3. c + f + 0 <= t
    BY <2>1, <2>2
  <2> QED BY <2>3 DEF c, f, t
<1>7. Truly(sent, now, now) \in Nat
  BY <1>5, RatesAreNumbers DEF RatesInv
<1>8. AnswerIsNew'
  BY <1>1, <1>4, <1>5, <1>6, <1>7 DEF AnswerIsNew
<1> QED BY <1>2, <1>3, <1>8 DEF RatesInv

\* The answer's part of the interval is stored or lost; what came after the
\* answer is pending from now on.
LEMMA SampleKeepsRates ==
  ASSUME RatesInv, R!updateDaemonRpsIntervals
  PROVE  RatesInv'
<1> DEFINE row == R!Interval(Answer)
<1>1. /\ R!Pulling("answered")
      /\ previous' = [at |-> now, value |-> Answer]
      /\ intervals' = intervals \/ (intervals' = intervals \cup {row} /\ previous.at >= 0)
      /\ pull' \in {R!NoPull, [R!NoPull EXCEPT !.pc = "sampled"]}
      /\ slowest' = IF now - pull.read > slowest THEN now - pull.read ELSE slowest
      /\ UNCHANGED <<now, counter, sent, rates, asOf>>
  <2>1. PICK kept \in BOOLEAN :
          /\ R!Pulling("answered")
          /\ previous' = [at |-> now, value |-> Answer]
          /\ IF previous.at < 0
             THEN kept /\ UNCHANGED intervals
             ELSE intervals' = intervals \cup (IF kept THEN {row} ELSE {})
          /\ pull' = IF kept THEN [R!NoPull EXCEPT !.pc = "sampled"] ELSE R!NoPull
          /\ slowest' = IF now - pull.read > slowest THEN now - pull.read ELSE slowest
          /\ UNCHANGED <<now, restarts, counter, sent, rates, asOf>>
    BY DEF R!updateDaemonRpsIntervals, R!keaVars, Answer
  <2>2. previous.at \in Int
    BY DEF RatesInv, RatesTypes
  <2> HIDE DEF row
  <2>3. intervals' = intervals \/ (intervals' = intervals \cup {row} /\ previous.at >= 0)
    <3>1. CASE previous.at < 0
      BY <2>1, <3>1
    <3>2. CASE ~(previous.at < 0)
      <4>1. previous.at >= 0
        BY <2>2, <3>2
      <4>2. CASE kept
        BY <2>1, <3>2, <4>1, <4>2
      <4>3. CASE ~kept
        BY <2>1, <3>2, <4>3
      <4> QED BY <4>2, <4>3
    <3> QED BY <3>1, <3>2
  <2>4. pull' \in {R!NoPull, [R!NoPull EXCEPT !.pc = "sampled"]}
    BY <2>1
  <2> QED BY <2>1, <2>3, <2>4
<1>2. /\ Sample \in Nat /\ Answer \in Nat /\ now \in Nat /\ slowest \in Nat /\ now \in 0..MaxTime
      /\ previous.at \in Int /\ previous.at <= now /\ previous.value \in Nat
      /\ pull.read \in Nat /\ pull.read <= now /\ previous.at <= pull.read
      /\ R!Responses(Answer) = Gain(Answer, previous.value) /\ Gain(Answer, previous.value) \in Nat
      /\ Gain(Sample, Answer) \in Nat
  BY <1>1, RatesAreNumbers DEF RatesInv, RatesTypes, RowsFollow, R!Responses, Gain
<1>3. previous.at >= 0 => /\ row \in TableRows /\ row.start = previous.at /\ row.start + row.duration = now
                          /\ row.responses = Gain(Answer, previous.value)
  BY <1>2 DEF R!Interval, TableRows
<1> HIDE DEF row
<1>4. /\ slowest' \in Nat /\ slowest <= slowest' /\ now - pull.read <= slowest'
      /\ ~R!Pulling("answered")'
  BY <1>1, <1>2 DEF R!Pulling, R!NoPull
<1>5. /\ intervals \subseteq TableRows /\ IsFiniteSet(intervals)
      /\ intervals' \subseteq TableRows /\ IsFiniteSet(intervals')
  <2>1. intervals \subseteq TableRows /\ IsFiniteSet(intervals)
    BY DEF RatesInv, RatesTypes
  <2> QED BY <1>1, <1>3, <2>1, FS_AddElement
<1>6. RatesTypes'
  <2>1. /\ previous' \in [at : Int, value : Nat] /\ previous'.at <= now
        /\ pull' \in [pc : {"none", "asked", "answered", "sampled"}, value : Int, read : Nat]
        /\ pull'.read <= now
    BY <1>1, <1>2 DEF R!NoPull
  <2> QED BY <1>1, <1>4, <1>5, <2>1 DEF RatesInv, RatesTypes
<1>7. RowsFollow'
  <2>1. \A i \in intervals : /\ i.start \in Nat /\ i.duration \in Nat
                             /\ i.start + i.duration <= now
                             /\ previous.at >= 0 => i.start + i.duration <= previous.at
    BY <1>5 DEF RatesInv, RowsFollow, TableRows
  <2>2. \A i, j \in intervals : i.start < j.start => i.start + i.duration <= j.start
    BY DEF RatesInv, RowsFollow
  <2>3. CASE intervals' = intervals
    BY <1>1, <1>4, <2>1, <2>2, <2>3 DEF RowsFollow
  <2>4. CASE intervals' = intervals \cup {row} /\ previous.at >= 0
    <3>1. row.start \in Nat /\ row.duration \in Nat
      BY <1>3, <2>4 DEF TableRows
    <3>2. \A i \in intervals' : i.start + i.duration <= now
      <4>1. row.start + row.duration <= now
        BY <1>2, <1>3, <2>4
      <4> QED BY <2>1, <2>4, <4>1
    <3>3. ASSUME NEW i \in intervals', NEW j \in intervals', i.start < j.start
          PROVE  i.start + i.duration <= j.start
      <4>1. CASE i \in intervals /\ j \in intervals
        BY <2>2, <3>3, <4>1
      <4>2. CASE i \in intervals /\ j = row
        BY <1>3, <2>1, <2>4, <4>2
      <4>3. CASE i = row
        <5>1. j.start <= row.start
          BY <1>2, <1>3, <2>1, <2>4, <3>1, <4>3
        <5> QED BY <2>1, <2>4, <3>1, <3>3, <4>3, <5>1
      <4> QED BY <2>4, <4>1, <4>2, <4>3
    <3> QED BY <1>1, <1>4, <3>2, <3>3 DEF RowsFollow
  <2> QED BY <1>1, <2>3, <2>4
<1>8. \A a \in Int : /\ Truly(sent, a - slowest, now) \in Nat /\ Truly(sent, a - slowest', now) \in Nat
                     /\ Truly(sent, a - slowest, now) <= Truly(sent, a - slowest', now)
                     /\ Truly(sent, pull.read, now) \in Nat
                     /\ a <= now => Truly(sent, pull.read, now) <= Truly(sent, a - slowest', now)
  <2> SUFFICES ASSUME NEW a \in Int
               PROVE  /\ Truly(sent, a - slowest, now) \in Nat /\ Truly(sent, a - slowest', now) \in Nat
                      /\ Truly(sent, a - slowest, now) <= Truly(sent, a - slowest', now)
                      /\ Truly(sent, pull.read, now) \in Nat
                      /\ a <= now => Truly(sent, pull.read, now) <= Truly(sent, a - slowest', now)
    OBVIOUS
  <2>1. sent \in [0..MaxTime -> Nat] /\ \A t \in 0..MaxTime : sent[t] <= sent[t]
    BY DEF RatesInv, RatesTypes
  <2>2. /\ a - slowest \in Int /\ a - slowest' \in Int /\ pull.read \in Int /\ now <= now
        /\ a - slowest' <= a - slowest /\ (a <= now => a - slowest' <= pull.read)
    <3>1. slowest \in Int /\ slowest' \in Int /\ pull.read \in Int /\ now \in Int /\ now <= now
      BY <1>2, <1>4
    <3> QED BY <1>4, <3>1, Earlier
  <2>3. /\ Truly(sent, a - slowest, now) \in Nat /\ Truly(sent, a - slowest', now) \in Nat
        /\ Truly(sent, pull.read, now) \in Nat
    BY <1>2, <2>1, <2>2, SentIs
  <2>4. Truly(sent, a - slowest, now) <= Truly(sent, a - slowest', now)
    BY <1>2, <2>1, <2>2, SentGrows
  <2>5. ASSUME a <= now PROVE Truly(sent, pull.read, now) <= Truly(sent, a - slowest', now)
    BY <1>2, <2>1, <2>2, <2>5, SentGrows
  <2> QED BY <2>3, <2>4, <2>5
<1>9. RatesHold'
  <2>1. /\ ShortWindow \in Nat /\ LongWindow \in Nat /\ asOf \in 0..now /\ asOf \in 0..MaxTime
        /\ sent \in [0..MaxTime -> Nat] /\ \A t \in 0..MaxTime : sent[t] <= sent[t]
        /\ rates[1].responses \in Int /\ rates[2].responses \in Int
    BY WindowsAre DEF RatesInv
  <2>2. ASSUME NEW w \in Nat
        PROVE  /\ Truly(sent, asOf - w - slowest, asOf) <= Truly(sent, asOf - w - slowest', asOf)
               /\ Truly(sent, asOf - w - slowest, asOf) \in Nat
               /\ Truly(sent, asOf - w - slowest', asOf) \in Nat
    <3>1. /\ asOf - w - slowest \in Int /\ asOf - w - slowest' \in Int /\ asOf <= asOf
          /\ asOf - w - slowest' <= asOf - w - slowest
      <4>1. asOf - w \in Int /\ slowest \in Int /\ slowest' \in Int /\ asOf <= asOf
        BY <1>2, <1>4, <2>1
      <4> QED BY <1>4, <4>1, Earlier
    <3> QED BY <2>1, <3>1, SentGrows, SentIs
  <2> QED BY <1>1, <2>1, <2>2 DEF RatesInv, RatesHold
<1>10. ASSUME NEW a \in Int
       PROVE  Counted(Since(intervals', a)) + From(previous', a, Gain(Sample, Answer))
                <= Truly(sent, a - slowest', now)
  <2> DEFINE c == Counted(Since(intervals, a))  d == Counted(Since(intervals', a))
             f == From(previous, a, Gain(Answer, previous.value))  g == Gain(Sample, Answer)
             h == From(previous', a, g)
             t == Truly(sent, a - slowest, now)  u == Truly(sent, a - slowest', now)
             r == Truly(sent, pull.read, now)
  <2>1. /\ c \in Int /\ f \in Nat /\ g \in Nat /\ t \in Nat /\ u \in Nat /\ r \in Nat /\ t <= u
        /\ a <= now => r <= u
        /\ g <= r
        /\ a <= pull.read => c + f + g <= t
        /\ h = IF now >= a THEN g ELSE 0
    <3>1. /\ g <= r
          /\ a <= pull.read => c + f + g <= t
      BY <1>1 DEF RatesInv, AnswerIsNew
    <3>2. c \in Int /\ f \in Nat
      BY <1>2, RatesAreNumbers DEF RatesInv
    <3>3. h = IF now >= a THEN g ELSE 0
      BY <1>1, <1>2 DEF From
    <3> HIDE DEF c, f, h
    <3> QED BY <1>2, <1>8, <3>1, <3>2, <3>3
  <2>2. CASE a <= pull.read
    <3>1. d \in Int /\ d <= c + f
      <4>1. IsFiniteSet(Since(intervals, a)) /\ Since(intervals, a) \subseteq TableRows
        BY RatesAreNumbers DEF RatesInv
      <4>2. CASE intervals' = intervals
        BY <2>1, <4>2
      <4>3. CASE intervals' = intervals \cup {row} /\ previous.at >= 0 /\ previous.at >= a
        <5>1. Since(intervals', a) = Since(intervals, a) \cup {row} /\ f = Gain(Answer, previous.value)
          BY <1>3, <4>3 DEF Since, From
        <5>2. IsFiniteSet(Since(intervals', a)) /\ Since(intervals', a) \subseteq TableRows
          <6>1. row \in TableRows
            BY <1>3, <4>3
          <6>2. IsFiniteSet(Since(intervals, a) \cup {row})
            BY <4>1, FS_AddElement
          <6> QED BY <4>1, <5>1, <6>1, <6>2
        <5>3. row \in TableRows /\ row.responses = f
          BY <1>3, <4>3, <5>1
        <5>4. Counted(Since(intervals, a) \cup {row}) <= Counted(Since(intervals, a)) + row.responses
          BY <4>1, <5>3, CountedIs
        <5> QED BY <5>1, <5>2, <5>3, <5>4, CountedIs
      <4>4. CASE intervals' = intervals \cup {row} /\ previous.at >= 0 /\ ~(previous.at >= a)
        <5>1. Since(intervals', a) = Since(intervals, a)
          BY <1>3, <4>4 DEF Since
        <5> HIDE DEF c, f
        <5> QED BY <2>1, <5>1 DEF c
      <4> QED BY <1>1, <4>2, <4>3, <4>4
    <3> HIDE DEF c, d, f, g, h, t, u
    <3>2. now >= a
      BY <1>2, <2>2
    <3>3. d + h <= u
      BY <2>1, <2>2, <3>1, <3>2
    <3> QED BY <3>3 DEF d, h, g, u
  <2>3. CASE ~(a <= pull.read)
    <3>1. \A i \in intervals' : i.start < a
      <4>1. \A i \in intervals : i.start \in Nat /\ i.duration \in Nat /\ i.start + i.duration <= pull.read
        BY <1>1, <1>5 DEF RatesInv, RowsFollow, TableRows
      <4>2. \A i \in intervals : i.start < a
        BY <1>2, <2>3, <4>1
      <4>3. previous.at >= 0 => row.start < a
        BY <1>2, <1>3, <2>3
      <4> QED BY <1>1, <4>2, <4>3
    <3>2. Since(intervals', a) = {}
      <4>1. \A i \in intervals' : i.start \in Nat
        BY <1>5 DEF TableRows
      <4> QED BY <3>1, <4>1 DEF Since
    <3>3. d = 0
      BY <3>2, SumOfNone DEF Counted
    <3> HIDE DEF d, g, h, r, t, u
    <3>4. d + h <= u
      BY <1>2, <2>1, <3>3
    <3> QED BY <3>4 DEF d, h, g, u
  <2> QED BY <2>2, <2>3
<1>11. NoneTwice' /\ AnswerIsNew'
  <2>1. Sample' = Sample /\ previous'.value = Answer
    BY <1>1 DEF Sample
  <2> QED BY <1>1, <1>4, <1>10, <2>1 DEF NoneTwice, AnswerIsNew
<1> QED BY <1>6, <1>7, <1>9, <1>11 DEF RatesInv

\* The rates are of rows since the windows began.
LEMMA StatsKeepRates ==
  ASSUME RatesInv, R!updateKeaDaemonRpsStats
  PROVE  RatesInv'
<1>1. /\ pull' = R!NoPull
      /\ \/ /\ rates' = <<R!Total(R!Within(intervals, ShortWindow)), R!Total(R!Within(intervals, LongWindow))>>
            /\ asOf' = now
         \/ UNCHANGED <<rates, asOf>>
      /\ UNCHANGED <<now, counter, sent, previous, intervals, slowest>>
  BY DEF R!updateKeaDaemonRpsStats, R!keaVars
<1>2. ~R!Pulling("answered")' /\ intervals' \subseteq intervals
  BY <1>1 DEF R!Pulling, R!NoPull
<1>3. now \in Nat /\ slowest \in Nat /\ ShortWindow \in Nat /\ LongWindow \in Nat
  BY RatesAreNumbers, RatesAssumption DEF R!RatesAssumption, RatesInv
<1>4. ASSUME NEW window \in Nat
      PROVE  /\ R!Total(R!Within(intervals, window)).responses \in Int
             /\ R!Total(R!Within(intervals, window)).responses <= Truly(sent, now - window - slowest, now)
  <2> DEFINE a == now - window  xs == Since(intervals, a)  ys == R!Within(intervals, window)
             t == Truly(sent, a - slowest, now)
  <2>1. a \in Int /\ xs \subseteq TableRows /\ IsFiniteSet(xs) /\ ys \subseteq xs
    <3>1. a \in Int
      BY <1>3
    <3>2. ys \subseteq xs
      BY DEF Since, R!Within
    <3> QED BY <3>1, <3>2, RatesAreNumbers DEF RatesInv
  <2>2. Counted(ys) \in Int /\ Counted(ys) <= Counted(xs) /\ Counted(xs) \in Int
    BY <2>1, CountedIs
  <2>3. Counted({}) = 0 /\ Counted({}) <= Counted(xs)
    <3>1. Counted({}) = 0
      BY SumOfNone DEF Counted
    <3> QED BY <2>1, <3>1, CountedIs
  <2>4. R!Total(ys).responses \in {0, Counted(ys)}
    BY DEF R!Total, R!NoRate, Counted
  <2>5. Counted(xs) <= t /\ t \in Nat
    <3> DEFINE f == From(previous, a, Gain(Sample, previous.value))
    <3>1. Counted(xs) + f <= t
      BY <2>1 DEF RatesInv, NoneTwice
    <3>2. f \in Nat /\ t \in Nat
      <4>1. previous.value \in Nat
        BY DEF RatesInv, RatesTypes
      <4> QED BY <2>1, <4>1, RatesAreNumbers DEF RatesInv
    <3> HIDE DEF f, t, xs
    <3> QED BY <2>2, <3>1, <3>2
  <2>6. a - slowest = now - window - slowest
    OBVIOUS
  <2> HIDE DEF xs, ys, t
  <2>7. R!Total(ys).responses \in Int /\ R!Total(ys).responses <= t
    BY <2>2, <2>3, <2>4, <2>5
  <2> QED BY <2>6, <2>7 DEF ys, t
<1>5. RatesHold' /\ rates'[1].responses \in Int /\ rates'[2].responses \in Int /\ asOf' \in 0..now'
  <2>1. CASE /\ rates' = <<R!Total(R!Within(intervals, ShortWindow)), R!Total(R!Within(intervals, LongWindow))>>
             /\ asOf' = now
    <3>1. /\ rates'[1] = R!Total(R!Within(intervals, ShortWindow))
          /\ rates'[2] = R!Total(R!Within(intervals, LongWindow))
      BY <2>1
    <3> QED BY <1>1, <1>3, <1>4, <2>1, <3>1 DEF RatesHold
  <2>2. CASE UNCHANGED <<rates, asOf>>
    BY <1>1, <2>2 DEF RatesInv, RatesTypes, RatesHold
  <2> QED BY <1>1, <2>1, <2>2
<1>6. RowsFollow' /\ NoneTwice' /\ AnswerIsNew' /\ intervals' \in SUBSET TableRows /\ IsFiniteSet(intervals')
  BY <1>1, <1>2, PullGoesOn
<1>7. RatesTypes'
  BY <1>1, <1>3, <1>5, <1>6 DEF RatesInv, RatesTypes, R!NoPull
<1> QED BY <1>5, <1>6, <1>7 DEF RatesInv

LEMMA RatesStepKeeps ==
  ASSUME RatesInv, R!Next
  PROVE  RatesInv'
BY TickKeeps, RespondKeepsRates, RestartsKeepRates, PullBeginsOrFails, AnswerKeepsRates,
   SampleKeepsRates, StatsKeepRates DEF R!Next, R!Pull

LEMMA RatesStart == R!Init => RatesInv
<1> SUFFICES ASSUME R!Init PROVE RatesInv
  OBVIOUS
<1>1. MaxTime \in Nat /\ MaxCounter \in Nat /\ ShortWindow \in Nat /\ LongWindow \in Nat
  BY RatesAssumption DEF R!RatesAssumption
<1>2. RatesTypes
  BY <1>1, FS_EmptySet DEF R!Init, RatesTypes, R!NoSample, R!NoRate, R!NoPull
<1>3. RowsFollow /\ AnswerIsNew
  BY DEF R!Init, RowsFollow, AnswerIsNew, R!Pulling, R!NoPull
<1>4. \A a \in Int : Truly(sent, a, 0) \in Nat
  <2>1. 0 \in 0..MaxTime /\ sent \in [0..MaxTime -> Nat]
    BY <1>1, <1>2 DEF RatesTypes
  <2> QED BY <2>1, SentIs
<1>5. RatesHold
  <2>1. /\ rates[1].responses = 0 /\ rates[2].responses = 0 /\ asOf = 0 /\ slowest = 0
        /\ asOf - ShortWindow - slowest \in Int /\ asOf - LongWindow - slowest \in Int
    BY <1>1 DEF R!Init, R!NoRate
  <2>2. /\ Truly(sent, asOf - ShortWindow - slowest, asOf) \in Nat
        /\ Truly(sent, asOf - LongWindow - slowest, asOf) \in Nat
    BY <1>4, <2>1
  <2> QED BY <2>1, <2>2 DEF RatesHold
<1>6. NoneTwice
  <2> SUFFICES ASSUME NEW a \in Int
               PROVE  Counted(Since(intervals, a)) + From(previous, a, Gain(Sample, previous.value))
                        <= Truly(sent, a - slowest, now)
    BY DEF NoneTwice
  <2>1. Since(intervals, a) = {} /\ From(previous, a, Gain(Sample, previous.value)) = 0
    BY DEF R!Init, Since, From, R!NoSample
  <2>2. Counted({}) = 0
    BY SumOfNone DEF Counted
  <2>3. Truly(sent, a - slowest, now) \in Nat
    <3>1. slowest = 0 /\ now = 0 /\ a - slowest \in Int
      BY DEF R!Init
    <3> QED BY <1>4, <3>1
  <2> QED BY <2>1, <2>2, <2>3
<1> QED BY <1>2, <1>3, <1>5, <1>6 DEF RatesInv

LEMMA RatesStay ==
  ASSUME RatesInv, UNCHANGED ratesVars
  PROVE  RatesInv'
BY DEF ratesVars, RatesInv, RatesTypes, RowsFollow, NoneTwice, AnswerIsNew, RatesHold, Sample, Answer,
       R!Pulling

LEMMA RatesHeld == RatesInv => R!RatesAreTrue
BY DEF RatesInv, RatesHold, RowsFollow, R!RatesAreTrue, R!SentBetween, Truly, Times

-----------------------------------------------------------------------------
(* Statistics of leases                                                    *)

\* The counter of a number, and the row of a subnet as it should be.
Counter(n) == L!NewBigCounterFromBigInt(n)
Exact(s) == [total |-> Counter(L!True(s).total), assigned |-> Counter(L!True(s).assigned)]

LEMMA CounterIs ==
  ASSUME NEW n \in Nat
  PROVE  /\ L!ToBigInt(Counter(n)) = n /\ Counter(n) \in [base : Nat, extended : Int]
         /\ n <= MaxUint => Counter(n) = L!Small(n) /\ Counter(n).base = n /\ ~L!IsExtended(Counter(n))
         /\ MaxUint \in Nat
BY LeasesAssumption DEF L!LeasesAssumption, Counter, L!NewBigCounterFromBigInt, L!ToBigInt, L!IsExtended, L!Small

\* Finite sets and their sizes in the terms of the other module.
LEMMA FiniteIsSame ==
  ASSUME NEW xs
  PROVE  /\ L!Cardinality(xs) = Cardinality(xs)
         /\ L!IsFiniteSet(xs) <=> IsFiniteSet(xs)
<1>1. L!Cardinality(xs) = Cardinality(xs)
  BY DEF L!Cardinality, Cardinality
<1>2. L!IsFiniteSet(xs) <=> IsFiniteSet(xs)
  BY DEF L!IsFiniteSet, IsFiniteSet
<1> QED BY <1>1, <1>2

LEMMA ModuloIs == ASSUME NEW n \in Nat, NEW m \in 0..n PROVE m % (n + 1) = m
OBVIOUS

\* Counters add up, on both sides of 64 bits.
LEMMA AddIs ==
  ASSUME NEW m \in Nat, NEW n \in Nat
  PROVE  L!Add(Counter(m), Counter(n)) = Counter(m + n)
<1>1. MaxUint \in Nat
  BY LeasesAssumption DEF L!LeasesAssumption
<1>2. m + n <= MaxUint => (m + n) % (MaxUint + 1) = m + n
  BY <1>1, ModuloIs
<1>3. CASE m <= MaxUint /\ n <= MaxUint
  <2>1. Counter(m) = [base |-> m, extended |-> -1] /\ Counter(n) = [base |-> n, extended |-> -1]
    BY <1>3 DEF Counter, L!NewBigCounterFromBigInt, L!Small
  <2>2. L!CanAdd(Counter(m), Counter(n)) <=> m + n <= MaxUint
    BY <1>1, <2>1 DEF L!CanAdd, L!IsExtended, L!CanAddToBase
  <2>3. /\ L!ToBigInt(Counter(m)) = m /\ L!ToBigInt(Counter(n)) = n
        /\ ~L!IsExtended(Counter(m)) /\ Counter(m).base = m /\ Counter(n).base = n
    BY <1>3, CounterIs
  <2>4. CASE m + n <= MaxUint
    <3>1. L!Add(Counter(m), Counter(n)) = L!Small((m + n) % (MaxUint + 1))
      BY <2>2, <2>3, <2>4 DEF L!Add
    <3> QED BY <1>2, <2>4, <3>1, CounterIs
  <2>5. CASE ~(m + n <= MaxUint)
    <3>1. L!Add(Counter(m), Counter(n)) = [base |-> MaxUint, extended |-> m + n]
      BY <2>2, <2>3, <2>5 DEF L!Add
    <3> QED BY <2>5, <3>1 DEF Counter, L!NewBigCounterFromBigInt
  <2> QED BY <2>4, <2>5
<1>4. CASE ~(m <= MaxUint /\ n <= MaxUint)
  <2>1. ~(m + n <= MaxUint)
    BY <1>1, <1>4
  <2>2. L!IsExtended(Counter(m)) \/ ~L!CanAdd(Counter(m), Counter(n))
    BY <1>1, <1>4 DEF L!CanAdd, L!IsExtended, L!CanAddToBase, Counter, L!NewBigCounterFromBigInt, L!Small
  <2>3. L!Add(Counter(m), Counter(n)) = [base |-> MaxUint, extended |-> m + n]
    BY <2>2, CounterIs DEF L!Add
  <2> QED BY <2>1, <2>3 DEF Counter, L!NewBigCounterFromBigInt
<1> QED BY <1>3, <1>4

LEMMA SumIsNat ==
  ASSUME NEW f, NEW xs, IsFiniteSet(xs), \A x \in xs : f[x] \in Nat
  PROVE  R!Sum(f, xs) \in Nat
<1>1. \A x \in xs : f[x] \in Int /\ f[x] >= 0
  OBVIOUS
<1>2. R!Sum(f, xs) \in Int
  BY <1>1, SumType
<1>3. /\ {} \subseteq xs /\ \A x \in {} : f[x] \in Int /\ f[x] <= f[x]
      /\ \A x \in xs \ {} : f[x] >= 0
      /\ \A x \in xs : f[x] \in Int
  BY <1>1
<1>4. R!Sum(f, {}) <= R!Sum(f, xs)
  BY <1>1, <1>3, SumBelow, Zenon
<1> QED BY <1>2, <1>4, SumOfNone

LEMMA SumOfSame ==
  ASSUME NEW f, NEW xs, IsFiniteSet(xs), NEW n \in Nat, \A x \in xs : f[x] = n
  PROVE  R!Sum(f, xs) = Cardinality(xs) * n
<1> DEFINE P(t) == R!Sum(f, t) = Cardinality(t) * n
           bad == {k \in Nat : \E t \in SUBSET xs : k = Cardinality(t) /\ ~P(t)}
<1> SUFFICES ASSUME ~P(xs) PROVE FALSE
  OBVIOUS
<1>1. bad # {} /\ bad \subseteq Nat
  <2>1. xs \in SUBSET xs /\ Cardinality(xs) \in Nat
    BY FS_CardinalityType
  <2> HIDE DEF P
  <2> QED BY <2>1
<1>2. PICK k \in bad : \A m \in bad : k <= m
  <2> HIDE DEF bad
  <2> QED BY <1>1, HasSmallest
<1>3. PICK t \in SUBSET xs : k = Cardinality(t) /\ ~P(t)
  BY <1>2
<1>4. IsFiniteSet(t)
  BY FS_Subset
<1>5. t # {}
  <2> SUFFICES ASSUME t = {} PROVE FALSE
    OBVIOUS
  <2>1. R!Sum(f, t) = 0 /\ Cardinality(t) = 0
    BY SumOfNone, FS_EmptySet
  <2> QED BY <1>3, <2>1
<1>6. PICK x \in t : TRUE
  BY <1>5
<1> DEFINE u == t \ {x}
<1>7. u \in SUBSET xs /\ Cardinality(u) = k - 1 /\ Cardinality(u) \in Nat
  <2>1. Cardinality(u) = Cardinality(t) - 1 /\ IsFiniteSet(u)
    BY <1>4, <1>6, FS_RemoveElement
  <2> QED BY <1>3, <2>1, FS_CardinalityType
<1>8. P(u)
  <2>1. Cardinality(u) \notin bad
    <3> HIDE DEF bad, u
    <3> QED BY <1>1, <1>2, <1>7
  <2> HIDE DEF P, u
  <2> QED BY <1>7, <2>1
<1>9. R!Sum(f, t) = n + R!Sum(f, u)
  <2>1. \A y \in t : f[y] \in Int
    OBVIOUS
  <2>2. R!Sum(f, t) = f[x] + R!Sum(f, t \ {x})
    BY <1>4, <1>6, <2>1, SumOfOneLess
  <2> QED BY <1>6, <2>2
<1>10. R!Sum(f, u) = (k - 1) * n /\ k \in Nat
  BY <1>1, <1>2, <1>7, <1>8
<1>11. n + (k - 1) * n = k * n
  BY <1>10
<1> QED BY <1>3, <1>9, <1>10, <1>11

\* The same sums in the terms of the other module.
LEMMA SumsAreSame == ASSUME NEW f, NEW xs PROVE L!Sum(f, xs) = R!Sum(f, xs)
BY DEF L!Sum, L!MapThenSumSet, L!MapThenFoldSet, R!Sum, R!MapThenSumSet, R!MapThenFoldSet

\* A function that adds up the counters of the subsets of xs.
CounterSums(h, f, xs) ==
  h = [s \in SUBSET xs |-> IF s = {} THEN L!Small(0) ELSE L!Add(h[s \ {First(s)}], f[First(s)])]

LEMMA SumOfCountersChosen ==
  ASSUME NEW f, NEW xs
  PROVE  L!SumOfCounters(f, xs) = (CHOOSE h : CounterSums(h, f, xs))[xs]
BY DEF L!SumOfCounters, L!FoldSet, L!MapThenFoldSet, CounterSums, First

\* The sum of counters is the counter of the sum.
LEMMA SumOfCountersIs ==
  ASSUME NEW f, NEW v, NEW xs, IsFiniteSet(xs), \A x \in xs : v[x] \in Nat /\ f[x] = Counter(v[x])
  PROVE  L!SumOfCounters(f, xs) = Counter(R!Sum(v, xs)) /\ R!Sum(v, xs) \in Nat
<1> DEFINE g == CHOOSE g : Sums(g, v, SUBSET xs)
           most == [s \in SUBSET xs |-> Counter(g[s])]
<1>1. Sums(g, v, SUBSET xs)
  BY HasSums
<1> HIDE DEF g
<1>2. \A s \in SUBSET xs : g[s] = R!Sum(v, s) /\ g[s] \in Nat
  <2> SUFFICES ASSUME NEW s \in SUBSET xs PROVE g[s] = R!Sum(v, s) /\ g[s] \in Nat
    OBVIOUS
  <2> DEFINE h == CHOOSE h : Sums(h, v, SUBSET s)
  <2>1. IsFiniteSet(s)
    BY FS_Subset
  <2>2. Sums(h, v, SUBSET s)
    BY <2>1, HasSums
  <2>3. R!Sum(v, s) = h[s]
    BY SumIs
  <2> HIDE DEF h
  <2>4. \A x \in xs : v[x] \in Int
    OBVIOUS
  <2>5. h[s] = g[s]
    <3>1. s \in SUBSET s /\ s \subseteq xs
      OBVIOUS
    <3>2. \A q \in SUBSET s : h[q] = g[q] /\ h[q] \in Int
      BY <1>1, <2>2, <2>4, <3>1, SumsAgree, Zenon
    <3> QED BY <3>1, <3>2
  <2>6. R!Sum(v, s) \in Nat
    BY <2>1, SumIsNat
  <2> QED BY <2>3, <2>5, <2>6
<1>3. ASSUME NEW s \in SUBSET xs, s # {}
      PROVE  /\ First(s) \in s /\ s \ {First(s)} \in SUBSET xs
             /\ Counter(g[s]) = L!Add(Counter(g[s \ {First(s)}]), f[First(s)])
  <2>1. First(s) \in s /\ s \ {First(s)} \in SUBSET xs
    BY <1>3, Smaller
  <2>2. g[s] = v[First(s)] + g[s \ {First(s)}]
    <3>1. g[s] = IF s = {} THEN 0 ELSE v[First(s)] + g[s \ {First(s)}]
      BY <1>1, Zenon DEF Sums
    <3> QED BY <1>3, <3>1
  <2>3. f[First(s)] = Counter(v[First(s)]) /\ v[First(s)] \in Nat /\ g[s \ {First(s)}] \in Nat
    BY <1>2, <2>1
  <2>4. L!Add(Counter(g[s \ {First(s)}]), Counter(v[First(s)])) = Counter(g[s \ {First(s)}] + v[First(s)])
    BY <2>3, AddIs
  <2>5. g[s] = g[s \ {First(s)}] + v[First(s)]
    BY <2>2, <2>3
  <2> QED BY <2>1, <2>3, <2>4, <2>5
<1>4. g[{}] = 0 /\ Counter(0) = L!Small(0)
  <2>1. g[{}] = 0
    BY <1>1, Zenon DEF Sums
  <2> QED BY <2>1, CounterIs
<1>5. CounterSums(most, f, xs)
  <2>1. ASSUME NEW s \in SUBSET xs
        PROVE  most[s] = IF s = {} THEN L!Small(0) ELSE L!Add(most[s \ {First(s)}], f[First(s)])
    <3>1. CASE s = {}
      BY <1>4, <3>1
    <3>2. CASE s # {}
      BY <1>3, <3>2
    <3> QED BY <3>1, <3>2
  <2>2. most = [s \in SUBSET xs |-> most[s]]
    OBVIOUS
  <2> HIDE DEF most
  <2> QED BY <2>1, <2>2, Zenon DEF CounterSums
<1> DEFINE h == CHOOSE h : CounterSums(h, f, xs)
<1>6. CounterSums(h, f, xs)
  <2> HIDE DEF most
  <2> QED BY <1>5
<1> HIDE DEF h, most
<1>7. ASSUME NEW r \in SUBSET xs, h[r] # Counter(g[r]) PROVE FALSE
  <2> DEFINE bad == {n \in Nat : \E s \in SUBSET xs : n = Cardinality(s) /\ h[s] # Counter(g[s])}
  <2>1. bad # {} /\ bad \subseteq Nat
    BY <1>7, FS_Subset, FS_CardinalityType
  <2>2. PICK n \in bad : \A m \in bad : n <= m
    <3> HIDE DEF bad
    <3> QED BY <2>1, HasSmallest
  <2>3. PICK s \in SUBSET xs : n = Cardinality(s) /\ h[s] # Counter(g[s])
    BY <2>2
  <2>4. h[s] = IF s = {} THEN L!Small(0) ELSE L!Add(h[s \ {First(s)}], f[First(s)])
    BY <1>6, Zenon DEF CounterSums
  <2>5. s # {}
    BY <1>4, <2>3, <2>4
  <2> DEFINE t == s \ {First(s)}
  <2>6. t \in SUBSET xs /\ Cardinality(t) = n - 1 /\ Cardinality(t) \in Nat
    <3>1. t \in SUBSET xs /\ Cardinality(t) = Cardinality(s) - 1
      BY <2>5, Smaller
    <3> QED BY <2>3, <3>1, FS_Subset, FS_CardinalityType
  <2>7. Cardinality(t) \notin bad
    <3> HIDE DEF bad, t
    <3> QED BY <2>1, <2>2, <2>6
  <2>8. h[t] = Counter(g[t])
    BY <2>6, <2>7
  <2> HIDE DEF bad
  <2> QED BY <1>3, <2>3, <2>4, <2>5, <2>8
<1>8. L!SumOfCounters(f, xs) = h[xs] /\ xs \in SUBSET xs
  BY SumOfCountersChosen DEF h
<1> QED BY <1>2, <1>7, <1>8

-----------------------------------------------------------------------------
LeasesTypes ==
  /\ leased \in [L!Subnets -> Nat] /\ reserved \in [L!Subnets -> Nat] /\ global \in Nat
  /\ leaseChanges \in 0..MaxLeased /\ quiet \in BOOLEAN
  /\ \A s \in L!Subnets : leased[s] <= PoolSizes[s] + leaseChanges /\ reserved[s] <= 1 + leaseChanges
  /\ global <= 1 + leaseChanges
  /\ passive \in HAPair /\ L!Daemons \ up \subseteq {passive}
  /\ DOMAIN stats = L!Subnets
  /\ \/ stage = <<"idle", {}>> \/ stage = <<"totals", {}>>
     \/ \E i \in Nat \ {0} : stage = <<"apps", i>>
     \/ \E some \in SUBSET L!Subnets : stage = <<"subnets", some>>
\* Daemons without the hook have no statistics.
HooklessAreEmpty ==
  \A d \in L!Daemons \ hooked : \A s \in ServedSubnets[d] : local[d][s] = NoStatistics
\* The daemons of the apps up to one have stored what they have.
StoredUpTo(n) ==
  \A i \in 1..n : \A d \in (CountedApps[i] \cap hooked) \ {passive} :
     local[d] = [s \in ServedSubnets[d] |-> L!RowOf(d, s)]
\* What is counted and stored so far in a pull that nothing disturbed.
QuietPull ==
  /\ stage[1] = "apps" => StoredUpTo(stage[2] - 1)
  /\ stage[1] \in {"subnets", "totals"} =>
       /\ counted.global = global /\ \A s \in L!Subnets : counted.rows[s] = Exact(s)
       /\ \A s \in L!Subnets \ stage[2] : stats[s] = Exact(s)
  /\ stage[1] = "totals" =>
       \A n \in L!Networks : L!Is(nets[n], {s \in L!Subnets : NetworkOf[s] = n}, 0)
  /\ L!StatisticsAreExact

LeasesInv == LeasesTypes /\ HooklessAreEmpty /\ (quiet => QuietPull)

\* What a daemon reports is stored as it is, also by versions that report signed numbers.
LEMMA RowIs ==
  ASSUME LeasesTypes, NEW d, NEW s \in L!Subnets
  PROVE  /\ L!RowOf(d, s) = [total |-> Counter(PoolSizes[s]), assigned |-> Counter(leased[s])]
         /\ PoolSizes[s] \in Nat /\ leased[s] \in Nat
         /\ PoolSizes[s] <= PoolSizes[s] + MaxLeased /\ leased[s] <= PoolSizes[s] + MaxLeased
<1>1. /\ PoolSizes[s] \in Nat /\ leased[s] \in Nat /\ leaseChanges \in 0..MaxLeased /\ MaxLeased \in Nat
      /\ leased[s] <= PoolSizes[s] + leaseChanges /\ MaxUint \in Nat /\ PoolSizes[s] + MaxLeased <= MaxUint
  BY LeasesAssumption DEF L!LeasesAssumption, LeasesTypes
<1>2. ASSUME NEW n \in Nat, n <= MaxUint PROVE L!Stored(L!Reported(d, n)) = Counter(n)
  <2>1. CASE d \in old /\ 2 * n > MaxUint
    <3>1. L!Reported(d, n) = n - MaxUint - 1 /\ n - MaxUint - 1 < 0 /\ MaxUint + 1 + (n - MaxUint - 1) = n
      BY <1>1, <1>2, <2>1 DEF L!Reported
    <3> QED BY <3>1 DEF L!Stored, Counter
  <2>2. CASE ~(d \in old /\ 2 * n > MaxUint)
    <3>1. L!Reported(d, n) = n /\ ~(n < 0)
      BY <2>2 DEF L!Reported
    <3> QED BY <3>1 DEF L!Stored, Counter
  <2> QED BY <2>1, <2>2
<1>3. PoolSizes[s] <= MaxUint /\ leased[s] <= MaxUint
  BY <1>1
<1>4. /\ L!Stored(L!Reported(d, PoolSizes[s])) = Counter(PoolSizes[s])
      /\ L!Stored(L!Reported(d, leased[s])) = Counter(leased[s])
  BY <1>1, <1>2, <1>3
<1>5. PoolSizes[s] <= PoolSizes[s] + MaxLeased /\ leased[s] <= PoolSizes[s] + MaxLeased
  BY <1>1
<1> QED BY <1>1, <1>4, <1>5 DEF L!RowOf

\* Daemons that count equal numbers sum them up.
LEMMA SumStatIs ==
  ASSUME LeasesTypes, NEW s \in L!Subnets, NEW name, NEW n \in Nat, n <= PoolSizes[s] + MaxLeased,
         \A d \in L!Counted(s) : local[d][s][name] = Counter(n)
  PROVE  /\ L!SumStat(s, name) = Counter(Cardinality(L!Counted(s)) * n)
         /\ Cardinality(L!Counted(s)) * n \in Nat /\ Cardinality(L!Counted(s)) \in Nat
<1> DEFINE xs == L!Counted(s)
           values == [d \in xs |-> local[d][s][name]]
           numbers == [d \in xs |-> n]
           bases == [d \in xs |-> IF L!IsExtended(values[d]) THEN 0 ELSE values[d].base]
<1>1. IsFiniteSet(L!Daemons) /\ xs \subseteq {d \in L!Daemons \ {passive} : s \in ServedSubnets[d]}
  <2>1. L!IsFiniteSet(L!Daemons)
    BY LeasesAssumption DEF L!LeasesAssumption
  <2>2. xs \subseteq {d \in L!Daemons \ {passive} : s \in ServedSubnets[d]}
    BY DEF L!Counted
  <2> QED BY <2>1, <2>2, FiniteIsSame
<1>2. IsFiniteSet(xs)
  BY <1>1, FS_Subset
<1>3. \A d \in xs : numbers[d] \in Nat /\ numbers[d] = n /\ values[d] = Counter(numbers[d])
  OBVIOUS
<1>4. n <= MaxUint /\ MaxUint \in Nat /\ PoolSizes[s] + MaxLeased \in Nat
  BY LeasesAssumption DEF L!LeasesAssumption
<1> HIDE DEF xs, numbers, values
<1>5. L!SumOfCounters(values, xs) = Counter(R!Sum(numbers, xs)) /\ R!Sum(numbers, xs) \in Nat
  BY <1>2, <1>3, SumOfCountersIs
<1>6. R!Sum(numbers, xs) = Cardinality(xs) * n
  BY <1>2, <1>3, SumOfSame
<1>7. \A d \in xs : bases[d] = n
  BY <1>3, <1>4, CounterIs
<1> HIDE DEF bases
<1>8. R!Sum(bases, xs) = Cardinality(xs) * n
  BY <1>2, <1>7, SumOfSame
<1>9. CASE s \in Subnets4
  <2> DEFINE ys == {d \in L!Daemons \ {passive} : s \in ServedSubnets[d]}
             m == PoolSizes[s] + MaxLeased
             mosts == [d \in ys |-> m]
  <2>1. IsFiniteSet(ys) /\ xs \subseteq ys
    BY <1>1, FS_Subset
  <2>2. Cardinality(ys) * m <= MaxUint
    <3>1. passive \in HAPair
      BY DEF LeasesTypes
    <3>2. L!Cardinality({d \in L!Daemons \ {passive} : s \in ServedSubnets[d]}) * (PoolSizes[s] + MaxLeased) <= MaxUint
      BY <1>9, <3>1, LeasesAssumption DEF L!LeasesAssumption
    <3> QED BY <3>2, FiniteIsSame
  <2>3. /\ \A d \in ys : mosts[d] = m /\ mosts[d] \in Int /\ mosts[d] >= 0
        /\ \A d \in xs : numbers[d] \in Int /\ numbers[d] <= mosts[d]
    BY <1>3, <1>4, <2>1
  <2> HIDE DEF mosts, ys, m
  <2>4. R!Sum(mosts, ys) = Cardinality(ys) * m
    <3>1. m \in Nat
      BY <1>4 DEF m
    <3> QED BY <2>1, <2>3, <3>1, SumOfSame
  <2>5. R!Sum(numbers, xs) <= R!Sum(mosts, ys)
    BY <2>1, <2>3, SumBelow
  <2>6. Cardinality(xs) * n \in Nat /\ Cardinality(xs) * n <= MaxUint
    <3>1. Cardinality(xs) * n <= Cardinality(ys) * m /\ Cardinality(xs) * n \in Nat
      BY <1>5, <1>6, <2>4, <2>5
    <3>2. Cardinality(ys) * m \in Int
      <4>1. R!Sum(mosts, ys) \in Int
        BY <2>1, <2>3, SumType
      <4> QED BY <2>4, <4>1
    <3> DEFINE p == Cardinality(xs) * n  q == Cardinality(ys) * m
    <3>3. p \in Nat /\ q \in Int /\ p <= q /\ q <= MaxUint
      BY <2>2, <3>1, <3>2
    <3> HIDE DEF p, q
    <3>4. p <= MaxUint
      BY <1>4, <3>3
    <3> QED BY <3>3, <3>4 DEF p
  <2>7. (Cardinality(xs) * n) % (MaxUint + 1) = Cardinality(xs) * n
    <3> DEFINE p == Cardinality(xs) * n
    <3>1. p \in 0..MaxUint
      BY <1>4, <2>6
    <3> HIDE DEF p
    <3>2. p % (MaxUint + 1) = p
      BY <1>4, <3>1, ModuloIs
    <3> QED BY <3>2 DEF p
  <2>8. L!SumStat(s, name) = L!Small(L!Sum(bases, xs) % (MaxUint + 1))
    BY <1>9 DEF L!SumStat, bases, values, xs
  <2>9. L!Sum(bases, xs) = Cardinality(xs) * n
    BY <1>8, SumsAreSame
  <2>10. L!SumStat(s, name) = L!Small(Cardinality(xs) * n)
    BY <2>7, <2>8, <2>9
  <2>11. L!Small(Cardinality(xs) * n) = Counter(Cardinality(xs) * n)
    BY <2>6, CounterIs
  <2> QED BY <1>2, <2>6, <2>10, <2>11, FS_CardinalityType DEF xs
<1>10. CASE s \notin Subnets4
  <2>1. L!SumStat(s, name) = L!SumOfCounters(values, xs)
    BY <1>10 DEF L!SumStat, values, xs
  <2> QED BY <1>2, <1>5, <1>6, <2>1, FS_CardinalityType DEF xs
<1> QED BY <1>9, <1>10

\* After the answers of all apps a subnet is counted exactly.
LEMMA SubnetIsExact ==
  ASSUME LeasesTypes, HooklessAreEmpty, StoredUpTo(Len(CountedApps)), NEW s \in L!Subnets
  PROVE  /\ L!SubnetStats(s) = Exact(s)
         /\ L!True(s).total \in Nat /\ L!True(s).assigned \in Nat
<1>1. /\ Len(CountedApps) \in Nat /\ MaxLeased \in Nat /\ 1 + MaxLeased <= MaxUint /\ MaxUint \in Nat
      /\ L!Daemons = UNION {CountedApps[i] : i \in 1..Len(CountedApps)}
      /\ NoStatistics \notin [total : [base : Nat, extended : Int], assigned : [base : Nat, extended : Int]]
  BY LeasesAssumption DEF L!LeasesAssumption, L!Daemons
<1>2. \A d \in (L!Daemons \cap hooked) \ {passive} : local[d] = [t \in ServedSubnets[d] |-> L!RowOf(d, t)]
  <2> SUFFICES ASSUME NEW d \in (L!Daemons \cap hooked) \ {passive}
               PROVE  local[d] = [t \in ServedSubnets[d] |-> L!RowOf(d, t)]
    OBVIOUS
  <2>1. PICK i \in 1..Len(CountedApps) : d \in CountedApps[i]
    BY <1>1
  <2> QED BY <2>1, Zenon DEF StoredUpTo
<1>3. \A d \in L!Daemons : L!RowOf(d, s) # NoStatistics
  <2>1. Counter(PoolSizes[s]) \in [base : Nat, extended : Int] /\ Counter(leased[s]) \in [base : Nat, extended : Int]
    BY RowIs, CounterIs
  <2>2. \A d \in L!Daemons :
          L!RowOf(d, s) \in [total : [base : Nat, extended : Int], assigned : [base : Nat, extended : Int]]
    BY <2>1, RowIs
  <2> QED BY <1>1, <2>2
<1>4. L!Counted(s) = L!Groups(s)
  <2>1. \A d \in L!Daemons \ {passive} : s \in ServedSubnets[d] => (local[d][s] # NoStatistics <=> d \in hooked)
    <3> SUFFICES ASSUME NEW d \in L!Daemons \ {passive}, s \in ServedSubnets[d]
                 PROVE  local[d][s] # NoStatistics <=> d \in hooked
      OBVIOUS
    <3>1. CASE d \in hooked
      <4>1. local[d] = [t \in ServedSubnets[d] |-> L!RowOf(d, t)]
        BY <1>2, <3>1
      <4>2. local[d][s] = L!RowOf(d, s)
        BY <4>1
      <4> QED BY <1>3, <3>1, <4>2
    <3>2. CASE d \notin hooked
      BY <3>2 DEF HooklessAreEmpty
    <3> QED BY <3>1, <3>2
  <2> QED BY <2>1 DEF L!Counted, L!Groups
<1>5. \A d \in L!Counted(s) : /\ local[d][s].total = Counter(PoolSizes[s])
                              /\ local[d][s].assigned = Counter(leased[s])
  <2> SUFFICES ASSUME NEW d \in L!Counted(s)
               PROVE  /\ local[d][s].total = Counter(PoolSizes[s])
                      /\ local[d][s].assigned = Counter(leased[s])
    OBVIOUS
  <2>1. d \in (L!Daemons \cap hooked) \ {passive} /\ s \in ServedSubnets[d]
    BY <1>4 DEF L!Groups
  <2>2. local[d] = [t \in ServedSubnets[d] |-> L!RowOf(d, t)]
    BY <1>2, <2>1
  <2>3. local[d][s] = L!RowOf(d, s)
    BY <2>1, <2>2
  <2> QED BY <2>3, RowIs
<1> DEFINE k == Cardinality(L!Groups(s))  r == reserved[s]
<1>6. /\ L!SumStat(s, "total") = Counter(k * PoolSizes[s]) /\ k * PoolSizes[s] \in Nat
      /\ L!SumStat(s, "assigned") = Counter(k * leased[s]) /\ k * leased[s] \in Nat
  <2>1. L!SumStat(s, "total") = Counter(k * PoolSizes[s]) /\ k * PoolSizes[s] \in Nat
    <3>1. \A d \in L!Counted(s) : local[d][s]["total"] = Counter(PoolSizes[s])
      BY <1>5
    <3>2. PoolSizes[s] \in Nat /\ PoolSizes[s] <= PoolSizes[s] + MaxLeased
      BY RowIs
    <3>3. /\ L!SumStat(s, "total") = Counter(Cardinality(L!Counted(s)) * PoolSizes[s])
          /\ Cardinality(L!Counted(s)) * PoolSizes[s] \in Nat
      BY <3>1, <3>2, SumStatIs
    <3> QED BY <1>4, <3>3, Zenon
  <2>2. L!SumStat(s, "assigned") = Counter(k * leased[s]) /\ k * leased[s] \in Nat
    <3>1. \A d \in L!Counted(s) : local[d][s]["assigned"] = Counter(leased[s])
      BY <1>5
    <3>2. leased[s] \in Nat /\ leased[s] <= PoolSizes[s] + MaxLeased
      BY RowIs
    <3>3. /\ L!SumStat(s, "assigned") = Counter(Cardinality(L!Counted(s)) * leased[s])
          /\ Cardinality(L!Counted(s)) * leased[s] \in Nat
      BY <3>1, <3>2, SumStatIs
    <3> QED BY <1>4, <3>3, Zenon
  <2> QED BY <2>1, <2>2
<1>7. r \in Nat /\ r <= MaxUint
  <2>1. r \in Nat /\ r <= 1 + leaseChanges /\ leaseChanges \in 0..MaxLeased
    BY DEF LeasesTypes
  <2> HIDE DEF r
  <2> QED BY <1>1, <2>1
<1> DEFINE p == k * PoolSizes[s]  q == k * leased[s]
<1>8. L!True(s) = [total |-> p + r, assigned |-> q]
  BY FiniteIsSame DEF L!True
<1>9. L!SubnetStats(s) = [total |-> L!Add(Counter(p), L!Small(r)), assigned |-> Counter(q)]
  BY <1>6 DEF L!SubnetStats, L!CountOutOfPoolReservations
<1> HIDE DEF p, q, r
<1>10. p \in Nat /\ q \in Nat
  BY <1>6 DEF p, q
<1>11. L!Small(r) = Counter(r)
  BY <1>7, CounterIs
<1>12. L!Add(Counter(p), Counter(r)) = Counter(p + r)
  BY <1>7, <1>10, AddIs
<1>13. L!True(s).total = p + r /\ L!True(s).assigned = q
  BY <1>8
<1> QED BY <1>7, <1>9, <1>10, <1>11, <1>12, <1>13 DEF Exact

\* What is true of a subnet is a number, and the sum of rows that are exact is the sum of what is true.
LEMMA TrueIs ==
  ASSUME LeasesTypes, NEW s \in L!Subnets
  PROVE  L!True(s).total \in Nat /\ L!True(s).assigned \in Nat
<1> DEFINE k == L!Cardinality(L!Groups(s))
<1>1. k \in Nat
  <2>1. L!IsFiniteSet(L!Daemons)
    BY LeasesAssumption DEF L!LeasesAssumption
  <2>2. L!Groups(s) \subseteq L!Daemons
    BY DEF L!Groups
  <2>3. IsFiniteSet(L!Groups(s))
    BY <2>1, <2>2, FiniteIsSame, FS_Subset
  <2> QED BY <2>3, FiniteIsSame, FS_CardinalityType
<1>2. PoolSizes[s] \in Nat /\ leased[s] \in Nat /\ reserved[s] \in Nat
  BY LeasesAssumption DEF L!LeasesAssumption, LeasesTypes
<1>3. L!True(s) = [total |-> k * PoolSizes[s] + reserved[s], assigned |-> k * leased[s]]
  BY DEF L!True
<1> HIDE DEF k
<1> QED BY <1>1, <1>2, <1>3

LEMMA SumOfIs ==
  ASSUME LeasesTypes, NEW cs, NEW xs \in SUBSET L!Subnets, \A s \in xs : cs[s] = Exact(s)
  PROVE  LET total == R!Sum([s \in xs |-> L!True(s).total], xs)
             assigned == R!Sum([s \in xs |-> L!True(s).assigned], xs) IN
         /\ L!SumOf(cs, xs) = [total |-> Counter(total), assigned |-> Counter(assigned)]
         /\ total \in Nat /\ assigned \in Nat
<1> DEFINE tt == [s \in xs |-> L!True(s).total]  ta == [s \in xs |-> L!True(s).assigned]
           ct == [s \in xs |-> cs[s].total]      ca == [s \in xs |-> cs[s].assigned]
<1>1. IsFiniteSet(xs)
  <2>1. L!IsFiniteSet(L!Subnets)
    BY LeasesAssumption DEF L!LeasesAssumption
  <2> QED BY <2>1, FiniteIsSame, FS_Subset
<1>2. \A s \in xs : /\ tt[s] \in Nat /\ ct[s] = Counter(tt[s])
                    /\ ta[s] \in Nat /\ ca[s] = Counter(ta[s])
  <2> SUFFICES ASSUME NEW s \in xs
               PROVE  /\ tt[s] \in Nat /\ ct[s] = Counter(tt[s])
                      /\ ta[s] \in Nat /\ ca[s] = Counter(ta[s])
    OBVIOUS
  <2>1. L!True(s).total \in Nat /\ L!True(s).assigned \in Nat
    BY TrueIs
  <2>2. tt[s] = L!True(s).total /\ ta[s] = L!True(s).assigned
    OBVIOUS
  <2>3. ct[s] = cs[s].total /\ ca[s] = cs[s].assigned
    OBVIOUS
  <2>4. cs[s].total = Counter(L!True(s).total) /\ cs[s].assigned = Counter(L!True(s).assigned)
    <3>1. cs[s] = Exact(s)
      OBVIOUS
    <3>2. /\ Exact(s).total = Counter(L!True(s).total)
          /\ Exact(s).assigned = Counter(L!True(s).assigned)
      BY DEF Exact
    <3> QED BY <3>1, <3>2
  <2> QED BY <2>1, <2>2, <2>3, <2>4
<1>3. L!SumOf(cs, xs) = [total |-> L!SumOfCounters(ct, xs), assigned |-> L!SumOfCounters(ca, xs)]
  BY DEF L!SumOf
<1> HIDE DEF ct, ca, tt, ta
<1>4. L!SumOfCounters(ct, xs) = Counter(R!Sum(tt, xs)) /\ R!Sum(tt, xs) \in Nat
  BY <1>1, <1>2, SumOfCountersIs
<1>5. L!SumOfCounters(ca, xs) = Counter(R!Sum(ta, xs)) /\ R!Sum(ta, xs) \in Nat
  BY <1>1, <1>2, SumOfCountersIs
<1> QED BY <1>3, <1>4, <1>5 DEF tt, ta

\* So it is exact, with what is added to it.
LEMMA SumIsExact ==
  ASSUME LeasesTypes, NEW cs, NEW xs \in SUBSET L!Subnets, \A s \in xs : cs[s] = Exact(s), NEW n \in Nat
  PROVE  /\ L!Is(L!SumOf(cs, xs), xs, 0)
         /\ n <= MaxUint => L!Is([L!SumOf(cs, xs) EXCEPT !.total = L!Add(@, L!Small(n))], xs, n)
<1> DEFINE total == R!Sum([s \in xs |-> L!True(s).total], xs)
           assigned == R!Sum([s \in xs |-> L!True(s).assigned], xs)
<1>1. /\ L!SumOf(cs, xs) = [total |-> Counter(total), assigned |-> Counter(assigned)]
      /\ total \in Nat /\ assigned \in Nat
  BY SumOfIs
<1>2. /\ L!Sum([s \in xs |-> L!True(s).total], xs) = total
      /\ L!Sum([s \in xs |-> L!True(s).assigned], xs) = assigned
  BY SumsAreSame
<1> HIDE DEF total, assigned
<1>3. L!ToBigInt(Counter(total)) = total /\ L!ToBigInt(Counter(assigned)) = assigned
  BY <1>1, CounterIs
<1>4. L!Is(L!SumOf(cs, xs), xs, 0)
  BY <1>1, <1>2, <1>3 DEF L!Is
<1>5. ASSUME n <= MaxUint
      PROVE  L!Is([L!SumOf(cs, xs) EXCEPT !.total = L!Add(@, L!Small(n))], xs, n)
  <2>1. L!Small(n) = Counter(n)
    BY <1>5, CounterIs
  <2>2. L!Add(Counter(total), Counter(n)) = Counter(total + n)
    BY <1>1, AddIs
  <2>3. [L!SumOf(cs, xs) EXCEPT !.total = L!Add(@, L!Small(n))]
        = [total |-> Counter(total + n), assigned |-> Counter(assigned)]
    BY <1>1, <2>1, <2>2
  <2>4. L!ToBigInt(Counter(total + n)) = total + n
    BY <1>1, CounterIs
  <2> QED BY <1>2, <1>3, <2>3, <2>4 DEF L!Is
<1> QED BY <1>4, <1>5

\* A row that is exact is what is true of its subnet.
LEMMA RowIsTrue ==
  ASSUME LeasesTypes, NEW s \in L!Subnets
  PROVE  L!Is(Exact(s), {s}, 0)
<1>1. L!True(s).total \in Nat /\ L!True(s).assigned \in Nat
  BY TrueIs
<1>2. ASSUME NEW f, f[s] \in Nat PROVE L!Sum(f, {s}) = f[s]
  <2>1. IsFiniteSet({s}) /\ Cardinality({s}) = 1
    BY FS_Singleton
  <2>2. \A x \in {s} : f[x] = f[s]
    OBVIOUS
  <2>3. R!Sum(f, {s}) = 1 * f[s]
    BY <1>2, <2>1, <2>2, SumOfSame
  <2> QED BY <1>2, <2>3, SumsAreSame
<1> DEFINE tt == [x \in {s} |-> L!True(x).total]  ta == [x \in {s} |-> L!True(x).assigned]
<1>3. tt[s] = L!True(s).total /\ ta[s] = L!True(s).assigned
  OBVIOUS
<1> HIDE DEF tt, ta
<1>4. L!Sum(tt, {s}) = L!True(s).total /\ L!Sum(ta, {s}) = L!True(s).assigned
  BY <1>1, <1>2, <1>3
<1>5. /\ L!ToBigInt(Exact(s).total) = L!True(s).total
      /\ L!ToBigInt(Exact(s).assigned) = L!True(s).assigned
  BY <1>1, CounterIs DEF Exact
<1> QED BY <1>1, <1>4, <1>5 DEF L!Is, tt, ta

-----------------------------------------------------------------------------
\* What a step that changes Kea, or that fails, leaves to be shown.
LEMMA DisturbedKeeps ==
  ASSUME LeasesTypes', HooklessAreEmpty', ~quiet'
  PROVE  LeasesInv'
BY DEF LeasesInv

LEMMA LeaseChangesKeep ==
  ASSUME LeasesInv, (\E s \in L!Subnets : L!Lease(s)) \/ L!Failover \/ L!Return \/ L!Reserve
  PROVE  LeasesInv'
<1>1. /\ leaseChanges' = leaseChanges + 1 /\ leaseChanges < MaxLeased /\ quiet' = FALSE
      /\ UNCHANGED <<local, stats, nets, totals, stage, counted, old, hooked>>
  BY DEF L!Lease, L!Failover, L!Return, L!Reserve, L!Change, L!db
<1>2. /\ leaseChanges \in Nat /\ MaxLeased \in Nat /\ leaseChanges' \in 0..MaxLeased
      /\ PoolSizes \in [L!Subnets -> Nat]
  BY <1>1, LeasesAssumption DEF L!LeasesAssumption, LeasesInv, LeasesTypes
<1>3. HooklessAreEmpty'
  BY <1>1 DEF LeasesInv, HooklessAreEmpty
<1>4. /\ leased' \in [L!Subnets -> Nat]
      /\ \A s \in L!Subnets : leased'[s] <= PoolSizes[s] + leaseChanges'
  <2>1. CASE UNCHANGED leased
    BY <1>1, <1>2, <2>1 DEF LeasesInv, LeasesTypes
  <2>2. CASE \E s \in L!Subnets : L!Lease(s)
    <3>1. PICK s \in L!Subnets : L!Lease(s)
      BY <2>2
    <3>2. PICK n \in {1, PoolSizes[s] + reserved[s]} : leased' = [leased EXCEPT ![s] = n]
      BY <3>1 DEF L!Lease
    <3>3. n \in Nat /\ n <= PoolSizes[s] + leaseChanges'
      BY <1>1, <1>2, <3>2 DEF LeasesInv, LeasesTypes
    <3>4. leased \in [L!Subnets -> Nat] /\ \A t \in L!Subnets : leased[t] <= PoolSizes[t] + leaseChanges
      BY DEF LeasesInv, LeasesTypes
    <3>5. leased' \in [L!Subnets -> Nat]
      BY <3>2, <3>3, <3>4
    <3>6. ASSUME NEW t \in L!Subnets PROVE leased'[t] <= PoolSizes[t] + leaseChanges'
      <4>1. CASE t = s
        BY <3>2, <3>3, <3>4, <4>1
      <4>2. CASE t # s
        <5>1. leased'[t] = leased[t] /\ leased[t] \in Nat /\ PoolSizes[t] \in Nat
          BY <1>2, <3>2, <3>4, <4>2
        <5> QED BY <1>1, <1>2, <3>4, <5>1
      <4> QED BY <4>1, <4>2
    <3> QED BY <3>5, <3>6
  <2> QED BY <2>1, <2>2 DEF L!Failover, L!Return, L!Reserve
<1>5. /\ reserved' \in [L!Subnets -> Nat] /\ \A s \in L!Subnets : reserved'[s] <= 1 + leaseChanges'
      /\ global' \in Nat /\ global' <= 1 + leaseChanges'
  <2>1. /\ reserved \in [L!Subnets -> Nat] /\ \A s \in L!Subnets : reserved[s] <= 1 + leaseChanges
        /\ global \in Nat /\ global <= 1 + leaseChanges
    BY DEF LeasesInv, LeasesTypes
  <2>2. CASE UNCHANGED <<reserved, global>>
    BY <1>1, <1>2, <2>1, <2>2
  <2>3. CASE global' = global + 1 /\ UNCHANGED reserved
    BY <1>1, <1>2, <2>1, <2>3
  <2>4. CASE (\E s \in Subnets6 : reserved' = [reserved EXCEPT ![s] = @ + 1]) /\ UNCHANGED global
    <3>1. PICK s \in Subnets6 : reserved' = [reserved EXCEPT ![s] = @ + 1]
      BY <2>4
    <3>2. s \in L!Subnets
      BY DEF L!Subnets
    <3>3. \A t \in L!Subnets : reserved'[t] = IF t = s THEN reserved[t] + 1 ELSE reserved[t]
      BY <2>1, <3>1
    <3>4. reserved' \in [L!Subnets -> Nat]
      BY <2>1, <3>1, <3>2
    <3>5. ASSUME NEW t \in L!Subnets PROVE reserved'[t] <= 1 + leaseChanges'
      <4>1. reserved[t] \in Nat /\ reserved[t] <= 1 + leaseChanges
        BY <2>1
      <4> QED BY <1>1, <1>2, <3>3, <4>1
    <3> QED BY <1>1, <1>2, <2>1, <2>4, <3>4, <3>5
  <2> QED BY <2>2, <2>3, <2>4 DEF L!Lease, L!Failover, L!Return, L!Reserve
<1>6. passive' \in HAPair /\ L!Daemons \ up' \subseteq {passive'}
  <2>1. passive \in HAPair /\ L!Daemons \ up \subseteq {passive}
    BY DEF LeasesInv, LeasesTypes
  <2> QED BY <2>1 DEF L!Lease, L!Failover, L!Return, L!Reserve
<1>7. /\ DOMAIN stats' = L!Subnets
      /\ \/ stage' = <<"idle", {}>> \/ stage' = <<"totals", {}>>
         \/ \E i \in Nat \ {0} : stage' = <<"apps", i>>
         \/ \E some \in SUBSET L!Subnets : stage' = <<"subnets", some>>
  BY <1>1 DEF LeasesInv, LeasesTypes
<1>8. LeasesTypes'
  BY <1>1, <1>2, <1>4, <1>5, <1>6, <1>7 DEF LeasesTypes
<1> QED BY <1>1, <1>3, <1>8, DisturbedKeeps

\* The types after a step of the puller, which leaves Kea alone.
LEMMA PullerTypes ==
  ASSUME LeasesTypes, UNCHANGED L!kea, DOMAIN stats' = L!Subnets,
         \/ L!Fine \/ L!Fails \/ (quiet' = TRUE /\ UNCHANGED leaseChanges),
         \/ stage' = <<"idle", {}>> \/ stage' = <<"totals", {}>>
         \/ \E i \in Nat \ {0} : stage' = <<"apps", i>>
         \/ \E some \in SUBSET L!Subnets : stage' = <<"subnets", some>>
  PROVE  LeasesTypes'
<1>1. UNCHANGED <<leased, up, passive, old, hooked, reserved, global>>
  BY DEF L!kea
<1>2. /\ leaseChanges \in 0..MaxLeased /\ MaxLeased \in Nat /\ PoolSizes \in [L!Subnets -> Nat]
      /\ leased \in [L!Subnets -> Nat] /\ reserved \in [L!Subnets -> Nat] /\ global \in Nat
      /\ \A s \in L!Subnets : leased[s] <= PoolSizes[s] + leaseChanges /\ reserved[s] <= 1 + leaseChanges
      /\ global <= 1 + leaseChanges
  BY LeasesAssumption DEF L!LeasesAssumption, LeasesTypes
<1>3. /\ leaseChanges' \in 0..MaxLeased /\ leaseChanges <= leaseChanges' /\ quiet' \in BOOLEAN
  <2>1. quiet' \in BOOLEAN
    BY Zenon DEF L!Fine, L!Fails, LeasesTypes
  <2>2. \/ leaseChanges' = leaseChanges
        \/ leaseChanges < MaxLeased /\ leaseChanges' = leaseChanges + 1
    BY DEF L!Fine, L!Fails
  <2> QED BY <1>2, <2>1, <2>2
<1>4. ASSUME NEW s \in L!Subnets
      PROVE  leased'[s] <= PoolSizes[s] + leaseChanges' /\ reserved'[s] <= 1 + leaseChanges'
  <2>1. leased[s] \in Nat /\ reserved[s] \in Nat /\ PoolSizes[s] \in Nat
    BY <1>2
  <2> QED BY <1>1, <1>2, <1>3, <2>1
<1>5. global' <= 1 + leaseChanges'
  <2>1. global' = global /\ global \in Nat /\ leaseChanges \in Nat /\ leaseChanges' \in Nat
    BY <1>1, <1>2, <1>3
  <2>2. global <= 1 + leaseChanges /\ leaseChanges <= leaseChanges'
    BY <1>2, <1>3
  <2>3. \A l, m, n \in Nat : l <= 1 + m /\ m <= n => l <= 1 + n
    OBVIOUS
  <2> QED BY <2>1, <2>2, <2>3, Zenon
<1> QED BY <1>1, <1>2, <1>3, <1>4, <1>5 DEF LeasesTypes

\* Kea is as it was, and so is what is exact.
LEMMA ExactStays ==
  ASSUME UNCHANGED L!kea
  PROVE  /\ \A s : Exact(s)' = Exact(s) /\ L!True(s)' = L!True(s)
         /\ \A cs, xs, n : L!Is(cs, xs, n)' <=> L!Is(cs, xs, n)
         /\ \A d, s : L!RowOf(d, s)' = L!RowOf(d, s)
BY DEF L!kea, Exact, L!True, L!Groups, L!Is, L!RowOf, L!Reported

LEMMA StartKeeps ==
  ASSUME LeasesInv, L!Start
  PROVE  LeasesInv'
<1>1. /\ stage' = <<"apps", 1>> /\ quiet' = TRUE
      /\ UNCHANGED L!kea /\ UNCHANGED <<local, stats, nets, totals, counted, leaseChanges>>
  BY DEF L!Start, L!db
<1>2. LeasesTypes'
  <2>1. DOMAIN stats' = L!Subnets /\ \E i \in Nat \ {0} : stage' = <<"apps", i>>
    BY <1>1 DEF LeasesInv, LeasesTypes
  <2> QED BY <1>1, <2>1, PullerTypes DEF LeasesInv
<1>3. HooklessAreEmpty'
  BY <1>1 DEF LeasesInv, HooklessAreEmpty, L!kea
<1>4. QuietPull'
  <2>1. stage'[1] = "apps" /\ stage'[2] = 1
    BY <1>1
  <2>2. StoredUpTo(stage[2] - 1)'
    BY <2>1 DEF StoredUpTo
  <2>3. L!StatisticsAreExact'
    BY <2>1 DEF L!StatisticsAreExact
  <2> QED BY <2>1, <2>2, <2>3 DEF QuietPull
<1> QED BY <1>2, <1>3, <1>4 DEF LeasesInv

LEMMA GetStatsFromAppKeeps ==
  ASSUME LeasesInv, L!GetStatsFromApp
  PROVE  LeasesInv'
<1> DEFINE n == stage[2]
           those == CountedApps[n] \cap hooked
<1>1. PICK answering \in SUBSET (those \cap up) :
        /\ local' = [d \in L!Daemons |->
                       IF d \in answering THEN [s \in ServedSubnets[d] |-> L!RowOf(d, s)] ELSE local[d]]
        /\ IF answering = those \cap up THEN L!Fine ELSE L!Fails
  BY DEF L!GetStatsFromApp
<1>2. /\ stage[1] = "apps" /\ n <= Len(CountedApps) /\ stage' = <<"apps", n + 1>>
      /\ UNCHANGED L!kea /\ UNCHANGED <<stats, nets, totals, counted>>
  BY DEF L!GetStatsFromApp
<1>3. n \in Nat \ {0} /\ \A d \in CountedApps[n] : d \in L!Daemons
  <2>1. n \in Nat \ {0}
    BY <1>2 DEF LeasesInv, LeasesTypes
  <2>2. CountedApps \in Seq(SUBSET L!Daemons)
    BY LeasesAssumption DEF L!LeasesAssumption
  <2>3. n \in 1..Len(CountedApps)
    BY <1>2, <2>1, <2>2
  <2>4. CountedApps[n] \in SUBSET L!Daemons
    BY <2>2, <2>3
  <2> QED BY <2>1, <2>4
<1> HIDE DEF n
<1>4. LeasesTypes'
  <2>1. DOMAIN stats' = L!Subnets /\ \E i \in Nat \ {0} : stage' = <<"apps", i>>
    BY <1>2, <1>3 DEF LeasesInv, LeasesTypes
  <2> QED BY <1>1, <1>2, <2>1, PullerTypes DEF LeasesInv
<1>5. HooklessAreEmpty'
  <2> SUFFICES ASSUME NEW d \in L!Daemons \ hooked, NEW s \in ServedSubnets[d] PROVE local'[d][s] = NoStatistics
    BY <1>2 DEF HooklessAreEmpty, L!kea
  <2>1. d \notin answering
    OBVIOUS
  <2>2. local'[d] = local[d]
    BY <1>1, <2>1
  <2> QED BY <2>2 DEF LeasesInv, HooklessAreEmpty
<1>6. CASE quiet'
  <2>1. quiet /\ answering = those \cap up
    BY <1>1, <1>6, Zenon DEF L!Fine, L!Fails
  <2>2. StoredUpTo(n - 1) /\ L!Daemons \ up \subseteq {passive}
    BY <1>2, <2>1 DEF LeasesInv, QuietPull, LeasesTypes, n
  <2>3. ASSUME NEW i \in 1..n, NEW d \in (CountedApps[i] \cap hooked) \ {passive}
        PROVE  local'[d] = [s \in ServedSubnets[d] |-> L!RowOf(d, s)]
    <3>1. d \in L!Daemons
      <4>1. CountedApps \in Seq(SUBSET L!Daemons) /\ Len(CountedApps) \in Nat
        BY LeasesAssumption DEF L!LeasesAssumption
      <4>2. i \in 1..Len(CountedApps)
        BY <1>2, <1>3, <4>1
      <4>3. CountedApps[i] \in SUBSET L!Daemons
        BY <4>1, <4>2
      <4> QED BY <4>3
    <3>2. CASE d \in answering
      BY <1>1, <3>1, <3>2
    <3>3. CASE d \notin answering
      <4>1. i # n
        BY <2>1, <2>2, <3>1, <3>3
      <4>2. i \in 1..(n - 1)
        BY <1>3, <4>1
      <4>3. local'[d] = local[d]
        BY <1>1, <3>1, <3>3
      <4> QED BY <2>2, <4>2, <4>3, Zenon DEF StoredUpTo
    <3> QED BY <3>2, <3>3
  <2>4. stage'[1] = "apps" /\ stage'[2] - 1 = n
    BY <1>2, <1>3
  <2>5. StoredUpTo(stage[2] - 1)'
    <3>1. \A d, s : L!RowOf(d, s)' = L!RowOf(d, s)
      BY <1>2, ExactStays
    <3>2. UNCHANGED <<hooked, passive>>
      BY <1>2 DEF L!kea
    <3> QED BY <2>3, <2>4, <3>1, <3>2 DEF StoredUpTo
  <2>6. L!StatisticsAreExact'
    BY <2>4 DEF L!StatisticsAreExact
  <2>7. QuietPull'
    BY <2>4, <2>5, <2>6 DEF QuietPull
  <2> QED BY <1>4, <1>5, <2>7 DEF LeasesInv
<1> QED BY <1>4, <1>5, <1>6, DisturbedKeeps

LEMMA CountKeeps ==
  ASSUME LeasesInv, L!Count
  PROVE  LeasesInv'
<1>1. /\ stage = <<"apps", Len(CountedApps) + 1>>
      /\ UNCHANGED L!kea /\ UNCHANGED <<local, stats, nets, totals>>
      /\ \/ /\ counted' = [rows |-> [s \in L!Subnets |-> L!SubnetStats(s)], global |-> global]
            /\ stage' = <<"subnets", L!Subnets>> /\ L!Fine
         \/ stage' = <<"idle", {}>> /\ L!Fails
  BY DEF L!Count, L!db, L!CountGlobalReservations
<1>2. LeasesTypes'
  <2>1. \/ stage' = <<"idle", {}>>
        \/ \E some \in SUBSET L!Subnets : stage' = <<"subnets", some>>
    BY <1>1
  <2>2. DOMAIN stats' = L!Subnets /\ (L!Fine \/ L!Fails)
    BY <1>1 DEF LeasesInv, LeasesTypes
  <2> QED BY <1>1, <2>1, <2>2, PullerTypes DEF LeasesInv
<1>3. HooklessAreEmpty'
  BY <1>1 DEF LeasesInv, HooklessAreEmpty, L!kea
<1>4. CASE quiet'
  <2>1. /\ counted' = [rows |-> [s \in L!Subnets |-> L!SubnetStats(s)], global |-> global]
        /\ stage' = <<"subnets", L!Subnets>> /\ quiet
    BY <1>1, <1>4, Zenon DEF L!Fine, L!Fails
  <2>2. StoredUpTo(Len(CountedApps))
    <3>1. Len(CountedApps) \in Nat
      BY LeasesAssumption DEF L!LeasesAssumption
    <3>2. stage[1] = "apps" /\ stage[2] - 1 = Len(CountedApps)
      BY <1>1, <3>1
    <3>3. StoredUpTo(stage[2] - 1)
      BY <2>1, <3>2 DEF LeasesInv, QuietPull
    <3> QED BY <3>2, <3>3
  <2>3. \A s \in L!Subnets : counted'.rows[s] = Exact(s)
    <3>1. \A s \in L!Subnets : L!SubnetStats(s) = Exact(s)
      BY <2>2, SubnetIsExact DEF LeasesInv
    <3>2. \A s \in L!Subnets : counted'.rows[s] = L!SubnetStats(s)
      BY <2>1
    <3> QED BY <3>1, <3>2
  <2>4. counted'.global = global' /\ stage'[1] = "subnets" /\ stage'[2] = L!Subnets
    BY <1>1, <2>1 DEF L!kea
  <2>5. L!StatisticsAreExact'
    BY <2>4 DEF L!StatisticsAreExact
  <2>6. \A s : Exact(s)' = Exact(s)
    BY <1>1, ExactStays
  <2>7. QuietPull'
    BY <2>3, <2>4, <2>5, <2>6 DEF QuietPull
  <2> QED BY <1>2, <1>3, <2>7 DEF LeasesInv
<1> QED BY <1>2, <1>3, <1>4, DisturbedKeeps

LEMMA UpdateStatisticsKeeps ==
  ASSUME LeasesInv, L!UpdateStatistics
  PROVE  LeasesInv'
<1> DEFINE r == CHOOSE x \in stage[2] : TRUE
<1>1. /\ stage[1] = "subnets" /\ stage[2] # {} /\ stage' = <<"subnets", stage[2] \ {r}>>
      /\ \/ stats' = [stats EXCEPT ![r] = counted.rows[r]] /\ L!Fine
         \/ L!Fails /\ UNCHANGED stats
      /\ UNCHANGED L!kea /\ UNCHANGED <<local, nets, totals, counted>>
  BY DEF L!UpdateStatistics
<1>2. r \in stage[2] /\ stage[2] \subseteq L!Subnets
  BY <1>1 DEF LeasesInv, LeasesTypes
<1> HIDE DEF r
<1>3. LeasesTypes'
  <2>1. \E some \in SUBSET L!Subnets : stage' = <<"subnets", some>>
    BY <1>1, <1>2
  <2>2. DOMAIN stats' = L!Subnets /\ (L!Fine \/ L!Fails)
    BY <1>1 DEF LeasesInv, LeasesTypes
  <2> QED BY <1>1, <2>1, <2>2, PullerTypes DEF LeasesInv
<1>4. HooklessAreEmpty'
  BY <1>1 DEF LeasesInv, HooklessAreEmpty, L!kea
<1>5. CASE quiet'
  <2>1. quiet /\ stats' = [stats EXCEPT ![r] = counted.rows[r]]
    BY <1>1, <1>5, Zenon DEF L!Fine, L!Fails
  <2>2. /\ counted.global = global /\ \A s \in L!Subnets : counted.rows[s] = Exact(s)
        /\ \A s \in L!Subnets \ stage[2] : stats[s] = Exact(s)
        /\ DOMAIN stats = L!Subnets
    BY <1>1, <2>1 DEF LeasesInv, QuietPull, LeasesTypes
  <2>3. stage'[1] = "subnets" /\ stage'[2] = stage[2] \ {r}
    BY <1>1
  <2>4. \A s \in L!Subnets \ stage'[2] : stats'[s] = Exact(s)
    <3> SUFFICES ASSUME NEW s \in L!Subnets \ stage'[2] PROVE stats'[s] = Exact(s)
      OBVIOUS
    <3>1. CASE s = r
      <4>1. stats'[s] = counted.rows[s]
        BY <2>1, <2>2, <3>1
      <4> QED BY <2>2, <4>1
    <3>2. CASE s # r
      <4>1. stats'[s] = stats[s] /\ s \notin stage[2]
        BY <2>1, <2>2, <2>3, <3>2
      <4> QED BY <2>2, <4>1
    <3> QED BY <3>1, <3>2
  <2>5. L!StatisticsAreExact'
    BY <2>3 DEF L!StatisticsAreExact
  <2>6. \A s : Exact(s)' = Exact(s)
    BY <1>1, ExactStays
  <2>7. counted' = counted /\ global' = global
    BY <1>1 DEF L!kea
  <2>8. QuietPull'
    BY <2>2, <2>3, <2>4, <2>5, <2>6, <2>7 DEF QuietPull
  <2> QED BY <1>3, <1>4, <2>8 DEF LeasesInv
<1> QED BY <1>3, <1>4, <1>5, DisturbedKeeps

LEMMA UpdateNetworksKeeps ==
  ASSUME LeasesInv, L!UpdateStatisticsInSharedNetwork
  PROVE  LeasesInv'
<1>1. /\ stage = <<"subnets", {}>> /\ stage' = <<"totals", {}>>
      /\ \/ /\ nets' = [n \in L!Networks |-> L!SumOf(counted.rows, {s \in L!Subnets : NetworkOf[s] = n})]
            /\ L!Fine
         \/ L!Fails /\ UNCHANGED nets
      /\ UNCHANGED L!kea /\ UNCHANGED <<local, stats, totals, counted>>
  BY DEF L!UpdateStatisticsInSharedNetwork
<1>2. LeasesTypes'
  <2>1. DOMAIN stats' = L!Subnets /\ (L!Fine \/ L!Fails)
    BY <1>1 DEF LeasesInv, LeasesTypes
  <2> QED BY <1>1, <2>1, PullerTypes DEF LeasesInv
<1>3. HooklessAreEmpty'
  BY <1>1 DEF LeasesInv, HooklessAreEmpty, L!kea
<1>4. CASE quiet'
  <2>1. /\ quiet
        /\ nets' = [n \in L!Networks |-> L!SumOf(counted.rows, {s \in L!Subnets : NetworkOf[s] = n})]
    BY <1>1, <1>4, Zenon DEF L!Fine, L!Fails
  <2>2. stage[1] = "subnets" /\ stage[2] = {} /\ stage'[1] = "totals" /\ stage'[2] = {}
    BY <1>1
  <2>3. /\ counted.global = global /\ \A s \in L!Subnets : counted.rows[s] = Exact(s)
        /\ \A s \in L!Subnets : stats[s] = Exact(s)
    BY <2>1, <2>2 DEF LeasesInv, QuietPull
  <2>4. ASSUME NEW n \in L!Networks
        PROVE  L!Is(nets'[n], {s \in L!Subnets : NetworkOf[s] = n}, 0)
    <3> DEFINE xs == {s \in L!Subnets : NetworkOf[s] = n}
               cs == counted.rows
    <3>1. xs \in SUBSET L!Subnets /\ \A s \in xs : cs[s] = Exact(s)
      BY <2>3
    <3>2. nets'[n] = L!SumOf(cs, xs)
      BY <2>1
    <3> HIDE DEF xs, cs
    <3>3. L!Is(L!SumOf(cs, xs), xs, 0)
      BY <3>1, SumIsExact DEF LeasesInv
    <3> QED BY <3>2, <3>3 DEF xs
  <2>5. L!StatisticsAreExact'
    BY <2>2 DEF L!StatisticsAreExact
  <2>6. /\ \A s : Exact(s)' = Exact(s)
        /\ \A cs, xs, n : L!Is(cs, xs, n)' <=> L!Is(cs, xs, n)
    BY <1>1, ExactStays
  <2>7. counted' = counted /\ global' = global /\ stats' = stats
    BY <1>1 DEF L!kea
  <2>8. \A n \in L!Networks : L!Is(nets[n], {s \in L!Subnets : NetworkOf[s] = n}, 0)'
    BY <2>4, <2>6
  <2>9. QuietPull'
    BY <2>2, <2>3, <2>5, <2>6, <2>7, <2>8 DEF QuietPull
  <2> QED BY <1>2, <1>3, <2>9 DEF LeasesInv
<1> QED BY <1>2, <1>3, <1>4, DisturbedKeeps

LEMMA SetStatsKeeps ==
  ASSUME LeasesInv, L!SetStats
  PROVE  LeasesInv'
<1> DEFINE six == L!SumOf(counted.rows, Subnets6)
<1>1. /\ stage[1] = "totals" /\ stage' = <<"idle", {}>>
      /\ \/ /\ totals' = [f \in {4, 6} |->
                 IF f = 4 THEN L!SumOf(counted.rows, Subnets4)
                 ELSE [six EXCEPT !.total = L!Add(@, L!Small(counted.global))]]
            /\ L!Fine
         \/ L!Fails /\ UNCHANGED totals
      /\ UNCHANGED L!kea /\ UNCHANGED <<local, stats, nets>>
  BY DEF L!SetStats
<1>2. LeasesTypes'
  <2>1. DOMAIN stats' = L!Subnets /\ (L!Fine \/ L!Fails)
    BY <1>1 DEF LeasesInv, LeasesTypes
  <2> QED BY <1>1, <2>1, PullerTypes DEF LeasesInv
<1>3. HooklessAreEmpty'
  BY <1>1 DEF LeasesInv, HooklessAreEmpty, L!kea
<1>4. CASE quiet'
  <2>1. /\ quiet
        /\ totals' = [f \in {4, 6} |->
             IF f = 4 THEN L!SumOf(counted.rows, Subnets4)
             ELSE [six EXCEPT !.total = L!Add(@, L!Small(counted.global))]]
    BY <1>1, <1>4, Zenon DEF L!Fine, L!Fails
  <2>2. stage[2] = {} /\ stage'[1] = "idle"
    BY <1>1 DEF LeasesInv, LeasesTypes
  <2>3. /\ counted.global = global /\ \A s \in L!Subnets : counted.rows[s] = Exact(s)
        /\ \A s \in L!Subnets : stats[s] = Exact(s)
        /\ \A n \in L!Networks : L!Is(nets[n], {s \in L!Subnets : NetworkOf[s] = n}, 0)
    BY <1>1, <2>1, <2>2 DEF LeasesInv, QuietPull
  <2>4. L!Is(totals'[4], Subnets4, 0) /\ L!Is(totals'[6], Subnets6, global)
    <3> DEFINE cs == counted.rows
    <3>1. /\ Subnets4 \in SUBSET L!Subnets /\ \A s \in Subnets4 : cs[s] = Exact(s)
          /\ Subnets6 \in SUBSET L!Subnets /\ \A s \in Subnets6 : cs[s] = Exact(s)
      BY <2>3 DEF L!Subnets
    <3>2. /\ totals'[4] = L!SumOf(cs, Subnets4)
          /\ totals'[6] = [L!SumOf(cs, Subnets6) EXCEPT !.total = L!Add(@, L!Small(global))]
      BY <2>1, <2>3
    <3>3. global \in Nat /\ global <= MaxUint
      <4>1. /\ global \in Nat /\ global <= 1 + leaseChanges /\ leaseChanges \in 0..MaxLeased
            /\ MaxLeased \in Nat /\ MaxUint \in Nat /\ 1 + MaxLeased <= MaxUint
        BY LeasesAssumption DEF L!LeasesAssumption, LeasesInv, LeasesTypes
      <4> QED BY <4>1
    <3> HIDE DEF cs
    <3>4. L!Is(L!SumOf(cs, Subnets4), Subnets4, 0)
      BY <3>1, SumIsExact DEF LeasesInv
    <3>5. L!Is([L!SumOf(cs, Subnets6) EXCEPT !.total = L!Add(@, L!Small(global))], Subnets6, global)
      BY <3>1, <3>3, SumIsExact DEF LeasesInv
    <3> QED BY <3>2, <3>4, <3>5
  <2>5. \A s \in L!Subnets : L!Is(stats[s], {s}, 0)
    BY <2>3, RowIsTrue DEF LeasesInv
  <2>6. \A cs, xs, n : L!Is(cs, xs, n)' <=> L!Is(cs, xs, n)
    BY <1>1, ExactStays
  <2>7. global' = global /\ stats' = stats /\ nets' = nets
    BY <1>1 DEF L!kea
  <2>8. L!StatisticsAreExact'
    BY <2>3, <2>4, <2>5, <2>6, <2>7 DEF L!StatisticsAreExact
  <2>9. QuietPull'
    BY <2>2, <2>8 DEF QuietPull
  <2> QED BY <1>2, <1>3, <2>9 DEF LeasesInv
<1> QED BY <1>2, <1>3, <1>4, DisturbedKeeps

LEMMA LeasesStepKeeps ==
  ASSUME LeasesInv, L!Next
  PROVE  LeasesInv'
BY LeaseChangesKeep, StartKeeps, GetStatsFromAppKeeps, CountKeeps, UpdateStatisticsKeeps, UpdateNetworksKeeps,
   SetStatsKeeps DEF L!Next

LEMMA LeasesStart == L!Init => LeasesInv
<1> SUFFICES ASSUME L!Init PROVE LeasesInv
  OBVIOUS
<1>1. MaxLeased \in Nat /\ PoolSizes \in [L!Subnets -> Nat] /\ HAPair # {}
  BY LeasesAssumption DEF L!LeasesAssumption
<1>2. LeasesTypes
  <2>1. passive \in HAPair /\ L!Daemons \ up \subseteq {passive} /\ quiet \in BOOLEAN
    BY <1>1 DEF L!Init
  <2>2. stage = <<"idle", {}>> /\ DOMAIN stats = L!Subnets
    BY DEF L!Init
  <2>3. /\ leased \in [L!Subnets -> Nat] /\ reserved \in [L!Subnets -> Nat] /\ global \in Nat
        /\ leaseChanges \in 0..MaxLeased /\ global <= 1 + leaseChanges
    BY <1>1 DEF L!Init
  <2>4. \A s \in L!Subnets : leased[s] <= PoolSizes[s] + leaseChanges /\ reserved[s] <= 1 + leaseChanges
    BY <1>1 DEF L!Init
  <2> QED BY <2>1, <2>2, <2>3, <2>4 DEF LeasesTypes
<1>3. HooklessAreEmpty
  BY DEF L!Init, HooklessAreEmpty
<1> QED BY <1>2, <1>3 DEF LeasesInv, L!Init

LEMMA LeasesStay ==
  ASSUME LeasesInv, UNCHANGED leaseVars
  PROVE  LeasesInv'
<1>1. UNCHANGED L!kea /\ UNCHANGED <<local, stats, nets, totals, stage, counted, quiet, leaseChanges>>
  BY DEF leaseVars, L!kea
<1>2. LeasesTypes' /\ HooklessAreEmpty'
  BY DEF leaseVars, LeasesInv, LeasesTypes, HooklessAreEmpty
<1>3. /\ \A s : Exact(s)' = Exact(s) /\ L!True(s)' = L!True(s)
      /\ \A cs, xs, n : L!Is(cs, xs, n)' <=> L!Is(cs, xs, n)
      /\ \A d, s : L!RowOf(d, s)' = L!RowOf(d, s)
      /\ UNCHANGED <<hooked, passive, global>>
  BY <1>1, ExactStays DEF L!kea
<1>4. QuietPull => QuietPull'
  BY <1>1, <1>3 DEF QuietPull, StoredUpTo, L!StatisticsAreExact
<1> QED BY <1>1, <1>2, <1>4 DEF LeasesInv

-----------------------------------------------------------------------------
(* The parts that run                                                      *)

\* The invariant of the part that runs, of the two that are meant here.
CountsInv ==
  /\ part = "rates" => RatesInv
  /\ part = "leases" => LeasesInv

\* Their invariants.
LEMMA CountsInvariant == PartsSpec => []CountsInv
<1>1. PartsInit => CountsInv
  BY RatesStart, LeasesStart DEF PartsInit, CountsInv
<1>2. CountsInv /\ [PartsNext]_partsVars => CountsInv'
  <2> SUFFICES ASSUME CountsInv, [PartsNext]_partsVars
               PROVE  CountsInv'
    OBVIOUS
  <2>1. UNCHANGED part
    BY DEF PartsNext, partsVars
  <2>2. /\ part = "rates" => R!Next \/ UNCHANGED ratesVars
        /\ part = "leases" => L!Next \/ UNCHANGED leaseVars
    BY Zenon DEF PartsNext, partsVars, CheckersStep, StatesStep, AccessStep, KeaExporterStep, Bind9ExporterStep,
           RatesStep, LeasesStep, SearchStep, ParametersStep, ReservationsStep, NetworksStep, FilesStep
  <2> QED BY <2>1, <2>2, RatesStepKeeps, RatesStay, LeasesStepKeeps, LeasesStay, Zenon DEF CountsInv
<1> QED BY <1>1, <1>2, PTL DEF PartsSpec

\* The responses shown for an interval are not more than Kea sent in it, and the rows of the
\* table do not overlap.
THEOREM RatesAreTrueAlways == PartsSpec => []RatesAreTrue
<1>1. CountsInv => RatesAreTrue
  BY RatesHeld DEF CountsInv, RatesAreTrue
<1> QED BY <1>1, CountsInvariant, PTL

\* After a pull that nothing disturbed the statistics of subnets and networks and the totals are exact.
THEOREM StatisticsAreExactAlways == PartsSpec => []StatisticsAreExact
<1>1. CountsInv => StatisticsAreExact
  <2>1. ASSUME LeasesInv PROVE L!StatisticsAreExact
    BY <2>1, Zenon DEF LeasesInv, QuietPull, L!StatisticsAreExact
  <2> QED BY <2>1 DEF CountsInv, StatisticsAreExact
<1> QED BY <1>1, CountsInvariant, PTL
=============================================================================
