--------------------------- MODULE ZoneInventory ---------------------------
(***************************************************************************)
(* The zone inventory of a Stork agent (backend/agent/zoneinventory.go):   *)
(* the state machine that keeps the zones of one monitored DNS server and  *)
(* hands them out to the Stork server.  Three kinds of actors share it:    *)
(*                                                                         *)
(*   - the application monitor, which starts to populate an inventory that *)
(*     is not ready on every detection tick (agent/monitor.go);            *)
(*   - the background goroutines that populate or load the inventory;      *)
(*   - the gRPC handlers of ReceiveZones (agent/agent.go), each of them    *)
(*     reading an unbuffered channel fed by a producer goroutine.          *)
(*                                                                         *)
(* A zone is an element of Zones; the views, the order in which a view     *)
(* lists its zones (module ZoneFetch has both) and the files of the disk   *)
(* storage are abstracted.                                                 *)
(***************************************************************************)
EXTENDS Integers, FiniteSets

CONSTANTS
  Calls,        \* ReceiveZones gRPC calls that may be in flight together
  Zones,        \* zones the DNS server may be configured with
  NoViews,      \* the nil *bind9stats.Views of an empty memory storage
  StorageKinds  \* zoneInventoryStorage implementations an inventory may be given

ASSUME StorageAssumption == StorageKinds \subseteq {"memory", "disk", "memoryDisk"}
ASSUME NoViewsAssumption == \A Z \in SUBSET Zones : Z # NoViews
ASSUME ZonesAssumption == IsFiniteSet(Zones)

VARIABLES
  state,        \* inventory.state
  kind,         \* which zoneInventoryStorage implementation is in use
  views,        \* what storage.getViewsIterator yields
  monitor,      \* the monitor, between its isReady() check and populate()
  populateTask, \* goroutine started by populate()
  fetched,      \* the views that goroutine got from the DNS server
  loadTask,     \* goroutine started by load()
  call,         \* the gRPC handlers
  outcome,      \* how the last run of each handler ended
  producer,     \* goroutine started by receiveZones()
  left,         \* zones the producer's iterator has not yielded yet
  taken,        \* zones the handler got from the channel
  total         \* totalZoneCount, counted before the stream starts

storageVars  == <<kind, views, fetched>>
taskVars     == <<monitor, populateTask, loadTask>>
streamVars   == <<call, outcome, producer, left, taken, total>>
vars == <<state, storageVars, taskVars, streamVars>>

-----------------------------------------------------------------------------
(* The states of the inventory and how they are classified.                *)

StateNames ==
  {"INITIAL", "LOADING", "LOADED", "LOADING_ERRED", "POPULATING", "POPULATED",
   "POPULATING_ERRED", "RECEIVING_ZONES", "RECEIVED_ZONES"}

isLongLasting(s) == s \in {"LOADING", "POPULATING", "RECEIVING_ZONES"}
isReady(s)       == s \in {"LOADED", "POPULATED", "RECEIVED_ZONES"}
isErred(s)       == s \in {"LOADING_ERRED", "POPULATING_ERRED"}

\* Mutated form: the current state is not consulted.
CanTransitionAlways(new) == TRUE

\* transitionUnsafe refuses a long lasting operation while another one runs.
CanTransition(new) == ~(isLongLasting(state) /\ isLongLasting(new))

HasDisk == kind # "memory"

\* Iterating over nil views yields nothing.
Stored == IF views = NoViews THEN {} ELSE views

\* wg.Wait() in awaitBackgroundTasks returns: no populate or load goroutine.
BackgroundTasksDone == populateTask = "none" /\ loadTask = "none"

Init ==
  /\ state = "INITIAL"
  /\ kind \in StorageKinds
  /\ IF kind = "disk" THEN views \in SUBSET Zones ELSE views = NoViews
  /\ monitor = "idle"
  /\ populateTask = "none"
  /\ fetched = {}
  /\ loadTask = "none"
  /\ call = [c \in Calls |-> "idle"]
  /\ outcome = [c \in Calls |-> "none"]
  /\ producer = [c \in Calls |-> "none"]
  /\ left = [c \in Calls |-> {}]
  /\ taken = [c \in Calls |-> {}]
  /\ total = [c \in Calls |-> 0]

-----------------------------------------------------------------------------
(* The application monitor.  A tick first waits for the background tasks   *)
(* of every known application, then checks isReady() and calls populate(): *)
(* the check and the call lock the inventory separately.                   *)

\* Mutated form: an inventory that failed to populate is given up.
MonitorCheckOnce ==
  /\ monitor = "idle" /\ BackgroundTasksDone /\ state = "INITIAL"
  /\ monitor' = "populate"
  /\ UNCHANGED <<state, storageVars, populateTask, loadTask, streamVars>>

MonitorCheck ==
  /\ monitor = "idle"
  /\ BackgroundTasksDone
  /\ ~isReady(state)
  /\ monitor' = "populate"
  /\ UNCHANGED <<state, storageVars, populateTask, loadTask, streamVars>>

MonitorPopulate ==
  /\ monitor = "populate"
  /\ monitor' = "idle"
  /\ \/ /\ CanTransition("POPULATING")
        /\ state' = "POPULATING"
        /\ populateTask' = "fetching"
     \/ /\ ~CanTransition("POPULATING")      \* zoneInventoryBusyError
        /\ UNCHANGED <<state, populateTask>>
  /\ UNCHANGED <<storageVars, loadTask, streamVars>>

-----------------------------------------------------------------------------
(* The goroutine of populate().                                            *)

PopulateFetch ==
  /\ populateTask = "fetching"
  /\ \/ /\ fetched' \in SUBSET Zones
        /\ populateTask' = "saving"
     \/ /\ populateTask' = "failed"          \* no answer or an error status
        /\ UNCHANGED fetched
  /\ UNCHANGED <<state, kind, views, monitor, loadTask, streamVars>>

\* What a save that ends without an error may leave in each kind of storage.
\* The disk storage drops the error of a view it could not recreate.
SavedViews ==
  IF kind = "disk" THEN SUBSET (views \cup fetched) ELSE {fetched}

PopulateSave ==
  /\ populateTask = "saving"
  /\ views' \in SavedViews
  /\ populateTask' = "saved"
  /\ UNCHANGED <<state, kind, fetched, monitor, loadTask, streamVars>>

\* Only the disk part of a storage can fail; memory is written after it.
PopulateSaveFails ==
  /\ populateTask = "saving"
  /\ HasDisk
  /\ views' \in IF kind = "disk" THEN SavedViews ELSE {views}
  /\ populateTask' = "failed"
  /\ UNCHANGED <<state, kind, fetched, monitor, loadTask, streamVars>>

PopulateEnd ==
  /\ populateTask \in {"saved", "failed"}
  /\ state' = IF populateTask = "saved" THEN "POPULATED" ELSE "POPULATING_ERRED"
  /\ populateTask' = "none"
  /\ fetched' = {}
  /\ UNCHANGED <<kind, views, monitor, loadTask, streamVars>>

-----------------------------------------------------------------------------
(* load(): reads the zones kept by an earlier run of the agent.  Today's   *)
(* agent gives memory storages to its inventories, and only tests use the  *)
(* others.  A disk storage without metadata panics and so never gets here. *)

LoadBegin ==
  /\ HasDisk
  /\ CanTransition("LOADING")
  /\ state' = "LOADING"
  /\ loadTask' = "loading"
  /\ UNCHANGED <<storageVars, monitor, populateTask, streamVars>>

LoadEnd ==
  /\ loadTask = "loading"
  /\ loadTask' = "none"
  /\ \/ /\ state' = "LOADED"
        /\ views' \in IF kind = "disk" THEN {views} ELSE SUBSET Zones
     \/ /\ state' = "LOADING_ERRED"
        /\ UNCHANGED views
  /\ UNCHANGED <<kind, fetched, monitor, populateTask, streamVars>>

-----------------------------------------------------------------------------
(* The gRPC handler of ReceiveZones and receiveZones().                    *)

MayReceive == state # "INITIAL" /\ ~isErred(state)

ReceiveBegin(c) ==
  /\ call[c] = "idle" /\ producer[c] = "none"
  /\ taken' = [taken EXCEPT ![c] = {}]
  /\ total' = [total EXCEPT ![c] = 0]
  /\ \/ /\ ~MayReceive
        /\ outcome' = [outcome EXCEPT ![c] = "notInited"]
        /\ UNCHANGED <<state, call>>
     \/ /\ MayReceive /\ ~CanTransition("RECEIVING_ZONES")
        /\ outcome' = [outcome EXCEPT ![c] = "busy"]
        /\ UNCHANGED <<state, call>>
     \/ /\ MayReceive /\ CanTransition("RECEIVING_ZONES")
        /\ state' = "RECEIVING_ZONES"
        /\ call' = [call EXCEPT ![c] = "counting"]
        /\ outcome' = [outcome EXCEPT ![c] = "none"]
  /\ UNCHANGED <<storageVars, taskVars, producer, left>>

CountZones(c) ==
  /\ call[c] = "counting"
  /\ total' = [total EXCEPT ![c] = Cardinality(Stored)]
  /\ call' = [call EXCEPT ![c] = "waiting"]
  /\ producer' = [producer EXCEPT ![c] = "starting"]
  /\ UNCHANGED <<state, storageVars, taskVars, outcome, left, taken>>

\* Listing a view directory fails: receiveZones returns the error, and the
\* state it has already entered is not left.
CountZonesFails(c) ==
  /\ kind = "disk"
  /\ call[c] = "counting"
  /\ call' = [call EXCEPT ![c] = "idle"]
  /\ outcome' = [outcome EXCEPT ![c] = "failed"]
  /\ UNCHANGED <<state, storageVars, taskVars, producer, left, taken, total>>

\* The handler is in server.Send when it is "sending".
SendOk(c) ==
  /\ call[c] = "sending"
  /\ call' = [call EXCEPT ![c] = "waiting"]
  /\ UNCHANGED <<state, storageVars, taskVars, outcome, producer, left, taken, total>>

\* The stream is broken: the handler returns and no longer reads the channel.
SendFails(c) ==
  /\ call[c] = "sending"
  /\ call' = [call EXCEPT ![c] = "idle"]
  /\ outcome' = [outcome EXCEPT ![c] = "aborted"]
  /\ taken' = [taken EXCEPT ![c] = {}]
  /\ UNCHANGED <<state, storageVars, taskVars, producer, left, total>>

\* The handler finds the channel closed.
ReceiveEnd(c) ==
  /\ call[c] = "waiting" /\ producer[c] = "none"
  /\ call' = [call EXCEPT ![c] = "idle"]
  /\ outcome' = [outcome EXCEPT ![c] = "ok"]
  /\ UNCHANGED <<state, storageVars, taskVars, producer, left, taken, total>>

-----------------------------------------------------------------------------
(* The producer goroutine of receiveZones().  Its context is the           *)
(* background context of the handler, which is never cancelled.            *)

ProducerStart(c) ==
  /\ producer[c] = "starting"
  /\ left' = [left EXCEPT ![c] = Stored]
  /\ producer' = [producer EXCEPT ![c] = "streaming"]
  /\ UNCHANGED <<state, storageVars, taskVars, call, outcome, taken, total>>

\* The rendezvous on the unbuffered channel.
Produce(c) ==
  /\ producer[c] = "streaming" /\ call[c] = "waiting"
  /\ \E z \in left[c] :
       /\ left' = [left EXCEPT ![c] = @ \ {z}]
       /\ taken' = [taken EXCEPT ![c] = @ \cup {z}]
  /\ call' = [call EXCEPT ![c] = "sending"]
  /\ UNCHANGED <<state, storageVars, taskVars, outcome, producer, total>>

\* The file of a zone or the directory of a view cannot be read: the iterator
\* yields one error for these zones, and the handler skips the erred result.
ProduceError(c) ==
  /\ kind = "disk"
  /\ producer[c] = "streaming" /\ call[c] = "waiting"
  /\ \E Z \in (SUBSET left[c]) \ {{}} : left' = [left EXCEPT ![c] = @ \ Z]
  /\ UNCHANGED <<state, storageVars, taskVars, call, outcome, producer, taken, total>>

\* Mutated form: the loop over the views is left too early.
ProducerEndEarly(c) ==
  /\ producer[c] = "streaming"
  /\ state' = "RECEIVED_ZONES"
  /\ producer' = [producer EXCEPT ![c] = "closing"]
  /\ UNCHANGED <<storageVars, taskVars, call, outcome, left, taken, total>>

\* Mutated form: no transition after the last zone.
ProducerEndSilently(c) ==
  /\ producer[c] = "streaming" /\ left[c] = {}
  /\ producer' = [producer EXCEPT ![c] = "closing"]
  /\ UNCHANGED <<state, storageVars, taskVars, call, outcome, left, taken, total>>

ProducerEnd(c) ==
  /\ producer[c] = "streaming" /\ left[c] = {}
  /\ state' = "RECEIVED_ZONES"
  /\ producer' = [producer EXCEPT ![c] = "closing"]
  /\ UNCHANGED <<storageVars, taskVars, call, outcome, left, taken, total>>

ProducerClose(c) ==
  /\ producer[c] = "closing"
  /\ producer' = [producer EXCEPT ![c] = "none"]
  /\ UNCHANGED <<state, storageVars, taskVars, call, outcome, left, taken, total>>

-----------------------------------------------------------------------------

Monitor  == MonitorCheck \/ MonitorPopulate
Populate == PopulateFetch \/ PopulateSave \/ PopulateSaveFails \/ PopulateEnd
Load     == LoadBegin \/ LoadEnd
Handler(c) ==
  \/ ReceiveBegin(c) \/ CountZones(c) \/ CountZonesFails(c)
  \/ SendOk(c) \/ SendFails(c) \/ ReceiveEnd(c)
Producer(c) ==
  \/ ProducerStart(c) \/ Produce(c) \/ ProduceError(c)
  \/ ProducerEnd(c) \/ ProducerClose(c)

Next ==
  \/ Monitor
  \/ Populate
  \/ Load
  \/ \E c \in Calls : Handler(c) \/ Producer(c)

Spec == Init /\ [][Next]_vars

(***************************************************************************)
(* The scheduler runs every goroutine that can run.  That PopulateFetch is *)
(* fair means that the DNS server answers or refuses the connection; that  *)
(* SendOk \/ SendFails is fair means that gRPC delivers or breaks the      *)
(* stream.  Nobody has to call ReceiveZones or load().                     *)
(***************************************************************************)
Fairness ==
  /\ WF_vars(MonitorCheck) /\ WF_vars(MonitorPopulate)
  /\ WF_vars(Populate)
  /\ WF_vars(LoadEnd)
  /\ \A c \in Calls :
       /\ WF_vars(CountZones(c) \/ CountZonesFails(c))
       /\ WF_vars(SendOk(c) \/ SendFails(c))
       /\ WF_vars(ReceiveEnd(c))
       /\ WF_vars(Producer(c))

FairSpec == Spec /\ Fairness

-----------------------------------------------------------------------------
(* Properties.                                                             *)

TypeOK ==
  /\ state \in StateNames
  /\ kind \in StorageKinds
  /\ views = NoViews \/ views \in SUBSET Zones
  /\ monitor \in {"idle", "populate"}
  /\ populateTask \in {"none", "fetching", "saving", "saved", "failed"}
  /\ fetched \in SUBSET Zones
  /\ loadTask \in {"none", "loading"}
  /\ call \in [Calls -> {"idle", "counting", "waiting", "sending"}]
  /\ outcome \in [Calls -> {"none", "ok", "notInited", "busy", "failed", "aborted"}]
  /\ producer \in [Calls -> {"none", "starting", "streaming", "closing"}]
  /\ left \in [Calls -> SUBSET Zones]
  /\ taken \in [Calls -> SUBSET Zones]
  /\ total \in [Calls -> Nat]

\* The call has entered RECEIVING_ZONES and its producer has not left it.
Receiving(c) == call[c] = "counting" \/ producer[c] \in {"starting", "streaming"}

\* At most one long lasting operation is in progress, and the state names it:
\* what transitionUnsafe is there to guarantee for the monitor, the background
\* goroutines and the concurrent ReceiveZones handlers.
OneLongLastingOperation ==
  /\ populateTask # "none" => state = "POPULATING"
  /\ loadTask # "none" => state = "LOADING"
  /\ \A c \in Calls : Receiving(c) => state = "RECEIVING_ZONES"
  /\ \A c, d \in Calls : Receiving(c) /\ Receiving(d) => c = d

\* A stream is a snapshot: what was taken and what is left are together the
\* views that were there when the zones were counted, whatever the monitor
\* does meanwhile (the second getViewsIterator of receiveZones re-reads them).
StreamIsSnapshot ==
  \A c \in Calls :
    /\ producer[c] \in {"starting", "streaming"} => total[c] = Cardinality(Stored)
    /\ producer[c] = "streaming" =>
         /\ left[c] \cap taken[c] = {}
         /\ left[c] \cup taken[c] \subseteq Stored
         /\ kind = "disk" \/ call[c] = "idle" \/ left[c] \cup taken[c] = Stored

\* A call that ends without an error has delivered as many zones as the
\* TotalZoneCount it announced with each of them (memory storages).
OkStreamIsComplete ==
  \A c \in Calls :
    outcome[c] = "ok" /\ kind # "disk" => Cardinality(taken[c]) = total[c]

\* What the phases of a call and of its producer say about the zones it took.
StreamPhases ==
  \A c \in Calls :
    /\ call[c] = "counting" => producer[c] = "none" /\ taken[c] = {}
    /\ producer[c] = "starting" => call[c] = "waiting" /\ taken[c] = {}
    /\ outcome[c] = "ok" => call[c] = "idle"
    /\ call[c] \in {"waiting", "sending"} /\ producer[c] \in {"closing", "none"}
         /\ kind # "disk" => Cardinality(taken[c]) = total[c]

\* When the storage certainly holds views.
ViewsPhases ==
  kind = "disk" \/ populateTask = "saved" \/ isReady(state) \/ state = "RECEIVING_ZONES"
    => views # NoViews

\* The inductive invariant of the proofs.
IInv ==
  /\ TypeOK
  /\ OneLongLastingOperation
  /\ StreamPhases
  /\ StreamIsSnapshot
  /\ OkStreamIsComplete
  /\ ViewsPhases

\* An inventory that lets a call in has views to hand out: receiveZones refuses
\* INITIAL and the erred states only.
ServesOnlyStoredViews ==
  isReady(state) \/ state = "RECEIVING_ZONES" => views # NoViews

\* The stored zones are replaced under the POPULATING or the LOADING state, and
\* the call that starts a stream sees them all or none of the replacement.
ViewsReplacedExclusively ==
  [][views' # views => state \in {"POPULATING", "LOADING"} /\ state' # "RECEIVING_ZONES"]_vars

FailureIsRetried == state \in {"INITIAL", "POPULATING_ERRED"} ~> state # "INITIAL" /\ ~isErred(state)

\* While no handler gives up on its stream, a stream that begins ends.
StreamEnds ==
  [](\A c \in Calls : outcome[c] \notin {"aborted", "failed"})
    => (state = "RECEIVING_ZONES" ~> state # "RECEIVING_ZONES")

=============================================================================
