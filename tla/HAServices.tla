----------------------------- MODULE HAServices -----------------------------
(***************************************************************************)
(* High availability (HA) services of Kea in the database.  An update of   *)
(* an application detects the services its DHCP daemon belongs to and      *)
(* stores them (server/apps/kea/service.go, server/apps/kea/appkea.go); the*)
(* status puller asks the daemons for their state and that of their        *)
(* partner (server/apps/kea/status.go).  Both read rows of services, work  *)
(* on them and write them back whole.  The statistics puller leaves out    *)
(* the daemons that the rows say are passive                               *)
(* (server/database/model/service.go), and users are shown the rows        *)
(* (server/restservice/machines.go).                                       *)
(*                                                                         *)
(* There is one HA relationship of two servers; each is the DHCP daemon of *)
(* an application with a control agent (CA).  The servers' own states are  *)
(* external.  Only updates of the state puller are here, one after another.*)
(***************************************************************************)
EXTENDS Integers, FiniteSets

CONSTANTS
  Primary, Secondary,  \* the servers
  Unmonitored,         \* servers whose machines are authorized later
  MaxChanges           \* bound: changes of servers and of what is monitored, and failures of
                       \* communication

Servers == {Primary, Secondary}

\* The module that is checked assumes it.
ServersAssumption ==
  /\ Primary # Secondary /\ Unmonitored \subseteq Servers
  /\ MaxChanges \in Nat

VARIABLES
  kea,        \* of each server: whether its CA runs and it is up, its configuration,
              \* its HA state and the state it last heard from its partner
  monitored,  \* servers whose machines are authorized
  stored,     \* database: the configuration of each server, "unknown" before the first
  active,     \* database: the servers that answered when they were last updated
  services,   \* database: the services
  update,     \* the state puller: the server it updates, what it found of it, and the
              \* service it has detected
  pull,       \* the status puller: the application it asks, its copy of the applications
              \* (those there are, those whose server is active), and its copies of services
  changes

machine == <<kea, monitored>>
vars == <<machine, stored, active, services, update, pull, changes>>

Partner(s) == IF s = Primary THEN Secondary ELSE Primary
States == {"waiting", "normal", "partner-down", "unavailable"}
Configs == {"ha", "none"}

\* known: the partners whose numbers the row has (primary_id, secondary_id); last, reach:
\* last state and reachable.  Times are left out.
NewService ==
  [id |-> 0, known |-> {}, daemons |-> {},
   last |-> [s \in Servers |-> "none"], reach |-> [s \in Servers |-> FALSE]]

NoPull == [at |-> Primary, pc |-> "idle", apps |-> {}, active |-> {}, copies |-> {}]

Init ==
  /\ kea = [s \in Servers |-> [ca |-> TRUE, up |-> TRUE, config |-> "ha", state |-> "waiting",
                               heard |-> "unavailable"]]
  /\ monitored = Servers \ Unmonitored
  /\ stored = [s \in Servers |-> "unknown"]
  /\ active = {}
  /\ services = {}
  /\ update = [at |-> Primary, pc |-> "idle", config |-> "none", changed |-> FALSE,
               active |-> FALSE, row |-> NewService]
  /\ pull = NoPull
  /\ changes = 0

-----------------------------------------------------------------------------
(* The servers                                                             *)

\* It takes part in HA.
Talks(s) == kea[s].up /\ kea[s].config # "none"

Change(s) ==
  /\ changes < MaxChanges /\ changes' = changes + 1
  /\ \/ kea' = [kea EXCEPT ![s].ca = ~@]
     \/ kea' = [kea EXCEPT ![s].up = ~@, ![s].state = "waiting", ![s].heard = "unavailable"]
     \/ \E c \in Configs \ {kea[s].config} :
          kea' = [kea EXCEPT ![s].config = c, ![s].state = "waiting", ![s].heard = "unavailable"]
  /\ UNCHANGED <<monitored, stored, active, services, update, pull>>

Heartbeat(s) ==
  /\ Talks(s)
  /\ kea' = [kea EXCEPT ![s].heard = IF Talks(Partner(s)) THEN kea[Partner(s)].state
                                     ELSE "unavailable"]
  /\ UNCHANGED <<monitored, stored, active, services, update, pull, changes>>

Transition(s) ==
  LET k == kea[s]
      to == CASE k.heard = "unavailable" -> "partner-down"
              [] k.heard = "partner-down" /\ k.state = "partner-down" -> "waiting"
              [] k.heard # "unavailable" /\ k.state = "waiting" -> "normal"
              [] k.heard = "normal" -> "normal"
              [] OTHER -> k.state
  IN
  /\ Talks(s) /\ to # k.state
  /\ kea' = [kea EXCEPT ![s].state = to]
  /\ UNCHANGED <<monitored, stored, active, services, update, pull, changes>>

Authorize ==
  /\ changes < MaxChanges /\ changes' = changes + 1
  /\ \E s \in Servers \ monitored : monitored' = monitored \cup {s}
  /\ UNCHANGED <<kea, stored, active, services, update, pull>>

-----------------------------------------------------------------------------
(* The statistics puller                                                   *)

Operational(row, s) == row.last[s] \in {"normal", "partner-down"} /\ row.reach[s]

\* Of each service, the server whose statistics are left out.
PassiveHADaemons(rows) ==
  {IF Operational(r, Primary) \/ ~Operational(r, Secondary)
   THEN Secondary ELSE Primary : r \in rows}

Passive(rows) ==
  {s \in Servers : \E r \in rows : s \in PassiveHADaemons({r}) /\ s \in r.known}

-----------------------------------------------------------------------------
(* The state puller                                                        *)

\* Mutated form: only the service that has the server's own name.
MatchingOwn(s, rows) == {r \in rows : r.daemons # {} /\ r.known = {s}}

\* Services of the relationship; one without daemons would be passed over.
Matching(s, rows) == {r \in rows : r.daemons # {}}

\* The first match, or a new service, with the number of the server.
Detected(s, rows) ==
  LET m == Matching(s, rows)
      row == IF m = {} THEN NewService ELSE CHOOSE r \in m : \A q \in m : r.id <= q.id
  IN [row EXCEPT !.known = @ \cup {s}]

\* A trigger of the database: when an association is deleted, so is a service that has no other.
wipe_dangling_service(rows) == {r \in rows : r.daemons # {}}

Without(s, rows) == wipe_dangling_service({[r EXCEPT !.daemons = @ \ {s}] : r \in rows})

\* What the update finds.  A server that is not up keeps its stored configuration, and so
\* does one whose CA does not answer, but then nothing counts as unchanged.
Found(s) ==
  IF kea[s].ca /\ kea[s].up
  THEN [config |-> kea[s].config, changed |-> kea[s].config # stored[s], active |-> TRUE]
  ELSE [config |-> stored[s], changed |-> ~kea[s].ca, active |-> FALSE]

\* The transaction deletes the associations of a changed daemon and reads the services.
DetectHAServices ==
  LET s == update.at
      f == Found(s)
  IN
  /\ update.pc = "idle"
  /\ IF s \in monitored /\ f.config # "unknown"
     THEN update' = [update EXCEPT !.pc = "commit", !.config = f.config, !.changed = f.changed,
                       !.active = f.active,
                       !.row = Detected(s, IF f.changed THEN Without(s, services) ELSE services)]
     ELSE update' = [update EXCEPT !.at = Partner(s)]
  /\ UNCHANGED <<machine, stored, active, services, pull, changes>>

Ids(rows) == {r.id : r \in rows}
FreeId == CHOOSE i \in 1..5 : /\ i \notin Ids(services \cup pull.copies)
                              /\ \A j \in 1..(i - 1) : j \in Ids(services \cup pull.copies)

\* The detected service as it was read, and the association.
Committed(s, rows) ==
  LET row == IF update.row.id = 0 THEN [update.row EXCEPT !.id = FreeId] ELSE update.row
      kept == {r \in rows : r.id = row.id}
  IN IF update.config = "none" THEN rows
     ELSE (rows \ kept) \cup {[row EXCEPT !.daemons = {s} \cup UNION {r.daemons : r \in kept}]}

CommitServices ==
  LET s == update.at IN
  /\ update.pc = "commit"
  /\ stored' = [stored EXCEPT ![s] = update.config]
  /\ active' = IF update.active THEN active \cup {s} ELSE active \ {s}
  /\ services' = Committed(s, IF update.changed THEN Without(s, services) ELSE services)
  /\ update' = [at |-> Partner(s), pc |-> "idle", config |-> "none", changed |-> FALSE,
                active |-> FALSE, row |-> NewService]
  /\ UNCHANGED <<machine, pull, changes>>

-----------------------------------------------------------------------------
(* The status puller                                                       *)

\* Until it answers, nothing is known of the server.
Reset(row, s) ==
  IF s \in row.known THEN [row EXCEPT !.last[s] = "unavailable", !.reach[s] = FALSE] ELSE row

\* The applications are read once in a round, the services of each when it is its turn.
pullData ==
  IF pull.at = Primary
  THEN [pull EXCEPT !.apps = {s \in Servers : stored[s] # "unknown"}, !.active = active]
  ELSE pull

\* The next application, or the next round.
NextApp(round) ==
  IF round.at = Primary THEN [round EXCEPT !.at = Secondary, !.pc = "idle", !.copies = {}]
  ELSE NoPull

ReadServices ==
  LET s == pull.at
      round == pullData
      mine == {r \in services : s \in r.daemons \cap round.apps}
  IN
  /\ pull.pc = "idle"
  /\ IF mine = {} THEN pull' = NextApp(round)
     ELSE pull' = [round EXCEPT !.pc = "ask", !.copies = {Reset(r, s) : r \in mine}]
  /\ UNCHANGED <<machine, stored, active, services, update, changes>>

\* The server's state and what it has heard from its partner, if it is asked and says so:
\* only servers that are active are asked, a server that is not up is an error in the CA's
\* answer, and one without HA says nothing of it.
NoStatus == [own |-> "none", partner |-> "none"]
getDHCPStatus(s) ==
  IF s \in pull.active /\ Talks(s) THEN [own |-> kea[s].state, partner |-> kea[s].heard]
  ELSE NoStatus

\* Mutated form: the partner's state is taken only if there is one.
UpdatedIfInTouch(row, s, status) ==
  LET p == Partner(s) IN
  [row EXCEPT !.last[s] = status.own, !.reach[s] = TRUE,
              !.last[p] = IF status.partner = "unavailable" THEN @ ELSE status.partner,
              !.reach[p] = @ \/ status.partner # "unavailable"]

UpdateHAServiceStatus(row, s, status) ==
  LET p == Partner(s) IN
  [row EXCEPT !.last[s] = status.own, !.reach[s] = TRUE,
              !.last[p] = status.partner, !.reach[p] = (status.partner # "unavailable")]

\* Rows are written whole, but not their associations.
Written(copies) ==
  {IF r.id \in Ids(copies) THEN [(CHOOSE c \in copies : c.id = r.id) EXCEPT !.daemons = r.daemons]
   ELSE r : r \in services}

\* Without an answer from the CA, the copies are forgotten.
PullDataForApp ==
  LET s == pull.at IN
  /\ pull.pc = "ask"
  /\ \/ /\ kea[s].ca
        /\ LET status == getDHCPStatus(s) IN
           services' = Written({IF status # NoStatus /\ s \in c.known
                                THEN UpdateHAServiceStatus(c, s, status) ELSE c :
                                  c \in pull.copies})
        /\ UNCHANGED changes
     \/ /\ IF kea[s].ca THEN changes < MaxChanges /\ changes' = changes + 1
           ELSE UNCHANGED changes
        /\ UNCHANGED services
  /\ pull' = NextApp(pull)
  /\ UNCHANGED <<machine, stored, active, update>>

-----------------------------------------------------------------------------
(* What users are shown                                                    *)

GetDetailedServicesByAppID(s) == {r \in services : s \in r.daemons}

\* For each of the server's services: which servers there are, their applications, states
\* and whether they are in touch.
getKeaServicesStatus(s) ==
  {[servers |-> r.known, apps |-> r.known \cap r.daemons, state |-> r.last, inTouch |-> r.reach] :
    r \in GetDetailedServicesByAppID(s)}

\* In the overview of all DHCP servers there is one state for each service of a server.
GetDaemonHAState(r, s) == IF s \in r.known THEN r.last[s] ELSE "none"
GetDhcpOverview(s) == {GetDaemonHAState(r, s) : r \in GetDetailedServicesByAppID(s)}

-----------------------------------------------------------------------------

Next ==
  \/ \E s \in Servers : Change(s) \/ Heartbeat(s) \/ Transition(s)
  \/ Authorize
  \/ DetectHAServices \/ CommitServices
  \/ ReadServices \/ PullDataForApp

Spec == Init /\ [][Next]_vars

\* Failures are bounded.  Servers send heartbeats; the pullers' timers tick, and every
\* request has a timeout.
FairSpec ==
  /\ Spec
  /\ \A s \in Servers : WF_vars(Heartbeat(s)) /\ WF_vars(Transition(s))
  /\ WF_vars(DetectHAServices) /\ WF_vars(CommitServices)
  /\ WF_vars(ReadServices) /\ WF_vars(PullDataForApp)

-----------------------------------------------------------------------------
(* Properties                                                              *)

Service ==
  [id : 0..5, known : SUBSET Servers, daemons : SUBSET Servers,
   last : [Servers -> States \cup {"none"}], reach : [Servers -> BOOLEAN]]

\* Types of the variables.
TypeOK ==
  /\ kea \in [Servers -> [ca : BOOLEAN, up : BOOLEAN, config : Configs,
                          state : States \ {"unavailable"}, heard : States]]
  /\ monitored \subseteq Servers
  /\ stored \in [Servers -> Configs \cup {"unknown"}]
  /\ services \cup pull.copies \subseteq Service
  /\ active \subseteq Servers
  /\ update \in [at : Servers, pc : {"idle", "commit"}, config : Configs, changed : BOOLEAN,
                 active : BOOLEAN, row : Service]
  /\ pull.at \in Servers /\ pull.pc \in {"idle", "ask"}
  /\ pull.apps \cup pull.active \subseteq Servers

\* The relationship never has two services, although a service that loses its last daemon is
\* deleted and made again, and a partner's row is found by the name of any peer; and the
\* variables have their types.
OneService ==
  /\ TypeOK
  /\ \A r, q \in services : r = q

\* A server of which the status puller hears.
Heard(s) == s \in monitored /\ kea[s].ca /\ Talks(s)

\* What users are shown of servers that answer: the states of both partners, alike in the
\* overview; and one that is in partner-down is not passive.
Mirrors ==
  \A s \in Servers : Heard(s) =>
    LET p == Partner(s) IN
    /\ \E v \in getKeaServicesStatus(s) :
         /\ s \in v.apps
         /\ v.state[s] = kea[s].state /\ v.inTouch[s]
         /\ v.state[p] = (IF Talks(p) THEN kea[p].state ELSE "unavailable")
         /\ v.inTouch[p] = Talks(p)
    /\ GetDhcpOverview(s) = {kea[s].state}
    /\ kea[s].state = "partner-down" => s \notin Passive(services)

\* A pull and an update are under way.
Overlap == pull.pc = "ask" /\ update.pc = "commit"

\* In the end users are shown the truth about servers that answer, whatever the two pullers have
\* overwritten of each other's rows before, if from some time on they no longer overlap.
Converges == <>[]~Overlap => <>[]Mirrors

=============================================================================
