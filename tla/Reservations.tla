---------------------------- MODULE Reservations ----------------------------
(***************************************************************************)
(* Hosts in the database: server/database/model/host.go with the merging   *)
(* of server/apps/kea/host.go and the part of CommitAppIntoDB              *)
(* (server/apps/kea/appkea.go) that concerns hosts.                        *)
(*                                                                         *)
(* A host is one row for all daemons that have a reservation for the same  *)
(* client in the same place (a subnet, or all subnets).  Each daemon has   *)
(* reservations in its configuration, which the state puller stores, and   *)
(* others in its host database, which the hosts puller stores.  Both       *)
(* pullers read rows, join their reservations to them and write the whole  *)
(* rows back, in transactions that see what others have committed.         *)
(***************************************************************************)
EXTENDS Naturals, FiniteSets

CONSTANTS Sources,   \* pairs of a daemon and "config" or "api"
          Places, Clients, Addresses,
          MaxEdits   \* bound: changes of reservations

VARIABLES given,      \* the reservations of each daemon and source
          rows,       \* tables host, local_host and ip_reservation
          stored,     \* what a source had when it was last committed
          work,       \* the transaction of each source
          overtaken,  \* sources whose rows a transaction wrote that had read others
          twins,      \* whether a host was added that another had added meanwhile
          edits

vars == <<given, rows, stored, work, overtaken, twins, edits>>

Reservation == [place : Places, client : Clients, address : Addresses]
OneEach(R) == \A r, q \in R : r.place = q.place /\ r.client = q.client => r = q

NoWork == [open |-> FALSE, todo |-> {}, hosts |-> {}, all |-> {}, since |-> {}]

Init ==
  /\ given \in [Sources -> {R \in SUBSET Reservation : OneEach(R)}]
  /\ stored = [s \in Sources |-> {}]
  /\ rows = {} /\ work = [s \in Sources |-> NoWork]
  /\ overtaken = {} /\ twins = FALSE /\ edits = 0

\* A reservation is added to Kea, changed or removed.
Edit(s) ==
  /\ edits < MaxEdits
  /\ \E r \in Reservation :
       given' = [given EXCEPT ![s] = IF r \in @ THEN @ \ {r}
                                     ELSE {q \in @ : q.place # r.place \/ q.client # r.client} \cup {r}]
  /\ edits' = edits + 1
  /\ UNCHANGED <<rows, stored, work, overtaken, twins>>

-----------------------------------------------------------------------------
\* NewHostFromKeaConfigReservation: what a reservation becomes, a local host.
Local(s, r) == [source |-> s, address |-> r.address]

\* DeleteDaemonFromHosts: local hosts of the source go, rows stay.
Without(R, s) == {[h EXCEPT !.locals = {l \in @ : l.source # s}] : h \in R}

\* GetHostsBySubnetID: the hosts of a place, as the transaction of a source sees them.
HostsOf(s, place) == {h \in Without(rows, s) : h.place = place}

\* IsSame: equal identifiers.
Same(h, r) == h.client = r.client

\* Mutated form: of a daemon's local hosts of two sources one is kept.
JoinOfDaemon(h, l) == [h EXCEPT !.locals = {k \in @ : k.source[1] # l.source[1]} \cup {l}]

\* Join, AddOrUpdateLocalHost.
Join(h, l) == [h EXCEPT !.locals = {k \in @ : k.source # l.source} \cup {l}]

\* A configuration or a page differs from the one stored before: a transaction
\* begins, and the associations of the source are removed.
Begin(s) ==
  /\ ~work[s].open /\ given[s] # stored[s]
  /\ work' = [work EXCEPT ![s] = [NoWork EXCEPT !.open = TRUE, !.todo = given[s], !.all = given[s]]]
  /\ UNCHANGED <<given, rows, stored, overtaken, twins, edits>>

\* The hosts of a place are read and the reservation is joined to the first
\* that is the same; otherwise it becomes a new host, with no number yet.
overrideIntoDatabaseHosts(s, r) ==
  LET same == {h \in HostsOf(s, r.place) : Same(h, r)}
      first == CHOOSE h \in same : \A g \in same : h.id <= g.id
      new == [id |-> 0, place |-> r.place, client |-> r.client, locals |-> {}]
  IN /\ r \in work[s].todo
     /\ work' = [work EXCEPT ![s].todo = @ \ {r},
                             ![s].hosts = @ \cup {Join(IF same = {} THEN new ELSE first, Local(s, r))}]
     /\ UNCHANGED <<given, rows, stored, overtaken, twins, edits>>

\* Rows get new numbers; here, those that are free.
Used == {h.id : h \in rows}
Numbering(N) == CHOOSE f \in [N -> 1..(Cardinality(rows) + Cardinality(N))] :
                  \A h, g \in N : f[h] \notin Used /\ (f[h] = f[g] => h = g)

\* addHostWithReferences, updateHostWithLocalHosts: all local hosts of a host
\* are deleted and those that were read are inserted.
Added(N) == LET f == Numbering(N) IN {[h EXCEPT !.id = f[h]] : h \in N}
Updated(s, U) == {IF \E u \in U : u.id = h.id THEN CHOOSE u \in U : u.id = h.id ELSE h : h \in Without(rows, s)}
commitHostsIntoDB(s) ==
  LET H == work[s].hosts IN Updated(s, {h \in H : h.id # 0}) \cup Added({h \in H : h.id = 0})

\* DeleteOrphanedHosts ends an update of an application only.
Kept(s, R) == IF s[2] = "config" THEN {h \in R : h.locals # {}} ELSE R

\* Whoever committed since this transaction has begun may have lost what it
\* wrote to the rows that are written now.
Commit(s) ==
  LET w == work[s] IN
  /\ w.open /\ w.todo = {}
  /\ \A h \in w.hosts : h.id # 0 => h.id \in Used
  /\ rows' = Kept(s, commitHostsIntoDB(s))
  /\ stored' = [stored EXCEPT ![s] = w.all]
  /\ overtaken' = (overtaken \cup w.since) \ {s}
  /\ twins' = (twins \/ w.since # {})
  /\ work' = [t \in Sources |-> IF t = s THEN NoWork
                                ELSE IF work[t].open THEN [work[t] EXCEPT !.since = @ \cup {s}] ELSE NoWork]
  /\ UNCHANGED <<given, edits>>

\* The transaction is rolled back: a statement fails, also because a row is
\* gone, or the server is restarted.
RollBack(s) ==
  /\ work[s].open
  /\ work' = [work EXCEPT ![s] = NoWork]
  /\ UNCHANGED <<given, rows, stored, overtaken, twins, edits>>

Next ==
  \E s \in Sources :
    \/ Edit(s) \/ Begin(s) \/ Commit(s) \/ RollBack(s)
    \/ \E r \in Reservation : overrideIntoDatabaseHosts(s, r)

Spec == Init /\ [][Next]_vars

-----------------------------------------------------------------------------
(* Properties.                                                             *)

TypeOK ==
  /\ \A s \in Sources : OneEach(given[s]) /\ stored[s] \subseteq Reservation
  /\ \A h, g \in rows : h.id = g.id => h = g

\* The rows have of each source what it had when it was last stored, although
\* whole rows are written with the parts of all other daemons and sources;
\* only a transaction that began before another one's commit may have written
\* an older part of that one back.  A client has one row per place, unless
\* transactions overlapped.
RowsAreAsStored ==
  /\ \A s \in Sources \ overtaken :
       UNION {{[place |-> h.place, client |-> h.client, address |-> l.address] :
                 l \in {k \in h.locals : k.source = s}} : h \in rows}
         = stored[s]
  /\ ~twins => \A h, g \in rows : h.place = g.place /\ h.client = g.client => h = g
=============================================================================
