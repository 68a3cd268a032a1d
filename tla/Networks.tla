------------------------------- MODULE Networks -------------------------------
(***************************************************************************)
(* Subnets and shared networks in the database: the tables of              *)
(* server/database/model/subnet.go and sharednetwork.go, the matching of   *)
(* server/apps/kea/subnet.go and the part of CommitAppIntoDB               *)
(* (server/apps/kea/appkea.go) that stores what a daemon has.              *)
(*                                                                         *)
(* A subnet is one row for all daemons that have its prefix in the same    *)
(* shared network, with a local subnet of each, which has the parameters   *)
(* and the pools.  Transactions of daemons overlap; each statement sees    *)
(* what others have committed.  Hosts are in Reservations.                 *)
(***************************************************************************)
EXTENDS Integers, FiniteSets, FiniteSetsExt

CONSTANTS Daemons, Names, Prefixes,
          NoName,     \* of subnets outside of shared networks
          Contents,   \* parameters of a subnet, and a pool that goes with each
          MaxEdits    \* bound: changes of configurations

VARIABLES config,     \* what each daemon has: names, and subnets in them or outside
          nets,       \* tables shared_network and local_shared_network
          subnets,    \* tables subnet, local_subnet and the pools
          last,       \* the last number given to a row
          stored,     \* the configuration that was committed last, per daemon
          work,       \* the transaction of each daemon
          overtaken,  \* daemons whose rows a transaction may have written that had read others
          twins,      \* whether rows were added or kept by transactions that overlapped
          edits

vars == <<config, nets, subnets, last, stored, work, overtaken, twins, edits>>

Configured == [net : Names \cup {NoName}, prefix : Prefixes, content : Contents]
Configs == {c \in [names : SUBSET Names, subnets : SUBSET Configured] :
              /\ \A s \in c.subnets : s.net \in c.names \cup {NoName}
              /\ \A s, t \in c.subnets : s.prefix = t.prefix => s = t}
Nothing == [names |-> {}, subnets |-> {}]
NoWork == [open |-> FALSE, config |-> Nothing, todo |-> {}, gone |-> {}, nets |-> {}, subnets |-> {},
           since |-> {}, views |-> {}]

Init ==
  /\ config \in [Daemons -> Configs]
  /\ nets = {} /\ subnets = {} /\ last = 0
  /\ stored = [d \in Daemons |-> Nothing]
  /\ work = [d \in Daemons |-> NoWork]
  /\ overtaken = {} /\ twins = FALSE /\ edits = 0

Edit(d) ==
  /\ edits < MaxEdits
  /\ \E c \in Configs \ {config[d]} : config' = [config EXCEPT ![d] = c]
  /\ edits' = edits + 1
  /\ UNCHANGED <<nets, subnets, last, stored, work, overtaken, twins>>

-----------------------------------------------------------------------------
\* convertSubnetFromKea: the local subnet and its pools have no numbers yet.
Local(d, s) == [id |-> 0, daemon |-> d, content |-> s.content, pools |-> {s.content}]

LocalsOf(d) == {l \in UNION {s.locals : s \in subnets} : l.daemon = d}

\* DeleteDaemonFromSubnets: local subnets go with their pools, rows of subnets stay.
WithoutLocals(S, gone) == {[s EXCEPT !.locals = {l \in @ : l.id \notin gone}] : s \in S}
\* DeleteDaemonFromSharedNetworks
WithoutDaemon(N, d) == {[n EXCEPT !.daemons = @ \ {d}] : n \in N}

\* The configuration differs from the one stored before.
Begin(d) ==
  /\ ~work[d].open /\ config[d] # stored[d]
  /\ work' = [work EXCEPT ![d] = [NoWork EXCEPT !.open = TRUE, !.config = config[d],
                                                !.gone = {l.id : l \in LocalsOf(d)},
                                                !.todo = config[d].names \cup {NoName}]]
  /\ UNCHANGED <<config, nets, subnets, last, stored, overtaken, twins, edits>>

First(rows) == CHOOSE r \in rows : \A q \in rows : r.id <= q.id

\* sharedNetworkExists: networks are matched by their names.
sharedNetworkExists(name) == {n \in nets : n.name = name}

\* GetGlobalSubnets, or those of the network.
SubnetsOf(d, net) == {s \in WithoutLocals(subnets, work[d].gone) : s.net = net}
Fetched(d, found) == IF found = {} THEN {} ELSE SubnetsOf(d, First(found).id)

\* NewSharedNetworkFromKea: subnets of a network in the configuration.
Given(d, name) == {s \in work[d].config.subnets : s.net = name}

\* Populate: an index by prefix cannot be built when there are duplicates.
Populate(S) == \A s, t \in S : s.prefix = t.prefix => s = t

\* SetLocalSubnet, Join
Join(s, l) == [s EXCEPT !.locals = {k \in @ : k.daemon # l.daemon} \cup {l}]

\* findMatchingSubnet and overrideIntoDatabaseSubnet, or a new subnet.
Overridden(d, c, existing, name) ==
  LET same == {s \in existing : s.prefix = c.prefix}
      row == IF same # {} THEN First(same)
             ELSE [id |-> 0, net |-> 0, prefix |-> c.prefix, locals |-> {}]
  IN [name |-> name, row |-> Join(row, Local(d, c))]

\* A shared network is fetched with its subnets and those of the daemon are
\* matched.  With duplicates it is skipped.
detectSharedNetwork(d, name) ==
  LET found == sharedNetworkExists(name)
      net == IF found # {} THEN First(found).id ELSE 0
      existing == Fetched(d, found) IN
  /\ name \in work[d].todo \ {NoName}
  /\ work' = [work EXCEPT ![d] =
       IF Populate(existing)
       THEN [@ EXCEPT !.todo = @ \ {name}, !.nets = @ \cup {[id |-> net, name |-> name]},
                      !.subnets = @ \cup {Overridden(d, c, existing, name) : c \in Given(d, name)}]
       ELSE [@ EXCEPT !.todo = @ \ {name}, !.since = @ \cup {d}]]
  /\ UNCHANGED <<config, nets, subnets, last, stored, overtaken, twins, edits>>

\* The other subnets come last.  With duplicates the transaction fails.
detectSubnets(d) ==
  LET existing == SubnetsOf(d, 0)
      given == Given(d, NoName) IN
  /\ work[d].todo = {NoName}
  /\ work' = [work EXCEPT ![d] =
       IF given = {} \/ Populate(existing)
       THEN [@ EXCEPT !.todo = {}, !.subnets = @ \cup {Overridden(d, c, existing, NoName) : c \in given}]
       ELSE NoWork]
  /\ UNCHANGED <<config, nets, subnets, last, stored, overtaken, twins, edits>>

-----------------------------------------------------------------------------
\* Rows that are new get numbers.
Numbered(N, from) == CHOOSE f \in [N -> from + 1 .. from + Cardinality(N)] :
                       \A x, y \in N : f[x] = f[y] => x = y

\* addAndClearSubnetPools: pools that were read have numbers; of those with no
\* numbers all are added, and pools that are not among them are removed.
Pools(l, existing) ==
  IF l.id = 0 THEN l.pools
  ELSE UNION {IF l.id = k.id THEN k.pools \cap l.pools ELSE k.pools : k \in existing}

\* AddLocalSubnets: a row is inserted, or updated where the daemon has one.
Inserted(locals, l, new) ==
  LET existing == {k \in locals : k.daemon = l.daemon}
      id == IF existing # {} THEN First(existing).id ELSE IF l.id # 0 THEN l.id ELSE new
  IN (locals \ existing) \cup
       {[id |-> id, daemon |-> l.daemon, content |-> l.content, pools |-> Pools(l, existing)]}

\* A row that another transaction has deleted is waited for.
Waits(d) ==
  \E w \in work[d].subnets, s \in subnets : s.id = w.row.id /\
    \E l \in w.row.locals, k \in s.locals : l.daemon # d /\ k.daemon = l.daemon /\ work[l.daemon].open

\* updateSharedNetwork and a local subnet of no subnet fail.
RowsAreThere(d) ==
  /\ \A n \in work[d].nets : n.id # 0 => \E m \in nets : m.id = n.id
  /\ \A w \in work[d].subnets : w.row.id # 0 => \E s \in subnets : s.id = w.row.id

\* DeleteOrphanedSubnets as it sees the tables, which others may have written since.
Orphans(d, view, S) ==
  {s \in S : /\ \A w \in work[d].subnets : w.row.id # s.id
             /\ \E v \in view.subnets : v.id = s.id /\ \A l \in v.locals : l.id \in work[d].gone}

\* DeleteOrphanedSharedNetworks
OrphanedNets(d, view, N) ==
  {n \in N : /\ n.name \notin {m.name : m \in work[d].nets}
             /\ \E v \in view.nets : v.id = n.id /\ v.daemons \subseteq {d}}

Tables == [nets |-> nets, subnets |-> subnets]

\* commitSubnetsIntoDB: the row is inserted or written, with local subnets.
Written(id, net, row, locals, new) ==
  [id |-> id, net |-> net, prefix |-> row.prefix,
   locals |-> FoldSet(LAMBDA l, acc : Inserted(acc, l, new), locals, row.locals)]

\* commitNetworksIntoDB, and what is orphaned then.  The subnets of a network
\* that is deleted stay without it.
Commit(d, view1, view2) ==
  LET w == work[d]
      newNets == {n \in w.nets : n.id = 0}
      f == Numbered(newNets, last)
      netOf == [name \in {n.name : n \in w.nets} \cup {NoName} |->
                  IF name = NoName THEN 0
                  ELSE LET n == CHOOSE n \in w.nets : n.name = name IN IF n.id = 0 THEN f[n] ELSE n.id]
      g == Numbered(w.subnets, last + Cardinality(newNets))
      after == last + Cardinality(newNets) + Cardinality(w.subnets)
      Stored(x, locals) == Written(IF x.row.id = 0 THEN g[x] ELSE x.row.id, netOf[x.name],
                                   x.row, locals, after + g[x])
      old == WithoutLocals(subnets, w.gone)
      updated == {x \in w.subnets : x.row.id # 0}
      S == {s \in old : \A x \in updated : x.row.id # s.id}
             \cup {Stored(x, (CHOOSE s \in old : s.id = x.row.id).locals) : x \in updated}
             \cup {Stored(x, {}) : x \in w.subnets \ updated}
      N == {IF \E m \in w.nets : m.id = n.id THEN [n EXCEPT !.daemons = @ \cup {d}] ELSE n :
              n \in WithoutDaemon(nets, d)}
             \cup {[id |-> f[n], name |-> n.name, daemons |-> {d}] : n \in newNets}
      orphanedNets == OrphanedNets(d, view2, N)
  IN
  /\ w.open /\ w.todo = {}
  /\ RowsAreThere(d) /\ ~Waits(d)
  /\ nets' = N \ orphanedNets
  /\ subnets' = {IF s.net \in {n.id : n \in orphanedNets} THEN [s EXCEPT !.net = 0] ELSE s :
                   s \in S \ Orphans(d, view1, S)}
  /\ last' = after + after
  /\ stored' = [stored EXCEPT ![d] = w.config]
  /\ overtaken' = (overtaken \ {d}) \cup w.since
  /\ twins' = (twins \/ w.since # {})
  /\ work' = [e \in Daemons |->
       IF e = d THEN NoWork
       ELSE IF ~work[e].open THEN work[e]
       ELSE [work[e] EXCEPT !.since = @ \cup {d} \cup ({e} \cap w.since), 
                             !.views = IF work[e].todo = {} THEN @ \cup {Tables} ELSE @]]
  /\ UNCHANGED <<config, edits>>

\* A statement fails, or the server is restarted.
RollBack(d) ==
  /\ work[d].open
  /\ work' = [work EXCEPT ![d] = NoWork]
  /\ UNCHANGED <<config, nets, subnets, last, stored, overtaken, twins, edits>>

Next ==
  \E d \in Daemons :
    \/ Edit(d) \/ Begin(d) \/ detectSubnets(d) \/ RollBack(d)
    \/ \E name \in Names : detectSharedNetwork(d, name)
    \/ \E view1 \in work[d].views \cup {Tables} :
         \E view2 \in {view1, Tables} : Commit(d, view1, view2)

Spec == Init /\ [][Next]_vars

-----------------------------------------------------------------------------
(* Properties.                                                             *)

NameOf(net) == IF net = 0 THEN NoName ELSE (CHOOSE n \in nets : n.id = net).name

TypeOK ==
  /\ \A s \in subnets : s.net # 0 => \E n \in nets : n.id = s.net
  /\ \A s, t \in subnets : s.id = t.id => s = t
  /\ \A m, n \in nets : m.id = n.id => m = n

\* The rows have of each daemon the subnets with their pools and the shared
\* networks it had when it was last stored, although its transactions write
\* the parts of other daemons too and delete what no daemon has; and there are
\* no duplicates and no orphans.  Only transactions that overlapped may break
\* this, until the daemon's configuration changes again.
RowsAreAsStored ==
  /\ \A d \in Daemons \ overtaken :
       /\ {n.name : n \in {m \in nets : d \in m.daemons}} = stored[d].names
       /\ UNION {{[net |-> NameOf(s.net), prefix |-> s.prefix, content |-> l.content, pools |-> l.pools] :
                    l \in {k \in s.locals : k.daemon = d}} : s \in subnets}
            = {[net |-> c.net, prefix |-> c.prefix, content |-> c.content, pools |-> {c.content}] :
                 c \in stored[d].subnets}
  /\ ~twins =>
       /\ \A s, t \in subnets : s.net = t.net /\ s.prefix = t.prefix => s = t
       /\ \A m, n \in nets : m.name = n.name => m = n
       /\ \A s \in subnets : s.locals # {}
       /\ \A n \in nets : n.daemons # {}
=============================================================================
