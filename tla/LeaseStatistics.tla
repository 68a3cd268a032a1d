--------------------------- MODULE LeaseStatistics ---------------------------
(***************************************************************************)
(* Statistics of leases: the puller of statistics                          *)
(* (server/apps/kea/statspuller.go) stores what the Kea daemons report for *)
(* their subnets, sums it up per subnet, shared network and in all         *)
(* (statisticscounter.go) in counters that grow beyond 64 bits             *)
(* (util/bigcounter.go), adds the reservations outside of pools and leaves *)
(* out the passive servers of HA pairs.  Leases, partners and reservations *)
(* change meanwhile; requests and writes fail.                             *)
(***************************************************************************)
EXTENDS Integers, Sequences, FiniteSets, FiniteSetsExt

CONSTANTS
    Apps,       \* the Kea apps, a sequence of sets of daemons
    Pair,       \* the two daemons of an HA relationship: one lease database
    Subnets4,   \* IPv4 subnets
    Subnets6,   \* IPv6 subnets
    Serves,     \* daemon -> the subnets it serves
    Network,    \* subnet -> its shared network, or NoNetwork
    NoNetwork,
    NoStatistics, \* no statistics yet
    MaxUint,    \* the largest value of 64 bits without a sign
    Pools,      \* subnet -> the addresses in its pools
    MaxChanges  \* bound on changes and on what fails

Subnets == Subnets4 \cup Subnets6
Daemons == UNION {Apps[i] : i \in 1..Len(Apps)}
Networks == {Network[s] : s \in Subnets} \ {NoNetwork}

\* What a subnet counts fits into 64 bits, and so does the sum of an IPv4 subnet.
LeasesAssumption ==
    /\ Apps \in Seq(SUBSET Daemons) /\ IsFiniteSet(Daemons) /\ IsFiniteSet(Subnets) /\ Pair # {}
    /\ MaxUint \in Nat /\ MaxChanges \in Nat /\ Pools \in [Subnets -> Nat]
    /\ 1 + MaxChanges <= MaxUint /\ \A s \in Subnets : Pools[s] + MaxChanges <= MaxUint
    /\ \A s \in Subnets4, p \in Pair :
          Cardinality({d \in Daemons \ {p} : s \in Serves[d]}) * (Pools[s] + MaxChanges) <= MaxUint
    /\ NoStatistics \notin [total : [base : Nat, extended : Int], assigned : [base : Nat, extended : Int]]

VARIABLES
    leased,   \* subnet -> the addresses truly leased, by all its servers
    up,       \* the daemons that answer
    passive,  \* the member of Pair not in charge, as the HA status has it
    old,      \* daemons of versions that report values as signed numbers
    hooked,   \* daemons with the stat_cmds hook
    reserved, \* subnet -> hosts' addresses outside of its pools
    global,   \* addresses of global reservations
    local,    \* daemon -> subnet -> LocalSubnet.Stats
    stats,    \* subnet -> Subnet.Stats
    nets,     \* shared network -> SharedNetwork.Stats
    totals,   \* the table of statistics
    stage,    \* <<step of the puller, the apps or subnets left>>
    counter,  \* what the puller has counted
    quiet,    \* ghost: nothing has changed or failed since the pull began
    changes

kea == <<leased, up, passive, old, hooked, reserved, global>>
db == <<local, stats, nets, totals>>
vars == <<kea, db, stage, counter, quiet, changes>>

-----------------------------------------------------------------------------
(* BigCounter: 64 bits, extended by a big integer once they do not do.     *)

Small(n) == [base |-> n, extended |-> -1]
IsExtended(c) == c.extended >= 0
ToBigInt(c) == IF IsExtended(c) THEN c.extended ELSE c.base
NewBigCounterFromBigInt(n) ==
    IF n <= MaxUint THEN Small(n) ELSE [base |-> MaxUint, extended |-> n]

CanAddToBase(c, n) == c.base <= MaxUint - n

CanAdd(c, other) ==
    IsExtended(c) \/ (~IsExtended(other) /\ CanAddToBase(c, other.base))

Add(c, other) ==
    IF CanAdd(c, other) /\ ~IsExtended(c)
    THEN Small((c.base + other.base) % (MaxUint + 1))
    ELSE [base |-> MaxUint, extended |-> ToBigInt(c) + ToBigInt(other)]

\* The sums of a function over a set, of numbers and of counters.
Sum(f, S) == MapThenSumSet(LAMBDA x : f[x], S)
SumOfCounters(f, S) == FoldSet(LAMBDA x, c : Add(c, f[x]), Small(0), S)

-----------------------------------------------------------------------------
Zero == [total |-> Small(0), assigned |-> Small(0)]

Init ==
    /\ leased = [s \in Subnets |-> 0]
    /\ up = Daemons /\ passive = CHOOSE d \in Pair : TRUE
    /\ old \in {{}, Daemons}
    /\ hooked \in {Daemons} \cup {Daemons \ {d} : d \in Daemons \ Pair}
    /\ reserved = [s \in Subnets |-> 1] /\ global = 1
    /\ local = [d \in Daemons |-> [s \in Serves[d] |-> NoStatistics]]
    /\ stats = [s \in Subnets |-> Zero]
    /\ nets = [n \in Networks |-> Zero]
    /\ totals = [f \in {4, 6} |-> Zero]
    /\ stage = <<"idle", {}>> /\ counter = Zero /\ quiet = FALSE /\ changes = 0

Change ==
    /\ changes < MaxChanges
    /\ changes' = changes + 1
    /\ quiet' = FALSE
    /\ UNCHANGED <<db, stage, counter, old, hooked>>

\* Kea leases and reclaims addresses, from its pools and reservations.
Lease(s) ==
    /\ Change
    /\ \E n \in {1, Pools[s] + reserved[s]} : n # leased[s] /\ leased' = [leased EXCEPT ![s] = n]
    /\ UNCHANGED <<up, passive, reserved, global>>

\* The server in charge of the pair stops and its partner takes over; or a
\* stopped server comes back.
Failover ==
    /\ Change
    /\ up = Daemons
    /\ \E d \in Pair \ {passive} : up' = up \ {d} /\ passive' = d
    /\ UNCHANGED <<leased, reserved, global>>

Return ==
    /\ Change
    /\ up # Daemons /\ up' = Daemons
    /\ UNCHANGED <<leased, passive, reserved, global>>

\* A user adds a host with an address outside of the pools, or a global one.
Reserve ==
    /\ Change
    /\ \/ global' = global + 1 /\ UNCHANGED reserved
       \/ /\ \E s \in Subnets6 : reserved' = [reserved EXCEPT ![s] = @ + 1]
          /\ UNCHANGED global
    /\ UNCHANGED <<leased, up, passive>>

-----------------------------------------------------------------------------
\* What a daemon answers: the pools without reservations, signed by old ones.
Reported(d, n) == IF d \in old /\ 2 * n > MaxUint THEN n - MaxUint - 1 ELSE n

\* storeDaemonStats: negative values are taken for what they were.
Stored(v) == NewBigCounterFromBigInt(IF v < 0 THEN MaxUint + 1 + v ELSE v)

RowOf(d, s) ==
    [total |-> Stored(Reported(d, Pools[s])), assigned |-> Stored(Reported(d, leased[s]))]

\* pullStats begins with the apps of the database.
Start ==
    /\ stage[1] = "idle"
    /\ stage' = <<"apps", 1>>
    /\ quiet' = TRUE
    /\ UNCHANGED <<kea, db, counter, changes>>

\* All goes well, or not.
Fine == UNCHANGED <<quiet, changes>>

Fails ==
    /\ changes < MaxChanges
    /\ changes' = changes + 1
    /\ quiet' = FALSE

\* getStatsFromApp: every daemon with the hook is asked; one may not answer
\* and a row may fail, which leaves its former statistics.
GetStatsFromApp ==
    /\ stage[1] = "apps" /\ stage[2] <= Len(Apps)
    /\ LET asked == Apps[stage[2]] \cap hooked IN
       \E got \in SUBSET (asked \cap up) :
          /\ local' = [d \in Daemons |->
                         IF d \in got THEN [s \in Serves[d] |-> RowOf(d, s)] ELSE local[d]]
          /\ IF got = asked \cap up THEN Fine ELSE Fails
    /\ stage' = <<"apps", stage[2] + 1>>
    /\ UNCHANGED <<kea, stats, nets, totals, counter>>

\* A bug: both servers of a pair count.
CountedTwice(s) == {d \in Daemons : s \in Serves[d] /\ local[d][s] # NoStatistics}

\* Local statistics of a subnet that count.
Counted(s) == {d \in Daemons \ {passive} : s \in Serves[d] /\ local[d][s] # NoStatistics}

\* The sum of an IPv4 subnet has 64 bits, that of an IPv6 subnet is a BigCounter.
SumStat(s, name) ==
    LET values == [d \in Counted(s) |-> local[d][s][name]]
        bases  == [d \in Counted(s) |-> IF IsExtended(values[d]) THEN 0 ELSE values[d].base]
    IN IF s \in Subnets4
       THEN Small(Sum(bases, Counted(s)) % (MaxUint + 1))
       ELSE SumOfCounters(values, Counted(s))

\* Reservations out of the pools, which Kea's totals leave out, and global ones.
CountOutOfPoolReservations(s) == reserved[s]
CountGlobalReservations == global

SubnetStats(s) ==
    [total |-> Add(SumStat(s, "total"), Small(CountOutOfPoolReservations(s))), assigned |-> SumStat(s, "assigned")]

SumOf(rows, subnets) ==
    [total    |-> SumOfCounters([s \in subnets |-> rows[s].total], subnets),
     assigned |-> SumOfCounters([s \in subnets |-> rows[s].assigned], subnets)]

\* The subnets with their local statistics, the reservations and the passive
\* servers are read one after the other, before the first row is written.
Count ==
    /\ stage = <<"apps", Len(Apps) + 1>>
    /\ \/ /\ counter' = [rows |-> [s \in Subnets |-> SubnetStats(s)], global |-> CountGlobalReservations]
          /\ stage' = <<"subnets", Subnets>>
          /\ Fine
       \/ /\ stage' = <<"idle", {}>> /\ Fails  \* a query fails
          /\ UNCHANGED counter
    /\ UNCHANGED <<kea, db>>

\* The rows of the subnets, then those of the networks; one may fail.
UpdateStatistics ==
    /\ stage[1] = "subnets"
    /\ stage[2] # {}
    /\ LET s == CHOOSE x \in stage[2] : TRUE IN  \* in the order of the query
          /\ stage' = <<"subnets", stage[2] \ {s}>>
          /\ \/ stats' = [stats EXCEPT ![s] = counter.rows[s]] /\ Fine
             \/ Fails /\ UNCHANGED stats
    /\ UNCHANGED <<kea, local, nets, totals, counter>>

UpdateStatisticsInSharedNetwork ==
    /\ stage = <<"subnets", {}>>
    /\ stage' = <<"totals", {}>>
    /\ \/ /\ nets' = [n \in Networks |->
                        SumOf(counter.rows, {s \in Subnets : Network[s] = n})]
          /\ Fine
       \/ Fails /\ UNCHANGED nets
    /\ UNCHANGED <<kea, local, stats, totals, counter>>

\* Global reservations belong to no subnet; here they are of IPv6.
SetStats ==
    /\ stage[1] = "totals"
    /\ stage' = <<"idle", {}>> /\ counter' = Zero
    /\ \/ /\ LET six == SumOf(counter.rows, Subnets6) IN
             totals' = [f \in {4, 6} |->
                IF f = 4 THEN SumOf(counter.rows, Subnets4)
                ELSE [six EXCEPT !.total = Add(@, Small(counter.global))]]
          /\ Fine
       \/ Fails /\ UNCHANGED totals
    /\ UNCHANGED <<kea, local, stats, nets>>

Next ==
    \/ \E s \in Subnets : Lease(s)
    \/ Failover \/ Return \/ Reserve
    \/ Start \/ GetStatsFromApp \/ Count \/ UpdateStatistics
    \/ UpdateStatisticsInSharedNetwork \/ SetStats

Spec == Init /\ [][Next]_vars

-----------------------------------------------------------------------------
TypeOK ==
    /\ up \subseteq Daemons /\ passive \in Pair /\ hooked \subseteq Daemons
    /\ DOMAIN stats = Subnets /\ DOMAIN nets = Networks /\ quiet \in BOOLEAN
    /\ changes \in 0..MaxChanges

\* The groups of servers that share leases, and what is true of a subnet.
Groups(s) == {d \in Daemons \ {passive} : s \in Serves[d]} \cap hooked

True(s) ==
    [total    |-> Cardinality(Groups(s)) * Pools[s] + reserved[s],
     assigned |-> Cardinality(Groups(s)) * leased[s]]

Is(row, subnets, extra) ==
    /\ ToBigInt(row.total) = Sum([s \in subnets |-> True(s).total], subnets) + extra
    /\ ToBigInt(row.assigned) = Sum([s \in subnets |-> True(s).assigned], subnets)

(***************************************************************************)
(* StatisticsAreExact: after a pull during which nothing changed and       *)
(* nothing failed the statistics of every subnet, shared network and the   *)
(* totals are exact: leases of an HA pair count once whoever was in charge *)
(* before, numbers beyond 64 bits and those old versions report as         *)
(* negative are right, and what earlier pulls left behind does not count.  *)
(***************************************************************************)
StatisticsAreExact ==
    stage[1] = "idle" /\ quiet =>
        /\ \A s \in Subnets : Is(stats[s], {s}, 0)
        /\ \A n \in Networks : Is(nets[n], {s \in Subnets : Network[s] = n}, 0)
        /\ Is(totals[4], Subnets4, 0) /\ Is(totals[6], Subnets6, global)
=============================================================================
