------------------------------ MODULE Checkers ------------------------------
(***************************************************************************)
(* The checkers of a Kea daemon's configuration                            *)
(* (src/stork/backend/server/configreview/keachecker.go) with what they    *)
(* ask of a configuration (appcfg/kea) and of addresses (util/cidr.go).    *)
(*                                                                         *)
(* An administrator edits one daemon's configuration and its host          *)
(* database, and then does what the reports of a review recommend, one     *)
(* report at a time.  An address has Width bits; a prefix is a pair of an  *)
(* address and a length, which need not be canonical.                      *)
(***************************************************************************)
EXTENDS Integers, Sequences, FiniteSets, SequencesExt, FiniteSetsExt

CONSTANTS Width,      \* bits of an address
          MaxIssues,  \* maxOverlaps, maxIssues: what one report lists
          MaxInt,     \* the largest 64-bit integer
          MaxEdits,   \* bound: edits of a configuration
          Versions, SubnetPrefixes, Pools, PDPools, Reservations

VARIABLES daemon,    \* the daemon's name and version
          config,    \* its configuration
          hosts,     \* reservations in its host database, by subnet
          edits,     \* edits of the configuration
          repairing  \* the administrator follows the reports

vars == <<daemon, config, hosts, edits, repairing>>

Hooks == {"stat_cmds", "lease_cmds", "host_cmds", "subnet_cmds"}
Flags == {"unset", "yes", "no"}
Relationships == [mt : {"unset", "no"}, listener : {"unset", "no"}, port : {"agent", "own"}]

\* Versions of Kea between which the checkers distinguish are numbers: 1 is
\* 2.3.0, 2 is 2.3.5, 3 is 2.3.7, 4 is 2.5.3; 0 is older.

NoSubnets == [i \in {} |-> 0]

Init ==
  /\ daemon \in [name : {"dhcp4", "dhcp6", "ca"}, version : Versions]
  /\ config \in [hooks : {{"stat_cmds", "lease_cmds"}, {"stat_cmds", "lease_cmds", "host_cmds"}},
                 databases : {{}, {"hosts"}}, subnets : {NoSubnets}, network : {"none"},
                 oop : {"unset"}, mt : {"unset"}, ha : {{}},
                 sockets : {{"dhcp4"}}, basicAuth : {FALSE}, tls : {FALSE}]
  /\ hosts = {}
  /\ edits = 0
  /\ repairing = FALSE

-----------------------------------------------------------------------------
(* Addresses, util/cidr.go.                                                *)

Network(p) == <<p[1] - (p[1] % 2^(Width - p[2])), p[2]>>
Masked(a, len) == Network(<<a, len>>)

\* ParseIP takes a prefix of full length for an address.
ParsedAsPrefix(p) == p[2] < Width

\* The bounds of an IPv4 range in CIDR form have four bytes, and IsInRange
\* compares them with the sixteen bytes of the address.
IsInRange(a, pool) ==
  /\ ~(daemon.name = "dhcp4" /\ pool.cidr)
  /\ pool.first <= a /\ a <= pool.last

IsInPrefixRange(p, pool) ==
  /\ ParsedAsPrefix(p) /\ pool.prefix[2] <= p[2] /\ p[2] = pool.delegated
  /\ Masked(p[1], pool.prefix[2]) = Network(pool.prefix)

RangeSize(pool) == pool.last - pool.first + 1
DelegatedRangeSize(pool) ==
  IF pool.delegated < pool.prefix[2] THEN 0 ELSE 2^(pool.delegated - pool.prefix[2])

\* The binary form of a prefix begins with that of another.
HasPrefix(inner, outer) == inner[2] >= outer[2] /\ Masked(inner[1], outer[2]) = Network(outer)

-----------------------------------------------------------------------------
(* What the checkers ask of a configuration, appcfg/kea.                   *)

HasHook(h) == h \in config.hooks
Subnet(i) == config.subnets[i]
AllSubnets == DOMAIN config.subnets

\* GetSubnets returns the subnets outside of the shared network.
TopLevel == {i \in AllSubnets : ~Subnet(i).shared}
Shared == AllSubnets \ TopLevel

\* Hosts of the database are looked at only if the host commands are there.
DBHosts(i) == IF HasHook("host_cmds") THEN {h \in hosts : h.subnet = i} ELSE {}

\* Mutated form: the subnet's own setting is not looked at.
OutOfPoolModeOfOthers(i) ==
  \/ Subnet(i).shared /\ config.network = "yes"
  \/ config.oop = "yes"

\* An explicit "no" does not override a "yes" of a higher level.
OutOfPoolMode(i) ==
  \/ Subnet(i).oop = "yes"
  \/ Subnet(i).shared /\ config.network = "yes"
  \/ config.oop = "yes"

MultiThreading == IF daemon.version >= 2 THEN config.mt # "no" ELSE config.mt = "yes"
RelationMultiThreading(r) == IF daemon.version >= 3 THEN r.mt # "no" ELSE r.mt = "yes"
DedicatedListener(r) == IF daemon.version >= 3 THEN r.listener # "no" ELSE r.listener = "yes"

-----------------------------------------------------------------------------
(* The checkers.  Each is the set of things its report lists, or a         *)
(* condition; there is a report if the set is not empty.                   *)

\* The first MaxIssues of a set of pairs of numbers.
Before(p, q) == p[1] < q[1] \/ (p[1] = q[1] /\ p[2] < q[2])
First(S) == {p \in S : Cardinality({q \in S : Before(q, p)}) < MaxIssues}

statCmdsPresence == ~HasHook("stat_cmds")
leaseCmdsPresence == ~HasHook("lease_cmds")
hostCmdsPresence == ~HasHook("host_cmds") /\ "hosts" \in config.databases

sharedNetworkDispensable == config.network # "none" /\ Cardinality(Shared) <= 1

subnetDispensable ==
  {i \in AllSubnets : /\ Subnet(i).pools = {} /\ Subnet(i).reservations = {}
                      /\ daemon.name = "dhcp6" => Subnet(i).pdPools = {}
                      /\ DBHosts(i) = {}}

isAnyInPools(r, i) ==
  \/ \E a \in r.addresses, pool \in Subnet(i).pools : IsInRange(a, pool)
  \/ \E p \in r.prefixes, pool \in Subnet(i).pdPools : IsInPrefixRange(p, pool)

\* A reservation of the configuration counts if it has an address or prefix,
\* one of the database in any case.
ReservationsOf(i) ==
  {r \in Subnet(i).reservations : r.addresses # {} \/ r.prefixes # {}} \cup {h.resv : h \in DBHosts(i)}

reservationsOutOfPool ==
  {i \in AllSubnets :
     /\ ~OutOfPoolMode(i)
     /\ ReservationsOf(i) # {}
     /\ \A r \in ReservationsOf(i) : ~isAnyInPools(r, i)}

\* Mutated form: from the longest prefix to the shortest.
UnsortedSubnets ==
  LET less(i, j) ==
        LET p == Network(Subnet(i).prefix)  q == Network(Subnet(j).prefix) IN
        \/ p[2] > q[2]
        \/ p[2] = q[2] /\ (p[1] < q[1] \/ (p[1] = q[1] /\ i < j))
  IN SetToSortSeq({i \in AllSubnets : ParsedAsPrefix(Subnet(i).prefix)}, less)

\* From the shortest prefix to the longest, then by prefix and identifier.
SortedSubnets ==
  LET less(i, j) ==
        LET p == Network(Subnet(i).prefix)  q == Network(Subnet(j).prefix) IN
        \/ p[2] < q[2]
        \/ p[2] = q[2] /\ (p[1] < q[1] \/ (p[1] = q[1] /\ i < j))
  IN SetToSortSeq({i \in AllSubnets : ParsedAsPrefix(Subnet(i).prefix)}, less)

findOverlaps ==
  LET s == SortedSubnets
      pairs == {p \in (DOMAIN s) \X (DOMAIN s) :
                  p[1] < p[2] /\ HasPrefix(Subnet(s[p[2]]).prefix, Subnet(s[p[1]]).prefix)}
  IN {<<s[p[1]], s[p[2]]>> : p \in First(pairs)}

canonicalPrefixes ==
  First({<<i, 0>> : i \in {j \in AllSubnets : Network(Subnet(j).prefix) # Subnet(j).prefix}})

highAvailabilityMultiThreadingMode ==
  MultiThreading /\ \E r \in config.ha : ~RelationMultiThreading(r)

highAvailabilityDedicatedPorts ==
  IF ~MultiThreading THEN {}
  ELSE LET undedicated == {r \in config.ha : RelationMultiThreading(r) /\ ~DedicatedListener(r)}
       IN IF undedicated # {} THEN undedicated ELSE {r \in config.ha : r.port = "agent"}

\* What is reserved both in the configuration and in the database counts twice.
Reserved(i) == (Subnet(i).reservations \X {"config"}) \cup ({h.resv : h \in DBHosts(i)} \X {"db"})

addressPoolsExhausted ==
  First({q \in TopLevel \X (0..(2^Width - 1)) :
    \E pool \in Subnet(q[1]).pools :
      /\ q[2] = pool.first
      /\ Cardinality({e \in Reserved(q[1]) \X (0..(2^Width - 1)) :
                        e[2] \in e[1][1].addresses /\ IsInRange(e[2], pool)}) >= RangeSize(pool)})

pdPoolsExhausted ==
  First({q \in TopLevel \X (0..(2^Width - 1)) :
    \E pool \in Subnet(q[1]).pdPools :
      /\ q[2] = pool.prefix[1]
      /\ Cardinality({e \in Reserved(q[1]) \X UNION {r[1].prefixes : r \in Reserved(q[1])} :
                        e[2] \in e[1][1].prefixes /\ IsInPrefixRange(e[2], pool)})
           >= DelegatedRangeSize(pool)})

subnetCmdsAndConfigBackendMutualExclusion ==
  HasHook("subnet_cmds") /\ "config" \in config.databases

\* A subnet, or a shared network, whose statistics exceed MaxInt.
Exceeding(size) ==
  \/ \E i \in AllSubnets : size[i] > MaxInt
  \/ MapThenSumSet(LAMBDA i : size[i], Shared) > MaxInt

PoolsSize == [i \in AllSubnets |-> MapThenSumSet(RangeSize, Subnet(i).pools)]
PDPoolsSize == [i \in AllSubnets |-> MapThenSumSet(DelegatedRangeSize, Subnet(i).pdPools)]

statisticsOverflow ==
  /\ HasHook("stat_cmds") /\ daemon.version < 4
  /\ \/ Exceeding(PoolsSize)
     \/ daemon.name = "dhcp6" /\ Exceeding(PDPoolsSize)

credentialsOverHTTPS == config.basicAuth /\ ~config.tls
controlSocketsCA == config.sockets \cap {"dhcp4", "dhcp6"} = {}

\* RegisterDefaultCheckers: the checkers of a DHCP daemon and of a control
\* agent that have something to report.
Reports ==
  {c \in {"stat_cmds_presence", "lease_cmds_presence", "host_cmds_presence",
          "dispensable_shared_network", "dispensable_subnet", "out_of_pool_reservation",
          "overlapping_subnet", "canonical_prefix", "ha_mt_presence", "ha_dedicated_ports",
          "address_pools_exhausted_by_reservations", "pd_pools_exhausted_by_reservations",
          "subnet_cmds_and_cb_mutual_exclusion", "statistics_unavailable_due_to_number_overflow",
          "agent_credentials_over_https", "ca_control_sockets"} :
     IF daemon.name = "ca"
     THEN CASE c = "agent_credentials_over_https" -> credentialsOverHTTPS
            [] c = "ca_control_sockets" -> controlSocketsCA
            [] OTHER -> FALSE
     ELSE CASE c = "stat_cmds_presence" -> statCmdsPresence
            [] c = "lease_cmds_presence" -> leaseCmdsPresence
            [] c = "host_cmds_presence" -> hostCmdsPresence
            [] c = "dispensable_shared_network" -> sharedNetworkDispensable
            [] c = "dispensable_subnet" -> subnetDispensable # {}
            [] c = "out_of_pool_reservation" -> reservationsOutOfPool # {}
            [] c = "overlapping_subnet" -> findOverlaps # {}
            [] c = "canonical_prefix" -> canonicalPrefixes # {}
            [] c = "ha_mt_presence" -> highAvailabilityMultiThreadingMode
            [] c = "ha_dedicated_ports" -> highAvailabilityDedicatedPorts # {}
            [] c = "address_pools_exhausted_by_reservations" -> addressPoolsExhausted # {}
            [] c = "pd_pools_exhausted_by_reservations" -> pdPoolsExhausted # {}
            [] c = "subnet_cmds_and_cb_mutual_exclusion" -> subnetCmdsAndConfigBackendMutualExclusion
            [] c = "statistics_unavailable_due_to_number_overflow" -> statisticsOverflow
            [] OTHER -> FALSE}

-----------------------------------------------------------------------------
(* The administrator.                                                      *)

\* Kea accepts only pools and reserved addresses of the subnet itself, and
\* no two equal prefixes.
Fits(pool, i) == \A a \in pool.first..pool.last : Masked(a, Subnet(i).prefix[2]) = Network(Subnet(i).prefix)
Reservable(r, i) == \A a \in r.addresses : Masked(a, Subnet(i).prefix[2]) = Network(Subnet(i).prefix)
Disjoint(pool, i) == \A q \in Subnet(i).pools : pool.last < q.first \/ q.last < pool.first
OfFamily(r) == daemon.name = "dhcp6" \/ r.prefixes = {}

NewSubnet(p, shared) ==
  [prefix |-> p, shared |-> shared, pools |-> {}, pdPools |-> {}, reservations |-> {}, oop |-> "unset"]
With(i, s) == [config EXCEPT !.subnets = [j \in AllSubnets \cup {i} |-> IF j = i THEN s ELSE @[j]]]
Without(i) == [config EXCEPT !.subnets = [j \in AllSubnets \ {i} |-> @[j]]]

EditedPlan ==
  UNION {
    {With(Cardinality(AllSubnets) + 1, NewSubnet(p, shared)) :
       p \in {q \in SubnetPrefixes : Cardinality(AllSubnets) < 3 /\ \A i \in AllSubnets : Subnet(i).prefix # q},
       shared \in {FALSE} \cup {n \in {TRUE} : config.network # "none"}},
    UNION {{With(i, [Subnet(i) EXCEPT !.pools = @ \cup {pool}]) :
              pool \in {q \in Pools : Fits(q, i) /\ Disjoint(q, i)}} : i \in AllSubnets},
    UNION {{With(i, [Subnet(i) EXCEPT !.pdPools = @ \cup {pool}]) :
              pool \in {q \in PDPools : daemon.name = "dhcp6"}} : i \in AllSubnets},
    UNION {{With(i, [Subnet(i) EXCEPT !.reservations = @ \cup {r}]) :
              r \in {q \in Reservations : Reservable(q, i) /\ OfFamily(q)}} : i \in AllSubnets},
    {[config EXCEPT !.network = n] : n \in Flags},
    {[config EXCEPT !.oop = f] : f \in Flags}}

EditedFeatures ==
  UNION {
    {[config EXCEPT !.hooks = @ \cup {"subnet_cmds"}]},
    {[config EXCEPT !.hooks = @ \ {h}] : h \in Hooks},
    {[config EXCEPT !.databases = @ \cup {"config"}]},
    {[config EXCEPT !.mt = f] : f \in {"yes", "no"}},
    {[config EXCEPT !.ha = @ \cup {r}] : r \in Relationships}}

EditedAgent ==
  UNION {{[config EXCEPT !.sockets = s] : s \in SUBSET {"dhcp4", "d2"}},
         {[config EXCEPT !.basicAuth = TRUE], [config EXCEPT !.tls = TRUE]}}

EditConfig ==
  \/ /\ daemon.name = "ca" /\ edits' = edits + 1
     /\ config' \in EditedAgent
  \/ /\ daemon.name # "ca" /\ edits' = edits + 1
     /\ config' \in EditedPlan
  \/ /\ daemon.name # "ca" /\ edits' = edits + 2
     /\ config' \in EditedFeatures

AddHost ==
  /\ daemon.name # "ca" /\ "hosts" \in config.databases
  /\ \E i \in AllSubnets, r \in Reservations :
       /\ OfFamily(r) /\ Reservable(r, i)
       /\ hosts' = hosts \cup {[subnet |-> i, resv |-> r]}
  /\ edits' = edits + 1
  /\ UNCHANGED config

Edit ==
  /\ ~repairing
  /\ AddHost \/ (EditConfig /\ UNCHANGED hosts)
  /\ edits' <= MaxEdits
  /\ UNCHANGED <<daemon, repairing>>

BeginRepairs == ~repairing /\ repairing' = TRUE /\ UNCHANGED <<daemon, config, hosts, edits>>

\* What a report recommends, for one of the things it lists.
Relate(r, s) == config' = [config EXCEPT !.ha = (@ \ {r}) \cup {s}]
Load(h) == config' = [config EXCEPT !.hooks = @ \cup {h}]
Drop(i) == config' = Without(i)

RepairPlan ==
  \/ /\ sharedNetworkDispensable
     /\ config' = [config EXCEPT !.network = "none",
                                 !.subnets = [i \in AllSubnets |-> [@[i] EXCEPT !.shared = FALSE]]]
  \/ \E i \in subnetDispensable : Drop(i)
  \/ \E i \in reservationsOutOfPool : config' = With(i, [Subnet(i) EXCEPT !.oop = "yes"])
  \/ \E p \in findOverlaps : Drop(p[2])
  \/ \E q \in canonicalPrefixes :
       LET p == Network(Subnet(q[1]).prefix) IN
       IF \E i \in AllSubnets : Subnet(i).prefix = p
       THEN Drop(q[1])
       ELSE config' = With(q[1], [Subnet(q[1]) EXCEPT !.prefix = p])
  \/ \E q \in addressPoolsExhausted :
       config' = With(q[1], [Subnet(q[1]) EXCEPT !.pools = {x \in @ : x.first # q[2]}])
  \/ \E q \in pdPoolsExhausted :
       config' = With(q[1], [Subnet(q[1]) EXCEPT !.pdPools = {x \in @ : x.prefix[1] # q[2]}])

RepairFeatures ==
  \/ statCmdsPresence /\ Load("stat_cmds")
  \/ leaseCmdsPresence /\ Load("lease_cmds")
  \/ hostCmdsPresence /\ Load("host_cmds")
  \/ /\ subnetCmdsAndConfigBackendMutualExclusion
     /\ config' = [config EXCEPT !.hooks = @ \ {"subnet_cmds"}]
  \/ /\ highAvailabilityMultiThreadingMode
     /\ \E r \in config.ha : ~RelationMultiThreading(r) /\ Relate(r, [r EXCEPT !.mt = "yes"])
  \/ \E r \in highAvailabilityDedicatedPorts :
       Relate(r, IF DedicatedListener(r) THEN [r EXCEPT !.port = "own"] ELSE [r EXCEPT !.listener = "yes"])

RepairAgent ==
  \/ credentialsOverHTTPS /\ config' = [config EXCEPT !.tls = TRUE]
  \/ controlSocketsCA /\ config' = [config EXCEPT !.sockets = @ \cup {"dhcp4"}]

Upgrade == statisticsOverflow /\ daemon' = [daemon EXCEPT !.version = 4] /\ UNCHANGED config

Repair ==
  /\ repairing
  /\ IF daemon.name = "ca"
     THEN RepairAgent /\ UNCHANGED daemon
     ELSE \/ (RepairPlan \/ RepairFeatures) /\ UNCHANGED daemon
          \/ Upgrade
  /\ UNCHANGED <<hosts, edits, repairing>>

Next == Edit \/ BeginRepairs \/ Repair
Spec == Init /\ [][Next]_vars /\ WF_vars(Repair)

-----------------------------------------------------------------------------
(* Properties.                                                             *)

\* A report of overlapping subnets lists pairs that share an address, and all
\* of them unless there are more than it may list.
OverlapsAreFound ==
  LET inside(i) == {a \in 0..(2^Width - 1) : Masked(a, Subnet(i).prefix[2]) = Network(Subnet(i).prefix)}
      proper == {i \in AllSubnets : Subnet(i).prefix[2] < Width}
      sharing == {S \in SUBSET proper : Cardinality(S) = 2 /\ \A i, j \in S : inside(i) \cap inside(j) # {}}
      listed == {{p[1], p[2]} : p \in findOverlaps}
  IN /\ listed \subseteq sharing
     /\ Cardinality(findOverlaps) = IF Cardinality(sharing) < MaxIssues THEN Cardinality(sharing) ELSE MaxIssues

\* Out-of-pool reservations are recommended only for subnets where Kea would
\* still find every reservation: none of them is for an address of a pool or
\* for one of the prefixes that a pool delegates.  (Reservations in a database
\* are unknown without the host commands; IPv4 pools in CIDR form are
\* overlooked.)
DelegatedPrefixes(pool) ==
  {<<a, pool.delegated>> : a \in {b \in 0..(2^Width - 1) :
     b % 2^(Width - pool.delegated) = 0 /\ Masked(b, pool.prefix[2]) = Network(pool.prefix)}}
AdviceIsSafe ==
  daemon.name # "ca" /\ ("hosts" \in config.databases => HasHook("host_cmds")) =>
    \A i \in reservationsOutOfPool :
      \A r \in Subnet(i).reservations \cup {h.resv : h \in {x \in hosts : x.subnet = i}} :
        /\ \A pool \in Subnet(i).pools :
             daemon.name = "dhcp6" \/ ~pool.cidr => r.addresses \cap (pool.first..pool.last) = {}
        /\ \A pool \in Subnet(i).pdPools :
             pool.delegated < Width => r.prefixes \cap DelegatedPrefixes(pool) = {}

\* Whoever follows the reports, in any order, gets to a configuration without
\* any: no two checkers demand the opposite, and none keeps its report.
RepairsEnd == repairing ~> Reports = {}
=============================================================================
