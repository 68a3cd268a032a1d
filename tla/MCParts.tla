------------------------------ MODULE MCParts ------------------------------
(***************************************************************************)
(* Twelve parts of Stork that share no state, model-checked in one run.    *)
(* Each initial state chooses the part that runs; the variables of the     *)
(* other parts stay as they are, so that the state space is the disjoint   *)
(* union of those of the parts and not their product.  A property of a     *)
(* part is given here under its own name.                                  *)
(***************************************************************************)
EXTENDS Naturals, Sequences, TLC

CONSTANTS
  \* A model value: no statistics yet.
  NoStatistics,
  \* Of the parts about which theorems are proved.
  Requesters, CheckedDaemons, CheckerNames, AvailableCheckers, AllDaemons, MaxPuts,
  SubnetIds, MaxKeaChanges, MaxNamedChanges,
  LeaseApps, RecentApps, LeaseHooks, AllLeases, LeaseTexts, LeaseHost, EmptyId, MaxGranted,
  FormUsers, FormDaemons, Settable, Others, Values, Absent, MaxSubmits, MaxOutside,
  Views, Zones, MaxSaves,
  ShortWindow, LongWindow, MaxCounter, MaxTime, MaxSent, MaxRestarts,
  CountedApps, HAPair, Subnets4, Subnets6, ServedSubnets, NetworkOf, NoNetwork, PoolSizes, MaxUint, MaxLeased

VARIABLE part

-----------------------------------------------------------------------------
(* Checkers of configurations: addresses of three bits.  The pool that is  *)
(* not a prefix, the reservation inside of a pool and those of Kea 1.7     *)
(* (version 1) are the cases in which the advice differs.                  *)

VARIABLES daemon, config, hosts, edits, repairing
checkersVars == <<daemon, config, hosts, edits, repairing>>

Pool(first, last, cidr) == [first |-> first, last |-> last, cidr |-> cidr]
Reserving(addresses, prefixes) == [addresses |-> addresses, prefixes |-> prefixes]

C == INSTANCE Checkers WITH
  Width <- 3, MaxIssues <- 2, MaxInt <- 3, MaxEdits <- 3, Versions <- {1, 3},
  SubnetPrefixes <- {<<0, 1>>, <<4, 1>>, <<5, 2>>, <<5, 3>>},
  Pools <- {Pool(0, 1, TRUE), Pool(2, 2, FALSE), Pool(4, 6, FALSE)},
  PDPools <- {[prefix |-> <<4, 1>>, delegated |-> 2]},
  Reservations <- {Reserving({}, {}), Reserving({1}, {}), Reserving({2}, {}),
                   Reserving({}, {<<4, 2>>}), Reserving({4}, {<<6, 2>>})}

-----------------------------------------------------------------------------
(* Enabled and disabled checkers: one checker is for both daemons.         *)

VARIABLES states, preferences, put, puts, unsettled
statesVars == <<states, preferences, put, puts, unsettled>>

S == INSTANCE CheckerStates WITH
  Users <- Requesters, Daemons <- CheckedDaemons, Checkers <- CheckerNames,
  Available <- AvailableCheckers, Global <- AllDaemons

\* A daemon has checkers of its own.
ASSUME StatesAssumption == S!StatesAssumption
MCAvailable == [d \in {"d1", "d2"} |-> IF d = "d1" THEN {"c1", "c2"} ELSE {"c1"}]

-----------------------------------------------------------------------------
(* Users and sessions: two browsers, the first administrator, a user with  *)
(* a password and one a hook authenticates.                                *)

VARIABLES account, session, request, requests, asked, disputed
accessVars == <<account, session, request, requests, asked, disputed>>

A == INSTANCE Access WITH
  Clients <- {"c1", "c2"}, Users <- {"u0", "u1", "e1"}, Externals <- {"e1"},
  Root <- "u0", MaxRequests <- 4, unsettled <- disputed

-----------------------------------------------------------------------------
(* The exporters of Kea's and of BIND 9's statistics.                      *)

VARIABLES keaServed, gauges, round, active, running, keaChanges
keaExporterVars == <<keaServed, gauges, round, active, running, keaChanges>>

K == INSTANCE KeaExporter WITH
  Ids <- SubnetIds, MaxChanges <- MaxKeaChanges, kea <- keaServed, changes <- keaChanges

VARIABLES named, namedStats, exported, namedChanges
bind9ExporterVars == <<named, namedStats, exported, namedChanges>>

B == INSTANCE Bind9Exporter WITH
  MaxChanges <- MaxNamedChanges, stats <- namedStats, changes <- namedChanges

-----------------------------------------------------------------------------
(* Responses per second: windows of one and two units of time, a counter   *)
(* that is at most one packet from its limit after one restart.            *)

VARIABLES now, counter, sent, restarts, previous, pull, intervals, rates, asOf, slowest
ratesVars == <<now, counter, sent, restarts, previous, pull, intervals, rates, asOf, slowest>>

R == INSTANCE ResponseRates WITH
  Interval1 <- ShortWindow, Interval2 <- LongWindow, MaxInt <- MaxCounter

ASSUME RatesAssumption == R!RatesAssumption

-----------------------------------------------------------------------------
(* Statistics of leases: two servers in HA and one on its own, a subnet of *)
(* IPv4 and two of IPv6 in one shared network, of which one has more than  *)
(* a 64-bit counter (here 7) holds.                                        *)

VARIABLES leased, up, passive, old, hooked, reserved, global,
          local, stats, nets, totals, stage, counted, quiet, leaseChanges
leaseVars == <<leased, up, passive, old, hooked, reserved, global,
               local, stats, nets, totals, stage, counted, quiet, leaseChanges>>

L == INSTANCE LeaseStatistics WITH
  Apps <- CountedApps, Pair <- HAPair, Serves <- ServedSubnets, Network <- NetworkOf, Pools <- PoolSizes,
  MaxChanges <- MaxLeased, counter <- counted, changes <- leaseChanges

ASSUME LeasesAssumption == L!LeasesAssumption

MCCounted   == <<{"d1"}, {"d2", "d3"}>>
MCServedSubnets == [d \in {"d1", "d2", "d3"} |-> IF d = "d3" THEN {"t6"} ELSE {"s4", "s6"}]
MCNetworkOf == [s \in {"s4", "s6", "t6"} |-> IF s = "s4" THEN "none" ELSE "n1"]
MCPoolSizes == [s \in {"s4", "s6", "t6"} |-> IF s = "s4" THEN 3 ELSE 5]

-----------------------------------------------------------------------------
(* Search for leases: an app of Kea 2.3.8 with both families, an older one *)
(* with IPv4 only, four leases and five kinds of text.                     *)

VARIABLES held, search, queryType, position, left, failing, found, erred, throughout, granted
searchVars ==
  <<held, search, queryType, position, left, failing, found, erred, throughout, granted>>

Lease(family, type, address, hw, client, duid, hostname, state) ==
  [family |-> family, type |-> type, address |-> address, hw |-> hw, client |-> client,
   duid |-> duid, hostname |-> hostname, state |-> state]
Text(kind, value, short) == [kind |-> kind, value |-> value, short |-> short]

F == INSTANCE LeaseSearch WITH
  Apps <- LeaseApps, Recent <- RecentApps, Hooks <- LeaseHooks, Leases <- AllLeases,
  Texts <- LeaseTexts, Host <- LeaseHost, Empty <- EmptyId, MaxChanges <- MaxGranted,
  changes <- granted

ASSUME SearchAssumption == F!SearchAssumption

MCApps == <<"a2", "a1">>
MCHooks == [a \in {"a1", "a2"} |-> IF a = "a1" THEN {4} ELSE {4, 6}]
MCLeases == {Lease(4, "V4", "x", "01", "01", "", "n", "default"),
             Lease(4, "V4", "x", "", "", "", "", "declined"),
             Lease(6, "IA_NA", "y", "", "", "01", "n", "default"),
             Lease(6, "IA_PD", "p", "", "", "", "n", "declined")}
MCTexts == {Text("ipv4", "x", FALSE), Text("ipv6", "p", FALSE), Text("identifier", "01", FALSE),
            Text("identifier", "n", TRUE), Text("hostname", "n", FALSE)}
MCHost == [addresses |-> {<<"v4", "x">>, <<"na", "y">>}, ids |-> {<<"client-id", "01">>},
           flexible |-> FALSE]

-----------------------------------------------------------------------------
(* Forms of global parameters: two users, two daemons, a parameter of the  *)
(* form and one it has not.                                                *)

VARIABLES kea, file, db, pulled, lock, tx, disturbed, submits, outside
parametersVars == <<kea, file, db, pulled, lock, tx, disturbed, submits, outside>>

G == INSTANCE GlobalParameters WITH
  Transactions <- FormUsers, Daemons <- FormDaemons

-----------------------------------------------------------------------------
(* Host reservations: two daemons, one of them with reservations in its    *)
(* configuration and in its host database, one client, two addresses.      *)

VARIABLES given, rows, stored, work, overtaken, twins, givenEdits
reservationsVars == <<given, rows, stored, work, overtaken, twins, givenEdits>>

H == INSTANCE Reservations WITH
  Sources <- {<<"d1", "config">>, <<"d1", "api">>, <<"d2", "config">>},
  Places <- {"p"}, Clients <- {"c"}, Addresses <- {1, 2}, MaxEdits <- 1, edits <- givenEdits

-----------------------------------------------------------------------------
(* Subnets and shared networks: two daemons, one network, one prefix with  *)
(* two contents, and a change of one configuration.                        *)

VARIABLES wanted, networkRows, subnetRows, lastRow, committed, commits, overwritten, doubled, wantedEdits
networksVars == <<wanted, networkRows, subnetRows, lastRow, committed, commits, overwritten, doubled,
                  wantedEdits>>

N == INSTANCE Networks WITH
  Daemons <- {"d1", "d2"}, Names <- {"n"}, Prefixes <- {"p"}, NoName <- "none", Contents <- {1, 2},
  MaxEdits <- 1, config <- wanted, nets <- networkRows, subnets <- subnetRows, last <- lastRow,
  stored <- committed, work <- commits, overtaken <- overwritten, twins <- doubled,
  edits <- wantedEdits

-----------------------------------------------------------------------------
(* The files of a zone inventory.                                          *)

VARIABLES files, meta, memory, save, lastSaved, saves
filesVars == <<files, meta, memory, save, lastSaved, saves>>

Z == INSTANCE ZoneFiles WITH last <- lastSaved

ASSUME FilesAssumption == Z!FilesAssumption

-----------------------------------------------------------------------------
Parts == {"checkers", "states", "access", "kea exporter", "bind9 exporter", "rates", "leases",
          "search", "parameters", "reservations", "networks", "files"}

\* A part that does not run has one initial state.
PartsInit ==
  /\ part \in Parts
  /\ C!Init
  /\ part # "checkers" =>
       daemon.name = "ca" /\ daemon.version = 1 /\ config.databases = {} /\ "host_cmds" \notin config.hooks
  /\ R!Init /\ (part # "rates" => counter = 0)
  /\ L!Init /\ (part # "leases" => old = {} /\ hooked = L!Daemons)
  /\ H!Init /\ (part # "reservations" => given = [s \in DOMAIN given |-> {}])
  /\ N!Init /\ (part # "networks" => wanted = [d \in DOMAIN wanted |-> N!Nothing])
  /\ S!Init /\ A!Init /\ K!Init /\ B!Init /\ F!Init /\ G!Init /\ Z!Init

Idle1 == UNCHANGED <<checkersVars, statesVars, accessVars>>
Idle2 == UNCHANGED <<keaExporterVars, bind9ExporterVars, ratesVars>>
Idle3 == UNCHANGED <<leaseVars, searchVars, parametersVars>>
Idle4 == UNCHANGED <<reservationsVars, networksVars, filesVars>>

CheckersStep ==
  /\ part = "checkers" /\ C!Next /\ Idle4
  /\ UNCHANGED <<statesVars, accessVars>> /\ Idle2 /\ Idle3
StatesStep ==
  /\ part = "states" /\ S!Next /\ Idle4
  /\ UNCHANGED <<checkersVars, accessVars>> /\ Idle2 /\ Idle3
AccessStep ==
  /\ part = "access" /\ A!Next /\ Idle4
  /\ UNCHANGED <<checkersVars, statesVars>> /\ Idle2 /\ Idle3
KeaExporterStep ==
  /\ part = "kea exporter" /\ K!Next /\ Idle4
  /\ Idle1 /\ UNCHANGED <<bind9ExporterVars, ratesVars>> /\ Idle3
Bind9ExporterStep ==
  /\ part = "bind9 exporter" /\ B!Next /\ Idle4
  /\ Idle1 /\ UNCHANGED <<keaExporterVars, ratesVars>> /\ Idle3
RatesStep ==
  /\ part = "rates" /\ R!Next /\ Idle4
  /\ Idle1 /\ UNCHANGED <<keaExporterVars, bind9ExporterVars>> /\ Idle3
LeasesStep ==
  /\ part = "leases" /\ L!Next /\ Idle4
  /\ Idle1 /\ Idle2 /\ UNCHANGED <<searchVars, parametersVars>>
SearchStep ==
  /\ part = "search" /\ F!Next /\ Idle4
  /\ Idle1 /\ Idle2 /\ UNCHANGED <<leaseVars, parametersVars>>
ParametersStep ==
  /\ part = "parameters" /\ G!Next /\ Idle4
  /\ Idle1 /\ Idle2 /\ UNCHANGED <<leaseVars, searchVars>>

ReservationsStep ==
  /\ part = "reservations" /\ H!Next
  /\ Idle1 /\ Idle2 /\ Idle3 /\ UNCHANGED <<networksVars, filesVars>>
NetworksStep ==
  /\ part = "networks" /\ N!Next
  /\ Idle1 /\ Idle2 /\ Idle3 /\ UNCHANGED <<reservationsVars, filesVars>>
FilesStep ==
  /\ part = "files" /\ Z!Next
  /\ Idle1 /\ Idle2 /\ Idle3 /\ UNCHANGED <<reservationsVars, networksVars>>

PartsNext ==
  /\ UNCHANGED part
  /\ \/ CheckersStep \/ StatesStep \/ AccessStep \/ KeaExporterStep \/ Bind9ExporterStep
     \/ RatesStep \/ LeasesStep \/ SearchStep \/ ParametersStep
     \/ ReservationsStep \/ NetworksStep \/ FilesStep

partsVars ==
  <<part, checkersVars, statesVars, accessVars, keaExporterVars, bind9ExporterVars, ratesVars,
    leaseVars, searchVars, parametersVars, reservationsVars, networksVars, filesVars>>

\* The only fairness: an administrator who has begun to follow the reports goes on.
PartsSpec ==
  /\ PartsInit /\ [][PartsNext]_partsVars
  /\ WF_checkersVars(part = "checkers" /\ C!Repair /\ UNCHANGED part
                     /\ UNCHANGED <<statesVars, accessVars>> /\ Idle2 /\ Idle3 /\ Idle4)

-----------------------------------------------------------------------------
(* Properties, one for each kind of promise; the modules state the parts.  *)

\* Checkers: the overlapping subnets that a report lists are those that share
\* an address, and what is advised about reservations out of the pools leaves
\* every reservation where Kea finds it.
ReportsAreTrue == part = "checkers" => C!OverlapsAreFound /\ C!AdviceIsSafe

\* Checkers: whoever follows the reports, in any order, gets rid of them all.
RepairsEnd == C!RepairsEnd

\* CheckerStates: a checker is enabled for a daemon exactly if it will be
\* after a restart of the server.  ZoneFiles: an inventory that a restarted
\* agent can load is of a save that came to its end, or of one that could not
\* remove the old metadata.
RestartsLoseNothing ==
  /\ part = "states" => S!StatesSurviveRestart
  /\ part = "files" => Z!MetaIsOfWholeViews

\* Access: accounts are what the last request about them asked for, and who is
\* logged in has one, although a request takes many statements and may fail
\* between two of them.  Reservations, Networks: the rows of hosts, subnets and shared
\* networks have of each daemon what it had, although every transaction writes
\* the parts of other daemons back and deletes what no daemon has.
RowsAreAsAsked ==
  /\ part = "access" => A!AccountsAreAsAsked /\ A!LoggedInHaveAccounts
  /\ part = "reservations" => H!RowsAreAsStored
  /\ part = "networks" => N!RowsAreAsStored

\* KeaExporter, Bind9Exporter: the series given to Prometheus after a round
\* are the values of the subnets they name, and those of one answer.
ExportsAreTrue ==
  /\ part = "kea exporter" => K!SeriesAreCurrent
  /\ part = "bind9 exporter" => B!GivenIsOneAnswer

\* ResponseRates: no response counts twice, or further outside of its window than
\* the slowest answer took, whatever restarts, rolls over, fails or is late.
RatesAreTrue == part = "rates" => R!RatesAreTrue

\* LeaseStatistics: after a quiet pull the statistics of subnets and shared
\* networks and the totals are exact.
StatisticsAreExact == part = "leases" => L!StatisticsAreExact

\* LeaseSearch: a search finds what Kea held throughout or names the server.
SearchIsHonest == part = "search" => F!SearchIsHonest

\* GlobalParameters: a form submitted with success is what Kea then has.
SuccessIsTheForm == part = "parameters" => G!SuccessIsTheForm
=============================================================================
