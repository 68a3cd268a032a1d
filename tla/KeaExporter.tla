----------------------------- MODULE KeaExporter -----------------------------
(***************************************************************************)
(* The exporter of Kea's statistics to Prometheus                          *)
(* (agent/promkeaexporter.go).  At a ticker it asks the daemons of an      *)
(* application for their statistics, then for their lists of subnets, and  *)
(* keeps what they answer in gauges, one series for a subnet and prefix.   *)
(* A value is abstracted to the number of changes of its daemon.           *)
(***************************************************************************)
EXTENDS Naturals, FiniteSets

CONSTANTS Ids,         \* identifiers of subnets; both daemons use them
          MaxChanges   \* bound: changes of Kea

Families == {4, 6}

VARIABLES kea,       \* per family: whether it answers, its subnets, its value
          gauges,    \* series with their values
          round,     \* collectStats
          active,    \* gauges of active daemons
          running,   \* the collector loop
          changes

vars == <<kea, gauges, round, active, running, changes>>

Waiting == [step |-> "wait", answer |-> [f \in Families |-> {}], asked |-> {}, services |-> {},
            cache |-> {}, cached |-> FALSE, family |-> 4, steady |-> FALSE, failed |-> FALSE]

Init ==
  /\ kea = [f \in Families |-> [alive |-> TRUE, subnets |-> {}, value |-> 0]]
  /\ gauges = {} /\ round = Waiting /\ running = TRUE
  /\ active = [f \in Families |-> 0]
  /\ changes = 0

-----------------------------------------------------------------------------
KeaChanges ==
  \E f \in Families :
    /\ changes < MaxChanges /\ changes' = changes + 1
    /\ \E S \in SUBSET Ids, up \in BOOLEAN :
         kea' = [kea EXCEPT ![f] = [alive |-> up, subnets |-> S, value |-> @.value + 1]]
    /\ round' = [round EXCEPT !.steady = FALSE]
    /\ UNCHANGED <<gauges, active, running>>

\* The prefix of a subnet, and none if the list of subnets is not to be had.
Prefix(f, i) == <<f, i>>
NoPrefix == <<0, 0>>

\* The values of a daemon's subnets; a daemon that is gone answers with nothing.
Answer(f) == IF kea[f].alive THEN {<<i, kea[f].value>> : i \in kea[f].subnets} ELSE {}

\* get-all-statistic for the daemons that the monitor saw answer.  A daemon
\* that is gone answers with nothing, and its place in the answer stays; an
\* error of a daemon, or of the control agent, ends the round.
FetchStats ==
  /\ running /\ round.step = "wait"
  /\ \E services \in SUBSET Families :
       /\ services # {}
       /\ round' = [Waiting EXCEPT !.step = "store", !.asked = services, !.services = services,
                      !.steady = TRUE,
                      !.answer = [f \in Families |-> IF f \in services THEN Answer(f) ELSE {}]]
  /\ UNCHANGED <<kea, gauges, active, running, changes>>

FetchFails ==
  /\ running /\ round.step = "wait"
  /\ active' = [f \in Families |-> 0]
  /\ UNCHANGED <<kea, gauges, round, running, changes>>

\* Mutated form: the prefixes stay cached when the family changes.
setFamilyOnly(r, f) == [r EXCEPT !.family = f]
setFamily(r, f) == [r EXCEPT !.family = f, !.cached = FALSE]

\* getPrefix asks Kea for the list of subnets once for a family.
SubnetList(f) == {<<i, Prefix(f, i)>> : i \in IF kea[f].alive THEN kea[f].subnets ELSE {}}
fetchAndCachePrefixes(r) ==
  IF r.cached THEN {r}
  ELSE {[r EXCEPT !.cached = TRUE, !.cache = SubnetList(r.family)],
        [r EXCEPT !.cached = TRUE, !.cache = {}, !.failed = TRUE]}
getPrefix(r, i) == IF \E e \in r.cache : e[1] = i THEN (CHOOSE e \in r.cache : e[1] = i)[2] ELSE NoPrefix

\* The series of a family with the values of an answer; the other series stay.
setDaemonStats(r, f) ==
  LET new == {[family |-> f, id |-> e[1], prefix |-> getPrefix(r, e[1]), value |-> e[2]] : e \in r.answer[f]}
      same(g, h) == g.family = h.family /\ g.id = h.id /\ g.prefix = h.prefix
  IN {g \in gauges : \A h \in new : ~same(g, h)} \cup new

\* The daemons in the order of the request, dhcp4 first.  In the end every
\* daemon that was asked counts as active.
StoreStats ==
  /\ round.step = "store"
  /\ LET f == IF 4 \in round.services THEN 4 ELSE 6 IN
     \E r \in IF round.answer[f] = {} THEN {setFamily(round, f)} ELSE fetchAndCachePrefixes(setFamily(round, f)) :
       /\ gauges' = setDaemonStats(r, f)
       /\ active' = IF round.services = {f}
                    THEN [g \in Families |-> IF g \in round.asked THEN 1 ELSE 0] ELSE active
       /\ round' = [r EXCEPT !.services = @ \ {f},
                             !.step = IF round.services = {f} THEN "wait" ELSE "store"]
  /\ UNCHANGED <<kea, running, changes>>

\* Shutdown waits until no round is in progress; the gauges are unregistered.
Shutdown ==
  /\ running /\ round.step = "wait"
  /\ running' = FALSE
  /\ gauges' = {} /\ round' = Waiting
  /\ UNCHANGED <<kea, active, changes>>

Next == KeaChanges \/ FetchStats \/ FetchFails \/ StoreStats \/ Shutdown
Spec == Init /\ [][Next]_vars

-----------------------------------------------------------------------------
\* After a round in which Kea did not change, every subnet of a daemon that
\* answered has a series with its own prefix and its present value, unless
\* the list of subnets was not to be had.  Both daemons number their subnets
\* alike, and the round asks for two lists with one cache.
SeriesAreCurrent ==
  round.step = "wait" /\ round.steady /\ ~round.failed =>
    \A f \in Families : round.answer[f] # {} =>
      \A i \in kea[f].subnets :
        [family |-> f, id |-> i, prefix |-> Prefix(f, i), value |-> kea[f].value] \in gauges
==============================================================================
