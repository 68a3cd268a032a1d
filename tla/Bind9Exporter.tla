---------------------------- MODULE Bind9Exporter ----------------------------
(***************************************************************************)
(* The exporter of BIND 9's statistics to Prometheus                       *)
(* (agent/prombind9exporter.go).  It asks the servers when Prometheus asks *)
(* the exporter, stores an answer part by part, and gives what it has      *)
(* stored.  A value is abstracted to its server and the number of times    *)
(* that this server has changed.                                           *)
(***************************************************************************)
EXTENDS Naturals

CONSTANT MaxChanges   \* bound: changes of the servers

VARIABLES named,     \* two servers: views and value
          stats,     \* what the exporter has stored, each part with its origin
          exported,  \* what Prometheus was given last
          changes

vars == <<named, stats, exported, changes>>

NoStats == [times |-> <<0, 0>>, server |-> <<0, 0>>, views |-> [v \in {} |-> <<0, 0>>]]

Init ==
  /\ named = [n \in 1..2 |-> [up |-> TRUE, value |-> 1, views |-> {"default"}]]
  /\ stats = NoStats
  /\ exported = [up |-> FALSE, stats |-> NoStats]
  /\ changes = 0

NamedChanges ==
  /\ changes < MaxChanges /\ changes' = changes + 1
  /\ \E n \in 1..2, S \in SUBSET {"guest"}, up \in BOOLEAN :
       named' = [named EXCEPT ![n] = [up |-> up, value |-> @.value + 1, views |-> {"default"} \cup S]]
  /\ UNCHANGED <<stats, exported>>

Origin(n) == <<n, named[n].value>>

\* Views are never removed from what is stored; views of two servers with one
\* name are one.
scrapeViewStats(s, n) ==
  [v \in DOMAIN s.views \cup named[n].views |-> IF v \in named[n].views THEN Origin(n) ELSE s.views[v]]

\* setDaemonStats stops at the first part of an answer that it cannot parse.
setDaemonStatsUpTo(part, s, n) ==
  [times  |-> IF part >= 1 THEN Origin(n) ELSE s.times,
   server |-> IF part >= 2 THEN Origin(n) ELSE s.server,
   views  |-> IF part >= 3 THEN scrapeViewStats(s, n) ELSE s.views]

\* collectStats for one server: what is stored then, and whether it answered.
Asked(s, n) ==
  IF ~named[n].up THEN {<<s, FALSE>>}
  ELSE {<<setDaemonStatsUpTo(part, s, n), part = 3>> : part \in 0..3}

\* "up" tells that a server has answered; nothing else is given unless all have.
Given(s, ok) ==
  IF ok = {TRUE} THEN [up |-> TRUE, stats |-> s] ELSE [up |-> TRUE \in ok, stats |-> NoStats]

\* Collect asks the servers one after the other.
Collect ==
  /\ \E first \in Asked(stats, 1) : \E second \in Asked(first[1], 2) :
       /\ stats' = second[1]
       /\ exported' = Given(second[1], {first[2], second[2]})
  /\ UNCHANGED <<named, changes>>

Next == NamedChanges \/ Collect
Spec == Init /\ [][Next]_vars

-----------------------------------------------------------------------------
\* What is given to Prometheus is of one answer, the times, the statistics of
\* the server and those of its views alike (only views that the server does
\* not have are of another): what is stored of an answer that could not be
\* parsed to its end is never given.
GivenIsOneAnswer ==
  LET s == exported.stats IN
  s # NoStats => exported.up /\ s.server = s.times /\ s.views["default"] = s.times
==============================================================================
