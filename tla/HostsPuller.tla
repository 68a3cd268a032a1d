----------------------------- MODULE HostsPuller -----------------------------
(***************************************************************************)
(* The puller of host reservations (server/apps/kea/host.go) and one       *)
(* daemon.  It reads page after page what the daemon has, globally and in  *)
(* each subnet, and compares the pages with those of the pull before,      *)
(* which it keeps in memory.  At the first difference it begins a          *)
(* transaction that replaces all that the database has from this daemon.   *)
(*                                                                         *)
(* Kea may change, fail or lose the command between two pages.  What       *)
(* users change through the server is in KeaChanges.                       *)
(***************************************************************************)
EXTENDS Integers, Sequences, FiniteSets, FiniteSetsExt, SequencesExt

CONSTANTS
  Subnets,     \* how many subnets the daemon has
  Reservations,\* the reservations, numbered as Kea does
  Limit,       \* reservations on a page
  MaxChanges,  \* bound: changes of the reservations in Kea
  MaxFaults    \* bound: failures, and restarts of the server

ASSUME HostsAssumption ==
  /\ Reservations \subseteq Nat \ {0} /\ IsFiniteSet(Reservations)
  /\ Subnets \in Nat /\ Limit \in Nat \ {0} /\ MaxChanges \in Nat /\ MaxFaults \in Nat

VARIABLES
  kea,      \* where each reservation is: 0 nowhere
  db,       \* the pairs of a place and a reservation that the database has
  trace,    \* the pages of the last pull, if they are known
  it,       \* the iterator: whether it runs, its place, from and pages
  tx,       \* what the transaction has written, or NoTx
  changes, faults,
  still,    \* history: nothing has changed or was refused during this pull
  missed,   \* history: a pull could not notice a change (see Alike)
  had       \* history: the pairs Kea has had

vars == <<kea, db, trace, it, tx, changes, faults, still, missed, had>>

\* The first place is global: reservations of no subnet.
Places == 1..(Subnets + 1)
NoTrace == [known |-> FALSE, pages |-> <<>>]
\* An open transaction has written a reservation at least.
NoTx == {}
Stopped == [runs |-> FALSE, place |-> 1, from |-> 0, pages |-> <<>>]
Pairs(k) == {<<k[h], h>> : h \in {g \in Reservations : k[g] # 0}}
PairsOf(pages) == UNION {{<<p.place, h>> : h \in p.hosts} : p \in ToSet(pages)}

Init ==
  /\ kea \in [Reservations -> Places \cup {0}]
  /\ db = {}
  /\ trace = NoTrace
  /\ it = Stopped
  /\ tx = NoTx
  /\ changes = 0 /\ faults = 0
  /\ still = TRUE /\ missed = FALSE
  /\ had = Pairs(kea)

-----------------------------------------------------------------------------
(* The pull                                                                *)

Begin ==
  /\ ~it.runs
  /\ it' = [Stopped EXCEPT !.runs = TRUE]
  /\ still' = TRUE
  /\ UNCHANGED <<kea, db, trace, tx, changes, faults, missed, had>>

\* Every page so far has the hash of the page at its position in the trace; the trace
\* may be longer, and the place is not part of the hash.
EqualHashes(pages) ==
  /\ trace.known
  /\ Len(pages) <= Len(trace.pages)
  /\ \A i \in 1..Len(pages) : pages[i].hosts = trace.pages[i].hosts

\* reservation-get-page: reservations of the place with the next higher numbers.
Page ==
  LET rest == {h \in Reservations : kea[h] = it.place /\ h > it.from} IN
  {h \in rest : Cardinality({g \in rest : g <= h}) <= Limit}

\* Mutated form: the pages so far are written to the place of the last one.
WrittenToLastPlace(pages) ==
  IF tx = NoTx THEN IF EqualHashes(pages) THEN NoTx
                    ELSE PairsOf([i \in 1..Len(pages) |-> [pages[i] EXCEPT !.place = it.place]])
  ELSE tx \cup PairsOf(<<Last(pages)>>)

\* The first page that differs begins the transaction: what the database had from the
\* daemon is deleted, and the pages so far are written.
Written(pages) ==
  IF tx = NoTx THEN IF EqualHashes(pages) THEN NoTx ELSE PairsOf(pages)
  ELSE tx \cup PairsOf(<<Last(pages)>>)

ReadPage ==
  LET pages == Append(it.pages, [place |-> it.place, hosts |-> Page]) IN
  /\ it.runs /\ it.place \in Places
  /\ IF Page = {}
     THEN /\ it' = [it EXCEPT !.place = @ + 1, !.from = 0]
          /\ UNCHANGED tx
     ELSE /\ it' = [it EXCEPT !.pages = pages, !.from = Max(Page)]
          /\ tx' = Written(pages)
  /\ UNCHANGED <<kea, db, trace, changes, faults, still, missed, had>>

\* The daemon does not have the command any more: no more pages, and no error.
Unsupported ==
  /\ it.runs /\ it.place \in Places
  /\ faults < MaxFaults
  /\ faults' = faults + 1
  /\ it' = [it EXCEPT !.place = Subnets + 2]
  /\ still' = FALSE
  /\ UNCHANGED <<kea, db, trace, tx, changes, missed, had>>

\* History: what cannot be told apart from the pull before.  Pages are missing at the
\* end, or have gone to another place; or no page came and the trace is not known.
Alike(pages) ==
  IF trace.known THEN EqualHashes(pages) /\ pages # trace.pages ELSE pages = <<>>

\* All pages are read: the transaction, if there is one, is committed, a review begins,
\* and the pages become the trace.
Finish ==
  /\ it.runs /\ it.place \notin Places
  /\ db' = IF tx = NoTx THEN db ELSE tx
  /\ missed' = IF tx = NoTx THEN missed \/ Alike(it.pages) ELSE FALSE
  /\ trace' = [known |-> TRUE, pages |-> it.pages]
  /\ tx' = NoTx
  /\ it' = Stopped
  /\ UNCHANGED <<kea, changes, faults, still, had>>

\* Kea or the database fails: the transaction is rolled back and the trace is kept.
Fail ==
  /\ it.runs
  /\ faults < MaxFaults
  /\ faults' = faults + 1
  /\ it' = Stopped /\ tx' = NoTx
  /\ UNCHANGED <<kea, db, trace, changes, still, missed, had>>

-----------------------------------------------------------------------------
(* Others                                                                  *)

\* Traces are not stored.
Restart ==
  /\ faults < MaxFaults
  /\ faults' = faults + 1
  /\ it' = Stopped /\ tx' = NoTx /\ trace' = NoTrace
  /\ UNCHANGED <<kea, db, changes, still, missed, had>>

\* A reservation is added, moved or deleted in Kea.
Change(h, p) ==
  /\ changes < MaxChanges
  /\ kea[h] # p
  /\ kea' = [kea EXCEPT ![h] = p]
  /\ changes' = changes + 1
  /\ still' = FALSE
  /\ had' = had \cup Pairs(kea')
  /\ UNCHANGED <<db, trace, it, tx, faults, missed>>

Pull == Begin \/ ReadPage \/ Finish
Next ==
  \/ Pull \/ Unsupported \/ Fail \/ Restart
  \/ \E h \in Reservations, p \in Places \cup {0} : Change(h, p)

Spec == Init /\ [][Next]_vars

-----------------------------------------------------------------------------
(* Properties                                                              *)

\* Type invariant.
TypeOK ==
  /\ kea \in [Reservations -> Places \cup {0}]
  /\ db \subseteq Places \X Reservations
  /\ trace.known \in BOOLEAN
  /\ \A p \in ToSet(trace.pages \o it.pages) :
       p.place \in Places /\ p.hosts \subseteq Reservations /\ Cardinality(p.hosts) \in 1..Limit
  /\ it.runs \in BOOLEAN /\ it.place \in 1..(Subnets + 2)
  /\ it.from \in Reservations \cup {0}
  /\ tx \subseteq Places \X Reservations /\ (it.runs \/ tx = NoTx)
  /\ changes \in 0..MaxChanges /\ faults \in 0..MaxFaults
  /\ still \in BOOLEAN /\ missed \in BOOLEAN
  /\ had \subseteq Places \X Reservations

\* A pull during which nothing changed leaves the database with what Kea has, whether it
\* wrote or found nothing to write, unless a change could not be noticed by the pages'
\* hashes: then the database is wrong until a page differs.
PullMirrors == [][Finish /\ still => db' = Pairs(kea) \/ missed']_vars

\* The database has only what Kea has had at some time, whatever changes between two
\* pages of a pull, fails or is repeated.
OnlyWhatKeaHad == db \subseteq had

=============================================================================
