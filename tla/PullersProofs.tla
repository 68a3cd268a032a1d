---------------------------- MODULE PullersProofs ----------------------------
(***************************************************************************)
(* Proofs about the puller of host reservations and the periodic executor  *)
(* that runs it: the database never has a reservation at a place where Kea *)
(* never had it (OnlyWhatKeaHad), an undisturbed pull leaves it with what  *)
(* Kea has or misses a change (PullMirrors), and a paused executor is      *)
(* quiet (PausedIsQuiet), for any number of subnets, reservations and      *)
(* handlers, any size of a page, any intervals, changes and faults.        *)
(*                                                                         *)
(* A commit writes what a transaction collected, and that comes from pages *)
(* that were read at different moments; so the strengthening says the same *)
(* of the transaction and of the pages that the iterator keeps.  For the   *)
(* mirror it says what the iterator has passed, and that the trace is what *)
(* the database has.  For the executor it bounds the count of the pauses   *)
(* also while pauses have been forgotten, and ties the ticker to it.       *)
(*                                                                         *)
(* At the end, the rows that the state puller and the status puller write  *)
(* under each other: one HA relationship never has two services            *)
(* (OneService), whatever the servers do and whichever are authorized.     *)
(***************************************************************************)
EXTENDS Pullers, MCHAServices, TLAPS, FiniteSetTheorems, WellFoundedInduction

-----------------------------------------------------------------------------
(* What the database has, Kea had                                          *)

HostPage == [place: Places, hosts: SUBSET Reservations]
\* Of the iterator only its pages matter here.
IteratorShape == {"place", "pages"} \subseteq DOMAIN it /\ it.pages \in Seq(HostPage)
KeaShape == kea \in [Reservations -> Places \cup {0}]
KeaIsHad == Pairs(kea) \subseteq had
TransactionHad == tx \subseteq had
PagesHad == PairsOf(it.pages) \subseteq had

HadInv ==
  IteratorShape /\ KeaShape /\ KeaIsHad /\ TransactionHad /\ PagesHad /\ OnlyWhatKeaHad

\* The pairs of some pages, and of one more.
LEMMA PairsOfNone == PairsOf(<<>>) = {}
  BY DEF PairsOf, ToSet

LEMMA PairsOfAppend ==
  ASSUME NEW pages \in Seq(HostPage), NEW page \in HostPage
  PROVE  PairsOf(Append(pages, page))
           = PairsOf(pages) \cup {<<page.place, h>> : h \in page.hosts}
<1> DEFINE more == Append(pages, page)
<1>1. /\ DOMAIN pages = 1..Len(pages) /\ Len(pages) \in Nat
      /\ DOMAIN more = 1..(Len(pages) + 1) /\ more[Len(pages) + 1] = page
      /\ \A i \in 1..Len(pages) : more[i] = pages[i]
  OBVIOUS
<1>2. DOMAIN more = DOMAIN pages \cup {Len(pages) + 1}
  BY <1>1
<1>3. ToSet(more) = ToSet(pages) \cup {page}
  <2> HIDE DEF more
  <2> QED BY <1>1, <1>2 DEF ToSet
<1> HIDE DEF more
<1>4. PairsOf(more) = PairsOf(pages) \cup {<<page.place, h>> : h \in page.hosts}
  BY <1>3 DEF PairsOf
<1> QED BY <1>4 DEF more

LEMMA PairsOfLast ==
  ASSUME NEW pages \in Seq(HostPage), NEW page \in HostPage
  PROVE  PairsOf(<<Last(Append(pages, page))>>) = {<<page.place, h>> : h \in page.hosts}
<1>1. Last(Append(pages, page)) = page
  BY DEF Last
<1>2. ToSet(<<page>>) = {page}
  BY DEF ToSet
<1> QED BY <1>1, <1>2, Zenon DEF PairsOf

\* The reservations of a page are at the place where Kea has them.
LEMMA PageIsHad ==
  ASSUME HadInv, it.place \in Places
  PROVE  /\ Page \subseteq Reservations
         /\ {<<it.place, h>> : h \in Page} \subseteq had
<1>1. \A h \in Page : h \in Reservations /\ kea[h] = it.place
  BY DEF Page
<1>2. it.place # 0
  BY HostsAssumption DEF Places
<1>3. \A h \in Page : <<it.place, h>> \in Pairs(kea)
  BY <1>1, <1>2 DEF Pairs
<1> QED BY <1>1, <1>3 DEF HadInv, KeaIsHad

LEMMA HadInit == Init => HadInv
<1> SUFFICES ASSUME Init PROVE HadInv
  OBVIOUS
<1>1. IteratorShape /\ KeaShape
  BY DEF Init, IteratorShape, KeaShape, Stopped
<1>2. PagesHad
  BY PairsOfNone DEF Init, PagesHad, Stopped
<1> QED BY <1>1, <1>2 DEF Init, HadInv, KeaIsHad, TransactionHad, OnlyWhatKeaHad, NoTx

\* Begin, and every end of a pull, leave an iterator without pages.
LEMMA NoPages ==
  ASSUME it' = Stopped \/ it' = [Stopped EXCEPT !.runs = TRUE]
  PROVE  IteratorShape' /\ PairsOf(it'.pages) = {}
<1>1. it'.pages = <<>> /\ {"place", "pages"} \subseteq DOMAIN it'
  BY DEF Stopped
<1>2. IteratorShape'
  BY <1>1 DEF IteratorShape
<1> QED BY <1>1, <1>2, PairsOfNone

\* A page that is read has what Kea has now, whatever the pages before have.
LEMMA HadReadPage == HadInv /\ ReadPage => HadInv'
<1> SUFFICES ASSUME HadInv, ReadPage PROVE HadInv'
  OBVIOUS
<1> DEFINE page == [place |-> it.place, hosts |-> Page]
           pages == Append(it.pages, page)
<1>1. UNCHANGED <<kea, db, had>> /\ it.place \in Places
  BY DEF ReadPage
<1>2. KeaShape' /\ KeaIsHad' /\ OnlyWhatKeaHad'
  BY <1>1 DEF HadInv, KeaShape, KeaIsHad, OnlyWhatKeaHad, Pairs
<1>3. CASE Page = {}
  <2>1. it' = [it EXCEPT !.place = @ + 1, !.from = 0] /\ tx' = tx
    BY <1>3 DEF ReadPage
  <2>2. IteratorShape' /\ it'.pages = it.pages
    BY <2>1 DEF HadInv, IteratorShape
  <2> QED BY <1>1, <1>2, <2>1, <2>2 DEF HadInv, TransactionHad, PagesHad
<1>4. CASE Page # {}
  <2>1. /\ it' = [it EXCEPT !.pages = pages, !.from = Max(Page)]
        /\ tx' = Written(pages)
    BY <1>4 DEF ReadPage
  <2>2. page \in HostPage /\ it.pages \in Seq(HostPage)
    BY <1>1, PageIsHad DEF HostPage, HadInv, IteratorShape
  <2>3. {<<page.place, h>> : h \in page.hosts} \subseteq had
    BY <1>1, PageIsHad
  <2>4. PairsOf(pages) \subseteq had
    BY <2>2, <2>3, PairsOfAppend DEF HadInv, PagesHad
  <2>5. PairsOf(<<Last(pages)>>) \subseteq had
    BY <2>2, <2>3, PairsOfLast
  <2>6. TransactionHad'
    BY <1>1, <2>1, <2>4, <2>5 DEF Written, HadInv, TransactionHad, NoTx
  <2>7. IteratorShape' /\ it'.pages = pages
    BY <2>1, <2>2 DEF HadInv, IteratorShape
  <2>8. PagesHad'
    BY <1>1, <2>4, <2>7 DEF PagesHad
  <2> QED BY <1>2, <2>6, <2>7, <2>8 DEF HadInv
<1> QED BY <1>3, <1>4

\* A commit stores what the transaction has, and that Kea had.
LEMMA HadFinish == HadInv /\ Finish => HadInv'
<1> SUFFICES ASSUME HadInv, Finish PROVE HadInv'
  OBVIOUS
<1>1. UNCHANGED <<kea, had>> /\ tx' = {} /\ (db' = db \/ db' = tx)
  BY DEF Finish, NoTx
<1>2. IteratorShape' /\ PagesHad'
  BY NoPages DEF Finish, PagesHad
<1> QED BY <1>1, <1>2 DEF HadInv, KeaShape, KeaIsHad, TransactionHad, OnlyWhatKeaHad, Pairs

LEMMA HadChange ==
  ASSUME HadInv, NEW h \in Reservations, NEW p \in Places \cup {0}, Change(h, p)
  PROVE  HadInv'
<1>1. KeaShape'
  BY DEF Change, HadInv, KeaShape
<1>2. had' = had \cup Pairs(kea') /\ UNCHANGED <<db, it, tx>>
  BY DEF Change
<1>3. KeaIsHad'
  BY <1>2 DEF KeaIsHad, Pairs
<1> QED BY <1>1, <1>2, <1>3
       DEF HadInv, IteratorShape, TransactionHad, PagesHad, OnlyWhatKeaHad

LEMMA HadStep == HadInv /\ [Next]_vars => HadInv'
<1> SUFFICES ASSUME HadInv, [Next]_vars PROVE HadInv'
  OBVIOUS
<1> USE DEF HadInv, KeaShape, KeaIsHad, TransactionHad, OnlyWhatKeaHad, Pairs
<1>1. CASE Begin
  BY <1>1, NoPages DEF Begin, PagesHad
<1>2. CASE ReadPage
  BY <1>2, HadReadPage
<1>3. CASE Finish
  BY <1>3, HadFinish
<1>4. CASE Unsupported
  <2>1. IteratorShape' /\ it'.pages = it.pages
    BY <1>4 DEF Unsupported, IteratorShape
  <2> QED BY <1>4, <2>1 DEF Unsupported, PagesHad
<1>5. CASE Fail
  BY <1>5, NoPages DEF Fail, PagesHad, NoTx
<1>6. CASE Restart
  BY <1>6, NoPages DEF Restart, PagesHad, NoTx
<1>7. CASE \E h \in Reservations, p \in Places \cup {0} : Change(h, p)
  BY <1>7, HadChange
<1>8. CASE UNCHANGED vars
  BY <1>8 DEF vars, IteratorShape, PagesHad
<1> QED BY <1>1, <1>2, <1>3, <1>4, <1>5, <1>6, <1>7, <1>8 DEF Next, Pull

\* What the database has of a daemon, Kea had at that place at some time: a transaction
\* that mixes pages of different moments invents nothing (host.go, pullFromDaemon).
THEOREM PulledIsHad == Spec => []OnlyWhatKeaHad
<1>1. HadInv => OnlyWhatKeaHad
  BY DEF HadInv
<1> QED BY <1>1, HadInit, HadStep, PTL DEF Spec
-----------------------------------------------------------------------------
(* The types of the puller                                                 *)

\* Pages that were read are neither empty nor too long.
FullPage == {p \in HostPage : Cardinality(p.hosts) \in 1..Limit}

IsIterator(i) ==
  /\ DOMAIN i = {"runs", "place", "from", "pages"}
  /\ i.runs \in BOOLEAN /\ i.place \in 1..(Subnets + 2) /\ i.from \in Reservations \cup {0}
  /\ i.pages \in Seq(FullPage)
IsTrace(t) == DOMAIN t = {"known", "pages"} /\ t.known \in BOOLEAN /\ t.pages \in Seq(FullPage)

PullerTypes ==
  /\ IsIterator(it) /\ IsTrace(trace)
  /\ it.runs \/ tx = NoTx
  /\ changes \in 0..MaxChanges /\ faults \in 0..MaxFaults
  /\ still \in BOOLEAN /\ missed \in BOOLEAN
  /\ had \subseteq Places \X Reservations

LEMMA HasSmallest ==
  ASSUME NEW S, S \subseteq Nat, S # {}
  PROVE  \E x \in S : \A y \in S : x <= y
<1> DEFINE R == {ss \in Nat \X Nat : ss[1] < ss[2]}
<1>1. IsWellFoundedOn(R, Nat)
  BY NatLessThanWellFounded, Zenon DEF OpToRel
<1> HIDE DEF R
<1>2. PICK x \in S : \A y \in S : ~ (<<y, x>> \in R)
  BY <1>1, WFMin, Zenon
<1>3. \A y \in S : ~ (y < x)
  BY <1>2 DEF R
<1> QED BY <1>2, <1>3, SMT

\* The maximum of a finite set of natural numbers.
LEMMA HasLargest ==
  ASSUME NEW S, S \subseteq Nat, IsFiniteSet(S), S # {}
  PROVE  Max(S) \in S /\ \A y \in S : Max(S) >= y
<1> DEFINE above(x) == {z \in S : z > x}
           counts == {Cardinality(above(x)) : x \in S}
<1>1. \A x \in S : above(x) \subseteq S /\ IsFiniteSet(above(x)) /\ Cardinality(above(x)) \in Nat
  BY FS_Subset, FS_CardinalityType
<1>2. PICK x \in S : \A y \in S : Cardinality(above(x)) <= Cardinality(above(y))
  <2>1. counts \subseteq Nat /\ counts # {}
    BY <1>1
  <2>2. PICK c \in counts : \A d \in counts : c <= d
    BY <2>1, HasSmallest
  <2> QED BY <2>2
<1>3. ASSUME NEW y \in S PROVE x >= y
  <2> SUFFICES ASSUME y > x PROVE FALSE
    OBVIOUS
  <2>0. x \in Nat /\ y \in Nat /\ \A z \in S : z \in Nat
    OBVIOUS
  <2>1. above(y) \subseteq above(x) /\ y \in above(x) /\ y \notin above(y)
    <3>1. (\A z \in S : z > y => z > x) /\ ~ (y > y)
      BY <2>0
    <3> QED BY <3>1, Zenon
  <2> HIDE DEF above
  <2>2. above(y) # above(x)
    BY <2>1
  <2>3. Cardinality(above(y)) <= Cardinality(above(x)) /\ Cardinality(above(y)) # Cardinality(above(x))
    BY <1>1, <2>1, <2>2, FS_Subset
  <2>4. Cardinality(above(x)) <= Cardinality(above(y))
    BY <1>2
  <2> QED BY <1>1, <2>3, <2>4
<1> QED BY <1>3, Zenon DEF Max
\* A page that is not empty is a full page, and its last reservation one of them.
LEMMA PageIsFull ==
  ASSUME Page # {}, it.place \in Places
  PROVE  [place |-> it.place, hosts |-> Page] \in FullPage /\ Max(Page) \in Reservations
<1> DEFINE rest == {h \in Reservations : kea[h] = it.place /\ h > it.from}
           upTo(h) == {g \in rest : g <= h}
<1>1. /\ Page \subseteq rest /\ rest \subseteq Reservations
      /\ \A h \in Page : Cardinality(upTo(h)) <= Limit
  BY DEF Page
<1>2. Page \subseteq Nat /\ IsFiniteSet(Page) /\ IsFiniteSet(rest)
  BY <1>1, HostsAssumption, FS_Subset
<1>3. Max(Page) \in Page /\ \A h \in Page : Max(Page) >= h
  BY <1>2, HasLargest
<1> HIDE DEF rest
<1>4. Page \subseteq upTo(Max(Page)) /\ IsFiniteSet(upTo(Max(Page)))
  <2>1. upTo(Max(Page)) \subseteq rest
    OBVIOUS
  <2>2. \A h \in Page : h \in rest /\ h <= Max(Page)
    BY <1>1, <1>2, <1>3
  <2> QED BY <1>2, <2>1, <2>2, FS_Subset
<1>5. Cardinality(upTo(Max(Page))) <= Limit
  BY <1>1, <1>3
<1> HIDE DEF upTo
<1>6. /\ Cardinality(Page) <= Cardinality(upTo(Max(Page)))
      /\ Cardinality(upTo(Max(Page))) \in Nat /\ Cardinality(Page) \in Nat
  BY <1>2, <1>4, FS_Subset, FS_CardinalityType
<1>7. Cardinality(Page) # 0
  BY <1>2, FS_EmptySet
<1>8. Cardinality(Page) \in 1..Limit
  BY <1>5, <1>6, <1>7, HostsAssumption
<1> QED BY <1>1, <1>3, <1>8 DEF FullPage, HostPage

\* What is in Kea is at a place.
LEMMA PairsArePlaced ==
  ASSUME NEW k \in [Reservations -> Places \cup {0}]
  PROVE  Pairs(k) \subseteq Places \X Reservations
BY DEF Pairs

LEMMA PullerTypesInit == Init => PullerTypes
<1> SUFFICES ASSUME Init PROVE PullerTypes
  OBVIOUS
<1>0. <<>> \in Seq(FullPage) /\ 1 \in 1..(Subnets + 2) /\ 0 \in 0..MaxChanges /\ 0 \in 0..MaxFaults
  BY HostsAssumption
<1>1. IsIterator(it) /\ IsTrace(trace)
  BY <1>0 DEF Init, Stopped, NoTrace, IsIterator, IsTrace
<1>2. had \subseteq Places \X Reservations
  BY PairsArePlaced DEF Init
<1> QED BY <1>0, <1>1, <1>2 DEF Init, PullerTypes

LEMMA PullerTypesStep ==
  ASSUME PullerTypes, HadInv, [Next]_vars
  PROVE  PullerTypes'
<1>0. /\ IsIterator(it) /\ IsTrace(trace) /\ (it.runs \/ tx = NoTx)
      /\ changes \in 0..MaxChanges /\ faults \in 0..MaxFaults
      /\ still \in BOOLEAN /\ missed \in BOOLEAN
      /\ had \subseteq Places \X Reservations
  BY DEF PullerTypes
<1>1. it' = Stopped \/ it' = [Stopped EXCEPT !.runs = TRUE] => IsIterator(it')
  <2>1. <<>> \in Seq(FullPage) /\ 1 \in 1..(Subnets + 2)
    BY HostsAssumption
  <2>2. IsIterator(Stopped)
    BY <2>1 DEF Stopped, IsIterator
  <2>3. IsIterator([Stopped EXCEPT !.runs = TRUE])
    BY <2>1 DEF Stopped, IsIterator
  <2> QED BY <2>2, <2>3, Zenon
<1>2. IsTrace(NoTrace)
  <2>1. <<>> \in Seq(FullPage)
    OBVIOUS
  <2> QED BY <2>1 DEF NoTrace, IsTrace
<1>3. it.place \in Places => it.place + 1 \in 1..(Subnets + 2)
  BY HostsAssumption DEF Places
<1>4. faults < MaxFaults => faults + 1 \in 0..MaxFaults
  BY <1>0, HostsAssumption
<1>5. CASE Begin
  <2>1. it'.runs
    BY <1>5 DEF Begin, Stopped
  <2> QED BY <1>0, <1>1, <1>5, <2>1 DEF Begin, PullerTypes
<1>6. CASE ReadPage
  <2>1. it.place \in Places /\ it.runs
        /\ UNCHANGED <<kea, db, trace, changes, faults, still, missed, had>>
    BY <1>6 DEF ReadPage
  <2>2. CASE Page = {}
    <3>1. it' = [it EXCEPT !.place = @ + 1, !.from = 0] /\ tx' = tx
      BY <1>6, <2>2 DEF ReadPage
    <3>2. IsIterator(it') /\ it'.runs
      BY <1>0, <1>3, <2>1, <3>1 DEF IsIterator
    <3> QED BY <1>0, <2>1, <3>2 DEF PullerTypes
  <2>3. CASE Page # {}
    <3> DEFINE page == [place |-> it.place, hosts |-> Page]
               pages == Append(it.pages, page)
    <3>1. it' = [it EXCEPT !.pages = pages, !.from = Max(Page)]
      BY <1>6, <2>3 DEF ReadPage
    <3>2. page \in FullPage /\ Max(Page) \in Reservations
      BY <2>1, <2>3, PageIsFull
    <3>3. pages \in Seq(FullPage)
      <4>1. it.pages \in Seq(FullPage)
        BY <1>0 DEF IsIterator
      <4> HIDE DEF page
      <4> QED BY <3>2, <4>1
    <3> HIDE DEF pages
    <3>4. IsIterator(it') /\ it'.runs
      BY <1>0, <2>1, <3>1, <3>2, <3>3 DEF IsIterator
    <3> QED BY <1>0, <2>1, <3>4 DEF PullerTypes
  <2> QED BY <2>2, <2>3
<1>7. CASE Finish
  <2>1. missed' \in BOOLEAN
    BY <1>0, <1>7 DEF Finish, Alike, EqualHashes
  <2>2. IsTrace(trace')
    <3>1. it.pages \in Seq(FullPage) /\ trace' = [known |-> TRUE, pages |-> it.pages]
      BY <1>0, <1>7 DEF Finish, IsIterator
    <3> QED BY <3>1 DEF IsTrace
  <2> QED BY <1>0, <1>1, <1>7, <2>1, <2>2 DEF Finish, PullerTypes
<1>8. CASE Unsupported
  <2>1. Subnets + 2 \in 1..(Subnets + 2)
    BY HostsAssumption
  <2>2. IsIterator(it') /\ it'.runs
    BY <1>0, <1>8, <2>1 DEF Unsupported, IsIterator
  <2> QED BY <1>0, <1>4, <1>8, <2>2 DEF Unsupported, PullerTypes
<1>9. CASE Fail \/ Restart
  BY <1>0, <1>1, <1>2, <1>4, <1>9 DEF Fail, Restart, PullerTypes
<1>10. CASE \E h \in Reservations, p \in Places \cup {0} : Change(h, p)
  <2>1. PICK h \in Reservations, p \in Places \cup {0} : Change(h, p)
    BY <1>10
  <2>2. kea' \in [Reservations -> Places \cup {0}]
    BY <2>1 DEF Change, HadInv, KeaShape
  <2>3. had' \subseteq Places \X Reservations
    BY <1>0, <2>1, <2>2, PairsArePlaced DEF Change
  <2>4. changes' \in 0..MaxChanges
    BY <1>0, <2>1, HostsAssumption DEF Change
  <2> QED BY <1>0, <2>1, <2>3, <2>4 DEF Change, PullerTypes
<1>11. CASE UNCHANGED vars
  BY <1>0, <1>11 DEF vars, PullerTypes
<1> QED BY <1>5, <1>6, <1>7, <1>8, <1>9, <1>10, <1>11 DEF Next, Pull

LEMMA PullerTypeOK == PullerTypes /\ HadInv => TypeOK
<1> SUFFICES ASSUME PullerTypes, HadInv PROVE TypeOK
  OBVIOUS
<1>1. trace.pages \in Seq(FullPage) /\ it.pages \in Seq(FullPage)
  BY DEF PullerTypes, IsIterator, IsTrace
<1>2. trace.pages \o it.pages \in Seq(FullPage)
  BY <1>1
<1>3. \A p \in ToSet(trace.pages \o it.pages) : p \in FullPage
  <2> DEFINE all == trace.pages \o it.pages
  <2>1. \A i \in DOMAIN all : all[i] \in FullPage
    <3> HIDE DEF all
    <3>1. all \in Seq(FullPage)
      BY <1>2 DEF all
    <3> QED BY <3>1
  <2> QED BY <2>1, Zenon DEF ToSet
<1>4. \A p \in ToSet(trace.pages \o it.pages) :
        p.place \in Places /\ p.hosts \subseteq Reservations /\ Cardinality(p.hosts) \in 1..Limit
  BY <1>3 DEF FullPage, HostPage
<1>5. /\ db \subseteq Places \X Reservations /\ tx \subseteq Places \X Reservations
      /\ kea \in [Reservations -> Places \cup {0}]
  BY DEF PullerTypes, HadInv, OnlyWhatKeaHad, TransactionHad, KeaShape
<1> QED BY <1>4, <1>5 DEF PullerTypes, IsIterator, IsTrace, TypeOK
-----------------------------------------------------------------------------
(* The executor                                                            *)

Inside == {h \in Handlers : handlers[h] = "in"}
\* The function, and the pause with which the loop returns, are counted too.
LoopPauses == IF loop \in {"running", "returned"} THEN 1 ELSE 0

ExecutorTypes ==
  /\ setting \in Intervals /\ settings \in 0..MaxSettings
  /\ interval \in (Intervals \ {0}) \cup {InactiveInterval}
  /\ active \in BOOLEAN
  /\ ticker \in {"stopped", "armed", "fired"}
  /\ loop \in {"select", "ticked", "running", "check", "returned"}
  /\ handlers \in [Handlers -> {"out", "in"}]
  /\ forgot \in BOOLEAN
  /\ shutdown \in {"no", "sending", "done"}

\* The count is never higher than the pauses there are, exact unless some were
\* forgotten, and the ticker is stopped while it is not zero.
Counted ==
  /\ pauseCount \in Nat
  /\ pauseCount <= Cardinality(Inside) + LoopPauses
  /\ ~forgot /\ loop # "returned" => pauseCount = Cardinality(Inside) + LoopPauses
  /\ pauseCount > 0 <=> ticker = "stopped"

ExecutorInv == ExecutorTypes /\ Counted

LEMMA InsideIsFinite == IsFiniteSet(Inside) /\ Cardinality(Inside) \in 0..Cardinality(Handlers)
<1>1. Inside \subseteq Handlers
  BY DEF Inside
<1> QED BY <1>1, HandlersAssumption, FS_Subset, FS_CardinalityType

\* A handler is inside, or none is.
LEMMA InsideIsEmpty == Cardinality(Inside) = 0 <=> \A h \in Handlers : handlers[h] # "in"
<1>1. Inside = {} <=> \A h \in Handlers : handlers[h] # "in"
  BY DEF Inside
<1> QED BY <1>1, InsideIsFinite, FS_EmptySet

LEMMA ExecutorInit == E!Init => ExecutorInv
<1> SUFFICES ASSUME E!Init PROVE ExecutorInv
  OBVIOUS
<1>1. ExecutorTypes
  <2>1. active = (setting # 0) /\ forgot = FALSE
    BY DEF E!Init
  <2>2. active \in BOOLEAN /\ forgot \in BOOLEAN
    BY <2>1, Zenon
  <2>3. interval \in (Intervals \ {0}) \cup {InactiveInterval} /\ 0 \in 0..MaxSettings
    BY HandlersAssumption DEF E!Init
  <2>4. handlers \in [Handlers -> {"out", "in"}]
    BY DEF E!Init
  <2> QED BY <2>2, <2>3, <2>4 DEF E!Init, ExecutorTypes
<1>2. Inside = {}
  BY DEF E!Init, Inside
<1>3. Counted
  BY <1>2, FS_EmptySet DEF E!Init, Counted, LoopPauses
<1> QED BY <1>1, <1>3 DEF ExecutorInv

\* Steps that leave the handlers and the count alone.
LEMMA UncountedSteps ==
  ASSUME ExecutorInv,
         \/ E!Fire \/ E!TakeTick \/ E!Shutdown \/ UNCHANGED executorVars
         \/ \E i \in Intervals : E!Set(i)
  PROVE  ExecutorInv'
<1>1. ExecutorTypes /\ Counted
  BY DEF ExecutorInv
<1>2. /\ UNCHANGED <<handlers, pauseCount, forgot>>
      /\ loop' \in {"running", "returned"} <=> loop \in {"running", "returned"}
      /\ loop' = "returned" <=> loop = "returned"
      /\ ticker' = "stopped" <=> ticker = "stopped"
  BY DEF E!Fire, E!TakeTick, E!Shutdown, E!Set, E!timer, executorVars
<1>3. Counted'
  <2>1. Inside' = Inside /\ LoopPauses' = LoopPauses
    BY <1>2 DEF Inside, LoopPauses
  <2> QED BY <1>1, <1>2, <2>1 DEF Counted
<1>4. ExecutorTypes'
  <2>1. settings < MaxSettings => settings + 1 \in 0..MaxSettings
    BY <1>1, HandlersAssumption DEF ExecutorTypes
  <2> QED BY <1>1, <1>2, <2>1
       DEF ExecutorTypes, E!Fire, E!TakeTick, E!Shutdown, E!Set, E!timer, executorVars
<1> QED BY <1>3, <1>4 DEF ExecutorInv

\* What Unpause does to a count that is not too high.
LEMMA UnpauseCounts ==
  ASSUME NEW n \in Nat, Counted, E!Unpause, pauseCount <= n + 1
  PROVE  /\ pauseCount' \in Nat /\ pauseCount' <= n
         /\ pauseCount = n + 1 => pauseCount' = n
         /\ pauseCount' > 0 <=> ticker' = "stopped"
         /\ UNCHANGED <<interval, active>>
         /\ ticker' \in {"armed", ticker}
BY DEF Counted, E!Unpause

LEMMA LoopSteps ==
  ASSUME ExecutorInv, E!RunBegins \/ E!RunEnds \/ E!TakeDone
  PROVE  ExecutorInv'
<1>0. ExecutorTypes /\ Counted /\ UNCHANGED <<setting, settings, handlers>>
  BY DEF ExecutorInv, E!RunBegins, E!RunEnds, E!TakeDone
<1>1. Inside' = Inside /\ Cardinality(Inside) \in Nat
  BY <1>0, InsideIsFinite DEF Inside
<1>2. CASE E!RunBegins \/ E!TakeDone
  <2>1. /\ pauseCount' = pauseCount + 1 /\ ticker' = "stopped" /\ forgot' = forgot
        /\ UNCHANGED <<interval, active>>
        /\ loop \in {"select", "ticked"} /\ loop' \in {"running", "returned"}
        /\ shutdown' \in {shutdown, "done"}
    BY <1>2 DEF E!RunBegins, E!TakeDone, E!Pause
  <2>2. LoopPauses = 0 /\ LoopPauses' = 1 /\ loop # "returned"
    BY <2>1 DEF LoopPauses
  <2>3. Counted'
    BY <1>0, <1>1, <2>1, <2>2 DEF Counted
  <2>4. ExecutorTypes'
    BY <1>0, <2>1 DEF ExecutorTypes
  <2> QED BY <2>3, <2>4 DEF ExecutorInv
<1>3. CASE E!RunEnds
  <2>1. /\ E!Unpause /\ loop = "running" /\ loop' = "check" /\ shutdown' = shutdown
        /\ forgot' = (forgot /\ \E h \in Handlers : handlers[h] = "in")
    BY <1>3 DEF E!RunEnds
  <2>2. LoopPauses = 1 /\ LoopPauses' = 0 /\ loop # "returned" /\ loop' # "returned"
    BY <2>1 DEF LoopPauses
  <2>3. pauseCount <= Cardinality(Inside) + 1
    BY <1>0, <2>2 DEF Counted
  <2>4. /\ pauseCount' \in Nat /\ pauseCount' <= Cardinality(Inside)
        /\ pauseCount = Cardinality(Inside) + 1 => pauseCount' = Cardinality(Inside)
        /\ pauseCount' > 0 <=> ticker' = "stopped"
        /\ UNCHANGED <<interval, active>>
        /\ ticker' \in {"armed", ticker}
    BY <1>0, <1>1, <2>1, <2>3, UnpauseCounts
  <2>5. ~forgot' => pauseCount' = Cardinality(Inside)
    <3>1. CASE ~forgot
      BY <1>0, <2>2, <2>4, <3>1 DEF Counted
    <3>2. CASE forgot /\ ~forgot'
      <4>1. Cardinality(Inside) = 0
        BY <2>1, <3>2, InsideIsEmpty
      <4> QED BY <2>4, <4>1
    <3> QED BY <3>1, <3>2
  <2>6. Counted'
    BY <1>1, <2>2, <2>4, <2>5 DEF Counted
  <2>7. ExecutorTypes'
    BY <1>0, <2>1, <2>4 DEF ExecutorTypes
  <2> QED BY <2>6, <2>7 DEF ExecutorInv
<1> QED BY <1>2, <1>3

\* The interval that is adopted, and what a reset does.
LEMMA AdoptTypes ==
  ASSUME ExecutorTypes, NEW next \in Intervals \cup {InactiveInterval}, E!Adopt(next)
  PROVE  /\ interval' \in (Intervals \ {0}) \cup {InactiveInterval} /\ active' \in BOOLEAN
         /\ \/ UNCHANGED <<pauseCount, ticker, forgot>>
            \/ /\ pauseCount' = 0 /\ ticker' = "armed"
               /\ forgot' = (\E h \in Handlers : handlers[h] = "in")
BY IntervalsAssumption DEF ExecutorTypes, E!Adopt, E!reset, E!timer

LEMMA CheckStep ==
  ASSUME ExecutorInv, E!Check
  PROVE  ExecutorInv'
<1>0. /\ ExecutorTypes /\ Counted /\ UNCHANGED <<setting, settings, handlers, shutdown>>
      /\ loop = "check" /\ loop' = "select"
  BY DEF ExecutorInv, E!Check
<1>1. /\ interval' \in (Intervals \ {0}) \cup {InactiveInterval} /\ active' \in BOOLEAN
      /\ \/ UNCHANGED <<pauseCount, ticker, forgot>>
         \/ /\ pauseCount' = 0 /\ ticker' = "armed"
            /\ forgot' = (\E h \in Handlers : handlers[h] = "in")
  <2>1. setting \in Intervals \cup {InactiveInterval} /\ interval \in Intervals \cup {InactiveInterval}
    BY <1>0 DEF ExecutorTypes
  <2> QED BY <1>0, <2>1, AdoptTypes DEF E!Check
<1>2. ExecutorTypes'
  BY <1>0, <1>1 DEF ExecutorTypes
<1>3. Inside' = Inside /\ LoopPauses = 0 /\ LoopPauses' = 0 /\ Cardinality(Inside) \in Nat
  BY <1>0, InsideIsFinite DEF Inside, LoopPauses
<1>4. CASE UNCHANGED <<pauseCount, ticker, forgot>>
  BY <1>0, <1>2, <1>3, <1>4 DEF Counted, ExecutorInv
<1>5. CASE /\ pauseCount' = 0 /\ ticker' = "armed"
           /\ forgot' = (\E h \in Handlers : handlers[h] = "in")
  <2>1. ~forgot' => Cardinality(Inside) = 0
    BY <1>5, InsideIsEmpty
  <2> QED BY <1>2, <1>3, <1>5, <2>1 DEF Counted, ExecutorInv
<1> QED BY <1>1, <1>4, <1>5

LEMMA EnterStep ==
  ASSUME ExecutorInv, NEW h \in Handlers, E!Enter(h)
  PROVE  ExecutorInv'
<1>0. /\ ExecutorTypes /\ Counted /\ UNCHANGED <<setting, settings, loop, forgot, shutdown>>
      /\ handlers[h] = "out" /\ handlers' = [handlers EXCEPT ![h] = "in"]
      /\ pauseCount' = pauseCount + 1 /\ ticker' = "stopped" /\ UNCHANGED <<interval, active>>
  BY DEF ExecutorInv, E!Enter, E!Pause
<1>1. Inside' = Inside \cup {h} /\ h \notin Inside
  BY <1>0 DEF Inside, ExecutorTypes
<1>2. Cardinality(Inside') = Cardinality(Inside) + 1 /\ Cardinality(Inside) \in Nat
  BY <1>1, InsideIsFinite, FS_AddElement
<1>3. LoopPauses' = LoopPauses /\ LoopPauses \in {0, 1}
  BY <1>0 DEF LoopPauses
<1>4. Counted'
  BY <1>0, <1>2, <1>3 DEF Counted
<1>5. ExecutorTypes'
  BY <1>0 DEF ExecutorTypes
<1> QED BY <1>4, <1>5 DEF ExecutorInv

LEMMA LeaveStep ==
  ASSUME ExecutorInv, NEW h \in Handlers, E!Leave(h)
  PROVE  ExecutorInv'
<1>0. /\ ExecutorTypes /\ Counted /\ UNCHANGED <<setting, settings, loop, shutdown>>
      /\ handlers[h] = "in" /\ handlers' = [handlers EXCEPT ![h] = "out"] /\ E!Unpause
      /\ forgot' = (forgot /\ ~(loop # "running" /\ \A g \in Handlers \ {h} : handlers[g] = "out"))
  BY DEF ExecutorInv, E!Leave
<1>1. Inside' = Inside \ {h} /\ h \in Inside
  BY <1>0 DEF Inside, ExecutorTypes
<1>2. /\ Cardinality(Inside') = Cardinality(Inside) - 1 /\ Cardinality(Inside) \in Nat
      /\ Cardinality(Inside') \in Nat
  <2>1. Cardinality(Inside) # 0
    BY <1>0, InsideIsEmpty
  <2> QED BY <1>1, <2>1, InsideIsFinite, FS_RemoveElement
<1>3. LoopPauses' = LoopPauses /\ LoopPauses \in {0, 1}
  BY <1>0 DEF LoopPauses
<1> DEFINE n == Cardinality(Inside') + LoopPauses
<1>4. n \in Nat /\ n + 1 = Cardinality(Inside) + LoopPauses
  BY <1>2, <1>3
<1>5. pauseCount <= n + 1 /\ (~forgot /\ loop # "returned" => pauseCount = n + 1)
  BY <1>0, <1>4 DEF Counted
<1> HIDE DEF n
<1>6. /\ pauseCount' \in Nat /\ pauseCount' <= n
      /\ pauseCount = n + 1 => pauseCount' = n
      /\ pauseCount' > 0 <=> ticker' = "stopped"
      /\ UNCHANGED <<interval, active>>
      /\ ticker' \in {"armed", ticker}
  BY <1>0, <1>4, <1>5, UnpauseCounts
<1>7. ~forgot' /\ loop # "returned" => pauseCount' = n
  <2>1. CASE ~forgot
    BY <1>5, <1>6, <2>1
  <2>2. CASE forgot /\ ~forgot' /\ loop # "returned"
    <3>1. loop # "running" /\ \A g \in Handlers \ {h} : handlers[g] = "out"
      BY <1>0, <2>2
    <3>2. Inside' = {}
      BY <1>1, <3>1 DEF Inside
    <3>3. n = 0
      BY <2>2, <3>1, <3>2, FS_EmptySet DEF n, LoopPauses
    <3> QED BY <1>6, <3>3
  <2> QED BY <2>1, <2>2
<1>8. Counted'
  BY <1>0, <1>3, <1>6, <1>7 DEF Counted, n
<1>9. ExecutorTypes'
  BY <1>0, <1>6 DEF ExecutorTypes
<1> QED BY <1>8, <1>9 DEF ExecutorInv

\* NewPeriodicExecutor, when the server starts again.
LEMMA RestartStep ==
  ASSUME ExecutorInv, ServerRestarts
  PROVE  ExecutorInv'
<1>0. ExecutorTypes /\ handlers' = [h \in Handlers |-> "out"] /\ forgot' = FALSE
      /\ UNCHANGED <<setting, settings, shutdown>> /\ E!Started(setting)
  BY DEF ExecutorInv, ServerRestarts
<1>1. ExecutorTypes'
  <2>1. active' = (setting # 0)
    BY <1>0 DEF E!Started
  <2>2. active' \in BOOLEAN /\ forgot' \in BOOLEAN
    BY <1>0, <2>1, Zenon DEF ServerRestarts
  <2>3. interval' \in (Intervals \ {0}) \cup {InactiveInterval}
    BY <1>0 DEF ExecutorTypes, E!Started
  <2>4. ticker' = "armed" /\ loop' = "select" /\ handlers' \in [Handlers -> {"out", "in"}]
    BY <1>0 DEF E!Started
  <2> QED BY <1>0, <2>2, <2>3, <2>4 DEF ExecutorTypes
<1>2. Inside' = {}
  BY <1>0 DEF Inside
<1>3. Counted'
  BY <1>0, <1>2, FS_EmptySet DEF Counted, LoopPauses, E!Started
<1> QED BY <1>1, <1>3 DEF ExecutorInv
-----------------------------------------------------------------------------
(* The puller and its executor                                             *)

\* The executor moves as one on its own does, or the server restarts.
LEMMA ExecutorStep ==
  ASSUME ExecutorInv, [PullersNext]_allVars
  PROVE  ExecutorInv'
<1>1. CASE RunPuller \/ PullerReturns
  BY <1>1, LoopSteps DEF RunPuller, PullerReturns
<1>2. CASE ServerRestarts
  BY <1>2, RestartStep
<1>3. CASE ExecutorOnly
  BY <1>3, UncountedSteps, LoopSteps, CheckStep, EnterStep, LeaveStep DEF ExecutorOnly
<1>4. CASE PullerOnly \/ UNCHANGED allVars
  BY <1>4, UncountedSteps DEF PullerOnly, allVars
<1> QED BY <1>1, <1>2, <1>3, <1>4 DEF PullersNext

\* The puller moves as one on its own does.
LEMMA PullStep ==
  ASSUME [PullersNext]_allVars
  PROVE  [Next]_vars
BY DEF PullersNext, RunPuller, PullerReturns, ServerRestarts, ExecutorOnly, PullerOnly, allVars,
       Next, Pull

LEMMA PullersInvHolds == PullersSpec => [](HadInv /\ PullerTypes /\ ExecutorInv)
<1>1. PullersInit => HadInv /\ PullerTypes /\ ExecutorInv
  BY HadInit, PullerTypesInit, ExecutorInit DEF PullersInit
<1>2. HadInv /\ PullerTypes /\ ExecutorInv /\ [PullersNext]_allVars
        => (HadInv /\ PullerTypes /\ ExecutorInv)'
  BY PullStep, HadStep, PullerTypesStep, ExecutorStep
<1> QED BY <1>1, <1>2, PTL DEF PullersSpec

\* The instance of the executor has its own name for the cardinality of a set.
LEMMA SameCardinality == ASSUME NEW S PROVE E!Cardinality(S) = Cardinality(S)
BY Zenon DEF E!Cardinality, Cardinality

LEMMA ExecutorIsQuiet == ExecutorInv => ExecutorTypeOK /\ E!PausedIsQuiet
<1> SUFFICES ASSUME ExecutorInv PROVE ExecutorTypeOK /\ E!PausedIsQuiet
  OBVIOUS
<1>0. ExecutorTypes /\ Counted
  BY DEF ExecutorInv
<1>1. Cardinality(Inside) \in Nat /\ Cardinality(Handlers) \in Nat
      /\ Cardinality(Inside) <= Cardinality(Handlers) /\ LoopPauses \in {0, 1}
  BY InsideIsFinite, HandlersAssumption, FS_CardinalityType DEF LoopPauses
<1>2. ExecutorTypeOK
  <2>1. pauseCount \in 0..(Cardinality(Handlers) + 1)
    BY <1>0, <1>1 DEF Counted
  <2> QED BY <1>0, <2>1, SameCardinality DEF ExecutorTypes, ExecutorTypeOK, E!TypeOK
<1>3. ASSUME loop # "returned"
      PROVE  /\ ~forgot => pauseCount = Cardinality(Inside) + (IF loop = "running" THEN 1 ELSE 0)
             /\ ~forgot /\ ~E!Quiet => ticker = "stopped"
             /\ E!Quiet => ticker # "stopped"
  <2>1. LoopPauses = IF loop = "running" THEN 1 ELSE 0
    BY <1>3 DEF LoopPauses
  <2>2. E!Quiet <=> LoopPauses = 0 /\ Cardinality(Inside) = 0
    <3>1. (\A h \in Handlers : handlers[h] # "in") <=> \A h \in Handlers : handlers[h] = "out"
      BY <1>0 DEF ExecutorTypes
    <3> QED BY <2>1, <3>1, InsideIsEmpty DEF E!Quiet
  <2>3. ~forgot => pauseCount = Cardinality(Inside) + LoopPauses
    BY <1>0, <1>3 DEF Counted
  <2>4. ~forgot /\ ~E!Quiet => pauseCount > 0
    BY <1>1, <2>2, <2>3
  <2>5. E!Quiet => ~(pauseCount > 0)
    BY <1>0, <1>1, <2>2 DEF Counted
  <2> QED BY <1>0, <2>1, <2>3, <2>4, <2>5 DEF Counted
<1> QED BY <1>2, <1>3, SameCardinality DEF E!PausedIsQuiet, Inside

\* While a handler is inside or the function runs no tick comes, and when all have left
\* the ticker does run, whatever the interval, failures to read it and restarts
\* (Pause, Unpause and reset of periodicexecutor.go); with the types of both modules.
THEOREM PausedStaysQuiet == PullersSpec => []PausedIsQuiet
<1>1. HadInv /\ PullerTypes /\ ExecutorInv => PausedIsQuiet
  BY PullerTypeOK, ExecutorIsQuiet DEF PausedIsQuiet
<1> QED BY <1>1, PullersInvHolds, PTL

\* The puller under its executor is a puller, so what holds of any puller holds of it.
THEOREM PullersPull == PullersSpec => Spec
<1>1. PullersInit => Init
  BY DEF PullersInit
<1>2. [PullersNext]_allVars => [Next]_vars
  BY PullStep
<1> QED BY <1>1, <1>2, PTL DEF PullersSpec, Spec
-----------------------------------------------------------------------------
(* A pull mirrors Kea                                                      *)

\* What the iterator has passed, of what Kea has.
Passed == {x \in Pairs(kea) : x[1] < it.place \/ (x[1] = it.place /\ x[2] <= it.from)}

\* A transaction has all pages so far; without one they are those of the trace, which is
\* what the database has unless a change was missed; and nothing is left out while
\* nothing changes.
TransactionHasPages == tx # NoTx => tx = PairsOf(it.pages)
NothingDiffers == it.runs /\ tx = NoTx => it.pages = <<>> \/ EqualHashes(it.pages)
TraceIsStored == trace.known /\ ~missed => db = PairsOf(trace.pages)
NothingIsLeftOut == it.runs /\ still => PairsOf(it.pages) = Passed

MirrorInv == TransactionHasPages /\ NothingDiffers /\ TraceIsStored /\ NothingIsLeftOut

\* A page has all reservations of the place up to its last one; only an empty rest has
\* an empty page.
LEMMA PageIsFirst ==
  ASSUME it.place \in Places, it.from \in Nat
  PROVE  /\ \A h \in Page : h \in Reservations /\ kea[h] = it.place /\ h > it.from
         /\ Page # {} => /\ Max(Page) \in Page
                         /\ \A h \in Page : h <= Max(Page)
                         /\ \A h \in Reservations :
                              kea[h] = it.place /\ h > it.from /\ h <= Max(Page) => h \in Page
         /\ Page = {} => \A h \in Reservations : kea[h] = it.place => h <= it.from
<1> DEFINE rest == {h \in Reservations : kea[h] = it.place /\ h > it.from}
           upTo(h) == {g \in rest : g <= h}
<1>1. /\ Page \subseteq rest /\ rest \subseteq Reservations
      /\ \A h \in rest : h \in Page <=> Cardinality(upTo(h)) <= Limit
  BY DEF Page
<1>2. /\ Page \subseteq Nat /\ rest \subseteq Nat /\ Reservations \subseteq Nat
      /\ IsFiniteSet(Page) /\ IsFiniteSet(rest) /\ Limit \in Nat \ {0}
  BY <1>1, HostsAssumption, FS_Subset
<1>3. \A h \in Page : h \in Reservations /\ kea[h] = it.place /\ h > it.from
  BY <1>1
<1>4. ASSUME Page # {}
      PROVE  /\ Max(Page) \in Page
             /\ \A h \in Page : h <= Max(Page)
             /\ \A h \in rest : h <= Max(Page) => h \in Page
  <2>1. Max(Page) \in Page /\ \A h \in Page : Max(Page) >= h
    BY <1>2, <1>4, HasLargest
  <2>2. \A h \in Page : h <= Max(Page)
    BY <1>2, <2>1
  <2>3. ASSUME NEW h \in rest, h <= Max(Page) PROVE h \in Page
    <3>0. h \in Nat /\ Max(Page) \in Nat
      BY <1>2, <2>1
    <3> HIDE DEF rest
    <3>1. upTo(h) \subseteq upTo(Max(Page)) /\ upTo(Max(Page)) \subseteq rest
      <4>1. \A g \in rest : g <= h => g <= Max(Page)
        BY <1>2, <2>3, <3>0
      <4> QED BY <4>1, Zenon
    <3> HIDE DEF upTo
    <3>2. /\ IsFiniteSet(upTo(Max(Page))) /\ IsFiniteSet(upTo(h))
          /\ Cardinality(upTo(h)) <= Cardinality(upTo(Max(Page)))
      BY <1>2, <3>1, FS_Subset
    <3>3. Cardinality(upTo(h)) \in Nat /\ Cardinality(upTo(Max(Page))) \in Nat
      BY <3>2, FS_CardinalityType
    <3>4. Cardinality(upTo(Max(Page))) <= Limit
      BY <1>1, <2>1
    <3> QED BY <1>1, <1>2, <3>2, <3>3, <3>4
  <2> QED BY <2>1, <2>2, <2>3
<1>5. ASSUME Page = {} PROVE rest = {}
  <2> SUFFICES ASSUME rest # {} PROVE FALSE
    OBVIOUS
  <2> HIDE DEF rest
  <2>1. PICK h \in rest : \A g \in rest : h <= g
    BY <1>2, HasSmallest
  <2>2. upTo(h) = {h}
    <3>1. \A g \in rest : g <= h <=> g = h
      BY <1>2, <2>1
    <3> QED BY <3>1, Zenon
  <2>3. Cardinality(upTo(h)) = 1
    BY <2>2, FS_Singleton
  <2> HIDE DEF upTo
  <2>4. 1 <= Limit
    BY <1>2
  <2>5. h \in Page
    BY <1>1, <2>1, <2>3, <2>4, Zenon
  <2> QED BY <1>5, <2>5, Zenon
<1>6. rest = {} => \A h \in Reservations : kea[h] = it.place => h <= it.from
  <2> SUFFICES ASSUME rest = {}, NEW h \in Reservations, kea[h] = it.place
               PROVE  ~(h > it.from)
    BY <1>2
  <2> QED BY Zenon
<1>7. Page # {} => \A h \in Reservations :
                     kea[h] = it.place /\ h > it.from /\ h <= Max(Page) => h \in Page
  BY <1>4
<1> QED BY <1>3, <1>4, <1>5, <1>6, <1>7

LEMMA MirrorInit == Init => MirrorInv
BY DEF Init, MirrorInv, TransactionHasPages, NothingDiffers, TraceIsStored, NothingIsLeftOut,
       Stopped, NoTrace
\* What a page adds to the pages before is what the iterator passes with it.
LEMMA PassedByPage ==
  ASSUME PullerTypes, HadInv, ReadPage, still, NothingIsLeftOut
  PROVE  PairsOf(it'.pages) = Passed'
<1>0. /\ IsIterator(it) /\ it.place \in Places /\ it.runs /\ UNCHANGED kea
      /\ it.place \in Nat /\ it.from \in Nat /\ Places \subseteq Nat /\ Reservations \subseteq Nat
      /\ kea \in [Reservations -> Places \cup {0}] /\ 0 \notin Places
      /\ PairsOf(it.pages) = Passed
  BY HostsAssumption DEF PullerTypes, HadInv, KeaShape, ReadPage, IsIterator, Places,
                         NothingIsLeftOut
<1>1. /\ \A h \in Page : h \in Reservations /\ kea[h] = it.place /\ h > it.from
      /\ Page # {} => /\ Max(Page) \in Page
                      /\ \A h \in Page : h <= Max(Page)
                      /\ \A h \in Reservations :
                           kea[h] = it.place /\ h > it.from /\ h <= Max(Page) => h \in Page
      /\ Page = {} => \A h \in Reservations : kea[h] = it.place => h <= it.from
  BY <1>0, PageIsFirst
<1>2. \A p, h : <<p, h>> \in Pairs(kea) <=> h \in Reservations /\ kea[h] = p /\ p # 0
  BY DEF Pairs
<1>3. \A x \in Pairs(kea) : x = <<x[1], x[2]>> /\ x[1] \in Nat /\ x[2] \in Nat
  BY <1>0 DEF Pairs
<1>4. Pairs(kea)' = Pairs(kea)
  BY <1>0 DEF Pairs
<1>5. CASE Page = {}
  <2>1. it' = [it EXCEPT !.place = @ + 1, !.from = 0]
    BY <1>5 DEF ReadPage
  <2>2. it'.pages = it.pages /\ it'.place = it.place + 1 /\ it'.from = 0
    BY <1>0, <2>1 DEF IsIterator
  <2>3. ASSUME NEW x \in Pairs(kea)
        PROVE  x[1] < it.place \/ (x[1] = it.place /\ x[2] <= it.from)
                 <=> x[1] < it'.place \/ (x[1] = it'.place /\ x[2] <= it'.from)
    <3>1. x[1] \in Nat /\ x[2] \in Reservations /\ kea[x[2]] = x[1]
      BY <1>2, <1>3
    <3>2. x[1] = it.place => x[2] <= it.from
      BY <1>1, <1>5, <3>1
    <3>3. x[2] # 0
      BY <3>1, HostsAssumption
    <3>4. x[2] \in Nat
      BY <1>3
    <3> QED BY <1>0, <2>2, <3>1, <3>2, <3>3, <3>4
  <2>4. Passed' = Passed
    BY <1>4, <2>3 DEF Passed
  <2> QED BY <1>0, <2>2, <2>4
<1>6. CASE Page # {}
  <2> DEFINE page == [place |-> it.place, hosts |-> Page]
             pages == Append(it.pages, page)
             new == {<<it.place, h>> : h \in Page}
  <2>1. it' = [it EXCEPT !.pages = pages, !.from = Max(Page)]
    BY <1>6 DEF ReadPage
  <2>2. it'.pages = pages /\ it'.place = it.place /\ it'.from = Max(Page)
    BY <1>0, <2>1 DEF IsIterator
  <2>3. PairsOf(pages) = PairsOf(it.pages) \cup new
    <3>1. it.pages \in Seq(HostPage) /\ page \in HostPage
      BY <1>0, <1>1 DEF HadInv, IteratorShape, HostPage
    <3> QED BY <3>1, PairsOfAppend
  <2> HIDE DEF pages
  <2>4. ASSUME NEW x \in Pairs(kea)
        PROVE  x \in new <=> x[1] = it.place /\ x[2] > it.from /\ x[2] <= Max(Page)
    <3>1. x = <<x[1], x[2]>> /\ x[2] \in Reservations /\ kea[x[2]] = x[1]
      BY <1>2, <1>3
    <3>2. x \in new <=> x[1] = it.place /\ x[2] \in Page
      BY <3>1
    <3> QED BY <1>1, <1>6, <3>1, <3>2
  <2>5. new \subseteq Pairs(kea)
    BY <1>0, <1>1, <1>2
  <2>6. ASSUME NEW x \in Pairs(kea)
        PROVE  x \in Passed' <=> x \in Passed \/ x \in new
    <3>1. x[1] \in Nat /\ x[2] \in Nat /\ Max(Page) \in Nat /\ it.from < Max(Page)
      BY <1>0, <1>1, <1>3, <1>6
    <3> HIDE DEF new
    <3>2. x \in Passed' <=> x[1] < it.place \/ (x[1] = it.place /\ x[2] <= Max(Page))
      BY <1>4, <2>2 DEF Passed
    <3>3. x \in Passed <=> x[1] < it.place \/ (x[1] = it.place /\ x[2] <= it.from)
      BY DEF Passed
    <3> QED BY <1>0, <2>4, <3>1, <3>2, <3>3
  <2>7. Passed' \subseteq Pairs(kea) /\ Passed \subseteq Pairs(kea)
    BY <1>4 DEF Passed
  <2> HIDE DEF new
  <2> QED BY <1>0, <2>2, <2>3, <2>5, <2>6, <2>7
<1> QED BY <1>5, <1>6

\* Pages that were read are not empty, so a transaction that wrote them is open.
LEMMA PairsOfPages ==
  ASSUME NEW pages \in Seq(FullPage), pages # <<>>
  PROVE  PairsOf(pages) # {}
<1>1. pages[1] \in FullPage /\ 1 \in DOMAIN pages
  OBVIOUS
<1>2. \A p \in FullPage : p.hosts # {}
  <2>1. Cardinality({}) = 0 /\ 0 \notin 1..Limit
    BY FS_EmptySet
  <2> QED BY <2>1, Zenon DEF FullPage
<1>3. pages[1] \in ToSet(pages)
  BY <1>1 DEF ToSet
<1>4. PICK p \in ToSet(pages) : p.hosts # {}
  BY <1>1, <1>2, <1>3
<1>5. PICK h \in p.hosts : TRUE
  BY <1>4
<1>6. <<p.place, h>> \in PairsOf(pages)
  BY <1>5 DEF PairsOf
<1> QED BY <1>6

LEMMA MirrorReadPage ==
  ASSUME PullerTypes, HadInv, MirrorInv, ReadPage
  PROVE  MirrorInv'
<1>0. /\ TransactionHasPages /\ NothingDiffers /\ TraceIsStored /\ NothingIsLeftOut
      /\ it.place \in Places /\ it.runs /\ UNCHANGED <<kea, db, trace, still, missed>>
      /\ IsIterator(it)
  BY DEF MirrorInv, ReadPage, PullerTypes
<1>1. NothingIsLeftOut'
  BY <1>0, PassedByPage DEF NothingIsLeftOut
<1>2. TraceIsStored'
  BY <1>0 DEF TraceIsStored
<1>3. CASE Page = {}
  <2>1. it' = [it EXCEPT !.place = @ + 1, !.from = 0] /\ tx' = tx
    BY <1>3 DEF ReadPage
  <2>2. it'.pages = it.pages /\ it'.runs
    BY <1>0, <2>1 DEF IsIterator
  <2>3. TransactionHasPages' /\ NothingDiffers'
    BY <1>0, <2>1, <2>2 DEF TransactionHasPages, NothingDiffers, EqualHashes, NoTx
  <2> QED BY <1>1, <1>2, <2>3 DEF MirrorInv
<1>4. CASE Page # {}
  <2> DEFINE page == [place |-> it.place, hosts |-> Page]
             pages == Append(it.pages, page)
  <2>1. it' = [it EXCEPT !.pages = pages, !.from = Max(Page)] /\ tx' = Written(pages)
    BY <1>4 DEF ReadPage
  <2>2. it'.pages = pages /\ it'.runs
    BY <1>0, <2>1 DEF IsIterator
  <2>3. page \in FullPage /\ page \in HostPage /\ it.pages \in Seq(FullPage)
    BY <1>0, <1>4, PageIsFull DEF FullPage, IsIterator
  <2>4. it.pages \in Seq(HostPage)
    BY DEF HadInv, IteratorShape
  <2>5. /\ PairsOf(pages) = PairsOf(it.pages) \cup {<<page.place, h>> : h \in page.hosts}
        /\ PairsOf(<<Last(pages)>>) = {<<page.place, h>> : h \in page.hosts}
    BY <2>3, <2>4, PairsOfAppend, PairsOfLast
  <2> HIDE DEF page, pages
  <2>6. CASE tx = NoTx
    <3>1. tx' = IF EqualHashes(pages) THEN NoTx ELSE PairsOf(pages)
      BY <2>1, <2>6 DEF Written
    <3>2. TransactionHasPages'
      BY <2>2, <3>1 DEF TransactionHasPages, NoTx
    <3>3. tx' = NoTx => EqualHashes(pages)
      <4>1. pages \in Seq(FullPage) /\ pages # <<>>
        BY <2>3 DEF pages
      <4> QED BY <3>1, <4>1, PairsOfPages DEF NoTx
    <3>4. NothingDiffers'
      BY <1>0, <2>2, <3>3 DEF NothingDiffers, EqualHashes, NoTx
    <3> QED BY <1>1, <1>2, <3>2, <3>4 DEF MirrorInv
  <2>7. CASE tx # NoTx
    <3>1. tx' = tx \cup PairsOf(<<Last(pages)>>) /\ tx = PairsOf(it.pages)
      BY <1>0, <2>1, <2>7 DEF Written, TransactionHasPages
    <3>2. tx' = PairsOf(pages)
      BY <2>5, <3>1
    <3>3. tx' # NoTx
      BY <2>7, <3>1 DEF NoTx
    <3> QED BY <1>1, <1>2, <2>2, <3>2, <3>3
         DEF MirrorInv, TransactionHasPages, NothingDiffers, NoTx
  <2> QED BY <2>6, <2>7
<1> QED BY <1>3, <1>4
\* Without a transaction a finished pull has read the trace, unless that is a miss.
LEMMA FinishedAlike ==
  ASSUME PullerTypes, MirrorInv, Finish, tx = NoTx, ~missed'
  PROVE  trace.known /\ it.pages = trace.pages /\ ~missed /\ db' = db
<1>1. /\ ~missed /\ ~Alike(it.pages) /\ db' = db /\ it.runs
      /\ it.pages = <<>> \/ EqualHashes(it.pages)
  BY DEF Finish, MirrorInv, NothingDiffers
<1>2. CASE trace.known
  <2>1. it.pages = <<>> => EqualHashes(it.pages)
    <3>1. it.pages = <<>> => Len(it.pages) = 0
      OBVIOUS
    <3>2. Len(trace.pages) \in Nat
      BY DEF PullerTypes, IsTrace
    <3> QED BY <1>2, <3>1, <3>2 DEF EqualHashes
  <2> QED BY <1>1, <1>2, <2>1 DEF Alike
<1>3. CASE ~trace.known
  BY <1>1, <1>3 DEF Alike, EqualHashes
<1> QED BY <1>2, <1>3
LEMMA MirrorFinish ==
  ASSUME PullerTypes, MirrorInv, Finish
  PROVE  MirrorInv'
<1>1. /\ trace' = [known |-> TRUE, pages |-> it.pages] /\ tx' = NoTx /\ it' = Stopped
      /\ db' = IF tx = NoTx THEN db ELSE tx
  BY DEF Finish
<1>2. TraceIsStored'
  <2>1. trace'.pages = it.pages
    BY <1>1
  <2>2. CASE tx = NoTx
    BY <2>1, <2>2, FinishedAlike DEF TraceIsStored, MirrorInv
  <2>3. CASE tx # NoTx
    BY <1>1, <2>1, <2>3 DEF TraceIsStored, MirrorInv, TransactionHasPages
  <2> QED BY <2>2, <2>3
<1>3. ~it'.runs
  BY <1>1 DEF Stopped
<1> QED BY <1>1, <1>2, <1>3 DEF MirrorInv, TransactionHasPages, NothingDiffers, NothingIsLeftOut

LEMMA MirrorStep ==
  ASSUME PullerTypes, HadInv, MirrorInv, [Next]_vars
  PROVE  MirrorInv'
<1>0. TransactionHasPages /\ NothingDiffers /\ TraceIsStored /\ NothingIsLeftOut
  BY DEF MirrorInv
<1>1. CASE Begin
  <2>1. /\ it'.runs /\ it'.place = 1 /\ it'.from = 0 /\ it'.pages = <<>>
        /\ UNCHANGED <<kea, db, trace, tx, missed>> /\ tx = NoTx
    BY <1>1 DEF Begin, Stopped, PullerTypes
  <2>2. Passed' = {}
    <3>1. \A x \in Pairs(kea) : x[1] \in Places /\ x[2] \in Reservations
      BY PairsArePlaced DEF HadInv, KeaShape
    <3>2. \A x \in Pairs(kea) : ~(x[1] < 1) /\ ~(x[2] <= 0)
      <4>1. (\A p \in Places : ~(p < 1)) /\ \A h \in Reservations : ~(h <= 0)
        BY HostsAssumption DEF Places
      <4> QED BY <3>1, <4>1
    <3>3. Pairs(kea)' = Pairs(kea)
      BY <2>1 DEF Pairs
    <3> QED BY <2>1, <3>2, <3>3 DEF Passed
  <2>3. NothingIsLeftOut'
    BY <2>1, <2>2, PairsOfNone DEF NothingIsLeftOut
  <2> QED BY <1>0, <2>1, <2>3
       DEF MirrorInv, TransactionHasPages, NothingDiffers, TraceIsStored
<1>2. CASE ReadPage
  BY <1>2, MirrorReadPage
<1>3. CASE Finish
  BY <1>3, MirrorFinish
<1>4. CASE Unsupported
  <2>1. it'.pages = it.pages /\ it'.runs = it.runs /\ ~still'
        /\ UNCHANGED <<kea, db, trace, tx, missed>>
    BY <1>4 DEF Unsupported, PullerTypes, IsIterator
  <2> QED BY <1>0, <2>1
       DEF MirrorInv, TransactionHasPages, NothingDiffers, TraceIsStored, NothingIsLeftOut,
           EqualHashes
<1>5. CASE Fail \/ Restart
  <2>1. /\ ~it'.runs /\ tx' = NoTx /\ UNCHANGED <<db, missed>>
        /\ trace' = trace \/ ~trace'.known
    BY <1>5 DEF Fail, Restart, Stopped, NoTrace
  <2> QED BY <1>0, <2>1
       DEF MirrorInv, TransactionHasPages, NothingDiffers, TraceIsStored, NothingIsLeftOut
<1>6. CASE \E h \in Reservations, p \in Places \cup {0} : Change(h, p)
  <2>1. UNCHANGED <<db, trace, it, tx, missed>> /\ ~still'
    BY <1>6 DEF Change
  <2> QED BY <1>0, <2>1
       DEF MirrorInv, TransactionHasPages, NothingDiffers, TraceIsStored, NothingIsLeftOut,
           EqualHashes
<1>7. CASE UNCHANGED vars
  BY <1>0, <1>7
     DEF vars, MirrorInv, TransactionHasPages, NothingDiffers, TraceIsStored, NothingIsLeftOut,
         EqualHashes, Passed, Pairs
<1> QED BY <1>1, <1>2, <1>3, <1>4, <1>5, <1>6, <1>7 DEF Next, Pull

\* A pull that nothing disturbed leaves what Kea has, or misses a change.
LEMMA FinishMirrors ==
  ASSUME PullerTypes, HadInv, MirrorInv, Finish, still, ~missed'
  PROVE  db' = Pairs(kea)
<1>1. PairsOf(it.pages) = Passed /\ it.place \notin Places /\ IsIterator(it)
  BY DEF MirrorInv, NothingIsLeftOut, Finish, PullerTypes
<1>2. Passed = Pairs(kea)
  <2>1. \A x \in Pairs(kea) : x[1] \in Places
    BY PairsArePlaced DEF HadInv, KeaShape
  <2>2. it.place = Subnets + 2
    BY <1>1, HostsAssumption DEF IsIterator, Places
  <2>3. \A x \in Pairs(kea) : x[1] < it.place
    BY <2>1, <2>2, HostsAssumption DEF Places
  <2> QED BY <2>3 DEF Passed
<1>3. CASE tx = NoTx
  <2>1. trace.known /\ it.pages = trace.pages /\ ~missed /\ db' = db
    BY <1>3, FinishedAlike
  <2> QED BY <1>1, <1>2, <2>1 DEF MirrorInv, TraceIsStored
<1>4. CASE tx # NoTx
  BY <1>1, <1>2, <1>4 DEF Finish, MirrorInv, TransactionHasPages
<1> QED BY <1>3, <1>4

\* A pull during which nothing changes leaves the database with what Kea has, unless a
\* change could not be noticed by the pages' hashes (pullFromDaemon and hasEqualHashes of
\* host.go).
THEOREM PullsMirror == Spec => PullMirrors
<1>1. Init => HadInv /\ PullerTypes /\ MirrorInv
  BY HadInit, PullerTypesInit, MirrorInit
<1>2. HadInv /\ PullerTypes /\ MirrorInv /\ [Next]_vars => (HadInv /\ PullerTypes /\ MirrorInv)'
  BY HadStep, PullerTypesStep, MirrorStep
<1>3. HadInv /\ PullerTypes /\ MirrorInv /\ [Next]_vars
        => [Finish /\ still => db' = Pairs(kea) \/ missed']_vars
  BY FinishMirrors
<1> QED BY <1>1, <1>2, <1>3, PTL DEF Spec, PullMirrors

-----------------------------------------------------------------------------
(* The services of an HA relationship                                      *)

\* There is at most one row.
Single(rows) == \A r, q \in rows : r = q
\* The status puller's copies are rows.
PullShape ==
  pull \in [at : H!Servers, pc : {"idle", "ask"}, apps : SUBSET H!Servers,
            active : SUBSET H!Servers, copies : SUBSET H!Service]
\* A row of the database has a number, and so has a copy.
Numbered == \A r \in services \cup pull.copies : r.id # 0
\* A service has daemons (wipe_dangling_service).
Associated == \A r \in services : r.daemons # {}
\* The rows from which an update makes those it stores.
RowsOf(rows) == IF update.changed THEN H!Without(update.at, rows) ELSE rows
\* What an update has detected is the only service.
DetectedIsThere ==
  update.pc = "commit" => \A r \in RowsOf(services) : r.id = update.row.id

HAInv ==
  /\ H!TypeOK /\ PullShape
  /\ Single(services) /\ Single(pull.copies) /\ Numbered /\ Associated
  /\ DetectedIsThere

\* A row with other daemons is a row.
LEMMA WithDaemons ==
  ASSUME NEW r \in H!Service, NEW D \in SUBSET H!Servers
  PROVE  /\ [r EXCEPT !.daemons = D] \in H!Service
         /\ [r EXCEPT !.daemons = D].id = r.id
         /\ [r EXCEPT !.daemons = D].daemons = D
BY DEF H!Service

\* A row that loses an association is a row.
LEMMA WithoutIs ==
  ASSUME NEW s \in H!Servers, NEW rows, rows \subseteq H!Service
  PROVE  /\ H!Without(s, rows) \subseteq H!Service
         /\ Single(rows) => Single(H!Without(s, rows))
         /\ \A q \in H!Without(s, rows) :
              q.daemons # {} /\ \E r \in rows : q.id = r.id /\ q.daemons = r.daemons \ {s}
<1>1. \A q \in H!Without(s, rows) :
        q.daemons # {} /\ \E r \in rows : q = [r EXCEPT !.daemons = r.daemons \ {s}]
  BY Zenon DEF H!Without, H!wipe_dangling_service
<1>2. \A r \in rows : r.daemons \ {s} \in SUBSET H!Servers
  BY DEF H!Service
<1>3. \A r \in rows : /\ [r EXCEPT !.daemons = r.daemons \ {s}] \in H!Service
                      /\ [r EXCEPT !.daemons = r.daemons \ {s}].id = r.id
                      /\ [r EXCEPT !.daemons = r.daemons \ {s}].daemons = r.daemons \ {s}
  BY <1>2, WithDaemons, Zenon
<1> QED BY <1>1, <1>3, Zenon DEF Single

\* At first there are no services.
LEMMA HAInit ==
  ASSUME H!Init
  PROVE  HAInv
<1> USE DEF H!Init, H!NoPull
<1>1. H!TypeOK
  <2>1. H!NewService \in H!Service
    BY DEF H!NewService, H!Service
  <2>2. \A s \in H!Servers :
          [ca |-> TRUE, up |-> TRUE, config |-> "ha", state |-> "waiting",
           heard |-> "unavailable"]
          \in [ca : BOOLEAN, up : BOOLEAN, config : H!Configs,
               state : H!States \ {"unavailable"}, heard : H!States]
    BY DEF H!Configs, H!States
  <2>3. Primary \in H!Servers
    BY DEF H!Servers
  <2>4. servers \in [H!Servers -> [ca : BOOLEAN, up : BOOLEAN, config : H!Configs,
                          state : H!States \ {"unavailable"}, heard : H!States]]
    BY <2>2
  <2>5. update \in [at : H!Servers, pc : {"idle", "commit"}, config : H!Configs,
                    changed : BOOLEAN, active : BOOLEAN, row : H!Service]
    BY <2>1, <2>3 DEF H!Configs
  <2> QED BY <2>3, <2>4, <2>5 DEF H!TypeOK
<1>2. PullShape
  BY DEF PullShape, H!Servers
<1> QED BY <1>1, <1>2 DEF HAInv, Single, Numbered, Associated, DetectedIsThere

\* A step of the servers, or of an administrator, does not touch the services.
LEMMA ServersStep ==
  ASSUME HAInv, UNCHANGED <<configured, activeServers, services, update, pull>>,
         servers' \in [H!Servers -> [ca : BOOLEAN, up : BOOLEAN, config : H!Configs,
                                     state : H!States \ {"unavailable"}, heard : H!States]],
         monitored' \subseteq H!Servers
  PROVE  HAInv'
<1>1. RowsOf(services)' = RowsOf(services)
  BY Zenon DEF RowsOf, H!Without
<1> QED BY <1>1 DEF HAInv, H!TypeOK, PullShape, Single, Numbered, Associated, DetectedIsThere

\* What a server does, it does to its own state.
LEMMA ServersKeepTypes ==
  ASSUME H!TypeOK, NEW s \in H!Servers, H!Change(s) \/ H!Heartbeat(s) \/ H!Transition(s)
  PROVE  servers' \in [H!Servers -> [ca : BOOLEAN, up : BOOLEAN, config : H!Configs,
                                     state : H!States \ {"unavailable"}, heard : H!States]]
<1> DEFINE K == [ca : BOOLEAN, up : BOOLEAN, config : H!Configs,
                 state : H!States \ {"unavailable"}, heard : H!States]
<1>1. servers \in [H!Servers -> K] /\ servers[s] \in K /\ servers[H!Partner(s)] \in K
  BY DEF H!TypeOK, H!Servers, H!Partner
<1>2. CASE H!Change(s)
  <2> DEFINE Up == [servers[s] EXCEPT !.up = ~@, !.state = "waiting", !.heard = "unavailable"]
             With(c) == [servers[s] EXCEPT !.config = c, !.state = "waiting",
                                           !.heard = "unavailable"]
  <2>1. [servers[s] EXCEPT !.ca = ~@] \in K
    BY <1>1
  <2>2. Up \in K
    BY <1>1 DEF H!States
  <2>3. \A c \in H!Configs : With(c) \in K
    BY <1>1 DEF H!States
  <2>4. \/ servers' = [servers EXCEPT ![s] = [servers[s] EXCEPT !.ca = ~@]]
        \/ servers' = [servers EXCEPT ![s] = Up]
        \/ \E c \in H!Configs : servers' = [servers EXCEPT ![s] = With(c)]
    BY <1>2, ZenonT(60) DEF H!Change
  <2> HIDE DEF Up, With, K
  <2>5. \E k \in K : servers' = [servers EXCEPT ![s] = k]
    <3>1. CASE servers' = [servers EXCEPT ![s] = [servers[s] EXCEPT !.ca = ~@]]
      BY <2>1, <3>1, Zenon
    <3>2. CASE servers' = [servers EXCEPT ![s] = Up]
      BY <2>2, <3>2, Zenon
    <3>3. CASE \E c \in H!Configs : servers' = [servers EXCEPT ![s] = With(c)]
      BY <2>3, <3>3, Zenon
    <3> QED BY <2>4, <3>1, <3>2, <3>3, Zenon
  <2> QED BY <1>1, <2>5 DEF K
<1>3. CASE H!Heartbeat(s)
  BY <1>1, <1>3 DEF H!Heartbeat, H!States, H!Configs
<1>4. CASE H!Transition(s)
  <2>1. PICK to \in H!States \ {"unavailable"} : servers' = [servers EXCEPT ![s].state = to]
    BY <1>1, <1>4 DEF H!Transition, H!States
  <2>2. [servers[s] EXCEPT !.state = to] \in K
    BY <1>1
  <2> QED BY <1>1, <2>1, <2>2
<1> QED BY <1>1, <1>2, <1>3, <1>4
\* What remains of a row that loses an association.
LEMMA WithoutHas ==
  ASSUME NEW s \in H!Servers, NEW rows, rows \subseteq H!Service, NEW r \in rows,
         r.daemons \ {s} # {}
  PROVE  \E q \in H!Without(s, rows) : q.id = r.id /\ q.daemons = r.daemons \ {s}
<1>1. r.daemons \ {s} \in SUBSET H!Servers /\ r \in H!Service
  BY DEF H!Service
<1>2. [r EXCEPT !.daemons = r.daemons \ {s}] \in H!Without(s, rows)
  BY <1>1, WithDaemons, Zenon DEF H!Without, H!wipe_dangling_service
<1> QED BY <1>1, <1>2, WithDaemons, Zenon

\* The rows from which an update makes those it stores are rows, with numbers.
LEMMA RowsOfIs ==
  ASSUME NEW s \in H!Servers, H!TypeOK, Single(services), Numbered, Associated,
         NEW rows, rows = services \/ rows = H!Without(s, services)
  PROVE  rows \subseteq H!Service /\ Single(rows) /\ \A r \in rows : r.id # 0 /\ r.daemons # {}
<1>1. services \subseteq H!Service /\ \A r \in services : r.id # 0 /\ r.daemons # {}
  BY DEF H!TypeOK, Numbered, Associated
<1>2. CASE rows = H!Without(s, services)
  BY <1>1, <1>2, WithoutIs
<1> QED BY <1>1, <1>2

\* There is a number that no row has, and no copy of one.
LEMMA FreeIdIs ==
  ASSUME Single(services), Single(pull.copies)
  PROVE  H!FreeId \in 1..5 /\ H!FreeId \notin H!Ids(services \cup pull.copies)
<1> DEFINE ids == H!Ids(services \cup pull.copies)
<1>1. \A i, j, k \in ids : i = j \/ j = k \/ i = k
  BY Zenon DEF H!Ids, Single
<1>2. \E i \in 1..5 : i \notin ids /\ \A j \in 1..(i - 1) : j \in ids
  <2> HIDE DEF ids
  <2>1. CASE 1 \notin ids
    BY <2>1
  <2>2. CASE 1 \in ids /\ 2 \notin ids
    BY <2>2
  <2>3. CASE 1 \in ids /\ 2 \in ids
    <3>1. 3 \notin ids
      BY <1>1, <2>3
    <3>2. \A j \in 1..(3 - 1) : j \in ids
      BY <2>3
    <3> QED BY <3>1, <3>2
  <2> QED BY <2>1, <2>2, <2>3
<1> QED BY <1>2, Zenon DEF H!FreeId

\* A detected service is the only one that has daemons, or there is none (DetectHAServices
\* of service.go).
LEMMA DetectStep ==
  ASSUME HAInv, H!DetectHAServices
  PROVE  HAInv'
<1> DEFINE s == update.at
           f == H!Found(s)
           rows == IF f.changed THEN H!Without(s, services) ELSE services
<1>1. /\ s \in H!Servers /\ H!Partner(s) \in H!Servers
      /\ f.changed \in BOOLEAN /\ f.active \in BOOLEAN /\ f.config \in H!Configs \cup {"unknown"}
  BY DEF HAInv, H!TypeOK, H!Servers, H!Partner, H!Found
<1>2. UNCHANGED <<servers, monitored, configured, activeServers, services, pull>>
  BY DEF H!DetectHAServices, H!machine
<1>3. CASE update' = [update EXCEPT !.at = H!Partner(s)]
  <2>1. update.pc = "idle"
    BY DEF H!DetectHAServices
  <2>2. /\ update' \in [at : H!Servers, pc : {"idle", "commit"}, config : H!Configs,
                        changed : BOOLEAN, active : BOOLEAN, row : H!Service]
        /\ update'.pc = "idle"
    BY <1>1, <1>3, <2>1 DEF HAInv, H!TypeOK
  <2> QED BY <1>2, <2>2 DEF HAInv, H!TypeOK, PullShape, Single, Numbered, Associated, DetectedIsThere
<1>4. CASE /\ f.config # "unknown"
           /\ update' = [update EXCEPT !.pc = "commit", !.config = f.config,
                           !.changed = f.changed, !.active = f.active,
                           !.row = H!Detected(s, rows)]
  <2> HIDE DEF s, f
  <2>1. rows \subseteq H!Service /\ Single(rows) /\ \A r \in rows : r.daemons # {}
    <3>1. rows = services \/ rows = H!Without(s, services)
      OBVIOUS
    <3> HIDE DEF rows
    <3> QED BY <1>1, <3>1, RowsOfIs DEF HAInv
  <2>2. H!NewService \in H!Service
    BY DEF H!NewService, H!Service
  <2> HIDE DEF rows
  <2>3. PICK row \in H!Service :
          /\ H!Detected(s, rows) = [row EXCEPT !.known = row.known \cup {s}]
          /\ \A r \in rows : r.id = row.id
    <3> DEFINE m == H!Matching(s, rows)
    <3>1. CASE m = {}
      BY <2>1, <2>2, <3>1 DEF H!Detected, H!Matching
    <3>2. CASE m # {}
      <4>1. PICK r \in rows : r.daemons # {} /\ m = {r} /\ r.id \in 0..5
        BY <2>1, <3>2 DEF H!Matching, Single, H!Service
      <4>2. \A q \in m : r.id <= q.id
        BY <4>1
      <4>3. (CHOOSE c \in m : \A q \in m : c.id <= q.id) = r
        BY <4>1, <4>2, Zenon
      <4>4. H!Detected(s, rows) = [r EXCEPT !.known = r.known \cup {s}]
        BY <3>2, <4>3, Zenon DEF H!Detected
      <4> QED BY <2>1, <4>1, <4>4, Zenon DEF Single
    <3> QED BY <3>1, <3>2
  <2>4. H!Detected(s, rows) \in H!Service /\ H!Detected(s, rows).id = row.id
    BY <1>1, <2>3 DEF H!Service
  <2>5. /\ update' \in [at : H!Servers, pc : {"idle", "commit"}, config : H!Configs,
                        changed : BOOLEAN, active : BOOLEAN, row : H!Service]
        /\ update'.at = s /\ update'.changed = f.changed /\ update'.row.id = row.id
    BY <1>1, <1>4, <2>4 DEF HAInv, H!TypeOK, s
  <2>6. RowsOf(services)' = rows
    BY <1>2, <2>5, Zenon DEF RowsOf, rows, H!Without
  <2>7. DetectedIsThere'
    BY <2>3, <2>5, <2>6, Zenon DEF DetectedIsThere
  <2> QED BY <1>2, <2>5, <2>7 DEF HAInv, H!TypeOK, PullShape, Single, Numbered, Associated
<1> QED BY <1>3, <1>4, Zenon DEF H!DetectHAServices

\* Of the services only the one that was detected keeps daemons (commitServicesIntoDB).
LEMMA CommitStep ==
  ASSUME HAInv, H!CommitServices
  PROVE  HAInv'
<1> DEFINE s == update.at
           rows == RowsOf(services)
           all == H!Committed(s, rows)
<1>1. s \in H!Servers /\ H!Partner(s) \in H!Servers /\ update.changed \in BOOLEAN
      /\ update.row \in H!Service /\ update.config \in H!Configs
  BY DEF HAInv, H!TypeOK, H!Servers, H!Partner
<1>2. /\ UNCHANGED <<servers, monitored, pull>>
      /\ services' = all
      /\ configured' = [configured EXCEPT ![s] = update.config]
      /\ activeServers' \subseteq activeServers \cup {s}
      /\ update' = [at |-> H!Partner(s), pc |-> "idle", config |-> "none", changed |-> FALSE,
                    active |-> FALSE, row |-> H!NewService]
      /\ update.pc = "commit"
  BY Zenon DEF H!CommitServices, H!machine, RowsOf
<1>3. rows \subseteq H!Service /\ Single(rows) /\ \A r \in rows : r.id # 0 /\ r.daemons # {}
  <2>1. rows = services \/ rows = H!Without(s, services)
    BY DEF RowsOf
  <2> HIDE DEF rows
  <2> QED BY <1>1, <2>1, RowsOfIs DEF HAInv
<1>4. \A r \in rows : r.id = update.row.id
  BY <1>2, Zenon DEF HAInv, DetectedIsThere
<1> HIDE DEF s, rows
<1>5. /\ services' \subseteq H!Service /\ Single(services)'
      /\ \A r \in services' : r.id # 0 /\ r.daemons # {}
  <2>1. CASE update.config = "none"
    BY <1>2, <1>3, <2>1, Zenon DEF H!Committed, Single
  <2>2. CASE update.config # "none"
    <3> DEFINE row == IF update.row.id = 0 THEN [update.row EXCEPT !.id = H!FreeId]
                      ELSE update.row
               kept == {r \in rows : r.id = row.id}
               new == [row EXCEPT !.daemons = {s} \cup UNION {r.daemons : r \in kept}]
    <3>1. /\ row \in H!Service /\ row.id # 0
          /\ update.row.id # 0 => row.id = update.row.id
      <4>1. H!FreeId \in 1..5
        BY FreeIdIs, Zenon DEF HAInv
      <4> QED BY <1>1, <4>1 DEF H!Service
    <3>2. all = (rows \ kept) \cup {new}
      BY <2>2, Zenon DEF H!Committed
    <3>3. rows \ kept = {}
      BY <1>3, <1>4, <3>1, Zenon
    <3>4. {s} \cup UNION {r.daemons : r \in kept} \in SUBSET H!Servers
      <4>1. \A r \in H!Service : r.daemons \subseteq H!Servers
        BY DEF H!Service
      <4> QED BY <1>1, <1>3, <4>1, Zenon
    <3> HIDE DEF row, kept
    <3>5. new \in H!Service /\ new.id = row.id
          /\ new.daemons = {s} \cup UNION {r.daemons : r \in kept}
      BY <3>1, <3>4, WithDaemons, Zenon
    <3>6. new.daemons # {}
      BY <3>5, Zenon
    <3> HIDE DEF new, all
    <3>7. services' \subseteq {new}
      BY <1>2, <3>2, <3>3, Zenon
    <3> QED BY <3>1, <3>5, <3>6, <3>7, Zenon DEF Single
  <2> QED BY <2>1, <2>2
<1>6. H!NewService \in H!Service
  BY DEF H!NewService, H!Service
<1>7. /\ update' \in [at : H!Servers, pc : {"idle", "commit"}, config : H!Configs,
                      changed : BOOLEAN, active : BOOLEAN, row : H!Service]
      /\ update'.pc # "commit"
  BY <1>1, <1>2, <1>6 DEF H!Configs
<1>8. configured' \in [H!Servers -> H!Configs \cup {"unknown"}]
  BY <1>1, <1>2 DEF HAInv, H!TypeOK
<1> QED BY <1>2, <1>5, <1>7, <1>8
  DEF HAInv, H!TypeOK, PullShape, Single, Numbered, Associated, DetectedIsThere

\* When it is the next application's turn, the copies are forgotten.
LEMMA NextAppIs ==
  ASSUME NEW round \in [at : H!Servers, pc : {"idle", "ask"}, apps : SUBSET H!Servers,
                        active : SUBSET H!Servers, copies : SUBSET H!Service]
  PROVE  /\ H!NextApp(round) \in [at : H!Servers, pc : {"idle", "ask"}, apps : SUBSET H!Servers,
                                  active : SUBSET H!Servers, copies : SUBSET H!Service]
         /\ H!NextApp(round).copies = {}
BY DEF H!NextApp, H!NoPull, H!Servers

\* Copies differ from rows in what is known of the servers' states.
LEMMA StatusReadStep ==
  ASSUME HAInv, H!ReadServices
  PROVE  HAInv'
<1> DEFINE s == pull.at
           round == H!pullData
           mine == {r \in services : s \in r.daemons \cap round.apps}
           read == {H!Reset(r, s) : r \in mine}
<1>1. s \in H!Servers /\ H!Partner(s) \in H!Servers /\ pull.copies \in SUBSET H!Service
      /\ services \subseteq H!Service
  BY DEF HAInv, PullShape, H!TypeOK, H!Servers, H!Partner
<1>2. UNCHANGED <<servers, monitored, configured, activeServers, services, update>>
  BY DEF H!ReadServices, H!machine
<1>3. \A r \in H!Service : H!Reset(r, s) \in H!Service /\ H!Reset(r, s).id = r.id
  BY <1>1 DEF H!Reset, H!Service, H!States
<1>4. \/ pull' = H!NextApp(round)
      \/ pull' = [round EXCEPT !.pc = "ask", !.copies = read]
  BY Zenon DEF H!ReadServices
<1>5. /\ read \subseteq H!Service /\ Single(read) /\ \A c \in read : c.id # 0
  BY <1>1, <1>3, Zenon DEF HAInv, Single, Numbered
<1>6. round \in [at : H!Servers, pc : {"idle", "ask"}, apps : SUBSET H!Servers,
                  active : SUBSET H!Servers, copies : SUBSET H!Service]
  BY DEF HAInv, PullShape, H!TypeOK, H!pullData
<1> HIDE DEF read, s, round
<1>7. PullShape' /\ (pull'.copies = {} \/ pull'.copies = read)
  BY <1>4, <1>5, <1>6, NextAppIs DEF PullShape
<1> QED BY <1>1, <1>2, <1>5, <1>7
  DEF HAInv, H!TypeOK, PullShape, Single, Numbered, Associated, DetectedIsThere, RowsOf,
      H!Without, H!wipe_dangling_service

\* Rows that are written whole keep their numbers and associations.
LEMMA WrittenIs ==
  ASSUME NEW copies, copies \subseteq H!Service, services \subseteq H!Service,
         NEW w \in H!Written(copies)
  PROVE  w \in H!Service /\ \E r \in services : w.id = r.id /\ w.daemons = r.daemons
<1>1. PICK r \in services :
        w = IF r.id \in H!Ids(copies)
            THEN [(CHOOSE c \in copies : c.id = r.id) EXCEPT !.daemons = r.daemons] ELSE r
  BY Zenon DEF H!Written
<1>2. r.daemons \in SUBSET H!Servers
  BY DEF H!Service
<1>3. CASE r.id \in H!Ids(copies)
  <2> DEFINE c == CHOOSE c \in copies : c.id = r.id
  <2>1. c \in copies /\ c.id = r.id
    BY <1>3, Zenon DEF H!Ids
  <2>2. w = [c EXCEPT !.daemons = r.daemons]
    BY <1>1, <1>3, Zenon
  <2> HIDE DEF c
  <2> QED BY <1>2, <2>1, <2>2, WithDaemons, Zenon
<1> QED BY <1>1, <1>3

\* The status puller writes rows under an update, but not their associations
\* (commitHAServicesStatus).
LEMMA StatusPullStep ==
  ASSUME HAInv, H!PullDataForApp
  PROVE  HAInv'
<1> DEFINE s == pull.at
           asked(status) == {IF status # H!NoStatus /\ s \in c.known
                             THEN H!UpdateHAServiceStatus(c, s, status) ELSE c :
                               c \in pull.copies}
<1>1. s \in H!Servers /\ H!Partner(s) \in H!Servers /\ pull.copies \in SUBSET H!Service
      /\ services \subseteq H!Service /\ update.at \in H!Servers /\ update.changed \in BOOLEAN
  BY DEF HAInv, PullShape, H!TypeOK, H!Servers, H!Partner
<1>2. /\ UNCHANGED <<servers, monitored, configured, activeServers, update>>
      /\ pull' = H!NextApp(pull)
      /\ services' = H!Written(asked(H!getDHCPStatus(s))) \/ services' = services
  BY Zenon DEF H!PullDataForApp, H!machine
<1>3. asked(H!getDHCPStatus(s)) \subseteq H!Service
  <2>1. H!getDHCPStatus(s) \in [own : H!States \cup {"none"}, partner : H!States \cup {"none"}]
    BY <1>1 DEF H!getDHCPStatus, H!NoStatus, HAInv, H!TypeOK
  <2>2. \A c \in H!Service : H!UpdateHAServiceStatus(c, s, H!getDHCPStatus(s)) \in H!Service
    BY <1>1, <2>1 DEF H!UpdateHAServiceStatus, H!Service
  <2> QED BY <1>1, <2>2, Zenon
<1> HIDE DEF s, asked
<1>4. \A w \in services' :
        w \in H!Service /\ \E r \in services : w.id = r.id /\ w.daemons = r.daemons
  <2> DEFINE copies == asked(H!getDHCPStatus(s))
  <2>1. CASE services' = services
    BY <1>1, <2>1
  <2>2. CASE services' = H!Written(copies)
    <3> HIDE DEF copies
    <3>1. copies \subseteq H!Service
      BY <1>3, Zenon DEF copies
    <3> QED BY <1>1, <2>2, <3>1, WrittenIs
  <2> QED BY <1>2, <2>1, <2>2
<1>5. Single(services)'
  <2>1. CASE services' = services
    BY <2>1, Zenon DEF HAInv, Single
  <2>2. CASE services' = H!Written(asked(H!getDHCPStatus(s)))
    <3> DEFINE copies == asked(H!getDHCPStatus(s))
               W(r) == IF r.id \in H!Ids(copies)
                       THEN [(CHOOSE c \in copies : c.id = r.id) EXCEPT !.daemons = r.daemons]
                       ELSE r
    <3>1. services' = {W(r) : r \in services}
      BY <2>2, Zenon DEF H!Written
    <3> HIDE DEF W
    <3> QED BY <3>1, Zenon DEF HAInv, Single
  <2> QED BY <1>2, <2>1, <2>2
<1>6. DetectedIsThere'
  <2> SUFFICES ASSUME update.pc = "commit", NEW q \in RowsOf(services)'
               PROVE  q.id = update.row.id
    BY <1>2, Zenon DEF DetectedIsThere
  <2>1. \A r \in RowsOf(services) : r.id = update.row.id
    BY Zenon DEF HAInv, DetectedIsThere
  <2>2. CASE update.changed
    <3>1. q \in H!Without(update.at, services') /\ services' \subseteq H!Service
      BY <1>2, <1>4, <2>2, Zenon DEF RowsOf, H!Without
    <3>2. PICK w \in services' :
            q.id = w.id /\ q.daemons = w.daemons \ {update.at} /\ q.daemons # {}
      BY <1>1, <3>1, WithoutIs
    <3>3. PICK r \in services : w.id = r.id /\ w.daemons = r.daemons
      BY <1>4, Zenon
    <3>4. \E z \in H!Without(update.at, services) :
            z.id = r.id /\ z.daemons = r.daemons \ {update.at}
      BY <1>1, <3>2, <3>3, WithoutHas
    <3> QED BY <2>1, <2>2, <3>2, <3>3, <3>4, Zenon DEF RowsOf
  <2>3. CASE ~update.changed
    <3>1. q \in services'
      BY <1>2, <2>3, Zenon DEF RowsOf
    <3> QED BY <1>4, <2>1, <2>3, <3>1, Zenon DEF RowsOf
  <2> QED BY <2>2, <2>3
<1>7. \A r \in services' : r.id # 0 /\ r.daemons # {}
  BY <1>4, Zenon DEF HAInv, Numbered, Associated
<1>8. PullShape' /\ pull'.copies = {}
  BY <1>2, NextAppIs DEF HAInv, PullShape
<1> QED BY <1>2, <1>4, <1>5, <1>6, <1>7, <1>8
  DEF HAInv, H!TypeOK, PullShape, Single, Numbered, Associated

\* The HA relationship never has two services, although a service that loses its last daemon
\* is deleted and made again, and both pullers write whole rows that they read earlier
\* (updateService of model/service.go, commitHAServicesStatus of status.go).
THEOREM OneServiceAlways == HAServicesSpec => []OneService
<1>1. H!Init => HAInv
  BY HAInit
<1>2. HAInv /\ [H!Next]_(H!vars) => HAInv'
  <2> SUFFICES ASSUME HAInv, [H!Next]_(H!vars)
               PROVE  HAInv'
    OBVIOUS
  <2>1. ASSUME NEW s \in H!Servers, H!Change(s) \/ H!Heartbeat(s) \/ H!Transition(s)
        PROVE  HAInv'
    <3>1. servers' \in [H!Servers -> [ca : BOOLEAN, up : BOOLEAN, config : H!Configs,
                                      state : H!States \ {"unavailable"}, heard : H!States]]
      BY <2>1, ServersKeepTypes DEF HAInv
    <3>2. UNCHANGED <<monitored, configured, activeServers, services, update, pull>>
      BY <2>1, Zenon DEF H!Change, H!Heartbeat, H!Transition
    <3> QED BY <3>1, <3>2, ServersStep DEF HAInv, H!TypeOK
  <2>2. CASE H!Authorize
    BY <2>2, ServersStep DEF H!Authorize, HAInv, H!TypeOK
  <2>3. CASE H!DetectHAServices
    BY <2>3, DetectStep
  <2>4. CASE H!CommitServices
    BY <2>4, CommitStep
  <2>5. CASE H!ReadServices
    BY <2>5, StatusReadStep
  <2>6. CASE H!PullDataForApp
    BY <2>6, StatusPullStep
  <2>7. CASE UNCHANGED H!vars
    BY <2>7, ServersStep DEF H!vars, H!machine, HAInv, H!TypeOK
  <2> QED BY <2>1, <2>2, <2>3, <2>4, <2>5, <2>6, <2>7, Zenon DEF H!Next
<1>3. HAInv => OneService
  BY DEF HAInv, OneService, H!OneService, Single
<1> QED BY <1>1, <1>2, <1>3, PTL DEF HAServicesSpec, H!FairSpec, H!Spec

=============================================================================
