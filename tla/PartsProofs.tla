---------------------------- MODULE PartsProofs ----------------------------
(***************************************************************************)
(* Proofs about the event center and about six of the parts that MCParts   *)
(* puts together, for all values of their constants.                       *)
(*                                                                         *)
(* Every subscriber gets the events in the order of the database, each at  *)
(* most once (EventsInOrder), and what it asked for comes on the regular   *)
(* stream (RegularStreamIsComplete), for any number of events, subscribers *)
(* and callers of AddEvent.  Neither is inductive.  The first needs where  *)
(* the event in the loop is: not yet in the database while it is being     *)
(* saved, its last row afterwards, and unknown to every subscriber that is *)
(* still to be visited.  The second needs that the streams the loop has    *)
(* stored in the event for the subscriber it is blocked on are those it    *)
(* asked for.                                                              *)
(*                                                                         *)
(* Of the parts, each has an invariant of its own, and PartsInv says that  *)
(* the part that runs keeps its own: the writes of a request for checkers  *)
(* (StatesInv), the phases of a save of zone files (FilesInv), the answers *)
(* of a round of an exporter (KeaExporterInv, Bind9ExporterInv), what a    *)
(* form of global parameters has sent so far (ParametersInv), and what a   *)
(* search for leases has asked so far (SearchInv).  The parts that store   *)
(* what daemons count are in FetchProofs.                                  *)
(***************************************************************************)
EXTENDS EventCenter, MCParts, Integers, TLAPS, FiniteSetTheorems, WellFoundedInduction

-----------------------------------------------------------------------------
(* The smallest and the largest element of a set                           *)

LEMMA HasSmallest ==
  ASSUME NEW ints, ints \subseteq Nat, ints # {}
  PROVE  \E x \in ints : \A y \in ints : x <= y
<1> DEFINE Below == {ss \in Nat \X Nat : ss[1] < ss[2]}
<1>1. IsWellFoundedOn(Below, Nat)
  BY NatLessThanWellFounded, Zenon DEF OpToRel
<1> HIDE DEF Below
<1>2. PICK x \in ints : \A y \in ints : ~ (<<y, x>> \in Below)
  BY <1>1, WFMin, Zenon
<1>3. \A y \in ints : ~ (y < x)
  BY <1>2 DEF Below
<1> QED BY <1>2, <1>3, SMT

LEMMA MinOfOne == ASSUME NEW i \in Nat PROVE Min({i}) = i
<1>1. \A x \in {i} : x = i
  OBVIOUS
<1>2. i <= i
  OBVIOUS
<1>3. \E x \in {i} : \A y \in {i} : x <= y
  BY <1>1, <1>2, Zenon
<1> QED BY <1>1, <1>3, Zenon DEF Min

LEMMA HasLargest ==
  ASSUME NEW n \in Nat, NEW ints, ints \subseteq 1 .. n, ints # {}
  PROVE  Max(ints) \in ints
<1> DEFINE T == {n - x : x \in ints}
<1>1. \A x \in ints : n - x \in Nat
  OBVIOUS
<1>2. PICK t \in T : \A u \in T : t <= u
  <2>1. T \subseteq Nat
    BY <1>1
  <2>2. T # {}
    OBVIOUS
  <2> QED BY <2>1, <2>2, HasSmallest
<1>3. PICK x \in ints : t = n - x
  BY <1>2
<1>4. \A y \in ints : n - x <= n - y
  BY <1>2, <1>3
<1>5. \A y \in ints : x >= y
  BY <1>4
<1> QED BY <1>5 DEF Max

-----------------------------------------------------------------------------
(* The order of the events                                                 *)

\* The database has an event at most once, and only those that were sent.
SavedOnce ==
  /\ \A i, j \in DOMAIN saved : saved[i] = saved[j] => i = j
  /\ \A i \in DOMAIN saved : added[saved[i]] = "sent"

\* Where the event in the loop is, and what the loop does when.
InHand ==
  /\ loop = "saving" =>
       /\ event \in Events /\ added[event] = "sent"
       /\ \A i \in DOMAIN saved : saved[i] # event
  /\ loop \in {"saved", "dispatching"} => saved # <<>> /\ event = saved[Len(saved)]
  /\ target # NoOne => loop = "dispatching"
  /\ todo # {} => Locked

\* The subscribers the event has not been offered to do not know it.
NotYet(s) == \A i \in DOMAIN got[s] : got[s][i].event # event
Unseen ==
  /\ loop = "saved" => \A s \in Subscribers : NotYet(s)
  /\ loop = "dispatching" => \A s \in todo : NotYet(s)

\* The two parts of EventsInOrder for one subscriber.
OnlyStored(s) ==
  \A i \in DOMAIN got[s] : \E k \in DOMAIN saved : saved[k] = got[s][i].event
Ordered(s) ==
  \A i, j \in DOMAIN got[s], k, l \in DOMAIN saved :
    i < j /\ saved[k] = got[s][i].event /\ saved[l] = got[s][j].event => k < l

OrderInv ==
  TypeOK /\ SavedOnce /\ InHand /\ Unseen /\ \A s \in Subscribers : OnlyStored(s) /\ Ordered(s)

LEMMA OrderImplies == OrderInv => EventsInOrder
<1> SUFFICES ASSUME OrderInv, NEW s \in Subscribers
             PROVE  ToSet(Received(s)) \subseteq ToSet(saved)
  BY DEF OrderInv, EventsInOrder, Ordered
<1>1. OnlyStored(s)
  BY DEF OrderInv
<1>2. DOMAIN Received(s) = DOMAIN got[s]
      /\ \A i \in DOMAIN got[s] : Received(s)[i] = got[s][i].event
  BY DEF Received
<1> QED BY <1>1, <1>2 DEF OnlyStored, ToSet

LEMMA OrderInit == Init => OrderInv
<1> SUFFICES ASSUME Init PROVE OrderInv
  OBVIOUS
<1> USE DEF Init
<1>1. TypeOK
  BY DEF TypeOK
<1>2. SavedOnce /\ InHand /\ Unseen
  BY DEF SavedOnce, InHand, Unseen
<1>3. \A s \in Subscribers : OnlyStored(s) /\ Ordered(s)
  BY DEF OnlyStored, Ordered
<1> QED BY <1>1, <1>2, <1>3 DEF OrderInv

-----------------------------------------------------------------------------
(* The types                                                               *)

LEMMA TypeLoop == ASSUME TypeOK, InHand, MainLoop PROVE TypeOK'
<1> USE StreamsAssumption DEF TypeOK, loopVars, connVars
<1>1. ASSUME NEW e \in Events, Receive(e) PROVE TypeOK'
  <2>1. Tags[e] \in SUBSET Streams
    OBVIOUS
  <2> QED BY <1>1, <2>1 DEF Receive, InHand
<1>2. CASE Save
  <2>1. event \in Events
    BY <1>2 DEF Save, InHand
  <2>2. saved' \in Seq(Events)
    BY <1>2, <2>1, SMTT(30) DEF Save
  <2>3. target' \in todo' \cup {NoOne} /\ todo' \in SUBSET subscribers'
    BY <1>2 DEF Save
  <2> QED BY <1>2, <2>2, <2>3 DEF Save
<1>3. CASE Dispatch
  BY <1>3 DEF Dispatch, InHand
<1>4. CASE DispatchEnd
  BY <1>4 DEF DispatchEnd
<1>5. CASE Stop
  BY <1>5 DEF Stop, InHand
<1>6. CASE StopEnd
  BY <1>6 DEF StopEnd, InHand
<1>7. ASSUME NEW s \in Subscribers, Offer(s) PROVE TypeOK'
  <2>1. Matching(s) \in SUBSET Streams
    BY DEF Matching
  <2>2. streams' \in SUBSET Streams
    BY <1>7, <2>1 DEF Offer
  <2>3. todo' \in SUBSET subscribers' /\ target' \in todo' \cup {NoOne}
    BY <1>7 DEF Offer
  <2> QED BY <1>7, <2>2, <2>3 DEF Offer
<1>8. ASSUME NEW s \in Subscribers, Deliver(s) PROVE TypeOK'
  <2>1. saved # <<>> /\ event = saved[Len(saved)]
    BY <1>8 DEF Deliver, InHand
  <2>2. event \in Events
    BY <2>1
  <2> DEFINE Copies == [event : Events, streams : SUBSET Streams]
             r == [event |-> event, streams |-> streams]
  <2>3. r \in Copies
    BY <2>2
  <2>4. got' \in [Subscribers -> Seq(Copies)]
    <3>1. got \in [Subscribers -> Seq(Copies)] /\ got' = [got EXCEPT ![s] = Append(@, r)]
      BY <1>8 DEF Deliver
    <3> HIDE DEF Copies, r, TypeOK
    <3> QED BY <2>3, <3>1
  <2> QED BY <1>8, <2>4 DEF Deliver
<1>9. ASSUME NEW s \in Subscribers, Close(s) PROVE TypeOK'
  BY <1>9 DEF Close, InHand
<1> QED BY <1>1, <1>2, <1>3, <1>4, <1>5, <1>6, <1>7, <1>8, <1>9 DEF MainLoop

\* A connection leaves the map only while the loop does not hold its lock, and
\* then the loop has nobody to visit.
LEMMA TypeOthers ==
  ASSUME TypeOK, InHand,
         \/ \E e \in Events : AddEvent(e)
         \/ Shutdown \/ ShutdownEnd
         \/ \E s \in Subscribers : Refuse(s) \/ Register(s) \/ Disconnect(s) \/ Connection(s)
  PROVE  TypeOK'
<1> USE DEF TypeOK, loopVars, connVars
<1>1. ASSUME NEW e \in Events, AddEvent(e) PROVE TypeOK'
  BY <1>1 DEF AddEvent
<1>2. CASE Shutdown \/ ShutdownEnd
  BY <1>2 DEF Shutdown, ShutdownEnd
<1>3. ASSUME NEW s \in Subscribers, Refuse(s) \/ Disconnect(s) \/ Write(s) \/ Leave(s)
      PROVE  TypeOK'
  BY <1>3 DEF Refuse, Disconnect, Write, Leave
<1>4. ASSUME NEW s \in Subscribers, Register(s) PROVE TypeOK'
  BY <1>4 DEF Register
<1>5. ASSUME NEW s \in Subscribers, Unregister(s) PROVE TypeOK'
  BY <1>5 DEF Unregister, InHand
<1> QED BY <1>1, <1>2, <1>3, <1>4, <1>5 DEF Connection

-----------------------------------------------------------------------------
(* The steps of the order                                                  *)

\* The steps that do not touch the database, the event in the loop, and what
\* subscribers have got; a goroutine may begin to send another event.
LEMMA OrderOthers ==
  ASSUME OrderInv, TypeOK',
         UNCHANGED <<loopVars, got>>,
         \A e \in Events : added[e] = "sent" => added'[e] = "sent"
  PROVE  OrderInv'
<1> USE DEF OrderInv, loopVars
<1>1. SavedOnce'
  BY DEF SavedOnce, TypeOK
<1>2. InHand'
  BY DEF InHand, Locked
<1>3. Unseen'
  BY DEF Unseen, NotYet
<1>4. \A s \in Subscribers : OnlyStored(s)' /\ Ordered(s)'
  BY DEF OnlyStored, Ordered
<1> QED BY <1>1, <1>2, <1>3, <1>4

\* The event is new to the database: every event that was received before has
\* its row, and gets no second one.
LEMMA OrderSave == ASSUME OrderInv, TypeOK', Save PROVE OrderInv'
<1> USE DEF OrderInv
<1>1. CASE UNCHANGED saved /\ loop' = "waiting"
  <2>1. SavedOnce' /\ InHand'
    BY <1>1 DEF Save, SavedOnce, InHand, Locked
  <2>2. Unseen'
    BY <1>1 DEF Unseen
  <2>3. \A s \in Subscribers : OnlyStored(s)' /\ Ordered(s)'
    BY <1>1 DEF Save, connVars, OnlyStored, Ordered
  <2> QED BY <2>1, <2>2, <2>3
<1>2. CASE saved' = Append(saved, event) /\ loop' = "saved"
  <2>1. /\ saved \in Seq(Events) /\ event \in Events /\ added[event] = "sent"
        /\ \A i \in DOMAIN saved : saved[i] # event
        /\ UNCHANGED <<added, event, todo, target, got>>
        /\ todo = {} /\ target = NoOne
    BY DEF Save, InHand, TypeOK, Locked, connVars
  <2>2. /\ Len(saved') = Len(saved) + 1 /\ saved'[Len(saved) + 1] = event
        /\ DOMAIN saved = 1 .. Len(saved) /\ DOMAIN saved' = 1 .. Len(saved) + 1
        /\ \A i \in DOMAIN saved : saved'[i] = saved[i]
    BY <1>2, <2>1
  <2>3. SavedOnce'
    BY <2>1, <2>2 DEF SavedOnce
  <2>4. InHand'
    BY <1>2, <2>1, <2>2 DEF InHand, Locked
  <2>5. \A s \in Subscribers : NotYet(s)
    BY <2>1 DEF OnlyStored, NotYet
  <2>6. Unseen'
    BY <1>2, <2>1, <2>5 DEF Unseen, NotYet
  <2>7. \A s \in Subscribers : OnlyStored(s)'
    BY <2>1, <2>2 DEF OnlyStored
  <2>8. ASSUME NEW s \in Subscribers PROVE Ordered(s)'
    BY <2>1, <2>2, <2>5 DEF Ordered, NotYet
  <2> QED BY <2>3, <2>4, <2>6, <2>7, <2>8
<1> QED BY <1>1, <1>2 DEF Save

\* The event is the last row of the database, and the subscriber knows only
\* events of rows before it.
LEMMA OrderDeliver ==
  ASSUME OrderInv, TypeOK', NEW s \in Subscribers, Deliver(s)
  PROVE  OrderInv'
<1> DEFINE n == Len(got[s])
<1>1. /\ loop = "dispatching" /\ s \in todo
      /\ saved \in Seq(Events) /\ saved # <<>> /\ event = saved[Len(saved)]
      /\ UNCHANGED <<loop, event, saved, added>>
      /\ todo' = todo \ {s} /\ target' = NoOne
      /\ NotYet(s)
  BY NoOneAssumption DEF OrderInv, Deliver, InHand, TypeOK, Unseen
<1>2. /\ n \in Nat
      /\ DOMAIN got[s] = 1 .. n /\ DOMAIN got'[s] = 1 .. n + 1
      /\ got'[s][n + 1].event = event
      /\ \A i \in 1 .. n : got'[s][i] = got[s][i]
      /\ \A x \in Subscribers \ {s} : got'[x] = got[x]
  BY DEF OrderInv, Deliver, TypeOK
<1>3. SavedOnce /\ \A x \in Subscribers : OnlyStored(x) /\ Ordered(x)
  BY DEF OrderInv
<1> HIDE DEF n
<1>4. SavedOnce'
  BY <1>1, <1>3 DEF SavedOnce
<1>5. InHand'
  BY <1>1 DEF OrderInv, InHand, Locked
<1>6. Unseen'
  BY <1>1, <1>2 DEF OrderInv, Unseen, NotYet, TypeOK
<1>7. OnlyStored(s)'
  <2> SUFFICES ASSUME NEW i \in 1 .. n + 1
               PROVE  \E k \in DOMAIN saved : saved[k] = got'[s][i].event
    BY <1>1, <1>2 DEF OnlyStored
  <2>1. CASE i = n + 1
    BY <1>1, <1>2, <2>1
  <2>2. CASE i \in 1 .. n
    BY <1>2, <1>3, <2>2 DEF OnlyStored
  <2> QED BY <1>2, <2>1, <2>2
<1>8. Ordered(s)'
  <2> SUFFICES ASSUME NEW i \in 1 .. n + 1, NEW j \in 1 .. n + 1,
                      NEW k \in DOMAIN saved, NEW l \in DOMAIN saved,
                      i < j, saved[k] = got'[s][i].event, saved[l] = got'[s][j].event
               PROVE  k < l
    <3>1. DOMAIN got'[s] = 1 .. n + 1 /\ saved' = saved
      BY <1>1, <1>2
    <3> QED BY <3>1 DEF Ordered
  <2>1. i \in 1 .. n /\ got'[s][i] = got[s][i]
    BY <1>2
  <2>2. CASE j = n + 1
    <3>1. l = Len(saved)
      BY <1>1, <1>2, <1>3, <2>2 DEF SavedOnce
    <3>2. saved[k] # event
      BY <1>1, <1>2, <2>1 DEF NotYet
    <3> QED BY <1>1, <3>1, <3>2
  <2>3. CASE j \in 1 .. n
    <3>1. saved[k] = got[s][i].event /\ saved[l] = got[s][j].event
      BY <1>2, <2>1, <2>3
    <3>2. i \in DOMAIN got[s] /\ j \in DOMAIN got[s]
      BY <1>2, <2>1, <2>3
    <3> QED BY <1>3, <3>1, <3>2 DEF Ordered
  <2> QED BY <1>2, <2>2, <2>3
<1>9. ASSUME NEW x \in Subscribers \ {s} PROVE OnlyStored(x)' /\ Ordered(x)'
  <2>1. got'[x] = got[x] /\ saved' = saved
    BY <1>1, <1>2
  <2> QED BY <1>3, <2>1 DEF OnlyStored, Ordered
<1> QED BY <1>4, <1>5, <1>6, <1>7, <1>8, <1>9 DEF OrderInv

LEMMA OrderStep == OrderInv /\ [Next]_vars => OrderInv'
<1> SUFFICES ASSUME OrderInv, [Next]_vars PROVE OrderInv'
  OBVIOUS
<1> DEFINE OtherSteps == \/ \E e \in Events : AddEvent(e)
                     \/ Shutdown \/ ShutdownEnd
                     \/ \E s \in Subscribers :
                          Refuse(s) \/ Register(s) \/ Disconnect(s) \/ Connection(s)
<1>1. CASE OtherSteps
  <2>1. TypeOK'
    BY <1>1, TypeOthers DEF OrderInv
  <2>2. UNCHANGED <<loopVars, got>>
    BY <1>1 DEF AddEvent, Shutdown, ShutdownEnd, Refuse, Register, Disconnect, Connection,
                Write, Leave, Unregister, loopVars, connVars
  <2>3. \A e \in Events : added[e] = "sent" => added'[e] = "sent"
    BY <1>1 DEF OrderInv, TypeOK, AddEvent, Shutdown, ShutdownEnd, Refuse, Register,
                Disconnect, Connection, Write, Leave, Unregister
  <2> QED BY <2>1, <2>2, <2>3, OrderOthers
<1>2. CASE MainLoop
  <2>1. TypeOK'
    BY <1>2, TypeLoop DEF OrderInv
  <2>2. ASSUME UNCHANGED <<got, saved>>, \A e \in Events : added[e] = "sent" => added'[e] = "sent"
        PROVE  /\ SavedOnce'
               /\ \A s \in Subscribers : OnlyStored(s)' /\ Ordered(s)'
    BY <2>2 DEF OrderInv, TypeOK, SavedOnce, OnlyStored, Ordered
  <2>3. ASSUME NEW e \in Events, Receive(e) PROVE OrderInv'
    <3>1. \A i \in DOMAIN saved : saved[i] # e
      BY <2>3 DEF OrderInv, SavedOnce, Receive
    <3>2. UNCHANGED <<got, saved>> /\ \A x \in Events : added[x] = "sent" => added'[x] = "sent"
      BY <2>3 DEF OrderInv, TypeOK, Receive, connVars
    <3>3. InHand' /\ Unseen'
      BY <2>3, <3>1 DEF OrderInv, TypeOK, Receive, InHand, Unseen, Locked
    <3> QED BY <2>1, <2>2, <3>2, <3>3 DEF OrderInv
  <2>4. CASE Dispatch
    <3>1. InHand'
      BY <2>4 DEF OrderInv, Dispatch, InHand, Locked
    <3>2. Unseen'
      BY <2>1, <2>4 DEF OrderInv, TypeOK, Dispatch, Unseen, NotYet, connVars
    <3> QED BY <2>1, <2>2, <2>4, <3>1, <3>2 DEF OrderInv, Dispatch, connVars
  <2>5. CASE DispatchEnd \/ Stop \/ StopEnd
    <3>1. InHand' /\ Unseen'
      BY <2>5 DEF OrderInv, TypeOK, DispatchEnd, Stop, StopEnd, InHand, Unseen, Locked
    <3> QED BY <2>1, <2>2, <2>5, <3>1 DEF OrderInv, DispatchEnd, Stop, StopEnd, connVars
  <2>6. ASSUME NEW s \in Subscribers, Offer(s) \/ Close(s) PROVE OrderInv'
    <3>1. InHand'
      BY <2>6 DEF OrderInv, Offer, Close, InHand, Locked
    <3>2. Unseen'
      BY <2>6 DEF OrderInv, Offer, Close, Unseen, NotYet, connVars
    <3> QED BY <2>1, <2>2, <2>6, <3>1, <3>2 DEF OrderInv, Offer, Close, connVars
  <2> QED BY <1>2, <2>1, <2>3, <2>4, <2>5, <2>6, OrderSave, OrderDeliver DEF MainLoop
<1>3. CASE UNCHANGED vars
  <2>1. TypeOK'
    BY <1>3 DEF vars, OrderInv, TypeOK, loopVars, connVars
  <2> QED BY <1>3, <2>1, OrderOthers DEF vars, connVars
<1> QED BY <1>1, <1>2, <1>3 DEF Next

\* Every subscriber gets the events in the order in which the main loop stored
\* them, each at most once and none that is not stored, whatever connects,
\* leaves or is refused meanwhile (mainLoop and dispatchEvent).
THEOREM EventsAreInOrder == Spec => []EventsInOrder
<1>1. Init => OrderInv
  BY OrderInit
<1>2. OrderInv /\ [Next]_vars => OrderInv'
  BY OrderStep
<1>3. OrderInv => EventsInOrder
  BY OrderImplies
<1> QED BY <1>1, <1>2, <1>3, PTL DEF Spec

-----------------------------------------------------------------------------
(* The regular stream                                                      *)

\* The identifier an event keeps of a kind is the one that all its objects of
\* this kind have.
LEMMA NamedIsKept ==
  ASSUME NEW e \in Events, NEW k \in Kinds, NEW id, Names(e, k, id)
  PROVE  Relations(e)[k] = id
<1> DEFINE namedIds == {i \in DOMAIN About[e] : k \in DOMAIN About[e][i]}
<1>1. PICK i \in DOMAIN About[e] : k \in DOMAIN About[e][i] /\ About[e][i][k] = id
  BY DEF Names
<1>2. Max(namedIds) \in namedIds
  <2>1. namedIds \subseteq 1 .. Len(About[e]) /\ namedIds # {}
    BY <1>1, OneOfAKind
  <2>2. Len(About[e]) \in Nat
    BY OneOfAKind
  <2> QED BY <2>1, <2>2, HasLargest
<1>3. About[e][Max(namedIds)][k] = id
  BY <1>1, <1>2, OneOfAKind
<1> QED BY <1>1, <1>2, <1>3 DEF Relations

\* The application that a filter is resolved to is the one that was asked for.
LEMMA TypedIsFirst ==
  ASSUME NEW s \in Subscribers, Query[s].appType # "", Query[s].ids["machine"] # 0,
         NEW a \in ToSet(Apps[Query[s].ids["machine"]]), a.type = Query[s].appType
  PROVE  FirstTyped(Query[s]) = a
<1> DEFINE apps == Apps[Query[s].ids["machine"]]
<1>1. PICK i \in DOMAIN apps : apps[i] = a
  BY Zenon DEF ToSet
<1>2. \A j \in DOMAIN apps : apps[j].type = Query[s].appType => i = j
  BY <1>1, OneOfAType, Zenon
<1>3. Typed(Query[s]) = {i}
  BY <1>1, <1>2, Zenon DEF Typed
<1>4. Min(Typed(Query[s])) = i
  <2>1. i \in Nat
    BY <1>1, OneOfAType, Zenon
  <2> QED BY <1>3, <2>1, MinOfOne, Zenon
<1> QED BY <1>1, <1>4, Zenon DEF FirstTyped

\* A filter that is not refused lets every event through that its subscriber
\* asked for.
LEMMA FilterAccepts ==
  ASSUME NEW s \in Subscribers, NEW e \in Events,
         Message \in Query[s].streams, ~ Refused(Query[s]), AskedFor(s, e)
  PROVE  InFilter(s, e)
<1> DEFINE q == Query[s]
<1>1. q.ids \in [Kinds -> Nat]
  BY StreamsAssumption
<1>2. q.level <= Level[e]
      /\ \A k \in Kinds : q.ids[k] # 0 => Relations(e)[k] = q.ids[k]
  BY NamedIsKept, Zenon DEF AskedFor
<1>3. CASE q.appType = ""
  BY <1>2, <1>3, Zenon DEF InFilter, Filters
<1>4. CASE q.appType # ""
  <2>1. /\ q.ids["app"] = 0 /\ q.ids["machine"] # 0
        /\ q.daemonName # "" => q.ids["daemon"] = 0
    BY <1>4, Zenon DEF Refused, Contradicts, Unknown
  <2>2. PICK a \in ToSet(Apps[q.ids["machine"]]) :
          /\ a.type = q.appType /\ Names(e, "app", a.id)
          /\ q.daemonName # "" => Names(e, "daemon", a.daemons[q.daemonName])
    BY <1>4, Zenon DEF AskedFor
  <2>3. FirstTyped(q) = a
    BY <1>4, <2>1, <2>2, TypedIsFirst, Zenon
  <2>4. /\ Relations(e)["app"] = a.id
        /\ q.daemonName # "" => Relations(e)["daemon"] = a.daemons[q.daemonName]
    BY <2>2, NamedIsKept, Zenon DEF Kinds
  <2>5. /\ Filters(q)["app"] = a.id
        /\ Filters(q)["daemon"] =
             IF q.daemonName = "" THEN q.ids["daemon"] ELSE a.daemons[q.daemonName]
        /\ \A k \in Kinds \ {"app", "daemon"} : Filters(q)[k] = q.ids[k]
    BY <1>1, <1>4, <2>3, Zenon DEF Filters, Kinds
  <2>6. ASSUME NEW k \in Kinds PROVE Filters(q)[k] \in {0, Relations(e)[k]}
    <3>1. CASE k = "app"
      BY <2>4, <2>5, <3>1, Zenon
    <3>2. CASE k = "daemon"
      BY <1>2, <2>4, <2>5, <3>2, Zenon DEF Kinds
    <3>3. CASE k \notin {"app", "daemon"}
      BY <1>2, <2>5, <3>3, Zenon
    <3> QED BY <3>1, <3>2, <3>3
  <2> QED BY <1>2, <2>6 DEF InFilter
<1> QED BY <1>3, <1>4, Zenon

\* A subscriber is interested in the event in the loop, and has it.
Interested(s) == Message \in Query[s].streams /\ AskedFor(s, event)
HasIt(s) == \E i \in DOMAIN got[s] : got[s][i].event = event /\ Message \in got[s][i].streams

\* Only filters that could be resolved are in the map, the streams the loop has
\* stored in the event are those of the subscriber it is blocked on, and those
\* that have been visited have the event.
NoneRefused == \A s \in subscribers : ~ Refused(Query[s])
OfTarget == target # NoOne /\ Interested(target) => Message \in streams
Visited == loop = "dispatching" => \A s \in subscribers \ todo : Interested(s) => HasIt(s)
StreamInv == OrderInv /\ NoneRefused /\ OfTarget /\ Visited

LEMMA StreamInit == Init => StreamInv
<1> SUFFICES ASSUME Init PROVE StreamInv
  OBVIOUS
<1>1. NoneRefused /\ OfTarget /\ Visited
  BY DEF Init, NoneRefused, OfTarget, Visited
<1> QED BY <1>1, OrderInit DEF StreamInv

\* As long as the event in the loop is the same, so is who is interested in it,
\* and who has it.
LEMMA SameEvent ==
  ASSUME UNCHANGED event, NEW s \in Subscribers
  PROVE  /\ Interested(s)' <=> Interested(s)
         /\ got'[s] = got[s] => (HasIt(s)' <=> HasIt(s))
<1>1. AskedFor(s, event)' <=> AskedFor(s, event)
  BY DEF AskedFor, Names
<1> QED BY <1>1 DEF Interested, HasIt

\* A subscriber that is passed over is not interested, and the one that is
\* offered the event gets it on the regular stream if it is.
LEMMA StreamOffer ==
  ASSUME StreamInv, NEW s \in Subscribers, Offer(s)
  PROVE  NoneRefused' /\ OfTarget' /\ Visited'
<1>1. /\ loop = "dispatching" /\ target = NoOne /\ s \in todo /\ s \in subscribers
      /\ event \in Events
      /\ UNCHANGED <<loop, event, subscribers, got>>
  BY DEF StreamInv, OrderInv, TypeOK, InHand, Offer, connVars
<1>2. Interested(s) => Message \in Matching(s)
  BY <1>1, FilterAccepts DEF StreamInv, NoneRefused, Interested, Matching
<1>3. NoneRefused'
  BY <1>1 DEF StreamInv, NoneRefused
<1>4. CASE Matching(s) = {}
  <2>1. todo' = todo \ {s} /\ UNCHANGED <<streams, target>>
    BY <1>4 DEF Offer
  <2>2. ~ Interested(s)
    BY <1>2, <1>4
  <2>3. subscribers \subseteq Subscribers
    BY DEF StreamInv, OrderInv, TypeOK
  <2>4. Visited'
    BY <1>1, <2>1, <2>2, <2>3, SameEvent DEF StreamInv, Visited
  <2> QED BY <1>1, <1>3, <2>1, <2>4 DEF OfTarget
<1>5. CASE Matching(s) # {}
  <2>1. streams' = Matching(s) /\ target' = s /\ UNCHANGED todo
    BY <1>5 DEF Offer
  <2>2. OfTarget'
    BY <1>1, <1>2, <2>1, SameEvent DEF OfTarget
  <2>3. subscribers \subseteq Subscribers
    BY DEF StreamInv, OrderInv, TypeOK
  <2>4. Visited'
    BY <1>1, <2>1, <2>3, SameEvent DEF StreamInv, Visited
  <2> QED BY <1>3, <2>2, <2>4
<1> QED BY <1>4, <1>5

LEMMA StreamDeliver ==
  ASSUME StreamInv, NEW s \in Subscribers, Deliver(s)
  PROVE  NoneRefused' /\ OfTarget' /\ Visited'
<1>1. /\ target = s /\ target' = NoOne /\ todo' = todo \ {s}
      /\ UNCHANGED <<loop, event, subscribers>> /\ loop = "dispatching"
      /\ subscribers \subseteq Subscribers /\ s # NoOne
  BY NoOneAssumption DEF StreamInv, OrderInv, TypeOK, Deliver
<1>2. HasIt(s)' \/ ~ Interested(s)
  <2> DEFINE n == Len(got[s])
  <2>1. n + 1 \in DOMAIN got'[s]
        /\ got'[s][n + 1] = [event |-> event, streams |-> streams]
    BY DEF StreamInv, OrderInv, TypeOK, Deliver
  <2>2. Message \in streams \/ ~ Interested(s)
    BY <1>1 DEF StreamInv, OfTarget
  <2> HIDE DEF n
  <2> QED BY <1>1, <2>1, <2>2 DEF HasIt
<1>3. \A x \in Subscribers \ {s} : got'[x] = got[x]
  BY DEF StreamInv, OrderInv, TypeOK, Deliver
<1>4. NoneRefused' /\ OfTarget'
  BY <1>1 DEF StreamInv, NoneRefused, OfTarget
<1>5. Visited'
  BY <1>1, <1>2, <1>3, SameEvent DEF StreamInv, Visited
<1> QED BY <1>4, <1>5

\* A connection that registers does so while nothing is dispatched.
LEMMA StreamStep == StreamInv /\ [Next]_vars => StreamInv'
<1> SUFFICES ASSUME StreamInv, [Next]_vars PROVE NoneRefused' /\ OfTarget' /\ Visited'
  BY OrderStep DEF StreamInv
<1>1. subscribers \subseteq Subscribers /\ (target # NoOne => target \in Subscribers)
  BY DEF StreamInv, OrderInv, TypeOK
<1>2. ASSUME NEW s \in Subscribers, Register(s) PROVE NoneRefused' /\ OfTarget' /\ Visited'
  BY <1>2, <1>1, SameEvent
  DEF Register, StreamInv, OrderInv, InHand, Locked, NoneRefused, OfTarget, Visited, loopVars
<1>3. ASSUME \/ UNCHANGED <<event, loop, streams, todo, target, got>>
             \/ UNCHANGED got /\ loop' # "dispatching" /\ target' = NoOne
             \/ UNCHANGED got /\ target' = NoOne /\ todo' = subscribers',
             subscribers' \subseteq subscribers
      PROVE  NoneRefused' /\ OfTarget' /\ Visited'
  <2>1. NoneRefused'
    BY <1>3 DEF StreamInv, NoneRefused
  <2>2. OfTarget'
    BY <1>1, <1>3, SameEvent DEF StreamInv, OfTarget
  <2>3. Visited'
    BY <1>1, <1>3, SameEvent DEF StreamInv, Visited
  <2> QED BY <2>1, <2>2, <2>3
<1>4. ASSUME NEW s \in Subscribers, Unregister(s) PROVE subscribers' \subseteq subscribers
  BY <1>4 DEF Unregister
<1>5. CASE \/ \E e \in Events : AddEvent(e)
           \/ Shutdown \/ ShutdownEnd
           \/ \E s \in Subscribers : Refuse(s) \/ Disconnect(s) \/ Connection(s) \/ Close(s)
  <2>1. UNCHANGED <<event, loop, streams, target, got>> /\ subscribers' \subseteq subscribers
    BY <1>5, <1>4 DEF AddEvent, Shutdown, ShutdownEnd, Refuse, Disconnect, Connection, Write,
                Leave, Unregister, Close, loopVars, connVars
  <2>2. UNCHANGED todo \/ loop' = "closing"
    BY <1>5 DEF AddEvent, Shutdown, ShutdownEnd, Refuse, Disconnect, Connection, Write,
                Leave, Unregister, Close, loopVars, connVars
  <2>3. loop = "closing" => target = NoOne
    BY DEF StreamInv, OrderInv, InHand
  <2> QED BY <1>3, <2>1, <2>2, <2>3
<1>6. CASE (\E e \in Events : Receive(e)) \/ Save \/ Dispatch \/ DispatchEnd \/ Stop \/ StopEnd
  <2>1. /\ loop \notin {"dispatching"} => target = NoOne
        /\ todo = {} => target = NoOne
    BY DEF StreamInv, OrderInv, TypeOK, InHand
  <2> QED BY <1>3, <1>6, <2>1
          DEF Receive, Save, Dispatch, DispatchEnd, Stop, StopEnd, connVars
<1>7. CASE UNCHANGED vars
  BY <1>3, <1>7 DEF vars, loopVars, connVars
<1> QED BY <1>2, <1>5, <1>6, <1>7, StreamOffer, StreamDeliver DEF Next, MainLoop

\* When an event has been dispatched, whoever is in the map and asked for it by
\* identifiers, or by the type of an application and the name of a daemon, has
\* it on the regular stream (applyFiltersFromQuery, findMatchingEventStreams and
\* the event's one list of streams, which every visit overwrites).
THEOREM RegularStreamGetsAll == Spec => []RegularStreamIsComplete
<1>1. Init => StreamInv
  BY StreamInit
<1>2. StreamInv /\ [Next]_vars => StreamInv'
  BY StreamStep
<1>3. StreamInv => RegularStreamIsComplete
  BY DEF StreamInv, Visited, Interested, HasIt, RegularStreamIsComplete
<1> QED BY <1>1, <1>2, <1>3, PTL DEF Spec

-----------------------------------------------------------------------------
(* Enabled and disabled checkers                                           *)

Puts == [phase : {"idle", "set", "upsert", "delete"}, scope : S!Scopes,
         changes : SUBSET [checker : CheckerNames, state : S!States],
         left : SUBSET [checker : CheckerNames, state : S!States]]
StatesTypes ==
  /\ states \in [S!Scopes -> [CheckerNames -> S!States]]
  /\ preferences \in [S!Scopes -> [CheckerNames -> S!States]]
  /\ put \in [Requesters -> Puts]
\* A request names a checker once, and has it to do or done.
NamedOnce ==
  \A u \in Requesters :
    /\ put[u].left \subseteq put[u].changes
    /\ \A x, y \in put[u].changes : x.checker = y.checker => x = y
    /\ put[u].phase = "idle" => put[u].changes = {}
\* What two requests change is disputed.
ChangedAlone ==
  \A u, v \in Requesters : u # v => S!Touched(put[u]) \cap S!Touched(put[v]) \subseteq unsettled
\* The server has a state that a restart restores.
Restored(s, c) ==
  IF s = AllDaemons THEN states[s][c] = "disabled" <=> preferences[s][c] = "disabled"
  ELSE states[s][c] = preferences[s][c]
\* How far a request is with a change.
Advanced(p, ch) ==
  LET s == p.scope
      taken == S!Accepts(s, ch) /\ states[s][ch.checker] = ch.state
  IN  /\ p.phase = "set" => IF ch \in p.left THEN S!Registered(s, ch.checker) => Restored(s, ch.checker)
                            ELSE taken
      /\ p.phase = "upsert" => taken
      /\ p.phase = "delete" =>
           /\ taken
           /\ IF ch \in p.left THEN S!Row(s, ch.state) = "inherit"
              ELSE preferences[s][ch.checker] = S!Row(s, ch.state)
ChangesAdvance ==
  \A u \in Requesters : \A ch \in put[u].changes :
    <<put[u].scope, ch.checker>> \notin unsettled => Advanced(put[u], ch)
\* What nobody changes or has disputed is restored.
OthersRestored ==
  \A s \in S!Scopes, c \in CheckerNames :
    /\ S!Registered(s, c) /\ <<s, c>> \notin unsettled
    /\ \A u \in Requesters : <<s, c>> \notin S!Touched(put[u])
    => Restored(s, c)

StatesInv == StatesTypes /\ NamedOnce /\ ChangedAlone /\ ChangesAdvance /\ OthersRestored

\* Nothing is stored at first.
LEMMA StatesStart ==
  ASSUME S!Init
  PROVE  StatesInv
<1> USE StatesAssumption DEF S!StatesAssumption, S!Init
<1>1. StatesTypes
  BY DEF StatesTypes, Puts, S!Nothing, S!Idle, S!States, S!Scopes
<1>2. \A u \in Requesters : put[u].changes = {} /\ put[u].left = {}
  BY DEF S!Idle
<1>3. NamedOnce /\ ChangedAlone /\ ChangesAdvance
  BY <1>2 DEF NamedOnce, ChangedAlone, ChangesAdvance, S!Touched
<1>4. OthersRestored
  BY DEF OthersRestored, Restored, S!Nothing
<1> QED BY <1>1, <1>3, <1>4 DEF StatesInv

\* A new request finds what nobody disputes restored.
LEMMA BeginKeeps ==
  ASSUME StatesInv, NEW u \in Requesters, S!Begin(u)
  PROVE  StatesInv'
<1> USE StatesAssumption DEF S!StatesAssumption
<1>1. PICK s \in S!Scopes, changes \in (SUBSET [checker : CheckerNames, state : S!States]) \ {{}} :
        /\ \A x, y \in changes : x.checker = y.checker => x = y
        /\ put' = [put EXCEPT ![u] = [phase |-> "set", scope |-> s, changes |-> changes, left |-> changes]]
        /\ unsettled' = unsettled \cup
             (S!Touched([phase |-> "set", scope |-> s, changes |-> changes, left |-> changes])
              \cap UNION {S!Touched(put[v]) : v \in Requesters \ {u}})
  BY DEF S!Begin
<1> DEFINE p == [phase |-> "set", scope |-> s, changes |-> changes, left |-> changes]
<1>2. UNCHANGED <<states, preferences>> /\ put[u].phase = "idle"
  BY DEF S!Begin
<1>3. put'[u] = p /\ \A v \in Requesters \ {u} : put'[v] = put[v]
  BY <1>1 DEF StatesInv, StatesTypes, Puts
<1>4. StatesTypes'
  BY <1>1, <1>2 DEF StatesInv, StatesTypes, Puts
<1>5. NamedOnce'
  BY <1>1, <1>3 DEF StatesInv, NamedOnce
<1>6. ChangedAlone'
  BY <1>1, <1>3 DEF StatesInv, ChangedAlone
<1>7. S!Touched(put[u]) = {}
  BY <1>2 DEF StatesInv, NamedOnce, S!Touched
<1>8. OthersRestored'
  <2> SUFFICES ASSUME NEW t \in S!Scopes, NEW c \in CheckerNames, S!Registered(t, c),
                      <<t, c>> \notin unsettled', \A v \in Requesters : <<t, c>> \notin S!Touched(put'[v])
               PROVE  Restored(t, c)
    BY <1>2 DEF OthersRestored, Restored
  <2>1. <<t, c>> \notin unsettled
    BY <1>1
  <2>2. \A v \in Requesters : <<t, c>> \notin S!Touched(put[v])
    BY <1>3, <1>7
  <2> QED BY <2>1, <2>2 DEF StatesInv, OthersRestored
<1>9. ASSUME NEW v \in Requesters, NEW ch \in put'[v].changes, <<put'[v].scope, ch.checker>> \notin unsettled'
      PROVE  Advanced(put'[v], ch)
  <2>1. CASE v # u
    BY <1>1, <1>3, <1>9, <2>1 DEF StatesInv, ChangesAdvance
  <2>2. CASE v = u
    <3>1. ch.checker \in CheckerNames /\ <<s, ch.checker>> \in S!Touched(p)
      BY <1>3, <2>2 DEF S!Touched
    <3>2. <<s, ch.checker>> \notin unsettled
      BY <1>1, <1>3, <1>9, <2>2
    <3>3. \A w \in Requesters : <<s, ch.checker>> \notin S!Touched(put[w])
      BY <1>1, <1>3, <1>7, <1>9, <2>2, <3>1
    <3>4. S!Registered(s, ch.checker) => Restored(s, ch.checker)
      BY <3>1, <3>2, <3>3 DEF StatesInv, OthersRestored
    <3> QED BY <1>3, <2>2, <3>4 DEF Advanced
  <2> QED BY <2>1, <2>2
<1>10. ChangesAdvance'
  BY <1>2, <1>9 DEF ChangesAdvance, Advanced, Restored
<1> QED BY <1>4, <1>5, <1>6, <1>8, <1>10 DEF StatesInv

\* A request that fails leaves everything it names disputed.
LEMMA FailureKeeps ==
  ASSUME StatesInv, NEW u \in Requesters, S!Fail(u), UNCHANGED <<states, preferences>>
  PROVE  StatesInv'
<1> USE StatesAssumption DEF S!StatesAssumption
<1>1. /\ put'[u] = S!Idle /\ \A v \in Requesters \ {u} : put'[v] = put[v]
      /\ unsettled' = unsettled \cup S!Touched(put[u]) /\ S!Touched(S!Idle) = {}
  BY DEF S!Fail, StatesInv, StatesTypes, Puts, S!Touched, S!Idle
<1>2. StatesTypes'
  BY DEF S!Fail, S!Idle, StatesInv, StatesTypes, Puts, S!Scopes
<1>3. NamedOnce'
  BY <1>1 DEF StatesInv, NamedOnce, S!Idle
<1>4. ChangedAlone'
  BY <1>1 DEF StatesInv, ChangedAlone
<1>5. ChangesAdvance'
  <2> SUFFICES ASSUME NEW v \in Requesters, NEW ch \in put'[v].changes,
                      <<put'[v].scope, ch.checker>> \notin unsettled'
               PROVE  Advanced(put'[v], ch)
    BY DEF ChangesAdvance, Advanced, Restored
  <2>1. v # u
    BY <1>1 DEF S!Idle
  <2> QED BY <1>1, <2>1 DEF StatesInv, ChangesAdvance
<1>6. OthersRestored'
  <2> SUFFICES ASSUME NEW t \in S!Scopes, NEW c \in CheckerNames, S!Registered(t, c),
                      <<t, c>> \notin unsettled', \A v \in Requesters : <<t, c>> \notin S!Touched(put'[v])
               PROVE  Restored(t, c)
    BY DEF OthersRestored, Restored
  <2> QED BY <1>1 DEF StatesInv, OthersRestored
<1> QED BY <1>2, <1>3, <1>4, <1>5, <1>6 DEF StatesInv

\* A request that goes on with what it names leaves the rest alone.
LEMMA GoingOnKeeps ==
  ASSUME StatesInv, NEW u \in Requesters, StatesTypes',
         put'[u].scope = put[u].scope, put'[u].changes = put[u].changes,
         put'[u].left \subseteq put[u].changes, put'[u].phase # "idle",
         \A v \in Requesters \ {u} : put'[v] = put[v],
         UNCHANGED unsettled,
         \A s \in S!Scopes, c \in CheckerNames :
           <<s, c>> \notin S!Touched(put[u]) =>
             states'[s][c] = states[s][c] /\ preferences'[s][c] = preferences[s][c],
         \A ch \in put[u].changes :
           <<put[u].scope, ch.checker>> \notin unsettled => Advanced(put[u], ch)'
  PROVE  StatesInv'
<1>1. \A v \in Requesters : S!Touched(put'[v]) = S!Touched(put[v])
  BY DEF S!Touched
<1>2. NamedOnce'
  BY DEF StatesInv, NamedOnce
<1>3. ChangedAlone'
  BY <1>1 DEF StatesInv, ChangedAlone
<1>4. ChangesAdvance'
  <2> SUFFICES ASSUME NEW v \in Requesters, NEW ch \in put'[v].changes,
                      <<put'[v].scope, ch.checker>> \notin unsettled
               PROVE  Advanced(put[v], ch)'
    BY DEF ChangesAdvance
  <2>1. CASE v = u
    BY <2>1
  <2>2. CASE v # u
    <3>1. put[v].scope \in S!Scopes /\ ch.checker \in CheckerNames /\ put'[v] = put[v]
      BY <2>2 DEF StatesInv, StatesTypes, Puts
    <3>2. Advanced(put[v], ch)
      BY <3>1 DEF StatesInv, ChangesAdvance
    <3>3. <<put[v].scope, ch.checker>> \in S!Touched(put[v])
      BY <3>1 DEF S!Touched
    <3>4. <<put[v].scope, ch.checker>> \notin S!Touched(put[u])
      BY <2>2, <3>1, <3>3 DEF StatesInv, ChangedAlone
    <3>5. /\ states'[put[v].scope][ch.checker] = states[put[v].scope][ch.checker]
          /\ preferences'[put[v].scope][ch.checker] = preferences[put[v].scope][ch.checker]
      BY <3>1, <3>4
    <3> QED BY <3>1, <3>2, <3>5 DEF Advanced, Restored
  <2> QED BY <2>1, <2>2
<1>5. OthersRestored'
  BY <1>1 DEF StatesInv, OthersRestored, Restored
<1> QED BY <1>2, <1>3, <1>4, <1>5 DEF StatesInv

\* A change of one state of one scope.
LEMMA OneChangeFits ==
  ASSUME NEW f \in [S!Scopes -> [CheckerNames -> S!States]], NEW s \in S!Scopes,
         NEW c \in CheckerNames, NEW x \in S!States
  PROVE  [f EXCEPT ![s] = [f[s] EXCEPT ![c] = x]] \in [S!Scopes -> [CheckerNames -> S!States]]
<1> HIDE DEF S!Scopes, S!States
<1>1. [f[s] EXCEPT ![c] = x] \in [CheckerNames -> S!States]
  OBVIOUS
<1> QED BY <1>1

\* A change of the controller.
LEMMA SetKeeps ==
  ASSUME StatesInv, NEW u \in Requesters, S!Set(u)
  PROVE  StatesInv'
<1> DEFINE p == put[u]
<1>1. PICK ch \in p.left :
        IF S!Accepts(p.scope, ch)
        THEN /\ states' = [states EXCEPT ![p.scope][ch.checker] = ch.state]
             /\ put' = [put EXCEPT ![u].left = @ \ {ch},
                                   ![u].phase = IF p.left = {ch} THEN "upsert" ELSE "set"]
             /\ UNCHANGED unsettled
        ELSE S!Fail(u) /\ UNCHANGED states
  BY DEF S!Set
<1>2. UNCHANGED preferences /\ p.phase = "set"
  BY DEF S!Set
<1>3. CASE ~S!Accepts(p.scope, ch)
  BY <1>1, <1>2, <1>3, FailureKeeps
<1>4. CASE S!Accepts(p.scope, ch)
  <2>1. /\ p.scope \in S!Scopes /\ ch \in p.changes /\ p.changes \subseteq [checker : CheckerNames, state : S!States]
        /\ p.left \subseteq p.changes /\ \A x, y \in p.changes : x.checker = y.checker => x = y
    BY DEF StatesInv, StatesTypes, Puts, NamedOnce
  <2>2. /\ put'[u].scope = p.scope /\ put'[u].changes = p.changes /\ put'[u].left = p.left \ {ch}
        /\ put'[u].phase = IF p.left = {ch} THEN "upsert" ELSE "set"
        /\ \A v \in Requesters \ {u} : put'[v] = put[v]
    BY <1>1, <1>4 DEF StatesInv, StatesTypes, Puts
  <2>7. ch.checker \in CheckerNames /\ ch.state \in S!States
    BY <2>1
  <2>8. states \in [S!Scopes -> [CheckerNames -> S!States]]
    BY DEF StatesInv, StatesTypes, Puts
  <2>9. states' = [states EXCEPT ![p.scope] = [states[p.scope] EXCEPT ![ch.checker] = ch.state]]
    BY <1>1, <1>4
  <2>3. \A s \in S!Scopes, c \in CheckerNames :
          states'[s][c] = IF s = p.scope /\ c = ch.checker THEN ch.state ELSE states[s][c]
    BY <2>1, <2>7, <2>8, <2>9
  <2>4. StatesTypes'
    <3>1. states' \in [S!Scopes -> [CheckerNames -> S!States]]
      BY <2>1, <2>7, <2>8, <2>9, OneChangeFits
    <3>2. put' = [put EXCEPT ![u] = [p EXCEPT !.left = p.left \ {ch},
                                              !.phase = IF p.left = {ch} THEN "upsert" ELSE "set"]]
      BY <1>1, <1>4 DEF StatesInv, StatesTypes, Puts
    <3>3. p \in Puts
      BY DEF StatesInv, StatesTypes, Puts
    <3>4. [p EXCEPT !.left = p.left \ {ch}, !.phase = IF p.left = {ch} THEN "upsert" ELSE "set"] \in Puts
      BY <3>3, Zenon DEF Puts
    <3>5. put' \in [Requesters -> Puts]
      BY <3>2, <3>4, Zenon DEF StatesInv, StatesTypes, Puts
    <3> QED BY <1>2, <3>1, <3>5 DEF StatesInv, StatesTypes
  <2>5. \A x \in p.changes : <<p.scope, x.checker>> \notin unsettled => Advanced(p, x)'
    <3> SUFFICES ASSUME NEW x \in p.changes, <<p.scope, x.checker>> \notin unsettled
                 PROVE  Advanced(p, x)'
      OBVIOUS
    <3>1. Advanced(p, x)
      BY DEF StatesInv, ChangesAdvance
    <3>2. CASE x = ch
      BY <1>4, <2>1, <2>2, <2>3, <3>2 DEF Advanced, S!Accepts
    <3>3. CASE x # ch
      <4>1. states'[p.scope][x.checker] = states[p.scope][x.checker]
        BY <2>1, <2>3, <3>3
      <4> QED BY <1>2, <2>1, <2>2, <3>1, <3>3, <4>1 DEF Advanced, Restored, S!Accepts
    <3> QED BY <3>2, <3>3
  <2>6. <<p.scope, ch.checker>> \in S!Touched(p)
    BY <2>1 DEF S!Touched
  <2> QED BY <1>1, <1>2, <1>4, <2>1, <2>2, <2>3, <2>4, <2>5, <2>6, GoingOnKeeps
<1> QED BY <1>3, <1>4

\* One statement stores what does not stand for nothing.
LEMMA UpsertKeeps ==
  ASSUME StatesInv, NEW u \in Requesters, S!Upsert(u)
  PROVE  StatesInv'
<1> DEFINE p == put[u]
           chosen(c) == CHOOSE ch \in S!Upserted(p) : ch.checker = c
           upserts == [c \in CheckerNames |->
                         IF \E ch \in S!Upserted(p) : ch.checker = c
                         THEN chosen(c).state ELSE preferences[p.scope][c]]
<1>1. /\ p.phase = "upsert" /\ UNCHANGED <<states, unsettled>>
      /\ preferences' = [preferences EXCEPT ![p.scope] = upserts]
      /\ put' = [put EXCEPT ![u] = [p EXCEPT !.phase = "delete", !.left = p.changes \ S!Upserted(p)]]
  BY DEF S!Upsert, StatesInv, StatesTypes, Puts
<1>2. /\ p.scope \in S!Scopes /\ p.changes \subseteq [checker : CheckerNames, state : S!States]
      /\ \A x, y \in p.changes : x.checker = y.checker => x = y
      /\ S!Upserted(p) \subseteq p.changes
      /\ preferences \in [S!Scopes -> [CheckerNames -> S!States]]
  BY DEF StatesInv, StatesTypes, Puts, NamedOnce, S!Upserted
<1>3. \A ch \in S!Upserted(p) : chosen(ch.checker) = ch
  BY <1>2
<1>4. \A c \in CheckerNames : (\E ch \in S!Upserted(p) : ch.checker = c) => chosen(c).state \in S!States
  BY <1>2
<1> HIDE DEF chosen
<1>5. upserts \in [CheckerNames -> S!States]
  BY <1>2, <1>4
<1>6. \A s \in S!Scopes : preferences'[s] = IF s = p.scope THEN upserts ELSE preferences[s]
  BY <1>1, <1>2
<1>7. \A ch \in S!Upserted(p) : upserts[ch.checker] = ch.state
  BY <1>2, <1>3
<1>8. /\ put'[u].scope = p.scope /\ put'[u].changes = p.changes /\ put'[u].left = p.changes \ S!Upserted(p)
      /\ put'[u].phase = "delete" /\ \A v \in Requesters \ {u} : put'[v] = put[v]
  BY <1>1 DEF StatesInv, StatesTypes, Puts
<1>9. \A s \in S!Scopes, c \in CheckerNames :
        <<s, c>> \notin S!Touched(p) =>
          states'[s][c] = states[s][c] /\ preferences'[s][c] = preferences[s][c]
  BY <1>1, <1>2, <1>6 DEF S!Touched
<1>10. StatesTypes'
  <2>1. preferences' \in [S!Scopes -> [CheckerNames -> S!States]]
    BY <1>1, <1>2, <1>5
  <2> HIDE DEF upserts
  <2>2. states' \in [S!Scopes -> [CheckerNames -> S!States]]
    BY <1>1 DEF StatesInv, StatesTypes, Puts
  <2>3. p.changes \ S!Upserted(p) \in SUBSET [checker : CheckerNames, state : S!States]
    BY <1>2
  <2> DEFINE q == [p EXCEPT !.phase = "delete", !.left = p.changes \ S!Upserted(p)]
  <2>4. put \in [Requesters -> Puts]
    BY DEF StatesInv, StatesTypes, Puts
  <2>5. p \in Puts
    BY <2>4
  <2>6. q \in Puts
    BY <2>3, <2>5 DEF Puts
  <2>7. put' \in [Requesters -> Puts]
    BY <1>1, <2>4, <2>6
  <2> QED BY <2>1, <2>2, <2>7 DEF StatesTypes, Puts
<1>11. \A ch \in p.changes : <<p.scope, ch.checker>> \notin unsettled => Advanced(p, ch)'
  <2> SUFFICES ASSUME NEW ch \in p.changes, <<p.scope, ch.checker>> \notin unsettled
               PROVE  Advanced(p, ch)'
    OBVIOUS
  <2>1. Advanced(p, ch)
    BY DEF StatesInv, ChangesAdvance
  <2>2. ch \notin put'[u].left => preferences'[p.scope][ch.checker] = S!Row(p.scope, ch.state)
    <3> SUFFICES ASSUME ch \notin put'[u].left
                 PROVE  preferences'[p.scope][ch.checker] = S!Row(p.scope, ch.state)
      OBVIOUS
    <3> HIDE DEF upserts, p
    <3>1. ch \in S!Upserted(p)
      BY <1>8 DEF p
    <3>2. preferences'[p.scope][ch.checker] = ch.state
      BY <1>2, <1>6, <1>7, <3>1
    <3> QED BY <3>1, <3>2 DEF S!Row, S!Upserted
  <2>3. ch \in put'[u].left => S!Row(p.scope, ch.state) = "inherit"
    BY <1>8 DEF S!Upserted
  <2>4. S!Accepts(p.scope, ch) /\ states[p.scope][ch.checker] = ch.state
    BY <1>1, <2>1 DEF Advanced
  <2>5. S!Accepts(p.scope, ch)' /\ states'[p.scope][ch.checker] = ch.state
    BY <1>1, <2>4 DEF S!Accepts
  <2> HIDE DEF p, upserts
  <2> QED BY <1>8, <2>2, <2>3, <2>5 DEF Advanced, S!Row, p
<1> HIDE DEF upserts
<1> QED BY <1>1, <1>8, <1>9, <1>10, <1>11, GoingOnKeeps

\* Rows are deleted, or the request ends.
LEMMA DeleteKeeps ==
  ASSUME StatesInv, NEW u \in Requesters, S!Delete(u)
  PROVE  StatesInv'
<1> USE StatesAssumption DEF S!StatesAssumption
<1> DEFINE p == put[u]
<1>1. /\ p.phase = "delete" /\ UNCHANGED <<states, unsettled>> /\ p.scope \in S!Scopes
      /\ p.changes \subseteq [checker : CheckerNames, state : S!States] /\ p.left \subseteq p.changes
      /\ \A x, y \in p.changes : x.checker = y.checker => x = y
      /\ preferences \in [S!Scopes -> [CheckerNames -> S!States]]
  BY DEF S!Delete, StatesInv, StatesTypes, Puts, NamedOnce
<1>2. CASE p.left = {}
  <2>1. /\ put' = [put EXCEPT ![u] = S!Idle] /\ UNCHANGED preferences
    BY <1>2 DEF S!Delete
  <2>2. put'[u] = S!Idle /\ \A v \in Requesters \ {u} : put'[v] = put[v]
    BY <2>1 DEF StatesInv, StatesTypes, Puts
  <2>3. S!Touched(S!Idle) = {}
    BY DEF S!Touched, S!Idle
  <2>4. StatesTypes'
    BY <1>1, <2>1 DEF StatesInv, StatesTypes, Puts, S!Idle, S!Scopes
  <2>5. NamedOnce'
    BY <2>2 DEF StatesInv, NamedOnce, S!Idle
  <2>6. ChangedAlone'
    BY <1>1, <2>2, <2>3 DEF StatesInv, ChangedAlone
  <2>7. ChangesAdvance'
    <3> SUFFICES ASSUME NEW v \in Requesters, NEW ch \in put'[v].changes,
                        <<put'[v].scope, ch.checker>> \notin unsettled
                 PROVE  Advanced(put'[v], ch)
      BY <1>1, <2>1 DEF ChangesAdvance, Advanced, Restored
    <3> QED BY <2>2 DEF StatesInv, ChangesAdvance, S!Idle
  <2>8. OthersRestored'
    <3> SUFFICES ASSUME NEW t \in S!Scopes, NEW c \in CheckerNames, S!Registered(t, c),
                        <<t, c>> \notin unsettled, \A v \in Requesters : <<t, c>> \notin S!Touched(put'[v])
                 PROVE  Restored(t, c)
      BY <1>1, <2>1 DEF OthersRestored, Restored
    <3>1. CASE <<t, c>> \notin S!Touched(p)
      BY <2>2, <3>1 DEF StatesInv, OthersRestored
    <3>2. CASE <<t, c>> \in S!Touched(p)
      <4>1. PICK ch \in p.changes : t = p.scope /\ c = ch.checker
        BY <3>2 DEF S!Touched
      <4>2. Advanced(p, ch)
        BY <4>1 DEF StatesInv, ChangesAdvance
      <4> QED BY <1>1, <1>2, <4>1, <4>2 DEF Advanced, Restored, S!Row, S!Accepts
    <3> QED BY <3>1, <3>2
  <2> QED BY <2>4, <2>5, <2>6, <2>7, <2>8 DEF StatesInv
<1>3. CASE p.left # {}
  <2>1. PICK ch \in p.left :
          /\ preferences' = [preferences EXCEPT ![p.scope] = [preferences[p.scope] EXCEPT ![ch.checker] = "inherit"]]
          /\ put' = [put EXCEPT ![u] = [p EXCEPT !.left = p.left \ {ch}]]
    BY <1>3 DEF S!Delete, StatesInv, StatesTypes, Puts
  <2>2. /\ put'[u].scope = p.scope /\ put'[u].changes = p.changes /\ put'[u].left = p.left \ {ch}
        /\ put'[u].phase = "delete" /\ \A v \in Requesters \ {u} : put'[v] = put[v]
    BY <1>1, <2>1 DEF StatesInv, StatesTypes, Puts
  <2>3. ch \in p.changes /\ ch.checker \in CheckerNames /\ <<p.scope, ch.checker>> \in S!Touched(p)
    BY <1>1 DEF S!Touched
  <2>4. \A s \in S!Scopes, c \in CheckerNames :
          preferences'[s][c] = IF s = p.scope /\ c = ch.checker THEN "inherit" ELSE preferences[s][c]
    BY <1>1, <2>1, <2>3
  <2>5. StatesTypes'
    <3>1. "inherit" \in S!States
      BY DEF S!States
    <3>2. preferences' \in [S!Scopes -> [CheckerNames -> S!States]]
      BY <1>1, <2>1, <2>3, <3>1, OneChangeFits
    <3>3. p \in Puts
      BY DEF StatesInv, StatesTypes, Puts
    <3>4. [p EXCEPT !.left = p.left \ {ch}] \in Puts
      BY <3>3 DEF Puts
    <3>5. put' \in [Requesters -> Puts]
      BY <2>1, <3>4 DEF StatesInv, StatesTypes, Puts
    <3> QED BY <1>1, <3>2, <3>5 DEF StatesInv, StatesTypes
  <2>6. \A x \in p.changes : <<p.scope, x.checker>> \notin unsettled => Advanced(p, x)'
    <3> SUFFICES ASSUME NEW x \in p.changes, <<p.scope, x.checker>> \notin unsettled
                 PROVE  Advanced(p, x)'
      OBVIOUS
    <3>1. Advanced(p, x) /\ x.checker \in CheckerNames
      BY <1>1 DEF StatesInv, ChangesAdvance
    <3>2. x # ch => x.checker # ch.checker
      BY <1>1, <2>3
    <3>3. preferences'[p.scope][x.checker] = IF x = ch THEN "inherit" ELSE preferences[p.scope][x.checker]
      BY <1>1, <2>4, <3>1, <3>2
    <3> QED BY <1>1, <2>2, <3>1, <3>3 DEF Advanced
  <2>7. \A s \in S!Scopes, c \in CheckerNames :
          <<s, c>> \notin S!Touched(p) =>
            states'[s][c] = states[s][c] /\ preferences'[s][c] = preferences[s][c]
    BY <1>1, <2>3, <2>4
  <2>8. put'[u].left \subseteq p.changes /\ put'[u].phase # "idle"
    BY <1>1, <2>2
  <2> HIDE DEF p
  <2> QED BY <1>1, <2>2, <2>5, <2>6, <2>7, <2>8, GoingOnKeeps DEF p
<1> QED BY <1>2, <1>3

\* A restart loads the preferences.
LEMMA RestartKeeps ==
  ASSUME StatesInv, S!Restart
  PROVE  StatesInv'
<1> USE StatesAssumption DEF S!StatesAssumption
<1>1. /\ states' = S!Loaded(preferences) /\ unsettled' = {} /\ UNCHANGED preferences
      /\ put' = [u \in Requesters |-> S!Idle]
  BY DEF S!Restart
<1>2. \A u \in Requesters : put'[u] = S!Idle /\ S!Touched(put'[u]) = {}
  BY <1>1 DEF S!Touched, S!Idle
<1>3. StatesTypes'
  BY <1>1 DEF StatesInv, StatesTypes, Puts, S!Idle, S!Scopes, S!Loaded, S!States
<1>4. NamedOnce' /\ ChangesAdvance'
  BY <1>2 DEF NamedOnce, ChangesAdvance, S!Idle
<1>5. ChangedAlone'
  BY <1>2 DEF ChangedAlone
<1>6. OthersRestored'
  BY <1>1 DEF OthersRestored, Restored, S!Loaded
<1> QED BY <1>3, <1>4, <1>5, <1>6 DEF StatesInv

\* Every step.
LEMMA StatesStepKeeps ==
  ASSUME StatesInv, S!Next
  PROVE  StatesInv'
<1>1. ASSUME NEW u \in Requesters, S!CommitFails(u) PROVE StatesInv'
  BY <1>1, FailureKeeps DEF S!CommitFails
<1> QED BY <1>1, BeginKeeps, SetKeeps, UpsertKeeps, DeleteKeeps, RestartKeeps DEF S!Next, S!Put

\* What is enabled depends on what is restored.
LEMMA RestoredIsEnabled ==
  ASSUME StatesInv
  PROVE  S!StatesSurviveRestart
<1> USE StatesAssumption DEF S!StatesAssumption
<1> SUFFICES ASSUME NEW d \in CheckedDaemons, NEW c \in AvailableCheckers[d],
                    {<<d, c>>, <<AllDaemons, c>>}
                      \cap (unsettled \cup UNION {S!Touched(put[u]) : u \in Requesters}) = {}
             PROVE  S!Enabled(states, d, c) <=> S!Enabled(S!Loaded(preferences), d, c)
  BY DEF S!StatesSurviveRestart
<1>1. c \in CheckerNames /\ d \in S!Scopes /\ AllDaemons \in S!Scopes
      /\ S!Registered(d, c) /\ S!Registered(AllDaemons, c) /\ d # AllDaemons
  BY DEF S!Scopes, S!Registered
<1>4. /\ <<d, c>> \notin unsettled /\ <<AllDaemons, c>> \notin unsettled
      /\ \A u \in Requesters : <<d, c>> \notin S!Touched(put[u]) /\ <<AllDaemons, c>> \notin S!Touched(put[u])
  OBVIOUS
<1>5. OthersRestored
  BY DEF StatesInv
<1>2. Restored(d, c) /\ Restored(AllDaemons, c)
  BY <1>1, <1>4, <1>5, Zenon DEF OthersRestored
<1>3. /\ S!Loaded(preferences)[d][c] = preferences[d][c]
      /\ S!Loaded(preferences)[AllDaemons][c] = preferences[AllDaemons][c]
  BY <1>1 DEF S!Loaded
<1> QED BY <1>1, <1>2, <1>3 DEF Restored, S!Enabled

-----------------------------------------------------------------------------
(* The files of a zone inventory                                           *)

Phases == {"none", "meta", "views", "zones", "saved", "time"}
FilesTypes ==
  /\ files \subseteq [view : Views, zone : Zones, by : Nat]
  /\ save \in [pc : Phases, views : SUBSET Views, zones : SUBSET (Views \X Zones),
               left : SUBSET Views, erred : BOOLEAN]
  /\ saves \in Nat
\* A save is of zones of its views.
SaveFits ==
  save.pc # "none" =>
    saves # 0 /\ save.left \subseteq save.views /\ \A f \in save.zones : f[1] \in save.views
\* Metadata is removed before the first view, or known to have stayed, and
\* written after the last one.
Trusted == Z!Readable /\ ~lastSaved.mixed
MetaIsRemoved == save.pc \in Phases \ {"none", "meta"} => ~Trusted
\* What is on disk of the views that the save has begun.
OfBegun == {x \in files : x.view \in save.views \ save.left}
Whole == OfBegun = {Z!File(f, saves) : f \in Z!Begun}
ViewsAreWhole ==
  /\ save.pc = "meta" => save.left = save.views /\ ~save.erred
  /\ save.pc \in {"views", "zones"} => ~save.erred
  /\ save.pc = "views" => Whole
  /\ save.pc = "zones" =>
       /\ \A x \in OfBegun : \E f \in Z!Begun : x \in {Z!File(f, 0), Z!File(f, saves)}
       /\ \A f \in Z!Begun : Z!File(f, 0) \notin files \/ Z!File(f, saves) \notin files
  /\ save.pc = "saved" => save.erred
  /\ save.pc = "time" /\ ~save.erred => Whole /\ save.left = {}
\* A file that a save has written is not empty.
LastAreWritten ==
  /\ lastSaved \in [zones : SUBSET [view : Views, zone : Zones, by : Nat], views : SUBSET Views,
                    mixed : BOOLEAN]
  /\ \A f \in lastSaved.zones : f.by # 0

FilesInv ==
  FilesTypes /\ SaveFits /\ MetaIsRemoved /\ ViewsAreWhole /\ LastAreWritten /\ Z!MetaIsOfWholeViews

\* Nothing is on disk at first.
LEMMA FilesStart ==
  ASSUME Z!Init
  PROVE  FilesInv
BY DEF Z!Init, FilesInv, FilesTypes, Phases, SaveFits, MetaIsRemoved, ViewsAreWhole,
       LastAreWritten, Z!MetaIsOfWholeViews, Trusted, Z!Readable, Z!NoSave, Z!NoViews

\* A file is known by its view, zone and save.
LEMMA FilesDiffer ==
  \A f, g, m, n : Z!File(f, m).view = f[1] /\ Z!File(f, m).by = m
BY DEF Z!File

\* What leaves the views, the metadata and what was saved alone keeps the promise.
LEMMA SavedStays ==
  ASSUME FilesInv, UNCHANGED <<files, meta, memory, lastSaved>>
  PROVE  LastAreWritten' /\ Z!MetaIsOfWholeViews'
BY DEF FilesInv, LastAreWritten, Z!MetaIsOfWholeViews, Z!Readable

\* No save is in progress, and the files are as they were.
LEMMA EndOfSave ==
  ASSUME FilesTypes, save' = Z!NoSave, UNCHANGED <<files, saves>>
  PROVE  FilesTypes' /\ SaveFits' /\ MetaIsRemoved' /\ ViewsAreWhole'
BY DEF FilesTypes, SaveFits, MetaIsRemoved, ViewsAreWhole, Z!NoSave, Phases

\* A save that begins, gives up, or goes on without a change of files.
LEMMA SaveKeeps ==
  ASSUME FilesInv, Z!Begin \/ Z!removeMeta \/ Z!createdView \/ Z!recreateFails \/ Z!openMeta
  PROVE  FilesInv'
<1> USE FilesAssumption DEF Z!FilesAssumption, Z!Saving
<1>1. CASE Z!Begin
  <2>1. PICK V \in SUBSET Views, fs \in SUBSET (Views \X Zones) :
          /\ \A f \in fs : f[1] \in V
          /\ save' = [pc |-> "meta", views |-> V, zones |-> fs, left |-> V, erred |-> FALSE]
    BY <1>1 DEF Z!Begin
  <2>2. saves' = saves + 1 /\ UNCHANGED <<files, meta, memory, lastSaved>>
    BY <1>1 DEF Z!Begin
  <2>3. FilesTypes' /\ SaveFits'
    BY <2>1, <2>2 DEF FilesInv, FilesTypes, SaveFits, Phases
  <2>4. MetaIsRemoved' /\ ViewsAreWhole'
    BY <2>1 DEF MetaIsRemoved, ViewsAreWhole
  <2> QED BY <2>2, <2>3, <2>4, SavedStays DEF FilesInv
<1>2. CASE Z!removeMeta
  <2>1. /\ save.pc = "meta" /\ save' = [save EXCEPT !.pc = "views"]
        /\ \/ meta' = {} /\ UNCHANGED lastSaved
           \/ UNCHANGED meta /\ lastSaved' = [lastSaved EXCEPT !.mixed = TRUE]
        /\ UNCHANGED <<files, memory, saves>>
    BY <1>2 DEF Z!removeMeta
  <2>2. FilesTypes' /\ SaveFits'
    BY <2>1 DEF FilesInv, FilesTypes, SaveFits, Phases
  <2>3. lastSaved.zones' = lastSaved.zones /\ ~Trusted'
    BY <2>1 DEF FilesInv, LastAreWritten, Trusted, Z!Readable
  <2>4. ViewsAreWhole'
    <3>1. /\ save.left = save.views /\ ~save.erred
          /\ save'.pc = "views" /\ save'.left = save'.views /\ ~save'.erred
          /\ \A f \in save'.zones : f[1] \in save'.views
      BY <2>1 DEF FilesInv, ViewsAreWhole, FilesTypes, SaveFits
    <3>2. OfBegun' = {} /\ Z!Begun' = {}
      BY <3>1 DEF OfBegun, Z!Begun
    <3>3. Whole'
      BY <3>2 DEF Whole
    <3> QED BY <3>1, <3>3 DEF ViewsAreWhole
  <2>5. MetaIsRemoved' /\ Z!MetaIsOfWholeViews'
    BY <2>3 DEF MetaIsRemoved, Z!MetaIsOfWholeViews, Trusted
  <2>6. LastAreWritten'
    BY <2>1, <2>3 DEF FilesInv, LastAreWritten
  <2> QED BY <2>2, <2>4, <2>5, <2>6 DEF FilesInv
<1>3. CASE Z!createdView
  <2>1. /\ save.pc = "zones" /\ Z!Missing = {} /\ save' = [save EXCEPT !.pc = "views"]
        /\ UNCHANGED <<files, meta, memory, lastSaved, saves>>
    BY <1>3 DEF Z!createdView
  <2>2. FilesTypes' /\ SaveFits' /\ MetaIsRemoved'
    BY <2>1 DEF FilesInv, FilesTypes, SaveFits, Phases, MetaIsRemoved, Trusted, Z!Readable
  <2>3. save'.left = save.left /\ save'.views = save.views /\ save'.zones = save.zones
        /\ save'.pc = "views" /\ save'.erred = save.erred
    BY <2>1 DEF FilesInv, FilesTypes
  <2>4. OfBegun' = OfBegun /\ Z!Begun' = Z!Begun
    BY <2>1, <2>3 DEF OfBegun, Z!Begun
  <2>5. \A f \in Z!Begun : Z!File(f, saves) \in files /\ Z!File(f, 0) \notin files
    BY <2>1 DEF FilesInv, ViewsAreWhole, Z!Missing
  <2>6. \A f \in Z!Begun : Z!File(f, saves) \in OfBegun
    BY <2>1, <2>5, FilesDiffer DEF OfBegun, Z!Begun, FilesInv, SaveFits
  <2>7. \A x \in OfBegun : \E f \in Z!Begun : x = Z!File(f, saves)
    BY <2>1, <2>5 DEF FilesInv, ViewsAreWhole, OfBegun
  <2>8. Whole'
    BY <2>1, <2>4, <2>6, <2>7 DEF Whole
  <2>9. ViewsAreWhole'
    BY <2>1, <2>3, <2>8 DEF FilesInv, ViewsAreWhole
  <2> QED BY <2>1, <2>2, <2>9, SavedStays DEF FilesInv
<1>4. CASE Z!recreateFails
  <2>1. /\ save.pc \in {"views", "zones"} /\ save' = [save EXCEPT !.pc = "saved", !.erred = TRUE]
        /\ UNCHANGED <<files, meta, memory, lastSaved, saves>>
    BY <1>4 DEF Z!recreateFails
  <2>2. FilesTypes' /\ SaveFits' /\ MetaIsRemoved' /\ ViewsAreWhole'
    BY <2>1 DEF FilesInv, FilesTypes, SaveFits, Phases, MetaIsRemoved, Trusted, Z!Readable, ViewsAreWhole
  <2> QED BY <2>1, <2>2, SavedStays DEF FilesInv
<1>5. CASE Z!openMeta
  <2>1. /\ save.pc = "saved" \/ (save.pc = "views" /\ save.left = {})
        /\ UNCHANGED <<files, memory, lastSaved, saves>>
        /\ \/ meta' = {0} /\ save' = [save EXCEPT !.pc = "time"]
           \/ save' = Z!NoSave /\ UNCHANGED meta
    BY <1>5 DEF Z!openMeta
  <2>2. FilesTypes' /\ SaveFits' /\ MetaIsRemoved'
    <3>1. CASE meta' = {0} /\ save' = [save EXCEPT !.pc = "time"]
      BY <2>1, <3>1 DEF FilesInv, FilesTypes, SaveFits, Phases, MetaIsRemoved, Trusted, Z!Readable
    <3>2. CASE save' = Z!NoSave
      BY <2>1, <3>2, EndOfSave DEF FilesInv
    <3> QED BY <2>1, <3>1, <3>2
  <2>3. ~Trusted /\ ~Trusted'
    BY <2>1 DEF FilesInv, MetaIsRemoved, Phases, Trusted, Z!Readable
  <2>4. LastAreWritten' /\ Z!MetaIsOfWholeViews'
    BY <2>1, <2>3 DEF FilesInv, LastAreWritten, Z!MetaIsOfWholeViews, Trusted
  <2>5. ViewsAreWhole'
    <3>1. CASE save' = Z!NoSave
      BY <3>1 DEF ViewsAreWhole, Z!NoSave
    <3>2. CASE save' = [save EXCEPT !.pc = "time"]
      <4>1. /\ save'.left = save.left /\ save'.views = save.views /\ save'.zones = save.zones
            /\ save'.pc = "time" /\ save'.erred = save.erred
        BY <3>2 DEF FilesInv, FilesTypes
      <4>2. Whole' = Whole
        BY <2>1, <4>1 DEF Whole, OfBegun, Z!Begun
      <4> QED BY <2>1, <4>1, <4>2 DEF FilesInv, ViewsAreWhole
    <3> QED BY <2>1, <3>1, <3>2
  <2> QED BY <2>2, <2>4, <2>5 DEF FilesInv
<1> QED BY <1>1, <1>2, <1>3, <1>4, <1>5

\* A view is removed with its files.
LEMMA RemoveViewKeeps ==
  ASSUME FilesInv, NEW v \in Views, Z!removeView(v)
  PROVE  FilesInv'
<1>1. /\ save.pc = "views" /\ v \in save.left
      /\ files' = {f \in files : f.view # v}
      /\ save' = [save EXCEPT !.left = save.left \ {v}, !.pc = "zones"]
      /\ UNCHANGED <<meta, memory, lastSaved, saves>>
  BY DEF Z!removeView, Z!Saving
<1>2. /\ save'.left = save.left \ {v} /\ save'.views = save.views /\ save'.zones = save.zones
      /\ save'.pc = "zones" /\ save'.erred = save.erred
  BY <1>1 DEF FilesInv, FilesTypes
<1>3. FilesTypes' /\ SaveFits'
  BY <1>1 DEF FilesInv, FilesTypes, SaveFits, Phases
<1>4. ~Trusted /\ ~Trusted'
  BY <1>1 DEF FilesInv, MetaIsRemoved, Phases, Trusted, Z!Readable
<1>5. MetaIsRemoved' /\ LastAreWritten' /\ Z!MetaIsOfWholeViews'
  BY <1>1, <1>4 DEF FilesInv, MetaIsRemoved, LastAreWritten, Z!MetaIsOfWholeViews, Trusted
<1>6. Whole /\ ~save.erred
  BY <1>1 DEF FilesInv, ViewsAreWhole
<1>7. OfBegun' = OfBegun
  BY <1>1, <1>2 DEF OfBegun
<1>8. Z!Begun \subseteq Z!Begun' /\ \A f \in Z!Begun' : f \in Z!Begun \/ f[1] = v
  BY <1>2 DEF Z!Begun
<1>9. \A x \in OfBegun' : \E f \in Z!Begun' : x \in {Z!File(f, 0), Z!File(f, saves)}
  BY <1>6, <1>7, <1>8 DEF Whole
<1>10. ASSUME NEW f \in Z!Begun', Z!File(f, 0) \in files', Z!File(f, saves) \in files'
       PROVE  FALSE
  <2>1. f[1] # v
    BY <1>1, <1>10, FilesDiffer
  <2>2. f \in Z!Begun /\ Z!File(f, 0) \in OfBegun
    BY <1>1, <1>8, <1>10, <2>1, FilesDiffer DEF OfBegun, Z!Begun, FilesInv, SaveFits
  <2>3. PICK g \in Z!Begun : Z!File(f, 0) = Z!File(g, saves)
    BY <1>6, <2>2 DEF Whole
  <2> QED BY <1>1, <2>3, FilesDiffer DEF FilesInv, SaveFits
<1>11. ViewsAreWhole'
  BY <1>1, <1>2, <1>6, <1>9, <1>10 DEF ViewsAreWhole
<1> QED BY <1>3, <1>5, <1>11 DEF FilesInv

\* A file is opened empty or written.
LEMMA CreateZoneKeeps ==
  ASSUME FilesInv, Z!createZone
  PROVE  FilesInv'
<1>1. PICK f \in Z!Missing :
        /\ save.pc = "zones"
        /\ files' = IF Z!File(f, 0) \in files THEN (files \ {Z!File(f, 0)}) \cup {Z!File(f, saves)}
                                              ELSE files \cup {Z!File(f, 0)}
        /\ UNCHANGED <<meta, memory, save, lastSaved, saves>>
  BY DEF Z!createZone, Z!Saving
<1>2. /\ f \in Z!Begun /\ f \in Views \X Zones /\ Z!File(f, saves) \notin files
      /\ f[1] \in save.views \ save.left
  BY <1>1 DEF Z!Missing, Z!Begun, FilesInv, FilesTypes, SaveFits
<1>3. \A n \in Nat : Z!File(f, n) \in [view : Views, zone : Zones, by : Nat]
  BY <1>2 DEF Z!File
<1>4. FilesTypes' /\ SaveFits'
  BY <1>1, <1>3 DEF FilesInv, FilesTypes, SaveFits
<1>5. ~Trusted /\ ~Trusted'
  BY <1>1 DEF FilesInv, MetaIsRemoved, Phases, Trusted, Z!Readable
<1>6. MetaIsRemoved' /\ LastAreWritten' /\ Z!MetaIsOfWholeViews'
  BY <1>1, <1>5 DEF FilesInv, MetaIsRemoved, LastAreWritten, Z!MetaIsOfWholeViews, Trusted
<1>7. Z!Begun' = Z!Begun
  BY <1>1 DEF Z!Begun
<1>8. /\ \A x \in OfBegun : \E g \in Z!Begun : x \in {Z!File(g, 0), Z!File(g, saves)}
      /\ \A g \in Z!Begun : Z!File(g, 0) \notin files \/ Z!File(g, saves) \notin files
      /\ ~save.erred /\ saves # 0
  BY <1>1 DEF FilesInv, ViewsAreWhole, SaveFits
<1>9. OfBegun' \subseteq OfBegun \cup {Z!File(f, 0), Z!File(f, saves)}
  BY <1>1 DEF OfBegun
<1>10. \A x \in OfBegun' : \E g \in Z!Begun' : x \in {Z!File(g, 0), Z!File(g, saves)}
  BY <1>2, <1>7, <1>8, <1>9
<1>11. \A g \in Z!Begun, m, n \in Nat : Z!File(g, m) = Z!File(f, n) => g = f /\ m = n
  BY <1>2 DEF Z!File, Z!Begun, FilesInv, FilesTypes
<1>12. \A g \in Z!Begun' : Z!File(g, 0) \notin files' \/ Z!File(g, saves) \notin files'
  <2>1. saves \in Nat /\ 0 \in Nat
    BY DEF FilesInv, FilesTypes
  <2> QED BY <1>1, <1>2, <1>7, <1>8, <1>11, <2>1
<1>13. ViewsAreWhole'
  BY <1>1, <1>8, <1>10, <1>12 DEF ViewsAreWhole
<1> QED BY <1>4, <1>6, <1>13 DEF FilesInv

\* The views are on disk when the metadata is written.
LEMMA SaveMetaKeeps ==
  ASSUME FilesInv, Z!saveMeta
  PROVE  FilesInv'
<1>1. /\ save.pc = "time" /\ save' = Z!NoSave /\ UNCHANGED <<files, saves>>
      /\ \/ /\ memory' = {{Z!File(f, saves) : f \in save.zones}}
            /\ lastSaved' = [zones |-> {Z!File(f, saves) : f \in save.zones},
                             views |-> save.views, mixed |-> save.erred]
         \/ UNCHANGED <<meta, memory, lastSaved>>
  BY DEF Z!saveMeta, Z!Saving
<1>2. FilesTypes' /\ SaveFits' /\ MetaIsRemoved' /\ ViewsAreWhole'
  BY <1>1 DEF FilesInv, FilesTypes, SaveFits, MetaIsRemoved, ViewsAreWhole, Z!NoSave, Phases
<1>3. CASE UNCHANGED <<meta, memory, lastSaved>>
  BY <1>1, <1>2, <1>3, SavedStays DEF FilesInv
<1>4. CASE /\ memory' = {{Z!File(f, saves) : f \in save.zones}}
           /\ lastSaved' = [zones |-> {Z!File(f, saves) : f \in save.zones},
                            views |-> save.views, mixed |-> save.erred]
  <2>1. LastAreWritten'
    <3>1. save.zones \subseteq Views \X Zones /\ save.views \subseteq Views
          /\ save.erred \in BOOLEAN /\ saves \in Nat /\ saves # 0
      BY <1>1 DEF FilesInv, FilesTypes, SaveFits
    <3>2. \A f \in save.zones : Z!File(f, saves) \in [view : Views, zone : Zones, by : Nat]
      BY <3>1 DEF Z!File
    <3>3. \A x \in {Z!File(f, saves) : f \in save.zones} : x.by # 0
      BY <3>1, FilesDiffer
    <3> QED BY <1>4, <3>1, <3>2, <3>3 DEF LastAreWritten
  <2>2. ASSUME ~save.erred
        PROVE  {x \in files : x.view \in save.views} = {Z!File(f, saves) : f \in save.zones}
    <3>1. Whole /\ save.left = {}
      BY <1>1, <2>2 DEF FilesInv, ViewsAreWhole
    <3>2. Z!Begun = save.zones
      BY <3>1 DEF Z!Begun
    <3> QED BY <3>1, <3>2 DEF Whole, OfBegun
  <2>3. \A x \in {Z!File(f, saves) : f \in save.zones} : x.view \in save.views
    BY <1>1, FilesDiffer DEF FilesInv, SaveFits
  <2>4. Z!MetaIsOfWholeViews'
    BY <1>1, <1>4, <2>2, <2>3 DEF Z!MetaIsOfWholeViews
  <2> QED BY <1>2, <2>1, <2>4 DEF FilesInv
<1> QED BY <1>1, <1>3, <1>4

\* A load takes what is on disk.
LEMMA LoadKeeps ==
  ASSUME FilesInv, Z!loadViews
  PROVE  FilesInv'
<1>1. /\ UNCHANGED <<files, meta, save, lastSaved, saves>> /\ memory' = {{f \in files : f.by # 0}}
  BY DEF Z!loadViews
<1>2. /\ FilesTypes' /\ SaveFits' /\ MetaIsRemoved' /\ ViewsAreWhole' /\ LastAreWritten'
  BY <1>1 DEF FilesInv, FilesTypes, SaveFits, MetaIsRemoved, ViewsAreWhole, LastAreWritten,
              Whole, OfBegun, Z!Begun, Trusted, Z!Readable
<1>3. Z!MetaIsOfWholeViews'
  BY <1>1 DEF FilesInv, LastAreWritten, Z!MetaIsOfWholeViews, Z!Readable
<1> QED BY <1>2, <1>3 DEF FilesInv

\* Metadata of a save that was killed cannot be read.
LEMMA KillKeeps ==
  ASSUME FilesInv, Z!Kill
  PROVE  FilesInv'
BY DEF Z!Kill, FilesInv, FilesTypes, SaveFits, MetaIsRemoved, ViewsAreWhole, LastAreWritten,
       Z!MetaIsOfWholeViews, Trusted, Z!Readable, Z!NoSave, Phases

\* Every step.
LEMMA FilesStepKeeps ==
  ASSUME FilesInv, Z!Next
  PROVE  FilesInv'
BY SaveKeeps, RemoveViewKeeps, CreateZoneKeeps, SaveMetaKeeps, LoadKeeps, KillKeeps DEF Z!Next, Z!Save

-----------------------------------------------------------------------------
(* The exporters                                                           *)

Rounds == [step : {"wait", "store"}, answer : [K!Families -> SUBSET (SubnetIds \X Nat)],
           asked : SUBSET K!Families, services : SUBSET K!Families,
           cache : SUBSET (SubnetIds \X (Nat \X SubnetIds)), cached : BOOLEAN, family : K!Families,
           steady : BOOLEAN, failed : BOOLEAN]
KeaExporterTypes ==
  /\ keaServed \in [K!Families -> [alive : BOOLEAN, subnets : SUBSET SubnetIds, value : Nat]]
  /\ round \in Rounds
  /\ round.step = "store" <=> round.services # {}
\* Nothing has changed since the daemons answered.
AnswersAreCurrent ==
  round.steady => \A f \in K!Families : round.answer[f] \in {{}, K!Answer(f)}
\* A subnet has a series with its own prefix and its present value.
Exported(f, i) ==
  [family |-> f, id |-> i, prefix |-> K!Prefix(f, i), value |-> keaServed[f].value] \in gauges
\* The daemons that the round has handled are exported.
HandledAreExported ==
  round.steady /\ ~round.failed =>
    \A f \in K!Families \ round.services : round.answer[f] # {} =>
      \A i \in keaServed[f].subnets : Exported(f, i)

KeaExporterInv == KeaExporterTypes /\ AnswersAreCurrent /\ HandledAreExported

\* A collector that waits for the ticker, with nothing answered.
LEMMA WaitingFits ==
  ASSUME round' = K!Waiting,
         keaServed' \in [K!Families -> [alive : BOOLEAN, subnets : SUBSET SubnetIds, value : Nat]]
  PROVE  KeaExporterInv'
BY DEF KeaExporterInv, KeaExporterTypes, AnswersAreCurrent, HandledAreExported, Rounds, K!Waiting, K!Families

\* Kea changes: what was answered is not current.
LEMMA KeaChangesKeeps ==
  ASSUME KeaExporterInv, K!KeaChanges
  PROVE  KeaExporterInv'
<1>1. PICK f \in K!Families, ids \in SUBSET SubnetIds, up2 \in BOOLEAN :
        /\ keaServed' = [keaServed EXCEPT ![f] = [alive |-> up2, subnets |-> ids, value |-> keaServed[f].value + 1]]
        /\ round' = [round EXCEPT !.steady = FALSE]
  BY DEF K!KeaChanges
<1>2. KeaExporterTypes' /\ ~round'.steady
  <2>1. [alive |-> up2, subnets |-> ids, value |-> keaServed[f].value + 1]
          \in [alive : BOOLEAN, subnets : SUBSET SubnetIds, value : Nat]
    BY DEF KeaExporterInv, KeaExporterTypes
  <2>2. keaServed' \in [K!Families -> [alive : BOOLEAN, subnets : SUBSET SubnetIds, value : Nat]]
    BY <1>1, <2>1 DEF KeaExporterInv, KeaExporterTypes
  <2>3. /\ round' \in Rounds /\ round'.step = round.step /\ round'.services = round.services
        /\ ~round'.steady
    BY <1>1 DEF KeaExporterInv, KeaExporterTypes, Rounds
  <2> QED BY <2>2, <2>3 DEF KeaExporterInv, KeaExporterTypes
<1> QED BY <1>2 DEF KeaExporterInv, AnswersAreCurrent, HandledAreExported

\* The answers of a new round.
LEMMA FetchStatsKeeps ==
  ASSUME KeaExporterInv, K!FetchStats
  PROVE  KeaExporterInv'
<1>1. PICK services \in SUBSET K!Families :
        /\ services # {}
        /\ round' = [K!Waiting EXCEPT !.step = "store", !.asked = services, !.services = services,
                       !.steady = TRUE,
                       !.answer = [f \in K!Families |-> IF f \in services THEN K!Answer(f) ELSE {}]]
  BY Zenon DEF K!FetchStats
<1>2. UNCHANGED <<keaServed, gauges>>
  BY DEF K!FetchStats
<1>3. \A f \in K!Families : K!Answer(f) \in SUBSET (SubnetIds \X Nat)
  BY DEF K!Answer, KeaExporterInv, KeaExporterTypes
<1>4. /\ round' \in Rounds /\ round'.step = "store" /\ round'.services = services
      /\ round'.answer = [f \in K!Families |-> IF f \in services THEN K!Answer(f) ELSE {}]
  BY <1>1, <1>3, Zenon DEF Rounds, K!Waiting, K!Families
<1>5. KeaExporterTypes'
  BY <1>1, <1>2, <1>4 DEF KeaExporterInv, KeaExporterTypes
<1>6. AnswersAreCurrent' /\ HandledAreExported'
  BY <1>2, <1>4 DEF AnswersAreCurrent, HandledAreExported, K!Answer
<1> QED BY <1>5, <1>6 DEF KeaExporterInv

\* The three parts of the invariant after a step.
LEMMA KeaExporterTogether ==
  ASSUME KeaExporterTypes', AnswersAreCurrent', HandledAreExported'
  PROVE  KeaExporterInv'
BY DEF KeaExporterInv

\* One daemon's answer is stored.
LEMMA StoreStatsKeeps ==
  ASSUME KeaExporterInv, K!StoreStats
  PROVE  KeaExporterInv'
<1> DEFINE f == IF 4 \in round.services THEN 4 ELSE 6
<1>1. PICK r \in IF round.answer[f] = {} THEN {K!setFamily(round, f)}
                 ELSE K!fetchAndCachePrefixes(K!setFamily(round, f)) :
        /\ gauges' = K!setDaemonStats(r, f)
        /\ round' = [r EXCEPT !.services = r.services \ {f},
                              !.step = IF round.services = {f} THEN "wait" ELSE "store"]
  BY Zenon DEF K!StoreStats
<1>2. /\ round.step = "store" /\ UNCHANGED keaServed /\ f \in round.services /\ f \in K!Families
      /\ round \in Rounds
  BY DEF K!StoreStats, KeaExporterInv, KeaExporterTypes, Rounds, K!Families
<1> HIDE DEF f
<1>3. K!SubnetList(f) \in SUBSET (SubnetIds \X (Nat \X SubnetIds))
  BY <1>2 DEF K!SubnetList, K!Prefix, K!Families, KeaExporterInv, KeaExporterTypes
<1>4. /\ r \in Rounds /\ r.services = round.services /\ r.answer = round.answer /\ r.steady = round.steady
      /\ ~r.failed => ~round.failed /\ (round.answer[f] # {} => r.cache = K!SubnetList(f))
  <2> DEFINE q == K!setFamily(round, f)
  <2>1. /\ q \in Rounds /\ q.services = round.services /\ q.answer = round.answer /\ q.steady = round.steady
        /\ q.failed = round.failed /\ ~q.cached /\ q.family = f
    BY <1>2 DEF K!setFamily, Rounds
  <2> HIDE DEF q
  <2>2. CASE round.answer[f] = {}
    BY <1>1, <2>1, <2>2 DEF q
  <2>3. CASE round.answer[f] # {}
    <3>1. r \in K!fetchAndCachePrefixes(q)
      BY <1>1, <2>3 DEF q
    <3>2. \/ r = [q EXCEPT !.cached = TRUE, !.cache = K!SubnetList(f)]
          \/ r = [q EXCEPT !.cached = TRUE, !.cache = {}, !.failed = TRUE]
      BY <2>1, <3>1 DEF K!fetchAndCachePrefixes
    <3> QED BY <1>3, <2>1, <2>3, <3>2 DEF Rounds
  <2> QED BY <2>2, <2>3
<1>5. /\ round' \in Rounds /\ round'.services = round.services \ {f} /\ round'.answer = round.answer
      /\ round'.steady = round.steady /\ round'.failed = r.failed
      /\ round'.step = IF round.services = {f} THEN "wait" ELSE "store"
  BY <1>1, <1>2, <1>4, Zenon DEF Rounds
<1>6. KeaExporterTypes'
  BY <1>2, <1>5 DEF KeaExporterInv, KeaExporterTypes
<1>7. AnswersAreCurrent'
  BY <1>2, <1>5 DEF KeaExporterInv, AnswersAreCurrent, K!Answer
<1>8. ASSUME round'.steady, ~round'.failed, NEW g \in K!Families \ round'.services, round'.answer[g] # {},
             NEW i \in keaServed[g].subnets
      PROVE  Exported(g, i)'
  <2>1. K!setDaemonStats(r, f) =
          LET new == {[family |-> f, id |-> e[1], prefix |-> K!getPrefix(r, e[1]), value |-> e[2]] : e \in r.answer[f]}
          IN  {h \in gauges : \A k \in new : ~(h.family = k.family /\ h.id = k.id /\ h.prefix = k.prefix)} \cup new
    BY DEF K!setDaemonStats
  <2>2. CASE g = f
    <3>1. r.answer[f] = K!Answer(f) /\ keaServed[f].alive /\ r.cache = K!SubnetList(f)
      BY <1>4, <1>5, <1>8, <2>2 DEF KeaExporterInv, AnswersAreCurrent, K!Answer
    <3>2. <<i, keaServed[f].value>> \in r.answer[f]
      BY <1>8, <2>2, <3>1 DEF K!Answer
    <3>3. <<i, K!Prefix(f, i)>> \in r.cache /\ \A e \in r.cache : e[1] = i => e[2] = K!Prefix(f, i)
      BY <1>8, <2>2, <3>1 DEF K!SubnetList
    <3>4. K!getPrefix(r, i) = K!Prefix(f, i)
      BY <3>3 DEF K!getPrefix
    <3> DEFINE new == {[family |-> f, id |-> e[1], prefix |-> K!getPrefix(r, e[1]), value |-> e[2]] : e \in r.answer[f]}
    <3>5. [family |-> f, id |-> i, prefix |-> K!Prefix(f, i), value |-> keaServed[f].value] \in new
      BY <3>2, <3>4
    <3>6. new \subseteq gauges'
      BY <1>1, <2>1
    <3> HIDE DEF new
    <3> QED BY <1>2, <2>2, <3>5, <3>6 DEF Exported, K!Prefix
  <2>3. CASE g # f
    <3>1. Exported(g, i)
      BY <1>4, <1>5, <1>8, <2>3 DEF KeaExporterInv, HandledAreExported
    <3> DEFINE new == {[family |-> f, id |-> e[1], prefix |-> K!getPrefix(r, e[1]), value |-> e[2]] : e \in r.answer[f]}
    <3>2. \A k \in new : k.family = f
      OBVIOUS
    <3>3. gauges' = {h \in gauges : \A k \in new : ~(h.family = k.family /\ h.id = k.id /\ h.prefix = k.prefix)} \cup new
      BY <1>1, <2>1
    <3> HIDE DEF new
    <3>4. \A h \in gauges : h.family # f => h \in gauges'
      BY <3>2, <3>3
    <3> QED BY <1>2, <2>3, <3>1, <3>4 DEF Exported, K!Prefix
  <2> QED BY <2>2, <2>3
<1>9. HandledAreExported'
  BY <1>2, <1>8 DEF HandledAreExported
<1> HIDE DEF f
<1> QED BY <1>6, <1>7, <1>9, KeaExporterTogether, Zenon

\* Every step.
LEMMA KeaExporterStepKeeps ==
  ASSUME KeaExporterInv, K!Next
  PROVE  KeaExporterInv'
<1>1. CASE K!FetchFails
  BY <1>1 DEF K!FetchFails, KeaExporterInv, KeaExporterTypes, AnswersAreCurrent, HandledAreExported,
              Exported, K!Answer
<1>2. CASE K!Shutdown
  BY <1>2, WaitingFits DEF K!Shutdown, KeaExporterInv, KeaExporterTypes
<1> QED BY <1>1, <1>2, KeaChangesKeeps, FetchStatsKeeps, StoreStatsKeeps DEF K!Next

\* Nothing is exported at first.
LEMMA KeaExporterStart ==
  ASSUME K!Init
  PROVE  KeaExporterInv
BY DEF K!Init, KeaExporterInv, KeaExporterTypes, AnswersAreCurrent, HandledAreExported, Rounds,
       K!Waiting, K!Families

\* What is exported after a round is current.
LEMMA SeriesAre ==
  ASSUME KeaExporterInv
  PROVE  K!SeriesAreCurrent
BY DEF KeaExporterInv, KeaExporterTypes, HandledAreExported, K!SeriesAreCurrent, Exported

\* A server has its default view, and what was given is of one answer.
Bind9ExporterInv ==
  /\ DOMAIN named = 1..2 /\ \A n \in 1..2 : "default" \in named[n].views
  /\ B!GivenIsOneAnswer

\* Nothing was given at first.
LEMMA Bind9ExporterStart ==
  ASSUME B!Init
  PROVE  Bind9ExporterInv
BY DEF B!Init, Bind9ExporterInv, B!GivenIsOneAnswer

\* Every step: everything is given only if the last server has answered to the end.
LEMMA Bind9ExporterStepKeeps ==
  ASSUME Bind9ExporterInv, B!Next
  PROVE  Bind9ExporterInv'
<1>1. CASE B!NamedChanges
  BY <1>1 DEF B!NamedChanges, Bind9ExporterInv, B!GivenIsOneAnswer
<1>2. CASE B!Collect
  <2>5. PICK first \in B!Asked(namedStats, 1) : \E second \in B!Asked(first[1], 2) :
          exported' = B!Given(second[1], {first[2], second[2]})
    BY <1>2 DEF B!Collect
  <2>1. PICK second \in B!Asked(first[1], 2) : exported' = B!Given(second[1], {first[2], second[2]})
    BY <2>5
  <2>2. UNCHANGED named
    BY <1>2 DEF B!Collect
  <2>3. CASE {first[2], second[2]} # {TRUE}
    BY <2>1, <2>2, <2>3 DEF B!Given, Bind9ExporterInv, B!GivenIsOneAnswer
  <2>4. CASE {first[2], second[2]} = {TRUE}
    <3>1. second[2] = TRUE
      BY <2>4
    <3>2. PICK part2 \in 0..3 : second = <<B!setDaemonStatsUpTo(part2, first[1], 2), part2 = 3>>
      <4>1. CASE ~named[2].up
        <5>1. second = <<first[1], FALSE>>
          BY <2>1, <4>1, Zenon DEF B!Asked
        <5> QED BY <3>1, <5>1
      <4>2. CASE named[2].up
        BY <2>1, <4>2, Zenon DEF B!Asked
      <4> QED BY <4>1, <4>2
    <3>3. second[1] = B!setDaemonStatsUpTo(3, first[1], 2)
      BY <3>1, <3>2
    <3>4. /\ second[1].times = B!Origin(2) /\ second[1].server = B!Origin(2)
          /\ second[1].views["default"] = B!Origin(2)
      BY <3>3 DEF B!setDaemonStatsUpTo, B!scrapeViewStats, Bind9ExporterInv
    <3>5. exported' = [up |-> TRUE, stats |-> second[1]]
      BY <2>1, <2>4 DEF B!Given
    <3> QED BY <2>2, <3>4, <3>5 DEF Bind9ExporterInv, B!GivenIsOneAnswer
  <2> QED BY <2>3, <2>4
<1> QED BY <1>1, <1>2 DEF B!Next

-----------------------------------------------------------------------------
(* Forms of global parameters                                              *)

Chosen == (SUBSET FormDaemons) \ {{}}
Opened(ds) == [pc : {"read", "open"}, shown : [ds -> G!Configs], copies : [ds -> G!Configs]]
Sending(ds) ==
  [pc : {"sending"}, shown : [ds -> G!Configs], copies : [ds -> G!Configs], form : G!Forms,
   toSet : SUBSET ds, toWrite : SUBSET ds, toStore : SUBSET ds]
TxFits(x) == x = G!Closed \/ \E ds \in Chosen : x \in Opened(ds) \/ x \in Sending(ds)
StoresFit ==
  /\ kea \in [FormDaemons -> G!Configs] /\ file \in [FormDaemons -> G!Configs]
  /\ db \in [FormDaemons -> G!Configs] /\ pulled \in [FormDaemons -> SUBSET G!Configs]
  /\ lock \in [FormDaemons -> SUBSET FormUsers] /\ DOMAIN tx = FormUsers

\* What the form has not is as the user was shown it.
Kept(x) ==
  \A d \in DOMAIN x.copies : \A p \in G!Params \ Settable : x.copies[d][p] = x.shown[d][p]
\* What the form has is as in the form, whatever was merged before.
Overlaid(x) ==
  \A d \in DOMAIN x.copies : \A p \in Settable : x.copies[d][p] = x.form[p]
\* The commands go in their order, and what they have set and saved stays, unless it is disturbed.
SentSoFar(x) ==
  /\ x.toWrite # DOMAIN x.copies => x.toSet = {}
  /\ x.toStore # DOMAIN x.copies => x.toWrite = {}
  /\ \A d \in DOMAIN x.copies \ disturbed :
       /\ d \notin x.toSet => kea[d] = x.copies[d]
       /\ d \notin x.toWrite => file[d] = kea[d]
FormInv(t) ==
  /\ TxFits(tx[t])
  /\ tx[t].pc # "closed" => Kept(tx[t])
  /\ tx[t].pc \in {"open", "sending"} => \A d \in DOMAIN tx[t].copies : lock[d] = {t}
  /\ tx[t].pc = "sending" => Overlaid(tx[t]) /\ SentSoFar(tx[t])

ParametersInv == StoresFit /\ \A t \in FormUsers : FormInv(t)

\* What a transaction is in each phase.
LEMMA TxShape ==
  ASSUME NEW x, TxFits(x)
  PROVE  /\ x.pc \in {"closed", "read", "open", "sending"}
         /\ x.pc = "closed" => x = G!Closed
         /\ x.pc \in {"read", "open"} => DOMAIN x.copies \in Chosen /\ x \in Opened(DOMAIN x.copies)
         /\ x.pc = "sending" => DOMAIN x.copies \in Chosen /\ x \in Sending(DOMAIN x.copies)
<1>1. CASE x = G!Closed
  BY <1>1 DEF G!Closed
<1>2. ASSUME NEW ds \in Chosen, x \in Opened(ds)
      PROVE  x.pc \in {"read", "open"} /\ DOMAIN x.copies = ds
  BY <1>2 DEF Opened
<1>3. ASSUME NEW ds \in Chosen, x \in Sending(ds)
      PROVE  x.pc = "sending" /\ DOMAIN x.copies = ds
  BY <1>3 DEF Sending
<1> QED BY <1>1, <1>2, <1>3 DEF TxFits

\* A transaction has its daemons for itself: others do not touch what it relies on.
LEMMA OthersStay ==
  ASSUME ParametersInv, NEW u \in FormUsers, tx'[u] = tx[u],
         \A d \in FormDaemons : lock[d] = {u} =>
           /\ lock'[d] = {u} /\ file'[d] = file[d]
           /\ d \in disturbed' \/ (kea'[d] = kea[d] /\ d \notin disturbed)
  PROVE  FormInv(u)'
<1> DEFINE x == tx[u]
<1>1. FormInv(u)
  BY DEF ParametersInv
<1>2. CASE x.pc \in {"closed", "read"}
  BY <1>1, <1>2 DEF FormInv
<1>3. CASE x.pc \in {"open", "sending"}
  <2>1. DOMAIN x.copies \subseteq FormDaemons
    BY <1>1, <1>3, TxShape DEF FormInv, Chosen
  <2>2. \A d \in DOMAIN x.copies : d \in FormDaemons /\ lock[d] = {u}
    BY <1>1, <1>3, <2>1 DEF FormInv
  <2>3. \A d \in DOMAIN x.copies : lock'[d] = {u}
    BY <2>2
  <2>4. SentSoFar(x) => SentSoFar(x)'
    BY <2>2 DEF SentSoFar
  <2> QED BY <1>1, <1>3, <2>3, <2>4 DEF FormInv, Kept, Overlaid
<1>4. x.pc \in {"closed", "read", "open", "sending"}
  BY <1>1, TxShape DEF FormInv
<1> QED BY <1>2, <1>3, <1>4

\* The transaction that acts goes on with x; the others stay.
LEMMA FormGoesOn ==
  ASSUME ParametersInv, StoresFit', NEW t \in FormUsers, NEW x, tx' = [tx EXCEPT ![t] = x],
         TxFits(x), x.pc # "closed" => Kept(x),
         x.pc \in {"open", "sending"} => \A d \in DOMAIN x.copies : lock'[d] = {t},
         x.pc = "sending" => Overlaid(x) /\ SentSoFar(x)',
         \A u \in FormUsers \ {t} : \A d \in FormDaemons : lock[d] = {u} =>
           /\ lock'[d] = {u} /\ file'[d] = file[d]
           /\ d \in disturbed' \/ (kea'[d] = kea[d] /\ d \notin disturbed)
  PROVE  ParametersInv'
<1>1. tx'[t] = x /\ \A u \in FormUsers \ {t} : tx'[u] = tx[u]
  BY DEF ParametersInv, StoresFit
<1>2. FormInv(t)'
  BY <1>1 DEF FormInv, Kept, Overlaid, SentSoFar
<1>3. ASSUME NEW u \in FormUsers \ {t} PROVE FormInv(u)'
  BY <1>1, OthersStay
<1> QED BY <1>2, <1>3 DEF ParametersInv

\* A transaction that is given up stays open.
LEMMA GivenUp ==
  ASSUME NEW t \in FormUsers, FormInv(t), tx[t].pc = "sending"
  PROVE  /\ TxFits(G!GiveUp(t)) /\ Kept(G!GiveUp(t)) /\ G!GiveUp(t).pc = "open"
         /\ DOMAIN G!GiveUp(t).copies = DOMAIN tx[t].copies
<1>1. DOMAIN tx[t].copies \in Chosen /\ tx[t] \in Sending(DOMAIN tx[t].copies)
  BY TxShape DEF FormInv
<1>2. /\ G!GiveUp(t) \in Opened(DOMAIN tx[t].copies) /\ G!GiveUp(t).pc = "open"
      /\ G!GiveUp(t).copies = tx[t].copies /\ G!GiveUp(t).shown = tx[t].shown
  BY <1>1 DEF G!GiveUp, Opened, Sending
<1> QED BY <1>1, <1>2 DEF FormInv, TxFits, Kept

\* The configurations are read.
LEMMA GetDaemonsKeeps ==
  ASSUME ParametersInv, NEW t \in FormUsers, G!GetDaemons(t)
  PROVE  ParametersInv'
<1>1. PICK ds \in Chosen : tx' = [tx EXCEPT ![t] = G!Read(ds, [d \in ds |-> db[d]])]
  BY DEF G!GetDaemons, Chosen
<1>2. UNCHANGED <<kea, file, db, pulled, lock, disturbed>>
  BY DEF G!GetDaemons
<1> DEFINE x == G!Read(ds, [d \in ds |-> db[d]])
<1>3. x \in Opened(ds) /\ x.pc = "read" /\ x.copies = x.shown
  BY DEF G!Read, Opened, ParametersInv, StoresFit, Chosen
<1>4. TxFits(x) /\ Kept(x)
  BY <1>3 DEF TxFits, Kept
<1>5. StoresFit'
  BY <1>1, <1>2 DEF ParametersInv, StoresFit
<1> HIDE DEF x
<1> QED BY <1>1, <1>2, <1>3, <1>4, <1>5, FormGoesOn DEF x

\* The daemons are locked unless another transaction has one of them.
LEMMA LockDaemonsKeeps ==
  ASSUME ParametersInv, NEW t \in FormUsers, G!LockDaemons(t)
  PROVE  ParametersInv'
<1>1. UNCHANGED <<kea, file, db, pulled, disturbed>> /\ tx[t].pc = "read" /\ FormInv(t)
  BY DEF G!LockDaemons, ParametersInv
<1>2. CASE ~G!MayLock(t)
  <2>1. tx' = [tx EXCEPT ![t] = G!Closed] /\ UNCHANGED lock
    BY <1>2 DEF G!LockDaemons
  <2>2. TxFits(G!Closed) /\ G!Closed.pc = "closed"
    BY DEF TxFits, G!Closed
  <2>3. StoresFit'
    BY <1>1, <2>1 DEF ParametersInv, StoresFit
  <2> QED BY <1>1, <2>1, <2>2, <2>3, FormGoesOn
<1>3. CASE G!MayLock(t)
  <2> DEFINE ds == DOMAIN tx[t].copies
             x == [tx[t] EXCEPT !.pc = "open"]
  <2>1. /\ lock' = [d \in FormDaemons |-> IF d \in ds THEN {t} ELSE lock[d]]
        /\ tx' = [tx EXCEPT ![t] = x]
    BY <1>3 DEF G!LockDaemons, G!Of
  <2>2. ds \in Chosen /\ tx[t] \in Opened(ds)
    BY <1>1, TxShape DEF FormInv
  <2>3. x \in Opened(ds) /\ x.pc = "open" /\ x.copies = tx[t].copies /\ x.shown = tx[t].shown
    BY <2>2 DEF Opened
  <2>4. TxFits(x) /\ Kept(x)
    BY <1>1, <2>2, <2>3 DEF TxFits, Kept, FormInv
  <2>5. StoresFit'
    BY <1>1, <2>1 DEF ParametersInv, StoresFit
  <2>6. \A u \in FormUsers \ {t} : \A d \in FormDaemons : lock[d] = {u} => lock'[d] = {u}
    BY <1>3, <2>1 DEF G!MayLock, G!Of
  <2>7. \A d \in DOMAIN x.copies : lock'[d] = {t}
    BY <2>1, <2>2, <2>3 DEF Chosen
  <2>8. \A u \in FormUsers \ {t} : \A d \in FormDaemons : lock[d] = {u} =>
           /\ lock'[d] = {u} /\ file'[d] = file[d]
           /\ d \in disturbed' \/ (kea'[d] = kea[d] /\ d \notin disturbed)
    BY <1>1, <2>6
  <2> HIDE DEF x
  <2> QED BY <2>1, <2>3, <2>4, <2>5, <2>7, <2>8, FormGoesOn
<1> QED BY <1>2, <1>3

\* The form is merged, and everything is to be sent; or the form is refused.
LEMMA ApplyKeeps ==
  ASSUME ParametersInv, NEW t \in FormUsers, G!Apply(t)
  PROVE  ParametersInv'
<1> DEFINE ds == DOMAIN tx[t].copies
<1>1. UNCHANGED <<kea, file, db, pulled, lock, disturbed>> /\ tx[t].pc = "open" /\ FormInv(t)
  BY DEF G!Apply, ParametersInv
<1>2. PICK chosen \in (SUBSET ds) \ {{}} : \E form \in G!Forms :
        LET copies == [d \in ds |->
               IF d \in chosen THEN G!Merged(tx[t].copies[d], form) ELSE tx[t].copies[d]]
        IN tx' = [tx EXCEPT ![t] =
             IF chosen = ds
             THEN [pc |-> "sending", shown |-> tx[t].shown, copies |-> copies,
                   form |-> form, toSet |-> chosen, toWrite |-> chosen, toStore |-> chosen]
             ELSE [pc |-> "open", shown |-> tx[t].shown, copies |-> copies]]
  BY DEF G!Apply, G!Of
<1>3. PICK form \in G!Forms :
        LET copies == [d \in ds |->
               IF d \in chosen THEN G!Merged(tx[t].copies[d], form) ELSE tx[t].copies[d]]
        IN tx' = [tx EXCEPT ![t] =
             IF chosen = ds
             THEN [pc |-> "sending", shown |-> tx[t].shown, copies |-> copies,
                   form |-> form, toSet |-> chosen, toWrite |-> chosen, toStore |-> chosen]
             ELSE [pc |-> "open", shown |-> tx[t].shown, copies |-> copies]]
  BY <1>2
<1> DEFINE copies == [d \in ds |->
                        IF d \in chosen THEN G!Merged(tx[t].copies[d], form) ELSE tx[t].copies[d]]
           sending == [pc |-> "sending", shown |-> tx[t].shown, copies |-> copies,
                       form |-> form, toSet |-> chosen, toWrite |-> chosen, toStore |-> chosen]
           refused == [pc |-> "open", shown |-> tx[t].shown, copies |-> copies]
<1>4. ds \in Chosen /\ tx[t] \in Opened(ds)
  BY <1>1, TxShape DEF FormInv
<1>5. \A c \in G!Configs : G!Merged(c, form) \in G!Configs
  BY DEF G!Merged, G!Merge, G!NullableOf, G!Configs, G!Forms, G!Params
<1>6. copies \in [ds -> G!Configs]
  BY <1>4, <1>5 DEF Opened
<1>7. \A d \in ds : \A p \in G!Params \ Settable : copies[d][p] = tx[t].shown[d][p]
  BY <1>1 DEF FormInv, Kept, G!Merged, G!Merge
<1>8. \A d \in chosen : \A p \in Settable : copies[d][p] = form[p]
  BY DEF G!Merged, G!Merge, G!NullableOf, G!Params
<1> HIDE DEF copies
<1>9. StoresFit'
  BY <1>1, <1>3 DEF ParametersInv, StoresFit
<1>10. \A d \in ds : lock'[d] = {t}
  BY <1>1 DEF FormInv
<1>11. \A u \in FormUsers \ {t} : \A d \in FormDaemons : lock[d] = {u} =>
           /\ lock'[d] = {u} /\ file'[d] = file[d]
           /\ d \in disturbed' \/ (kea'[d] = kea[d] /\ d \notin disturbed)
  BY <1>1
<1>12. CASE chosen = ds
  <2>1. tx' = [tx EXCEPT ![t] = sending]
    BY <1>3, <1>12 DEF copies
  <2>2. sending \in Sending(ds) /\ sending.pc = "sending" /\ DOMAIN sending.copies = ds
    BY <1>4, <1>6, <1>12 DEF Sending, Opened
  <2>3. TxFits(sending) /\ Kept(sending) /\ Overlaid(sending)
    BY <1>4, <1>6, <1>7, <1>8, <1>12, <2>2 DEF TxFits, Kept, Overlaid
  <2>4. PICK x : x = sending
    OBVIOUS
  <2>5. /\ x.toSet = ds /\ x.toWrite = ds /\ x.toStore = ds /\ DOMAIN x.copies = ds
    BY <1>6, <1>12, <2>4
  <2>6. SentSoFar(x)'
    BY <2>5 DEF SentSoFar
  <2> HIDE DEF sending
  <2> QED BY <1>9, <1>10, <1>11, <2>1, <2>2, <2>3, <2>4, <2>6, FormGoesOn
<1>13. CASE chosen # ds
  <2>1. tx' = [tx EXCEPT ![t] = refused]
    BY <1>3, <1>13 DEF copies
  <2>2. refused \in Opened(ds) /\ refused.pc = "open" /\ DOMAIN refused.copies = ds
    BY <1>4, <1>6 DEF Opened
  <2>3. TxFits(refused) /\ Kept(refused)
    BY <1>4, <1>6, <1>7, <2>2 DEF TxFits, Kept
  <2> HIDE DEF refused
  <2> QED BY <1>9, <1>10, <1>11, <2>1, <2>2, <2>3, FormGoesOn
<1> QED BY <1>12, <1>13

\* A command is carried out or not, and its answer comes or not.
LEMMA ConfigSetKeeps ==
  ASSUME ParametersInv, NEW t \in FormUsers, NEW d \in FormDaemons, G!ConfigSet(t, d)
  PROVE  ParametersInv'
<1> DEFINE ds == DOMAIN tx[t].copies
<1>1. PICK done, answered \in BOOLEAN :
        /\ answered => done
        /\ kea' = IF done THEN [kea EXCEPT ![d] = tx[t].copies[d]] ELSE kea
        /\ disturbed' = IF done THEN disturbed \ {d} ELSE disturbed
        /\ tx' = [tx EXCEPT ![t] =
             IF answered THEN [tx[t] EXCEPT !.toSet = tx[t].toSet \ {d}] ELSE G!GiveUp(t)]
  BY DEF G!ConfigSet
<1>2. UNCHANGED <<file, db, pulled, lock>> /\ tx[t].pc = "sending" /\ d \in tx[t].toSet /\ FormInv(t)
  BY DEF G!ConfigSet, ParametersInv
<1>3. ds \in Chosen /\ tx[t] \in Sending(ds) /\ d \in ds
  BY <1>2, TxShape DEF FormInv, Sending
<1>4. /\ \A e \in ds : lock[e] = {t}
      /\ Overlaid(tx[t]) /\ SentSoFar(tx[t]) /\ Kept(tx[t])
  BY <1>2 DEF FormInv
<1>5. kea' \in [FormDaemons -> G!Configs] /\ \A e \in FormDaemons \ {d} : kea'[e] = kea[e]
  BY <1>1, <1>3 DEF ParametersInv, StoresFit, Sending
<1>6. StoresFit'
  BY <1>1, <1>2, <1>5 DEF ParametersInv, StoresFit
<1>7. \A u \in FormUsers \ {t} : \A e \in FormDaemons : lock[e] = {u} =>
           /\ lock'[e] = {u} /\ file'[e] = file[e]
           /\ e \in disturbed' \/ (kea'[e] = kea[e] /\ e \notin disturbed)
  BY <1>1, <1>2, <1>3, <1>4, <1>5
<1>8. CASE ~answered
  <2>1. PICK x : x = G!GiveUp(t)
    OBVIOUS
  <2>2. tx' = [tx EXCEPT ![t] = x] /\ TxFits(x) /\ Kept(x) /\ x.pc = "open" /\ DOMAIN x.copies = ds
    BY <1>1, <1>2, <1>8, <2>1, GivenUp
  <2>3. \A e \in DOMAIN x.copies : lock'[e] = {t}
    BY <1>2, <1>4, <2>2
  <2> QED BY <1>6, <1>7, <2>2, <2>3, FormGoesOn
<1>9. CASE answered
  <2>1. PICK x : x = [tx[t] EXCEPT !.toSet = tx[t].toSet \ {d}]
    OBVIOUS
  <2>2. /\ tx' = [tx EXCEPT ![t] = x] /\ x \in Sending(ds) /\ x.pc = "sending" /\ x.copies = tx[t].copies
        /\ x.shown = tx[t].shown /\ x.form = tx[t].form /\ x.toSet = tx[t].toSet \ {d}
        /\ x.toWrite = tx[t].toWrite /\ x.toStore = tx[t].toStore
    BY <1>1, <1>3, <1>9, <2>1 DEF Sending
  <2>3. TxFits(x) /\ Kept(x) /\ Overlaid(x)
    BY <1>3, <1>4, <2>2 DEF TxFits, Kept, Overlaid
  <2>4. tx[t].toWrite = ds /\ tx[t].toStore = ds
    BY <1>2, <1>3, <1>4 DEF SentSoFar
  <2>5. kea'[d] = tx[t].copies[d] /\ disturbed' = disturbed \ {d}
    BY <1>1, <1>9 DEF ParametersInv, StoresFit
  <2>6. SentSoFar(x)'
    BY <1>3, <1>4, <1>5, <2>2, <2>4, <2>5 DEF SentSoFar, Chosen
  <2>7. \A e \in DOMAIN x.copies : lock'[e] = {t}
    BY <1>2, <1>4, <2>2
  <2> QED BY <1>6, <1>7, <2>2, <2>3, <2>6, <2>7, FormGoesOn
<1> QED BY <1>8, <1>9

\* The configuration is saved or not.
LEMMA ConfigWriteKeeps ==
  ASSUME ParametersInv, NEW t \in FormUsers, NEW d \in FormDaemons, G!ConfigWrite(t, d)
  PROVE  ParametersInv'
<1> DEFINE ds == DOMAIN tx[t].copies
<1>1. PICK done, answered \in BOOLEAN :
        /\ answered => done
        /\ file' = IF done THEN [file EXCEPT ![d] = kea[d]] ELSE file
        /\ tx' = [tx EXCEPT ![t] =
             IF answered THEN [tx[t] EXCEPT !.toWrite = tx[t].toWrite \ {d}] ELSE G!GiveUp(t)]
  BY DEF G!ConfigWrite
<1>2. /\ UNCHANGED <<kea, db, pulled, lock, disturbed>> /\ tx[t].pc = "sending" /\ d \in tx[t].toWrite
      /\ tx[t].toSet = {} /\ FormInv(t)
  BY DEF G!ConfigWrite, ParametersInv
<1>3. ds \in Chosen /\ tx[t] \in Sending(ds) /\ d \in ds
  BY <1>2, TxShape DEF FormInv, Sending
<1>4. /\ \A e \in ds : lock[e] = {t}
      /\ Overlaid(tx[t]) /\ SentSoFar(tx[t]) /\ Kept(tx[t])
  BY <1>2 DEF FormInv
<1>5. file' \in [FormDaemons -> G!Configs] /\ \A e \in FormDaemons \ {d} : file'[e] = file[e]
  BY <1>1 DEF ParametersInv, StoresFit
<1>6. StoresFit'
  BY <1>1, <1>2, <1>5 DEF ParametersInv, StoresFit
<1>7. \A u \in FormUsers \ {t} : \A e \in FormDaemons : lock[e] = {u} =>
           /\ lock'[e] = {u} /\ file'[e] = file[e]
           /\ e \in disturbed' \/ (kea'[e] = kea[e] /\ e \notin disturbed)
  BY <1>2, <1>3, <1>4, <1>5
<1>8. CASE ~answered
  <2>1. PICK x : x = G!GiveUp(t)
    OBVIOUS
  <2>2. tx' = [tx EXCEPT ![t] = x] /\ TxFits(x) /\ Kept(x) /\ x.pc = "open" /\ DOMAIN x.copies = ds
    BY <1>1, <1>2, <1>8, <2>1, GivenUp
  <2>3. \A e \in DOMAIN x.copies : lock'[e] = {t}
    BY <1>2, <1>4, <2>2
  <2> QED BY <1>6, <1>7, <2>2, <2>3, FormGoesOn
<1>9. CASE answered
  <2>1. PICK x : x = [tx[t] EXCEPT !.toWrite = tx[t].toWrite \ {d}]
    OBVIOUS
  <2>2. /\ tx' = [tx EXCEPT ![t] = x] /\ x \in Sending(ds) /\ x.pc = "sending" /\ x.copies = tx[t].copies
        /\ x.shown = tx[t].shown /\ x.form = tx[t].form /\ x.toSet = {}
        /\ x.toWrite = tx[t].toWrite \ {d} /\ x.toStore = tx[t].toStore
    BY <1>1, <1>2, <1>3, <1>9, <2>1 DEF Sending
  <2>3. TxFits(x) /\ Kept(x) /\ Overlaid(x)
    BY <1>3, <1>4, <2>2 DEF TxFits, Kept, Overlaid
  <2>4. tx[t].toStore = ds
    BY <1>2, <1>3, <1>4 DEF SentSoFar
  <2>5. file'[d] = kea[d]
    BY <1>1, <1>9 DEF ParametersInv, StoresFit
  <2>6. SentSoFar(x)'
    BY <1>2, <1>3, <1>4, <1>5, <2>2, <2>4, <2>5 DEF SentSoFar, Chosen
  <2>7. \A e \in DOMAIN x.copies : lock'[e] = {t}
    BY <1>2, <1>4, <2>2
  <2> QED BY <1>6, <1>7, <2>2, <2>3, <2>6, <2>7, FormGoesOn
<1> QED BY <1>8, <1>9

\* The row is stored or not.
LEMMA UpdateDaemonKeeps ==
  ASSUME ParametersInv, NEW t \in FormUsers, NEW d \in FormDaemons, G!UpdateDaemon(t, d)
  PROVE  ParametersInv'
<1> DEFINE ds == DOMAIN tx[t].copies
<1>1. \/ /\ db' = [db EXCEPT ![d] = tx[t].copies[d]]
         /\ tx' = [tx EXCEPT ![t] = [tx[t] EXCEPT !.toStore = tx[t].toStore \ {d}]]
      \/ tx' = [tx EXCEPT ![t] = G!GiveUp(t)] /\ UNCHANGED db
  BY DEF G!UpdateDaemon
<1>2. /\ UNCHANGED <<kea, file, pulled, lock, disturbed>> /\ tx[t].pc = "sending" /\ d \in tx[t].toStore
      /\ tx[t].toWrite = {} /\ FormInv(t)
  BY DEF G!UpdateDaemon, ParametersInv
<1>3. ds \in Chosen /\ tx[t] \in Sending(ds) /\ d \in ds
  BY <1>2, TxShape DEF FormInv, Sending
<1>4. /\ \A e \in ds : lock[e] = {t}
      /\ Overlaid(tx[t]) /\ SentSoFar(tx[t]) /\ Kept(tx[t])
  BY <1>2 DEF FormInv
<1>5. db' \in [FormDaemons -> G!Configs]
  BY <1>1, <1>3 DEF ParametersInv, StoresFit, Sending
<1>6. StoresFit'
  BY <1>1, <1>2, <1>5 DEF ParametersInv, StoresFit
<1>7. \A u \in FormUsers \ {t} : \A e \in FormDaemons : lock[e] = {u} =>
           /\ lock'[e] = {u} /\ file'[e] = file[e]
           /\ e \in disturbed' \/ (kea'[e] = kea[e] /\ e \notin disturbed)
  BY <1>2
<1>8. CASE tx' = [tx EXCEPT ![t] = G!GiveUp(t)]
  <2>1. PICK x : x = G!GiveUp(t)
    OBVIOUS
  <2>2. tx' = [tx EXCEPT ![t] = x] /\ TxFits(x) /\ Kept(x) /\ x.pc = "open" /\ DOMAIN x.copies = ds
    BY <1>2, <1>8, <2>1, GivenUp
  <2>3. \A e \in DOMAIN x.copies : lock'[e] = {t}
    BY <1>2, <1>4, <2>2
  <2> QED BY <1>6, <1>7, <2>2, <2>3, FormGoesOn
<1>9. CASE tx' = [tx EXCEPT ![t] = [tx[t] EXCEPT !.toStore = tx[t].toStore \ {d}]]
  <2>1. PICK x : x = [tx[t] EXCEPT !.toStore = tx[t].toStore \ {d}]
    OBVIOUS
  <2>2. /\ tx' = [tx EXCEPT ![t] = x] /\ x \in Sending(ds) /\ x.pc = "sending" /\ x.copies = tx[t].copies
        /\ x.shown = tx[t].shown /\ x.form = tx[t].form /\ x.toSet = tx[t].toSet
        /\ x.toWrite = {} /\ x.toStore = tx[t].toStore \ {d}
    BY <1>2, <1>3, <1>9, <2>1 DEF Sending
  <2>3. TxFits(x) /\ Kept(x) /\ Overlaid(x)
    BY <1>3, <1>4, <2>2 DEF TxFits, Kept, Overlaid
  <2>4. SentSoFar(x)'
    BY <1>2, <1>4, <2>2 DEF SentSoFar
  <2>5. \A e \in DOMAIN x.copies : lock'[e] = {t}
    BY <1>2, <1>4, <2>2
  <2> QED BY <1>6, <1>7, <2>2, <2>3, <2>4, <2>5, FormGoesOn
<1> QED BY <1>1, <1>8, <1>9

\* The daemons are unlocked.
LEMMA DoneKeeps ==
  ASSUME ParametersInv, NEW t \in FormUsers, G!Done(t)
  PROVE  ParametersInv'
<1>1. /\ UNCHANGED <<kea, file, db, pulled, disturbed>> /\ tx' = [tx EXCEPT ![t] = G!Closed]
      /\ lock' = [d \in FormDaemons |-> lock[d] \ {t}]
  BY DEF G!Done
<1>2. TxFits(G!Closed) /\ G!Closed.pc = "closed"
  BY DEF TxFits, G!Closed
<1>3. StoresFit'
  BY <1>1 DEF ParametersInv, StoresFit
<1>4. \A u \in FormUsers \ {t} : \A e \in FormDaemons : lock[e] = {u} =>
           /\ lock'[e] = {u} /\ file'[e] = file[e]
           /\ e \in disturbed' \/ (kea'[e] = kea[e] /\ e \notin disturbed)
  BY <1>1
<1> QED BY <1>1, <1>2, <1>3, <1>4, FormGoesOn

\* Kea and the database change by other means.
LEMMA OutsideKeeps ==
  ASSUME ParametersInv, NEW d \in FormDaemons, G!Fetch(d) \/ G!Store(d) \/ G!ChangeKea(d)
  PROVE  ParametersInv'
<1>1. UNCHANGED <<lock, file, tx>>
  BY DEF G!Fetch, G!Store, G!ChangeKea
<1>2. /\ \A e \in FormDaemons : e \in disturbed' \/ (kea'[e] = kea[e] /\ e \notin disturbed)
      /\ kea' \in [FormDaemons -> G!Configs]
  <2>1. CASE UNCHANGED <<kea, disturbed>>
    BY <2>1 DEF ParametersInv, StoresFit
  <2>2. CASE G!ChangeKea(d)
    <3>1. \A p \in G!Params, v \in Values \cup {Absent} :
            [kea EXCEPT ![d][p] = v] = [kea EXCEPT ![d] = [kea[d] EXCEPT ![p] = v]]
      OBVIOUS
    <3>2. \A p \in G!Params, v \in Values \cup {Absent} : [kea[d] EXCEPT ![p] = v] \in G!Configs
      BY DEF ParametersInv, StoresFit, G!Configs
    <3>3. \E c \in G!Configs : kea' = [kea EXCEPT ![d] = c]
      BY <2>2, <3>1, <3>2 DEF G!ChangeKea, ParametersInv, StoresFit
    <3>4. disturbed' = disturbed \cup {d}
      BY <2>2 DEF G!ChangeKea
    <3> QED BY <3>3, <3>4 DEF ParametersInv, StoresFit
  <2> QED BY <2>1, <2>2 DEF G!Fetch, G!Store
<1>3. db' \in [FormDaemons -> G!Configs] /\ pulled' \in [FormDaemons -> SUBSET G!Configs]
  BY DEF G!Fetch, G!Store, G!ChangeKea, ParametersInv, StoresFit
<1>4. StoresFit'
  BY <1>1, <1>2, <1>3 DEF ParametersInv, StoresFit
<1>5. ASSUME NEW u \in FormUsers PROVE FormInv(u)'
  BY <1>1, <1>2, OthersStay
<1> QED BY <1>4, <1>5 DEF ParametersInv

\* Every step.
LEMMA ParametersStepKeeps ==
  ASSUME ParametersInv, G!Next
  PROVE  ParametersInv'
BY GetDaemonsKeeps, LockDaemonsKeeps, ApplyKeeps, ConfigSetKeeps, ConfigWriteKeeps, UpdateDaemonKeeps,
   DoneKeeps, OutsideKeeps DEF G!Next

\* No form is open at first.
LEMMA ParametersStart ==
  ASSUME G!Init
  PROVE  ParametersInv
<1>1. PICK v \in Values : kea = [d \in FormDaemons |-> [p \in G!Params |-> v]]
  BY DEF G!Init
<1>2. StoresFit
  BY <1>1 DEF G!Init, StoresFit, G!Configs
<1>3. ASSUME NEW t \in FormUsers PROVE FormInv(t)
  BY DEF G!Init, FormInv, TxFits, G!Closed
<1> QED BY <1>2, <1>3 DEF ParametersInv

\* What was set and saved is the form on what was shown.
LEMMA SucceededIsTheForm ==
  ASSUME ParametersInv
  PROVE  G!SuccessIsTheForm
<1> SUFFICES ASSUME NEW t \in FormUsers, G!Succeeded(t), NEW d \in G!Of(t) \ disturbed
             PROVE  /\ kea[d] = file[d]
                    /\ \A p \in G!Params :
                         kea[d][p] = IF p \in Settable THEN tx[t].form[p] ELSE tx[t].shown[d][p]
  BY DEF G!SuccessIsTheForm
<1>1. tx[t].pc = "sending" /\ tx[t].toStore = {} /\ FormInv(t) /\ d \in DOMAIN tx[t].copies
  BY DEF G!Succeeded, ParametersInv, G!Of
<1>2. Overlaid(tx[t]) /\ SentSoFar(tx[t]) /\ Kept(tx[t])
  BY <1>1 DEF FormInv
<1>3. tx[t].toSet = {} /\ tx[t].toWrite = {}
  BY <1>1, <1>2 DEF SentSoFar
<1>4. kea[d] = tx[t].copies[d] /\ file[d] = kea[d]
  BY <1>1, <1>2, <1>3 DEF SentSoFar
<1> QED BY <1>1, <1>2, <1>4 DEF Overlaid, Kept

-----------------------------------------------------------------------------
(* Search for leases                                                       *)

TextKinds == {"ipv4", "ipv6", "identifier", "hostname"}
SearchTypes ==
  /\ held \in [F!AppSet -> SUBSET AllLeases] /\ throughout \in [F!AppSet -> SUBSET AllLeases]
  /\ position \in 1..(Len(LeaseApps) + 1)
  /\ found \subseteq F!AppSet \X AllLeases /\ erred \subseteq F!AppSet
  /\ search \in LeaseTexts \cup {F!NoText("declined"), F!NoText("host"), F!NoText("none")}
\* An address is leased once, and what is held throughout is held.
HeldFit ==
  \A a \in F!AppSet :
    /\ throughout[a] \subseteq held[a]
    /\ \A l, m \in held[a] : l.address = m.address => l = m
NothingFound ==
  F!Idle => /\ queryType = "none" /\ position = 1 /\ found = {} /\ erred = {}
            /\ left = {} /\ failing = {}

\* The address to ask for to find a lease.
Request(l) ==
  <<IF l.family = 4 THEN "v4" ELSE IF l.type = "IA_PD" THEN "pd" ELSE "na", l.address>>
Addresses == F!WhatToAsk(search.kind, search.value)
Found(a, l) == l.family \in LeaseHooks[a] => <<a, l>> \in found
Answered(a) == a \in erred \/ \A l \in throughout[a] : F!Looked(l) => Found(a, l)

Looking == ~F!Idle /\ ~search.short
AllAreLooked == \A p \in found : F!Looked(p[2])
PastAreAnswered == \A i \in 1..(position - 1) : Answered(LeaseApps[i])
\* Of the application that is asked: the addresses already asked for.
AskedAreAnswered ==
  /\ left \subseteq Addresses
  /\ search.kind = "ipv6" => <<"pd", search.value>> \in left
  /\ failing # {} => F!app \in erred
  /\ F!app \in erred \/ \A l \in throughout[F!app] :
                          Request(l) \in Addresses \ left => Found(F!app, l)
SearchGoesOn ==
  Looking =>
    /\ queryType = search.kind /\ AllAreLooked /\ PastAreAnswered
    /\ position <= Len(LeaseApps) => AskedAreAnswered

SearchInv == SearchTypes /\ HeldFit /\ NothingFound /\ SearchGoesOn

\* What a search can be for.
LEMMA KindsOfSearch ==
  ASSUME SearchTypes
  PROVE  /\ search.kind \in TextKinds \cup {"declined", "host", "none"}
         /\ F!Idle => search = F!NoText("none")
         /\ search.kind = "declined" => search = F!NoText("declined")
         /\ search.kind = "host" => search = F!NoText("host")
         /\ search.kind \in TextKinds => search \in LeaseTexts
BY SearchAssumption DEF SearchTypes, F!SearchAssumption, F!NoText, F!Idle, TextKinds

\* The application that is asked.
LEMMA AskedIsKnown ==
  ASSUME SearchTypes, F!Asking
  PROVE  /\ position \in Nat /\ position <= Len(LeaseApps) /\ Len(LeaseApps) \in Nat
         /\ F!app \in F!AppSet /\ F!app = LeaseApps[position] /\ ~F!Idle
<1>1. LeaseApps \in Seq(F!AppSet)
  BY SearchAssumption DEF F!SearchAssumption
<1> QED BY <1>1 DEF SearchTypes, F!Asking, F!app

\* Every application is asked at some position.
LEMMA EveryAppIsAsked ==
  ASSUME NEW a \in F!AppSet
  PROVE  \E i \in 1..Len(LeaseApps) : LeaseApps[i] = a
<1>1. LeaseApps \in Seq(F!AppSet)
  BY SearchAssumption DEF F!SearchAssumption
<1> QED BY <1>1 DEF F!AppSet, F!Range

\* A command finds exactly the lease of its address.
LEMMA SelectsRequest ==
  ASSUME NEW a, NEW l \in AllLeases, NEW r, r = <<r[1], r[2]>>, r[1] \in {"v4", "na", "pd"}
  PROVE  F!Selects(a, F!CommandFor(r), l) <=> r = Request(l)
<1>1. /\ l.family = 4 \/ (l.family = 6 /\ l.type \in {"IA_NA", "IA_PD"})
      /\ l.family = 4 => l.type = "V4"
  BY SearchAssumption DEF F!SearchAssumption
<1>2. r = Request(l) <=> r[1] = Request(l)[1] /\ r[2] = l.address
  BY DEF Request
<1>3. CASE r[1] = "v4"
  BY <1>1, <1>2, <1>3 DEF F!Selects, F!CommandFor, Request
<1>4. CASE r[1] = "na"
  BY <1>1, <1>2, <1>4 DEF F!Selects, F!CommandFor, Request
<1>5. CASE r[1] = "pd"
  BY <1>1, <1>2, <1>5 DEF F!Selects, F!CommandFor, Request
<1> QED BY <1>3, <1>4, <1>5

\* The addresses asked for are of a known kind.
LEMMA AddressesFit ==
  ASSUME search.kind \in {"ipv6", "host"}, NEW r \in Addresses
  PROVE  r = <<r[1], r[2]>> /\ r[1] \in {"v4", "na", "pd"}
BY SearchAssumption DEF F!SearchAssumption, Addresses, F!WhatToAsk

\* Searches by addresses are for the leases of these addresses.
LEMMA LookedIsRequested ==
  ASSUME SearchTypes, search.kind \in {"ipv6", "host"}, NEW l \in AllLeases
  PROVE  F!Looked(l) <=> Request(l) \in Addresses
<1>1. /\ l.family = 4 \/ (l.family = 6 /\ l.type \in {"IA_NA", "IA_PD"})
      /\ l.family = 4 => l.type = "V4"
      /\ \A r \in LeaseHost.addresses : r = <<r[1], r[2]>> /\ r[1] \in {"v4", "na", "pd"}
  BY SearchAssumption DEF F!SearchAssumption
<1>2. CASE search.kind = "ipv6"
  BY <1>1, <1>2 DEF F!Looked, Addresses, F!WhatToAsk, Request
<1>3. CASE search.kind = "host"
  <2>1. Addresses = LeaseHost.addresses
    BY <1>3 DEF Addresses, F!WhatToAsk
  <2>2. F!Looked(l) <=> \E r \in LeaseHost.addresses :
            r[2] = l.address /\ F!FamilyOf(r) = l.family /\ (r[1] = "pd" <=> l.type = "IA_PD")
    BY <1>3 DEF F!Looked
  <2>3. ASSUME NEW r \in LeaseHost.addresses
        PROVE  (r[2] = l.address /\ F!FamilyOf(r) = l.family /\ (r[1] = "pd" <=> l.type = "IA_PD"))
                 <=> r = Request(l)
    <3>1. r = <<r[1], r[2]>> /\ r[1] \in {"v4", "na", "pd"}
      BY <1>1
    <3>2. r = Request(l) <=> r[1] = Request(l)[1] /\ r[2] = l.address
      BY <3>1 DEF Request
    <3> QED BY <1>1, <3>1, <3>2 DEF F!FamilyOf, Request
  <2> QED BY <1>1, <2>1, <2>2, <2>3
<1> QED BY <1>2, <1>3

\* The next application is asked when this one is answered.
LEMMA NextIsAsked ==
  ASSUME SearchInv, F!Asking, F!NextApp, F!Untouched, SearchTypes',
         found \subseteq found', erred \subseteq erred', NEW a, a = F!app,
         Looking => queryType' = queryType /\ AllAreLooked' /\ Answered(a)'
  PROVE  SearchInv'
<1>1. UNCHANGED <<held, search, throughout>>
  BY DEF F!Untouched
<1>2. HeldFit' /\ NothingFound'
  BY <1>1 DEF SearchInv, HeldFit, NothingFound, F!Idle, F!Asking
<1>3. ASSUME Looking PROVE SearchGoesOn'
  <2>1. queryType' = search'.kind /\ AllAreLooked'
    BY <1>1, <1>3 DEF SearchInv, SearchGoesOn
  <2>2. \A i \in 1..(position - 1) : Answered(LeaseApps[i])'
    <3> SUFFICES ASSUME NEW i \in 1..(position - 1) PROVE Answered(LeaseApps[i])'
      OBVIOUS
    <3>1. Answered(LeaseApps[i])
      BY <1>3 DEF SearchInv, SearchGoesOn, PastAreAnswered
    <3>2. \A l : F!Looked(l)' <=> F!Looked(l)
      BY <1>1 DEF F!Looked
    <3> QED BY <1>1, <3>1, <3>2 DEF Answered, Found
  <2>3. a = LeaseApps[position] /\ position' = position + 1 /\ position \in Nat
    BY AskedIsKnown DEF SearchInv, F!NextApp
  <2>4. ASSUME NEW i \in 1..(position' - 1) PROVE Answered(LeaseApps[i])'
    <3>1. i \in 1..(position - 1) \/ i = position
      BY <2>3
    <3>2. CASE i = position
      <4>1. LeaseApps[i] = a
        BY <2>3, <3>2
      <4> QED BY <1>3, <4>1
    <3> QED BY <2>2, <3>1, <3>2
  <2>5. PastAreAnswered'
    BY <2>4 DEF PastAreAnswered
  <2>6. left' = Addresses' /\ failing' = {}
    BY <1>1, <1>3 DEF F!NextApp, SearchInv, SearchGoesOn, Addresses
  <2>7. search'.kind = "ipv6" => <<"pd", search'.value>> \in Addresses'
    BY DEF Addresses, F!WhatToAsk
  <2>8. AskedAreAnswered'
    BY <2>6, <2>7 DEF AskedAreAnswered
  <2> QED BY <2>1, <2>5, <2>8 DEF SearchGoesOn
<1>4. Looking' => Looking
  BY <1>1 DEF Looking, F!Idle
<1> QED BY <1>2, <1>3, <1>4 DEF SearchInv, SearchGoesOn

\* A search is begun.
LEMMA GetLeasesKeeps ==
  ASSUME SearchInv, F!GetLeases
  PROVE  SearchInv'
<1>1. /\ F!Idle /\ search' \in LeaseTexts \cup {F!NoText("declined"), F!NoText("host")}
      /\ queryType' = search'.kind /\ left' = F!WhatToAsk(queryType', search'.value)
      /\ throughout' = held /\ UNCHANGED <<held, position, failing, found, erred>>
  BY DEF F!GetLeases
<1>2. position = 1 /\ found = {} /\ erred = {} /\ failing = {}
  BY <1>1 DEF SearchInv, NothingFound
<1>3. SearchTypes'
  BY <1>1 DEF SearchInv, SearchTypes
<1>4. HeldFit'
  BY <1>1 DEF SearchInv, HeldFit
<1>5. search'.kind # "none"
  BY <1>1, SearchAssumption DEF F!SearchAssumption, F!NoText
<1>6. NothingFound'
  BY <1>5 DEF NothingFound, F!Idle
<1>7. left' = Addresses'
  BY <1>1 DEF Addresses
<1>8. search'.kind = "ipv6" => <<"pd", search'.value>> \in Addresses'
  BY DEF Addresses, F!WhatToAsk
<1>9. AskedAreAnswered'
  BY <1>1, <1>2, <1>7, <1>8 DEF AskedAreAnswered
<1>10. AllAreLooked' /\ PastAreAnswered'
  BY <1>1, <1>2 DEF AllAreLooked, PastAreAnswered
<1> QED BY <1>1, <1>3, <1>4, <1>6, <1>9, <1>10 DEF SearchInv, SearchGoesOn

\* What one command finds.
LEMMA OneCommand ==
  ASSUME SearchInv, F!Asking, NEW c, NEW failed \in BOOLEAN, F!GetLease(F!app, c, failed)
  PROVE  /\ found \subseteq found' /\ erred \subseteq erred'
         /\ found' \subseteq F!AppSet \X AllLeases /\ erred' \subseteq F!AppSet
         /\ failed => F!app \in erred'
         /\ ~failed => \A l \in held[F!app] : F!Selects(F!app, c, l) => <<F!app, l>> \in found'
         /\ \A p \in found' \ found : p[2] \in held[F!app] /\ F!Selects(F!app, c, p[2])
<1>1. F!app \in F!AppSet /\ held[F!app] \subseteq AllLeases
  BY AskedIsKnown DEF SearchInv, SearchTypes
<1>2. found \subseteq F!AppSet \X AllLeases /\ erred \subseteq F!AppSet
  BY DEF SearchInv, SearchTypes
<1>3. /\ found' = IF failed THEN found ELSE found \cup F!Pairs(F!app, F!Answer(F!app, c))
      /\ erred' = IF failed THEN erred \cup {F!app} ELSE erred
  BY DEF F!GetLease
<1>4. \A p : p \in F!Pairs(F!app, F!Answer(F!app, c)) <=>
        \E l \in held[F!app] : F!Selects(F!app, c, l) /\ p = <<F!app, l>>
  BY DEF F!Pairs, F!Answer
<1> HIDE DEF F!app
<1> QED BY <1>1, <1>2, <1>3, <1>4

\* An IPv4 address.
LEMMA FindLease4Keeps ==
  ASSUME SearchInv, F!FindLease4
  PROVE  SearchInv'
<1>1. /\ F!Asking /\ F!NextApp /\ F!Untouched /\ queryType' = queryType /\ queryType = "ipv4"
      /\ IF 4 \in LeaseHooks[F!app]
         THEN \E failed \in BOOLEAN : F!GetLease(F!app, <<"lease4-get", search.value>>, failed)
         ELSE UNCHANGED <<found, erred>>
  BY DEF F!FindLease4, F!By, F!hasLeaseCmdsHook
<1>2. PICK a : a = F!app
  OBVIOUS
<1>3. /\ a \in F!AppSet /\ position \in Nat /\ position <= Len(LeaseApps) /\ Len(LeaseApps) \in Nat
      /\ position' = position + 1 /\ UNCHANGED <<held, search, throughout>>
  BY <1>1, <1>2, AskedIsKnown DEF SearchInv, F!NextApp, F!Untouched
<1>4. /\ found \subseteq found' /\ erred \subseteq erred'
      /\ found' \subseteq F!AppSet \X AllLeases /\ erred' \subseteq F!AppSet
      /\ \A p \in found' \ found : p[2].family = 4 /\ p[2].address = search.value
      /\ \/ a \in erred'
         \/ \A l \in held[a] : 4 \in LeaseHooks[a] /\ l.family = 4 /\ l.address = search.value
                               => <<a, l>> \in found'
  <2>1. CASE 4 \in LeaseHooks[F!app]
    <3>1. PICK failed \in BOOLEAN : F!GetLease(F!app, <<"lease4-get", search.value>>, failed)
      BY <1>1, <2>1
    <3>2. \A l : F!Selects(F!app, <<"lease4-get", search.value>>, l) <=>
                 l.family = 4 /\ l.address = search.value
      BY DEF F!Selects
    <3> QED BY <1>1, <1>2, <3>1, <3>2, OneCommand
  <2>2. CASE 4 \notin LeaseHooks[F!app]
    BY <1>1, <1>2, <2>2 DEF SearchInv, SearchTypes
  <2> QED BY <2>1, <2>2
<1>5. SearchTypes'
  BY <1>3, <1>4 DEF SearchInv, SearchTypes
<1>6. ASSUME Looking PROVE AllAreLooked' /\ Answered(a)'
  <2>1. search.kind = "ipv4" /\ AllAreLooked
    BY <1>1, <1>6 DEF SearchInv, SearchGoesOn
  <2>2. \A l : F!Looked(l)' <=> l.family = 4 /\ l.address = search.value
    BY <1>3, <2>1 DEF F!Looked
  <2>3. \A l : F!Looked(l) <=> l.family = 4 /\ l.address = search.value
    BY <2>1 DEF F!Looked
  <2>4. AllAreLooked'
    BY <1>4, <2>1, <2>2, <2>3 DEF AllAreLooked
  <2>5. throughout'[a] \subseteq held[a]
    BY <1>3 DEF SearchInv, HeldFit
  <2>6. Answered(a)'
    BY <1>4, <2>2, <2>5 DEF Answered, Found
  <2> QED BY <2>4, <2>6
<1> QED BY <1>1, <1>2, <1>4, <1>5, <1>6, NextIsAsked

\* The application is asked for another address.
LEMMA AppGoesOn ==
  ASSUME SearchInv, F!Asking, F!Untouched, SearchTypes', position' = position,
         queryType' = queryType, Looking => AllAreLooked' /\ AskedAreAnswered',
         found \subseteq found', erred \subseteq erred'
  PROVE  SearchInv'
<1>1. UNCHANGED <<held, search, throughout>>
  BY DEF F!Untouched
<1>2. HeldFit' /\ NothingFound'
  BY <1>1 DEF SearchInv, HeldFit, NothingFound, F!Idle, F!Asking
<1>3. ASSUME Looking PROVE SearchGoesOn'
  <2>1. queryType' = search'.kind
    BY <1>1, <1>3 DEF SearchInv, SearchGoesOn
  <2>2. ASSUME NEW i \in 1..(position - 1) PROVE Answered(LeaseApps[i])'
    <3>1. Answered(LeaseApps[i])
      BY <1>3 DEF SearchInv, SearchGoesOn, PastAreAnswered
    <3>2. \A l : F!Looked(l)' <=> F!Looked(l)
      BY <1>1 DEF F!Looked
    <3> QED BY <1>1, <3>1, <3>2 DEF Answered, Found
  <2>3. PastAreAnswered'
    BY <2>2 DEF PastAreAnswered
  <2> QED BY <1>3, <2>1, <2>3 DEF SearchGoesOn
<1>4. Looking' => Looking
  BY <1>1 DEF Looking, F!Idle
<1> QED BY <1>2, <1>3, <1>4 DEF SearchInv, SearchGoesOn

\* What is found for one address.
LEMMA OneAddress ==
  ASSUME SearchInv, F!Asking, F!Untouched, Looking, search.kind \in {"ipv6", "host"},
         NEW r \in left, NEW failed \in BOOLEAN, NEW a, a = F!app,
         F!GetLease(F!app, F!CommandFor(r), failed)
  PROVE  /\ AllAreLooked' /\ found \subseteq found' /\ erred \subseteq erred'
         /\ failed => a \in erred'
         /\ \A l \in held[a] : Request(l) = r => l \in F!Answer(a, F!CommandFor(r))
         /\ \A l \in F!Answer(a, F!CommandFor(r)) : Request(l) = r /\ l \in held[a]
         /\ ~failed => \A l \in held[a] : Request(l) = r => <<a, l>> \in found'
<1>1. a \in F!AppSet /\ position <= Len(LeaseApps) /\ held[a] \subseteq AllLeases
  BY AskedIsKnown DEF SearchInv, SearchTypes
<1>2. r \in Addresses
  BY <1>1 DEF SearchInv, SearchGoesOn, AskedAreAnswered
<1>3. \A l \in AllLeases : F!Looked(l) <=> Request(l) \in Addresses
  BY LookedIsRequested DEF SearchInv
<1>4. \A l \in AllLeases : F!Selects(a, F!CommandFor(r), l) <=> r = Request(l)
  <2>1. r = <<r[1], r[2]>> /\ r[1] \in {"v4", "na", "pd"}
    BY <1>2, AddressesFit
  <2> QED BY <2>1, SelectsRequest
<1>5. /\ found \subseteq found' /\ erred \subseteq erred'
      /\ failed => a \in erred'
      /\ ~failed => \A l \in held[a] : F!Selects(a, F!CommandFor(r), l) => <<a, l>> \in found'
      /\ \A p \in found' \ found : p[2] \in held[a] /\ F!Selects(a, F!CommandFor(r), p[2])
  BY OneCommand
<1>6. AllAreLooked
  BY DEF SearchInv, SearchGoesOn
<1>7. \A l : F!Looked(l)' <=> F!Looked(l)
  BY DEF F!Looked, F!Untouched
<1>8. \A p \in found' : F!Looked(p[2])
  BY <1>1, <1>2, <1>3, <1>4, <1>5, <1>6 DEF AllAreLooked
<1>9. AllAreLooked'
  BY <1>7, <1>8 DEF AllAreLooked
<1>10. \A l : l \in F!Answer(a, F!CommandFor(r)) <=> l \in held[a] /\ F!Selects(a, F!CommandFor(r), l)
  BY DEF F!Answer
<1> QED BY <1>1, <1>4, <1>5, <1>9, <1>10

\* The types after one command.
LEMMA OneCommandFits ==
  ASSUME SearchInv, F!Asking, F!Untouched, position' \in {position, position + 1},
         NEW c, NEW failed \in BOOLEAN, F!GetLease(F!app, c, failed)
  PROVE  SearchTypes' /\ found \subseteq found' /\ erred \subseteq erred'
<1>1. position \in Nat /\ position <= Len(LeaseApps) /\ Len(LeaseApps) \in Nat
  BY AskedIsKnown DEF SearchInv
<1>2. position' \in 1..(Len(LeaseApps) + 1)
  BY <1>1 DEF SearchInv, SearchTypes
<1>3. /\ found' \subseteq F!AppSet \X AllLeases /\ erred' \subseteq F!AppSet
      /\ found \subseteq found' /\ erred \subseteq erred'
  BY OneCommand
<1> QED BY <1>2, <1>3 DEF SearchInv, SearchTypes, F!Untouched

\* An IPv6 address, or else a prefix.
LEMMA FindLease6Keeps ==
  ASSUME SearchInv, F!FindLease6
  PROVE  SearchInv'
<1>1. PICK a : a = F!app
  OBVIOUS
<1>2. /\ F!Asking /\ F!Untouched /\ UNCHANGED queryType /\ queryType = "ipv6"
      /\ \E r \in left, failed \in BOOLEAN :
           /\ r[1] = "pd" => left = {r}
           /\ F!GetLease(F!app, F!CommandFor(r), failed)
           /\ IF r[1] = "na" /\ (failed \/ F!Answer(a, F!CommandFor(r)) = {})
              THEN left' = left \ {r} /\ UNCHANGED <<position, failing>>
              ELSE F!NextApp
  BY <1>1 DEF F!FindLease6, F!By
<1>3. PICK r \in left, failed \in BOOLEAN :
           /\ r[1] = "pd" => left = {r}
           /\ F!GetLease(F!app, F!CommandFor(r), failed)
           /\ IF r[1] = "na" /\ (failed \/ F!Answer(a, F!CommandFor(r)) = {})
              THEN left' = left \ {r} /\ UNCHANGED <<position, failing>>
              ELSE F!NextApp
  BY <1>2
<1>4. SearchTypes' /\ found \subseteq found' /\ erred \subseteq erred'
  BY <1>2, <1>3, OneCommandFits DEF F!NextApp
<1>5. /\ a \in F!AppSet /\ throughout[a] \subseteq held[a]
      /\ \A l, m \in held[a] : l.address = m.address => l = m
      /\ UNCHANGED <<held, search, throughout>> /\ held[a] \subseteq AllLeases
      /\ position <= Len(LeaseApps)
  BY <1>1, <1>2, AskedIsKnown DEF SearchInv, SearchTypes, HeldFit, F!Untouched
<1>6. ASSUME Looking
      PROVE  /\ search.kind = "ipv6" /\ Addresses = {<<"na", search.value>>, <<"pd", search.value>>}
             /\ AskedAreAnswered /\ r \in Addresses /\ r[2] = search.value
             /\ \A l \in AllLeases : F!Looked(l) <=> Request(l) \in Addresses
  <2>1. search.kind = "ipv6" /\ AskedAreAnswered
    BY <1>2, <1>5, <1>6 DEF SearchInv, SearchGoesOn
  <2>2. Addresses = {<<"na", search.value>>, <<"pd", search.value>>}
    BY <2>1 DEF Addresses, F!WhatToAsk
  <2>3. r \in Addresses
    BY <2>1 DEF AskedAreAnswered
  <2> QED BY <2>1, <2>2, <2>3, LookedIsRequested DEF SearchInv
<1>7. ASSUME Looking
      PROVE  /\ AllAreLooked'
             /\ failed => a \in erred'
             /\ \A l \in held[a] : Request(l) = r => l \in F!Answer(a, F!CommandFor(r))
             /\ \A l \in F!Answer(a, F!CommandFor(r)) : Request(l) = r /\ l \in held[a]
             /\ ~failed => \A l \in held[a] : Request(l) = r => <<a, l>> \in found'
  BY <1>1, <1>2, <1>3, <1>6, <1>7, OneAddress
<1>8. CASE r[1] = "na" /\ (failed \/ F!Answer(a, F!CommandFor(r)) = {})
  <2>1. left' = left \ {r} /\ UNCHANGED <<position, failing>>
    BY <1>3, <1>8
  <2>2. ASSUME Looking PROVE AskedAreAnswered'
    <3>1. left' \subseteq Addresses' /\ Addresses' = Addresses
      BY <1>5, <1>6, <2>1, <2>2 DEF AskedAreAnswered, Addresses
    <3>2. <<"pd", search.value>> \in left' /\ F!app' = a
      BY <1>1, <1>6, <1>8, <2>1, <2>2 DEF AskedAreAnswered, F!app
    <3>3. failing' # {} => a \in erred'
      BY <1>1, <1>4, <1>6, <2>1, <2>2 DEF AskedAreAnswered
    <3>4. a \in erred' \/ \A l \in throughout[a] :
                            Request(l) \in Addresses \ left' => Found(a, l)'
      <4>1. CASE failed
        BY <1>7, <2>2, <4>1
      <4>2. CASE ~failed
        <5>1. \A l \in throughout[a] : Request(l) # r
          BY <1>5, <1>7, <1>8, <2>2, <4>2
        <5>2. a \in erred \/ \A l \in throughout[a] : Request(l) \in Addresses \ left => Found(a, l)
          BY <1>1, <1>6, <2>2 DEF AskedAreAnswered
        <5> QED BY <1>4, <2>1, <5>1, <5>2 DEF Found
      <4> QED BY <4>1, <4>2
    <3> QED BY <1>5, <3>1, <3>2, <3>3, <3>4 DEF AskedAreAnswered
  <2> QED BY <1>2, <1>4, <1>7, <2>1, <2>2, AppGoesOn
<1>9. CASE ~(r[1] = "na" /\ (failed \/ F!Answer(a, F!CommandFor(r)) = {}))
  <2>1. F!NextApp
    BY <1>3, <1>9
  <2>2. ASSUME Looking PROVE Answered(a)'
    <3>1. \A l : F!Looked(l)' <=> F!Looked(l)
      BY <1>5 DEF F!Looked
    <3>2. a \in erred' \/ \A l \in throughout[a] : F!Looked(l) => Found(a, l)'
      <4>1. CASE r[1] = "pd"
        <5>1. left = {r} /\ r = <<"pd", search.value>>
          BY <1>3, <1>6, <2>2, <4>1
        <5>2. a \in erred \/ \A l \in throughout[a] : Request(l) \in Addresses \ left => Found(a, l)
          BY <1>1, <1>6, <2>2 DEF AskedAreAnswered
        <5>3. a \in erred' \/ \A l \in throughout[a] : Request(l) = r => Found(a, l)'
          BY <1>5, <1>7, <2>2 DEF Found
        <5> QED BY <1>4, <1>5, <1>6, <2>2, <5>1, <5>2, <5>3 DEF Found
      <4>2. CASE r[1] # "pd"
        <5>1. ~failed /\ F!Answer(a, F!CommandFor(r)) # {}
          BY <1>6, <1>9, <2>2, <4>2
        <5>2. PICK m \in held[a] : Request(m) = r
          BY <1>7, <2>2, <5>1
        <5>3. m.address = search.value
          BY <1>6, <2>2, <5>2 DEF Request
        <5>4. ASSUME NEW l \in throughout[a], F!Looked(l) PROVE <<a, l>> \in found'
          <6>1. l.address = search.value
            BY <1>5, <1>6, <2>2, <5>4 DEF Request
          <6>2. l = m
            BY <1>5, <5>3, <6>1
          <6> QED BY <1>7, <2>2, <5>1, <5>2, <6>2
        <5> QED BY <5>4 DEF Found
      <4> QED BY <4>1, <4>2
    <3> QED BY <1>5, <3>1, <3>2 DEF Answered
  <2> QED BY <1>1, <1>2, <1>4, <1>7, <2>1, <2>2, NextIsAsked
<1> QED BY <1>8, <1>9

\* An application without DHCPv6.
LEMMA SkipApp6Keeps ==
  ASSUME SearchInv, F!SkipApp6
  PROVE  SearchInv'
<1>1. PICK a : a = F!app
  OBVIOUS
<1>2. /\ F!Asking /\ F!NextApp /\ F!Untouched /\ UNCHANGED <<queryType, found, erred>>
      /\ queryType = "ipv6" /\ 6 \notin LeaseHooks[a]
  BY <1>1 DEF F!SkipApp6, F!By, F!hasLeaseCmdsHook
<1>3. /\ a \in F!AppSet /\ position \in Nat /\ position <= Len(LeaseApps) /\ Len(LeaseApps) \in Nat
      /\ position' = position + 1 /\ UNCHANGED <<held, search, throughout>>
  BY <1>1, <1>2, AskedIsKnown DEF SearchInv, F!NextApp, F!Untouched
<1>4. SearchTypes'
  BY <1>2, <1>3 DEF SearchInv, SearchTypes
<1>5. ASSUME Looking PROVE AllAreLooked' /\ Answered(a)'
  <2>1. search.kind = "ipv6" /\ AllAreLooked
    BY <1>2, <1>5 DEF SearchInv, SearchGoesOn
  <2>2. \A l : F!Looked(l)' <=> F!Looked(l)
    BY <1>3 DEF F!Looked
  <2>3. \A l : F!Looked(l) => l.family = 6
    BY <2>1 DEF F!Looked
  <2> QED BY <1>2, <2>1, <2>2, <2>3 DEF AllAreLooked, Answered, Found
<1> QED BY <1>1, <1>2, <1>4, <1>5, NextIsAsked

\* The addresses of a host.
LEMMA FindByHostKeeps ==
  ASSUME SearchInv, F!FindByHost
  PROVE  SearchInv'
<1>1. PICK a : a = F!app
  OBVIOUS
<1>2. /\ F!Asking /\ F!Untouched /\ UNCHANGED <<queryType, position>> /\ queryType = "host"
      /\ \E r \in left, failed \in BOOLEAN :
           /\ IF F!FamilyOf(r) \notin failing /\ F!FamilyOf(r) \in LeaseHooks[F!app]
              THEN F!GetLease(F!app, F!CommandFor(r), failed)
              ELSE ~failed /\ UNCHANGED <<found, erred>>
           /\ failing' = IF failed THEN failing \cup {F!FamilyOf(r)} ELSE failing
           /\ left' = left \ {r}
  BY DEF F!FindByHost, F!By, F!hasLeaseCmdsHook
<1>3. PICK r \in left, failed \in BOOLEAN :
           /\ IF F!FamilyOf(r) \notin failing /\ F!FamilyOf(r) \in LeaseHooks[F!app]
              THEN F!GetLease(F!app, F!CommandFor(r), failed)
              ELSE ~failed /\ UNCHANGED <<found, erred>>
           /\ failing' = IF failed THEN failing \cup {F!FamilyOf(r)} ELSE failing
           /\ left' = left \ {r}
  BY <1>2
<1>4. SearchTypes' /\ found \subseteq found' /\ erred \subseteq erred'
  <2>1. CASE F!FamilyOf(r) \notin failing /\ F!FamilyOf(r) \in LeaseHooks[F!app]
    BY <1>2, <1>3, <2>1, OneCommandFits
  <2>2. CASE UNCHANGED <<found, erred>>
    BY <1>2, <2>2 DEF SearchInv, SearchTypes, F!Untouched
  <2> QED BY <1>3, <2>1, <2>2
<1>5. /\ a \in F!AppSet /\ throughout[a] \subseteq held[a]
      /\ UNCHANGED <<held, search, throughout>> /\ held[a] \subseteq AllLeases
      /\ position <= Len(LeaseApps) /\ F!app' = a
  BY <1>1, <1>2, AskedIsKnown DEF SearchInv, SearchTypes, HeldFit, F!Untouched, F!app
<1>6. ASSUME Looking PROVE AllAreLooked' /\ AskedAreAnswered'
  <2>1. search.kind = "host" /\ AskedAreAnswered /\ AllAreLooked
    BY <1>2, <1>5, <1>6 DEF SearchInv, SearchGoesOn
  <2>2. \A l : F!Looked(l)' <=> F!Looked(l)
    BY <1>5 DEF F!Looked
  <2>3. left' \subseteq Addresses' /\ search'.kind # "ipv6" /\ Addresses' = Addresses
    BY <1>3, <1>5, <2>1 DEF AskedAreAnswered, Addresses
  <2>4. a \in erred \/ \A l \in throughout[a] : Request(l) \in Addresses \ left => Found(a, l)
    BY <1>1, <2>1 DEF AskedAreAnswered
  <2>5. failing # {} => a \in erred
    BY <1>1, <2>1 DEF AskedAreAnswered
  <2>6. /\ AllAreLooked'
        /\ failing' # {} => a \in erred'
        /\ a \in erred' \/ \A l \in throughout[a] : Request(l) = r => Found(a, l)'
    <3>1. CASE F!FamilyOf(r) \notin failing /\ F!FamilyOf(r) \in LeaseHooks[F!app]
      <4>1. /\ AllAreLooked'
            /\ failed => a \in erred'
            /\ ~failed => \A l \in held[a] : Request(l) = r => <<a, l>> \in found'
        BY <1>1, <1>2, <1>3, <1>6, <2>1, <3>1, OneAddress
      <4> QED BY <1>3, <1>4, <1>5, <2>5, <4>1 DEF Found
    <3>2. CASE ~(F!FamilyOf(r) \notin failing /\ F!FamilyOf(r) \in LeaseHooks[F!app])
      <4>1. UNCHANGED <<found, erred>> /\ failing' = failing
        BY <1>3, <3>2
      <4>2. AllAreLooked'
        BY <2>1, <2>2, <4>1 DEF AllAreLooked
      <4>3. CASE F!FamilyOf(r) \in failing
        BY <2>5, <4>1, <4>2, <4>3
      <4>4. CASE F!FamilyOf(r) \notin LeaseHooks[a]
        <5>1. ASSUME NEW l \in throughout[a], Request(l) = r PROVE l.family \notin LeaseHooks[a]
          <6>1. l \in AllLeases
            BY <1>5
          <6>2. l.family = F!FamilyOf(r)
            BY <5>1, <6>1, SearchAssumption DEF F!SearchAssumption, F!FamilyOf, Request
          <6> QED BY <4>4, <6>2
        <5> QED BY <2>5, <4>1, <4>2, <5>1 DEF Found
      <4> QED BY <1>1, <3>2, <4>3, <4>4
    <3> QED BY <3>1, <3>2
  <2>7. a \in erred' \/ \A l \in throughout[a] : Request(l) \in Addresses \ left' => Found(a, l)'
    BY <1>3, <1>4, <2>4, <2>6 DEF Found
  <2> QED BY <1>5, <2>3, <2>6, <2>7 DEF AskedAreAnswered
<1> QED BY <1>2, <1>4, <1>6, AppGoesOn

\* All the addresses of the host are asked for, or no daemon answers.
LEMMA NextForHostKeeps ==
  ASSUME SearchInv, F!NextForHost
  PROVE  SearchInv'
<1>1. PICK a : a = F!app
  OBVIOUS
<1>2. /\ F!Asking /\ F!NextApp /\ F!Untouched /\ UNCHANGED <<queryType, found, erred>>
      /\ queryType = "host" /\ (left = {} \/ failing = {4, 6})
  BY DEF F!NextForHost, F!By
<1>3. /\ a \in F!AppSet /\ position \in Nat /\ position <= Len(LeaseApps) /\ Len(LeaseApps) \in Nat
      /\ position' = position + 1 /\ UNCHANGED <<held, search, throughout>>
      /\ throughout[a] \subseteq AllLeases
  BY <1>1, <1>2, AskedIsKnown DEF SearchInv, SearchTypes, F!NextApp, F!Untouched
<1>4. SearchTypes'
  BY <1>2, <1>3 DEF SearchInv, SearchTypes
<1>5. ASSUME Looking PROVE AllAreLooked' /\ Answered(a)'
  <2>1. search.kind = "host" /\ AllAreLooked /\ AskedAreAnswered
    BY <1>2, <1>3, <1>5 DEF SearchInv, SearchGoesOn
  <2>2. \A l : F!Looked(l)' <=> F!Looked(l)
    BY <1>3 DEF F!Looked
  <2>3. a \in erred \/ \A l \in throughout[a] : Request(l) \in Addresses => Found(a, l)
    BY <1>1, <1>2, <2>1 DEF AskedAreAnswered
  <2>4. \A l \in throughout[a] : F!Looked(l) => Request(l) \in Addresses
    BY <1>3, <2>1, LookedIsRequested DEF SearchInv
  <2> QED BY <1>2, <1>3, <2>1, <2>2, <2>3, <2>4 DEF AllAreLooked, Answered, Found
<1> QED BY <1>1, <1>2, <1>4, <1>5, NextIsAsked

\* The commands of a search by properties find the leases it is for, those not wanted apart.
LEMMA ByPropertiesKeeps ==
  ASSUME SearchInv, F!Asking, F!NextApp, F!Untouched, NEW a, a = F!app, NEW cs, NEW unwanted,
         F!getLeasesByProperties(F!app, cs, unwanted),
         Looking =>
           /\ queryType' = queryType
           /\ \A c \in cs, l \in AllLeases : F!Selects(a, c, l) /\ l \notin unwanted => F!Looked(l)
           /\ \A l \in AllLeases : F!Looked(l) /\ l.family \in LeaseHooks[a]
                => l \notin unwanted /\ \E c \in cs : F!Selects(a, c, l)
  PROVE  SearchInv'
<1>1. PICK called \in BOOLEAN, refused \in SUBSET cs :
        /\ ~called => refused = cs
        /\ found' = found \cup
             F!Pairs(a, (UNION {F!Answer(a, c) : c \in cs \ refused}) \ unwanted)
        /\ erred' = erred \cup F!NewlyErred(a, called, refused)
  BY DEF F!getLeasesByProperties
<1>2. /\ a \in F!AppSet /\ position \in Nat /\ position <= Len(LeaseApps) /\ Len(LeaseApps) \in Nat
      /\ position' = position + 1 /\ UNCHANGED <<held, search, throughout>>
      /\ throughout[a] \subseteq held[a] /\ held[a] \subseteq AllLeases
  BY AskedIsKnown DEF SearchInv, SearchTypes, HeldFit, F!NextApp, F!Untouched
<1>3. \A p : p \in found' <=>
        \/ p \in found
        \/ \E c \in cs \ refused, l \in held[a] : /\ F!Selects(a, c, l) /\ l \notin unwanted
                                                 /\ p = <<a, l>>
  BY <1>1 DEF F!Pairs, F!Answer
<1>4. erred \subseteq erred' /\ erred' \subseteq erred \cup {a} /\ (a \notin erred' => called /\ refused = {})
  BY <1>1 DEF F!NewlyErred, F!ErredWith
<1>5. SearchTypes'
  BY <1>2, <1>3, <1>4 DEF SearchInv, SearchTypes
<1>6. ASSUME Looking PROVE AllAreLooked' /\ Answered(a)'
  <2>1. AllAreLooked
    BY <1>6 DEF SearchInv, SearchGoesOn
  <2>2. \A l : F!Looked(l)' <=> F!Looked(l)
    BY <1>2 DEF F!Looked
  <2>3. \A p \in found' : F!Looked(p[2])
    <3> SUFFICES ASSUME NEW p \in found' PROVE F!Looked(p[2])
      OBVIOUS
    <3>1. CASE p \in found
      BY <2>1, <3>1 DEF AllAreLooked
    <3>2. CASE p \notin found
      <4>1. PICK c \in cs, l \in held[a] : F!Selects(a, c, l) /\ l \notin unwanted /\ p = <<a, l>>
        BY <1>3, <3>2
      <4> QED BY <1>2, <1>6, <4>1
    <3> QED BY <3>1, <3>2
  <2>4. AllAreLooked'
    BY <2>2, <2>3 DEF AllAreLooked
  <2>5. ASSUME a \notin erred', NEW l \in throughout[a], F!Looked(l), l.family \in LeaseHooks[a]
        PROVE  <<a, l>> \in found'
    BY <1>2, <1>3, <1>4, <1>6, <2>5
  <2>6. Answered(a)'
    BY <1>2, <2>2, <2>5 DEF Answered, Found
  <2> QED BY <2>4, <2>6
<1>7. found \subseteq found'
  BY <1>3
<1>8. Looking => queryType' = queryType
  OBVIOUS
<1> HIDE DEF F!app
<1> QED BY <1>4, <1>5, <1>6, <1>7, <1>8, NextIsAsked

\* The commands that ask for values of properties.
LEMMA CommandsOf ==
  ASSUME NEW a, NEW names4, NEW names6, NEW value, NEW c
  PROVE  c \in F!Commands(a, names4, names6, value) <=>
           \E n : /\ (n \in names4 /\ 4 \in LeaseHooks[a]) \/ (n \in names6 /\ 6 \in LeaseHooks[a])
                  /\ c = <<n, F!Argument(a, n, value)>>
BY DEF F!Commands, F!hasLeaseCmdsHook

\* Identifiers: what stands for an empty one is none.
LEMMA ByIdentifier ==
  ASSUME SearchTypes, search.kind = "identifier", NEW a, NEW l \in AllLeases, NEW cs,
         cs = F!Commands(a, {"lease4-get-by-hw-address", "lease4-get-by-client-id"},
                         {"lease6-get-by-duid"}, search.value)
  PROVE  /\ \A c \in cs : F!Selects(a, c, l) => F!Looked(l)
         /\ F!Looked(l) /\ l.family \in LeaseHooks[a] => \E c \in cs : F!Selects(a, c, l)
<1> DEFINE v == search.value
<1>1. /\ v \notin {EmptyId, "0", "00:00:00"} /\ l.family \in {4, 6}
  BY SearchAssumption, KindsOfSearch DEF F!SearchAssumption, TextKinds
<1>2. F!Looked(l) <=> v \in IF l.family = 4 THEN {l.hw, l.client} ELSE {l.duid}
  BY DEF F!Looked
<1>3. \A n : F!Argument(a, n, v) = v
  BY <1>1 DEF F!Argument
<1>4. F!EmptyDUID(a) # v
  BY <1>1 DEF F!EmptyDUID
<1> HIDE DEF v
<1>5. /\ F!Selects(a, <<"lease4-get-by-hw-address", v>>, l) <=> l.family = 4 /\ l.hw = v
      /\ F!Selects(a, <<"lease4-get-by-client-id", v>>, l) <=> l.family = 4 /\ l.client = v
      /\ F!Selects(a, <<"lease6-get-by-duid", v>>, l) <=> l.family = 6 /\ l.duid = v
  BY <1>1, <1>4 DEF F!Selects
<1>6. \A c : c \in cs <=>
        \/ c \in {<<"lease4-get-by-hw-address", v>>, <<"lease4-get-by-client-id", v>>} /\ 4 \in LeaseHooks[a]
        \/ c = <<"lease6-get-by-duid", v>> /\ 6 \in LeaseHooks[a]
  BY <1>3, CommandsOf DEF v
<1> QED BY <1>1, <1>2, <1>5, <1>6

\* Host names.
LEMMA ByHostname ==
  ASSUME SearchTypes, search.kind = "hostname", NEW a, NEW l \in AllLeases, NEW cs,
         cs = F!Commands(a, {"lease4-get-by-hostname"}, {"lease6-get-by-hostname"}, search.value)
  PROVE  /\ \A c \in cs : F!Selects(a, c, l) => F!Looked(l)
         /\ F!Looked(l) /\ l.family \in LeaseHooks[a] => \E c \in cs : F!Selects(a, c, l)
<1> DEFINE v == search.value
<1>1. l.family \in {4, 6}
  BY SearchAssumption DEF F!SearchAssumption
<1>2. F!Looked(l) <=> l.hostname = v
  BY DEF F!Looked
<1>3. /\ F!Selects(a, <<"lease4-get-by-hostname", v>>, l) <=> l.family = 4 /\ l.hostname = v
      /\ F!Selects(a, <<"lease6-get-by-hostname", v>>, l) <=> l.family = 6 /\ l.hostname = v
  BY DEF F!Selects
<1>4. \A c : c \in cs <=>
        \/ c = <<"lease4-get-by-hostname", v>> /\ 4 \in LeaseHooks[a]
        \/ c = <<"lease6-get-by-hostname", v>> /\ 6 \in LeaseHooks[a]
  BY CommandsOf DEF F!Argument
<1> QED BY <1>1, <1>2, <1>3, <1>4

\* Declined leases: they have no identifiers.
LEMMA ByEmpty ==
  ASSUME search.kind = "declined", NEW a, NEW l \in AllLeases, NEW cs,
         cs = F!Commands(a, {"lease4-get-by-hw-address"}, {"lease6-get-by-duid"}, EmptyId)
  PROVE  /\ F!Looked(l) <=> l.state = "declined"
         /\ l.state = "declined" /\ l.family \in LeaseHooks[a] => \E c \in cs : F!Selects(a, c, l)
<1>1. l.family \in {4, 6} /\ (l.state = "declined" => l.hw = EmptyId /\ l.duid = EmptyId)
  BY SearchAssumption DEF F!SearchAssumption
<1>2. F!Looked(l) <=> l.state = "declined"
  BY DEF F!Looked
<1>3. /\ l.family = 4 /\ l.hw = EmptyId => F!Selects(a, <<"lease4-get-by-hw-address", EmptyId>>, l)
      /\ l.family = 6 /\ l.duid = EmptyId => F!Selects(a, <<"lease6-get-by-duid", F!EmptyDUID(a)>>, l)
  BY DEF F!Selects
<1>4. /\ 4 \in LeaseHooks[a] => <<"lease4-get-by-hw-address", EmptyId>> \in cs
      /\ 6 \in LeaseHooks[a] => <<"lease6-get-by-duid", F!EmptyDUID(a)>> \in cs
  BY CommandsOf DEF F!Argument
<1> QED BY <1>1, <1>2, <1>3, <1>4

\* The commands of a search for an identifier, a host name or the declined leases.
LEMMA FindByPropertiesKeeps ==
  ASSUME SearchInv, F!FindByProperties
  PROVE  SearchInv'
<1>1. PICK a : a = F!app
  OBVIOUS
<1>2. PICK cs :
        /\ cs = IF queryType' = "identifier"
                THEN F!Commands(a, {"lease4-get-by-hw-address", "lease4-get-by-client-id"},
                                {"lease6-get-by-duid"}, search.value)
                ELSE F!Commands(a, {"lease4-get-by-hostname"},
                                {"lease6-get-by-hostname"}, search.value)
        /\ F!getLeasesByProperties(F!app, cs, {})
  BY <1>1 DEF F!FindByProperties
<1>3. /\ F!Asking /\ F!NextApp /\ F!Untouched /\ queryType' = F!TypeFor(a)
      /\ queryType \in {"identifier", "hostname"}
  BY <1>1 DEF F!FindByProperties, F!By
<1>4. ASSUME Looking
      PROVE  /\ queryType' = queryType
             /\ \A c \in cs, l \in AllLeases : F!Selects(a, c, l) => F!Looked(l)
             /\ \A l \in AllLeases : F!Looked(l) /\ l.family \in LeaseHooks[a]
                  => \E c \in cs : F!Selects(a, c, l)
  <2>1. queryType' = queryType /\ queryType = search.kind
    BY <1>3, <1>4 DEF Looking, F!TypeFor, SearchInv, SearchGoesOn
  <2>2. CASE search.kind = "identifier"
    BY <1>2, <2>1, <2>2, ByIdentifier DEF SearchInv
  <2>3. CASE search.kind = "hostname"
    BY <1>2, <2>1, <2>3, ByHostname DEF SearchInv
  <2> QED BY <1>3, <2>1, <2>2, <2>3
<1> QED BY <1>1, <1>2, <1>3, <1>4, ByPropertiesKeeps

\* The search for the declined leases.
LEMMA FindDeclinedKeeps ==
  ASSUME SearchInv, F!FindDeclined
  PROVE  SearchInv'
<1>1. PICK a : a = F!app
  OBVIOUS
<1>2. PICK cs : cs = F!Commands(a, {"lease4-get-by-hw-address"}, {"lease6-get-by-duid"}, EmptyId)
  OBVIOUS
<1>3. PICK unwanted : unwanted = {l \in AllLeases : l.state # "declined"}
  OBVIOUS
<1>4. /\ F!Asking /\ F!NextApp /\ F!Untouched /\ queryType' = queryType /\ queryType = "declined"
      /\ F!getLeasesByProperties(F!app, cs, unwanted)
  BY <1>1, <1>2, <1>3 DEF F!FindDeclined, F!By
<1>5. ASSUME Looking
      PROVE  /\ \A c \in cs, l \in AllLeases : F!Selects(a, c, l) /\ l \notin unwanted => F!Looked(l)
             /\ \A l \in AllLeases : F!Looked(l) /\ l.family \in LeaseHooks[a]
                  => l \notin unwanted /\ \E c \in cs : F!Selects(a, c, l)
  <2>1. search.kind = "declined"
    BY <1>4, <1>5 DEF SearchInv, SearchGoesOn
  <2> QED BY <1>2, <1>3, <2>1, ByEmpty
<1> QED BY <1>1, <1>4, <1>5, ByPropertiesKeeps

\* A lease is granted or expires: nothing is held throughout that was not.
LEMMA HeldChanges ==
  ASSUME SearchInv, NEW a \in F!AppSet, NEW l \in AllLeases, F!Grant(a, l) \/ F!Expire(a, l)
  PROVE  SearchInv'
<1>1. UNCHANGED <<search, queryType, position, left, failing, found, erred>>
  BY DEF F!Grant, F!Expire
<1>2. /\ held' \in [F!AppSet -> SUBSET AllLeases] /\ throughout' \in [F!AppSet -> SUBSET AllLeases]
      /\ \A b \in F!AppSet :
           /\ throughout'[b] \subseteq throughout[b] /\ throughout'[b] \subseteq held'[b]
           /\ \A k, m \in held'[b] : k.address = m.address => k = m
  <2>1. /\ held \in [F!AppSet -> SUBSET AllLeases] /\ throughout \in [F!AppSet -> SUBSET AllLeases]
        /\ \A b \in F!AppSet : /\ throughout[b] \subseteq held[b]
                               /\ \A k, m \in held[b] : k.address = m.address => k = m
    BY DEF SearchInv, SearchTypes, HeldFit
  <2>2. CASE F!Grant(a, l)
    <3>1. /\ held' = [held EXCEPT ![a] = held[a] \cup {l}] /\ throughout' = throughout
          /\ \A m \in held[a] : m.address # l.address
      BY <2>2 DEF F!Grant
    <3> QED BY <2>1, <3>1
  <2>3. CASE F!Expire(a, l)
    <3>1. /\ held' = [held EXCEPT ![a] = held[a] \ {l}]
          /\ throughout' = [throughout EXCEPT ![a] = throughout[a] \ {l}]
      BY <2>3 DEF F!Expire
    <3> QED BY <2>1, <3>1
  <2> QED BY <2>2, <2>3
<1>3. SearchTypes' /\ HeldFit'
  BY <1>1, <1>2 DEF SearchInv, SearchTypes, HeldFit
<1>4. NothingFound'
  BY <1>1 DEF SearchInv, NothingFound, F!Idle
<1>5. \A k : F!Looked(k)' <=> F!Looked(k)
  BY <1>1 DEF F!Looked
<1>6. ASSUME Looking PROVE SearchGoesOn'
  <2>1. queryType = search.kind /\ AllAreLooked /\ PastAreAnswered
    BY <1>6 DEF SearchInv, SearchGoesOn
  <2>2. AllAreLooked'
    BY <1>1, <1>5, <2>1 DEF AllAreLooked
  <2>3. ASSUME NEW b \in F!AppSet, Answered(b) PROVE Answered(b)'
    BY <1>1, <1>2, <1>5, <2>3 DEF Answered, Found
  <2>4. \A i \in 1..(position - 1) : LeaseApps[i] \in F!AppSet
    <3>1. LeaseApps \in Seq(F!AppSet) /\ position \in 1..(Len(LeaseApps) + 1)
      BY SearchAssumption DEF F!SearchAssumption, SearchInv, SearchTypes
    <3> QED BY <3>1
  <2>5. PastAreAnswered'
    BY <1>1, <2>1, <2>3, <2>4 DEF PastAreAnswered
  <2>6. ASSUME position <= Len(LeaseApps) PROVE AskedAreAnswered'
    <3>1. AskedAreAnswered /\ F!app' = F!app /\ Addresses' = Addresses
      BY <1>1, <1>6, <2>6 DEF SearchInv, SearchGoesOn, F!app, Addresses
    <3>2. F!app \in F!AppSet
      BY <1>6, <2>6, AskedIsKnown DEF F!Asking, Looking, SearchInv
    <3> HIDE DEF F!app, Addresses
    <3> QED BY <1>1, <1>2, <3>1, <3>2 DEF AskedAreAnswered, Found
  <2> QED BY <1>1, <2>1, <2>2, <2>5, <2>6 DEF SearchGoesOn
<1>7. Looking' => Looking
  BY <1>1 DEF Looking, F!Idle
<1> QED BY <1>3, <1>4, <1>6, <1>7 DEF SearchInv, SearchGoesOn

\* The search is over.
LEMMA RespondKeeps ==
  ASSUME SearchInv, F!Respond
  PROVE  SearchInv'
<1>1. /\ search' = F!NoText("none") /\ queryType' = "none" /\ position' = 1
      /\ left' = {} /\ failing' = {} /\ found' = {} /\ erred' = {} /\ held' = held
      /\ throughout' = [a \in F!AppSet |-> {}]
  BY DEF F!Respond
<1>2. 1 \in 1..(Len(LeaseApps) + 1)
  <2>1. LeaseApps \in Seq(F!AppSet)
    BY SearchAssumption DEF F!SearchAssumption
  <2> QED BY <2>1
<1>3. SearchTypes' /\ HeldFit' /\ NothingFound'
  BY <1>1, <1>2 DEF SearchInv, SearchTypes, HeldFit, NothingFound
<1>4. F!Idle'
  BY <1>1 DEF F!Idle, F!NoText
<1> QED BY <1>3, <1>4 DEF SearchInv, SearchGoesOn, Looking

\* Every step.
LEMMA SearchStepKeeps ==
  ASSUME SearchInv, F!Next
  PROVE  SearchInv'
BY GetLeasesKeeps, FindLease4Keeps, FindLease6Keeps, SkipApp6Keeps, FindByPropertiesKeeps,
   FindDeclinedKeeps, FindByHostKeeps, NextForHostKeeps, RespondKeeps, HeldChanges DEF F!Next

\* Nothing is held at first, and nothing is searched for.
LEMMA SearchStart ==
  ASSUME F!Init
  PROVE  SearchInv
<1>1. 1 \in 1..(Len(LeaseApps) + 1)
  <2>1. LeaseApps \in Seq(F!AppSet)
    BY SearchAssumption DEF F!SearchAssumption
  <2> QED BY <2>1
<1>2. SearchTypes /\ HeldFit /\ NothingFound
  BY <1>1 DEF F!Init, SearchTypes, HeldFit, NothingFound
<1>3. F!Idle
  BY DEF F!Init, F!Idle, F!NoText
<1> QED BY <1>2, <1>3 DEF SearchInv, SearchGoesOn, Looking

\* A search that is over has asked every application.
LEMMA EndedIsHonest ==
  ASSUME SearchInv
  PROVE  F!SearchIsHonest
<1> SUFFICES ASSUME F!Done, ~search.short
             PROVE  /\ \A a \in F!AppSet \ erred : \A l \in throughout[a] :
                         l.family \in LeaseHooks[a] /\ F!Looked(l) => <<a, l>> \in found
                    /\ \A p \in found : F!Looked(p[2])
                    /\ search.kind = "host" /\ ~LeaseHost.flexible =>
                         \A a \in F!AppSet \ erred : \A l \in throughout[a] :
                           l.family \in LeaseHooks[a] /\ F!Looked(l) /\ F!IdsOf(l) \cap LeaseHost.ids = {}
                             => <<a, l>> \in F!findHostLeaseConflicts
  BY DEF F!SearchIsHonest
<1>1. AllAreLooked /\ PastAreAnswered
  BY DEF SearchInv, SearchGoesOn, Looking, F!Done
<1>2. \A a \in F!AppSet : Answered(a)
  <2> SUFFICES ASSUME NEW a \in F!AppSet PROVE Answered(a)
    OBVIOUS
  <2>1. PICK i \in 1..Len(LeaseApps) : LeaseApps[i] = a
    BY EveryAppIsAsked
  <2>2. i \in 1..(position - 1)
    <3>1. LeaseApps \in Seq(F!AppSet)
      BY SearchAssumption DEF F!SearchAssumption
    <3> QED BY <3>1 DEF F!Done, SearchInv, SearchTypes
  <2> QED BY <1>1, <2>1, <2>2 DEF PastAreAnswered
<1>3. \A a \in F!AppSet \ erred : \A l \in throughout[a] :
        l.family \in LeaseHooks[a] /\ F!Looked(l) => <<a, l>> \in found
  BY <1>2 DEF Answered, Found
<1>4. search.kind = "host" /\ ~LeaseHost.flexible =>
        \A p \in found : F!IdsOf(p[2]) \cap LeaseHost.ids = {} => p \in F!findHostLeaseConflicts
  BY DEF F!findHostLeaseConflicts
<1> QED BY <1>1, <1>3, <1>4 DEF AllAreLooked

\* A search that does not run stays as it is.
LEMMA SearchStay ==
  ASSUME SearchInv, UNCHANGED searchVars
  PROVE  SearchInv'
BY DEF searchVars, SearchInv, SearchTypes, HeldFit, NothingFound, SearchGoesOn, Looking, AllAreLooked,
       PastAreAnswered, AskedAreAnswered, Answered, Found, Addresses, F!Idle, F!Looked, F!app
-----------------------------------------------------------------------------
(* The parts that run                                                      *)

\* The invariant of the part that runs.
PartsInv ==
  /\ part = "states" => StatesInv
  /\ part = "files" => FilesInv
  /\ part = "kea exporter" => KeaExporterInv
  /\ part = "bind9 exporter" => Bind9ExporterInv
  /\ part = "parameters" => ParametersInv
  /\ part = "search" => SearchInv

\* A part that does not take a step stays as it is.
LEMMA StatesStay ==
  ASSUME StatesInv, UNCHANGED statesVars
  PROVE  StatesInv'
BY DEF statesVars, StatesInv, StatesTypes, Puts, NamedOnce, ChangedAlone, ChangesAdvance, OthersRestored,
       Advanced, Restored, S!Touched

LEMMA FilesStay ==
  ASSUME FilesInv, UNCHANGED filesVars
  PROVE  FilesInv'
BY DEF filesVars, FilesInv, FilesTypes, SaveFits, MetaIsRemoved, ViewsAreWhole, LastAreWritten,
       Z!MetaIsOfWholeViews, Whole, OfBegun, Z!Begun, Trusted, Z!Readable

LEMMA ExportersStay ==
  /\ KeaExporterInv /\ UNCHANGED keaExporterVars => KeaExporterInv'
  /\ Bind9ExporterInv /\ UNCHANGED bind9ExporterVars => Bind9ExporterInv'
<1>1. KeaExporterInv /\ UNCHANGED keaExporterVars => KeaExporterInv'
  BY DEF keaExporterVars, KeaExporterInv, KeaExporterTypes, AnswersAreCurrent, HandledAreExported,
         Exported, K!Answer
<1>2. Bind9ExporterInv /\ UNCHANGED bind9ExporterVars => Bind9ExporterInv'
  BY DEF bind9ExporterVars, Bind9ExporterInv, B!GivenIsOneAnswer
<1> QED BY <1>1, <1>2

LEMMA ParametersStay ==
  ASSUME ParametersInv, UNCHANGED parametersVars
  PROVE  ParametersInv'
BY DEF parametersVars, ParametersInv, StoresFit, FormInv, SentSoFar

\* The invariants of the parts.
LEMMA PartsInvariant == PartsSpec => []PartsInv
<1>1. PartsInit => PartsInv
  BY StatesStart, FilesStart, KeaExporterStart, Bind9ExporterStart, ParametersStart, SearchStart
     DEF PartsInit, PartsInv
<1>2. PartsInv /\ [PartsNext]_partsVars => PartsInv'
  <2> SUFFICES ASSUME PartsInv, [PartsNext]_partsVars
               PROVE  PartsInv'
    OBVIOUS
  <2>1. UNCHANGED part
    BY DEF PartsNext, partsVars
  <2>2. /\ part = "states" => S!Next \/ UNCHANGED statesVars
        /\ part = "files" => Z!Next \/ UNCHANGED filesVars
        /\ part = "kea exporter" => K!Next \/ UNCHANGED keaExporterVars
        /\ part = "bind9 exporter" => B!Next \/ UNCHANGED bind9ExporterVars
        /\ part = "parameters" => G!Next \/ UNCHANGED parametersVars
        /\ part = "search" => F!Next \/ UNCHANGED searchVars
    BY Zenon DEF PartsNext, partsVars, CheckersStep, StatesStep, AccessStep, KeaExporterStep, Bind9ExporterStep,
           RatesStep, LeasesStep, SearchStep, ParametersStep, ReservationsStep, NetworksStep, FilesStep
  <2>3. (part = "states" => StatesInv') /\ (part = "files" => FilesInv')
    BY <2>2, StatesStepKeeps, StatesStay, FilesStepKeeps, FilesStay, Zenon DEF PartsInv
  <2>4. (part = "kea exporter" => KeaExporterInv') /\ (part = "bind9 exporter" => Bind9ExporterInv')
    BY <2>2, KeaExporterStepKeeps, Bind9ExporterStepKeeps, ExportersStay, Zenon DEF PartsInv
  <2>5. (part = "parameters" => ParametersInv') /\ (part = "search" => SearchInv')
    BY <2>2, ParametersStepKeeps, ParametersStay, SearchStepKeeps, SearchStay, Zenon DEF PartsInv
  <2> QED BY <2>1, <2>3, <2>4, <2>5, Zenon DEF PartsInv
<1> QED BY <1>1, <1>2, PTL DEF PartsSpec

\* A checker is enabled exactly if a restart would say so, unless it is disputed; and an
\* inventory that can be loaded is of one save.
THEOREM RestartsLoseNothingAlways == PartsSpec => []RestartsLoseNothing
<1>1. PartsInv => RestartsLoseNothing
  BY RestoredIsEnabled, Zenon DEF PartsInv, FilesInv, RestartsLoseNothing
<1> QED BY <1>1, PartsInvariant, PTL

\* What Prometheus is given after a round are the values of the subnets named and of one answer.
THEOREM ExportsAreTrueAlways == PartsSpec => []ExportsAreTrue
<1>1. PartsInv => ExportsAreTrue
  BY SeriesAre, Zenon DEF PartsInv, Bind9ExporterInv, ExportsAreTrue
<1> QED BY <1>1, PartsInvariant, PTL

\* A submit that succeeds has left the form in Kea and in its file, unless Kea was disturbed.
THEOREM SuccessIsTheFormAlways == PartsSpec => []SuccessIsTheForm
<1>1. PartsInv => SuccessIsTheForm
  BY SucceededIsTheForm DEF PartsInv, SuccessIsTheForm
<1> QED BY <1>1, PartsInvariant, PTL

\* A search that ended has found what was held throughout, or names the application.
THEOREM SearchIsHonestAlways == PartsSpec => []SearchIsHonest
<1>1. PartsInv => SearchIsHonest
  BY EndedIsHonest DEF PartsInv, SearchIsHonest
<1> QED BY <1>1, PartsInvariant, PTL
=============================================================================
