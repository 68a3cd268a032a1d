---------------------------- MODULE EventCenter ----------------------------
(***************************************************************************)
(* The event center of the server (server/eventcenter/eventcenter.go) and  *)
(* its broker of server-sent events (sse.go, subscriber.go).               *)
(*                                                                         *)
(* Any goroutine adds events through an unbuffered channel; the main loop  *)
(* stores them in the database and offers them, one subscriber after the   *)
(* other, over unbuffered channels, while it holds the read lock of the    *)
(* map of subscribers.  A connection serves its channel, its client may    *)
(* close it, and the loop ends all connections, under the write lock, when *)
(* the center shuts down.  An event and a connection are used once.        *)
(*                                                                         *)
(* Zero stands for an identifier that is not given, and the empty string   *)
(* for a type or a name that is not.                                       *)
(***************************************************************************)
EXTENDS Integers, Sequences, FiniteSets, SequencesExt

CONSTANTS
  Events, Subscribers,
  Streams,     \* names of streams
  Message,     \* the regular stream, SSERegularMessage
  Tags,        \* the streams an event is created with
  Level,       \* its level: 0, 1 or 2
  About,       \* the objects it is created with, in their order
  Query,       \* what a subscriber asks for
  Apps,        \* the database: the applications of a machine, in some order
  NoOne        \* no event, no subscriber

\* What events are about.  An object is a function from some of these kinds to
\* identifiers: a daemon comes with those of its application and machine.
Kinds == {"machine", "app", "daemon", "subnet", "user"}

ASSUME StreamsAssumption ==
  /\ Message \in Streams
  /\ Tags \in [Events -> SUBSET (Streams \ {Message})]
  /\ Level \in [Events -> 0 .. 2]
  /\ \A s \in Subscribers :
       /\ Query[s].streams \subseteq Streams
       /\ Query[s].level \in 0 .. 2
       /\ Query[s].ids \in [Kinds -> Nat]
\* The objects of an event that have a kind have the same identifier for it, and
\* who follows an application by its type does so on a machine that has one of
\* that type: an event keeps one identifier of a kind, a filter one application.
ASSUME OneOfAKind ==
  \A e \in Events :
    /\ DOMAIN About[e] = 1 .. Len(About[e])
    /\ \A i, j \in DOMAIN About[e] :
         \A k \in DOMAIN About[e][i] \cap DOMAIN About[e][j] : About[e][i][k] = About[e][j][k]
ASSUME OneOfAType ==
  \A s \in Subscribers :
    LET apps == Apps[Query[s].ids["machine"]] IN
    Query[s].appType # "" /\ Query[s].ids["machine"] # 0 =>
      /\ DOMAIN apps \subseteq Nat
      /\ \A i, j \in DOMAIN apps :
           apps[i].type = Query[s].appType /\ apps[j].type = Query[s].appType => i = j
ASSUME NoOneAssumption == NoOne \notin Events \cup Subscribers

VARIABLES
  added,       \* goroutines in AddEvent: events they want to send, or have sent
  loop,        \* the main loop
  event,       \* the event the loop handles
  streams,     \* its SSEStreams
  saved,       \* the events in the database
  subscribers, \* the map of subscribers
  todo,        \* the subscribers the loop has still to visit
  target,      \* the subscriber the loop sends to
  conn,        \* the goroutines that serve the connections
  closed,      \* the connections the clients have closed
  got,         \* what each subscriber has received
  shutdown     \* the goroutine in Shutdown

loopVars == <<loop, event, streams, saved, todo, target>>
connVars == <<subscribers, conn, closed, got>>
vars == <<added, loopVars, connVars, shutdown>>

Init ==
  /\ added = [e \in Events |-> "no"]
  /\ loop = "waiting"
  /\ event = NoOne
  /\ streams = {}
  /\ saved = <<>>
  /\ subscribers = {}
  /\ todo = {}
  /\ target = NoOne
  /\ conn = [s \in Subscribers |-> "new"]
  /\ closed = {}
  /\ got = [s \in Subscribers |-> <<>>]
  /\ shutdown = "no"

\* The main loop holds the mutex of the map: the read lock, or the write lock.
Locked == loop \in {"dispatching", "closing"}

-----------------------------------------------------------------------------
(* Callers                                                                 *)

AddEvent(e) ==
  /\ added[e] = "no"
  /\ added' = [added EXCEPT ![e] = "sending"]
  /\ UNCHANGED <<loopVars, connVars, shutdown>>

Shutdown ==
  /\ shutdown = "no"
  /\ shutdown' = "stopping"
  /\ UNCHANGED <<added, loopVars, connVars>>

\* wg.Wait returns.
ShutdownEnd ==
  /\ shutdown = "waiting"
  /\ loop = "ended"
  /\ shutdown' = "done"
  /\ UNCHANGED <<added, loopVars, connVars>>

-----------------------------------------------------------------------------
(* The main loop                                                           *)

Receive(e) ==
  /\ loop = "waiting"
  /\ added[e] = "sending"
  /\ added' = [added EXCEPT ![e] = "sent"]
  /\ loop' = "saving"
  /\ event' = e
  /\ streams' = Tags[e]
  /\ UNCHANGED <<saved, todo, target, connVars, shutdown>>

\* An event that cannot be stored is not dispatched.
Save ==
  /\ loop = "saving"
  /\ \/ saved' = Append(saved, event) /\ loop' = "saved"
     \/ UNCHANGED saved /\ loop' = "waiting"
  /\ UNCHANGED <<added, event, streams, todo, target, connVars, shutdown>>

\* dispatchEvent takes the read lock.
Dispatch ==
  /\ loop = "saved"
  /\ loop' = "dispatching"
  /\ todo' = subscribers
  /\ UNCHANGED <<added, event, streams, saved, target, connVars, shutdown>>

\* CreateEvent: of several objects of a kind the last is what the event is about.
Relations(e) ==
  [k \in Kinds |->
     LET named == {i \in DOMAIN About[e] : k \in DOMAIN About[e][i]}
     IN IF named = {} THEN 0 ELSE About[e][Max(named)][k]]

\* applyFiltersFromQuery: an application may be given by its type and a daemon by
\* its name, if the machine is known; the first application of the type counts.
Typed(q) ==
  LET apps == Apps[q.ids["machine"]] IN {i \in DOMAIN apps : apps[i].type = q.appType}
FirstTyped(q) == Apps[q.ids["machine"]][Min(Typed(q))]

Contradicts(q) ==
  \/ q.appType # "" /\ q.ids["app"] # 0
  \/ q.daemonName # "" /\ (q.ids["daemon"] # 0 \/ q.appType = "")
Unknown(q) ==
  \/ q.ids["machine"] = 0 \/ Typed(q) = {}
  \/ q.daemonName # "" /\ q.daemonName \notin DOMAIN FirstTyped(q).daemons

Refused(q) == Message \in q.streams /\ (Contradicts(q) \/ (q.appType # "" /\ Unknown(q)))

Filters(q) ==
  IF q.appType = "" THEN q.ids
  ELSE LET a == FirstTyped(q) IN
       [q.ids EXCEPT !["app"] = a.id,
                     !["daemon"] = IF q.daemonName = "" THEN @ ELSE a.daemons[q.daemonName]]

\* isInFilter; a subscriber that gave nothing has no filter.
InFilter(s, e) ==
  /\ Query[s].level <= Level[e]
  /\ \A k \in Kinds : Filters(Query[s])[k] \in {0, Relations(e)[k]}

\* Mutated form: the filter only applies to streams the event names.
MatchingNamed(s) ==
  {x \in Query[s].streams : x \in streams /\ (x # Message \/ InFilter(s, event))}

\* findMatchingEventStreams: a subscriber of the regular stream gets it for any
\* event its filter accepts; other streams, and the regular one, if the event
\* names them.
Matching(s) ==
  {x \in Query[s].streams : x \in streams \/ (x = Message /\ InFilter(s, event))}

\* The next subscriber of the map, in any order.  The streams it matches are
\* stored in the event before it is sent, and stay there.
Offer(s) ==
  /\ loop = "dispatching"
  /\ target = NoOne
  /\ s \in todo
  /\ IF Matching(s) = {}
     THEN /\ todo' = todo \ {s}
          /\ UNCHANGED <<streams, target>>
     ELSE /\ streams' = Matching(s)
          /\ target' = s
          /\ UNCHANGED todo
  /\ UNCHANGED <<added, loop, event, saved, connVars, shutdown>>

\* Mutated form: the subscriber is visited again.
DeliverTwice(s) ==
  /\ loop = "dispatching"
  /\ target = s
  /\ conn[s] = "listening"
  /\ conn' = [conn EXCEPT ![s] = "writing"]
  /\ got' = [got EXCEPT ![s] = Append(@, [event |-> event, streams |-> streams])]
  /\ target' = NoOne
  /\ UNCHANGED <<added, loop, event, streams, saved, todo, subscribers, closed, shutdown>>

\* The channel is unbuffered: the connection takes the event in its select.
Deliver(s) ==
  /\ loop = "dispatching"
  /\ target = s
  /\ conn[s] = "listening"
  /\ conn' = [conn EXCEPT ![s] = "writing"]
  /\ got' = [got EXCEPT ![s] = Append(@, [event |-> event, streams |-> streams])]
  /\ target' = NoOne
  /\ todo' = todo \ {s}
  /\ UNCHANGED <<added, loop, event, streams, saved, subscribers, closed, shutdown>>

DispatchEnd ==
  /\ loop = "dispatching"
  /\ todo = {}
  /\ loop' = "waiting"
  /\ UNCHANGED <<added, event, streams, saved, todo, target, connVars, shutdown>>

\* The loop takes the signal of Shutdown and then the write lock.
Stop ==
  /\ loop = "waiting"
  /\ shutdown = "stopping"
  /\ shutdown' = "waiting"
  /\ loop' = "closing"
  /\ todo' = subscribers
  /\ UNCHANGED <<added, event, streams, saved, target, connVars>>

\* Mutated form: a connection is told twice.
CloseTwice(s) ==
  /\ loop = "closing"
  /\ s \in todo
  /\ conn[s] = "listening"
  /\ conn' = [conn EXCEPT ![s] = "ended"]
  /\ UNCHANGED <<added, loop, event, streams, saved, todo, target, subscribers, closed, got, shutdown>>

\* The next connection takes the signal of its channel done in its select.
Close(s) ==
  /\ loop = "closing"
  /\ s \in todo
  /\ conn[s] = "listening"
  /\ conn' = [conn EXCEPT ![s] = "ended"]
  /\ todo' = todo \ {s}
  /\ UNCHANGED <<added, loop, event, streams, saved, target, subscribers, closed, got, shutdown>>

StopEnd ==
  /\ loop = "closing"
  /\ todo = {}
  /\ loop' = "ended"
  /\ subscribers' = {}
  /\ UNCHANGED <<added, event, streams, saved, todo, target, conn, closed, got, shutdown>>

-----------------------------------------------------------------------------
(* The connections                                                         *)

\* A query that contradicts itself, or names what the database does not have.
Refuse(s) ==
  /\ conn[s] = "new"
  /\ Refused(Query[s])
  /\ conn' = [conn EXCEPT ![s] = "ended"]
  /\ UNCHANGED <<added, loopVars, subscribers, closed, got, shutdown>>

Register(s) ==
  /\ conn[s] = "new"
  /\ ~Refused(Query[s])
  /\ ~Locked
  /\ conn' = [conn EXCEPT ![s] = "listening"]
  /\ subscribers' = subscribers \cup {s}
  /\ UNCHANGED <<added, loopVars, closed, got, shutdown>>

\* The event is written to the client; a closed connection is not noticed here.
Write(s) ==
  /\ conn[s] = "writing"
  /\ conn' = [conn EXCEPT ![s] = "listening"]
  /\ UNCHANGED <<added, loopVars, subscribers, closed, got, shutdown>>

\* The client goes away.
Disconnect(s) ==
  /\ conn[s] \in {"listening", "writing"}
  /\ s \notin closed
  /\ closed' = closed \cup {s}
  /\ UNCHANGED <<added, loopVars, subscribers, conn, got, shutdown>>

\* select takes the branch of the request's context; the map must be locked.
Leave(s) ==
  /\ conn[s] = "listening"
  /\ s \in closed
  /\ conn' = [conn EXCEPT ![s] = "leaving"]
  /\ UNCHANGED <<added, loopVars, subscribers, closed, got, shutdown>>

Unregister(s) ==
  /\ conn[s] = "leaving"
  /\ ~Locked
  /\ conn' = [conn EXCEPT ![s] = "ended"]
  /\ subscribers' = subscribers \ {s}
  /\ UNCHANGED <<added, loopVars, closed, got, shutdown>>

-----------------------------------------------------------------------------

MainLoop ==
  \/ (\E e \in Events : Receive(e)) \/ Save \/ Dispatch \/ DispatchEnd \/ Stop \/ StopEnd
  \/ \E s \in Subscribers : Offer(s) \/ Deliver(s) \/ Close(s)
Connection(s) == Write(s) \/ Leave(s) \/ Unregister(s)

Next ==
  \/ \E e \in Events : AddEvent(e)
  \/ Shutdown \/ ShutdownEnd \/ MainLoop
  \/ \E s \in Subscribers : Refuse(s) \/ Register(s) \/ Disconnect(s) \/ Connection(s)

Spec == Init /\ [][Next]_vars

(***************************************************************************)
(* Go runs every goroutine that can run, the database answers, and clients *)
(* read what is written to them.                                           *)
(***************************************************************************)
FairSpec ==
  /\ Spec
  /\ WF_vars(MainLoop) /\ WF_vars(ShutdownEnd)
  /\ \A s \in Subscribers : WF_vars(Connection(s))

-----------------------------------------------------------------------------

\* Every variable has its type.
TypeOK ==
  /\ added \in [Events -> {"no", "sending", "sent"}]
  /\ loop \in {"waiting", "saving", "saved", "dispatching", "closing", "ended"}
  /\ event \in Events \cup {NoOne}
  /\ streams \in SUBSET Streams
  /\ saved \in Seq(Events)
  /\ subscribers \in SUBSET Subscribers
  /\ todo \in SUBSET subscribers
  /\ target \in todo \cup {NoOne}
  /\ conn \in [Subscribers -> {"new", "listening", "writing", "leaving", "ended"}]
  /\ closed \in SUBSET Subscribers
  /\ got \in [Subscribers -> Seq([event : Events, streams : SUBSET Streams])]
  /\ shutdown \in {"no", "stopping", "waiting", "done"}

Received(s) == [i \in DOMAIN got[s] |-> got[s][i].event]

\* Every subscriber gets the events in the order the database has them, each at
\* most once and none that is not stored, whenever it connected or left.
EventsInOrder ==
  /\ TypeOK
  /\ \A s \in Subscribers :
    /\ ToSet(Received(s)) \subseteq ToSet(saved)
    /\ \A i, j \in DOMAIN got[s], k, l \in DOMAIN saved :
         i < j /\ saved[k] = got[s][i].event /\ saved[l] = got[s][j].event => k < l

\* An event is of interest if all that was asked for is among its objects: the
\* identifiers, an application of the type, and a daemon of the name.  A machine
\* is taken to have one application of a type; of several, one can be followed.
Names(e, k, id) == \E i \in DOMAIN About[e] : k \in DOMAIN About[e][i] /\ About[e][i][k] = id
AskedFor(s, e) ==
  LET q == Query[s] IN
  /\ q.level <= Level[e]
  /\ \A k \in Kinds : q.ids[k] # 0 => Names(e, k, q.ids[k])
  /\ q.appType # "" =>
       \E a \in ToSet(Apps[q.ids["machine"]]) :
         /\ a.type = q.appType /\ Names(e, "app", a.id)
         /\ q.daemonName # "" =>
              q.daemonName \in DOMAIN a.daemons /\ Names(e, "daemon", a.daemons[q.daemonName])

\* When an event has been dispatched, every subscriber in the map that asked for
\* it, by whatever parameters, has got it on the regular stream, whatever other
\* subscribers matched before.
RegularStreamIsComplete ==
  loop = "dispatching" /\ todo = {} =>
    \A s \in subscribers :
      Message \in Query[s].streams /\ AskedFor(s, event) =>
        \E i \in DOMAIN got[s] : got[s][i].event = event /\ Message \in got[s][i].streams

\* As long as no client goes away, the loop comes back from every event, so the
\* goroutines in AddEvent are not blocked for good.
NobodyLeaves == \A s \in Subscribers : conn[s] # "leaving"
\* As long as no client goes away, a shutdown ends.
ShutdownEnds == []NobodyLeaves => (shutdown = "stopping" ~> shutdown = "done")

=============================================================================
