------------------------------ MODULE AgentComm ------------------------------
(***************************************************************************)
(* Communication of the server with one agent (server/agentcomm).  Callers *)
(* queue their requests; the communication loop takes them one by one,     *)
(* calls the agent, reconnects and calls again when the call fails, and    *)
(* gives the answer back (manager.go).  The caller counts it in the        *)
(* statistics of the agent and announces new errors and recoveries         *)
(* (grpcli.go, stats.go).  Zones are received past the queue, over the same*)
(* connection (ReceiveZones).  Shutdown stops it all (agentcomm.go).       *)
(*                                                                         *)
(* Only whether a counter is positive is kept.  Ping, GetState and         *)
(* TailTextFile count as the first step of these does.  connect() does not *)
(* fail: gRPC connects when it is first used.  The agent (agent/agent.go)  *)
(* is what it can answer.  A server without a connection to use panics.    *)
(***************************************************************************)
EXTENDS Integers, Sequences

CONSTANTS
  Callers,    \* pullers and users' requests
  Addressees, \* whom they call: the Kea control agent (CA) "ca", a DHCP daemon behind it "dhcp",
              \* or "named"
  MaxFaults   \* bound: the agent's stops and bad answers

\* The module that is checked assumes it.
AgentAssumption ==
  Addressees \subseteq {"ca", "dhcp", "named"} /\ MaxFaults \in Nat

VARIABLES
  up, faults,  \* the agent runs
  current,     \* agentsStates[address], 0 if there is none
  conn,        \* entries with a connection (connector.conn)
  proc,        \* the communication loop and a stream of zones: its step, its entry, whether
               \* its client's connection has not been closed, and whether it has called before
  caller,      \* each caller's step, and the answer it has not counted
  failing,     \* of each entry: what has a positive counter of errors
  announced,   \* what was last announced as failed
  stop,        \* Shutdown
  replaced,    \* history: an entry was replaced by another one
  crashed      \* the server has panicked

agent == <<up, faults>>
conns == <<current, conn, replaced>>
counts == <<failing, announced>>
vars == <<agent, conns, proc, caller, counts, stop, crashed>>

Entries == {1, 2}
Procs == {"loop", "stream"}
Idle == [pc |-> "idle", entry |-> 0, live |-> FALSE, retried |-> FALSE]

\* What becomes of a command: "refused" when the CA or named cannot be reached, "garbled" when
\* the answer is not a list of responses, "mistyped" when it does not have the form the
\* caller wants, "error" when it says so.
Results == {"ok", "refused", "garbled", "mistyped", "error"}
NoAnswer == [to |-> "ca", sent |-> FALSE, results |-> <<>>]

\* A request for Kea has up to two commands.
Answers(to) ==
  [to : {to}, sent : {TRUE},
   results : IF to = "named" THEN {<<r>> : r \in {"ok", "refused", "mistyped"}}
             ELSE UNION {[1..n -> Results] : n \in 1..2}]

Good(a) == a.sent /\ \A i \in DOMAIN a.results : a.results[i] = "ok"

Init ==
  /\ up = TRUE /\ faults = 0
  /\ current = 0 /\ conn = {} /\ replaced = FALSE
  /\ proc = [p \in Procs |-> Idle]
  /\ caller = [c \in Callers |-> [pc |-> "idle", answer |-> NoAnswer]]
  /\ failing = [e \in Entries |-> {}] /\ announced = {}
  /\ stop = "no" /\ crashed = FALSE

-----------------------------------------------------------------------------
(* Connections                                                             *)

\* getConnectedAgent looks without a lock ...
Found(p) == [proc EXCEPT ![p].pc = IF current = 0 THEN "create" ELSE "client", ![p].entry = current]

\* ... and stores a new entry later, whatever is there by then.
Create(p) ==
  /\ proc[p].pc = "create"
  /\ current' = current + 1 /\ replaced' = (current # 0)
  /\ proc' = [proc EXCEPT ![p].pc = "close", ![p].entry = current + 1]
  /\ UNCHANGED <<agent, conn, caller, counts, stop, crashed>>

\* connector.mutex
Locked(e) == \E q \in Procs : proc[q].pc = "open" /\ proc[q].entry = e

\* The connection of the entry is closed, whoever calls over it.
Closed(procs, e) ==
  [q \in Procs |-> IF procs[q].entry = e THEN [procs[q] EXCEPT !.live = FALSE] ELSE procs[q]]

\* connect() closes the connection ...
CloseConnection(p) ==
  LET e == proc[p].entry IN
  /\ proc[p].pc = "close" /\ ~Locked(e)
  /\ conn' = conn \ {e}
  /\ proc' = Closed([proc EXCEPT ![p].pc = "open"], e)
  /\ UNCHANGED <<agent, current, replaced, caller, counts, stop, crashed>>

\* ... and makes another.
OpenConnection(p) ==
  /\ proc[p].pc = "open"
  /\ conn' = conn \cup {proc[p].entry}
  /\ proc' = [proc EXCEPT ![p].pc = "client"]
  /\ UNCHANGED <<agent, current, replaced, caller, counts, stop, crashed>>

\* createClient takes the connection without the lock.
CreateClient(p) ==
  /\ proc[p].pc = "client"
  /\ IF proc[p].entry \in conn
     THEN proc' = [proc EXCEPT ![p].pc = "call", ![p].live = TRUE] /\ UNCHANGED crashed
     ELSE crashed' = TRUE /\ UNCHANGED proc
  /\ UNCHANGED <<agent, conns, caller, counts, stop>>

\* The call reaches the agent.
Reaches(p) == up /\ proc[p].live

-----------------------------------------------------------------------------
(* The queue and the loop                                                  *)

\* sendAndRecvViaQueue: sending on a closed channel panics.
Call(c) ==
  /\ caller[c].pc = "idle"
  /\ caller' = [caller EXCEPT ![c].pc =
                  IF stop = "no" THEN "sending" ELSE "panicked"]
  /\ UNCHANGED <<agent, conns, proc, counts, stop, crashed>>

TakeRequest(c) ==
  /\ proc["loop"].pc = "idle" /\ caller[c].pc = "sending"
  /\ caller' = [caller EXCEPT ![c].pc = "waiting"]
  /\ proc' = Found("loop")
  /\ UNCHANGED <<agent, conns, counts, stop, crashed>>

\* The caller waits for the answer.
Respond(c, a) ==
  /\ proc' = [proc EXCEPT !["loop"] = Idle]
  /\ caller' = [caller EXCEPT ![c].pc = "answered", ![c].answer = a]

\* A call may time out although it reaches the agent.
CallFails ==
  IF Reaches("loop") THEN faults < MaxFaults /\ faults' = faults + 1 ELSE UNCHANGED faults

\* handleRequest calls again over a new connection ...
CallAgain ==
  /\ proc["loop"].pc = "call" /\ ~proc["loop"].retried
  /\ CallFails
  /\ proc' = [proc EXCEPT !["loop"].pc = "close", !["loop"].retried = TRUE]
  /\ UNCHANGED <<up, conns, caller, counts, stop, crashed>>

\* ... and gives the answer to the caller, who knows whom it has called.
HandleRequest(c, to) ==
  /\ proc["loop"].pc = "call" /\ caller[c].pc = "waiting"
  /\ \/ /\ Reaches("loop")
        /\ \E a \in Answers(to) :
             /\ IF Good(a) THEN UNCHANGED faults
                ELSE faults < MaxFaults /\ faults' = faults + 1
             /\ Respond(c, a)
     \/ /\ proc["loop"].retried /\ CallFails
        /\ Respond(c, [NoAnswer EXCEPT !.to = to])
  /\ UNCHANGED <<up, conns, counts, stop, crashed>>

-----------------------------------------------------------------------------
(* Counting                                                                *)

\* Counters are kept for each type of request, and for what is behind the agent.
App == {"ca", "dhcp", "named"}
Sources == App \cup {"ForwardToKeaOverHTTPReq", "ForwardRndcCommandReq"}

Has(a, results) == \E i \in DOMAIN a.results : a.results[i] \in results

\* What an answer shows of a source; "silent" is counted as an error without an event.
Seen(works, fails, silent) == [works |-> works \ fails, fails |-> fails, silent |-> silent]

\* checkAgentCommState
AgentSeen(request, a) ==
  Seen(IF a.sent THEN {request} ELSE {}, IF a.sent THEN {} ELSE {request}, {})

\* checkBind9CommState; statistics that cannot be parsed are counted later.
NamedSeen(a) ==
  Seen({"named"}, IF Has(a, {"refused"}) THEN {"named"} ELSE {},
       IF Has(a, {"mistyped"}) THEN {"named"} ELSE {})

\* Mutated form: an answer of a daemon says nothing of the CA.
DaemonSeen(a) ==
  Seen(IF a.to = "ca" THEN {"ca"} ELSE IF Has(a, {"ok", "mistyped"}) THEN {"dhcp"} ELSE {},
       (IF Has(a, {"refused", "garbled"}) THEN {"ca"} ELSE {})
         \cup (IF Has(a, {"error"}) THEN {a.to} ELSE {}),
       IF Has(a, {"mistyped"}) THEN {"ca"} ELSE {})

\* checkKeaCommState; answers that are not of the caller's type are counted later.
KeaSeen(a) ==
  Seen({"ca"} \cup (IF Has(a, {"ok", "mistyped"}) THEN {a.to} ELSE {}),
       (IF Has(a, {"refused", "garbled"}) THEN {"ca"} ELSE {})
         \cup (IF Has(a, {"error"}) THEN {a.to} ELSE {}),
       IF Has(a, {"mistyped"}) THEN {"ca"} ELSE {})

\* Mutated form: errors of the second pass have their place at the end.
ParsedAtEnd(errors, results, i) ==
  IF results[i] \in {"refused", "garbled", "mistyped"} THEN Append(errors, "failed") ELSE errors

\* The second pass over the responses: CmdsErrors[i] is set, or appended.
Parsed(errors, results, i) ==
  IF results[i] \notin {"refused", "garbled", "mistyped"} THEN errors
  ELSE IF i <= Len(errors) THEN [errors EXCEPT ![i] = "failed"]
  ELSE Append(errors, "failed")

\* The first pass adds nothing for a command that was refused.
Received(errors, to, result) ==
  IF result = "refused" THEN errors
  ELSE Append(errors, IF result = "garbled" \/ (result = "error" /\ to = "ca")
                      THEN "failed" ELSE "nil")

\* The list that the callers read, after both passes.
CmdsErrors(a) ==
  LET n == Len(a.results)
      first[i \in 0..n] == IF i = 0 THEN <<>> ELSE Received(first[i - 1], a.to, a.results[i])
      second[i \in 0..n] == IF i = 0 THEN first[n] ELSE Parsed(second[i - 1], a.results, i)
  IN second[n]

\* Mutated form: a counter is reset without an event.
AnnouncedNew(seen, before) == announced \cup (seen.fails \ before)

\* CommErrorReset is announced, and CommErrorNew.
Announced(seen, before) == (announced \ (seen.works \cap before)) \cup (seen.fails \ before)

\* The entry is looked up and its statistics locked in one step.
Count(c, seen) ==
  LET before == failing[current] IN
  /\ failing' = [failing EXCEPT ![current] =
                   (before \ seen.works) \cup seen.fails \cup seen.silent]
  /\ announced' = Announced(seen, before)
  /\ caller' = [caller EXCEPT ![c] = [pc |-> "idle", answer |-> NoAnswer]]
  /\ UNCHANGED <<agent, conns, proc, stop, crashed>>

Both(s, t) ==
  [works |-> s.works \cup t.works, fails |-> s.fails \cup t.fails, silent |-> t.silent]

ForwardToKeaOverHTTP(c) ==
  LET a == caller[c].answer
      first == AgentSeen("ForwardToKeaOverHTTPReq", a)
  IN
  /\ caller[c].pc = "answered" /\ a.to \in {"ca", "dhcp"}
  /\ Count(c, IF a.sent THEN Both(first, KeaSeen(a)) ELSE first)

\* ForwardRndcCommand, and ForwardToNamedStats
ForwardToNamed(c) ==
  LET a == caller[c].answer
      first == AgentSeen("ForwardRndcCommandReq", a)
  IN
  /\ caller[c].pc = "answered" /\ a.to = "named"
  /\ Count(c, IF a.sent THEN Both(first, NamedSeen(a)) ELSE first)

Forward(c) == ForwardToKeaOverHTTP(c) \/ ForwardToNamed(c)

-----------------------------------------------------------------------------
(* ReceiveZones                                                            *)

ReceiveZones ==
  /\ proc["stream"].pc = "idle"
  /\ proc' = Found("stream")
  /\ UNCHANGED <<agent, conns, caller, counts, stop, crashed>>

\* The stream is opened, or once more over a new connection.  Zones are then received, and
\* nothing depends on that here.
StreamZones ==
  LET s == proc["stream"] IN
  /\ s.pc = "call"
  /\ proc' = [proc EXCEPT !["stream"] =
                IF Reaches("stream") \/ s.retried THEN Idle
                ELSE [s EXCEPT !.pc = "close", !.retried = TRUE]]
  /\ UNCHANGED <<agent, conns, caller, counts, stop, crashed>>

-----------------------------------------------------------------------------
(* Shutdown, and the agent                                                 *)

\* The connection is closed, and the queue: those who are sending panic.
ShutdownCloses ==
  /\ stop = "no" /\ stop' = "closed"
  /\ ~Locked(current)
  /\ conn' = conn \ {current} /\ proc' = Closed(proc, current)
  /\ caller' = [c \in Callers |-> IF caller[c].pc = "sending"
                                  THEN [caller[c] EXCEPT !.pc = "panicked"] ELSE caller[c]]
  /\ UNCHANGED <<agent, current, replaced, counts, crashed>>

\* The loop takes nil requests from the closed queue until it chooses doneCommLoop.
ShutdownStopsLoop ==
  /\ stop = "closed" /\ proc["loop"].pc = "idle"
  /\ stop' = "ended"
  /\ proc' = [proc EXCEPT !["loop"].pc = "ended"]
  /\ UNCHANGED <<agent, conns, caller, counts, crashed>>

StopOrStart ==
  /\ IF up THEN faults < MaxFaults /\ faults' = faults + 1 ELSE UNCHANGED faults
  /\ up' = ~up
  /\ UNCHANGED <<conns, proc, caller, counts, stop, crashed>>

-----------------------------------------------------------------------------

Connect(p) ==
  Create(p) \/ CloseConnection(p) \/ OpenConnection(p) \/ CreateClient(p)

Next ==
  /\ ~crashed
  /\ \/ \E p \in Procs : Connect(p)
     \/ \E c \in Callers : Call(c) \/ TakeRequest(c) \/ Forward(c)
     \/ CallAgain \/ \E c \in Callers, to \in Addressees : HandleRequest(c, to)
     \/ ReceiveZones \/ StreamZones
     \/ ShutdownCloses \/ ShutdownStopsLoop
     \/ StopOrStart

Spec == Init /\ [][Next]_vars

\* Callers go on calling whomever they call, and who waits for a mutex gets it; calls have a
\* timeout of 30 seconds.  No one has to stop the server, and no agent has to start.
FairSpec ==
  /\ Spec
  /\ \A p \in Procs : SF_vars(~crashed /\ Connect(p))
  /\ WF_vars(~crashed /\ \E c \in Callers : Call(c) \/ TakeRequest(c))
  /\ WF_vars(~crashed /\ CallAgain)
  /\ \A to \in Addressees : SF_vars(~crashed /\ \E c \in Callers : HandleRequest(c, to))
  /\ \A c \in Callers : WF_vars(~crashed /\ Forward(c))
  /\ WF_vars(~crashed /\ StreamZones)
  /\ WF_vars(~crashed /\ ShutdownStopsLoop)

-----------------------------------------------------------------------------
(* Properties                                                              *)

\* Type invariant.
TypeOK ==
  /\ up \in BOOLEAN /\ faults \in 0..MaxFaults
  /\ current \in 0..2 /\ conn \subseteq Entries
  /\ proc \in [Procs -> [pc : {"idle", "create", "close", "open", "client", "call",
                               "ended"},
                         entry : 0..2, live : BOOLEAN, retried : BOOLEAN]]
  /\ \A c \in Callers : /\ caller[c].pc \in {"idle", "sending", "waiting", "answered",
                                              "panicked"}
                        /\ caller[c].answer.to \in Addressees \cup {"ca"}
  /\ failing \in [Entries -> SUBSET Sources] /\ announced \subseteq Sources
  /\ stop \in {"no", "closed", "ended"} /\ replaced \in BOOLEAN

\* A caller that reads the errors of its commands in order, up to the first one, never reads
\* past the list and finds the first command that failed, although a refused command
\* has no place in the list at first.
FirstErrorIsFound ==
  \A c \in Callers :
    LET a == caller[c].answer
        errors == CmdsErrors(a)
        failed == {i \in DOMAIN a.results :
                     \/ a.results[i] \in {"refused", "garbled", "mistyped"}
                     \/ a.results[i] = "error" /\ a.to = "ca"}
    IN caller[c].pc = "answered" /\ a.to # "named" =>
         \A i \in DOMAIN a.results :
           (\A j \in failed : j >= i) => i \in DOMAIN errors /\ (errors[i] # "nil" <=> i \in failed)

\* As long as no entry was replaced, what was announced as failed is failing, and what fails was
\* announced, but for answers that cannot be parsed, whoever counted in between.
AnnouncedIsFailing ==
  current # 0 /\ ~replaced =>
    announced \subseteq failing[current] /\ failing[current] \ announced \subseteq {"ca", "named"}

\* The loop works for whoever waits for it, one at a time, and is not stopped meanwhile: no one
\* waits for an answer that does not come.  And the variables have their types.
TakenIsServed ==
  /\ TypeOK
  /\ \A c, d \in Callers :
       caller[c].pc = "waiting" =>
         /\ proc["loop"].pc \notin {"idle", "ended"}
         /\ caller[d].pc = "waiting" => c = d

\* Every caller whose request was taken gets an answer, and a true one.
AnswersAreTrue == TakenIsServed /\ FirstErrorIsFound

\* When the agent and those behind it work again, this is announced in the end, or else Shutdown
\* ends: the counts of answers that are out of date do not stay, and two who reconnect do
\* not go on closing each other's connections.
RecoveryIsAnnounced ==
  <>[]up => <>[](announced = {} \/ replaced \/ crashed \/ stop = "ended")

=============================================================================
