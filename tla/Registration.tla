---------------------------- MODULE Registration ----------------------------
(***************************************************************************)
(* Registration of an agent in the server: the register command and the    *)
(* registration at the start of the agent's service (agent/register.go,    *)
(* agent/certstore.go), the REST handlers that create, ping, update and    *)
(* delete a machine and renew the server token                             *)
(* (server/restservice/machines.go), the certificates that the server      *)
(* prepares when it starts (server/certs/certs.go) and the refresh of a    *)
(* machine's state (server/apps/statepuller.go), which writes the whole    *)
(* row back.  There is one machine address; the agent's key and certificate*)
(* live in five files, each written by a removal and a write, between      *)
(* which the process may stop.                                             *)
(*                                                                         *)
(* A key has the name of the generation of its key pair; the agent token,  *)
(* a fingerprint of the request made when the key was created, has the     *)
(* name of that key.  A name that nothing refers to any more is used again *)
(* for the next key.  A certificate is the key it certifies and the CA     *)
(* that signed it; CAs, server certificates and server tokens are numbered.*)
(***************************************************************************)
EXTENDS Integers, Sequences, FiniteSets

CONSTANTS
  Keys,          \* Names of key pairs, positive numbers.
  Handlers,      \* Requests that the server can process at a time.
  MaxFaults,     \* Bound: lost answers, kills of the agent's process and
                 \* restarts of the server with new certificates.
  MaxUser        \* Bound: changes by an administrator and register commands.

ASSUME KeysAssumption == Keys \subseteq Nat \ {0} /\ Keys # {}
ASSUME HandlersAssumption == Handlers # {}
ASSUME BoundsAssumption == MaxFaults \in Nat /\ MaxUser \in Nat

VARIABLES
  store,    \* The agent's files: key, cert, ca, token and fp.
  agent,    \* The agent's process: where it is in Register and what it holds.
  srv,      \* The server's secrets: ca, cert and the server token.
  row,      \* The row of the machine, or NoRow.
  hs,       \* The handlers of the server.
  disabled, \* Whether the registration of new machines is disabled.
  used,     \* How much of each bound is spent.
  granted,  \* History: tokens that an administrator or a server token let in.
  torn,     \* History: the agent was killed between two file operations
            \* and has not created a key since.
  outdated  \* History: the server changed its secrets since the agent's
            \* request: "no", "cert" (its own certificate) or "ca".

vars == <<store, agent, srv, row, hs, disabled, used, granted, torn, outdated>>

-----------------------------------------------------------------------------
(***************************************************************************)
(* Values.                                                                 *)
(***************************************************************************)
Missing == 0            \* A file that does not exist; a token not given.
ZeroFp  == -1           \* The fingerprint of 32 zero bytes.
NoCert  == [key |-> Missing, ca |-> Missing]
NoRow   == [id |-> 0, token |-> Missing, authorized |-> FALSE]

Cas     == 1..(1 + MaxFaults)
Certs   == 1..(1 + MaxFaults)
Tokens  == 1..(1 + MaxUser)
Ids     == 1..(1 + MaxUser)
Files   == {"key", "cert", "ca", "token", "fp"}
Limit   == [faults |-> MaxFaults, user |-> MaxUser]

\* Columns of a machine that the registration is about.
Row == [id: Ids, token: Keys, authorized: BOOLEAN]

\* A registration request.
Request == [key: Keys, token: Keys, ca: Cas \union {Missing},
            serverToken: Tokens \union {Missing}]
NoRequest == [key |-> Missing, token |-> Missing, ca |-> Missing,
              serverToken |-> Missing]

\* An answer: kind, and what an accepted request gets.
Answer(kind, id, cert, fp) == [kind |-> kind, id |-> id, cert |-> cert, fp |-> fp]
NoAnswer == Answer("none", 0, NoCert, 0)

Idle == [pc |-> "idle", req |-> NoRequest, m |-> NoRow, auth |-> FALSE,
         answer |-> NoAnswer]
Off  == [pc |-> "off", manual |-> FALSE, serverToken |-> Missing, todo |-> <<>>,
         h |-> CHOOSE h \in Handlers : TRUE, id |-> 0]

FilesMissing == [key |-> Missing, cert |-> NoCert, ca |-> Missing,
                 token |-> Missing, fp |-> Missing]

Nothing(file) == IF file = "cert" THEN NoCert ELSE Missing
Absent(file) == store[file] = Nothing(file)

-----------------------------------------------------------------------------
(***************************************************************************)
(* The agent's files.                                                      *)
(***************************************************************************)
\* One operation on a file.
Op(file, value) == [file |-> file, value |-> value]
Remove(file) == Op(file, Nothing(file))

\* CertStore.write: the old file is removed first.
WriteFile(file, value) == <<Remove(file), Op(file, value)>>

CreateKey(k) ==
  WriteFile("key", k) \o <<Remove("cert"), Remove("ca"), Remove("token")>>
    \o WriteFile("token", k)

\* checkAndStoreCerts.
StoreCerts(ca, cert, fp) ==
  WriteFile("ca", ca) \o WriteFile("cert", cert) \o WriteFile("fp", fp)

\* CertStore.IsEmpty.
IsEmpty == \A file \in Files : Absent(file)

\* CertStore.IsValid: every file exists and can be parsed.
IsValid == \A file \in Files : ~ Absent(file)

\* Names of keys that some file, row or request refers to.
InUse ==
  {store.key, store.token, store.cert.key, row.token}
    \union UNION {{hs[h].req.key, hs[h].req.token, hs[h].m.token} : h \in Handlers}
FreshKey == CHOOSE k \in Keys \ InUse : TRUE

\* generateCSR: the operations on files before the request.  An agent
\* without a fingerprint file gets one of zero bytes before the check.
\* Mutated form: the check looks only for the key.
RegeneratesUnlessKeyed(manual) == IsEmpty \/ manual \/ Absent("key")
Regenerates(manual) ==
  IsEmpty \/ manual \/ \E file \in Files \ {"fp"} : Absent(file)
Preparation(manual) ==
  (IF ~ IsEmpty /\ ~ manual /\ Absent("fp") THEN WriteFile("fp", ZeroFp) ELSE <<>>)
    \o (IF Regenerates(manual) THEN CreateKey(FreshKey) ELSE <<>>)

Spend(kind) ==
  /\ used[kind] < Limit[kind]
  /\ used' = [used EXCEPT ![kind] = @ + 1]

-----------------------------------------------------------------------------
(***************************************************************************)
(* Register, as the service runs it when it starts and as the register     *)
(* command runs it.  A failed registration ends the process; the service   *)
(* manager starts the service again (Restart=on-failure).                  *)
(***************************************************************************)
Start(manual, serverToken) ==
  /\ agent.pc = "off"
  /\ Regenerates(manual) => Keys \ InUse # {}
  /\ agent' = [Off EXCEPT !.pc = "files", !.manual = manual,
                          !.serverToken = serverToken, !.todo = Preparation(manual)]
  /\ granted' = IF Regenerates(manual) THEN granted \ {FreshKey} ELSE granted
  /\ UNCHANGED <<store, srv, row, hs, disabled, torn, outdated>>

\* runAgent: no server token, existing keys are kept.
StartService == Start(FALSE, Missing) /\ UNCHANGED used

\* runRegister: new keys; the user may give the server token of the moment.
RegisterCommand ==
  /\ \E serverToken \in {Missing, srv.token} : Start(TRUE, serverToken)
  /\ Spend("user")

\* One operation on a file, before the request or after the answer.  The
\* creation of a key ends with the token, after which the files are whole.
FileStep ==
  /\ agent.pc \in {"files", "store"} /\ agent.todo # <<>>
  /\ store' = [store EXCEPT ![Head(agent.todo).file] = Head(agent.todo).value]
  /\ agent' = [agent EXCEPT !.todo = Tail(@)]
  /\ torn' = (torn /\ ~ (Head(agent.todo).file = "token" /\ Len(agent.todo) = 1))
  /\ UNCHANGED <<srv, row, hs, disabled, used, granted, outdated>>

\* registerAgentInServer: the request reaches an idle handler.  A refused
\* connection is tried again by the service and ends the command.
Send(h) ==
  /\ agent.pc = "files" /\ agent.todo = <<>>
  /\ hs[h] = Idle
  /\ agent' = [agent EXCEPT !.pc = "wait", !.h = h]
  /\ hs' = [hs EXCEPT ![h] =
       [Idle EXCEPT !.pc = "create",
          !.req = [key |-> store.key, token |-> store.token, ca |-> store.ca,
                   serverToken |-> agent.serverToken]]]
  /\ outdated' = IF outdated = "ca" THEN "no" ELSE outdated
  /\ UNCHANGED <<store, srv, row, disabled, used, granted, torn>>

Refused ==
  /\ agent.pc = "files" /\ agent.todo = <<>> /\ agent.manual
  /\ agent' = Off
  /\ UNCHANGED <<store, srv, row, hs, disabled, used, granted, torn, outdated>>

\* The answer: an error ends the process, a conflict means that the agent is
\* registered, and new certificates are stored.
Receive ==
  LET answer == hs[agent.h].answer IN
  /\ agent.pc = "wait" /\ hs[agent.h].pc = "answered"
  /\ hs' = [hs EXCEPT ![agent.h] = Idle]
  /\ agent' =
       IF answer.kind = "error" THEN Off
       ELSE [agent EXCEPT !.pc = "store", !.id = answer.id,
               !.todo = IF answer.kind = "conflict" THEN <<>>
                        ELSE StoreCerts(answer.cert.ca, answer.cert, answer.fp)]
  /\ outdated' = IF answer.kind = "ok" THEN "no" ELSE outdated
  /\ UNCHANGED <<store, srv, row, disabled, used, granted, torn>>

\* The answer is lost: that is not a refused connection, so Register fails.
LoseAnswer ==
  /\ agent.pc = "wait"
  /\ Spend("faults")
  /\ agent' = Off
  /\ hs' = [hs EXCEPT ![agent.h] = IF @.pc = "answered" THEN Idle ELSE @]
  /\ UNCHANGED <<store, srv, row, disabled, granted, torn, outdated>>

\* Whether the server and an agent that uses these files can connect: the
\* key pair loads, each side's certificate is signed by the CA that the other
\* side has, and the server's certificate is the allowed one.
Connects ==
  /\ IsValid
  /\ store.cert = [key |-> store.key, ca |-> srv.ca]
  /\ store.ca = srv.ca
  /\ store.fp = srv.cert

\* Register without a server token ends; so does the one with it after a
\* ping.  The service then runs and the command is done.
Finish ==
  /\ agent.pc = "store" /\ agent.todo = <<>> /\ agent.serverToken = Missing
  /\ agent' = [agent EXCEPT !.pc = IF agent.manual THEN "done" ELSE "up"]
  /\ UNCHANGED <<store, srv, row, hs, disabled, used, granted, torn, outdated>>

\* pingAgentViaServer and PingMachine: the server checks both tokens, calls
\* the agent and refreshes the machine's state.
Ping(h) ==
  /\ agent.pc = "store" /\ agent.todo = <<>> /\ agent.serverToken # Missing
  /\ hs[h] = Idle
  /\ row.id = agent.id /\ agent.serverToken = srv.token
  /\ row.token = store.token /\ Connects
  /\ hs' = [hs EXCEPT ![h] = [Idle EXCEPT !.pc = "refresh", !.m = row]]
  /\ agent' = [agent EXCEPT !.pc = "done"]
  /\ UNCHANGED <<store, srv, row, disabled, used, granted, torn, outdated>>

\* The listener cannot start or three pings fail.
PingFails ==
  /\ agent.pc = "store" /\ agent.todo = <<>> /\ agent.serverToken # Missing
  /\ agent' = Off
  /\ UNCHANGED <<store, srv, row, hs, disabled, used, granted, torn, outdated>>

\* The command has ended, or the service is stopped.
Stop ==
  /\ agent.pc \in {"done", "up"}
  /\ agent' = Off
  /\ UNCHANGED <<store, srv, row, hs, disabled, used, granted, torn, outdated>>

\* The process is killed; an answer on its way is lost.
Crash ==
  /\ agent.pc \notin {"off", "done"}
  /\ Spend("faults")
  /\ agent' = Off
  /\ torn' = (torn \/ agent.todo # <<>>)
  /\ hs' = IF agent.pc = "wait"
           THEN [hs EXCEPT ![agent.h] = IF @.pc = "answered" THEN Idle ELSE @]
           ELSE hs
  /\ UNCHANGED <<store, srv, row, disabled, granted, outdated>>
-----------------------------------------------------------------------------
(***************************************************************************)
(* The handlers of the server.                                             *)
(***************************************************************************)
WaitedFor(h) == agent.pc = "wait" /\ agent.h = h

\* The answer waits for the agent if the agent waits for it.
Reply(h, answer) ==
  hs' = [hs EXCEPT ![h] = IF WaitedFor(h)
                          THEN [Idle EXCEPT !.pc = "answered", !.answer = answer]
                          ELSE Idle]

\* checkServerToken with an empty token allowed.
WrongToken(serverToken) == serverToken \notin {Missing, srv.token}

\* Whether the row is one of the agent that sends the request.
\* Mutated form: the address identifies the agent.
KnownByAddress(req) == row # NoRow
Known(req) == row # NoRow /\ row.token = req.token

\* Whether the agent already has what the server would give it.
\* Mutated form: the CA is not compared.
HasCertsIfKnown(req) == Known(req)
HasCerts(req) == Known(req) /\ req.ca = srv.ca

\* CreateMachine, first half: the machine is read, and what is known of it and
\* the server token decide.  A known agent that has the current CA is
\* registered already; a known agent keeps its authorization.
CreateMachineRead(h) ==
  LET req   == hs[h].req
      keeps == Known(req) /\ row.authorized
  IN
  /\ hs[h].pc = "create"
  /\ \/ /\ HasCerts(req)
        /\ Reply(h, Answer("conflict", row.id, NoCert, 0))
        /\ UNCHANGED granted
     \/ /\ ~ HasCerts(req) /\ ~ keeps /\ WrongToken(req.serverToken)
        /\ Reply(h, Answer("error", 0, NoCert, 0))
        /\ UNCHANGED granted
     \/ /\ ~ HasCerts(req) /\ (keeps \/ ~ WrongToken(req.serverToken))
        /\ hs' = [hs EXCEPT ![h] =
             [Idle EXCEPT !.pc = "write", !.req = req, !.m = row,
                          !.auth = keeps \/ req.serverToken = srv.token]]
        /\ granted' = IF req.serverToken = srv.token
                      THEN granted \union {req.token} ELSE granted
  /\ UNCHANGED <<store, agent, srv, row, disabled, used, torn, outdated>>

\* Ids of machines are never used again.
NewId == used.user + 1

\* CreateMachine, second half: the certificate is signed, and the row is
\* inserted, if there was none, or updated.
CreateMachineWrite(h) ==
  LET req    == hs[h].req
      m      == hs[h].m
      new    == m = NoRow
      failed == IF new THEN disabled \/ row # NoRow ELSE row.id # m.id
      id     == IF new THEN NewId ELSE m.id
  IN
  /\ hs[h].pc = "write"
  /\ row' = IF failed THEN row
            ELSE [id |-> id, token |-> req.token, authorized |-> hs[h].auth]
  /\ Reply(h, IF failed THEN Answer("error", 0, NoCert, 0)
              ELSE Answer("ok", id, [key |-> req.key, ca |-> srv.ca], srv.cert))
  /\ UNCHANGED <<store, agent, srv, disabled, used, granted, torn, outdated>>

\* UpdateMachine, first half: an administrator authorizes the machine or
\* withdraws the authorization; the whole row is read.
UpdateMachineRead(h) ==
  /\ hs[h] = Idle /\ row # NoRow
  /\ Spend("user")
  /\ \E auth \in BOOLEAN :
       hs' = [hs EXCEPT ![h] = [Idle EXCEPT !.pc = "update", !.m = row, !.auth = auth]]
  /\ UNCHANGED <<store, agent, srv, row, disabled, granted, torn, outdated>>

\* UpdateMachine, second half: the whole row is written; the state of a
\* machine that has just been authorized is refreshed.
UpdateMachineWrite(h) ==
  LET m == [id |-> hs[h].m.id, token |-> hs[h].m.token, authorized |-> hs[h].auth]
  IN
  /\ hs[h].pc = "update"
  /\ row' = IF row.id = m.id THEN m ELSE row
  /\ granted' = IF m.authorized THEN granted \union {m.token} ELSE granted
  /\ hs' = [hs EXCEPT ![h] = IF m.authorized /\ ~ hs[h].m.authorized
                             THEN [Idle EXCEPT !.pc = "refresh", !.m = m]
                             ELSE Idle]
  /\ UNCHANGED <<store, agent, srv, disabled, used, torn, outdated>>

\* DeleteMachine.
DeleteMachine ==
  /\ row # NoRow
  /\ Spend("user")
  /\ row' = NoRow
  /\ UNCHANGED <<store, agent, srv, hs, disabled, granted, torn, outdated>>

\* EndpointControl: the registration of new machines is disabled or enabled.
ToggleRegistration ==
  /\ Spend("user")
  /\ disabled' = ~ disabled
  /\ UNCHANGED <<store, agent, srv, row, hs, granted, torn, outdated>>

\* RegenerateMachinesServerToken.
RegenerateServerToken ==
  /\ Spend("user")
  /\ srv' = [srv EXCEPT !.token = @ + 1]
  /\ UNCHANGED <<store, agent, row, hs, disabled, granted, torn, outdated>>

\* UpdateMachineAndAppsState, first half.  The handler that shows the state of
\* a machine refreshes any machine at any time; the puller, which CreateMachine
\* pauses, does the same to the authorized ones.
RefreshRead(h) ==
  /\ hs[h] = Idle /\ row # NoRow
  /\ hs' = [hs EXCEPT ![h] = [Idle EXCEPT !.pc = "refresh", !.m = row]]
  /\ UNCHANGED <<store, agent, srv, row, disabled, used, granted, torn, outdated>>

\* Second half: whether or not the agent answered, the whole row is written.
RefreshWrite(h) ==
  /\ hs[h].pc = "refresh"
  /\ row' = IF row.id = hs[h].m.id THEN hs[h].m ELSE row
  /\ hs' = [hs EXCEPT ![h] = Idle]
  /\ UNCHANGED <<store, agent, srv, disabled, used, granted, torn, outdated>>

\* A restart of the server ends its handlers; an agent that waits for an
\* answer fails.
Restart(secrets) ==
  /\ Spend("faults")
  /\ srv' = secrets
  /\ hs' = [h \in Handlers |-> Idle]
  /\ agent' = IF agent.pc = "wait" THEN Off ELSE agent
  /\ UNCHANGED <<store, row, disabled, granted, torn>>

\* setupRootKeyAndCert generates a new CA, as the old one no longer meets the
\* requirements; then setupServerKeyAndCert generates a server certificate.
RotateCA ==
  /\ Restart([srv EXCEPT !.ca = @ + 1, !.cert = @ + 1])
  /\ outdated' = "ca"

\* setupServerKeyAndCert generates a new server certificate, as the old one has
\* expired or was removed.
RenewServerCert ==
  /\ Restart([srv EXCEPT !.cert = @ + 1])
  /\ outdated' = IF outdated = "ca" THEN "ca" ELSE "cert"

-----------------------------------------------------------------------------
Init ==
  /\ store = FilesMissing
  /\ agent = Off
  /\ srv = [ca |-> 1, cert |-> 1, token |-> 1]
  /\ row = NoRow
  /\ hs = [h \in Handlers |-> Idle]
  /\ disabled = FALSE
  /\ used = [faults |-> 0, user |-> 0]
  /\ granted = {}
  /\ torn = FALSE
  /\ outdated = "no"

Next ==
  \/ StartService \/ RegisterCommand
  \/ FileStep
  \/ \E h \in Handlers : Send(h)
  \/ Refused \/ Receive \/ LoseAnswer
  \/ Finish
  \/ \E h \in Handlers : Ping(h)
  \/ PingFails \/ Stop \/ Crash
  \/ \E h \in Handlers : CreateMachineRead(h)
  \/ \E h \in Handlers : CreateMachineWrite(h)
  \/ \E h \in Handlers : UpdateMachineRead(h)
  \/ \E h \in Handlers : UpdateMachineWrite(h)
  \/ DeleteMachine \/ ToggleRegistration \/ RegenerateServerToken
  \/ \E h \in Handlers : RefreshRead(h)
  \/ \E h \in Handlers : RefreshWrite(h)
  \/ RotateCA \/ RenewServerCert

Spec == Init /\ [][Next]_vars

-----------------------------------------------------------------------------
(***************************************************************************)
(* Properties.                                                             *)
(***************************************************************************)
TypeOK ==
  /\ store \in [key: Keys \union {Missing}, token: Keys \union {Missing},
                cert: [key: Keys, ca: Cas] \union {NoCert},
                ca: Cas \union {Missing}, fp: Certs \union {Missing, ZeroFp}]
  /\ agent.pc \in {"off", "files", "wait", "store", "up", "done"}
  /\ agent.manual \in BOOLEAN /\ agent.h \in Handlers
  /\ agent.serverToken \in Tokens \union {Missing}
  /\ \A i \in DOMAIN agent.todo : agent.todo[i].file \in Files
  /\ srv \in [ca: Cas, cert: Certs, token: Tokens]
  /\ row \in Row \union {NoRow}
  /\ \A h \in Handlers :
       /\ hs[h].pc \in {"idle", "create", "write", "answered", "update", "refresh"}
       /\ hs[h].req \in Request \union {NoRequest}
       /\ hs[h].m \in Row \union {NoRow}
  /\ disabled \in BOOLEAN /\ torn \in BOOLEAN
  /\ granted \subseteq Keys
  /\ outdated \in {"no", "cert", "ca"}

\* Nobody but an administrator and the owner of a server token lets an agent
\* in: however requests, refreshes that write whole rows back and deletions
\* overlap, an authorized row holds a token that was let in.
AuthorizedByGrant == row.authorized => row.token \in granted

\* An agent whose service runs, or whose command has ended well, has all five
\* files, so that its gRPC server can start (newGRPCServerWithTLS checks them).
RegisteredIsComplete == TypeOK /\ (agent.pc \in {"up", "done"} => IsValid)

\* Such an agent can be connected, unless it was killed between two file
\* operations or the server has changed its secrets since the request: what
\* the files hold belongs together and to the server.
RegisteredConnects ==
  agent.pc \in {"up", "done"} /\ ~ torn /\ outdated = "no" => Connects

=============================================================================
