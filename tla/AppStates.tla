------------------------------ MODULE AppStates ------------------------------
(***************************************************************************)
(* The Kea applications of a machine, from the processes to the database.  *)
(* The agent's monitor lists processes (agent/monitor.go); the server asks *)
(* for the list, matches it with the applications it has, asks each        *)
(* control agent (CA) and its DHCP daemon, and stores what it found        *)
(* (server/apps/statepuller.go, server/apps/kea/appkea.go).                *)
(*                                                                         *)
(* The state puller does this all the time, and a user's refresh does the  *)
(* same at any moment, from its own copies of the rows.  Others (the       *)
(* statistics puller, a user who turns monitoring on or off) read the row  *)
(* of a daemon and write all of it back.  Rows are not locked meanwhile.   *)
(*                                                                         *)
(* A configuration is its version, which stands for the hash and for the   *)
(* networks it has.  Each change, and each start of a CA, makes a new one: *)
(* configurations do not come back.  0 is none, and that of a CA that      *)
(* never ran.                                                              *)
(***************************************************************************)
EXTENDS Integers, Sequences, FiniteSets, SequencesExt

CONSTANTS
  Ports,       \* the ports of CAs
  Nsd,         \* the process of an NSD server
  Updaters,    \* what updates: Puller, and users
  Puller,
  MaxChanges,  \* bound: changes of the machine
  MaxOthers    \* bound: failures, restarts, rows written back and, each counted twice,
               \* refreshes by users

ASSUME AppStatesAssumption ==
  /\ Ports \subseteq Nat \ {0} /\ IsFiniteSet(Ports) /\ Nsd \notin Ports
  /\ Puller \in Updaters
  /\ MaxChanges \in Nat /\ MaxOthers \in Nat

VARIABLES
  procs,     \* the processes, in the order they are listed
  kea,       \* of each CA: whether it has a DHCP daemon, if that is up, its version
  newest,    \* the newest version
  detected,  \* agent: the CAs the monitor has found
  apps,      \* database: the applications with their daemons
  nets,      \* database: the version whose networks belong to each DHCP daemon
  begun,     \* the reviews that began: daemon and version
  lastId,    \* database: the last number of an application or daemon
  job,       \* what each updater does
  copy,      \* the row that will be written back
  lost,      \* history: daemons whose review a restart has prevented
  disturbed, \* history: two updates have been at work at once, or one asked a CA that
             \* had started again where detection does not see it
  changes, others

db == <<apps, nets, lastId>>
machine == <<procs, kea, newest>>
vars == <<procs, kea, newest, detected, apps, nets, begun, lastId, job, copy, lost,
          disturbed, changes, others>>

NoCopy == [id |-> 0, name |-> "dhcp", active |-> FALSE, version |-> 0]
\* found: ports from the agent; list: copies still to update, the first one is at work;
\* ca: what the CA answered; sock: it has a DHCP daemon; same: configuration unchanged;
\* reviewed: daemons with a review when the copies were read.
Idle == [pc |-> "idle", found |-> {}, list |-> <<>>, ca |-> "none", sock |-> FALSE,
         same |-> FALSE, reviewed |-> {}]
NewApp(p) == [id |-> 0, port |-> p, active |-> FALSE, daemons |-> {}]
Ids(ds) == {d.id : d \in ds}
DhcpOf(app) == {d \in app.daemons : d.name = "dhcp"}

Init ==
  /\ procs \in {<<p>> : p \in Ports}
  /\ kea = [p \in Ports |-> [sock |-> TRUE, up |-> TRUE, version |-> IF p = procs[1] THEN 1 ELSE 0]]
  /\ newest = 1
  /\ detected = {}
  /\ apps = {} /\ nets = <<>> /\ begun = {} /\ lastId = 0
  /\ job = [u \in Updaters |-> Idle]
  /\ copy = NoCopy /\ lost = {} /\ disturbed = FALSE
  /\ changes = 0 /\ others = 0

-----------------------------------------------------------------------------
(* The machine and its agent                                               *)

Running == ToSet(procs) \cap Ports

\* A process starts, with a higher number, or ends.
ChangeProcs ==
  /\ changes < MaxChanges /\ changes' = changes + 1
  /\ \/ \E p \in Ports \ Running :
          /\ procs' = Append(procs, p)
          /\ newest' = newest + 1
          /\ kea' = [kea EXCEPT ![p].version = newest']
     \/ Nsd \notin ToSet(procs) /\ procs' = Append(procs, Nsd) /\ UNCHANGED <<kea, newest>>
     \/ \E i \in DOMAIN procs : procs' = RemoveAt(procs, i) /\ UNCHANGED <<kea, newest>>
  /\ UNCHANGED <<detected, db, begun, job, copy, lost, disturbed, others>>

\* The DHCP daemon of a CA goes up or down, or gets another configuration, or the CA's
\* configuration gains or loses it.
ChangeKea(p) ==
  /\ changes < MaxChanges /\ changes' = changes + 1
  /\ \/ /\ kea' = [kea EXCEPT ![p].up = ~@] /\ UNCHANGED newest
     \/ /\ kea' = [kea EXCEPT ![p].sock = ~@] /\ UNCHANGED newest
     \/ /\ newest' = newest + 1
        /\ kea' = [kea EXCEPT ![p].version = newest']
  /\ UNCHANGED <<procs, detected, db, begun, job, copy, lost, disturbed, others>>

\* Detection ends with the first NSD process: what is listed after it is not seen.
Seen == {p \in Running : \E i \in DOMAIN procs :
           procs[i] = p /\ \A j \in 1..i : procs[j] # Nsd}

Detect ==
  /\ detected # Seen
  /\ detected' = Seen
  /\ UNCHANGED <<machine, db, begun, job, copy, lost, disturbed, changes, others>>

-----------------------------------------------------------------------------
(* An update of the machine's applications                                 *)

Others(n) == others + n <= MaxOthers /\ others' = others + n
Other == Others(1)
NoOther == UNCHANGED others

\* The puller begins again and again, a user now and then.  If the agent does not answer,
\* only the machine's error is stored.
GetState(u) ==
  /\ job[u].pc = "idle"
  /\ \/ /\ IF u = Puller THEN NoOther ELSE Others(2)
        /\ job' = [job EXCEPT ![u] = [Idle EXCEPT !.pc = "merge", !.found = detected]]
        /\ disturbed' = (disturbed \/ \E v \in Updaters : job[v].pc # "idle")
     \/ Other /\ UNCHANGED <<job, disturbed>>
  /\ UNCHANGED <<machine, detected, db, begun, copy, lost, changes>>

\* One application before and one now are the same one; otherwise the port tells.
Matches(old, found, a, p) ==
  (Cardinality(old) = 1 /\ Cardinality(found) = 1) \/ a.port = p

\* The applications that were found, and then those that were not.
Merged(old, found) ==
  LET match(p) == {a \in old : Matches(old, found, a, p)}
      row(p) == IF match(p) = {} THEN NewApp(p)
                ELSE [(CHOOSE a \in match(p) : \A b \in match(p) : a.id <= b.id) EXCEPT !.port = p]
      rows == {row(p) : p \in found}
  IN SetToSeq(rows) \o SetToSeq({a \in old : a.id \notin Ids(rows)})

Reviewed == {b[1] : b \in begun}

MergeApps(u) ==
  /\ job[u].pc = "merge"
  /\ LET list == Merged(apps, job[u].found) IN
     job' = [job EXCEPT ![u] = IF list = <<>> THEN Idle
                               ELSE [Idle EXCEPT !.pc = "ca", !.list = list, !.reviewed = Reviewed]]
  /\ UNCHANGED <<machine, detected, db, begun, copy, lost, disturbed, changes, others>>

\* The agent forwards only to a CA that it has found; a CA that has ended does not answer.
GetStateFromCA(u) ==
  LET p == Head(job[u].list).port IN
  /\ job[u].pc = "ca"
  /\ \/ /\ NoOther
        /\ job' = [job EXCEPT ![u] =
             [@ EXCEPT !.pc = "daemons",
                       !.ca = IF p \notin detected THEN "none"
                              ELSE IF p \notin Running THEN "inactive" ELSE "active",
                       !.sock = kea[p].sock]]
     \/ Other /\ job' = [job EXCEPT ![u] = [@ EXCEPT !.pc = "daemons", !.ca = "none"]]
  /\ UNCHANGED <<machine, detected, db, begun, copy, lost, disturbed, changes>>

\* The copy of a daemon, or a new one.
CopyOrCreate(app, name) ==
  IF \E d \in app.daemons : d.name = name
  THEN [(CHOOSE d \in app.daemons : d.name = name) EXCEPT !.active = TRUE]
  ELSE [id |-> 0, name |-> name, active |-> TRUE, version |-> 0]

\* The daemons that answered.  A DHCP daemon is missing if the agent failed, and passes as
\* active if the CA has ended since it answered.
Answers(j, reply) ==
  LET app == Head(j.list)
      ca == CopyOrCreate(app, "ca")
      dhcp == CopyOrCreate(app, "dhcp")
      k == kea[app.port]
  IN CASE j.ca = "none" -> {}
       [] j.ca = "inactive" -> {[ca EXCEPT !.active = FALSE]}
       [] j.ca = "active" /\ (~j.sock \/ reply = "none") -> {ca}
       [] j.ca = "active" /\ j.sock /\ reply = "silent" -> {ca, dhcp}
       [] j.ca = "active" /\ j.sock /\ reply = "answered" ->
            {ca, IF k.up THEN [dhcp EXCEPT !.version = k.version]
                 ELSE [dhcp EXCEPT !.active = FALSE]}

\* The configuration has the hash that the copy of the daemon has.
SameConfig(app, answers) ==
  \E d \in answers, old \in DhcpOf(app) : d.name = "dhcp" /\ d.version = old.version

\* Mutated form: an application whose CA does not answer is left alone.
FoundIfAnswered(app, answers) ==
  CASE app.id = 0 -> [app EXCEPT !.daemons = answers]
    [] app.id # 0 /\ (\E d \in answers : d.name = "ca" /\ d.active) ->
         [app EXCEPT !.daemons = answers, !.active = \A d \in answers : d.active]
    [] OTHER -> app

\* A new application is inactive.  If the CA does not answer, all that was active is not.
\* Otherwise the daemons that answered replace the others.
FoundChanges(app, answers) ==
  CASE app.id = 0 -> [app EXCEPT !.daemons = answers]
    [] app.id # 0 /\ (\E d \in answers : d.name = "ca" /\ d.active) ->
         [app EXCEPT !.daemons = answers, !.active = \A d \in answers : d.active]
    [] OTHER ->
         [app EXCEPT !.daemons = {[d EXCEPT !.active = FALSE] : d \in @}, !.active = FALSE]

GetStateFromDaemons(u) ==
  LET j == job[u]
      app == Head(j.list)
      reply == IF app.port \in detected \cap Running THEN "answered"
               ELSE IF app.port \in detected THEN "silent" ELSE "none"
      done(r) ==
        LET answers == Answers(j, r) IN
        [j EXCEPT !.pc = "commit", !.ca = "none", !.sock = FALSE,
                  !.list = <<FoundChanges(app, answers)>> \o Tail(@),
                  !.same = app.id # 0 /\ j.ca = "active" /\ SameConfig(app, answers)]
  IN
  /\ j.pc = "daemons"
  /\ \/ /\ NoOther
        /\ job' = [job EXCEPT ![u] = done(reply)]
        /\ disturbed' = (disturbed \/ (reply = "answered" /\ app.port \notin Seen))
     \/ /\ Other /\ j.ca = "active" /\ j.sock
        /\ job' = [job EXCEPT ![u] = done("none")]
        /\ UNCHANGED disturbed
  /\ UNCHANGED <<machine, detected, db, begun, copy, lost, changes>>

\* The rows that are updated exist, and no other application has the port.
CanStore(app) ==
  /\ \A a \in apps : a.id # app.id => a.port # app.port
  /\ app.id # 0 => \E a \in apps : /\ a.id = app.id
                                  /\ Ids(app.daemons) \ {0} \subseteq Ids(a.daemons)

\* Rows without a number get the next ones: the application, its CA, its DHCP daemon.
Numbered(app) ==
  [app EXCEPT !.id = IF @ = 0 THEN lastId + 1 ELSE @,
              !.daemons = {IF d.id # 0 THEN d
                           ELSE [d EXCEPT !.id = lastId + IF d.name = "ca" THEN 2 ELSE 3] : d \in @}]

\* Mutated form: daemons that are not in the list stay.
StoredAdding(row) ==
  {a \in apps : a.id # row.id}
    \cup {[row EXCEPT !.daemons = @ \cup UNION {{d \in a.daemons : d.id \notin Ids(row.daemons)} :
                                                a \in {b \in apps : b.id = row.id}}]}

\* The application with its daemons; those not in the list are deleted.
Stored(row) == {a \in apps : a.id # row.id} \cup {row}

\* Networks are those of the stored configuration, unless it is unchanged.
NetsOf(j, row, app) ==
  [i \in Ids(UNION {DhcpOf(a) : a \in Stored(row)}) |->
     LET mine == {d \in DhcpOf(row) : d.id = i} IN
     IF (mine = {} \/ j.same) /\ i \in DOMAIN nets THEN nets[i]
     ELSE (CHOOSE d \in mine : TRUE).version]

\* The transaction.  If it fails, the update ends there and the other applications wait
\* for the next one.
CommitApp(u) ==
  LET j == job[u]
      app == Head(j.list)
      row == Numbered(app)
  IN
  /\ j.pc = "commit"
  /\ \/ /\ NoOther /\ CanStore(app)
        /\ apps' = Stored(row)
        /\ nets' = NetsOf(j, row, app)
        /\ lastId' = IF \E d \in app.daemons \cup {app} : d.id = 0 THEN lastId + 3 ELSE lastId
        /\ job' = [job EXCEPT ![u] = [j EXCEPT !.pc = "review", !.list = <<row>> \o Tail(j.list)]]
     \/ /\ IF CanStore(app) THEN Other ELSE NoOther
        /\ job' = [job EXCEPT ![u] = Idle]
        /\ UNCHANGED db
  /\ UNCHANGED <<machine, detected, begun, copy, lost, disturbed, changes>>

\* Mutated form: only the first configuration is reviewed.
DueOnce(j) ==
  {d \in DhcpOf(Head(j.list)) : d.version # 0 /\ d.id \notin j.reviewed}

\* A configuration that is not the one before, or that has no review yet.
Due(j) ==
  {d \in DhcpOf(Head(j.list)) : d.version # 0 /\ (~j.same \/ d.id \notin j.reviewed)}

BeginReviews(u) ==
  LET j == job[u] IN
  /\ j.pc = "review"
  /\ begun' = begun \cup {<<d.id, d.version>> : d \in Due(j)}
  /\ job' = [job EXCEPT ![u] = IF Len(j.list) = 1 THEN Idle
                               ELSE [j EXCEPT !.pc = "ca", !.list = Tail(j.list), !.same = FALSE]]
  /\ UNCHANGED <<machine, detected, db, copy, lost, disturbed, changes, others>>

-----------------------------------------------------------------------------
(* Whole rows that are written back, and a restart of the server           *)

ReadDaemon ==
  /\ copy = NoCopy
  /\ Other
  /\ copy' \in UNION {DhcpOf(a) : a \in apps}
  /\ UNCHANGED <<machine, detected, db, begun, job, lost, disturbed, changes>>

\* Fails if the daemon is deleted.
WriteDaemon ==
  /\ copy # NoCopy
  /\ apps' = {[a EXCEPT !.daemons = {IF d.id = copy.id THEN copy ELSE d : d \in @}] : a \in apps}
  /\ copy' = NoCopy
  /\ UNCHANGED <<machine, detected, nets, lastId, begun, job, lost, disturbed, changes, others>>

Restart ==
  /\ Other
  /\ lost' = lost \cup UNION {Ids(Due(job[u])) : u \in {v \in Updaters : job[v].pc = "review"}}
  /\ job' = [u \in Updaters |-> Idle]
  /\ copy' = NoCopy
  /\ UNCHANGED <<machine, detected, db, begun, disturbed, changes>>

Step(u) ==
  \/ MergeApps(u) \/ GetStateFromCA(u) \/ GetStateFromDaemons(u) \/ CommitApp(u)
  \/ BeginReviews(u)

Next ==
  \/ ChangeProcs \/ \E p \in Ports : ChangeKea(p)
  \/ Detect
  \/ \E u \in Updaters : GetState(u) \/ Step(u)
  \/ ReadDaemon \/ WriteDaemon \/ Restart

Spec == Init /\ [][Next]_vars

\* Failures are bounded.  The monitor's and the puller's timers tick, an update has a
\* timeout at every request, and a row that was read is written.
FairSpec ==
  /\ Spec
  /\ WF_vars(Detect) /\ WF_vars(GetState(Puller)) /\ WF_vars(WriteDaemon)
  /\ \A u \in Updaters : WF_vars(Step(u))

-----------------------------------------------------------------------------
(* Properties                                                              *)

Daemon == [id : 0..lastId, name : {"ca", "dhcp"}, active : BOOLEAN, version : 0..newest]

\* Type invariant.
TypeOK ==
  /\ procs \in Seq(Ports \cup {Nsd}) /\ detected \subseteq Ports
  /\ kea \in [Ports -> [sock : BOOLEAN, up : BOOLEAN, version : 0..newest]]
  /\ \A a \in apps : a.id \in 1..lastId /\ a.port \in Ports /\ a.active \in BOOLEAN
                     /\ a.daemons \subseteq Daemon /\ 0 \notin Ids(a.daemons)
  /\ DOMAIN nets = Ids(UNION {DhcpOf(a) : a \in apps})
  /\ \A i \in DOMAIN nets : nets[i] \in 0..newest
  /\ begun \subseteq (1..lastId) \X (1..newest)
  /\ \A u \in Updaters :
       /\ job[u].pc \in {"idle", "merge", "ca", "daemons", "commit", "review"}
       /\ (job[u].pc \in {"idle", "merge"}) <=> (job[u].list = <<>>)
  /\ copy \in Daemon

\* No two applications of the machine have the same port, and no application has two
\* daemons of a name, although two updates may add the same one at once and only ports
\* are unique in the database.
NoDuplicates ==
  /\ TypeOK
  /\ \A a, b \in apps : a.port = b.port => a = b
  /\ \A a \in apps : \A d, e \in a.daemons : d.name = e.name => d = e

\* A stored configuration that is still the one Kea has comes with its networks: what one
\* update after another, its failures and rows that are written back leave behind differs in
\* the hash from what Kea has, and so is not skipped at the next update.  Not so if two
\* updates have overlapped; nor if one asked a CA that had started again behind an NSD
\* process, because detection then loses that CA while its configuration is still current.
CurrentHasItsNetworks ==
  disturbed \/ \A a \in apps : \A d \in DhcpOf(a) :
    a.port \in Running /\ d.version = kea[a.port].version => nets[d.id] = d.version

\* A review has begun for every stored configuration, unless the server was restarted
\* between the commit and the review.
ConfigsAreReviewed ==
  \A a \in apps : \A d \in DhcpOf(a) :
    \/ d.version = 0 \/ d.id \in lost \/ <<d.id, d.version>> \in begun
    \/ \E u \in Updaters : job[u].pc = "review" /\ Head(job[u].list).id = a.id

\* What an update commits does not stay half done: a configuration comes with its networks
\* and with a review.
StoredIsComplete == CurrentHasItsNetworks /\ ConfigsAreReviewed

\* What the database has of the CAs that can be seen, and of the others.
Mirrors ==
  /\ \A p \in Seen : \E a \in apps :
       /\ a.port = p
       /\ {d.name : d \in a.daemons} = IF kea[p].sock THEN {"ca", "dhcp"} ELSE {"ca"}
       /\ \A d \in a.daemons : d.active = (d.name = "ca" \/ kea[p].up)
       /\ \A d \in DhcpOf(a) :
            kea[p].up => /\ d.version = kea[p].version /\ d.id \in Reviewed
                         /\ disturbed \/ nets[d.id] = d.version
       /\ a.active = (kea[p].up \/ ~kea[p].sock)
  /\ \A a \in apps : a.port \notin Seen =>
       ~a.active /\ \A d \in a.daemons : ~d.active

\* In the end the database has what runs on the machine, whatever the order of updates,
\* failures, restarts and rows written back, and its daemons have been reviewed; only
\* networks may be missing, if updates overlapped or asked a CA that detection had lost.
Converges == <>[]Mirrors

=============================================================================
