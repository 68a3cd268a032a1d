----------------------------- MODULE KeaChanges -----------------------------
(***************************************************************************)
(* What users change in Kea through the server: the module of the          *)
(* configuration manager that prepares commands for the daemons, sends     *)
(* them and updates the database (server/apps/kea/configmodule.go), the    *)
(* REST handlers that call it (server/restservice), and the puller that    *)
(* replaces what the database holds about a daemon when its configuration  *)
(* changed (server/apps/kea/appkea.go).  Contexts, users and timeouts are  *)
(* in ConfigManager.                                                       *)
(*                                                                         *)
(* One object is changed: a subnet, a shared network with its subnets, a   *)
(* reservation in the hosts databases of the daemons, or the global        *)
(* parameters.  Its content in a daemon is a number, 0 when it is not      *)
(* there; a subnet may be in a shared network.  Reservations in            *)
(* configuration files are left out.                                       *)
(***************************************************************************)
EXTENDS Integers, Sequences

CONSTANTS
  Daemons,     \* daemons of Kea
  Order,       \* the same, in the order their commands are sent
  Reloaded,    \* daemons before 2.6.0, which are sent config-reload
  Nets,        \* shared networks that a subnet may be in
  Users,       \* one transaction each at a time
  Topics,      \* what is changed: a subset of the kinds of objects
  MaxChanges,  \* bound: submits with new contents
  MaxRows,     \* bound: subnets in the database
  MaxFaults    \* bound, per topic: failures of commands and of the database, restarts of Kea

\* The module that is checked assumes it.
ChangesAssumption ==
  /\ Order \in Seq(Daemons) /\ Order # <<>> /\ {Order[k] : k \in DOMAIN Order} = Daemons
  /\ Reloaded \subseteq Daemons
  /\ Topics \subseteq {"subnet", "subnet_in_network", "shared_network", "host", "global_parameters"}
  /\ {MaxChanges, MaxRows} \subseteq Nat /\ MaxRows > 0 /\ MaxFaults \in [Topics -> Nat]

VARIABLES
  topic,    \* the kind of object
  kea,      \* per daemon: the object in memory and in the file
  db,       \* the rows of the database, each with its content per daemon
  seen,     \* the configurations of the daemons in the database
  locks,    \* per daemon the user who holds the lock
  txn,      \* the transactions
  pull,     \* the configuration of a daemon that the puller has read
  changes,  \* contents used so far
  faults,   \* faults so far
  had       \* history: contents each daemon has had

vars == <<topic, kea, db, seen, locks, txn, pull, changes, faults, had>>

NoNet == "none"
\* The topic "subnet" is the bound of the other one to no shared networks.
Subnet == topic \in {"subnet", "subnet_in_network"}
MayBeIn == IF topic = "subnet_in_network" THEN Nets \cup {NoNet} ELSE {NoNet}
NoUser == "nobody"
NoRow == [on |-> [d \in Daemons |-> 0], net |-> NoNet]
\* A transaction begins with what it has read, and has nothing to send.
Txn(step, kind, calm, row, before) ==
  [step |-> step, kind |-> kind, calm |-> calm, row |-> row, before |-> before,
   after |-> NoRow, cmds |-> <<>>]
NoTxn == Txn("none", "none", FALSE, 0, NoRow)
Ids == 1..MaxRows
Absent == [v |-> 0, net |-> NoNet]
NoPull == [step |-> "none", daemon |-> Head(Order), conf |-> Absent]
Members(o) == {d \in Daemons : o.on[d] # 0}
Exists(i) == Members(db[i]) # {}

\* The object is in every daemon, or only in the first one.
Init ==
  /\ topic \in Topics
  /\ \E D \in {Daemons, {Head(Order)}} :
       LET on == [d \in Daemons |-> IF d \in D \/ topic = "global_parameters" THEN 1 ELSE 0] IN
       \E n \in MayBeIn :
         /\ db = [i \in Ids |-> IF i = 1 THEN [on |-> on, net |-> n] ELSE NoRow]
         /\ seen = [d \in Daemons |-> IF on[d] = 0 THEN Absent ELSE [v |-> 1, net |-> n]]
         /\ kea = [d \in Daemons |-> [mem |-> seen[d], file |-> seen[d]]]
         /\ had = [d \in Daemons |-> {seen[d].v}]
  /\ locks = [d \in Daemons |-> NoUser]
  /\ txn = [u \in Users |-> NoTxn]
  /\ pull = NoPull
  /\ changes = 1
  /\ faults = 0

-----------------------------------------------------------------------------
(* The commands a transaction prepares                                     *)

Cmd(op, d, v, net) == [op |-> op, daemon |-> d, v |-> v, net |-> net]
\* The commands for the daemons of D, in order.
ForEach(D, cmds) ==
  LET upTo[k \in 0..Len(Order)] ==
        IF k = 0 THEN <<>>
        ELSE IF Order[k] \in D THEN upTo[k - 1] \o cmds[Order[k]] ELSE upTo[k - 1]
  IN  upTo[Len(Order)]

\* Written configurations survive a restart; daemons before 2.6.0 are also made to
\* read them, to update their statistics, except when the object is deleted.
Writes(before, after, reload) ==
  LET write == [d \in Daemons |->
                  <<Cmd("write", d, 0, NoNet)>>
                  \o IF reload /\ d \in Reloaded THEN <<Cmd("reload", d, 0, NoNet)>> ELSE <<>>]
  IN  ForEach(Members(after), write) \o ForEach(Members(before) \ Members(after), write)

Changes(op, row) == [d \in Daemons |-> <<Cmd(op, d, row.on[d], NoNet)>>]
Deletions == [d \in Daemons |-> <<Cmd("del", d, 0, NoNet)>>]
Leave(d, net) == IF net # NoNet THEN <<Cmd("leave", d, 0, net)>> ELSE <<>>
Join(d, net) == IF net # NoNet THEN <<Cmd("join", d, 0, net)>> ELSE <<>>

SubnetAdd(after) ==
  LET add == [d \in Daemons |-> Changes("add", after)[d] \o Join(d, after.net)]
  IN  ForEach(Members(after), add) \o Writes(NoRow, after, TRUE)

TakeSubnet(net) == [d \in Daemons |-> Leave(d, net) \o Deletions[d]]

\* The shared network is changed in every daemon, or, when it stays the same, in none:
\* a daemon that gets the subnet then gets it outside the shared network.
SubnetUpdate(before, after) ==
  LET update == [d \in Daemons |->
                   Changes(IF d \in Members(before) THEN "update" ELSE "add", after)[d]
                   \o IF before.net = after.net THEN <<>>
                      ELSE Leave(d, before.net) \o Join(d, after.net)]
  IN  ForEach(Members(after), update)
      \o ForEach(Members(before) \ Members(after), TakeSubnet(before.net))
      \o Writes(before, after, TRUE)

SubnetDelete(before) ==
  ForEach(Members(before), TakeSubnet(before.net)) \o Writes(before, NoRow, FALSE)

SharedNetworkAdd(after) ==
  ForEach(Members(after), Changes("add", after)) \o Writes(NoRow, after, TRUE)

\* A shared network is deleted with its subnets and added again.
SharedNetworkUpdate(before, after) ==
  LET replace == [d \in Daemons |-> Deletions[d] \o Changes("add", after)[d]]
  IN  ForEach(Members(after), replace)
      \o ForEach(Members(before) \ Members(after), Deletions)
      \o Writes(before, after, TRUE)

SharedNetworkDelete(before) ==
  ForEach(Members(before), Deletions) \o Writes(before, NoRow, FALSE)

\* Commands for reservations act on the hosts database of a daemon.
HostAdd(after) == ForEach(Members(after), Changes("add", after))
HostDelete(before) == ForEach(Members(before), Deletions)
HostUpdate(before, after) == HostDelete(before) \o HostAdd(after)

GlobalParametersUpdate(before, after) ==
  ForEach(Members(after), Changes("set", after)) \o Writes(NoRow, after, FALSE)

Plan(kind, before, after) ==
  CASE Subnet /\ kind = "add" -> SubnetAdd(after)
    [] Subnet /\ kind = "update" -> SubnetUpdate(before, after)
    [] Subnet /\ kind = "delete" -> SubnetDelete(before)
    [] topic = "shared_network" /\ kind = "add" -> SharedNetworkAdd(after)
    [] topic = "shared_network" /\ kind = "update" -> SharedNetworkUpdate(before, after)
    [] topic = "shared_network" /\ kind = "delete" -> SharedNetworkDelete(before)
    [] topic = "host" /\ kind = "add" -> HostAdd(after)
    [] topic = "host" /\ kind = "update" -> HostUpdate(before, after)
    [] topic = "host" /\ kind = "delete" -> HostDelete(before)
    [] OTHER -> GlobalParametersUpdate(before, after)

-----------------------------------------------------------------------------
(* Kea carries out a command                                               *)

Possible(c) ==
  LET m == kea[c.daemon].mem IN
  CASE c.op = "add" -> m.v = 0
    [] c.op \in {"update", "join"} -> m.v # 0 /\ (c.op = "update" \/ m.net = NoNet)
    [] c.op = "leave" -> m.net = c.net
    [] c.op = "del" -> m.v # 0 /\ m.net = NoNet
    [] OTHER -> TRUE

\* There is nothing to delete: Kea answers with an error or with "empty", which the
\* server takes for success.
Missing(c) == c.op = "del" /\ kea[c.daemon].mem.v = 0

Carried(c) ==
  LET k == kea[c.daemon]
      new == CASE c.op = "add" -> [v |-> c.v, net |-> NoNet]
               [] c.op \in {"update", "set"} -> [k.mem EXCEPT !.v = c.v]
               [] c.op = "del" -> Absent
               [] c.op = "join" -> [k.mem EXCEPT !.net = c.net]
               [] c.op = "leave" -> [k.mem EXCEPT !.net = NoNet]
               [] c.op = "reload" -> k.file
               [] OTHER -> k.mem
  IN  [mem |-> new, file |-> IF c.op = "write" \/ topic = "host" THEN new ELSE k.file]

-----------------------------------------------------------------------------
(* Transactions                                                            *)

Idle(u) == txn[u].step = "none"
\* The database says that a daemon has m, in one row, and nothing else.
Recorded(d, m) ==
  LET rows == {i \in Ids : d \in Members(db[i])} IN
  IF m.v = 0 THEN rows = {}
  ELSE \E i \in Ids : rows = {i} /\ db[i].on[d] = m.v /\ db[i].net = m.net
Agreed == \A d \in Daemons : kea[d].mem = kea[d].file /\ Recorded(d, kea[d].mem)

\* History: something happened that transactions cannot know of.
Disturbed == [u \in Users |-> [txn[u] EXCEPT !.calm = FALSE]]

\* The locks of a transaction cover all that it sends.
Covered(t) == t.kind = "update" /\ Members(t.after) \subseteq Members(t.before)

\* Transaction u becomes t.  History: it stays calm when the locks keep the others apart.
Become(u, t) ==
  LET Apart(w) == Idle(w) \/ (Covered(t) /\ Covered(txn[w])) IN
  txn' = [w \in Users |->
    IF w = u THEN [t EXCEPT !.calm = @ /\ \A x \in Users \ {u} : Apart(x)]
    ELSE IF Apart(w) THEN txn[w] ELSE [txn[w] EXCEPT !.calm = FALSE]]

\* A transaction that adds locks nothing.  One object is added at a time (bound).
BeginAdd(u) ==
  /\ Idle(u) /\ changes <= MaxChanges
  /\ \A i \in Ids : ~Exists(i)
  /\ \A w \in Users : txn[w].kind # "add"
  /\ Become(u, Txn("begun", "add", Agreed, 0, NoRow))
  /\ UNCHANGED <<topic, kea, db, seen, locks, pull, changes, faults, had>>

CreateSubnetBegin(u) == Subnet /\ BeginAdd(u)
CreateSharedNetworkBegin(u) == topic = "shared_network" /\ BeginAdd(u)
CreateHostBegin(u) == topic = "host" /\ BeginAdd(u)

\* A transaction that updates reads the object first ...
BeginUpdate(u, i) ==
  /\ Idle(u) /\ changes <= MaxChanges
  /\ Exists(i)
  /\ Become(u, Txn("read", "update", Agreed, i, db[i]))
  /\ UNCHANGED <<topic, kea, db, seen, locks, pull, changes, faults, had>>

BeginSubnetUpdate(u, i) == Subnet /\ BeginUpdate(u, i)
BeginSharedNetworkUpdate(u, i) == topic = "shared_network" /\ BeginUpdate(u, i)
BeginHostUpdate(u, i) == topic = "host" /\ BeginUpdate(u, i)
BeginGlobalParametersUpdate(u) == topic = "global_parameters" /\ BeginUpdate(u, 1)

\* Mutated form: the locks of others are overwritten.
LockUnchecked(u) ==
  /\ ~Idle(u) /\ txn[u].step = "read"
  /\ locks' = [d \in Daemons |-> IF d \in Members(txn[u].before) THEN u ELSE locks[d]]
  /\ txn' = [txn EXCEPT ![u].step = "begun", ![u].calm = @ /\ txn[u].before = db[txn[u].row]]
  /\ UNCHANGED <<topic, kea, db, seen, pull, changes, faults, had>>

\* ... and lock its daemons then.  History: others may have changed it in between.
Lock(u) ==
  /\ ~Idle(u) /\ txn[u].step = "read"
  /\ IF \E d \in Members(txn[u].before) : locks[d] # NoUser
     THEN /\ txn' = [txn EXCEPT ![u] = NoTxn]
          /\ UNCHANGED locks
     ELSE /\ locks' = [d \in Daemons |-> IF d \in Members(txn[u].before) THEN u ELSE locks[d]]
          /\ txn' = [txn EXCEPT ![u] = [txn[u] EXCEPT !.step = "begun",
                       !.calm = @ /\ txn[u].before = db[txn[u].row] /\ Agreed]]
  /\ UNCHANGED <<topic, kea, db, seen, pull, changes, faults, had>>

\* The handlers that begin an update answer then.
UpdateSubnetBegin(u) == Subnet /\ Lock(u)
UpdateSharedNetworkBegin(u) == topic = "shared_network" /\ Lock(u)
UpdateHostBegin(u) == topic = "host" /\ Lock(u)
UpdateGlobalParametersBegin(u) == topic = "global_parameters" /\ Lock(u)

Unlocked(u) == [d \in Daemons |-> IF locks[d] = u THEN NoUser ELSE locks[d]]

\* A submit: the commands are prepared from the object as read and from what the user
\* wants, for the first time or after a failure.
Submit(u, D, net) ==
  LET after == [on |-> [d \in Daemons |-> IF d \in D THEN changes + 1 ELSE 0], net |-> net] IN
  /\ ~Idle(u) /\ txn[u].step = "begun"
  /\ changes <= MaxChanges
  /\ D # {}
  /\ topic = "global_parameters" => D = Members(txn[u].before)
  /\ changes' = changes + 1
  /\ Become(u, [txn[u] EXCEPT !.step = "sending", !.after = after,
                              !.cmds = Plan(txn[u].kind, txn[u].before, after)])
  /\ UNCHANGED <<topic, kea, db, seen, locks, pull, faults, had>>

SubmitSubnet(u, D, net) == Subnet /\ Submit(u, D, net)
SubmitSharedNetwork(u, D) == topic = "shared_network" /\ Submit(u, D, NoNet)
SubmitHost(u, D) == topic = "host" /\ Submit(u, D, NoNet)
SubmitGlobalParameters(u, D) == topic = "global_parameters" /\ Submit(u, D, NoNet)

\* The DELETE handlers read the object, and prepare and send without a lock.
Delete(u, i) ==
  /\ Idle(u) /\ changes <= MaxChanges
  /\ Exists(i)
  /\ changes' = changes + 1
  /\ Become(u, [Txn("sending", "delete", Agreed, i, db[i]) EXCEPT
                  !.cmds = Plan("delete", db[i], NoRow)])
  /\ UNCHANGED <<topic, kea, db, seen, locks, pull, faults, had>>

DeleteSubnet(u, i) == Subnet /\ Delete(u, i)
DeleteSharedNetwork(u, i) == topic = "shared_network" /\ Delete(u, i)
DeleteHost(u, i) == topic = "host" /\ Delete(u, i)

\* After a failure the transaction can be submitted again or cancelled; a deletion ends.
Failed(t) ==
  IF t.kind = "delete" THEN NoTxn
  ELSE Txn("begun", t.kind, FALSE, t.row, t.before)

\* commitChanges sends one command after the other; the first failure ends it, and the
\* commands before stay carried out.  An answer can be lost.
Send(u, carried, answered) ==
  LET c == Head(txn[u].cmds)
      fault == ~answered /\ ~Missing(c) /\ Possible(c) IN
  /\ ~Idle(u) /\ txn[u].step = "sending" /\ txn[u].cmds # <<>>
  /\ carried => Possible(c)
  /\ answered => carried \/ Missing(c)
  /\ fault => faults < MaxFaults[topic]
  /\ faults' = IF fault THEN faults + 1 ELSE faults
  /\ kea' = IF carried THEN [kea EXCEPT ![c.daemon] = Carried(c)] ELSE kea
  /\ had' = [had EXCEPT ![c.daemon] = @ \cup {kea'[c.daemon].mem.v}]
  /\ txn' = [txn EXCEPT ![u] = IF answered THEN [txn[u] EXCEPT !.cmds = Tail(@)] ELSE Failed(txn[u])]
  /\ UNCHANGED <<topic, db, seen, locks, pull, changes>>

Free == CHOOSE i \in Ids : ~Exists(i) /\ \A j \in 1..(i - 1) : Exists(j)

\* What the database holds after a transaction; an object that is not there any more
\* cannot be updated or deleted.
CanStore(t) == IF t.kind = "add" THEN \E i \in Ids : ~Exists(i) ELSE Exists(t.row)

\* A subnet keeps the daemons that no longer have it, until they are pulled.
StoredSubnet(t) ==
  [db EXCEPT ![t.row] = [net |-> t.after.net,
    on |-> [d \in Daemons |-> IF d \in Members(t.after) THEN t.after.on[d] ELSE @.on[d]]]]
\* Hosts and shared networks lose all their daemons first.
StoredObject(t) == [db EXCEPT ![t.row] = t.after]
Added(t) == [db EXCEPT ![Free] = t.after]
Deleted(t) == [db EXCEPT ![t.row] = NoRow]

Stored(t) ==
  CASE t.kind = "add" -> Added(t)
    [] t.kind = "delete" -> Deleted(t)
    [] t.kind = "update" /\ Subnet -> StoredSubnet(t)
    [] OTHER -> StoredObject(t)

\* Mutated form: the database is updated when a command has failed, too.
CommitEarly(u) ==
  /\ ~Idle(u) /\ txn[u].step = "sending"
  /\ CanStore(txn[u])
  /\ db' = Stored(txn[u])
  /\ seen' = IF topic # "global_parameters" THEN seen
             ELSE [d \in Daemons |-> [v |-> db'[1].on[d], net |-> NoNet]]
  /\ txn' = [txn EXCEPT ![u] = NoTxn]
  /\ locks' = Unlocked(u)
  /\ UNCHANGED <<topic, kea, pull, changes, faults, had>>

\* All commands succeeded: the database is updated and the transaction is done.
Commit(u) ==
  /\ ~Idle(u) /\ txn[u].step = "sending" /\ txn[u].cmds = <<>>
  /\ CanStore(txn[u])
  /\ db' = Stored(txn[u])
  /\ seen' = IF topic # "global_parameters" THEN seen
             ELSE [d \in Daemons |-> [v |-> db'[1].on[d], net |-> NoNet]]
  /\ txn' = [txn EXCEPT ![u] = NoTxn]
  /\ locks' = Unlocked(u)
  /\ UNCHANGED <<topic, kea, pull, changes, faults, had>>

\* The database fails, or lacks the object.  The configurations of the daemons are
\* updated one by one.
CommitFails(u) ==
  LET t == txn[u] IN
  /\ ~Idle(u) /\ t.step = "sending" /\ t.cmds = <<>>
  /\ CanStore(t) => faults < MaxFaults[topic]
  /\ faults' = IF CanStore(t) THEN faults + 1 ELSE faults
  /\ \/ UNCHANGED <<db, seen>>
     \/ /\ topic = "global_parameters"
        /\ \E n \in 1..(Len(Order) - 1) : LET D == {Order[k] : k \in 1..n} IN
             /\ db' = [db EXCEPT ![1].on = [d \in Daemons |-> IF d \in D THEN t.after.on[d] ELSE @[d]]]
             /\ seen' = [d \in Daemons |-> [v |-> db'[1].on[d], net |-> NoNet]]
  /\ txn' = [txn EXCEPT ![u] = Failed(t)]
  /\ UNCHANGED <<topic, kea, locks, pull, changes, had>>

\* The user gives up, or the transaction times out.
Cancel(u) ==
  /\ ~Idle(u) /\ txn[u].step = "begun"
  /\ txn' = [txn EXCEPT ![u] = NoTxn]
  /\ locks' = Unlocked(u)
  /\ UNCHANGED <<topic, kea, db, seen, pull, changes, faults, had>>

\* Kea restarts with the configuration of its file, when it is another one.
Restart(d) ==
  /\ faults < MaxFaults[topic]
  /\ kea[d].mem # kea[d].file
  /\ faults' = faults + 1
  /\ kea' = [kea EXCEPT ![d].mem = kea[d].file]
  /\ txn' = Disturbed
  /\ UNCHANGED <<topic, db, seen, locks, pull, changes, had>>

-----------------------------------------------------------------------------
(* The puller of states                                                    *)

\* The configuration of a daemon is fetched and compared with the one in the database.
\* An equal one is skipped, except that it replaces the global parameters.
\* Reservations in hosts databases are none of it.
PullRead(d) ==
  /\ topic # "host"
  /\ pull = NoPull
  /\ kea[d].mem # seen[d] \/ topic = "global_parameters"
  /\ pull' = [step |-> "read", daemon |-> d, conf |-> kea[d].mem]
  /\ txn' = Disturbed
  /\ UNCHANGED <<topic, kea, db, seen, locks, changes, faults, had>>

\* deleteDaemonAssociations
Without(d) == [i \in Ids |-> IF Exists(i) THEN [db[i] EXCEPT !.on[d] = 0] ELSE NoRow]

\* The rows that stand for the object of a daemon: those in the same shared network.
Matching(m) == {i \in Ids : m.v # 0 /\ Exists(i) /\ db[i].net = m.net}
Several(rows) == \E i, j \in rows : i # j

\* CommitAppIntoDB: what the daemon has is matched with the rows, or added.  Rows that
\* cannot be told apart are skipped in a shared network; outside they are an error.
PullCommit ==
  LET d == pull.daemon
      m == pull.conf
      rows == Matching(m)
      i == IF rows # {} THEN CHOOSE j \in rows : TRUE ELSE Free
      new == IF m.v = 0 \/ Several(rows) THEN Without(d)
             ELSE [Without(d) EXCEPT ![i] =
                     [on |-> [@.on EXCEPT ![d] = m.v], net |-> m.net]]
      ambiguous == Several(rows) /\ m.net = NoNet IN
  /\ pull # NoPull
  /\ m.v # 0 /\ rows = {} => \E j \in Ids : ~Exists(j)
  /\ db' = IF topic = "global_parameters" THEN [db EXCEPT ![1].on[d] = m.v]
           ELSE IF ambiguous THEN db
           ELSE [j \in Ids |-> IF Members(new[j]) = {} THEN NoRow ELSE new[j]]
  /\ seen' = IF ambiguous THEN seen ELSE [seen EXCEPT ![d] = m]
  /\ pull' = NoPull
  /\ txn' = Disturbed
  /\ UNCHANGED <<topic, kea, locks, changes, faults, had>>

-----------------------------------------------------------------------------

Begin(u) ==
  \/ CreateSubnetBegin(u) \/ CreateSharedNetworkBegin(u) \/ CreateHostBegin(u)
  \/ \E i \in Ids : BeginSubnetUpdate(u, i) \/ BeginSharedNetworkUpdate(u, i) \/ BeginHostUpdate(u, i)
  \/ BeginGlobalParametersUpdate(u)
  \/ \E i \in Ids : DeleteSubnet(u, i) \/ DeleteSharedNetwork(u, i) \/ DeleteHost(u, i)

Transaction(u) ==
  \/ Begin(u) \/ UpdateSubnetBegin(u) \/ UpdateSharedNetworkBegin(u) \/ UpdateHostBegin(u)
  \/ UpdateGlobalParametersBegin(u) \/ Commit(u) \/ CommitFails(u) \/ Cancel(u)
  \/ \E D \in SUBSET Daemons :
       \/ \E net \in MayBeIn : SubmitSubnet(u, D, net)
       \/ SubmitSharedNetwork(u, D) \/ SubmitHost(u, D) \/ SubmitGlobalParameters(u, D)
  \/ \E carried, answered \in BOOLEAN : Send(u, carried, answered)

Next ==
  \/ \E u \in Users : Transaction(u)
  \/ PullCommit
  \/ \E d \in Daemons : Restart(d) \/ PullRead(d)

Spec == Init /\ [][Next]_vars

-----------------------------------------------------------------------------
(* Properties                                                              *)

Contents == 0..(MaxChanges + 1)
Places == [v : Contents, net : Nets \cup {NoNet}]
\* Type invariant.
TypeOK ==
  /\ topic \in Topics
  /\ kea \in [Daemons -> [mem : Places, file : Places]]
  /\ db \in [Ids -> [on : [Daemons -> Contents], net : Nets \cup {NoNet}]]
  /\ seen \in [Daemons -> Places]
  /\ locks \in [Daemons -> Users \cup {NoUser}]
  /\ \A u \in Users : txn[u].step \in {"none", "read", "begun", "sending"}
  /\ pull.step \in {"none", "read"}
  /\ changes \in 1..(MaxChanges + 1) /\ faults \in 0..MaxFaults[topic]
  /\ had \in [Daemons -> SUBSET Contents]

\* A change that ends well has reached every daemon, in memory and in its file, and
\* the database says so.  It must have started from agreement, with nobody adding
\* or deleting meanwhile, no failure before, no restart of a daemon and no pull of a
\* configuration that is half changed.  Two cases
\* are left to the next pull: a daemon that loses a subnet, and one that gets a subnet whose
\* shared network stays the same.
Later(t) ==
  IF ~Subnet \/ t.kind # "update" THEN {}
  ELSE (Members(t.before) \ Members(t.after))
       \cup IF t.before.net = t.after.net /\ t.after.net # NoNet
            THEN Members(t.after) \ Members(t.before) ELSE {}
SuccessAgrees ==
  [][\A u \in Users :
       ~Idle(u) /\ Commit(u) /\ txn[u].calm =>
         \A d \in Members(txn[u].before) \cup Members(txn[u].after) :
           /\ kea[d].mem = kea[d].file
           /\ (kea[d].mem.v = 0) = (d \notin Members(txn[u].after))
           /\ d \in Later(txn[u]) \/ Recorded(d, kea[d].mem)']_vars

\* The database never says that a daemon has something which no command or earlier
\* configuration gave it, whatever fails, is repeated, or is pulled meanwhile.
NothingClaimedEarly == TypeOK /\ \A i \in Ids : \A d \in Members(db[i]) : db[i].on[d] \in had[d]

=============================================================================
