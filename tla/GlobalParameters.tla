-------------------------- MODULE GlobalParameters --------------------------
(***************************************************************************)
(* Updates of the global parameters of Kea daemons: the REST calls         *)
(* UpdateKeaGlobalParameters{Begin,Submit,Delete} of restservice/config.go, *)
(* the configuration module behind them and the merging of configurations *)
(* in appcfg/kea.                                                          *)
(*                                                                         *)
(* A transaction shows the user the configurations the database has, keeps *)
(* them, overlays the submitted forms on them, gives Kea the results with  *)
(* config-set, has Kea save them with config-write, and stores them.  Any  *)
(* call may fail, in which case the transaction stays open and may be      *)
(* submitted again.  Meanwhile administrators change Kea by other means,   *)
(* Kea restarts from its file, and the state puller copies Kea's           *)
(* configurations into the database.                                       *)
(*                                                                         *)
(* A configuration is a function from parameters to values, Absent when it *)
(* does not hold the parameter; nested maps are flattened, a list is one   *)
(* value (the merge replaces lists whole).                                 *)
(***************************************************************************)
EXTENDS Naturals, FiniteSets

CONSTANTS
  Transactions,  \* the users' transactions
  Daemons,       \* the Kea daemons, all of one kind
  Settable,      \* the parameters the form has
  Others,        \* the parameters it has not: subnets, hooks, loggers...
  Values,        \* the values of a parameter
  Absent,        \* stands for a parameter that is not there
  MaxSubmits,    \* bound: submitted forms
  MaxOutside     \* bound: changes of Kea by other means, restarts and pulls

VARIABLES
  kea, file,     \* daemon -> configuration Kea runs, and has saved
  db,            \* daemon -> configuration in the database
  pulled,        \* daemon -> {the configuration a pull has fetched} or {}
  lock,          \* daemon -> {the transaction that has locked it} or {}
  tx,            \* transaction -> its state
  disturbed,     \* daemons changed by other means since their config-set
  submits, outside

vars == <<kea, file, db, pulled, lock, tx, disturbed, submits, outside>>

Params  == Settable \cup Others
Configs == [Params -> Values \cup {Absent}]
Forms   == [Settable -> Values \cup {Absent}]

(***************************************************************************)
(* A form that leaves a field empty still sets it, to an explicit null,    *)
(* and a null removes the parameter.                                       *)
(***************************************************************************)
NullableOf(form, p) == form[p]
NotNull(form, p)    == form[p] # Absent

Merge(config, form) ==
  [p \in Params |-> IF p \in Settable THEN NullableOf(form, p) ELSE config[p]]

MergeOfPresent(config, form) ==   \* a slip: fields left empty are not sent
  [p \in Params |-> IF p \in Settable /\ NotNull(form, p)
                    THEN form[p] ELSE config[p]]

Merged(config, form) == Merge(config, form)

Closed == [pc |-> "closed"]
Read(ds, configs) == [pc |-> "read", shown |-> configs, copies |-> configs]
Of(t) == DOMAIN tx[t].copies

Init ==
  /\ \E v \in Values : kea = [d \in Daemons |-> [p \in Params |-> v]]
  /\ file = kea /\ db = kea
  /\ pulled = [d \in Daemons |-> {}]
  /\ lock = [d \in Daemons |-> {}]
  /\ tx = [t \in Transactions |-> Closed]
  /\ disturbed = {} /\ submits = 0 /\ outside = 0

-----------------------------------------------------------------------------
(***************************************************************************)
(* Beginning: the daemons are read, then locked; when another transaction  *)
(* has locked one of them, the call is refused.                            *)
(***************************************************************************)
GetDaemons(t) ==
  /\ tx[t].pc = "closed"
  /\ \E ds \in (SUBSET Daemons) \ {{}} :
       tx' = [tx EXCEPT ![t] = Read(ds, [d \in ds |-> db[d]])]
  /\ UNCHANGED <<kea, file, db, pulled, lock, disturbed, submits, outside>>

MayLock(t) == \A d \in Of(t) : lock[d] \subseteq {t}

LockDaemons(t) ==
  /\ tx[t].pc = "read"
  /\ IF MayLock(t)
     THEN /\ lock' = [d \in Daemons |-> IF d \in Of(t) THEN {t} ELSE lock[d]]
          /\ tx' = [tx EXCEPT ![t].pc = "open"]
     ELSE tx' = [tx EXCEPT ![t] = Closed] /\ UNCHANGED lock
  /\ UNCHANGED <<kea, file, db, pulled, disturbed, submits, outside>>

(***************************************************************************)
(* Submitting: each form is merged into the kept configuration of its      *)
(* daemon, in place; a submit without a form for every daemon is refused   *)
(* only after that.                                                        *)
(***************************************************************************)
Apply(t) ==
  /\ tx[t].pc = "open" /\ submits < MaxSubmits
  /\ \E given \in (SUBSET Of(t)) \ {{}} : \E form \in Forms :
       LET copies == [d \in Of(t) |->
              IF d \in given THEN Merged(tx[t].copies[d], form) ELSE tx[t].copies[d]]
       IN tx' = [tx EXCEPT ![t] =
            IF given = Of(t)
            THEN [pc |-> "sending", shown |-> tx[t].shown, copies |-> copies,
                  form |-> form, toSet |-> given, toWrite |-> given, toStore |-> given]
            ELSE [pc |-> "open", shown |-> tx[t].shown, copies |-> copies]]
  /\ submits' = submits + 1
  /\ UNCHANGED <<kea, file, db, pulled, lock, disturbed, outside>>

GiveUp(t) == [pc |-> "open", shown |-> tx[t].shown, copies |-> tx[t].copies]

(***************************************************************************)
(* The commands: config-set for every daemon, then config-write for every  *)
(* daemon; the first failure ends them.  A command that failed for Stork   *)
(* may have been carried out.                                              *)
(***************************************************************************)
ConfigSet(t, d) ==
  /\ tx[t].pc = "sending" /\ d \in tx[t].toSet
  /\ \E done, answered \in BOOLEAN :
       /\ answered => done
       /\ kea' = IF done THEN [kea EXCEPT ![d] = tx[t].copies[d]] ELSE kea
       /\ disturbed' = IF done THEN disturbed \ {d} ELSE disturbed
       /\ tx' = [tx EXCEPT ![t] =
            IF answered THEN [tx[t] EXCEPT !.toSet = tx[t].toSet \ {d}] ELSE GiveUp(t)]
  /\ UNCHANGED <<file, db, pulled, lock, submits, outside>>

ConfigWrite(t, d) ==
  /\ tx[t].pc = "sending" /\ tx[t].toSet = {} /\ d \in tx[t].toWrite
  /\ \E done, answered \in BOOLEAN :
       /\ answered => done
       /\ file' = IF done THEN [file EXCEPT ![d] = kea[d]] ELSE file
       /\ tx' = [tx EXCEPT ![t] =
            IF answered THEN [tx[t] EXCEPT !.toWrite = tx[t].toWrite \ {d}] ELSE GiveUp(t)]
  /\ UNCHANGED <<kea, db, pulled, lock, disturbed, submits, outside>>

(***************************************************************************)
(* Then the rows of the daemons are updated, one transaction for each.     *)
(***************************************************************************)
UpdateDaemon(t, d) ==
  /\ tx[t].pc = "sending" /\ tx[t].toWrite = {} /\ d \in tx[t].toStore
  /\ \/ /\ db' = [db EXCEPT ![d] = tx[t].copies[d]]
        /\ tx' = [tx EXCEPT ![t].toStore = @ \ {d}]
     \/ tx' = [tx EXCEPT ![t] = GiveUp(t)] /\ UNCHANGED db
  /\ UNCHANGED <<kea, file, pulled, lock, disturbed, submits, outside>>

(***************************************************************************)
(* The end of a successful submit, and the cancelling of an open           *)
(* transaction: the daemons are unlocked.                                  *)
(***************************************************************************)
Succeeded(t) == tx[t].pc = "sending" /\ tx[t].toStore = {}

Done(t) ==
  /\ Succeeded(t) \/ tx[t].pc = "open"
  /\ lock' = [d \in Daemons |-> lock[d] \ {t}]
  /\ tx' = [tx EXCEPT ![t] = Closed]
  /\ UNCHANGED <<kea, file, db, pulled, disturbed, submits, outside>>

(***************************************************************************)
(* A pull of the state fetches a configuration and later stores it.        *)
(***************************************************************************)
Fetch(d) ==
  /\ pulled[d] = {} /\ kea[d] # db[d] /\ outside < MaxOutside
  /\ pulled' = [pulled EXCEPT ![d] = {kea[d]}]
  /\ outside' = outside + 1
  /\ UNCHANGED <<kea, file, db, lock, tx, disturbed, submits>>

Store(d) ==
  /\ \E c \in pulled[d] : db' = [db EXCEPT ![d] = c]
  /\ pulled' = [pulled EXCEPT ![d] = {}]
  /\ UNCHANGED <<kea, file, lock, tx, disturbed, submits, outside>>

(***************************************************************************)
(* Kea is changed by other means, without saving, or restarts.             *)
(***************************************************************************)
ChangeKea(d) ==
  /\ outside < MaxOutside
  /\ \/ \E p \in Params, v \in Values \cup {Absent} : kea' = [kea EXCEPT ![d][p] = v]
     \/ kea' = [kea EXCEPT ![d] = file[d]]
  /\ disturbed' = disturbed \cup {d}
  /\ outside' = outside + 1
  /\ UNCHANGED <<file, db, pulled, lock, tx, submits>>

Next ==
  \/ \E t \in Transactions :
       \/ GetDaemons(t) \/ LockDaemons(t) \/ Apply(t) \/ Done(t)
       \/ \E d \in Daemons : ConfigSet(t, d) \/ ConfigWrite(t, d) \/ UpdateDaemon(t, d)
  \/ \E d \in Daemons : Fetch(d) \/ Store(d) \/ ChangeKea(d)

Spec == Init /\ [][Next]_vars

-----------------------------------------------------------------------------
TypeOK ==
  /\ {kea, file, db} \subseteq [Daemons -> Configs]
  /\ \A d \in Daemons : lock[d] \subseteq Transactions /\ Cardinality(lock[d]) <= 1
  /\ \A t \in Transactions : tx[t].pc \in {"closed", "read", "open", "sending"}

(***************************************************************************)
(* A submit that succeeds has left in Kea and in its file exactly the last *)
(* form, with the other parameters as the user was shown them, whatever    *)
(* was submitted before without success and whatever other transactions    *)
(* did meanwhile, unless Kea was changed by other means after the          *)
(* config-set: transactions over the same daemons exclude each other, and  *)
(* what a failed submit has merged into the kept configurations is undone  *)
(* by the next form.                                                       *)
(***************************************************************************)
SuccessIsTheForm ==
  \A t \in Transactions : Succeeded(t) =>
    \A d \in Of(t) \ disturbed :
      /\ kea[d] = file[d]
      /\ \A p \in Params :
           kea[d][p] = IF p \in Settable THEN tx[t].form[p] ELSE tx[t].shown[d][p]
=============================================================================
