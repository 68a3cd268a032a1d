--------------------------- MODULE ConfigManager ---------------------------
(***************************************************************************)
(* The configuration manager of the server (server/apps/manager.go) with   *)
(* the REST handlers that use it (server/restservice/hosts.go; subnets,    *)
(* shared networks and global parameters follow the same steps) and the    *)
(* Kea module that prepares and commits changes                            *)
(* (server/apps/kea/configmodule.go).                                      *)
(*                                                                         *)
(* A transaction begins by reading the edited object, locking the daemons  *)
(* that own it and remembering a context with a timer.  Later calls        *)
(* recover the context and submit or cancel the change; deletions need no  *)
(* transaction.  Handlers and timers are goroutines, and only the manager's *)
(* mutex orders them; generateKey runs without it.                         *)
(*                                                                         *)
(* An object is known by the daemons that own it.  Context identifiers are *)
(* random and taken to be distinct; a transaction and a request are used   *)
(* once, so their number bounds the run.                                   *)
(***************************************************************************)
EXTENDS Integers, FiniteSets, Sequences

CONSTANTS
  Users, Daemons, Objects,
  Transactions,   \* context identifiers
  Requests,       \* calls that submit, cancel or delete
  InitialOwners,  \* the daemons that own each object in the database
  Targets,        \* the sets of daemons users give objects to
  NoOne           \* no user, object or transaction

ASSUME OwnersAssumption == InitialOwners \in [Objects -> SUBSET Daemons]
ASSUME TargetsAssumption == Targets \subseteq (SUBSET Daemons) \ {{}}
ASSUME DaemonsAssumption == IsFiniteSet(Daemons)
ASSUME NoOneAssumption == NoOne \notin Users \cup Objects \cup Transactions

VARIABLES
  key,        \* manager.key, the last generated lock key
  locks,      \* manager.locks: the key of the lock on a daemon, 0 for no lock
  contexts,   \* manager.contexts: the transactions remembered
  tx,         \* the values the context of each transaction carries
  timer,      \* the goroutine RememberContext starts
  req,        \* the handlers of the later calls
  owners      \* the database: the owners of an object, {} when there is none

vars == <<key, locks, contexts, tx, timer, req, owners>>

Tx == [phase  : {"unused", "read", "keying", "keyed", "locked", "begun", "refused"},
       kind   : {"add", "update"},
       user   : Users \cup {NoOne},
       object : Objects \cup {NoOne},
       before : SUBSET Daemons,       \* HostBeforeUpdate
       key    : Nat,                  \* LockContextKey, 0 when there is none
       daemons: SUBSET Daemons,       \* DaemonsContextKey
       after  : SUBSET Daemons]       \* HostAfterUpdate, shared by all submits

Req == [pc    : {"idle", "recovered", "applied", "sending", "stored", "cancelling", "ended"},
        kind  : {"submit", "cancel", "delete"},
        tx    : Transactions \cup {NoOne},
        object: Objects \cup {NoOne},
        dels  : SUBSET Daemons,       \* commands still to be sent: removals
        adds  : SUBSET Daemons]       \* and then additions

NoTx == [phase |-> "unused", kind |-> "update", user |-> NoOne, object |-> NoOne,
         before |-> {}, key |-> 0, daemons |-> {}, after |-> {}]
NoReq == [pc |-> "idle", kind |-> "submit", tx |-> NoOne, object |-> NoOne,
          dels |-> {}, adds |-> {}]

Init ==
  /\ key = 0
  /\ locks = [d \in Daemons |-> 0]
  /\ contexts = {}
  /\ tx = [t \in Transactions |-> NoTx]
  /\ timer = [t \in Transactions |-> "off"]
  /\ req = [r \in Requests |-> NoReq]
  /\ owners = InitialOwners

-----------------------------------------------------------------------------
(* Locks.  The operators work on a value of the map, for one key.          *)

Orders(S) == {s \in [1 .. Cardinality(S) -> S] : \A d \in S : \E i \in DOMAIN s : s[i] = d}

\* lock, for the first n daemons of ds.
LockFirst(L, k, ds, n) == [d \in Daemons |-> IF \E i \in 1 .. n : ds[i] = d THEN k ELSE L[d]]

\* Mutated form: the key of the lock is not compared.
UnlockAnyKey(L, k, D) == [d \in Daemons |-> IF d \in D THEN 0 ELSE L[d]]

\* unlockDaemon, for every daemon of D.
Unlock(L, k, D) == [d \in Daemons |-> IF d \in D /\ L[d] = k THEN 0 ELSE L[d]]

\* The daemons before the one that could not be locked are unlocked again.
RollBack(L, k, ds, n) == Unlock(L, k, {ds[i] : i \in 1 .. n})

\* Mutated form: the locks are not removed.
DoneKeepsLocks(t) ==
  /\ contexts' = contexts \ {t}
  /\ UNCHANGED locks

\* Done: the context is forgotten and its locks are removed.
Done(t) ==
  /\ contexts' = contexts \ {t}
  /\ locks' = Unlock(locks, tx[t].key, tx[t].daemons)

-----------------------------------------------------------------------------
(* Beginning a transaction: one handler per transaction.                   *)

\* CreateContext and BeginHostAdd: nothing is locked.
BeginAdd(t, u, o) ==
  /\ tx[t].phase = "unused"
  /\ tx' = [tx EXCEPT ![t] = [NoTx EXCEPT !.phase = "locked", !.kind = "add", !.user = u, !.object = o]]
  /\ UNCHANGED <<key, locks, contexts, timer, req, owners>>

\* CreateContext, and BeginHostUpdate reads the object, which must exist,
\* before it locks its owners.
BeginUpdate(t, u, o) ==
  /\ tx[t].phase = "unused"
  /\ owners[o] # {}
  /\ tx' = [tx EXCEPT ![t] = [NoTx EXCEPT !.phase = "read", !.user = u, !.object = o, !.before = owners[o]]]
  /\ UNCHANGED <<key, locks, contexts, timer, req, owners>>

\* generateKey increments the counter in two steps and no mutex is held: two
\* transactions may get the same key.
LoadKey(t) ==
  /\ tx[t].phase = "read"
  /\ tx' = [tx EXCEPT ![t].phase = "keying", ![t].key = key]
  /\ UNCHANGED <<key, locks, contexts, timer, req, owners>>

StoreKey(t) ==
  /\ tx[t].phase = "keying"
  /\ key' = tx[t].key + 1
  /\ tx' = [tx EXCEPT ![t].phase = "keyed", ![t].key = key']
  /\ UNCHANGED <<locks, contexts, timer, req, owners>>

\* The rest of Lock, under the mutex, for the owners in the order the database
\* gave.
Lock(t) ==
  /\ tx[t].phase = "keyed"
  /\ \E ds \in Orders(tx[t].before) :
       LET k    == tx[t].key
           held == {i \in DOMAIN ds : locks[ds[i]] # 0}
       IN
       \/ /\ held = {}
          /\ locks' = LockFirst(locks, k, ds, Len(ds))
          /\ tx' = [tx EXCEPT ![t].phase = "locked", ![t].daemons = tx[t].before]
       \/ \E n \in held :
          /\ \A i \in held : n <= i
          /\ locks' = RollBack(LockFirst(locks, k, ds, n - 1), k, ds, n - 1)
          /\ tx' = [tx EXCEPT ![t].phase = "refused"]
  /\ UNCHANGED <<key, contexts, timer, req, owners>>

\* Mutated form: no timer is started.
RememberForever(t) ==
  /\ tx[t].phase = "locked"
  /\ tx' = [tx EXCEPT ![t].phase = "begun"]
  /\ contexts' = contexts \cup {t}
  /\ UNCHANGED <<key, locks, timer, req, owners>>

\* RememberContext: the identifier is new.
Remember(t) ==
  /\ tx[t].phase = "locked"
  /\ tx' = [tx EXCEPT ![t].phase = "begun"]
  /\ contexts' = contexts \cup {t}
  /\ timer' = [timer EXCEPT ![t] = "armed"]
  /\ UNCHANGED <<key, locks, req, owners>>

-----------------------------------------------------------------------------
(* The timer of a context.                                                 *)

\* The ten minutes are over.  select may take this branch even when the
\* context has just been cancelled.
Expire(t) ==
  /\ timer[t] = "armed"
  /\ timer' = [timer EXCEPT ![t] = "expired"]
  /\ UNCHANGED <<key, locks, contexts, tx, req, owners>>

\* The context has been cancelled by Done.
StopTimer(t) ==
  /\ timer[t] = "armed"
  /\ t \notin contexts
  /\ timer' = [timer EXCEPT ![t] = "off"]
  /\ UNCHANGED <<key, locks, contexts, tx, req, owners>>

TimerDone(t) ==
  /\ timer[t] = "expired"
  /\ timer' = [timer EXCEPT ![t] = "off"]
  /\ Done(t)
  /\ UNCHANGED <<key, tx, req, owners>>

-----------------------------------------------------------------------------
(* Submitting, cancelling and deleting: one handler per request.           *)

\* RecoverContext gives the context to the user who began the transaction.
Recover(r, u, t) ==
  /\ req[r].pc = "idle"
  /\ t \in contexts
  /\ tx[t].user = u
  /\ \/ req' = [req EXCEPT ![r].pc = "recovered", ![r].tx = t, ![r].object = tx[t].object]
     \/ req' = [req EXCEPT ![r].pc = "cancelling", ![r].kind = "cancel", ![r].tx = t]
  /\ UNCHANGED <<key, locks, contexts, tx, timer, owners>>

\* The specified host is not valid, or ApplyHostAdd or ApplyHostUpdate fails:
\* the context stays.
Reject(r) ==
  /\ req[r].pc = "recovered"
  /\ req' = [req EXCEPT ![r].pc = "ended"]
  /\ UNCHANGED <<key, locks, contexts, tx, timer, owners>>

\* The user specifies the daemons that shall own the object.  The recipe is
\* stored behind a pointer, for all the handlers of the transaction.
Apply(r, D) ==
  /\ req[r].pc = "recovered"
  /\ tx' = [tx EXCEPT ![req[r].tx].after = D]
  /\ req' = [req EXCEPT ![r].pc = "applied"]
  /\ UNCHANGED <<key, locks, contexts, timer, owners>>

\* DeleteHost reads the host and prepares the commands; nothing is locked.
Delete(r, o) ==
  /\ req[r].pc = "idle"
  /\ owners[o] # {}
  /\ req' = [req EXCEPT ![r].pc = "sending", ![r].kind = "delete", ![r].object = o, ![r].dels = owners[o]]
  /\ UNCHANGED <<key, locks, contexts, tx, timer, owners>>

\* Commit takes the commands out of the recipe.
Commit(r) ==
  /\ req[r].pc = "applied"
  /\ LET t == req[r].tx IN
     req' = [req EXCEPT ![r].pc = "sending", ![r].dels = tx[t].before, ![r].adds = tx[t].after]
  /\ UNCHANGED <<key, locks, contexts, tx, timer, owners>>

\* One command; the first failure ends the commit, and the handler.
Send(r, d) ==
  /\ req[r].pc = "sending"
  /\ \/ d \in req[r].dels /\ req' = [req EXCEPT ![r].dels = @ \ {d}]
     \/ req[r].dels = {} /\ d \in req[r].adds /\ req' = [req EXCEPT ![r].adds = @ \ {d}]
     \/ d \in req[r].dels \cup req[r].adds /\ req' = [req EXCEPT ![r].pc = "ended", ![r].dels = {}, ![r].adds = {}]
  /\ UNCHANGED <<key, locks, contexts, tx, timer, owners>>

\* The database is updated when all commands succeeded.  A deletion needs no
\* Done; an update of an object that is gone fails.
Store(r) ==
  /\ req[r].pc = "sending"
  /\ req[r].dels \cup req[r].adds = {}
  /\ LET o == req[r].object
         t == req[r].tx
     IN
     \/ /\ req[r].kind = "delete"
        /\ owners' = [owners EXCEPT ![o] = {}]
        /\ req' = [req EXCEPT ![r].pc = "ended"]
     \/ /\ req[r].kind = "submit"
        /\ tx[t].kind = "update" => owners[o] # {}
        /\ owners' = [owners EXCEPT ![o] = tx[t].after]
        /\ req' = [req EXCEPT ![r].pc = "stored"]
     \/ /\ req' = [req EXCEPT ![r].pc = "ended"]           \* the database fails
        /\ UNCHANGED owners
  /\ UNCHANGED <<key, locks, contexts, tx, timer>>

\* The last step of a submit that succeeded, and of a cancellation.
Finish(r) ==
  /\ req[r].pc \in {"stored", "cancelling"}
  /\ req' = [req EXCEPT ![r].pc = "ended"]
  /\ Done(req[r].tx)
  /\ UNCHANGED <<key, tx, timer, owners>>

-----------------------------------------------------------------------------

Begin(t) == LoadKey(t) \/ StoreKey(t) \/ Lock(t) \/ Remember(t)
Timer(t) == Expire(t) \/ StopTimer(t) \/ TimerDone(t)
Handler(r) ==
  \/ Reject(r) \/ (\E D \in Targets : Apply(r, D)) \/ Commit(r)
  \/ (\E d \in Daemons : Send(r, d)) \/ Store(r) \/ Finish(r)

Next ==
  \/ \E t \in Transactions, u \in Users, o \in Objects : BeginAdd(t, u, o) \/ BeginUpdate(t, u, o)
  \/ \E t \in Transactions : Begin(t) \/ Timer(t)
  \/ \E r \in Requests, u \in Users, t \in Transactions : Recover(r, u, t)
  \/ \E r \in Requests, o \in Objects : Delete(r, o)
  \/ \E r \in Requests : Handler(r)

Spec == Init /\ [][Next]_vars

(***************************************************************************)
(* Go runs every goroutine that can run, and the timer expires; no user    *)
(* has to submit or cancel what was begun.                                 *)
(***************************************************************************)
FairSpec == Spec /\ \A t \in Transactions : WF_vars(Begin(t)) /\ WF_vars(Timer(t))

-----------------------------------------------------------------------------

\* Every variable has its type.
TypeOK ==
  /\ key \in Nat
  /\ locks \in [Daemons -> Nat]
  /\ contexts \in SUBSET Transactions
  /\ tx \in [Transactions -> Tx]
  /\ timer \in [Transactions -> {"off", "armed", "expired"}]
  /\ req \in [Requests -> Req]
  /\ owners \in [Objects -> SUBSET Daemons]

\* A transaction that has passed Lock and has not been done.
Live(t) == tx[t].phase = "locked" \/ t \in contexts

\* No lock outlives its transaction, whatever handlers and timers race, so a
\* daemon can never be locked forever: RememberContext's timer is the only one
\* who cleans up after a user who goes away.
NoOrphanLocks ==
  \A d \in Daemons : locks[d] # 0 =>
    \E t \in Transactions : Live(t) /\ d \in tx[t].daemons /\ locks[d] = tx[t].key

\* The locks of a transaction have been given to it alone.
HoldsItsLocks(t) == \A d \in tx[t].daemons : locks[d] = tx[t].key
Locking == {t \in Transactions : tx[t].phase \in {"locked", "begun"} /\ tx[t].kind = "update"}
DistinctKeys == \A s, t \in Locking : tx[s].key = tx[t].key => s = t

\* As long as no two transactions have locked with the same key, a transaction
\* that has not been done holds the lock of every daemon it locked, so no two of
\* them edit what the same daemon owns: a late cancellation, submission or
\* timer of another transaction does not take the lock away.
LiveHoldsItsLocks == DistinctKeys => \A t \in Transactions : Live(t) => HoldsItsLocks(t)

\* Lock takes all locks or none: a transaction that is refused leaves the
\* locks of the daemons it got before the refusal as they were.
RefusalLeavesNoLock ==
  [][\A t \in Transactions : tx'[t].phase = "refused" /\ tx[t].phase # "refused" => locks' = locks]_vars

\* A lock is released even if nobody submits or cancels the transaction.
LocksAreReleased == \A d \in Daemons : locks[d] # 0 ~> locks[d] = 0

\* What the handlers have done when they reach a phase; with NoOrphanLocks and
\* LiveHoldsItsLocks it is inductive.
Recovered(r) ==
  \/ req[r].pc \in {"recovered", "applied", "stored", "cancelling"}
  \/ req[r].pc = "sending" /\ req[r].kind = "submit"
Phases ==
  /\ \A t \in Transactions :
       /\ t \in contexts \/ timer[t] # "off" => tx[t].phase = "begun"
       /\ tx[t].daemons # {} => t \in Locking
       /\ t \in Locking => tx[t].key > 0
       /\ tx[t].phase \in {"read", "keying", "keyed"} => tx[t].kind = "update"
       /\ tx[t].phase = "keyed" => tx[t].key > 0
  /\ \A r \in Requests : Recovered(r) => req[r].tx \in Transactions /\ tx[req[r].tx].phase = "begun"

IInv == TypeOK /\ Phases /\ NoOrphanLocks /\ LiveHoldsItsLocks

=============================================================================
