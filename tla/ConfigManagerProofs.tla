------------------------ MODULE ConfigManagerProofs ------------------------
(***************************************************************************)
(* Proofs about ConfigManager, for any sets of users, objects, daemons,    *)
(* transactions and calls.                                                 *)
(*                                                                         *)
(* At the end, about the agents through which a configuration is sent      *)
(* (AgentComm): requests that are taken are answered, callers find the     *)
(* first command that failed, and what is announced as failed is failing,  *)
(* for any number of callers and of faults of the agent.  The              *)
(* strengthening says who has an entry of the agent and how many are still *)
(* to be made.                                                             *)
(*                                                                         *)
(* And about the changes that users make in Kea (KeaChanges): the database *)
(* claims of a daemon only what it has had, for any number of users,       *)
(* daemons, rows, submits and faults.  The strengthening says that what a  *)
(* transaction is to store was given to the daemons or is among the        *)
(* commands still to be sent; the list of commands is a recursive          *)
(* function, and what holds of it for every number of daemons is proved    *)
(* from the least number for which it would not hold.                      *)
(***************************************************************************)
EXTENDS ConfigManager, MCAgentComm, MCKeaChanges, Sequences, FiniteSetTheorems, WellFoundedInduction,
        TLAPS

\* Unlocking with a key gives a map of locks and touches no lock of another key.
LEMMA UnlockLocks ==
  ASSUME NEW L \in [Daemons -> Nat], NEW k \in Nat, NEW D
  PROVE  /\ Unlock(L, k, D) \in [Daemons -> Nat]
         /\ \A d \in Daemons : L[d] # k => Unlock(L, k, D)[d] = L[d]
         /\ \A d \in Daemons : Unlock(L, k, D)[d] # 0 => Unlock(L, k, D)[d] = L[d] /\ (d \in D => L[d] # k)
  BY DEF Unlock

\* Rolling back the locks Lock has taken so far gives the map it found: they
\* were free, and a free lock has no key.
LEMMA RollBackRestores ==
  ASSUME NEW L \in [Daemons -> Nat], NEW k \in Nat, k > 0, NEW ds, NEW n,
         \A i \in 1 .. n : ds[i] \in Daemons => L[ds[i]] = 0
  PROVE  RollBack(LockFirst(L, k, ds, n), k, ds, n) = L
  BY DEF RollBack, LockFirst, Unlock

\* A refused Lock leaves the locks alone, and an accepted one found all of them
\* free and took them.
LEMMA LockLocks ==
  ASSUME IInv, NEW t \in Transactions, Lock(t)
  PROVE  \/ /\ tx' = [tx EXCEPT ![t].phase = "refused"]
            /\ locks' = locks
         \/ /\ tx' = [tx EXCEPT ![t].phase = "locked", ![t].daemons = tx[t].before]
            /\ \A d \in tx[t].before : locks[d] = 0
            /\ locks' = [d \in Daemons |-> IF d \in tx[t].before THEN tx[t].key ELSE locks[d]]
  <1>1. tx[t].key \in Nat /\ tx[t].key > 0 /\ tx[t].before \subseteq Daemons /\ locks \in [Daemons -> Nat]
    BY DEF IInv, TypeOK, Tx, Phases, Lock
  <1>2. PICK ds \in Orders(tx[t].before) :
          LET k    == tx[t].key
              held == {i \in DOMAIN ds : locks[ds[i]] # 0}
          IN
          \/ /\ held = {}
             /\ locks' = LockFirst(locks, k, ds, Len(ds))
             /\ tx' = [tx EXCEPT ![t].phase = "locked", ![t].daemons = tx[t].before]
          \/ \E n \in held :
             /\ \A i \in held : n <= i
             /\ locks' = RollBack(LockFirst(locks, k, ds, n - 1), k, ds, n - 1)
             /\ tx' = [tx EXCEPT ![t].phase = "refused"]
    BY DEF Lock
  <1> DEFINE N == Cardinality(tx[t].before)
             held == {i \in DOMAIN ds : locks[ds[i]] # 0}
  <1>3. /\ N \in Nat /\ ds \in [1 .. N -> tx[t].before] /\ Len(ds) = N
        /\ \A d \in tx[t].before : \E i \in 1 .. N : ds[i] = d
    <2>1. IsFiniteSet(tx[t].before)
      BY <1>1, DaemonsAssumption, FS_Subset
    <2> QED  BY <1>2, <2>1, FS_CardinalityType DEF Orders
  <1>4. CASE /\ held = {}
             /\ locks' = LockFirst(locks, tx[t].key, ds, Len(ds))
             /\ tx' = [tx EXCEPT ![t].phase = "locked", ![t].daemons = tx[t].before]
    <2>1. \A d \in tx[t].before : locks[d] = 0
      BY <1>3, <1>4
    <2>2. locks' = [d \in Daemons |-> IF d \in tx[t].before THEN tx[t].key ELSE locks[d]]
      BY <1>1, <1>3, <1>4 DEF LockFirst
    <2> QED  BY <1>4, <2>1, <2>2
  <1>5. CASE \E n \in held :
             /\ \A i \in held : n <= i
             /\ locks' = RollBack(LockFirst(locks, tx[t].key, ds, n - 1), tx[t].key, ds, n - 1)
             /\ tx' = [tx EXCEPT ![t].phase = "refused"]
    <2>1. PICK n \in held :
             /\ \A i \in held : n <= i
             /\ locks' = RollBack(LockFirst(locks, tx[t].key, ds, n - 1), tx[t].key, ds, n - 1)
             /\ tx' = [tx EXCEPT ![t].phase = "refused"]
      BY <1>5
    <2>2. \A i \in 1 .. (n - 1) : locks[ds[i]] = 0
      BY <1>3, <2>1
    <2>3. locks' = locks
      BY <1>1, <2>1, <2>2, RollBackRestores
    <2> QED  BY <2>1, <2>3
  <1> QED  BY <1>2, <1>4, <1>5

\* The invariant is preserved: a transaction that adds begins.
LEMMA BeginAddInv ==
  ASSUME IInv, NEW t \in Transactions, NEW u \in Users, NEW o \in Objects, BeginAdd(t, u, o)
  PROVE  IInv'
  <1> USE DEF IInv
  <1>1. TypeOK'
    <2>1. t \in Transactions /\ tx[t] \in Tx
      BY DEF TypeOK
    <2>2. \E x \in Tx : tx' = [tx EXCEPT ![t] = x]
      BY <2>1 DEF Tx, BeginAdd, NoTx, TypeOK
    <2> QED  BY <2>1, <2>2 DEF TypeOK, BeginAdd
  <1>2. Phases'
    BY DEF BeginAdd, TypeOK, Tx, Req, Phases, Locking, Recovered, NoTx
  <1>3. NoOrphanLocks'
    BY DEF BeginAdd, TypeOK, Tx, Phases, NoOrphanLocks, Live, NoTx
  <1>4. LiveHoldsItsLocks'
    BY ZenonT(60) DEF BeginAdd, TypeOK, Tx, Phases, LiveHoldsItsLocks, DistinctKeys, Locking, HoldsItsLocks, Live, NoTx
  <1> QED  BY <1>1, <1>2, <1>3, <1>4

\* The invariant is preserved: a transaction that updates begins.
LEMMA BeginUpdateInv ==
  ASSUME IInv, NEW t \in Transactions, NEW u \in Users, NEW o \in Objects, BeginUpdate(t, u, o)
  PROVE  IInv'
  <1> USE DEF IInv
  <1>1. TypeOK'
    <2>1. t \in Transactions /\ tx[t] \in Tx
      BY DEF TypeOK
    <2>2. \E x \in Tx : tx' = [tx EXCEPT ![t] = x]
      BY <2>1 DEF Tx, BeginUpdate, NoTx, TypeOK
    <2> QED  BY <2>1, <2>2 DEF TypeOK, BeginUpdate
  <1>2. Phases'
    BY DEF BeginUpdate, TypeOK, Tx, Req, Phases, Locking, Recovered, NoTx
  <1>3. NoOrphanLocks'
    BY DEF BeginUpdate, TypeOK, Tx, Phases, NoOrphanLocks, Live, NoTx
  <1>4. LiveHoldsItsLocks'
    BY DEF BeginUpdate, TypeOK, Tx, Phases, LiveHoldsItsLocks, DistinctKeys, Locking, HoldsItsLocks, Live, NoTx
  <1> QED  BY <1>1, <1>2, <1>3, <1>4

\* The invariant is preserved: generateKey reads the counter.
LEMMA LoadKeyInv ==
  ASSUME IInv, NEW t \in Transactions, LoadKey(t)
  PROVE  IInv'
  <1> USE DEF IInv
  <1>1. TypeOK'
    <2>1. t \in Transactions /\ tx[t] \in Tx
      BY DEF TypeOK
    <2>2. \E x \in Tx : tx' = [tx EXCEPT ![t] = x]
      BY <2>1 DEF Tx, LoadKey, TypeOK
    <2> QED  BY <2>1, <2>2 DEF TypeOK, LoadKey
  <1>2. Phases'
    BY DEF LoadKey, TypeOK, Tx, Req, Phases, Locking, Recovered
  <1>3. NoOrphanLocks'
    BY DEF LoadKey, TypeOK, Tx, Phases, NoOrphanLocks, Live
  <1>4. LiveHoldsItsLocks'
    BY ZenonT(60) DEF LoadKey, TypeOK, Tx, Phases, LiveHoldsItsLocks, DistinctKeys, Locking, HoldsItsLocks, Live
  <1> QED  BY <1>1, <1>2, <1>3, <1>4

\* The invariant is preserved: generateKey writes the counter.
LEMMA StoreKeyInv ==
  ASSUME IInv, NEW t \in Transactions, StoreKey(t)
  PROVE  IInv'
  <1> USE DEF IInv
  <1>1. TypeOK'
    BY DEF StoreKey, TypeOK, Tx, Req
  <1>2. Phases'
    BY DEF StoreKey, TypeOK, Tx, Req, Phases, Locking, Recovered
  <1>3. NoOrphanLocks'
    BY DEF StoreKey, TypeOK, Tx, Phases, NoOrphanLocks, Live
  <1>4. LiveHoldsItsLocks'
    BY DEF StoreKey, TypeOK, Tx, Phases, LiveHoldsItsLocks, DistinctKeys, Locking, HoldsItsLocks, Live
  <1> QED  BY <1>1, <1>2, <1>3, <1>4

\* The invariant is preserved: Lock.
LEMMA LockInv ==
  ASSUME IInv, NEW t \in Transactions, Lock(t)
  PROVE  IInv'
  <1> USE DEF IInv
  <1>0. /\ \/ /\ tx' = [tx EXCEPT ![t].phase = "refused"]
              /\ locks' = locks
           \/ /\ tx' = [tx EXCEPT ![t].phase = "locked", ![t].daemons = tx[t].before]
              /\ \A d \in tx[t].before : locks[d] = 0
              /\ locks' = [d \in Daemons |-> IF d \in tx[t].before THEN tx[t].key ELSE locks[d]]
        /\ tx[t].phase = "keyed"
        /\ UNCHANGED <<key, contexts, timer, req, owners>>
    BY LockLocks DEF Lock
  <1>a. tx[t] \in Tx /\ locks \in [Daemons -> Nat] /\ tx[t].kind = "update" /\ tx[t].key > 0
        /\ tx \in [Transactions -> Tx]
    BY <1>0 DEF TypeOK, Phases
  <1>R. CASE tx' = [tx EXCEPT ![t].phase = "refused"] /\ locks' = locks
    <2> USE <1>0, <1>a, <1>R
    <2>1. TypeOK'
      <3>1. \E x \in Tx : tx' = [tx EXCEPT ![t] = x]
        BY DEF Tx
      <3> QED  BY <3>1 DEF TypeOK
    <2>2. Phases'
      BY DEF Phases, Locking, Recovered, TypeOK, Req
    <2>3. NoOrphanLocks'
      BY DEF NoOrphanLocks, Live, Phases
    <2>4. LiveHoldsItsLocks'
      BY DEF LiveHoldsItsLocks, DistinctKeys, Locking, HoldsItsLocks, Live, Phases
    <2> QED  BY <2>1, <2>2, <2>3, <2>4
  <1>L. CASE /\ tx' = [tx EXCEPT ![t].phase = "locked", ![t].daemons = tx[t].before]
             /\ \A d \in tx[t].before : locks[d] = 0
             /\ locks' = [d \in Daemons |-> IF d \in tx[t].before THEN tx[t].key ELSE locks[d]]
    <2> USE <1>0, <1>a, <1>L
    <2>0. /\ \A s \in Transactions : s # t => tx'[s] = tx[s]
          /\ tx'[t] = [tx[t] EXCEPT !.phase = "locked", !.daemons = tx[t].before]
      BY DEF Tx
    <2>1. TypeOK'
      <3>1. \E x \in Tx : tx' = [tx EXCEPT ![t] = x]
        BY DEF Tx
      <3> QED  BY <3>1 DEF TypeOK, Tx
    <2>2. Phases'
      <3>1. /\ tx'[t].phase = "locked" /\ tx'[t].kind = "update" /\ tx'[t].key > 0
            /\ t \notin contexts /\ timer[t] = "off"
        BY <2>0 DEF Tx, Phases
      <3>2. \A r \in Requests : Recovered(r) => req[r].tx # t
        BY DEF Phases
      <3> QED  BY <2>0, <3>1, <3>2 DEF Phases, Locking, Recovered, TypeOK
    <2>3. NoOrphanLocks'
      <3>1. tx'[t].phase = "locked" /\ tx'[t].key = tx[t].key /\ tx'[t].daemons = tx[t].before
        BY <2>0 DEF Tx
      <3>2. \A s \in Transactions : Live(s) => s # t
        BY DEF Live, Phases
      <3> QED  BY <2>0, <3>1, <3>2 DEF NoOrphanLocks, Live
    <2>4. LiveHoldsItsLocks'
      <3>1. /\ tx'[t].phase = "locked" /\ tx'[t].kind = "update"
            /\ tx'[t].key = tx[t].key /\ tx'[t].daemons = tx[t].before
        BY <2>0 DEF Tx
      <3>2. DistinctKeys' => DistinctKeys
        BY <2>0 DEF DistinctKeys, Locking
      <3>3. ASSUME DistinctKeys, NEW s \in Transactions, Live(s)', NEW d \in tx'[s].daemons
            PROVE  locks'[d] = tx'[s].key
        <4>1. CASE s = t
          BY <3>1, <3>3, <4>1 DEF Tx
        <4>2. CASE s # t
          <5>1. Live(s) /\ d \in tx[s].daemons /\ s \in Locking /\ d \in Daemons
            BY <2>0, <3>3, <4>2 DEF Live, Phases, TypeOK, Tx
          <5>2. locks[d] = tx[s].key /\ tx[s].key > 0
            BY <3>3, <5>1 DEF LiveHoldsItsLocks, HoldsItsLocks, Phases
          <5> QED  BY <2>0, <4>2, <5>1, <5>2
        <4> QED  BY <4>1, <4>2
      <3> QED  BY <3>2, <3>3 DEF LiveHoldsItsLocks, HoldsItsLocks
    <2> QED  BY <2>1, <2>2, <2>3, <2>4
  <1> QED  BY <1>0, <1>R, <1>L

\* The invariant is preserved: RememberContext.
LEMMA RememberInv ==
  ASSUME IInv, NEW t \in Transactions, Remember(t)
  PROVE  IInv'
  <1> USE DEF IInv
  <1>1. TypeOK'
    <2>1. t \in Transactions /\ tx[t] \in Tx
      BY DEF TypeOK
    <2>2. \E x \in Tx : tx' = [tx EXCEPT ![t] = x]
      BY <2>1 DEF Tx, Remember, TypeOK
    <2> QED  BY <2>1, <2>2 DEF TypeOK, Remember
  <1>2. Phases'
    BY DEF Remember, TypeOK, Tx, Req, Phases, Locking, Recovered
  <1>3. NoOrphanLocks'
    BY DEF Remember, TypeOK, Tx, Phases, NoOrphanLocks, Live
  <1>4. LiveHoldsItsLocks'
    BY DEF Remember, TypeOK, Tx, Phases, LiveHoldsItsLocks, DistinctKeys, Locking, HoldsItsLocks, Live
  <1> QED  BY <1>1, <1>2, <1>3, <1>4

\* The invariant is preserved: the timer fires.
LEMMA ExpireInv ==
  ASSUME IInv, NEW t \in Transactions, Expire(t)
  PROVE  IInv'
  <1> USE DEF IInv
  <1>1. TypeOK'
    BY DEF Expire, TypeOK, Tx, Req
  <1>2. Phases'
    BY DEF Expire, TypeOK, Tx, Req, Phases, Locking, Recovered
  <1>3. NoOrphanLocks'
    BY DEF Expire, TypeOK, Tx, Phases, NoOrphanLocks, Live
  <1>4. LiveHoldsItsLocks'
    BY DEF Expire, TypeOK, Tx, Phases, LiveHoldsItsLocks, DistinctKeys, Locking, HoldsItsLocks, Live
  <1> QED  BY <1>1, <1>2, <1>3, <1>4

\* The invariant is preserved: the timer stops.
LEMMA StopTimerInv ==
  ASSUME IInv, NEW t \in Transactions, StopTimer(t)
  PROVE  IInv'
  <1> USE DEF IInv
  <1>1. TypeOK'
    BY DEF StopTimer, TypeOK, Tx, Req
  <1>2. Phases'
    BY DEF StopTimer, TypeOK, Tx, Req, Phases, Locking, Recovered
  <1>3. NoOrphanLocks'
    BY DEF StopTimer, TypeOK, Tx, Phases, NoOrphanLocks, Live
  <1>4. LiveHoldsItsLocks'
    BY DEF StopTimer, TypeOK, Tx, Phases, LiveHoldsItsLocks, DistinctKeys, Locking, HoldsItsLocks, Live
  <1> QED  BY <1>1, <1>2, <1>3, <1>4

\* The invariant is preserved: the timer ends the transaction.
LEMMA TimerDoneInv ==
  ASSUME IInv, NEW t \in Transactions, TimerDone(t)
  PROVE  IInv'
  <1> USE DEF IInv
  <1>0. /\ t \in Transactions
        /\ tx[t].phase = "begun"
        /\ tx[t].key \in Nat
        /\ contexts' = contexts \ {t}
        /\ locks' = Unlock(locks, tx[t].key, tx[t].daemons)
        /\ UNCHANGED <<key, tx, req, owners>>
    BY DEF TimerDone, Done, TypeOK, Tx, Phases
  <1>a. locks \in [Daemons -> Nat]
    BY DEF TypeOK
  <1>b. locks' \in [Daemons -> Nat]
    BY <1>0, <1>a, UnlockLocks
  <1>c. \A d \in Daemons : locks[d] # tx[t].key => locks'[d] = locks[d]
    BY <1>0, <1>a, UnlockLocks
  <1>d. \A d \in Daemons : locks'[d] # 0 => locks'[d] = locks[d] /\ (d \in tx[t].daemons => locks[d] # tx[t].key)
    BY <1>0, <1>a, UnlockLocks
  <1>1. TypeOK'
    BY <1>0, <1>b DEF TimerDone, TypeOK, Tx, Req
  <1>2. Phases'
    BY <1>0 DEF TimerDone, TypeOK, Tx, Req, Phases, Locking, Recovered
  <1>3. NoOrphanLocks'
    BY <1>0, <1>d DEF TypeOK, Tx, NoOrphanLocks, Live
  <1>4. LiveHoldsItsLocks'
    <2>1. SUFFICES ASSUME DistinctKeys, NEW s \in Transactions, Live(s)', NEW d \in tx[s].daemons
                   PROVE  locks'[d] = tx[s].key
      BY <1>0 DEF LiveHoldsItsLocks, DistinctKeys, Locking, HoldsItsLocks
    <2>2. Live(s) /\ s # t
      BY <1>0, <2>1 DEF Live
    <2>3. d \in Daemons /\ locks[d] = tx[s].key
      BY <2>1, <2>2 DEF LiveHoldsItsLocks, HoldsItsLocks, TypeOK, Tx
    <2>4. CASE d \in tx[t].daemons
      <3>1. s \in Locking /\ t \in Locking
        BY <1>0, <2>1, <2>4 DEF Phases
      <3>2. locks[d] # tx[t].key
        BY <2>1, <2>2, <2>3, <3>1 DEF DistinctKeys
      <3> QED  BY <1>c, <2>3, <3>2
    <2>5. CASE d \notin tx[t].daemons
      BY <1>0, <2>3, <2>5 DEF Unlock
    <2> QED  BY <2>4, <2>5
  <1> QED  BY <1>1, <1>2, <1>3, <1>4

\* The invariant is preserved: RecoverContext.
LEMMA RecoverInv ==
  ASSUME IInv, NEW r \in Requests, NEW u \in Users, NEW t \in Transactions, Recover(r, u, t)
  PROVE  IInv'
  <1> USE DEF IInv
  <1>1. TypeOK'
    <2>3. r \in Requests /\ req[r] \in Req
      BY DEF TypeOK
    <2>4. \E q \in Req : req' = [req EXCEPT ![r] = q]
      BY <2>3, ZenonT(60) DEF Req, Recover, TypeOK, Tx
    <2> QED  BY <2>3, <2>4 DEF TypeOK, Recover
  <1>2. Phases'
    BY DEF Recover, TypeOK, Tx, Req, Phases, Locking, Recovered
  <1>3. NoOrphanLocks'
    BY DEF Recover, TypeOK, Tx, Phases, NoOrphanLocks, Live
  <1>4. LiveHoldsItsLocks'
    BY DEF Recover, TypeOK, Tx, Phases, LiveHoldsItsLocks, DistinctKeys, Locking, HoldsItsLocks, Live
  <1> QED  BY <1>1, <1>2, <1>3, <1>4

\* The invariant is preserved: a change that is not valid.
LEMMA RejectInv ==
  ASSUME IInv, NEW r \in Requests, Reject(r)
  PROVE  IInv'
  <1> USE DEF IInv
  <1>1. TypeOK'
    <2>3. r \in Requests /\ req[r] \in Req
      BY DEF TypeOK
    <2>4. \E q \in Req : req' = [req EXCEPT ![r] = q]
      BY <2>3 DEF Req, Reject, TypeOK, Tx
    <2> QED  BY <2>3, <2>4 DEF TypeOK, Reject
  <1>2. Phases'
    BY DEF Reject, TypeOK, Tx, Req, Phases, Locking, Recovered
  <1>3. NoOrphanLocks'
    BY DEF Reject, TypeOK, Tx, Phases, NoOrphanLocks, Live
  <1>4. LiveHoldsItsLocks'
    BY DEF Reject, TypeOK, Tx, Phases, LiveHoldsItsLocks, DistinctKeys, Locking, HoldsItsLocks, Live
  <1> QED  BY <1>1, <1>2, <1>3, <1>4

\* The invariant is preserved: a change is applied.
LEMMA ApplyInv ==
  ASSUME IInv, NEW r \in Requests, NEW D \in Targets, Apply(r, D)
  PROVE  IInv'
  <1> USE DEF IInv
  <1>1. TypeOK'
    <2>1. req[r].tx \in Transactions /\ tx[req[r].tx] \in Tx
      BY DEF TypeOK, Apply, Phases, Recovered
    <2>2. \E x \in Tx : tx' = [tx EXCEPT ![req[r].tx] = x]
      BY <2>1, TargetsAssumption DEF Tx, Apply
    <2>3. r \in Requests /\ req[r] \in Req
      BY DEF TypeOK
    <2>4. \E q \in Req : req' = [req EXCEPT ![r] = q]
      BY <2>3 DEF Req, Apply, TypeOK, Tx
    <2> QED  BY <2>1, <2>2, <2>3, <2>4 DEF TypeOK, Apply
  <1>2. Phases'
    BY DEF Apply, TypeOK, Tx, Req, Phases, Locking, Recovered
  <1>3. NoOrphanLocks'
    BY DEF Apply, TypeOK, Tx, Phases, NoOrphanLocks, Live
  <1>4. LiveHoldsItsLocks'
    BY SMTT(30) DEF Apply, TypeOK, Tx, Phases, LiveHoldsItsLocks, DistinctKeys, Locking, HoldsItsLocks, Live
  <1> QED  BY <1>1, <1>2, <1>3, <1>4

\* The invariant is preserved: a deletion.
LEMMA DeleteInv ==
  ASSUME IInv, NEW r \in Requests, NEW o \in Objects, Delete(r, o)
  PROVE  IInv'
  <1> USE DEF IInv
  <1>1. TypeOK'
    <2>3. r \in Requests /\ req[r] \in Req
      BY DEF TypeOK
    <2>4. \E q \in Req : req' = [req EXCEPT ![r] = q]
      BY <2>3 DEF Req, Delete, TypeOK, Tx
    <2> QED  BY <2>3, <2>4 DEF TypeOK, Delete
  <1>2. Phases'
    BY DEF Delete, TypeOK, Tx, Req, Phases, Locking, Recovered
  <1>3. NoOrphanLocks'
    BY DEF Delete, TypeOK, Tx, Phases, NoOrphanLocks, Live
  <1>4. LiveHoldsItsLocks'
    BY DEF Delete, TypeOK, Tx, Phases, LiveHoldsItsLocks, DistinctKeys, Locking, HoldsItsLocks, Live
  <1> QED  BY <1>1, <1>2, <1>3, <1>4

\* The invariant is preserved: a commit begins.
LEMMA CommitInv ==
  ASSUME IInv, NEW r \in Requests, Commit(r)
  PROVE  IInv'
  <1> USE DEF IInv
  <1>1. TypeOK'
    <2>3. r \in Requests /\ req[r] \in Req
      BY DEF TypeOK
    <2>4. \E q \in Req : req' = [req EXCEPT ![r] = q]
      BY <2>3, ZenonT(60) DEF Req, Commit, TypeOK, Tx, Phases, Recovered
    <2> QED  BY <2>3, <2>4 DEF TypeOK, Commit
  <1>2. Phases'
    BY DEF Commit, TypeOK, Tx, Req, Phases, Locking, Recovered
  <1>3. NoOrphanLocks'
    BY DEF Commit, TypeOK, Tx, Phases, NoOrphanLocks, Live
  <1>4. LiveHoldsItsLocks'
    BY DEF Commit, TypeOK, Tx, Phases, LiveHoldsItsLocks, DistinctKeys, Locking, HoldsItsLocks, Live
  <1> QED  BY <1>1, <1>2, <1>3, <1>4

\* The invariant is preserved: one command of a commit.
LEMMA SendInv ==
  ASSUME IInv, NEW r \in Requests, NEW d \in Daemons, Send(r, d)
  PROVE  IInv'
  <1> USE DEF IInv
  <1>1. TypeOK'
    <2>3. r \in Requests /\ req[r] \in Req
      BY DEF TypeOK
    <2>4. \E q \in Req : req' = [req EXCEPT ![r] = q]
      BY <2>3 DEF Req, Send, TypeOK, Tx
    <2> QED  BY <2>3, <2>4 DEF TypeOK, Send
  <1>2. Phases'
    BY SMTT(30) DEF Send, TypeOK, Tx, Req, Phases, Locking, Recovered
  <1>3. NoOrphanLocks'
    BY DEF Send, TypeOK, Tx, Phases, NoOrphanLocks, Live
  <1>4. LiveHoldsItsLocks'
    BY DEF Send, TypeOK, Tx, Phases, LiveHoldsItsLocks, DistinctKeys, Locking, HoldsItsLocks, Live
  <1> QED  BY <1>1, <1>2, <1>3, <1>4

\* The invariant is preserved: the database is updated.
LEMMA StoreInv ==
  ASSUME IInv, NEW r \in Requests, Store(r)
  PROVE  IInv'
  <1> USE DEF IInv
  <1>1. TypeOK'
    <2>3. r \in Requests /\ req[r] \in Req
      BY DEF TypeOK
    <2>4. \E q \in Req : req' = [req EXCEPT ![r] = q]
      BY <2>3 DEF Req, Store, TypeOK, Tx, Phases, Recovered
    <2>5. owners' \in [Objects -> SUBSET Daemons]
      BY DEF Store, TypeOK, Tx, Phases, Recovered
    <2> QED  BY <2>3, <2>4, <2>5 DEF TypeOK, Store
  <1>2. Phases'
    BY SMTT(30) DEF Store, TypeOK, Tx, Req, Phases, Locking, Recovered
  <1>3. NoOrphanLocks'
    BY DEF Store, TypeOK, Tx, Phases, NoOrphanLocks, Live
  <1>4. LiveHoldsItsLocks'
    BY DEF Store, TypeOK, Tx, Phases, LiveHoldsItsLocks, DistinctKeys, Locking, HoldsItsLocks, Live
  <1> QED  BY <1>1, <1>2, <1>3, <1>4

\* The invariant is preserved: Done at the end of a call.
LEMMA FinishInv ==
  ASSUME IInv, NEW r \in Requests, Finish(r)
  PROVE  IInv'
  <1> USE DEF IInv
  <1>0. /\ req[r].tx \in Transactions
        /\ tx[req[r].tx].phase = "begun"
        /\ tx[req[r].tx].key \in Nat
        /\ contexts' = contexts \ {req[r].tx}
        /\ locks' = Unlock(locks, tx[req[r].tx].key, tx[req[r].tx].daemons)
        /\ UNCHANGED <<key, tx, timer, owners>>
    BY DEF Finish, Done, TypeOK, Tx, Phases, Recovered, TypeOK, Req
  <1>a. locks \in [Daemons -> Nat]
    BY DEF TypeOK
  <1>b. locks' \in [Daemons -> Nat]
    BY <1>0, <1>a, UnlockLocks
  <1>c. \A d \in Daemons : locks[d] # tx[req[r].tx].key => locks'[d] = locks[d]
    BY <1>0, <1>a, UnlockLocks
  <1>d. \A d \in Daemons : locks'[d] # 0 => locks'[d] = locks[d] /\ (d \in tx[req[r].tx].daemons => locks[d] # tx[req[r].tx].key)
    BY <1>0, <1>a, UnlockLocks
  <1>1. TypeOK'
    <2>1. req[r] \in Req
      BY DEF TypeOK
    <2>2. \E q \in Req : req' = [req EXCEPT ![r] = q]
      BY <2>1 DEF Finish, Req
    <2> QED  BY <1>0, <1>b, <2>2 DEF TypeOK
  <1>2. Phases'
    BY <1>0 DEF Finish, TypeOK, Tx, Req, Phases, Locking, Recovered
  <1>3. NoOrphanLocks'
    BY <1>0, <1>d DEF TypeOK, Tx, NoOrphanLocks, Live
  <1>4. LiveHoldsItsLocks'
    <2>1. SUFFICES ASSUME DistinctKeys, NEW s \in Transactions, Live(s)', NEW d \in tx[s].daemons
                   PROVE  locks'[d] = tx[s].key
      BY <1>0 DEF LiveHoldsItsLocks, DistinctKeys, Locking, HoldsItsLocks
    <2>2. Live(s) /\ s # req[r].tx
      BY <1>0, <2>1 DEF Live
    <2>3. d \in Daemons /\ locks[d] = tx[s].key
      BY <2>1, <2>2 DEF LiveHoldsItsLocks, HoldsItsLocks, TypeOK, Tx
    <2>4. CASE d \in tx[req[r].tx].daemons
      <3>1. s \in Locking /\ req[r].tx \in Locking
        BY <1>0, <2>1, <2>4 DEF Phases
      <3>2. locks[d] # tx[req[r].tx].key
        BY <2>1, <2>2, <2>3, <3>1 DEF DistinctKeys
      <3> QED  BY <1>c, <2>3, <3>2
    <2>5. CASE d \notin tx[req[r].tx].daemons
      BY <1>0, <2>3, <2>5 DEF Unlock
    <2> QED  BY <2>4, <2>5
  <1> QED  BY <1>1, <1>2, <1>3, <1>4

\* Timers and handlers of requests, together.
LEMMA NextInv == IInv /\ [Next]_vars => IInv'
  <1> SUFFICES ASSUME IInv, [Next]_vars PROVE IInv'
    OBVIOUS
  <1>1. ASSUME NEW t \in Transactions, NEW u \in Users, NEW o \in Objects,
               BeginAdd(t, u, o) \/ BeginUpdate(t, u, o)
        PROVE  IInv'
    BY <1>1, BeginAddInv, BeginUpdateInv
  <1>2. ASSUME NEW t \in Transactions, Begin(t) \/ Timer(t) PROVE IInv'
    BY <1>2, LoadKeyInv, StoreKeyInv, LockInv, RememberInv, ExpireInv, StopTimerInv, TimerDoneInv
    DEF Begin, Timer
  <1>3. ASSUME NEW r \in Requests, NEW u \in Users, NEW t \in Transactions, Recover(r, u, t)
        PROVE  IInv'
    BY <1>3, RecoverInv
  <1>4. ASSUME NEW r \in Requests, NEW o \in Objects, Delete(r, o) PROVE IInv'
    BY <1>4, DeleteInv
  <1>5. ASSUME NEW r \in Requests, Handler(r) PROVE IInv'
    BY <1>5, RejectInv, ApplyInv, CommitInv, SendInv, StoreInv, FinishInv DEF Handler
  <1>6. CASE UNCHANGED vars
    BY <1>6
    DEF IInv, TypeOK, Phases, Locking, Recovered, NoOrphanLocks, LiveHoldsItsLocks, DistinctKeys,
        HoldsItsLocks, Live, vars
  <1> QED  BY <1>1, <1>2, <1>3, <1>4, <1>5, <1>6 DEF Next

\* A new manager satisfies the invariant.
LEMMA InitInv == Init => IInv
  <1> SUFFICES ASSUME Init PROVE IInv
    OBVIOUS
  <1>1. TypeOK
    BY OwnersAssumption DEF Init, TypeOK, Tx, Req, NoTx, NoReq
  <1>2. Phases
    BY DEF Init, Phases, Locking, Recovered, NoTx, NoReq
  <1>3. NoOrphanLocks /\ LiveHoldsItsLocks
    BY DEF Init, NoOrphanLocks, LiveHoldsItsLocks, Live, HoldsItsLocks, NoTx
  <1> QED  BY <1>1, <1>2, <1>3 DEF IInv

\* The inductive invariant holds in every reachable state.
THEOREM Invariance == Spec => []IInv
  BY InitInv, NextInv, PTL DEF Spec

\* Type correctness of the manager, its timers and handlers.
THEOREM TypeCorrect == Spec => []TypeOK
  <1>1. IInv => TypeOK
    BY DEF IInv
  <1> QED  BY Invariance, <1>1, PTL

\* Every lock belongs to a transaction that has not been done, however many
\* handlers and timers race: no daemon stays locked without a timer that
\* unlocks it.
THEOREM NoOrphans == Spec => []NoOrphanLocks
  <1>1. IInv => NoOrphanLocks
    BY DEF IInv
  <1> QED  BY Invariance, <1>1, PTL

\* While the lock keys of transactions differ, a transaction that has not been
\* done holds all of its locks.
THEOREM LocksAreKept == Spec => []LiveHoldsItsLocks
  <1>1. IInv => LiveHoldsItsLocks
    BY DEF IInv
  <1> QED  BY Invariance, <1>1, PTL

\* A transaction that Lock refuses leaves no lock behind: the loop that takes
\* the locks back undoes exactly what the loop that took them has done.
THEOREM RefusalIsClean == Spec => RefusalLeavesNoLock
  <1>1. ASSUME IInv, [Next]_vars, NEW t \in Transactions, tx'[t].phase = "refused", tx[t].phase # "refused"
        PROVE  locks' = locks
    <2>1. CASE \E s \in Transactions : Lock(s)
      <3>1. PICK s \in Transactions : Lock(s)
        BY <2>1
      <3>2. CASE tx' = [tx EXCEPT ![s].phase = "locked", ![s].daemons = tx[s].before]
        BY <1>1, <3>2 DEF IInv, TypeOK, Tx
      <3> QED  BY <1>1, <3>1, <3>2, LockLocks
    <2>2. CASE UNCHANGED tx
      BY <1>1, <2>2
    <2>3. ASSUME NEW s \in Transactions,
                 LoadKey(s) \/ StoreKey(s) \/ Remember(s)
          PROVE  FALSE
      <3>1. tx'[t] = tx[t] \/ tx'[s].phase # "refused"
        BY <1>1, <2>3 DEF LoadKey, StoreKey, Remember, IInv, TypeOK, Tx
      <3>2. s # t => tx'[t] = tx[t]
        BY <1>1, <2>3 DEF LoadKey, StoreKey, Remember, IInv, TypeOK
      <3> QED  BY <1>1, <3>1, <3>2
    <2>5. ASSUME NEW s \in Transactions, NEW u \in Users, NEW o \in Objects,
                 BeginAdd(s, u, o) \/ BeginUpdate(s, u, o)
          PROVE  FALSE
      <3>1. tx'[s].phase # "refused"
        BY <1>1, <2>5, ZenonT(60) DEF BeginAdd, BeginUpdate, NoTx, IInv, TypeOK, Tx
      <3>2. s # t => tx'[t] = tx[t]
        BY <1>1, <2>5 DEF BeginAdd, BeginUpdate, NoTx, IInv, TypeOK, Tx
      <3> QED  BY <1>1, <3>1, <3>2
    <2>4. ASSUME NEW r \in Requests, NEW D \in Targets, Apply(r, D) PROVE FALSE
      BY <1>1, <2>4 DEF Apply, IInv, TypeOK, Tx
    <2> QED
      BY <1>1, <2>1, <2>2, <2>3, <2>4, <2>5, Zenon
      DEF Next, Begin, Timer, Handler, Expire, StopTimer, TimerDone, Recover, Reject, Delete, Commit,
          Send, Store, Finish, vars
  <1>2. IInv /\ [Next]_vars =>
          [\A t \in Transactions : tx'[t].phase = "refused" /\ tx[t].phase # "refused" => locks' = locks]_vars
    BY <1>1
  <1> QED  BY Invariance, <1>2, PTL DEF Spec, RefusalLeavesNoLock

-----------------------------------------------------------------------------
(* Communication with an agent                                             *)

\* The two passes over the responses to up to two commands.
FirstPass(a) ==
  CHOOSE f : f = [i \in 0..Len(a.results) |->
                    IF i = 0 THEN <<>> ELSE C!Received(f[i - 1], a.to, a.results[i])]
SecondPass(a, first) ==
  CHOOSE f : f = [i \in 0..Len(a.results) |->
                    IF i = 0 THEN first ELSE C!Parsed(f[i - 1], a.results, i)]

\* The first pass, step by step.
LEMMA FirstPassIs ==
  ASSUME NEW a, Len(a.results) \in 0..2
  PROVE  LET n == Len(a.results)
             f == FirstPass(a)
         IN /\ f[0] = <<>>
            /\ n >= 1 => f[1] = C!Received(f[0], a.to, a.results[1])
            /\ n = 2 => f[2] = C!Received(f[1], a.to, a.results[2])
<1> DEFINE n == Len(a.results)
           next(e, i) == C!Received(e, a.to, a.results[i])
           w == [i \in 0..n |-> IF i = 0 THEN <<>> ELSE IF i = 1 THEN next(<<>>, 1)
                                ELSE next(next(<<>>, 1), 2)]
           f == FirstPass(a)
<1> HIDE DEF next
<1>1. w = [i \in 0..n |-> IF i = 0 THEN <<>> ELSE next(w[i - 1], i)]
  <2>1. n \in 0..2
    OBVIOUS
  <2> HIDE DEF n
  <2>2. \A i \in 0..n : w[i] = IF i = 0 THEN <<>> ELSE next(w[i - 1], i)
    BY <2>1
  <2> QED BY <2>2, Zenon
<1>2. f = [i \in 0..n |-> IF i = 0 THEN <<>> ELSE next(f[i - 1], i)]
  <2> HIDE DEF w
  <2> QED BY <1>1, Zenon DEF next, FirstPass
<1> HIDE DEF f
<1>3. f[0] = <<>> /\ (n >= 1 => f[1] = next(f[0], 1)) /\ (n = 2 => f[2] = next(f[1], 2))
  BY <1>2
<1> QED BY <1>3, Zenon DEF f, next

\* The second pass, step by step.
LEMMA SecondPassIs ==
  ASSUME NEW a, NEW first, Len(a.results) \in 0..2
  PROVE  LET n == Len(a.results)
             f == SecondPass(a, first)
         IN /\ f[0] = first
            /\ n >= 1 => f[1] = C!Parsed(f[0], a.results, 1)
            /\ n = 2 => f[2] = C!Parsed(f[1], a.results, 2)
<1> DEFINE n == Len(a.results)
           next(e, i) == C!Parsed(e, a.results, i)
           w == [i \in 0..n |-> IF i = 0 THEN first ELSE IF i = 1 THEN next(first, 1)
                                ELSE next(next(first, 1), 2)]
           f == SecondPass(a, first)
<1> HIDE DEF next
<1>1. w = [i \in 0..n |-> IF i = 0 THEN first ELSE next(w[i - 1], i)]
  <2>1. n \in 0..2
    OBVIOUS
  <2> HIDE DEF n
  <2>2. \A i \in 0..n : w[i] = IF i = 0 THEN first ELSE next(w[i - 1], i)
    BY <2>1
  <2> QED BY <2>2, Zenon
<1>2. f = [i \in 0..n |-> IF i = 0 THEN first ELSE next(f[i - 1], i)]
  <2> HIDE DEF w
  <2> QED BY <1>1, Zenon DEF next, SecondPass
<1> HIDE DEF f
<1>3. f[0] = first /\ (n >= 1 => f[1] = next(f[0], 1)) /\ (n = 2 => f[2] = next(f[1], 2))
  BY <1>2
<1> QED BY <1>3, Zenon DEF f, next

Errors == {"nil", "failed"}
Bad(r) == r \in {"refused", "garbled", "mistyped"}
Flagged(to, r) == r = "garbled" \/ (r = "error" /\ to = "ca")

\* The first pass adds what a response shows.
Grown(e, to, r, f) ==
  /\ f \in Seq(Errors) /\ \A i \in 1..Len(e) : f[i] = e[i]
  /\ r = "refused" => f = e
  /\ r # "refused" => Len(f) = Len(e) + 1 /\ (f[Len(e) + 1] # "nil" <=> Flagged(to, r))

\* A response gets its place in the first pass.
LEMMA ReceivedIs ==
  ASSUME NEW e \in Seq(Errors), NEW to, NEW r, NEW f, f = C!Received(e, to, r)
  PROVE  Grown(e, to, r, f)
<1> USE DEF Grown
<1> DEFINE b == IF Flagged(to, r) THEN "failed" ELSE "nil"
<1>1. f = IF r = "refused" THEN e ELSE Append(e, b)
  BY Zenon DEF C!Received, Flagged
<1>2. b \in Errors
  BY DEF Errors
<1> HIDE DEF b
<1>3. /\ Append(e, b) \in Seq(Errors) /\ Len(Append(e, b)) = Len(e) + 1
      /\ Append(e, b)[Len(e) + 1] = b /\ \A i \in 1..Len(e) : Append(e, b)[i] = e[i]
  BY <1>2
<1>4. CASE r = "refused"
  BY <1>1, <1>4
<1>5. CASE r # "refused"
  <2>1. b # "nil" <=> Flagged(to, r)
    BY DEF b
  <2> QED BY <1>1, <1>3, <1>5, <2>1
<1> QED BY <1>4, <1>5

\* The second pass sets an error in its place, or at the end.
Corrected(e, r, p, f) ==
  /\ f \in Seq(Errors) /\ \A i \in 1..Len(e) : i # p => f[i] = e[i]
  /\ ~Bad(r) => f = e
  /\ Bad(r) => f[p] = "failed" /\ Len(f) = IF p <= Len(e) THEN Len(e) ELSE Len(e) + 1

\* A response gets its place in the second pass.
LEMMA ParsedIs ==
  ASSUME NEW e \in Seq(Errors), NEW results, NEW p \in 1..(Len(e) + 1),
         NEW f, f = C!Parsed(e, results, p)
  PROVE  Corrected(e, results[p], p, f)
<1> USE DEF Corrected
<1>1. CASE ~Bad(results[p])
  <2>1. f = e
    BY <1>1, Zenon DEF C!Parsed, Bad
  <2> QED BY <1>1, <2>1
<1>2. CASE Bad(results[p]) /\ p <= Len(e)
  <2>1. f = [e EXCEPT ![p] = "failed"] /\ "failed" \in Errors
    BY <1>2, Zenon DEF C!Parsed, Bad, Errors
  <2> QED BY <1>2, <2>1
<1>3. CASE Bad(results[p]) /\ ~(p <= Len(e))
  <2>1. f = Append(e, "failed")
    BY <1>3, Zenon DEF C!Parsed, Bad
  <2>2. p = Len(e) + 1 /\ "failed" \in Errors
    BY <1>3 DEF Errors
  <2>3. /\ f \in Seq(Errors) /\ Len(f) = Len(e) + 1 /\ f[p] = "failed"
        /\ \A i \in 1..Len(e) : f[i] = e[i]
    BY <2>1, <2>2
  <2> QED BY <1>3, <2>3
<1> QED BY <1>1, <1>2, <1>3

Failing(to, r) == Bad(r) \/ (r = "error" /\ to = "ca")

\* Which errors the first pass shows, and which only the second.
LEMMA Kinds ==
  ASSUME NEW to, NEW r
  PROVE  /\ r = "refused" => Bad(r)
         /\ Bad(r) => Failing(to, r)
         /\ ~Bad(r) => (Failing(to, r) <=> Flagged(to, r))
  BY DEF Bad, Failing, Flagged

\* Of one command.
LEMMA OneCommand ==
  ASSUME NEW to, NEW r, NEW e \in Seq(Errors), NEW f, NEW g, Len(e) = 0,
         Grown(e, to, r, f), Corrected(f, r, 1, g)
  PROVE  Len(g) = 1 /\ (g[1] # "nil" <=> Failing(to, r))
<1>1. f \in Seq(Errors) /\ Len(f) \in 0..1
  BY DEF Grown
<1>2. CASE Bad(r)
  <2>1. g[1] = "failed" /\ Len(g) = 1
    <3>1. Len(g) = IF 1 <= Len(f) THEN Len(f) ELSE Len(f) + 1
      BY <1>2, Zenon DEF Corrected
    <3>2. g[1] = "failed"
      BY <1>2, Zenon DEF Corrected
    <3> QED BY <1>1, <3>1, <3>2
  <2> QED BY <1>2, <2>1, Kinds
<1>3. CASE ~Bad(r)
  <2>1. r # "refused" /\ g = f
    BY <1>3, Kinds DEF Corrected
  <2>2. Len(f) = 1 /\ (f[1] # "nil" <=> Flagged(to, r))
    BY <2>1 DEF Grown
  <2> QED BY <1>3, <2>1, <2>2, Kinds
<1> QED BY <1>2, <1>3

\* Of two commands.
ErrorsOfTwo(to, r, q, h) ==
  /\ Len(h) \in 1..2 /\ (h[1] # "nil" <=> Failing(to, r))
  /\ ~Bad(r) => Len(h) = 2 /\ (h[2] # "nil" <=> Failing(to, q))

\* After both passes the errors of two commands are in their places.
LEMMA TwoCommands ==
  ASSUME NEW to, NEW r, NEW q, NEW d \in Seq(Errors), NEW e, NEW f, NEW g, NEW h, Len(d) = 0,
         Grown(d, to, r, e), Grown(e, to, q, f), Corrected(f, r, 1, g), Corrected(g, q, 2, h)
  PROVE  ErrorsOfTwo(to, r, q, h)
<1> USE DEF ErrorsOfTwo
<1>1. /\ e \in Seq(Errors) /\ (Len(e) = 0 \/ Len(e) = 1)
      /\ f \in Seq(Errors) /\ (Len(f) = Len(e) \/ Len(f) = Len(e) + 1)
      /\ g \in Seq(Errors)
  BY DEF Grown, Corrected
<1>2. Len(g) \in 1..2 /\ (g[1] # "nil" <=> Failing(to, r)) /\ (~Bad(r) => g = f /\ Len(e) = 1)
  <2>1. CASE Bad(r)
    <3>1. g[1] = "failed" /\ Len(g) \in 1..2
      <4>1. Len(g) = IF 1 <= Len(f) THEN Len(f) ELSE Len(f) + 1
        BY <2>1, Zenon DEF Corrected
      <4>2. g[1] = "failed"
        BY <2>1, Zenon DEF Corrected
      <4>3. Len(f) \in 0..2
        <5>1. \A x, y : (x = 0 \/ x = 1) /\ (y = x \/ y = x + 1) => y \in 0..2
          OBVIOUS
        <5> QED BY <1>1, <5>1, Zenon
      <4> QED BY <4>1, <4>2, <4>3
    <3> QED BY <2>1, <3>1, Kinds
  <2>2. CASE ~Bad(r)
    <3>1. r # "refused" /\ g = f
      BY <2>2, Kinds DEF Corrected
    <3>2. Len(e) = 1 /\ (e[1] # "nil" <=> Flagged(to, r))
      BY <3>1 DEF Grown
    <3>3. f[1] = e[1]
      BY <1>1, <3>2 DEF Grown
    <3> QED BY <1>1, <2>2, <3>1, <3>2, <3>3, Kinds
  <2> QED BY <2>1, <2>2
<1>3. CASE Bad(q)
  <2>1. h[2] = "failed" /\ Len(h) = 2
    <3>1. Len(h) = IF 2 <= Len(g) THEN Len(g) ELSE Len(g) + 1
      BY <1>3, Zenon DEF Corrected
    <3>2. h[2] = "failed"
      BY <1>3, Zenon DEF Corrected
    <3> QED BY <1>2, <3>1, <3>2
  <2>2. h[1] = g[1]
    BY <1>1, <1>2 DEF Corrected
  <2> QED BY <1>2, <1>3, <2>1, <2>2, Kinds
<1>4. CASE ~Bad(q)
  <2>1. q # "refused" /\ h = g
    BY <1>4, Kinds DEF Corrected
  <2>2. Len(f) = Len(e) + 1 /\ (f[Len(e) + 1] # "nil" <=> Flagged(to, q))
    BY <2>1 DEF Grown
  <2>3. ~Bad(r) => Len(h) = 2 /\ (h[2] # "nil" <=> Flagged(to, q))
    BY <1>2, <2>1, <2>2
  <2> QED BY <1>2, <1>4, <2>1, <2>3, Kinds
<1> QED BY <1>3, <1>4

\* Up to the first command that failed, each has its error.
LEMMA ErrorsHavePlaces ==
  ASSUME NEW a, a.results \in UNION {[1..n -> C!Results] : n \in 0..2}
  PROVE  LET errors == C!CmdsErrors(a)
             failed == {i \in DOMAIN a.results : Failing(a.to, a.results[i])}
         IN \A i \in DOMAIN a.results :
              (\A j \in failed : j >= i) => i \in DOMAIN errors /\ (errors[i] # "nil" <=> i \in failed)
<1> DEFINE r == a.results
           n == Len(r)
           first == FirstPass(a)
           base == first[n]
           second == SecondPass(a, base)
<1>1. n \in 0..2 /\ DOMAIN r = 1..n
  OBVIOUS
<1>2. C!CmdsErrors(a) = second[n]
  BY Zenon DEF C!CmdsErrors, FirstPass, SecondPass
<1>3. /\ first[0] = <<>>
      /\ n >= 1 => first[1] = C!Received(first[0], a.to, r[1])
      /\ n = 2 => first[2] = C!Received(first[1], a.to, r[2])
  BY <1>1, FirstPassIs, Zenon
<1>4. /\ second[0] = base
      /\ n >= 1 => second[1] = C!Parsed(second[0], r, 1)
      /\ n = 2 => second[2] = C!Parsed(second[1], r, 2)
  <2> HIDE DEF first, base
  <2> QED BY <1>1, SecondPassIs, Zenon
<1> HIDE DEF first, second, n, r, base
<1>7. first[0] \in Seq(Errors) /\ Len(first[0]) = 0
  BY <1>3
<1>8. CASE n = 0
  BY <1>1, <1>8 DEF r
<1>9. ASSUME n >= 1
      PROVE  Grown(first[0], a.to, r[1], first[1]) /\ first[1] \in Seq(Errors)
  <2>1. Grown(first[0], a.to, r[1], first[1])
    BY <1>3, <1>7, <1>9, ReceivedIs, Zenon
  <2> QED BY <2>1 DEF Grown
<1>10. CASE n = 1
  <2>1. Corrected(first[1], r[1], 1, second[1])
    <3>1. second[1] = C!Parsed(first[1], r, 1) /\ first[1] \in Seq(Errors)
      BY <1>4, <1>9, <1>10 DEF base
    <3>2. 1 \in 1..(Len(first[1]) + 1)
      BY <3>1
    <3> QED BY <3>1, <3>2, ParsedIs, Zenon
  <2>2. second[1] \in Seq(Errors) /\ Len(second[1]) = 1
        /\ (second[1][1] # "nil" <=> Failing(a.to, r[1]))
    <3>1. n >= 1
      BY <1>10
    <3>2. second[1] \in Seq(Errors)
      BY <2>1, Zenon DEF Corrected
    <3> QED BY <1>7, <1>9, <2>1, <3>1, <3>2, OneCommand, Zenon
  <2> QED
    BY <1>1, <1>2, <1>10, <2>2 DEF r, Failing
<1>11. CASE n = 2
  <2>1. Grown(first[1], a.to, r[2], first[2])
    <3>1. first[2] = C!Received(first[1], a.to, r[2]) /\ first[1] \in Seq(Errors)
      BY <1>3, <1>9, <1>11
    <3> QED BY <3>1, ReceivedIs, Zenon
  <2>2. Corrected(first[2], r[1], 1, second[1])
    <3>1. second[1] = C!Parsed(first[2], r, 1) /\ first[2] \in Seq(Errors)
      BY <1>4, <1>11, <2>1 DEF base, Grown
    <3>2. 1 \in 1..(Len(first[2]) + 1)
      BY <3>1
    <3> QED BY <3>1, <3>2, ParsedIs, Zenon
  <2>3. second[1] \in Seq(Errors) /\ Len(second[1]) >= 1
    <3>1. CASE Bad(r[1])
      BY <2>1, <2>2, <3>1 DEF Grown, Corrected
    <3>2. CASE ~Bad(r[1])
      <4>1. r[1] # "refused" /\ second[1] = first[2]
        BY <2>2, <3>2, Kinds DEF Corrected
      <4>2. Len(first[1]) = 1
        BY <1>7, <1>9, <1>11, <4>1 DEF Grown
      <4>3. first[2] = first[1] \/ Len(first[2]) = 2
        BY <2>1, <4>2 DEF Grown
      <4> QED BY <1>9, <1>11, <2>1, <4>1, <4>2, <4>3 DEF Grown
    <3> QED BY <3>1, <3>2
  <2>4. Corrected(second[1], r[2], 2, second[2])
    <3>1. second[2] = C!Parsed(second[1], r, 2) /\ 2 \in 1..(Len(second[1]) + 1)
      BY <1>4, <1>11, <2>3
    <3> QED BY <2>3, <3>1, ParsedIs, Zenon
  <2>5. second[2] \in Seq(Errors)
    BY <2>4, Zenon DEF Corrected
  <2>6. ErrorsOfTwo(a.to, r[1], r[2], second[2])
    <3>1. n >= 1
      BY <1>11
    <3>2. Grown(first[0], a.to, r[1], first[1])
      BY <1>9, <3>1
    <3> QED BY <1>7, <2>1, <2>2, <2>4, <3>2, TwoCommands, Zenon
  <2> QED
    BY <1>1, <1>2, <1>11, <2>5, <2>6 DEF r, Failing, ErrorsOfTwo
<1> QED BY <1>1, <1>8, <1>10, <1>11

\* What callers see, and the types of what they change.
Shown ==
  [to : Addressees \cup {"ca"}, sent : BOOLEAN,
   results : UNION {[1..n -> C!Results] : n \in 0..2}]
CallerKind ==
  [pc : {"idle", "sending", "waiting", "answered", "panicked"}, answer : Shown]
ProcKind == [pc : {"idle", "create", "close", "open", "client", "call", "ended"},
             entry : 0..2, live : BOOLEAN, retried : BOOLEAN]
AgentTypes ==
  /\ up \in BOOLEAN /\ agentFaults \in 0..MaxAgentFaults
  /\ current \in 0..2 /\ conn \subseteq C!Entries
  /\ proc \in [C!Procs -> ProcKind] /\ caller \in [Callers -> CallerKind]
  /\ failing \in [C!Entries -> SUBSET C!Sources] /\ announced \subseteq C!Sources
  /\ stop \in {"no", "closed", "ended"} /\ replaced \in BOOLEAN

\* There are as many entries as may be made.
EntriesFit ==
  \A p, q \in C!Procs : /\ proc[p].pc = "create" => current < 2
                        /\ p # q /\ proc[p].pc = "create" /\ proc[q].pc = "create" => current = 0
\* Who calls, and who has called, has an entry.
CallsHaveEntry ==
  /\ \A p \in C!Procs :
       proc[p].pc \in {"close", "open", "client", "call"} => proc[p].entry # 0 /\ current # 0
  /\ \A c \in Callers : caller[c].pc = "answered" => current # 0
\* The loop works for the one caller who waits.
Served ==
  \A c, d \in Callers :
    caller[c].pc = "waiting" =>
      proc["loop"].pc \notin {"idle", "ended"} /\ (caller[d].pc = "waiting" => c = d)
Flow == EntriesFit /\ CallsHaveEntry /\ Served

\* Without an entry nothing was counted.
NothingCounted ==
  current = 0 => announced = {} /\ failing = [e \in C!Entries |-> {}]
Counted == NothingCounted /\ C!AnnouncedIsFailing

AgentInv == AgentTypes /\ Flow /\ Counted

\* The types above are those of the model.
LEMMA AgentTypesAreTyped ==
  ASSUME AgentTypes
  PROVE  C!TypeOK
<1>1. /\ up \in BOOLEAN /\ agentFaults \in 0..MaxAgentFaults
      /\ current \in 0..2 /\ conn \subseteq C!Entries
      /\ failing \in [C!Entries -> SUBSET C!Sources] /\ announced \subseteq C!Sources
      /\ stop \in {"no", "closed", "ended"} /\ replaced \in BOOLEAN
      /\ proc \in [C!Procs -> ProcKind]
  BY Zenon DEF AgentTypes
<1>2. ASSUME NEW c \in Callers
      PROVE  /\ caller[c].pc \in {"idle", "sending", "waiting", "answered", "panicked"}
             /\ caller[c].answer.to \in Addressees \cup {"ca"}
  BY DEF AgentTypes, CallerKind, Shown
<1> QED
  <2>1. \A c \in Callers :
          /\ caller[c].pc \in {"idle", "sending", "waiting", "answered", "panicked"}
          /\ caller[c].answer.to \in Addressees \cup {"ca"}
    BY <1>2, Zenon
  <2> HIDE DEF ProcKind
  <2> QED BY <1>1, <2>1, Zenon DEF C!TypeOK, ProcKind

\* Closing a connection changes nothing else of those who use it.
LEMMA ClosedIs ==
  ASSUME NEW procs \in [C!Procs -> ProcKind], NEW e
  PROVE  /\ C!Closed(procs, e) \in [C!Procs -> ProcKind]
         /\ \A q \in C!Procs : /\ C!Closed(procs, e)[q].pc = procs[q].pc
                              /\ C!Closed(procs, e)[q].entry = procs[q].entry
<1> DEFINE next(q) == IF procs[q].entry = e THEN [procs[q] EXCEPT !.live = FALSE] ELSE procs[q]
<1>1. ASSUME NEW q \in C!Procs
      PROVE  next(q) \in ProcKind /\ next(q).pc = procs[q].pc /\ next(q).entry = procs[q].entry
  <2>1. procs[q] \in ProcKind
    OBVIOUS
  <2> QED BY <2>1 DEF ProcKind
<1>2. C!Closed(procs, e) = [q \in C!Procs |-> next(q)]
  BY Zenon DEF C!Closed
<1> HIDE DEF next
<1> QED BY <1>1, <1>2

\* Callers see no answer at first ...
LEMMA NoAnswerIs == C!NoAnswer \in Shown
<1>1. <<>> \in [1..0 -> C!Results]
  OBVIOUS
<1>2. <<>> \in UNION {[1..n -> C!Results] : n \in 0..2}
  BY <1>1
<1> QED BY <1>2 DEF C!NoAnswer, Shown

\* ... and whatever the agent answers later.
LEMMA AnswersAre ==
  ASSUME NEW to \in Addressees, NEW a \in C!Answers(to)
  PROVE  a \in Shown
<1>1. a.to = to /\ a.sent = TRUE
      /\ a = [to |-> a.to, sent |-> a.sent, results |-> a.results]
  BY DEF C!Answers
<1>2. a.results \in UNION {[1..n -> C!Results] : n \in 0..2}
  <2>1. CASE to = "named"
    <3>1. PICK r \in C!Results : a.results = <<r>>
      BY <2>1 DEF C!Answers, C!Results
    <3>2. <<r>> \in [1..1 -> C!Results]
      OBVIOUS
    <3> QED BY <3>1, <3>2
  <2>2. CASE to # "named"
    BY <2>2 DEF C!Answers
  <2> QED BY <2>1, <2>2
<1> QED BY <1>1, <1>2 DEF Shown

\* Initially no one calls, and nothing was counted.
LEMMA AgentInit ==
  ASSUME C!Init
  PROVE  AgentInv
<1> USE DEF C!Init
<1>1. AgentTypes
  <2>1. up \in BOOLEAN /\ agentFaults \in 0..MaxAgentFaults
    BY AgentCommAssumption DEF C!AgentAssumption
  <2>2. proc \in [C!Procs -> ProcKind]
    <3>1. C!Idle \in ProcKind
      BY DEF C!Idle, ProcKind
    <3> QED BY <3>1
  <2>3. caller \in [Callers -> CallerKind]
    <3>1. [pc |-> "idle", answer |-> C!NoAnswer] \in CallerKind
      BY NoAnswerIs DEF CallerKind
    <3> QED BY <3>1
  <2>4. failing \in [C!Entries -> SUBSET C!Sources] /\ announced \subseteq C!Sources
    OBVIOUS
  <2>5. current \in 0..2 /\ conn \subseteq C!Entries
    OBVIOUS
  <2>6. replaced \in BOOLEAN /\ stop \in {"no", "closed", "ended"}
    BY Zenon
  <2> QED BY <2>1, <2>2, <2>3, <2>4, <2>5, <2>6, Zenon DEF AgentTypes
<1>2. /\ \A p \in C!Procs : proc[p].pc = "idle"
      /\ \A c \in Callers : caller[c].pc = "idle"
  BY DEF C!Idle
<1>3. Flow
  BY <1>2 DEF Flow, EntriesFit, CallsHaveEntry, Served
<1>4. Counted
  BY DEF Counted, NothingCounted, C!AnnouncedIsFailing
<1> QED BY <1>1, <1>3, <1>4 DEF AgentInv

\* A process goes on with an entry.
WithEntry(procs, p, pc, e) == [procs EXCEPT ![p].pc = pc, ![p].entry = e]

\* Only that process changes.
LEMMA EntryTaken ==
  ASSUME NEW procs \in [C!Procs -> ProcKind], NEW p \in C!Procs, NEW e \in 0..2,
         NEW pc \in {"create", "close", "client"}, NEW next,
         next = WithEntry(procs, p, pc, e)
  PROVE  /\ next \in [C!Procs -> ProcKind] /\ next[p].pc = pc /\ next[p].entry = e
         /\ \A q \in C!Procs \ {p} : next[q] = procs[q]
<1> DEFINE n == [[procs[p] EXCEPT !.pc = pc] EXCEPT !.entry = e]
<1>1. procs[p] \in ProcKind
  OBVIOUS
<1>2. n \in ProcKind /\ n.pc = pc /\ n.entry = e
  BY <1>1 DEF ProcKind
<1>3. next = [procs EXCEPT ![p] = n]
  BY DEF WithEntry
<1> HIDE DEF n
<1> QED BY <1>2, <1>3

\* Only who creates an entry and who counts change what was counted.
LEMMA CountedStays ==
  ASSUME Counted, UNCHANGED <<current, replaced, failing, announced>>
  PROVE  Counted'
BY DEF Counted, NothingCounted, C!AnnouncedIsFailing

\* An entry that replaces another one is marked; the first one has no counts.
LEMMA CreateKeeps ==
  ASSUME AgentInv, NEW p \in C!Procs, C!Create(p)
  PROVE  AgentInv'
<1> USE DEF AgentInv, C!Create, C!agent, C!counts
<1>1. proc \in [C!Procs -> ProcKind] /\ current \in 0..1 /\ proc[p].pc = "create"
  BY DEF AgentTypes, Flow, EntriesFit
<1>2. /\ proc' \in [C!Procs -> ProcKind] /\ proc'[p].pc = "close" /\ proc'[p].entry # 0
      /\ \A q \in C!Procs \ {p} : proc'[q] = proc[q]
  <2> DEFINE e == current + 1
  <2>1. e \in 0..2 /\ e # 0
    BY <1>1
  <2>2. proc' = WithEntry(proc, p, "close", e)
    BY Zenon DEF WithEntry
  <2> HIDE DEF e
  <2>3. "close" \in {"create", "close", "client"}
    OBVIOUS
  <2>4. /\ proc' \in [C!Procs -> ProcKind] /\ proc'[p].pc = "close" /\ proc'[p].entry = e
        /\ \A q \in C!Procs \ {p} : proc'[q] = proc[q]
    <3> HIDE DEF C!Create, AgentInv
    <3> QED BY <1>1, <2>1, <2>2, <2>3, EntryTaken
  <2> QED BY <2>1, <2>4, Zenon
<1>3. AgentTypes'
  <2>1. current' \in 0..2 /\ replaced' \in BOOLEAN
    BY <1>1
  <2> QED BY <1>2, <2>1 DEF AgentTypes
<1>4. Flow'
  <2>1. current' = current + 1 /\ current' # 0
    BY <1>1
  <2>2. EntriesFit'
    <3>1. SUFFICES ASSUME NEW q \in C!Procs, NEW r \in C!Procs, proc'[q].pc = "create"
                   PROVE  current' < 2 /\ ~(q # r /\ proc'[r].pc = "create")
      BY Zenon DEF EntriesFit
    <3>2. q # p /\ proc[q].pc = "create"
      BY <1>2, <3>1
    <3>3. current = 0
      BY <1>1, <3>2 DEF Flow, EntriesFit
    <3>4. ~(q # r /\ proc'[r].pc = "create")
      BY <1>2, <3>2 DEF C!Procs
    <3> QED BY <2>1, <3>3, <3>4
  <2>3. CallsHaveEntry'
    BY <1>2, <2>1 DEF CallsHaveEntry, Flow
  <2>4. Served'
    BY <1>2 DEF Flow, Served, C!Procs
  <2> QED BY <2>2, <2>3, <2>4 DEF Flow
<1>5. Counted'
  <2>1. CASE current = 0
    <3>1. announced = {} /\ failing[1] = {} /\ current' = 1
      BY <2>1 DEF Counted, NothingCounted, C!Entries
    <3> QED BY <3>1 DEF Counted, NothingCounted, C!AnnouncedIsFailing
  <2>2. CASE current # 0
    <3>1. replaced' = TRUE
      BY <2>2, Zenon
    <3>2. current' # 0
      BY <1>1
    <3> QED BY <3>1, <3>2 DEF Counted, NothingCounted, C!AnnouncedIsFailing
  <2> QED BY <2>1, <2>2
<1> QED BY <1>3, <1>4, <1>5

\* A process that has an entry goes on.
Onward(p) ==
  /\ proc[p].pc \in {"close", "open", "client", "call"}
  /\ \/ proc'[p].entry # 0 /\ proc'[p].pc \in {"close", "open", "client", "call"}
     \/ p # "loop" /\ proc'[p].pc = "idle"
  /\ \A q \in C!Procs \ {p} : proc'[q].pc = proc[q].pc /\ proc'[q].entry = proc[q].entry
  /\ UNCHANGED <<current, caller>>

\* Such a step keeps what holds of entries, calls and the caller who waits.
LEMMA StepKeeps ==
  ASSUME Flow, NEW p \in C!Procs, Onward(p)
  PROVE  Flow'
<1> USE DEF Onward
<1>1. EntriesFit'
  BY DEF Flow, EntriesFit
<1>2. CallsHaveEntry'
  BY DEF Flow, CallsHaveEntry
<1>3. Served'
  BY DEF Flow, Served, C!Procs
<1> QED BY <1>1, <1>2, <1>3 DEF Flow

\* Closing and opening a connection keeps its entry.
LEMMA ConnectKeeps ==
  ASSUME AgentInv, NEW p \in C!Procs,
         C!CloseConnection(p) \/ C!OpenConnection(p) \/ C!CreateClient(p)
  PROVE  AgentInv'
<1> USE DEF AgentInv, C!agent, C!counts, C!conns
<1>1. UNCHANGED <<up, agentFaults, current, replaced, caller, failing, announced, stop>>
  BY DEF C!CloseConnection, C!OpenConnection, C!CreateClient
<1>2. proc \in [C!Procs -> ProcKind] /\ conn \subseteq C!Entries
  BY DEF AgentTypes
<1>3. proc[p].pc \in {"close", "open", "client"} /\ proc[p].entry # 0 /\ current # 0
  BY DEF C!CloseConnection, C!OpenConnection, C!CreateClient, Flow, CallsHaveEntry
<1>4. /\ proc' \in [C!Procs -> ProcKind] /\ proc'[p].pc \in {"close", "open", "client", "call"}
      /\ \A q \in C!Procs \ {p} : proc'[q].pc = proc[q].pc
      /\ \A q \in C!Procs : proc'[q].entry = proc[q].entry
  <2>1. CASE C!CloseConnection(p)
    <3> DEFINE procs == [proc EXCEPT ![p].pc = "open"]
    <3>1. /\ procs \in [C!Procs -> ProcKind] /\ procs[p].pc = "open"
          /\ \A q \in C!Procs \ {p} : procs[q].pc = proc[q].pc
          /\ \A q \in C!Procs : procs[q].entry = proc[q].entry
      BY <1>2 DEF ProcKind
    <3>2. proc' = C!Closed(procs, proc[p].entry)
      BY <2>1 DEF C!CloseConnection
    <3> HIDE DEF procs
    <3>3. /\ proc' \in [C!Procs -> ProcKind]
          /\ \A q \in C!Procs : proc'[q].pc = procs[q].pc /\ proc'[q].entry = procs[q].entry
      BY <3>1, <3>2, ClosedIs, Zenon
    <3>4. proc'[p].pc = "open"
      BY <3>1, <3>3, Zenon
    <3>5. \A q \in C!Procs \ {p} : proc'[q].pc = proc[q].pc
      BY <3>1, <3>3, Zenon
    <3>6. ASSUME NEW q \in C!Procs
          PROVE  proc'[q].entry = proc[q].entry
      <4>1. proc'[q].entry = procs[q].entry
        BY <3>3
      <4>2. procs[q].entry = proc[q].entry
        BY <3>1
      <4> QED BY <4>1, <4>2
    <3> QED BY <3>3, <3>4, <3>5, <3>6
  <2>2. CASE C!OpenConnection(p)
    BY <1>2, <2>2 DEF C!OpenConnection, ProcKind
  <2>3. CASE C!CreateClient(p)
    BY <1>2, <2>3 DEF C!CreateClient, ProcKind
  <2> QED BY <2>1, <2>2, <2>3
<1>5. conn' \subseteq C!Entries
  <2>1. CASE C!OpenConnection(p)
    <3>1. proc[p].entry \in C!Entries
      BY <1>2, <1>3 DEF ProcKind, C!Entries
    <3> QED BY <1>2, <2>1, <3>1, Zenon DEF C!OpenConnection
  <2> QED BY <1>2, <2>1 DEF C!CloseConnection, C!CreateClient
<1>6. AgentTypes'
  BY <1>1, <1>4, <1>5 DEF AgentTypes
<1>7. Flow'
  <2>1. Onward(p)
    <3>1. proc[p].pc \in {"close", "open", "client", "call"} /\ proc'[p].entry # 0
          /\ UNCHANGED <<current, caller>>
      BY <1>1, <1>3, <1>4
    <3>2. /\ proc'[p].pc \in {"close", "open", "client", "call"}
          /\ \A q \in C!Procs \ {p} : proc'[q].pc = proc[q].pc /\ proc'[q].entry = proc[q].entry
      BY <1>4, Zenon
    <3> QED BY <3>1, <3>2, Zenon DEF Onward
  <2> QED BY <2>1, StepKeeps, Zenon
<1>8. Counted'
  BY <1>1, CountedStays
<1> QED BY <1>6, <1>7, <1>8

\* Who is idle looks for an entry.
LEMMA FoundIs ==
  ASSUME AgentTypes, Flow, NEW p \in C!Procs, proc[p].pc = "idle",
         proc' = C!Found(p), UNCHANGED current
  PROVE  /\ proc' \in [C!Procs -> ProcKind] /\ EntriesFit'
         /\ proc'[p].pc \in {"create", "client"}
         /\ \A q \in C!Procs : proc'[q].pc \in {"close", "open", "client", "call"} =>
                                 proc'[q].entry # 0 /\ current # 0
         /\ \A q \in C!Procs \ {p} : proc'[q] = proc[q]
<1>1. PICK pc \in {"create", "client"} :
        (pc = "create" <=> current = 0) /\ proc' = WithEntry(proc, p, pc, current)
  <2>1. CASE current = 0
    BY <2>1, Zenon DEF C!Found, WithEntry
  <2>2. CASE current # 0
    BY <2>2, Zenon DEF C!Found, WithEntry
  <2> QED BY <2>1, <2>2
<1>2. proc \in [C!Procs -> ProcKind] /\ current \in 0..2 /\ pc \in {"create", "close", "client"}
  BY DEF AgentTypes
<1>3. /\ proc' \in [C!Procs -> ProcKind] /\ proc'[p].pc = pc /\ proc'[p].entry = current
      /\ \A q \in C!Procs \ {p} : proc'[q] = proc[q]
  BY <1>1, <1>2, EntryTaken
<1>4. EntriesFit'
  BY <1>1, <1>2, <1>3 DEF Flow, EntriesFit
<1>5. \A q \in C!Procs : proc'[q].pc \in {"close", "open", "client", "call"} =>
                           proc'[q].entry # 0 /\ current # 0
  BY <1>1, <1>3 DEF Flow, CallsHaveEntry
<1> QED BY <1>1, <1>3, <1>4, <1>5

\* A caller who is not served yet may be there.
LEMMA CallKeeps ==
  ASSUME AgentInv, NEW c \in Callers, C!Call(c)
  PROVE  AgentInv'
<1> USE DEF AgentInv
<1>1. UNCHANGED <<up, agentFaults, current, conn, replaced, proc, failing, announced, stop>>
  BY DEF C!Call, C!agent, C!conns, C!counts
<1>2. PICK pc \in {"sending", "panicked"} : caller' = [caller EXCEPT ![c].pc = pc]
  BY Zenon DEF C!Call
<1>3. caller \in [Callers -> CallerKind]
  BY DEF AgentTypes
<1>4. /\ caller' \in [Callers -> CallerKind] /\ caller'[c].pc = pc
      /\ \A d \in Callers \ {c} : caller'[d] = caller[d]
  BY <1>2, <1>3 DEF CallerKind
<1>5. AgentTypes'
  BY <1>1, <1>4 DEF AgentTypes
<1>6. Flow'
  BY <1>1, <1>4 DEF Flow, EntriesFit, CallsHaveEntry, Served
<1>7. Counted'
  BY <1>1, CountedStays
<1> QED BY <1>5, <1>6, <1>7

\* The loop was idle: no one else waits.
LEMMA TakeRequestKeeps ==
  ASSUME AgentInv, NEW c \in Callers, C!TakeRequest(c)
  PROVE  AgentInv'
<1> USE DEF AgentInv
<1>1. UNCHANGED <<up, agentFaults, current, conn, replaced, failing, announced, stop>>
  BY DEF C!TakeRequest, C!agent, C!conns, C!counts
<1>2. /\ proc["loop"].pc = "idle" /\ proc' = C!Found("loop")
      /\ caller' = [caller EXCEPT ![c].pc = "waiting"]
  BY DEF C!TakeRequest
<1>3. /\ proc' \in [C!Procs -> ProcKind] /\ EntriesFit'
      /\ proc'["loop"].pc \in {"create", "client"}
      /\ \A q \in C!Procs : proc'[q].pc \in {"close", "open", "client", "call"} =>
                              proc'[q].entry # 0 /\ current # 0
  <2>1. "loop" \in C!Procs
    BY DEF C!Procs
  <2> QED BY <1>1, <1>2, <2>1, FoundIs
<1>4. caller \in [Callers -> CallerKind]
  BY DEF AgentTypes
<1>5. /\ caller' \in [Callers -> CallerKind] /\ caller'[c].pc = "waiting"
      /\ \A d \in Callers \ {c} : caller'[d] = caller[d]
  BY <1>2, <1>4 DEF CallerKind
<1>6. AgentTypes'
  BY <1>1, <1>3, <1>5 DEF AgentTypes
<1>7. Flow'
  <2>1. CallsHaveEntry'
    BY <1>1, <1>3, <1>5 DEF Flow, CallsHaveEntry
  <2>2. \A d \in Callers : caller[d].pc # "waiting"
    BY <1>2 DEF Flow, Served
  <2>3. Served'
    BY <1>3, <1>5, <2>2 DEF Served
  <2> QED BY <1>3, <2>1, <2>3 DEF Flow
<1>8. Counted'
  BY <1>1, CountedStays
<1> QED BY <1>6, <1>7, <1>8

\* Failures of calls are bounded.
LEMMA CallFailsIs ==
  ASSUME agentFaults \in 0..MaxAgentFaults, C!CallFails
  PROVE  agentFaults' \in 0..MaxAgentFaults
<1>1. MaxAgentFaults \in Nat
  BY AgentCommAssumption DEF C!AgentAssumption
<1>2. agentFaults' = agentFaults \/ (agentFaults < MaxAgentFaults /\ agentFaults' = agentFaults + 1)
  BY Zenon DEF C!CallFails
<1> QED BY <1>1, <1>2

\* The loop calls again with the same entry.
LEMMA CallAgainKeeps ==
  ASSUME AgentInv, C!CallAgain
  PROVE  AgentInv'
<1> USE DEF AgentInv
<1>1. UNCHANGED <<up, current, conn, replaced, caller, failing, announced, stop>>
  BY DEF C!CallAgain, C!conns, C!counts
<1>2. /\ proc["loop"].pc = "call" /\ "loop" \in C!Procs /\ proc \in [C!Procs -> ProcKind]
      /\ proc' = [proc EXCEPT !["loop"].pc = "close", !["loop"].retried = TRUE]
  BY DEF C!CallAgain, C!Procs, AgentTypes
<1>3. /\ proc' \in [C!Procs -> ProcKind] /\ proc'["loop"].pc = "close"
      /\ proc'["loop"].entry = proc["loop"].entry
      /\ \A q \in C!Procs \ {"loop"} : proc'[q] = proc[q]
  <2> DEFINE n == [[proc["loop"] EXCEPT !.pc = "close"] EXCEPT !.retried = TRUE]
  <2>1. n \in ProcKind /\ n.pc = "close" /\ n.entry = proc["loop"].entry
    BY <1>2 DEF ProcKind
  <2>2. proc' = [proc EXCEPT !["loop"] = n]
    BY <1>2
  <2> HIDE DEF n
  <2> QED BY <1>2, <2>1, <2>2
<1>4. AgentTypes'
  <2>1. agentFaults' \in 0..MaxAgentFaults
    BY CallFailsIs DEF C!CallAgain, AgentTypes
  <2> QED BY <1>1, <1>3, <2>1 DEF AgentTypes
<1>5. Flow'
  <2>1. proc["loop"].entry # 0
    BY <1>2 DEF Flow, CallsHaveEntry
  <2>2. Onward("loop")
    BY <1>1, <1>2, <1>3, <2>1 DEF Onward
  <2> QED BY <1>2, <2>2, StepKeeps, Zenon
<1>6. Counted'
  BY <1>1, CountedStays
<1> QED BY <1>4, <1>5, <1>6

\* The only one who waits gets the answer, and the loop is idle.
LEMMA HandleRequestKeeps ==
  ASSUME AgentInv, NEW c \in Callers, NEW to \in Addressees, C!HandleRequest(c, to)
  PROVE  AgentInv'
<1> USE DEF AgentInv
<1>1. UNCHANGED <<up, current, conn, replaced, failing, announced, stop>>
  BY DEF C!HandleRequest, C!conns, C!counts
<1>2. /\ proc["loop"].pc = "call" /\ caller[c].pc = "waiting" /\ "loop" \in C!Procs
      /\ proc \in [C!Procs -> ProcKind] /\ caller \in [Callers -> CallerKind]
      /\ agentFaults \in 0..MaxAgentFaults
  BY DEF C!HandleRequest, C!Procs, AgentTypes
<1>3. PICK a \in Shown : C!Respond(c, a) /\ agentFaults' \in 0..MaxAgentFaults
  <2>1. ASSUME NEW a \in C!Answers(to), C!Respond(c, a),
               IF C!Good(a) THEN UNCHANGED agentFaults
               ELSE agentFaults < MaxAgentFaults /\ agentFaults' = agentFaults + 1
        PROVE  \E b \in Shown : C!Respond(c, b) /\ agentFaults' \in 0..MaxAgentFaults
    <3>1. agentFaults' = agentFaults
          \/ (agentFaults < MaxAgentFaults /\ agentFaults' = agentFaults + 1)
      BY <2>1, Zenon
    <3>2. agentFaults' \in 0..MaxAgentFaults
      BY <1>2, <3>1, AgentCommAssumption DEF C!AgentAssumption
    <3>3. a \in Shown
      BY AnswersAre
    <3> QED BY <2>1, <3>2, <3>3, Zenon
  <2>2. ASSUME C!CallFails, C!Respond(c, [C!NoAnswer EXCEPT !.to = to])
        PROVE  \E b \in Shown : C!Respond(c, b) /\ agentFaults' \in 0..MaxAgentFaults
    <3>1. [C!NoAnswer EXCEPT !.to = to] \in Shown
      BY NoAnswerIs DEF Shown
    <3>2. agentFaults' \in 0..MaxAgentFaults
      BY <1>2, <2>2, CallFailsIs
    <3> QED BY <2>2, <3>1, <3>2, Zenon
  <2> QED BY <2>1, <2>2, Zenon DEF C!HandleRequest
<1>4. /\ proc' \in [C!Procs -> ProcKind] /\ proc'["loop"].pc = "idle"
      /\ \A q \in C!Procs \ {"loop"} : proc'[q] = proc[q]
  <2>1. C!Idle \in ProcKind /\ C!Idle.pc = "idle"
    BY DEF C!Idle, ProcKind
  <2> QED BY <1>2, <1>3, <2>1 DEF C!Respond
<1>5. /\ caller' \in [Callers -> CallerKind] /\ caller'[c].pc = "answered"
      /\ \A d \in Callers \ {c} : caller'[d] = caller[d]
  <2> DEFINE n == [[caller[c] EXCEPT !.pc = "answered"] EXCEPT !.answer = a]
  <2>1. n \in CallerKind /\ n.pc = "answered"
    BY <1>2 DEF CallerKind
  <2>2. caller' = [caller EXCEPT ![c] = n]
    BY <1>3 DEF C!Respond
  <2> HIDE DEF n
  <2> QED BY <1>2, <2>1, <2>2
<1>6. AgentTypes'
  BY <1>1, <1>3, <1>4, <1>5 DEF AgentTypes
<1>7. Flow'
  <2>1. current # 0 /\ \A d \in Callers \ {c} : caller[d].pc # "waiting"
    BY <1>2 DEF Flow, CallsHaveEntry, Served
  <2>2. EntriesFit'
    BY <1>1, <1>4 DEF Flow, EntriesFit
  <2>3. CallsHaveEntry'
    BY <1>1, <1>4, <1>5, <2>1 DEF Flow, CallsHaveEntry
  <2>4. Served'
    BY <1>5, <2>1 DEF Served
  <2> QED BY <2>2, <2>3, <2>4 DEF Flow
<1>8. Counted'
  BY <1>1, CountedStays
<1> QED BY <1>6, <1>7, <1>8

\* What is seen is of sources, and what works does not fail.
SeenFits(seen) ==
  /\ seen.works \subseteq C!Sources /\ seen.fails \subseteq C!Sources
  /\ seen.silent \subseteq {"ca", "named"} /\ seen.works \cap seen.fails = {}

\* What two levels show, together.
LEMMA BothIs ==
  ASSUME NEW s, NEW t
  PROVE  /\ C!Both(s, t).works = s.works \cup t.works /\ C!Both(s, t).fails = s.fails \cup t.fails
         /\ C!Both(s, t).silent = t.silent
BY DEF C!Both

\* The requests are not what is behind the agent.
LEMMA TogetherFit ==
  ASSUME NEW request \in C!Sources \ C!App, NEW a, NEW w \in SUBSET C!App,
         NEW f \in SUBSET C!App, NEW s \in SUBSET {"ca", "named"}, NEW seen,
         seen = C!Seen(w, f, s)
  PROVE  SeenFits(IF a.sent THEN C!Both(C!AgentSeen(request, a), seen)
                  ELSE C!AgentSeen(request, a))
<1> DEFINE first == C!AgentSeen(request, a)
<1>1. seen.works = w \ f /\ seen.fails = f /\ seen.silent = s
  BY DEF C!Seen
<1>2. C!App \subseteq C!Sources
  BY DEF C!Sources
<1>3. CASE a.sent
  <2>1. first = C!Seen({request}, {}, {})
    BY <1>3, Zenon DEF C!AgentSeen
  <2> HIDE DEF first
  <2>2. first.works = {request} \ {} /\ first.fails = {}
    BY <2>1 DEF C!Seen
  <2> DEFINE both == C!Both(first, seen)
  <2>3. both.works = first.works \cup seen.works /\ both.fails = first.fails \cup seen.fails
        /\ both.silent = seen.silent
    BY BothIs, Zenon
  <2> HIDE DEF both
  <2>4. SeenFits(both)
    BY <1>1, <1>2, <2>2, <2>3 DEF SeenFits
  <2> QED BY <1>3, <2>4, Zenon DEF both, first
<1>4. CASE ~a.sent
  <2>1. first = C!Seen({}, {request}, {})
    BY <1>4, Zenon DEF C!AgentSeen
  <2> HIDE DEF first
  <2>2. first.works = {} \ {request} /\ first.fails = {request} /\ first.silent = {}
    BY <2>1 DEF C!Seen
  <2>3. SeenFits(first)
    BY <2>2 DEF SeenFits
  <2> QED BY <1>4, <2>3, Zenon DEF first
<1> QED BY <1>3, <1>4

\* What is counted.
LEMMA ForwardSees ==
  ASSUME AgentTypes, NEW c \in Callers, C!Forward(c)
  PROVE  \E seen : SeenFits(seen) /\ C!Count(c, seen) /\ caller[c].pc = "answered"
<1> DEFINE a == caller[c].answer
<1>1. a \in Shown
  BY DEF AgentTypes, CallerKind
<1> HIDE DEF a
<1>2. a.to \in C!App
  BY <1>1, AgentCommAssumption DEF C!AgentAssumption, Shown, C!App
<1>3. CASE C!ForwardToKeaOverHTTP(c)
  <2> DEFINE w == {"ca"} \cup (IF C!Has(a, {"ok", "mistyped"}) THEN {a.to} ELSE {})
             f == (IF C!Has(a, {"refused", "garbled"}) THEN {"ca"} ELSE {})
                    \cup (IF C!Has(a, {"error"}) THEN {a.to} ELSE {})
             s == IF C!Has(a, {"mistyped"}) THEN {"ca"} ELSE {}
             seen == IF a.sent THEN C!Both(C!AgentSeen("ForwardToKeaOverHTTPReq", a), C!KeaSeen(a))
                     ELSE C!AgentSeen("ForwardToKeaOverHTTPReq", a)
  <2>1. "ForwardToKeaOverHTTPReq" \in C!Sources \ C!App
    BY DEF C!Sources, C!App
  <2>2. w \in SUBSET C!App /\ f \in SUBSET C!App /\ s \in SUBSET {"ca", "named"}
    BY <1>2 DEF C!App
  <2>3. C!KeaSeen(a) = C!Seen(w, f, s)
    BY Zenon DEF C!KeaSeen
  <2>4. C!Count(c, seen) /\ caller[c].pc = "answered"
    BY <1>3, Zenon DEF C!ForwardToKeaOverHTTP, a
  <2>5. SeenFits(seen)
    <3> HIDE DEF w, f, s
    <3> QED BY <2>1, <2>2, <2>3, TogetherFit, Zenon
  <2> QED BY <2>4, <2>5, Zenon
<1>4. CASE C!ForwardToNamed(c)
  <2> DEFINE w == {"named"}
             f == IF C!Has(a, {"refused"}) THEN {"named"} ELSE {}
             s == IF C!Has(a, {"mistyped"}) THEN {"named"} ELSE {}
             seen == IF a.sent THEN C!Both(C!AgentSeen("ForwardRndcCommandReq", a), C!NamedSeen(a))
                     ELSE C!AgentSeen("ForwardRndcCommandReq", a)
  <2>1. "ForwardRndcCommandReq" \in C!Sources \ C!App
    BY DEF C!Sources, C!App
  <2>2. w \in SUBSET C!App /\ f \in SUBSET C!App /\ s \in SUBSET {"ca", "named"}
    BY DEF C!App
  <2>3. C!NamedSeen(a) = C!Seen(w, f, s)
    BY Zenon DEF C!NamedSeen
  <2>4. C!Count(c, seen) /\ caller[c].pc = "answered"
    BY <1>4, Zenon DEF C!ForwardToNamed, a
  <2>5. SeenFits(seen)
    <3> HIDE DEF w, f, s
    <3> QED BY <2>1, <2>2, <2>3, TogetherFit, Zenon
  <2> QED BY <2>4, <2>5, Zenon
<1> QED BY <1>3, <1>4, Zenon DEF C!Forward

\* Counting keeps what was announced and what fails together.
LEMMA CountIs ==
  ASSUME NEW before \in SUBSET C!Sources, announced \subseteq before,
         before \ announced \subseteq {"ca", "named"}, NEW seen, SeenFits(seen),
         announced' = C!Announced(seen, before)
  PROVE  LET after == (before \ seen.works) \cup seen.fails \cup seen.silent
         IN announced' \subseteq after /\ after \ announced' \subseteq {"ca", "named"}
BY DEF SeenFits, C!Announced

\* A caller counts what was seen under the current entry.
LEMMA ForwardKeeps ==
  ASSUME AgentInv, NEW c \in Callers, C!Forward(c)
  PROVE  AgentInv'
<1> USE DEF AgentInv
<1>1. PICK seen : SeenFits(seen) /\ C!Count(c, seen) /\ caller[c].pc = "answered"
  BY ForwardSees, Zenon
<1>2. UNCHANGED <<up, agentFaults, current, conn, replaced, proc, stop>>
  BY <1>1 DEF C!Count, C!agent, C!conns
<1>3. current \in C!Entries /\ failing \in [C!Entries -> SUBSET C!Sources]
      /\ announced \subseteq C!Sources /\ caller \in [Callers -> CallerKind]
  BY <1>1 DEF AgentTypes, Flow, CallsHaveEntry, C!Entries
<1> DEFINE before == failing[current]
           after == (before \ seen.works) \cup seen.fails \cup seen.silent
<1>4. /\ failing' = [failing EXCEPT ![current] = after]
      /\ announced' = C!Announced(seen, before)
      /\ caller' = [caller EXCEPT ![c] = [pc |-> "idle", answer |-> C!NoAnswer]]
  BY <1>1, Zenon DEF C!Count
<1>5. before \in SUBSET C!Sources /\ after \in SUBSET C!Sources /\ announced' \subseteq C!Sources
  <2>1. {"ca", "named"} \subseteq C!Sources
    BY DEF C!Sources, C!App
  <2>2. before \in SUBSET C!Sources
    BY <1>3
  <2> HIDE DEF before
  <2> QED BY <1>1, <1>3, <1>4, <2>1, <2>2 DEF SeenFits, C!Announced
<1>6. /\ caller' \in [Callers -> CallerKind] /\ caller'[c].pc = "idle"
      /\ \A d \in Callers \ {c} : caller'[d] = caller[d]
  <2>1. [pc |-> "idle", answer |-> C!NoAnswer] \in CallerKind
    BY NoAnswerIs DEF CallerKind
  <2> QED BY <1>3, <1>4, <2>1
<1>7. AgentTypes'
  <2>1. failing' \in [C!Entries -> SUBSET C!Sources]
    <3> HIDE DEF after
    <3> QED BY <1>3, <1>4, <1>5
  <2> QED BY <1>2, <1>5, <1>6, <2>1 DEF AgentTypes
<1>8. Flow'
  BY <1>2, <1>6 DEF Flow, EntriesFit, CallsHaveEntry, Served
<1>9. Counted'
  <2>1. current' = current /\ current # 0 /\ failing'[current] = after
    <3> HIDE DEF after
    <3> QED BY <1>2, <1>3, <1>4 DEF C!Entries
  <2>2. ASSUME ~replaced
        PROVE  announced' \subseteq after /\ after \ announced' \subseteq {"ca", "named"}
    <3>1. announced \subseteq before /\ before \ announced \subseteq {"ca", "named"}
      BY <2>1, <2>2, Zenon DEF Counted, C!AnnouncedIsFailing
    <3> HIDE DEF before
    <3> QED BY <1>1, <1>4, <1>5, <3>1, CountIs, Zenon
  <2> HIDE DEF after, before
  <2>3. NothingCounted'
    BY <2>1 DEF NothingCounted
  <2>4. C!AnnouncedIsFailing'
    BY <1>2, <2>1, <2>2, Zenon DEF C!AnnouncedIsFailing
  <2> QED BY <2>3, <2>4 DEF Counted
<1> QED BY <1>7, <1>8, <1>9

\* A stream of zones looks for an entry.
LEMMA ReceiveZonesKeeps ==
  ASSUME AgentInv, C!ReceiveZones
  PROVE  AgentInv'
<1> USE DEF AgentInv
<1>1. UNCHANGED <<up, agentFaults, current, conn, replaced, caller, failing, announced, stop>>
  BY DEF C!ReceiveZones, C!agent, C!conns, C!counts
<1>2. proc["stream"].pc = "idle" /\ proc' = C!Found("stream") /\ "stream" \in C!Procs
  BY DEF C!ReceiveZones, C!Procs
<1>3. /\ proc' \in [C!Procs -> ProcKind] /\ EntriesFit'
      /\ \A q \in C!Procs : proc'[q].pc \in {"close", "open", "client", "call"} =>
                              proc'[q].entry # 0 /\ current # 0
      /\ \A q \in C!Procs \ {"stream"} : proc'[q] = proc[q]
  BY <1>1, <1>2, FoundIs
<1>4. AgentTypes'
  BY <1>1, <1>3 DEF AgentTypes
<1>5. Flow'
  <2>1. CallsHaveEntry'
    BY <1>1, <1>3 DEF Flow, CallsHaveEntry
  <2>2. Served'
    BY <1>1, <1>3 DEF Flow, Served, C!Procs
  <2> QED BY <1>3, <2>1, <2>2 DEF Flow
<1>6. Counted'
  BY <1>1, CountedStays
<1> QED BY <1>4, <1>5, <1>6

\* A stream of zones ends, or goes on with its entry.
LEMMA StreamZonesKeeps ==
  ASSUME AgentInv, C!StreamZones
  PROVE  AgentInv'
<1> USE DEF AgentInv
<1>1. UNCHANGED <<up, agentFaults, current, conn, replaced, caller, failing, announced, stop>>
  BY DEF C!StreamZones, C!agent, C!conns, C!counts
<1>2. proc["stream"].pc = "call" /\ "stream" \in C!Procs /\ proc \in [C!Procs -> ProcKind]
  BY DEF C!StreamZones, C!Procs, AgentTypes
<1>3. PICK n \in ProcKind : /\ proc' = [proc EXCEPT !["stream"] = n]
                            /\ n.pc = "idle" \/ (n.pc = "close" /\ n.entry = proc["stream"].entry)
  <2> DEFINE n == [[proc["stream"] EXCEPT !.pc = "close"] EXCEPT !.retried = TRUE]
  <2>1. n \in ProcKind /\ n.pc = "close" /\ n.entry = proc["stream"].entry
    BY <1>2 DEF ProcKind
  <2>2. C!Idle \in ProcKind /\ C!Idle.pc = "idle"
    BY DEF C!Idle, ProcKind
  <2>3. proc' = [proc EXCEPT !["stream"] = C!Idle] \/ proc' = [proc EXCEPT !["stream"] = n]
    BY Zenon DEF C!StreamZones
  <2> HIDE DEF n
  <2> QED BY <2>1, <2>2, <2>3, Zenon
<1>4. /\ proc' \in [C!Procs -> ProcKind] /\ proc'["stream"] = n
      /\ \A q \in C!Procs \ {"stream"} : proc'[q] = proc[q]
  BY <1>2, <1>3
<1>5. AgentTypes'
  BY <1>1, <1>4 DEF AgentTypes
<1>6. Flow'
  <2>1. proc["stream"].entry # 0
    BY <1>2 DEF Flow, CallsHaveEntry
  <2>2. Onward("stream")
    BY <1>1, <1>2, <1>3, <1>4, <2>1 DEF Onward
  <2> QED BY <1>2, <2>2, StepKeeps, Zenon
<1>7. Counted'
  BY <1>1, CountedStays
<1> QED BY <1>5, <1>6, <1>7

\* Shutdown takes requests only from those whom the loop does not serve.
LEMMA ShutdownClosesKeeps ==
  ASSUME AgentInv, C!ShutdownCloses
  PROVE  AgentInv'
<1> USE DEF AgentInv
<1>1. UNCHANGED <<up, agentFaults, current, replaced, failing, announced>>
  BY DEF C!ShutdownCloses, C!agent, C!counts
<1>2. /\ proc \in [C!Procs -> ProcKind] /\ caller \in [Callers -> CallerKind]
      /\ proc' = C!Closed(proc, current) /\ stop' = "closed" /\ conn' \subseteq C!Entries
  BY DEF C!ShutdownCloses, AgentTypes
<1>3. /\ proc' \in [C!Procs -> ProcKind]
      /\ \A q \in C!Procs : proc'[q].pc = proc[q].pc /\ proc'[q].entry = proc[q].entry
  BY <1>2, ClosedIs, Zenon
<1>4. /\ caller' \in [Callers -> CallerKind]
      /\ \A c \in Callers : caller'[c].pc \in {"waiting", "answered"} => caller'[c] = caller[c]
  <2> DEFINE n(c) == IF caller[c].pc = "sending" THEN [caller[c] EXCEPT !.pc = "panicked"]
                     ELSE caller[c]
  <2>1. ASSUME NEW c \in Callers
        PROVE  n(c) \in CallerKind /\ (n(c).pc \in {"waiting", "answered"} => n(c) = caller[c])
    <3>1. caller[c] \in CallerKind
      BY <1>2
    <3> QED BY <3>1 DEF CallerKind
  <2>2. caller' = [c \in Callers |-> n(c)]
    BY Zenon DEF C!ShutdownCloses
  <2> HIDE DEF n
  <2> QED BY <2>1, <2>2
<1>5. AgentTypes'
  BY <1>1, <1>2, <1>3, <1>4 DEF AgentTypes
<1>6. Flow'
  <2>1. EntriesFit'
    BY <1>1, <1>3 DEF Flow, EntriesFit
  <2>2. CallsHaveEntry'
    BY <1>1, <1>3, <1>4 DEF Flow, CallsHaveEntry
  <2>3. Served'
    BY <1>3, <1>4 DEF Flow, Served, C!Procs
  <2> QED BY <2>1, <2>2, <2>3 DEF Flow
<1>7. Counted'
  BY <1>1, CountedStays
<1> QED BY <1>5, <1>6, <1>7

\* The loop ends when no one waits.
LEMMA ShutdownStopsLoopKeeps ==
  ASSUME AgentInv, C!ShutdownStopsLoop
  PROVE  AgentInv'
<1> USE DEF AgentInv
<1>1. UNCHANGED <<up, agentFaults, current, conn, replaced, caller, failing, announced>>
  BY DEF C!ShutdownStopsLoop, C!agent, C!conns, C!counts
<1>2. /\ proc["loop"].pc = "idle" /\ "loop" \in C!Procs /\ proc \in [C!Procs -> ProcKind]
      /\ stop' = "ended" /\ proc' = [proc EXCEPT !["loop"].pc = "ended"]
  BY DEF C!ShutdownStopsLoop, C!Procs, AgentTypes
<1>3. /\ proc' \in [C!Procs -> ProcKind] /\ proc'["loop"].pc = "ended"
      /\ \A q \in C!Procs \ {"loop"} : proc'[q] = proc[q]
  BY <1>2 DEF ProcKind
<1>4. AgentTypes'
  BY <1>1, <1>2, <1>3 DEF AgentTypes
<1>5. Flow'
  <2>1. \A c \in Callers : caller[c].pc # "waiting"
    BY <1>2 DEF Flow, Served
  <2>2. EntriesFit'
    BY <1>1, <1>3 DEF Flow, EntriesFit
  <2>3. CallsHaveEntry' /\ Served'
    BY <1>1, <1>3, <2>1 DEF Flow, CallsHaveEntry, Served
  <2> QED BY <2>2, <2>3 DEF Flow
<1>6. Counted'
  BY <1>1, CountedStays
<1> QED BY <1>4, <1>5, <1>6

\* The agent stops and starts, or nothing happens.
LEMMA AgentChangesKeep ==
  ASSUME AgentInv, up' \in BOOLEAN /\ agentFaults' \in 0..MaxAgentFaults,
         UNCHANGED <<current, conn, replaced, proc, caller, failing, announced, stop>>
  PROVE  AgentInv'
<1> USE DEF AgentInv
<1>1. AgentTypes'
  BY DEF AgentTypes
<1>2. Flow'
  BY DEF Flow, EntriesFit, CallsHaveEntry, Served
<1>3. Counted'
  BY CountedStays
<1> QED BY <1>1, <1>2, <1>3

\* Every step keeps the strengthening.
LEMMA AgentNext ==
  ASSUME AgentInv, [C!Next]_C!vars
  PROVE  AgentInv'
<1>1. CASE UNCHANGED C!vars
  <2>1. UNCHANGED <<up, agentFaults, current, conn, replaced, proc, caller, failing, announced,
                    stop>>
    BY <1>1 DEF C!vars, C!agent, C!conns, C!counts
  <2>2. up \in BOOLEAN /\ agentFaults \in 0..MaxAgentFaults
    BY DEF AgentInv, AgentTypes
  <2> QED BY <2>1, <2>2, AgentChangesKeep
<1>2. CASE C!StopOrStart
  <2>1. UNCHANGED <<current, conn, replaced, proc, caller, failing, announced, stop>>
    BY <1>2 DEF C!StopOrStart, C!conns, C!counts
  <2>2. up' = ~up /\ (agentFaults' = agentFaults
                        \/ (agentFaults < MaxAgentFaults /\ agentFaults' = agentFaults + 1))
    BY <1>2, Zenon DEF C!StopOrStart
  <2>3. up' \in BOOLEAN
    BY <2>2, Zenon
  <2>4. agentFaults' \in 0..MaxAgentFaults
    BY <2>2, AgentCommAssumption DEF C!AgentAssumption, AgentInv, AgentTypes
  <2> QED BY <2>1, <2>3, <2>4, AgentChangesKeep
<1>3. ASSUME NEW p \in C!Procs, C!Connect(p)
      PROVE  AgentInv'
  BY <1>3, CreateKeeps, ConnectKeeps, Zenon DEF C!Connect
<1>4. ASSUME NEW c \in Callers, C!Call(c) \/ C!TakeRequest(c) \/ C!Forward(c)
      PROVE  AgentInv'
  BY <1>4, CallKeeps, TakeRequestKeeps, ForwardKeeps, Zenon
<1>5. ASSUME NEW c \in Callers, NEW to \in Addressees, C!HandleRequest(c, to)
      PROVE  AgentInv'
  BY <1>5, HandleRequestKeeps, Zenon
<1>6. CASE C!CallAgain \/ C!ReceiveZones \/ C!StreamZones \/ C!ShutdownCloses
           \/ C!ShutdownStopsLoop
  BY <1>6, CallAgainKeeps, ReceiveZonesKeeps, StreamZonesKeeps, ShutdownClosesKeeps,
     ShutdownStopsLoopKeeps, Zenon
<1> QED BY <1>1, <1>2, <1>3, <1>4, <1>5, <1>6, Zenon DEF C!Next

\* It is an invariant.
LEMMA AgentInvAlways == AgentCommSpec => []AgentInv
<1> USE DEF AgentCommSpec, C!FairSpec
<1>1. C!Init => AgentInv
  BY AgentInit
<1>2. AgentInv /\ [C!Next]_C!vars => AgentInv'
  BY AgentNext
<1> QED BY <1>1, <1>2, PTL DEF C!Spec

\* It implies what callers are promised.
LEMMA AnswersAreTrueNow ==
  ASSUME AgentInv
  PROVE  AnswersAreTrue
<1>1. C!TakenIsServed
  <2>1. C!TypeOK
    BY AgentTypesAreTyped DEF AgentInv
  <2>2. Served
    BY DEF AgentInv, Flow
  <2> QED BY <2>1, <2>2, Zenon DEF C!TakenIsServed, Served
<1>2. C!FirstErrorIsFound
  <2> SUFFICES ASSUME NEW c \in Callers
               PROVE  LET a == caller[c].answer
                          errors == C!CmdsErrors(a)
                          failed == {i \in DOMAIN a.results :
                                       \/ a.results[i] \in {"refused", "garbled", "mistyped"}
                                       \/ a.results[i] = "error" /\ a.to = "ca"}
                      IN \A i \in DOMAIN a.results :
                           (\A j \in failed : j >= i) =>
                             i \in DOMAIN errors /\ (errors[i] # "nil" <=> i \in failed)
    BY Zenon DEF C!FirstErrorIsFound
  <2>1. caller[c].answer.results \in UNION {[1..n -> C!Results] : n \in 0..2}
    BY DEF AgentInv, AgentTypes, CallerKind, Shown
  <2> QED BY <2>1, ErrorsHavePlaces, Zenon DEF Failing, Bad
<1> QED BY <1>1, <1>2, Zenon DEF AnswersAreTrue, C!AnswersAreTrue

\* Every request that the loop takes is answered, for the loop serves the one caller who waits
\* until it answers, and Shutdown stops only an idle loop; and who reads the errors of the
\* commands in order finds the first command that failed (handleRequest, ForwardToKeaOverHTTP).
THEOREM AnswersAreTrueAlways == AgentCommSpec => []AnswersAreTrue
BY AgentInvAlways, AnswersAreTrueNow, PTL

\* As long as no entry of the agent was replaced, what was announced as failed has errors
\* counted, and what has errors was announced, whatever the order in which the callers count
\* (UpdateErrorCount).
THEOREM AnnouncedIsFailingAlways == AgentCommSpec => []AnnouncedIsFailing
<1>1. AgentInv => AnnouncedIsFailing
  BY Zenon DEF AgentInv, Counted, AnnouncedIsFailing
<1> QED BY <1>1, AgentInvAlways, PTL

-----------------------------------------------------------------------------
(* What users change in Kea                                                *)

\* Commands, and the lists of commands.
Operations ==
  {"add", "update", "set", "del", "join", "leave", "write", "reload"}
Commands == [op : Operations, daemon : KeaDaemons, v : K!Contents, net : Nets \cup {K!NoNet}]
\* A list of commands gives a daemon a content.
Gives(s, d, v) ==
  \E i \in 1..Len(s) :
    s[i].op \in {"add", "update", "set"} /\ s[i].daemon = d /\ s[i].v = v

\* A set of numbers has a smallest one.
LEMMA HasLeast ==
  ASSUME NEW S, S \subseteq Nat, S # {}
  PROVE  \E x \in S : \A y \in S : x <= y
<1> DEFINE R == {ss \in Nat \X Nat : ss[1] < ss[2]}
<1>1. IsWellFoundedOn(R, Nat)
  BY NatLessThanWellFounded, Zenon DEF OpToRel
<1> HIDE DEF R
<1>2. PICK x \in S : \A y \in S : ~ (<<y, x>> \in R)
  BY <1>1, WFMin, Zenon
<1>3. \A y \in S : ~ (y < x)
  BY <1>2 DEF R
<1> QED BY <1>2, <1>3, SMT

\* What a part of a list gives, the whole gives.
LEMMA GivesOfBoth ==
  ASSUME NEW s \in Seq(Commands), NEW t \in Seq(Commands), NEW d, NEW v,
         Gives(s, d, v) \/ Gives(t, d, v)
  PROVE  Gives(s \o t, d, v)
<1> DEFINE st == s \o t
<1>1. Len(st) = Len(s) + Len(t) /\ Len(s) \in Nat /\ Len(t) \in Nat
  OBVIOUS
<1>2. CASE Gives(s, d, v)
  <2>1. PICK i \in 1..Len(s) : s[i].op \in {"add", "update", "set"} /\ s[i].daemon = d /\ s[i].v = v
    BY <1>2 DEF Gives
  <2>2. i \in 1..Len(st) /\ st[i] = s[i]
    BY <1>1
  <2> QED BY <2>1, <2>2, Zenon DEF Gives
<1>3. CASE Gives(t, d, v)
  <2>1. PICK i \in 1..Len(t) : t[i].op \in {"add", "update", "set"} /\ t[i].daemon = d /\ t[i].v = v
    BY <1>3 DEF Gives
  <2>2. Len(s) + i \in 1..Len(st) /\ st[Len(s) + i] = t[i]
    BY <1>1
  <2> QED BY <2>1, <2>2, Zenon DEF Gives
<1> QED BY <1>2, <1>3

-----------------------------------------------------------------------------
\* One daemon's commands are added ...
Extended(D, cmds, k, s) == IF Order[k] \in D THEN s \o cmds[Order[k]] ELSE s
\* ... for the first n daemons.
IsListed(D, cmds, n, f) ==
  f = [k \in 0..n |-> IF k = 0 THEN <<>> ELSE Extended(D, cmds, k, f[k - 1])]

\* The recursive function of ForEach is defined for any number of daemons: there is no
\* smallest number for which it is not.
LEMMA ListExists ==
  ASSUME NEW D, NEW cmds, NEW n \in Nat
  PROVE  \E f : IsListed(D, cmds, n, f)
<1> DEFINE T == {m \in Nat : ~ \E f : IsListed(D, cmds, m, f)}
<1>1. SUFFICES ASSUME T # {} PROVE FALSE
  BY <1>1, Zenon
<1>2. PICK m \in T : \A y \in T : m <= y
  <2>1. T \subseteq Nat
    BY Zenon
  <2> HIDE DEF T
  <2> QED BY <1>1, <2>1, HasLeast, Zenon
<1>3. m \in Nat
  BY <1>2
<1>4. CASE m = 0
  <2> DEFINE f == [k \in 0..0 |-> <<>>]
  <2>1. f = [k \in 0..0 |-> IF k = 0 THEN <<>> ELSE Extended(D, cmds, k, f[k - 1])]
    OBVIOUS
  <2> HIDE DEF f
  <2>2. IsListed(D, cmds, m, f)
    BY <1>4, <2>1, Zenon DEF IsListed
  <2> QED BY <1>2, <2>2, Zenon
<1>5. CASE m # 0
  <2>1. m - 1 \in Nat /\ ~(m <= m - 1)
    BY <1>3, <1>5
  <2>2. m - 1 \notin T
    BY <1>2, <2>1, Zenon
  <2>3. PICK f : IsListed(D, cmds, m - 1, f)
    BY <2>1, <2>2, Zenon
  <2> DEFINE last == Extended(D, cmds, m, f[m - 1])
             g == [k \in 0..m |-> IF k = m THEN last ELSE f[k]]
  <2>4. \A k \in 0..(m - 1) : f[k] = IF k = 0 THEN <<>> ELSE Extended(D, cmds, k, f[k - 1])
    BY <2>3, Zenon DEF IsListed
  <2>5. ASSUME NEW k \in 0..m
        PROVE  g[k] = IF k = 0 THEN <<>> ELSE Extended(D, cmds, k, g[k - 1])
    <3>1. CASE k = m
      <4>1. g[k] = last /\ k # 0 /\ k - 1 \in 0..m /\ k - 1 # m
        BY <1>3, <1>5, <3>1
      <4> HIDE DEF last
      <4>2. g[k - 1] = f[k - 1]
        BY <4>1
      <4> HIDE DEF g
      <4> QED BY <3>1, <4>1, <4>2, Zenon DEF last
    <3>2. CASE k # m
      <4>1. k \in 0..(m - 1) /\ (k # 0 => k - 1 \in 0..m /\ k - 1 # m)
        BY <1>3, <3>2
      <4> HIDE DEF last
      <4>2. g[k] = f[k] /\ (k # 0 => g[k - 1] = f[k - 1])
        BY <3>2, <4>1
      <4> HIDE DEF g
      <4>3. CASE k = 0
        BY <2>4, <4>1, <4>2, <4>3, Zenon
      <4>4. CASE k # 0
        <5>1. f[k] = Extended(D, cmds, k, f[k - 1])
          BY <2>4, <4>1, <4>4, Zenon
        <5> QED BY <4>2, <4>4, <5>1, Zenon
      <4> QED BY <4>3, <4>4
    <3> QED BY <3>1, <3>2
  <2>6. g = [k \in 0..m |-> IF k = 0 THEN <<>> ELSE Extended(D, cmds, k, g[k - 1])]
    <3> DEFINE h == [k \in 0..m |-> IF k = 0 THEN <<>> ELSE Extended(D, cmds, k, g[k - 1])]
               q == g
    <3>1. DOMAIN q = 0..m /\ q = [k \in 0..m |-> q[k]]
      BY Zenon
    <3> HIDE DEF q, g
    <3>2. \A k \in 0..m : q[k] = IF k = 0 THEN <<>> ELSE Extended(D, cmds, k, q[k - 1])
      BY <2>5, Zenon DEF q
    <3> QED BY <3>1, <3>2, Zenon DEF q
  <2> HIDE DEF g
  <2>7. IsListed(D, cmds, m, g)
    BY <2>6, Zenon DEF IsListed
  <2> QED BY <1>2, <2>7, Zenon
<1> QED BY <1>4, <1>5

\* Commands for each daemon of D are commands, and give it what they give it on their own.
LEMMA ForEachIs ==
  ASSUME NEW D, NEW cmds \in [KeaDaemons -> Seq(Commands)]
  PROVE  /\ K!ForEach(D, cmds) \in Seq(Commands)
         /\ \A d \in D \cap KeaDaemons : \A v : Gives(cmds[d], d, v) => Gives(K!ForEach(D, cmds), d, v)
<1> DEFINE n == Len(Order)
           f == CHOOSE g : IsListed(D, cmds, n, g)
<1>1. /\ Order \in Seq(KeaDaemons) /\ {Order[k] : k \in DOMAIN Order} = KeaDaemons
      /\ n \in Nat /\ DOMAIN Order = 1..n
  BY KeaChangesAssumption DEF K!ChangesAssumption
<1>2. K!ForEach(D, cmds) = f[n]
  BY Zenon DEF K!ForEach, IsListed, Extended
<1>3. IsListed(D, cmds, n, f)
  <2> HIDE DEF n
  <2> QED BY <1>1, ListExists, Zenon
<1> HIDE DEF n, f
<1>4. /\ f[0] = <<>>
      /\ \A k \in 1..n : f[k] = Extended(D, cmds, k, f[k - 1])
  <2>1. \A k \in 0..n : f[k] = IF k = 0 THEN <<>> ELSE Extended(D, cmds, k, f[k - 1])
    BY <1>3, Zenon DEF IsListed
  <2>2. 0 \in 0..n /\ \A k \in 1..n : k \in 0..n /\ k # 0
    BY <1>1
  <2> QED BY <2>1, <2>2, Zenon
<1> DEFINE Upto(k) == /\ f[k] \in Seq(Commands)
                      /\ \A j \in 1..k : Order[j] \in D =>
                           \A v : Gives(cmds[Order[j]], Order[j], v) => Gives(f[k], Order[j], v)
           T == {k \in 0..n : ~Upto(k)}
<1>5. T = {}
  <2>1. SUFFICES ASSUME T # {} PROVE FALSE
    BY <2>1, Zenon
  <2>2. PICK k \in T : \A y \in T : k <= y
    <3>1. T \subseteq Nat
      BY <1>1
    <3> HIDE DEF T
    <3> QED BY <2>1, <3>1, HasLeast, Zenon
  <2>3. k \in 0..n /\ ~Upto(k)
    BY <2>2, Zenon
  <2>4. CASE k = 0
    <3>1. f[0] \in Seq(Commands) /\ \A j \in 1..0 : FALSE
      BY <1>4
    <3> QED BY <2>3, <2>4, <3>1, Zenon
  <2>5. CASE k # 0
    <3>1. k - 1 \in 0..n /\ ~(k <= k - 1) /\ k \in 1..n
      BY <1>1, <2>3, <2>5
    <3>2. Upto(k - 1)
      BY <2>2, <3>1, Zenon
    <3>3. f[k] = Extended(D, cmds, k, f[k - 1])
      BY <1>4, <3>1
    <3>4. Order[k] \in KeaDaemons
      BY <1>1, <3>1
    <3>5. cmds[Order[k]] \in Seq(Commands) /\ f[k - 1] \in Seq(Commands)
      BY <3>2, <3>4
    <3>6. ASSUME NEW d, NEW v, Gives(f[k - 1], d, v) PROVE Gives(f[k], d, v)
      <4>1. CASE Order[k] \in D
        <5>1. f[k] = f[k - 1] \o cmds[Order[k]]
          BY <3>3, <4>1, Zenon DEF Extended
        <5>2. Gives(f[k - 1] \o cmds[Order[k]], d, v)
          BY <3>5, <3>6, GivesOfBoth, Zenon
        <5> QED BY <5>1, <5>2, Zenon
      <4>2. CASE Order[k] \notin D
        <5>1. f[k] = f[k - 1]
          BY <3>3, <4>2, Zenon DEF Extended
        <5> QED BY <3>6, <5>1, Zenon
      <4> QED BY <4>1, <4>2
    <3>7. ASSUME Order[k] \in D, NEW v, Gives(cmds[Order[k]], Order[k], v)
          PROVE  Gives(f[k], Order[k], v)
      <4>1. f[k] = f[k - 1] \o cmds[Order[k]]
        BY <3>3, <3>7, Zenon DEF Extended
      <4>2. Gives(f[k - 1] \o cmds[Order[k]], Order[k], v)
        BY <3>5, <3>7, GivesOfBoth, Zenon
      <4> QED BY <4>1, <4>2, Zenon
    <3>8. f[k] \in Seq(Commands)
      <4>1. f[k - 1] \o cmds[Order[k]] \in Seq(Commands)
        BY <3>5
      <4> QED BY <3>3, <3>5, <4>1, Zenon DEF Extended
    <3>9. ASSUME NEW j \in 1..k, Order[j] \in D, NEW v, Gives(cmds[Order[j]], Order[j], v)
          PROVE  Gives(f[k], Order[j], v)
      <4>1. j = k \/ j \in 1..(k - 1)
        BY <1>1, <3>1
      <4> QED BY <3>2, <3>6, <3>7, <3>9, <4>1, Zenon
    <3>10. Upto(k)
      BY <3>8, <3>9, Zenon
    <3> QED BY <2>3, <3>10, Zenon
  <2> QED BY <2>4, <2>5
<1>6. Upto(n)
  <2>1. n \in 0..n
    BY <1>1
  <2> QED BY <1>5, <2>1, Zenon
<1>7. ASSUME NEW d \in D \cap KeaDaemons, NEW v, Gives(cmds[d], d, v)
      PROVE  Gives(f[n], d, v)
  <2>1. PICK j \in 1..n : d = Order[j]
    BY <1>1
  <2> QED BY <1>6, <1>7, <2>1, Zenon
<1> QED BY <1>2, <1>6, <1>7, Zenon

\* Rows of the database.
KeaRows == [on : [KeaDaemons -> K!Contents], net : Nets \cup {K!NoNet}]
\* Lists of commands, one for each daemon.
CommandsOf == [KeaDaemons -> Seq(Commands)]
\* A plan has commands only, and gives each daemon of the object its content.
PlanFits(plan, after) ==
  plan \in Seq(Commands) /\ \A d \in K!Members(after) : Gives(plan, d, after.on[d])

\* Contents are numbers, and the object may be there or not.
LEMMA ContentsAre == 0 \in K!Contents /\ 1 \in K!Contents /\ K!Contents \subseteq Nat
BY KeaChangesAssumption DEF K!ChangesAssumption, K!Contents

\* The row of no daemon.
LEMMA NoRowIs == K!NoRow \in KeaRows /\ K!Members(K!NoRow) = {}
BY ContentsAre DEF K!NoRow, KeaRows, K!Members

\* One command is a list, and gives its daemon its content.
LEMMA OneCommandIs ==
  ASSUME NEW op \in Operations, NEW d \in KeaDaemons, NEW v \in K!Contents,
         NEW net \in Nets \cup {K!NoNet}
  PROVE  /\ <<K!Cmd(op, d, v, net)>> \in Seq(Commands)
         /\ op \in {"add", "update", "set"} => Gives(<<K!Cmd(op, d, v, net)>>, d, v)
<1> DEFINE c == K!Cmd(op, d, v, net)
<1>1. c \in Commands /\ c.op = op /\ c.daemon = d /\ c.v = v
  BY DEF K!Cmd, Commands
<1> HIDE DEF c
<1>2. <<c>> \in Seq(Commands) /\ 1 \in 1..Len(<<c>>) /\ <<c>>[1] = c
  BY <1>1
<1> QED BY <1>1, <1>2, Zenon DEF Gives, c

\* A change of a daemon gives it the content of the row ...
LEMMA ChangesAre ==
  ASSUME NEW row \in KeaRows, NEW op \in {"add", "update", "set"}, NEW d \in KeaDaemons
  PROVE  /\ K!Changes(op, row)[d] \in Seq(Commands)
         /\ Gives(K!Changes(op, row)[d], d, row.on[d])
<1>1. row.on[d] \in K!Contents /\ K!NoNet \in Nets \cup {K!NoNet} /\ op \in Operations
  BY DEF KeaRows, Operations
<1>2. K!Changes(op, row)[d] = <<K!Cmd(op, d, row.on[d], K!NoNet)>>
  BY DEF K!Changes
<1> QED BY <1>1, <1>2, OneCommandIs, Zenon

\* ... and is a list of commands.
LEMMA ChangesAreCommands ==
  ASSUME NEW row \in KeaRows, NEW op \in {"add", "update", "set"}
  PROVE  K!Changes(op, row) \in CommandsOf
<1>1. K!Changes(op, row) = [d \in KeaDaemons |-> K!Changes(op, row)[d]]
  BY DEF K!Changes
<1>2. \A d \in KeaDaemons : K!Changes(op, row)[d] \in Seq(Commands)
  BY ChangesAre, Zenon
<1> QED BY <1>1, <1>2, Zenon DEF CommandsOf

\* So is a deletion ...
LEMMA DeletionsAre == K!Deletions \in CommandsOf
<1>1. ASSUME NEW d \in KeaDaemons PROVE <<K!Cmd("del", d, 0, K!NoNet)>> \in Seq(Commands)
  <2>1. "del" \in Operations /\ 0 \in K!Contents /\ K!NoNet \in Nets \cup {K!NoNet}
    BY ContentsAre DEF Operations
  <2> QED BY <2>1, OneCommandIs, Zenon
<1> QED BY <1>1, Zenon DEF K!Deletions, CommandsOf

\* ... and what moves a subnet between shared networks.
LEMMA NetCommandsAre ==
  ASSUME NEW d \in KeaDaemons, NEW net \in Nets \cup {K!NoNet}
  PROVE  K!Leave(d, net) \in Seq(Commands) /\ K!Join(d, net) \in Seq(Commands)
<1>1. /\ "leave" \in Operations /\ "join" \in Operations /\ 0 \in K!Contents
      /\ <<>> \in Seq(Commands)
  BY ContentsAre DEF Operations
<1>2. <<K!Cmd("leave", d, 0, net)>> \in Seq(Commands) /\ <<K!Cmd("join", d, 0, net)>> \in Seq(Commands)
  BY <1>1, OneCommandIs, Zenon
<1> QED BY <1>1, <1>2, Zenon DEF K!Leave, K!Join

\* Lists one after the other.
LEMMA BothAre ==
  ASSUME NEW s \in Seq(Commands), NEW t \in Seq(Commands)
  PROVE  s \o t \in Seq(Commands)
OBVIOUS

\* What is sent for files is a list of commands.
LEMMA WritesAre ==
  ASSUME NEW before, NEW after, NEW reload
  PROVE  K!Writes(before, after, reload) \in Seq(Commands)
<1> DEFINE one(d) == <<K!Cmd("write", d, 0, K!NoNet)>>
                     \o IF reload /\ d \in Reloaded THEN <<K!Cmd("reload", d, 0, K!NoNet)>> ELSE <<>>
           write == [d \in KeaDaemons |-> one(d)]
           A == K!ForEach(K!Members(after), write)
           B == K!ForEach(K!Members(before) \ K!Members(after), write)
<1>1. ASSUME NEW d \in KeaDaemons PROVE one(d) \in Seq(Commands)
  <2> DEFINE w == <<K!Cmd("write", d, 0, K!NoNet)>>
             r == <<K!Cmd("reload", d, 0, K!NoNet)>>
             q == IF reload /\ d \in Reloaded THEN r ELSE <<>>
  <2>1. /\ "write" \in Operations /\ "reload" \in Operations /\ 0 \in K!Contents
        /\ K!NoNet \in Nets \cup {K!NoNet} /\ <<>> \in Seq(Commands)
    BY ContentsAre DEF Operations
  <2>2. w \in Seq(Commands) /\ r \in Seq(Commands)
    BY <2>1, OneCommandIs, Zenon
  <2> HIDE DEF w, r
  <2>3. q \in Seq(Commands)
    BY <2>1, <2>2, Zenon
  <2> HIDE DEF q
  <2>4. w \o q \in Seq(Commands)
    BY <2>2, <2>3
  <2> QED BY <2>4, Zenon DEF w, q, r
<1>2. write \in CommandsOf
  <2> HIDE DEF one
  <2> QED BY <1>1, Zenon DEF CommandsOf
<1>3. K!Writes(before, after, reload) = A \o B
  BY Zenon DEF K!Writes
<1> HIDE DEF write
<1>4. A \in Seq(Commands) /\ B \in Seq(Commands)
  BY <1>2, ForEachIs, Zenon DEF CommandsOf
<1> QED BY <1>3, <1>4, BothAre, Zenon

-----------------------------------------------------------------------------
\* What is sent to some daemons is a list of commands.
LEMMA ForEachCommands ==
  ASSUME NEW D, NEW cmds \in CommandsOf
  PROVE  K!ForEach(D, cmds) \in Seq(Commands)
BY ForEachIs, Zenon DEF CommandsOf

\* What each daemon of the object is sent gives it its content.
LEMMA ForEachFits ==
  ASSUME NEW after, NEW cmds \in CommandsOf,
         \A d \in KeaDaemons : Gives(cmds[d], d, after.on[d])
  PROVE  PlanFits(K!ForEach(K!Members(after), cmds), after)
<1>1. K!Members(after) \subseteq KeaDaemons
  BY DEF K!Members
<1>2. \A d \in K!Members(after) : d \in K!Members(after) \cap KeaDaemons
  BY <1>1
<1> QED BY <1>1, <1>2, ForEachIs, Zenon DEF PlanFits, CommandsOf

\* A plan may send more before and after.
LEMMA MoreFits ==
  ASSUME NEW after, NEW plan, PlanFits(plan, after), NEW s \in Seq(Commands)
  PROVE  PlanFits(plan \o s, after) /\ PlanFits(s \o plan, after)
<1>1. plan \in Seq(Commands)
  BY DEF PlanFits
<1>2. plan \o s \in Seq(Commands) /\ s \o plan \in Seq(Commands)
  BY <1>1
<1> QED BY <1>1, <1>2, GivesOfBoth, Zenon DEF PlanFits

\* A plan gives at least the changes.
LEMMA ExtendedFits ==
  ASSUME NEW after \in KeaRows, NEW op \in {"add", "update", "set"}, NEW d \in KeaDaemons,
         NEW s \in Seq(Commands)
  PROVE  /\ K!Changes(op, after)[d] \o s \in Seq(Commands)
         /\ s \o K!Changes(op, after)[d] \in Seq(Commands)
         /\ Gives(K!Changes(op, after)[d] \o s, d, after.on[d])
         /\ Gives(s \o K!Changes(op, after)[d], d, after.on[d])
<1>1. K!Changes(op, after)[d] \in Seq(Commands) /\ Gives(K!Changes(op, after)[d], d, after.on[d])
  BY ChangesAre, Zenon
<1> HIDE DEF K!Changes
<1> QED BY <1>1, BothAre, GivesOfBoth, Zenon

\* A change for each daemon of the object fits.
LEMMA ChangesFit ==
  ASSUME NEW after \in KeaRows, NEW op \in {"add", "update", "set"}
  PROVE  PlanFits(K!ForEach(K!Members(after), K!Changes(op, after)), after)
BY ChangesAre, ChangesAreCommands, ForEachFits, Zenon

\* A subnet is taken from daemons by commands.
LEMMA TakeSubnetIs ==
  ASSUME NEW net \in Nets \cup {K!NoNet}
  PROVE  K!TakeSubnet(net) \in CommandsOf
<1>1. ASSUME NEW d \in KeaDaemons PROVE K!Leave(d, net) \o K!Deletions[d] \in Seq(Commands)
  <2>1. K!Leave(d, net) \in Seq(Commands)
    BY NetCommandsAre, Zenon
  <2>2. K!Deletions[d] \in Seq(Commands)
    BY DeletionsAre, Zenon DEF CommandsOf
  <2> QED BY <2>1, <2>2, BothAre, Zenon
<1> QED BY <1>1, Zenon DEF K!TakeSubnet, CommandsOf

\* What is prepared for subnets (SubnetAdd, SubnetUpdate, SubnetDelete) ...
LEMMA SubnetPlans ==
  ASSUME NEW before \in KeaRows, NEW after \in KeaRows
  PROVE  /\ PlanFits(K!SubnetAdd(after), after) /\ PlanFits(K!SubnetUpdate(before, after), after)
         /\ K!SubnetDelete(before) \in Seq(Commands)
<1>1. before.net \in Nets \cup {K!NoNet} /\ after.net \in Nets \cup {K!NoNet}
  BY DEF KeaRows
<1>2. PlanFits(K!SubnetAdd(after), after)
  <2> DEFINE one(d) == K!Changes("add", after)[d] \o K!Join(d, after.net)
             add == [d \in KeaDaemons |-> one(d)]
  <2>1. ASSUME NEW d \in KeaDaemons
        PROVE  one(d) \in Seq(Commands) /\ Gives(one(d), d, after.on[d])
    <3>1. K!Join(d, after.net) \in Seq(Commands)
      BY <1>1, NetCommandsAre, Zenon
    <3>2. "add" \in {"add", "update", "set"}
      OBVIOUS
    <3> QED BY <3>1, <3>2, ExtendedFits, Zenon
  <2> HIDE DEF one
  <2>2. add \in CommandsOf /\ \A d \in KeaDaemons : add[d] = one(d)
    BY <2>1, Zenon DEF CommandsOf
  <2>3. K!SubnetAdd(after) = K!ForEach(K!Members(after), add) \o K!Writes(K!NoRow, after, TRUE)
    BY Zenon DEF K!SubnetAdd, one
  <2> HIDE DEF add
  <2>4. \A d \in KeaDaemons : Gives(add[d], d, after.on[d])
    BY <2>1, <2>2, Zenon
  <2> QED BY <2>2, <2>3, <2>4, ForEachFits, WritesAre, MoreFits, Zenon
<1>3. PlanFits(K!SubnetUpdate(before, after), after)
  <2> DEFINE nets(d) == IF before.net = after.net THEN <<>>
                        ELSE K!Leave(d, before.net) \o K!Join(d, after.net)
             op(d) == IF d \in K!Members(before) THEN "update" ELSE "add"
             one(d) == K!Changes(op(d), after)[d] \o nets(d)
             update == [d \in KeaDaemons |-> one(d)]
             take == K!ForEach(K!Members(before) \ K!Members(after), K!TakeSubnet(before.net))
  <2>1. ASSUME NEW d \in KeaDaemons
        PROVE  one(d) \in Seq(Commands) /\ Gives(one(d), d, after.on[d])
    <3>1. nets(d) \in Seq(Commands)
      <4>1. K!Leave(d, before.net) \o K!Join(d, after.net) \in Seq(Commands)
        BY <1>1, NetCommandsAre, BothAre, Zenon
      <4>2. <<>> \in Seq(Commands)
        OBVIOUS
      <4> QED BY <4>1, <4>2, Zenon
    <3>2. op(d) \in {"add", "update", "set"}
      OBVIOUS
    <3> HIDE DEF op, nets
    <3> QED BY <3>1, <3>2, ExtendedFits, Zenon
  <2>2. K!SubnetUpdate(before, after) =
          (K!ForEach(K!Members(after), update) \o take) \o K!Writes(before, after, TRUE)
    BY Zenon DEF K!SubnetUpdate
  <2> HIDE DEF one
  <2>3. update \in CommandsOf /\ \A d \in KeaDaemons : update[d] = one(d)
    BY <2>1, Zenon DEF CommandsOf
  <2>4. take \in Seq(Commands)
    BY <1>1, TakeSubnetIs, ForEachCommands, Zenon
  <2> HIDE DEF update, take
  <2>5. \A d \in KeaDaemons : Gives(update[d], d, after.on[d])
    BY <2>1, <2>3, Zenon
  <2> QED BY <2>2, <2>3, <2>4, <2>5, ForEachFits, WritesAre, MoreFits, Zenon
<1>4. K!SubnetDelete(before) \in Seq(Commands)
  BY <1>1, TakeSubnetIs, ForEachCommands, WritesAre, BothAre, Zenon DEF K!SubnetDelete
<1> QED BY <1>2, <1>3, <1>4

\* ... for shared networks ...
LEMMA SharedNetworkPlans ==
  ASSUME NEW before \in KeaRows, NEW after \in KeaRows
  PROVE  /\ PlanFits(K!SharedNetworkAdd(after), after)
         /\ PlanFits(K!SharedNetworkUpdate(before, after), after)
         /\ K!SharedNetworkDelete(before) \in Seq(Commands)
<1>0. "add" \in {"add", "update", "set"}
  OBVIOUS
<1>1. PlanFits(K!SharedNetworkAdd(after), after)
  BY <1>0, ChangesFit, WritesAre, MoreFits, Zenon DEF K!SharedNetworkAdd
<1>2. PlanFits(K!SharedNetworkUpdate(before, after), after)
  <2> DEFINE one(d) == K!Deletions[d] \o K!Changes("add", after)[d]
             replace == [d \in KeaDaemons |-> one(d)]
             take == K!ForEach(K!Members(before) \ K!Members(after), K!Deletions)
  <2>1. ASSUME NEW d \in KeaDaemons
        PROVE  one(d) \in Seq(Commands) /\ Gives(one(d), d, after.on[d])
    <3>1. K!Deletions[d] \in Seq(Commands)
      BY DeletionsAre, Zenon DEF CommandsOf
    <3> QED BY <1>0, <3>1, ExtendedFits, Zenon
  <2>2. K!SharedNetworkUpdate(before, after) =
          (K!ForEach(K!Members(after), replace) \o take) \o K!Writes(before, after, TRUE)
    BY Zenon DEF K!SharedNetworkUpdate
  <2> HIDE DEF one
  <2>3. replace \in CommandsOf /\ \A d \in KeaDaemons : replace[d] = one(d)
    BY <2>1, Zenon DEF CommandsOf
  <2>4. take \in Seq(Commands)
    BY DeletionsAre, ForEachCommands, Zenon
  <2> HIDE DEF replace, take
  <2>5. \A d \in KeaDaemons : Gives(replace[d], d, after.on[d])
    BY <2>1, <2>3, Zenon
  <2> QED BY <2>2, <2>3, <2>4, <2>5, ForEachFits, WritesAre, MoreFits, Zenon
<1>3. K!SharedNetworkDelete(before) \in Seq(Commands)
  BY DeletionsAre, ForEachCommands, WritesAre, BothAre, Zenon DEF K!SharedNetworkDelete
<1> QED BY <1>1, <1>2, <1>3

\* ... for reservations and global parameters.
LEMMA OtherPlans ==
  ASSUME NEW before \in KeaRows, NEW after \in KeaRows
  PROVE  /\ PlanFits(K!HostAdd(after), after) /\ PlanFits(K!HostUpdate(before, after), after)
         /\ K!HostDelete(before) \in Seq(Commands)
         /\ PlanFits(K!GlobalParametersUpdate(before, after), after)
<1>0. "add" \in {"add", "update", "set"} /\ "set" \in {"add", "update", "set"}
  OBVIOUS
<1>1. PlanFits(K!HostAdd(after), after)
  BY <1>0, ChangesFit, Zenon DEF K!HostAdd
<1>2. K!HostDelete(before) \in Seq(Commands)
  BY DeletionsAre, ForEachCommands, Zenon DEF K!HostDelete
<1>3. PlanFits(K!HostUpdate(before, after), after)
  BY <1>1, <1>2, MoreFits, Zenon DEF K!HostUpdate
<1>4. PlanFits(K!GlobalParametersUpdate(before, after), after)
  BY <1>0, ChangesFit, WritesAre, MoreFits, Zenon DEF K!GlobalParametersUpdate
<1> QED BY <1>1, <1>2, <1>3, <1>4

\* What a transaction that is no deletion prepares gives each daemon of the object its content.
LEMMA PlanIs ==
  ASSUME NEW kind, NEW before \in KeaRows, NEW after \in KeaRows
  PROVE  /\ kind # "delete" => PlanFits(K!Plan(kind, before, after), after)
         /\ K!Plan(kind, before, after) \in Seq(Commands)
<1> DEFINE p == K!Plan(kind, before, after)
<1>1. /\ kind # "delete" =>
           p \in {K!SubnetAdd(after), K!SubnetUpdate(before, after), K!SharedNetworkAdd(after),
                  K!SharedNetworkUpdate(before, after), K!HostAdd(after),
                  K!HostUpdate(before, after), K!GlobalParametersUpdate(before, after)}
      /\ kind = "delete" =>
           p \in {K!SubnetDelete(before), K!SharedNetworkDelete(before), K!HostDelete(before),
                  K!GlobalParametersUpdate(before, after)}
  BY DEF K!Plan
<1> HIDE DEF p
<1>2. kind # "delete" => PlanFits(p, after)
  BY <1>1, SubnetPlans, SharedNetworkPlans, OtherPlans, Zenon
<1>3. p \in Seq(Commands)
  BY <1>1, <1>2, SubnetPlans, SharedNetworkPlans, OtherPlans, Zenon DEF PlanFits
<1> QED BY <1>2, <1>3, Zenon DEF p

\* The configuration of a daemon, in memory and in its file.
ConfigsAre == [mem : K!Places, file : K!Places]
\* Transactions.
Txns == [step : {"none", "read", "begun", "sending"}, kind : {"none", "add", "update", "delete"},
         calm : BOOLEAN, row : 0..MaxRows, before : KeaRows, after : KeaRows, cmds : Seq(Commands)]

\* What the database would hold of the daemons, they have had.
RowFits(row, h) ==
  row \in KeaRows /\ \A d \in KeaDaemons : row.on[d] = 0 \/ row.on[d] \in h[d]
\* What a transaction changes, the daemons have had or are still to be given.
TxnFits(t, h) ==
  /\ t \in Txns
  /\ t.step \in {"read", "begun"} => t.kind # "delete"
  /\ \A d \in KeaDaemons :
       t.after.on[d] = 0 \/ t.after.on[d] \in h[d] \/ Gives(t.cmds, d, t.after.on[d])
\* A daemon has had what is in its memory and in its file.
ConfigFits(k, d, h) ==
  k \in ConfigsAre /\ k.mem.v \in h[d] /\ k.file.v \in h[d]
\* A daemon has had what the puller has read.
PullFits(p, h) ==
  /\ p \in [step : {"none", "read"}, daemon : KeaDaemons, conf : K!Places]
  /\ p.conf.v = 0 \/ p.conf.v \in h[p.daemon]

\* The parts of the strengthening.
CountsFit ==
  /\ topic \in Topics
  /\ heldLocks \in [KeaDaemons -> Submitters \cup {K!NoUser}]
  /\ contents \in 1..(MaxContents + 1)
  /\ keaFaults \in 0..MaxKeaFaults[topic]
  /\ had \in [KeaDaemons -> SUBSET K!Contents]
KeaFits == kea \in [KeaDaemons -> ConfigsAre] /\ \A d \in KeaDaemons : ConfigFits(kea[d], d, had)
DbFits == db \in [K!Ids -> KeaRows] /\ \A i \in K!Ids : RowFits(db[i], had)
KnownFit == knownConfigs \in [KeaDaemons -> K!Places]
TxnsFit == txn \in [Submitters -> Txns] /\ \A u \in Submitters : TxnFits(txn[u], had)
PulledFits == PullFits(pulled, had)

\* The strengthening: all that is stored, read or still to be sent fits.
KeaInv == CountsFit /\ KeaFits /\ DbFits /\ KnownFit /\ TxnsFit /\ PulledFits

\* What daemons have had stays.
LEMMA FitsLater ==
  ASSUME NEW g \in [KeaDaemons -> SUBSET K!Contents], NEW h \in [KeaDaemons -> SUBSET K!Contents],
         \A d \in KeaDaemons : g[d] \subseteq h[d]
  PROVE  /\ \A row : RowFits(row, g) => RowFits(row, h)
         /\ \A t : TxnFits(t, g) => TxnFits(t, h)
         /\ \A k : \A d \in KeaDaemons : ConfigFits(k, d, g) => ConfigFits(k, d, h)
         /\ \A p : PullFits(p, g) => PullFits(p, h)
<1>1. \A row : RowFits(row, g) => RowFits(row, h)
  BY DEF RowFits
<1>2. \A t : TxnFits(t, g) => TxnFits(t, h)
  BY Zenon DEF TxnFits
<1>3. \A k : \A d \in KeaDaemons : ConfigFits(k, d, g) => ConfigFits(k, d, h)
  BY Zenon DEF ConfigFits
<1>4. ASSUME NEW p, PullFits(p, g) PROVE PullFits(p, h)
  <2>1. p.daemon \in KeaDaemons
    BY <1>4 DEF PullFits
  <2> QED BY <1>4, <2>1, Zenon DEF PullFits
<1> QED BY <1>1, <1>2, <1>3, <1>4, Zenon

\* A transaction that begins has nothing to change yet.
LEMMA TxnIs ==
  ASSUME NEW step \in {"none", "read", "begun"}, NEW kind \in {"none", "add", "update", "delete"},
         NEW calm \in BOOLEAN, NEW row \in 0..MaxRows, NEW before \in KeaRows, NEW h,
         step # "none" => kind # "delete"
  PROVE  TxnFits(K!Txn(step, kind, calm, row, before), h)
<1> DEFINE t == K!Txn(step, kind, calm, row, before)
<1>1. /\ t.step = step /\ t.kind = kind /\ t.calm = calm /\ t.row = row /\ t.before = before
      /\ t.after = K!NoRow /\ t.cmds = <<>>
      /\ t = [step |-> step, kind |-> kind, calm |-> calm, row |-> row, before |-> before,
              after |-> K!NoRow, cmds |-> <<>>]
  BY DEF K!Txn
<1>2. K!NoRow \in KeaRows /\ \A d \in KeaDaemons : K!NoRow.on[d] = 0
  BY NoRowIs DEF K!NoRow
<1> HIDE DEF t
<1>3. t \in Txns
  BY <1>1, <1>2 DEF Txns
<1> QED BY <1>1, <1>2, <1>3, Zenon DEF TxnFits, t

\* No transaction.
LEMMA NoTxnIs ==
  ASSUME NEW h
  PROVE  TxnFits(K!NoTxn, h)
<1>1. "none" \in {"none", "read", "begun"} /\ "none" \in {"none", "add", "update", "delete"}
      /\ FALSE \in BOOLEAN /\ 0 \in 0..MaxRows
  BY KeaChangesAssumption DEF K!ChangesAssumption
<1> QED BY <1>1, TxnIs, NoRowIs, Zenon DEF K!NoTxn

\* Whether a transaction is calm does not matter.
LEMMA CalmIsFree ==
  ASSUME NEW h, NEW t, TxnFits(t, h), NEW b \in BOOLEAN
  PROVE  TxnFits([t EXCEPT !.calm = b], h)
<1>1. t \in Txns
  BY DEF TxnFits
<1> DEFINE n == [t EXCEPT !.calm = b]
<1>2. /\ n \in Txns
      /\ n.step = t.step /\ n.kind = t.kind /\ n.after = t.after /\ n.cmds = t.cmds
  BY <1>1 DEF Txns
<1> HIDE DEF n
<1> QED BY <1>2, Zenon DEF TxnFits, n

\* Transaction u becomes t, and others may be disturbed.
LEMMA BecomeFits ==
  ASSUME TxnsFit, had' = had, NEW u \in Submitters, NEW t, TxnFits(t, had), K!Become(u, t)
  PROVE  TxnsFit'
<1> DEFINE Apart(w) == K!Idle(w) \/ (K!Covered(t) /\ K!Covered(txn[w]))
           alone == \A x \in Submitters \ {u} : Apart(x)
           b == t.calm /\ alone
<1>1. txn' = [w \in Submitters |->
                IF w = u THEN [t EXCEPT !.calm = b]
                ELSE IF Apart(w) THEN txn[w] ELSE [txn[w] EXCEPT !.calm = FALSE]]
  BY Zenon DEF K!Become
<1>2. b \in BOOLEAN
  <2>1. CASE t.calm /\ alone
    BY <2>1, Zenon
  <2>2. CASE ~(t.calm /\ alone)
    BY <2>2, Zenon
  <2> QED BY <2>1, <2>2
<1> HIDE DEF Apart, b
<1>3. ASSUME NEW w \in Submitters PROVE TxnFits(txn'[w], had)
  <2>1. TxnFits(txn[w], had)
    BY DEF TxnsFit
  <2>2. TxnFits([txn[w] EXCEPT !.calm = FALSE], had) /\ TxnFits([t EXCEPT !.calm = b], had)
    BY <1>2, <2>1, CalmIsFree, Zenon
  <2>3. txn'[w] \in {[t EXCEPT !.calm = b], txn[w], [txn[w] EXCEPT !.calm = FALSE]}
    BY <1>1, Zenon
  <2> QED BY <2>1, <2>2, <2>3, Zenon
<1>4. txn' = [w \in Submitters |-> txn'[w]]
  BY <1>1, Zenon
<1>5. \A w \in Submitters : txn'[w] \in Txns
  BY <1>3, Zenon DEF TxnFits
<1>6. txn' \in [Submitters -> Txns]
  BY <1>4, <1>5, Zenon
<1> QED BY <1>3, <1>6, Zenon DEF TxnsFit

\* One transaction changes.
LEMMA TxnChanges ==
  ASSUME TxnsFit, had' = had, NEW u \in Submitters, NEW t, TxnFits(t, had),
         txn' = [txn EXCEPT ![u] = t]
  PROVE  TxnsFit'
<1>1. txn \in [Submitters -> Txns] /\ t \in Txns
  BY DEF TxnsFit, TxnFits
<1>2. txn' \in [Submitters -> Txns] /\ txn'[u] = t /\ \A w \in Submitters \ {u} : txn'[w] = txn[w]
  BY <1>1
<1> QED BY <1>2, Zenon DEF TxnsFit

\* All transactions are disturbed.
LEMMA DisturbedFits ==
  ASSUME TxnsFit, had' = had, txn' = K!Disturbed
  PROVE  TxnsFit'
<1>1. txn' = [w \in Submitters |-> [txn[w] EXCEPT !.calm = FALSE]]
  BY Zenon DEF K!Disturbed
<1>2. ASSUME NEW w \in Submitters PROVE TxnFits(txn'[w], had)
  <2>1. TxnFits(txn[w], had) /\ FALSE \in BOOLEAN
    BY DEF TxnsFit
  <2>2. TxnFits([txn[w] EXCEPT !.calm = FALSE], had)
    BY <2>1, CalmIsFree, Zenon
  <2>3. txn'[w] = [txn[w] EXCEPT !.calm = FALSE]
    BY <1>1, Zenon
  <2> QED BY <2>2, <2>3, Zenon
<1>3. \A w \in Submitters : txn'[w] \in Txns
  BY <1>2, Zenon DEF TxnFits
<1>4. txn' \in [Submitters -> Txns]
  BY <1>1, <1>3, Zenon
<1> QED BY <1>2, <1>4, Zenon DEF TxnsFit

\* Agreement holds or not.
LEMMA AgreedIsBoolean == K!Agreed \in BOOLEAN
<1>1. CASE K!Agreed
  BY <1>1, Zenon DEF K!Agreed
<1>2. CASE ~K!Agreed
  BY <1>2, Zenon DEF K!Agreed
<1> QED BY <1>1, <1>2
-----------------------------------------------------------------------------
\* The actions

\* A transaction that adds begins.
LEMMA BeginAddKeeps ==
  ASSUME KeaInv, NEW u \in Submitters, K!BeginAdd(u)
  PROVE  KeaInv'
<1> USE DEF KeaInv
<1>1. /\ K!Become(u, K!Txn("begun", "add", K!Agreed, 0, K!NoRow))
      /\ UNCHANGED <<topic, kea, db, knownConfigs, heldLocks, pulled, contents, keaFaults, had>>
  BY Zenon DEF K!BeginAdd
<1>2. TxnFits(K!Txn("begun", "add", K!Agreed, 0, K!NoRow), had)
  <2>1. "begun" \in {"none", "read", "begun"} /\ "add" \in {"none", "add", "update", "delete"}
        /\ 0 \in 0..MaxRows /\ "add" # "delete"
    BY KeaChangesAssumption DEF K!ChangesAssumption
  <2> QED BY <2>1, AgreedIsBoolean, NoRowIs, TxnIs, Zenon
<1>3. TxnsFit'
  BY <1>1, <1>2, BecomeFits, Zenon
<1> QED BY <1>1, <1>3 DEF CountsFit, KeaFits, DbFits, KnownFit, PulledFits

\* A transaction that updates reads the object.
LEMMA BeginUpdateKeeps ==
  ASSUME KeaInv, NEW u \in Submitters, NEW i \in K!Ids, K!BeginUpdate(u, i)
  PROVE  KeaInv'
<1> USE DEF KeaInv
<1>1. /\ K!Become(u, K!Txn("read", "update", K!Agreed, i, db[i]))
      /\ UNCHANGED <<topic, kea, db, knownConfigs, heldLocks, pulled, contents, keaFaults, had>>
  BY Zenon DEF K!BeginUpdate
<1>2. TxnFits(K!Txn("read", "update", K!Agreed, i, db[i]), had)
  <2>1. "read" \in {"none", "read", "begun"} /\ "update" \in {"none", "add", "update", "delete"}
        /\ i \in 0..MaxRows /\ "update" # "delete" /\ db[i] \in KeaRows
    BY KeaChangesAssumption DEF K!ChangesAssumption, K!Ids, DbFits
  <2> QED BY <2>1, AgreedIsBoolean, TxnIs, Zenon
<1>3. TxnsFit'
  BY <1>1, <1>2, BecomeFits, Zenon
<1> QED BY <1>1, <1>3 DEF CountsFit, KeaFits, DbFits, KnownFit, PulledFits

\* It locks its daemons, or is refused.
LEMMA LockKeeps ==
  ASSUME KeaInv, NEW u \in Submitters, K!Lock(u)
  PROVE  KeaInv'
<1> USE DEF KeaInv
<1> DEFINE D == K!Members(txn[u].before)
           calm == txn[u].calm /\ (txn[u].before = db[txn[u].row] /\ K!Agreed)
           t == [txn[u] EXCEPT !.step = "begun", !.calm = calm]
<1>1. /\ txn[u].step = "read"
      /\ \/ txn' = [txn EXCEPT ![u] = K!NoTxn] /\ heldLocks' = heldLocks
         \/ /\ heldLocks' = [d \in KeaDaemons |-> IF d \in D THEN u ELSE heldLocks[d]]
            /\ txn' = [txn EXCEPT ![u] = t]
      /\ UNCHANGED <<topic, kea, db, knownConfigs, pulled, contents, keaFaults, had>>
  <2>1. CASE \E d \in D : heldLocks[d] # K!NoUser
    BY <2>1, Zenon DEF K!Lock
  <2>2. CASE ~ \E d \in D : heldLocks[d] # K!NoUser
    BY <2>2, Zenon DEF K!Lock
  <2> QED BY <2>1, <2>2
<1>2. calm \in BOOLEAN
  <2>1. CASE calm
    BY <2>1, Zenon
  <2>2. CASE ~calm
    BY <2>2, Zenon
  <2> QED BY <2>1, <2>2
<1>3. TxnFits(t, had)
  <2>1. TxnFits(txn[u], had)
    BY DEF TxnsFit
  <2>2. txn[u] \in Txns /\ txn[u].kind # "delete"
    BY <1>1, <2>1, Zenon DEF TxnFits
  <2> HIDE DEF calm
  <2>3. /\ t \in Txns
        /\ t.kind = txn[u].kind /\ t.after = txn[u].after /\ t.cmds = txn[u].cmds
    BY <1>2, <2>2 DEF Txns
  <2> HIDE DEF t
  <2> QED BY <2>1, <2>2, <2>3, Zenon DEF TxnFits
<1> HIDE DEF t, D
<1>4. TxnsFit'
  BY <1>1, <1>3, NoTxnIs, TxnChanges, Zenon
<1>5. CountsFit'
  BY <1>1 DEF CountsFit
<1> QED BY <1>1, <1>4, <1>5 DEF KeaFits, DbFits, KnownFit, PulledFits

\* A submit prepares commands that give each daemon the new content.
LEMMA SubmitKeeps ==
  ASSUME KeaInv, NEW u \in Submitters, NEW D, NEW net \in Nets \cup {K!NoNet}, K!Submit(u, D, net)
  PROVE  KeaInv'
<1> USE DEF KeaInv
<1> DEFINE after == [on |-> [d \in KeaDaemons |-> IF d \in D THEN contents + 1 ELSE 0], net |-> net]
           plan == K!Plan(txn[u].kind, txn[u].before, after)
           t == [txn[u] EXCEPT !.step = "sending", !.after = after, !.cmds = plan]
<1>1. /\ txn[u].step = "begun" /\ contents <= MaxContents /\ contents' = contents + 1
      /\ K!Become(u, t)
      /\ UNCHANGED <<topic, kea, db, knownConfigs, heldLocks, pulled, keaFaults, had>>
  BY Zenon DEF K!Submit
<1>2. MaxContents \in Nat /\ contents \in 1..(MaxContents + 1)
  BY KeaChangesAssumption DEF K!ChangesAssumption, CountsFit
<1>3. after \in KeaRows
  <2>1. contents + 1 \in K!Contents /\ 0 \in K!Contents
    BY <1>1, <1>2 DEF K!Contents
  <2> QED BY <2>1 DEF KeaRows
<1>4. TxnFits(txn[u], had)
  BY DEF TxnsFit
<1>5. txn[u] \in Txns /\ txn[u].kind # "delete" /\ txn[u].before \in KeaRows
  BY <1>1, <1>4 DEF TxnFits, Txns
<1> HIDE DEF after
<1>6. PlanFits(plan, after)
  BY <1>3, <1>5, PlanIs, Zenon
<1> HIDE DEF plan
<1>7. /\ t \in Txns
      /\ t.step = "sending" /\ t.after = after /\ t.cmds = plan
  BY <1>3, <1>5, <1>6 DEF Txns, PlanFits
<1>8. \A d \in KeaDaemons : after.on[d] = 0 \/ Gives(plan, d, after.on[d])
  BY <1>6, Zenon DEF PlanFits, K!Members
<1> HIDE DEF t
<1>9. TxnFits(t, had)
  BY <1>7, <1>8, Zenon DEF TxnFits
<1>10. TxnsFit'
  BY <1>1, <1>9, BecomeFits, Zenon
<1>11. CountsFit'
  BY <1>1, <1>2 DEF CountsFit
<1> QED BY <1>1, <1>10, <1>11 DEF KeaFits, DbFits, KnownFit, PulledFits

\* A deletion gives nothing and stores nothing.
LEMMA DeleteKeeps ==
  ASSUME KeaInv, NEW u \in Submitters, NEW i \in K!Ids, K!Delete(u, i)
  PROVE  KeaInv'
<1> USE DEF KeaInv
<1> DEFINE plan == K!Plan("delete", db[i], K!NoRow)
           n == K!Txn("sending", "delete", K!Agreed, i, db[i])
           t == [n EXCEPT !.cmds = plan]
<1>1. /\ contents <= MaxContents /\ contents' = contents + 1
      /\ K!Become(u, t)
      /\ UNCHANGED <<topic, kea, db, knownConfigs, heldLocks, pulled, keaFaults, had>>
  BY Zenon DEF K!Delete
<1>2. MaxContents \in Nat /\ contents \in 1..(MaxContents + 1)
  BY KeaChangesAssumption DEF K!ChangesAssumption, CountsFit
<1>3. db[i] \in KeaRows /\ i \in 0..MaxRows
  BY DEF DbFits, K!Ids
<1>4. plan \in Seq(Commands)
  BY <1>3, NoRowIs, PlanIs, Zenon
<1> HIDE DEF plan
<1>5. /\ t \in Txns
      /\ t.step = "sending" /\ t.after = K!NoRow
  BY <1>3, <1>4, AgreedIsBoolean, NoRowIs DEF K!Txn, Txns
<1>6. \A d \in KeaDaemons : K!NoRow.on[d] = 0
  BY DEF K!NoRow
<1> HIDE DEF t
<1>7. TxnFits(t, had)
  BY <1>5, <1>6, Zenon DEF TxnFits
<1>8. TxnsFit'
  BY <1>1, <1>7, BecomeFits, Zenon
<1>9. CountsFit'
  BY <1>1, <1>2 DEF CountsFit
<1> QED BY <1>1, <1>8, <1>9 DEF KeaFits, DbFits, KnownFit, PulledFits

\* What a command makes of a daemon, it then has; the file is as before or the same.
LEMMA CarriedIs ==
  ASSUME NEW c \in Commands, kea[c.daemon] \in ConfigsAre
  PROVE  /\ K!Carried(c) \in ConfigsAre
         /\ K!Carried(c).file = kea[c.daemon].file \/ K!Carried(c).file = K!Carried(c).mem
         /\ c.op = "reload" => K!Carried(c).mem = kea[c.daemon].file
         /\ c.op \in {"add", "update", "set"} => K!Carried(c).mem.v = c.v
<1> DEFINE k == kea[c.daemon]
           new == CASE c.op = "add" -> [v |-> c.v, net |-> K!NoNet]
                    [] c.op \in {"update", "set"} -> [k.mem EXCEPT !.v = c.v]
                    [] c.op = "del" -> K!Absent
                    [] c.op = "join" -> [k.mem EXCEPT !.net = c.net]
                    [] c.op = "leave" -> [k.mem EXCEPT !.net = K!NoNet]
                    [] c.op = "reload" -> k.file
                    [] OTHER -> k.mem
           file == IF c.op = "write" \/ topic = "host" THEN new ELSE k.file
<1>1. k \in ConfigsAre /\ k.mem \in K!Places /\ k.file \in K!Places
  BY DEF ConfigsAre
<1>2. K!Carried(c) = [mem |-> new, file |-> file]
  BY Zenon DEF K!Carried
<1>3. /\ c.op \in Operations /\ c.v \in K!Contents /\ c.net \in Nets \cup {K!NoNet}
      /\ 0 \in K!Contents
  BY ContentsAre DEF Commands
<1> HIDE DEF k
<1>4. /\ new \in K!Places
      /\ c.op = "reload" => new = k.file
      /\ c.op \in {"add", "update", "set"} => new.v = c.v
  <2>1. CASE c.op = "add"
    <3>1. new = [v |-> c.v, net |-> K!NoNet]
      BY <2>1
    <3> HIDE DEF new
    <3> QED BY <1>3, <2>1, <3>1 DEF K!Places
  <2>2. CASE c.op \in {"update", "set"}
    <3>1. new = [k.mem EXCEPT !.v = c.v]
      BY <2>2
    <3> HIDE DEF new
    <3> QED BY <1>1, <1>3, <2>2, <3>1 DEF K!Places
  <2>3. CASE c.op = "join"
    <3>1. new = [k.mem EXCEPT !.net = c.net]
      BY <2>3
    <3> HIDE DEF new
    <3> QED BY <1>1, <1>3, <2>3, <3>1 DEF K!Places
  <2>4. CASE c.op = "leave"
    <3>1. new = [k.mem EXCEPT !.net = K!NoNet]
      BY <2>4
    <3> HIDE DEF new
    <3> QED BY <1>1, <1>3, <2>4, <3>1 DEF K!Places
  <2>5. CASE c.op \in {"del", "reload", "write"}
    <3>1. new = IF c.op = "del" THEN K!Absent ELSE IF c.op = "reload" THEN k.file ELSE k.mem
      BY <2>5
    <3> HIDE DEF new
    <3> QED BY <1>1, <1>3, <2>5, <3>1 DEF K!Places, K!Absent
  <2> QED BY <1>3, <2>1, <2>2, <2>3, <2>4, <2>5 DEF Operations
<1> HIDE DEF new
<1>5. file \in K!Places /\ (file = k.file \/ file = new)
  BY <1>1, <1>4
<1> HIDE DEF file
<1>6. K!Carried(c).mem = new /\ K!Carried(c).file = file /\ K!Carried(c) \in ConfigsAre
  BY <1>2, <1>4, <1>5 DEF ConfigsAre
<1> QED BY <1>4, <1>5, <1>6, Zenon DEF k

\* A failure leaves no deletion behind.
LEMMA FailedFits ==
  ASSUME NEW h, NEW t, TxnFits(t, h)
  PROVE  TxnFits(K!Failed(t), h)
<1>1. /\ t.kind \in {"none", "add", "update", "delete"} /\ t.row \in 0..MaxRows
      /\ t.before \in KeaRows
  BY DEF TxnFits, Txns
<1>2. CASE t.kind = "delete"
  BY <1>2, NoTxnIs, Zenon DEF K!Failed
<1>3. CASE t.kind # "delete"
  <2>1. "begun" \in {"none", "read", "begun"} /\ FALSE \in BOOLEAN
    OBVIOUS
  <2>2. K!Failed(t) = K!Txn("begun", t.kind, FALSE, t.row, t.before)
    BY <1>3, Zenon DEF K!Failed
  <2> QED BY <1>1, <1>3, <2>1, <2>2, TxnIs, Zenon
<1> QED BY <1>2, <1>3

\* The first command is done: what it gives, its daemon has.
LEMMA NextCommandFits ==
  ASSUME NEW h, NEW t, TxnFits(t, h), t.step = "sending", t.cmds # <<>>,
         t.cmds[1].op \in {"add", "update", "set"} => t.cmds[1].v \in h[t.cmds[1].daemon]
  PROVE  TxnFits([t EXCEPT !.cmds = Tail(t.cmds)], h)
<1> DEFINE s == t.cmds
           n == [t EXCEPT !.cmds = Tail(s)]
<1>1. t \in Txns /\ s \in Seq(Commands)
  BY DEF TxnFits, Txns
<1>2. /\ Tail(s) \in Seq(Commands) /\ Len(s) \in Nat /\ Len(s) > 0 /\ Len(Tail(s)) = Len(s) - 1
      /\ \A i \in 1..(Len(s) - 1) : Tail(s)[i] = s[i + 1]
  BY <1>1
<1>3. /\ n \in Txns
      /\ n.step = t.step /\ n.kind = t.kind /\ n.after = t.after /\ n.cmds = Tail(s)
  BY <1>1, <1>2 DEF Txns
<1>4. ASSUME NEW d \in KeaDaemons, NEW v, Gives(s, d, v)
      PROVE  v \in h[d] \/ Gives(Tail(s), d, v)
  <2>1. PICK i \in 1..Len(s) : s[i].op \in {"add", "update", "set"} /\ s[i].daemon = d /\ s[i].v = v
    BY <1>4, Zenon DEF Gives
  <2>2. CASE i = 1
    BY <2>1, <2>2, Zenon
  <2>3. CASE i # 1
    <3>1. i - 1 \in 1..Len(Tail(s)) /\ Tail(s)[i - 1] = s[i]
      BY <1>2, <2>3
    <3> QED BY <2>1, <3>1, Zenon DEF Gives
  <2> QED BY <2>2, <2>3
<1> HIDE DEF n
<1>5. TxnFits(n, h)
  BY <1>3, <1>4, Zenon DEF TxnFits, s
<1> QED BY <1>5, Zenon DEF n

\* A command is sent: a success has given its daemon what it was to give, for only a
\* deletion may succeed without being carried out.
LEMMA SendKeeps ==
  ASSUME KeaInv, NEW u \in Submitters, NEW carried \in BOOLEAN, NEW answered \in BOOLEAN,
         K!Send(u, carried, answered)
  PROVE  KeaInv'
<1> USE DEF KeaInv
<1> DEFINE t == txn[u]
           c == Head(t.cmds)
           fault == ~answered /\ ~K!Missing(c) /\ K!Possible(c)
           d0 == c.daemon
           t1 == IF answered THEN [t EXCEPT !.cmds = Tail(t.cmds)] ELSE K!Failed(t)
<1>1. /\ t.step = "sending" /\ t.cmds # <<>>
      /\ answered => carried \/ K!Missing(c)
      /\ fault => keaFaults < MaxKeaFaults[topic]
      /\ keaFaults' = IF fault THEN keaFaults + 1 ELSE keaFaults
      /\ kea' = IF carried THEN [kea EXCEPT ![d0] = K!Carried(c)] ELSE kea
      /\ had' = [had EXCEPT ![d0] = had[d0] \cup {kea'[d0].mem.v}]
      /\ txn' = [txn EXCEPT ![u] = t1]
      /\ UNCHANGED <<topic, db, knownConfigs, heldLocks, pulled, contents>>
  BY Zenon DEF K!Send
<1>2. TxnFits(t, had) /\ t \in Txns /\ t.cmds \in Seq(Commands)
  BY DEF TxnsFit, Txns
<1>3. c \in Commands /\ c = t.cmds[1] /\ d0 \in KeaDaemons
  <2>1. c \in Commands /\ c = t.cmds[1]
    BY <1>1, <1>2
  <2> HIDE DEF c
  <2> QED BY <2>1 DEF Commands
<1> HIDE DEF c, fault, t1
<1>4. kea[d0] \in ConfigsAre /\ ConfigFits(kea[d0], d0, had)
  BY <1>3 DEF KeaFits
<1>5. /\ K!Carried(c) \in ConfigsAre
      /\ K!Carried(c).file = kea[c.daemon].file \/ K!Carried(c).file = K!Carried(c).mem
      /\ c.op \in {"add", "update", "set"} => K!Carried(c).mem.v = c.v
  <2>1. kea[c.daemon] \in ConfigsAre /\ c \in Commands
    BY <1>3, <1>4
  <2> HIDE DEF d0
  <2> QED BY <2>1, CarriedIs, Zenon
<1>6. /\ kea' \in [KeaDaemons -> ConfigsAre] /\ kea'[d0] = IF carried THEN K!Carried(c) ELSE kea[d0]
      /\ \A d \in KeaDaemons \ {d0} : kea'[d] = kea[d]
  BY <1>1, <1>3, <1>5 DEF KeaFits
<1>7. /\ kea'[d0].mem.v \in K!Contents
      /\ had \in [KeaDaemons -> SUBSET K!Contents]
  <2> DEFINE k == kea'[d0]
  <2>1. k \in ConfigsAre
    BY <1>3, <1>6
  <2> HIDE DEF k
  <2>2. k.mem.v \in K!Contents
    BY <2>1 DEF ConfigsAre, K!Places
  <2> QED BY <2>2 DEF k, CountsFit
<1>8. /\ had' \in [KeaDaemons -> SUBSET K!Contents]
      /\ had'[d0] = had[d0] \cup {kea'[d0].mem.v}
      /\ \A d \in KeaDaemons : had[d] \subseteq had'[d]
  <2> DEFINE v == kea'[d0].mem.v
  <2>1. had' = [had EXCEPT ![d0] = had[d0] \cup {v}] /\ v \in K!Contents
    BY <1>1, <1>7
  <2> HIDE DEF v, d0
  <2>2. /\ had' \in [KeaDaemons -> SUBSET K!Contents] /\ had'[d0] = had[d0] \cup {v}
        /\ \A d \in KeaDaemons \ {d0} : had'[d] = had[d]
    BY <1>3, <1>7, <2>1
  <2>3. \A d \in KeaDaemons : had[d] \subseteq had'[d]
    BY <2>2
  <2> QED BY <2>2, <2>3, Zenon DEF v, d0
<1>9. /\ \A row : RowFits(row, had) => RowFits(row, had')
      /\ \A x : TxnFits(x, had) => TxnFits(x, had')
      /\ \A k : \A d \in KeaDaemons : ConfigFits(k, d, had) => ConfigFits(k, d, had')
      /\ \A p : PullFits(p, had) => PullFits(p, had')
  BY <1>7, <1>8, FitsLater, Zenon
<1>10. KeaFits'
  <2>1. ConfigFits(kea'[d0], d0, had')
    <3>1. ConfigFits(kea[d0], d0, had')
      BY <1>3, <1>4, <1>9, Zenon
    <3>2. kea'[d0].mem.v \in had'[d0] /\ kea'[d0] \in ConfigsAre
      BY <1>3, <1>6, <1>8
    <3> QED BY <1>5, <1>6, <3>1, <3>2, Zenon DEF ConfigFits
  <2>2. ASSUME NEW d \in KeaDaemons \ {d0} PROVE ConfigFits(kea'[d], d, had')
    <3>1. ConfigFits(kea[d], d, had) /\ d \in KeaDaemons
      BY DEF KeaFits
    <3> QED BY <1>6, <1>9, <2>2, <3>1, Zenon
  <2> QED BY <1>6, <2>1, <2>2, Zenon DEF KeaFits
<1>11. TxnsFit'
  <2>1. TxnFits(t, had')
    BY <1>2, <1>9, Zenon
  <2>2. TxnFits(t1, had')
    <3>1. CASE answered
      <4>1. ASSUME c.op \in {"add", "update", "set"} PROVE c.v \in had'[d0]
        <5>1. carried
          <6>1. c.op # "del"
            BY <4>1
          <6> QED BY <1>1, <3>1, <6>1, Zenon DEF K!Missing
        <5> QED BY <1>5, <1>6, <1>8, <4>1, <5>1
      <4>2. TxnFits([t EXCEPT !.cmds = Tail(t.cmds)], had')
        <5> HIDE DEF t
        <5> QED BY <1>1, <1>3, <2>1, <4>1, NextCommandFits, Zenon
      <4> QED BY <3>1, <4>2, Zenon DEF t1
    <3>2. CASE ~answered
      BY <2>1, <3>2, FailedFits, Zenon DEF t1
    <3> QED BY <3>1, <3>2
  <2>3. t1 \in Txns
    BY <2>2, Zenon DEF TxnFits
  <2>4. txn' \in [Submitters -> Txns] /\ txn'[u] = t1 /\ \A w \in Submitters \ {u} : txn'[w] = txn[w]
    BY <1>1, <2>3 DEF TxnsFit
  <2>5. \A w \in Submitters : TxnFits(txn'[w], had')
    BY <1>9, <2>2, <2>4, Zenon DEF TxnsFit
  <2> QED BY <2>4, <2>5, Zenon DEF TxnsFit
<1>12. CountsFit'
  <2>1. MaxKeaFaults \in [Topics -> Nat] /\ topic \in Topics
    BY KeaChangesAssumption DEF K!ChangesAssumption, CountsFit
  <2>2. MaxKeaFaults[topic] \in Nat /\ keaFaults \in 0..MaxKeaFaults[topic]
    BY <2>1 DEF CountsFit
  <2>3. keaFaults' \in 0..MaxKeaFaults[topic]
    BY <1>1, <2>2
  <2> QED BY <1>1, <1>8, <2>3 DEF CountsFit
<1>13. DbFits'
  BY <1>1, <1>9, Zenon DEF DbFits
<1>14. PulledFits' /\ KnownFit'
  BY <1>1, <1>9, Zenon DEF PulledFits, KnownFit
<1> QED BY <1>10, <1>11, <1>12, <1>13, <1>14

\* One row is replaced, if it is there.
LEMMA RowChanges ==
  ASSUME DbFits, NEW i, NEW row, RowFits(row, had)
  PROVE  /\ [db EXCEPT ![i] = row] \in [K!Ids -> KeaRows]
         /\ \A j \in K!Ids : RowFits([db EXCEPT ![i] = row][j], had)
<1> DEFINE n == [db EXCEPT ![i] = row]
<1>1. row \in KeaRows
  BY DEF RowFits
<1>2. n \in [K!Ids -> KeaRows] /\ \A j \in K!Ids : n[j] = IF j = i THEN row ELSE db[j]
  BY <1>1 DEF DbFits
<1> HIDE DEF n
<1>3. \A j \in K!Ids : RowFits(n[j], had)
  BY <1>2, Zenon DEF DbFits
<1> QED BY <1>2, <1>3, Zenon DEF n

\* A row made of what one or another row says of each daemon.
LEMMA MixedFits ==
  ASSUME NEW h, NEW a \in KeaRows, NEW b, RowFits(b, h), NEW D, NEW net \in Nets \cup {K!NoNet},
         \A d \in KeaDaemons : a.on[d] = 0 \/ a.on[d] \in h[d]
  PROVE  RowFits([net |-> net, on |-> [d \in KeaDaemons |-> IF d \in D THEN a.on[d] ELSE b.on[d]]], h)
<1> DEFINE on == [d \in KeaDaemons |-> IF d \in D THEN a.on[d] ELSE b.on[d]]
           n == [net |-> net, on |-> on]
<1>1. /\ b \in KeaRows /\ \A d \in KeaDaemons : b.on[d] = 0 \/ b.on[d] \in h[d]
  BY DEF RowFits
<1>2. on \in [KeaDaemons -> K!Contents] /\ \A d \in KeaDaemons : on[d] \in {a.on[d], b.on[d]}
  BY <1>1 DEF KeaRows
<1> HIDE DEF on
<1>3. n \in KeaRows /\ n.on = on
  BY <1>2 DEF KeaRows
<1> HIDE DEF n
<1>4. \A d \in KeaDaemons : n.on[d] = 0 \/ n.on[d] \in h[d]
  BY <1>1, <1>2, <1>3
<1>5. RowFits(n, h)
  BY <1>3, <1>4, Zenon DEF RowFits
<1> QED BY <1>5, Zenon DEF n, on

\* A row of no daemon claims nothing.
LEMMA NoRowFits ==
  ASSUME NEW h
  PROVE  RowFits(K!NoRow, h)
<1>1. \A d \in KeaDaemons : K!NoRow.on[d] = 0
  BY DEF K!NoRow
<1> QED BY <1>1, NoRowIs, Zenon DEF RowFits

\* When all has been sent, the daemons have had what the object is to be.
LEMMA SentIsHad ==
  ASSUME NEW h, NEW t, TxnFits(t, h), t.cmds = <<>>
  PROVE  RowFits(t.after, h)
<1>1. t.after \in KeaRows
  BY DEF TxnFits, Txns
<1>2. ASSUME NEW d, NEW v PROVE ~Gives(t.cmds, d, v)
  <2>1. 1..Len(t.cmds) = {}
    BY SMT
  <2> QED BY <2>1, Zenon DEF Gives
<1> QED BY <1>1, <1>2, Zenon DEF TxnFits, RowFits

\* Locks of a user are released.
LEMMA UnlockedAre ==
  ASSUME NEW u, heldLocks \in [KeaDaemons -> Submitters \cup {K!NoUser}]
  PROVE  K!Unlocked(u) \in [KeaDaemons -> Submitters \cup {K!NoUser}]
BY DEF K!Unlocked

\* The configurations that the database then has of global parameters.
LEMMA GlobalConfigsAre ==
  ASSUME db' \in [K!Ids -> KeaRows]
  PROVE  [d \in KeaDaemons |-> [v |-> db'[1].on[d], net |-> K!NoNet]] \in [KeaDaemons -> K!Places]
<1>1. 1 \in K!Ids
  BY KeaChangesAssumption DEF K!ChangesAssumption, K!Ids
<1>2. db'[1] \in KeaRows
  BY <1>1
<1> DEFINE row == db'[1]
<1> HIDE DEF row
<1>3. row \in KeaRows
  BY <1>2 DEF row
<1>4. [d \in KeaDaemons |-> [v |-> row.on[d], net |-> K!NoNet]] \in [KeaDaemons -> K!Places]
  BY <1>3 DEF KeaRows, K!Places
<1> QED BY <1>4, Zenon DEF row

\* A transaction that has sent all stores what fits.
LEMMA StoredFits ==
  ASSUME DbFits, NEW t, TxnFits(t, had), t.cmds = <<>>, K!CanStore(t)
  PROVE  /\ K!Stored(t) \in [K!Ids -> KeaRows]
         /\ \A j \in K!Ids : RowFits(K!Stored(t)[j], had)
<1>1. RowFits(t.after, had) /\ t.after \in KeaRows
  BY SentIsHad, Zenon DEF RowFits
<1>2. K!Stored(t) \in {K!Added(t), K!Deleted(t), K!StoredSubnet(t), K!StoredObject(t)}
      /\ (K!Stored(t) = K!StoredSubnet(t) => t.kind = "update" \/
            K!Stored(t) \in {K!Added(t), K!Deleted(t), K!StoredObject(t)})
  BY DEF K!Stored
<1> DEFINE Kept(n) == n \in [K!Ids -> KeaRows] /\ \A j \in K!Ids : RowFits(n[j], had)
<1>3. Kept(K!Added(t)) /\ Kept(K!StoredObject(t))
  BY <1>1, RowChanges, Zenon DEF K!Added, K!StoredObject
<1>4. Kept(K!Deleted(t))
  BY NoRowFits, RowChanges, Zenon DEF K!Deleted
<1>5. Kept(K!StoredSubnet(t))
  <2> DEFINE b == db[t.row]
             row == [net |-> t.after.net,
                     on |-> [d \in KeaDaemons |->
                               IF d \in K!Members(t.after) THEN t.after.on[d] ELSE b.on[d]]]
  <2>1. K!StoredSubnet(t) = [db EXCEPT ![t.row] = row]
    BY Zenon DEF K!StoredSubnet
  <2>2. CASE t.row \in K!Ids
    <3>1. RowFits(b, had)
      BY <2>2, Zenon DEF DbFits
    <3>2. t.after.net \in Nets \cup {K!NoNet}
      BY <1>1 DEF KeaRows
    <3>3. \A d \in KeaDaemons : t.after.on[d] = 0 \/ t.after.on[d] \in had[d]
      BY <1>1, Zenon DEF RowFits
    <3> HIDE DEF b
    <3>4. RowFits(row, had)
      BY <1>1, <3>1, <3>2, <3>3, MixedFits, Zenon
    <3> HIDE DEF row
    <3>5. Kept([db EXCEPT ![t.row] = row])
      BY <3>4, RowChanges, Zenon
    <3> HIDE DEF Kept
    <3> QED BY <2>1, <3>5, Zenon
  <2>3. CASE t.row \notin K!Ids
    <3> HIDE DEF row
    <3>1. K!StoredSubnet(t) = db
      BY <2>1, <2>3 DEF DbFits
    <3> QED BY <3>1, Zenon DEF DbFits
  <2> QED BY <2>2, <2>3
<1> QED BY <1>2, <1>3, <1>4, <1>5, Zenon

\* The transaction is done.
LEMMA CommitKeeps ==
  ASSUME KeaInv, NEW u \in Submitters, K!Commit(u)
  PROVE  KeaInv'
<1> USE DEF KeaInv
<1>1. /\ txn[u].cmds = <<>> /\ K!CanStore(txn[u])
      /\ db' = K!Stored(txn[u])
      /\ knownConfigs' = IF topic # "global_parameters" THEN knownConfigs
                         ELSE [d \in KeaDaemons |-> [v |-> db'[1].on[d], net |-> K!NoNet]]
      /\ txn' = [txn EXCEPT ![u] = K!NoTxn]
      /\ heldLocks' = K!Unlocked(u)
      /\ UNCHANGED <<topic, kea, pulled, contents, keaFaults, had>>
  BY Zenon DEF K!Commit
<1>2. TxnFits(txn[u], had)
  BY DEF TxnsFit
<1>3. DbFits'
  BY <1>1, <1>2, StoredFits, Zenon DEF DbFits
<1>4. KnownFit'
  <2>1. db' \in [K!Ids -> KeaRows]
    BY <1>3, Zenon DEF DbFits
  <2> QED BY <1>1, <2>1, GlobalConfigsAre, Zenon DEF KnownFit
<1>5. TxnsFit'
  BY <1>1, NoTxnIs, TxnChanges, Zenon
<1>6. CountsFit'
  BY <1>1, UnlockedAre, Zenon DEF CountsFit
<1> QED BY <1>1, <1>3, <1>4, <1>5, <1>6 DEF KeaFits, PulledFits

\* The database fails, perhaps after the configurations of some daemons.
LEMMA CommitFailsKeeps ==
  ASSUME KeaInv, NEW u \in Submitters, K!CommitFails(u)
  PROVE  KeaInv'
<1> USE DEF KeaInv
<1> DEFINE t == txn[u]
<1>1. /\ t.cmds = <<>>
      /\ K!CanStore(t) => keaFaults < MaxKeaFaults[topic]
      /\ keaFaults' = IF K!CanStore(t) THEN keaFaults + 1 ELSE keaFaults
      /\ \/ UNCHANGED <<db, knownConfigs>>
         \/ \E n \in 1..(Len(Order) - 1) : \E D :
              /\ db' = [db EXCEPT ![1].on = [d \in KeaDaemons |->
                                               IF d \in D THEN t.after.on[d] ELSE db[1].on[d]]]
              /\ knownConfigs' = [d \in KeaDaemons |-> [v |-> db'[1].on[d], net |-> K!NoNet]]
      /\ txn' = [txn EXCEPT ![u] = K!Failed(t)]
      /\ UNCHANGED <<topic, kea, heldLocks, pulled, contents, had>>
  BY Zenon DEF K!CommitFails
<1>2. TxnFits(t, had)
  BY DEF TxnsFit
<1> HIDE DEF t
<1>3. RowFits(t.after, had) /\ t.after \in KeaRows
      /\ \A d \in KeaDaemons : t.after.on[d] = 0 \/ t.after.on[d] \in had[d]
  BY <1>1, <1>2, SentIsHad, Zenon DEF RowFits
<1>4. DbFits' /\ KnownFit'
  <2>1. CASE UNCHANGED <<db, knownConfigs>>
    BY <1>1, <2>1 DEF DbFits, KnownFit
  <2>2. ASSUME NEW D,
               db' = [db EXCEPT ![1].on = [d \in KeaDaemons |->
                                             IF d \in D THEN t.after.on[d] ELSE db[1].on[d]]],
               knownConfigs' = [d \in KeaDaemons |-> [v |-> db'[1].on[d], net |-> K!NoNet]]
        PROVE  DbFits' /\ KnownFit'
    <3> DEFINE b == db[1]
               on == [d \in KeaDaemons |-> IF d \in D THEN t.after.on[d] ELSE b.on[d]]
               row == [net |-> b.net, on |-> on]
    <3>1. 1 \in K!Ids
      BY KeaChangesAssumption DEF K!ChangesAssumption, K!Ids
    <3>2. RowFits(b, had)
      BY <3>1, Zenon DEF DbFits
    <3>3. b \in KeaRows /\ b.net \in Nets \cup {K!NoNet}
      BY <3>2 DEF RowFits, KeaRows
    <3>4. db' = [db EXCEPT ![1] = [b EXCEPT !.on = on]]
      BY <2>2, Zenon
    <3> HIDE DEF b
    <3>5. RowFits(row, had)
      BY <1>3, <3>2, <3>3, MixedFits, Zenon
    <3> HIDE DEF on
    <3>6. row = [b EXCEPT !.on = on]
      BY <3>3 DEF KeaRows
    <3> HIDE DEF row
    <3>7. db' = [db EXCEPT ![1] = row]
      BY <3>4, <3>6, Zenon
    <3>8. DbFits'
      BY <1>1, <3>5, <3>7, RowChanges, Zenon DEF DbFits
    <3>9. db' \in [K!Ids -> KeaRows]
      BY <3>8, Zenon DEF DbFits
    <3> QED BY <2>2, <3>8, <3>9, GlobalConfigsAre, Zenon DEF KnownFit
  <2> QED BY <1>1, <2>1, <2>2, Zenon
<1>5. TxnsFit'
  <2>1. TxnFits(K!Failed(t), had)
    BY <1>2, FailedFits, Zenon
  <2> QED BY <1>1, <2>1, TxnChanges, Zenon
<1>6. CountsFit'
  <2>1. MaxKeaFaults \in [Topics -> Nat] /\ topic \in Topics
    BY KeaChangesAssumption DEF K!ChangesAssumption, CountsFit
  <2>2. MaxKeaFaults[topic] \in Nat /\ keaFaults \in 0..MaxKeaFaults[topic]
    BY <2>1 DEF CountsFit
  <2>3. keaFaults' \in 0..MaxKeaFaults[topic]
    BY <1>1, <2>2
  <2> QED BY <1>1, <2>3 DEF CountsFit
<1> QED BY <1>1, <1>4, <1>5, <1>6 DEF KeaFits, PulledFits

\* The user gives up.
LEMMA CancelKeeps ==
  ASSUME KeaInv, NEW u \in Submitters, K!Cancel(u)
  PROVE  KeaInv'
<1> USE DEF KeaInv
<1>1. /\ txn' = [txn EXCEPT ![u] = K!NoTxn]
      /\ heldLocks' = K!Unlocked(u)
      /\ UNCHANGED <<topic, kea, db, knownConfigs, pulled, contents, keaFaults, had>>
  BY Zenon DEF K!Cancel
<1>2. TxnsFit'
  BY <1>1, NoTxnIs, TxnChanges, Zenon
<1>3. CountsFit'
  BY <1>1, UnlockedAre, Zenon DEF CountsFit
<1> QED BY <1>1, <1>2, <1>3 DEF KeaFits, DbFits, KnownFit, PulledFits

\* Kea has had what is in its file.
LEMMA RestartKeeps ==
  ASSUME KeaInv, NEW d \in KeaDaemons, K!Restart(d)
  PROVE  KeaInv'
<1> USE DEF KeaInv
<1> DEFINE k == [kea[d] EXCEPT !.mem = kea[d].file]
<1>1. /\ keaFaults < MaxKeaFaults[topic] /\ keaFaults' = keaFaults + 1
      /\ kea' = [kea EXCEPT ![d] = k]
      /\ txn' = K!Disturbed
      /\ UNCHANGED <<topic, db, knownConfigs, heldLocks, pulled, contents, had>>
  BY Zenon DEF K!Restart
<1>2. ConfigFits(k, d, had) /\ k \in ConfigsAre
  <2>1. ConfigFits(kea[d], d, had) /\ kea[d] \in ConfigsAre
    BY DEF KeaFits
  <2>2. k \in ConfigsAre /\ k.mem = kea[d].file /\ k.file = kea[d].file
    BY <2>1 DEF ConfigsAre
  <2> HIDE DEF k
  <2> QED BY <2>1, <2>2, Zenon DEF ConfigFits
<1> HIDE DEF k
<1>3. KeaFits'
  <2>1. kea' \in [KeaDaemons -> ConfigsAre] /\ kea'[d] = k /\ \A x \in KeaDaemons \ {d} : kea'[x] = kea[x]
    BY <1>1, <1>2 DEF KeaFits
  <2> QED BY <1>1, <1>2, <2>1, Zenon DEF KeaFits
<1>4. TxnsFit'
  BY <1>1, DisturbedFits, Zenon
<1>5. CountsFit'
  <2>1. MaxKeaFaults \in [Topics -> Nat] /\ topic \in Topics
    BY KeaChangesAssumption DEF K!ChangesAssumption, CountsFit
  <2>2. MaxKeaFaults[topic] \in Nat /\ keaFaults \in 0..MaxKeaFaults[topic]
    BY <2>1 DEF CountsFit
  <2>3. keaFaults' \in 0..MaxKeaFaults[topic]
    BY <1>1, <2>2
  <2> QED BY <1>1, <2>3 DEF CountsFit
<1> QED BY <1>1, <1>3, <1>4, <1>5 DEF DbFits, KnownFit, PulledFits

\* The puller reads what a daemon has.
LEMMA PullReadKeeps ==
  ASSUME KeaInv, NEW d \in KeaDaemons, K!PullRead(d)
  PROVE  KeaInv'
<1> USE DEF KeaInv
<1>1. /\ pulled' = [step |-> "read", daemon |-> d, conf |-> kea[d].mem]
      /\ txn' = K!Disturbed
      /\ UNCHANGED <<topic, kea, db, knownConfigs, heldLocks, contents, keaFaults, had>>
  BY Zenon DEF K!PullRead
<1>2. kea[d].mem \in K!Places /\ kea[d].mem.v \in had[d]
  BY DEF KeaFits, ConfigFits, ConfigsAre
<1>3. PulledFits'
  BY <1>1, <1>2 DEF PulledFits, PullFits
<1>4. TxnsFit'
  BY <1>1, DisturbedFits, Zenon
<1> QED BY <1>1, <1>3, <1>4 DEF CountsFit, KeaFits, DbFits, KnownFit

\* No pull is in progress.
LEMMA NoPullFits ==
  ASSUME NEW h
  PROVE  PullFits(K!NoPull, h)
<1>1. Head(Order) \in KeaDaemons
  BY KeaChangesAssumption DEF K!ChangesAssumption
<1>2. 0 \in K!Contents
  BY ContentsAre
<1> QED BY <1>1, <1>2 DEF PullFits, K!NoPull, K!Absent, K!Places

\* The puller replaces what the database says of a daemon.
LEMMA PullCommitKeeps ==
  ASSUME KeaInv, K!PullCommit
  PROVE  KeaInv'
<1> USE DEF KeaInv
<1> DEFINE d == pulled.daemon
           m == pulled.conf
           rows == K!Matching(m)
           i == IF rows # {} THEN CHOOSE j \in rows : TRUE ELSE K!Free
           W == K!Without(d)
           row == [on |-> [W[i].on EXCEPT ![d] = m.v], net |-> m.net]
           new == IF m.v = 0 \/ K!Several(rows) THEN W ELSE [W EXCEPT ![i] = row]
           ambiguous == K!Several(rows) /\ m.net = K!NoNet
<1>1. /\ db' = IF topic = "global_parameters" THEN [db EXCEPT ![1].on[d] = m.v]
               ELSE IF ambiguous THEN db
               ELSE [j \in K!Ids |-> IF K!Members(new[j]) = {} THEN K!NoRow ELSE new[j]]
      /\ knownConfigs' = IF ambiguous THEN knownConfigs ELSE [knownConfigs EXCEPT ![d] = m]
      /\ pulled' = K!NoPull
      /\ txn' = K!Disturbed
      /\ UNCHANGED <<topic, kea, heldLocks, contents, keaFaults, had>>
  BY Zenon DEF K!PullCommit
<1>2. /\ d \in KeaDaemons /\ m \in K!Places /\ m.v \in K!Contents /\ m.net \in Nets \cup {K!NoNet}
      /\ m.v = 0 \/ m.v \in had[d]
  BY DEF PulledFits, PullFits, K!Places
<1> HIDE DEF d, m, rows, i, ambiguous
\* A row that says something else of one daemon only.
<1>3. ASSUME NEW b, RowFits(b, had), NEW v \in K!Contents, v = 0 \/ v \in had[d],
             NEW net \in Nets \cup {K!NoNet}
      PROVE  RowFits([on |-> [b.on EXCEPT ![d] = v], net |-> net], had)
  <2> DEFINE on == [b.on EXCEPT ![d] = v]
             n == [on |-> on, net |-> net]
  <2>1. b \in KeaRows /\ \A x \in KeaDaemons : b.on[x] = 0 \/ b.on[x] \in had[x]
    BY <1>3 DEF RowFits
  <2>2. b.on \in [KeaDaemons -> K!Contents]
    BY <2>1 DEF KeaRows
  <2>3. /\ on \in [KeaDaemons -> K!Contents] /\ on[d] = v
        /\ \A x \in KeaDaemons \ {d} : on[x] = b.on[x]
    BY <1>2, <1>3, <2>2
  <2> HIDE DEF on
  <2>4. n \in KeaRows /\ n.on = on
    BY <2>3 DEF KeaRows
  <2> HIDE DEF n
  <2>5. \A x \in KeaDaemons : n.on[x] = 0 \/ n.on[x] \in had[x]
    BY <1>3, <2>1, <2>3, <2>4
  <2>6. RowFits(n, had)
    BY <2>4, <2>5, Zenon DEF RowFits
  <2> QED BY <2>6, Zenon DEF n, on
<1>4. \A j \in K!Ids : RowFits(db[j], had) /\ db[j] \in KeaRows /\ db[j].net \in Nets \cup {K!NoNet}
  BY DEF DbFits, KeaRows
<1>5. /\ W = [j \in K!Ids |-> W[j]]
      /\ \A j \in K!Ids : RowFits(W[j], had)
  <2>1. W = [j \in K!Ids |-> IF K!Exists(j) THEN [db[j] EXCEPT !.on[d] = 0] ELSE K!NoRow]
    BY Zenon DEF K!Without
  <2> HIDE DEF W
  <2>2. ASSUME NEW j \in K!Ids PROVE RowFits(W[j], had)
    <3>1. CASE K!Exists(j)
      <4> DEFINE b == db[j]
                 on == [b.on EXCEPT ![d] = 0]
      <4>1. RowFits(b, had) /\ b \in KeaRows /\ b.net \in Nets \cup {K!NoNet}
        BY <1>4
      <4>2. W[j] = [b EXCEPT !.on = on]
        BY <2>1, <3>1, Zenon
      <4> HIDE DEF b
      <4>3. RowFits([on |-> on, net |-> b.net], had)
        BY <1>3, <4>1, ContentsAre, Zenon
      <4> HIDE DEF on
      <4>4. [b EXCEPT !.on = on] = [on |-> on, net |-> b.net]
        BY <4>1 DEF KeaRows
      <4> QED BY <4>2, <4>3, <4>4, Zenon
    <3>2. CASE ~K!Exists(j)
      BY <2>1, <3>2, NoRowFits, Zenon
    <3> QED BY <3>1, <3>2
  <2> QED BY <2>1, <2>2, Zenon
<1> HIDE DEF W
<1>6. \A j \in K!Ids : RowFits(new[j], had)
  <2> SUFFICES ASSUME NEW j \in K!Ids PROVE RowFits(new[j], had)
    OBVIOUS
  <2>1. CASE m.v = 0 \/ K!Several(rows)
    BY <1>5, <2>1, Zenon
  <2>2. CASE ~(m.v = 0 \/ K!Several(rows))
    <3>1. new = [W EXCEPT ![i] = row]
      BY <2>2, Zenon
    <3>2. CASE i = j
      <4>1. RowFits(W[i], had)
        BY <1>5, <3>2, Zenon
      <4>2. RowFits(row, had)
        BY <1>2, <1>3, <4>1, Zenon
      <4> HIDE DEF new, row
      <4>3. new[j] = row
        BY <1>5, <3>1, <3>2
      <4> QED BY <4>2, <4>3, Zenon
    <3>3. CASE i # j
      <4> HIDE DEF new, row
      <4>1. new[j] = W[j]
        BY <1>5, <3>1, <3>3
      <4> QED BY <1>5, <4>1, Zenon
    <3> QED BY <3>2, <3>3
  <2> QED BY <2>1, <2>2
<1> HIDE DEF new
<1>7. DbFits'
  <2>1. CASE topic = "global_parameters"
    <3> DEFINE b == db[1]
               on == [b.on EXCEPT ![d] = m.v]
               r == [on |-> on, net |-> b.net]
    <3>1. 1 \in K!Ids
      BY KeaChangesAssumption DEF K!ChangesAssumption, K!Ids
    <3>2. RowFits(b, had) /\ b \in KeaRows /\ b.net \in Nets \cup {K!NoNet}
      BY <1>4, <3>1
    <3>3. db' = [db EXCEPT ![1] = [b EXCEPT !.on = on]]
      BY <1>1, <2>1, Zenon
    <3> HIDE DEF b
    <3>4. RowFits(r, had)
      BY <1>2, <1>3, <3>2, Zenon
    <3> HIDE DEF on
    <3>5. r = [b EXCEPT !.on = on]
      BY <3>2 DEF KeaRows
    <3> HIDE DEF r
    <3>6. db' = [db EXCEPT ![1] = r]
      BY <3>3, <3>5, Zenon
    <3>7. /\ [db EXCEPT ![1] = r] \in [K!Ids -> KeaRows]
          /\ \A j \in K!Ids : RowFits([db EXCEPT ![1] = r][j], had)
      BY <3>4, RowChanges, Zenon
    <3> QED BY <1>1, <3>6, <3>7, Zenon DEF DbFits
  <2>2. CASE topic # "global_parameters"
    <3>1. CASE ambiguous
      BY <1>1, <2>2, <3>1 DEF DbFits
    <3>2. CASE ~ambiguous
      <4>1. db' = [j \in K!Ids |-> IF K!Members(new[j]) = {} THEN K!NoRow ELSE new[j]]
        BY <1>1, <2>2, <3>2, Zenon
      <4>2. \A j \in K!Ids : RowFits(db'[j], had)
        BY <1>6, <4>1, NoRowFits, Zenon
      <4>3. \A j \in K!Ids : db'[j] \in KeaRows
        BY <4>2, Zenon DEF RowFits
      <4>4. db' \in [K!Ids -> KeaRows]
        BY <4>1, <4>3, Zenon
      <4> QED BY <1>1, <4>2, <4>4, Zenon DEF DbFits
    <3> QED BY <3>1, <3>2
  <2> QED BY <2>1, <2>2
<1>8. KnownFit'
  BY <1>1, <1>2 DEF KnownFit
<1>9. PulledFits'
  BY <1>1, NoPullFits, Zenon DEF PulledFits
<1>10. TxnsFit'
  BY <1>1, DisturbedFits, Zenon
<1> QED BY <1>1, <1>7, <1>8, <1>9, <1>10 DEF CountsFit, KeaFits

\* At the start.
LEMMA KeaInit ==
  ASSUME K!Init
  PROVE  KeaInv
<1> DEFINE On(D) == [d \in KeaDaemons |-> IF d \in D \/ topic = "global_parameters" THEN 1 ELSE 0]
<1>0. PICK D \in {KeaDaemons, {Head(Order)}} : \E n \in K!MayBeIn :
        /\ db = [i \in K!Ids |-> IF i = 1 THEN [on |-> On(D), net |-> n] ELSE K!NoRow]
        /\ knownConfigs = [d \in KeaDaemons |->
                             IF On(D)[d] = 0 THEN K!Absent ELSE [v |-> 1, net |-> n]]
        /\ kea = [d \in KeaDaemons |-> [mem |-> knownConfigs[d], file |-> knownConfigs[d]]]
        /\ had = [d \in KeaDaemons |-> {knownConfigs[d].v}]
  BY Zenon DEF K!Init
<1> DEFINE on == On(D)
<1>1. PICK n :
      /\ n \in K!MayBeIn
      /\ on = [d \in KeaDaemons |-> IF d \in D \/ topic = "global_parameters" THEN 1 ELSE 0]
      /\ db = [i \in K!Ids |-> IF i = 1 THEN [on |-> on, net |-> n] ELSE K!NoRow]
      /\ knownConfigs = [d \in KeaDaemons |->
                           IF on[d] = 0 THEN K!Absent ELSE [v |-> 1, net |-> n]]
      /\ kea = [d \in KeaDaemons |-> [mem |-> knownConfigs[d], file |-> knownConfigs[d]]]
      /\ had = [d \in KeaDaemons |-> {knownConfigs[d].v}]
  BY <1>0, Zenon
<1> HIDE DEF on
<1>2. /\ topic \in Topics /\ heldLocks = [d \in KeaDaemons |-> K!NoUser]
      /\ txn = [u \in Submitters |-> K!NoTxn] /\ pulled = K!NoPull
      /\ contents = 1 /\ keaFaults = 0
  BY DEF K!Init
<1>3. n \in Nets \cup {K!NoNet} /\ 0 \in K!Contents /\ 1 \in K!Contents
  BY <1>1, ContentsAre DEF K!MayBeIn
<1>4. /\ on \in [KeaDaemons -> K!Contents] /\ \A d \in KeaDaemons : on[d] \in {0, 1}
      /\ knownConfigs \in [KeaDaemons -> K!Places]
      /\ \A d \in KeaDaemons : knownConfigs[d].v = on[d]
  BY <1>1, <1>3 DEF K!Absent, K!Places
<1>5. had \in [KeaDaemons -> SUBSET K!Contents] /\ \A d \in KeaDaemons : had[d] = {on[d]}
  BY <1>1, <1>4
<1>6. CountsFit
  <2>1. MaxKeaFaults[topic] \in Nat /\ MaxContents \in Nat
    BY <1>2, KeaChangesAssumption DEF K!ChangesAssumption
  <2> QED BY <1>2, <1>5, <2>1 DEF CountsFit
<1>7. KeaFits
  <2>1. ASSUME NEW d \in KeaDaemons PROVE ConfigFits(kea[d], d, had)
    <3>1. kea[d] = [mem |-> knownConfigs[d], file |-> knownConfigs[d]]
      BY <1>1
    <3>2. knownConfigs[d] \in K!Places /\ knownConfigs[d].v \in had[d]
      BY <1>4, <1>5
    <3> QED BY <3>1, <3>2 DEF ConfigFits, ConfigsAre
  <2>2. \A d \in KeaDaemons : kea[d] \in ConfigsAre
    BY <2>1, Zenon DEF ConfigFits
  <2>3. kea \in [KeaDaemons -> ConfigsAre]
    BY <1>1, <2>2, Zenon
  <2> QED BY <2>1, <2>3, Zenon DEF KeaFits
<1>8. DbFits
  <2> DEFINE row == [on |-> on, net |-> n]
  <2>1. row \in KeaRows /\ row.on = on
    BY <1>3, <1>4 DEF KeaRows
  <2>2. db = [i \in K!Ids |-> IF i = 1 THEN row ELSE K!NoRow]
    BY <1>1, Zenon
  <2> HIDE DEF row
  <2>3. RowFits(row, had)
    BY <1>5, <2>1 DEF RowFits
  <2>4. \A i \in K!Ids : RowFits(db[i], had)
    BY <2>2, <2>3, NoRowFits, Zenon
  <2>5. \A i \in K!Ids : db[i] \in KeaRows
    BY <2>4, Zenon DEF RowFits
  <2>6. db \in [K!Ids -> KeaRows]
    BY <2>2, <2>5, Zenon
  <2> QED BY <2>4, <2>6, Zenon DEF DbFits
<1>9. TxnsFit
  <2>1. \A u \in Submitters : TxnFits(txn[u], had)
    BY <1>2, NoTxnIs, Zenon
  <2>2. \A u \in Submitters : txn[u] \in Txns
    BY <2>1, Zenon DEF TxnFits
  <2>3. txn \in [Submitters -> Txns]
    BY <1>2, <2>2, Zenon
  <2> QED BY <2>1, <2>3, Zenon DEF TxnsFit
<1>10. KnownFit /\ PulledFits
  BY <1>2, <1>4, NoPullFits, Zenon DEF KnownFit, PulledFits
<1> QED BY <1>6, <1>7, <1>8, <1>9, <1>10 DEF KeaInv

\* Every step keeps it.
LEMMA KeaNext ==
  ASSUME KeaInv, [K!Next]_K!vars
  PROVE  KeaInv'
<1>1. CASE UNCHANGED K!vars
  BY <1>1 DEF K!vars, KeaInv, CountsFit, KeaFits, DbFits, KnownFit, TxnsFit, PulledFits
<1>2. ASSUME NEW u \in Submitters, K!Transaction(u)
      PROVE  KeaInv'
  <2>1. ASSUME K!CreateSubnetBegin(u) \/ K!CreateSharedNetworkBegin(u) \/ K!CreateHostBegin(u)
        PROVE  KeaInv'
    BY <2>1, BeginAddKeeps, Zenon
       DEF K!CreateSubnetBegin, K!CreateSharedNetworkBegin, K!CreateHostBegin
  <2>2. ASSUME NEW i \in K!Ids,
               \/ K!BeginSubnetUpdate(u, i) \/ K!BeginSharedNetworkUpdate(u, i)
               \/ K!BeginHostUpdate(u, i)
        PROVE  KeaInv'
    BY <2>2, BeginUpdateKeeps, Zenon
       DEF K!BeginSubnetUpdate, K!BeginSharedNetworkUpdate, K!BeginHostUpdate
  <2>3. CASE K!BeginGlobalParametersUpdate(u)
    <3>1. 1 \in K!Ids
      BY KeaChangesAssumption DEF K!ChangesAssumption, K!Ids
    <3> QED BY <2>3, <3>1, BeginUpdateKeeps, Zenon DEF K!BeginGlobalParametersUpdate
  <2>4. ASSUME NEW i \in K!Ids,
               K!DeleteSubnet(u, i) \/ K!DeleteSharedNetwork(u, i) \/ K!DeleteHost(u, i)
        PROVE  KeaInv'
    BY <2>4, DeleteKeeps, Zenon DEF K!DeleteSubnet, K!DeleteSharedNetwork, K!DeleteHost
  <2>5. CASE K!Begin(u)
    BY <2>1, <2>2, <2>3, <2>4, <2>5, Zenon DEF K!Begin
  <2>6. CASE \/ K!UpdateSubnetBegin(u) \/ K!UpdateSharedNetworkBegin(u)
             \/ K!UpdateHostBegin(u) \/ K!UpdateGlobalParametersBegin(u)
    BY <2>6, LockKeeps, Zenon
       DEF K!UpdateSubnetBegin, K!UpdateSharedNetworkBegin, K!UpdateHostBegin,
           K!UpdateGlobalParametersBegin
  <2>7. CASE K!Commit(u) \/ K!CommitFails(u) \/ K!Cancel(u)
    BY <2>7, CommitKeeps, CommitFailsKeeps, CancelKeeps, Zenon
  <2>8. ASSUME NEW D,
               \/ \E net \in K!MayBeIn : K!SubmitSubnet(u, D, net)
               \/ K!SubmitSharedNetwork(u, D) \/ K!SubmitHost(u, D)
               \/ K!SubmitGlobalParameters(u, D)
        PROVE  KeaInv'
    <3>1. PICK net \in K!MayBeIn \cup {K!NoNet} : K!Submit(u, D, net)
      BY <2>8, Zenon
         DEF K!SubmitSubnet, K!SubmitSharedNetwork, K!SubmitHost, K!SubmitGlobalParameters
    <3>2. net \in Nets \cup {K!NoNet}
      BY DEF K!MayBeIn
    <3> QED BY <3>1, <3>2, SubmitKeeps, Zenon
  <2>9. ASSUME NEW carried \in BOOLEAN, NEW answered \in BOOLEAN, K!Send(u, carried, answered)
        PROVE  KeaInv'
    BY <2>9, SendKeeps, Zenon
  <2> QED BY <1>2, <2>5, <2>6, <2>7, <2>8, <2>9, Zenon DEF K!Transaction
<1>3. CASE K!PullCommit
  BY <1>3, PullCommitKeeps
<1>4. ASSUME NEW d \in KeaDaemons, K!Restart(d) \/ K!PullRead(d)
      PROVE  KeaInv'
  BY <1>4, RestartKeeps, PullReadKeeps, Zenon
<1> QED BY <1>1, <1>2, <1>3, <1>4, Zenon DEF K!Next

\* It is an invariant ...
LEMMA KeaInvAlways == KeaChangesSpec => []KeaInv
<1>1. K!Init => KeaInv
  BY KeaInit
<1>2. KeaInv /\ [K!Next]_K!vars => KeaInv'
  BY KeaNext
<1> QED BY <1>1, <1>2, PTL DEF KeaChangesSpec, K!Spec

\* ... and implies that nothing is claimed early.
LEMMA NothingClaimedEarlyNow ==
  ASSUME KeaInv
  PROVE  NothingClaimedEarly
<1> USE DEF KeaInv
<1>1. K!TypeOK
  <2>1. db \in [K!Ids -> [on : [KeaDaemons -> K!Contents], net : Nets \cup {K!NoNet}]]
    BY DEF DbFits, KeaRows
  <2>2. kea \in [KeaDaemons -> [mem : K!Places, file : K!Places]]
    BY DEF KeaFits, ConfigsAre
  <2>3. \A u \in Submitters : txn[u].step \in {"none", "read", "begun", "sending"}
    BY DEF TxnsFit, Txns
  <2>4. pulled.step \in {"none", "read"}
    BY DEF PulledFits, PullFits
  <2> QED BY <2>1, <2>2, <2>3, <2>4, Zenon DEF K!TypeOK, CountsFit, KnownFit
<1>2. ASSUME NEW i \in K!Ids, NEW d \in K!Members(db[i])
      PROVE  db[i].on[d] \in had[d]
  <2>1. RowFits(db[i], had)
    BY DEF DbFits
  <2>2. d \in KeaDaemons /\ db[i].on[d] # 0
    BY DEF K!Members
  <2> QED BY <2>1, <2>2, Zenon DEF RowFits
<1> QED BY <1>1, <1>2, Zenon DEF NothingClaimedEarly, K!NothingClaimedEarly

\* The database claims of a daemon only what it has had, for any daemons, users, shared
\* networks, rows, faults and submits: commitChanges stores when all commands have
\* succeeded, the plans give each daemon its new content, and the puller stores what it read.
THEOREM NothingClaimedEarlyAlways == KeaChangesSpec => []NothingClaimedEarly
BY KeaInvAlways, NothingClaimedEarlyNow, PTL

=============================================================================
