--------------------------- MODULE AppStatesProofs ---------------------------
(***************************************************************************)
(* Proofs about the applications that are stored: ports and names of       *)
(* daemons stay unique (NoDuplicates), and what is stored comes with its   *)
(* networks and its review (StoredIsComplete), for any number of ports and *)
(* updaters, and any changes, failures and rows that are written back.     *)
(*                                                                         *)
(* Updates and writers of rows work on copies.  The strengthening says of  *)
(* every copy what must hold of a row that may come from it: whose daemon  *)
(* it is, that its configuration is reviewed, and, if the configuration is *)
(* still Kea's, that all copies agree on it and on the port and that the   *)
(* monitor sees the CA, so that no other CA can take its place.            *)
(***************************************************************************)
EXTENDS AppStates, TLAPS, FiniteSetTheorems, FunctionTheorems, SequenceTheorems

-----------------------------------------------------------------------------
(* The invariant                                                           *)

\* All rows of applications that the database and the updates have.
Entries == UNION {Range(job[u].list) : u \in Updaters}
Rows == apps \cup Entries
Daemons(rows) == UNION {a.daemons : a \in rows}

AppRow == [id : 0..lastId, port : Ports, active : BOOLEAN, daemons : SUBSET Daemon]
Job == [pc : {"idle", "merge", "ca", "daemons", "commit", "review"}, found : SUBSET Ports,
        list : Seq(AppRow), ca : {"none", "inactive", "active"}, sock : BOOLEAN,
        same : BOOLEAN, reviewed : SUBSET Nat]

MachineTypes ==
  /\ procs \in Seq(Ports \cup {Nsd})
  /\ \A i, j \in DOMAIN procs : procs[i] = procs[j] => i = j
  /\ newest \in Nat
  /\ kea \in [Ports -> [sock : BOOLEAN, up : BOOLEAN, version : 0..newest]]
  /\ detected \subseteq Ports
\* A row that is stored has numbers.
IsStored(a) == a.id # 0 /\ \A d \in a.daemons : d.id # 0
DbTypes ==
  /\ lastId \in Nat
  /\ apps \subseteq AppRow /\ IsFiniteSet(apps)
  /\ \A a \in apps : IsStored(a)
  /\ \A a, b \in apps : a.port = b.port \/ a.id = b.id => a = b
  /\ DOMAIN nets = Ids(UNION {DhcpOf(a) : a \in apps})
  /\ \A i \in DOMAIN nets : nets[i] \in 0..newest
  /\ begun \subseteq (1..lastId) \X (1..newest)
  /\ copy \in Daemon /\ copy.name = "dhcp"
  /\ 0 \notin lost
JobTypes ==
  /\ job \in [Updaters -> Job]
  /\ \A u \in Updaters :
       /\ job[u].pc \in {"idle", "merge"} <=> job[u].list = <<>>
       /\ job[u].pc = "review" => IsStored(Head(job[u].list))
Types == MachineTypes /\ DbTypes /\ JobTypes

\* A number is that of one daemon of one application, an application has one daemon
\* of a name, and an update has an application once.
OneOfAName == \A a \in Rows : \A d, e \in a.daemons : d.name = e.name => d = e
NewIsNew == \A a \in Rows : a.id = 0 => Ids(a.daemons) \subseteq {0}
Named == \A d, e \in Daemons(Rows) \cup {copy} : d.id = e.id /\ d.id # 0 => d.name = e.name
Owned ==
  \A a, b \in Rows : \A d \in a.daemons, e \in b.daemons : d.id = e.id /\ d.id # 0 => a.id = b.id
Once ==
  \A u \in Updaters : \A i, j \in DOMAIN job[u].list :
    job[u].list[i].id = job[u].list[j].id /\ job[u].list[i].id # 0 => i = j
Identity == OneOfAName /\ NewIsNew /\ Named /\ Owned /\ Once

\* A configuration that is reviewed, or is about to be.
ReviewSoon(d, u) ==
  job[u].pc = "review" /\ \E e \in Due(job[u]) : e.id = d.id /\ e.version = d.version
IsReviewed(d) ==
  \/ d.version = 0 \/ d.id \in lost \/ <<d.id, d.version>> \in begun
  \/ \E u \in Updaters : ReviewSoon(d, u)
\* The configuration that an update has read is not yet reviewed.
IsRead(u, i) == i = 1 /\ job[u].pc = "commit" /\ ~job[u].same
Reviews ==
  /\ \A a \in apps : \A d \in DhcpOf(a) : IsReviewed(d)
  /\ IsReviewed(copy)
  /\ \A u \in Updaters : \A i \in DOMAIN job[u].list : \A d \in DhcpOf(job[u].list[i]) :
       IsRead(u, i) \/ IsReviewed(d)

\* Configurations of different CAs differ; a CA that runs has one.
Versions ==
  /\ \A p, q \in Ports : kea[p].version = kea[q].version => p = q \/ kea[p].version = 0
  /\ \A p \in Running : kea[p].version # 0
OneUpdate == \A u, v \in Updaters : job[u].pc # "idle" /\ job[v].pc # "idle" => u = v

\* The configuration is that of a CA that runs; detection has the CA and keeps it.
Current(d, p) == p \in Running /\ d.version = kea[p].version
Sees(p) ==
  p \in Seen /\ p \in detected /\ \A u \in Updaters : job[u].pc = "merge" => p \in job[u].found
\* Rows of the daemon have this port and this configuration.
Agree(rows, d, p) ==
  \A a \in rows : \A e \in a.daemons : e.id = d.id => a.port = p /\ e.version = d.version
HasNets(d) == d.id \in DOMAIN nets => nets[d.id] = d.version

StoredKept ==
  \A a \in apps : \A d \in DhcpOf(a) : \A p \in Ports :
    Current(d, p) => Sees(p) /\ a.port = p /\ HasNets(d) /\ Agree(Entries, d, p)
CopyKept ==
  \A p \in Ports : Current(copy, p) /\ copy.id # 0 => Sees(p) /\ Agree(Rows, copy, p)
ListKept ==
  \A u \in Updaters : \A i \in DOMAIN job[u].list : \A d \in DhcpOf(job[u].list[i]) :
    \A p \in Ports : Current(d, p) =>
      Sees(p) /\ job[u].list[i].port = p /\ (IsRead(u, i) \/ HasNets(d))
Kept == disturbed \/ (OneUpdate /\ StoredKept /\ CopyKept /\ ListKept)

IInv == Types /\ Identity /\ Reviews /\ Versions /\ Kept
-----------------------------------------------------------------------------
(* Sequences and sets                                                      *)

\* A finite set can be listed.
LEMMA ListOfSet ==
  ASSUME NEW S, IsFiniteSet(S)
  PROVE  /\ SetToSeq(S) \in Seq(S)
         /\ \A i, j \in DOMAIN SetToSeq(S) : SetToSeq(S)[i] = SetToSeq(S)[j] => i = j
<1>1. ExistsBijection(1..Cardinality(S), S)
  BY FS_CardinalityType
<1>2. PICK f \in Bijection(1..Cardinality(S), S) : TRUE
  BY <1>1, Fun_ExistsBij
<1>3. f \in [1..Cardinality(S) -> S] /\ IsInjective(f)
  BY <1>2, Fun_BijectionProperties DEF Injection, Bijection, IsInjective
<1>4. SetToSeq(S) \in [1..Cardinality(S) -> S] /\ IsInjective(SetToSeq(S))
  BY <1>3 DEF SetToSeq
<1>5. Cardinality(S) \in Nat
  BY FS_CardinalityType
<1> QED BY <1>4, <1>5 DEF IsInjective

LEMMA RemoveOne ==
  ASSUME NEW T, NEW s \in Seq(T), NEW i \in DOMAIN s
  PROVE  /\ RemoveAt(s, i) \in Seq(T)
         /\ Len(RemoveAt(s, i)) = Len(s) - 1
         /\ \A k \in 1..Len(s) - 1 : RemoveAt(s, i)[k] = IF k < i THEN s[k] ELSE s[k + 1]
<1> DEFINE before == SubSeq(s, 1, i - 1)
           after == SubSeq(s, i + 1, Len(s))
<1>1. i \in 1..Len(s) /\ Len(s) \in Nat
  OBVIOUS
<1>2. /\ before \in Seq(T) /\ Len(before) = i - 1
      /\ \A k \in 1..i - 1 : before[k] = s[k]
  <2>1. \A k \in 1..i - 1 : s[k] \in T
    BY <1>1
  <2> QED BY <1>1, <2>1, SubSeqProperties
<1>3. /\ after \in Seq(T) /\ Len(after) = Len(s) - i
      /\ \A k \in 1..Len(s) - i : after[k] = s[k + i]
  <2>1. \A k \in i + 1..Len(s) : s[k] \in T
    BY <1>1
  <2>2. /\ after \in Seq(T)
        /\ Len(after) = IF i + 1 <= Len(s) THEN Len(s) - (i + 1) + 1 ELSE 0
        /\ \A k \in 1..Len(s) - (i + 1) + 1 : after[k] = s[(i + 1) + k - 1]
    BY <1>1, <2>1, SubSeqProperties
  <2> HIDE DEF after
  <2> QED BY <1>1, <2>2
<1> HIDE DEF before, after
<1>4. /\ before \o after \in Seq(T)
      /\ Len(before \o after) = Len(before) + Len(after)
      /\ \A k \in 1..Len(before) + Len(after) :
           (before \o after)[k] = IF k <= Len(before) THEN before[k] ELSE after[k - Len(before)]
  BY <1>2, <1>3, ConcatProperties
<1>5. ASSUME NEW k \in 1..Len(s) - 1
      PROVE  (before \o after)[k] = IF k < i THEN s[k] ELSE s[k + 1]
  <2>0. Len(before) = i - 1 /\ k \in 1..Len(before) + Len(after)
    BY <1>1, <1>2, <1>3
  <2>1. (before \o after)[k] = IF k <= i - 1 THEN before[k] ELSE after[k - (i - 1)]
    BY <1>4, <2>0
  <2>2. CASE k < i
    BY <1>1, <1>2, <2>1, <2>2
  <2>3. CASE ~ (k < i)
    <3>1. k - (i - 1) \in 1..Len(s) - i /\ k - (i - 1) + i = k + 1
      BY <1>1, <2>3
    <3>2. after[k - (i - 1)] = s[k - (i - 1) + i]
      BY <1>3, <3>1
    <3> QED BY <1>1, <2>1, <2>3, <3>1, <3>2, SMTT(30)
  <2> QED BY <2>2, <2>3
<1>6. Len(before \o after) = Len(s) - 1
  BY <1>1, <1>2, <1>3, <1>4
<1> QED BY <1>4, <1>5, <1>6 DEF RemoveAt, before, after

-----------------------------------------------------------------------------
(* The machine                                                             *)

MachineStep == ChangeProcs \/ (\E p \in Ports : ChangeKea(p)) \/ Detect

\* Processes are listed once, and one that is seen and does not end is still seen.
LEMMA ProcsStep ==
  ASSUME MachineTypes, ChangeProcs
  PROVE  /\ procs' \in Seq(Ports \cup {Nsd})
         /\ \A i, j \in DOMAIN procs' : procs'[i] = procs'[j] => i = j
         /\ \A p \in Running \cap Running' : p \in Seen => p \in Seen'
<1> USE DEF MachineTypes
<1> DEFINE T == Ports \cup {Nsd}
<1>1. ASSUME NEW p \in T, p \notin ToSet(procs), procs' = Append(procs, p)
      PROVE  /\ procs' \in Seq(T)
             /\ \A i, j \in DOMAIN procs' : procs'[i] = procs'[j] => i = j
             /\ \A q \in Running \cap Running' : q \in Seen => q \in Seen'
  <2>1. /\ procs' \in Seq(T) /\ Len(procs') = Len(procs) + 1
        /\ \A k \in 1..Len(procs) : procs'[k] = procs[k]
        /\ procs'[Len(procs) + 1] = p
    BY <1>1, AppendProperties
  <2>2. \A k \in 1..Len(procs) : procs[k] # p
    BY <1>1 DEF ToSet
  <2>3. \A i, j \in DOMAIN procs' : procs'[i] = procs'[j] => i = j
    BY <2>1, <2>2, SMTT(30)
  <2>4. ASSUME NEW q \in Running \cap Running', q \in Seen
        PROVE  q \in Seen'
    <3>1. PICK i \in DOMAIN procs : procs[i] = q /\ \A j \in 1..i : procs[j] # Nsd
      BY <2>4 DEF Seen
    <3>2. i \in DOMAIN procs' /\ procs'[i] = q /\ \A j \in 1..i : procs'[j] # Nsd
      BY <2>1, <3>1, SMTT(30)
    <3> QED BY <2>4, <3>2 DEF Seen
  <2> QED BY <2>1, <2>3, <2>4
<1>2. ASSUME NEW n \in DOMAIN procs, procs' = RemoveAt(procs, n)
      PROVE  /\ procs' \in Seq(T)
             /\ \A i, j \in DOMAIN procs' : procs'[i] = procs'[j] => i = j
             /\ \A q \in Running \cap Running' : q \in Seen => q \in Seen'
  <2>1. /\ procs' \in Seq(T) /\ Len(procs') = Len(procs) - 1
        /\ \A k \in 1..Len(procs) - 1 : procs'[k] = IF k < n THEN procs[k] ELSE procs[k + 1]
    BY <1>2, RemoveOne
  <2>2. n \in 1..Len(procs) /\ Len(procs) \in Nat /\ DOMAIN procs' = 1..Len(procs) - 1
        /\ DOMAIN procs = 1..Len(procs)
    BY <2>1
  <2>3. ASSUME NEW i \in DOMAIN procs', NEW j \in DOMAIN procs', procs'[i] = procs'[j]
        PROVE  i = j
    <3> DEFINE at(k) == IF k < n THEN k ELSE k + 1
    <3>1. at(i) \in DOMAIN procs /\ at(j) \in DOMAIN procs
      BY <2>2
    <3>2. procs'[i] = procs[at(i)] /\ procs'[j] = procs[at(j)]
      BY <2>1, <2>2
    <3>3. at(i) = at(j)
      BY <2>3, <3>1, <3>2
    <3> QED BY <2>2, <3>3
  <2>4. ASSUME NEW q \in Running \cap Running', q \in Seen
        PROVE  q \in Seen'
    <3>1. PICK i \in DOMAIN procs : procs[i] = q /\ \A j \in 1..i : procs[j] # Nsd
      BY <2>4 DEF Seen
    <3>2. PICK k \in DOMAIN procs' : procs'[k] = q
      BY <2>4 DEF Running, ToSet
    <3> DEFINE at(m) == IF m < n THEN m ELSE m + 1
    <3>3. at(k) \in DOMAIN procs /\ procs[at(k)] = q
      BY <2>1, <2>2, <3>2
    <3>4. at(k) = i
      BY <3>1, <3>3
    <3>5. \A j \in 1..k : procs'[j] # Nsd
      BY <2>1, <2>2, <3>1, <3>2, <3>4
    <3> QED BY <2>4, <3>2, <3>5 DEF Seen
  <2> QED BY <2>1, <2>3, <2>4
<1>3. CASE \E p \in Ports \ Running : procs' = Append(procs, p)
  BY <1>1, <1>3 DEF Running
<1>4. CASE Nsd \notin ToSet(procs) /\ procs' = Append(procs, Nsd)
  BY <1>1, <1>4
<1>5. CASE \E i \in DOMAIN procs : procs' = RemoveAt(procs, i)
  BY <1>2, <1>5
<1> QED BY <1>3, <1>4, <1>5 DEF ChangeProcs

\* A change of Kea, without the negations.
LEMMA KeaChange ==
  ASSUME NEW p \in Ports, ChangeKea(p)
  PROVE  \/ newest' = newest /\ \E b \in BOOLEAN : kea' = [kea EXCEPT ![p].up = b]
         \/ newest' = newest /\ \E b \in BOOLEAN : kea' = [kea EXCEPT ![p].sock = b]
         \/ newest' = newest + 1 /\ kea' = [kea EXCEPT ![p].version = newest + 1]
<1> DEFINE up == ~kea[p].up
           sock == ~kea[p].sock
<1>1. up \in BOOLEAN /\ sock \in BOOLEAN
  BY Zenon
<1>2. \/ newest' = newest /\ kea' = [kea EXCEPT ![p].up = up]
      \/ newest' = newest /\ kea' = [kea EXCEPT ![p].sock = sock]
      \/ newest' = newest + 1 /\ kea' = [kea EXCEPT ![p].version = newest + 1]
  BY Zenon DEF ChangeKea
<1> HIDE DEF up, sock
<1> QED BY <1>1, <1>2, Zenon

LEMMA MachineTypesStep ==
  ASSUME Types, Versions, MachineStep
  PROVE  MachineTypes' /\ newest' \in {newest, newest + 1}
<1> USE DEF Types, MachineTypes
<1>1. CASE ChangeProcs
  <2>1. newest' \in {newest, newest + 1}
    BY <1>1 DEF ChangeProcs
  <2>2. kea' \in [Ports -> [sock : BOOLEAN, up : BOOLEAN, version : 0..newest']]
    <3>1. kea \in [Ports -> [sock : BOOLEAN, up : BOOLEAN, version : 0..newest']]
      BY <2>1
    <3>2. kea' = kea \/ \E p \in Ports : kea' = [kea EXCEPT ![p].version = newest'] /\ newest' = newest + 1
      BY <1>1 DEF ChangeProcs
    <3>3. newest' \in 0..newest'
      BY <2>1
    <3> QED BY <3>1, <3>2, <3>3
  <2>3. detected' = detected
    BY <1>1 DEF ChangeProcs
  <2> QED BY <1>1, <2>1, <2>2, <2>3, ProcsStep
<1>2. ASSUME NEW p \in Ports, ChangeKea(p)
      PROVE  MachineTypes' /\ newest' \in {newest, newest + 1}
  <2>1. newest' \in {newest, newest + 1} /\ UNCHANGED <<procs, detected>>
    BY <1>2 DEF ChangeKea
  <2>2. kea' \in [Ports -> [sock : BOOLEAN, up : BOOLEAN, version : 0..newest']]
    <3>1. kea \in [Ports -> [sock : BOOLEAN, up : BOOLEAN, version : 0..newest']]
      BY <2>1
    <3>2. newest' = newest + 1 => newest + 1 \in 0..newest'
      OBVIOUS
    <3> QED BY <1>2, <3>1, <3>2, KeaChange, SMTT(30)
  <2> QED BY <2>1, <2>2
<1>3. CASE Detect
  <2>1. detected' \subseteq Ports /\ UNCHANGED machine
    BY <1>3 DEF Detect, Seen, Running
  <2> QED BY <2>1 DEF machine
<1> QED BY <1>1, <1>2, <1>3 DEF MachineStep

\* A configuration that is current was current, and a CA that was seen still is: what
\* is new has a number that no row has.
LEMMA CurrentWas ==
  ASSUME Types, Versions, MachineStep, NEW d \in Daemon, NEW p \in Ports, Current(d, p)'
  PROVE  Current(d, p) /\ (Sees(p) => Sees(p)')
<1>0. d.version \in 0..newest /\ newest \in Nat
  BY DEF Types, MachineTypes, Daemon
<1>1. CASE ChangeProcs
  <2>1. d.version # newest + 1
    BY <1>0
  <2>2. kea'[p].version = kea[p].version
    BY <1>1, <2>1 DEF ChangeProcs, Current, Types, MachineTypes
  <2>3. ASSUME p \notin Running
        PROVE  FALSE
    <3>1. p \in Running'
      BY DEF Current
    <3>2. CASE \E q \in Ports \ Running :
                 procs' = Append(procs, q) /\ kea' = [kea EXCEPT ![q].version = newest'] /\ newest' = newest + 1
      <4>1. PICK q \in Ports \ Running :
               procs' = Append(procs, q) /\ kea' = [kea EXCEPT ![q].version = newest'] /\ newest' = newest + 1
        BY <3>2
      <4>2. q = p
        BY <2>3, <3>1, <4>1 DEF Running, ToSet, Types, MachineTypes
      <4>3. kea'[p].version = newest + 1
        BY <4>1, <4>2 DEF Types, MachineTypes
      <4> QED BY <2>1, <4>3 DEF Current
    <3>3. CASE procs' = Append(procs, Nsd)
      BY <2>3, <3>1, <3>3, AppStatesAssumption DEF Running, ToSet, Types, MachineTypes
    <3>4. CASE \E i \in DOMAIN procs : procs' = RemoveAt(procs, i)
      <4>1. PICK i \in DOMAIN procs : procs' = RemoveAt(procs, i)
        BY <3>4
      <4>2. /\ Len(procs') = Len(procs) - 1 /\ procs' \in Seq(Ports \cup {Nsd})
            /\ \A k \in 1..Len(procs) - 1 : procs'[k] = IF k < i THEN procs[k] ELSE procs[k + 1]
        BY <4>1, RemoveOne, SMTT(30) DEF Types, MachineTypes
      <4>3. PICK k \in DOMAIN procs' : procs'[k] = p
        BY <3>1 DEF Running, ToSet
      <4>4. DOMAIN procs' = 1..Len(procs) - 1 /\ DOMAIN procs = 1..Len(procs) /\ Len(procs) \in Nat
        BY <4>2 DEF Types, MachineTypes
      <4>5. \E m \in DOMAIN procs : procs[m] = p
        BY <4>2, <4>3, <4>4, SMTT(30)
      <4> QED BY <2>3, <4>5 DEF Running, ToSet
    <3> QED BY <1>1, <3>2, <3>3, <3>4 DEF ChangeProcs
  <2>4. Current(d, p)
    BY <2>2, <2>3 DEF Current
  <2>5. p \in Seen => p \in Seen'
    <3>1. p \in Running \cap Running'
      BY <2>3 DEF Current
    <3> QED BY <1>1, <3>1, ProcsStep DEF Types
  <2>6. UNCHANGED <<detected, job>>
    BY <1>1 DEF ChangeProcs
  <2> QED BY <2>4, <2>5, <2>6 DEF Sees
<1>2. ASSUME NEW q \in Ports, ChangeKea(q)
      PROVE  Current(d, p) /\ (Sees(p) => Sees(p)')
  <2>1. UNCHANGED <<procs, detected, job>>
    BY <1>2 DEF ChangeKea
  <2>2. d.version # newest + 1
    BY <1>0
  <2>3. kea'[p].version = kea[p].version
    BY <1>2, <2>2, KeaChange, SMTT(30) DEF Current, Types, MachineTypes
  <2> QED BY <2>1, <2>3 DEF Current, Running, Sees, Seen
<1>3. CASE Detect
  <2>1. UNCHANGED <<procs, kea, job>> /\ detected' = Seen
    BY <1>3 DEF Detect, machine
  <2> QED BY <2>1 DEF Current, Running, Sees, Seen
<1> QED BY <1>1, <1>2, <1>3 DEF MachineStep

LEMMA VersionsStep ==
  ASSUME Types, Versions, MachineStep
  PROVE  Versions'
<1> USE DEF Types, MachineTypes
<1>1. \A p \in Ports : kea[p].version \in 0..newest /\ newest \in Nat
  OBVIOUS
<1>2. \/ kea' = kea
      \/ \E r \in Ports : kea' = [kea EXCEPT ![r].up = ~@]
      \/ \E r \in Ports : kea' = [kea EXCEPT ![r].sock = ~@]
      \/ \E r \in Ports : kea' = [kea EXCEPT ![r].version = newest + 1]
  BY DEF MachineStep, ChangeProcs, ChangeKea, Detect, machine
<1>3. /\ \A p \in Ports : kea'[p].version = kea[p].version \/ kea'[p].version = newest + 1
      /\ \A p, q \in Ports : kea'[p].version = newest + 1 /\ kea'[q].version = newest + 1 => p = q
  BY <1>1, <1>2, SMTT(30)
<1>4. \A p, q \in Ports : kea'[p].version = kea'[q].version => p = q \/ kea'[p].version = 0
  BY <1>1, <1>3, SMTT(30) DEF Versions
<1>5. ASSUME NEW p \in Running'
      PROVE  kea'[p].version # 0
  <2>1. p \in Ports
    BY <1>5 DEF Running
  <2>2. SUFFICES ASSUME kea'[p].version = 0
                 PROVE  FALSE
    OBVIOUS
  <2> DEFINE none == [id |-> 0, name |-> "dhcp", active |-> FALSE, version |-> 0]
  <2>3. none \in Daemon
    BY DEF Daemon, DbTypes
  <2>4. Current(none, p)'
    BY <1>5, <2>2 DEF Current
  <2> HIDE DEF none
  <2>5. Current(none, p)
    BY <2>1, <2>3, <2>4, CurrentWas
  <2>6. kea[p].version # 0 /\ none.version = 0
    BY <2>5 DEF Current, Versions, none
  <2> QED BY <2>5, <2>6 DEF Current
<1> QED BY <1>4, <1>5 DEF Versions

\* Numbers only grow.
LEMMA MoreNumbers ==
  ASSUME lastId \in Nat, lastId' \in Nat, newest \in Nat, newest' \in Nat,
         lastId <= lastId', newest <= newest'
  PROVE  /\ Daemon \subseteq Daemon' /\ AppRow \subseteq AppRow' /\ Job \subseteq Job'
         /\ Seq(AppRow) \subseteq Seq(AppRow')
         /\ (1..lastId) \X (1..newest) \subseteq (1..lastId') \X (1..newest')
         /\ 0..newest \subseteq 0..newest'
<1>1. Daemon \subseteq Daemon'
  BY DEF Daemon
<1>2. AppRow \subseteq AppRow'
  BY <1>1 DEF AppRow
<1>3. Seq(AppRow) \subseteq Seq(AppRow')
  BY <1>2, SeqMonotonic
<1>4. Job \subseteq Job'
  BY <1>3 DEF Job
<1> QED BY <1>1, <1>2, <1>3, <1>4

LEMMA HeldAreDaemons ==
  ASSUME Types
  PROVE  /\ \A u \in Updaters : \A i \in DOMAIN job[u].list :
              job[u].list[i] \in Rows /\ job[u].list[i] \in Entries
         /\ \A a \in Entries : \E u \in Updaters : \E i \in DOMAIN job[u].list : a = job[u].list[i]
         /\ \A a \in Rows : a \in AppRow /\ a.daemons \subseteq Daemon
         /\ \A a \in apps : a \in Rows
<1>1. \A u \in Updaters : job[u].list \in Seq(AppRow)
  BY DEF Types, JobTypes, Job
<1>2. \A a \in Entries : \E u \in Updaters : \E i \in DOMAIN job[u].list : a = job[u].list[i]
  BY DEF Entries, Range
<1>3. \A a \in Entries : a \in AppRow
  BY <1>1, <1>2
<1>4. \A a \in Rows : a \in AppRow
  BY <1>3 DEF Rows, Types, DbTypes
<1>5. \A a \in AppRow : a.daemons \subseteq Daemon
  BY DEF AppRow
<1>6. \A u \in Updaters : \A i \in DOMAIN job[u].list : job[u].list[i] \in Entries
  BY DEF Entries, Range
<1> QED BY <1>2, <1>4, <1>5, <1>6 DEF Rows

LEMMA MachineInv ==
  ASSUME IInv, MachineStep
  PROVE  IInv'
<1> USE DEF IInv
<1>1. UNCHANGED <<db, begun, job, copy, lost, disturbed>>
  BY DEF MachineStep, ChangeProcs, ChangeKea, Detect
<1>2. UNCHANGED <<apps, nets, lastId, begun, job, copy, lost, disturbed>>
  BY <1>1 DEF db
<1>3. MachineTypes' /\ newest' \in {newest, newest + 1}
  BY MachineTypesStep
<1>4. newest \in Nat /\ newest' \in Nat /\ newest <= newest' /\ lastId \in Nat /\ lastId' = lastId
  BY <1>2, <1>3 DEF Types, MachineTypes, DbTypes
<1>5. /\ Daemon \subseteq Daemon' /\ AppRow \subseteq AppRow' /\ Job \subseteq Job'
      /\ (1..lastId) \X (1..newest) \subseteq (1..lastId') \X (1..newest')
      /\ 0..newest \subseteq 0..newest'
  BY <1>4, MoreNumbers
<1>6. DbTypes'
  BY <1>2, <1>4, <1>5 DEF Types, DbTypes, IsStored, Ids, DhcpOf
<1>7. JobTypes'
  <2>1. job' \in [Updaters -> Job']
    BY <1>2, <1>5 DEF Types, JobTypes
  <2>2. \A u \in Updaters :
          /\ job[u].pc \in {"idle", "merge"} <=> job[u].list = <<>>
          /\ job[u].pc = "review" => IsStored(Head(job[u].list))
    BY DEF Types, JobTypes
  <2> QED BY <1>2, <2>1, <2>2 DEF JobTypes, IsStored, Ids
<1>8. Types'
  BY <1>3, <1>6, <1>7 DEF Types
<1>9. Identity' /\ Reviews'
  <2>1. Entries' = Entries /\ Rows' = Rows
    BY <1>2 DEF Entries, Rows
  <2>2. Identity'
    BY <1>2, <2>1 DEF Identity, OneOfAName, NewIsNew, Named, Owned, Once, Daemons, Ids
  <2>3. \A u \in Updaters : Due(job[u])' = Due(job[u])
    BY <1>2 DEF Due, DhcpOf
  <2>4. \A d : IsReviewed(d) => IsReviewed(d)'
    BY <1>2, <2>3 DEF IsReviewed, ReviewSoon
  <2>5. IsReviewed(copy)'
    BY <1>2, <2>3 DEF Reviews, IsReviewed, ReviewSoon
  <2>6. \A u \in Updaters : \A i : IsRead(u, i)' <=> IsRead(u, i)
    BY <1>2 DEF IsRead
  <2>7. Reviews'
    BY <1>2, <2>4, <2>5, <2>6 DEF Reviews, DhcpOf
  <2> QED BY <2>2, <2>7
<1>10. Versions'
  BY VersionsStep
<1>11. Kept'
  <2>1. CASE disturbed
    BY <1>2, <2>1 DEF Kept
  <2>2. CASE ~disturbed
    <3>0. OneUpdate /\ StoredKept /\ CopyKept /\ ListKept
      BY <2>2 DEF Kept
    <3>1. OneUpdate'
      BY <1>2, <3>0 DEF OneUpdate
    <3>2. Entries' = Entries /\ Rows' = Rows
      BY <1>2 DEF Entries, Rows
    <3>3. ASSUME NEW a \in apps, NEW d \in DhcpOf(a), NEW p \in Ports, Current(d, p)'
          PROVE  (Sees(p) /\ a.port = p /\ HasNets(d) /\ Agree(Entries, d, p))'
      <4>1. d \in Daemon
        BY <3>3, HeldAreDaemons DEF DhcpOf
      <4>2. Current(d, p) /\ (Sees(p) => Sees(p)')
        BY <3>3, <4>1, CurrentWas
      <4>3. Sees(p) /\ a.port = p /\ HasNets(d) /\ Agree(Entries, d, p)
        BY <3>0, <4>2 DEF StoredKept
      <4> QED BY <1>2, <3>2, <4>2, <4>3 DEF HasNets, Agree
    <3>4. StoredKept'
      BY <1>2, <3>3 DEF StoredKept, DhcpOf
    <3>5. ASSUME NEW p \in Ports, Current(copy, p)', copy.id # 0
          PROVE  (Sees(p) /\ Agree(Rows, copy, p))'
      <4>1. Current(copy, p)' <=> copy.version = kea'[p].version /\ p \in Running'
        BY <1>2 DEF Current
      <4>2. copy \in Daemon
        BY DEF Types, DbTypes
      <4> DEFINE c == copy
      <4>3. c' = c
        BY <1>2
      <4>4. Current(c, p) /\ (Sees(p) => Sees(p)')
        <5>1. \A d \in Daemon : d.version = kea'[p].version /\ p \in Running' =>
                Current(d, p) /\ (Sees(p) => Sees(p)')
          BY CurrentWas DEF Current
        <5> QED BY <3>5, <4>1, <4>2, <5>1
      <4>5. Sees(p) /\ Agree(Rows, copy, p)
        BY <3>0, <3>5, <4>4 DEF CopyKept
      <4> QED BY <1>2, <3>2, <4>4, <4>5 DEF Agree
    <3>6. CopyKept'
      BY <1>2, <3>5 DEF CopyKept
    <3>7. ASSUME NEW u \in Updaters, NEW i \in DOMAIN job[u].list, NEW d \in DhcpOf(job[u].list[i]),
                 NEW p \in Ports, Current(d, p)'
          PROVE  (Sees(p) /\ job[u].list[i].port = p /\ (IsRead(u, i) \/ HasNets(d)))'
      <4>1. d \in Daemon
        BY <3>7, HeldAreDaemons DEF DhcpOf
      <4>2. Current(d, p) /\ (Sees(p) => Sees(p)')
        BY <3>7, <4>1, CurrentWas
      <4>3. Sees(p) /\ job[u].list[i].port = p /\ (IsRead(u, i) \/ HasNets(d))
        BY <3>0, <4>2 DEF ListKept
      <4> QED BY <1>2, <4>2, <4>3 DEF HasNets, IsRead
    <3>8. ListKept'
      BY <1>2, <3>7 DEF ListKept, DhcpOf
    <3> QED BY <3>1, <3>4, <3>6, <3>8 DEF Kept
  <2> QED BY <2>1, <2>2
<1> QED BY <1>8, <1>9, <1>10, <1>11

-----------------------------------------------------------------------------
(* Rows that are written back, and a restart                               *)

LEMMA NoCopyTyped ==
  ASSUME Types
  PROVE  NoCopy \in Daemon /\ NoCopy.name = "dhcp" /\ NoCopy.id = 0 /\ NoCopy.version = 0
BY DEF Types, DbTypes, MachineTypes, Daemon, NoCopy

LEMMA ReadDaemonInv ==
  ASSUME IInv, ReadDaemon
  PROVE  IInv'
<1> USE DEF IInv
<1>1. UNCHANGED <<procs, kea, newest, detected, apps, nets, lastId, begun, job, lost, disturbed>>
  BY DEF ReadDaemon, machine, db
<1>2. PICK a \in apps : copy' \in DhcpOf(a)
  BY DEF ReadDaemon
<1>3. /\ copy' \in Daemon /\ copy'.name = "dhcp" /\ copy' \in a.daemons /\ copy'.id # 0
      /\ a \in Rows
  BY <1>2, HeldAreDaemons DEF DhcpOf, Types, DbTypes, IsStored, Ids
<1>4. Types'
  BY <1>1, <1>3 DEF Types, MachineTypes, DbTypes, JobTypes, IsStored, Ids, DhcpOf, Job, AppRow, Daemon
<1>5. Entries' = Entries /\ Rows' = Rows
  BY <1>1 DEF Entries, Rows
<1>6. Identity'
  <2>1. Named'
    BY <1>3, <1>5 DEF Identity, Named, Daemons
  <2> QED BY <1>1, <1>5, <2>1 DEF Identity, OneOfAName, NewIsNew, Owned, Once, Ids
<1>7. Reviews'
  <2>1. \A u \in Updaters : Due(job[u])' = Due(job[u])
    BY <1>1 DEF Due, DhcpOf
  <2>2. \A d : IsReviewed(d) => IsReviewed(d)'
    BY <1>1, <2>1 DEF IsReviewed, ReviewSoon
  <2> DEFINE c == copy'
  <2>3. IsReviewed(c)
    BY <1>2 DEF Reviews
  <2>4. IsReviewed(copy)'
    BY <1>1, <2>1, <2>3 DEF IsReviewed, ReviewSoon
  <2>5. \A u \in Updaters : \A i : IsRead(u, i)' <=> IsRead(u, i)
    BY <1>1 DEF IsRead
  <2> QED BY <1>1, <2>2, <2>4, <2>5 DEF Reviews, DhcpOf
<1>8. Versions'
  BY <1>1 DEF Versions, Running
<1>9. Kept'
  <2>1. CASE disturbed
    BY <1>1, <2>1 DEF Kept
  <2>2. CASE ~disturbed
    <3>0. OneUpdate /\ StoredKept /\ ListKept
      BY <2>2 DEF Kept
    <3>1. OneUpdate'
      BY <1>1, <3>0 DEF OneUpdate
    <3>2. \A p \in Ports : Sees(p)' <=> Sees(p)
      BY <1>1 DEF Sees, Seen, Running
    <3>3. \A d : \A p \in Ports : Current(d, p)' <=> Current(d, p)
      BY <1>1 DEF Current, Running
    <3>4. StoredKept'
      BY <1>1, <1>5, <3>0, <3>2, <3>3 DEF StoredKept, DhcpOf, HasNets, Agree
    <3>5. \A u \in Updaters : \A i : IsRead(u, i)' <=> IsRead(u, i)
      BY <1>1 DEF IsRead
    <3>6. ListKept'
      BY <1>1, <3>0, <3>2, <3>3, <3>5 DEF ListKept, DhcpOf, HasNets
    <3>7. ASSUME NEW p \in Ports, Current(copy, p)'
          PROVE  (Sees(p) /\ Agree(Rows, copy, p))'
      <4> DEFINE c == copy'
      <4>1. Current(c, p)
        BY <1>1, <3>7 DEF Current, Running
      <4>2. Sees(p) /\ a.port = p /\ Agree(Entries, c, p)
        BY <1>2, <3>0, <4>1 DEF StoredKept
      <4>3. ASSUME NEW b \in apps, NEW e \in b.daemons, e.id = c.id
            PROVE  b.port = p /\ e.version = c.version
        <5>1. b \in Rows
          BY HeldAreDaemons
        <5>2. b.id = a.id
          BY <1>3, <4>3, <5>1 DEF Identity, Owned
        <5>3. b = a
          BY <5>2 DEF Types, DbTypes
        <5>4. e.name = c.name
          BY <1>3, <4>3, <5>1 DEF Identity, Named, Daemons
        <5>5. e = c
          BY <1>3, <5>3, <5>4 DEF Identity, OneOfAName
        <5> QED BY <4>2, <5>3, <5>5
      <4>4. Agree(Rows, c, p)
        BY <4>2, <4>3 DEF Agree, Rows
      <4> QED BY <1>5, <3>2, <4>2, <4>4 DEF Agree
    <3>8. CopyKept'
      BY <3>7 DEF CopyKept
    <3> QED BY <3>1, <3>4, <3>6, <3>8 DEF Kept
  <2> QED BY <2>1, <2>2
<1> QED BY <1>4, <1>6, <1>7, <1>8, <1>9

\* The row of an application when the copy has been written.
Back(a) == [a EXCEPT !.daemons = {IF d.id = copy.id THEN copy ELSE d : d \in @}]

\* The daemons of such a row come from daemons of the same number and name.
LEMMA BackComesFrom ==
  ASSUME Types, Identity, NEW a \in apps
  PROVE  /\ Back(a) \in AppRow
         /\ Back(a).id = a.id /\ Back(a).port = a.port
         /\ \A e \in Back(a).daemons : \E d \in a.daemons :
              e = (IF d.id = copy.id THEN copy ELSE d) /\ e.id = d.id /\ e.name = d.name
         /\ \A d \in a.daemons : (IF d.id = copy.id THEN copy ELSE d) \in Back(a).daemons
         /\ {d.id : d \in DhcpOf(Back(a))} = {d.id : d \in DhcpOf(a)}
         /\ IsStored(Back(a))
<1>0. a \in AppRow /\ a \in Rows /\ a.daemons \subseteq Daemon /\ IsStored(a)
  BY HeldAreDaemons DEF Types, DbTypes
<1>1. /\ Back(a).id = a.id /\ Back(a).port = a.port /\ Back(a).active = a.active
      /\ Back(a).daemons = {IF d.id = copy.id THEN copy ELSE d : d \in a.daemons}
  BY <1>0 DEF Back, AppRow
<1>2. copy \in Daemon /\ copy.name = "dhcp"
  BY DEF Types, DbTypes
<1>3. Back(a) \in AppRow
  <2>1. {IF d.id = copy.id THEN copy ELSE d : d \in a.daemons} \subseteq Daemon
    BY <1>0, <1>2
  <2> QED BY <1>0, <2>1 DEF Back, AppRow
<1>4. ASSUME NEW d \in a.daemons
      PROVE  d.id # 0 /\ (d.id = copy.id => d.name = copy.name)
  <2>1. d.id # 0
    BY <1>0 DEF IsStored, Ids
  <2>2. d \in Daemons(Rows)
    BY <1>0 DEF Daemons
  <2> QED BY <2>1, <2>2 DEF Identity, Named
<1>5. \A e \in Back(a).daemons : \E d \in a.daemons :
        e = (IF d.id = copy.id THEN copy ELSE d) /\ e.id = d.id /\ e.name = d.name
  BY <1>1, <1>4
<1>6. \A d \in a.daemons : (IF d.id = copy.id THEN copy ELSE d) \in Back(a).daemons
  BY <1>1
<1>7. {d.id : d \in DhcpOf(Back(a))} = {d.id : d \in DhcpOf(a)}
  <2>1. \A d \in DhcpOf(a) : \E e \in DhcpOf(Back(a)) : e.id = d.id
    BY <1>4, <1>6 DEF DhcpOf
  <2>2. \A e \in DhcpOf(Back(a)) : \E d \in DhcpOf(a) : e.id = d.id
    BY <1>5 DEF DhcpOf
  <2> QED BY <2>1, <2>2
<1>8. IsStored(Back(a))
  BY <1>0, <1>1, <1>4, <1>5 DEF IsStored, Ids
<1> QED BY <1>1, <1>3, <1>5, <1>6, <1>7, <1>8

LEMMA WriteDaemonTypes ==
  ASSUME Types, Identity, WriteDaemon
  PROVE  Types' /\ Identity'
<1>1. UNCHANGED <<procs, kea, newest, detected, nets, lastId, begun, job, lost, disturbed>>
  BY DEF WriteDaemon, machine
<1>2. apps' = {Back(a) : a \in apps} /\ copy' = NoCopy
  BY DEF WriteDaemon, Back
<1>3. /\ copy' \in Daemon /\ copy'.name = "dhcp" /\ copy'.id = 0
  BY <1>2, NoCopyTyped
<1>4. IsFiniteSet(apps')
  <2> DEFINE f == [a \in apps |-> Back(a)]
  <2>1. f \in Surjection(apps, apps')
    BY <1>2 DEF Surjection
  <2> QED BY <2>1, FS_Surjection DEF Types, DbTypes
<1>5. apps' \subseteq AppRow /\ \A a \in apps' : IsStored(a)
  BY <1>2, BackComesFrom
<1>6. \A a, b \in apps' : a.port = b.port \/ a.id = b.id => a = b
  BY <1>2, BackComesFrom DEF Types, DbTypes
<1>7. DOMAIN nets' = Ids(UNION {DhcpOf(a) : a \in apps'})
  <2>1. DOMAIN nets = Ids(UNION {DhcpOf(a) : a \in apps})
    BY DEF Types, DbTypes
  <2>2. \A i : i \in Ids(UNION {DhcpOf(a) : a \in apps}) <=> \E a \in apps : i \in {d.id : d \in DhcpOf(a)}
    BY DEF Ids
  <2>3. \A i : i \in Ids(UNION {DhcpOf(a) : a \in apps'}) <=> \E a \in apps' : i \in {d.id : d \in DhcpOf(a)}
    BY DEF Ids
  <2>4. ASSUME NEW i
        PROVE  (\E a \in apps' : i \in {d.id : d \in DhcpOf(a)})
                 <=> \E a \in apps : i \in {d.id : d \in DhcpOf(a)}
    <3>1. \A a \in apps : {d.id : d \in DhcpOf(Back(a))} = {d.id : d \in DhcpOf(a)}
      BY BackComesFrom
    <3> DEFINE has(a) == i \in {d.id : d \in DhcpOf(a)}
    <3>2. \A a \in apps : has(Back(a)) <=> has(a)
      BY <3>1
    <3> HIDE DEF has
    <3>3. (\E a \in apps' : has(a)) <=> \E a \in apps : has(a)
      BY <1>2, <3>2
    <3> QED BY <3>3 DEF has
  <2>5. Ids(UNION {DhcpOf(a) : a \in apps'}) = Ids(UNION {DhcpOf(a) : a \in apps})
    BY <2>2, <2>3, <2>4
  <2> QED BY <1>1, <2>1, <2>5
<1>8. DbTypes'
  <2>1. \A a \in apps' : IsStored(a)'
    BY <1>5 DEF IsStored, Ids
  <2>2. AppRow' = AppRow /\ Daemon' = Daemon
    BY <1>1 DEF AppRow, Daemon
  <2>3. Ids(UNION {DhcpOf(a) : a \in apps})' = Ids(UNION {DhcpOf(a) : a \in apps'})
    BY DEF Ids, DhcpOf
  <2> QED BY <1>1, <1>3, <1>4, <1>5, <1>6, <1>7, <2>1, <2>2, <2>3 DEF Types, DbTypes
<1>9. Types'
  BY <1>1, <1>8 DEF Types, MachineTypes, JobTypes, IsStored, Ids, Job, AppRow, Daemon
<1>10. Entries' = Entries /\ Rows' = apps' \cup Entries
  BY <1>1 DEF Entries, Rows
<1>11. ASSUME NEW b \in Rows'
       PROVE  /\ \A d, e \in b.daemons : d.name = e.name => d = e
              /\ b.id = 0 => Ids(b.daemons) \subseteq {0}
              /\ \E a \in Rows : /\ a.id = b.id
                                 /\ \A e \in b.daemons : \E d \in a.daemons :
                                      e.id = d.id /\ e.name = d.name
  <2>1. CASE b \in Entries
    <3>1. b \in Rows
      BY <2>1 DEF Rows
    <3> QED BY <3>1 DEF Identity, OneOfAName, NewIsNew
  <2>2. CASE b \in apps'
    <3>1. PICK a \in apps : b = Back(a)
      BY <1>2, <2>2
    <3>2. a \in Rows /\ IsStored(a)
      BY HeldAreDaemons DEF Types, DbTypes
    <3>3. \A d, e \in b.daemons : d.name = e.name => d = e
      BY <3>1, <3>2, BackComesFrom DEF Identity, OneOfAName
    <3> QED BY <3>1, <3>2, <3>3, BackComesFrom DEF IsStored
  <2> QED BY <1>10, <2>1, <2>2
<1>12. OneOfAName' /\ NewIsNew'
  BY <1>11 DEF OneOfAName, NewIsNew, Ids
<1>13. Owned'
  BY <1>11 DEF Identity, Owned
<1>14. Named'
  <2>1. \A e \in Daemons(Rows)' : \E d \in Daemons(Rows) : e.id = d.id /\ e.name = d.name
    BY <1>11 DEF Daemons
  <2> QED BY <1>3, <2>1 DEF Identity, Named
<1>15. Once'
  BY <1>1 DEF Identity, Once
<1> QED BY <1>9, <1>12, <1>13, <1>14, <1>15 DEF Identity

LEMMA WriteDaemonInv ==
  ASSUME IInv, WriteDaemon
  PROVE  IInv'
<1> USE DEF IInv
<1>1. UNCHANGED <<procs, kea, newest, detected, nets, lastId, begun, job, lost, disturbed>>
  BY DEF WriteDaemon, machine
<1>2. apps' = {Back(a) : a \in apps} /\ copy' = NoCopy
  BY DEF WriteDaemon, Back
<1>3. copy'.id = 0 /\ copy'.version = 0
  BY <1>2, NoCopyTyped
<1>4. Types' /\ Identity'
  BY WriteDaemonTypes
<1>5. Entries' = Entries
  BY <1>1 DEF Entries
<1>6. Reviews'
  <2>1. \A u \in Updaters : Due(job[u])' = Due(job[u])
    BY <1>1 DEF Due, DhcpOf
  <2>2. \A d : IsReviewed(d) => IsReviewed(d)'
    BY <1>1, <2>1 DEF IsReviewed, ReviewSoon
  <2>3. IsReviewed(copy)'
    BY <1>3 DEF IsReviewed
  <2>4. \A u \in Updaters : \A i : IsRead(u, i)' <=> IsRead(u, i)
    BY <1>1 DEF IsRead
  <2>5. ASSUME NEW b \in apps', NEW e \in DhcpOf(b)
        PROVE  IsReviewed(e)
    <3>1. PICK a \in apps : b = Back(a)
      BY <1>2
    <3>2. PICK d \in a.daemons : e = (IF d.id = copy.id THEN copy ELSE d) /\ e.name = d.name
      BY <2>5, <3>1, BackComesFrom DEF DhcpOf
    <3>3. d \in DhcpOf(a)
      BY <2>5, <3>2 DEF DhcpOf
    <3> QED BY <3>2, <3>3 DEF Reviews
  <2> QED BY <1>1, <2>2, <2>3, <2>4, <2>5 DEF Reviews, DhcpOf
<1>7. Versions'
  BY <1>1 DEF Versions, Running
<1>8. Kept'
  <2>1. CASE disturbed
    BY <1>1, <2>1 DEF Kept
  <2>2. CASE ~disturbed
    <3>0. OneUpdate /\ StoredKept /\ CopyKept /\ ListKept
      BY <2>2 DEF Kept
    <3>1. OneUpdate'
      BY <1>1, <3>0 DEF OneUpdate
    <3>2. \A p \in Ports : Sees(p)' <=> Sees(p)
      BY <1>1 DEF Sees, Seen, Running
    <3>3. \A d : \A p \in Ports : Current(d, p)' <=> Current(d, p)
      BY <1>1 DEF Current, Running
    <3>4. ASSUME NEW b \in apps', NEW e \in DhcpOf(b), NEW p \in Ports, Current(e, p)
          PROVE  Sees(p) /\ b.port = p /\ HasNets(e) /\ Agree(Entries, e, p)
      <4>1. PICK a \in apps : b = Back(a)
        BY <1>2
      <4>2. PICK d \in a.daemons :
              e = (IF d.id = copy.id THEN copy ELSE d) /\ e.id = d.id /\ e.name = d.name
        BY <3>4, <4>1, BackComesFrom DEF DhcpOf
      <4>3. d \in DhcpOf(a) /\ b.port = a.port
        BY <3>4, <4>1, <4>2, BackComesFrom DEF DhcpOf
      <4>4. CASE d.id # copy.id
        <5>1. e = d
          BY <4>2, <4>4
        <5> QED BY <3>0, <3>4, <4>3, <5>1 DEF StoredKept
      <4>5. CASE d.id = copy.id
        <5>1. e = copy /\ copy.id # 0
          BY <4>2, <4>5 DEF Types, DbTypes, IsStored, Ids
        <5>2. Sees(p) /\ Agree(Rows, copy, p)
          BY <3>0, <3>4, <5>1 DEF CopyKept
        <5>3. a.port = p /\ d.version = copy.version
          BY <4>2, <4>5, <5>2, HeldAreDaemons DEF Agree
        <5>4. HasNets(d)
          BY <3>0, <3>4, <4>3, <5>1, <5>3 DEF StoredKept, Current
        <5> QED BY <4>3, <4>5, <5>1, <5>2, <5>3, <5>4 DEF HasNets, Agree, Rows
      <4> QED BY <4>4, <4>5
    <3>5. StoredKept'
      BY <1>1, <1>5, <3>2, <3>3, <3>4 DEF StoredKept, DhcpOf, HasNets, Agree
    <3>6. \A u \in Updaters : \A i : IsRead(u, i)' <=> IsRead(u, i)
      BY <1>1 DEF IsRead
    <3>7. ListKept'
      BY <1>1, <3>0, <3>2, <3>3, <3>6 DEF ListKept, DhcpOf, HasNets
    <3>8. CopyKept'
      BY <1>3 DEF CopyKept
    <3> QED BY <3>1, <3>5, <3>7, <3>8 DEF Kept
  <2> QED BY <2>1, <2>2
<1> QED BY <1>4, <1>6, <1>7, <1>8

LEMMA RestartInv ==
  ASSUME IInv, Restart
  PROVE  IInv'
<1> USE DEF IInv
<1>1. UNCHANGED <<procs, kea, newest, detected, apps, nets, lastId, begun, disturbed>>
  BY DEF Restart, machine, db
<1>2. job' = [u \in Updaters |-> Idle] /\ copy' = NoCopy
  BY DEF Restart
<1>3. /\ copy' \in Daemon /\ copy'.name = "dhcp" /\ copy'.id = 0 /\ copy'.version = 0
  BY <1>2, NoCopyTyped
<1>4. Idle \in Job /\ Idle.list = <<>> /\ Idle.pc = "idle"
  BY EmptySeq DEF Idle, Job
<1>5. \A u \in Updaters : job'[u] = Idle
  BY <1>2
<1>6. Types'
  <2>0. 0 \notin lost'
    <3>1. \A u \in Updaters : job[u].pc = "review" => 0 \notin Ids(Due(job[u]))
      BY DEF Types, JobTypes, IsStored, Ids, Due, DhcpOf
    <3>2. 0 \notin lost
      BY DEF Types, DbTypes
    <3>3. lost' = lost \cup UNION {Ids(Due(job[u])) : u \in {v \in Updaters : job[v].pc = "review"}}
      BY DEF Restart
    <3> QED BY <3>1, <3>2, <3>3
  <2>1. DbTypes'
    BY <1>1, <1>3, <2>0 DEF Types, DbTypes, IsStored, Ids, DhcpOf, AppRow, Daemon
  <2>2. Job' = Job
    BY <1>1 DEF Job, AppRow, Daemon
  <2>3. JobTypes'
    BY <1>2, <1>4, <1>5, <2>2 DEF JobTypes
  <2> QED BY <1>1, <2>1, <2>3 DEF Types, MachineTypes
<1>7. Entries' = {} /\ Rows' = apps /\ apps \subseteq Rows
  <2>1. \A u \in Updaters : Range(job'[u].list) = {}
    BY <1>4, <1>5 DEF Range
  <2> QED BY <1>1, <2>1 DEF Entries, Rows
<1>8. Identity'
  <2>1. Named'
    BY <1>3, <1>7 DEF Identity, Named, Daemons
  <2>2. Once'
    BY <1>4, <1>5 DEF Once
  <2> QED BY <1>7, <2>1, <2>2 DEF Identity, OneOfAName, NewIsNew, Owned, Ids
<1>9. Reviews'
  <2>1. \A d : IsReviewed(d) => IsReviewed(d)'
    <3>1. \A u \in Updaters : job[u].pc = "review" => Ids(Due(job[u])) \subseteq lost'
      BY DEF Restart
    <3>2. \A d : (\E u \in Updaters : ReviewSoon(d, u)) => d.id \in lost'
      BY <3>1 DEF ReviewSoon, Ids
    <3>3. lost \subseteq lost'
      BY DEF Restart
    <3> QED BY <1>1, <3>2, <3>3 DEF IsReviewed
  <2>2. IsReviewed(copy)'
    BY <1>3 DEF IsReviewed
  <2> QED BY <1>1, <1>4, <1>5, <2>1, <2>2 DEF Reviews, DhcpOf
<1>10. Versions'
  BY <1>1 DEF Versions, Running
<1>11. Kept'
  <2>1. CASE disturbed
    BY <1>1, <2>1 DEF Kept
  <2>2. CASE ~disturbed
    <3>0. StoredKept
      BY <2>2 DEF Kept
    <3>1. OneUpdate'
      BY <1>4, <1>5 DEF OneUpdate
    <3>2. \A p \in Ports : Sees(p) => Sees(p)'
      BY <1>1, <1>4, <1>5 DEF Sees, Seen, Running
    <3>3. \A d : \A p \in Ports : Current(d, p)' <=> Current(d, p)
      BY <1>1 DEF Current, Running
    <3>4. StoredKept'
      BY <1>1, <1>7, <3>0, <3>2, <3>3 DEF StoredKept, DhcpOf, HasNets, Agree
    <3>5. CopyKept'
      BY <1>3 DEF CopyKept
    <3>6. ListKept'
      BY <1>4, <1>5 DEF ListKept
    <3> QED BY <3>1, <3>4, <3>5, <3>6 DEF Kept
  <2> QED BY <2>1, <2>2
<1> QED BY <1>6, <1>8, <1>9, <1>10, <1>11

-----------------------------------------------------------------------------
(* Steps of an update that leave the database alone                        *)

\* The update of u goes on with J.
Goes(u, J) ==
  /\ job' = [job EXCEPT ![u] = J]
  /\ UNCHANGED <<procs, kea, newest, detected, apps, nets, lastId, copy, lost>>

LEMMA GoesOn ==
  ASSUME Types, NEW u \in Updaters, NEW J \in Job, Goes(u, J)
  PROVE  /\ job'[u] = J /\ \A v \in Updaters \ {u} : job'[v] = job[v]
         /\ \A b \in Rows' : b \in Rows \/ \E i \in DOMAIN J.list : b = J.list[i]
         /\ \A b \in Entries' : b \in Entries \/ \E i \in DOMAIN J.list : b = J.list[i]
<1>1. job'[u] = J /\ \A v \in Updaters \ {u} : job'[v] = job[v]
  BY DEF Goes, Types, JobTypes
<1>2. \A b \in Entries' : b \in Entries \/ \E i \in DOMAIN J.list : b = J.list[i]
  BY <1>1 DEF Entries, Range
<1>3. apps' = apps
  BY DEF Goes
<1> QED BY <1>1, <1>2, <1>3 DEF Rows

LEMMA GoesTypes ==
  ASSUME Types, NEW u \in Updaters, NEW J \in Job, Goes(u, J),
         J.pc \in {"idle", "merge"} <=> J.list = <<>>,
         J.pc = "review" => IsStored(Head(J.list)),
         begun' \subseteq (1..lastId) \X (1..newest)
  PROVE  Types'
<1>1. UNCHANGED <<procs, kea, newest, detected, apps, nets, lastId, copy, lost>>
  BY DEF Goes
<1>2. Daemon' = Daemon /\ AppRow' = AppRow /\ Job' = Job
  BY <1>1 DEF Daemon, AppRow, Job
<1>3. MachineTypes'
  BY <1>1 DEF Types, MachineTypes
<1>4. DbTypes'
  BY <1>1, <1>2 DEF Types, DbTypes, IsStored, Ids, DhcpOf
<1>5. job' \in [Updaters -> Job]
  BY <1>2 DEF Goes, Types, JobTypes
<1>6. \A v \in Updaters :
        /\ job'[v].pc \in {"idle", "merge"} <=> job'[v].list = <<>>
        /\ job'[v].pc = "review" => IsStored(Head(job'[v].list))
  BY GoesOn DEF Types, JobTypes
<1>7. JobTypes'
  BY <1>2, <1>5, <1>6 DEF JobTypes, IsStored
<1> QED BY <1>3, <1>4, <1>7 DEF Types

\* A row that an update may work on.
RowFits(b) ==
  /\ \A d, e \in b.daemons : d.name = e.name => d = e
  /\ b.id = 0 => Ids(b.daemons) \subseteq {0}
  /\ \A e \in b.daemons : e.id # 0 => \E a \in Rows : \E d \in a.daemons :
       a.id = b.id /\ e.id = d.id /\ e.name = d.name

LEMMA OldRowsFit ==
  ASSUME Identity, NEW a \in Rows
  PROVE  RowFits(a)
BY DEF Identity, OneOfAName, NewIsNew, RowFits

LEMMA GoesIdentity ==
  ASSUME Types, Identity, NEW u \in Updaters, NEW J \in Job, Goes(u, J),
         \A i \in DOMAIN J.list : RowFits(J.list[i]),
         \A i, j \in DOMAIN J.list : J.list[i].id = J.list[j].id /\ J.list[i].id # 0 => i = j
  PROVE  Identity'
<1>1. \A b \in Rows' : RowFits(b)
  BY GoesOn, OldRowsFit
<1>2. copy' = copy
  BY DEF Goes
<1>3. OneOfAName' /\ NewIsNew'
  BY <1>1 DEF OneOfAName, NewIsNew, RowFits, Ids
<1>4. Owned'
  BY <1>1 DEF Identity, Owned, RowFits
<1>5. Named'
  <2>1. \A e \in Daemons(Rows)' : e.id # 0 => \E d \in Daemons(Rows) : e.id = d.id /\ e.name = d.name
    BY <1>1 DEF Daemons, RowFits
  <2> QED BY <1>2, <2>1 DEF Identity, Named
<1>6. Once'
  BY GoesOn DEF Identity, Once
<1> QED BY <1>3, <1>4, <1>5, <1>6 DEF Identity

LEMMA GoesReviews ==
  ASSUME Types, Reviews, NEW u \in Updaters, NEW J \in Job, Goes(u, J), begun' = begun,
         job[u].pc # "review",
         \A i \in DOMAIN J.list : \A d \in DhcpOf(J.list[i]) :
           (i = 1 /\ J.pc = "commit" /\ ~J.same) \/ IsReviewed(d)
  PROVE  Reviews'
<1>1. UNCHANGED <<apps, copy, lost, begun>>
  BY DEF Goes
<1>2. \A v \in Updaters \ {u} : Due(job[v])' = Due(job[v])
  BY GoesOn DEF Due, DhcpOf
<1>3. \A v \in Updaters : \A d : ReviewSoon(d, v) => ReviewSoon(d, v)'
  <2> SUFFICES ASSUME NEW v \in Updaters, NEW d, ReviewSoon(d, v)
               PROVE  ReviewSoon(d, v)'
    OBVIOUS
  <2>1. v # u
    BY DEF ReviewSoon
  <2> QED BY <1>2, <2>1, GoesOn DEF ReviewSoon
<1>4. \A d : IsReviewed(d) => IsReviewed(d)'
  BY <1>1, <1>3 DEF IsReviewed
<1>5. IsReviewed(copy)'
  <2>0. PICK c : c = copy
    OBVIOUS
  <2>1. IsReviewed(c)'
    BY <1>4, <2>0 DEF Reviews
  <2>2. \A v \in Updaters : ReviewSoon(c, v)' => ReviewSoon(copy, v)'
    BY <1>1, <2>0 DEF ReviewSoon
  <2> QED BY <1>1, <2>0, <2>1, <2>2 DEF IsReviewed
<1>6. ASSUME NEW v \in Updaters, NEW i \in DOMAIN job'[v].list, NEW d \in DhcpOf(job'[v].list[i])
      PROVE  (IsRead(v, i) \/ IsReviewed(d))'
  <2>1. CASE v = u
    BY <1>4, <1>6, <2>1, GoesOn DEF IsRead
  <2>2. CASE v # u
    BY <1>4, <1>6, <2>2, GoesOn DEF IsRead, Reviews
  <2> QED BY <2>1, <2>2
<1> QED BY <1>1, <1>4, <1>5, <1>6 DEF Reviews, DhcpOf

\* What the rows of J must say of a configuration that is current.
ListFits(J) ==
  /\ \A a \in apps : \A d \in DhcpOf(a) : \A p \in Ports :
       Current(d, p) => \A i \in DOMAIN J.list : Agree({J.list[i]}, d, p)
  /\ \A p \in Ports : Current(copy, p) /\ copy.id # 0 =>
       \A i \in DOMAIN J.list : Agree({J.list[i]}, copy, p)
  /\ \A i \in DOMAIN J.list : \A d \in DhcpOf(J.list[i]) : \A p \in Ports : Current(d, p) =>
       /\ p \in Seen /\ p \in detected
       /\ J.list[i].port = p /\ ((i = 1 /\ J.pc = "commit" /\ ~J.same) \/ HasNets(d))

LEMMA GoesKept ==
  ASSUME Types, OneUpdate, StoredKept, CopyKept, ListKept,
         NEW u \in Updaters, NEW J \in Job, Goes(u, J),
         J.pc \in {"idle", "merge"} <=> J.list = <<>>,
         J.pc = "merge" => J.found = detected,
         \A v \in Updaters \ {u} : J.pc # "idle" => job[v].pc = "idle",
         ListFits(J)
  PROVE  OneUpdate' /\ StoredKept' /\ CopyKept' /\ ListKept'
<1>1. UNCHANGED <<procs, kea, detected, apps, nets, copy>>
  BY DEF Goes
<1>2. OneUpdate'
  BY GoesOn DEF OneUpdate
<1>3. \A p \in Ports : Sees(p) => Sees(p)'
  BY <1>1, GoesOn DEF Sees, Seen, Running
<1>4. \A d : \A p \in Ports : Current(d, p)' <=> Current(d, p)
  BY <1>1 DEF Current, Running
<1>5. StoredKept'
  <2> SUFFICES ASSUME NEW a \in apps, NEW d \in DhcpOf(a), NEW p \in Ports, Current(d, p)
               PROVE  (Sees(p) /\ a.port = p /\ HasNets(d) /\ Agree(Entries, d, p))'
    BY <1>1, <1>4 DEF StoredKept, DhcpOf
  <2>1. Sees(p) /\ a.port = p /\ HasNets(d) /\ Agree(Entries, d, p)
    BY DEF StoredKept
  <2>2. Agree(Entries', d, p)
    BY <2>1, GoesOn DEF Agree, ListFits
  <2> QED BY <1>1, <1>3, <2>1, <2>2 DEF HasNets, Agree
<1>6. CopyKept'
  <2> SUFFICES ASSUME NEW p \in Ports, Current(copy, p), copy.id # 0
               PROVE  Sees(p)' /\ Agree(Rows', copy, p)
    BY <1>1 DEF CopyKept, Agree, Current, Running
  <2>1. Sees(p) /\ Agree(Rows, copy, p)
    BY DEF CopyKept
  <2>2. Agree(Rows', copy, p)
    BY <2>1, GoesOn DEF Agree, ListFits
  <2> QED BY <1>3, <2>1, <2>2
<1>7. ListKept'
  <2> SUFFICES ASSUME NEW v \in Updaters, NEW i \in DOMAIN job'[v].list,
                      NEW d \in DhcpOf(job'[v].list[i]), NEW p \in Ports, Current(d, p)
               PROVE  Sees(p)' /\ job'[v].list[i].port = p /\ (IsRead(v, i)' \/ HasNets(d)')
    BY <1>4 DEF ListKept, DhcpOf
  <2>1. CASE v = u
    <3>1. job'[v] = J
      BY <2>1, GoesOn
    <3>2. /\ p \in Seen /\ p \in detected
          /\ J.list[i].port = p /\ ((i = 1 /\ J.pc = "commit" /\ ~J.same) \/ HasNets(d))
      BY <3>1 DEF ListFits
    <3>3. J.pc # "idle"
      <4>1. DOMAIN J.list = 1..Len(J.list) /\ J.list # <<>>
        BY <3>1 DEF Job
      <4> QED BY <4>1
    <3>4. Sees(p)'
      BY <1>1, <2>1, <3>1, <3>2, <3>3, GoesOn DEF Sees, Seen, Running, Types, JobTypes
    <3> QED BY <1>1, <3>1, <3>2, <3>4 DEF IsRead, HasNets
  <2>2. CASE v # u
    <3>1. job'[v] = job[v]
      BY <2>2, GoesOn
    <3>2. Sees(p) /\ job[v].list[i].port = p /\ (IsRead(v, i) \/ HasNets(d))
      BY <3>1 DEF ListKept
    <3> QED BY <1>1, <1>3, <3>1, <3>2 DEF IsRead, HasNets
  <2> QED BY <2>1, <2>2
<1> QED BY <1>2, <1>5, <1>6, <1>7

\* The rows of J fit as numbers, names, reviews and configurations.
LEMMA GoesInv ==
  ASSUME IInv, NEW u \in Updaters, NEW J \in Job, Goes(u, J), begun' = begun,
         job[u].pc # "review", J.pc # "review",
         J.pc \in {"idle", "merge"} <=> J.list = <<>>,
         \A i \in DOMAIN J.list : RowFits(J.list[i]),
         \A i, j \in DOMAIN J.list : J.list[i].id = J.list[j].id /\ J.list[i].id # 0 => i = j,
         \A i \in DOMAIN J.list : \A d \in DhcpOf(J.list[i]) :
           (i = 1 /\ J.pc = "commit" /\ ~J.same) \/ IsReviewed(d),
         ~disturbed' => /\ ~disturbed /\ (J.pc = "merge" => J.found = detected)
                        /\ \A v \in Updaters \ {u} : J.pc # "idle" => job[v].pc = "idle"
                        /\ OneUpdate /\ StoredKept /\ CopyKept /\ ListKept => ListFits(J)
  PROVE  IInv'
<1>1. Types /\ Identity /\ Reviews /\ Versions /\ Kept
  BY DEF IInv
<1>2. Types'
  BY <1>1, GoesTypes DEF Types, DbTypes
<1>3. Identity'
  BY <1>1, GoesIdentity
<1>4. Reviews'
  BY <1>1, GoesReviews
<1>5. Versions'
  BY <1>1 DEF Versions, Running, Goes
<1>6. Kept'
  <2>1. CASE disturbed'
    BY <2>1 DEF Kept
  <2>2. CASE ~disturbed'
    <3>1. OneUpdate /\ StoredKept /\ CopyKept /\ ListKept
      BY <1>1, <2>2 DEF Kept
    <3>2. OneUpdate' /\ StoredKept' /\ CopyKept' /\ ListKept'
      BY <1>1, <2>2, <3>1, GoesKept
    <3> QED BY <3>2 DEF Kept
  <2> QED BY <2>1, <2>2
<1> QED BY <1>2, <1>3, <1>4, <1>5, <1>6 DEF IInv

LEMMA EmptyList ==
  ASSUME NEW J \in Job, J.list = <<>>
  PROVE  DOMAIN J.list = {} /\ ListFits(J)
<1>1. DOMAIN J.list = {}
  OBVIOUS
<1> QED BY <1>1 DEF ListFits

LEMMA GetStateInv ==
  ASSUME IInv, NEW u \in Updaters, GetState(u), job' # job
  PROVE  IInv'
<1> DEFINE J == [Idle EXCEPT !.pc = "merge", !.found = detected]
<1>1. /\ job[u].pc = "idle" /\ job' = [job EXCEPT ![u] = J]
      /\ disturbed' = (disturbed \/ \E v \in Updaters : job[v].pc # "idle")
      /\ UNCHANGED <<procs, kea, newest, detected, apps, nets, lastId, copy, lost, begun>>
  BY Zenon DEF GetState, machine, db
<1>2. J \in Job /\ J.list = <<>> /\ J.pc = "merge" /\ J.found = detected
  BY EmptySeq DEF IInv, Types, MachineTypes, Job, Idle
<1>3. ~disturbed' => ~disturbed /\ \A v \in Updaters : job[v].pc = "idle"
  BY <1>1
<1> HIDE DEF J
<1>4. Goes(u, J)
  BY <1>1 DEF Goes
<1>5. DOMAIN J.list = {} /\ ListFits(J)
  BY <1>2, EmptyList
<1> QED BY <1>1, <1>2, <1>3, <1>4, <1>5, GoesInv

\* An update that ends, or fails.
LEMMA IdleFits ==
  ASSUME IInv
  PROVE  /\ Idle \in Job /\ Idle.list = <<>> /\ Idle.pc = "idle"
         /\ DOMAIN Idle.list = {} /\ ListFits(Idle)
<1>1. Idle \in Job /\ Idle.list = <<>> /\ Idle.pc = "idle"
  BY EmptySeq DEF Job, Idle
<1> QED BY <1>1, EmptyList

LEMMA GivesUp ==
  ASSUME IInv, NEW u \in Updaters, Goes(u, Idle), begun' = begun, disturbed' = disturbed,
         job[u].pc # "review"
  PROVE  IInv'
BY IdleFits, GoesInv

\* The rows that an update has fit.
LEMMA ListHolds ==
  ASSUME IInv, NEW u \in Updaters
  PROVE  /\ \A i \in DOMAIN job[u].list : RowFits(job[u].list[i]) /\ job[u].list[i] \in AppRow
         /\ \A i, j \in DOMAIN job[u].list :
              job[u].list[i].id = job[u].list[j].id /\ job[u].list[i].id # 0 => i = j
         /\ \A i \in DOMAIN job[u].list : \A d \in DhcpOf(job[u].list[i]) :
              IsRead(u, i) \/ IsReviewed(d)
         /\ job[u] \in Job /\ (job[u].pc \in {"idle", "merge"} <=> job[u].list = <<>>)
         /\ DOMAIN job[u].list = 1..Len(job[u].list)
<1> USE DEF IInv
<1>1. \A i \in DOMAIN job[u].list : RowFits(job[u].list[i]) /\ job[u].list[i] \in AppRow
  BY HeldAreDaemons, OldRowsFit
<1>2. \A i, j \in DOMAIN job[u].list :
        job[u].list[i].id = job[u].list[j].id /\ job[u].list[i].id # 0 => i = j
  BY DEF Identity, Once
<1>3. \A i \in DOMAIN job[u].list : \A d \in DhcpOf(job[u].list[i]) :
        IsRead(u, i) \/ IsReviewed(d)
  BY DEF Reviews
<1>4. job[u] \in Job /\ (job[u].pc \in {"idle", "merge"} <=> job[u].list = <<>>)
  BY DEF Types, JobTypes
<1>5. job[u].list \in Seq(AppRow)
  BY <1>4 DEF Job
<1> QED BY <1>1, <1>2, <1>3, <1>4, <1>5

\* Those that are also in the new list, and not the one that was read, still fit.
LEMMA ListHoldsKept ==
  ASSUME IInv, OneUpdate, StoredKept, CopyKept, ListKept, NEW u \in Updaters
  PROVE  \A i \in DOMAIN job[u].list :
           /\ \A a \in apps : \A d \in DhcpOf(a) : \A p \in Ports :
                Current(d, p) => Agree({job[u].list[i]}, d, p)
           /\ \A p \in Ports : Current(copy, p) /\ copy.id # 0 => Agree({job[u].list[i]}, copy, p)
           /\ \A d \in DhcpOf(job[u].list[i]) : \A p \in Ports : Current(d, p) =>
                /\ p \in Seen /\ p \in detected
                /\ job[u].list[i].port = p /\ (IsRead(u, i) \/ HasNets(d))
<1> SUFFICES ASSUME NEW i \in DOMAIN job[u].list
             PROVE  /\ \A a \in apps : \A d \in DhcpOf(a) : \A p \in Ports :
                         Current(d, p) => Agree({job[u].list[i]}, d, p)
                    /\ \A p \in Ports : Current(copy, p) /\ copy.id # 0 => Agree({job[u].list[i]}, copy, p)
                    /\ \A d \in DhcpOf(job[u].list[i]) : \A p \in Ports : Current(d, p) =>
                         /\ p \in Seen /\ p \in detected
                         /\ job[u].list[i].port = p /\ (IsRead(u, i) \/ HasNets(d))
  OBVIOUS
<1>1. job[u].list[i] \in Rows /\ job[u].list[i] \in Entries
  BY HeldAreDaemons DEF IInv
<1>2. \A a \in apps : \A d \in DhcpOf(a) : \A p \in Ports :
        Current(d, p) => Agree({job[u].list[i]}, d, p)
  BY <1>1 DEF StoredKept, Agree
<1>3. \A p \in Ports : Current(copy, p) /\ copy.id # 0 => Agree({job[u].list[i]}, copy, p)
  BY <1>1 DEF CopyKept, Agree
<1>4. \A d \in DhcpOf(job[u].list[i]) : \A p \in Ports : Current(d, p) =>
        /\ p \in Seen /\ p \in detected
        /\ job[u].list[i].port = p /\ (IsRead(u, i) \/ HasNets(d))
  BY DEF ListKept, Sees
<1> QED BY <1>2, <1>3, <1>4

LEMMA GetStateFromCAInv ==
  ASSUME IInv, NEW u \in Updaters, GetStateFromCA(u)
  PROVE  IInv'
<1>1. /\ job[u].pc = "ca" /\ disturbed' = disturbed
      /\ UNCHANGED <<procs, kea, newest, detected, apps, nets, lastId, copy, lost, begun>>
  BY Zenon DEF GetStateFromCA, machine, db
<1>2. \E ca \in {"none", "inactive", "active"}, sock \in BOOLEAN :
        job' = [job EXCEPT ![u] = [job[u] EXCEPT !.pc = "daemons", !.ca = ca, !.sock = sock]]
  <2> DEFINE p == Head(job[u].list).port
  <2>1. job[u].list # <<>> /\ job[u].list \in Seq(AppRow)
    BY <1>1, ListHolds DEF Job
  <2>2. p \in Ports
    <3>1. Head(job[u].list) \in AppRow
      BY <2>1, HeadTailProperties
    <3> QED BY <3>1 DEF AppRow
  <2>3. kea[p].sock \in BOOLEAN
    BY <2>2 DEF IInv, Types, MachineTypes
  <2>4. job[u].sock \in BOOLEAN /\ job[u] = [job[u] EXCEPT !.sock = job[u].sock]
    BY ListHolds DEF Job
  <2>5. job[u] \in Job /\ job \in [Updaters -> Job]
    BY ListHolds DEF IInv, Types, JobTypes
  <2>6. CASE job' = [job EXCEPT ![u] = [@ EXCEPT !.pc = "daemons", !.ca = "none"]]
    <3>1. [job[u] EXCEPT !.pc = "daemons", !.ca = "none"]
            = [job[u] EXCEPT !.pc = "daemons", !.ca = "none", !.sock = job[u].sock]
      BY <2>5 DEF Job
    <3> QED BY <2>4, <2>6, <3>1
  <2>7. CASE job' = [job EXCEPT ![u] =
                       [@ EXCEPT !.pc = "daemons",
                                 !.ca = IF p \notin detected THEN "none"
                                        ELSE IF p \notin Running THEN "inactive" ELSE "active",
                                 !.sock = kea[p].sock]]
    <3> DEFINE ca == IF p \notin detected THEN "none"
                     ELSE IF p \notin Running THEN "inactive" ELSE "active"
    <3>1. ca \in {"none", "inactive", "active"}
      OBVIOUS
    <3> HIDE DEF ca
    <3>2. job' = [job EXCEPT ![u] = [@ EXCEPT !.pc = "daemons", !.ca = ca, !.sock = kea[p].sock]]
      BY <2>7 DEF ca
    <3> HIDE DEF p
    <3> QED BY <2>3, <3>1, <3>2
  <2> QED BY <2>6, <2>7 DEF GetStateFromCA
<1>3. PICK ca \in {"none", "inactive", "active"}, sock \in BOOLEAN :
        job' = [job EXCEPT ![u] = [job[u] EXCEPT !.pc = "daemons", !.ca = ca, !.sock = sock]]
  BY <1>2
<1> DEFINE J == [job[u] EXCEPT !.pc = "daemons", !.ca = ca, !.sock = sock]
<1>4. J \in Job /\ J.pc = "daemons" /\ J.list = job[u].list /\ J.list # <<>>
  BY <1>1, ListHolds DEF Job
<1>5. job' = [job EXCEPT ![u] = J]
  BY <1>3
<1> HIDE DEF J
<1>6. Goes(u, J)
  BY <1>1, <1>5 DEF Goes
<1>7. \A i : ~ IsRead(u, i)
  BY <1>1 DEF IsRead
<1>8. ASSUME OneUpdate, StoredKept, CopyKept, ListKept
      PROVE  ListFits(J)
  <2>1. \A i \in DOMAIN J.list :
          /\ \A a \in apps : \A d \in DhcpOf(a) : \A p \in Ports :
               Current(d, p) => Agree({J.list[i]}, d, p)
          /\ \A p \in Ports : Current(copy, p) /\ copy.id # 0 => Agree({J.list[i]}, copy, p)
          /\ \A d \in DhcpOf(J.list[i]) : \A p \in Ports : Current(d, p) =>
               /\ p \in Seen /\ p \in detected
               /\ J.list[i].port = p /\ HasNets(d)
    <3> DEFINE list == job[u].list
    <3>1. \A i \in DOMAIN list :
            /\ \A a \in apps : \A d \in DhcpOf(a) : \A p \in Ports :
                 Current(d, p) => Agree({list[i]}, d, p)
            /\ \A p \in Ports : Current(copy, p) /\ copy.id # 0 => Agree({list[i]}, copy, p)
            /\ \A d \in DhcpOf(list[i]) : \A p \in Ports : Current(d, p) =>
                 /\ p \in Seen /\ p \in detected
                 /\ list[i].port = p /\ (IsRead(u, i) \/ HasNets(d))
      BY <1>8, ListHoldsKept
    <3>2. J.list = list
      BY <1>4
    <3> HIDE DEF list
    <3> QED BY <1>7, <3>1, <3>2, Zenon
  <2> QED BY <2>1 DEF ListFits
<1>9. ~disturbed => \A v \in Updaters \ {u} : job[v].pc = "idle"
  BY <1>1 DEF IInv, Kept, OneUpdate
<1> QED BY <1>1, <1>4, <1>6, <1>7, <1>8, <1>9, ListHolds, GoesInv

-----------------------------------------------------------------------------
(* The applications that are matched                                       *)

\* What Merged makes of the port p.
MatchOf(found, p) == {a \in apps : Matches(apps, found, a, p)}
RowOf(found, p) ==
  IF MatchOf(found, p) = {} THEN NewApp(p)
  ELSE [(CHOOSE a \in MatchOf(found, p) : \A b \in MatchOf(found, p) : a.id <= b.id) EXCEPT !.port = p]
RowsOf(found) == {RowOf(found, p) : p \in found}
RestOf(found) == {a \in apps : a.id \notin Ids(RowsOf(found))}

LEMMA MergedIs ==
  ASSUME NEW found
  PROVE  Merged(apps, found) = SetToSeq(RowsOf(found)) \o SetToSeq(RestOf(found))
BY DEF Merged, RowsOf, RestOf, RowOf, MatchOf

\* At most one application matches, and it keeps a port that is still found.
LEMMA RowIs ==
  ASSUME Types, NEW found, found \subseteq Ports, NEW p \in found
  PROVE  \/ RowOf(found, p) = NewApp(p)
         \/ \E a \in apps : /\ RowOf(found, p) = [a EXCEPT !.port = p]
                            /\ a.port \in found => a.port = p
                            /\ \A q \in found : MatchOf(found, q) = {a} => q = p
                            /\ MatchOf(found, p) = {a}
<1>0. IsFiniteSet(apps) /\ IsFiniteSet(found)
  BY AppStatesAssumption, FS_Subset DEF Types, DbTypes
<1>1. CASE MatchOf(found, p) = {}
  BY <1>1 DEF RowOf
<1>2. CASE MatchOf(found, p) # {}
  <2>1. PICK a \in MatchOf(found, p) : TRUE
    BY <1>2
  <2>2. a \in apps /\ Matches(apps, found, a, p)
    BY <2>1 DEF MatchOf
  <2>3. CASE Cardinality(apps) = 1 /\ Cardinality(found) = 1
    <3>1. apps = {a} /\ found = {p}
      BY <1>0, <2>2, <2>3, FS_Singleton
    <3>2. MatchOf(found, p) = {a}
      BY <2>1, <3>1 DEF MatchOf
    <3>3. a.id \in Nat
      BY <2>2 DEF Types, DbTypes, AppRow
    <3>4. (CHOOSE x \in {a} : \A b \in {a} : x.id <= b.id) = a
      BY <3>3
    <3>5. RowOf(found, p) = [a EXCEPT !.port = p]
      BY <3>2, <3>4 DEF RowOf
    <3> QED BY <2>2, <3>1, <3>2, <3>5
  <2>4. CASE ~(Cardinality(apps) = 1 /\ Cardinality(found) = 1)
    <3>1. \A q : MatchOf(found, q) = {b \in apps : b.port = q}
      BY <2>4 DEF MatchOf, Matches
    <3>2. a.port = p
      BY <2>1, <3>1
    <3>3. MatchOf(found, p) = {a}
      BY <2>2, <3>1, <3>2 DEF Types, DbTypes
    <3>4. a.id \in Nat
      BY <2>2 DEF Types, DbTypes, AppRow
    <3>5. (CHOOSE x \in {a} : \A b \in {a} : x.id <= b.id) = a
      BY <3>4
    <3>6. RowOf(found, p) = [a EXCEPT !.port = p]
      BY <3>3, <3>5 DEF RowOf
    <3>7. \A q \in found : MatchOf(found, q) = {a} => q = p
      BY <3>1, <3>2
    <3> QED BY <2>2, <3>2, <3>3, <3>6, <3>7
  <2> QED BY <2>3, <2>4
<1> QED BY <1>1, <1>2

\* A row of the list is a new application, or one of the database that may have another
\* port if its own is not found.
IsMerged(found, b) ==
  \/ \E p \in Ports : b = NewApp(p)
  \/ \E a \in apps : \E p \in Ports : b = [a EXCEPT !.port = p] /\ (a.port \in found => a.port = p)

LEMMA RowsAreMerged ==
  ASSUME Types, NEW found, found \subseteq Ports
  PROVE  /\ \A b \in RowsOf(found) \cup RestOf(found) : IsMerged(found, b) /\ b \in AppRow
         /\ \A b, c \in RowsOf(found) : b.id = c.id /\ b.id # 0 => b = c
         /\ \A b \in RowsOf(found), c \in RestOf(found) : b.id # c.id
         /\ \A b, c \in RestOf(found) : b.id = c.id => b = c
         /\ IsFiniteSet(RowsOf(found)) /\ IsFiniteSet(RestOf(found))
<1>1. \A a \in apps : a \in AppRow
  BY DEF Types, DbTypes
<1>2. ASSUME NEW b \in RowsOf(found)
      PROVE  IsMerged(found, b)
  <2>1. PICK p \in found : b = RowOf(found, p)
    BY <1>2 DEF RowsOf
  <2> QED BY <2>1, RowIs DEF IsMerged
<1>3. ASSUME NEW b \in RestOf(found)
      PROVE  IsMerged(found, b) /\ b \in apps
  <2>1. b \in apps /\ b \in AppRow
    BY <1>1 DEF RestOf
  <2>2. b = [b EXCEPT !.port = b.port] /\ b.port \in Ports
    BY <2>1 DEF AppRow
  <2> QED BY <2>1, <2>2 DEF IsMerged
<1>4. \A b : IsMerged(found, b) => b \in AppRow
  <2>1. \A p \in Ports : NewApp(p) \in AppRow
    BY DEF NewApp, AppRow, Types, DbTypes
  <2>2. \A a \in apps : \A p \in Ports : [a EXCEPT !.port = p] \in AppRow
    BY <1>1 DEF AppRow
  <2> QED BY <2>1, <2>2 DEF IsMerged
<1>5. ASSUME NEW b \in RowsOf(found), NEW c \in RowsOf(found), b.id = c.id, b.id # 0
      PROVE  b = c
  <2>1. PICK p \in found, q \in found : b = RowOf(found, p) /\ c = RowOf(found, q)
    BY <1>5 DEF RowsOf
  <2>2. b # NewApp(p) /\ c # NewApp(q)
    BY <1>5 DEF NewApp
  <2>3. PICK a1 \in apps : /\ b = [a1 EXCEPT !.port = p]
                           /\ \A r \in found : MatchOf(found, r) = {a1} => r = p
    <3>1. \/ RowOf(found, p) = NewApp(p)
          \/ \E a \in apps : /\ RowOf(found, p) = [a EXCEPT !.port = p]
                             /\ \A r \in found : MatchOf(found, r) = {a} => r = p
      BY RowIs, ZenonT(60)
    <3> QED BY <2>1, <2>2, <3>1, Zenon
  <2>4. PICK a2 \in apps : c = [a2 EXCEPT !.port = q] /\ MatchOf(found, q) = {a2}
    BY <2>1, <2>2, RowIs
  <2>5. a1.id = b.id /\ a2.id = c.id
    BY <1>1, <2>3, <2>4 DEF AppRow
  <2>6. a1 = a2
    BY <1>5, <2>5 DEF Types, DbTypes
  <2> QED BY <2>3, <2>4, <2>6
<1>6. \A b \in RowsOf(found), c \in RestOf(found) : b.id # c.id
  BY DEF RestOf, Ids
<1>7. \A b, c \in RestOf(found) : b.id = c.id => b = c
  BY <1>3 DEF Types, DbTypes
<1>8. IsFiniteSet(RestOf(found))
  BY FS_Subset DEF RestOf, Types, DbTypes
<1>9. IsFiniteSet(RowsOf(found))
  <2> DEFINE f == [p \in found |-> RowOf(found, p)]
  <2>1. f \in Surjection(found, RowsOf(found))
    BY DEF Surjection, RowsOf
  <2>2. IsFiniteSet(found)
    BY AppStatesAssumption, FS_Subset
  <2> QED BY <2>1, <2>2, FS_Surjection
<1> QED BY <1>2, <1>3, <1>4, <1>5, <1>6, <1>7, <1>8, <1>9

LEMMA MergedList ==
  ASSUME Types, NEW found, found \subseteq Ports
  PROVE  LET list == Merged(apps, found) IN
         /\ list \in Seq(AppRow)
         /\ \A i \in DOMAIN list : IsMerged(found, list[i])
         /\ \A i, j \in DOMAIN list : list[i].id = list[j].id /\ list[i].id # 0 => i = j
<1> DEFINE R == RowsOf(found)
           T == RestOf(found)
           s == SetToSeq(R)
           t == SetToSeq(T)
<1>0. /\ \A b \in R \cup T : IsMerged(found, b) /\ b \in AppRow
      /\ \A b, c \in R : b.id = c.id /\ b.id # 0 => b = c
      /\ \A b \in R, c \in T : b.id # c.id
      /\ \A b, c \in T : b.id = c.id => b = c
      /\ IsFiniteSet(R) /\ IsFiniteSet(T)
  BY RowsAreMerged
<1>1. /\ s \in Seq(R) /\ \A i, j \in DOMAIN s : s[i] = s[j] => i = j
      /\ t \in Seq(T) /\ \A i, j \in DOMAIN t : t[i] = t[j] => i = j
  BY <1>0, ListOfSet
<1>2. Merged(apps, found) = s \o t
  BY MergedIs
<1> HIDE DEF R, T, s, t
<1>3. /\ DOMAIN s = 1..Len(s) /\ Len(s) \in Nat /\ \A i \in 1..Len(s) : s[i] \in R
      /\ DOMAIN t = 1..Len(t) /\ Len(t) \in Nat /\ \A i \in 1..Len(t) : t[i] \in T
  BY <1>1
<1>4. s \in Seq(AppRow) /\ t \in Seq(AppRow)
  <2>1. R \subseteq AppRow /\ T \subseteq AppRow
    BY <1>0
  <2> QED BY <1>1, <2>1, SeqMonotonic
<1> DEFINE l == s \o t
<1>5. /\ l \in Seq(AppRow) /\ Len(l) = Len(s) + Len(t)
      /\ \A i \in 1..Len(s) + Len(t) : l[i] = IF i <= Len(s) THEN s[i] ELSE t[i - Len(s)]
  BY <1>4, ConcatProperties
<1> HIDE DEF l
<1>6. DOMAIN l = 1..Len(s) + Len(t)
  BY <1>3, <1>5
<1>7. ASSUME NEW i \in DOMAIN l
      PROVE  \/ i \in 1..Len(s) /\ l[i] = s[i] /\ l[i] \in R
             \/ i - Len(s) \in 1..Len(t) /\ l[i] = t[i - Len(s)] /\ l[i] \in T
  BY <1>3, <1>5, <1>6
<1>8. \A i \in DOMAIN l : IsMerged(found, l[i])
  BY <1>0, <1>7
<1>9. ASSUME NEW i \in DOMAIN l, NEW j \in DOMAIN l, l[i].id = l[j].id, l[i].id # 0
      PROVE  i = j
  <2>1. CASE i \in 1..Len(s) /\ l[i] = s[i] /\ l[i] \in R /\ j \in 1..Len(s) /\ l[j] = s[j] /\ l[j] \in R
    BY <1>0, <1>1, <1>3, <1>9, <2>1
  <2>2. CASE /\ i - Len(s) \in 1..Len(t) /\ l[i] = t[i - Len(s)] /\ l[i] \in T
             /\ j - Len(s) \in 1..Len(t) /\ l[j] = t[j - Len(s)] /\ l[j] \in T
    <3>1. i - Len(s) = j - Len(s)
      BY <1>0, <1>1, <1>3, <1>9, <2>2
    <3> QED BY <1>3, <1>6, <3>1
  <2> QED BY <1>0, <1>7, <1>9, <2>1, <2>2
<1> QED BY <1>2, <1>5, <1>8, <1>9 DEF l

LEMMA MergeAppsInv ==
  ASSUME IInv, NEW u \in Updaters, MergeApps(u)
  PROVE  IInv'
<1> USE DEF IInv
<1> DEFINE found == job[u].found
           list == Merged(apps, found)
           J == IF list = <<>> THEN Idle
                ELSE [Idle EXCEPT !.pc = "ca", !.list = list, !.reviewed = Reviewed]
<1>1. /\ job[u].pc = "merge" /\ job' = [job EXCEPT ![u] = J] /\ disturbed' = disturbed
      /\ UNCHANGED <<procs, kea, newest, detected, apps, nets, lastId, copy, lost, begun>>
  BY DEF MergeApps, machine, db
<1>2. found \subseteq Ports
  BY DEF Types, JobTypes, Job
<1>3. /\ list \in Seq(AppRow)
      /\ \A i \in DOMAIN list : IsMerged(found, list[i])
      /\ \A i, j \in DOMAIN list : list[i].id = list[j].id /\ list[i].id # 0 => i = j
  BY <1>2, MergedList
<1>4. Reviewed \subseteq Nat
  BY DEF Reviewed, Types, DbTypes
<1> HIDE DEF list
<1>5. CASE list = <<>>
  <2>1. Goes(u, Idle)
    BY <1>1, <1>5 DEF Goes
  <2> QED BY <1>1, <2>1, GivesUp
<1>6. CASE list # <<>>
  <2>1. /\ J \in Job /\ J.pc = "ca" /\ J.list = list /\ Goes(u, J)
    <3>1. J = [Idle EXCEPT !.pc = "ca", !.list = list, !.reviewed = Reviewed]
      BY <1>6
    <3> HIDE DEF J
    <3>2. J \in Job /\ J.pc = "ca" /\ J.list = list
      BY <1>3, <1>4, <3>1 DEF Idle, Job
    <3> QED BY <1>1, <3>2 DEF Goes
  <2> HIDE DEF J
  <2>2. ASSUME NEW i \in DOMAIN list
        PROVE  \/ list[i].id = 0 /\ list[i].daemons = {}
               \/ \E a \in apps : /\ a \in Rows /\ a \in AppRow
                                  /\ list[i].id = a.id /\ list[i].daemons = a.daemons
                                  /\ a.port \in found => list[i].port = a.port
    <3>1. CASE \E p \in Ports : list[i] = NewApp(p)
      BY <3>1 DEF NewApp
    <3>2. CASE \E a \in apps : \E p \in Ports :
                 list[i] = [a EXCEPT !.port = p] /\ (a.port \in found => a.port = p)
      <4>1. PICK a \in apps, p \in Ports :
               list[i] = [a EXCEPT !.port = p] /\ (a.port \in found => a.port = p)
        BY <3>2
      <4>2. a \in Rows /\ a \in AppRow
        BY HeldAreDaemons
      <4>3. list[i].id = a.id /\ list[i].daemons = a.daemons /\ list[i].port = p
        BY <4>1, <4>2 DEF AppRow
      <4> QED BY <4>1, <4>2, <4>3
    <3> QED BY <1>3, <3>1, <3>2 DEF IsMerged
  <2>3. \A i \in DOMAIN list : RowFits(list[i])
    <3> SUFFICES ASSUME NEW i \in DOMAIN list
                 PROVE  RowFits(list[i])
      OBVIOUS
    <3>1. CASE list[i].id = 0 /\ list[i].daemons = {}
      BY <3>1 DEF RowFits, Ids
    <3>2. CASE \E a \in Rows : list[i].id = a.id /\ list[i].daemons = a.daemons
      BY <3>2, OldRowsFit DEF RowFits
    <3> QED BY <2>2, <3>1, <3>2
  <2>4. \A i \in DOMAIN list : \A d \in DhcpOf(list[i]) : IsReviewed(d)
    BY <2>2 DEF DhcpOf, Reviews
  <2>5. ASSUME ~disturbed, OneUpdate, StoredKept, CopyKept, ListKept, NEW i \in DOMAIN list
        PROVE  /\ \A b \in apps : \A d \in DhcpOf(b) : \A p \in Ports :
                    Current(d, p) => Agree({list[i]}, d, p)
               /\ \A p \in Ports : Current(copy, p) /\ copy.id # 0 => Agree({list[i]}, copy, p)
               /\ \A d \in DhcpOf(list[i]) : \A p \in Ports : Current(d, p) =>
                    /\ p \in Seen /\ p \in detected
                    /\ list[i].port = p /\ HasNets(d)
    <3>1. CASE list[i].daemons = {}
      BY <3>1 DEF Agree, DhcpOf
    <3>2. CASE \E a \in apps : /\ a \in Rows /\ a \in AppRow
                               /\ list[i].id = a.id /\ list[i].daemons = a.daemons
                               /\ a.port \in found => list[i].port = a.port
      <4>1. PICK a \in apps : /\ a \in Rows /\ a \in AppRow
                              /\ list[i].id = a.id /\ list[i].daemons = a.daemons
                              /\ a.port \in found => list[i].port = a.port
        BY <3>2
      <4>2. \A p \in Ports : Sees(p) => p \in found /\ p \in Seen /\ p \in detected
        BY <1>1 DEF Sees
      <4>3. ASSUME NEW b \in apps, NEW d \in DhcpOf(b), NEW p \in Ports, Current(d, p)
            PROVE  Agree({list[i]}, d, p)
        <5>1. Sees(p) /\ b.port = p
          BY <2>5, <4>3 DEF StoredKept
        <5>2. ASSUME NEW e \in a.daemons, e.id = d.id
              PROVE  a = b /\ e = d
          <6>1. b \in Rows /\ d \in b.daemons /\ d.id # 0
            BY HeldAreDaemons DEF DhcpOf, Types, DbTypes, IsStored
          <6>2. a.id = b.id
            BY <4>1, <5>2, <6>1 DEF Identity, Owned
          <6>3. a = b
            BY <6>2 DEF Types, DbTypes
          <6>4. e.name = d.name
            BY <4>1, <5>2, <6>1 DEF Identity, Named, Daemons
          <6> QED BY <6>1, <6>3, <6>4 DEF Identity, OneOfAName
        <5> QED BY <4>1, <4>2, <5>1, <5>2 DEF Agree
      <4>4. ASSUME NEW p \in Ports, Current(copy, p), copy.id # 0
            PROVE  Agree({list[i]}, copy, p)
        <5>1. Sees(p) /\ Agree(Rows, copy, p)
          BY <2>5, <4>4 DEF CopyKept
        <5> QED BY <4>1, <4>2, <5>1 DEF Agree
      <4>5. ASSUME NEW d \in DhcpOf(list[i]), NEW p \in Ports, Current(d, p)
            PROVE  p \in Seen /\ p \in detected /\ list[i].port = p /\ HasNets(d)
        <5>1. d \in DhcpOf(a)
          BY <4>1, <4>5 DEF DhcpOf
        <5>2. Sees(p) /\ a.port = p /\ HasNets(d)
          BY <2>5, <4>5, <5>1 DEF StoredKept
        <5> QED BY <4>1, <4>2, <5>2
      <4> QED BY <4>3, <4>4, <4>5
    <3> QED BY <2>2, <3>1, <3>2
  <2>6. ~disturbed /\ OneUpdate /\ StoredKept /\ CopyKept /\ ListKept => ListFits(J)
    BY <2>1, <2>5 DEF ListFits
  <2>7. ~disturbed => \A v \in Updaters \ {u} : job[v].pc = "idle"
    BY <1>1 DEF Kept, OneUpdate
  <2> HIDE DEF IInv
  <2> QED BY <1>1, <1>3, <1>6, <2>1, <2>3, <2>4, <2>6, <2>7, GoesInv
<1> QED BY <1>5, <1>6

-----------------------------------------------------------------------------
(* What the daemons answer                                                 *)

\* The configuration was read from Kea; a daemon of the row is one that the row had, or a
\* new one.
FromKea(app, e, reply) ==
  e.name = "dhcp" /\ reply = "answered" /\ e.version = kea[app.port].version
ComesFrom(app, e, reply) ==
  \/ \E d \in app.daemons : /\ d.name = e.name /\ d.id = e.id
                            /\ d.version = e.version \/ FromKea(app, e, reply)
  \/ /\ e.id = 0 /\ \A d \in app.daemons : d.name # e.name
     /\ e.version = 0 \/ FromKea(app, e, reply)
OneName(ds) == \A d, e \in ds : d.name = e.name => d = e

LEMMA CopyOrCreateIs ==
  ASSUME Types, NEW app \in AppRow, OneName(app.daemons), NEW name \in {"ca", "dhcp"}
  PROVE  LET c == CopyOrCreate(app, name) IN
         /\ c \in Daemon /\ c.name = name /\ c.active = TRUE
         /\ \/ \E d \in app.daemons : d.name = name /\ d.id = c.id /\ d.version = c.version
            \/ c.id = 0 /\ c.version = 0 /\ \A d \in app.daemons : d.name # name
<1> DEFINE c == CopyOrCreate(app, name)
<1>1. CASE \E d \in app.daemons : d.name = name
  <2>1. PICK d \in app.daemons : d.name = name
    BY <1>1
  <2>2. (CHOOSE x \in app.daemons : x.name = name) = d
    BY <2>1 DEF OneName
  <2>3. c = [d EXCEPT !.active = TRUE]
    BY <1>1, <2>2 DEF CopyOrCreate
  <2>4. d \in Daemon
    BY DEF AppRow
  <2> HIDE DEF c
  <2>5. c \in Daemon /\ c.name = name /\ c.active = TRUE /\ d.id = c.id /\ d.version = c.version
    BY <2>1, <2>3, <2>4 DEF Daemon
  <2> QED BY <2>1, <2>5 DEF c
<1>2. CASE ~ \E d \in app.daemons : d.name = name
  <2>1. c = [id |-> 0, name |-> name, active |-> TRUE, version |-> 0]
    BY <1>2 DEF CopyOrCreate
  <2> HIDE DEF c
  <2>2. c \in Daemon /\ c.name = name /\ c.active = TRUE /\ c.id = 0 /\ c.version = 0
    BY <2>1 DEF Daemon, Types, MachineTypes, DbTypes
  <2> QED BY <1>2, <2>2 DEF c
<1> QED BY <1>1, <1>2

LEMMA AnswersAre ==
  ASSUME Types, NEW app \in AppRow, OneName(app.daemons), NEW j, Head(j.list) = app,
         j.ca \in {"none", "inactive", "active"}, j.sock \in BOOLEAN,
         NEW reply \in {"none", "silent", "answered"}
  PROVE  LET answers == Answers(j, reply) IN
         /\ answers \subseteq Daemon /\ OneName(answers)
         /\ \A e \in answers : ComesFrom(app, e, reply)
         /\ j.ca = "active" => \E e \in answers : e.name = "ca" /\ e.active
<1> DEFINE ca == CopyOrCreate(app, "ca")
           dhcp == CopyOrCreate(app, "dhcp")
           k == kea[app.port]
           read == [dhcp EXCEPT !.version = k.version]
           down == [dhcp EXCEPT !.active = FALSE]
           off == [ca EXCEPT !.active = FALSE]
           answers == Answers(j, reply)
<1>1. /\ ca \in Daemon /\ ca.name = "ca" /\ ca.active = TRUE
      /\ \/ \E d \in app.daemons : d.name = "ca" /\ d.id = ca.id /\ d.version = ca.version
         \/ ca.id = 0 /\ ca.version = 0 /\ \A d \in app.daemons : d.name # "ca"
  BY CopyOrCreateIs
<1>2. /\ dhcp \in Daemon /\ dhcp.name = "dhcp"
      /\ \/ \E d \in app.daemons : d.name = "dhcp" /\ d.id = dhcp.id /\ d.version = dhcp.version
         \/ dhcp.id = 0 /\ dhcp.version = 0 /\ \A d \in app.daemons : d.name # "dhcp"
  BY CopyOrCreateIs
<1>3. k \in [sock : BOOLEAN, up : BOOLEAN, version : 0..newest]
  BY DEF Types, MachineTypes, AppRow
<1>4. answers \in {{}, {off}, {ca}, {ca, dhcp}, {ca, down}} \/ (reply = "answered" /\ answers = {ca, read})
  BY <1>3 DEF Answers
<1>5. j.ca = "active" => ca \in answers
  BY <1>3 DEF Answers
<1> HIDE DEF ca, dhcp, answers, k
<1>6. off \in Daemon /\ off.name = "ca" /\ off.id = ca.id /\ off.version = ca.version
  BY <1>1 DEF Daemon
<1>7. down \in Daemon /\ down.name = "dhcp" /\ down.id = dhcp.id /\ down.version = dhcp.version
  BY <1>2 DEF Daemon
<1>8. read \in Daemon /\ read.name = "dhcp" /\ read.id = dhcp.id /\ read.version = k.version
  BY <1>2, <1>3 DEF Daemon
<1> HIDE DEF off, down, read
<1>9. ComesFrom(app, ca, reply) /\ ComesFrom(app, off, reply)
  BY <1>1, <1>6 DEF ComesFrom
<1>10. ComesFrom(app, dhcp, reply) /\ ComesFrom(app, down, reply)
  BY <1>2, <1>7 DEF ComesFrom
<1>11. reply = "answered" => ComesFrom(app, read, reply)
  BY <1>2, <1>8 DEF ComesFrom, FromKea, k
<1>12. answers \subseteq Daemon /\ OneName(answers) /\ \A e \in answers : ComesFrom(app, e, reply)
  <2>1. answers \subseteq Daemon
    BY <1>1, <1>2, <1>4, <1>6, <1>7, <1>8
  <2>2. OneName(answers)
    BY <1>1, <1>2, <1>4, <1>6, <1>7, <1>8 DEF OneName
  <2>3. \A e \in answers : ComesFrom(app, e, reply)
    BY <1>4, <1>9, <1>10, <1>11
  <2> QED BY <2>1, <2>2, <2>3
<1> QED BY <1>1, <1>5, <1>12 DEF answers

\* The row that the answers make, and what it has in common with the one before.
LEMMA FoundIs ==
  ASSUME IInv, NEW app \in Rows, NEW j, Head(j.list) = app,
         j.ca \in {"none", "inactive", "active"}, j.sock \in BOOLEAN,
         NEW reply \in {"none", "silent", "answered"}
  PROVE  LET answers == Answers(j, reply)
             n == FoundChanges(app, answers)
         IN
         /\ n \in AppRow /\ n.id = app.id /\ n.port = app.port /\ RowFits(n)
         /\ \A e \in n.daemons : ComesFrom(app, e, reply)
         /\ app.id # 0 /\ j.ca = "active" /\ SameConfig(app, answers) =>
              \A e \in DhcpOf(n) : \E d \in DhcpOf(app) : e.id = d.id /\ e.version = d.version
<1> DEFINE answers == Answers(j, reply)
           n == FoundChanges(app, answers)
           ds == n.daemons
<1>1. app \in AppRow /\ OneName(app.daemons) /\ app.daemons \subseteq Daemon /\ RowFits(app)
  BY HeldAreDaemons, OldRowsFit DEF IInv, RowFits, OneName
<1>2. /\ answers \subseteq Daemon /\ OneName(answers)
      /\ \A e \in answers : ComesFrom(app, e, reply)
      /\ j.ca = "active" => \E e \in answers : e.name = "ca" /\ e.active
  BY <1>1, AnswersAre DEF IInv
<1> HIDE DEF answers
<1> DEFINE off == {[d EXCEPT !.active = FALSE] : d \in app.daemons}
<1>3. /\ n.id = app.id /\ n.port = app.port /\ n \in AppRow
      /\ n.daemons = answers \/ n.daemons = off
      /\ app.id # 0 /\ (\E e \in answers : e.name = "ca" /\ e.active) => n.daemons = answers
  <2>1. off \subseteq Daemon
    BY <1>1 DEF Daemon
  <2>2. CASE app.id = 0
    <3>1. n = [app EXCEPT !.daemons = answers]
      BY <2>2 DEF FoundChanges
    <3> HIDE DEF n
    <3> QED BY <1>1, <1>2, <2>2, <3>1 DEF AppRow
  <2>3. CASE app.id # 0 /\ \E e \in answers : e.name = "ca" /\ e.active
    <3>0. PICK act \in BOOLEAN : act = \A d \in answers : d.active
      BY Zenon
    <3>1. n = [app EXCEPT !.daemons = answers, !.active = \A d \in answers : d.active]
      BY <2>3 DEF FoundChanges
    <3> HIDE DEF n
    <3>2. n = [app EXCEPT !.daemons = answers, !.active = act]
      BY <3>0, <3>1, Zenon
    <3> QED BY <1>1, <1>2, <2>3, <3>2 DEF AppRow
  <2>4. CASE app.id # 0 /\ ~ \E e \in answers : e.name = "ca" /\ e.active
    <3>1. n = [app EXCEPT !.daemons = {[d EXCEPT !.active = FALSE] : d \in @}, !.active = FALSE]
      BY <2>4, Zenon DEF FoundChanges
    <3> HIDE DEF n
    <3>2. n = [app EXCEPT !.daemons = off, !.active = FALSE]
      BY <3>1
    <3> HIDE DEF off
    <3> QED BY <1>1, <2>1, <2>4, <3>2 DEF AppRow
  <2> QED BY <2>2, <2>3, <2>4
<1> HIDE DEF n
<1>4. \A e \in off : \E d \in app.daemons : e.id = d.id /\ e.name = d.name /\ e.version = d.version
                                            /\ e = [d EXCEPT !.active = FALSE]
  BY <1>1 DEF Daemon
<1>5. \A e \in ds : ComesFrom(app, e, reply)
  <2>1. \A e \in off : ComesFrom(app, e, reply)
    BY <1>4 DEF ComesFrom
  <2> QED BY <1>2, <1>3, <2>1
<1>6. OneName(ds)
  <2>1. ASSUME NEW x \in off, NEW y \in off, x.name = y.name
        PROVE  x = y
    <3> HIDE DEF off
    <3>1. PICK d \in app.daemons : x.name = d.name /\ x = [d EXCEPT !.active = FALSE]
      BY <1>4
    <3>2. PICK e \in app.daemons : y.name = e.name /\ y = [e EXCEPT !.active = FALSE]
      BY <1>4
    <3>3. d.name = e.name
      BY <2>1, <3>1, <3>2
    <3>4. d = e
      BY <1>1, <3>3 DEF OneName
    <3> QED BY <3>1, <3>2, <3>4
  <2>2. OneName(off)
    BY <2>1 DEF OneName
  <2> QED BY <1>2, <1>3, <2>2
<1>7. RowFits(n)
  <2>1. n.id = 0 => Ids(ds) \subseteq {0}
    BY <1>1, <1>3, <1>5 DEF RowFits, ComesFrom, Ids
  <2>2. \A e \in ds : e.id # 0 => \E d \in app.daemons : app.id = n.id /\ e.id = d.id /\ e.name = d.name
    BY <1>3, <1>5 DEF ComesFrom
  <2> QED BY <1>6, <2>1, <2>2 DEF RowFits, OneName
<1>8. ASSUME app.id # 0, j.ca = "active", SameConfig(app, answers), NEW e \in DhcpOf(n)
      PROVE  \E d \in DhcpOf(app) : e.id = d.id /\ e.version = d.version
  <2>1. n.daemons = answers
    BY <1>2, <1>3, <1>8
  <2>2. PICK d \in answers, old \in DhcpOf(app) : d.name = "dhcp" /\ d.version = old.version
    BY <1>8 DEF SameConfig
  <2>3. e = d /\ e \in answers /\ e.name = "dhcp"
    BY <1>2, <1>8, <2>1, <2>2 DEF OneName, DhcpOf
  <2>4. old \in app.daemons /\ old.name = "dhcp"
    BY DEF DhcpOf
  <2>5. ComesFrom(app, e, reply)
    BY <1>2, <2>3
  <2>6. e.id = old.id
    BY <1>1, <2>3, <2>4, <2>5 DEF ComesFrom, OneName
  <2> QED BY <2>2, <2>3, <2>6
<1> QED BY <1>3, <1>5, <1>7, <1>8 DEF n, answers

\* Another row at the head of a list.
LEMMA HeadReplaced ==
  ASSUME NEW T, NEW s \in Seq(T), s # <<>>, NEW n \in T
  PROVE  LET new == <<n>> \o Tail(s) IN
         /\ new \in Seq(T) /\ new # <<>> /\ Head(new) = n /\ Tail(new) = Tail(s)
         /\ DOMAIN new = DOMAIN s /\ 1 \in DOMAIN s /\ new[1] = n /\ Head(s) = s[1]
         /\ \A i \in DOMAIN s : i # 1 => new[i] = s[i]
         /\ Len(new) = Len(s)
<1> DEFINE new == <<n>> \o Tail(s)
<1>1. Tail(s) \in Seq(T) /\ Len(Tail(s)) = Len(s) - 1 /\ Len(s) \in Nat \ {0} /\ Head(s) = s[1]
      /\ \A i \in 1..Len(s) - 1 : Tail(s)[i] = s[i + 1]
  BY HeadTailProperties, EmptySeq
<1>2. <<n>> \in Seq(T) /\ Len(<<n>>) = 1 /\ <<n>>[1] = n
  OBVIOUS
<1>3. /\ new \in Seq(T) /\ Len(new) = Len(s)
      /\ \A i \in 1..Len(s) : new[i] = IF i <= 1 THEN n ELSE Tail(s)[i - 1]
  <2>1. /\ new \in Seq(T) /\ Len(new) = 1 + Len(Tail(s))
        /\ \A i \in 1..1 + Len(Tail(s)) : new[i] = IF i <= 1 THEN <<n>>[i] ELSE Tail(s)[i - 1]
    BY <1>1, <1>2, ConcatProperties
  <2> HIDE DEF new
  <2> QED BY <1>1, <1>2, <2>1
<1> HIDE DEF new
<1>4. DOMAIN new = 1..Len(s) /\ DOMAIN s = 1..Len(s)
  BY <1>3
<1>5. new[1] = n /\ new # <<>> /\ Head(new) = n
  BY <1>1, <1>3, <1>4
<1>6. \A i \in DOMAIN s : i # 1 => new[i] = s[i]
  <2> SUFFICES ASSUME NEW i \in DOMAIN s, i # 1
               PROVE  new[i] = s[i]
    OBVIOUS
  <2>1. i \in 1..Len(s) /\ i - 1 \in 1..Len(s) - 1 /\ ~(i <= 1) /\ (i - 1) + 1 = i
    BY <1>1, <1>4
  <2>2. new[i] = Tail(s)[i - 1]
    BY <1>3, <2>1
  <2>3. Tail(s)[i - 1] = s[(i - 1) + 1]
    BY <1>1, <2>1
  <2> QED BY <2>1, <2>2, <2>3
<1>7. Tail(new) = Tail(s)
  <2>1. Tail(new) \in Seq(T) /\ Len(Tail(new)) = Len(s) - 1
        /\ \A i \in 1..Len(s) - 1 : Tail(new)[i] = new[i + 1]
    BY <1>3, <1>5, HeadTailProperties
  <2>2. \A i \in 1..Len(s) - 1 : Tail(new)[i] = Tail(s)[i]
    <3> SUFFICES ASSUME NEW i \in 1..Len(s) - 1
                 PROVE  Tail(new)[i] = Tail(s)[i]
      BY Zenon
    <3>1. i + 1 \in DOMAIN s /\ i + 1 # 1
      BY <1>1, <1>4
    <3> QED BY <1>1, <1>6, <2>1, <3>1
  <2> QED BY <1>1, <2>1, <2>2, SeqEqual
<1> QED BY <1>1, <1>3, <1>4, <1>5, <1>6, <1>7 DEF new

\* What an update holds after it has asked the daemons.
LEMMA DaemonsAsked ==
  ASSUME IInv, NEW u \in Updaters, GetStateFromDaemons(u)
  PROVE  \E reply \in {"none", "silent", "answered"}, same \in BOOLEAN :
           LET app == Head(job[u].list)
               answers == Answers(job[u], reply)
           IN
           /\ job' = [job EXCEPT ![u] =
                        [job[u] EXCEPT !.pc = "commit", !.ca = "none", !.sock = FALSE,
                                       !.list = <<FoundChanges(app, answers)>> \o Tail(job[u].list),
                                       !.same = same]]
           /\ same => app.id # 0 /\ job[u].ca = "active" /\ SameConfig(app, answers)
           /\ reply = "answered" =>
                app.port \in detected /\ app.port \in Running /\ (~disturbed' => app.port \in Seen)
           /\ ~disturbed' => ~disturbed
<1> DEFINE j == job[u]
           app == Head(j.list)
           reply == IF app.port \in detected \cap Running THEN "answered"
                    ELSE IF app.port \in detected THEN "silent" ELSE "none"
           isSame(r) == app.id # 0 /\ j.ca = "active" /\ SameConfig(app, Answers(j, r))
           J(r, s) == [j EXCEPT !.pc = "commit", !.ca = "none", !.sock = FALSE,
                                !.list = <<FoundChanges(app, Answers(j, r))>> \o Tail(j.list),
                                !.same = s]
<1>1. \/ /\ job' = [job EXCEPT ![u] = J(reply, isSame(reply))]
         /\ disturbed' = (disturbed \/ (reply = "answered" /\ app.port \notin Seen))
      \/ job' = [job EXCEPT ![u] = J("none", isSame("none"))] /\ disturbed' = disturbed
  BY Zenon DEF GetStateFromDaemons
<1>2. /\ reply \in {"none", "silent", "answered"}
      /\ reply = "answered" => app.port \in detected /\ app.port \in Running
  OBVIOUS
<1> HIDE DEF reply, J
<1>3. \A r : \E b \in BOOLEAN : b = isSame(r) /\ (b => isSame(r))
  BY Zenon
<1> HIDE DEF isSame
<1>4. CASE job' = [job EXCEPT ![u] = J("none", isSame("none"))] /\ disturbed' = disturbed
  <2>1. PICK b \in BOOLEAN : b = isSame("none") /\ (b => isSame("none"))
    BY <1>3
  <2>2. job' = [job EXCEPT ![u] = J("none", b)]
    BY <1>4, <2>1, Zenon
  <2>3. disturbed' = disturbed
    BY <1>4
  <2> QED BY <2>1, <2>2, <2>3 DEF J, isSame
<1>5. CASE /\ job' = [job EXCEPT ![u] = J(reply, isSame(reply))]
           /\ disturbed' = (disturbed \/ (reply = "answered" /\ app.port \notin Seen))
  <2>1. PICK b \in BOOLEAN : b = isSame(reply) /\ (b => isSame(reply))
    BY <1>3
  <2>2. job' = [job EXCEPT ![u] = J(reply, b)]
    BY <1>5, <2>1, Zenon
  <2>3. ~disturbed' => ~disturbed /\ (reply = "answered" => app.port \in Seen)
    BY <1>5, Zenon
  <2>4. PICK r \in {"none", "silent", "answered"} : r = reply
    BY <1>2
  <2>5. job' = [job EXCEPT ![u] = J(r, b)] /\ (b => isSame(r))
    BY <2>1, <2>2, <2>4
  <2>6. r = "answered" =>
          app.port \in detected /\ app.port \in Running /\ (~disturbed' => app.port \in Seen)
    BY <1>2, <2>3, <2>4
  <2> QED BY <2>3, <2>5, <2>6 DEF J, isSame
<1> QED BY <1>1, <1>4, <1>5, Zenon

LEMMA GetStateFromDaemonsInv ==
  ASSUME IInv, NEW u \in Updaters, GetStateFromDaemons(u)
  PROVE  IInv'
<1>1. /\ job[u].pc = "daemons"
      /\ UNCHANGED <<procs, kea, newest, detected, apps, nets, lastId, copy, lost, begun>>
  BY Zenon DEF GetStateFromDaemons, machine, db
<1> DEFINE app == Head(job[u].list)
<1>2. PICK reply \in {"none", "silent", "answered"}, same \in BOOLEAN :
           LET answers == Answers(job[u], reply) IN
           /\ job' = [job EXCEPT ![u] =
                        [job[u] EXCEPT !.pc = "commit", !.ca = "none", !.sock = FALSE,
                                       !.list = <<FoundChanges(app, answers)>> \o Tail(job[u].list),
                                       !.same = same]]
           /\ same => app.id # 0 /\ job[u].ca = "active" /\ SameConfig(app, answers)
           /\ reply = "answered" =>
                app.port \in detected /\ app.port \in Running /\ (~disturbed' => app.port \in Seen)
           /\ ~disturbed' => ~disturbed
  BY DaemonsAsked, Zenon
<1>3. job[u] \in Job /\ job[u].list \in Seq(AppRow) /\ job[u].list # <<>>
  BY <1>1, ListHolds DEF Job
<1> DEFINE answers == Answers(job[u], reply)
           n == FoundChanges(app, answers)
           list == <<n>> \o Tail(job[u].list)
           J == [job[u] EXCEPT !.pc = "commit", !.ca = "none", !.sock = FALSE,
                               !.list = list, !.same = same]
<1>4. app = job[u].list[1] /\ 1 \in DOMAIN job[u].list /\ app \in Rows
  <2>1. app = job[u].list[1] /\ 1 \in DOMAIN job[u].list
    BY <1>3, HeadTailProperties, EmptySeq
  <2> QED BY <2>1, HeldAreDaemons DEF IInv
<1>5. /\ n \in AppRow /\ n.id = app.id /\ n.port = app.port /\ RowFits(n)
      /\ \A e \in n.daemons : ComesFrom(app, e, reply)
      /\ app.id # 0 /\ job[u].ca = "active" /\ SameConfig(app, answers) =>
           \A e \in DhcpOf(n) : \E d \in DhcpOf(app) : e.id = d.id /\ e.version = d.version
  <2>1. job[u].ca \in {"none", "inactive", "active"} /\ job[u].sock \in BOOLEAN
    BY <1>3 DEF Job
  <2> QED BY <1>4, <2>1, FoundIs
<1>6. same => app.id # 0 /\ job[u].ca = "active" /\ SameConfig(app, answers)
  BY <1>2
<1>7. \A e \in DhcpOf(n) : same => \E d \in DhcpOf(app) : e.id = d.id /\ e.version = d.version
  BY <1>5, <1>6
<1>8. job' = [job EXCEPT ![u] = J]
  BY <1>2
<1> HIDE DEF answers, n
<1>9. /\ list \in Seq(AppRow) /\ list # <<>> /\ Head(list) = n
      /\ DOMAIN list = DOMAIN job[u].list /\ list[1] = n
      /\ \A i \in DOMAIN job[u].list : i # 1 => list[i] = job[u].list[i]
  BY <1>3, <1>5, HeadReplaced, SMTT(30)
<1> HIDE DEF list
<1>10. /\ J \in Job /\ J.pc = "commit" /\ J.list = list /\ J.same = same /\ Goes(u, J)
  <2>1. J \in Job /\ J.pc = "commit" /\ J.list = list /\ J.same = same
    BY <1>3, <1>9 DEF Job
  <2> QED BY <1>1, <1>8, <2>1 DEF Goes
<1> HIDE DEF J
<1>11. \A i \in DOMAIN list : RowFits(list[i])
  BY <1>5, <1>9, ListHolds
<1>12. \A i, k \in DOMAIN list : list[i].id = list[k].id /\ list[i].id # 0 => i = k
  <2>1. \A i \in DOMAIN list : list[i].id = job[u].list[i].id
    BY <1>4, <1>5, <1>9
  <2> QED BY <1>9, <2>1, ListHolds
<1>13. \A i : ~IsRead(u, i)
  BY <1>1 DEF IsRead
<1>14. ASSUME NEW i \in DOMAIN list, NEW d \in DhcpOf(list[i])
       PROVE  (i = 1 /\ ~same) \/ IsReviewed(d)
  <2>1. CASE i # 1
    BY <1>9, <1>13, <1>14, <2>1, ListHolds
  <2>2. CASE i = 1 /\ same
    <3>1. PICK e \in DhcpOf(app) : d.id = e.id /\ d.version = e.version
      BY <1>7, <1>9, <1>14, <2>2
    <3>2. IsReviewed(e)
      BY <1>4, <1>13, ListHolds
    <3> QED BY <3>1, <3>2 DEF IsReviewed, ReviewSoon
  <2> QED BY <2>1, <2>2
<1>15. ASSUME ~disturbed', OneUpdate, StoredKept, CopyKept, ListKept
       PROVE  ListFits(J)
  <2>1. \A i \in DOMAIN job[u].list :
           /\ \A a \in apps : \A d \in DhcpOf(a) : \A p \in Ports :
                Current(d, p) => Agree({job[u].list[i]}, d, p)
           /\ \A p \in Ports : Current(copy, p) /\ copy.id # 0 => Agree({job[u].list[i]}, copy, p)
           /\ \A d \in DhcpOf(job[u].list[i]) : \A p \in Ports : Current(d, p) =>
                /\ p \in Seen /\ p \in detected
                /\ job[u].list[i].port = p /\ HasNets(d)
    BY <1>13, <1>15, ListHoldsKept
  <2>2. ASSUME NEW d, d.id # 0, NEW p \in Ports, Current(d, p), Agree({app}, d, p)
        PROVE  Agree({n}, d, p)
    <3> SUFFICES ASSUME NEW e \in n.daemons, e.id = d.id
                 PROVE  n.port = p /\ e.version = d.version
      BY DEF Agree
    <3>1. PICK x \in app.daemons : x.id = e.id /\ (x.version = e.version \/ FromKea(app, e, reply))
      BY <1>5, <2>2 DEF ComesFrom
    <3>2. app.port = p /\ x.version = d.version
      BY <2>2, <3>1 DEF Agree
    <3> QED BY <1>5, <2>2, <3>1, <3>2 DEF FromKea, Current
  <2>3. ASSUME NEW d \in DhcpOf(n), NEW p \in Ports, Current(d, p)
        PROVE  p \in Seen /\ p \in detected /\ n.port = p /\ (~same \/ HasNets(d))
    <3>0. d \in n.daemons /\ d.name = "dhcp" /\ p \in Running /\ d.version = kea[p].version
      BY <2>3 DEF DhcpOf, Current
    <3>1. d.version # 0
      BY <3>0 DEF IInv, Versions
    <3>2. ASSUME NEW e \in DhcpOf(app), e.id = d.id, e.version = d.version
          PROVE  p \in Seen /\ p \in detected /\ app.port = p /\ HasNets(d)
      <4>1. Current(e, p)
        BY <2>3, <3>2 DEF Current
      <4>2. p \in Seen /\ p \in detected /\ app.port = p /\ HasNets(e)
        BY <1>4, <2>1, <4>1
      <4> QED BY <3>2, <4>2 DEF HasNets
    <3>3. CASE \E e \in app.daemons : e.name = d.name /\ e.id = d.id /\ e.version = d.version
      BY <1>5, <3>0, <3>2, <3>3 DEF DhcpOf
    <3>4. CASE FromKea(app, d, reply)
      <4>1. app.port \in Seen /\ app.port \in detected /\ kea[p].version = kea[app.port].version
        BY <1>2, <1>15, <3>0, <3>4 DEF FromKea
      <4>2. app.port \in Ports
        BY <4>1 DEF Seen, Running
      <4>3. p = app.port
        BY <3>0, <3>1, <4>1, <4>2 DEF IInv, Versions
      <4>4. same => HasNets(d)
        BY <1>7, <3>2
      <4> QED BY <1>5, <4>1, <4>3, <4>4
    <3> QED BY <1>5, <3>0, <3>1, <3>3, <3>4 DEF ComesFrom
  <2>4. \A a \in apps : \A d \in DhcpOf(a) : d.id # 0
    BY DEF IInv, Types, DbTypes, IsStored, DhcpOf
  <2>5. \A a \in apps : \A d \in DhcpOf(a) : \A p \in Ports :
          Current(d, p) => \A i \in DOMAIN list : Agree({list[i]}, d, p)
    BY <1>4, <1>9, <2>1, <2>2, <2>4
  <2>6. \A p \in Ports : Current(copy, p) /\ copy.id # 0 =>
          \A i \in DOMAIN list : Agree({list[i]}, copy, p)
    BY <1>4, <1>9, <2>1, <2>2
  <2>7. \A i \in DOMAIN list : \A d \in DhcpOf(list[i]) : \A p \in Ports : Current(d, p) =>
          /\ p \in Seen /\ p \in detected
          /\ list[i].port = p /\ ((i = 1 /\ ~same) \/ HasNets(d))
    BY <1>9, <2>1, <2>3
  <2> QED BY <1>10, <2>5, <2>6, <2>7 DEF ListFits
<1>16. ~disturbed' => /\ ~disturbed
                      /\ \A v \in Updaters \ {u} : job[v].pc = "idle"
  <2>1. ~disturbed' => ~disturbed
    BY <1>2
  <2> QED BY <1>1, <2>1 DEF IInv, Kept, OneUpdate
<1> HIDE DEF app
<1> QED BY <1>1, <1>9, <1>10, <1>11, <1>12, <1>14, <1>15, <1>16, GoesInv

-----------------------------------------------------------------------------
(* The transaction                                                         *)

\* The row has the daemons of the copy, and numbers.
LEMMA NumberedIs ==
  ASSUME Types, newest' = newest, NEW app \in AppRow, RowFits(app),
         lastId' = IF \E d \in app.daemons \cup {app} : d.id = 0 THEN lastId + 3 ELSE lastId
  PROVE  LET row == Numbered(app) IN
         /\ lastId' \in Nat /\ lastId <= lastId'
         /\ row \in AppRow' /\ IsStored(row) /\ row.port = app.port
         /\ app.id = 0 => row.id > lastId
         /\ app.id # 0 => row.id = app.id
         /\ \A e \in row.daemons : \E d \in app.daemons :
              /\ e.name = d.name /\ e.version = d.version
              /\ d.id # 0 => e.id = d.id
              /\ d.id = 0 => e.id = lastId + IF d.name = "ca" THEN 2 ELSE 3
         /\ OneName(row.daemons)
<1> DEFINE row == Numbered(app)
           num(d) == IF d.id # 0 THEN d
                     ELSE [d EXCEPT !.id = lastId + IF d.name = "ca" THEN 2 ELSE 3]
<1>1. lastId \in Nat /\ lastId' \in Nat /\ lastId <= lastId'
  BY DEF Types, DbTypes
<1>2. (app.id = 0 \/ \E d \in app.daemons : d.id = 0) => lastId' = lastId + 3
  OBVIOUS
<1>3. ASSUME NEW d \in app.daemons
      PROVE  /\ num(d) \in Daemon' /\ num(d).name = d.name /\ num(d).version = d.version
             /\ num(d).id # 0 /\ (d.id # 0 => num(d) = d)
             /\ d.id = 0 => num(d).id = lastId + IF d.name = "ca" THEN 2 ELSE 3
  <2>1. d \in Daemon
    BY DEF AppRow
  <2>3. CASE d.id # 0
    <3>1. num(d) = d
      BY <2>3
    <3> QED BY <1>1, <2>1, <2>3, <3>1 DEF Daemon
  <2>4. CASE d.id = 0
    <3>1. lastId' = lastId + 3
      BY <1>2, <2>4
    <3>2. PICK k \in {2, 3} : k = IF d.name = "ca" THEN 2 ELSE 3
      OBVIOUS
    <3>3. num(d) = [d EXCEPT !.id = lastId + k]
      BY <2>4, <3>2
    <3> HIDE DEF num
    <3>4. lastId + k \in 0..lastId' /\ lastId + k # 0
      BY <1>1, <3>1
    <3> QED BY <2>1, <2>4, <3>2, <3>3, <3>4 DEF Daemon
  <2> QED BY <2>3, <2>4
<1>4. PICK id : id = IF app.id = 0 THEN lastId + 1 ELSE app.id
  OBVIOUS
<1>5. /\ id \in 0..lastId' /\ id # 0
      /\ app.id = 0 => id > lastId
      /\ app.id # 0 => id = app.id
  BY <1>1, <1>2, <1>4 DEF AppRow
<1>6. row = [app EXCEPT !.id = id, !.daemons = {num(d) : d \in app.daemons}]
  BY <1>4 DEF Numbered
<1> HIDE DEF row, num
<1>7. {num(d) : d \in app.daemons} \in SUBSET Daemon'
  BY <1>3
<1>8. /\ row \in AppRow' /\ row.port = app.port /\ row.id = id
      /\ row.daemons = {num(d) : d \in app.daemons}
  BY <1>5, <1>6, <1>7 DEF AppRow
<1>9. IsStored(row)
  BY <1>3, <1>5, <1>8 DEF IsStored
<1>10. OneName(row.daemons)
  <2> SUFFICES ASSUME NEW x \in row.daemons, NEW y \in row.daemons, x.name = y.name
               PROVE  x = y
    BY DEF OneName
  <2>1. PICK d \in app.daemons : x = num(d)
    BY <1>8
  <2>2. PICK e \in app.daemons : y = num(e)
    BY <1>8
  <2>3. d = e
    BY <1>3, <2>1, <2>2 DEF RowFits
  <2> QED BY <2>1, <2>2, <2>3
<1>11. \A e \in row.daemons : \E d \in app.daemons :
              /\ e.name = d.name /\ e.version = d.version
              /\ d.id # 0 => e.id = d.id
              /\ d.id = 0 => e.id = lastId + IF d.name = "ca" THEN 2 ELSE 3
  BY <1>3, <1>8
<1> QED BY <1>1, <1>5, <1>8, <1>9, <1>10, <1>11 DEF row

\* The update of u stores its first application, which becomes row.
Commits(u, app, row) ==
  /\ job[u].pc = "commit" /\ app = Head(job[u].list) /\ row = Numbered(app)
  /\ CanStore(app)
  /\ apps' = Stored(row)
  /\ nets' = NetsOf(job[u], row, app)
  /\ lastId' = IF \E d \in app.daemons \cup {app} : d.id = 0 THEN lastId + 3 ELSE lastId
  /\ job' = [job EXCEPT ![u] = [job[u] EXCEPT !.pc = "review",
                                              !.list = <<row>> \o Tail(job[u].list)]]
  /\ UNCHANGED <<procs, kea, newest, detected, begun, copy, lost, disturbed>>

\* What that means for the copies and the rows.
NewRow(app, row) ==
  /\ lastId' \in Nat /\ lastId <= lastId'
  /\ row \in AppRow' /\ IsStored(row) /\ row.port = app.port
  /\ app.id = 0 => row.id > lastId
  /\ app.id # 0 => row.id = app.id
  /\ \A e \in row.daemons : \E d \in app.daemons :
       /\ e.name = d.name /\ e.version = d.version
       /\ d.id # 0 => e.id = d.id
       /\ d.id = 0 => e.id = lastId + IF d.name = "ca" THEN 2 ELSE 3
  /\ OneName(row.daemons)
NewLists(u, app, row) ==
  /\ app \in AppRow /\ app \in Rows /\ RowFits(app)
  /\ 1 \in DOMAIN job[u].list /\ app = job[u].list[1]
  /\ job' \in [Updaters -> Job']
  /\ \A v \in Updaters \ {u} : job'[v] = job[v]
  /\ job'[u].pc = "review" /\ job'[u].same = job[u].same /\ job'[u].reviewed = job[u].reviewed
  /\ job'[u].list # <<>> /\ Head(job'[u].list) = row
  /\ DOMAIN job'[u].list = DOMAIN job[u].list /\ job'[u].list[1] = row
  /\ \A i \in DOMAIN job[u].list : i # 1 => job'[u].list[i] = job[u].list[i]
  /\ \A b \in Entries' : b = row \/ b \in Entries
  /\ \A b \in apps' : b = row \/ (b \in apps /\ b.id # row.id)
  /\ \A b \in Rows' : b = row \/ b \in Rows

LEMMA CommitIs ==
  ASSUME IInv, NEW u \in Updaters, NEW app, NEW row, Commits(u, app, row)
  PROVE  /\ NewRow(app, row) /\ NewLists(u, app, row)
         /\ Daemon \subseteq Daemon' /\ AppRow \subseteq AppRow'
<1> USE DEF Commits
<1>1. job[u] \in Job /\ job[u].list \in Seq(AppRow) /\ job[u].list # <<>>
  BY ListHolds DEF Job
<1>2. app = job[u].list[1] /\ 1 \in DOMAIN job[u].list
  BY <1>1, HeadTailProperties, EmptySeq
<1>3. app \in AppRow /\ app \in Rows /\ RowFits(app)
  BY <1>2, HeldAreDaemons, OldRowsFit DEF IInv
<1>4. NewRow(app, row)
  BY <1>3, NumberedIs DEF IInv, NewRow
<1>5. newest \in Nat /\ newest' = newest /\ lastId \in Nat
  BY DEF IInv, Types, MachineTypes, DbTypes
<1>6. /\ Daemon \subseteq Daemon' /\ AppRow \subseteq AppRow' /\ Job \subseteq Job'
      /\ Seq(AppRow) \subseteq Seq(AppRow')
  BY <1>4, <1>5, MoreNumbers DEF NewRow
<1> DEFINE list == <<row>> \o Tail(job[u].list)
           J == [job[u] EXCEPT !.pc = "review", !.list = list]
<1>7. /\ list \in Seq(AppRow') /\ list # <<>> /\ Head(list) = row
      /\ DOMAIN list = DOMAIN job[u].list /\ list[1] = row
      /\ \A i \in DOMAIN job[u].list : i # 1 => list[i] = job[u].list[i]
  <2>1. job[u].list \in Seq(AppRow')
    BY <1>1, <1>6
  <2>2. PICK T : T = AppRow'
    OBVIOUS
  <2>3. job[u].list \in Seq(T) /\ row \in T
    BY <1>4, <2>1, <2>2 DEF NewRow
  <2> QED BY <1>1, <2>2, <2>3, HeadReplaced
<1>8. job' = [job EXCEPT ![u] = J]
  OBVIOUS
<1> HIDE DEF list
<1>9. J \in Job' /\ J.pc = "review" /\ J.list = list /\ J.same = job[u].same
      /\ J.reviewed = job[u].reviewed
  BY <1>1, <1>7 DEF Job
<1> HIDE DEF J
<1>10. job' \in [Updaters -> Job'] /\ job'[u] = J /\ \A v \in Updaters \ {u} : job'[v] = job[v]
  BY <1>6, <1>8, <1>9 DEF IInv, Types, JobTypes
<1>11. \A b \in Entries' : b = row \/ b \in Entries
  <2> SUFFICES ASSUME NEW v \in Updaters, NEW i \in DOMAIN job'[v].list
               PROVE  job'[v].list[i] = row \/ job'[v].list[i] \in Entries
    BY DEF Entries, Range
  <2>1. CASE v # u
    BY <1>10, <2>1, HeldAreDaemons DEF IInv
  <2>2. CASE v = u
    <3>1. i \in DOMAIN job[u].list /\ (i = 1 => job'[v].list[i] = row)
          /\ (i # 1 => job'[v].list[i] = job[u].list[i])
      BY <1>7, <1>9, <1>10, <2>2
    <3> QED BY <3>1, HeldAreDaemons DEF IInv
  <2> QED BY <2>1, <2>2, SMTT(30)
<1>12. \A b \in apps' : b = row \/ (b \in apps /\ b.id # row.id)
  BY DEF Stored
<1>13. \A b \in Rows' : b = row \/ b \in Rows
  BY <1>11, <1>12 DEF Rows
<1>14. NewLists(u, app, row)
  BY <1>2, <1>3, <1>7, <1>9, <1>10, <1>11, <1>12, <1>13 DEF NewLists
<1> QED BY <1>4, <1>6, <1>14

LEMMA CommitIdentity ==
  ASSUME IInv, NEW u \in Updaters, NEW app, NEW row, Commits(u, app, row)
  PROVE  Identity'
<1>1. NewRow(app, row) /\ NewLists(u, app, row)
  BY CommitIs
<1>2. /\ \A a \in Rows : a.id \in 0..lastId /\ \A d \in a.daemons : d.id \in 0..lastId /\ d.name \in {"ca", "dhcp"}
      /\ copy.id \in 0..lastId /\ lastId \in Nat /\ copy' = copy /\ copy.name = "dhcp"
      /\ \A d \in app.daemons : d.name \in {"ca", "dhcp"} /\ d.id \in 0..lastId
      /\ app.id \in 0..lastId
  <2>1. \A a \in Rows : a \in AppRow /\ a.daemons \subseteq Daemon
    BY HeldAreDaemons DEF IInv
  <2>2. copy \in Daemon /\ lastId \in Nat /\ copy' = copy /\ copy.name = "dhcp"
    BY DEF IInv, Types, DbTypes, Commits
  <2>3. \A a \in Rows : a.id \in 0..lastId /\ \A d \in a.daemons : d.id \in 0..lastId /\ d.name \in {"ca", "dhcp"}
    BY <2>1 DEF AppRow, Daemon
  <2> QED BY <1>1, <2>2, <2>3 DEF Daemon, NewLists
<1>3. app \in Rows /\ app.id \in 0..lastId
  BY <1>1, <1>2 DEF NewLists
\* The numbers of the row: an old one is that of the same daemon.
<1>4. ASSUME NEW e \in row.daemons
      PROVE  /\ e.id # 0
             /\ e.id \in 0..lastId => \E d \in app.daemons : d.id = e.id /\ d.name = e.name /\ row.id = app.id
             /\ e.id \notin 0..lastId => e.id = lastId + IF e.name = "ca" THEN 2 ELSE 3
  <2>1. PICK d \in app.daemons :
              /\ e.name = d.name /\ e.version = d.version
              /\ d.id # 0 => e.id = d.id
              /\ d.id = 0 => e.id = lastId + IF d.name = "ca" THEN 2 ELSE 3
    BY <1>1 DEF NewRow
  <2>2. e.id # 0
    BY <1>1 DEF NewRow, IsStored
  <2>3. d.id # 0 => app.id # 0
    BY <1>1 DEF NewLists, RowFits, Ids
  <2> QED BY <1>1, <1>2, <2>1, <2>2, <2>3 DEF NewRow
<1>5. OneOfAName'
  <2>1. OneOfAName
    BY DEF IInv, Identity
  <2> QED BY <1>1, <2>1 DEF NewRow, NewLists, OneOfAName, OneName
<1>6. NewIsNew'
  <2>1. NewIsNew
    BY DEF IInv, Identity
  <2>2. row.id # 0
    BY <1>1 DEF NewRow, IsStored
  <2> QED BY <1>1, <2>1, <2>2 DEF NewLists, NewIsNew, Ids
<1>7. Named'
  <2> SUFFICES ASSUME NEW x \in Daemons(Rows') \cup {copy}, NEW y \in Daemons(Rows') \cup {copy},
                      x.id = y.id, x.id # 0
               PROVE  x.name = y.name
    BY <1>2 DEF Named, Daemons
  <2> DEFINE Old == Daemons(Rows) \cup {copy}
  <2>1. \A d, e \in Old : d.id = e.id /\ d.id # 0 => d.name = e.name
    BY DEF IInv, Identity, Named
  <2>2. \A d \in Old : d.id \in 0..lastId
    BY <1>2 DEF Daemons
  <2>3. x \in row.daemons \/ x \in Old
    BY <1>1 DEF NewLists, Daemons
  <2>4. y \in row.daemons \/ y \in Old
    BY <1>1 DEF NewLists, Daemons
  <2>5. \A d \in app.daemons : d \in Old
    BY <1>3 DEF Daemons
  <2> HIDE DEF Old
  <2>6. CASE x.id \in 0..lastId
    <3>1. \E d \in Old : d.id = x.id /\ d.name = x.name
      BY <1>4, <2>3, <2>5, <2>6
    <3>2. \E d \in Old : d.id = y.id /\ d.name = y.name
      BY <1>4, <2>4, <2>5, <2>6
    <3> QED BY <2>1, <3>1, <3>2
  <2>7. CASE x.id \notin 0..lastId
    <3>1. x \in row.daemons /\ y \in row.daemons
      BY <2>2, <2>3, <2>4, <2>7
    <3>2. x.id = lastId + (IF x.name = "ca" THEN 2 ELSE 3) /\ y.id = lastId + (IF y.name = "ca" THEN 2 ELSE 3)
      BY <1>4, <2>7, <3>1
    <3>3. x.name \in {"ca", "dhcp"} /\ y.name \in {"ca", "dhcp"}
      BY <1>1, <1>2, <3>1 DEF NewRow
    <3>4. PICK k, m \in {2, 3} :
            /\ k = (IF x.name = "ca" THEN 2 ELSE 3) /\ m = (IF y.name = "ca" THEN 2 ELSE 3)
      OBVIOUS
    <3>5. lastId + k = lastId + m
      BY <3>2, <3>4
    <3>6. k = m
      BY <1>2, <3>5
    <3> QED BY <3>3, <3>4, <3>6
  <2> QED BY <2>6, <2>7
<1>8. Owned'
  <2>0. Owned
    BY DEF IInv, Identity
  <2>1. ASSUME NEW b \in Rows, NEW d \in b.daemons, NEW e \in row.daemons, d.id = e.id
        PROVE  b.id = row.id
    <3>1. e.id \in 0..lastId /\ e.id # 0
      BY <1>2, <1>4, <2>1
    <3>2. PICK x \in app.daemons : x.id = e.id /\ row.id = app.id
      BY <1>4, <3>1
    <3> QED BY <1>3, <2>0, <2>1, <3>1, <3>2 DEF Owned
  <2> QED BY <1>1, <2>0, <2>1 DEF Owned, NewLists
<1>9. Once'
  <2>0. Once
    BY DEF IInv, Identity
  <2> SUFFICES ASSUME NEW v \in Updaters, NEW i \in DOMAIN job'[v].list, NEW k \in DOMAIN job'[v].list,
                      job'[v].list[i].id = job'[v].list[k].id, job'[v].list[i].id # 0
               PROVE  i = k
    BY DEF Once
  <2>1. CASE v # u
    BY <1>1, <2>0, <2>1 DEF NewLists, Once
  <2>2. CASE v = u
    <3>1. \A m \in DOMAIN job[u].list : m # 1 => job[u].list[m].id # row.id
      <4> SUFFICES ASSUME NEW m \in DOMAIN job[u].list, m # 1, job[u].list[m].id = row.id
                   PROVE  FALSE
        OBVIOUS
      <4>1. job[u].list[m].id \in 0..lastId
        BY <1>2, HeldAreDaemons DEF IInv
      <4>2. row.id = app.id /\ app.id # 0
        BY <1>1, <1>2, <4>1 DEF NewRow
      <4> QED BY <1>1, <2>0, <4>2 DEF NewLists, Once
    <3> QED BY <1>1, <2>0, <2>2, <3>1 DEF NewLists, Once
  <2> QED BY <2>1, <2>2
<1> QED BY <1>5, <1>6, <1>7, <1>8, <1>9 DEF Identity

\* The networks of the row are those of its configuration, or, if that is the one before,
\* stay; those of the other applications stay.
LEMMA CommitNets ==
  ASSUME IInv, NEW u \in Updaters, NEW app, NEW row, Commits(u, app, row)
  PROVE  /\ DOMAIN nets' = Ids(UNION {DhcpOf(a) : a \in apps'})
         /\ \A i \in DOMAIN nets' : nets'[i] \in 0..newest
         /\ \A i \in DOMAIN nets' : i \notin Ids(DhcpOf(row)) => i \in DOMAIN nets /\ nets'[i] = nets[i]
         /\ \A e \in DhcpOf(row) :
              \/ nets'[e.id] = e.version
              \/ job[u].same /\ e.id \in DOMAIN nets /\ nets'[e.id] = nets[e.id]
<1> DEFINE all == Ids(UNION {DhcpOf(a) : a \in Stored(row)})
           mine(i) == {d \in DhcpOf(row) : d.id = i}
           val(i) == IF (mine(i) = {} \/ job[u].same) /\ i \in DOMAIN nets THEN nets[i]
                     ELSE (CHOOSE d \in mine(i) : TRUE).version
<1>1. NewRow(app, row) /\ NewLists(u, app, row)
  BY CommitIs
<1>2. nets' = [i \in all |-> val(i)] /\ apps' = Stored(row)
  BY DEF Commits, NetsOf
<1>3. DOMAIN nets' = all /\ all = Ids(UNION {DhcpOf(a) : a \in apps'})
  BY <1>2
<1>4. \A i \in all : nets'[i] = val(i)
  BY <1>2
<1>5. ASSUME NEW i \in all, mine(i) = {}
      PROVE  i \in DOMAIN nets
  <2>1. PICK a \in Stored(row) : \E d \in DhcpOf(a) : d.id = i
    BY DEF Ids
  <2>2. a # row
    BY <1>5, <2>1
  <2>3. a \in apps
    BY <2>2 DEF Stored
  <2> QED BY <2>1, <2>3 DEF IInv, Types, DbTypes, Ids
<1>6. ASSUME NEW e \in DhcpOf(row)
      PROVE  mine(e.id) = {e} /\ e.id \in all
  <2>1. \A d \in DhcpOf(row) : d.id = e.id => d = e
    BY <1>1 DEF NewRow, OneName, DhcpOf
  <2>2. row \in Stored(row)
    BY DEF Stored
  <2> QED BY <2>1, <2>2 DEF Ids
<1>7. \A e \in DhcpOf(row) :
        \/ val(e.id) = e.version
        \/ job[u].same /\ e.id \in DOMAIN nets /\ val(e.id) = nets[e.id]
  <2> SUFFICES ASSUME NEW e \in DhcpOf(row)
               PROVE  \/ val(e.id) = e.version
                      \/ job[u].same /\ e.id \in DOMAIN nets /\ val(e.id) = nets[e.id]
    OBVIOUS
  <2>1. mine(e.id) = {e}
    BY <1>6
  <2> HIDE DEF mine
  <2>2. (CHOOSE d \in mine(e.id) : TRUE) = e
    BY <2>1
  <2> QED BY <2>1, <2>2
<1>8. \A i \in all : i \notin Ids(DhcpOf(row)) => i \in DOMAIN nets /\ val(i) = nets[i]
  <2> SUFFICES ASSUME NEW i \in all, i \notin Ids(DhcpOf(row))
               PROVE  i \in DOMAIN nets /\ val(i) = nets[i]
    OBVIOUS
  <2>1. mine(i) = {}
    BY DEF Ids
  <2> QED BY <1>5, <2>1
<1>9. \A i \in DOMAIN nets : nets[i] \in 0..newest
  BY DEF IInv, Types, DbTypes
<1>10. \A e \in DhcpOf(row) : e.version \in 0..newest
  <2>1. \A d \in app.daemons : d.version \in 0..newest
    BY <1>1 DEF NewLists, AppRow, Daemon
  <2> QED BY <1>1, <2>1 DEF NewRow, DhcpOf
<1> HIDE DEF all, val, mine
<1>11. \A i \in all : val(i) \in 0..newest
  <2> SUFFICES ASSUME NEW i \in all
               PROVE  val(i) \in 0..newest
    OBVIOUS
  <2>1. CASE i \notin Ids(DhcpOf(row))
    BY <1>8, <1>9, <2>1
  <2>2. CASE i \in Ids(DhcpOf(row))
    BY <1>7, <1>9, <1>10, <2>2 DEF Ids
  <2> QED BY <2>1, <2>2
<1> QED BY <1>3, <1>4, <1>6, <1>7, <1>8, <1>11

LEMMA CommitTypes ==
  ASSUME IInv, NEW u \in Updaters, NEW app, NEW row, Commits(u, app, row)
  PROVE  Types'
<1>1. /\ NewRow(app, row) /\ NewLists(u, app, row)
      /\ Daemon \subseteq Daemon' /\ AppRow \subseteq AppRow'
  BY CommitIs
<1>2. UNCHANGED <<procs, kea, newest, detected, begun, copy, lost>>
  BY DEF Commits
<1>3. Types
  BY DEF IInv
<1>4. MachineTypes'
  BY <1>2, <1>3 DEF Types, MachineTypes
<1>5. apps' \subseteq AppRow' /\ \A a \in apps' : IsStored(a)
  BY <1>1, <1>3 DEF NewRow, NewLists, Types, DbTypes
<1>6. IsFiniteSet(apps')
  <2>1. apps' = {a \in apps : a.id # row.id} \cup {row}
    BY DEF Commits, Stored
  <2>2. IsFiniteSet({a \in apps : a.id # row.id})
    BY <1>3, FS_Subset DEF Types, DbTypes
  <2> QED BY <2>1, <2>2, FS_AddElement
<1>7. \A a, b \in apps' : a.port = b.port \/ a.id = b.id => a = b
  <2>1. \A a \in apps : a.id # row.id => a.port # row.port
    <3>1. \A a \in apps : a.id # app.id => a.port # app.port
      BY DEF Commits, CanStore
    <3>2. \A a \in apps : a.id # 0
      BY <1>3 DEF Types, DbTypes, IsStored
    <3> QED BY <1>1, <3>1, <3>2 DEF NewRow
  <2>2. \A a, b \in apps : a.port = b.port \/ a.id = b.id => a = b
    BY <1>3 DEF Types, DbTypes
  <2> QED BY <1>1, <2>1, <2>2 DEF NewLists
<1>8. DbTypes'
  <2>1. \A a \in apps' : IsStored(a)'
    BY <1>5 DEF IsStored
  <2>2. Ids(UNION {DhcpOf(a) : a \in apps})' = Ids(UNION {DhcpOf(a) : a \in apps'})
    BY DEF Ids, DhcpOf
  <2>3. DOMAIN nets' = Ids(UNION {DhcpOf(a) : a \in apps'})
        /\ \A i \in DOMAIN nets' : nets'[i] \in 0..newest
    BY CommitNets
  <2>4. lastId \in Nat /\ lastId' \in Nat /\ lastId <= lastId' /\ newest \in Nat
    BY <1>1, <1>3 DEF NewRow, Types, DbTypes, MachineTypes
  <2>5. begun' \subseteq (1..lastId') \X (1..newest')
    <3>1. (1..lastId) \X (1..newest) \subseteq (1..lastId') \X (1..newest)
      BY <2>4
    <3> QED BY <1>2, <1>3, <3>1 DEF Types, DbTypes
  <2>6. copy' \in Daemon' /\ copy'.name = "dhcp" /\ 0 \notin lost'
    BY <1>1, <1>2, <1>3 DEF Types, DbTypes
  <2> QED BY <1>2, <1>5, <1>6, <1>7, <2>1, <2>2, <2>3, <2>4, <2>5, <2>6 DEF DbTypes
<1>9. JobTypes'
  <2>1. \A v \in Updaters :
          /\ job[v].pc \in {"idle", "merge"} <=> job[v].list = <<>>
          /\ job[v].pc = "review" => IsStored(Head(job[v].list))
    BY <1>3 DEF Types, JobTypes
  <2>2. \A v \in Updaters :
          /\ job'[v].pc \in {"idle", "merge"} <=> job'[v].list = <<>>
          /\ job'[v].pc = "review" => IsStored(Head(job'[v].list))
    <3> SUFFICES ASSUME NEW v \in Updaters
                 PROVE  /\ job'[v].pc \in {"idle", "merge"} <=> job'[v].list = <<>>
                        /\ job'[v].pc = "review" => IsStored(Head(job'[v].list))
      OBVIOUS
    <3>1. CASE v = u
      BY <1>1, <3>1 DEF NewRow, NewLists
    <3>2. CASE v # u
      BY <1>1, <2>1, <3>2 DEF NewLists
    <3> QED BY <3>1, <3>2
  <2> QED BY <1>1, <2>2 DEF JobTypes, IsStored, NewLists
<1> QED BY <1>4, <1>8, <1>9 DEF Types

LEMMA CommitReviews ==
  ASSUME IInv, NEW u \in Updaters, NEW app, NEW row, Commits(u, app, row)
  PROVE  Reviews'
<1>1. NewRow(app, row) /\ NewLists(u, app, row)
  BY CommitIs
<1>2. UNCHANGED <<copy, lost, begun>> /\ job[u].pc = "commit"
  BY DEF Commits
<1>3. \A v \in Updaters : v # u => Due(job[v])' = Due(job[v])
  BY <1>1 DEF Due, DhcpOf, NewLists
<1>4. \A v \in Updaters : \A d : ReviewSoon(d, v) => ReviewSoon(d, v)'
  <2> SUFFICES ASSUME NEW v \in Updaters, NEW d, ReviewSoon(d, v)
               PROVE  ReviewSoon(d, v)'
    OBVIOUS
  <2>1. v # u
    BY <1>2 DEF ReviewSoon
  <2> QED BY <1>1, <1>3, <2>1 DEF ReviewSoon, NewLists
<1>5. \A d : IsReviewed(d) => IsReviewed(d)'
  BY <1>2, <1>4 DEF IsReviewed
<1>6. IsReviewed(copy)'
  <2>0. PICK c : c = copy
    OBVIOUS
  <2>1. IsReviewed(c)'
    BY <1>5, <2>0 DEF IInv, Reviews
  <2>2. \A v \in Updaters : ReviewSoon(c, v)' => ReviewSoon(copy, v)'
    BY <1>2, <2>0 DEF ReviewSoon
  <2> QED BY <1>2, <2>0, <2>1, <2>2 DEF IsReviewed
<1>7. ASSUME NEW e \in DhcpOf(row)
      PROVE  IsReviewed(e)'
  <2>1. CASE job[u].same
    <3>1. PICK d \in app.daemons : e.name = d.name /\ e.version = d.version /\ (d.id # 0 => e.id = d.id)
      BY <1>1 DEF NewRow, DhcpOf
    <3>2. d \in DhcpOf(app)
      BY <3>1 DEF DhcpOf
    <3>3. IsReviewed(d)
      BY <1>1, <2>1, <3>2, ListHolds DEF IsRead, NewLists
    <3>4. CASE d.id # 0
      <4>1. e.id = d.id /\ e.version = d.version
        BY <3>1, <3>4
      <4>2. IsReviewed(e)
        BY <3>3, <4>1 DEF IsReviewed, ReviewSoon
      <4> QED BY <1>5, <4>2
    <3>5. CASE d.id = 0
      <4>1. \A x : <<d.id, x>> \notin begun
        BY <3>5 DEF IInv, Types, DbTypes
      <4>2. \A v \in Updaters : ~ReviewSoon(d, v)
        <5>1. \A v \in Updaters : job[v].pc = "review" => \A x \in Due(job[v]) : x.id # 0
          BY DEF IInv, Types, JobTypes, IsStored, Due, DhcpOf
        <5> QED BY <3>5, <5>1 DEF ReviewSoon
      <4>3. d.id \notin lost
        BY <3>5 DEF IInv, Types, DbTypes
      <4>4. e.version = 0
        BY <3>1, <3>3, <4>1, <4>2, <4>3 DEF IsReviewed
      <4> QED BY <4>4 DEF IsReviewed
    <3> QED BY <3>4, <3>5
  <2>2. CASE ~job[u].same
    <3>1. e.version # 0 => e \in Due(job'[u])
      BY <1>1, <2>2 DEF Due, NewLists
    <3>2. e.version # 0 => ReviewSoon(e, u)'
      BY <1>1, <3>1 DEF ReviewSoon, NewLists, Due, DhcpOf
    <3> QED BY <3>2 DEF IsReviewed
  <2> QED BY <2>1, <2>2
<1>8. \A a \in apps' : \A d \in DhcpOf(a) : IsReviewed(d)'
  BY <1>1, <1>5, <1>7 DEF NewLists, IInv, Reviews
<1>9. ASSUME NEW v \in Updaters, NEW i \in DOMAIN job'[v].list, NEW d \in DhcpOf(job'[v].list[i])
      PROVE  (IsRead(v, i) \/ IsReviewed(d))'
  <2>1. CASE v # u
    <3>1. job'[v] = job[v]
      BY <1>1, <2>1 DEF NewLists
    <3>2. IsRead(v, i) \/ IsReviewed(d)
      BY <3>1 DEF IInv, Reviews
    <3> QED BY <1>5, <3>1, <3>2 DEF IsRead
  <2>2. CASE v = u /\ i = 1
    BY <1>1, <1>7, <2>2 DEF NewLists
  <2>3. CASE v = u /\ i # 1
    <3>1. i \in DOMAIN job[u].list /\ d \in DhcpOf(job[u].list[i])
      BY <1>1, <2>3 DEF NewLists
    <3>2. IsReviewed(d)
      BY <2>3, <3>1, ListHolds DEF IsRead
    <3> QED BY <1>5, <3>2
  <2> QED BY <2>1, <2>2, <2>3
<1> QED BY <1>6, <1>8, <1>9 DEF Reviews, DhcpOf

LEMMA CommitKept ==
  ASSUME IInv, NEW u \in Updaters, NEW app, NEW row, Commits(u, app, row), ~disturbed
  PROVE  OneUpdate' /\ StoredKept' /\ CopyKept' /\ ListKept'
<1>1. NewRow(app, row) /\ NewLists(u, app, row)
  BY CommitIs
<1>2. UNCHANGED <<procs, kea, newest, detected, copy>> /\ job[u].pc = "commit"
  BY DEF Commits
<1>3. OneUpdate /\ StoredKept /\ CopyKept /\ ListKept
  BY DEF IInv, Kept
<1>4. OneUpdate'
  BY <1>1, <1>2, <1>3 DEF OneUpdate, NewLists
<1>5. \A p \in Ports : Sees(p) => Sees(p)'
  BY <1>1, <1>2 DEF Sees, Seen, Running, NewLists
<1>6. \A d : \A p \in Ports : Current(d, p)' <=> Current(d, p)
  BY <1>2 DEF Current, Running
<1>7. Identity' /\ Types'
  BY CommitIdentity, CommitTypes
<1>8. /\ DOMAIN nets' = Ids(UNION {DhcpOf(a) : a \in apps'})
      /\ \A i \in DOMAIN nets' : i \notin Ids(DhcpOf(row)) => i \in DOMAIN nets /\ nets'[i] = nets[i]
      /\ \A e \in DhcpOf(row) :
           \/ nets'[e.id] = e.version
           \/ job[u].same /\ e.id \in DOMAIN nets /\ nets'[e.id] = nets[e.id]
  BY CommitNets
<1>9. row \in Entries' /\ row \in Rows'
  <2>1. row \in Entries'
    BY <1>1 DEF NewLists, Entries, Range
  <2> QED BY <2>1 DEF Rows
<1>10. \A b \in Entries' : b \in Rows'
  BY DEF Rows
\* A daemon of another application is not one of the row, and its networks stay.
<1>11. ASSUME NEW d, d.id # 0, d.id \notin Ids(row.daemons), HasNets(d)
       PROVE  HasNets(d)'
  <2>1. d.id \notin Ids(DhcpOf(row))
    BY <1>11 DEF Ids, DhcpOf
  <2> QED BY <1>8, <1>11, <2>1 DEF HasNets
<1>12. ASSUME NEW b \in Rows', NEW d \in b.daemons, NEW e \in row.daemons, d.id = e.id
       PROVE  b.id = row.id /\ d.name = e.name /\ d.id # 0
  <2>1. e.id # 0
    BY <1>1 DEF NewRow, IsStored
  <2>2. d \in Daemons(Rows') /\ e \in Daemons(Rows')
    BY <1>9 DEF Daemons
  <2>3. Daemons(Rows)' = Daemons(Rows')
    BY DEF Daemons
  <2> QED BY <1>7, <1>9, <1>12, <2>1, <2>2, <2>3 DEF Identity, Owned, Named
\* What the row has of a configuration that is current.
<1>13. ASSUME NEW e \in DhcpOf(row), NEW p \in Ports, Current(e, p)
       PROVE  Sees(p) /\ row.port = p /\ HasNets(e)'
  <2>1. PICK d \in app.daemons :
              /\ e.name = d.name /\ e.version = d.version
              /\ d.id # 0 => e.id = d.id
              /\ d.id = 0 => e.id = lastId + IF d.name = "ca" THEN 2 ELSE 3
    BY <1>1 DEF NewRow, DhcpOf
  <2>2. d \in DhcpOf(app) /\ Current(d, p)
    BY <1>13, <2>1 DEF DhcpOf, Current
  <2>3. Sees(p) /\ app.port = p /\ (IsRead(u, 1) \/ HasNets(d))
    <3>1. 1 \in DOMAIN job[u].list /\ d \in DhcpOf(job[u].list[1]) /\ app = job[u].list[1]
      BY <1>1, <2>2, Zenon DEF NewLists
    <3> QED BY <1>3, <2>2, <3>1, Zenon DEF ListKept
  <2>4. row.port = p
    BY <1>1, <2>3 DEF NewRow
  <2>5. HasNets(e)'
    <3>1. CASE nets'[e.id] = e.version
      BY <3>1 DEF HasNets
    <3>2. CASE job[u].same /\ e.id \in DOMAIN nets /\ nets'[e.id] = nets[e.id]
      <4>1. HasNets(d)
        BY <2>3, <3>2 DEF IsRead
      <4>2. e.id \in 0..lastId /\ lastId \in Nat
        <5>1. \A a \in apps : \A x \in a.daemons : x.id \in 0..lastId
          BY DEF IInv, Types, DbTypes, AppRow, Daemon
        <5>2. lastId \in Nat /\ DOMAIN nets = Ids(UNION {DhcpOf(a) : a \in apps})
          BY DEF IInv, Types, DbTypes
        <5> QED BY <3>2, <5>1, <5>2 DEF Ids, DhcpOf
      <4>3. d.id # 0
        BY <2>1, <4>2
      <4> QED BY <2>1, <3>2, <4>1, <4>3 DEF HasNets
    <3> QED BY <1>8, <1>13, <3>1, <3>2
  <2> QED BY <2>3, <2>4, <2>5
\* A row that is not first has another number.
<1>14. ASSUME NEW i \in DOMAIN job[u].list, i # 1
       PROVE  /\ job[u].list[i].id # row.id /\ job[u].list[i] \in Rows' /\ i \in DOMAIN job'[u].list
              /\ job'[u].list[i] = job[u].list[i]
  <2>1. i \in DOMAIN job'[u].list /\ job'[u].list[i] = job[u].list[i] /\ job'[u].list[1] = row
        /\ 1 \in DOMAIN job'[u].list
    BY <1>1, <1>14 DEF NewLists
  <2>2. job'[u].list[i] \in Rows'
    BY <1>7, <2>1, HeldAreDaemons DEF Rows, Entries, Range
  <2>3. row.id # 0
    BY <1>1 DEF NewRow, IsStored
  <2> QED BY <1>7, <1>14, <2>1, <2>2, <2>3 DEF Identity, Once
\* Rows of the updates: the new one, or another application's.
<1>15. ASSUME NEW b \in Entries'
       PROVE  b = row \/ (b \in Entries /\ b.id # row.id)
  <2>0. PICK v \in Updaters : \E i \in DOMAIN job'[v].list : b = job'[v].list[i]
    BY DEF Entries, Range
  <2>1. PICK i \in DOMAIN job'[v].list : b = job'[v].list[i]
    BY <2>0
  <2>2. CASE v = u
    <3>1. i \in DOMAIN job[u].list
      BY <1>1, <2>1, <2>2 DEF NewLists
    <3>2. CASE i = 1
      BY <1>1, <2>1, <2>2, <3>2 DEF NewLists
    <3>3. CASE i # 1
      BY <1>14, <2>1, <2>2, <3>1, <3>3, HeldAreDaemons DEF IInv
    <3> QED BY <3>2, <3>3
  <2>3. CASE v # u
    <3>1. job[v].pc = "idle"
      BY <1>2, <1>3, <2>3 DEF OneUpdate
    <3>2. job'[v] = job[v] /\ job[v].list = <<>>
      BY <1>1, <2>3, <3>1 DEF NewLists, IInv, Types, JobTypes
    <3> QED BY <2>1, <3>2
  <2> QED BY <2>2, <2>3
<1>16. ASSUME NEW e \in DhcpOf(row), NEW p \in Ports, Current(e, p)
       PROVE  Agree(Entries', e, p)
  <2> SUFFICES ASSUME NEW b \in Entries', NEW x \in b.daemons, x.id = e.id
               PROVE  b.port = p /\ x.version = e.version
    BY DEF Agree
  <2>1. b.id = row.id /\ x.name = e.name
    BY <1>10, <1>12 DEF DhcpOf
  <2>2. b = row
    BY <1>15, <2>1
  <2>3. x = e
    BY <1>1, <2>1, <2>2 DEF NewRow, OneName, DhcpOf
  <2> QED BY <1>13, <1>16, <2>2, <2>3
<1>17. StoredKept'
  <2> SUFFICES ASSUME NEW a \in apps', NEW d \in DhcpOf(a), NEW p \in Ports, Current(d, p)
               PROVE  Sees(p)' /\ a.port = p /\ HasNets(d)' /\ Agree(Entries', d, p)
    BY <1>6 DEF StoredKept, DhcpOf, Agree
  <2>1. CASE a = row
    BY <1>5, <1>13, <1>16, <2>1
  <2>2. CASE a \in apps /\ a.id # row.id
    <3>1. Sees(p) /\ a.port = p /\ HasNets(d) /\ Agree(Entries, d, p)
      BY <1>3, <2>2 DEF StoredKept
    <3>2. a \in Rows' /\ d \in a.daemons /\ d.id # 0
      BY <2>2 DEF Rows, DhcpOf, IInv, Types, DbTypes, IsStored
    <3>3. d.id \notin Ids(row.daemons)
      BY <1>12, <2>2, <3>2 DEF Ids
    <3>4. HasNets(d)'
      BY <1>11, <3>1, <3>2, <3>3
    <3>5. Agree(Entries', d, p)
      <4> SUFFICES ASSUME NEW b \in Entries', NEW x \in b.daemons, x.id = d.id
                   PROVE  b.port = p /\ x.version = d.version
        BY DEF Agree
      <4>1. b # row
        BY <3>3 DEF Ids
      <4> QED BY <1>15, <3>1, <4>1 DEF Agree
    <3> QED BY <1>5, <3>1, <3>4, <3>5
  <2> QED BY <1>1, <2>1, <2>2 DEF NewLists
<1>18. CopyKept'
  <2> SUFFICES ASSUME NEW p \in Ports, Current(copy, p), copy.id # 0
               PROVE  Sees(p)' /\ Agree(Rows', copy, p)
    BY <1>2 DEF CopyKept, Agree, Current, Running
  <2>1. Sees(p) /\ Agree(Rows, copy, p)
    BY <1>3 DEF CopyKept
  <2>2. ASSUME NEW e \in row.daemons, e.id = copy.id
        PROVE  row.port = p /\ e.version = copy.version
    <3>1. PICK d \in app.daemons :
              /\ e.name = d.name /\ e.version = d.version
              /\ d.id # 0 => e.id = d.id
              /\ d.id = 0 => e.id = lastId + IF d.name = "ca" THEN 2 ELSE 3
      BY <1>1 DEF NewRow
    <3>2. copy.id \in 0..lastId /\ lastId \in Nat
      BY DEF IInv, Types, DbTypes, Daemon
    <3>3. d.id = copy.id
      BY <2>2, <3>1, <3>2
    <3>4. app.port = p /\ d.version = copy.version
      BY <1>1, <2>1, <3>3 DEF Agree, NewLists
    <3> QED BY <1>1, <3>1, <3>4 DEF NewRow
  <2>3. Agree(Rows', copy, p)
    BY <1>1, <2>1, <2>2 DEF Agree, NewLists
  <2> QED BY <1>5, <2>1, <2>3
<1>19. ListKept'
  <2> SUFFICES ASSUME NEW v \in Updaters, NEW i \in DOMAIN job'[v].list,
                      NEW d \in DhcpOf(job'[v].list[i]), NEW p \in Ports, Current(d, p)
               PROVE  Sees(p)' /\ job'[v].list[i].port = p /\ (IsRead(v, i)' \/ HasNets(d)')
    BY <1>6 DEF ListKept, DhcpOf
  <2>1. v = u
    <3> SUFFICES ASSUME v # u
                 PROVE  FALSE
      OBVIOUS
    <3>1. job[v].pc = "idle"
      BY <1>2, <1>3 DEF OneUpdate
    <3>2. job'[v] = job[v] /\ job[v].list = <<>>
      BY <1>1, <3>1 DEF NewLists, IInv, Types, JobTypes
    <3> QED BY <3>2
  <2>2. i \in DOMAIN job[u].list
    BY <1>1, <2>1 DEF NewLists
  <2>3. CASE i = 1
    BY <1>1, <1>5, <1>13, <2>1, <2>3 DEF NewLists
  <2>4. CASE i # 1
    <3>1. job'[u].list[i] = job[u].list[i] /\ job[u].list[i].id # row.id /\ job[u].list[i] \in Rows'
      BY <1>14, <2>2, <2>4
    <3>2. d \in DhcpOf(job[u].list[i]) /\ d \in job[u].list[i].daemons
      BY <2>1, <3>1 DEF DhcpOf
    <3>3. Sees(p) /\ job[u].list[i].port = p /\ HasNets(d)
      BY <1>3, <2>2, <2>4, <3>2 DEF ListKept, IsRead
    <3>4. d.id \notin Ids(row.daemons)
      BY <1>12, <3>1, <3>2 DEF Ids
    <3>5. HasNets(d)'
      <4>1. CASE d.id # 0
        BY <1>11, <3>3, <3>4, <4>1
      <4>2. CASE d.id = 0
        <5>1. 0 \notin DOMAIN nets'
          BY <1>7, <1>8 DEF Types, DbTypes, IsStored, Ids, DhcpOf
        <5> QED BY <4>2, <5>1 DEF HasNets
      <4> QED BY <4>1, <4>2
    <3> QED BY <1>5, <2>1, <3>1, <3>3, <3>5
  <2> QED BY <2>3, <2>4
<1> QED BY <1>4, <1>17, <1>18, <1>19

LEMMA CommitAppInv ==
  ASSUME IInv, NEW u \in Updaters, CommitApp(u)
  PROVE  IInv'
<1>1. /\ job[u].pc = "commit" /\ disturbed' = disturbed
      /\ UNCHANGED <<procs, kea, newest, detected, begun, copy, lost>>
  BY DEF CommitApp, machine
<1>2. CASE job' = [job EXCEPT ![u] = Idle] /\ UNCHANGED db
  <2>1. Goes(u, Idle)
    BY <1>1, <1>2 DEF Goes, db
  <2> QED BY <1>1, <2>1, GivesUp
<1>3. CASE \E app, row : Commits(u, app, row)
  <2>1. PICK app, row : Commits(u, app, row)
    BY <1>3
  <2>2. Types' /\ Identity' /\ Reviews'
    BY <2>1, CommitTypes, CommitIdentity, CommitReviews
  <2>3. Versions'
    BY <1>1 DEF IInv, Versions, Running
  <2>4. Kept'
    <3>1. CASE disturbed
      BY <1>1, <3>1 DEF Kept
    <3>2. CASE ~disturbed
      BY <2>1, <3>2, CommitKept DEF Kept
    <3> QED BY <3>1, <3>2
  <2> QED BY <2>2, <2>3, <2>4 DEF IInv
<1>4. \/ job' = [job EXCEPT ![u] = Idle] /\ UNCHANGED db
      \/ \E app, row : Commits(u, app, row)
  <2>1. PICK app : app = Head(job[u].list)
    OBVIOUS
  <2>2. PICK row : row = Numbered(app)
    OBVIOUS
  <2>3. \/ job' = [job EXCEPT ![u] = Idle] /\ UNCHANGED db
        \/ /\ CanStore(Head(job[u].list))
           /\ apps' = Stored(Numbered(Head(job[u].list)))
           /\ nets' = NetsOf(job[u], Numbered(Head(job[u].list)), Head(job[u].list))
           /\ lastId' = IF \E d \in Head(job[u].list).daemons \cup {Head(job[u].list)} : d.id = 0
                        THEN lastId + 3 ELSE lastId
           /\ job' = [job EXCEPT ![u] = [job[u] EXCEPT !.pc = "review",
                        !.list = <<Numbered(Head(job[u].list))>> \o Tail(job[u].list)]]
    BY Zenon DEF CommitApp
  <2>4. \/ job' = [job EXCEPT ![u] = Idle] /\ UNCHANGED db
        \/ Commits(u, app, row)
    BY <1>1, <2>1, <2>2, <2>3 DEF Commits
  <2> QED BY <2>4
<1> QED BY <1>2, <1>3, <1>4

-----------------------------------------------------------------------------
(* The reviews                                                             *)

LEMMA BeginReviewsInv ==
  ASSUME IInv, NEW u \in Updaters, BeginReviews(u)
  PROVE  IInv'
<1> DEFINE j == job[u]
           J == IF Len(j.list) = 1 THEN Idle
                ELSE [j EXCEPT !.pc = "ca", !.list = Tail(j.list), !.same = FALSE]
<1>1. /\ j.pc = "review" /\ disturbed' = disturbed
      /\ begun' = begun \cup {<<d.id, d.version>> : d \in Due(j)}
      /\ UNCHANGED <<procs, kea, newest, detected, apps, nets, lastId, copy, lost>>
  BY DEF BeginReviews, machine, db
<1>2. job' = [job EXCEPT ![u] = J]
  BY Zenon DEF BeginReviews
<1>3. /\ j \in Job /\ j.list \in Seq(AppRow) /\ j.list # <<>>
      /\ Head(j.list) = j.list[1] /\ Head(j.list) \in AppRow /\ IsStored(Head(j.list))
  <2>1. j \in Job /\ j.list \in Seq(AppRow) /\ j.list # <<>>
    BY <1>1, ListHolds DEF Job
  <2>2. Head(j.list) = j.list[1] /\ Head(j.list) \in AppRow
    BY <2>1, HeadTailProperties, EmptySeq
  <2> QED BY <1>1, <2>1, <2>2 DEF IInv, Types, JobTypes
<1>4. /\ J \in Job /\ J.pc \in {"idle", "ca"} /\ (J.pc = "idle" <=> J.list = <<>>)
      /\ \A i \in DOMAIN J.list : i + 1 \in DOMAIN j.list /\ J.list[i] = j.list[i + 1] /\ i \in Nat \ {0}
  <2>1. /\ Tail(j.list) \in Seq(AppRow) /\ Len(Tail(j.list)) = Len(j.list) - 1 /\ Len(j.list) \in Nat \ {0}
        /\ \A i \in 1..Len(j.list) - 1 : Tail(j.list)[i] = j.list[i + 1]
    BY <1>3, HeadTailProperties, EmptySeq
  <2>2. CASE Len(j.list) = 1
    <3>1. J = Idle
      BY <2>2
    <3> QED BY <3>1, IdleFits
  <2>3. CASE Len(j.list) # 1
    <3>1. J = [j EXCEPT !.pc = "ca", !.list = Tail(j.list), !.same = FALSE]
      BY <2>3
    <3> HIDE DEF J
    <3>2. J \in Job /\ J.pc = "ca" /\ J.list = Tail(j.list)
      BY <1>3, <2>1, <3>1 DEF Job
    <3>3. J.list # <<>> /\ DOMAIN J.list = 1..Len(j.list) - 1
      <4>1. PICK t : t = J.list
        OBVIOUS
      <4>2. t \in Seq(AppRow) /\ Len(t) = Len(j.list) - 1
        BY <2>1, <3>2, <4>1
      <4>3. Len(j.list) - 1 # 0
        BY <2>1, <2>3
      <4>4. Len(t) # 0 /\ DOMAIN t = 1..Len(t)
        BY <4>2, <4>3
      <4>5. Len(<<>>) = 0
        OBVIOUS
      <4>6. t # <<>>
        BY <4>4, <4>5, Zenon
      <4> QED BY <4>1, <4>2, <4>4, <4>6
    <3>4. \A i \in 1..Len(j.list) - 1 : i + 1 \in DOMAIN j.list /\ i \in Nat \ {0}
      BY <1>3, <2>1
    <3> QED BY <2>1, <3>2, <3>3, <3>4
  <2> QED BY <2>2, <2>3
<1> HIDE DEF J
<1>5. Goes(u, J)
  BY <1>1, <1>2 DEF Goes
<1>6. Types /\ Identity /\ Reviews /\ Versions /\ Kept
  BY DEF IInv
<1>7. begun' \subseteq (1..lastId) \X (1..newest)
  <2>1. \A d \in Due(j) : d.id \in 1..lastId /\ d.version \in 1..newest
    <3>1. \A d \in Due(j) : d \in Daemon /\ d.id # 0 /\ d.version # 0
      BY <1>3 DEF Due, DhcpOf, IsStored, AppRow
    <3>2. lastId \in Nat /\ newest \in Nat
      BY <1>6 DEF Types, DbTypes, MachineTypes
    <3> QED BY <3>1, <3>2 DEF Daemon
  <2> QED BY <1>1, <1>6, <2>1 DEF Types, DbTypes
<1>8. Types'
  BY <1>4, <1>5, <1>6, <1>7, GoesTypes
<1>9. Identity'
  <2>1. \A i \in DOMAIN J.list : RowFits(J.list[i])
    BY <1>4, ListHolds
  <2>2. \A i, k \in DOMAIN J.list : J.list[i].id = J.list[k].id /\ J.list[i].id # 0 => i = k
    <3> SUFFICES ASSUME NEW i \in DOMAIN J.list, NEW k \in DOMAIN J.list,
                        J.list[i].id = J.list[k].id, J.list[i].id # 0
                 PROVE  i = k
      OBVIOUS
    <3>1. i + 1 = k + 1
      BY <1>4, ListHolds, SMTT(30)
    <3> QED BY <1>4, <3>1
  <2> QED BY <1>4, <1>5, <1>6, <2>1, <2>2, GoesIdentity
<1>10. job'[u] = J /\ \A v \in Updaters \ {u} : job'[v] = job[v]
  BY <1>4, <1>5, <1>6, GoesOn
<1>11. \A d : IsReviewed(d) => IsReviewed(d)'
  <2>1. \A d : ReviewSoon(d, u) => <<d.id, d.version>> \in begun'
    BY <1>1 DEF ReviewSoon
  <2>2. \A v \in Updaters : v # u => Due(job[v])' = Due(job[v])
    BY <1>10 DEF Due, DhcpOf
  <2>3. \A v \in Updaters : v # u => \A d : ReviewSoon(d, v) => ReviewSoon(d, v)'
    BY <1>10, <2>2 DEF ReviewSoon
  <2>4. begun \subseteq begun' /\ lost' = lost
    BY <1>1
  <2> QED BY <2>1, <2>3, <2>4 DEF IsReviewed
<1>12. Reviews'
  <2>1. IsReviewed(copy)'
    <3>0. PICK c : c = copy
      OBVIOUS
    <3>1. IsReviewed(c)'
      BY <1>6, <1>11, <3>0 DEF Reviews
    <3>2. \A v \in Updaters : ReviewSoon(c, v)' => ReviewSoon(copy, v)'
      BY <1>1, <3>0 DEF ReviewSoon
    <3> QED BY <1>1, <3>0, <3>1, <3>2 DEF IsReviewed
  <2>2. ASSUME NEW v \in Updaters, NEW i \in DOMAIN job'[v].list, NEW d \in DhcpOf(job'[v].list[i])
        PROVE  (IsRead(v, i) \/ IsReviewed(d))'
    <3>1. CASE v = u
      <4>1. i + 1 \in DOMAIN j.list /\ d \in DhcpOf(j.list[i + 1])
        BY <1>4, <1>10, <2>2, <3>1
      <4>2. IsReviewed(d)
        BY <1>1, <4>1, ListHolds DEF IsRead
      <4> QED BY <1>11, <4>2
    <3>2. CASE v # u
      <4>1. job'[v] = job[v]
        BY <1>10, <3>2
      <4> QED BY <1>6, <1>11, <2>2, <4>1 DEF IsRead, Reviews
    <3> QED BY <3>1, <3>2
  <2> QED BY <1>1, <1>6, <1>11, <2>1, <2>2 DEF Reviews, DhcpOf
<1>13. Versions'
  BY <1>1, <1>6 DEF Versions, Running
<1>14. Kept'
  <2>1. CASE disturbed
    BY <1>1, <2>1 DEF Kept
  <2>2. CASE ~disturbed
    <3>1. OneUpdate /\ StoredKept /\ CopyKept /\ ListKept
      BY <1>6, <2>2 DEF Kept
    <3>2. \A i \in DOMAIN j.list :
           /\ \A a \in apps : \A d \in DhcpOf(a) : \A p \in Ports :
                Current(d, p) => Agree({j.list[i]}, d, p)
           /\ \A p \in Ports : Current(copy, p) /\ copy.id # 0 => Agree({j.list[i]}, copy, p)
           /\ \A d \in DhcpOf(j.list[i]) : \A p \in Ports : Current(d, p) =>
                /\ p \in Seen /\ p \in detected
                /\ j.list[i].port = p /\ HasNets(d)
      BY <1>1, <3>1, ListHoldsKept, ZenonT(60) DEF IsRead
    <3>3. ListFits(J)
      <4> DEFINE fits(b) ==
            /\ \A a \in apps : \A d \in DhcpOf(a) : \A p \in Ports :
                 Current(d, p) => Agree({b}, d, p)
            /\ \A p \in Ports : Current(copy, p) /\ copy.id # 0 => Agree({b}, copy, p)
            /\ \A d \in DhcpOf(b) : \A p \in Ports : Current(d, p) =>
                 p \in Seen /\ p \in detected /\ b.port = p /\ HasNets(d)
      <4>1. \A i \in DOMAIN j.list : fits(j.list[i])
        BY <3>2
      <4> HIDE DEF fits
      <4>2. \A i \in DOMAIN J.list : fits(J.list[i])
        BY <1>4, <4>1
      <4> QED BY <4>2 DEF ListFits, fits
    <3>4. \A v \in Updaters \ {u} : job[v].pc = "idle"
      BY <1>1, <3>1 DEF OneUpdate
    <3>5. OneUpdate' /\ StoredKept' /\ CopyKept' /\ ListKept'
      BY <1>4, <1>5, <1>6, <3>1, <3>3, <3>4, GoesKept
    <3> QED BY <3>5 DEF Kept
  <2> QED BY <2>1, <2>2
<1> QED BY <1>8, <1>9, <1>12, <1>13, <1>14 DEF IInv

-----------------------------------------------------------------------------
(* Every step keeps the invariant, and it says what was claimed            *)

\* Whatever the bounds count.
LEMMA CountInv ==
  ASSUME IInv, UNCHANGED <<machine, detected, db, begun, job, copy, lost, disturbed>>
  PROVE  IInv'
<1>1. UNCHANGED <<procs, kea, newest, detected, apps, nets, lastId, begun, job, copy, lost, disturbed>>
  BY DEF machine, db
<1>2. Entries' = Entries /\ Rows' = Rows
  BY <1>1 DEF Entries, Rows
<1>3. Types'
  BY <1>1 DEF IInv, Types, MachineTypes, DbTypes, JobTypes, IsStored, Ids, DhcpOf, Job, AppRow, Daemon
<1>4. Identity'
  BY <1>1, <1>2 DEF IInv, Identity, OneOfAName, NewIsNew, Named, Owned, Once, Daemons, Ids
<1>5. Reviews'
  <2>1. \A u \in Updaters : Due(job[u])' = Due(job[u])
    BY <1>1 DEF Due, DhcpOf
  <2>2. \A d : IsReviewed(d)' <=> IsReviewed(d)
    BY <1>1, <2>1 DEF IsReviewed, ReviewSoon
  <2>3. IsReviewed(copy)'
    BY <1>1, <2>1 DEF IInv, Reviews, IsReviewed, ReviewSoon
  <2>4. \A u \in Updaters : \A i : IsRead(u, i)' <=> IsRead(u, i)
    BY <1>1 DEF IsRead
  <2> QED BY <1>1, <2>2, <2>3, <2>4 DEF IInv, Reviews, DhcpOf
<1>6. Versions'
  BY <1>1 DEF IInv, Versions, Running
<1>7. Kept'
  <2>1. CASE disturbed
    BY <1>1, <2>1 DEF Kept
  <2>2. CASE ~disturbed
    <3>0. OneUpdate /\ StoredKept /\ CopyKept /\ ListKept
      BY <2>2 DEF IInv, Kept
    <3>1. OneUpdate'
      BY <1>1, <3>0 DEF OneUpdate
    <3>2. \A p \in Ports : Sees(p)' <=> Sees(p)
      BY <1>1 DEF Sees, Seen, Running
    <3>3. \A d : \A p \in Ports : Current(d, p)' <=> Current(d, p)
      BY <1>1 DEF Current, Running
    <3>4. StoredKept'
      BY <1>1, <1>2, <3>0, <3>2, <3>3 DEF StoredKept, DhcpOf, HasNets, Agree
    <3>5. CopyKept'
      BY <1>1, <1>2, <3>0, <3>2 DEF CopyKept, Current, Running, Agree
    <3>6. \A u \in Updaters : \A i : IsRead(u, i)' <=> IsRead(u, i)
      BY <1>1 DEF IsRead
    <3>7. ListKept'
      BY <1>1, <3>0, <3>2, <3>3, <3>6 DEF ListKept, DhcpOf, HasNets
    <3> QED BY <3>1, <3>4, <3>5, <3>7 DEF Kept
  <2> QED BY <2>1, <2>2
<1> QED BY <1>3, <1>4, <1>5, <1>6, <1>7 DEF IInv

LEMMA StepInv ==
  ASSUME IInv, NEW u \in Updaters, Step(u)
  PROVE  IInv'
BY MergeAppsInv, GetStateFromCAInv, GetStateFromDaemonsInv, CommitAppInv, BeginReviewsInv DEF Step

LEMMA NextInv ==
  ASSUME IInv, [Next]_vars
  PROVE  IInv'
<1>1. CASE MachineStep
  BY <1>1, MachineInv
<1>2. ASSUME NEW u \in Updaters, GetState(u)
      PROVE  IInv'
  <2>1. CASE job' # job
    BY <1>2, <2>1, GetStateInv
  <2>2. CASE job' = job
    <3>1. disturbed' = disturbed
      <4>1. job[u].pc = "idle" /\ job \in [Updaters -> Job]
        BY <1>2 DEF GetState, IInv, Types, JobTypes
      <4>2. job' # [job EXCEPT ![u] = [Idle EXCEPT !.pc = "merge", !.found = detected]]
        BY <2>2, <4>1 DEF Idle
      <4> QED BY <1>2, <4>2 DEF GetState
    <3> QED BY <1>2, <2>2, <3>1, CountInv DEF GetState
  <2> QED BY <2>1, <2>2
<1>3. CASE ReadDaemon
  BY <1>3, ReadDaemonInv
<1>4. CASE WriteDaemon
  BY <1>4, WriteDaemonInv
<1>5. CASE Restart
  BY <1>5, RestartInv
<1>6. CASE UNCHANGED vars
  BY <1>6, CountInv DEF vars, machine, db
<1> QED BY <1>1, <1>2, <1>3, <1>4, <1>5, <1>6, StepInv DEF Next, MachineStep

LEMMA InitInv ==
  ASSUME Init
  PROVE  IInv
<1>1. PICK p \in Ports : procs = <<p>>
  BY DEF Init
<1>2. procs[1] = p /\ DOMAIN procs = {1} /\ procs \in Seq(Ports \cup {Nsd}) /\ Running = {p}
  BY <1>1 DEF Running, ToSet
<1>3. /\ kea = [q \in Ports |-> [sock |-> TRUE, up |-> TRUE, version |-> IF q = p THEN 1 ELSE 0]]
      /\ newest = 1 /\ detected = {} /\ apps = {} /\ nets = <<>> /\ begun = {} /\ lastId = 0
      /\ copy = NoCopy /\ lost = {}
  BY <1>2 DEF Init
<1>4. \A u \in Updaters : job[u] = Idle
  BY DEF Init
<1>5. Idle.list = <<>> /\ Idle.pc = "idle" /\ Idle \in Job /\ DOMAIN Idle.list = {}
  BY EmptySeq DEF Idle, Job
<1>6. Entries = {} /\ Rows = {}
  BY <1>3, <1>4, <1>5 DEF Entries, Rows, Range
<1>7. Types
  <2>1. MachineTypes
    BY <1>2, <1>3 DEF MachineTypes
  <2>2. DbTypes
    <3>1. DOMAIN nets = {}
      BY <1>3
    <3>2. IsFiniteSet(apps)
      BY <1>3, FS_EmptySet
    <3> QED BY <1>3, <3>1, <3>2 DEF DbTypes, Ids, NoCopy, Daemon
  <2>3. JobTypes
    BY <1>4, <1>5 DEF JobTypes, Init
  <2> QED BY <2>1, <2>2, <2>3 DEF Types
<1>8. Identity
  BY <1>3, <1>4, <1>5, <1>6 DEF Identity, OneOfAName, NewIsNew, Named, Owned, Once, Daemons, NoCopy
<1>9. Reviews
  BY <1>3, <1>4, <1>5 DEF Reviews, IsReviewed, NoCopy
<1>10. Versions
  BY <1>2, <1>3 DEF Versions
<1>11. Kept
  BY <1>3, <1>4, <1>5 DEF Kept, OneUpdate, StoredKept, CopyKept, ListKept, NoCopy
<1> QED BY <1>7, <1>8, <1>9, <1>10, <1>11 DEF IInv

LEMMA IInvTypes ==
  ASSUME IInv
  PROVE  TypeOK
<1>1. Types
  BY DEF IInv
<1>2. \A a \in apps : a.id \in 1..lastId /\ a.port \in Ports /\ a.active \in BOOLEAN
                     /\ a.daemons \subseteq Daemon /\ 0 \notin Ids(a.daemons)
  <2> SUFFICES ASSUME NEW a \in apps
               PROVE  /\ a.id \in 1..lastId /\ a.port \in Ports /\ a.active \in BOOLEAN
                      /\ a.daemons \subseteq Daemon /\ 0 \notin Ids(a.daemons)
    OBVIOUS
  <2>1. a \in AppRow /\ IsStored(a) /\ lastId \in Nat
    BY <1>1 DEF Types, DbTypes
  <2>2. a.id \in 1..lastId
    BY <2>1 DEF AppRow, IsStored
  <2> QED BY <2>1, <2>2 DEF AppRow, IsStored, Ids
<1>3. \A u \in Updaters :
       /\ job[u].pc \in {"idle", "merge", "ca", "daemons", "commit", "review"}
       /\ (job[u].pc \in {"idle", "merge"}) <=> (job[u].list = <<>>)
  BY <1>1 DEF Types, JobTypes, Job
<1> QED BY <1>1, <1>2, <1>3 DEF TypeOK, Types, MachineTypes, DbTypes

LEMMA IInvNoDuplicates ==
  ASSUME IInv
  PROVE  NoDuplicates
<1>1. \A a, b \in apps : a.port = b.port => a = b
  BY DEF IInv, Types, DbTypes
<1>2. \A a \in apps : \A d, e \in a.daemons : d.name = e.name => d = e
  BY DEF IInv, Identity, OneOfAName, Rows
<1> QED BY <1>1, <1>2, IInvTypes DEF NoDuplicates

LEMMA IInvComplete ==
  ASSUME IInv
  PROVE  StoredIsComplete
<1> USE DEF IInv
<1>1. CurrentHasItsNetworks
  <2> SUFFICES ASSUME ~disturbed, NEW a \in apps, NEW d \in DhcpOf(a),
                      a.port \in Running, d.version = kea[a.port].version
               PROVE  nets[d.id] = d.version
    BY DEF CurrentHasItsNetworks
  <2>1. Current(d, a.port) /\ a.port \in Ports
    BY DEF Current, Running
  <2>2. HasNets(d)
    BY <2>1 DEF Kept, StoredKept
  <2>3. d.id \in DOMAIN nets
    BY DEF Types, DbTypes, Ids
  <2> QED BY <2>2, <2>3 DEF HasNets
<1>2. ConfigsAreReviewed
  <2> SUFFICES ASSUME NEW a \in apps, NEW d \in DhcpOf(a)
               PROVE  \/ d.version = 0 \/ d.id \in lost \/ <<d.id, d.version>> \in begun
                      \/ \E u \in Updaters : job[u].pc = "review" /\ Head(job[u].list).id = a.id
    BY DEF ConfigsAreReviewed
  <2>1. IsReviewed(d)
    BY DEF Reviews
  <2>2. ASSUME NEW u \in Updaters, ReviewSoon(d, u)
        PROVE  job[u].pc = "review" /\ Head(job[u].list).id = a.id
    <3>1. job[u].pc = "review" /\ \E e \in Head(job[u].list).daemons : e.id = d.id
      BY <2>2 DEF ReviewSoon, Due, DhcpOf
    <3>2. job[u].list \in Seq(AppRow) /\ job[u].list # <<>>
      BY <3>1, ListHolds DEF Job
    <3>3. Head(job[u].list) = job[u].list[1] /\ 1 \in DOMAIN job[u].list
      BY <3>2, HeadTailProperties, EmptySeq
    <3>4. Head(job[u].list) \in Rows /\ a \in Rows
      BY <3>3, HeldAreDaemons
    <3>5. d \in a.daemons /\ d.id # 0
      BY DEF DhcpOf, Types, DbTypes, IsStored
    <3> QED BY <3>1, <3>4, <3>5 DEF Identity, Owned
  <2> QED BY <2>1, <2>2 DEF IsReviewed
<1> QED BY <1>1, <1>2 DEF StoredIsComplete

\* Every reachable state satisfies the strengthening: what it says of the copies that
\* updates and writers of rows hold (GetMachineAndAppsState, UpdateDaemon).
THEOREM CopiesFit == Spec => []IInv
<1>1. Init => IInv
  BY InitInv
<1>2. IInv /\ [Next]_vars => IInv'
  BY NextInv
<1> QED BY <1>1, <1>2, PTL DEF Spec

\* A machine has one application on a port and an application one daemon of a name, whatever
\* the puller, users and writers of rows do at once (mergeNewAndOldApps, CommitAppIntoDB).
THEOREM StaysUnique == Spec => []NoDuplicates
<1>1. IInv => NoDuplicates
  BY IInvNoDuplicates
<1> QED BY <1>1, CopiesFit, PTL

\* What is stored and still current has its networks, and every stored configuration its
\* review, whatever fails between reading the rows and the commit (CommitAppIntoDB,
\* conditionallyBeginKeaConfigReviews).
THEOREM StoredStaysComplete == Spec => []StoredIsComplete
<1>1. IInv => StoredIsComplete
  BY IInvComplete
<1> QED BY <1>1, CopiesFit, PTL

=============================================================================
