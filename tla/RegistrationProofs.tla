------------------------- MODULE RegistrationProofs -------------------------
(***************************************************************************)
(* Proofs about the registration of agents: whole-row writes that overlap  *)
(* never authorize an agent that nobody let in (AuthorizedByGrant), and an *)
(* agent that is registered has all its files (RegisteredIsComplete) and   *)
(* files that belong together (RegisteredConnects), for any number of      *)
(* keys, handlers, faults and users' changes.                              *)
(*                                                                         *)
(* None is inductive.  For the first, a handler that has read the row      *)
(* writes what it read, or decided from it, later: the strengthening says  *)
(* the same of what every handler holds.  For the others, the files pass   *)
(* through states where they are incomplete or of two registrations: the   *)
(* strengthening says where the file operations that are still to come     *)
(* lead, which CAs an agent may hold, and that a request or an answer that *)
(* is under way fits the files it was made for.                            *)
(***************************************************************************)
EXTENDS Registration, SequenceTheorems, TLAPS

\* The handlers are a function; what a handler that decided to authorize, or
\* that holds a copy of an authorized row, would write was let in.
HandlersAreFunction == hs = [h \in Handlers |-> hs[h]]
DecisionsGranted ==
  \A h \in Handlers : hs[h].pc = "write" /\ hs[h].auth => hs[h].req.token \in granted
CopiesGranted ==
  \A h \in Handlers :
    hs[h].pc \in {"update", "refresh"} /\ hs[h].m.authorized => hs[h].m.token \in granted

GrantInv ==
  HandlersAreFunction /\ AuthorizedByGrant /\ DecisionsGranted /\ CopiesGranted

\* Nothing is authorized at the start.
LEMMA GrantInit == Init => GrantInv
  BY DEF Init, GrantInv, HandlersAreFunction, AuthorizedByGrant, DecisionsGranted,
         CopiesGranted, Idle, NoRow

\* A name that a new key gets is not the token of the row, of a request or of
\* a copy: forgetting its grant takes nothing from them.
LEMMA FreshKeyIsFresh ==
  ASSUME Keys \ InUse # {}
  PROVE  /\ FreshKey # row.token
         /\ \A h \in Handlers : FreshKey # hs[h].req.token /\ FreshKey # hs[h].m.token
<1>1. FreshKey \in Keys \ InUse
  BY DEF FreshKey
<1>2. row.token \in InUse
  BY DEF InUse
<1>3. \A h \in Handlers : hs[h].req.token \in InUse /\ hs[h].m.token \in InUse
  BY DEF InUse
<1> QED BY <1>1, <1>2, <1>3

\* The steps of the agent's process that touch neither the row nor what a
\* handler holds, and the start, which may forget the grant of a free name.
LEMMA GrantAgent ==
  ASSUME GrantInv,
         \/ StartService \/ RegisterCommand \/ FileStep \/ Refused \/ Receive
         \/ LoseAnswer \/ Finish \/ PingFails \/ Stop \/ Crash
         \/ \E h \in Handlers : Send(h) \/ Ping(h)
  PROVE  GrantInv'
<1> USE DEF GrantInv, HandlersAreFunction, AuthorizedByGrant, DecisionsGranted,
            CopiesGranted
<1>1. ASSUME NEW manual, NEW serverToken, Start(manual, serverToken)
      PROVE  GrantInv'
  <2>1. UNCHANGED <<row, hs>>
    BY <1>1 DEF Start
  <2>2. CASE Regenerates(manual)
    <3>1. granted' = granted \ {FreshKey} /\ Keys \ InUse # {}
      BY <1>1, <2>2 DEF Start
    <3> QED BY <2>1, <3>1, FreshKeyIsFresh
  <2>3. CASE ~ Regenerates(manual)
    <3>1. granted' = granted
      BY <1>1, <2>3 DEF Start
    <3> QED BY <2>1, <3>1
  <2> QED BY <2>2, <2>3
<1>2. CASE StartService
  BY <1>1, <1>2 DEF StartService
<1>3. CASE RegisterCommand
  BY <1>1, <1>3 DEF RegisterCommand
<1>4. CASE FileStep \/ Refused \/ Finish \/ PingFails \/ Stop
  BY <1>4 DEF FileStep, Refused, Finish, PingFails, Stop
<1>5. CASE Receive
  BY <1>5 DEF Receive, Idle
<1>6. CASE LoseAnswer
  BY <1>6 DEF LoseAnswer, Idle
<1>7. CASE Crash
  BY <1>7 DEF Crash, Idle
<1>8. ASSUME NEW h \in Handlers, Send(h)
      PROVE  GrantInv'
  BY <1>8 DEF Send, Idle
<1>9. ASSUME NEW h \in Handlers, Ping(h)
      PROVE  GrantInv'
  BY <1>9 DEF Ping, Idle
<1> QED BY <1>2, <1>3, <1>4, <1>5, <1>6, <1>7, <1>8, <1>9

\* CreateMachine: an authorization is kept only for the token of the row, and
\* given only for the server token, which is a grant.
LEMMA GrantCreate ==
  ASSUME GrantInv, NEW h \in Handlers,
         CreateMachineRead(h) \/ CreateMachineWrite(h)
  PROVE  GrantInv'
<1> USE DEF GrantInv, HandlersAreFunction, AuthorizedByGrant, DecisionsGranted,
            CopiesGranted
<1>1. CASE CreateMachineRead(h)
  <2>1. row' = row
    BY <1>1 DEF CreateMachineRead
  <2>2. ASSUME NEW answer, Reply(h, answer), UNCHANGED granted
        PROVE  GrantInv'
    BY <2>1, <2>2 DEF Reply, Idle
  <2>3. ASSUME hs' = [hs EXCEPT ![h] =
                  [Idle EXCEPT !.pc = "write", !.req = hs[h].req, !.m = row,
                     !.auth = (Known(hs[h].req) /\ row.authorized)
                                \/ hs[h].req.serverToken = srv.token]],
               granted' = IF hs[h].req.serverToken = srv.token
                          THEN granted \union {hs[h].req.token} ELSE granted
        PROVE  GrantInv'
    <3>1. granted \subseteq granted'
      BY <2>3
    <3>2. hs'[h].auth => hs'[h].req.token \in granted'
      BY <2>3 DEF Idle, Known
    <3>3. hs'[h].pc = "write"
      BY <2>3 DEF Idle
    <3> QED BY <2>1, <2>3, <3>1, <3>2, <3>3
  <2> QED BY <1>1, <2>2, <2>3 DEF CreateMachineRead
<1>2. CASE CreateMachineWrite(h)
  <2>1. hs[h].pc = "write" /\ granted' = granted
    BY <1>2 DEF CreateMachineWrite
  <2>2. row'.authorized => row'.token \in granted
    BY <1>2, <2>1 DEF CreateMachineWrite
  <2>3. PICK answer : Reply(h, answer)
    BY <1>2 DEF CreateMachineWrite
  <2> QED BY <2>1, <2>2, <2>3 DEF Reply, Idle
<1> QED BY <1>1, <1>2

\* The other handlers: an administrator's authorization is a grant, and a
\* refresh writes back a copy whose grant is kept.
LEMMA GrantOthers ==
  ASSUME GrantInv,
         \/ DeleteMachine \/ ToggleRegistration \/ RegenerateServerToken
         \/ RotateCA \/ RenewServerCert
         \/ \E h \in Handlers : \/ UpdateMachineRead(h) \/ UpdateMachineWrite(h)
                                \/ RefreshRead(h) \/ RefreshWrite(h)
  PROVE  GrantInv'
<1> USE DEF GrantInv, HandlersAreFunction, AuthorizedByGrant, DecisionsGranted,
            CopiesGranted
<1>1. CASE DeleteMachine \/ ToggleRegistration \/ RegenerateServerToken
  BY <1>1 DEF DeleteMachine, ToggleRegistration, RegenerateServerToken, NoRow
<1>2. CASE RotateCA \/ RenewServerCert
  BY <1>2 DEF RotateCA, RenewServerCert, Restart, Idle
<1>3. ASSUME NEW h \in Handlers, UpdateMachineRead(h)
      PROVE  GrantInv'
  <2>1. UNCHANGED <<row, granted>>
    BY <1>3 DEF UpdateMachineRead
  <2>2. PICK auth \in BOOLEAN :
          hs' = [hs EXCEPT ![h] =
                   [Idle EXCEPT !.pc = "update", !.m = row, !.auth = auth]]
    BY <1>3 DEF UpdateMachineRead
  <2>3. hs'[h].pc = "update" /\ hs'[h].m = row
    BY <2>2 DEF Idle
  <2>4. \A g \in Handlers \ {h} : hs'[g] = hs[g]
    BY <2>2
  <2>5. HandlersAreFunction'
    BY <2>2
  <2> QED BY <2>1, <2>3, <2>4, <2>5
<1>4. ASSUME NEW h \in Handlers, UpdateMachineWrite(h)
      PROVE  GrantInv'
  BY <1>4 DEF UpdateMachineWrite, Idle
<1>5. ASSUME NEW h \in Handlers, RefreshRead(h)
      PROVE  GrantInv'
  BY <1>5 DEF RefreshRead, Idle
<1>6. ASSUME NEW h \in Handlers, RefreshWrite(h)
      PROVE  GrantInv'
  BY <1>6 DEF RefreshWrite, Idle
<1> QED BY <1>1, <1>2, <1>3, <1>4, <1>5, <1>6

LEMMA GrantStep == GrantInv /\ [Next]_vars => GrantInv'
<1> SUFFICES ASSUME GrantInv, [Next]_vars PROVE GrantInv'
  OBVIOUS
<1>1. CASE UNCHANGED vars
  BY <1>1 DEF vars, GrantInv, HandlersAreFunction, AuthorizedByGrant,
              DecisionsGranted, CopiesGranted
<1>2. CASE Next
  BY <1>2, GrantAgent, GrantCreate, GrantOthers DEF Next
<1> QED BY <1>1, <1>2

\* However registrations, refreshes that write whole rows back, changes by
\* administrators, restarts and deletions overlap, an authorized row holds a
\* token that an administrator or the owner of a server token let in.
THEOREM AuthorizationIsGranted == Spec => []AuthorizedByGrant
<1>1. GrantInv => AuthorizedByGrant
  BY DEF GrantInv
<1> QED BY GrantInit, GrantStep, <1>1, PTL DEF Spec

-----------------------------------------------------------------------------
(***************************************************************************)
(* A registered agent has all its files, and can be connected.             *)
(*                                                                         *)
(* What the files hold between two file operations belongs to no one; what *)
(* they will hold when the operations that are left have been done does.   *)
(* Leads(s, ops, f) says that files s become f by operations ops.          *)
(***************************************************************************)
Contents ==
  [key   |-> Keys \union {Missing},
   cert  |-> [key: Keys, ca: Cas] \union {NoCert},
   ca    |-> Cas \union {Missing},
   token |-> Keys \union {Missing},
   fp    |-> Certs \union {Missing, ZeroFp}]
AllFiles ==
  [key: Keys \union {Missing}, token: Keys \union {Missing},
   cert: [key: Keys, ca: Cas] \union {NoCert},
   ca: Cas \union {Missing}, fp: Certs \union {Missing, ZeroFp}]
Ops == UNION {[file: {file}, value: Contents[file]] : file \in Files}

Leads(s, ops, f) ==
  \A file \in Files :
    \/ /\ \A i \in 1..Len(ops) : ops[i].file # file
       /\ f[file] = s[file]
    \/ \E i \in 1..Len(ops) :
         /\ ops[i].file = file /\ f[file] = ops[i].value
         /\ \A j \in 1..Len(ops) : ops[j].file = file => j <= i

LEMMA OpIsTyped ==
  ASSUME NEW file \in Files, NEW value \in Contents[file]
  PROVE  Op(file, value) \in Ops
<1>1. Op(file, value) \in [file: {file}, value: Contents[file]]
  BY DEF Op
<1> QED BY <1>1 DEF Ops

LEMMA OpHas ==
  ASSUME NEW o \in Ops
  PROVE  o.file \in Files /\ o.value \in Contents[o.file]
  BY DEF Ops

LEMMA NothingIsContent ==
  ASSUME NEW file \in Files
  PROVE  Nothing(file) \in Contents[file]
  BY DEF Files, Nothing, Contents

\* An operation leaves typed files.
LEMMA DoneIsTyped ==
  ASSUME NEW s \in AllFiles, NEW file \in Files, NEW value \in Contents[file]
  PROVE  [s EXCEPT ![file] = value] \in AllFiles
<1>1. CASE file = "key"
  BY <1>1 DEF AllFiles, Contents
<1>2. CASE file = "cert"
  BY <1>2 DEF AllFiles, Contents
<1>3. CASE file = "ca"
  BY <1>3 DEF AllFiles, Contents
<1>4. CASE file = "token"
  BY <1>4 DEF AllFiles, Contents
<1>5. CASE file = "fp"
  BY <1>5 DEF AllFiles, Contents
<1> QED BY <1>1, <1>2, <1>3, <1>4, <1>5 DEF Files

LEMMA LeadsNone ==
  ASSUME NEW s
  PROVE  Leads(s, <<>>, s)
  BY DEF Leads

LEMMA LeadsNowhere ==
  ASSUME NEW s \in AllFiles, NEW f \in AllFiles, Leads(s, <<>>, f)
  PROVE  f = s
<1>1. \A file \in Files : f[file] = s[file]
  BY DEF Leads
<1> QED BY <1>1 DEF AllFiles, Files

\* The first operation is done.
LEMMA LeadsOn ==
  ASSUME NEW s \in AllFiles, NEW f, NEW ops \in Seq(Ops), ops # <<>>,
         Leads(s, ops, f)
  PROVE  Leads([s EXCEPT ![Head(ops).file] = Head(ops).value], Tail(ops), f)
<1> DEFINE t == [s EXCEPT ![Head(ops).file] = Head(ops).value]
<1>1. Head(ops) = ops[1] /\ ops[1] \in Ops /\ 1 \in 1..Len(ops)
  OBVIOUS
<1>2. Len(Tail(ops)) = Len(ops) - 1 /\ \A i \in 1..Len(Tail(ops)) : Tail(ops)[i] = ops[i + 1]
  OBVIOUS
<1>3. ops[1].file \in Files
  BY <1>1, OpHas
<1>4. \A file \in Files : t[file] = IF file = ops[1].file THEN ops[1].value ELSE s[file]
  <2>1. t = [s EXCEPT ![ops[1].file] = ops[1].value]
    BY <1>1
  <2>2. ASSUME NEW file \in Files
        PROVE  [s EXCEPT ![ops[1].file] = ops[1].value][file]
                 = IF file = ops[1].file THEN ops[1].value ELSE s[file]
    BY <1>3, <2>2 DEF AllFiles, Files
  <2> HIDE DEF t
  <2> QED BY <2>1, <2>2
<1> HIDE DEF t
<1>5. ASSUME NEW file \in Files, \A i \in 1..Len(ops) : ops[i].file # file,
             f[file] = s[file]
      PROVE  (\A i \in 1..Len(Tail(ops)) : Tail(ops)[i].file # file) /\ f[file] = t[file]
  BY <1>1, <1>2, <1>4, <1>5
<1>6. ASSUME NEW file \in Files, NEW i \in 1..Len(ops), ops[i].file = file,
             f[file] = ops[i].value,
             \A j \in 1..Len(ops) : ops[j].file = file => j <= i
      PROVE  \/ /\ \A j \in 1..Len(Tail(ops)) : Tail(ops)[j].file # file
                /\ f[file] = t[file]
             \/ \E k \in 1..Len(Tail(ops)) :
                  /\ Tail(ops)[k].file = file /\ f[file] = Tail(ops)[k].value
                  /\ \A j \in 1..Len(Tail(ops)) : Tail(ops)[j].file = file => j <= k
  <2>1. CASE i = 1
    <3>1. f[file] = t[file]
      BY <1>4, <1>6, <2>1
    <3>2. \A j \in 1..Len(Tail(ops)) : Tail(ops)[j].file # file
      BY <1>2, <1>6, <2>1
    <3> QED BY <3>1, <3>2
  <2>2. CASE i # 1
    <3>1. i - 1 \in 1..Len(Tail(ops)) /\ Tail(ops)[i - 1] = ops[i]
      BY <1>2, <2>2
    <3>2. \A j \in 1..Len(Tail(ops)) : Tail(ops)[j].file = file => j <= i - 1
      BY <1>2, <1>6
    <3> QED BY <1>6, <3>1, <3>2
  <2> QED BY <2>1, <2>2
<1> QED BY <1>5, <1>6 DEF Leads, t

\* Operations one after the other.
LEMMA LeadsThen ==
  ASSUME NEW s, NEW t, NEW f, NEW a \in Seq(Ops), NEW b \in Seq(Ops),
         Leads(s, a, t), Leads(t, b, f)
  PROVE  Leads(s, a \o b, f)
<1> DEFINE c == a \o b
<1>1. /\ c \in Seq(Ops) /\ Len(c) = Len(a) + Len(b)
      /\ \A i \in 1..Len(c) : c[i] = IF i <= Len(a) THEN a[i] ELSE b[i - Len(a)]
  BY ConcatProperties
<1>2. Len(a) \in Nat /\ Len(b) \in Nat
  OBVIOUS
<1> HIDE DEF c
<1>3. ASSUME NEW file \in Files
      PROVE  \/ (\A i \in 1..Len(c) : c[i].file # file) /\ f[file] = s[file]
             \/ \E i \in 1..Len(c) :
                  /\ c[i].file = file /\ f[file] = c[i].value
                  /\ \A j \in 1..Len(c) : c[j].file = file => j <= i
  <2>1. CASE \E i \in 1..Len(b) :
               /\ b[i].file = file /\ f[file] = b[i].value
               /\ \A j \in 1..Len(b) : b[j].file = file => j <= i
    <3>1. PICK i \in 1..Len(b) :
                 /\ b[i].file = file /\ f[file] = b[i].value
                 /\ \A j \in 1..Len(b) : b[j].file = file => j <= i
      BY <2>1
    <3>2. Len(a) + i \in 1..Len(c) /\ c[Len(a) + i] = b[i]
      <4>1. Len(a) + i \in 1..Len(c) /\ ~ (Len(a) + i <= Len(a)) /\ Len(a) + i - Len(a) = i
        BY <1>1, <1>2
      <4> QED BY <1>1, <4>1
    <3>3. ASSUME NEW j \in 1..Len(c), c[j].file = file
          PROVE  j <= Len(a) + i
      <4>1. CASE j <= Len(a)
        BY <1>2, <4>1
      <4>2. CASE ~ (j <= Len(a))
        <5>1. j - Len(a) \in 1..Len(b) /\ c[j] = b[j - Len(a)]
          BY <1>1, <1>2, <4>2
        <5> QED BY <3>1, <3>3, <5>1, <1>2
      <4> QED BY <4>1, <4>2
    <3> QED BY <3>1, <3>2, <3>3
  <2>2. CASE (\A i \in 1..Len(b) : b[i].file # file) /\ f[file] = t[file]
    <3>1. \A j \in 1..Len(c) : c[j].file = file => j <= Len(a) /\ c[j] = a[j]
      BY <1>1, <1>2, <2>2
    <3>2. \A j \in 1..Len(a) : j \in 1..Len(c) /\ c[j] = a[j]
      BY <1>1, <1>2
    <3>3. CASE (\A i \in 1..Len(a) : a[i].file # file) /\ t[file] = s[file]
      BY <2>2, <3>1, <3>3, <1>2
    <3>4. CASE \E i \in 1..Len(a) :
                 /\ a[i].file = file /\ t[file] = a[i].value
                 /\ \A j \in 1..Len(a) : a[j].file = file => j <= i
      <4>1. PICK i \in 1..Len(a) :
                   /\ a[i].file = file /\ t[file] = a[i].value
                   /\ \A j \in 1..Len(a) : a[j].file = file => j <= i
        BY <3>4
      <4>2. c[i].file = file /\ f[file] = c[i].value /\ i \in 1..Len(c)
        BY <2>2, <3>2, <4>1
      <4>3. \A j \in 1..Len(c) : c[j].file = file => j <= i
        BY <3>1, <4>1, <1>2
      <4> QED BY <4>2, <4>3
    <3> QED BY <3>3, <3>4 DEF Leads
  <2> QED BY <2>1, <2>2 DEF Leads
<1> QED BY <1>3 DEF Leads, c

\* A file is written: removed, then created.
LEMMA WriteLeads ==
  ASSUME NEW s \in AllFiles, NEW file \in Files, NEW value \in Contents[file],
         NEW Safe \in SUBSET Ops, Remove(file) \in Safe, Op(file, value) \in Safe
  PROVE  /\ WriteFile(file, value) \in Seq(Safe)
         /\ [s EXCEPT ![file] = value] \in AllFiles
         /\ Leads(s, WriteFile(file, value), [s EXCEPT ![file] = value])
<1> DEFINE w == WriteFile(file, value)
<1>1. w = <<Remove(file), Op(file, value)>>
  BY DEF WriteFile
<1>2. /\ Len(w) = 2 /\ w[2].file = file /\ w[2].value = value
      /\ w[1].file = file
  BY <1>1 DEF Remove, Op
<1>3. w \in Seq(Safe)
  BY <1>1
<1>4. [s EXCEPT ![file] = value] \in AllFiles
  BY DoneIsTyped
<1>5. ASSUME NEW other \in Files
      PROVE  [s EXCEPT ![file] = value][other] = IF other = file THEN value ELSE s[other]
  BY DEF AllFiles, Files
<1>6. Leads(s, w, [s EXCEPT ![file] = value])
  <2> HIDE DEF w
  <2> DEFINE f == [s EXCEPT ![file] = value]
  <2>0. \A other \in Files : f[other] = IF other = file THEN value ELSE s[other]
    BY <1>5
  <2> HIDE DEF f
  <2>1. ASSUME NEW other \in Files \ {file}
        PROVE  (\A i \in 1..Len(w) : w[i].file # other) /\ f[other] = s[other]
    BY <1>2, <2>0
  <2>2. 2 \in 1..Len(w) /\ \A j \in 1..Len(w) : j <= 2
    BY <1>2
  <2>3. f[file] = w[2].value /\ w[2].file = file
    BY <1>2, <2>0
  <2> QED BY <2>1, <2>2, <2>3 DEF Leads, f
<1> QED BY <1>3, <1>4, <1>6

LEMMA RemoveLeads ==
  ASSUME NEW s \in AllFiles, NEW file \in Files
  PROVE  /\ [s EXCEPT ![file] = Nothing(file)] \in AllFiles
         /\ Leads(s, <<Remove(file)>>, [s EXCEPT ![file] = Nothing(file)])
<1> DEFINE w == <<Remove(file)>>
           f == [s EXCEPT ![file] = Nothing(file)]
<1>1. Len(w) = 1 /\ w[1].file = file /\ w[1].value = Nothing(file)
  BY DEF Remove, Op
<1>2. f \in AllFiles
  BY DoneIsTyped, NothingIsContent
<1>3. \A other \in Files : f[other] = IF other = file THEN Nothing(file) ELSE s[other]
  BY DEF AllFiles, Files
<1> HIDE DEF w, f
<1>4. 1 \in 1..Len(w) /\ \A j \in 1..Len(w) : j = 1
  BY <1>1
<1>5. Leads(s, w, f)
  BY <1>1, <1>3, <1>4 DEF Leads
<1> QED BY <1>2, <1>5 DEF w, f

\* CreateKey ends with a new key and its token, without certificates.
CreateOps == {o \in Ops : o.file = "ca" => o.value = Missing}

LEMMA CreateLeads ==
  ASSUME NEW s \in AllFiles, NEW k \in Keys
  PROVE  /\ CreateKey(k) \in Seq(CreateOps)
         /\ \E f \in AllFiles :
              /\ Leads(s, CreateKey(k), f)
              /\ f.key = k /\ f.token = k /\ f.ca = Missing
<1> DEFINE s1 == [s EXCEPT !["key"] = k]
           s2 == [s1 EXCEPT !["cert"] = Nothing("cert")]
           s3 == [s2 EXCEPT !["ca"] = Nothing("ca")]
           s4 == [s3 EXCEPT !["token"] = Nothing("token")]
           s5 == [s4 EXCEPT !["token"] = k]
           gone == <<Remove("cert"), Remove("ca"), Remove("token")>>
<1>1. {"key", "cert", "ca", "token"} \subseteq Files
  BY DEF Files
<1>2. k \in Contents["key"] /\ k \in Contents["token"]
  BY DEF Contents
<1>3. \A file \in {"key", "cert", "ca", "token"} : Remove(file) \in CreateOps
  BY <1>1, NothingIsContent, OpIsTyped DEF CreateOps, Remove, Op, Nothing
<1>4. Op("key", k) \in CreateOps /\ Op("token", k) \in CreateOps
  BY <1>1, <1>2, OpIsTyped DEF CreateOps, Op
<1>5. CreateOps \in SUBSET Ops
  BY DEF CreateOps
<1>6. /\ WriteFile("key", k) \in Seq(CreateOps) /\ s1 \in AllFiles
      /\ Leads(s, WriteFile("key", k), s1)
  BY <1>1, <1>2, <1>3, <1>4, <1>5, WriteLeads
<1>7. /\ s2 \in AllFiles /\ Leads(s1, <<Remove("cert")>>, s2)
  BY <1>1, <1>6, RemoveLeads
<1>8. /\ s3 \in AllFiles /\ Leads(s2, <<Remove("ca")>>, s3)
  BY <1>1, <1>7, RemoveLeads
<1>9. /\ s4 \in AllFiles /\ Leads(s3, <<Remove("token")>>, s4)
  BY <1>1, <1>8, RemoveLeads
<1>10. /\ WriteFile("token", k) \in Seq(CreateOps) /\ s5 \in AllFiles
       /\ Leads(s4, WriteFile("token", k), s5)
  BY <1>1, <1>2, <1>3, <1>4, <1>5, <1>9, WriteLeads
<1>11. gone = (<<Remove("cert")>> \o <<Remove("ca")>>) \o <<Remove("token")>>
  OBVIOUS
<1>12. /\ <<Remove("cert")>> \in Seq(CreateOps) /\ <<Remove("ca")>> \in Seq(CreateOps)
       /\ <<Remove("token")>> \in Seq(CreateOps)
  BY <1>3
<1>13. s5.key = k /\ s5.token = k /\ s5.ca = Missing
  BY DEF AllFiles, Nothing
<1> HIDE DEF s1, s2, s3, s4, s5, gone
<1>14. Seq(CreateOps) \subseteq Seq(Ops)
  BY <1>5
<1>15. Leads(s1, <<Remove("cert")>> \o <<Remove("ca")>>, s3)
  BY <1>7, <1>8, <1>12, <1>14, LeadsThen
<1>16. <<Remove("cert")>> \o <<Remove("ca")>> \in Seq(CreateOps)
  BY <1>12
<1>17. Leads(s1, gone, s4) /\ gone \in Seq(CreateOps)
  BY <1>9, <1>11, <1>12, <1>14, <1>15, <1>16, LeadsThen, ConcatProperties
<1>18. /\ Leads(s, WriteFile("key", k) \o gone, s4)
       /\ WriteFile("key", k) \o gone \in Seq(CreateOps)
  BY <1>6, <1>14, <1>17, LeadsThen, ConcatProperties
<1>19. /\ Leads(s, (WriteFile("key", k) \o gone) \o WriteFile("token", k), s5)
       /\ (WriteFile("key", k) \o gone) \o WriteFile("token", k) \in Seq(CreateOps)
  BY <1>10, <1>14, <1>18, LeadsThen, ConcatProperties
<1>20. CreateKey(k) = (WriteFile("key", k) \o gone) \o WriteFile("token", k)
  BY DEF CreateKey, gone
<1> QED BY <1>10, <1>13, <1>19, <1>20

\* The answer's certificates are stored beside the key.
StoreOps(ca) ==
  {o \in Ops : o.file # "token" /\ (o.file = "ca" => o.value \in {Missing, ca})}

LEMMA StoreLeads ==
  ASSUME NEW s \in AllFiles, NEW ca \in Cas, NEW cert \in [key: Keys, ca: Cas],
         NEW fp \in Certs
  PROVE  /\ StoreCerts(ca, cert, fp) \in Seq(StoreOps(ca))
         /\ \E f \in AllFiles :
              /\ Leads(s, StoreCerts(ca, cert, fp), f)
              /\ f.key = s.key /\ f.token = s.token
              /\ f.ca = ca /\ f.cert = cert /\ f.fp = fp
<1> DEFINE s1 == [s EXCEPT !["ca"] = ca]
           s2 == [s1 EXCEPT !["cert"] = cert]
           s3 == [s2 EXCEPT !["fp"] = fp]
           S  == StoreOps(ca)
<1>1. {"ca", "cert", "fp"} \subseteq Files
  BY DEF Files
<1>2. ca \in Contents["ca"] /\ cert \in Contents["cert"] /\ fp \in Contents["fp"]
  BY DEF Contents
<1>3. \A file \in {"ca", "cert", "fp"} : Remove(file) \in S
  BY <1>1, NothingIsContent, OpIsTyped DEF StoreOps, Remove, Op, Nothing
<1>4. Op("ca", ca) \in S /\ Op("cert", cert) \in S /\ Op("fp", fp) \in S
  BY <1>1, <1>2, OpIsTyped DEF StoreOps, Op
<1>5. S \in SUBSET Ops
  BY DEF StoreOps
<1>6. s3.key = s.key /\ s3.token = s.token /\ s3.ca = ca /\ s3.cert = cert /\ s3.fp = fp
  BY DEF AllFiles
<1> HIDE DEF S
<1>7. /\ WriteFile("ca", ca) \in Seq(S) /\ s1 \in AllFiles
      /\ Leads(s, WriteFile("ca", ca), s1)
  BY <1>1, <1>2, <1>3, <1>4, <1>5, WriteLeads
<1> HIDE DEF s1
<1>8. /\ WriteFile("cert", cert) \in Seq(S) /\ s2 \in AllFiles
      /\ Leads(s1, WriteFile("cert", cert), s2)
  BY <1>1, <1>2, <1>3, <1>4, <1>5, <1>7, WriteLeads
<1> HIDE DEF s2
<1>9. /\ WriteFile("fp", fp) \in Seq(S) /\ s3 \in AllFiles
      /\ Leads(s2, WriteFile("fp", fp), s3)
  BY <1>1, <1>2, <1>3, <1>4, <1>5, <1>8, WriteLeads
<1> HIDE DEF s3
<1>10. Seq(S) \subseteq Seq(Ops)
  BY <1>5
<1>11. /\ WriteFile("ca", ca) \o WriteFile("cert", cert) \in Seq(S)
       /\ Leads(s, WriteFile("ca", ca) \o WriteFile("cert", cert), s2)
  BY <1>7, <1>8, <1>10, LeadsThen, ConcatProperties
<1>12. /\ StoreCerts(ca, cert, fp) \in Seq(S)
       /\ Leads(s, StoreCerts(ca, cert, fp), s3)
  BY <1>9, <1>10, <1>11, LeadsThen, ConcatProperties DEF StoreCerts
<1> QED BY <1>6, <1>9, <1>12 DEF S

\* The files before a registration request: a new key alone, or what there was
\* with a fingerprint file.
Whole(f) == \A file \in Files : f[file] # Nothing(file)

LEMMA PreparationLeads ==
  ASSUME store \in AllFiles, NEW manual \in BOOLEAN,
         Regenerates(manual) => Keys \ InUse # {}
  PROVE  /\ Preparation(manual) \in Seq(CreateOps)
         /\ \E f \in AllFiles :
              /\ Leads(store, Preparation(manual), f)
              /\ f.key # Missing /\ f.token # Missing
              /\ \/ f.ca = Missing
                 \/ ~ Regenerates(manual) /\ Whole(f)
              /\ \/ Regenerates(manual) /\ f.ca = Missing
                 \/ /\ f = store
                    /\ Preparation(manual) = <<>>
                 \/ /\ f = [store EXCEPT !["fp"] = ZeroFp] /\ store.fp = Missing
                    /\ Preparation(manual) = WriteFile("fp", ZeroFp)
<1> DEFINE s1 == [store EXCEPT !["fp"] = ZeroFp]
           first == IF ~ IsEmpty /\ ~ manual /\ Absent("fp")
                    THEN WriteFile("fp", ZeroFp) ELSE <<>>
           s == IF ~ IsEmpty /\ ~ manual /\ Absent("fp") THEN s1 ELSE store
           second == IF Regenerates(manual) THEN CreateKey(FreshKey) ELSE <<>>
<1>1. "fp" \in Files /\ ZeroFp \in Contents["fp"]
  BY DEF Files, Contents
<1>2. Remove("fp") \in CreateOps /\ Op("fp", ZeroFp) \in CreateOps
  BY <1>1, NothingIsContent, OpIsTyped DEF CreateOps, Remove, Op
<1>3. CreateOps \in SUBSET Ops
  BY DEF CreateOps
<1>4. /\ WriteFile("fp", ZeroFp) \in Seq(CreateOps) /\ s1 \in AllFiles
      /\ Leads(store, WriteFile("fp", ZeroFp), s1)
  BY <1>1, <1>2, <1>3, WriteLeads
<1>5. /\ s1.key = store.key /\ s1.cert = store.cert /\ s1.ca = store.ca
      /\ s1.token = store.token /\ s1.fp = ZeroFp
  BY DEF AllFiles
<1> HIDE DEF s1
<1>6. first \in Seq(CreateOps) /\ s \in AllFiles /\ Leads(store, first, s)
  BY <1>4, LeadsNone
<1>7. /\ Preparation(manual) = first \o second
      /\ Seq(CreateOps) \subseteq Seq(Ops)
  BY <1>3 DEF Preparation
<1>8. CASE Regenerates(manual)
  <2>1. FreshKey \in Keys
    BY <1>8 DEF FreshKey
  <2>2. /\ second \in Seq(CreateOps)
        /\ \E f \in AllFiles :
             /\ Leads(s, second, f)
             /\ f.key = FreshKey /\ f.token = FreshKey /\ f.ca = Missing
    <3> HIDE DEF s
    <3> QED BY <1>6, <1>8, <2>1, CreateLeads
  <2> HIDE DEF s, first, second
  <2>3. PICK f \in AllFiles :
               /\ Leads(s, second, f)
               /\ f.key = FreshKey /\ f.token = FreshKey /\ f.ca = Missing
    BY <2>2
  <2>4. Leads(store, first \o second, f) /\ first \o second \in Seq(CreateOps)
    BY <1>6, <1>7, <2>2, <2>3, LeadsThen, ConcatProperties
  <2>5. FreshKey # Missing
    BY <2>1, KeysAssumption DEF Missing
  <2> QED BY <1>7, <1>8, <2>3, <2>4, <2>5
<1>9. CASE ~ Regenerates(manual)
  <2>1. ~ IsEmpty /\ ~ manual /\ \A file \in Files \ {"fp"} : ~ Absent(file)
    BY <1>9 DEF Regenerates
  <2>2. Preparation(manual) = first
    <3> HIDE DEF first
    <3>1. second = <<>>
      BY <1>9
    <3> HIDE DEF second
    <3> QED BY <1>6, <1>7, <3>1
  <2>3. CASE Absent("fp")
    <3>1. s = s1 /\ first = WriteFile("fp", ZeroFp)
      BY <2>1, <2>3
    <3>2. Whole(s1)
      BY <1>5, <2>1 DEF Whole, Absent, Files, Nothing, ZeroFp, Missing
    <3>3. s1.key # Missing /\ s1.token # Missing /\ store.fp = Missing
      BY <1>5, <2>1, <2>3 DEF Absent, Files, Nothing
    <3> HIDE DEF s, first
    <3> QED BY <1>6, <1>9, <2>2, <3>1, <3>2, <3>3 DEF s1
  <2>4. CASE ~ Absent("fp")
    <3>1. s = store /\ first = <<>>
      BY <2>4
    <3>2. Whole(store)
      BY <2>1, <2>4 DEF Whole, Absent
    <3>3. store.key # Missing /\ store.token # Missing
      BY <2>1 DEF Absent, Files, Nothing
    <3> HIDE DEF s, first
    <3> QED BY <1>6, <1>9, <2>2, <3>1, <3>2, <3>3
  <2> QED BY <2>3, <2>4
<1> QED BY <1>8, <1>9

(***************************************************************************)
(* The invariant: types; what the agent's files will be (Plan); where the  *)
(* CAs that a file holds or will hold come from (CasAreOld); and what the  *)
(* agent waits for (Waits).                                                *)
(***************************************************************************)
AgentType ==
  [pc: {"off", "files", "wait", "store", "up", "done"}, manual: BOOLEAN,
   serverToken: Tokens \union {Missing}, todo: Seq(Ops), h: Handlers,
   id: Ids \union {0}]

HandlerTyped(handler) ==
  /\ handler.pc \in {"idle", "create", "write", "answered", "update", "refresh"}
  /\ handler.req \in Request \union {NoRequest}
  /\ handler.m \in Row \union {NoRow}
  /\ handler.auth \in BOOLEAN
  /\ handler.pc \in {"create", "write"} => handler.req \in Request
  /\ handler.pc \in {"update", "refresh"} => handler.m \in Row
HandlersTyped == \A h \in Handlers : HandlerTyped(hs[h])

\* What is spent bounds the numbers that are given out.
Spent ==
  /\ used \in [faults: 0..MaxFaults, user: 0..MaxUser]
  /\ srv \in [ca: Nat \ {0}, cert: Nat \ {0}, token: Nat \ {0}]
  /\ srv.ca <= 1 + used.faults /\ srv.cert <= 1 + used.faults
  /\ srv.token <= 1 + used.user

RegTypes ==
  /\ store \in AllFiles /\ agent \in AgentType
  /\ HandlersAreFunction /\ HandlersTyped
  /\ Spent
  /\ row \in Row \union {NoRow}
  /\ disabled \in BOOLEAN /\ torn \in BOOLEAN /\ granted \subseteq Keys
  /\ outdated \in {"no", "cert", "ca"}

\* Files that hold a CA hold all that belongs to it.
Belongs(f) ==
  f.ca # Missing =>
    /\ Whole(f) /\ f.cert = [key |-> f.key, ca |-> f.ca]
    /\ f.ca = srv.ca /\ outdated = "no" => f.fp = srv.cert

\* A key is being created.
Creates == \E i \in 1..Len(agent.todo) : agent.todo[i].file = "token"

Prepared(f) ==
  /\ agent.pc # "off" => f.key # Missing /\ f.token # Missing
  /\ agent.pc \in {"files", "wait"} => f.ca = Missing \/ Whole(f)
  /\ agent.pc \in {"store", "up", "done"} =>
       Whole(f) /\ (outdated = "no" => f.ca = srv.ca)
  /\ ~ torn => Belongs(f)
  /\ Creates => f.ca = Missing
  /\ agent.pc \notin {"files", "store"} => agent.todo = <<>>

Plan == \E f \in AllFiles : Leads(store, agent.todo, f) /\ Prepared(f)

IsOld(ca) == ca <= srv.ca /\ (outdated = "ca" => ca # srv.ca)
CasAreOld ==
  /\ IsOld(store.ca)
  /\ \A i \in 1..Len(agent.todo) :
       agent.todo[i].file = "ca" => IsOld(agent.todo[i].value)

\* A conflict says that the agent has the server's CA; the certificates of
\* an answer certify the agent's key.
AnswerFits(answer) ==
  /\ answer.kind \in {"error", "conflict", "ok"}
  /\ answer.kind # "error" => answer.id \in Ids
  /\ answer.kind = "conflict" => store.ca = srv.ca
  /\ answer.kind = "ok" => /\ answer.cert = [key |-> store.key, ca |-> srv.ca]
                           /\ answer.fp = srv.cert

RequestFits(req) == req.key = store.key /\ req.ca = store.ca

Waits ==
  agent.pc = "wait" =>
    \/ hs[agent.h].pc \in {"create", "write"} /\ RequestFits(hs[agent.h].req)
    \/ hs[agent.h].pc = "answered" /\ AnswerFits(hs[agent.h].answer)

RegInv == RegTypes /\ Plan /\ CasAreOld /\ Waits

LEMMA OffIsTyped ==
  Off \in AgentType /\ Off.pc = "off" /\ Off.todo = <<>>
<1>1. (CHOOSE h \in Handlers : TRUE) \in Handlers
  BY HandlersAssumption
<1> QED BY <1>1 DEF Off, AgentType, Missing

LEMMA IdleIsTyped == HandlerTyped(Idle) /\ Idle.pc = "idle"
  BY DEF Idle, HandlerTyped

\* What holds of any registered agent.
LEMMA RegMeans ==
  ASSUME RegInv
  PROVE  RegisteredIsComplete /\ RegisteredConnects
<1> USE DEF RegInv, RegTypes
<1>1. srv \in [ca: Cas, cert: Certs, token: Tokens]
  BY BoundsAssumption DEF Spent, Cas, Certs, Tokens
<1>2. \A i \in DOMAIN agent.todo : agent.todo[i].file \in Files
  <2>1. agent.todo \in Seq(Ops)
    BY DEF AgentType
  <2> QED BY <2>1, OpHas
<1>3. TypeOK
  <2>1. \A h \in Handlers :
       /\ hs[h].pc \in {"idle", "create", "write", "answered", "update", "refresh"}
       /\ hs[h].req \in Request \union {NoRequest}
       /\ hs[h].m \in Row \union {NoRow}
    BY DEF HandlersTyped, HandlerTyped
  <2>2. /\ agent.pc \in {"off", "files", "wait", "store", "up", "done"}
        /\ agent.manual \in BOOLEAN /\ agent.h \in Handlers
        /\ agent.serverToken \in Tokens \union {Missing}
    BY DEF AgentType
  <2> QED BY <1>1, <1>2, <2>1, <2>2 DEF TypeOK, AllFiles
<1>4. ASSUME agent.pc \in {"up", "done"}
      PROVE  /\ IsValid
             /\ ~ torn /\ outdated = "no" => Connects
  <2>1. PICK f \in AllFiles : Leads(store, agent.todo, f) /\ Prepared(f)
    BY DEF Plan
  <2>2. f = store
    BY <1>4, <2>1, LeadsNowhere DEF Prepared
  <2>3. IsValid
    BY <1>4, <2>1, <2>2 DEF Prepared, Whole, IsValid, Absent
  <2>4. ASSUME ~ torn, outdated = "no"
        PROVE  Connects
    <3>1. store.ca = srv.ca /\ srv.ca # Missing
      BY <1>1, <1>4, <2>1, <2>2, <2>4 DEF Prepared, Cas, Missing
    <3> QED BY <2>1, <2>2, <2>3, <2>4, <3>1 DEF Prepared, Belongs, Connects
  <2> QED BY <2>3, <2>4
<1> QED BY <1>3, <1>4 DEF RegisteredIsComplete, RegisteredConnects

LEMMA RegInit == Init => RegInv
<1> SUFFICES ASSUME Init PROVE RegInv
  OBVIOUS
<1>1. store \in AllFiles /\ agent \in AgentType /\ agent.pc = "off" /\ agent.todo = <<>>
  BY OffIsTyped DEF Init, FilesMissing, AllFiles
<1>2. RegTypes
  <2>1. HandlersAreFunction /\ HandlersTyped
    BY IdleIsTyped DEF Init, HandlersAreFunction, HandlersTyped
  <2>2. Spent
    BY BoundsAssumption DEF Init, Spent
  <2> QED BY <1>1, <2>1, <2>2 DEF Init, RegTypes
<1>3. Leads(store, agent.todo, store)
  BY <1>1, LeadsNone
<1>4. Prepared(store)
  BY <1>1 DEF Init, Prepared, Belongs, FilesMissing, Creates, Missing
<1>5. CasAreOld
  BY <1>1 DEF Init, CasAreOld, IsOld, FilesMissing, Missing
<1>6. Waits
  BY <1>1 DEF Waits
<1> QED BY <1>1, <1>2, <1>3, <1>4, <1>5, <1>6 DEF RegInv, Plan

-----------------------------------------------------------------------------
(***************************************************************************)
(* Types.                                                                  *)
(***************************************************************************)
LEMMA HandlerSet ==
  ASSUME HandlersAreFunction, HandlersTyped, NEW h \in Handlers,
         NEW handler, HandlerTyped(handler), hs' = [hs EXCEPT ![h] = handler]
  PROVE  HandlersAreFunction' /\ HandlersTyped'
<1>1. HandlersAreFunction'
  BY DEF HandlersAreFunction
<1>2. \A g \in Handlers : hs'[g] = IF g = h THEN handler ELSE hs[g]
  BY DEF HandlersAreFunction
<1> QED BY <1>1, <1>2 DEF HandlersTyped

\* What a bounded action spends.
LEMMA SpendIsTyped ==
  ASSUME Spent, NEW kind \in {"faults", "user"}, Spend(kind)
  PROVE  /\ used' \in [faults: 0..MaxFaults, user: 0..MaxUser]
         /\ used.faults <= used'.faults /\ used.user <= used'.user
         /\ used'[kind] = used[kind] + 1
  BY BoundsAssumption DEF Spend, Limit, Spent

LEMMA SpentKept ==
  ASSUME Spent, srv' = srv,
         used' = used \/ \E kind \in {"faults", "user"} : Spend(kind)
  PROVE  Spent'
<1>1. CASE used' = used
  BY <1>1 DEF Spent
<1>2. CASE \E kind \in {"faults", "user"} : Spend(kind)
  <2>1. /\ used' \in [faults: 0..MaxFaults, user: 0..MaxUser]
        /\ used.faults <= used'.faults /\ used.user <= used'.user
    BY <1>2, SpendIsTyped
  <2> QED BY <2>1, BoundsAssumption DEF Spent
<1> QED BY <1>1, <1>2

\* The agent's own steps.
LEMMA RegTypesAgent ==
  ASSUME RegInv,
         \/ StartService \/ RegisterCommand \/ FileStep \/ Refused \/ Receive
         \/ LoseAnswer \/ Finish \/ PingFails \/ Stop \/ Crash
         \/ \E h \in Handlers : Send(h) \/ Ping(h)
  PROVE  RegTypes'
<1> USE DEF RegInv, RegTypes
<1>0. agent \in AgentType /\ agent.h \in Handlers /\ agent.todo \in Seq(Ops)
  BY DEF AgentType
<1>1. ASSUME NEW manual \in BOOLEAN, NEW token \in Tokens \union {Missing},
             Start(manual, token), Spent'
      PROVE  RegTypes'
  <2>1. Preparation(manual) \in Seq(CreateOps)
    BY <1>1, PreparationLeads DEF Start
  <2>2. Preparation(manual) \in Seq(Ops)
    BY <2>1 DEF CreateOps
  <2>3. agent' \in AgentType
    BY <1>1, <2>2, OffIsTyped DEF Start, AgentType
  <2>4. granted' \subseteq Keys
    BY <1>1 DEF Start
  <2> QED BY <1>1, <2>3, <2>4 DEF Start, HandlersAreFunction, HandlersTyped
<1>2. CASE StartService
  BY <1>1, <1>2, SpentKept DEF StartService, Start, Missing
<1>3. CASE RegisterCommand
  <2>1. PICK token \in {Missing, srv.token} : Start(TRUE, token)
    BY <1>3 DEF RegisterCommand
  <2>2. token \in Tokens \union {Missing}
    BY BoundsAssumption DEF Spent, Tokens
  <2>3. Spent'
    BY <1>3, <2>1, SpentKept DEF RegisterCommand, Start
  <2> QED BY <1>1, <2>1, <2>2, <2>3
<1>4. CASE FileStep
  <2>1. Head(agent.todo) \in Ops /\ Tail(agent.todo) \in Seq(Ops)
    BY <1>0, <1>4 DEF FileStep
  <2>2. store' \in AllFiles
    BY <1>4, <2>1, OpHas, DoneIsTyped DEF FileStep
  <2>3. agent' \in AgentType
    BY <1>4, <2>1 DEF FileStep, AgentType
  <2>4. torn' \in BOOLEAN
    <3>1. torn' = (torn /\ ~ (Head(agent.todo).file = "token" /\ Len(agent.todo) = 1))
      BY <1>4 DEF FileStep
    <3> QED BY <3>1, Zenon
  <2>5. Spent'
    BY <1>4, SpentKept DEF FileStep
  <2> QED BY <1>4, <2>2, <2>3, <2>4, <2>5
          DEF FileStep, HandlersAreFunction, HandlersTyped
<1>5. ASSUME agent' \in AgentType, UNCHANGED <<store, srv, row, disabled, granted>>,
             torn' \in BOOLEAN, outdated' \in {"no", "cert", "ca"},
             used' = used \/ Spend("faults"),
             \/ hs' = hs
             \/ \E h \in Handlers : \E handler :
                  HandlerTyped(handler) /\ hs' = [hs EXCEPT ![h] = handler]
      PROVE  RegTypes'
  <2>1. Spent'
    BY <1>5, SpentKept
  <2>2. HandlersAreFunction' /\ HandlersTyped'
    <3>1. CASE hs' = hs
      BY <3>1 DEF HandlersAreFunction, HandlersTyped
    <3> QED BY <1>5, <3>1, HandlerSet
  <2> QED BY <1>5, <2>1, <2>2
<1>6. CASE Refused \/ PingFails \/ Stop
  BY <1>5, <1>6, OffIsTyped DEF Refused, PingFails, Stop
<1>7. CASE Finish
  <2>1. agent' \in AgentType
    BY <1>7 DEF Finish, AgentType
  <2> QED BY <1>5, <1>7, <2>1 DEF Finish
<1>8. CASE LoseAnswer
  <2>1. HandlerTyped(IF hs[agent.h].pc = "answered" THEN Idle ELSE hs[agent.h])
    BY <1>0, IdleIsTyped DEF HandlersTyped
  <2> QED BY <1>0, <1>5, <1>8, <2>1, OffIsTyped DEF LoseAnswer
<1>9. CASE Crash
  <2>1. HandlerTyped(IF hs[agent.h].pc = "answered" THEN Idle ELSE hs[agent.h])
    BY <1>0, IdleIsTyped DEF HandlersTyped
  <2>2. torn' \in BOOLEAN
    <3>1. torn' = (torn \/ agent.todo # <<>>)
      BY <1>9 DEF Crash
    <3> QED BY <3>1, Zenon
  <2> QED BY <1>0, <1>5, <1>9, <2>1, <2>2, OffIsTyped DEF Crash
<1>10. CASE Receive
  <2> DEFINE answer == hs[agent.h].answer
  <2>1. agent.pc = "wait" /\ AnswerFits(answer)
    BY <1>10 DEF Receive, Waits
  <2>2. CASE answer.kind = "error"
    BY <1>0, <1>5, <1>10, <2>2, OffIsTyped, IdleIsTyped DEF Receive
  <2>3. CASE answer.kind = "conflict"
    <3>1. agent' = [agent EXCEPT !.pc = "store", !.id = answer.id, !.todo = <<>>]
      BY <1>10, <2>3 DEF Receive
    <3>2. agent' \in AgentType
      <4>1. answer.id \in Ids
        BY <2>1, <2>3 DEF AnswerFits
      <4>2. <<>> \in Seq(Ops)
        OBVIOUS
      <4> HIDE DEF answer
      <4> QED BY <1>0, <3>1, <4>1, <4>2 DEF AgentType
    <3> QED BY <1>0, <1>5, <1>10, <3>2, IdleIsTyped DEF Receive
  <2>4. CASE answer.kind = "ok"
    <3> DEFINE todo == StoreCerts(answer.cert.ca, answer.cert, answer.fp)
    <3>1. agent' = [agent EXCEPT !.pc = "store", !.id = answer.id, !.todo = todo]
      BY <1>10, <2>4 DEF Receive
    <3>2. /\ answer.cert = [key |-> store.key, ca |-> srv.ca] /\ answer.fp = srv.cert
          /\ srv.ca \in Cas /\ srv.cert \in Certs /\ store.key \in Keys
      <4>1. srv.ca \in Cas /\ srv.cert \in Certs
        BY BoundsAssumption DEF Spent, Cas, Certs
      <4>2. store.key # Missing
        <5>1. PICK f \in AllFiles : Leads(store, agent.todo, f) /\ Prepared(f)
          BY DEF Plan
        <5>2. f = store
          BY <2>1, <5>1, LeadsNowhere DEF Prepared
        <5> QED BY <2>1, <5>1, <5>2 DEF Prepared
      <4> QED BY <2>1, <2>4, <4>1, <4>2 DEF AnswerFits, AllFiles
    <3>3. todo \in Seq(StoreOps(answer.cert.ca))
      BY <3>2, StoreLeads
    <3>4. todo \in Seq(Ops)
      BY <3>3, SMTT(30) DEF StoreOps
    <3>5. agent' \in AgentType
      BY <2>1, <2>4, <3>1, <3>4 DEF AnswerFits, AgentType
    <3> QED BY <1>0, <1>5, <1>10, <3>5, IdleIsTyped DEF Receive
  <2> QED BY <2>1, <2>2, <2>3, <2>4 DEF AnswerFits
<1>11. ASSUME NEW h \in Handlers, Send(h)
       PROVE  RegTypes'
  <2> DEFINE req == [key |-> store.key, token |-> store.token, ca |-> store.ca,
                     serverToken |-> agent.serverToken]
  <2>1. PICK f \in AllFiles : Leads(store, agent.todo, f) /\ Prepared(f)
    BY DEF Plan
  <2>2. f = store
    BY <1>11, <2>1, LeadsNowhere DEF Send
  <2>3. req \in Request
    BY <1>11, <2>1, <2>2 DEF Send, Prepared, AllFiles, AgentType, Request
  <2>4. HandlerTyped([Idle EXCEPT !.pc = "create", !.req = req])
    BY <2>3 DEF HandlerTyped, Idle
  <2>5. agent' \in AgentType
    BY <1>11 DEF Send, AgentType
  <2> QED BY <1>5, <1>11, <2>4, <2>5 DEF Send
<1>12. ASSUME NEW h \in Handlers, Ping(h)
       PROVE  RegTypes'
  <2>1. row \in Row
    <3>1. row # NoRow
      BY <1>12 DEF Ping, Connects, IsValid, Absent, Nothing, Files, NoRow
    <3> QED BY <3>1
  <2>2. HandlerTyped([Idle EXCEPT !.pc = "refresh", !.m = row])
    BY <2>1 DEF HandlerTyped, Idle
  <2>3. agent' \in AgentType
    BY <1>12 DEF Ping, AgentType
  <2> QED BY <1>5, <1>12, <2>2, <2>3 DEF Ping
<1> QED BY <1>2, <1>3, <1>4, <1>6, <1>7, <1>8, <1>9, <1>10, <1>11, <1>12

\* CreateMachine.
LEMMA ReplyIsTyped ==
  ASSUME RegTypes, NEW h \in Handlers, NEW answer, Reply(h, answer)
  PROVE  HandlersAreFunction' /\ HandlersTyped'
<1>1. HandlerTyped(IF WaitedFor(h)
                   THEN [Idle EXCEPT !.pc = "answered", !.answer = answer] ELSE Idle)
  BY DEF HandlerTyped, Idle
<1> QED BY <1>1, HandlerSet DEF Reply, RegTypes

LEMMA RegTypesCreate ==
  ASSUME RegInv, NEW h \in Handlers,
         CreateMachineRead(h) \/ CreateMachineWrite(h)
  PROVE  RegTypes'
<1> USE DEF RegInv, RegTypes
<1>1. HandlerTyped(hs[h])
  BY DEF HandlersTyped
<1>2. CASE CreateMachineRead(h)
  <2>1. UNCHANGED <<store, agent, srv, row, disabled, used, torn, outdated>>
    BY <1>2 DEF CreateMachineRead
  <2>2. Spent'
    BY <2>1, SpentKept
  <2>3. hs[h].req \in Request
    BY <1>1, <1>2 DEF HandlerTyped, CreateMachineRead
  <2>4. granted' \subseteq Keys
    <3>1. granted' = granted \/ granted' = granted \union {hs[h].req.token}
      BY <1>2 DEF CreateMachineRead
    <3> QED BY <2>3, <3>1 DEF Request
  <2>5. HandlersAreFunction' /\ HandlersTyped'
    <3>1. CASE \E answer : Reply(h, answer)
      BY <3>1, ReplyIsTyped
    <3>2. CASE \E auth \in BOOLEAN :
                 hs' = [hs EXCEPT ![h] =
                   [Idle EXCEPT !.pc = "write", !.req = hs[h].req, !.m = row,
                                !.auth = auth]]
      <4>1. PICK auth \in BOOLEAN :
                   hs' = [hs EXCEPT ![h] =
                     [Idle EXCEPT !.pc = "write", !.req = hs[h].req, !.m = row,
                                  !.auth = auth]]
        BY <3>2
      <4>2. HandlerTyped([Idle EXCEPT !.pc = "write", !.req = hs[h].req, !.m = row,
                                      !.auth = auth])
        BY <2>3 DEF HandlerTyped, Idle
      <4> QED BY <4>1, <4>2, HandlerSet
    <3>3. CASE hs' = [hs EXCEPT ![h] =
                   [Idle EXCEPT !.pc = "write", !.req = hs[h].req, !.m = row,
                      !.auth = (Known(hs[h].req) /\ row.authorized)
                                 \/ hs[h].req.serverToken = srv.token]]
      <4>1. ((Known(hs[h].req) /\ row.authorized) \/ hs[h].req.serverToken = srv.token)
              \in BOOLEAN
        BY Zenon
      <4> QED BY <3>2, <3>3, <4>1, Zenon
    <3> QED BY <1>2, <3>1, <3>3 DEF CreateMachineRead
  <2> QED BY <2>1, <2>2, <2>4, <2>5
<1>3. CASE CreateMachineWrite(h)
  <2>1. UNCHANGED <<store, agent, srv, disabled, used, granted, torn, outdated>>
    BY <1>3 DEF CreateMachineWrite
  <2>2. Spent'
    BY <2>1, SpentKept
  <2>3. HandlersAreFunction' /\ HandlersTyped'
    BY <1>3, ReplyIsTyped DEF CreateMachineWrite
  <2>4. row' \in Row \union {NoRow}
    <3>1. /\ hs[h].req.token \in Keys /\ hs[h].auth \in BOOLEAN
          /\ hs[h].m \in Row \union {NoRow}
      BY <1>1, <1>3 DEF HandlerTyped, CreateMachineWrite, Request
    <3>2. NewId \in Ids
      BY BoundsAssumption DEF Spent, NewId, Ids
    <3>3. PICK id :
            /\ id = IF hs[h].m = NoRow THEN NewId ELSE hs[h].m.id
            /\ \/ row' = row
               \/ row' = [id |-> id, token |-> hs[h].req.token, authorized |-> hs[h].auth]
      BY <1>3 DEF CreateMachineWrite
    <3>4. id \in Ids
      BY <3>1, <3>2, <3>3 DEF Row
    <3> QED BY <3>1, <3>3, <3>4 DEF Row
  <2> QED BY <2>1, <2>2, <2>3, <2>4
<1> QED BY <1>2, <1>3

\* The other handlers and the restarts of the server.
LEMMA RegTypesOthers ==
  ASSUME RegInv,
         \/ DeleteMachine \/ ToggleRegistration \/ RegenerateServerToken
         \/ RotateCA \/ RenewServerCert
         \/ \E h \in Handlers : \/ UpdateMachineRead(h) \/ UpdateMachineWrite(h)
                                \/ RefreshRead(h) \/ RefreshWrite(h)
  PROVE  RegTypes'
<1> USE DEF RegInv, RegTypes
<1>1. CASE DeleteMachine
  <2>1. Spent'
    BY <1>1, SpentKept DEF DeleteMachine
  <2> QED BY <1>1, <2>1 DEF DeleteMachine, HandlersAreFunction, HandlersTyped
<1>2. CASE ToggleRegistration
  <2>1. Spent'
    BY <1>2, SpentKept DEF ToggleRegistration
  <2>2. disabled' \in BOOLEAN
    <3>1. disabled' = ~ disabled
      BY <1>2 DEF ToggleRegistration
    <3> QED BY <3>1, Zenon
  <2> QED BY <1>2, <2>1, <2>2 DEF ToggleRegistration, HandlersAreFunction, HandlersTyped
<1>3. CASE RegenerateServerToken
  <2>1. /\ used' \in [faults: 0..MaxFaults, user: 0..MaxUser]
        /\ used.faults <= used'.faults /\ used'.user = used.user + 1
    BY <1>3, SpendIsTyped DEF RegenerateServerToken
  <2>2. srv' = [srv EXCEPT !.token = @ + 1]
    BY <1>3 DEF RegenerateServerToken
  <2>3. Spent'
    BY <2>1, <2>2, BoundsAssumption DEF Spent
  <2> QED BY <1>3, <2>3 DEF RegenerateServerToken, HandlersAreFunction, HandlersTyped
<1>4. ASSUME NEW secrets, Restart(secrets), outdated' \in {"no", "cert", "ca"},
             \/ secrets = [srv EXCEPT !.ca = @ + 1, !.cert = @ + 1]
             \/ secrets = [srv EXCEPT !.cert = @ + 1]
      PROVE  RegTypes'
  <2>1. /\ used' \in [faults: 0..MaxFaults, user: 0..MaxUser]
        /\ used.user <= used'.user /\ used'.faults = used.faults + 1
    BY <1>4, SpendIsTyped DEF Restart
  <2>2. srv' = secrets
    BY <1>4 DEF Restart
  <2>3. Spent'
    <3>1. CASE secrets = [srv EXCEPT !.ca = @ + 1, !.cert = @ + 1]
      <4>1. /\ srv'.ca = srv.ca + 1 /\ srv'.cert = srv.cert + 1 /\ srv'.token = srv.token
            /\ srv' \in [ca: Nat \ {0}, cert: Nat \ {0}, token: Nat \ {0}]
        <5>1. srv' = [[srv EXCEPT !.ca = srv.ca + 1] EXCEPT !.cert = srv.cert + 1]
          BY <2>2, <3>1 DEF Spent
        <5>2. /\ srv.ca + 1 \in Nat \ {0} /\ srv.cert + 1 \in Nat \ {0}
              /\ srv \in [ca: Nat \ {0}, cert: Nat \ {0}, token: Nat \ {0}]
          BY DEF Spent
        <5> DEFINE ca == srv.ca + 1
                   cert == srv.cert + 1
        <5> HIDE DEF ca, cert
        <5>3. ca \in Nat \ {0} /\ cert \in Nat \ {0}
          BY <5>2 DEF ca, cert
        <5>4. srv' = [[srv EXCEPT !.ca = ca] EXCEPT !.cert = cert]
          BY <5>1 DEF ca, cert
        <5>5. srv'.ca = ca /\ srv'.cert = cert /\ srv'.token = srv.token
          BY <5>2, <5>4
        <5>6. srv' \in [ca: Nat \ {0}, cert: Nat \ {0}, token: Nat \ {0}]
          BY <5>2, <5>3, <5>4
        <5> QED BY <5>5, <5>6 DEF ca, cert
      <4> QED BY <2>1, <4>1, BoundsAssumption DEF Spent
    <3>2. CASE secrets = [srv EXCEPT !.cert = @ + 1]
      BY <2>1, <2>2, <3>2, BoundsAssumption DEF Spent
    <3> QED BY <1>4, <3>1, <3>2
  <2>4. HandlersAreFunction' /\ HandlersTyped'
    BY <1>4, IdleIsTyped DEF Restart, HandlersAreFunction, HandlersTyped
  <2>5. agent' \in AgentType
    BY <1>4, OffIsTyped DEF Restart
  <2> QED BY <1>4, <2>3, <2>4, <2>5 DEF Restart
<1>5. CASE RotateCA \/ RenewServerCert
  BY <1>4, <1>5 DEF RotateCA, RenewServerCert
<1>6. ASSUME NEW h \in Handlers, NEW handler, HandlerTyped(handler),
             hs' = [hs EXCEPT ![h] = handler], row' \in Row \union {NoRow},
             granted' \subseteq Keys, used' = used \/ Spend("user"),
             UNCHANGED <<store, agent, srv, disabled, torn, outdated>>
      PROVE  RegTypes'
  <2>1. Spent'
    BY <1>6, SpentKept
  <2>2. HandlersAreFunction' /\ HandlersTyped'
    BY <1>6, HandlerSet
  <2> QED BY <1>6, <2>1, <2>2
<1>7. ASSUME NEW h \in Handlers, UpdateMachineRead(h)
      PROVE  RegTypes'
  <2>1. PICK auth \in BOOLEAN :
          hs' = [hs EXCEPT ![h] =
                   [Idle EXCEPT !.pc = "update", !.m = row, !.auth = auth]]
    BY <1>7 DEF UpdateMachineRead
  <2>2. HandlerTyped([Idle EXCEPT !.pc = "update", !.m = row, !.auth = auth])
    BY <1>7 DEF HandlerTyped, Idle, UpdateMachineRead
  <2> QED BY <1>6, <1>7, <2>1, <2>2 DEF UpdateMachineRead
<1>8. ASSUME NEW h \in Handlers, UpdateMachineWrite(h)
      PROVE  RegTypes'
  <2> DEFINE m == [id |-> hs[h].m.id, token |-> hs[h].m.token,
                   authorized |-> hs[h].auth]
             handler == IF m.authorized /\ ~ hs[h].m.authorized
                        THEN [Idle EXCEPT !.pc = "refresh", !.m = m] ELSE Idle
  <2>1. hs[h].m \in Row /\ hs[h].auth \in BOOLEAN
    BY <1>8 DEF HandlersTyped, HandlerTyped, UpdateMachineWrite
  <2>2. m \in Row
    BY <2>1 DEF Row
  <2>3. HandlerTyped(handler)
    <3> HIDE DEF m
    <3> QED BY <2>2, IdleIsTyped DEF HandlerTyped, Idle
  <2>4. row' \in Row \union {NoRow}
    BY <1>8, <2>2 DEF UpdateMachineWrite
  <2>5. granted' \subseteq Keys
    BY <1>8, <2>1 DEF UpdateMachineWrite, Row
  <2> QED BY <1>6, <1>8, <2>3, <2>4, <2>5 DEF UpdateMachineWrite
<1>9. ASSUME NEW h \in Handlers, RefreshRead(h)
      PROVE  RegTypes'
  <2>1. HandlerTyped([Idle EXCEPT !.pc = "refresh", !.m = row])
    BY <1>9 DEF HandlerTyped, Idle, RefreshRead
  <2> QED BY <1>6, <1>9, <2>1 DEF RefreshRead
<1>10. ASSUME NEW h \in Handlers, RefreshWrite(h)
       PROVE  RegTypes'
  <2>1. row' \in Row \union {NoRow}
    BY <1>10 DEF RefreshWrite, HandlersTyped, HandlerTyped
  <2> QED BY <1>6, <1>10, <2>1, IdleIsTyped DEF RefreshWrite
<1> QED BY <1>1, <1>2, <1>3, <1>5, <1>7, <1>8, <1>9, <1>10

-----------------------------------------------------------------------------
(***************************************************************************)
(* The agent's files.                                                      *)
(***************************************************************************)
SameSecrets == srv'.ca = srv.ca /\ srv'.cert = srv.cert

\* At rest, the files are what they will be.
LEMMA AtRest ==
  ASSUME RegInv, agent.todo = <<>>
  PROVE  Prepared(store)
<1>1. PICK f \in AllFiles : Leads(store, agent.todo, f) /\ Prepared(f)
  BY DEF RegInv, Plan
<1> QED BY <1>1, LeadsNowhere DEF RegInv, RegTypes

LEMMA PlanKept ==
  ASSUME RegInv, UNCHANGED <<store, agent, torn, outdated>>, SameSecrets
  PROVE  Plan' /\ CasAreOld'
<1>1. CasAreOld'
  BY DEF RegInv, CasAreOld, IsOld, SameSecrets
<1>2. PICK f \in AllFiles : Leads(store, agent.todo, f) /\ Prepared(f)
  BY DEF RegInv, Plan
<1>3. Leads(store, agent.todo, f)'
  BY <1>2
<1>4. Prepared(f)'
  BY <1>2 DEF Prepared, Belongs, Creates, SameSecrets
<1> QED BY <1>1, <1>3, <1>4 DEF Plan

\* The process ends, in the middle of file operations or not.
Tears == torn' = (torn \/ agent.todo # <<>>)

LEMMA PlanOff ==
  ASSUME RegInv, agent' = Off, UNCHANGED <<store, outdated>>, SameSecrets,
         Tears \/ (agent.todo = <<>> /\ torn' = torn)
  PROVE  Plan' /\ CasAreOld'
<1>1. agent'.pc = "off" /\ agent'.todo = <<>>
  BY OffIsTyped
<1>2. CasAreOld'
  BY <1>1 DEF RegInv, CasAreOld, IsOld, SameSecrets
<1>3. Leads(store, <<>>, store)'
  BY LeadsNone
<1>4. ~ torn' => Belongs(store)'
  <2>1. CASE agent.todo = <<>>
    <3>1. ~ torn' => ~ torn
      BY <2>1 DEF Tears
    <3> QED BY <2>1, <3>1, AtRest DEF Prepared, Belongs, SameSecrets
  <2>2. CASE agent.todo # <<>>
    BY <2>2 DEF Tears
  <2> QED BY <2>1, <2>2
<1>5. Prepared(store)'
  BY <1>1, <1>4 DEF Prepared, Creates
<1> QED BY <1>1, <1>2, <1>3, <1>5 DEF Plan, RegInv, RegTypes

LEMMA PlanStart ==
  ASSUME RegInv, NEW manual \in BOOLEAN, NEW token, Start(manual, token)
  PROVE  Plan' /\ CasAreOld'
<1> USE DEF RegInv, RegTypes
<1>0. agent.pc = "off" /\ UNCHANGED <<store, srv, torn, outdated>>
  BY DEF Start
<1>1. agent'.pc = "files" /\ agent'.todo = Preparation(manual)
  BY DEF Start, Off
<1>2. agent.todo = <<>>
  BY <1>0 DEF Plan, Prepared
<1>3. Prepared(store)
  BY <1>2, AtRest
<1>4. /\ Preparation(manual) \in Seq(CreateOps)
      /\ \E f \in AllFiles :
           /\ Leads(store, Preparation(manual), f)
           /\ f.key # Missing /\ f.token # Missing
           /\ \/ f.ca = Missing
              \/ ~ Regenerates(manual) /\ Whole(f)
           /\ \/ Regenerates(manual) /\ f.ca = Missing
              \/ /\ f = store
                 /\ Preparation(manual) = <<>>
              \/ /\ f = [store EXCEPT !["fp"] = ZeroFp] /\ store.fp = Missing
                 /\ Preparation(manual) = WriteFile("fp", ZeroFp)
  BY PreparationLeads DEF Start
<1>5. PICK f \in AllFiles :
           /\ Leads(store, Preparation(manual), f)
           /\ f.key # Missing /\ f.token # Missing
           /\ \/ f.ca = Missing
              \/ ~ Regenerates(manual) /\ Whole(f)
           /\ \/ Regenerates(manual) /\ f.ca = Missing
              \/ /\ f = store
                 /\ Preparation(manual) = <<>>
              \/ /\ f = [store EXCEPT !["fp"] = ZeroFp] /\ store.fp = Missing
                 /\ Preparation(manual) = WriteFile("fp", ZeroFp)
  BY <1>4
<1>6. CasAreOld'
  <2>1. ASSUME NEW i \in 1..Len(Preparation(manual)),
               Preparation(manual)[i].file = "ca"
        PROVE  Preparation(manual)[i].value = Missing
    BY <1>4, <2>1 DEF CreateOps
  <2>2. IsOld(Missing)
    BY DEF Spent, IsOld, Missing
  <2> QED BY <1>0, <1>1, <2>1, <2>2 DEF CasAreOld, IsOld
<1>7. ~ torn => Belongs(f)
  <2>1. CASE f.ca = Missing
    BY <2>1 DEF Belongs
  <2>2. CASE f.ca # Missing /\ f = store /\ Preparation(manual) = <<>>
    BY <1>3, <2>2 DEF Prepared
  <2>3. CASE f.ca # Missing /\ f = [store EXCEPT !["fp"] = ZeroFp] /\ store.fp = Missing
    <3>1. store.ca # Missing
      BY <2>3 DEF AllFiles
    <3>2. ~ Whole(store)
      BY <2>3 DEF Whole, Files, Nothing
    <3> QED BY <1>3, <3>1, <3>2 DEF Prepared, Belongs
  <2> QED BY <1>5, <2>1, <2>2, <2>3
<1>8. Creates' => f.ca = Missing
  <2>1. CASE f.ca = Missing
    BY <2>1
  <2>2. CASE Preparation(manual) = <<>>
    BY <1>1, <2>2 DEF Creates
  <2>3. CASE Preparation(manual) = WriteFile("fp", ZeroFp)
    <3>1. \A i \in 1..Len(WriteFile("fp", ZeroFp)) : WriteFile("fp", ZeroFp)[i].file = "fp"
      BY DEF WriteFile, Remove, Op
    <3> QED BY <1>1, <2>3, <3>1 DEF Creates
  <2> QED BY <1>5, <2>1, <2>2, <2>3
<1>9. Prepared(f)'
  BY <1>0, <1>1, <1>5, <1>7, <1>8 DEF Prepared, Belongs
<1> QED BY <1>0, <1>1, <1>5, <1>6, <1>9 DEF Plan

LEMMA PlanFileStep ==
  ASSUME RegInv, FileStep
  PROVE  Plan' /\ CasAreOld'
<1> USE DEF RegInv, RegTypes
<1> DEFINE ops == agent.todo
<1>1. /\ agent.pc \in {"files", "store"} /\ ops # <<>>
      /\ store' = [store EXCEPT ![Head(ops).file] = Head(ops).value]
      /\ agent' = [agent EXCEPT !.todo = Tail(ops)]
      /\ UNCHANGED <<srv, outdated>>
      /\ torn' = (torn /\ ~ (Head(ops).file = "token" /\ Len(ops) = 1))
  BY DEF FileStep
<1>2. ops \in Seq(Ops) /\ agent'.pc = agent.pc /\ agent'.todo = Tail(ops)
  BY <1>1 DEF AgentType
<1>3. PICK f \in AllFiles : Leads(store, ops, f) /\ Prepared(f)
  BY DEF Plan
<1>4. Leads(store', Tail(ops), f)
  BY <1>1, <1>2, <1>3, LeadsOn
<1>5. /\ Head(ops) = ops[1] /\ ops[1] \in Ops /\ 1 \in 1..Len(ops)
      /\ Len(Tail(ops)) = Len(ops) - 1
      /\ \A i \in 1..Len(Tail(ops)) : i + 1 \in 1..Len(ops) /\ Tail(ops)[i] = ops[i + 1]
  BY <1>1, <1>2
<1> HIDE DEF ops
<1>6. Creates' => Creates
  BY <1>2, <1>5 DEF Creates, ops
<1>7. ~ torn' => Belongs(f)
  <2>1. CASE ~ torn
    BY <1>3, <2>1 DEF Prepared
  <2>2. CASE Head(ops).file = "token"
    <3>1. Creates
      BY <1>5, <2>2 DEF Creates, ops
    <3> QED BY <1>3, <3>1 DEF Prepared, Belongs
  <2>3. ~ torn' => ~ torn \/ Head(ops).file = "token"
    BY <1>1, Zenon
  <2> QED BY <2>1, <2>2, <2>3
<1>8. Prepared(f)'
  BY <1>1, <1>2, <1>3, <1>6, <1>7 DEF Prepared, Belongs
<1>9. CasAreOld'
  <2>1. ops[1].file \in Files /\ ops[1].value \in Contents[ops[1].file]
    BY <1>5, OpHas
  <2>2. store'.ca = IF ops[1].file = "ca" THEN ops[1].value ELSE store.ca
    BY <1>1, <1>5, <2>1 DEF AllFiles, Files
  <2>3. IsOld(store.ca) /\ \A i \in 1..Len(ops) : ops[i].file = "ca" => IsOld(ops[i].value)
    BY DEF CasAreOld, ops
  <2>4. IsOld(store'.ca)
    BY <1>5, <2>2, <2>3
  <2>5. \A i \in 1..Len(Tail(ops)) : Tail(ops)[i].file = "ca" => IsOld(Tail(ops)[i].value)
    BY <1>5, <2>3
  <2> QED BY <1>1, <1>2, <2>4, <2>5 DEF CasAreOld, IsOld
<1> QED BY <1>2, <1>3, <1>4, <1>8, <1>9 DEF Plan

LEMMA PlanSend ==
  ASSUME RegInv, NEW h \in Handlers, Send(h)
  PROVE  Plan' /\ CasAreOld'
<1> USE DEF RegInv, RegTypes
<1>1. /\ agent.pc = "files" /\ agent.todo = <<>>
      /\ agent'.pc = "wait" /\ agent'.todo = <<>>
      /\ UNCHANGED <<store, srv, torn>>
      /\ outdated' = IF outdated = "ca" THEN "no" ELSE outdated
  BY DEF Send, AgentType
<1>2. Prepared(store)
  BY <1>1, AtRest
<1>3. CasAreOld'
  BY <1>1 DEF CasAreOld, IsOld
<1>4. ~ torn => Belongs(store)'
  BY <1>1, <1>2 DEF Prepared, Belongs, CasAreOld, IsOld
<1>5. Prepared(store)'
  BY <1>1, <1>2, <1>4 DEF Prepared, Creates
<1>6. Leads(store, <<>>, store)'
  BY LeadsNone
<1> QED BY <1>1, <1>3, <1>5, <1>6 DEF Plan

\* A conflict is told only to an agent that has the CA of the server, which
\* then has everything; other answers bring all that was missing.
LEMMA PlanReceive ==
  ASSUME RegInv, Receive
  PROVE  Plan' /\ CasAreOld'
<1> USE DEF RegInv, RegTypes
<1> DEFINE answer == hs[agent.h].answer
<1>1. agent.pc = "wait" /\ AnswerFits(answer) /\ UNCHANGED <<store, srv, torn>>
  BY DEF Receive, Waits
<1>2. agent.todo = <<>>
  BY <1>1 DEF Plan, Prepared
<1>3. Prepared(store)
  BY <1>2, AtRest
<1>4. srv.ca \in Cas /\ srv.cert \in Certs /\ srv.ca # Missing /\ srv.cert # Missing
  BY BoundsAssumption DEF Spent, Cas, Certs, Missing
<1>5. CASE answer.kind = "error"
  <2>1. agent' = Off /\ outdated' = outdated
    BY <1>5 DEF Receive
  <2> QED BY <1>1, <1>2, <2>1, PlanOff DEF SameSecrets
<1>6. CASE answer.kind = "conflict"
  <2>1. /\ agent' = [agent EXCEPT !.pc = "store", !.id = answer.id, !.todo = <<>>]
        /\ outdated' = outdated
    BY <1>6 DEF Receive
  <2>2. agent'.pc = "store" /\ agent'.todo = <<>>
    BY <2>1 DEF AgentType
  <2>3. store.ca = srv.ca /\ Whole(store)
    BY <1>1, <1>3, <1>4, <1>6 DEF AnswerFits, Prepared
  <2>4. Prepared(store)'
    BY <1>1, <1>3, <2>1, <2>2, <2>3 DEF Prepared, Belongs, Creates
  <2>5. Leads(store, <<>>, store)'
    BY LeadsNone
  <2>6. CasAreOld'
    BY <1>1, <2>1, <2>2 DEF CasAreOld, IsOld
  <2> QED BY <1>1, <2>2, <2>4, <2>5, <2>6 DEF Plan
<1>7. CASE answer.kind = "ok"
  <2> DEFINE todo == StoreCerts(srv.ca, [key |-> store.key, ca |-> srv.ca], srv.cert)
  <2>1. /\ answer.cert = [key |-> store.key, ca |-> srv.ca] /\ answer.fp = srv.cert
        /\ answer.cert.ca = srv.ca
    BY <1>1, <1>7 DEF AnswerFits
  <2>2. /\ agent' = [agent EXCEPT !.pc = "store", !.id = answer.id, !.todo = todo]
        /\ outdated' = "no"
    BY <1>7, <2>1 DEF Receive
  <2>3. store.key \in Keys /\ store.token # Missing /\ store.key # Missing
    BY <1>1, <1>3 DEF Prepared, AllFiles
  <2>4. [key |-> store.key, ca |-> srv.ca] \in [key: Keys, ca: Cas]
    BY <1>4, <2>3
  <2>5. /\ todo \in Seq(StoreOps(srv.ca))
        /\ \E f \in AllFiles :
              /\ Leads(store, todo, f)
              /\ f.key = store.key /\ f.token = store.token
              /\ f.ca = srv.ca /\ f.cert = [key |-> store.key, ca |-> srv.ca]
              /\ f.fp = srv.cert
    BY <1>4, <2>4, StoreLeads
  <2> HIDE DEF todo, answer
  <2>6. agent'.pc = "store" /\ agent'.todo = todo
    BY <2>2 DEF AgentType
  <2>7. PICK f \in AllFiles :
              /\ Leads(store, todo, f)
              /\ f.key = store.key /\ f.token = store.token
              /\ f.ca = srv.ca /\ f.cert = [key |-> store.key, ca |-> srv.ca]
              /\ f.fp = srv.cert
    BY <2>5
  <2>8. Whole(f)
    <3>1. f.cert # NoCert
      BY <1>4, <2>7 DEF NoCert
    <3> QED BY <1>4, <2>3, <2>7, <3>1 DEF Whole, Files, Nothing
  <2>9. \A i \in 1..Len(todo) :
          todo[i].file # "token" /\ (todo[i].file = "ca" => todo[i].value \in {Missing, srv.ca})
    BY <2>5 DEF StoreOps
  <2>10. ~ Creates'
    BY <2>6, <2>9 DEF Creates
  <2>11. Prepared(f)'
    BY <1>1, <2>2, <2>3, <2>6, <2>7, <2>8, <2>10 DEF Prepared, Belongs
  <2>12. CasAreOld'
    <3>1. Missing <= srv.ca /\ srv.ca <= srv.ca
      BY DEF Spent, Missing
    <3> QED BY <1>1, <2>2, <2>6, <2>9, <3>1 DEF CasAreOld, IsOld
  <2> QED BY <1>1, <2>6, <2>7, <2>11, <2>12 DEF Plan
<1> QED BY <1>1, <1>5, <1>6, <1>7 DEF AnswerFits

LEMMA PlanStep ==
  ASSUME RegInv, Next
  PROVE  Plan' /\ CasAreOld'
<1>1. CASE StartService
  BY <1>1, PlanStart DEF StartService
<1>2. CASE RegisterCommand
  BY <1>2, PlanStart DEF RegisterCommand
<1>3. CASE FileStep \/ Receive \/ \E h \in Handlers : Send(h)
  BY <1>3, PlanFileStep, PlanReceive, PlanSend
<1>4. CASE Refused \/ PingFails \/ Crash
  <2>1. CASE Crash
    <3>1. agent' = Off /\ UNCHANGED <<store, outdated>> /\ SameSecrets
      BY <2>1 DEF Crash, SameSecrets
    <3>2. Tears
      BY <2>1 DEF Crash, Tears
    <3> QED BY <3>1, <3>2, PlanOff
  <2>2. CASE Refused \/ PingFails
    BY <2>2, PlanOff DEF Refused, PingFails, SameSecrets
  <2> QED BY <1>4, <2>1, <2>2
<1>5. CASE LoseAnswer \/ Stop
  <2>1. agent.todo = <<>>
    BY <1>5 DEF LoseAnswer, Stop, RegInv, Plan, Prepared
  <2> QED BY <1>5, <2>1, PlanOff DEF LoseAnswer, Stop, SameSecrets
<1>6. CASE Finish \/ \E h \in Handlers : Ping(h)
  <2>1. /\ agent.pc = "store" /\ agent.todo = <<>>
        /\ UNCHANGED <<store, srv, torn, outdated>>
        /\ agent'.pc \in {"up", "done"} /\ agent'.todo = <<>>
    BY <1>6 DEF Finish, Ping, RegInv, RegTypes, AgentType
  <2>2. Prepared(store)
    BY <2>1, AtRest
  <2>3. Prepared(store)'
    BY <2>1, <2>2 DEF Prepared, Belongs, Creates
  <2>4. Leads(store, <<>>, store)'
    BY LeadsNone
  <2>5. CasAreOld'
    BY <2>1 DEF RegInv, CasAreOld, IsOld
  <2> QED BY <2>1, <2>3, <2>4, <2>5 DEF RegInv, RegTypes, Plan
<1>7. ASSUME NEW h \in Handlers,
             \/ CreateMachineRead(h) \/ CreateMachineWrite(h)
             \/ UpdateMachineRead(h) \/ UpdateMachineWrite(h)
             \/ RefreshRead(h) \/ RefreshWrite(h)
      PROVE  Plan' /\ CasAreOld'
  BY <1>7, PlanKept DEF CreateMachineRead, CreateMachineWrite, UpdateMachineRead,
       UpdateMachineWrite, RefreshRead, RefreshWrite, SameSecrets
<1>8. CASE DeleteMachine \/ ToggleRegistration
  BY <1>8, PlanKept DEF DeleteMachine, ToggleRegistration, SameSecrets
<1>9. CASE RegenerateServerToken
  BY <1>9, PlanKept DEF RegenerateServerToken, SameSecrets, RegInv, RegTypes, Spent
<1>10. ASSUME NEW secrets, Restart(secrets),
              \/ /\ secrets.ca = srv.ca + 1 /\ outdated' = "ca"
              \/ /\ secrets.ca = srv.ca
                 /\ outdated' = IF outdated = "ca" THEN "ca" ELSE "cert"
       PROVE  Plan' /\ CasAreOld'
  <2> USE DEF RegInv, RegTypes
  <2>1. /\ UNCHANGED <<store, torn>> /\ srv' = secrets
        /\ agent' = IF agent.pc = "wait" THEN Off ELSE agent
    BY <1>10 DEF Restart
  <2>2. agent.pc = "wait" => agent.todo = <<>>
    BY DEF Plan, Prepared
  <2>3. agent'.todo = agent.todo /\ agent'.pc \in {agent.pc, "off"}
    BY <2>1, <2>2, OffIsTyped
  <2>4. agent'.pc # "off" => agent'.pc = agent.pc
    BY <2>3
  <2>5. outdated' # "no" /\ srv.ca \in Nat
    BY <1>10 DEF Spent
  <2>6. PICK f \in AllFiles : Leads(store, agent.todo, f) /\ Prepared(f)
    BY DEF Plan
  <2>7. agent'.pc = "off" => agent.pc \in {"off", "wait"}
    BY <2>1
  <2>8. Prepared(f)'
    BY <2>1, <2>2, <2>3, <2>4, <2>5, <2>6, <2>7 DEF Prepared, Belongs, Creates
  <2>9. \A ca \in Nat : IsOld(ca) => IsOld(ca)'
    BY <1>10, <2>1, <2>5 DEF IsOld
  <2>10. store.ca \in Nat
    BY DEF AllFiles, Cas, Missing
  <2>11. \A i \in 1..Len(agent.todo) :
           agent.todo[i].file = "ca" => agent.todo[i].value \in Nat
    <3>1. agent.todo \in Seq(Ops)
      BY DEF AgentType
    <3>2. ASSUME NEW i \in 1..Len(agent.todo), agent.todo[i].file = "ca"
          PROVE  agent.todo[i].value \in Nat
      <4>1. agent.todo[i].value \in Contents["ca"]
        BY <3>1, <3>2, OpHas
      <4> QED BY <4>1 DEF Contents, Cas, Missing
    <3> QED BY <3>2
  <2>12. CasAreOld'
    BY <2>1, <2>3, <2>9, <2>10, <2>11 DEF CasAreOld
  <2> QED BY <2>1, <2>3, <2>6, <2>8, <2>12 DEF Plan
<1>11. CASE RotateCA
  <2>1. [srv EXCEPT !.ca = srv.ca + 1, !.cert = srv.cert + 1].ca = srv.ca + 1
    BY DEF RegInv, RegTypes, Spent
  <2> QED BY <1>10, <1>11, <2>1 DEF RotateCA
<1>12. CASE RenewServerCert
  <2>1. [srv EXCEPT !.cert = srv.cert + 1].ca = srv.ca
    BY DEF RegInv, RegTypes, Spent
  <2> QED BY <1>10, <1>12, <2>1 DEF RenewServerCert
<1> QED BY <1>1, <1>2, <1>3, <1>4, <1>5, <1>6, <1>7, <1>8, <1>9, <1>11, <1>12 DEF Next

-----------------------------------------------------------------------------
(***************************************************************************)
(* What the agent waits for.                                               *)
(***************************************************************************)
LEMMA WaitsKept ==
  ASSUME RegInv, UNCHANGED <<store, agent>>, SameSecrets,
         agent.pc = "wait" => hs'[agent.h] = hs[agent.h]
  PROVE  Waits'
  BY DEF RegInv, Waits, AnswerFits, RequestFits, SameSecrets

LEMMA HandlerIs ==
  ASSUME RegTypes, NEW h \in Handlers, NEW handler, hs' = [hs EXCEPT ![h] = handler]
  PROVE  \A g \in Handlers : hs'[g] = IF g = h THEN handler ELSE hs[g]
  BY DEF RegTypes, HandlersAreFunction

LEMMA WaitsReply ==
  ASSUME RegInv, NEW h \in Handlers, NEW answer, Reply(h, answer),
         UNCHANGED <<store, agent, srv>>,
         WaitedFor(h) => AnswerFits(answer)
  PROVE  Waits'
<1> USE DEF RegInv
<1>1. agent.h \in Handlers
  BY DEF RegTypes, AgentType
<1>2. CASE WaitedFor(h)
  <2>1. hs'[h].pc = "answered" /\ hs'[h].answer = answer
    BY <1>2 DEF Reply, Idle, RegTypes, HandlersAreFunction
  <2> QED BY <1>2, <2>1 DEF Waits, WaitedFor, AnswerFits
<1>3. CASE ~ WaitedFor(h)
  <2>1. agent.pc = "wait" => hs'[agent.h] = hs[agent.h]
    BY <1>1, <1>3, HandlerIs DEF Reply, WaitedFor
  <2> QED BY <2>1, WaitsKept DEF SameSecrets
<1> QED BY <1>2, <1>3

\* An agent that waits for a handler has its request there.
LEMMA WaitsForItsRequest ==
  ASSUME RegInv, NEW h \in Handlers, WaitedFor(h)
  PROVE  /\ hs[h] # Idle
         /\ hs[h].pc \in {"create", "write", "answered"}
         /\ hs[h].pc \in {"create", "write"} => RequestFits(hs[h].req)
  BY IdleIsTyped DEF RegInv, Waits, WaitedFor

LEMMA WaitsCreate ==
  ASSUME RegInv, NEW h \in Handlers,
         CreateMachineRead(h) \/ CreateMachineWrite(h)
  PROVE  Waits'
<1> USE DEF RegInv, RegTypes
<1>1. CASE CreateMachineRead(h)
  <2> DEFINE req == hs[h].req
  <2>1. UNCHANGED <<store, agent, srv>> /\ hs[h].pc = "create"
    BY <1>1 DEF CreateMachineRead
  <2>2. CASE HasCerts(req) /\ Reply(h, Answer("conflict", row.id, NoCert, 0))
    <3>1. row.id \in Ids
      BY <2>2 DEF HasCerts, Known, Row
    <3>2. WaitedFor(h) => AnswerFits(Answer("conflict", row.id, NoCert, 0))
      BY <2>1, <2>2, <3>1, WaitsForItsRequest
         DEF AnswerFits, Answer, HasCerts, RequestFits
    <3> QED BY <2>1, <2>2, <3>2, WaitsReply
  <2>3. CASE Reply(h, Answer("error", 0, NoCert, 0))
    <3>1. AnswerFits(Answer("error", 0, NoCert, 0))
      BY DEF AnswerFits, Answer
    <3> QED BY <2>1, <2>3, <3>1, WaitsReply
  <2>4. CASE \E auth :
               hs' = [hs EXCEPT ![h] =
                 [Idle EXCEPT !.pc = "write", !.req = req, !.m = row, !.auth = auth]]
    <3>1. PICK auth :
               hs' = [hs EXCEPT ![h] =
                 [Idle EXCEPT !.pc = "write", !.req = req, !.m = row, !.auth = auth]]
      BY <2>4
    <3>2. agent.h \in Handlers
      BY DEF AgentType
    <3>3. CASE WaitedFor(h)
      <4>1. hs'[h].pc = "write" /\ hs'[h].req = req
        BY <3>1 DEF Idle, HandlersAreFunction
      <4> QED BY <2>1, <3>3, <4>1, WaitsForItsRequest DEF Waits, WaitedFor, RequestFits
    <3>4. CASE ~ WaitedFor(h)
      <4>1. agent.pc = "wait" => hs'[agent.h] = hs[agent.h]
        BY <3>1, <3>2, <3>4, HandlerIs DEF WaitedFor
      <4> QED BY <2>1, <4>1, WaitsKept DEF SameSecrets
    <3> QED BY <3>3, <3>4
  <2> QED BY <1>1, <2>2, <2>3, <2>4 DEF CreateMachineRead
<1>2. CASE CreateMachineWrite(h)
  <2>1. /\ UNCHANGED <<store, agent, srv>> /\ hs[h].pc = "write"
    BY <1>2 DEF CreateMachineWrite
  <2>2. PICK id : id = IF hs[h].m = NoRow THEN NewId ELSE hs[h].m.id
    OBVIOUS
  <2>3. id \in Ids
    <3>1. hs[h].m \in Row \union {NoRow}
      BY DEF HandlersTyped, HandlerTyped
    <3>2. NewId \in Ids
      BY BoundsAssumption DEF Spent, NewId, Ids
    <3> QED BY <2>2, <3>1, <3>2 DEF Row
  <2>4. \/ Reply(h, Answer("error", 0, NoCert, 0))
        \/ Reply(h, Answer("ok", id, [key |-> hs[h].req.key, ca |-> srv.ca], srv.cert))
    BY <1>2, <2>2 DEF CreateMachineWrite
  <2>5. CASE Reply(h, Answer("error", 0, NoCert, 0))
    <3>1. AnswerFits(Answer("error", 0, NoCert, 0))
      BY DEF AnswerFits, Answer
    <3> QED BY <2>1, <2>5, <3>1, WaitsReply
  <2>6. CASE Reply(h, Answer("ok", id, [key |-> hs[h].req.key, ca |-> srv.ca], srv.cert))
    <3> DEFINE answer == Answer("ok", id, [key |-> hs[h].req.key, ca |-> srv.ca], srv.cert)
    <3>1. WaitedFor(h) => AnswerFits(answer)
      BY <2>1, <2>3, WaitsForItsRequest DEF AnswerFits, Answer, RequestFits
    <3> HIDE DEF answer
    <3> QED BY <2>1, <2>6, <3>1, WaitsReply DEF answer
  <2> QED BY <2>4, <2>5, <2>6
<1> QED BY <1>1, <1>2

LEMMA WaitsStep ==
  ASSUME RegInv, Next
  PROVE  Waits'
<1> USE DEF RegInv, RegTypes
<1>0. agent.h \in Handlers
  BY DEF AgentType
<1>1. ASSUME agent'.pc # "wait"
      PROVE  Waits'
  BY <1>1 DEF Waits
<1>2. CASE StartService \/ RegisterCommand
  BY <1>1, <1>2 DEF StartService, RegisterCommand, Start, Off
<1>3. CASE FileStep
  BY <1>1, <1>3 DEF FileStep, AgentType
<1>4. CASE Receive
  BY <1>1, <1>4, OffIsTyped DEF Receive, AgentType
<1>5. CASE Refused \/ LoseAnswer \/ PingFails \/ Stop \/ Crash
  BY <1>1, <1>5, OffIsTyped DEF Refused, LoseAnswer, PingFails, Stop, Crash
<1>6. CASE Finish \/ \E h \in Handlers : Ping(h)
  BY <1>1, <1>6 DEF Finish, Ping, AgentType
<1>7. ASSUME NEW h \in Handlers, Send(h)
      PROVE  Waits'
  <2>1. agent'.h = h /\ UNCHANGED store
    BY <1>7 DEF Send, AgentType
  <2>2. /\ hs'[h].pc = "create"
        /\ hs'[h].req = [key |-> store.key, token |-> store.token, ca |-> store.ca,
                          serverToken |-> agent.serverToken]
    BY <1>7 DEF Send, Idle, HandlersAreFunction
  <2> QED BY <2>1, <2>2 DEF Waits, RequestFits
<1>8. ASSUME NEW h \in Handlers, CreateMachineRead(h) \/ CreateMachineWrite(h)
      PROVE  Waits'
  BY <1>8, WaitsCreate
<1>9. ASSUME NEW h \in Handlers,
             \/ UpdateMachineRead(h) \/ UpdateMachineWrite(h)
             \/ RefreshRead(h) \/ RefreshWrite(h)
      PROVE  Waits'
  <2>1. UNCHANGED <<store, agent, srv>>
    BY <1>9 DEF UpdateMachineRead, UpdateMachineWrite, RefreshRead, RefreshWrite
  <2>2. hs[h] = Idle \/ hs[h].pc \in {"update", "refresh"}
    BY <1>9 DEF UpdateMachineRead, UpdateMachineWrite, RefreshRead, RefreshWrite
  <2>3. ~ WaitedFor(h)
    BY <2>2, WaitsForItsRequest
  <2>4. \E handler : hs' = [hs EXCEPT ![h] = handler]
    BY <1>9 DEF UpdateMachineRead, UpdateMachineWrite, RefreshRead, RefreshWrite
  <2>5. agent.pc = "wait" => hs'[agent.h] = hs[agent.h]
    BY <1>0, <2>3, <2>4, HandlerIs DEF WaitedFor
  <2> QED BY <2>1, <2>5, WaitsKept DEF SameSecrets
<1>10. CASE DeleteMachine \/ ToggleRegistration
  BY <1>10, WaitsKept DEF DeleteMachine, ToggleRegistration, SameSecrets
<1>11. CASE RegenerateServerToken
  BY <1>11, WaitsKept DEF RegenerateServerToken, SameSecrets, Spent
<1>12. CASE RotateCA \/ RenewServerCert
  BY <1>1, <1>12, OffIsTyped DEF RotateCA, RenewServerCert, Restart
<1> QED BY <1>2, <1>3, <1>4, <1>5, <1>6, <1>7, <1>8, <1>9, <1>10, <1>11, <1>12 DEF Next

LEMMA RegStep == RegInv /\ [Next]_vars => RegInv'
<1> SUFFICES ASSUME RegInv, [Next]_vars PROVE RegInv'
  OBVIOUS
<1>1. CASE UNCHANGED vars
  BY <1>1 DEF vars, RegInv, RegTypes, HandlersAreFunction, HandlersTyped, Spent, Plan,
       Prepared, Belongs, Creates, CasAreOld, IsOld, Waits, AnswerFits, RequestFits
<1>2. CASE Next
  <2>1. RegTypes'
    BY <1>2, RegTypesAgent, RegTypesCreate, RegTypesOthers DEF Next
  <2> QED BY <1>2, <2>1, PlanStep, WaitsStep DEF RegInv
<1> QED BY <1>1, <1>2

\* An agent whose service runs or whose register command has ended well has all
\* its files, wherever it was killed, whatever answers were lost and whichever
\* files it found when it started.
THEOREM RegisteredHasFiles == Spec => []RegisteredIsComplete
<1>1. RegInv => RegisteredIsComplete
  BY RegMeans
<1> QED BY RegInit, RegStep, <1>1, PTL DEF Spec

\* Such an agent can be connected: the key, the certificate, the CA and the
\* server's fingerprint that it has belong together and to the server, unless
\* it was killed between two file operations and has not created a key since,
\* or the server's secrets have changed since its request.
THEOREM RegisteredIsConnected == Spec => []RegisteredConnects
<1>1. RegInv => RegisteredConnects
  BY RegMeans
<1> QED BY RegInit, RegStep, <1>1, PTL DEF Spec

=============================================================================
