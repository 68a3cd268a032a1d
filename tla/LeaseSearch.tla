---------------------------- MODULE LeaseSearch ----------------------------
(***************************************************************************)
(* The search for leases: GET /leases and the functions of                 *)
(* server/apps/kea/lease.go behind it.  The server asks the Kea             *)
(* applications it knows, one after the other, while the leases they hold  *)
(* come and go, and any of the calls may fail.  A search is by a text (an  *)
(* address, an identifier or a host name), for the declined leases, or for *)
(* the leases of a host reservation.                                       *)
(*                                                                         *)
(* A lease is a record [id, family, type, address, hw, client, duid,       *)
(* hostname, state]; Empty stands for an absent identifier.  A text is a   *)
(* record [kind, value, short], where kind is what net.ParseIP and         *)
(* IsHexIdentifier make of it and short tells an identifier of less than   *)
(* three bytes.  A command is a pair of its name and its argument.         *)
(***************************************************************************)
EXTENDS Naturals, Sequences, SequencesExt

CONSTANTS
  Apps,        \* the applications, in the order the database gives them
  Recent,      \* those of them that run Kea 2.3.8 or later
  Hooks,       \* app -> families whose daemon loads lease_cmds, per Stork
  Leases,      \* the leases Kea may hold
  Texts,       \* the texts searched for
  Host,        \* the host reservation: [addresses, ids, flexible]
  Empty,       \* the empty identifier
  MaxChanges   \* bound: leases granted or expired during a search

VARIABLES
  held,        \* app -> the leases its daemons hold
  search,      \* what is searched for: a text, or NoText("declined"/"host")
  queryType,   \* what FindLeases takes the text for
  position,    \* the index of the application asked
  left,        \* the addresses still to ask it for
  failing,     \* its daemons that returned an error (host search)
  found, erred, \* the leases found, with their applications; those in error
  throughout,  \* app -> leases held since the search began
  changes

vars == <<held, search, queryType, position, left, failing, found,
          erred, throughout, changes>>

AppSet == Range(Apps)

(***************************************************************************)
(* Kea keeps no identifiers of declined leases, and the identifiers that   *)
(* are searched for are not what stands for an empty one.                  *)
(***************************************************************************)
SearchAssumption ==
  /\ Apps \in Seq(AppSet) /\ Hooks \in [AppSet -> SUBSET {4, 6}]
  /\ \A l \in Leases :
       /\ l.family = 4 \/ (l.family = 6 /\ l.type \in {"IA_NA", "IA_PD"})
       /\ l.family = 4 => l.type = "V4"
       /\ l.state = "declined" => l.hw = Empty /\ l.duid = Empty
  /\ \A t \in Texts : /\ t.kind \in {"ipv4", "ipv6", "identifier", "hostname"}
                      /\ t.kind = "identifier" => t.value \notin {Empty, "0", "00:00:00"}
  /\ \A r \in Host.addresses : r = <<r[1], r[2]>> /\ r[1] \in {"v4", "na", "pd"}

NoText(kind) == [kind |-> kind, value |-> Empty, short |-> FALSE]
Idle   == search.kind = "none"
Asking == ~Idle /\ position <= Len(Apps)
Done   == ~Idle /\ position > Len(Apps)
app    == Apps[position]

(***************************************************************************)
(* The empty DUID as each version of Kea writes it.                        *)
(***************************************************************************)
EmptyDUID(a) == IF a \in Recent THEN "00:00:00" ELSE "0"

(***************************************************************************)
(* What Kea finds for a command.                                           *)
(***************************************************************************)
Selects(a, c, l) ==
  LET name == c[1]  value == c[2] IN
  \/ name = "lease4-get" /\ l.family = 4 /\ l.address = value
  \/ name = "lease6-get-na" /\ l.type = "IA_NA" /\ l.address = value
  \/ name = "lease6-get-pd" /\ l.type = "IA_PD" /\ l.address = value
  \/ name = "lease4-get-by-hw-address" /\ l.family = 4 /\ l.hw = value
  \/ name = "lease4-get-by-client-id" /\ l.family = 4 /\ l.client = value
  \/ name = "lease4-get-by-hostname" /\ l.family = 4 /\ l.hostname = value
  \/ name = "lease6-get-by-hostname" /\ l.family = 6 /\ l.hostname = value
  \/ /\ name = "lease6-get-by-duid" /\ l.family = 6
     /\ value = IF l.duid = Empty THEN EmptyDUID(a) ELSE l.duid

Answer(a, c) == { l \in held[a] : Selects(a, c, l) }

(***************************************************************************)
(* The commands of a search by properties, for the daemons that load the   *)
(* hook, and their argument: an empty hardware address is sent as it is,   *)
(* an empty DUID in the form of the Kea asked.                             *)
(***************************************************************************)
hasLeaseCmdsHook(a, family) == family \in Hooks[a]

Argument(a, name, value) ==
  IF name = "lease6-get-by-duid" /\ value = Empty THEN EmptyDUID(a) ELSE value

Commands(a, names4, names6, value) ==
  { <<n, Argument(a, n, value)>> :
      n \in UNION { IF hasLeaseCmdsHook(a, 4) THEN names4 ELSE {},
                    IF hasLeaseCmdsHook(a, 6) THEN names6 ELSE {} } }

(***************************************************************************)
(* All commands go in one call.  The call fails as a whole, or each        *)
(* command is answered or refused by its daemon; a refusal is a warning    *)
(* that puts the application among the erred ones, and keeps the leases of *)
(* the others.  Without a command nothing is sent.                         *)
(***************************************************************************)
Pairs(a, ls) == { <<a, l>> : l \in ls }

ErredWith(a, sent, refused)         == IF ~sent \/ refused # {} THEN {a} ELSE {}
ErredOnFailure(a, sent, refused)    == IF ~sent THEN {a} ELSE {}   \* a slip: warnings are lost

NewlyErred(a, sent, refused) == ErredWith(a, sent, refused)

getLeasesByProperties(a, commands, unwanted) ==
  \E sent \in BOOLEAN, refused \in SUBSET commands :
    /\ commands = {} => sent
    /\ ~sent => refused = commands
    /\ found' = found \cup
         Pairs(a, (UNION { Answer(a, c) : c \in commands \ refused }) \ unwanted)
    /\ erred' = erred \cup NewlyErred(a, sent, refused)

(***************************************************************************)
(* One command for one address: the call or the daemon fails, or the       *)
(* answer holds the lease or is empty.                                     *)
(***************************************************************************)
GetLease(a, c, failed) ==
  /\ found' = IF failed THEN found ELSE found \cup Pairs(a, Answer(a, c))
  /\ erred' = IF failed THEN erred \cup {a} ELSE erred

(***************************************************************************)
(* An address to ask for: an IPv4 or IPv6 address, or a delegated prefix.  *)
(***************************************************************************)
FamilyOf(r) == IF r[1] = "v4" THEN 4 ELSE 6
CommandFor(r) ==
  CASE r[1] = "v4" -> <<"lease4-get", r[2]>>
    [] r[1] = "na" -> <<"lease6-get-na", r[2]>>
    [] r[1] = "pd" -> <<"lease6-get-pd", r[2]>>

(***************************************************************************)
(* Going on to the next application, with what will be asked of it.        *)
(***************************************************************************)
WhatToAsk(type, value) ==
  CASE type = "host" -> Host.addresses
    [] type = "ipv6" -> {<<"na", value>>, <<"pd", value>>}
    [] OTHER -> {}

NextApp ==
  /\ position' = position + 1
  /\ left' = WhatToAsk(queryType, search.value)
  /\ failing' = {}

Untouched == UNCHANGED <<held, search, throughout, changes>>

Init ==
  /\ held \in [AppSet -> SUBSET {}]
  /\ search = NoText("none") /\ queryType = "none"
  /\ position = 1 /\ left = {} /\ failing = {}
  /\ found = {} /\ erred = {}
  /\ throughout = held
  /\ changes = 0

-----------------------------------------------------------------------------
(***************************************************************************)
(* GetLeases chooses the search.  The kind of a text is kept for the whole *)
(* search.                                                                 *)
(***************************************************************************)
GetLeases ==
  /\ Idle
  /\ search' \in Texts \cup {NoText("declined"), NoText("host")}
  /\ queryType' = search'.kind
  /\ left' = WhatToAsk(queryType', search'.value)
  /\ throughout' = held
  /\ UNCHANGED <<held, position, failing, found, erred, changes>>

By(kinds) == Asking /\ queryType \in kinds

FindLease4 ==
  /\ By({"ipv4"})
  /\ IF hasLeaseCmdsHook(app, 4)
     THEN \E failed \in BOOLEAN : GetLease(app, <<"lease4-get", search.value>>, failed)
     ELSE UNCHANGED <<found, erred>>
  /\ NextApp
  /\ UNCHANGED queryType /\ Untouched

(***************************************************************************)
(* An IPv6 text is asked for as an address and, unless that gave a lease,  *)
(* as a delegated prefix; an error does not end it.                        *)
(***************************************************************************)
FindLease6 ==
  /\ By({"ipv6"})
  /\ hasLeaseCmdsHook(app, 6)
  /\ \E r \in left, failed \in BOOLEAN :
       LET c == CommandFor(r) IN
       /\ r[1] = "pd" => left = {r}
       /\ GetLease(app, c, failed)
       /\ IF r[1] = "na" /\ (failed \/ Answer(app, c) = {})
          THEN left' = left \ {r} /\ UNCHANGED <<position, failing>>
          ELSE NextApp
  /\ UNCHANGED queryType /\ Untouched

SkipApp6 ==
  /\ By({"ipv6"})
  /\ ~hasLeaseCmdsHook(app, 6)
  /\ NextApp
  /\ UNCHANGED <<queryType, found, erred>> /\ Untouched

(***************************************************************************)
(* An identifier too short for a DHCPv6 server from Kea 2.3.8 on is taken  *)
(* for a host name, by this application and by those after it.             *)
(***************************************************************************)
TypeFor(a) ==
  IF /\ queryType = "identifier" /\ search.short
     /\ hasLeaseCmdsHook(a, 6) /\ a \in Recent
  THEN "hostname" ELSE queryType

FindByProperties ==
  /\ By({"identifier", "hostname"})
  /\ queryType' = TypeFor(app)
  /\ LET cs == IF queryType' = "identifier"
               THEN Commands(app, {"lease4-get-by-hw-address", "lease4-get-by-client-id"},
                             {"lease6-get-by-duid"}, search.value)
               ELSE Commands(app, {"lease4-get-by-hostname"},
                             {"lease6-get-by-hostname"}, search.value)
     IN getLeasesByProperties(app, cs, {})
  /\ NextApp /\ Untouched

(***************************************************************************)
(* Declined leases have no identifiers: they are asked for by the empty    *)
(* hardware address and DUID, and the leases in other states left out.     *)
(***************************************************************************)
FindDeclined ==
  /\ By({"declined"})
  /\ getLeasesByProperties(app,
       Commands(app, {"lease4-get-by-hw-address"}, {"lease6-get-by-duid"}, Empty),
       { l \in Leases : l.state # "declined" })
  /\ NextApp
  /\ UNCHANGED queryType /\ Untouched

(***************************************************************************)
(* The leases of a host: one call per reserved address, in any order (they *)
(* are the keys of a map).  A daemon that failed is asked no more.         *)
(***************************************************************************)
FindByHost ==
  /\ By({"host"}) /\ left # {} /\ failing # {4, 6}
  /\ \E r \in left, failed \in BOOLEAN :
       LET f == FamilyOf(r) IN
       /\ IF f \notin failing /\ hasLeaseCmdsHook(app, f)
          THEN GetLease(app, CommandFor(r), failed)
          ELSE ~failed /\ UNCHANGED <<found, erred>>
       /\ failing' = IF failed THEN failing \cup {f} ELSE failing
       /\ left' = left \ {r}
  /\ UNCHANGED <<queryType, position>> /\ Untouched

NextForHost ==
  /\ By({"host"}) /\ (left = {} \/ failing = {4, 6})
  /\ NextApp
  /\ UNCHANGED <<queryType, found, erred>> /\ Untouched

(***************************************************************************)
(* The leases found that are not held for the host: none of their          *)
(* identifiers is one of the host's.  A host with an identifier that       *)
(* leases do not show has no conflicts.                                    *)
(***************************************************************************)
IdsOf(l) == { i \in { <<"client-id", l.client>>, <<"duid", l.duid>>,
                      <<"hw-address", l.hw>> } : i[2] # Empty }

findHostLeaseConflicts ==
  IF search.kind # "host" \/ Host.flexible THEN {}
  ELSE { p \in found : IdsOf(p[2]) \cap Host.ids = {} }

-----------------------------------------------------------------------------
(***************************************************************************)
(* Leases are granted and expire while the search goes on.  An address is  *)
(* leased once.                                                            *)
(***************************************************************************)
Grant(a, l) ==
  /\ changes < MaxChanges \/ Idle
  /\ \A m \in held[a] : m.address # l.address
  /\ held' = [held EXCEPT ![a] = @ \cup {l}]
  /\ changes' = IF Idle THEN changes ELSE changes + 1
  /\ UNCHANGED <<search, queryType, position, left, failing, found,
                 erred, throughout>>

Expire(a, l) ==
  /\ ~Idle /\ changes < MaxChanges
  /\ l \in held[a]
  /\ held' = [held EXCEPT ![a] = @ \ {l}]
  /\ throughout' = [throughout EXCEPT ![a] = @ \ {l}]
  /\ changes' = changes + 1
  /\ UNCHANGED <<search, queryType, position, left, failing, found, erred>>

(***************************************************************************)
(* The answer is given: the next search starts from nothing.               *)
(***************************************************************************)
Respond ==
  /\ Done
  /\ search' = NoText("none") /\ queryType' = "none" /\ position' = 1
  /\ left' = {} /\ failing' = {} /\ found' = {} /\ erred' = {} /\ changes' = 0
  /\ throughout' = [a \in AppSet |-> {}]
  /\ UNCHANGED held

Next ==
  \/ GetLeases \/ FindLease4 \/ FindLease6 \/ SkipApp6 \/ FindByProperties
  \/ FindDeclined \/ FindByHost \/ NextForHost \/ Respond
  \/ \E a \in AppSet, l \in Leases : Grant(a, l) \/ Expire(a, l)

Spec == Init /\ [][Next]_vars

-----------------------------------------------------------------------------
(***************************************************************************)
(* What the search is for.                                                 *)
(***************************************************************************)
Looked(l) ==
  CASE search.kind = "ipv4" -> l.family = 4 /\ l.address = search.value
    [] search.kind = "ipv6" -> l.family = 6 /\ l.address = search.value
    [] search.kind = "identifier" ->
         search.value \in IF l.family = 4 THEN {l.hw, l.client} ELSE {l.duid}
    [] search.kind = "hostname" -> l.hostname = search.value
    [] search.kind = "declined" -> l.state = "declined"
    [] search.kind = "host" -> \E r \in Host.addresses :
         r[2] = l.address /\ FamilyOf(r) = l.family /\ (r[1] = "pd" <=> l.type = "IA_PD")

TypeOK ==
  /\ held \in [AppSet -> SUBSET Leases]
  /\ position \in 1..(Len(Apps) + 1)
  /\ found \subseteq AppSet \X Leases
  /\ erred \subseteq AppSet
  /\ failing \subseteq {4, 6}

(***************************************************************************)
(* A search that ended has found every lease it is for that a daemon with  *)
(* the hook held from its beginning to its end, or names the application   *)
(* among those that failed ("the caller becomes aware that some leases may *)
(* not be included", lease.go:289), and it returns only leases it is for.  *)
(* A search for a host also names, among them, every lease that is held    *)
(* throughout by somebody else.                                            *)
(* A short identifier is left out: which applications are asked for it as  *)
(* an identifier depends on their order.                                   *)
(***************************************************************************)
SearchIsHonest ==
  Done /\ ~search.short =>
    /\ \A a \in AppSet \ erred : \A l \in throughout[a] :
         l.family \in Hooks[a] /\ Looked(l) => <<a, l>> \in found
    /\ \A p \in found : Looked(p[2])
    /\ search.kind = "host" /\ ~Host.flexible =>
         \A a \in AppSet \ erred : \A l \in throughout[a] :
           l.family \in Hooks[a] /\ Looked(l) /\ IdsOf(l) \cap Host.ids = {}
             => <<a, l>> \in findHostLeaseConflicts
=============================================================================
