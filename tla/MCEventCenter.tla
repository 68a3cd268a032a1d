--------------------------- MODULE MCEventCenter ---------------------------
(* Small instances of EventCenter for TLC. *)
EXTENDS EventCenter

CONSTANTS e1, e2, s1, s2, s3, message, connectivity

\* A machine with a Kea application, which has a daemon, and a BIND 9 application.
MCApps ==
  [m \in {1} |-> << [id |-> 1, type |-> "kea", daemons |-> [n \in {"dhcp4"} |-> 1]],
                    [id |-> 2, type |-> "bind9", daemons |-> [n \in {"named"} |-> 2]] >>]

\* An informational event about the Kea daemon, on the stream connectivity; an
\* error of the BIND 9 application and a user, on no stream.
Daemon(d, a, m) == [k \in {"daemon", "app", "machine"} |->
                      CASE k = "daemon" -> d [] k = "app" -> a [] k = "machine" -> m]
App(a, m) == [k \in {"app", "machine"} |-> IF k = "app" THEN a ELSE m]
User(u) == [k \in {"user"} |-> u]

MCTags  == [e \in Events |-> IF e = e1 THEN {connectivity} ELSE {}]
MCLevel == [e \in Events |-> IF e = e1 THEN 0 ELSE 2]
MCAbout == [e \in Events |-> IF e = e1 THEN <<Daemon(1, 1, 1), App(1, 1)>> ELSE <<App(2, 1), User(1)>>]

\* The first subscriber follows the Kea daemon by its name, the second one
\* warnings of the BIND 9 application and the stream connectivity, and the
\* third one gives both an application and a type.
Asks(ss, level, machine, app, appType, name) ==
  [streams |-> ss, level |-> level, appType |-> appType, daemonName |-> name,
   ids |-> [k \in Kinds |-> CASE k = "machine" -> machine [] k = "app" -> app [] OTHER -> 0]]
MCQuery ==
  [s \in Subscribers |->
     CASE s = s1 -> Asks({message}, 0, 1, 0, "kea", "dhcp4")
       [] s = s2 -> Asks({message, connectivity}, 1, 0, 2, "", "")
       [] s = s3 -> Asks({message}, 0, 1, 1, "kea", "")]
=============================================================================
