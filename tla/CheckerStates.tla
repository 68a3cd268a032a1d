---------------------------- MODULE CheckerStates ----------------------------
(***************************************************************************)
(* Which checkers are enabled: the checker controller and the dispatcher's *)
(* registry of checkers (src/stork/backend/server/configreview), the       *)
(* preferences in the database (server/database/model) and the requests    *)
(* that change both (server/restservice/config.go).                        *)
(*                                                                         *)
(* A request changes the controller one checker at a time, each user's in  *)
(* a goroutine of its own, and then writes the preferences, one statement  *)
(* after the other; it may end in between.  A start of the server loads    *)
(* the preferences into an empty controller.                               *)
(***************************************************************************)
EXTENDS Naturals, FiniteSets

CONSTANTS Users, Daemons, Checkers,
          Available,  \* the checkers registered for a daemon's groups
          Global,     \* the scope of a preference that belongs to no daemon
          MaxPuts     \* bound: requests

StatesAssumption ==
  /\ Global \notin Daemons /\ Available \in [Daemons -> SUBSET Checkers]
  /\ MaxPuts \in Nat

Scopes == Daemons \cup {Global}
States == {"inherit", "enabled", "disabled"}

VARIABLES states,       \* globalStates and daemonStates of the controller
          preferences,  \* the rows of config_checker_preference
          put,          \* the request of a user
          puts,         \* requests so far
          unsettled     \* changes of requests that failed or overlapped

vars == <<states, preferences, put, puts, unsettled>>

\* No entry in the controller and no row in the database are "inherit".
Nothing == [s \in Scopes |-> [c \in Checkers |-> "inherit"]]
Idle == [phase |-> "idle", scope |-> Global, changes |-> {}, left |-> {}]

Init ==
  /\ states = Nothing /\ preferences = Nothing
  /\ put = [u \in Users |-> Idle]
  /\ puts = 0 /\ unsettled = {}

-----------------------------------------------------------------------------
\* isCheckerEnabledForDaemon: the daemon's state, else the global one, else yes.
Enabled(st, d, c) ==
  \/ st[d][c] = "enabled"
  \/ st[d][c] = "inherit" /\ st[Global][c] # "disabled"

\* isCheckerAvailableForDaemon; nothing is asked of a global state.
Registered(s, c) == s = Global \/ c \in Available[s]

\* SetCheckerState refuses a checker that is not registered for the daemon,
\* setGlobalState the state "inherit".
Accepts(s, ch) == Registered(s, ch.checker) /\ (s = Global => ch.state # "inherit")

\* A global preference says "disabled"; otherwise there is none.
Row(s, state) == IF s = Global /\ state # "disabled" THEN "inherit" ELSE state

\* LoadAndValidateCheckerPreferences: a row that cannot be set is passed over.
Loaded(rows) ==
  [s \in Scopes |-> [c \in Checkers |-> IF Registered(s, c) THEN rows[s][c] ELSE "inherit"]]

-----------------------------------------------------------------------------
(* PutDaemonConfigCheckerPreferences, PutGlobalConfigCheckerPreferences.   *)

Touched(p) == {<<p.scope, ch.checker>> : ch \in p.changes}

\* A request names each checker once.
Begin(u) ==
  /\ put[u].phase = "idle" /\ puts < MaxPuts
  /\ \E s \in Scopes, changes \in (SUBSET [checker : Checkers, state : States]) \ {{}} :
       LET p == [phase |-> "set", scope |-> s, changes |-> changes, left |-> changes] IN
       /\ \A x, y \in changes : x.checker = y.checker => x = y
       /\ put' = [put EXCEPT ![u] = p]
       /\ unsettled' = unsettled \cup
            (Touched(p) \cap UNION {Touched(put[v]) : v \in Users \ {u}})
  /\ puts' = puts + 1
  /\ UNCHANGED <<states, preferences>>

Fail(u) ==
  /\ unsettled' = unsettled \cup Touched(put[u])
  /\ put' = [put EXCEPT ![u] = Idle]

\* SetCheckerState for the next change; a refusal ends the request, and what
\* was set before stays set.
Set(u) ==
  LET p == put[u] IN
  /\ p.phase = "set"
  /\ \E ch \in p.left :
       IF Accepts(p.scope, ch)
       THEN /\ states' = [states EXCEPT ![p.scope][ch.checker] = ch.state]
            /\ put' = [put EXCEPT ![u].left = @ \ {ch}, ![u].phase = IF p.left = {ch} THEN "upsert" ELSE "set"]
            /\ UNCHANGED unsettled
       ELSE Fail(u) /\ UNCHANGED states
  /\ UNCHANGED <<preferences, puts>>

Upserted(p) == {ch \in p.changes : Row(p.scope, ch.state) # "inherit"}

\* One statement inserts or updates all rows.
Upsert(u) ==
  LET p == put[u] IN
  /\ p.phase = "upsert"
  /\ preferences' = [preferences EXCEPT ![p.scope] =
       [c \in Checkers |-> IF \E ch \in Upserted(p) : ch.checker = c
                           THEN (CHOOSE ch \in Upserted(p) : ch.checker = c).state ELSE @[c]]]
  /\ put' = [put EXCEPT ![u].phase = "delete", ![u].left = p.changes \ Upserted(p)]
  /\ UNCHANGED <<states, puts, unsettled>>

\* Rows are deleted one by one; the statements do not run in the transaction
\* that is opened for them.
Delete(u) ==
  LET p == put[u] IN
  /\ p.phase = "delete"
  /\ IF p.left = {}
     THEN put' = [put EXCEPT ![u] = Idle] /\ UNCHANGED preferences
     ELSE \E ch \in p.left :
            /\ preferences' = [preferences EXCEPT ![p.scope][ch.checker] = "inherit"]
            /\ put' = [put EXCEPT ![u].left = @ \ {ch}]
  /\ UNCHANGED <<states, puts, unsettled>>

\* The database fails.
CommitFails(u) ==
  /\ put[u].phase \in {"upsert", "delete"}
  /\ Fail(u)
  /\ UNCHANGED <<states, preferences, puts>>

\* The server starts anew, in any state.
Restart ==
  /\ states' = Loaded(preferences)
  /\ put' = [u \in Users |-> Idle]
  /\ unsettled' = {}
  /\ UNCHANGED <<preferences, puts>>

Put(u) == Begin(u) \/ Set(u) \/ Upsert(u) \/ Delete(u) \/ CommitFails(u)
Next == (\E u \in Users : Put(u)) \/ Restart
Spec == Init /\ [][Next]_vars

-----------------------------------------------------------------------------
\* A checker whose state no request is changing, failed to change or changed
\* while another did, is enabled for a daemon exactly if it will be after a
\* restart of the server.
StatesSurviveRestart ==
  \A d \in Daemons : \A c \in Available[d] :
    LET own == {<<d, c>>, <<Global, c>>} IN
    own \cap (unsettled \cup UNION {Touched(put[u]) : u \in Users}) = {} =>
      (Enabled(states, d, c) <=> Enabled(Loaded(preferences), d, c))
=============================================================================
