------------------------------- MODULE Access -------------------------------
(***************************************************************************)
(* Accounts and sessions: the handlers of server/restservice/users.go, the *)
(* tables of server/database/model/user.go, the sessions of                *)
(* server/database/session and the authorization of server/auth.           *)
(*                                                                         *)
(* A client has one request in progress at a time.  Requests of clients    *)
(* interleave at their database statements: UpdateUser opens a transaction *)
(* but runs its statements outside of it.                                  *)
(***************************************************************************)
EXTENDS Naturals, FiniteSets

CONSTANTS Clients, Users,
          Externals,    \* users that a hook authenticates, a subset of Users
          Root,         \* the user of the first migration
          MaxRequests   \* bound: requests

VARIABLES account,    \* system_user, its groups and its password, per user
          session,    \* the session of each client: a user and its groups
          request,    \* the request of each client
          requests,   \* requests so far
          asked,      \* the account as the last request that ended asked for
          unsettled   \* users whom requests that failed or overlapped concern

vars == <<account, session, request, requests, asked, unsettled>>

SuperAdmin == "super-admin"
Groups == {SuperAdmin, "admin"}
Nobody == [user |-> Root, groups |-> {"nobody"}]
LoggedIn(c) == session[c] # Nobody

WithPassword(g) == [exists |-> TRUE, groups |-> {g}, password |-> "old", change |-> TRUE]
NoAccount == [exists |-> FALSE, groups |-> {}, password |-> "none", change |-> FALSE]
NoRequest == [step |-> "none", user |-> Root, groups |-> {}, password |-> "none", change |-> FALSE, login |-> FALSE]

Init ==
  /\ account = [u \in Users |->
       IF u = Root THEN WithPassword(SuperAdmin) ELSE NoAccount]
  /\ session = [c \in Clients |-> Nobody]
  /\ request = [c \in Clients |-> NoRequest]
  /\ requests = 0
  /\ asked = account
  /\ unsettled = {}

-----------------------------------------------------------------------------
\* Authorize: a super-admin may do everything with accounts, another user
\* only what concerns itself.
Administrator(c) == LoggedIn(c) /\ SuperAdmin \in session[c].groups

Busy(u) == {c \in Clients : request[c].step # "none" /\ request[c].user = u}

Begin(c, r) ==
  /\ request[c] = NoRequest /\ requests < MaxRequests
  /\ requests' = requests + 1
  /\ request' = [request EXCEPT ![c] = r]
  /\ unsettled' = IF Busy(r.user) # {} THEN unsettled \cup {r.user} ELSE unsettled
  /\ UNCHANGED <<account, session, asked>>

Step(c) == request[c].step
Proceed(c, step) == request' = [request EXCEPT ![c].step = step]
End(c) == request' = [request EXCEPT ![c] = NoRequest]
Asks(c, a) == asked' = [asked EXCEPT ![request[c].user] = a]

\* A statement fails, because of the database or of a constraint.
Fail(c) ==
  /\ Step(c) # "none"
  /\ End(c)
  /\ unsettled' = unsettled \cup {request[c].user}
  /\ UNCHANGED <<account, session, requests, asked>>

-----------------------------------------------------------------------------
(* CreateSession, DeleteSession.                                           *)

Login(c) ==
  \/ \E u \in Users \ Externals :
       Begin(c, [NoRequest EXCEPT !.step = "authenticate", !.user = u, !.password = "old"])
  \/ \E u \in Externals, g \in Groups :
       Begin(c, [NoRequest EXCEPT !.step = "external", !.user = u, !.groups = {g}, !.login = TRUE])

\* The account with its password, read with its groups.
Authenticate(u, password) == account[u].exists /\ account[u].password = password

internalAuthentication(c) ==
  LET r == request[c]  a == account[r.user] IN
  /\ Step(c) = "authenticate"
  /\ IF Authenticate(r.user, r.password)
     THEN request' = [request EXCEPT ![c].step = "login", ![c].groups = a.groups]
     ELSE End(c)
  /\ UNCHANGED <<account, session, requests, asked, unsettled>>

\* The hook knows the user: it gets an account at its first login, and its
\* groups are updated at later ones.
externalAuthentication(c) ==
  LET r == request[c]  new == [NoAccount EXCEPT !.exists = TRUE, !.groups = r.groups] IN
  /\ Step(c) = "external"
  /\ IF account[r.user].exists
     THEN Proceed(c, "update row") /\ UNCHANGED <<account, asked>>
     ELSE /\ account' = [account EXCEPT ![r.user] = new]
          /\ Asks(c, new)
          /\ Proceed(c, "login")
  /\ UNCHANGED <<session, requests, unsettled>>

\* The token is renewed and the user is put into the session, and its groups if
\* it has any: otherwise the session keeps the groups of an earlier login.
LoginHandler(c) ==
  LET r == request[c] IN
  /\ Step(c) = "login"
  /\ session' = [session EXCEPT ![c] =
       [user |-> r.user,
        groups |-> IF r.groups = {} /\ LoggedIn(c) THEN session[c].groups ELSE r.groups]]
  /\ End(c)
  /\ UNCHANGED <<account, requests, asked, unsettled>>

DeleteSession(c) ==
  /\ Step(c) = "none" /\ LoggedIn(c)
  /\ session' = [session EXCEPT ![c] = Nobody]
  /\ UNCHANGED <<account, request, requests, asked, unsettled>>

-----------------------------------------------------------------------------
(* The accounts.                                                           *)

\* CreateUserWithPassword is one transaction; a login exists once.
CreateUser(c) ==
  \E u \in Users \ Externals, g \in Groups :
    LET new == WithPassword(g) IN
    /\ Step(c) = "none" /\ requests < MaxRequests
    /\ Administrator(c)
    /\ ~account[u].exists
    /\ account' = [account EXCEPT ![u] = new]
    /\ asked' = [asked EXCEPT ![u] = new]
    /\ requests' = requests + 1
    /\ unsettled' = IF Busy(u) # {} THEN unsettled \cup {u} ELSE unsettled
    /\ UNCHANGED <<session, request>>

\* The users' administration sends all that is to be known of an account; with
\* a new password it asks the user to change it.
UpdateUser(c) ==
  \E u \in Users, g \in Groups, p \in {"none", "new"} :
    /\ Administrator(c)
    /\ u \in Externals => p = "none"
    /\ Begin(c, [step |-> "update row", user |-> u, groups |-> {g}, password |-> p,
                 change |-> p # "none", login |-> FALSE])

UpdateRow(c) ==
  LET r == request[c] IN
  /\ Step(c) = "update row"
  /\ account[r.user].exists
  /\ account' = [account EXCEPT ![r.user].change = r.change]
  /\ Proceed(c, "delete groups")
  /\ UNCHANGED <<session, requests, asked, unsettled>>

DeleteGroups(c) ==
  /\ Step(c) = "delete groups"
  /\ account' = [account EXCEPT ![request[c].user].groups = {}]
  /\ Proceed(c, "create groups")
  /\ UNCHANGED <<session, requests, asked, unsettled>>

\* What a request asked for is noted when its last statement has ended.
Asked(c) ==
  LET r == request[c] IN
  [exists |-> TRUE, groups |-> r.groups, change |-> r.change,
   password |-> IF r.password = "none" THEN asked[r.user].password ELSE r.password]

CreateGroups(c) ==
  LET r == request[c] IN
  /\ Step(c) = "create groups"
  /\ account[r.user].exists
  /\ account' = [account EXCEPT ![r.user].groups = @ \cup r.groups]
  /\ IF r.password # "none" THEN Proceed(c, "set password") /\ UNCHANGED asked
     ELSE /\ Asks(c, Asked(c))
          /\ IF r.login THEN Proceed(c, "login") ELSE End(c)
  /\ UNCHANGED <<session, requests, unsettled>>

SetPassword(c) ==
  LET r == request[c] IN
  /\ Step(c) = "set password"
  /\ account[r.user].exists
  /\ account' = [account EXCEPT ![r.user].password = r.password]
  /\ Asks(c, Asked(c))
  /\ End(c)
  /\ UNCHANGED <<session, requests, unsettled>>

\* A row that is no longer there is an error of its own.
UpdateOfNobody(c) ==
  /\ Step(c) \in {"update row", "create groups", "set password"} /\ ~account[request[c].user].exists
  /\ Fail(c)

\* ChangePassword, for the user itself; a wrong old password ends it.
ChangePassword(c) ==
  \E old \in {"old", "new"} :
    LET u == session[c].user IN
    /\ LoggedIn(c) /\ u \notin Externals
    /\ Begin(c, [NoRequest EXCEPT !.step = IF account[u].password = old THEN "new password" ELSE "refused",
                                  !.user = u])

Refused(c) ==
  /\ Step(c) = "refused"
  /\ End(c)
  /\ UNCHANGED <<account, session, requests, asked, unsettled>>

NewPassword(c) ==
  LET u == request[c].user IN
  /\ Step(c) = "new password" /\ account[u].exists
  /\ account' = [account EXCEPT ![u].password = "new"]
  /\ Proceed(c, "reset flag")
  /\ UNCHANGED <<session, requests, asked, unsettled>>

ResetFlag(c) ==
  LET u == request[c].user IN
  /\ Step(c) = "reset flag"
  /\ account' = [account EXCEPT ![u].change = FALSE]
  /\ Asks(c, [asked[u] EXCEPT !.password = "new", !.change = FALSE])
  /\ End(c)
  /\ UNCHANGED <<session, requests, unsettled>>

\* DeleteUser refuses to delete the user of the session.
DeleteUser(c) ==
  \E u \in Users :
    /\ Administrator(c)
    /\ session[c].user # u /\ account[u].exists
    /\ Begin(c, [NoRequest EXCEPT !.step = "delete", !.user = u])

SuperAdmins == {u \in Users : SuperAdmin \in account[u].groups}

\* A trigger refuses to delete the last super-admin (of deletions that overlap
\* within this one statement, both may pass it).  Groups and password go with
\* the account.
DeleteRow(c) ==
  LET u == request[c].user IN
  /\ Step(c) = "delete" /\ account[u].exists
  /\ SuperAdmins # {u}
  /\ account' = [account EXCEPT ![u] = NoAccount]
  /\ Proceed(c, "logout")
  /\ UNCHANGED <<session, requests, asked, unsettled>>

\* LogoutUser goes through all the sessions.
LogoutUser(c) ==
  LET r == request[c] IN
  /\ Step(c) = "logout"
  /\ session' = [d \in Clients |-> IF session[d].user = r.user THEN Nobody ELSE session[d]]
  /\ Asks(c, NoAccount)
  /\ End(c)
  /\ UNCHANGED <<account, requests, unsettled>>

-----------------------------------------------------------------------------
Handler(c) ==
  \/ internalAuthentication(c) \/ externalAuthentication(c) \/ LoginHandler(c)
  \/ UpdateRow(c) \/ DeleteGroups(c) \/ CreateGroups(c) \/ SetPassword(c) \/ UpdateOfNobody(c)
  \/ Refused(c) \/ NewPassword(c) \/ ResetFlag(c)
  \/ DeleteRow(c) \/ LogoutUser(c)

Next ==
  \E c \in Clients :
    \/ Login(c) \/ DeleteSession(c) \/ CreateUser(c) \/ UpdateUser(c) \/ ChangePassword(c) \/ DeleteUser(c)
    \/ Handler(c) \/ Fail(c)

Spec == Init /\ [][Next]_vars

-----------------------------------------------------------------------------
(* Properties.                                                             *)

Settled(u) == Busy(u) = {} /\ u \notin unsettled

\* Once the requests about a user have ended, its account with its groups and
\* password is what the last of them asked for, unless some of them overlapped
\* or failed: none of their many statements undoes another's.
AccountsAreAsAsked == \A u \in Users : Settled(u) => account[u] = asked[u]

\* Who is logged in has an account: the deletion of an account ends all its
\* sessions, unless it failed or overlapped another request about the user.
LoggedInHaveAccounts ==
  \A c \in Clients : LoggedIn(c) /\ Settled(session[c].user) => account[session[c].user].exists
=============================================================================
