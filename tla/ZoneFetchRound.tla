--------------------------- MODULE ZoneFetchRound ---------------------------
(***************************************************************************)
(* What the DNS manager of the Stork server (server/dnsop/manager.go)      *)
(* promises about fetching zones: rounds follow each other, a round covers *)
(* a set of applications that is fixed when it starts, every application   *)
(* of the round is settled exactly once, with zones or with an error, and  *)
(* the round ends when all of them are.                                    *)
(***************************************************************************)
EXTENDS FiniteSets

CONSTANT Apps           \* monitored DNS servers

VARIABLES
  active,               \* a round is in progress
  pending               \* its applications that are not settled yet

vars == <<active, pending>>

Init == ~active /\ pending = {}

Start ==
  /\ ~active
  /\ active' = TRUE
  /\ pending' \in SUBSET Apps

Settle(a) ==
  /\ active
  /\ a \in pending
  /\ pending' = pending \ {a}
  /\ UNCHANGED active

End ==
  /\ active
  /\ pending = {}
  /\ active' = FALSE
  /\ UNCHANGED pending

Next == Start \/ (\E a \in Apps : Settle(a)) \/ End

Spec == Init /\ [][Next]_vars /\ WF_vars(End \/ \E a \in Apps : Settle(a))
=============================================================================
