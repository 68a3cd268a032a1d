-------------------------- MODULE MCConfigManager --------------------------
(* Small instances of ConfigManager for TLC. *)
EXTENDS ConfigManager, TLC

CONSTANTS u1, u2, d1, d2, o1, o2, t1, t2

\* One object shared by two daemons, one that belongs to the second of them.
MCOwners == o1 :> {d1, d2} @@ o2 :> {d2}

\* Users give every object to both daemons.
MCTargets == {{d1, d2}}
=============================================================================
