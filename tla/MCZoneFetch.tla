---------------------------- MODULE MCZoneFetch ----------------------------
(* Small instances of ZoneFetch for TLC. *)
EXTENDS ZoneFetch, TLC

CONSTANTS a1, a2, v1, v2, x, y

Z(v, n) == [view |-> v, name |-> n]

\* Nothing, or two views that share the name of a zone, where a row is left for
\* the last flush; and a batch that is filled by the last zone.
MCContents == a1 :> {<<>>, <<Z(v1, x), Z(v2, x)>>} @@ a2 :> {<<Z(v1, x), Z(v1, y)>>}
=============================================================================
