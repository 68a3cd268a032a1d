------------------------ MODULE MCReviewDispatcher ------------------------
(* Small instances of ReviewDispatcher for TLC. *)
EXTENDS ReviewDispatcher

CONSTANTS d1, d2

MCOrder == SetToSeq(Daemons)

\* As in the tests of the dispatcher: the checkers of one daemon refer to another.
MCRefs == [d \in Daemons |-> IF d = d1 THEN Daemons \ {d1} ELSE {}]

=============================================================================
