------------------------- MODULE MCDatabaseLifecycle -------------------------
(* Instances of DatabaseLifecycle for TLC. Every session has a user id of   *)
(* its own, named like the session.                                         *)
EXTENDS DatabaseLifecycle, TLC

CONSTANTS s1, s2, s3

TwoSessions == {s1, s2}
ThreeSessions == {s1, s2, s3}
OwnUser == [s \in Session |-> s]
Symmetry == Permutations(ThreeSessions)
=============================================================================
