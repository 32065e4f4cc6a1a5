---------------------------- MODULE MCLifecycle ----------------------------
(* Instances of Lifecycle for TLC.                                         *)
EXTENDS Lifecycle

CONSTANTS s1, c1, r1, p1, p2

OneSession == {s1}
OneChild   == {c1}
OneReader  == {r1}
NoReader   == {}
Lane       == {"lane"}
TwoProcs   == {p1, p2}
=============================================================================
