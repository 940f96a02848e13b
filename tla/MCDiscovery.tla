---------------------------- MODULE MCDiscovery ----------------------------
(* Instances of Discovery for TLC. *)
EXTENDS Discovery

CONSTANTS w1, w2, v1, n1, n2

NoGuest == [v \in Vmids |-> None]
OnlyNoGuest == {NoGuest}
=============================================================================
