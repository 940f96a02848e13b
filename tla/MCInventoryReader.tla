------------------------- MODULE MCInventoryReader -------------------------
(* Instances of InventoryReader for TLC. *)
EXTENDS InventoryReader

CONSTANTS w1, v1, n1, n2

NoGuest == [v \in Vmids |-> None]
Container == [v \in Vmids |-> [type |-> "lxc", node |-> n1]]
OnlyContainer == {Container}
OnlyNoGuest == {NoGuest}
=============================================================================
