------------------------------ MODULE MCMachineApi ------------------------------
(* Instances of MachineApi for TLC. *)
EXTENDS MachineApi

CONSTANTS m1, m2

(* Two machines' addresses, and one at the last port there is. *)
ShopAddresses ==
  {[ip |-> "a", port |-> 8193], [ip |-> "b", port |-> 8193], [ip |-> "b", port |-> 65535]}

(* The second machine has no address yet. *)
ShopNets == {[a \in Valid |-> IF a.ip = "a" THEN m1 ELSE NULL]}
=============================================================================
