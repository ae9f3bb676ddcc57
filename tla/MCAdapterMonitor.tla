-------------------------- MODULE MCAdapterMonitor --------------------------
(* Small instances of the daemon, and the symmetry of its machines. *)
EXTENDS AdapterMonitor, TLC

AnyMachine == Permutations(Machines)
=============================================================================
