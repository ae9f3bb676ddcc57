------------------------------ MODULE MCRowSinks ------------------------------
(* Instances of RowSinks for TLC. *)
EXTENDS RowSinks

(* The streams with Connect, also next to a dump into their table, and the *)
(* two debug consumers by themselves.                                      *)
SideBySide ==
  {{"streams", "connect"}, {"streams", "connect", "dump"}, {"consumer", "dump"}}
=============================================================================
