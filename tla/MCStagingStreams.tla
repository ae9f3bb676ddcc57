--------------------------- MODULE MCStagingStreams ---------------------------
(* Instances of StagingStreams and MonitorQueries for TLC. *)
EXTENDS MonitorQueries

CONSTANTS m1, m2

(* A message of machine m that has only the keys of r. *)
Message(m, r) ==
  [k \in {"machine", "parts", "program", "execution", "ok"} |->
     IF k = "machine" THEN m ELSE IF k \in DOMAIN r THEN r[k]
     ELSE IF k = "ok" THEN TRUE ELSE NULL]

(* The first message of a driver has every key; later ones a change or two. *)
ShopMessages ==
  {Message(m1, [parts |-> 1, program |-> "p", execution |-> "ACTIVE"]),
   Message(m1, [parts |-> 2]),
   Message(m1, [parts |-> 0, execution |-> "STOPPED"]),
   Message(m1, [parts |-> 1, program |-> "q"]),
   Message(m2, [parts |-> 1, program |-> "p", execution |-> "ACTIVE"]),
   Message(m2, [ok |-> FALSE])}
=============================================================================
