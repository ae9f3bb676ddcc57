--------------------------- MODULE MCFanucDriver ---------------------------
(* Small controls for the driver to poll.  In each run only some fields of  *)
(* the control's state have more than one value; the rest stand still.      *)
EXTENDS FanucDriver

Status(run, aut, emergency, alarm) ==
  [run |-> run, motion |-> 0, mstb |-> 0, aut |-> aut, emergency |-> emergency,
   alarm |-> alarm]

Still ==
  [parts   |-> {3},
   status  |-> {Status(0, 1, 0, 0)},
   tool    |-> {[id |-> 7, group |-> 2, tcode |-> 11]},
   dynamic |-> {[absolute |-> 0, alarm |-> 0]},
   program |-> {[c |-> 1, m |-> 1, path |-> "//CNC/1"]},
   message |-> {[number |-> -1, text |-> ""]},
   block   |-> {"G01"}]

AnySwitch == Fields.program \X Fields.program

(* No message, a message, and its text still there without it. *)
Messages ==
  {[number |-> -1, text |-> ""], [number |-> 5, text |-> "DOOR"],
   [number |-> -1, text |-> "DOOR"]}

(* The execution state, the tool and the operator message change. *)
ShopFields ==
  [Still EXCEPT
     !.status  = {Status(0, 1, 0, 0), Status(3, 1, 0, 0)},
     !.message = Messages \cup {[number |-> 6, text |-> "TOOL"]},
     !.tool    = {[id |-> 0, group |-> 0, tcode |-> 11], [id |-> 7, group |-> 2, tcode |-> 11]}]

(* Programs: none (number 0), a main program running itself, the same main  *)
(* program in its subroutine, and another main program in that subroutine.  *)
Program(c, m, path) == [c |-> c, m |-> m, path |-> path]

Programs(sub, main) ==
  {Program(0, 0, "none"), Program(1, 1, "//CNC/1"),
   Program(sub, 1, "//CNC/sub"), Program(sub, main, "//CNC/sub")}

ProgramFields == [Still EXCEPT !.program = Programs(9, 2)]

(* The subroutine, and the second main program, as the short that is -1. *)
WideFields == [Still EXCEPT !.parts = {3, 4}, !.program = Programs(65535, 65535)]

(* The operator message and the program change, no program twice. *)
OneWayFields ==
  [ProgramFields EXCEPT
     !.message = Messages,
     !.program = Programs(9, 2) \ {Program(0, 0, "none")}]

OneWay ==
  {<<p, q>> \in ProgramFields.program \X ProgramFields.program :
     p.c < q.c \/ (p.c = q.c /\ p.m < q.m)}

(* The emergency stop is pressed and released. *)
EstopFields ==
  [Still EXCEPT !.status = {Status(0, 1, 0, 0), Status(0, 1, 1, 0)}]
=============================================================================
