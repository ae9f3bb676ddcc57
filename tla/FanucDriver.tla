---------------------------- MODULE FanucDriver ----------------------------
(***************************************************************************)
(* The C driver of one machine (driver/src/main.c, check.c, data.c), the   *)
(* numerical control it polls and the Kafka topic it feeds.                *)
(*                                                                         *)
(* The driver runs a fixed sequence of checks for ever.  Each check reads  *)
(* the control at its own moment and adds to the JSON object "updates"     *)
(* only what changed since the check last ran; at the end of the sequence  *)
(* the object is handed to librdkafka and a new one is begun.  A reader of *)
(* the topic who lays each message over the earlier ones is to see the     *)
(* machine.  Everything hard about the driver is in that protocol: what it *)
(* remembers of the last reading outlives a message that never arrives,    *)
(* and two checks of one tick may read two different machine states.       *)
(*                                                                         *)
(* Abstracted: timing values ("meta"), the four axis arrays to one         *)
(* ("absolute"), sequence, actf and acts to nothing more than that array   *)
(* (they have the same compare-and-send code), edit, hdck likewise; a      *)
(* program's text to the path it was read from and how much was read.      *)
(***************************************************************************)
EXTENDS Integers, Sequences

CONSTANTS
  NULL,        \* JSON null
  Garbage,     \* what an uninitialised long may hold
  Fields,      \* for each part of the control's state, the values it takes
  Switches,    \* pairs of programs <<p, q>>: q may start executing after p
  QueueCap,    \* capacity of librdkafka's output queue
  MaxChanges,  \* bound on the machine's changes of state
  MaxFaults    \* bound on failed calls, lost messages and killed processes

FieldNames == {"parts", "status", "tool", "dynamic", "program", "message", "block"}

ASSUME FieldsAssumption ==
  /\ DOMAIN Fields = FieldNames
  /\ Fields.parts \subseteq Nat
  /\ \A p \in Fields.program : p.c \in Nat /\ p.m \in Nat
  /\ \A t \in Fields.tool : DOMAIN t = {"id", "group", "tcode"}
  /\ Garbage # {}

ASSUME BoundsAssumption ==
  /\ QueueCap \in Nat \ {0}
  /\ MaxChanges \in Nat
  /\ MaxFaults \in Nat

VARIABLES
  machine,       \* the control: field -> value
  pc,            \* where the process is: "down", a check, "produce", "flush", "stopped"
  last,          \* static lv of each compare-and-send check that has run
  gate,          \* lastPartCount, lastCProgramNum (twice), lastProgramNum
  mProgramPath,
  toolMode,      \* "managed", "modal" or "none": toolManagementEnabled, useModalToolData
  updates,       \* key -> value composed in this tick
  outq,          \* librdkafka's output queue
  view,          \* key -> value a reader of the topic has
  lost,          \* keys whose newest composed value will not reach the reader
  stopping,      \* runningCondition
  changes,       \* machine changes so far
  faults         \* faults so far

process == <<last, gate, mProgramPath, toolMode>>
kafka   == <<outq, view>>
budget  == <<changes, faults>>
vars    == <<machine, pc, process, updates, kafka, lost, stopping, budget>>

----------------------------------------------------------------------------
(* What the checks read. *)

Execution(s) ==
  IF s.run \in {3, 4} THEN "ACTIVE"
  ELSE IF s.run = 2 \/ s.motion = 2 \/ s.mstb # 0 THEN "INTERRUPTED"
  ELSE IF s.run = 0 THEN "STOPPED" ELSE "READY"

Mode(s) ==
  IF s.aut \in {5, 6} THEN "MANUAL"
  ELSE IF s.aut \in {0, 3} THEN "MANUAL_DATA_INPUT" ELSE "AUTOMATIC"

Estop(s) == IF s.emergency = 1 THEN "TRIGGERED" ELSE "ARMED"

(* Without the axis data, whose read may fail alone, an axis gets the name   *)
(* and unit that happen to be in memory.                                    *)
MachineInfoReadings == {[id |-> "id", axes |-> a] : a \in {"axes", "axes without data"}}

PartCountReading == [part_count |-> machine.parts]

(* Mutant: one of the machine's status words is not taken over. *)
StatusReadingForgetsMstb ==
  LET s == machine.status
  IN [execution |-> Execution(s), mode |-> Mode(s), estop |-> Estop(s),
      alarm |-> s.alarm, aut |-> s.aut, emergency |-> s.emergency,
      motion |-> s.motion, run |-> s.run]

StatusReading ==
  LET s == machine.status
  IN [execution |-> Execution(s), mode |-> Mode(s), estop |-> Estop(s),
      alarm |-> s.alarm, aut |-> s.aut, emergency |-> s.emergency,
      motion |-> s.motion, mstb |-> s.mstb, run |-> s.run]

(* A long assigned to a short: the 16 low bits, the highest of them a sign. *)
Short(n) == ((n + 2^15) % 2^16) - 2^15

DynamicReading ==
  [absolute |-> machine.dynamic.absolute, alarm |-> Short(machine.dynamic.alarm),
   cprogram |-> Short(machine.program.c), mprogram |-> Short(machine.program.m)]

(* The operator message: -1 is the number of no message, whatever the text. *)
MessageReading ==
  [message_number |-> machine.message.number, message_text |-> machine.message.text]

BlockReading == [block |-> machine.block]

(* The timer stands for the part whose cycle it timed. *)
CycleTimeReading == [cycle_time |-> machine.parts]

(* getMachineProgramName asks twice: the program may switch in between. *)
ProgramNameReading == [program_name |-> machine.program.path]
ProgramPathReading == [program_path |-> machine.program.path]

(* The values the tool check may find, each with the mode it leaves behind. *)
ToolReadings(mode) ==
  LET t       == machine.tool
      managed == [tool_id |-> t.id, tool_group |-> t.group]
      modal   == [tool_id |-> t.tcode, tool_group |-> 0]
      unset   == {[tool_id |-> g, tool_group |-> h] : g, h \in Garbage}
  IN (IF mode = "managed" /\ t.id # 0 THEN {<<"managed", managed>>} ELSE {})
       \cup (IF mode # "none" THEN {<<"modal", modal>>} ELSE {})
       \cup ({"none"} \X unset)

(* The answers an undisturbed control gives: rdntool works when a tool is  *)
(* selected, the modal read works whenever it is tried.                    *)
Undisturbed(mode, answer) ==
  \/ mode = "none"
  \/ mode = "modal" /\ answer = "modal"
  \/ mode = "managed" /\ answer = IF machine.tool.id # 0 THEN "managed" ELSE "modal"

----------------------------------------------------------------------------
Machines ==
  [parts : Fields.parts, status : Fields.status, tool : Fields.tool,
   dynamic : Fields.dynamic, program : Fields.program, message : Fields.message,
   block : Fields.block]

(* old with new laid over it: a key added twice is read as its last value. *)
Overlay(new, old) ==
  [k \in DOMAIN new \cup DOMAIN old |-> IF k \in DOMAIN new THEN new[k] ELSE old[k]]

NoValues == [k \in {} |-> NULL]

DeltaChecks == {"part_count", "status", "tool", "dynamic", "message", "block"}

Keys ==
  [part_count |-> {"part_count"},
   status     |-> {"execution", "mode", "estop", "alarm", "aut", "emergency",
                   "motion", "mstb", "run"},
   tool       |-> {"tool_id", "tool_group"},
   dynamic    |-> {"absolute", "alarm", "cprogram", "mprogram"},
   message    |-> {"message_number", "message_text"},
   block      |-> {"block"}]

(* Mutants: a gate that starts as the number no program has, 0.             *)
NameGateStartsAtZero ==
  [cycle_time |-> -1, program_name |-> 0, program_header |-> 0, program |-> -1]

ContentsGateStartsAtZero ==
  [cycle_time |-> -1, program_name |-> -1, program_header |-> 0, program |-> 0]

NoGates == [cycle_time |-> -1, program_name |-> -1, program_header |-> 0, program |-> -1]

PartCount   == IF "part_count" \in DOMAIN last THEN last.part_count.part_count ELSE -1
CProgramNum == IF "dynamic" \in DOMAIN last THEN last.dynamic.cprogram ELSE -1
MProgramNum == IF "dynamic" \in DOMAIN last THEN last.dynamic.mprogram ELSE -1

Running == pc \notin {"down", "stopped"}

(* Mutant: the comparison copied from estop is copied once more. *)
ComparedCopied(k) == IF k \in {"estop", "execution"} THEN "mode" ELSE k

(* The key whose change decides whether k is sent: estop goes with mode. *)
Compared(k) == IF k = "estop" THEN "mode" ELSE k

Changed(c, v) ==
  {k \in DOMAIN v : c \notin DOMAIN last \/ last[c][Compared(k)] # v[Compared(k)]}

(* What is sent for key k of the reading v: a text without a message is null, *)
(* although it was the text that was compared.                                *)
Published(v, k) == IF k = "message_text" /\ v.message_number = -1 THEN NULL ELSE v[k]

(* One compare-and-send check: send what differs from lv, then lv = v. *)
CompareAndSend(c, v) ==
  /\ updates' = Overlay([k \in Changed(c, v) |-> Published(v, k)], updates)
  /\ last' = Overlay([d \in {c} |-> v], last)

----------------------------------------------------------------------------
(* The environment: the control changes state between any two reads. *)

MachineChanges ==
  /\ changes < MaxChanges
  /\ \E f \in FieldNames : \E x \in Fields[f] :
       /\ x # machine[f]
       /\ f = "program" => <<machine.program, x>> \in Switches
       /\ machine' = [machine EXCEPT ![f] = x]
  /\ changes' = changes + 1
  /\ UNCHANGED <<pc, process, updates, kafka, lost, stopping, faults>>

----------------------------------------------------------------------------
(* The life of the process. *)

(* Mutant: what was last read survives the process that read it. *)
ExitKeepsLast ==
  /\ pc' = IF stopping THEN "stopped" ELSE "down"
  /\ UNCHANGED last
  /\ gate' = NoGates /\ mProgramPath' = "" /\ toolMode' = "managed"
  /\ updates' = NoValues /\ outq' = <<>> /\ lost' = {}
  /\ UNCHANGED <<machine, view, stopping, changes>>

(* exit or death: the statics and the output queue go with the process.    *)
(* Docker starts it again unless it was asked to stop.                     *)
Exit ==
  /\ pc' = IF stopping THEN "stopped" ELSE "down"
  /\ last' = NoValues /\ gate' = NoGates /\ mProgramPath' = "" /\ toolMode' = "managed"
  /\ updates' = NoValues /\ outq' = <<>> /\ lost' = {}
  /\ UNCHANGED <<machine, view, stopping, changes>>

(* main up to the producer. *)
Start ==
  /\ pc = "down"
  /\ pc' = "connect"
  /\ UNCHANGED <<machine, process, updates, kafka, lost, stopping, budget>>

(* Connected, the process installs its handlers; a control that does not    *)
(* answer ends it (LoopFails).                                              *)
SetupConnection ==
  /\ pc = "connect"
  /\ pc' = "info"
  /\ UNCHANGED <<machine, process, updates, kafka, lost, stopping, budget>>

(* checkMachineInfo runs once; lv is NULL, so every key is sent. *)
CheckMachineInfo ==
  /\ pc = "info"
  /\ \E r \in MachineInfoReadings :
       /\ updates' = Overlay(r, updates)
       /\ faults' = IF r.axes = "axes" THEN faults ELSE faults + 1
  /\ faults' <= MaxFaults
  /\ pc' = "part_count"
  /\ UNCHANGED <<machine, process, kafka, lost, stopping, changes>>

(* The reads that happen at this point of the sequence and whose failure    *)
(* ends the process.  The tool check never fails, nor does the header's;    *)
(* the gated checks read only when their gate is open.                      *)
Failing ==
  \/ pc \in {"connect", "info", "part_count", "status", "dynamic", "message", "program_path", "block"}
  \/ pc = "cycle_time" /\ gate.cycle_time # PartCount
  \/ pc = "program_name" /\ gate.program_name # CProgramNum
  \/ pc = "program" /\ gate.program # MProgramNum

(* exit(EXIT_FAILURE): nothing is flushed. *)
LoopFails ==
  /\ Failing
  /\ faults < MaxFaults
  /\ faults' = faults + 1
  /\ Exit

Killed ==
  /\ Running
  /\ faults < MaxFaults
  /\ faults' = faults + 1
  /\ Exit

(* Before there is a handler a signal ends the process. *)
SigTermEarly ==
  /\ pc = "connect"
  /\ stopping' = TRUE
  /\ pc' = "stopped"
  /\ UNCHANGED <<machine, process, updates, kafka, lost, budget>>

(* intHandler *)
SigTerm ==
  /\ Running /\ pc # "connect" /\ ~stopping
  /\ stopping' = TRUE
  /\ UNCHANGED <<machine, pc, process, updates, kafka, lost, budget>>

----------------------------------------------------------------------------
(* loop_tick, in its order.  The compare-and-send checks: *)

CheckMachinePartCount ==
  /\ pc = "part_count"
  /\ CompareAndSend("part_count", PartCountReading)
  /\ pc' = "cycle_time"
  /\ UNCHANGED <<machine, gate, mProgramPath, toolMode, kafka, lost, stopping, budget>>

CheckMachineStatus ==
  /\ pc = "status"
  /\ CompareAndSend("status", StatusReading)
  /\ pc' = "tool"
  /\ UNCHANGED <<machine, gate, mProgramPath, toolMode, kafka, lost, stopping, budget>>

CheckMachineToolInfo ==
  /\ pc = "tool"
  /\ \E r \in ToolReadings(toolMode) :
       /\ CompareAndSend("tool", r[2])
       /\ toolMode' = r[1]
       /\ faults' = IF Undisturbed(toolMode, r[1]) THEN faults ELSE faults + 1
  /\ faults' <= MaxFaults
  /\ pc' = "dynamic"
  /\ UNCHANGED <<machine, gate, mProgramPath, kafka, lost, stopping, changes>>

CheckMachineDynamic ==
  /\ pc = "dynamic"
  /\ CompareAndSend("dynamic", DynamicReading)
  /\ pc' = "message"
  /\ UNCHANGED <<machine, gate, mProgramPath, toolMode, kafka, lost, stopping, budget>>

CheckMachineMessage ==
  /\ pc = "message"
  /\ CompareAndSend("message", MessageReading)
  /\ pc' = "program_name"
  /\ UNCHANGED <<machine, gate, mProgramPath, toolMode, kafka, lost, stopping, budget>>

CheckMachineBlock ==
  /\ pc = "block"
  /\ CompareAndSend("block", BlockReading)
  /\ pc' = "produce"
  /\ UNCHANGED <<machine, gate, mProgramPath, toolMode, kafka, lost, stopping, budget>>

(* The gated checks: the number they remember decides whether they read. *)

CheckMachineCycleTime ==
  /\ pc = "cycle_time"
  /\ updates' = IF gate.cycle_time # PartCount
                THEN Overlay(CycleTimeReading, updates) ELSE updates
  /\ gate' = [gate EXCEPT !.cycle_time = PartCount]
  /\ pc' = "status"
  /\ UNCHANGED <<machine, last, mProgramPath, toolMode, kafka, lost, stopping, budget>>

(* Mutant: the name is gated by the main program, as the contents are. *)
ProgramNameGatedByMain ==
  /\ pc = "program_name"
  /\ IF gate.program_name # MProgramNum
     THEN /\ updates' = Overlay(ProgramNameReading, updates)
          /\ pc' = "program_path"
     ELSE /\ pc' = "program_header"
          /\ UNCHANGED updates
  /\ UNCHANGED <<machine, process, kafka, lost, stopping, budget>>

CheckMachineProgramName ==
  /\ pc = "program_name"
  /\ IF gate.program_name # CProgramNum
     THEN /\ updates' = Overlay(ProgramNameReading, updates)
          /\ pc' = "program_path"
     ELSE /\ pc' = "program_header"
          /\ UNCHANGED updates
  /\ UNCHANGED <<machine, process, kafka, lost, stopping, budget>>

CheckMachineProgramPath ==
  /\ pc = "program_path"
  /\ mProgramPath' = machine.program.path
  /\ updates' = Overlay(ProgramPathReading, updates)
  /\ gate' = [gate EXCEPT !.program_name = CProgramNum]
  /\ pc' = "program_header"
  /\ UNCHANGED <<machine, last, toolMode, kafka, lost, stopping, budget>>

(* What the upload by number makes of the answers to its start, its reads   *)
(* and its end.  A busy control is read from like a ready one.  Missing     *)
(* data returns without the end; any other error is not looked at again if  *)
(* the end succeeds, and a buffer nobody filled is published.               *)
HeaderText(start, upload, end) ==
  LET ret == IF start \in {"EW_OK", "EW_BUSY"} THEN upload ELSE start
  IN IF ret = "EW_DATA" THEN "not found"
     ELSE IF end # "EW_OK" THEN "cannot be read"
     ELSE IF ret = "EW_OK" THEN "header" ELSE "unfilled buffer"

HeaderTexts ==
  LET codes == {"EW_OK", "EW_BUSY", "EW_DATA", "other"}
  IN {HeaderText(start, upload, end) : start, upload, end \in codes}

(* Mutant: the header's gate remembers the main program. *)
HeaderRemembersMain ==
  /\ pc = "program_header"
  /\ IF gate.program_header # CProgramNum
     THEN \E t \in HeaderTexts :
            /\ updates' = Overlay([program_header |-> [number |-> CProgramNum, text |-> t]], updates)
            /\ faults' = IF t = "header" THEN faults ELSE faults + 1
     ELSE UNCHANGED <<updates, faults>>
  /\ faults' <= MaxFaults
  /\ gate' = [gate EXCEPT !.program_header = MProgramNum]
  /\ pc' = "program"
  /\ UNCHANGED <<machine, last, mProgramPath, toolMode, kafka, lost, stopping, changes>>

CheckMachineProgramHeader ==
  /\ pc = "program_header"
  /\ IF gate.program_header # CProgramNum
     THEN \E t \in HeaderTexts :
            /\ updates' = Overlay([program_header |-> [number |-> CProgramNum, text |-> t]], updates)
            /\ faults' = IF t = "header" THEN faults ELSE faults + 1
     ELSE UNCHANGED <<updates, faults>>
  /\ faults' <= MaxFaults
  /\ gate' = [gate EXCEPT !.program_header = CProgramNum]
  /\ pc' = "program"
  /\ UNCHANGED <<machine, last, mProgramPath, toolMode, kafka, lost, stopping, changes>>

(* The upload by path; an error in its middle ends it like its end does,   *)
(* and an upload of nothing has a size but no "program" key.               *)
Contents(path, chunks) ==
  IF chunks = 0 THEN [program_size |-> 1]
  ELSE [program_size |-> 1 + chunks, program |-> [path |-> path, chunks |-> chunks]]

WholeProgram == 2

CheckMachineProgramContents ==
  /\ pc = "program"
  /\ IF gate.program # MProgramNum
     THEN \E chunks \in 0..WholeProgram :
            /\ updates' = Overlay(Contents(mProgramPath, chunks), updates)
            /\ faults' = IF chunks = WholeProgram THEN faults ELSE faults + 1
     ELSE UNCHANGED <<updates, faults>>
  /\ faults' <= MaxFaults
  /\ gate' = [gate EXCEPT !.program = MProgramNum]
  /\ pc' = "block"
  /\ UNCHANGED <<machine, last, mProgramPath, toolMode, kafka, lost, stopping, changes>>

----------------------------------------------------------------------------
(* The end of a tick: the message is queued or not, the object is begun anew. *)

(* Mutant: the loop does not look at runningCondition. *)
NextTickAlways == pc' = "part_count"

NextTick == pc' = IF stopping THEN "flush" ELSE "part_count"

Produce ==
  /\ pc = "produce"
  /\ Len(outq) < QueueCap
  /\ outq' = Append(outq, updates)
  /\ updates' = NoValues
  /\ lost' = lost \ DOMAIN updates
  /\ NextTick
  /\ UNCHANGED <<machine, process, view, stopping, budget>>

(* The queue is full, or the message too large for it: the error is logged *)
(* and what the message held is deleted with it.                           *)
ProduceRejected ==
  /\ pc = "produce"
  /\ \/ Len(outq) = QueueCap /\ UNCHANGED faults
     \/ "program" \in DOMAIN updates /\ faults < MaxFaults /\ faults' = faults + 1
  /\ updates' = NoValues
  /\ lost' = lost \cup DOMAIN updates
  /\ NextTick
  /\ UNCHANGED <<machine, process, kafka, stopping, changes>>

(* librdkafka's own thread. *)
Deliver ==
  /\ outq # <<>>
  /\ view' = Overlay(Head(outq), view)
  /\ outq' = Tail(outq)
  /\ UNCHANGED <<machine, pc, process, updates, lost, stopping, budget>>

Superseded(k) == \E i \in 2..Len(outq) : k \in DOMAIN outq[i]

(* message.timeout.ms: dr_msg_cb logs it. *)
DeliveryFails ==
  /\ outq # <<>>
  /\ faults < MaxFaults
  /\ faults' = faults + 1
  /\ lost' = lost \cup {k \in DOMAIN Head(outq) : ~Superseded(k)}
  /\ outq' = Tail(outq)
  /\ UNCHANGED <<machine, pc, process, updates, view, stopping, changes>>

(* rd_kafka_flush returns when the queue is empty or after ten seconds. *)
FlushDone ==
  /\ pc = "flush"
  /\ \/ outq = <<>> /\ UNCHANGED faults
     \/ outq # <<>> /\ faults < MaxFaults /\ faults' = faults + 1
  /\ Exit

----------------------------------------------------------------------------
Init ==
  /\ machine \in Machines
  /\ pc = "down"
  /\ last = NoValues /\ gate = NoGates /\ mProgramPath = "" /\ toolMode = "managed"
  /\ updates = NoValues /\ outq = <<>> /\ view = NoValues /\ lost = {}
  /\ stopping = FALSE
  /\ changes = 0 /\ faults = 0

LoopTick ==
  \/ CheckMachinePartCount \/ CheckMachineCycleTime \/ CheckMachineStatus
  \/ CheckMachineToolInfo \/ CheckMachineDynamic \/ CheckMachineMessage
  \/ CheckMachineProgramName \/ CheckMachineProgramPath \/ CheckMachineProgramHeader
  \/ CheckMachineProgramContents \/ CheckMachineBlock

Main ==
  \/ Start \/ SetupConnection \/ CheckMachineInfo \/ LoopTick
  \/ Produce \/ ProduceRejected \/ FlushDone

Next ==
  \/ Main \/ LoopFails \/ Killed \/ SigTerm \/ SigTermEarly
  \/ Deliver \/ DeliveryFails
  \/ MachineChanges

Spec == Init /\ [][Next]_vars

(* The process runs unless it is stopped (prod.yml restarts a dead one), and *)
(* librdkafka keeps trying to deliver.  Nothing else is promised: signals,   *)
(* failures and the machine's changes may or may not come.                   *)
Fairness == WF_vars(Main) /\ WF_vars(Deliver)

FairSpec == Spec /\ Fairness

----------------------------------------------------------------------------
AllKeys ==
  (UNION {Keys[c] : c \in DeltaChecks})
    \cup {"id", "axes", "cycle_time", "program_name", "program_path",
          "program_header", "program_size", "program"}

Points ==
  {"down", "stopped", "connect", "info", "program_path", "produce", "flush",
   "cycle_time", "program_name", "program_header", "program"} \cup DeltaChecks

IsQueue(q) ==
  /\ q \in Seq({q[i] : i \in 1..Len(q)})
  /\ Len(q) <= QueueCap
  /\ \A i \in 1..Len(q) : DOMAIN q[i] \subseteq AllKeys

(* The type invariant: where the process is, what its statics remember, and *)
(* which keys its messages have.                                            *)
TypeOK ==
  /\ machine \in Machines
  /\ pc \in Points
  /\ DOMAIN last \subseteq DeltaChecks
  /\ \A c \in DOMAIN last : DOMAIN last[c] = Keys[c]
  /\ DOMAIN gate = DOMAIN NoGates
  /\ toolMode \in {"managed", "modal", "none"}
  /\ DOMAIN updates \subseteq AllKeys
  /\ IsQueue(outq)
  /\ DOMAIN view \subseteq AllKeys
  /\ lost \subseteq AllKeys
  /\ stopping \in BOOLEAN
  /\ changes \in 0..MaxChanges
  /\ faults \in 0..MaxFaults

----------------------------------------------------------------------------
(* What the stream of changes promises its reader. *)

(* x is the newest value composed for key k: it is in the message being     *)
(* composed, else in the last queued one that has k, else the reader has it. *)
Newest(k, x) ==
  \/ k \in DOMAIN updates /\ updates[k] = x
  \/ /\ k \notin DOMAIN updates
     /\ \E i \in 1..Len(outq) :
          /\ k \in DOMAIN outq[i] /\ outq[i][k] = x
          /\ \A j \in i+1..Len(outq) : k \notin DOMAIN outq[j]
  \/ /\ k \notin DOMAIN updates
     /\ \A i \in 1..Len(outq) : k \notin DOMAIN outq[i]
     /\ k \in DOMAIN view /\ view[k] = x

(* The keys for which the code does not keep the promise: estop is compared *)
(* through mode (check.c:278), alarm has two writers (check.c:284, 429).    *)
Broken == {"estop", "alarm"}

(* A text the control shows with a message and also without one.  While it  *)
(* stays, the number may change either way and the text is not sent again   *)
(* (check.c:240), so what a reader has of it is the text or null.           *)
Returning(t) ==
  \E a, b \in Fields.message :
    /\ a.text = t /\ b.text = t
    /\ a.number = -1 /\ b.number # -1

(* What a reader may have been told for key k of the reading v. *)
Told(v, k) ==
  IF k = "message_text" /\ Returning(v.message_text)
  THEN {NULL, v.message_text}
  ELSE {Published(v, k)}

(* Reconstruction: whatever has been read, sent or lost so far, the newest  *)
(* value composed for a key is what the driver publishes of the reading it  *)
(* remembers, unless the message that had it will never arrive; and a value *)
(* in the message being composed is so even then.  So laying the messages   *)
(* over each other gives the reader the driver's memory, across restarts,   *)
(* although each message has only what changed.                             *)
Reconstruction ==
  \A c \in DOMAIN last : \A k \in DOMAIN last[c] \ Broken :
    /\ k \in DOMAIN updates => updates[k] \in Told(last[c], k)
    /\ k \notin lost => \E x \in Told(last[c], k) : Newest(k, x)

(* The message composed in a tick is complete in itself: with a part count  *)
(* come the cycle time, with a program number its name, path and header     *)
(* (there is no header for number 0 before another program has run), with a *)
(* main program what was uploaded of it.  A reader never joins two messages *)
(* to tell which program a path belongs to.  The exception is a number that *)
(* is -1 as a short, the number no program is to have: 65535.               *)
TravelTogether ==
  pc = "produce" =>
    /\ "part_count" \in DOMAIN updates <=> "cycle_time" \in DOMAIN updates
    /\ "cprogram" \in DOMAIN updates =>
         /\ \/ {"program_name", "program_path"} \subseteq DOMAIN updates
            \/ updates.cprogram = -1
         /\ updates.cprogram # 0 => "program_header" \in DOMAIN updates
    /\ "mprogram" \in DOMAIN updates =>
         "program_size" \in DOMAIN updates \/ updates.mprogram = -1
    /\ "program_size" \in DOMAIN updates => "mprogram" \in DOMAIN updates

(* The header a reader shows next to a program number is that program's,    *)
(* whatever was lost and however often the driver restarted; number 0 has   *)
(* no header of its own at first.                                           *)
HeaderFollowsProgram ==
  "cprogram" \in DOMAIN view /\ view.cprogram # 0 =>
    /\ "program_header" \in DOMAIN view
    /\ view.program_header.number = view.cprogram

(* The keys a reader needs before it knows the machine at all, those of a   *)
(* program read at its number only if that is not -1 as a short.            *)
Snapshot ==
  (UNION {Keys[c] : c \in DeltaChecks}) \cup {"id", "axes", "cycle_time"}
    \cup (IF CProgramNum = -1 THEN {} ELSE {"program_name", "program_path"})
    \cup (IF MProgramNum = -1 THEN {} ELSE {"program_size"})

(* The first message of every process is a complete snapshot: a restarted   *)
(* driver repairs what its predecessor left unsent.                         *)
RestartSendsSnapshot ==
  pc = "produce" /\ "id" \in DOMAIN updates => Snapshot \subseteq DOMAIN updates

----------------------------------------------------------------------------
(* What the checks would read now. *)
Reading ==
  [part_count |-> PartCountReading, status |-> StatusReading,
   dynamic |-> DynamicReading, message |-> MessageReading, block |-> BlockReading]

Known(k, values) == k \in lost \/ (k \in DOMAIN view /\ view[k] \in values)

(* Once the machine stands still, the reader of a driver that is not        *)
(* stopped comes to have the part count, the status words, the axes, the    *)
(* program numbers, the operator message and the block the control shows,   *)
(* and keeps them: after failures, restarts and with empty messages         *)
(* queueing up, except for what a failed send lost and no later change      *)
(* repaired.  The text of a message that also shows without its number may  *)
(* be null (see Returning).                                                 *)
ReaderConverges ==
  <>[](pc = "stopped" \/
       \A c \in DOMAIN Reading : \A k \in Keys[c] \ Broken : Known(k, Told(Reading[c], k)))

(* And the path it has is the executing program's, if no program comes back *)
(* within a tick: the number and the path are read at different moments;    *)
(* and if no two numbers are the same short.                                *)
PathConverges ==
  <>[](pc = "stopped" \/ Known("program_path", {machine.program.path}))

(* A signalled driver stops, wherever in the loop the signal finds it and   *)
(* whether or not the broker answers the final flush.                       *)
StopsOnSignal == stopping ~> pc = "stopped"

----------------------------------------------------------------------------
(* What the repository says of the driver and the code does not do. *)

(* driver/README.md, "on either changes get program_path": a message with a *)
(* new main program has the path its contents were read from.               *)
PathOnEitherChange ==
  pc = "produce" /\ "mprogram" \in DOMAIN updates => "program_path" \in DOMAIN updates

(* main.c:40, "values: obj with key value machine properties": the newest   *)
(* estop value is the emergency state the driver last read.                 *)
EstopIsMachines ==
  "status" \in DOMAIN last /\ "estop" \notin lost => Newest("estop", last.status.estop)
=============================================================================
