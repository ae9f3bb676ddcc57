------------------------- MODULE FanucDriverTickProofs -------------------------
(***************************************************************************)
(* Proofs about one tick of the driver: which values a message has         *)
(* together, whatever the machine does between two reads and wherever in   *)
(* the tick a process was ended before.                                    *)
(*                                                                         *)
(* A gated check reads when the number it remembers is not the number last *)
(* read, a compare-and-send check sends what is not as it was last read.   *)
(* The two go together because both remember the same reading, except      *)
(* between the reading of a number and the gate that looks at it: so the   *)
(* invariant is stated by the place in the tick.                           *)
(***************************************************************************)
EXTENDS FanucDriverProofs

----------------------------------------------------------------------------
(* The places of the tick. *)

Outside     == {"down", "stopped", "connect", "info", "flush"}
UpToDynamic == Outside \cup {"part_count", "cycle_time", "status", "tool", "dynamic"}
UpToName    == {"message", "program_name"}
UpToHeader  == UpToName \cup {"program_path", "program_header"}
UpToProgram == UpToHeader \cup {"program"}

(* The checks that have remembered a reading when the process is at p. *)
Passed(p) ==
  CASE p \in {"cycle_time", "status"} -> {"part_count"}
    [] p = "tool"                     -> {"part_count", "status"}
    [] p = "dynamic"                  -> {"part_count", "status", "tool"}
    [] p = "message"                  -> {"part_count", "status", "tool", "dynamic"}
    [] p \in (UpToProgram \ {"message"}) \cup {"block"} -> DeltaChecks \ {"block"}
    [] p = "produce"                  -> DeltaChecks
    [] OTHER                          -> {}

ProgramKeys ==
  {"cprogram", "mprogram", "program_name", "program_path", "program_header",
   "program_size", "program"}

Has(k) == k \in DOMAIN updates

----------------------------------------------------------------------------
(* The inductive invariant. *)

(* A process begins without memory, and a tick without a message. *)
StartInv ==
  /\ pc \in Outside => updates = NoValues
  /\ pc \in Outside \ {"flush"} => last = NoValues /\ gate = NoGates
  /\ pc = "part_count" => DOMAIN updates \subseteq {"id", "axes"}
  /\ Passed(pc) \subseteq DOMAIN last

PartInv ==
  /\ pc # "cycle_time" => gate.cycle_time = PartCount /\ (Has("part_count") <=> Has("cycle_time"))
  /\ pc = "cycle_time" => ~Has("cycle_time") /\ (Has("part_count") <=> gate.cycle_time # PartCount)

(* The numbers of the message being composed are those remembered. *)
NumberInv ==
  /\ pc \in UpToDynamic => DOMAIN updates \cap ProgramKeys = {}
  /\ Has("cprogram") => "dynamic" \in DOMAIN last /\ updates.cprogram = CProgramNum
  /\ Has("mprogram") => "dynamic" \in DOMAIN last /\ updates.mprogram = MProgramNum

NameInv ==
  /\ pc \notin UpToName \cup {"program_path"} => gate.program_name = CProgramNum
  /\ pc \in UpToName /\ Has("cprogram") => gate.program_name # CProgramNum \/ CProgramNum = -1
  /\ pc = "program_path" => Has("program_name")
  /\ pc \notin UpToName \cup {"program_path"} /\ Has("cprogram") =>
       {"program_name", "program_path"} \subseteq DOMAIN updates \/ CProgramNum = -1

HeaderInv ==
  /\ pc \notin UpToHeader =>
       /\ gate.program_header = IF "dynamic" \in DOMAIN last THEN CProgramNum ELSE 0
       /\ Has("cprogram") /\ CProgramNum # 0 => Has("program_header")
       /\ Has("program_header") => Has("cprogram") /\ updates.program_header.number = CProgramNum
  /\ pc \in UpToHeader =>
       /\ ~Has("program_header")
       /\ gate.program_header # CProgramNum => Has("cprogram")
       /\ Has("cprogram") /\ CProgramNum # 0 => gate.program_header # CProgramNum

ContentsInv ==
  /\ pc \notin UpToProgram =>
       /\ gate.program = MProgramNum
       /\ Has("mprogram") => Has("program_size") \/ MProgramNum = -1
       /\ Has("program_size") => Has("mprogram")
  /\ pc \in UpToProgram =>
       /\ ~Has("program_size")
       /\ gate.program # MProgramNum => Has("mprogram")
       /\ Has("mprogram") => gate.program # MProgramNum \/ MProgramNum = -1

(* The first message of a process has whatever was read so far. *)
SnapshotInv ==
  Has("id") => Has("axes") /\ \A c \in DOMAIN last : Keys[c] \subseteq DOMAIN updates

TickInv ==
  StartInv /\ PartInv /\ NumberInv /\ NameInv /\ HeaderInv /\ ContentsInv /\ SnapshotInv

(* A message that says which program runs has its header, and no other has. *)
Headed(m) ==
  /\ "program_header" \in DOMAIN m => "cprogram" \in DOMAIN m /\ m.program_header.number = m.cprogram
  /\ "cprogram" \in DOMAIN m /\ m.cprogram # 0 => "program_header" \in DOMAIN m

HeadedInv == (\A i \in 1..Len(outq) : Headed(outq[i])) /\ HeaderFollowsProgram

----------------------------------------------------------------------------
(* Lemmas about a step's effect on the memory and the message. *)

LEMMA GateKeys ==
  ASSUME TypeOK
  PROVE  /\ \A f \in {"cycle_time", "program_name", "program_header", "program"} :
              \A n : /\ [gate EXCEPT ![f] = n][f] = n
                     /\ \A g \in {"cycle_time", "program_name", "program_header", "program"} :
                          g # f => [gate EXCEPT ![f] = n][g] = gate[g]
<1>1. DOMAIN gate = {"cycle_time", "program_name", "program_header", "program"}
      BY DEF TypeOK, NoGates
<1> QED BY <1>1

LEMMA OverlayMessage ==
  ASSUME NEW new, updates' = Overlay(new, updates)
  PROVE  /\ DOMAIN updates' = DOMAIN new \cup DOMAIN updates
         /\ \A k \in DOMAIN new : updates'[k] = new[k]
         /\ \A k \in DOMAIN updates \ DOMAIN new : updates'[k] = updates[k]
<1>1. /\ DOMAIN Overlay(new, updates) = DOMAIN new \cup DOMAIN updates
      /\ \A k \in DOMAIN new : Overlay(new, updates)[k] = new[k]
      /\ \A k \in DOMAIN updates \ DOMAIN new : Overlay(new, updates)[k] = updates[k]
      BY OverlayValues
<1> QED BY <1>1

LEMMA CompareAndSendEffect ==
  ASSUME NEW c, NEW v, CompareAndSend(c, v)
  PROVE  /\ DOMAIN last' = {c} \cup DOMAIN last /\ last'[c] = v
         /\ \A d \in DOMAIN last \ {c} : last'[d] = last[d]
         /\ DOMAIN updates' = Changed(c, v) \cup DOMAIN updates
         /\ \A k \in Changed(c, v) : updates'[k] = Published(v, k)
         /\ \A k \in DOMAIN updates \ Changed(c, v) : updates'[k] = updates[k]
<1> DEFINE sent == [k \in Changed(c, v) |-> Published(v, k)]
           now == [d \in {c} |-> v]
<1>1. updates' = Overlay(sent, updates) /\ last' = Overlay(now, last)
      BY DEF CompareAndSend
<1>2. DOMAIN sent = Changed(c, v) /\ \A k \in Changed(c, v) : sent[k] = Published(v, k) OBVIOUS
<1>3. DOMAIN now = {c} /\ now[c] = v OBVIOUS
<1> HIDE DEF sent, now
<1>4. /\ DOMAIN Overlay(now, last) = DOMAIN now \cup DOMAIN last
      /\ \A d \in DOMAIN now : Overlay(now, last)[d] = now[d]
      /\ \A d \in DOMAIN last \ DOMAIN now : Overlay(now, last)[d] = last[d]
      BY OverlayValues
<1>5. /\ DOMAIN updates' = DOMAIN sent \cup DOMAIN updates
      /\ \A k \in DOMAIN sent : updates'[k] = sent[k]
      /\ \A k \in DOMAIN updates \ DOMAIN sent : updates'[k] = updates[k]
      BY <1>1, OverlayMessage
<1> QED BY <1>1, <1>2, <1>3, <1>4, <1>5

(* A step between places of the same kind, that leaves the numbers, the     *)
(* gates and the keys that go with them.                                    *)
LEMMA SamePlace ==
  ASSUME TickInv, gate' = gate,
         PartCount' = PartCount, CProgramNum' = CProgramNum, MProgramNum' = MProgramNum,
         "dynamic" \in DOMAIN last' <=> "dynamic" \in DOMAIN last,
         \A k \in ProgramKeys \cup {"part_count", "cycle_time"} :
           /\ k \in DOMAIN updates' <=> k \in DOMAIN updates
           /\ k \in DOMAIN updates => updates'[k] = updates[k],
         \A place \in {{"cycle_time"}, {"program_path"}, UpToDynamic, UpToName, UpToHeader, UpToProgram} :
           pc' \in place <=> pc \in place
  PROVE  PartInv' /\ NumberInv' /\ NameInv' /\ HeaderInv' /\ ContentsInv'
<1> USE DEF TickInv
<1>1. /\ pc' = "cycle_time" <=> pc = "cycle_time"
      /\ pc' = "program_path" <=> pc = "program_path"
      /\ pc' \in UpToDynamic <=> pc \in UpToDynamic
      /\ pc' \in UpToName <=> pc \in UpToName
      /\ pc' \in UpToHeader <=> pc \in UpToHeader
      /\ pc' \in UpToProgram <=> pc \in UpToProgram
  <2>1. \A place \in {{"cycle_time"}, {"program_path"}} : pc' \in place <=> pc \in place OBVIOUS
  <2> QED BY <2>1
<1>2. \A k \in ProgramKeys \cup {"part_count", "cycle_time"} :
        Has(k)' <=> Has(k)
      BY DEF Has
<1>3. /\ Has("cprogram") => updates'.cprogram = updates.cprogram
      /\ Has("mprogram") => updates'.mprogram = updates.mprogram
      /\ Has("program_header") => updates'.program_header = updates.program_header
      BY DEF Has, ProgramKeys
<1>4. PartInv' BY <1>1, <1>2 DEF PartInv
<1>5. NumberInv' BY <1>1, <1>2, <1>3 DEF NumberInv, ProgramKeys, Has
<1>6. NameInv' BY <1>1, <1>2 DEF NameInv, ProgramKeys, Has
<1>7. HeaderInv' BY <1>1, <1>2, <1>3 DEF HeaderInv, ProgramKeys
<1>8. ContentsInv' BY <1>1, <1>2 DEF ContentsInv, ProgramKeys
<1> QED BY <1>4, <1>5, <1>6, <1>7, <1>8

(* The checks that read neither a number nor the part count. *)
LEMMA OtherCheck ==
  ASSUME TypeOK, TickInv, NEW c \in {"status", "tool", "message", "block"}, NEW v,
         DOMAIN v = Keys[c], CompareAndSend(c, v), pc = c, gate' = gate,
         pc' = CASE c = "status" -> "tool" [] c = "tool" -> "dynamic"
                 [] c = "message" -> "program_name" [] c = "block" -> "produce"
  PROVE  TickInv'
<1>1. /\ DOMAIN last' = {c} \cup DOMAIN last /\ last'[c] = v
      /\ \A d \in DOMAIN last \ {c} : last'[d] = last[d]
      /\ DOMAIN updates' = Changed(c, v) \cup DOMAIN updates
      /\ \A k \in DOMAIN updates \ Changed(c, v) : updates'[k] = updates[k]
      BY CompareAndSendEffect
<1>2. Changed(c, v) \cap (ProgramKeys \cup {"part_count", "cycle_time", "id", "axes"}) = {}
      BY DEF Changed, Keys, ProgramKeys
<1>3. \A k \in ProgramKeys \cup {"part_count", "cycle_time"} :
        /\ k \in DOMAIN updates' <=> k \in DOMAIN updates
        /\ k \in DOMAIN updates => updates'[k] = updates[k]
      BY <1>1, <1>2
<1>4. /\ PartCount' = PartCount /\ CProgramNum' = CProgramNum /\ MProgramNum' = MProgramNum
      /\ "dynamic" \in DOMAIN last' <=> "dynamic" \in DOMAIN last
      BY <1>1 DEF PartCount, CProgramNum, MProgramNum
<1>5. /\ pc' \in {"tool", "dynamic", "program_name", "produce"}
      /\ \A place \in {{"cycle_time"}, {"program_path"}, UpToDynamic, UpToName, UpToHeader, UpToProgram} :
           pc' \in place <=> pc \in place
      BY DEF UpToDynamic, UpToName, UpToHeader, UpToProgram, Outside
<1>6. PartInv' /\ NumberInv' /\ NameInv' /\ HeaderInv' /\ ContentsInv'
      BY <1>3, <1>4, <1>5, SamePlace
<1>7. StartInv'
  <2>1. Passed(pc') \subseteq Passed(pc) \cup {c}
        BY DEF Passed, UpToProgram, UpToHeader, UpToName, DeltaChecks
  <2>2. Passed(pc) \subseteq DOMAIN last BY DEF TickInv, StartInv
  <2> QED BY <1>1, <1>5, <2>1, <2>2 DEF StartInv, Outside
<1>8. SnapshotInv'
  <2>1. SnapshotInv BY DEF TickInv
  <2>2. c \notin DOMAIN last => Changed(c, v) = Keys[c] BY DEF Changed
  <2> QED BY <1>1, <1>2, <2>1, <2>2 DEF SnapshotInv, Has
<1> QED BY <1>6, <1>7, <1>8 DEF TickInv

----------------------------------------------------------------------------
(* The checks of a tick, one by one. *)

(* A part count is sent when it is not the one the cycle time's gate knows. *)
LEMMA PartCountTick == ASSUME TypeOK, TickInv, CheckMachinePartCount PROVE TickInv'
<1> USE DEF TickInv
<1> DEFINE v == PartCountReading
<1>1. /\ pc = "part_count" /\ pc' = "cycle_time" /\ gate' = gate
      /\ CompareAndSend("part_count", v)
      BY DEF CheckMachinePartCount
<1>2. DOMAIN v = {"part_count"} /\ v.part_count = machine.parts BY DEF PartCountReading
<1>3. machine.parts # -1
  <2>1. machine.parts \in Nat BY FieldsAssumption DEF TypeOK, Machines
  <2> QED BY <2>1
<1> HIDE DEF v
<1>4. /\ DOMAIN last' = {"part_count"} \cup DOMAIN last /\ last'["part_count"] = v
      /\ \A d \in DOMAIN last \ {"part_count"} : last'[d] = last[d]
      /\ DOMAIN updates' = Changed("part_count", v) \cup DOMAIN updates
      /\ \A k \in DOMAIN updates \ Changed("part_count", v) : updates'[k] = updates[k]
      BY <1>1, CompareAndSendEffect
<1>5. DOMAIN updates \subseteq {"id", "axes"} BY <1>1 DEF StartInv
<1>6. Changed("part_count", v) = IF PartCount # machine.parts THEN {"part_count"} ELSE {}
  <2>1. Compared("part_count") = "part_count" BY DEF Compared
  <2>2. "part_count" \in Changed("part_count", v) <=>
          "part_count" \notin DOMAIN last \/ last["part_count"]["part_count"] # machine.parts
        BY <1>2, <2>1 DEF Changed
  <2>3. Changed("part_count", v) \subseteq {"part_count"} BY <1>2 DEF Changed
  <2> QED BY <1>3, <2>2, <2>3 DEF PartCount
<1>7. PartCount' = machine.parts BY <1>2, <1>4 DEF PartCount
<1>8. CProgramNum' = CProgramNum /\ MProgramNum' = MProgramNum
      /\ ("dynamic" \in DOMAIN last' <=> "dynamic" \in DOMAIN last)
      BY <1>4 DEF CProgramNum, MProgramNum
<1>9. pc \in UpToDynamic /\ pc' \in UpToDynamic
      /\ pc \notin UpToProgram /\ pc' \notin UpToProgram
      /\ pc' \notin Outside /\ pc' \notin UpToName /\ pc' \notin UpToHeader
      BY <1>1 DEF UpToDynamic, UpToProgram, UpToHeader, UpToName, Outside
<1>10. StartInv'
  <2>1. Passed(pc') = {"part_count"} BY <1>1 DEF Passed, UpToProgram, UpToHeader, UpToName, DeltaChecks
  <2> QED BY <1>1, <1>4, <1>9, <2>1 DEF StartInv
<1>11. PartInv' BY <1>1, <1>4, <1>5, <1>6, <1>7 DEF PartInv, Has
<1>12. DOMAIN updates' \cap ProgramKeys = {} BY <1>4, <1>5, <1>6 DEF ProgramKeys
<1>13. NumberInv' BY <1>12 DEF NumberInv, Has, ProgramKeys
<1>14. NameInv' BY <1>1, <1>8, <1>9, <1>12 DEF NameInv, Has, ProgramKeys, UpToName
<1>15. HeaderInv' BY <1>1, <1>8, <1>9, <1>12 DEF HeaderInv, Has, ProgramKeys, UpToHeader, UpToName
<1>16. ContentsInv'
       BY <1>1, <1>8, <1>9, <1>12 DEF ContentsInv, Has, ProgramKeys, UpToProgram, UpToHeader, UpToName
<1>17. SnapshotInv'
  <2>1. Keys["part_count"] = {"part_count"} BY DEF Keys
  <2>2. "part_count" \notin DOMAIN last => "part_count" \in Changed("part_count", v)
        BY <1>2 DEF Changed
  <2> QED BY <1>4, <1>6, <2>1, <2>2 DEF SnapshotInv, Has
<1> QED BY <1>10, <1>11, <1>13, <1>14, <1>15, <1>16, <1>17

LEMMA CycleTimeTick == ASSUME TypeOK, TickInv, CheckMachineCycleTime PROVE TickInv'
<1> USE DEF TickInv
<1>1. /\ pc = "cycle_time" /\ pc' = "status" /\ last' = last
      /\ gate' = [gate EXCEPT !.cycle_time = PartCount]
      BY DEF CheckMachineCycleTime
<1>2. DOMAIN CycleTimeReading = {"cycle_time"} BY DEF CycleTimeReading
<1>3. /\ DOMAIN updates' = IF gate.cycle_time # PartCount THEN {"cycle_time"} \cup DOMAIN updates
                           ELSE DOMAIN updates
      /\ \A k \in DOMAIN updates \ {"cycle_time"} : updates'[k] = updates[k]
  <2>1. CASE gate.cycle_time # PartCount
    <3>1. updates' = Overlay(CycleTimeReading, updates) BY <2>1 DEF CheckMachineCycleTime
    <3> QED BY <1>2, <2>1, <3>1, OverlayMessage
  <2>2. CASE ~(gate.cycle_time # PartCount) BY <2>2 DEF CheckMachineCycleTime
  <2> QED BY <2>1, <2>2
<1>4. /\ gate'.cycle_time = PartCount /\ gate'.program_name = gate.program_name
      /\ gate'.program_header = gate.program_header /\ gate'.program = gate.program
      BY <1>1, GateKeys
<1>5. PartCount' = PartCount /\ CProgramNum' = CProgramNum /\ MProgramNum' = MProgramNum
      BY <1>1 DEF PartCount, CProgramNum, MProgramNum
<1>6. pc \in UpToDynamic /\ pc' \in UpToDynamic
      /\ pc \notin UpToProgram /\ pc' \notin UpToProgram
      /\ pc' \notin Outside /\ pc \notin UpToName /\ pc' \notin UpToName
      /\ pc \notin UpToHeader /\ pc' \notin UpToHeader
      BY <1>1 DEF UpToDynamic, UpToProgram, UpToHeader, UpToName, Outside
<1>7. StartInv'
  <2>1. Passed(pc') = {"part_count"} /\ Passed(pc) = {"part_count"} BY <1>1 DEF Passed, UpToProgram, UpToHeader, UpToName, DeltaChecks
  <2> QED BY <1>1, <1>6, <2>1 DEF StartInv
<1>8. PartInv' BY <1>1, <1>3, <1>4, <1>5 DEF PartInv, Has
<1>9. DOMAIN updates' \cap ProgramKeys = {} BY <1>3, <1>6 DEF NumberInv, ProgramKeys
<1>10. NumberInv' BY <1>9 DEF NumberInv, Has, ProgramKeys
<1>11. NameInv' BY <1>1, <1>4, <1>5, <1>6, <1>9 DEF NameInv, Has, ProgramKeys
<1>12. HeaderInv' BY <1>1, <1>4, <1>5, <1>6, <1>9 DEF HeaderInv, Has, ProgramKeys
<1>13. ContentsInv' BY <1>1, <1>4, <1>5, <1>6, <1>9 DEF ContentsInv, Has, ProgramKeys
<1>14. SnapshotInv' BY <1>1, <1>3 DEF SnapshotInv, Has
<1> QED BY <1>7, <1>8, <1>10, <1>11, <1>12, <1>13, <1>14

(* The numbers are read: each is sent when it is not the one its gates know. *)
LEMMA DynamicTick == ASSUME TypeOK, TickInv, CheckMachineDynamic PROVE TickInv'
<1> USE DEF TickInv
<1> DEFINE v == DynamicReading
<1>1. /\ pc = "dynamic" /\ pc' = "message" /\ gate' = gate
      /\ CompareAndSend("dynamic", v)
      BY DEF CheckMachineDynamic
<1>2. DOMAIN v = Keys["dynamic"] BY ReadingKeys
<1> HIDE DEF v
<1>3. /\ DOMAIN last' = {"dynamic"} \cup DOMAIN last /\ last'["dynamic"] = v
      /\ \A d \in DOMAIN last \ {"dynamic"} : last'[d] = last[d]
      /\ DOMAIN updates' = Changed("dynamic", v) \cup DOMAIN updates
      /\ \A k \in Changed("dynamic", v) : updates'[k] = v[k]
      /\ \A k \in DOMAIN updates \ Changed("dynamic", v) : updates'[k] = updates[k]
  <2>1. "message_text" \notin Changed("dynamic", v) BY <1>2 DEF Changed, Keys
  <2>2. \A k \in Changed("dynamic", v) : Published(v, k) = v[k] BY <2>1 DEF Published
  <2>3. /\ DOMAIN last' = {"dynamic"} \cup DOMAIN last /\ last'["dynamic"] = v
        /\ \A d \in DOMAIN last \ {"dynamic"} : last'[d] = last[d]
        /\ DOMAIN updates' = Changed("dynamic", v) \cup DOMAIN updates
        /\ \A k \in Changed("dynamic", v) : updates'[k] = Published(v, k)
        /\ \A k \in DOMAIN updates \ Changed("dynamic", v) : updates'[k] = updates[k]
        BY <1>1, CompareAndSendEffect
  <2> QED BY <2>2, <2>3
<1>4. Keys["dynamic"] = {"absolute", "alarm", "cprogram", "mprogram"} BY DEF Keys
<1>5. \A k \in {"cprogram", "mprogram"} :
        k \in Changed("dynamic", v) <=> "dynamic" \notin DOMAIN last \/ last["dynamic"][k] # v[k]
      BY <1>2, <1>4 DEF Changed, Compared
<1>6. CProgramNum' = v.cprogram /\ MProgramNum' = v.mprogram /\ PartCount' = PartCount
      BY <1>3 DEF CProgramNum, MProgramNum, PartCount
<1>7. /\ "cprogram" \in Changed("dynamic", v) <=>
           "dynamic" \notin DOMAIN last \/ CProgramNum # v.cprogram
      /\ "mprogram" \in Changed("dynamic", v) <=>
           "dynamic" \notin DOMAIN last \/ MProgramNum # v.mprogram
      BY <1>5 DEF CProgramNum, MProgramNum
<1>8. "dynamic" \notin DOMAIN last => CProgramNum = -1 /\ MProgramNum = -1
      BY DEF CProgramNum, MProgramNum
<1>9. pc \in UpToDynamic /\ pc \notin UpToHeader /\ pc \notin UpToName /\ pc \notin UpToProgram
      /\ pc' \in UpToName /\ pc' \in UpToHeader /\ pc' \in UpToProgram
      /\ pc' \notin Outside /\ pc' \notin UpToDynamic
      BY <1>1 DEF UpToDynamic, UpToProgram, UpToHeader, UpToName, Outside
<1>10. /\ DOMAIN updates \cap ProgramKeys = {}
       /\ gate.program_name = CProgramNum /\ gate.program = MProgramNum
       /\ gate.program_header = IF "dynamic" \in DOMAIN last THEN CProgramNum ELSE 0
       BY <1>1, <1>9 DEF NumberInv, NameInv, HeaderInv, ContentsInv
<1>11. /\ Has("cprogram")' <=> "cprogram" \in Changed("dynamic", v)
       /\ Has("mprogram")' <=> "mprogram" \in Changed("dynamic", v)
       /\ ~Has("program_header")' /\ ~Has("program_size")' /\ ~Has("program_name")'
       /\ \A k \in {"part_count", "cycle_time"} : Has(k)' <=> Has(k)
       BY <1>2, <1>3, <1>4, <1>10 DEF Has, Changed, ProgramKeys
<1>12. StartInv'
  <2>1. Passed(pc') \subseteq Passed(pc) \cup {"dynamic"} BY <1>1 DEF Passed, UpToProgram, UpToHeader, UpToName, DeltaChecks
  <2> QED BY <1>1, <1>3, <1>9, <2>1 DEF StartInv
<1>13. PartInv' BY <1>1, <1>6, <1>11 DEF PartInv
<1>14. NumberInv' BY <1>3, <1>6, <1>9, <1>11 DEF NumberInv, Has
<1>15. NameInv' BY <1>1, <1>6, <1>7, <1>8, <1>9, <1>10, <1>11 DEF NameInv
<1>16. HeaderInv' BY <1>1, <1>6, <1>7, <1>9, <1>10, <1>11 DEF HeaderInv
<1>17. ContentsInv' BY <1>1, <1>6, <1>7, <1>8, <1>9, <1>10, <1>11 DEF ContentsInv
<1>18. SnapshotInv'
  <2>1. "dynamic" \notin DOMAIN last => Changed("dynamic", v) = Keys["dynamic"]
        BY <1>2 DEF Changed
  <2>2. Has("id")' => Has("id") BY <1>2, <1>3, <1>4 DEF Has, Changed
  <2> QED BY <1>3, <2>1, <2>2 DEF SnapshotInv, Has
<1> QED BY <1>12, <1>13, <1>14, <1>15, <1>16, <1>17, <1>18

(* The name and the path are read together, when the number is new. *)
LEMMA ProgramNameTick == ASSUME TypeOK, TickInv, CheckMachineProgramName PROVE TickInv'
<1> USE DEF TickInv, process
<1>1. pc = "program_name" /\ last' = last /\ gate' = gate
      BY DEF CheckMachineProgramName
<1>2. \/ /\ gate.program_name # CProgramNum /\ pc' = "program_path"
         /\ updates' = Overlay(ProgramNameReading, updates)
      \/ gate.program_name = CProgramNum /\ pc' = "program_header" /\ updates' = updates
      BY DEF CheckMachineProgramName
<1>3. DOMAIN ProgramNameReading = {"program_name"} BY DEF ProgramNameReading
<1>4. /\ DOMAIN updates' = IF pc' = "program_path" THEN {"program_name"} \cup DOMAIN updates
                           ELSE DOMAIN updates
      /\ \A k \in DOMAIN updates \ {"program_name"} : updates'[k] = updates[k]
  <2>1. CASE updates' = Overlay(ProgramNameReading, updates) /\ pc' = "program_path"
        BY <1>3, <2>1, OverlayMessage
  <2>2. CASE updates' = updates /\ pc' = "program_header" BY <2>2
  <2> QED BY <1>2, <2>1, <2>2
<1>5. PartCount' = PartCount /\ CProgramNum' = CProgramNum /\ MProgramNum' = MProgramNum
      BY <1>1 DEF PartCount, CProgramNum, MProgramNum
<1>6. pc \in UpToName /\ pc \in UpToHeader /\ pc \in UpToProgram
      /\ pc' \in UpToHeader /\ pc' \in UpToProgram /\ pc' \notin UpToName
      /\ pc' \notin Outside /\ pc' \notin UpToDynamic
      BY <1>1, <1>2 DEF UpToDynamic, UpToProgram, UpToHeader, UpToName, Outside
<1>7. StartInv'
  <2>1. Passed(pc') \subseteq Passed(pc)
        BY <1>1, <1>2 DEF Passed, UpToProgram, UpToHeader, UpToName, DeltaChecks
  <2> QED BY <1>1, <1>2, <1>6, <2>1 DEF StartInv
<1>8. PartInv' BY <1>1, <1>2, <1>4, <1>5 DEF PartInv, Has
<1>9. NumberInv' BY <1>1, <1>4, <1>5, <1>6 DEF NumberInv, Has
<1>10. NameInv' BY <1>1, <1>2, <1>4, <1>5, <1>6 DEF NameInv, Has
<1>11. HeaderInv' BY <1>1, <1>4, <1>5, <1>6 DEF HeaderInv, Has
<1>12. ContentsInv' BY <1>1, <1>4, <1>5, <1>6 DEF ContentsInv, Has
<1>13. SnapshotInv' BY <1>1, <1>4 DEF SnapshotInv, Has
<1> QED BY <1>7, <1>8, <1>9, <1>10, <1>11, <1>12, <1>13

LEMMA ProgramPathTick == ASSUME TypeOK, TickInv, CheckMachineProgramPath PROVE TickInv'
<1> USE DEF TickInv
<1>1. /\ pc = "program_path" /\ pc' = "program_header" /\ last' = last
      /\ gate' = [gate EXCEPT !.program_name = CProgramNum]
      /\ updates' = Overlay(ProgramPathReading, updates)
      BY DEF CheckMachineProgramPath
<1>2. DOMAIN ProgramPathReading = {"program_path"} BY DEF ProgramPathReading
<1>3. /\ DOMAIN updates' = {"program_path"} \cup DOMAIN updates
      /\ \A k \in DOMAIN updates \ {"program_path"} : updates'[k] = updates[k]
      BY <1>1, <1>2, OverlayMessage
<1>4. /\ gate'.program_name = CProgramNum /\ gate'.cycle_time = gate.cycle_time
      /\ gate'.program_header = gate.program_header /\ gate'.program = gate.program
      BY <1>1, GateKeys
<1>5. PartCount' = PartCount /\ CProgramNum' = CProgramNum /\ MProgramNum' = MProgramNum
      BY <1>1 DEF PartCount, CProgramNum, MProgramNum
<1>6. pc \in UpToHeader /\ pc \in UpToProgram
      /\ pc' \in UpToHeader /\ pc' \in UpToProgram /\ pc' \notin UpToName
      /\ pc' \notin Outside /\ pc' \notin UpToDynamic
      BY <1>1 DEF UpToDynamic, UpToProgram, UpToHeader, UpToName, Outside
<1>7. StartInv'
  <2>1. Passed(pc') \subseteq Passed(pc)
        BY <1>1 DEF Passed, UpToProgram, UpToHeader, UpToName, DeltaChecks
  <2> QED BY <1>1, <1>6, <2>1 DEF StartInv
<1>8. PartInv' BY <1>1, <1>3, <1>4, <1>5 DEF PartInv, Has
<1>9. NumberInv' BY <1>1, <1>3, <1>5, <1>6 DEF NumberInv, Has
<1>10. NameInv' BY <1>1, <1>3, <1>4, <1>5, <1>6 DEF NameInv, Has
<1>11. HeaderInv' BY <1>1, <1>3, <1>4, <1>5, <1>6 DEF HeaderInv, Has
<1>12. ContentsInv' BY <1>1, <1>3, <1>4, <1>5, <1>6 DEF ContentsInv, Has
<1>13. SnapshotInv' BY <1>1, <1>3 DEF SnapshotInv, Has
<1> QED BY <1>7, <1>8, <1>9, <1>10, <1>11, <1>12, <1>13

(* The header is that of the number last read. *)
LEMMA ProgramHeaderTick == ASSUME TypeOK, TickInv, CheckMachineProgramHeader PROVE TickInv'
<1> USE DEF TickInv
<1>1. /\ pc = "program_header" /\ pc' = "program" /\ last' = last
      /\ gate' = [gate EXCEPT !.program_header = CProgramNum]
      BY DEF CheckMachineProgramHeader
<1> DEFINE header(t) == [program_header |-> [number |-> CProgramNum, text |-> t]]
<1>2. \A t : DOMAIN header(t) = {"program_header"} /\ header(t).program_header.number = CProgramNum
      OBVIOUS
<1>3. \/ gate.program_header # CProgramNum /\ \E t : updates' = Overlay(header(t), updates)
      \/ gate.program_header = CProgramNum /\ updates' = updates
      BY DEF CheckMachineProgramHeader
<1> HIDE DEF header
<1>4. /\ DOMAIN updates' = IF gate.program_header # CProgramNum
                           THEN {"program_header"} \cup DOMAIN updates ELSE DOMAIN updates
      /\ \A k \in DOMAIN updates \ {"program_header"} : updates'[k] = updates[k]
      /\ gate.program_header # CProgramNum => updates'.program_header.number = CProgramNum
  <2>1. ASSUME NEW t, updates' = Overlay(header(t), updates), gate.program_header # CProgramNum
        PROVE  /\ DOMAIN updates' = {"program_header"} \cup DOMAIN updates
               /\ \A k \in DOMAIN updates \ {"program_header"} : updates'[k] = updates[k]
               /\ updates'.program_header.number = CProgramNum
    <3>1. /\ DOMAIN updates' = DOMAIN header(t) \cup DOMAIN updates
          /\ \A k \in DOMAIN header(t) : updates'[k] = header(t)[k]
          /\ \A k \in DOMAIN updates \ DOMAIN header(t) : updates'[k] = updates[k]
          BY <2>1, OverlayMessage
    <3>2. updates'["program_header"] = header(t)["program_header"] BY <1>2, <3>1
    <3> QED BY <1>2, <3>1, <3>2
  <2> QED BY <1>3, <2>1
<1>5. /\ gate'.program_header = CProgramNum /\ gate'.cycle_time = gate.cycle_time
      /\ gate'.program_name = gate.program_name /\ gate'.program = gate.program
      BY <1>1, GateKeys
<1>6. PartCount' = PartCount /\ CProgramNum' = CProgramNum /\ MProgramNum' = MProgramNum
      BY <1>1 DEF PartCount, CProgramNum, MProgramNum
<1>7. pc \in UpToHeader /\ pc \in UpToProgram /\ pc \notin UpToName
      /\ pc' \notin UpToHeader /\ pc' \in UpToProgram /\ pc' \notin UpToName
      /\ pc' \notin Outside /\ pc' \notin UpToDynamic
      BY <1>1 DEF UpToDynamic, UpToProgram, UpToHeader, UpToName, Outside
<1>8. "dynamic" \in DOMAIN last
  <2>1. Passed(pc) = DeltaChecks \ {"block"}
        BY <1>1 DEF Passed, UpToProgram, UpToHeader, UpToName, DeltaChecks
  <2> QED BY <2>1 DEF StartInv, DeltaChecks
<1>9. StartInv'
  <2>1. Passed(pc') \subseteq Passed(pc)
        BY <1>1 DEF Passed, UpToProgram, UpToHeader, UpToName, DeltaChecks
  <2> QED BY <1>1, <1>7, <2>1 DEF StartInv
<1>10. PartInv' BY <1>1, <1>4, <1>5, <1>6 DEF PartInv, Has
<1>11. NumberInv' BY <1>1, <1>4, <1>6, <1>7 DEF NumberInv, Has
<1>12. NameInv' BY <1>1, <1>4, <1>5, <1>6, <1>7 DEF NameInv, Has
<1>13. HeaderInv' BY <1>1, <1>4, <1>5, <1>6, <1>7, <1>8 DEF HeaderInv, Has
<1>14. ContentsInv' BY <1>1, <1>4, <1>5, <1>6, <1>7 DEF ContentsInv, Has
<1>15. SnapshotInv' BY <1>1, <1>4 DEF SnapshotInv, Has
<1> QED BY <1>9, <1>10, <1>11, <1>12, <1>13, <1>14, <1>15

LEMMA ProgramContentsTick == ASSUME TypeOK, TickInv, CheckMachineProgramContents PROVE TickInv'
<1> USE DEF TickInv
<1>1. /\ pc = "program" /\ pc' = "block" /\ last' = last
      /\ gate' = [gate EXCEPT !.program = MProgramNum]
      BY DEF CheckMachineProgramContents
<1>2. \A path, chunks : "program_size" \in DOMAIN Contents(path, chunks)
                        /\ DOMAIN Contents(path, chunks) \subseteq {"program_size", "program"}
      BY DEF Contents
<1>3. \/ gate.program # MProgramNum /\ \E chunks : updates' = Overlay(Contents(mProgramPath, chunks), updates)
      \/ gate.program = MProgramNum /\ updates' = updates
      BY DEF CheckMachineProgramContents
<1>4. /\ Has("program_size")' <=> Has("program_size") \/ gate.program # MProgramNum
      /\ DOMAIN updates \subseteq DOMAIN updates'
      /\ DOMAIN updates' \subseteq DOMAIN updates \cup {"program_size", "program"}
      /\ \A k \in DOMAIN updates \ {"program_size", "program"} : updates'[k] = updates[k]
  <2>1. ASSUME NEW chunks, updates' = Overlay(Contents(mProgramPath, chunks), updates),
               gate.program # MProgramNum
        PROVE  /\ "program_size" \in DOMAIN updates'
               /\ DOMAIN updates \subseteq DOMAIN updates'
               /\ DOMAIN updates' \subseteq DOMAIN updates \cup {"program_size", "program"}
               /\ \A k \in DOMAIN updates \ {"program_size", "program"} : updates'[k] = updates[k]
        BY <1>2, <2>1, OverlayMessage
  <2> QED BY <1>3, <2>1 DEF Has
<1>5. /\ gate'.program = MProgramNum /\ gate'.cycle_time = gate.cycle_time
      /\ gate'.program_name = gate.program_name /\ gate'.program_header = gate.program_header
      BY <1>1, GateKeys
<1>6. PartCount' = PartCount /\ CProgramNum' = CProgramNum /\ MProgramNum' = MProgramNum
      BY <1>1 DEF PartCount, CProgramNum, MProgramNum
<1>7. pc \notin UpToHeader /\ pc \in UpToProgram /\ pc \notin UpToName
      /\ pc' \notin UpToHeader /\ pc' \notin UpToProgram /\ pc' \notin UpToName
      /\ pc' \notin Outside /\ pc' \notin UpToDynamic
      BY <1>1 DEF UpToDynamic, UpToProgram, UpToHeader, UpToName, Outside
<1>8. StartInv'
  <2>1. Passed(pc') \subseteq Passed(pc)
        BY <1>1 DEF Passed, UpToProgram, UpToHeader, UpToName, DeltaChecks
  <2> QED BY <1>1, <1>7, <2>1 DEF StartInv
<1>9. \A k \in {"part_count", "cycle_time", "cprogram", "mprogram", "program_name", "program_path",
                "program_header", "id", "axes"} :
        /\ Has(k)' <=> Has(k)
        /\ Has(k) => updates'[k] = updates[k]
      BY <1>4 DEF Has
<1>10. PartInv' BY <1>1, <1>5, <1>6, <1>9 DEF PartInv
<1>11. NumberInv' BY <1>1, <1>6, <1>7, <1>9 DEF NumberInv
<1>12. NameInv'
  <2>1. {"program_name", "program_path"} \subseteq DOMAIN updates =>
          {"program_name", "program_path"} \subseteq DOMAIN updates'
        BY <1>4
  <2> QED BY <1>1, <1>5, <1>6, <1>7, <1>9, <2>1 DEF NameInv
<1>13. HeaderInv' BY <1>1, <1>5, <1>6, <1>7, <1>9 DEF HeaderInv
<1>14. ContentsInv' BY <1>1, <1>4, <1>5, <1>6, <1>7, <1>9 DEF ContentsInv
<1>15. SnapshotInv' BY <1>1, <1>4, <1>9 DEF SnapshotInv, Has
<1> QED BY <1>8, <1>10, <1>11, <1>12, <1>13, <1>14, <1>15

----------------------------------------------------------------------------
(* The process around the ticks. *)

LEMMA NothingRemembered ==
  ASSUME pc \in Outside, updates = NoValues, last = NoValues, gate = NoGates
  PROVE  TickInv
<1>1. DOMAIN updates = {} /\ DOMAIN last = {} BY DEF NoValues
<1>2. PartCount = -1 /\ CProgramNum = -1 /\ MProgramNum = -1
      BY <1>1 DEF PartCount, CProgramNum, MProgramNum
<1>3. /\ gate.cycle_time = -1 /\ gate.program_name = -1
      /\ gate.program_header = 0 /\ gate.program = -1
      BY DEF NoGates
<1>4. pc \notin UpToName \cup UpToHeader \cup UpToProgram /\ pc # "cycle_time" /\ pc # "program_path"
      /\ pc # "part_count" /\ Passed(pc) = {}
      BY DEF Outside, UpToName, UpToHeader, UpToProgram, Passed, DeltaChecks
<1> QED BY <1>1, <1>2, <1>3, <1>4
        DEF TickInv, StartInv, PartInv, NumberInv, NameInv, HeaderInv, ContentsInv, SnapshotInv, Has

LEMMA NothingRememberedNext ==
  ASSUME pc' \in Outside, updates' = NoValues, last' = NoValues, gate' = NoGates
  PROVE  TickInv'
<1>1. DOMAIN updates' = {} /\ DOMAIN last' = {} BY DEF NoValues
<1>2. PartCount' = -1 /\ CProgramNum' = -1 /\ MProgramNum' = -1
      BY <1>1 DEF PartCount, CProgramNum, MProgramNum
<1>3. /\ gate'.cycle_time = -1 /\ gate'.program_name = -1
      /\ gate'.program_header = 0 /\ gate'.program = -1
      BY DEF NoGates
<1>4. pc' \notin UpToName \cup UpToHeader \cup UpToProgram /\ pc' # "cycle_time" /\ pc' # "program_path"
      /\ pc' # "part_count" /\ Passed(pc') = {}
      BY DEF Outside, UpToName, UpToHeader, UpToProgram, Passed, DeltaChecks
<1> QED BY <1>1, <1>2, <1>3, <1>4
        DEF TickInv, StartInv, PartInv, NumberInv, NameInv, HeaderInv, ContentsInv, SnapshotInv, Has

(* Steps of others, which a tick does not see. *)
LEMMA ElsewhereTick == ASSUME TickInv, UNCHANGED <<pc, last, gate, updates>> PROVE TickInv'
<1>1. PartCount' = PartCount /\ CProgramNum' = CProgramNum /\ MProgramNum' = MProgramNum
      BY DEF PartCount, CProgramNum, MProgramNum
<1>2. PartInv' /\ NumberInv' /\ NameInv' /\ HeaderInv' /\ ContentsInv'
      BY <1>1, SamePlace
<1>3. StartInv' /\ SnapshotInv' BY DEF TickInv, StartInv, SnapshotInv, Has, Passed
<1> QED BY <1>2, <1>3 DEF TickInv

LEMMA LifeTick ==
  ASSUME TypeOK, TickInv, Start \/ SetupConnection \/ SigTermEarly \/ LoopFails \/ Killed \/ FlushDone
  PROVE  TickInv'
<1>1. pc' \in Outside /\ updates' = NoValues /\ last' = NoValues /\ gate' = NoGates
  <2>1. CASE LoopFails \/ Killed \/ FlushDone
        BY <2>1 DEF LoopFails, Killed, FlushDone, Exit, Outside
  <2>2. CASE Start \/ SetupConnection \/ SigTermEarly
        BY <2>2 DEF Start, SetupConnection, SigTermEarly, process, TickInv, StartInv, Outside
  <2> QED BY <2>1, <2>2
<1> QED BY <1>1, NothingRememberedNext

LEMMA MachineInfoTick == ASSUME TypeOK, TickInv, CheckMachineInfo PROVE TickInv'
<1>1. PICK r \in MachineInfoReadings : updates' = Overlay(r, updates)
      BY DEF CheckMachineInfo
<1>2. pc = "info" /\ pc' = "part_count" /\ last' = last /\ gate' = gate
      BY DEF CheckMachineInfo, process
<1>3. updates = NoValues /\ last = NoValues BY <1>2 DEF TickInv, StartInv, Outside
<1>4. DOMAIN updates = {} /\ DOMAIN last = {} BY <1>3 DEF NoValues
<1>5. DOMAIN updates' = {"id", "axes"} BY <1>1, <1>4, MachineInfoKeys, OverlayMessage
<1>6. PartCount' = PartCount /\ CProgramNum' = CProgramNum /\ MProgramNum' = MProgramNum
      BY <1>2 DEF PartCount, CProgramNum, MProgramNum
<1>7. \A place \in {{"cycle_time"}, {"program_path"}, UpToDynamic, UpToName, UpToHeader, UpToProgram} :
        pc' \in place <=> pc \in place
      BY <1>2 DEF UpToDynamic, UpToName, UpToHeader, UpToProgram, Outside
<1>8. \A k \in ProgramKeys \cup {"part_count", "cycle_time"} :
        /\ k \in DOMAIN updates' <=> k \in DOMAIN updates
        /\ k \in DOMAIN updates => updates'[k] = updates[k]
      BY <1>4, <1>5 DEF ProgramKeys
<1>9. PartInv' /\ NumberInv' /\ NameInv' /\ HeaderInv' /\ ContentsInv'
      BY <1>2, <1>6, <1>7, <1>8, SamePlace
<1>10. Passed(pc') = {} BY <1>2 DEF Passed, UpToProgram, UpToHeader, UpToName
<1>11. StartInv' /\ SnapshotInv'
       BY <1>2, <1>4, <1>5, <1>10 DEF StartInv, SnapshotInv, Has, Outside
<1> QED BY <1>9, <1>11 DEF TickInv

(* At the end of a tick every gate knows the number last read. *)
LEMMA ProduceTick == ASSUME TypeOK, TickInv, Produce \/ ProduceRejected PROVE TickInv'
<1> USE DEF TickInv
<1>1. /\ pc = "produce" /\ pc' \in {"flush", "part_count"}
      /\ last' = last /\ gate' = gate /\ updates' = NoValues
      BY DEF Produce, ProduceRejected, NextTick, process
<1>2. DOMAIN updates' = {} BY <1>1 DEF NoValues
<1>3. PartCount' = PartCount /\ CProgramNum' = CProgramNum /\ MProgramNum' = MProgramNum
      BY <1>1 DEF PartCount, CProgramNum, MProgramNum
<1>4. pc \notin UpToName \cup UpToHeader \cup UpToProgram /\ pc \notin Outside
      /\ pc' \notin UpToName \cup UpToHeader \cup UpToProgram
      /\ pc' # "cycle_time" /\ pc' # "program_path" /\ pc' \notin Outside \ {"flush"}
      /\ Passed(pc') = {}
      BY <1>1 DEF Outside, UpToName, UpToHeader, UpToProgram, Passed, DeltaChecks
<1>5. StartInv' /\ SnapshotInv' BY <1>1, <1>2, <1>4 DEF StartInv, SnapshotInv, Has
<1>6. PartInv' /\ NumberInv'
      BY <1>1, <1>2, <1>3, <1>4 DEF PartInv, NumberInv, Has
<1>7. NameInv' /\ HeaderInv' /\ ContentsInv'
      BY <1>1, <1>2, <1>3, <1>4 DEF NameInv, HeaderInv, ContentsInv, Has
<1> QED BY <1>5, <1>6, <1>7

LEMMA OtherChecksTick ==
  ASSUME TypeOK, TickInv,
         CheckMachineStatus \/ CheckMachineToolInfo \/ CheckMachineMessage \/ CheckMachineBlock
  PROVE  TickInv'
<1>1. CASE CheckMachineStatus
  <2>1. CompareAndSend("status", StatusReading) /\ pc = "status" /\ pc' = "tool" /\ gate' = gate
        BY <1>1 DEF CheckMachineStatus
  <2> QED BY <2>1, ReadingKeys, OtherCheck
<1>2. CASE CheckMachineToolInfo
  <2>1. PICK r \in ToolReadings(toolMode) : CompareAndSend("tool", r[2])
        BY <1>2 DEF CheckMachineToolInfo
  <2>2. DOMAIN r[2] = Keys["tool"] BY ReadingKeys
  <2>3. pc = "tool" /\ pc' = "dynamic" /\ gate' = gate BY <1>2 DEF CheckMachineToolInfo
  <2> QED BY <2>1, <2>2, <2>3, OtherCheck
<1>3. CASE CheckMachineMessage
  <2>1. CompareAndSend("message", MessageReading) /\ pc = "message" /\ pc' = "program_name" /\ gate' = gate
        BY <1>3 DEF CheckMachineMessage
  <2> QED BY <2>1, ReadingKeys, OtherCheck
<1>4. CASE CheckMachineBlock
  <2>1. CompareAndSend("block", BlockReading) /\ pc = "block" /\ pc' = "produce" /\ gate' = gate
        BY <1>4 DEF CheckMachineBlock
  <2> QED BY <2>1, ReadingKeys, OtherCheck
<1> QED BY <1>1, <1>2, <1>3, <1>4

LEMMA TickStep == TypeOK /\ TickInv /\ [Next]_vars => TickInv'
<1> SUFFICES ASSUME TypeOK, TickInv, [Next]_vars PROVE TickInv'
    OBVIOUS
<1>1. CASE UNCHANGED vars \/ SigTerm \/ Deliver \/ DeliveryFails \/ MachineChanges
      BY <1>1, ElsewhereTick DEF vars, process, SigTerm, Deliver, DeliveryFails, MachineChanges
<1>2. CASE LoopTick
      BY <1>2, PartCountTick, CycleTimeTick, DynamicTick, ProgramNameTick, ProgramPathTick,
         ProgramHeaderTick, ProgramContentsTick, OtherChecksTick DEF LoopTick
<1> QED BY <1>1, <1>2, LifeTick, MachineInfoTick, ProduceTick DEF Next, Main

LEMMA AlwaysTick == Spec => [](TypeOK /\ TickInv)
<1>1. Init => TickInv BY NothingRemembered DEF Init, Outside
<1>2. TypeOK /\ TickInv /\ [Next]_vars => (TypeOK /\ TickInv)' BY TypeStep, TickStep
<1> QED BY <1>1, <1>2, TypeInit, PTL DEF Spec

----------------------------------------------------------------------------
(* What a message has together. *)

(* With a part count comes the cycle time, with a program number the name,  *)
(* the path and the header, with a main program what was uploaded of it.    *)
THEOREM MessagesAreComplete == Spec => []TravelTogether
<1>1. TickInv => TravelTogether
  <2> SUFFICES ASSUME TickInv, pc = "produce" PROVE TravelTogether!2
      BY DEF TravelTogether
  <2>1. pc \notin UpToName \cup UpToHeader \cup UpToProgram
        BY DEF UpToName, UpToHeader, UpToProgram
  <2> QED BY <2>1
          DEF TickInv, PartInv, NumberInv, NameInv, HeaderInv, ContentsInv, Has
<1> QED BY <1>1, AlwaysTick, PTL

(* The first message of every process is a complete snapshot. *)
THEOREM FirstMessageIsSnapshot == Spec => []RestartSendsSnapshot
<1>1. TickInv => RestartSendsSnapshot
  <2> SUFFICES ASSUME TickInv, pc = "produce", Has("id") PROVE Snapshot \subseteq DOMAIN updates
      BY DEF RestartSendsSnapshot, Has
  <2>1. pc \notin UpToName \cup UpToHeader \cup UpToProgram /\ Passed(pc) = DeltaChecks
        BY DEF UpToName, UpToHeader, UpToProgram, Passed
  <2>2. Has("axes") /\ \A c \in DeltaChecks : Keys[c] \subseteq DOMAIN updates
        BY <2>1 DEF TickInv, StartInv, SnapshotInv
  <2>3. Has("part_count") /\ Has("cprogram") /\ Has("mprogram")
        BY <2>2 DEF Keys, DeltaChecks, Has
  <2>4. /\ Has("cycle_time")
        /\ CProgramNum = -1 \/ {"program_name", "program_path"} \subseteq DOMAIN updates
        /\ MProgramNum = -1 \/ Has("program_size")
        BY <2>1, <2>3 DEF TickInv, PartInv, NameInv, ContentsInv
  <2>5. UNION {Keys[c] : c \in DeltaChecks} \subseteq DOMAIN updates BY <2>2
  <2> QED BY <2>2, <2>4, <2>5 DEF Snapshot, Has
<1> QED BY <1>1, AlwaysTick, PTL

----------------------------------------------------------------------------
(* The header follows the program, message by message. *)

LEMMA ComposedIsHeaded == ASSUME TickInv, pc = "produce" PROVE Headed(updates)
<1>1. pc \notin UpToHeader BY DEF UpToHeader, UpToName
<1> QED BY <1>1 DEF TickInv, NumberInv, HeaderInv, Headed, Has

LEMMA HeadedStep == TypeOK /\ TickInv /\ HeadedInv /\ [Next]_vars => HeadedInv'
<1> SUFFICES ASSUME TypeOK, TickInv, HeadedInv, [Next]_vars PROVE HeadedInv'
    OBVIOUS
<1>1. CASE outq' = outq /\ view' = view
      BY <1>1 DEF HeadedInv, Headed, HeaderFollowsProgram
<1>2. CASE outq' = <<>> /\ view' = view
      BY <1>2 DEF HeadedInv, Headed, HeaderFollowsProgram
<1>3. CASE Produce
  <2>1. IsQueue(outq) /\ Len(outq) < QueueCap /\ DOMAIN updates \subseteq AllKeys
        /\ outq' = Append(outq, updates) /\ view' = view /\ pc = "produce"
        BY <1>3 DEF Produce, TypeOK
  <2>2. /\ Len(outq) \in Nat /\ Len(outq') = Len(outq) + 1
        /\ outq'[Len(outq) + 1] = updates
        /\ \A i \in 1..Len(outq) : outq'[i] = outq[i]
        BY <2>1, QueueAppend
  <2>3. Headed(updates) BY <2>1, ComposedIsHeaded
  <2>4. \A i \in 1..Len(outq') : Headed(outq'[i]) BY <2>2, <2>3 DEF HeadedInv
  <2> QED BY <2>1, <2>4 DEF HeadedInv, Headed, HeaderFollowsProgram
<1>4. CASE Deliver \/ DeliveryFails
  <2>1. outq # <<>> /\ outq' = Tail(outq) /\ (view' = view \/ view' = Overlay(Head(outq), view))
        BY <1>4 DEF Deliver, DeliveryFails
  <2>2. /\ Len(outq) \in Nat \ {0} /\ Len(outq') = Len(outq) - 1
        /\ Head(outq) = outq[1]
        /\ \A i \in 1..(Len(outq) - 1) : outq'[i] = outq[i + 1]
        BY <2>1, QueueTail DEF TypeOK
  <2>3. \A i \in 1..Len(outq') : Headed(outq'[i]) BY <2>2 DEF HeadedInv
  <2>4. Headed(Head(outq)) BY <2>2 DEF HeadedInv
  <2>5. HeaderFollowsProgram'
    <3>1. CASE view' = view BY <3>1 DEF HeadedInv, HeaderFollowsProgram
    <3>2. CASE view' = Overlay(Head(outq), view)
      <4> DEFINE m == Head(outq)
      <4>1. /\ DOMAIN view' = DOMAIN m \cup DOMAIN view
            /\ \A k \in DOMAIN m : view'[k] = m[k]
            /\ \A k \in DOMAIN view \ DOMAIN m : view'[k] = view[k]
        <5>1. /\ DOMAIN Overlay(m, view) = DOMAIN m \cup DOMAIN view
              /\ \A k \in DOMAIN m : Overlay(m, view)[k] = m[k]
              /\ \A k \in DOMAIN view \ DOMAIN m : Overlay(m, view)[k] = view[k]
              BY OverlayValues
        <5> QED BY <3>2, <5>1
      <4> HIDE DEF m
      <4>2. Headed(m) BY <2>4 DEF m
      <4>3. CASE "cprogram" \in DOMAIN m BY <4>1, <4>2, <4>3 DEF Headed, HeaderFollowsProgram
      <4>4. CASE "cprogram" \notin DOMAIN m
        <5>1. "program_header" \notin DOMAIN m BY <4>2, <4>4 DEF Headed
        <5> QED BY <4>1, <4>4, <5>1 DEF HeadedInv, HeaderFollowsProgram
      <4> QED BY <4>3, <4>4
    <3> QED BY <2>1, <3>1, <3>2
  <2> QED BY <2>3, <2>5 DEF HeadedInv, Headed
<1>5. CASE Killed \/ LoopFails \/ FlushDone
      BY <1>2, <1>5 DEF Killed, LoopFails, FlushDone, Exit
<1>6. CASE UNCHANGED vars \/ Start \/ SetupConnection \/ CheckMachineInfo \/ LoopTick
           \/ ProduceRejected \/ SigTerm \/ SigTermEarly \/ MachineChanges
  <2>1. outq' = outq /\ view' = view
        BY <1>6 DEF vars, kafka, Start, SetupConnection, CheckMachineInfo, ProduceRejected, SigTerm,
           SigTermEarly, MachineChanges, LoopTick, CheckMachinePartCount, CheckMachineCycleTime,
           CheckMachineStatus, CheckMachineToolInfo, CheckMachineDynamic, CheckMachineMessage,
           CheckMachineProgramName, CheckMachineProgramPath, CheckMachineProgramHeader,
           CheckMachineProgramContents, CheckMachineBlock
  <2> QED BY <1>1, <2>1
<1> QED BY <1>3, <1>4, <1>5, <1>6 DEF Next, Main

(* The header a reader shows next to a program number is that program's,    *)
(* whatever was lost and however often the driver restarted.                *)
THEOREM HeadersFollow == Spec => []HeaderFollowsProgram
<1>1. Init => HeadedInv
  <2> SUFFICES ASSUME Init PROVE HeadedInv
      OBVIOUS
  <2>1. outq = <<>> /\ view = NoValues BY DEF Init
  <2>2. Len(outq) = 0 BY <2>1
  <2>3. DOMAIN view = {} BY <2>1 DEF NoValues
  <2> QED BY <2>2, <2>3 DEF HeadedInv, HeaderFollowsProgram
<1>2. TypeOK /\ TickInv /\ HeadedInv /\ [Next]_vars => HeadedInv'
      BY HeadedStep
<1>3. HeadedInv => HeaderFollowsProgram BY DEF HeadedInv
<1> QED BY <1>1, <1>2, <1>3, AlwaysTick, PTL DEF Spec
=============================================================================
