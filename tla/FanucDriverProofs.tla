------------------------- MODULE FanucDriverProofs -------------------------
(***************************************************************************)
(* Proofs about the driver, for every set of machine states, every queue   *)
(* capacity and any number of changes and faults.                          *)
(***************************************************************************)
EXTENDS FanucDriver, TLAPS

----------------------------------------------------------------------------
(* Lemmas about overlaying messages. *)

(* An overlay has the keys of both, and the newer value where both have one. *)
LEMMA OverlayValues ==
  ASSUME NEW new, NEW old
  PROVE  /\ DOMAIN Overlay(new, old) = DOMAIN new \cup DOMAIN old
         /\ \A k \in DOMAIN new : Overlay(new, old)[k] = new[k]
         /\ \A k \in DOMAIN old \ DOMAIN new : Overlay(new, old)[k] = old[k]
BY DEF Overlay

(* The keys the control is read for, by check. *)
LEMMA ReadingKeys ==
  /\ DOMAIN PartCountReading = Keys["part_count"]
  /\ DOMAIN StatusReading = Keys["status"]
  /\ DOMAIN DynamicReading = Keys["dynamic"]
  /\ DOMAIN MessageReading = Keys["message"]
  /\ DOMAIN BlockReading = Keys["block"]
  /\ \A mode : \A r \in ToolReadings(mode) : DOMAIN r[2] = Keys["tool"]
<1>1. DOMAIN PartCountReading = Keys["part_count"] BY DEF PartCountReading, Keys
<1>2. DOMAIN StatusReading = Keys["status"] BY DEF StatusReading, Keys
<1>3. DOMAIN DynamicReading = Keys["dynamic"] BY DEF DynamicReading, Keys
<1>4. DOMAIN MessageReading = Keys["message"] BY DEF MessageReading, Keys
<1>5. DOMAIN BlockReading = Keys["block"] BY DEF BlockReading, Keys
<1>6. \A mode : \A r \in ToolReadings(mode) : DOMAIN r[2] = Keys["tool"]
      BY DEF ToolReadings, Keys
<1> QED BY <1>1, <1>2, <1>3, <1>4, <1>5, <1>6

LEMMA MachineInfoKeys == \A r \in MachineInfoReadings : DOMAIN r = {"id", "axes"}
<1> TAKE r \in MachineInfoReadings
<1>1. PICK a \in {"axes", "axes without data"} : r = [id |-> "id", axes |-> a]
      BY DEF MachineInfoReadings
<1>2. DOMAIN [id |-> "id", axes |-> a] = {"id", "axes"} OBVIOUS
<1> QED BY <1>1, <1>2

(* A check's keys are its own, but for the one "alarm" that two checks write. *)
LEMMA KeysApart ==
  ASSUME NEW c \in DeltaChecks, NEW d \in DeltaChecks, c # d,
         NEW k \in Keys[c] \ Broken
  PROVE  k \notin Keys[d]
BY DEF DeltaChecks, Keys, Broken

(* Appending to, and taking the head off, the output queue. *)
LEMMA QueueEmpty == IsQueue(<<>>)
<1>1. <<>> \in Seq({}) /\ Len(<<>>) = 0 OBVIOUS
<1>2. {<<>>[i] : i \in 1..Len(<<>>)} = {} BY <1>1
<1> QED BY <1>1, <1>2, BoundsAssumption DEF IsQueue

LEMMA QueueAppend ==
  ASSUME NEW q, IsQueue(q), Len(q) < QueueCap, NEW e, DOMAIN e \subseteq AllKeys
  PROVE  /\ IsQueue(Append(q, e))
         /\ Len(q) \in Nat /\ Len(Append(q, e)) = Len(q) + 1
         /\ Append(q, e)[Len(q) + 1] = e
         /\ \A i \in 1..Len(q) : Append(q, e)[i] = q[i]
<1> DEFINE S == {q[i] : i \in 1..Len(q)} \cup {e}
           r == Append(q, e)
<1>1. q \in Seq(S) /\ e \in S
  <2>1. q \in Seq({q[i] : i \in 1..Len(q)}) BY DEF IsQueue
  <2> QED BY <2>1
<1> HIDE DEF S
<1>2. /\ r \in Seq(S) /\ Len(q) \in Nat /\ Len(r) = Len(q) + 1
      /\ r[Len(q) + 1] = e
      /\ \A i \in 1..Len(q) : r[i] = q[i]
      BY <1>1
<1>3. \A i \in 1..Len(r) : DOMAIN r[i] \subseteq AllKeys
      BY <1>2 DEF IsQueue
<1> HIDE DEF r
<1>4. r \in Seq({r[i] : i \in 1..Len(r)}) BY <1>2
<1>5. Len(r) <= QueueCap BY <1>2, BoundsAssumption
<1>6. IsQueue(r) BY <1>3, <1>4, <1>5 DEF IsQueue
<1> QED BY <1>2, <1>6 DEF r

LEMMA QueueTail ==
  ASSUME NEW q, IsQueue(q), q # <<>>
  PROVE  /\ IsQueue(Tail(q))
         /\ Len(q) \in Nat \ {0} /\ Len(Tail(q)) = Len(q) - 1
         /\ Head(q) = q[1]
         /\ \A i \in 1..(Len(q) - 1) : Tail(q)[i] = q[i + 1]
<1> DEFINE S == {q[i] : i \in 1..Len(q)}
           r == Tail(q)
<1>1. q \in Seq(S) BY DEF IsQueue
<1> HIDE DEF S
<1>2. /\ r \in Seq(S) /\ Len(q) \in Nat \ {0} /\ Len(r) = Len(q) - 1
      /\ Head(q) = q[1]
      /\ \A i \in 1..(Len(q) - 1) : r[i] = q[i + 1]
      BY <1>1
<1>3. \A i \in 1..Len(r) : DOMAIN r[i] \subseteq AllKeys
      BY <1>2 DEF IsQueue
<1> HIDE DEF r
<1>4. r \in Seq({r[i] : i \in 1..Len(r)}) BY <1>2
<1>5. Len(r) <= QueueCap BY <1>2, BoundsAssumption DEF IsQueue
<1>6. IsQueue(r) BY <1>3, <1>4, <1>5 DEF IsQueue
<1> QED BY <1>2, <1>6 DEF r

----------------------------------------------------------------------------
(* Type correctness. *)

(* A compare-and-send check leaves lv with its own keys and adds no others. *)
LEMMA CompareAndSendType ==
  ASSUME TypeOK, NEW c \in DeltaChecks, NEW v, DOMAIN v = Keys[c], CompareAndSend(c, v)
  PROVE  /\ DOMAIN last' \subseteq DeltaChecks
         /\ \A d \in DOMAIN last' : DOMAIN last'[d] = Keys[d]
         /\ DOMAIN updates' \subseteq AllKeys
<1> DEFINE sent == [k \in Changed(c, v) |-> Published(v, k)]
           now == [d \in {c} |-> v]
<1>1. updates' = Overlay(sent, updates) /\ last' = Overlay(now, last)
      BY DEF CompareAndSend
<1>2. DOMAIN sent \subseteq Keys[c] BY DEF Changed
<1>6. DOMAIN now = {c} /\ now[c] = v OBVIOUS
<1> HIDE DEF sent, now
<1>3. Keys[c] \subseteq AllKeys BY DEF AllKeys
<1>4. DOMAIN updates \subseteq AllKeys /\ DOMAIN last \subseteq DeltaChecks
      /\ \A d \in DOMAIN last : DOMAIN last[d] = Keys[d]
      BY DEF TypeOK
<1>5. DOMAIN updates' \subseteq AllKeys
  <2>1. DOMAIN updates' = DOMAIN sent \cup DOMAIN updates BY <1>1, OverlayValues
  <2> QED BY <2>1, <1>2, <1>3, <1>4
<1>7. DOMAIN last' = {c} \cup DOMAIN last
      /\ last'[c] = v
      /\ \A d \in DOMAIN last \ {c} : last'[d] = last[d]
  <2>1. last' = Overlay(now, last) BY <1>1
  <2>2. /\ DOMAIN Overlay(now, last) = DOMAIN now \cup DOMAIN last
        /\ \A d \in DOMAIN now : Overlay(now, last)[d] = now[d]
        /\ \A d \in DOMAIN last \ DOMAIN now : Overlay(now, last)[d] = last[d]
        BY DEF Overlay
  <2> QED BY <2>1, <2>2, <1>6
<1> QED BY <1>4, <1>5, <1>7

(* Keys written outside the compare-and-send checks are keys of a message. *)
LEMMA OverlayType ==
  ASSUME NEW new, NEW old, DOMAIN new \subseteq AllKeys, DOMAIN old \subseteq AllKeys
  PROVE  DOMAIN Overlay(new, old) \subseteq AllKeys
BY OverlayValues

(* Leaving the process, for whatever reason, keeps the types. *)
LEMMA ExitType ==
  ASSUME TypeOK, Exit, faults' \in 0..MaxFaults
  PROVE  TypeOK'
<1>1. pc' \in Points BY DEF Exit, Points
<1>2. DOMAIN NoValues = {} BY DEF NoValues
<1>3. IsQueue(outq)' BY QueueEmpty DEF Exit
<1> QED BY <1>1, <1>2, <1>3 DEF Exit, TypeOK

(* The next tick, or the flush. *)
LEMMA NextTickType == NextTick => pc' \in Points
BY DEF NextTick, Points, DeltaChecks

(* The initial state has the right types. *)
THEOREM TypeInit == Init => TypeOK
<1> SUFFICES ASSUME Init PROVE TypeOK OBVIOUS
<1>1. DOMAIN NoValues = {} BY DEF NoValues
<1>2. IsQueue(outq) BY QueueEmpty DEF Init
<1>3. pc \in Points BY DEF Init, Points
<1>4. changes \in 0..MaxChanges /\ faults \in 0..MaxFaults
  <2>1. changes = 0 /\ faults = 0 BY DEF Init
  <2> QED BY <2>1, BoundsAssumption
<1> QED BY <1>1, <1>2, <1>3, <1>4 DEF Init, TypeOK

(* Every step keeps the types. *)
THEOREM TypeStep == TypeOK /\ [Next]_vars => TypeOK'
<1> SUFFICES ASSUME TypeOK, [Next]_vars PROVE TypeOK' OBVIOUS
<1> USE BoundsAssumption DEF process, kafka, budget
<1>0. CASE UNCHANGED vars BY <1>0 DEF vars, TypeOK
<1>1. CASE Start \/ SetupConnection BY <1>1 DEF Start, SetupConnection, TypeOK, Points
<1>2. CASE CheckMachineInfo
  <2>1. \A r \in MachineInfoReadings : DOMAIN r \subseteq AllKeys
        BY MachineInfoKeys DEF AllKeys
  <2>2. DOMAIN updates' \subseteq AllKeys
        BY <1>2, <2>1, OverlayType DEF CheckMachineInfo, TypeOK
  <2>3. faults' \in 0..MaxFaults BY <1>2 DEF CheckMachineInfo, TypeOK
  <2> QED BY <1>2, <2>2, <2>3 DEF CheckMachineInfo, TypeOK, Points, DeltaChecks
<1>3. CASE CheckMachinePartCount
  <2>1. "part_count" \in DeltaChecks BY DEF DeltaChecks
  <2> QED BY <1>3, <2>1, ReadingKeys, CompareAndSendType
          DEF CheckMachinePartCount, TypeOK, Points
<1>4. CASE CheckMachineCycleTime
  <2>1. DOMAIN CycleTimeReading \subseteq AllKeys BY DEF CycleTimeReading, AllKeys
  <2>2. DOMAIN updates' \subseteq AllKeys
        BY <1>4, <2>1, OverlayType DEF CheckMachineCycleTime, TypeOK
  <2>3. DOMAIN gate' = DOMAIN gate BY <1>4 DEF CheckMachineCycleTime
  <2> QED BY <1>4, <2>2, <2>3 DEF CheckMachineCycleTime, TypeOK, Points, DeltaChecks
<1>5. CASE CheckMachineStatus
  <2>1. "status" \in DeltaChecks BY DEF DeltaChecks
  <2> QED BY <1>5, <2>1, ReadingKeys, CompareAndSendType
          DEF CheckMachineStatus, TypeOK, Points, DeltaChecks
<1>6. CASE CheckMachineToolInfo
  <2>1. "tool" \in DeltaChecks BY DEF DeltaChecks
  <2>2. PICK r \in ToolReadings(toolMode) :
          /\ CompareAndSend("tool", r[2])
          /\ toolMode' = r[1]
          /\ faults' = IF Undisturbed(toolMode, r[1]) THEN faults ELSE faults + 1
        BY <1>6 DEF CheckMachineToolInfo
  <2>3. toolMode' \in {"managed", "modal", "none"} BY <2>2 DEF ToolReadings
  <2>4. faults' \in 0..MaxFaults BY <1>6, <2>2 DEF CheckMachineToolInfo, TypeOK
  <2> QED BY <1>6, <2>1, <2>2, <2>3, <2>4, ReadingKeys, CompareAndSendType
          DEF CheckMachineToolInfo, TypeOK, Points, DeltaChecks
<1>7. CASE CheckMachineDynamic
  <2>1. "dynamic" \in DeltaChecks BY DEF DeltaChecks
  <2> QED BY <1>7, <2>1, ReadingKeys, CompareAndSendType
          DEF CheckMachineDynamic, TypeOK, Points, DeltaChecks
<1>8. CASE CheckMachineMessage
  <2>1. "message" \in DeltaChecks BY DEF DeltaChecks
  <2> QED BY <1>8, <2>1, ReadingKeys, CompareAndSendType
          DEF CheckMachineMessage, TypeOK, Points
<1>9. CASE CheckMachineProgramName
  <2>1. DOMAIN ProgramNameReading \subseteq AllKeys BY DEF ProgramNameReading, AllKeys
  <2>2. DOMAIN updates' \subseteq AllKeys
        BY <1>9, <2>1, OverlayType DEF CheckMachineProgramName, TypeOK
  <2> QED BY <1>9, <2>2 DEF CheckMachineProgramName, TypeOK, Points
<1>10. CASE CheckMachineProgramPath
  <2>1. DOMAIN ProgramPathReading \subseteq AllKeys BY DEF ProgramPathReading, AllKeys
  <2>2. DOMAIN updates' \subseteq AllKeys
        BY <1>10, <2>1, OverlayType DEF CheckMachineProgramPath, TypeOK
  <2>3. DOMAIN gate' = DOMAIN gate BY <1>10 DEF CheckMachineProgramPath
  <2> QED BY <1>10, <2>2, <2>3 DEF CheckMachineProgramPath, TypeOK, Points
<1>11. CASE CheckMachineProgramHeader
  <2>1. \A t : DOMAIN [program_header |-> [number |-> CProgramNum, text |-> t]] \subseteq AllKeys
        BY DEF AllKeys
  <2>2. DOMAIN updates' \subseteq AllKeys
    <3>1. DOMAIN updates \subseteq AllKeys BY DEF TypeOK
    <3>2. \/ updates' = updates
          \/ \E t : updates' = Overlay([program_header |-> [number |-> CProgramNum, text |-> t]],
                                       updates)
          BY <1>11 DEF CheckMachineProgramHeader
    <3> QED BY <3>1, <3>2, <2>1, OverlayType
  <2>3. DOMAIN gate' = DOMAIN gate BY <1>11 DEF CheckMachineProgramHeader
  <2>4. faults' \in 0..MaxFaults
    <3>1. faults \in 0..MaxFaults BY DEF TypeOK
    <3>2. faults' \in {faults, faults + 1} /\ faults' <= MaxFaults
          BY <1>11 DEF CheckMachineProgramHeader
    <3> QED BY <3>1, <3>2
  <2> QED BY <1>11, <2>2, <2>3, <2>4 DEF CheckMachineProgramHeader, TypeOK, Points
<1>12. CASE CheckMachineProgramContents
  <2>1. \A path, chunks : DOMAIN Contents(path, chunks) \subseteq AllKeys
        BY DEF AllKeys, Contents
  <2>2. DOMAIN updates' \subseteq AllKeys
        BY <1>12, <2>1, OverlayType DEF CheckMachineProgramContents, TypeOK
  <2>3. DOMAIN gate' = DOMAIN gate BY <1>12 DEF CheckMachineProgramContents
  <2>4. faults' \in 0..MaxFaults BY <1>12 DEF CheckMachineProgramContents, TypeOK
  <2> QED BY <1>12, <2>2, <2>3, <2>4
          DEF CheckMachineProgramContents, TypeOK, Points, DeltaChecks
<1>13. CASE CheckMachineBlock
  <2>1. "block" \in DeltaChecks BY DEF DeltaChecks
  <2> QED BY <1>13, <2>1, ReadingKeys, CompareAndSendType
          DEF CheckMachineBlock, TypeOK, Points
<1>14. CASE Produce
  <2>1. IsQueue(outq)' BY <1>14, QueueAppend DEF Produce, TypeOK
  <2>2. DOMAIN NoValues = {} BY DEF NoValues
  <2> QED BY <1>14, <2>1, <2>2, NextTickType DEF Produce, TypeOK
<1>15. CASE ProduceRejected
  <2>1. DOMAIN NoValues = {} BY DEF NoValues
  <2>2. faults' \in 0..MaxFaults BY <1>15 DEF ProduceRejected, TypeOK
  <2> QED BY <1>15, <2>1, <2>2, NextTickType DEF ProduceRejected, TypeOK
<1>16. CASE FlushDone
  <2>1. faults' \in 0..MaxFaults BY <1>16 DEF FlushDone, TypeOK
  <2> QED BY <1>16, <2>1, ExitType DEF FlushDone
<1>17. CASE LoopFails
  <2>1. faults' \in 0..MaxFaults BY <1>17 DEF LoopFails, TypeOK
  <2> QED BY <1>17, <2>1, ExitType DEF LoopFails
<1>18. CASE Killed
  <2>1. faults' \in 0..MaxFaults BY <1>18 DEF Killed, TypeOK
  <2> QED BY <1>18, <2>1, ExitType DEF Killed
<1>19. CASE SigTerm \/ SigTermEarly BY <1>19 DEF SigTerm, SigTermEarly, TypeOK, Points
<1>20. CASE Deliver
  <2>1. IsQueue(outq)' BY <1>20, QueueTail DEF Deliver, TypeOK
  <2>2. DOMAIN Head(outq) \subseteq AllKeys BY <1>20, QueueTail DEF Deliver, TypeOK, IsQueue
  <2>3. DOMAIN view' \subseteq AllKeys BY <1>20, <2>2, OverlayType DEF Deliver, TypeOK
  <2> QED BY <1>20, <2>1, <2>3 DEF Deliver, TypeOK
<1>21. CASE DeliveryFails
  <2>1. IsQueue(outq)' BY <1>21, QueueTail DEF DeliveryFails, TypeOK
  <2>2. DOMAIN Head(outq) \subseteq AllKeys
        BY <1>21, QueueTail DEF DeliveryFails, TypeOK, IsQueue
  <2>3. lost' \subseteq AllKeys BY <1>21, <2>2 DEF DeliveryFails, TypeOK
  <2> QED BY <1>21, <2>1, <2>3 DEF DeliveryFails, TypeOK
<1>22. CASE MachineChanges
  <2>1. PICK f \in FieldNames : \E x \in Fields[f] : machine' = [machine EXCEPT ![f] = x]
        BY <1>22 DEF MachineChanges
  <2>2. machine' \in Machines BY <2>1 DEF FieldNames, Machines, TypeOK
  <2> QED BY <1>22, <2>2 DEF MachineChanges, TypeOK
<1> QED
  BY <1>0, <1>1, <1>2, <1>3, <1>4, <1>5, <1>6, <1>7, <1>8, <1>9, <1>10, <1>11, <1>12,
     <1>13, <1>14, <1>15, <1>16, <1>17, <1>18, <1>19, <1>20, <1>21, <1>22
     DEF Next, Main, LoopTick

(* In every reachable state the process is somewhere in its loop, remembers *)
(* whole readings only, and no more messages are queued than librdkafka takes. *)
THEOREM TypeCorrect == Spec => []TypeOK
<1> QED BY TypeInit, TypeStep, PTL DEF Spec

----------------------------------------------------------------------------
(* Reconstruction is inductive together with the types. *)

(* Steps that touch neither the memory nor a message. *)
LEMMA UntouchedReconstruction ==
  ASSUME Reconstruction, UNCHANGED <<last, updates, outq, view, lost>>
  PROVE  Reconstruction'
BY DEF Reconstruction, Newest

(* Laying other keys over the message being composed. *)
LEMMA NewestOverlay ==
  ASSUME NEW k, NEW x, NEW new, k \notin DOMAIN new, Newest(k, x),
         updates' = Overlay(new, updates), UNCHANGED <<outq, view>>
  PROVE  Newest(k, x)'
<1>1. /\ k \in DOMAIN updates' <=> k \in DOMAIN updates
      /\ k \in DOMAIN updates => updates'[k] = updates[k]
  <2>1. /\ DOMAIN Overlay(new, updates) = DOMAIN new \cup DOMAIN updates
        /\ \A j \in DOMAIN updates \ DOMAIN new : Overlay(new, updates)[j] = updates[j]
        BY Zenon DEF Overlay
  <2> QED BY <2>1
<1> QED BY <1>1 DEF Newest

LEMMA OverlayReconstruction ==
  ASSUME TypeOK, Reconstruction, NEW new,
         \A c \in DeltaChecks : Keys[c] \cap DOMAIN new = {},
         updates' = Overlay(new, updates), UNCHANGED <<last, outq, view, lost>>
  PROVE  Reconstruction'
<1> SUFFICES ASSUME NEW c \in DOMAIN last, NEW k \in DOMAIN last[c] \ Broken
             PROVE  /\ k \in DOMAIN updates' => updates'[k] \in Told(last[c], k)
                    /\ k \notin lost => \E x \in Told(last[c], k) : Newest(k, x)'
    BY DEF Reconstruction, Newest
<1>1. PICK told : told = Told(last[c], k) OBVIOUS
<1>2. k \notin DOMAIN new BY DEF TypeOK
<1>3. /\ k \in DOMAIN updates => updates[k] \in told
      /\ k \notin lost => \E x \in told : Newest(k, x)
      BY <1>1 DEF Reconstruction
<1>4. k \in DOMAIN updates' => k \in DOMAIN updates /\ updates'[k] = updates[k]
  <2>1. /\ DOMAIN Overlay(new, updates) = DOMAIN new \cup DOMAIN updates
        /\ \A j \in DOMAIN updates \ DOMAIN new : Overlay(new, updates)[j] = updates[j]
        BY Zenon DEF Overlay
  <2> QED BY <2>1, <1>2
<1>5. \A x \in told : Newest(k, x) => Newest(k, x)' BY <1>2, NewestOverlay
<1> QED BY <1>1, <1>3, <1>4, <1>5

(* What the driver remembers of the operator message is one the control has *)
(* shown: its text and its number belong together.                          *)
MessageReadings ==
  {[message_number |-> m.number, message_text |-> m.text] : m \in Fields.message}

MessageRead == "message" \in DOMAIN last => last["message"] \in MessageReadings

(* What is sent of a reading is what a reader may have been told of it, and *)
(* a key that did not change needs no telling: if the text is as it was, it *)
(* is shown with a message both times or neither time, or it is Returning.  *)
LEMMA SentIsTold == ASSUME NEW v, NEW k PROVE Published(v, k) \in Told(v, k)
BY DEF Published, Told

LEMMA ToldUnchanged ==
  ASSUME NEW v, NEW w, NEW k, v[k] = w[k],
         k = "message_text" => v \in MessageReadings /\ w \in MessageReadings
  PROVE  Told(v, k) = Told(w, k)
<1>1. CASE k # "message_text" BY <1>1 DEF Told, Published
<1>2. CASE k = "message_text"
  <2>1. PICK a \in Fields.message : v = [message_number |-> a.number, message_text |-> a.text]
        BY <1>2 DEF MessageReadings
  <2>2. PICK b \in Fields.message : w = [message_number |-> b.number, message_text |-> b.text]
        BY <1>2 DEF MessageReadings
  <2>3. v.message_text = w.message_text /\ a.text = v.message_text /\ b.text = v.message_text
        BY <1>2, <2>1, <2>2
  <2>4. CASE Returning(v.message_text) BY <1>2, <2>3, <2>4 DEF Told
  <2>5. CASE ~Returning(v.message_text)
    <3>1. a.number = -1 <=> b.number = -1 BY <2>3, <2>5 DEF Returning
    <3>2. v.message_number = a.number /\ w.message_number = b.number BY <2>1, <2>2
    <3>3. Published(v, k) = Published(w, k) BY <1>2, <2>3, <3>1, <3>2 DEF Published
    <3> QED BY <1>2, <2>3, <2>5, <3>3 DEF Told
  <2> QED BY <2>4, <2>5
<1> QED BY <1>1, <1>2

(* A compare-and-send check: its own keys are sent or already right, the    *)
(* keys of the others are not disturbed.                                    *)
LEMMA CompareAndSendReconstruction ==
  ASSUME TypeOK, Reconstruction, MessageRead, NEW c \in DeltaChecks, NEW v, DOMAIN v = Keys[c],
         c = "message" => v \in MessageReadings,
         CompareAndSend(c, v), UNCHANGED <<outq, view, lost>>
  PROVE  Reconstruction'
<1> DEFINE sent == [k \in Changed(c, v) |-> Published(v, k)]
           now == [d \in {c} |-> v]
<1>1. updates' = Overlay(sent, updates) /\ last' = Overlay(now, last)
      BY DEF CompareAndSend
<1>2. DOMAIN sent = Changed(c, v) /\ \A k \in Changed(c, v) : sent[k] = Published(v, k)
      OBVIOUS
<1>3. DOMAIN now = {c} /\ now[c] = v OBVIOUS
<1> HIDE DEF sent, now
<1>4. /\ DOMAIN last' = {c} \cup DOMAIN last
      /\ last'[c] = v
      /\ \A d \in DOMAIN last \ {c} : last'[d] = last[d]
  <2>1. /\ DOMAIN Overlay(now, last) = DOMAIN now \cup DOMAIN last
        /\ \A d \in DOMAIN now : Overlay(now, last)[d] = now[d]
        /\ \A d \in DOMAIN last \ DOMAIN now : Overlay(now, last)[d] = last[d]
        BY DEF Overlay
  <2> QED BY <2>1, <1>1, <1>3
<1>5. /\ DOMAIN updates' = Changed(c, v) \cup DOMAIN updates
      /\ \A k \in Changed(c, v) : updates'[k] = Published(v, k)
      /\ \A k \in DOMAIN updates \ Changed(c, v) : updates'[k] = updates[k]
  <2>1. /\ DOMAIN Overlay(sent, updates) = DOMAIN sent \cup DOMAIN updates
        /\ \A k \in DOMAIN sent : Overlay(sent, updates)[k] = sent[k]
        /\ \A k \in DOMAIN updates \ DOMAIN sent : Overlay(sent, updates)[k] = updates[k]
        BY DEF Overlay
  <2> QED BY <2>1, <1>1, <1>2
<1> SUFFICES ASSUME NEW d \in DOMAIN last', NEW k \in DOMAIN last'[d] \ Broken
             PROVE  /\ k \in DOMAIN updates' => updates'[k] \in Told(last'[d], k)
                    /\ k \notin lost => \E x \in Told(last'[d], k) : Newest(k, x)'
  <2>1. lost' = lost OBVIOUS
  <2> QED BY <2>1 DEF Reconstruction, Newest
<1>6. PICK told : told = Told(last'[d], k) OBVIOUS
<1> SUFFICES /\ k \in DOMAIN updates' => updates'[k] \in told
             /\ k \notin lost => \E x \in told : Newest(k, x)'
    BY <1>6
<1>7. CASE d = c /\ k \in Changed(c, v)
  <2>1. Published(v, k) \in told BY <1>4, <1>6, <1>7, SentIsTold
  <2>2. k \in DOMAIN updates' /\ updates'[k] = Published(v, k) BY <1>5, <1>7
  <2>3. Newest(k, Published(v, k))'
    <3>1. PICK x : x = Published(v, k) OBVIOUS
    <3>2. updates'[k] = x BY <2>2, <3>1
    <3>3. Newest(k, x)' BY <2>2, <3>2 DEF Newest
    <3> QED BY <3>1, <3>3
  <2> QED BY <2>1, <2>2, <2>3
<1>8. ASSUME k \notin Changed(c, v), d \in DOMAIN last, k \in DOMAIN last[d],
             Told(last[d], k) = told
      PROVE  /\ k \in DOMAIN updates' => updates'[k] \in told
             /\ k \notin lost => \E x \in told : Newest(k, x)'
  <2>1. /\ k \in DOMAIN updates => updates[k] \in told
        /\ k \notin lost => \E x \in told : Newest(k, x)
        BY <1>8 DEF Reconstruction
  <2>2. \A x \in told : Newest(k, x) => Newest(k, x)' BY <1>1, <1>2, <1>8, NewestOverlay
  <2> QED BY <1>5, <1>8, <2>1, <2>2
<1>9. CASE d = c /\ k \notin Changed(c, v)
  <2>1. k \in Keys[c] BY <1>4, <1>9
  <2>2. Compared(k) = k BY DEF Compared, Broken
  <2>3. c \in DOMAIN last /\ last[c][k] = v[k] BY <1>9, <2>1, <2>2 DEF Changed
  <2>4. k \in DOMAIN last[c] BY <2>1, <2>3 DEF TypeOK
  <2>5. k = "message_text" => c = "message" BY <2>1 DEF DeltaChecks, Keys
  <2>6. Told(last[c], k) = Told(v, k) BY <2>3, <2>5, ToldUnchanged DEF MessageRead
  <2> QED BY <1>4, <1>6, <1>8, <1>9, <2>3, <2>4, <2>6
<1>10. CASE d # c
  <2>1. d \in DOMAIN last /\ d \in DeltaChecks /\ last'[d] = last[d]
        BY <1>4, <1>10 DEF TypeOK
  <2>2. k \in Keys[d] /\ k \in DOMAIN last[d] BY <2>1 DEF TypeOK
  <2>3. k \notin Keys[c] BY <1>10, <2>1, <2>2, KeysApart
  <2>4. k \notin Changed(c, v) BY <2>3 DEF Changed
  <2>5. Told(last[d], k) = told BY <1>6, <2>1
  <2> QED BY <1>8, <2>1, <2>2, <2>4, <2>5
<1> QED BY <1>7, <1>9, <1>10

(* Queueing the message. *)
LEMMA ProduceReconstruction ==
  ASSUME TypeOK, Reconstruction, Produce
  PROVE  Reconstruction'
<1>1. /\ IsQueue(outq) /\ Len(outq) < QueueCap /\ DOMAIN updates \subseteq AllKeys
      /\ outq' = Append(outq, updates) /\ updates' = NoValues
      /\ lost' = lost \ DOMAIN updates
      /\ last' = last /\ view' = view
      BY DEF Produce, TypeOK, process
<1>2. /\ Len(outq) \in Nat /\ Len(outq') = Len(outq) + 1
      /\ outq'[Len(outq) + 1] = updates
      /\ \A i \in 1..Len(outq) : outq'[i] = outq[i]
      BY <1>1, QueueAppend
<1>3. DOMAIN updates' = {} BY <1>1 DEF NoValues
<1> SUFFICES ASSUME NEW c \in DOMAIN last, NEW k \in DOMAIN last[c] \ Broken, k \notin lost'
             PROVE  \E x \in Told(last[c], k) : Newest(k, x)'
    BY <1>1, <1>3 DEF Reconstruction, Newest
<1>5. CASE k \in DOMAIN updates
  <2>1. PICK x \in Told(last[c], k) : updates[k] = x BY <1>5 DEF Reconstruction
  <2>2. /\ Len(outq) + 1 \in 1..Len(outq')
        /\ k \in DOMAIN outq'[Len(outq) + 1] /\ outq'[Len(outq) + 1][k] = x
        /\ \A j \in (Len(outq) + 1) + 1..Len(outq') : k \notin DOMAIN outq'[j]
        BY <1>2, <1>5, <2>1
  <2>3. Newest(k, x)' BY <1>3, <2>2 DEF Newest
  <2> QED BY <2>3
<1>6. CASE k \notin DOMAIN updates
  <2>1. PICK x \in Told(last[c], k) : Newest(k, x) BY <1>1, <1>6 DEF Reconstruction
  <2>2. CASE \E i \in 1..Len(outq) : /\ k \in DOMAIN outq[i] /\ outq[i][k] = x
                                     /\ \A j \in i+1..Len(outq) : k \notin DOMAIN outq[j]
    <3>1. PICK i \in 1..Len(outq) : /\ k \in DOMAIN outq[i] /\ outq[i][k] = x
                                    /\ \A j \in i+1..Len(outq) : k \notin DOMAIN outq[j]
          BY <2>2
    <3>2. /\ i \in 1..Len(outq') /\ k \in DOMAIN outq'[i] /\ outq'[i][k] = x
          BY <1>2, <3>1
    <3>3. ASSUME NEW j \in i+1..Len(outq') PROVE k \notin DOMAIN outq'[j]
      <4>1. j \in i+1..Len(outq) \/ j = Len(outq) + 1 BY <1>2
      <4>2. j \in i+1..Len(outq) => outq'[j] = outq[j] BY <1>2
      <4> QED BY <1>2, <1>6, <3>1, <4>1, <4>2
    <3>4. Newest(k, x)' BY <1>3, <3>2, <3>3 DEF Newest
    <3> QED BY <3>4
  <2>3. CASE (\A i \in 1..Len(outq) : k \notin DOMAIN outq[i]) /\ k \in DOMAIN view /\ view[k] = x
    <3>1. \A i \in 1..Len(outq') : k \notin DOMAIN outq'[i] BY <1>2, <1>6, <2>3
    <3>2. Newest(k, x)' BY <1>1, <1>3, <2>3, <3>1 DEF Newest
    <3> QED BY <3>2
  <2> QED BY <1>6, <2>1, <2>2, <2>3 DEF Newest
<1> QED BY <1>5, <1>6

(* Deleting the message unsent: its keys are lost, the others unchanged. *)
LEMMA RejectReconstruction ==
  ASSUME TypeOK, Reconstruction, ProduceRejected
  PROVE  Reconstruction'
<1>1. /\ updates' = NoValues /\ lost' = lost \cup DOMAIN updates
      /\ last' = last /\ outq' = outq /\ view' = view
      BY DEF ProduceRejected, process, kafka
<1>2. DOMAIN updates' = {} BY <1>1 DEF NoValues
<1> SUFFICES ASSUME NEW c \in DOMAIN last, NEW k \in DOMAIN last[c] \ Broken, k \notin lost'
             PROVE  \E x \in Told(last[c], k) : Newest(k, x)'
    BY <1>1, <1>2 DEF Reconstruction, Newest
<1>3. k \notin DOMAIN updates BY <1>1
<1>4. PICK x \in Told(last[c], k) : Newest(k, x) BY <1>1 DEF Reconstruction
<1>5. Newest(k, x)' BY <1>1, <1>2, <1>3, <1>4 DEF Newest
<1> QED BY <1>5

(* The head of the queue leaves it: its keys that no later message has are  *)
(* with the reader, or are lost.                                            *)
LEMMA HeadLeavesReconstruction ==
  ASSUME TypeOK, Reconstruction, outq # <<>>, outq' = Tail(outq),
         UNCHANGED <<last, updates>>,
         \/ lost' = lost /\ view' = Overlay(Head(outq), view)
         \/ view' = view /\ lost' = lost \cup {k \in DOMAIN Head(outq) : ~Superseded(k)}
  PROVE  Reconstruction'
<1>1. /\ Len(outq) \in Nat \ {0} /\ Len(outq') = Len(outq) - 1
      /\ Head(outq) = outq[1]
      /\ \A i \in 1..(Len(outq) - 1) : outq'[i] = outq[i + 1]
      BY QueueTail DEF TypeOK
<1>2. lost \subseteq lost' OBVIOUS
<1> SUFFICES ASSUME NEW c \in DOMAIN last, NEW k \in DOMAIN last[c] \ Broken, k \notin lost'
             PROVE  \E x \in Told(last[c], k) : Newest(k, x)'
  <2> SUFFICES ASSUME NEW c \in DOMAIN last', NEW k \in DOMAIN last'[c] \ Broken
               PROVE  /\ k \in DOMAIN updates' => updates'[k] \in Told(last'[c], k)
                      /\ k \notin lost' => \E x \in Told(last'[c], k) : Newest(k, x)'
      BY DEF Reconstruction, Newest
  <2>1. k \in DOMAIN updates' => updates'[k] \in Told(last'[c], k) BY DEF Reconstruction
  <2> QED BY <2>1
<1>4. PICK x \in Told(last[c], k) : Newest(k, x) BY <1>2 DEF Reconstruction
<1> SUFFICES Newest(k, x)' OBVIOUS
<1>5. CASE k \in DOMAIN updates BY <1>4, <1>5 DEF Newest
<1>6. CASE /\ k \notin DOMAIN updates
           /\ \E i \in 1..Len(outq) : /\ k \in DOMAIN outq[i] /\ outq[i][k] = x
                                      /\ \A j \in i+1..Len(outq) : k \notin DOMAIN outq[j]
  <2>1. PICK i \in 1..Len(outq) : /\ k \in DOMAIN outq[i] /\ outq[i][k] = x
                                  /\ \A j \in i+1..Len(outq) : k \notin DOMAIN outq[j]
        BY <1>6
  <2>2. CASE i = 1
    <3>1. \A j \in 1..Len(outq') : k \notin DOMAIN outq'[j] BY <1>1, <2>1, <2>2
    <3>2. ~Superseded(k) BY <1>1, <2>1, <2>2 DEF Superseded
    <3>3. view' = Overlay(Head(outq), view) BY <1>1, <2>1, <2>2, <3>2
    <3>4. k \in DOMAIN view' /\ view'[k] = x
      <4>1. k \in DOMAIN Head(outq) /\ Head(outq)[k] = x BY <1>1, <2>1, <2>2
      <4>2. /\ DOMAIN Overlay(Head(outq), view) = DOMAIN Head(outq) \cup DOMAIN view
            /\ \A j \in DOMAIN Head(outq) : Overlay(Head(outq), view)[j] = Head(outq)[j]
            BY Zenon DEF Overlay
      <4> QED BY <3>3, <4>1, <4>2
    <3> QED BY <1>6, <3>1, <3>4 DEF Newest
  <2>3. CASE i # 1
    <3>1. /\ i - 1 \in 1..Len(outq') /\ outq'[i - 1] = outq[i] BY <1>1, <2>3
    <3>2. ASSUME NEW j \in (i - 1) + 1..Len(outq') PROVE k \notin DOMAIN outq'[j]
      <4>1. j + 1 \in i+1..Len(outq) /\ outq'[j] = outq[j + 1] BY <1>1
      <4> QED BY <2>1, <4>1
    <3> QED BY <1>6, <2>1, <3>1, <3>2 DEF Newest
  <2> QED BY <2>2, <2>3
<1>7. CASE /\ k \notin DOMAIN updates
           /\ \A i \in 1..Len(outq) : k \notin DOMAIN outq[i]
           /\ k \in DOMAIN view /\ view[k] = x
  <2>1. \A j \in 1..Len(outq') : k \notin DOMAIN outq'[j] BY <1>1, <1>7
  <2>2. k \notin DOMAIN Head(outq) BY <1>1, <1>7
  <2>3. k \in DOMAIN view' /\ view'[k] = x
    <3>1. /\ DOMAIN Overlay(Head(outq), view) = DOMAIN Head(outq) \cup DOMAIN view
          /\ \A j \in DOMAIN view \ DOMAIN Head(outq) : Overlay(Head(outq), view)[j] = view[j]
          BY Zenon DEF Overlay
    <3> QED BY <1>7, <2>2, <3>1
  <2> QED BY <1>7, <2>1, <2>3 DEF Newest
<1> QED BY <1>4, <1>5, <1>6, <1>7 DEF Newest

(* Every step keeps what was sent and what it was made from in agreement. *)
THEOREM ReconstructionStep ==
  TypeOK /\ MessageRead /\ Reconstruction /\ [Next]_vars => Reconstruction'
<1> SUFFICES ASSUME TypeOK, MessageRead, Reconstruction, [Next]_vars PROVE Reconstruction' OBVIOUS
<1> USE DEF process, kafka, budget
<1>1. CASE UNCHANGED vars \/ Start \/ SetupConnection \/ SigTerm \/ SigTermEarly \/ MachineChanges
      BY <1>1, UntouchedReconstruction
         DEF vars, Start, SetupConnection, SigTerm, SigTermEarly, MachineChanges
<1>2. CASE LoopFails \/ Killed \/ FlushDone
  <2>1. last' = NoValues BY <1>2 DEF LoopFails, Killed, FlushDone, Exit
  <2>2. DOMAIN last' = {} BY <2>1 DEF NoValues
  <2> QED BY <2>2 DEF Reconstruction
<1>3. CASE CheckMachineInfo
  <2>1. PICK r \in MachineInfoReadings : updates' = Overlay(r, updates)
        BY <1>3 DEF CheckMachineInfo
  <2>2. DOMAIN r = {"id", "axes"} BY MachineInfoKeys
  <2>3. \A c \in DeltaChecks : Keys[c] \cap {"id", "axes"} = {} BY DEF DeltaChecks, Keys
  <2>4. UNCHANGED <<last, outq, view, lost>> BY <1>3 DEF CheckMachineInfo
  <2> QED BY <2>1, <2>2, <2>3, <2>4, OverlayReconstruction
<1>4. CASE CheckMachineCycleTime
  <2>1. \A c \in DeltaChecks : Keys[c] \cap DOMAIN CycleTimeReading = {}
        BY DEF CycleTimeReading, DeltaChecks, Keys
  <2>2. UNCHANGED <<last, outq, view, lost>> BY <1>4 DEF CheckMachineCycleTime
  <2>3. updates' = updates \/ updates' = Overlay(CycleTimeReading, updates)
        BY <1>4 DEF CheckMachineCycleTime
  <2> QED BY <2>1, <2>2, <2>3, OverlayReconstruction, UntouchedReconstruction
<1>5. CASE CheckMachineProgramName
  <2>1. \A c \in DeltaChecks : Keys[c] \cap DOMAIN ProgramNameReading = {}
        BY DEF ProgramNameReading, DeltaChecks, Keys
  <2>2. UNCHANGED <<last, outq, view, lost>> BY <1>5 DEF CheckMachineProgramName
  <2>3. updates' = updates \/ updates' = Overlay(ProgramNameReading, updates)
        BY <1>5 DEF CheckMachineProgramName
  <2> QED BY <2>1, <2>2, <2>3, OverlayReconstruction, UntouchedReconstruction
<1>6. CASE CheckMachineProgramPath
  <2>1. \A c \in DeltaChecks : Keys[c] \cap DOMAIN ProgramPathReading = {}
        BY DEF ProgramPathReading, DeltaChecks, Keys
  <2> QED BY <1>6, <2>1, OverlayReconstruction DEF CheckMachineProgramPath
<1>7. CASE CheckMachineProgramHeader
  <2> DEFINE header(t) == [program_header |-> [number |-> CProgramNum, text |-> t]]
  <2>1. \A t : \A c \in DeltaChecks : Keys[c] \cap DOMAIN header(t) = {}
        BY DEF DeltaChecks, Keys
  <2>2. UNCHANGED <<last, outq, view, lost>> BY <1>7 DEF CheckMachineProgramHeader
  <2>3. updates' = updates \/ \E t : updates' = Overlay(header(t), updates)
        BY <1>7 DEF CheckMachineProgramHeader
  <2> HIDE DEF header
  <2> QED BY <2>1, <2>2, <2>3, OverlayReconstruction, UntouchedReconstruction
<1>8. CASE CheckMachineProgramContents
  <2>1. \A path, chunks : \A c \in DeltaChecks : Keys[c] \cap DOMAIN Contents(path, chunks) = {}
        BY DEF DeltaChecks, Keys, Contents
  <2>2. UNCHANGED <<last, outq, view, lost>> BY <1>8 DEF CheckMachineProgramContents
  <2>3. updates' = updates \/ \E chunks : updates' = Overlay(Contents(mProgramPath, chunks), updates)
        BY <1>8 DEF CheckMachineProgramContents
  <2> QED BY <2>1, <2>2, <2>3, OverlayReconstruction, UntouchedReconstruction
<1>9. CASE CheckMachineToolInfo
  <2>1. PICK r \in ToolReadings(toolMode) : CompareAndSend("tool", r[2])
        BY <1>9 DEF CheckMachineToolInfo
  <2>2. "tool" \in DeltaChecks BY DEF DeltaChecks
  <2>3. UNCHANGED <<outq, view, lost>> BY <1>9 DEF CheckMachineToolInfo
  <2> QED BY <2>1, <2>2, <2>3, ReadingKeys, CompareAndSendReconstruction
<1>10. CASE CheckMachinePartCount
  <2>1. "part_count" \in DeltaChecks BY DEF DeltaChecks
  <2> QED BY <1>10, <2>1, ReadingKeys, CompareAndSendReconstruction DEF CheckMachinePartCount
<1>11. CASE CheckMachineStatus
  <2>1. "status" \in DeltaChecks BY DEF DeltaChecks
  <2> QED BY <1>11, <2>1, ReadingKeys, CompareAndSendReconstruction DEF CheckMachineStatus
<1>12. CASE CheckMachineDynamic
  <2>1. "dynamic" \in DeltaChecks BY DEF DeltaChecks
  <2> QED BY <1>12, <2>1, ReadingKeys, CompareAndSendReconstruction DEF CheckMachineDynamic
<1>13. CASE CheckMachineMessage
  <2>1. "message" \in DeltaChecks BY DEF DeltaChecks
  <2>2. MessageReading \in MessageReadings
    <3>1. machine.message \in Fields.message BY DEF TypeOK, Machines
    <3> QED BY <3>1 DEF MessageReading, MessageReadings
  <2> QED BY <1>13, <2>1, <2>2, ReadingKeys, CompareAndSendReconstruction DEF CheckMachineMessage
<1>14. CASE CheckMachineBlock
  <2>1. "block" \in DeltaChecks BY DEF DeltaChecks
  <2> QED BY <1>14, <2>1, ReadingKeys, CompareAndSendReconstruction DEF CheckMachineBlock
<1>15. CASE Produce BY <1>15, ProduceReconstruction
<1>16. CASE ProduceRejected BY <1>16, RejectReconstruction
<1>17. CASE Deliver BY <1>17, HeadLeavesReconstruction DEF Deliver
<1>18. CASE DeliveryFails BY <1>18, HeadLeavesReconstruction DEF DeliveryFails
<1> QED
  BY <1>1, <1>2, <1>3, <1>4, <1>5, <1>6, <1>7, <1>8, <1>9, <1>10, <1>11, <1>12,
     <1>13, <1>14, <1>15, <1>16, <1>17, <1>18
     DEF Next, Main, LoopTick

(* The remembered message is one the control has shown, after every step.   *)
LEMMA MessageReadStep == TypeOK /\ MessageRead /\ [Next]_vars => MessageRead'
<1> SUFFICES ASSUME TypeOK, MessageRead, [Next]_vars PROVE MessageRead' OBVIOUS
<1>1. ASSUME NEW c \in DeltaChecks, NEW v, CompareAndSend(c, v),
             c = "message" => v \in MessageReadings
      PROVE  MessageRead'
  <2> DEFINE now == [d \in {c} |-> v]
  <2>1. last' = Overlay(now, last) BY <1>1 DEF CompareAndSend
  <2>2. DOMAIN now = {c} /\ now[c] = v OBVIOUS
  <2> HIDE DEF now
  <2>3. /\ DOMAIN last' = {c} \cup DOMAIN last /\ last'[c] = v
        /\ \A d \in DOMAIN last \ {c} : last'[d] = last[d]
    <3>1. /\ DOMAIN Overlay(now, last) = DOMAIN now \cup DOMAIN last
          /\ \A d \in DOMAIN now : Overlay(now, last)[d] = now[d]
          /\ \A d \in DOMAIN last \ DOMAIN now : Overlay(now, last)[d] = last[d]
          BY DEF Overlay
    <3> QED BY <2>1, <2>2, <3>1
  <2> QED BY <1>1, <2>3 DEF MessageRead
<1>2. CASE CheckMachineMessage
  <2>1. machine.message \in Fields.message BY DEF TypeOK, Machines
  <2>2. MessageReading \in MessageReadings BY <2>1 DEF MessageReading, MessageReadings
  <2> QED BY <1>1, <1>2, <2>2 DEF CheckMachineMessage, DeltaChecks
<1>3. CASE CheckMachinePartCount \/ CheckMachineStatus \/ CheckMachineToolInfo
           \/ CheckMachineDynamic \/ CheckMachineBlock
      BY <1>1, <1>3 DEF CheckMachinePartCount, CheckMachineStatus, CheckMachineToolInfo,
         CheckMachineDynamic, CheckMachineBlock, DeltaChecks
<1>4. CASE LoopFails \/ Killed \/ FlushDone
  <2>1. last' = NoValues BY <1>4 DEF LoopFails, Killed, FlushDone, Exit
  <2> QED BY <2>1 DEF NoValues, MessageRead
<1>5. CASE last' = last BY <1>5 DEF MessageRead
<1> QED
  BY <1>2, <1>3, <1>4, <1>5
     DEF Next, Main, LoopTick, vars, process, Start, SetupConnection, CheckMachineInfo,
         CheckMachineCycleTime, CheckMachineProgramName, CheckMachineProgramPath,
         CheckMachineProgramHeader, CheckMachineProgramContents, Produce, ProduceRejected,
         SigTerm, SigTermEarly, Deliver, DeliveryFails, MachineChanges

(* A reader who lays the messages over each other comes to have what the    *)
(* driver remembers, for any machine, any queue capacity and any number of  *)
(* changes, lost messages and restarts, but for the keys that were lost and *)
(* for the text of a message that the control also shows without one.       *)
THEOREM ReconstructionCorrect == Spec => []Reconstruction
<1>1. Init => MessageRead /\ Reconstruction
  <2>1. DOMAIN NoValues = {} BY DEF NoValues
  <2> QED BY <2>1 DEF Init, Reconstruction, MessageRead
<1>2. TypeOK /\ MessageRead /\ Reconstruction /\ [Next]_vars
      => (TypeOK /\ MessageRead /\ Reconstruction)'
      BY TypeStep, MessageReadStep, ReconstructionStep
<1> QED BY <1>1, <1>2, TypeInit, PTL DEF Spec
=============================================================================
