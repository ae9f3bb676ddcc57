--------------------------- MODULE MachineApiProofs ---------------------------
(***************************************************************************)
(* Proofs about the monitor's HTTP API, for any machines and addresses and *)
(* any number of requests, moves, clients that leave and restarts.         *)
(*                                                                         *)
(* What the properties rest on is the lock: a thread that uses the FOCAS   *)
(* library belongs to a probe that holds it, and one probe does.           *)
(***************************************************************************)
EXTENDS MachineApi, SequenceTheorems, TLAPS

----------------------------------------------------------------------------
(* The inductive invariant. *)

InThread  == {"connect", "id", "axes", "free", "done"}
Connected == {"id", "axes", "free"}
Checking  == {"probing", "recording"}
Updating  == {"comparing", "choosing", "inserting", "updating"}

Reqs == DOMAIN req

(* Each probe in the line waits and is there once; the lock's holder is the *)
(* one whose thread runs.                                                   *)
LockInv ==
  /\ \A k \in 1..Len(waiting) : req[waiting[k]].probe = "waiting"
  /\ \A k, l \in 1..Len(waiting) : waiting[k] = waiting[l] => k = l
  /\ \A r \in Reqs : r \in running <=> req[r].probe \in InThread
  /\ \A r, s \in running : r = s

(* The library is connected to the machine its thread was started for. *)
LibraryInv ==
  /\ \A r \in Reqs : req[r].probe \in Connected => library = req[r].addr
  /\ ConnectionFreed

(* Where the handler of a request stands, and its probe with it. *)
Staged(r) ==
  /\ req[r].probe # "none" => req[r].at \in {"probing", "gone"} /\ req[r].addr \in Valid
  /\ req[r].at \in Checking => req[r].op = "check" /\ req[r].addr \in Valid
  /\ req[r].at = "recording" => req[r].id # NULL /\ req[r].date < clock
  /\ req[r].at \in Updating => req[r].op = "update"
  /\ req[r].op = "update" => req[r].machine \in Machines

StageInv == \A r \in Reqs : Staged(r)

(* What a probe has read was so when it was read, and is recorded so. *)
TruthInv ==
  /\ \A a \in Valid : <<net[a], a>> \in truths
  /\ \A r \in Reqs : req[r].id # NULL => <<req[r].id, req[r].addr>> \in truths
  /\ PingsTrue

Probed(m, a) == \E p \in pings : p.machine = m /\ p.addr = a

(* An update that was compared has a ping, and one that found a row a row. *)
UpdateInv ==
  /\ \A r \in Reqs :
       /\ req[r].at \in {"choosing", "inserting", "updating"} =>
            Probed(req[r].machine, req[r].addr)
       /\ req[r].at = "updating" => machines[req[r].machine] # NULL
  /\ RowsProbed
  /\ UpdatedIsKnown

IInv == LockInv /\ LibraryInv /\ StageInv /\ TruthInv /\ UpdateInv

Inv == TypeOK /\ IInv

----------------------------------------------------------------------------
(* Lemmas about the requests. *)

(* One request changes, the others and their number stay. *)
LEMMA OneRequest ==
  ASSUME req \in Seq(Requests), NEW r \in Reqs, NEW x \in Requests,
         req' = [req EXCEPT ![r] = x]
  PROVE  /\ req' \in Seq(Requests) /\ Len(req') = Len(req) /\ Reqs' = Reqs
         /\ req'[r] = x
         /\ \A s \in Reqs : s # r => req'[s] = req[s]
<1>1. r \in 1..Len(req) BY LenProperties DEF Reqs
<1>2. Reqs = 1..Len(req) BY LenProperties DEF Reqs
<1>3. req' \in Seq(Requests) /\ Len(req') = Len(req)
      /\ \A s \in 1..Len(req) : req'[s] = IF s = r THEN x ELSE req[s]
      BY <1>1, ExceptSeq
<1>4. Reqs' = 1..Len(req') BY <1>3, LenProperties DEF Reqs
<1> QED BY <1>1, <1>2, <1>3, <1>4

(* A request is added. *)
LEMMA NewRequest ==
  ASSUME req \in Seq(Requests), NEW x \in Requests, req' = Append(req, x)
  PROVE  /\ req' \in Seq(Requests) /\ Len(req) \in Nat /\ Len(req') = Len(req) + 1
         /\ Reqs = 1..Len(req) /\ Reqs' = Reqs \cup {Len(req')}
         /\ req'[Len(req')] = x
         /\ \A s \in Reqs : req'[s] = req[s]
<1>1. Reqs = 1..Len(req) /\ Len(req) \in Nat BY LenProperties DEF Reqs
<1>2. /\ req' \in Seq(Requests) /\ Len(req') = Len(req) + 1
      /\ \A s \in 1..Len(req) : req'[s] = req[s]
      /\ req'[Len(req) + 1] = x
      BY AppendProperties
<1>3. Reqs' = 1..Len(req') BY <1>2, LenProperties DEF Reqs
<1> QED BY <1>1, <1>2, <1>3

(* A step of handler r changes where it stands and nothing else of it. *)
LEMMA HandlerStep ==
  ASSUME TypeOK, NEW r \in Reqs,
         NEW at \in Answers \cup Checking \cup Updating \cup {"gone"}, Step(r, at)
  PROVE  /\ req' \in Seq(Requests) /\ Len(req') = Len(req) /\ Reqs' = Reqs
         /\ req'[r] = [req[r] EXCEPT !.at = at]
         /\ \A s \in Reqs : s # r => req'[s] = req[s]
<1>1. req \in Seq(Requests) BY DEF TypeOK
<1>2. req[r] \in Requests BY <1>1, LenProperties DEF Reqs
<1>3. [req[r] EXCEPT !.at = at] \in Requests
      BY <1>2 DEF Requests, Answers, Checking, Updating
<1>4. req' = [req EXCEPT ![r] = [req[r] EXCEPT !.at = at]] BY DEF Step
<1> QED BY <1>1, <1>3, <1>4, OneRequest

(* A step of r's thread changes where that stands and nothing else of r. *)
LEMMA ThreadStep ==
  ASSUME TypeOK, NEW r \in Reqs, NEW probe \in {"none", "waiting"} \cup InThread,
         Probing(r, probe)
  PROVE  /\ req' \in Seq(Requests) /\ Len(req') = Len(req) /\ Reqs' = Reqs
         /\ req'[r] = [req[r] EXCEPT !.probe = probe]
         /\ \A s \in Reqs : s # r => req'[s] = req[s]
<1>1. req \in Seq(Requests) BY DEF TypeOK
<1>2. req[r] \in Requests BY <1>1, LenProperties DEF Reqs
<1>3. [req[r] EXCEPT !.probe = probe] \in Requests BY <1>2 DEF Requests, InThread
<1>4. req' = [req EXCEPT ![r] = [req[r] EXCEPT !.probe = probe]] BY DEF Probing
<1> QED BY <1>1, <1>3, <1>4, OneRequest

(* What the types say of a request and of the line. *)
LEMMA Typed ==
  ASSUME TypeOK
  PROVE  /\ \A r \in Reqs : req[r] \in Requests /\ r \in Nat
         /\ Reqs = 1..Len(req) /\ Len(req) \in Nat
         /\ Len(waiting) \in Nat /\ \A k \in 1..Len(waiting) : waiting[k] \in Reqs
<1>1. req \in Seq(Requests) /\ waiting \in Seq(Reqs) BY DEF TypeOK, Reqs
<1> QED BY <1>1, LenProperties DEF Reqs

----------------------------------------------------------------------------
(* The invariant holds at first. *)

LEMMA InitInv == Init => Inv
<1> SUFFICES ASSUME Init PROVE Inv
    OBVIOUS
<1>1. req = <<>> /\ Reqs = {} /\ Len(req) = 0 /\ req \in Seq(Requests)
      BY DEF Init, Reqs
<1>2. waiting = <<>> /\ Len(waiting) = 0 /\ waiting \in Seq(DOMAIN req)
      BY DEF Init
<1>3. net \in [Valid -> Machines \cup {NULL}] BY NetsAssumption DEF Init
<1>4. TypeOK
      BY <1>1, <1>2, <1>3, BoundsAssumption DEF Init, TypeOK, Reqs
<1>5. LockInv /\ LibraryInv /\ StageInv
      BY <1>1, <1>2 DEF Init, LockInv, LibraryInv, StageInv, Staged, ConnectionFreed, Reqs
<1>6. TruthInv
      BY <1>1, <1>3 DEF Init, TruthInv, PingsTrue, Reqs
<1>7. UpdateInv
      BY <1>1 DEF Init, UpdateInv, RowsProbed, UpdatedIsKnown, Reqs
<1> QED BY <1>4, <1>5, <1>6, <1>7 DEF Inv, IInv

----------------------------------------------------------------------------
(* The lock's holder: its thread moves, and the handler it belongs to stays. *)

LEMMA MovesInv == ASSUME Inv, Moves PROVE Inv'
<1> USE DEF Moves, lock, tables, Inv, IInv
<1>1. PICK a \in Valid, m \in Machines \cup {NULL} :
        net' = [net EXCEPT ![a] = m] /\ truths' = truths \cup {<<m, a>>}
      OBVIOUS
<1>2. TypeOK' BY <1>1, BoundsAssumption DEF TypeOK
<1>3. LockInv' /\ LibraryInv' /\ StageInv' /\ UpdateInv'
      BY DEF LockInv, LibraryInv, StageInv, Staged, UpdateInv, ConnectionFreed, RowsProbed,
             UpdatedIsKnown, Probed, Reqs
<1>4. TruthInv' BY <1>1 DEF TruthInv, PingsTrue, Reqs, TypeOK
<1> QED BY <1>2, <1>3, <1>4

LEMMA CheckInv == ASSUME Inv, NEW a \in Addresses, Check(a) PROVE Inv'
<1> USE DEF lock, tables, world, Inv, IInv
<1> DEFINE x == IF a \in Valid THEN [Request("check", NULL, a, "probing") EXCEPT !.probe = "waiting"]
                ELSE Request("check", NULL, a, "rejected")
<1>1. x \in Requests BY DEF Request, Requests, Answers
<1>2. req' = Append(req, x) BY DEF Check
<1>3. /\ req' \in Seq(Requests) /\ Len(req) \in Nat /\ Len(req') = Len(req) + 1
      /\ Reqs = 1..Len(req) /\ Reqs' = Reqs \cup {Len(req')}
      /\ req'[Len(req')] = x
      /\ \A s \in Reqs : req'[s] = req[s]
      BY <1>1, <1>2, NewRequest DEF TypeOK
<1>4. /\ x.op = "check" /\ x.addr = a /\ x.id = NULL
      /\ x.probe = IF a \in Valid THEN "waiting" ELSE "none"
      /\ x.at = IF a \in Valid THEN "probing" ELSE "rejected"
      BY DEF Request
<1> HIDE DEF x
<1>5. waiting' = IF a \in Valid THEN Append(waiting, Len(req')) ELSE waiting
      BY DEF Check
<1>6. /\ waiting \in Seq(Reqs') /\ Len(waiting) \in Nat
      /\ \A k \in 1..Len(waiting) : waiting[k] \in Reqs
  <2>1. waiting \in Seq(Reqs) BY DEF TypeOK, Reqs
  <2> QED BY <2>1, <1>3, Typed, SeqMonotonic
<1>7. waiting' \in Seq(Reqs')
      BY <1>3, <1>5, <1>6, AppendProperties
<1>8. TypeOK' BY <1>3, <1>7, BoundsAssumption DEF TypeOK, Check, Reqs
<1>9. LockInv'
  <2>1. \A k \in 1..Len(waiting') : req'[waiting'[k]].probe = "waiting"
    <3>1. \A k \in 1..Len(waiting) : req'[waiting[k]].probe = "waiting"
          BY <1>3, <1>6 DEF LockInv
    <3>2. CASE a \in Valid
      <4>1. /\ Len(waiting') = Len(waiting) + 1 /\ waiting'[Len(waiting) + 1] = Len(req')
            /\ \A k \in 1..Len(waiting) : waiting'[k] = waiting[k]
            BY <1>3, <1>5, <1>6, <3>2, AppendProperties
      <4> QED BY <1>3, <1>4, <1>6, <3>1, <3>2, <4>1
    <3> QED BY <1>5, <3>1, <3>2
  <2>2. \A k, l \in 1..Len(waiting') : waiting'[k] = waiting'[l] => k = l
        BY <1>3, <1>4, <1>5, <1>6, AppendProperties DEF LockInv
  <2>3. \A r \in Reqs' : r \in running' <=> req'[r].probe \in InThread
        BY <1>3, <1>4 DEF LockInv, Check, InThread, TypeOK, Reqs
  <2> QED BY <2>1, <2>2, <2>3 DEF LockInv, Check
<1>10. LibraryInv' BY <1>3, <1>4 DEF LibraryInv, ConnectionFreed, Connected, Check, Reqs
<1>11. StageInv' BY <1>3, <1>4 DEF StageInv, Staged, Checking, Updating, Check, Reqs
<1>12. TruthInv' BY <1>3, <1>4 DEF TruthInv, PingsTrue, Check, Reqs
<1>13. UpdateInv' BY <1>3, <1>4 DEF UpdateInv, RowsProbed, UpdatedIsKnown, Probed, Check, Reqs
<1> QED BY <1>8, <1>9, <1>10, <1>11, <1>12, <1>13

LEMMA UpdateStepInv ==
  ASSUME Inv, NEW m \in Machines, NEW a \in Addresses, Update(m, a) PROVE Inv'
<1> USE DEF lock, tables, world, Inv, IInv
<1> DEFINE x == Request("update", m, a, "comparing")
<1>1. x \in Requests BY DEF Request, Requests, Answers
<1>2. req' = Append(req, x) BY DEF Update
<1>3. /\ req' \in Seq(Requests) /\ Len(req) \in Nat /\ Len(req') = Len(req) + 1
      /\ Reqs = 1..Len(req) /\ Reqs' = Reqs \cup {Len(req')}
      /\ req'[Len(req')] = x
      /\ \A s \in Reqs : req'[s] = req[s]
      BY <1>1, <1>2, NewRequest DEF TypeOK
<1>4. /\ x.op = "update" /\ x.machine = m
      /\ x.at = "comparing" /\ x.probe = "none" /\ x.id = NULL BY DEF Request
<1> HIDE DEF x
<1>6. /\ waiting \in Seq(Reqs')
      /\ \A k \in 1..Len(waiting) : waiting[k] \in Reqs
  <2>1. waiting \in Seq(Reqs) BY DEF TypeOK, Reqs
  <2> QED BY <2>1, <1>3, Typed, SeqMonotonic
<1>8. TypeOK' BY <1>3, <1>6, BoundsAssumption DEF TypeOK, Update, Reqs
<1>9. LockInv' BY <1>3, <1>4, <1>6 DEF LockInv, Update, InThread, TypeOK, Reqs
<1>10. LibraryInv' BY <1>3, <1>4 DEF LibraryInv, ConnectionFreed, Connected, Update, Reqs
<1>11. StageInv' BY <1>3, <1>4 DEF StageInv, Staged, Checking, Updating, Update, Reqs
<1>12. TruthInv' BY <1>3, <1>4 DEF TruthInv, PingsTrue, Update, Reqs
<1>13. UpdateInv' BY <1>3, <1>4 DEF UpdateInv, RowsProbed, UpdatedIsKnown, Probed, Update, Reqs
<1> QED BY <1>8, <1>9, <1>10, <1>11, <1>12, <1>13

(* The first in the line was not elsewhere in it, and nobody holds the lock. *)
LEMMA AcquireInv == ASSUME Inv, Acquire PROVE Inv'
<1> USE DEF lock, tables, world, Inv, IInv
<1> PICK r : r = Head(waiting) OBVIOUS
<1>1. /\ waiting \in Seq(Reqs) /\ Len(waiting) \in Nat \ {0}
      /\ \A k \in 1..Len(waiting) : waiting[k] \in Reqs
  <2>1. waiting \in Seq(Reqs) BY DEF TypeOK, Reqs
  <2> QED BY <2>1, Typed, EmptySeq DEF Acquire
<1>2. /\ r = waiting[1] /\ r \in Reqs
      /\ waiting' \in Seq(Reqs) /\ Len(waiting') = Len(waiting) - 1
      /\ \A k \in 1..Len(waiting') : waiting'[k] = waiting[k + 1]
      BY <1>1, HeadTailProperties DEF Acquire
<1>3. running = {} /\ running' = {r} BY DEF Acquire
<1>4. req[r].probe = "waiting" BY <1>1, <1>2 DEF LockInv
<1>5. ASSUME NEW k \in 1..Len(waiting')
      PROVE  waiting'[k] # r /\ req[waiting'[k]].probe = "waiting"
  <2>1. k + 1 \in 1..Len(waiting) /\ 1 \in 1..Len(waiting) /\ k + 1 # 1 BY <1>1, <1>2
  <2>2. waiting'[k] = waiting[k + 1] BY <1>2
  <2> QED BY <1>2, <2>1, <2>2 DEF LockInv
<1>6. \A k, l \in 1..Len(waiting') : waiting'[k] = waiting'[l] => k = l
      BY <1>1, <1>2 DEF LockInv
<1>7. Probing(r, "connect") BY DEF Acquire
<1>8. /\ req' \in Seq(Requests) /\ Len(req') = Len(req) /\ Reqs' = Reqs
      /\ req'[r] = [req[r] EXCEPT !.probe = "connect"]
      /\ \A s \in Reqs : s # r => req'[s] = req[s]
      BY <1>2, <1>7, ThreadStep DEF InThread
<1>9. /\ req'[r].op = req[r].op /\ req'[r].machine = req[r].machine
      /\ req'[r].addr = req[r].addr /\ req'[r].at = req[r].at
      /\ req'[r].id = req[r].id /\ req'[r].date = req[r].date
      /\ req'[r].probe = "connect"
  <2>1. req[r] \in Requests BY <1>2, Typed
  <2> QED BY <1>8, <2>1 DEF Requests
<1>10. TypeOK' BY <1>2, <1>3, <1>8 DEF TypeOK, Acquire, Reqs
<1>11. LockInv'
  <2>1. \A k \in 1..Len(waiting') : waiting'[k] \in Reqs
        BY <1>1, <1>2
  <2>2. \A k \in 1..Len(waiting') : req'[waiting'[k]].probe = "waiting"
        BY <1>5, <1>8, <2>1
  <2>3. \A s \in Reqs' : s \in running' <=> req'[s].probe \in InThread
        BY <1>3, <1>8, <1>9 DEF LockInv, InThread
  <2> QED BY <1>3, <1>6, <2>2, <2>3 DEF LockInv
<1>12. UNCHANGED <<world, library, clock, tables, faults>> BY DEF Acquire
<1>13. LibraryInv'
  <2>1. ConnectionFreed' BY <1>4, <1>8, <1>9, <1>12 DEF LibraryInv, ConnectionFreed, Reqs
  <2> QED BY <1>8, <1>9, <1>12, <2>1 DEF LibraryInv, Connected
<1>14. StageInv'
  <2>1. req'[r].at \in {"probing", "gone"} /\ req'[r].addr \in Valid
        BY <1>2, <1>4, <1>9 DEF StageInv, Staged
  <2>2. clock' = clock BY <1>12
  <2>3. Staged(r) BY <1>2 DEF StageInv
  <2>4. Staged(r)' BY <1>9, <2>1, <2>2, <2>3 DEF Staged
  <2>5. ASSUME NEW s \in Reqs, s # r PROVE Staged(s)'
    <3>1. Staged(s) /\ req'[s] = req[s] BY <1>8, <2>5 DEF StageInv
    <3> QED BY <2>2, <3>1 DEF Staged
  <2> QED BY <1>8, <2>4, <2>5 DEF StageInv
<1>15. TruthInv' BY <1>8, <1>9, <1>12 DEF TruthInv, PingsTrue, Reqs
<1>16. \A s \in Reqs : req'[s].op = req[s].op /\ req'[s].machine = req[s].machine
                       /\ req'[s].addr = req[s].addr /\ req'[s].at = req[s].at
       BY <1>8, <1>9
<1>17. UpdateInv'
       BY <1>8, <1>12, <1>16 DEF UpdateInv, RowsProbed, UpdatedIsKnown, Probed, Reqs
<1> QED BY <1>10, <1>11, <1>13, <1>14, <1>15, <1>17

(* A thread's step, by request: the line and the holder stay.  What is left *)
(* to show of an action is what it does to the library and what it has read. *)
LEMMA ThreadInv ==
  ASSUME Inv, NEW r \in Reqs, NEW x \in Requests, req' = [req EXCEPT ![r] = x],
         req[r].probe \in InThread, x.probe \in InThread,
         x = [req[r] EXCEPT !.probe = x.probe, !.id = x.id],
         x.id # NULL => <<x.id, x.addr>> \in truths,
         library' = IF x.probe \in Connected THEN x.addr ELSE NULL,
         UNCHANGED <<world, lock, clock, tables, faults>>
  PROVE  Inv'
<1> USE DEF lock, tables, world, Inv, IInv
<1>1. /\ req' \in Seq(Requests) /\ Len(req') = Len(req) /\ Reqs' = Reqs
      /\ req'[r] = x
      /\ \A s \in Reqs : s # r => req'[s] = req[s]
      BY OneRequest DEF TypeOK
<1>2. /\ req[r] \in Requests
      /\ x.op = req[r].op /\ x.machine = req[r].machine /\ x.addr = req[r].addr
      /\ x.at = req[r].at /\ x.date = req[r].date
  <2>1. req[r] \in Requests BY Typed
  <2> QED BY <2>1 DEF Requests
<1>3. running = {r} /\ \A s \in Reqs : s # r => req[s].probe \notin InThread
      BY DEF LockInv
<1>4. req[r].addr \in Valid /\ req[r].at \in {"probing", "gone"}
      BY DEF StageInv, Staged, InThread
<1>5. TypeOK' BY <1>1, <1>2, <1>4 DEF TypeOK, Reqs
<1>6. LockInv'
  <2>1. \A k \in 1..Len(waiting) : waiting[k] \in Reqs /\ waiting[k] # r
        BY Typed DEF LockInv, InThread
  <2> QED BY <1>1, <1>3, <2>1 DEF LockInv
<1>7. LibraryInv'
      BY <1>1, <1>2, <1>3 DEF LibraryInv, ConnectionFreed, Connected, InThread, Reqs
<1>8. StageInv' BY <1>1, <1>2, <1>4 DEF StageInv, Staged, Checking, Updating, InThread, Reqs
<1>9. TruthInv' BY <1>1, <1>2 DEF TruthInv, PingsTrue, Reqs
<1>10. UpdateInv'
       BY <1>1, <1>2 DEF UpdateInv, RowsProbed, UpdatedIsKnown, Probed, Reqs
<1> QED BY <1>5, <1>6, <1>7, <1>8, <1>9, <1>10

LEMMA ThreadStepInv == ASSUME Inv, NEW r \in Reqs, Thread(r) PROVE Inv'
<1> USE DEF Inv, IInv
<1>1. req[r] \in Requests BY Typed
<1>2. /\ req[r].probe \in InThread
      /\ req[r].probe \in Connected => library = req[r].addr
      /\ req[r].probe \notin Connected => library = NULL
  <2>1. req[r].probe \in InThread
        BY DEF Thread, Connect, ReadId, ReadAxes, ReadFails, Free, InThread
  <2>2. \A s \in Reqs : s # r => req[s].probe \notin InThread
        BY <2>1 DEF LockInv
  <2> QED BY <2>1, <2>2 DEF LibraryInv, ConnectionFreed, Connected, InThread, Reqs
<1>3. req[r].addr \in Valid BY <1>2 DEF StageInv, Staged, InThread
<1>4. req[r].id # NULL => <<req[r].id, req[r].addr>> \in truths BY DEF TruthInv
<1> DEFINE To(probe, id) == [req[r] EXCEPT !.probe = probe, !.id = id]
<1>5. ASSUME NEW probe \in InThread, NEW id \in Machines \cup {NULL},
             id # NULL => <<id, req[r].addr>> \in truths,
             req' = [req EXCEPT ![r] = To(probe, id)],
             library' = IF probe \in Connected THEN req[r].addr ELSE NULL,
             UNCHANGED <<world, lock, clock, tables, faults>>
      PROVE  Inv'
  <2>1. To(probe, id) \in Requests BY <1>1, <1>5 DEF Requests, InThread
  <2>2. To(probe, id).probe = probe /\ To(probe, id).id = id /\ To(probe, id).addr = req[r].addr
        BY <1>1 DEF Requests
  <2>3. To(probe, id) = [req[r] EXCEPT !.probe = To(probe, id).probe, !.id = To(probe, id).id]
        BY <2>2
  <2> HIDE DEF To
  <2> QED BY <1>2, <1>5, <2>1, <2>2, <2>3, ThreadInv
<1>6. \A probe : [req[r] EXCEPT !.probe = probe] = To(probe, req[r].id)
      BY <1>1 DEF Requests
<1>7. req[r].id \in Machines \cup {NULL} BY <1>1 DEF Requests
<1>8. CASE Connect(r)
  <2>1. CASE Probing(r, "id") /\ library' = req[r].addr
    <3>1. req' = [req EXCEPT ![r] = To("id", req[r].id)] BY <1>6, <2>1 DEF Probing
    <3> HIDE DEF To
    <3> QED BY <1>4, <1>5, <1>7, <1>8, <2>1, <3>1 DEF Connect, InThread, Connected
  <2>2. CASE Probing(r, "done") /\ UNCHANGED library
    <3>1. req' = [req EXCEPT ![r] = To("done", req[r].id)] BY <1>6, <2>2 DEF Probing
    <3> HIDE DEF To
    <3> QED BY <1>2, <1>4, <1>5, <1>7, <1>8, <2>2, <3>1 DEF Connect, InThread, Connected
  <2> QED BY <1>8, <2>1, <2>2 DEF Connect
<1>9. CASE ReadId(r)
  <2>1. req' = [req EXCEPT ![r] = To("axes", net[library])] BY <1>9 DEF ReadId
  <2>2. library = req[r].addr /\ UNCHANGED library BY <1>2, <1>9 DEF ReadId, Connected
  <2>3. net[library] \in Machines \cup {NULL} /\ <<net[library], req[r].addr>> \in truths
        BY <1>3, <2>2 DEF TypeOK, TruthInv
  <2> HIDE DEF To
  <2> QED BY <1>5, <1>9, <2>1, <2>2, <2>3 DEF ReadId, InThread, Connected
<1>10. CASE ReadAxes(r)
  <2>1. req' = [req EXCEPT ![r] = To("free", req[r].id)] BY <1>6, <1>10 DEF ReadAxes, Probing
  <2> HIDE DEF To
  <2> QED BY <1>2, <1>4, <1>5, <1>7, <1>10, <2>1 DEF ReadAxes, InThread, Connected
<1>11. CASE ReadFails(r)
  <2>1. req' = [req EXCEPT ![r] = To("free", NULL)] BY <1>11 DEF ReadFails
  <2> HIDE DEF To
  <2> QED BY <1>2, <1>5, <1>11, <2>1 DEF ReadFails, InThread, Connected
<1>12. CASE Free(r)
  <2>1. req' = [req EXCEPT ![r] = To("done", req[r].id)] BY <1>6, <1>12 DEF Free, Probing
  <2> HIDE DEF To
  <2> QED BY <1>4, <1>5, <1>7, <1>12, <2>1 DEF Free, InThread, Connected
<1> QED BY <1>8, <1>9, <1>10, <1>11, <1>12 DEF Thread

(* The lock is given back, and the handler has the thread's result. *)
LEMMA ReturnInv == ASSUME Inv, NEW r \in Reqs, Return(r) PROVE Inv'
<1> USE DEF lock, tables, world, Inv, IInv
<1> DEFINE x == IF req[r].at # "probing" THEN [req[r] EXCEPT !.probe = "none"]
                ELSE [req[r] EXCEPT !.probe = "none", !.date = clock,
                                    !.at = IF req[r].id = NULL THEN "null" ELSE "recording"]
<1>1. req[r] \in Requests /\ clock \in Nat BY Typed DEF TypeOK
<1>2. x \in Requests BY <1>1 DEF Requests, Answers
<1>3. req' = [req EXCEPT ![r] = x] BY DEF Return, Probing
<1>4. /\ x.op = req[r].op /\ x.machine = req[r].machine /\ x.addr = req[r].addr
      /\ x.id = req[r].id /\ x.probe = "none"
      /\ x.at = IF req[r].at # "probing" THEN req[r].at
                ELSE IF req[r].id = NULL THEN "null" ELSE "recording"
      /\ x.date = IF req[r].at # "probing" THEN req[r].date ELSE clock
      BY <1>1 DEF Requests
<1>5. clock' = IF req[r].at # "probing" THEN clock ELSE clock + 1 BY DEF Return
<1> HIDE DEF x
<1>6. /\ req' \in Seq(Requests) /\ Len(req') = Len(req) /\ Reqs' = Reqs
      /\ req'[r] = x
      /\ \A s \in Reqs : s # r => req'[s] = req[s]
      BY <1>2, <1>3, OneRequest DEF TypeOK
<1>7. req[r].probe = "done" /\ running = {r} /\ running' = {}
  <2>1. req[r].probe = "done" /\ r \in running /\ running' = running \ {r} BY DEF Return
  <2> QED BY <2>1 DEF LockInv, TypeOK, Reqs
<1>8. req[r].at \in {"probing", "gone"} BY <1>7 DEF StageInv, Staged
<1>9. TypeOK'
  <2>1. clock' \in Nat /\ 0..(clock - 1) \subseteq 0..(clock' - 1) BY <1>1, <1>5
  <2>2. pings \subseteq [date : 0..(clock' - 1), machine : Machines, addr : Valid]
        BY <2>1 DEF TypeOK
  <2> QED BY <1>6, <1>7, <2>1, <2>2 DEF TypeOK, Return, Reqs
<1>10. LockInv'
  <2>1. \A k \in 1..Len(waiting) : waiting[k] \in Reqs /\ waiting[k] # r
        BY <1>7, Typed DEF LockInv
  <2> QED BY <1>4, <1>6, <1>7, <2>1 DEF LockInv, InThread, Return
<1>11. LibraryInv'
       BY <1>4, <1>6, <1>7 DEF LibraryInv, ConnectionFreed, Connected, Return, Reqs
<1>12. StageInv'
  <2>1. \A s \in Reqs : s # r /\ req[s].at = "recording" => req[s].date < clock'
    <3>1. \A s \in Reqs : req[s].date \in Nat BY Typed DEF Requests
    <3> QED BY <1>1, <1>5, <3>1 DEF StageInv, Staged
  <2> QED BY <1>1, <1>4, <1>5, <1>6, <1>7, <1>8, <2>1 DEF StageInv, Staged, Checking, Updating, Reqs
<1>13. TruthInv' BY <1>4, <1>6 DEF TruthInv, PingsTrue, Return, Reqs
<1>14. UpdateInv'
       BY <1>4, <1>6 DEF UpdateInv, RowsProbed, UpdatedIsKnown, Probed, Return, Reqs
<1> QED BY <1>9, <1>10, <1>11, <1>12, <1>13, <1>14

----------------------------------------------------------------------------
(* The handlers: the probe and the line stay. *)

(* What any step of a handler leaves as it was. *)
LEMMA HandlerInv ==
  ASSUME Inv, NEW r \in Reqs, NEW at \in Answers \cup Checking \cup Updating \cup {"gone"},
         Step(r, at),
         req[r].at \notin {"probing", "gone"} \/ at = "gone",
         at \notin Checking, at \in Updating => req[r].op = "update",
         UNCHANGED <<world, library, lock, clock>>
  PROVE  /\ req' \in Seq(Requests) /\ Len(req') = Len(req) /\ Reqs' = Reqs
         /\ req'[r].op = req[r].op /\ req'[r].machine = req[r].machine
         /\ req'[r].addr = req[r].addr /\ req'[r].at = at
         /\ \A s \in Reqs : s # r => req'[s] = req[s]
         /\ LockInv' /\ LibraryInv' /\ StageInv'
         /\ PingsTrue' => TruthInv'
<1> USE DEF lock, world, Inv, IInv
<1>1. /\ req' \in Seq(Requests) /\ Len(req') = Len(req) /\ Reqs' = Reqs
      /\ req'[r] = [req[r] EXCEPT !.at = at]
      /\ \A s \in Reqs : s # r => req'[s] = req[s]
      BY HandlerStep
<1>2. /\ req'[r].op = req[r].op /\ req'[r].machine = req[r].machine
      /\ req'[r].addr = req[r].addr /\ req'[r].at = at
      /\ req'[r].probe = req[r].probe /\ req'[r].id = req[r].id /\ req'[r].date = req[r].date
  <2>1. req[r] \in Requests BY Typed
  <2> QED BY <1>1, <2>1 DEF Requests
<1>3. \A s \in Reqs : req'[s].probe = req[s].probe /\ req'[s].id = req[s].id
                      /\ req'[s].addr = req[s].addr
      BY <1>1, <1>2
<1>4. LockInv'
  <2>1. \A k \in 1..Len(waiting) : waiting[k] \in Reqs BY Typed
  <2>2. waiting' = waiting /\ running' = running /\ running \subseteq Reqs BY DEF TypeOK, Reqs
  <2>3. \A k \in 1..Len(waiting) : req'[waiting[k]].probe = "waiting"
        BY <1>3, <2>1 DEF LockInv
  <2> QED BY <1>1, <1>3, <2>2, <2>3 DEF LockInv
<1>5. LibraryInv' BY <1>1, <1>3 DEF LibraryInv, ConnectionFreed, Reqs
<1>6. StageInv'
  <2>1. req[r].probe # "none" => at = "gone" /\ req[r].addr \in Valid
        BY DEF StageInv, Staged
  <2>2. clock' = clock OBVIOUS
  <2>3. req[r].op = "update" => req[r].machine \in Machines BY DEF StageInv, Staged
  <2>4. at = "recording" => FALSE BY DEF Checking
  <2>5. Staged(r)' BY <1>2, <2>1, <2>3, <2>4 DEF Staged
  <2>6. ASSUME NEW s \in Reqs, s # r PROVE Staged(s)'
    <3>1. Staged(s) /\ req'[s] = req[s] BY <1>1, <2>6 DEF StageInv
    <3> QED BY <2>2, <3>1 DEF Staged
  <2> QED BY <1>1, <2>5, <2>6 DEF StageInv
<1>7. PingsTrue' => TruthInv' BY <1>1, <1>3 DEF TruthInv, Reqs
<1> QED BY <1>1, <1>2, <1>4, <1>5, <1>6, <1>7

LEMMA RecordInv == ASSUME Inv, NEW r \in Reqs, Record(r) PROVE Inv'
<1> USE DEF Inv, IInv
<1>1. /\ req' \in Seq(Requests) /\ Len(req') = Len(req) /\ Reqs' = Reqs
      /\ req'[r].op = req[r].op /\ req'[r].machine = req[r].machine
      /\ req'[r].addr = req[r].addr /\ req'[r].at = "ok"
      /\ \A s \in Reqs : s # r => req'[s] = req[s]
      /\ LockInv' /\ LibraryInv' /\ StageInv'
      /\ PingsTrue' => TruthInv'
      BY HandlerInv DEF Record, Answers, Checking, Updating
<1> DEFINE p == [date |-> req[r].date, machine |-> req[r].id, addr |-> req[r].addr]
<1>2. pings' = pings \cup {p} BY DEF Record
<1>3. /\ req[r].op = "check" /\ req[r].addr \in Valid /\ req[r].id \in Machines
      /\ req[r].id # NULL /\ req[r].date \in 0..(clock - 1)
  <2>1. req[r] \in Requests /\ clock \in Nat BY Typed DEF TypeOK
  <2> QED BY <2>1 DEF Record, StageInv, Staged, Checking, Requests
<1>4. p \in [date : 0..(clock - 1), machine : Machines, addr : Valid] BY <1>3
<1>5. <<p.machine, p.addr>> \in truths BY <1>3 DEF TruthInv
<1> HIDE DEF p
<1>6. UNCHANGED <<world, library, lock, clock, machines, faults>> BY DEF Record
<1>7. TypeOK' BY <1>1, <1>2, <1>4, <1>6 DEF TypeOK, Reqs, world, lock
<1>8. PingsTrue' BY <1>2, <1>5, <1>6 DEF TruthInv, PingsTrue, world
<1>9. UpdateInv'
  <2>1. \A m, a : Probed(m, a) => Probed(m, a)' BY <1>2 DEF Probed
  <2>2. RowsProbed' BY <1>2, <1>6 DEF UpdateInv, RowsProbed
  <2>3. UpdatedIsKnown' BY <1>1, <1>3, <1>6 DEF UpdateInv, UpdatedIsKnown, Reqs
  <2>4. \A s \in Reqs' :
          /\ req'[s].at \in {"choosing", "inserting", "updating"} =>
               Probed(req[s].machine, req[s].addr)
          /\ req'[s].at = "updating" => machines'[req'[s].machine] # NULL
          /\ req'[s].machine = req[s].machine /\ req'[s].addr = req[s].addr
        BY <1>1, <1>6 DEF UpdateInv
  <2> QED BY <1>2, <2>2, <2>3, <2>4 DEF UpdateInv, Probed
<1> QED BY <1>1, <1>7, <1>8, <1>9

(* The steps of an update: rows come and change, and are never deleted. *)
LEMMA UpdatingInv ==
  ASSUME Inv, NEW r \in Reqs, NEW at \in Answers \cup Updating \cup {"gone"}, Step(r, at),
         req[r].at \in Updating \/ at = "gone",
         UNCHANGED <<world, library, lock, clock, pings>>, faults' \in 0..MaxFaults,
         machines' \in [Machines -> Valid \cup {NULL}],
         \A m \in Machines : machines[m] # NULL => machines'[m] # NULL,
         \A m \in Machines : machines'[m] = machines[m] \/ Probed(m, machines'[m]),
         at \in {"choosing", "inserting", "updating"} => Probed(req[r].machine, req[r].addr),
         at \in {"updating", "failed", "ok"} => machines'[req[r].machine] # NULL
  PROVE  Inv'
<1> USE DEF Inv, IInv
<1>1. /\ req' \in Seq(Requests) /\ Len(req') = Len(req) /\ Reqs' = Reqs
      /\ req'[r].op = req[r].op /\ req'[r].machine = req[r].machine
      /\ req'[r].addr = req[r].addr /\ req'[r].at = at
      /\ \A s \in Reqs : s # r => req'[s] = req[s]
      /\ LockInv' /\ LibraryInv' /\ StageInv'
      /\ PingsTrue' => TruthInv'
  <2>1. at \notin Checking /\ at \in Updating => req[r].op = "update"
        BY DEF Checking, Updating, Answers, StageInv, Staged
  <2>2. req[r].at \notin {"probing", "gone"} \/ at = "gone" BY DEF Updating
  <2>3. at \notin Checking BY DEF Checking, Updating, Answers
  <2>4. at \in Updating => req[r].op = "update" BY DEF Updating, StageInv, Staged
  <2> QED BY <2>2, <2>3, <2>4, HandlerInv
<1>2. TypeOK' BY <1>1 DEF TypeOK, Reqs, world, lock
<1>3. TruthInv' BY <1>1 DEF TruthInv, PingsTrue, world
<1>4. RowsProbed' BY DEF UpdateInv, RowsProbed, Probed
<1>5. \A s \in Reqs : req[s].op = "update" => req[s].machine \in Machines
      BY DEF StageInv, Staged
<1>6. \A s \in Reqs : req[s].at = "updating" => req[s].op = "update"
      BY DEF StageInv, Staged, Updating
<1>7. UpdatedIsKnown' BY <1>1, <1>5 DEF UpdateInv, UpdatedIsKnown, Reqs
<1>8. \A s \in Reqs' :
        /\ req'[s].at \in {"choosing", "inserting", "updating"} =>
             Probed(req'[s].machine, req'[s].addr)
        /\ req'[s].at = "updating" => machines'[req'[s].machine] # NULL
      BY <1>1, <1>5, <1>6 DEF UpdateInv
<1>9. UpdateInv' BY <1>4, <1>7, <1>8 DEF UpdateInv, Probed
<1> QED BY <1>1, <1>2, <1>3, <1>9

LEMMA UpdatingStepInv ==
  ASSUME Inv, NEW r \in Reqs, Compare(r) \/ Choose(r) \/ InsertRow(r) \/ UpdateRow(r)
  PROVE  Inv'
<1> USE DEF Inv, IInv, tables
<1> DEFINE m == req[r].machine
           a == req[r].addr
<1>1. /\ req[r].at \in Updating /\ req[r].op = "update" /\ m \in Machines
      /\ req[r].at # "comparing" => Probed(m, a)
      /\ req[r].at = "updating" => machines[m] # NULL
  <2>1. req[r].at \in Updating BY DEF Compare, Choose, InsertRow, UpdateRow, Updating
  <2> QED BY <2>1 DEF StageInv, Staged, UpdateInv, Updating
<1>2. Probed(m, a) => a \in Valid /\ a # NULL
      BY NullAssumption DEF Probed, TypeOK, Valid
<1>3. faults \in 0..MaxFaults /\ machines \in [Machines -> Valid \cup {NULL}] BY DEF TypeOK
<1> HIDE DEF m, a
<1>4. CASE Compare(r)
  <2>1. CASE Step(r, "choosing") /\ \E ping \in pings : Matches(r, ping)
    <3>1. Probed(m, a) BY <2>1 DEF Matches, Probed, m, a
    <3> QED BY <1>1, <1>3, <1>4, <2>1, <3>1, UpdatingInv DEF Compare, Updating, m, a
  <2>2. CASE Step(r, "rejected")
        BY <1>1, <1>3, <1>4, <2>2, UpdatingInv DEF Compare, Answers
  <2> QED BY <1>4, <2>1, <2>2 DEF Compare
<1>5. CASE Choose(r)
  <2>1. CASE Step(r, "inserting")
        BY <1>1, <1>3, <1>5, <2>1, UpdatingInv DEF Choose, Updating, m, a
  <2>2. CASE Step(r, "updating") /\ machines[m] # NULL
        BY <1>1, <1>3, <1>5, <2>2, UpdatingInv DEF Choose, Updating, m, a
  <2> QED BY <1>5, <2>1, <2>2 DEF Choose, m
<1>6. CASE InsertRow(r)
  <2>1. CASE Step(r, "ok") /\ machines' = [machines EXCEPT ![m] = a]
    <3>1. /\ machines' \in [Machines -> Valid \cup {NULL}]
          /\ \A n \in Machines : machines[n] # NULL => machines'[n] # NULL
          /\ \A n \in Machines : machines'[n] = machines[n] \/ Probed(n, machines'[n])
          /\ machines'[m] # NULL
          BY <1>1, <1>2, <1>3, <1>6, <2>1 DEF InsertRow
    <3> QED BY <1>1, <1>3, <1>6, <2>1, <3>1, UpdatingInv DEF InsertRow, Answers, m, a
  <2>2. CASE Step(r, "failed") /\ UNCHANGED machines /\ machines[m] # NULL
        BY <1>1, <1>3, <1>6, <2>2, UpdatingInv DEF InsertRow, Answers, m, a
  <2> QED BY <1>6, <2>1, <2>2 DEF InsertRow, m, a
<1>7. CASE UpdateRow(r)
  <2>1. machines' = [n \in Machines |-> IF n = m /\ machines[n] # NULL THEN a ELSE machines[n]]
        BY <1>7 DEF UpdateRow, m, a
  <2>2. /\ machines' \in [Machines -> Valid \cup {NULL}]
        /\ \A n \in Machines : machines[n] # NULL => machines'[n] # NULL
        /\ \A n \in Machines : machines'[n] = machines[n] \/ Probed(n, machines'[n])
        /\ machines'[m] # NULL
        BY <1>1, <1>2, <1>3, <1>7, <2>1 DEF UpdateRow
  <2> QED BY <1>1, <1>3, <1>7, <2>2, UpdatingInv DEF UpdateRow, Answers, m, a
<1> QED BY <1>4, <1>5, <1>6, <1>7

LEMMA ClientLeavesInv == ASSUME Inv, NEW r \in Reqs, ClientLeaves(r) PROVE Inv'
<1>1. machines \in [Machines -> Valid \cup {NULL}] /\ faults \in 0..MaxFaults BY DEF Inv, TypeOK
<1>2. faults' \in 0..MaxFaults BY <1>1, BoundsAssumption DEF ClientLeaves
<1> QED BY <1>1, <1>2, UpdatingInv DEF ClientLeaves, tables

(* A new process: the requests that were not answered are gone. *)
LEMMA ApiRestartsInv == ASSUME Inv, ApiRestarts PROVE Inv'
<1> USE DEF Inv, IInv, world, lock, tables
<1>1. /\ \A r \in Reqs : req[r] \in Requests
      /\ Reqs = 1..Len(req) /\ Len(req) \in Nat
      BY Typed
<1>2. /\ DOMAIN req' = Reqs
      /\ \A r \in Reqs : req'[r] = IF req[r].at \in Answers THEN req[r]
                                    ELSE [req[r] EXCEPT !.at = "gone", !.probe = "none"]
      BY DEF ApiRestarts, Reqs
<1>3. \A r \in Reqs :
        /\ req'[r] \in Requests /\ req'[r].probe = "none"
        /\ req'[r].op = req[r].op /\ req'[r].machine = req[r].machine
        /\ req'[r].addr = req[r].addr /\ req'[r].id = req[r].id
        /\ req'[r].at \in Answers \cup {"gone"}
        /\ req'[r].at # "gone" => req'[r].at = req[r].at
  <2> SUFFICES ASSUME NEW r \in Reqs
               PROVE /\ req'[r] \in Requests /\ req'[r].probe = "none"
                     /\ req'[r].op = req[r].op /\ req'[r].machine = req[r].machine
                     /\ req'[r].addr = req[r].addr /\ req'[r].id = req[r].id
                     /\ req'[r].at \in Answers \cup {"gone"}
                     /\ req'[r].at # "gone" => req'[r].at = req[r].at
      OBVIOUS
  <2>1. req[r] \in Requests BY <1>1
  <2>2. CASE req[r].at \in Answers
    <3>1. Staged(r) BY DEF StageInv
    <3>2. req[r].probe = "none" BY <2>2, <3>1 DEF Staged, Answers
    <3>3. req'[r] = req[r] BY <1>2, <2>2
    <3> QED BY <2>1, <2>2, <3>2, <3>3
  <2>3. CASE req[r].at \notin Answers
    <3>1. req'[r] = [req[r] EXCEPT !.at = "gone", !.probe = "none"] BY <1>2, <2>3
    <3> QED BY <2>1, <3>1 DEF Requests
  <2> QED BY <2>2, <2>3
<1>4. req' \in Seq(Requests) /\ Len(req') = Len(req) /\ Reqs' = Reqs
  <2>1. req' = [r \in 1..Len(req) |-> req'[r]] BY <1>1 DEF ApiRestarts, Reqs
  <2>2. req' \in [1..Len(req) -> Requests] BY <1>1, <1>3, <2>1
  <2>3. [1..Len(req) -> Requests] \subseteq Seq(Requests) BY <1>1, SeqDef
  <2>4. req' \in Seq(Requests) BY <2>2, <2>3
  <2>5. Reqs' = 1..Len(req') /\ Len(req') \in Nat BY <2>4, LenProperties DEF Reqs
  <2>6. Reqs' = 1..Len(req) BY <1>1, <1>2 DEF Reqs
  <2>7. Len(req') = Len(req)
    <3>1. \A a, b \in Nat : 1..a = 1..b => a = b OBVIOUS
    <3> QED BY <1>1, <2>5, <2>6, <3>1
  <2> QED BY <1>1, <2>4, <2>6, <2>7
<1>5. /\ library' = NULL /\ waiting' = <<>> /\ running' = {} /\ faults' \in 0..MaxFaults
      /\ UNCHANGED <<world, clock, tables>>
  <2>1. faults < MaxFaults /\ faults' = faults + 1 BY DEF ApiRestarts
  <2>2. faults' \in 0..MaxFaults BY <2>1, BoundsAssumption DEF TypeOK
  <2> QED BY <2>2 DEF ApiRestarts
<1> HIDE DEF ApiRestarts
<1>6. TypeOK' BY <1>4, <1>5 DEF TypeOK, Reqs
<1>7. LockInv' BY <1>3, <1>4, <1>5 DEF LockInv, InThread
<1>8. LibraryInv' BY <1>3, <1>4, <1>5 DEF LibraryInv, ConnectionFreed, Connected
<1>9. StageInv' BY <1>3, <1>4, <1>5 DEF StageInv, Staged, Checking, Updating, Answers
<1>10. TruthInv' BY <1>3, <1>4, <1>5 DEF TruthInv, PingsTrue
<1>11. UpdateInv' BY <1>3, <1>4, <1>5 DEF UpdateInv, RowsProbed, UpdatedIsKnown, Probed, Answers, Reqs
<1> QED BY <1>6, <1>7, <1>8, <1>9, <1>10, <1>11

----------------------------------------------------------------------------
(* The invariant holds throughout, and with it what it was made for. *)

LEMMA StepInv == Inv /\ [Next]_vars => Inv'
<1> SUFFICES ASSUME Inv, [Next]_vars PROVE Inv'
    OBVIOUS
<1>1. CASE Moves BY <1>1, MovesInv
<1>2. CASE \E a \in Addresses : Check(a) \/ \E m \in Machines : Update(m, a)
      BY <1>2, CheckInv, UpdateStepInv
<1>3. CASE Acquire BY <1>3, AcquireInv
<1>4. ASSUME NEW r \in Reqs, Thread(r) \/ Return(r) \/ Handler(r) \/ ClientLeaves(r)
      PROVE  Inv'
      BY <1>4, ThreadStepInv, ReturnInv, RecordInv, UpdatingStepInv, ClientLeavesInv DEF Handler
<1>5. CASE ApiRestarts BY <1>5, ApiRestartsInv
<1>6. CASE UNCHANGED vars
  <2> USE <1>6 DEF vars, world, lock, tables
  <2>1. TypeOK' BY DEF Inv, TypeOK
  <2>2. LockInv' /\ LibraryInv' /\ StageInv'
        BY DEF Inv, IInv, LockInv, LibraryInv, StageInv, Staged, ConnectionFreed, Reqs
  <2>3. TruthInv' /\ UpdateInv'
        BY DEF Inv, IInv, TruthInv, UpdateInv, PingsTrue, RowsProbed, UpdatedIsKnown, Probed, Reqs
  <2> QED BY <2>1, <2>2, <2>3 DEF Inv, IInv
<1> QED BY <1>1, <1>2, <1>3, <1>4, <1>5, <1>6 DEF Next, Reqs

LEMMA AlwaysInv == Spec => []Inv
BY InitInv, StepInv, PTL DEF Spec

(* The types hold of every reachable state. *)
THEOREM TypeCorrect == Spec => []TypeOK
<1>1. Inv => TypeOK BY DEF Inv
<1> QED BY <1>1, AlwaysInv, PTL

(* The machine a ping names has been at the ping's address, whichever       *)
(* clients left while its probe ran.                                        *)
THEOREM PingsAreTrue == Spec => []PingsTrue
<1>1. Inv => PingsTrue BY DEF Inv, IInv, TruthInv
<1> QED BY <1>1, AlwaysInv, PTL

(* A row of machines is that of some ping, however checks and updates       *)
(* interleave.                                                              *)
THEOREM RowsAreProbed == Spec => []RowsProbed
<1>1. Inv => RowsProbed BY DEF Inv, IInv, UpdateInv
<1> QED BY <1>1, AlwaysInv, PTL

(* An update that was answered OK leaves a row, and so does one that lost   *)
(* the race for the insert.                                                 *)
THEOREM UpdatesAreKnown == Spec => []UpdatedIsKnown
<1>1. Inv => UpdatedIsKnown BY DEF Inv, IInv, UpdateInv
<1> QED BY <1>1, AlwaysInv, PTL

(* Without a thread that uses it the library has no connection.             *)
THEOREM ConnectionIsFreed == Spec => []ConnectionFreed
<1>1. Inv => ConnectionFreed BY DEF Inv, IInv, LibraryInv
<1> QED BY <1>1, AlwaysInv, PTL
=============================================================================
