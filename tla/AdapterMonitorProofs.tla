------------------------- MODULE AdapterMonitorProofs -------------------------
(***************************************************************************)
(* Proofs about the monitor daemon, for any set of machines and any number *)
(* of edits, exits of adapters and failures.                               *)
(***************************************************************************)
EXTENDS AdapterMonitor, SequenceTheorems, FiniteSetTheorems, TLAPS

----------------------------------------------------------------------------
(* The inductive invariant. *)

(* Which process a task stands next to. *)
PlaceInv(m) ==
  /\ mon[m].at \in {"none", "created"} => child[m] = "none"
  /\ mon[m].at \in {"spawning", "running"} => child[m] \in {"alive", "dead"}
  /\ mon[m].at \in {"aborting", "terminating"} => child[m] \in {"signalled", "dead"}
  /\ mon[m].at = "sleeping" => child[m] = "dead"
  /\ mon[m].at \in Done => child[m] # "alive" /\ ~mon[m].cancel

Awaited(m) == Awaiting /\ worker.m = m

(* Every task that goes on is in self.tasks or awaited by the worker. *)
HeldInv(m) == mon[m].at \in Live => m \in tasks \/ Awaited(m)

(* Unless the interrupt hit the task that the worker awaits, no task is     *)
(* cancelled twice: none ends before its process has.                       *)
OnceInv(m) ==
  ~main.delegated =>
    /\ orphans[m] = 0
    /\ mon[m].at \in Done => ~Running(m)
    /\ mon[m].at \in {"aborting", "terminating"} => ~mon[m].cancel
    /\ main.at = "running" =>
         (mon[m].cancel \/ mon[m].at \in {"aborting", "terminating"} => Awaited(m))

(* s is the last that is recorded of m. *)
Says(m, s) ==
  \/ \E k \in 1..Len(statusq) :
       statusq[k] = <<m, s>> /\ \A l \in 1..Len(statusq) : l > k => statusq[l][1] # m
  \/ story[m] = s /\ \A l \in 1..Len(statusq) : statusq[l][1] # m

Words == Statuses \cup {"none"}

Ended(m) == Says(m, "SHUTDOWN") \/ Says(m, "DESTROYED")

(* A task that has finished said so last, but for a word of the worker that *)
(* takes it back in the same turn.                                          *)
SaidInv(m) == mon[m].at = "finished" => Ended(m) \/ (Awaited(m) /\ loop = "worker")

(* Where the worker and run() stand. *)
WorkerInv ==
  /\ Awaiting => worker.m \in Machines \ tasks
  /\ worker.cancel /\ Awaiting => mon[worker.m].at \in Done
  /\ main.at = "running" => ~worker.cancel /\ ~main.delegated
  /\ main.at = "gathering" /\ ~main.delegated => main.gathers = tasks
  /\ main.at \in {"gathering", "joining", "closed"} /\ ~main.delegated =>
       worker.cancel \/ worker.at \in {"done", "crashed", "cancelled"}
  /\ main.at \in {"joining", "closed"} => worker.at = "done"
  /\ main.at \in {"joining", "closed"} /\ ~main.delegated =>
       \A m \in tasks : mon[m].at = "finished"
  /\ main.at = "closed" => statusq = <<>>

MachineInv == \A m \in Machines : PlaceInv(m) /\ HeldInv(m) /\ OnceInv(m)

Story == \A m \in Machines : SaidInv(m)

Inv == TypeOK /\ WorkerInv /\ MachineInv /\ Story

----------------------------------------------------------------------------
(* What the shared steps do to one machine and leave of the others. *)

Kept(m) == \A n \in Machines : n # m => mon'[n] = mon[n] /\ child'[n] = child[n]

(* Put adds one status at the end of the queue. *)
LEMMA PutFacts ==
  ASSUME TypeOK, NEW m \in Machines, NEW s \in Statuses, Put(m, s)
  PROVE  /\ statusq' \in Seq(Machines \X Statuses)
         /\ Len(statusq') = Len(statusq) + 1
         /\ statusq'[Len(statusq) + 1] = <<m, s>>
         /\ \A k \in 1..Len(statusq) : statusq'[k] = statusq[k]
         /\ story' = story /\ scribe' = scribe
BY DEF TypeOK, Put

(* What was said last of a machine stays last when another's is put. *)
LEMMA PutSays ==
  ASSUME TypeOK, NEW m \in Machines, NEW s \in Statuses, Put(m, s)
  PROVE  /\ Says(m, s)'
         /\ \A n \in Machines, t \in Words : n # m /\ Says(n, t) => Says(n, t)'
<1>1. /\ statusq \in Seq(Machines \X Statuses)
      /\ Len(statusq) \in Nat
  BY DEF TypeOK
<1>2. Says(m, s)'
  BY <1>1, PutFacts DEF Says
<1>3. ASSUME NEW n \in Machines, n # m, NEW t \in Words, Says(n, t)
      PROVE  Says(n, t)'
  <2> DEFINE last == Len(statusq) + 1
  <2>1. /\ Len(statusq') = last /\ statusq'[last][1] # n
        /\ \A k \in 1..Len(statusq) : statusq'[k] = statusq[k]
        /\ story' = story
    BY <1>1, <1>3, PutFacts
  <2>2. CASE story[n] = t /\ \A l \in 1..Len(statusq) : statusq[l][1] # n
    <3>1. story'[n] = t /\ \A l \in 1..Len(statusq') : statusq'[l][1] # n
      BY <1>1, <2>1, <2>2
    <3> QED
      BY <3>1 DEF Says
  <2>3. CASE \E k \in 1..Len(statusq) :
               /\ statusq[k] = <<n, t>>
               /\ \A l \in 1..Len(statusq) : l > k => statusq[l][1] # n
    <3>1. PICK k \in 1..Len(statusq) :
               /\ statusq[k] = <<n, t>>
               /\ \A l \in 1..Len(statusq) : l > k => statusq[l][1] # n
      BY <2>3
    <3>2. k \in 1..Len(statusq') /\ statusq'[k] = <<n, t>>
      BY <1>1, <2>1, <3>1
    <3>3. \A l \in 1..Len(statusq') : l > k => statusq'[l][1] # n
      BY <1>1, <2>1, <3>1
    <3> QED
      BY <3>2, <3>3 DEF Says
  <2> QED
    BY <1>3, <2>2, <2>3 DEF Says
<1> QED
  BY <1>2, <1>3

(* The same, for the words that end a task. *)
LEMMA PutEnds ==
  ASSUME TypeOK, NEW m \in Machines, NEW s \in Statuses, Put(m, s)
  PROVE  /\ s \in {"SHUTDOWN", "DESTROYED"} => Ended(m)'
         /\ \A n \in Machines : n # m /\ Ended(n) => Ended(n)'
BY PutSays DEF Ended, Words, Statuses

(* Nothing said, nothing forgotten. *)
LEMMA SaysSame ==
  ASSUME UNCHANGED <<statusq, story>>
  PROVE  /\ \A n \in Machines, t \in Words : Says(n, t) => Says(n, t)'
         /\ \A n \in Machines : Ended(n) => Ended(n)'
BY DEF Ended, Says

(* A status that is written is still the last, if it was. *)
LEMMA WriteSays ==
  ASSUME TypeOK, SWrite
  PROVE  /\ \A n \in Machines, t \in Words : Says(n, t) => Says(n, t)'
         /\ \A n \in Machines : Ended(n) => Ended(n)'
<1> DEFINE h == Head(statusq)
<1>1. /\ statusq \in Seq(Machines \X Statuses) /\ statusq # <<>>
      /\ Len(statusq) \in Nat
      /\ story \in [Machines -> Statuses \cup {"none"}]
      /\ story' = [story EXCEPT ![h[1]] = h[2]] /\ statusq' = Tail(statusq)
  BY DEF TypeOK, SWrite
<1>2. /\ h = statusq[1] /\ h[1] \in Machines
      /\ Len(statusq') = Len(statusq) - 1 /\ Len(statusq) >= 1
      /\ \A k \in 1..Len(statusq') : statusq'[k] = statusq[k + 1]
  BY <1>1
<1> HIDE DEF h
<1>3. ASSUME NEW n \in Machines, NEW t \in Words, Says(n, t)
      PROVE  Says(n, t)'
  <2>1. CASE story[n] = t /\ \A l \in 1..Len(statusq) : statusq[l][1] # n
    <3>1. story'[n] = t
      BY <1>1, <1>2, <2>1
    <3>2. \A l \in 1..Len(statusq') : statusq'[l][1] # n
      BY <1>1, <1>2, <2>1
    <3> QED
      BY <3>1, <3>2 DEF Says
  <2>2. CASE \E k \in 1..Len(statusq) :
               /\ statusq[k] = <<n, t>>
               /\ \A l \in 1..Len(statusq) : l > k => statusq[l][1] # n
    <3>1. PICK k \in 1..Len(statusq) :
               /\ statusq[k] = <<n, t>>
               /\ \A l \in 1..Len(statusq) : l > k => statusq[l][1] # n
      BY <2>2
    <3>2. CASE k = 1
      <4>1. story'[n] = t
        BY <1>1, <1>2, <3>1, <3>2
      <4>2. \A l \in 1..Len(statusq') : statusq'[l][1] # n
        BY <1>1, <1>2, <3>1, <3>2
      <4> QED
        BY <4>1, <4>2 DEF Says
    <3>3. CASE k # 1
      <4>1. k - 1 \in 1..Len(statusq') /\ statusq'[k - 1] = <<n, t>>
        BY <1>1, <1>2, <3>1, <3>3
      <4>2. \A l \in 1..Len(statusq') : l > k - 1 => statusq'[l][1] # n
        BY <1>1, <1>2, <3>1, <3>3
      <4> QED
        BY <4>1, <4>2 DEF Says
    <3> QED
      BY <3>2, <3>3
  <2> QED
    BY <1>3, <2>1, <2>2 DEF Says
<1> QED
  BY <1>3 DEF Ended, Words, Statuses

(* A task that goes to a place is there, its cancellation used up. *)
LEMMA GoesFacts ==
  ASSUME TypeOK, NEW m \in Machines, NEW place \in {"none"} \cup Live \cup Done,
         Goes(m, place)
  PROVE  /\ mon' \in [Machines -> TaskStates]
         /\ mon'[m].at = place /\ mon'[m].cancel = FALSE
         /\ \A n \in Machines : n # m => mon'[n] = mon[n]
<1>1. mon \in [Machines -> TaskStates]
  BY DEF TypeOK
<1>2. mon' = [mon EXCEPT ![m] = [mon[m] EXCEPT !.at = place, !.cancel = FALSE]]
  BY DEF Goes
<1>3. [mon[m] EXCEPT !.at = place, !.cancel = FALSE] \in TaskStates
  BY <1>1 DEF TaskStates
<1>4. mon'[m] = [mon[m] EXCEPT !.at = place, !.cancel = FALSE]
  BY <1>1, <1>2
<1>5. mon'[m].at = place /\ mon'[m].cancel = FALSE
  BY <1>1, <1>4 DEF TaskStates
<1> QED
  BY <1>1, <1>2, <1>3, <1>5

(* A process that is signalled is told to stop, if it runs. *)
LEMMA SignalFacts ==
  ASSUME TypeOK, NEW m \in Machines, Signal(m)
  PROVE  /\ child' \in [Machines -> Alive \cup {"none", "dead"}]
         /\ child'[m] = IF child[m] \in Alive THEN "signalled" ELSE child[m]
         /\ \A n \in Machines : n # m => child'[n] = child[n]
BY DEF TypeOK, Signal, Alive

(* A spawn starts a process, or fails and starts none. *)
LEMMA SpawnFacts ==
  ASSUME TypeOK, NEW m \in Machines, NEW s \in Statuses, Spawn(m, s)
  PROVE  /\ mon' \in [Machines -> TaskStates]
         /\ child' \in [Machines -> Alive \cup {"none", "dead"}]
         /\ faults' \in 0..MaxFaults
         /\ \/ mon'[m].at = "spawning" /\ child'[m] = "alive"
            \/ mon'[m].at = "crashed" /\ child'[m] = child[m]
         /\ mon'[m].cancel = mon[m].cancel
         /\ Kept(m)
<1>1. /\ mon \in [Machines -> TaskStates]
      /\ child \in [Machines -> Alive \cup {"none", "dead"}]
      /\ faults \in 0..MaxFaults /\ MaxFaults \in Nat
  BY ConstantsAssumption DEF TypeOK
<1>2. CASE /\ mon' = [mon EXCEPT ![m].at = "spawning",
                                 ![m].bound = IF @ = "unbound" THEN @ ELSE "old"]
           /\ child' = [child EXCEPT ![m] = "alive"]
           /\ UNCHANGED faults
  <2> DEFINE x == [mon[m] EXCEPT !.at = "spawning",
                                 !.bound = IF @ = "unbound" THEN @ ELSE "old"]
  <2>1. mon' = [mon EXCEPT ![m] = x]
    BY <1>2
  <2>2. x \in TaskStates /\ x.at = "spawning" /\ x.cancel = mon[m].cancel
    BY <1>1 DEF TaskStates, Live
  <2> HIDE DEF x
  <2>3. /\ mon' \in [Machines -> TaskStates]
        /\ mon'[m].at = "spawning" /\ mon'[m].cancel = mon[m].cancel
        /\ \A n \in Machines : n # m => mon'[n] = mon[n]
    BY <1>1, <2>1, <2>2
  <2> QED
    BY <1>1, <1>2, <2>3 DEF Alive, Kept
<1>3. CASE /\ faults < MaxFaults
           /\ faults' = faults + 1
           /\ mon' = [mon EXCEPT ![m].at = "crashed"]
           /\ UNCHANGED child
  BY <1>1, <1>3 DEF TaskStates, Done, Kept
<1> QED
  BY <1>2, <1>3 DEF Spawn

----------------------------------------------------------------------------
(* A step of a machine's own task.  What it does to its machine, and what   *)
(* it says.                                                                 *)

Own == <<table, notices, updates, worker, tasks, orphans, main, loop, exits>>

Moved(m) ==
  /\ UNCHANGED Own
  /\ Open /\ loop = "idle"
  /\ mon' \in [Machines -> TaskStates]
  /\ child' \in [Machines -> Alive \cup {"none", "dead"}]
  /\ faults' \in 0..MaxFaults
  /\ Kept(m)

(* The place of the task, its cancellation and its process, before and      *)
(* after: the moves of monitor_machine.                                     *)
Moves(m) ==
  LET from == mon[m].at  cancel == mon[m].cancel
      to == mon'[m].at   c == child[m]   d == child'[m]
  IN /\ mon'[m].cancel = FALSE
     /\ \/ from = "created" /\ cancel /\ to = "cancelled" /\ d = c
        \/ from \in {"created", "sleeping"} /\ ~cancel /\ to = "spawning" /\ d = "alive"
        \/ from \in {"created", "sleeping"} /\ ~cancel /\ to = "crashed" /\ d = c
        \/ from = "spawning" /\ ~cancel /\ to = "running" /\ d = c
        \/ /\ from = "spawning" /\ cancel /\ to = "aborting"
           /\ d = IF c \in Alive THEN "signalled" ELSE c
        \/ from = "aborting" /\ (c = "dead" \/ cancel) /\ to \in {"crashed", "finished"} /\ d = c
        \/ from = "running" /\ ~cancel /\ c = "dead" /\ to = "sleeping" /\ d = c
        \/ /\ from = "running" /\ cancel /\ to = "terminating"
           /\ d = IF c \in Alive THEN "signalled" ELSE c
        \/ from = "running" /\ cancel /\ c = "dead" /\ to = "finished" /\ d = c
        \/ from = "terminating" /\ ~cancel /\ c = "dead" /\ to = "finished" /\ d = c
        \/ from = "terminating" /\ cancel /\ to = "cancelled" /\ d = c
        \/ from = "sleeping" /\ cancel /\ to = "finished" /\ d = c

(* It says nothing, or one thing, and if it ends well that it did.          *)
Speaks(m) ==
  \/ UNCHANGED records /\ mon'[m].at # "finished"
  \/ \E s \in Statuses : Put(m, s) /\ (mon'[m].at = "finished" => s = "SHUTDOWN")

(* Every step of a task is one of its moves, with one word at most. *)
LEMMA MonitorStep ==
  ASSUME TypeOK, NEW m \in Machines, Monitor(m)
  PROVE  Moved(m) /\ Moves(m) /\ Speaks(m)
<1>1. /\ mon \in [Machines -> TaskStates]
      /\ child \in [Machines -> Alive \cup {"none", "dead"}]
      /\ faults \in 0..MaxFaults
      /\ mon[m].cancel \in BOOLEAN
  BY DEF TypeOK, TaskStates
<1>2. /\ UNCHANGED Others => UNCHANGED Own
      /\ \A s \in {"STARTING", "RESTARTING", "STARTED", "FAILED", "STOPPED", "SHUTDOWN"} :
           s \in Statuses
  BY DEF Own, Others, Statuses
<1>3. ASSUME NEW place \in {"none"} \cup Live \cup Done, Goes(m, place),
             UNCHANGED Others, UNCHANGED <<child, faults>>, Open, loop = "idle"
      PROVE  /\ Moved(m) /\ child'[m] = child[m]
             /\ mon'[m].at = place /\ mon'[m].cancel = FALSE
  BY <1>1, <1>2, <1>3, GoesFacts DEF Moved, Kept
<1>4. ASSUME NEW place \in {"none"} \cup Live \cup Done, Goes(m, place), Signal(m),
             UNCHANGED Others, UNCHANGED faults, Open, loop = "idle"
      PROVE  /\ Moved(m)
             /\ child'[m] = IF child[m] \in Alive THEN "signalled" ELSE child[m]
             /\ mon'[m].at = place /\ mon'[m].cancel = FALSE
  BY <1>1, <1>2, <1>4, GoesFacts, SignalFacts DEF Moved, Kept
<1>5. ASSUME Shutdown(m), UNCHANGED Others, Open, loop = "idle"
      PROVE  /\ Moved(m) /\ Speaks(m)
             /\ mon'[m].cancel = FALSE /\ mon'[m].at = "finished" /\ child'[m] = child[m]
  <2>1. "finished" \in {"none"} \cup Live \cup Done
    BY DEF Done
  <2> QED
    BY <1>2, <1>3, <1>5, <2>1 DEF Shutdown, Speaks
<1>6. ASSUME UNCHANGED records, mon'[m].at # "finished"
      PROVE  Speaks(m)
  BY <1>6 DEF Speaks
<1>7. ASSUME NEW s \in Statuses, Put(m, s), mon'[m].at # "finished"
      PROVE  Speaks(m)
  BY <1>7 DEF Speaks
<1>8. CASE MStart(m)
  <2>1. CASE mon[m].cancel
    <3>1. "cancelled" \in {"none"} \cup Live \cup Done
      BY DEF Done
    <3>2. /\ Goes(m, "cancelled") /\ UNCHANGED Others /\ UNCHANGED <<child, faults>>
          /\ Open /\ loop = "idle" /\ mon[m].at = "created" /\ UNCHANGED records
      BY <1>8, <2>1 DEF MStart
    <3>3. /\ Moved(m) /\ child'[m] = child[m]
          /\ mon'[m].at = "cancelled" /\ mon'[m].cancel = FALSE
      BY <1>3, <3>1, <3>2
    <3> QED
      BY <1>6, <2>1, <3>2, <3>3 DEF Moves
  <2>2. CASE ~mon[m].cancel
    BY <1>1, <1>2, <1>8, <2>2, SpawnFacts DEF MStart, Moved, Moves, Speaks, Spawn
  <2> QED
    BY <1>1, <2>1, <2>2
<1>9. CASE MSpawned(m)
  <2>1. /\ mon' \in [Machines -> TaskStates]
        /\ mon'[m].at = "running" /\ mon'[m].cancel = mon[m].cancel
        /\ \A n \in Machines : n # m => mon'[n] = mon[n]
    BY <1>1, <1>9 DEF MSpawned, TaskStates, Live
  <2> QED
    BY <1>1, <1>2, <1>9, <2>1 DEF MSpawned, Stands, Turn, Moved, Moves, Speaks, Kept
<1>10. CASE MSpawnCancelled(m)
  <2>1. "aborting" \in {"none"} \cup Live \cup Done
    BY DEF Live
  <2>2. /\ Goes(m, "aborting") /\ Signal(m) /\ UNCHANGED Others /\ UNCHANGED faults
        /\ UNCHANGED records /\ Open /\ loop = "idle"
        /\ mon[m].at = "spawning" /\ mon[m].cancel
    BY <1>10 DEF MSpawnCancelled, Stands, Turn
  <2>3. /\ Moved(m) /\ mon'[m].at = "aborting" /\ mon'[m].cancel = FALSE
        /\ child'[m] = IF child[m] \in Alive THEN "signalled" ELSE child[m]
    BY <1>4, <2>1, <2>2
  <2> QED
    BY <1>6, <2>2, <2>3 DEF Moves
<1>11. CASE MAborted(m)
  <2>1. /\ UNCHANGED Others /\ Open /\ loop = "idle"
        /\ mon[m].at = "aborting" /\ (child[m] = "dead" \/ mon[m].cancel)
    BY <1>11 DEF MAborted, Turn
  <2>2. CASE mon[m].bound = "unbound"
    <3>1. "crashed" \in {"none"} \cup Live \cup Done
      BY DEF Done
    <3>2. Goes(m, "crashed") /\ UNCHANGED <<child, faults>> /\ UNCHANGED records
      BY <1>11, <2>2 DEF MAborted
    <3>3. /\ Moved(m) /\ child'[m] = child[m]
          /\ mon'[m].at = "crashed" /\ mon'[m].cancel = FALSE
      BY <1>3, <2>1, <3>1, <3>2
    <3> QED
      BY <1>6, <2>1, <3>2, <3>3 DEF Moves
  <2>3. CASE mon[m].bound # "unbound"
    BY <1>1, <1>5, <1>11, <2>1, <2>3 DEF MAborted, Moves
  <2> QED
    BY <2>2, <2>3
<1>12. CASE MExit(m)
  <2>1. "sleeping" \in {"none"} \cup Live \cup Done
    BY DEF Live
  <2>2. /\ Goes(m, "sleeping") /\ UNCHANGED Others /\ UNCHANGED <<child, faults>>
        /\ Open /\ loop = "idle" /\ mon[m].at = "running" /\ ~mon[m].cancel
        /\ child[m] = "dead" /\ \E s \in {"FAILED", "STOPPED"} : Put(m, s)
    BY <1>12 DEF MExit, Stands, Turn
  <2>3. /\ Moved(m) /\ child'[m] = child[m]
        /\ mon'[m].at = "sleeping" /\ mon'[m].cancel = FALSE
    BY <1>3, <2>1, <2>2
  <2>4. Moves(m)
    BY <2>2, <2>3 DEF Moves
  <2> QED
    BY <1>2, <1>7, <2>2, <2>3, <2>4
<1>13. CASE MWake(m)
  BY <1>1, <1>2, <1>13, SpawnFacts DEF MWake, Stands, Turn, Moved, Moves, Speaks, Spawn
<1>14. CASE MRunCancelled(m)
  <2>1. /\ UNCHANGED Others /\ Open /\ loop = "idle"
        /\ mon[m].at = "running" /\ mon[m].cancel
    BY <1>14 DEF MRunCancelled, Stands, Turn
  <2>2. CASE Goes(m, "terminating") /\ Signal(m) /\ UNCHANGED <<records, faults>>
    <3>1. "terminating" \in {"none"} \cup Live \cup Done
      BY DEF Live
    <3>2. UNCHANGED records /\ UNCHANGED faults
      BY <2>2
    <3>3. /\ Moved(m) /\ mon'[m].at = "terminating" /\ mon'[m].cancel = FALSE
          /\ child'[m] = IF child[m] \in Alive THEN "signalled" ELSE child[m]
      BY <1>4, <2>1, <2>2, <3>1, <3>2
    <3> QED
      BY <1>6, <2>1, <3>2, <3>3 DEF Moves
  <2>3. CASE child[m] = "dead" /\ Shutdown(m)
    BY <1>1, <1>5, <2>1, <2>3 DEF Moves
  <2> QED
    BY <1>14, <2>2, <2>3 DEF MRunCancelled
<1>15. CASE MTerminated(m)
  BY <1>1, <1>5, <1>15 DEF MTerminated, Stands, Turn, Moves
<1>16. CASE MTerminationCancelled(m)
  <2>1. "cancelled" \in {"none"} \cup Live \cup Done
    BY DEF Done
  <2>2. /\ Goes(m, "cancelled") /\ UNCHANGED Others /\ UNCHANGED <<child, faults>>
        /\ UNCHANGED records /\ Open /\ loop = "idle"
        /\ mon[m].at = "terminating" /\ mon[m].cancel
    BY <1>16 DEF MTerminationCancelled, Stands, Turn
  <2>3. /\ Moved(m) /\ child'[m] = child[m]
        /\ mon'[m].at = "cancelled" /\ mon'[m].cancel = FALSE
    BY <1>3, <2>1, <2>2
  <2> QED
    BY <1>6, <2>2, <2>3 DEF Moves
<1>17. CASE MSleepCancelled(m)
  BY <1>1, <1>5, <1>17 DEF MSleepCancelled, Stands, Turn, Moves
<1> QED
  BY <1>8, <1>9, <1>10, <1>11, <1>12, <1>13, <1>14, <1>15, <1>16, <1>17 DEF Monitor

(* A step of a machine's task keeps the invariant. *)
LEMMA MonitorInv ==
  ASSUME Inv, NEW m \in Machines, Monitor(m)
  PROVE  Inv'
<1>1. Moved(m) /\ Moves(m) /\ Speaks(m)
  BY MonitorStep DEF Inv
<1>2. /\ worker' = worker /\ tasks' = tasks /\ orphans' = orphans /\ main' = main
      /\ loop' = loop /\ loop = "idle" /\ main.at # "closed"
      /\ \A n \in Machines : n # m => mon'[n] = mon[n] /\ child'[n] = child[n]
  BY <1>1 DEF Moved, Own, Kept, Open
<1>3. TypeOK'
  <2>1. /\ statusq' \in Seq(Machines \X Statuses)
        /\ story' \in [Machines -> Statuses \cup {"none"}]
        /\ scribe' \in {"up", "crashed", "closed"}
    BY <1>1, PutFacts DEF Inv, TypeOK, Speaks, records
  <2> QED
    BY <1>1, <2>1 DEF Inv, TypeOK, Moved, Own, table, notices
<1>4. /\ mon[m].at \in Live
      /\ mon'[m].at \in {"none"} \cup Live \cup Done
  BY <1>1 DEF Moves, Live, Done
<1>5. WorkerInv'
  <2>1. mon[m].at \notin Done
    BY <1>4 DEF Live, Done
  <2>2. \A n \in Machines : mon[n].at \in Done => mon'[n].at = mon[n].at
    BY <1>2, <2>1
  <2>3. \A n \in Machines : mon[n].at = "finished" => mon'[n].at = "finished"
    BY <2>2 DEF Done
  <2> QED
    BY <1>2, <2>2, <2>3 DEF Inv, TypeOK, WorkerInv, Awaiting
<1>6. PlaceInv(m)'
  <2>1. PlaceInv(m) /\ child[m] \in Alive \cup {"none", "dead"}
    BY DEF Inv, TypeOK, MachineInv
  <2> QED
    BY <1>1, <2>1 DEF Moves, PlaceInv, Alive, Done
<1>7. OnceInv(m)'
  <2>1. PlaceInv(m) /\ OnceInv(m) /\ child[m] \in Alive \cup {"none", "dead"}
    BY DEF Inv, TypeOK, MachineInv
  <2>2. Awaited(m)' <=> Awaited(m)
    BY <1>2 DEF Awaited, Awaiting
  <2>3. /\ ~main.delegated /\ mon'[m].at \in Done => child'[m] \notin Alive
        /\ mon'[m].cancel = FALSE
        /\ mon'[m].at \in {"aborting", "terminating"} => mon[m].cancel
    BY <1>1, <2>1 DEF Moves, PlaceInv, OnceInv, Running, Alive, Done
  <2> QED
    BY <1>2, <2>1, <2>2, <2>3 DEF OnceInv, Running
<1>8. HeldInv(m)'
  BY <1>2, <1>4 DEF Inv, MachineInv, HeldInv, Awaited, Awaiting
<1>9. ASSUME NEW n \in Machines, n # m
      PROVE  PlaceInv(n)' /\ HeldInv(n)' /\ OnceInv(n)'
  <2>1. PlaceInv(n) /\ HeldInv(n) /\ OnceInv(n)
    BY DEF Inv, MachineInv
  <2> QED
    BY <1>2, <1>9, <2>1 DEF PlaceInv, HeldInv, OnceInv, Awaited, Awaiting, Running
<1>10. MachineInv'
  BY <1>6, <1>7, <1>8, <1>9 DEF MachineInv
<1>11. Story'
  <2>1. SaidInv(m)'
    <3>1. "SHUTDOWN" \in Statuses
      BY DEF Statuses
    <3>2. CASE mon'[m].at # "finished"
      BY <3>2 DEF SaidInv
    <3>3. CASE Put(m, "SHUTDOWN")
      BY <3>1, <3>3, PutEnds DEF SaidInv, Inv
    <3> QED
      BY <1>1, <3>2, <3>3 DEF Speaks
  <2>2. ASSUME NEW n \in Machines, n # m
        PROVE  SaidInv(n)'
    <3>1. SaidInv(n) /\ ~(Awaited(n) /\ loop = "worker")
      BY <1>2 DEF Inv, Story
    <3>2. Ended(n) => Ended(n)'
      <4>1. CASE UNCHANGED records
        BY <4>1, SaysSame DEF records
      <4>2. CASE \E s \in Statuses : Put(m, s)
        BY <2>2, <4>2, PutEnds DEF Inv
      <4> QED
        BY <1>1, <4>1, <4>2 DEF Speaks
    <3> QED
      BY <1>2, <2>2, <3>1, <3>2 DEF SaidInv
  <2> QED
    BY <2>1, <2>2 DEF Story
<1> QED
  BY <1>3, <1>5, <1>10, <1>11 DEF Inv

----------------------------------------------------------------------------
(* The updates worker. *)

(* The rows of the table, in whatever order, are notices. *)
LEMMA RowsAreNotices ==
  ASSUME TypeOK,
         NEW rows \in SetToSeqs({<<m, db[m]>> : m \in {n \in Machines : db[n] # NULL}})
  PROVE  rows \in Notices
<1> DEFINE S == {n \in Machines : db[n] # NULL}
           T == {<<m, db[m]>> : m \in S}
           f == [m \in S |-> <<m, db[m]>>]
<1>1. IsFiniteSet(S)
  BY ConstantsAssumption, FS_Subset
<1>2. f \in Surjection(S, T)
  BY DEF Surjection
<1>3. IsFiniteSet(T)
  BY <1>1, <1>2, FS_Surjection
<1>4. Cardinality(T) \in Nat
  BY <1>3, FS_CardinalityType
<1>5. T \subseteq Machines \X (Configs \cup {NULL})
  BY DEF TypeOK
<1>6. rows \in [1..Cardinality(T) -> T]
  BY DEF SetToSeqs
<1> HIDE DEF T
<1>7. rows \in Seq(T)
  BY <1>4, <1>6, SeqDef
<1> QED
  BY <1>5, <1>7 DEF Notices

(* What is recorded keeps its type. *)
LEMMA PutTyped ==
  ASSUME TypeOK, NEW m \in Machines, NEW s \in Statuses, Put(m, s)
  PROVE  /\ statusq' \in Seq(Machines \X Statuses)
         /\ story' \in [Machines -> Statuses \cup {"none"}]
         /\ scribe' \in {"up", "crashed", "closed"}
BY PutFacts DEF TypeOK

(* A created task has no process yet; only a running one is orphaned. *)
LEMMA CreateFacts ==
  ASSUME TypeOK, NEW m \in Machines, NEW c \in Configs \cup {NULL}, Create(m, c)
  PROVE  /\ mon' \in [Machines -> TaskStates]
         /\ child' \in [Machines -> Alive \cup {"none", "dead"}]
         /\ orphans' \in [Machines -> Nat]
         /\ tasks' = tasks \cup {m} /\ tasks' \subseteq Machines
         /\ mon'[m].at = "created" /\ ~mon'[m].cancel /\ child'[m] = "none"
         /\ child[m] \notin Alive => orphans'[m] = orphans[m]
         /\ Kept(m) /\ \A n \in Machines : n # m => orphans'[n] = orphans[n]
<1> DEFINE task == [NoTask EXCEPT !.at = "created", !.cfg = c]
<1>1. task \in TaskStates /\ task.at = "created" /\ ~task.cancel
  <2>1. NoTask \in [at : {"none"}, bound : {"unbound"}, cfg : {NULL}, cancel : {FALSE}]
    BY DEF NoTask
  <2> QED
    BY <2>1 DEF TaskStates, Live
<1>2. /\ mon' = [mon EXCEPT ![m] = task]
      /\ child' = [child EXCEPT ![m] = "none"]
      /\ orphans' = [orphans EXCEPT ![m] = @ + IF child[m] \in Alive THEN 1 ELSE 0]
      /\ tasks' = tasks \cup {m}
  BY DEF Create
<1> HIDE DEF task
<1>3. orphans' \in [Machines -> Nat]
  BY <1>2 DEF TypeOK
<1>4. child[m] \notin Alive => orphans'[m] = orphans[m]
  BY <1>2 DEF TypeOK
<1> QED
  BY <1>1, <1>2, <1>3, <1>4 DEF TypeOK, Kept

(* cancel() marks a task that is not done, and no other. *)
LEMMA CancelledFacts ==
  ASSUME TypeOK, NEW m \in Machines
  PROVE  /\ Cancelled(m) \in [Machines -> TaskStates]
         /\ Cancelled(m)[m].at = mon[m].at
         /\ Cancelled(m)[m].cancel = (mon[m].at \notin Done)
         /\ \A n \in Machines : n # m => Cancelled(m)[n] = mon[n]
<1> DEFINE x == [mon[m] EXCEPT !.cancel = mon[m].at \notin Done]
<1>1. mon \in [Machines -> TaskStates]
  BY DEF TypeOK
<1>2. Cancelled(m) = [mon EXCEPT ![m] = x]
  BY DEF Cancelled
<1>3. x \in TaskStates /\ x.at = mon[m].at /\ x.cancel = (mon[m].at \notin Done)
  BY <1>1 DEF TaskStates
<1> HIDE DEF x
<1> QED
  BY <1>1, <1>2, <1>3

(* The worker that takes an update is not awaiting anything. *)
LEMMA TakesFacts ==
  ASSUME TypeOK, NEW m \in Machines, NEW c \in Configs \cup {NULL}, Takes(m, c)
  PROVE  /\ updates' \in Notices
         /\ worker.at = "get" /\ ~worker.cancel /\ Open /\ ~Awaiting
BY DEF TypeOK, Notices, Takes, Turn, Awaiting

(* While the interrupt is not pending with the task it was delegated to, a  *)
(* worker that still goes on has not been interrupted.                      *)
LEMMA WorkerRuns ==
  ASSUME Inv, Open, ~worker.cancel, worker.at \notin {"done", "crashed", "cancelled"}
  PROVE  /\ ~main.delegated => main.at = "running"
         /\ main.at \in {"running", "gathering"}
BY DEF Inv, WorkerInv, Open

(* The worker cancels the task of a machine that has one. *)
LEMMA ReplaceInv ==
  ASSUME Inv, NEW m \in Machines, NEW c \in Configs \cup {NULL}, WReplace(m, c)
  PROVE  Inv'
<1> DEFINE said == IF c = NULL THEN "DESTROYING" ELSE "RELOADING"
<1>1. /\ Takes(m, c) /\ m \in tasks /\ Put(m, said) /\ tasks' = tasks \ {m}
      /\ mon' = Cancelled(m)
      /\ worker' = [at |-> "await", m |-> m, cfg |-> c, cancel |-> FALSE]
      /\ loop' = (IF mon[m].at \in Done THEN "worker" ELSE "idle")
  BY DEF WReplace, At
<1>2. /\ UNCHANGED <<db, missed, edits, listening, wire>>
      /\ UNCHANGED <<child, orphans, main, exits, faults>>
  BY DEF WReplace, table, notices
<1>3. said \in Statuses
  BY DEF Statuses
<1> HIDE DEF said
<1>4. /\ updates' \in Notices
      /\ worker.at = "get" /\ ~worker.cancel /\ Open /\ ~Awaiting
  BY <1>1, TakesFacts DEF Inv
<1>5. TypeOK'
  <2>1. worker' \in WorkerStates
    BY <1>1 DEF WorkerStates
  <2>2. mon' \in [Machines -> TaskStates]
    BY <1>1, CancelledFacts DEF Inv
  <2> QED
    BY <1>1, <1>2, <1>3, <1>4, <2>1, <2>2, PutTyped DEF Inv, TypeOK
<1>6. /\ ~main.delegated => main.at = "running"
      /\ main.at \in {"running", "gathering"}
  BY <1>4, WorkerRuns DEF Inv
<1>7. /\ mon'[m].at = mon[m].at /\ mon'[m].cancel = (mon[m].at \notin Done)
      /\ \A n \in Machines : n # m => mon'[n] = mon[n]
  BY <1>1, CancelledFacts DEF Inv
<1>8. WorkerInv'
  BY <1>1, <1>2, <1>6 DEF Inv, TypeOK, WorkerInv, Awaiting
<1>9. Awaited(m)' /\ \A n \in Machines : ~Awaited(n) /\ (n # m => ~Awaited(n)')
  BY <1>1, <1>4 DEF Awaited, Awaiting
<1>10. MachineInv'
  <2>1. PlaceInv(m)' /\ HeldInv(m)' /\ OnceInv(m)'
    BY <1>2, <1>6, <1>7, <1>9
       DEF Inv, MachineInv, PlaceInv, HeldInv, OnceInv, Running
  <2>2. ASSUME NEW n \in Machines, n # m
        PROVE  PlaceInv(n)' /\ HeldInv(n)' /\ OnceInv(n)'
    <3>1. PlaceInv(n) /\ HeldInv(n) /\ OnceInv(n)
      BY DEF Inv, MachineInv
    <3> QED
      BY <1>1, <1>2, <1>7, <1>9, <2>2, <3>1 DEF PlaceInv, HeldInv, OnceInv, Running
  <2> QED
    BY <2>1, <2>2 DEF MachineInv
<1>11. Story'
  <2>1. SaidInv(m)'
    BY <1>1, <1>7, <1>9 DEF SaidInv, Done
  <2>2. ASSUME NEW n \in Machines, n # m
        PROVE  SaidInv(n)'
    BY <1>1, <1>3, <1>7, <1>9, <2>2, PutEnds DEF Inv, Story, SaidInv
  <2> QED
    BY <2>1, <2>2 DEF Story
<1> QED
  BY <1>5, <1>8, <1>10, <1>11 DEF Inv

(* What starts a task in a machine that has none, and what became of the    *)
(* others.                                                                  *)
LEMMA CreateMachine ==
  ASSUME Inv, NEW m \in Machines, NEW c \in Configs \cup {NULL}, Create(m, c),
         mon[m].at \notin Live, m \notin tasks,
         \A n \in Machines : n # m => ~Awaited(n),
         \A n \in Machines : ~Awaited(n)',
         Open, ~main.delegated => main.at = "running", main.at = "running" => main'.at = "running",
         main'.delegated = main.delegated
  PROVE  MachineInv'
<1>1. /\ tasks' = tasks \cup {m}
      /\ mon'[m].at = "created" /\ ~mon'[m].cancel /\ child'[m] = "none"
      /\ child[m] \notin Alive => orphans'[m] = orphans[m]
      /\ \A n \in Machines : n # m => /\ mon'[n] = mon[n] /\ child'[n] = child[n]
                                      /\ orphans'[n] = orphans[n]
  BY CreateFacts DEF Inv, Kept
<1>2. /\ PlaceInv(m) /\ OnceInv(m)
      /\ mon[m].at \in {"none"} \cup Live \cup Done
  BY DEF Inv, MachineInv, TypeOK, TaskStates
<1>3. ~main.delegated => child[m] \notin Alive /\ orphans[m] = 0
  BY <1>2 DEF PlaceInv, OnceInv, Running, Alive
<1>4. PlaceInv(m)' /\ HeldInv(m)' /\ OnceInv(m)'
  BY <1>1, <1>3 DEF PlaceInv, HeldInv, OnceInv, Done
<1>5. ASSUME NEW n \in Machines, n # m
      PROVE  PlaceInv(n)' /\ HeldInv(n)' /\ OnceInv(n)'
  <2>1. PlaceInv(n) /\ HeldInv(n) /\ OnceInv(n) /\ ~Awaited(n) /\ ~Awaited(n)'
    BY <1>5 DEF Inv, MachineInv
  <2> QED
    BY <1>1, <1>5, <2>1 DEF PlaceInv, HeldInv, OnceInv, Running
<1> QED
  BY <1>4, <1>5 DEF MachineInv

(* The worker starts a task where there is none. *)
LEMMA CreateInv ==
  ASSUME Inv, NEW m \in Machines, NEW c \in Configs, WCreate(m, c)
  PROVE  Inv'
<1>1. /\ Takes(m, c) /\ m \notin tasks /\ Create(m, c)
      /\ loop' \in {"idle", "worker"}
  BY DEF WCreate, KeepsTurn
<1>2. /\ UNCHANGED <<db, missed, edits, listening, wire, worker>>
      /\ UNCHANGED <<statusq, story, scribe, main, exits, faults>>
  BY DEF WCreate, table, notices, records
<1>3. /\ updates' \in Notices
      /\ worker.at = "get" /\ ~worker.cancel /\ Open /\ ~Awaiting
  BY <1>1, TakesFacts DEF Inv
<1>4. TypeOK'
  BY <1>1, <1>2, <1>3, CreateFacts DEF Inv, TypeOK
<1>5. /\ ~main.delegated => main.at = "running"
      /\ main.at \in {"running", "gathering"}
  BY <1>3, WorkerRuns DEF Inv
<1>6. \A n \in Machines : ~Awaited(n) /\ ~Awaited(n)'
  BY <1>2, <1>3 DEF Awaited, Awaiting
<1>7. mon[m].at \notin Live
  BY <1>1, <1>6 DEF Inv, MachineInv, HeldInv
<1>8. MachineInv'
  BY <1>1, <1>2, <1>3, <1>5, <1>6, <1>7, CreateMachine
<1>9. WorkerInv'
  BY <1>2, <1>3, <1>5 DEF Inv, TypeOK, WorkerInv, Awaiting
<1>10. Story'
  <2>1. mon'[m].at = "created" /\ \A n \in Machines : n # m => mon'[n] = mon[n]
    BY <1>1, CreateFacts DEF Inv, Kept
  <2>2. ASSUME NEW n \in Machines
        PROVE  SaidInv(n)'
    BY <1>2, <1>6, <2>1, SaysSame DEF Inv, Story, SaidInv
  <2> QED
    BY <2>2 DEF Story
<1> QED
  BY <1>4, <1>8, <1>9, <1>10 DEF Inv

(* The awaited task has returned. *)
LEMMA ReplacedInv ==
  ASSUME Inv, NEW m \in Machines, WReplaced(m)
  PROVE  Inv'
<1>1. /\ Awaiting /\ ~worker.cancel /\ Open /\ worker.m = m /\ mon[m].at = "finished"
      /\ worker' = [at |-> "get", m |-> NULL, cfg |-> NULL, cancel |-> FALSE]
      /\ loop' \in {"idle", "worker"}
      /\ Replacement(m)
      /\ main' = [main EXCEPT !.gathers = @ \ {m}]
  BY DEF WReplaced, Resumes, Returned, Turn, At, KeepsTurn
<1>2. UNCHANGED <<db, missed, edits, listening, wire, updates, exits, faults>>
  BY DEF WReplaced, table, notices
<1>3. /\ ~main.delegated => main.at = "running"
      /\ main.at \in {"running", "gathering"}
  BY <1>1, WorkerRuns DEF Inv, Awaiting
<1>4. /\ main' \in RunStates /\ main'.at = main.at /\ main'.delegated = main.delegated
      /\ main.at \in {"running", "gathering", "joining", "closed", "failed"}
  BY <1>1 DEF Inv, TypeOK, RunStates
<1>5. /\ worker' \in WorkerStates /\ worker'.at = "get" /\ ~worker'.cancel
      /\ m \notin tasks /\ worker.cfg \in Configs \cup {NULL}
      /\ \A n \in Machines : (n # m => ~Awaited(n)) /\ ~Awaited(n)'
  BY <1>1 DEF Inv, TypeOK, WorkerInv, WorkerStates, Awaited, Awaiting
<1>6. CASE worker.cfg = NULL
  <2>1. Put(m, "DESTROYED") /\ UNCHANGED <<tasks, mon, child, orphans>>
    BY <1>1, <1>6 DEF Replacement, adapter
  <2>2. "DESTROYED" \in Statuses
    BY DEF Statuses
  <2>3. TypeOK'
    BY <1>1, <1>2, <1>4, <1>5, <2>1, <2>2, PutTyped DEF Inv, TypeOK
  <2>4. WorkerInv'
    BY <1>3, <1>4, <1>5, <2>1 DEF Inv, WorkerInv, Awaiting
  <2>5. MachineInv'
    <3>1. ASSUME NEW n \in Machines
          PROVE  PlaceInv(n)' /\ HeldInv(n)' /\ OnceInv(n)'
      <4>1. PlaceInv(n) /\ HeldInv(n) /\ OnceInv(n)
        BY DEF Inv, MachineInv
      <4>2. CASE n = m
        BY <1>1, <1>4, <1>5, <2>1, <4>1, <4>2
           DEF PlaceInv, HeldInv, OnceInv, Running, Live, Done
      <4>3. CASE n # m
        BY <1>4, <1>5, <2>1, <4>1, <4>3 DEF PlaceInv, HeldInv, OnceInv, Running
      <4> QED
        BY <4>2, <4>3
    <3> QED
      BY <3>1 DEF MachineInv
  <2>6. Story'
    BY <1>5, <2>1, <2>2, PutEnds DEF Inv, Story, SaidInv
  <2> QED
    BY <2>3, <2>4, <2>5, <2>6 DEF Inv
<1>7. CASE worker.cfg # NULL
  <2>1. Create(m, worker.cfg) /\ UNCHANGED <<statusq, story, scribe>>
    BY <1>1, <1>7 DEF Replacement, records
  <2>2. TypeOK'
    BY <1>1, <1>2, <1>4, <1>5, <2>1, CreateFacts DEF Inv, TypeOK
  <2>3. mon[m].at \notin Live
    BY <1>1 DEF Live
  <2>4. MachineInv'
    BY <1>1, <1>3, <1>4, <1>5, <2>1, <2>3, CreateMachine
  <2>5. WorkerInv'
    BY <1>3, <1>4, <1>5, <2>1 DEF Inv, WorkerInv, Awaiting
  <2>6. Story'
    <3>1. mon'[m].at = "created" /\ \A n \in Machines : n # m => mon'[n] = mon[n]
      BY <1>5, <2>1, CreateFacts DEF Inv, Kept
    <3>2. ASSUME NEW n \in Machines
          PROVE  SaidInv(n)'
      BY <1>5, <2>1, <3>1, SaysSame DEF Inv, Story, SaidInv
    <3> QED
      BY <3>2 DEF Story
  <2> QED
    BY <2>2, <2>4, <2>5, <2>6 DEF Inv
<1> QED
  BY <1>6, <1>7

(* Steps that leave the tasks, their processes and what is said alone; the  *)
(* worker may leave the machine it awaited, when that one's task has ended. *)
LEMMA TasksKept ==
  ASSUME Inv, UNCHANGED <<tasks, mon, child, orphans, statusq, story>>,
         main'.delegated = main.delegated, main'.at = "running" => main.at = "running",
         \A n \in Machines : Awaited(n)' => Awaited(n),
         \A n \in Machines :
           Awaited(n) /\ ~Awaited(n)' => mon[n].at \in Done /\ loop = "idle",
         loop' = loop \/ \A n \in Machines : ~Awaited(n)
  PROVE  MachineInv' /\ Story'
<1>1. ASSUME NEW n \in Machines
      PROVE  PlaceInv(n)' /\ HeldInv(n)' /\ OnceInv(n)' /\ SaidInv(n)'
  <2>1. /\ PlaceInv(n) /\ HeldInv(n) /\ OnceInv(n) /\ SaidInv(n)
        /\ Ended(n) => Ended(n)'
    BY SaysSame DEF Inv, MachineInv, Story
  <2>2. PlaceInv(n)'
    BY <2>1 DEF PlaceInv
  <2>3. HeldInv(n)'
    BY <2>1 DEF HeldInv, Live, Done
  <2>4. OnceInv(n)'
    <3>1. mon[n].at \in Done => ~mon[n].cancel /\ mon[n].at \notin {"aborting", "terminating"}
      BY <2>1 DEF PlaceInv, Done
    <3> QED
      BY <2>1, <3>1 DEF OnceInv, Running
  <2>5. SaidInv(n)'
    BY <2>1 DEF SaidInv
  <2> QED
    BY <2>2, <2>3, <2>4, <2>5
<1> QED
  BY <1>1 DEF MachineInv, Story

(* Steps that touch none of this keep the invariant. *)
LEMMA AllKept ==
  ASSUME Inv, TypeOK',
         UNCHANGED <<worker, tasks, mon, child, orphans, statusq, story, main, loop>>
  PROVE  Inv'
<1>1. \A n \in Machines : Awaited(n)' <=> Awaited(n)
  BY DEF Awaited, Awaiting
<1>2. MachineInv' /\ Story'
  BY <1>1, TasksKept
<1>3. WorkerInv'
  BY DEF Inv, WorkerInv, Awaiting
<1> QED
  BY <1>2, <1>3 DEF Inv

(* The worker starts. *)
LEMMA FetchInv ==
  ASSUME Inv, WFetch \/ WListen
  PROVE  Inv'
<1>1. /\ worker.at \in {"fetch", "listen"} /\ ~worker.cancel /\ Open
      /\ \E place \in {"listen", "get"} :
           worker' = [at |-> place, m |-> NULL, cfg |-> NULL, cancel |-> FALSE]
  BY DEF WFetch, WListen, Turn, At
<1>2. /\ UNCHANGED <<db, missed, edits, wire, tasks, mon, child, orphans>>
      /\ UNCHANGED <<statusq, story, scribe, main, exits, faults>>
      /\ listening' \in BOOLEAN /\ loop' \in {"idle", "worker"}
  BY DEF WFetch, WListen, KeepsTurn, table, notices, adapter, records, Inv, TypeOK
<1>3. updates' \in Notices
  <2>1. CASE WFetch
    <3>1. PICK rows \in SetToSeqs({<<m, db[m]>> : m \in {n \in Machines : db[n] # NULL}}) :
            updates' = updates \o rows
      BY <2>1 DEF WFetch
    <3> QED
      BY <3>1, RowsAreNotices, ConcatProperties DEF Inv, TypeOK, Notices
  <2>2. CASE WListen
    BY <2>2 DEF WListen, Inv, TypeOK
  <2> QED
    BY <2>1, <2>2
<1>4. TypeOK'
  <2>1. worker' \in WorkerStates
    BY <1>1 DEF WorkerStates
  <2> QED
    BY <1>2, <1>3, <2>1 DEF Inv, TypeOK
<1>5. /\ ~main.delegated => main.at = "running"
      /\ main.at \in {"running", "gathering"}
  BY <1>1, WorkerRuns
<1>6. \A n \in Machines : ~Awaited(n) /\ ~Awaited(n)'
  BY <1>1 DEF Awaited, Awaiting
<1>7. WorkerInv'
  BY <1>1, <1>2, <1>5 DEF Inv, WorkerInv, Awaiting
<1> QED
  BY <1>2, <1>4, <1>6, <1>7, TasksKept DEF Inv

(* An update that asks for nothing. *)
LEMMA IgnoreInv ==
  ASSUME Inv, NEW m \in Machines, WIgnore(m)
  PROVE  Inv'
<1>1. /\ Takes(m, NULL) /\ loop' \in {"idle", "worker"}
      /\ UNCHANGED <<db, missed, edits, listening, wire, worker, tasks, mon, child, orphans>>
      /\ UNCHANGED <<statusq, story, scribe, main, exits, faults>>
  BY DEF WIgnore, KeepsTurn, table, notices, adapter, records
<1>2. updates' \in Notices /\ ~Awaiting
  BY <1>1, TakesFacts DEF Inv
<1>3. TypeOK'
  BY <1>1, <1>2 DEF Inv, TypeOK
<1>4. \A n \in Machines : ~Awaited(n) /\ ~Awaited(n)'
  BY <1>1, <1>2 DEF Awaited, Awaiting
<1>5. WorkerInv'
  BY <1>1 DEF Inv, WorkerInv, Awaiting
<1> QED
  BY <1>1, <1>3, <1>4, <1>5, TasksKept DEF Inv

(* The awaited task was cancelled or failed, and the worker ends. *)
LEMMA RaisedInv ==
  ASSUME Inv, NEW m \in Machines, WRaised(m)
  PROVE  Inv'
<1>1. /\ Awaiting /\ ~worker.cancel /\ Open /\ worker.m = m
      /\ mon[m].at \in {"cancelled", "crashed"}
      /\ \E place \in {"done", "crashed"} :
           worker' = [at |-> place, m |-> NULL, cfg |-> NULL, cancel |-> FALSE]
      /\ listening' = FALSE /\ loop' = "idle"
  BY DEF WRaised, Resumes, Turn, At
<1>2. /\ UNCHANGED <<db, missed, edits, wire, updates, tasks, mon, child, orphans>>
      /\ UNCHANGED <<statusq, story, scribe, main, exits, faults>>
  BY DEF WRaised, table, adapter, records
<1>3. TypeOK'
  <2>1. worker' \in WorkerStates
    BY <1>1 DEF WorkerStates
  <2> QED
    BY <1>1, <1>2, <2>1 DEF Inv, TypeOK
<1>4. /\ ~main.delegated => main.at = "running"
      /\ main.at \in {"running", "gathering"}
  BY <1>1, WorkerRuns DEF Awaiting
<1>5. WorkerInv'
  BY <1>1, <1>2, <1>4 DEF Inv, WorkerInv, Awaiting
<1>6. \A n \in Machines : ~Awaited(n)' /\ (Awaited(n) => n = m)
  BY <1>1 DEF Awaited, Awaiting
<1>7. ASSUME NEW n \in Machines
      PROVE  PlaceInv(n)' /\ HeldInv(n)' /\ OnceInv(n)' /\ SaidInv(n)'
  <2>1. /\ PlaceInv(n) /\ HeldInv(n) /\ OnceInv(n) /\ SaidInv(n)
        /\ Ended(n) => Ended(n)'
    BY <1>2, SaysSame DEF Inv, MachineInv, Story
  <2>2. mon[n].at \in Done => ~mon[n].cancel /\ mon[n].at \notin {"aborting", "terminating"}
    BY <2>1 DEF PlaceInv, Done
  <2> QED
    BY <1>1, <1>2, <1>6, <2>1, <2>2
       DEF PlaceInv, HeldInv, OnceInv, SaidInv, Running, Live, Done
<1> QED
  BY <1>3, <1>5, <1>7 DEF Inv, MachineInv, Story

(* The worker was cancelled, and ends. *)
LEMMA CancelledInv ==
  ASSUME Inv, WCancelled
  PROVE  Inv'
<1>1. /\ worker.cancel /\ Open /\ loop = "idle" /\ loop' = loop
      /\ \E place \in {"cancelled", "done"} :
           /\ worker' = [at |-> place, m |-> NULL, cfg |-> NULL, cancel |-> FALSE]
           /\ place = "cancelled" => worker.at = "fetch"
      /\ listening' = FALSE
  BY DEF WCancelled, Turn, At
<1>2. /\ UNCHANGED <<db, missed, edits, wire, updates, tasks, mon, child, orphans>>
      /\ UNCHANGED <<statusq, story, scribe, main, exits, faults>>
  BY DEF WCancelled, table, adapter, records
<1>3. TypeOK'
  <2>1. worker' \in WorkerStates
    BY <1>1 DEF WorkerStates
  <2> QED
    BY <1>1, <1>2, <2>1 DEF Inv, TypeOK
<1>4. WorkerInv'
  BY <1>1, <1>2 DEF Inv, WorkerInv, Awaiting
<1>5. \A n \in Machines : ~Awaited(n)' /\ (Awaited(n) => mon[n].at \in Done)
  BY <1>1 DEF Awaited, Awaiting, Inv, WorkerInv
<1> QED
  BY <1>1, <1>2, <1>3, <1>4, <1>5, TasksKept DEF Inv

(* Every step of the worker keeps the invariant. *)
LEMMA WorkerStep ==
  ASSUME Inv, Worker
  PROVE  Inv'
<1>1. CASE WFetch \/ WListen
  BY <1>1, FetchInv
<1>2. CASE WCancelled
  BY <1>2, CancelledInv
<1>3. CASE \E m \in Machines : Updates(m)
  <2>1. PICK m \in Machines : Updates(m)
    BY <1>3
  <2>2. CASE \E c \in Configs \cup {NULL} : WReplace(m, c)
    BY <2>2, ReplaceInv
  <2>3. CASE \E c \in Configs : WCreate(m, c)
    BY <2>3, CreateInv
  <2>4. CASE WIgnore(m)
    BY <2>4, IgnoreInv
  <2>5. CASE WReplaced(m)
    BY <2>5, ReplacedInv
  <2>6. CASE WRaised(m)
    BY <2>6, RaisedInv
  <2> QED
    BY <2>1, <2>2, <2>3, <2>4, <2>5, <2>6 DEF Updates
<1> QED
  BY <1>1, <1>2, <1>3 DEF Worker

----------------------------------------------------------------------------
(* The table, the processes, the status worker and run(). *)

(* The table is edited, and the worker notified. *)
LEMMA TableInv ==
  ASSUME Inv, Notify \/ Edit
  PROVE  Inv'
<1>1. /\ UNCHANGED <<listening, worker, tasks, mon, child, orphans, main, loop>>
      /\ UNCHANGED <<statusq, story, scribe, exits, faults>>
  BY DEF Notify, Edit, EditRow, RenameRow, adapter, records
<1>2. CASE Notify
  <2>1. /\ UNCHANGED <<db, missed, edits>> /\ wire # <<>>
        /\ updates' = Append(updates, Head(wire)) /\ wire' = Tail(wire)
    BY <1>2 DEF Notify, table
  <2>2. wire' \in Notices /\ updates' \in Notices
    BY <2>1 DEF Inv, TypeOK, Notices
  <2>3. TypeOK'
    BY <1>1, <2>1, <2>2 DEF Inv, TypeOK
  <2> QED
    BY <1>1, <2>3, AllKept
<1>3. CASE Edit
  <2>1. /\ edits < MaxEdits /\ edits' = edits + 1 /\ updates' = updates
        /\ missed' \subseteq Machines
        /\ \E n \in Machines, c \in Configs \cup {NULL} :
             wire' = Append(wire, <<n, c>>) \/ wire' = wire
    BY <1>3 DEF Edit, EditRow, RenameRow, Inv, TypeOK
  <2>2. db' \in [Machines -> Configs \cup {NULL}]
    <3>1. CASE \E m \in Machines, c \in Configs \cup {NULL} : EditRow(m, c)
      BY <3>1 DEF EditRow, Inv, TypeOK
    <3>2. CASE \E m, n \in Machines : RenameRow(m, n)
      BY <3>2 DEF RenameRow, Inv, TypeOK
    <3> QED
      BY <1>3, <3>1, <3>2 DEF Edit
  <2>3. wire' \in Notices
    <3>1. PICK n \in Machines, c \in Configs \cup {NULL} :
            wire' = Append(wire, <<n, c>>) \/ wire' = wire
      BY <2>1
    <3>2. wire \in Notices /\ <<n, c>> \in Machines \X (Configs \cup {NULL})
      BY DEF Inv, TypeOK
    <3>3. Append(wire, <<n, c>>) \in Notices
      BY <3>2, AppendProperties DEF Notices
    <3> QED
      BY <3>1, <3>2, <3>3
  <2>4. edits' \in 0..MaxEdits
    BY <2>1, ConstantsAssumption DEF Inv, TypeOK
  <2>5. TypeOK'
    BY <1>1, <2>1, <2>2, <2>3, <2>4 DEF Inv, TypeOK
  <2> QED
    BY <1>1, <2>5, AllKept
<1> QED
  BY <1>2, <1>3

(* A process exits. *)
LEMMA ChildInv ==
  ASSUME Inv, NEW m \in Machines, ChildExits(m)
  PROVE  Inv'
<1>1. /\ UNCHANGED <<db, missed, edits, listening, wire, updates, worker, tasks, mon, orphans>>
      /\ UNCHANGED <<statusq, story, scribe, main, loop, faults>>
      /\ child[m] \in Alive /\ child' = [child EXCEPT ![m] = "dead"]
      /\ exits' = exits \/ (exits < MaxExits /\ exits' = exits + 1)
  BY DEF ChildExits, table, notices, records, Alive
<1>2. exits' \in 0..MaxExits
  BY <1>1, ConstantsAssumption DEF Inv, TypeOK
<1>3. /\ child' \in [Machines -> Alive \cup {"none", "dead"}]
      /\ child'[m] = "dead" /\ \A n \in Machines : n # m => child'[n] = child[n]
  BY <1>1 DEF Inv, TypeOK
<1>4. TypeOK'
  BY <1>1, <1>2, <1>3 DEF Inv, TypeOK
<1>5. \A n \in Machines : Awaited(n)' <=> Awaited(n)
  BY <1>1 DEF Awaited, Awaiting
<1>6. ASSUME NEW n \in Machines
      PROVE  PlaceInv(n)' /\ HeldInv(n)' /\ OnceInv(n)' /\ SaidInv(n)'
  <2>1. /\ PlaceInv(n) /\ HeldInv(n) /\ OnceInv(n) /\ SaidInv(n)
        /\ Ended(n) => Ended(n)'
    BY <1>1, SaysSame DEF Inv, MachineInv, Story
  <2>2. HeldInv(n)' /\ SaidInv(n)'
    BY <1>1, <1>5, <2>1 DEF HeldInv, SaidInv
  <2>3. PlaceInv(n)' /\ OnceInv(n)'
    BY <1>1, <1>3, <1>5, <2>1 DEF PlaceInv, OnceInv, Running, Alive
  <2> QED
    BY <2>2, <2>3
<1>7. WorkerInv'
  BY <1>1 DEF Inv, WorkerInv, Awaiting
<1> QED
  BY <1>4, <1>6, <1>7 DEF Inv, MachineInv, Story

(* The status worker writes, or fails. *)
LEMMA ScribeInv ==
  ASSUME Inv, SWrite \/ SFails
  PROVE  Inv'
<1>1. /\ UNCHANGED <<db, missed, edits, listening, wire, updates, worker, tasks>>
      /\ UNCHANGED <<mon, child, orphans, main, loop, exits>>
      /\ main.at # "closed" /\ statusq # <<>>
  BY DEF SWrite, SFails, Turn, Open, table, notices, adapter
<1>2. CASE SWrite
  <2>1. /\ story' = [story EXCEPT ![Head(statusq)[1]] = Head(statusq)[2]]
        /\ statusq' = Tail(statusq) /\ UNCHANGED <<scribe, faults>>
    BY <1>2 DEF SWrite
  <2>2. Head(statusq) \in Machines \X Statuses /\ statusq' \in Seq(Machines \X Statuses)
    BY <1>1, <2>1 DEF Inv, TypeOK
  <2>3. story' \in [Machines -> Statuses \cup {"none"}]
    BY <2>1, <2>2 DEF Inv, TypeOK
  <2>4. TypeOK'
    BY <1>1, <2>1, <2>2, <2>3 DEF Inv, TypeOK
  <2>5. \A n \in Machines : Awaited(n)' <=> Awaited(n)
    BY <1>1 DEF Awaited, Awaiting
  <2>6. ASSUME NEW n \in Machines
        PROVE  PlaceInv(n)' /\ HeldInv(n)' /\ OnceInv(n)' /\ SaidInv(n)'
    <3>1. /\ PlaceInv(n) /\ HeldInv(n) /\ OnceInv(n) /\ SaidInv(n)
          /\ Ended(n) => Ended(n)'
      BY <1>2, WriteSays DEF Inv, MachineInv, Story
    <3> QED
      BY <1>1, <2>5, <3>1 DEF PlaceInv, HeldInv, OnceInv, SaidInv, Running
  <2>7. WorkerInv'
    BY <1>1 DEF Inv, WorkerInv, Awaiting
  <2> QED
    BY <2>4, <2>6, <2>7 DEF Inv, MachineInv, Story
<1>3. CASE SFails
  <2>1. /\ faults < MaxFaults /\ faults' = faults + 1
        /\ scribe' = "crashed" /\ UNCHANGED <<statusq, story>>
    BY <1>3 DEF SFails
  <2>2. faults' \in 0..MaxFaults
    BY <2>1, ConstantsAssumption DEF Inv, TypeOK
  <2>3. TypeOK'
    BY <1>1, <2>1, <2>2 DEF Inv, TypeOK
  <2> QED
    BY <1>1, <2>1, <2>3, AllKept
<1> QED
  BY <1>2, <1>3

(* run() goes on, or fails. *)
LEMMA RunInv ==
  ASSUME Inv, Run
  PROVE  Inv'
<1>1. /\ UNCHANGED <<db, missed, edits, listening, wire, updates, worker, tasks>>
      /\ UNCHANGED <<mon, child, orphans, statusq, story, loop, exits, faults>>
  BY DEF Run, RunFails, MainGathered, MainJoined, table, notices, adapter, records
<1>2. /\ main' \in RunStates /\ main'.delegated = main.delegated
      /\ main'.at \in {"failed", "joining", "closed"}
      /\ scribe' \in {"up", "crashed", "closed"}
  BY DEF Run, RunFails, MainGathered, MainJoined, records, Inv, TypeOK, RunStates
<1>3. TypeOK'
  BY <1>1, <1>2 DEF Inv, TypeOK
<1>4. \A n \in Machines : Awaited(n)' <=> Awaited(n)
  BY <1>1 DEF Awaited, Awaiting
<1>5. MachineInv' /\ Story'
  BY <1>1, <1>2, <1>4, TasksKept
<1>6. WorkerInv'
  <2>1. CASE RunFails
    <3>1. main'.at = "failed"
      BY <2>1 DEF RunFails, Inv, TypeOK, RunStates
    <3> QED
      BY <1>1, <3>1 DEF Inv, WorkerInv, Awaiting
  <2>2. CASE MainGathered
    <3>1. /\ main'.at = "joining" /\ main.at = "gathering" /\ worker.at = "done"
          /\ \A m \in main.gathers : mon[m].at = "finished"
      BY <2>2 DEF MainGathered, Inv, TypeOK, RunStates
    <3> QED
      BY <1>1, <1>2, <3>1 DEF Inv, WorkerInv, Awaiting
  <2>3. CASE MainJoined
    <3>1. main'.at = "closed" /\ main.at = "joining" /\ statusq = <<>>
      BY <2>3 DEF MainJoined, Inv, TypeOK, RunStates
    <3> QED
      BY <1>1, <1>2, <3>1 DEF Inv, WorkerInv, Awaiting
  <2> QED
    BY <2>1, <2>2, <2>3 DEF Run
<1> QED
  BY <1>3, <1>5, <1>6 DEF Inv

(* The interrupt: unless it hits the task that the worker awaits, it        *)
(* cancels no task twice.                                                   *)
LEMMA InterruptInv ==
  ASSUME Inv, Interrupt
  PROVE  Inv'
<1> DEFINE delegated == Awaiting /\ mon[worker.m].at \notin Done
           hit == tasks \cup IF delegated THEN {worker.m} ELSE {}
<1>1. /\ main.at = "running" /\ loop = "idle"
      /\ main' = [at |-> "gathering", gathers |-> tasks, delegated |-> delegated]
      /\ worker' = [worker EXCEPT !.cancel = ~delegated /\ worker.at \notin {"done", "crashed"}]
      /\ mon' = [m \in Machines |-> IF m \in hit THEN Cancelled(m)[m] ELSE mon[m]]
  BY DEF Interrupt, Turn
<1>2. /\ UNCHANGED <<db, missed, edits, listening, wire, updates, tasks, child, orphans>>
      /\ UNCHANGED <<statusq, story, scribe, loop, exits, faults>>
  BY DEF Interrupt, table, notices, records
<1>3. /\ delegated \in BOOLEAN
      /\ ~delegated => (Awaiting => mon[worker.m].at \in Done)
  OBVIOUS
<1> HIDE DEF delegated, hit
<1>4. /\ worker' \in WorkerStates /\ worker'.at = worker.at /\ worker'.m = worker.m
      /\ worker'.cancel = (~delegated /\ worker.at \notin {"done", "crashed"})
  BY <1>1, <1>3 DEF Inv, TypeOK, WorkerStates
<1>5. /\ main' \in RunStates /\ main'.at = "gathering" /\ main'.gathers = tasks
      /\ main'.delegated = delegated
  BY <1>1, <1>3 DEF Inv, TypeOK, RunStates
<1>6. /\ mon' \in [Machines -> TaskStates]
      /\ \A m \in Machines :
           /\ mon'[m].at = mon[m].at
           /\ mon'[m].cancel = mon[m].cancel \/ mon'[m].cancel = (mon[m].at \notin Done)
  <2>1. /\ mon \in [Machines -> TaskStates]
        /\ \A m \in Machines : /\ Cancelled(m)[m] \in TaskStates
                               /\ Cancelled(m)[m].at = mon[m].at
                               /\ Cancelled(m)[m].cancel = (mon[m].at \notin Done)
    BY CancelledFacts DEF Inv, TypeOK
  <2> QED
    BY <1>1, <2>1
<1>7. TypeOK'
  BY <1>2, <1>4, <1>5, <1>6 DEF Inv, TypeOK
<1>8. \A m \in Machines : Awaited(m)' <=> Awaited(m)
  BY <1>4 DEF Awaited, Awaiting
<1>9. WorkerInv'
  <2>1. Awaiting' => Awaiting /\ worker.m \in Machines \ tasks
    BY <1>4 DEF Awaiting, Inv, WorkerInv
  <2>2. worker'.cancel /\ Awaiting' => mon'[worker'.m].at \in Done
    BY <1>3, <1>4, <1>6, <2>1
  <2> QED
    BY <1>2, <1>4, <1>5, <2>1, <2>2 DEF WorkerInv, Awaiting
<1>10. ASSUME NEW m \in Machines
       PROVE  PlaceInv(m)' /\ HeldInv(m)' /\ OnceInv(m)' /\ SaidInv(m)'
  <2>1. /\ PlaceInv(m) /\ HeldInv(m) /\ OnceInv(m) /\ SaidInv(m)
        /\ Ended(m) => Ended(m)'
    BY <1>2, SaysSame DEF Inv, MachineInv, Story
  <2>2. PlaceInv(m)'
    BY <1>2, <1>6, <2>1 DEF PlaceInv
  <2>3. HeldInv(m)' /\ SaidInv(m)'
    BY <1>2, <1>6, <1>8, <2>1 DEF HeldInv, SaidInv
  <2>4. OnceInv(m)'
    <3>1. ~main.delegated
      BY <1>1 DEF Inv, WorkerInv
    <3>2. ASSUME ~delegated, mon[m].at \in {"aborting", "terminating"}
          PROVE  FALSE
      <4>1. Awaited(m)
        BY <1>1, <2>1, <3>1, <3>2 DEF OnceInv
      <4> QED
        BY <1>3, <3>2, <4>1 DEF Awaited, Done
    <3> QED
      BY <1>2, <1>5, <1>6, <2>1, <3>1, <3>2 DEF OnceInv, Running
  <2> QED
    BY <2>2, <2>3, <2>4
<1> QED
  BY <1>7, <1>9, <1>10 DEF Inv, MachineInv, Story

----------------------------------------------------------------------------
(* The invariant holds at the start and every step keeps it. *)

(* Nothing runs at the start. *)
LEMMA InitInv == Init => Inv
<1> SUFFICES ASSUME Init PROVE Inv
  OBVIOUS
<1>1. /\ worker = [at |-> "fetch", m |-> NULL, cfg |-> NULL, cancel |-> FALSE]
      /\ main = [at |-> "running", gathers |-> {}, delegated |-> FALSE]
  BY DEF Init, At
<1>2. \A m \in Machines :
        /\ mon[m] = [at |-> "none", bound |-> "unbound", cfg |-> NULL, cancel |-> FALSE]
        /\ child[m] = "none" /\ orphans[m] = 0
  BY DEF Init, NoTask
<1>3. TypeOK
  <2>1. worker \in WorkerStates /\ main \in RunStates
    BY <1>1 DEF WorkerStates, RunStates
  <2>2. NoTask \in TaskStates
    BY DEF NoTask, TaskStates
  <2>3. wire \in Notices /\ updates \in Notices
    BY DEF Init, Notices
  <2>4. edits \in 0..MaxEdits /\ exits \in 0..MaxExits /\ faults \in 0..MaxFaults
    BY ConstantsAssumption DEF Init
  <2>5. /\ mon \in [Machines -> TaskStates] /\ orphans \in [Machines -> Nat]
        /\ child \in [Machines -> Alive \cup {"none", "dead"}]
        /\ story \in [Machines -> Statuses \cup {"none"}]
    BY <2>2 DEF Init
  <2>6. /\ db \in [Machines -> Configs \cup {NULL}]
        /\ missed \subseteq Machines /\ tasks \subseteq Machines
        /\ statusq \in Seq(Machines \X Statuses)
    BY DEF Init
  <2>7. /\ listening \in BOOLEAN
        /\ scribe \in {"up", "crashed", "closed"} /\ loop \in {"idle", "worker"}
    BY DEF Init
  <2> QED
    BY <2>1, <2>3, <2>4, <2>5, <2>6, <2>7 DEF TypeOK
<1>4. WorkerInv
  BY <1>1 DEF WorkerInv, Awaiting
<1>5. MachineInv
  BY <1>2 DEF MachineInv, PlaceInv, HeldInv, OnceInv, Running, Live, Done, Alive
<1>6. Story
  BY <1>2 DEF Story, SaidInv
<1> QED
  BY <1>3, <1>4, <1>5, <1>6 DEF Inv

(* Every step keeps the invariant. *)
LEMMA NextInv == Inv /\ [Next]_vars => Inv'
<1> SUFFICES ASSUME Inv, [Next]_vars PROVE Inv'
  OBVIOUS
<1>1. CASE UNCHANGED vars
  <2>1. /\ UNCHANGED <<db, missed, edits, listening, wire, updates, worker, tasks>>
        /\ UNCHANGED <<mon, child, orphans, statusq, story, scribe, main, loop, exits, faults>>
    BY <1>1 DEF vars, table, notices, adapter, records
  <2>2. TypeOK'
    BY <2>1 DEF Inv, TypeOK
  <2> QED
    BY <2>1, <2>2, AllKept
<1>2. CASE Notify \/ Edit
  BY <1>2, TableInv
<1>3. CASE Worker
  BY <1>3, WorkerStep
<1>4. CASE Run
  BY <1>4, RunInv
<1>5. CASE Interrupt
  BY <1>5, InterruptInv
<1>6. CASE SWrite \/ SFails
  BY <1>6, ScribeInv
<1>7. CASE \E m \in Machines : Monitor(m) \/ ChildExits(m)
  BY <1>7, MonitorInv, ChildInv
<1> QED
  BY <1>1, <1>2, <1>3, <1>4, <1>5, <1>6, <1>7 DEF Next

(* The inductive invariant holds throughout: every process that runs is     *)
(* known, and every task that ends has seen its process end unless it was   *)
(* cancelled twice.                                                         *)
THEOREM Invariance == Spec => []Inv
BY InitInv, NextInv, PTL DEF Spec

(* Every variable keeps its type. *)
THEOREM TypeCorrect == Spec => []TypeOK
<1>1. Inv => TypeOK
  BY DEF Inv
<1> QED
  BY <1>1, Invariance, PTL

(* Until the daemon is interrupted no machine is polled by two adapters:    *)
(* no task is cancelled twice, so none ends before its process has, and the *)
(* worker creates the next only when the last has ended.                    *)
THEOREM OneAdapterEach == Spec => []OneProcessPerMachine
<1>1. Inv => OneProcessPerMachine
  BY DEF Inv, WorkerInv, MachineInv, OnceInv, OneProcessPerMachine
<1> QED
  BY <1>1, Invariance, PTL

(* While the daemon runs, every running process is one it can still stop.   *)
THEOREM NoAdapterIsLost == Spec => []NoStrayProcess
<1>1. Inv => NoStrayProcess
  <2> SUFFICES ASSUME Inv, main.at = "running", NEW m \in Machines, Running(m)
               PROVE  m \in tasks \/ (Awaiting /\ worker.m = m)
    BY DEF NoStrayProcess
  <2>1. /\ PlaceInv(m) /\ HeldInv(m) /\ OnceInv(m) /\ ~main.delegated
        /\ mon[m].at \in {"none"} \cup Live \cup Done
    BY DEF Inv, WorkerInv, MachineInv, TypeOK, TaskStates
  <2>2. mon[m].at # "none"
    BY <2>1 DEF PlaceInv, Running, Alive
  <2>3. mon[m].at \notin Done
    BY <2>1 DEF OnceInv
  <2> QED
    BY <2>1, <2>2, <2>3 DEF HeldInv, Awaited
<1> QED
  BY <1>1, Invariance, PTL

(* After a clean end everything was recorded, and what may still run was    *)
(* told to stop or is what a worker that the interrupt did not reach began. *)
THEOREM CloseIsClean == Spec => []CleanClose
<1>1. Inv => CleanClose
  <2> SUFFICES ASSUME Inv, main.at = "closed", NEW m \in Machines
               PROVE  /\ statusq = <<>>
                      /\ mon[m].at = "finished" => story[m] \in {"SHUTDOWN", "DESTROYED"}
                      /\ ~main.delegated =>
                           mon[m].at \in {"none"} \cup Done /\ ~Running(m) /\ orphans[m] = 0
                      /\ Running(m) =>
                           child[m] = "signalled" \/ (m \in tasks /\ mon[m].at \notin Done)
    BY DEF CleanClose, Inv, WorkerInv
  <2>1. /\ PlaceInv(m) /\ HeldInv(m) /\ OnceInv(m) /\ SaidInv(m)
        /\ mon[m].at \in {"none"} \cup Live \cup Done
        /\ child[m] \in Alive \cup {"none", "dead"}
    BY DEF Inv, MachineInv, Story, TypeOK, TaskStates
  <2>2. statusq = <<>> /\ worker.at = "done" /\ ~Awaited(m)
    BY DEF Inv, WorkerInv, Awaited, Awaiting
  <2>3. mon[m].at = "finished" => story[m] \in {"SHUTDOWN", "DESTROYED"}
    BY <2>1, <2>2 DEF SaidInv, Ended, Says
  <2>4. mon[m].at \in Live => m \in tasks /\ mon[m].at \notin Done
    BY <2>1, <2>2 DEF HeldInv, Live, Done
  <2>5. ~main.delegated => mon[m].at \notin Live
    BY <2>4 DEF Inv, WorkerInv, Live
  <2>6. ~main.delegated =>
          mon[m].at \in {"none"} \cup Done /\ ~Running(m) /\ orphans[m] = 0
    BY <2>1, <2>5 DEF PlaceInv, OnceInv, Running, Alive
  <2>7. Running(m) => child[m] = "signalled" \/ (m \in tasks /\ mon[m].at \notin Done)
    BY <2>1, <2>4 DEF PlaceInv, Running, Alive
  <2> QED
    BY <2>2, <2>3, <2>6, <2>7
<1> QED
  BY <1>1, Invariance, PTL
=============================================================================
