---------------------- MODULE AdapterMonitorStoryProofs ----------------------
(***************************************************************************)
(* The story of a machine: what the worker and the machine's own task say  *)
(* of it, one after the other, for any number of machines and edits.       *)
(***************************************************************************)
EXTENDS AdapterMonitorProofs

----------------------------------------------------------------------------
(* The inductive invariant, besides Inv. *)

WorkerEnds == worker.cancel \/ worker.at \in {"done", "crashed", "cancelled"}

(* What the words depend on.  In particular, nothing is created again for a *)
(* machine whose task was cancelled or failed: the worker ended with it.    *)
TaskInv(m) ==
  /\ m \in tasks => mon[m].at # "none"
  /\ mon[m].at = "created" => mon[m].bound = "unbound"
  /\ mon[m].at \in {"running", "sleeping"} => mon[m].bound # "unbound"
  /\ mon[m].at \in {"cancelled", "crashed"} =>
       m \in tasks \/ Awaited(m) \/ WorkerEnds
  /\ main.at = "running" /\ mon[m].at = "finished" => m \notin tasks

(* The word s fits the place where the task stands.  A word of the worker   *)
(* comes with the cancellation; only when the task had finished before, in  *)
(* an interrupted daemon, does it stand alone.                              *)
Fits(m, s) ==
  LET told == mon[m].cancel /\ s \in Announced
      late == s \in Announced /\ main.at = "gathering"
  IN /\ mon[m].at = "none" => s = "none"
     /\ mon[m].at = "created" =>
          mon[m].cancel \/ late \/ s \in {"none", "SHUTDOWN", "DESTROYED"}
     /\ mon[m].at = "spawning" =>
          told \/ s = IF mon[m].bound = "unbound" THEN "STARTING" ELSE "RESTARTING"
     /\ mon[m].at = "aborting" /\ mon[m].bound # "unbound" =>
          s \in {"RESTARTING"} \cup Announced
     /\ mon[m].at = "running" => told \/ s = "STARTED"
     /\ mon[m].at = "sleeping" => told \/ s \in {"FAILED", "STOPPED"}
     /\ mon[m].at = "terminating" => s \in {"STARTED"} \cup Announced
     /\ mon[m].at = "finished" =>
          (late /\ Awaited(m) /\ loop = "worker") \/ s \in {"SHUTDOWN", "DESTROYED"}
     /\ Awaited(m) => s # "DESTROYED"
     /\ main.at = "running" /\ m \in tasks => s \notin Announced

WordInv(m) == TaskInv(m) /\ \E s \in Words : Says(m, s) /\ Fits(m, s)

StoryInv == \A m \in Machines : WordInv(m)

(* What StatusStory says of a step. *)
Tells ==
  \A m \in Machines, s \in Statuses :
    statusq' = Append(statusq, <<m, s>>) =>
      s \in Sequel(Said(m)) \/ (main.at = "gathering" /\ Said(m) \in Announced)

----------------------------------------------------------------------------
(* Words. *)

(* The last word is one, the one Said finds. *)
LEMMA SaidIs ==
  ASSUME TypeOK, NEW m \in Machines, NEW s, Says(m, s)
  PROVE  Said(m) = s
<1> DEFINE own == {k \in DOMAIN statusq : statusq[k][1] = m}
<1>1. DOMAIN statusq = 1..Len(statusq) /\ Len(statusq) \in Nat
  BY DEF TypeOK
<1>2. CASE story[m] = s /\ \A l \in 1..Len(statusq) : statusq[l][1] # m
  <2>1. own = {}
    BY <1>1, <1>2
  <2> QED
    BY <1>2, <2>1 DEF Said
<1>3. CASE \E k \in 1..Len(statusq) :
             /\ statusq[k] = <<m, s>>
             /\ \A l \in 1..Len(statusq) : l > k => statusq[l][1] # m
  <2>1. PICK k \in 1..Len(statusq) :
             /\ statusq[k] = <<m, s>>
             /\ \A l \in 1..Len(statusq) : l > k => statusq[l][1] # m
    BY <1>3
  <2>2. k \in own /\ own \subseteq Int /\ \A l \in own : k >= l
    BY <1>1, <2>1
  <2> HIDE DEF own
  <2>3. Max(own) = k
    <3>1. Max(own) \in own /\ \A l \in own : Max(own) >= l
      BY <2>2, Zenon DEF Max
    <3> DEFINE last == Max(own)
    <3>2. last \in Int /\ k \in Int /\ last >= k /\ k >= last
      BY <2>2, <3>1
    <3> HIDE DEF last
    <3>3. last = k
      BY <3>2
    <3> QED
      BY <3>3 DEF last
  <2>4. Said(m) = IF own = {} THEN story[m] ELSE statusq[Max(own)][2]
    BY DEF Said, own
  <2> QED
    BY <2>1, <2>2, <2>3, <2>4
<1> QED
  BY <1>2, <1>3 DEF Says

(* A word that follows the last. *)
LEMMA Follows ==
  ASSUME TypeOK, NEW m \in Machines, NEW s \in Words, Says(m, s),
         NEW t \in Statuses, Put(m, t),
         t \in Sequel(s) \/ (main.at = "gathering" /\ s \in Announced)
  PROVE  Tells
<1> SUFFICES ASSUME NEW n \in Machines, NEW u \in Statuses,
                    statusq' = Append(statusq, <<n, u>>)
             PROVE  u \in Sequel(Said(n)) \/ (main.at = "gathering" /\ Said(n) \in Announced)
  BY DEF Tells
<1>1. /\ statusq \in Seq(Machines \X Statuses)
      /\ <<m, t>> \in Machines \X Statuses /\ <<n, u>> \in Machines \X Statuses
  BY DEF TypeOK
<1>2. <<n, u>> = <<m, t>>
  BY <1>1, PutFacts
<1> QED
  BY <1>2, SaidIs

(* No word at all. *)
LEMMA Silent ==
  ASSUME TypeOK, statusq' = statusq \/ (statusq # <<>> /\ statusq' = Tail(statusq))
  PROVE  Tells
<1>1. statusq \in Seq(Machines \X Statuses)
  BY DEF TypeOK
<1>2. Len(statusq') <= Len(statusq)
  BY <1>1
<1>3. ASSUME NEW m \in Machines, NEW s \in Statuses
      PROVE  Len(Append(statusq, <<m, s>>)) = Len(statusq) + 1
  BY <1>1
<1>4. Len(statusq) \in Nat
  BY <1>1
<1> QED
  BY <1>2, <1>3, <1>4 DEF Tells

(* What follows what, in the cases that are needed. *)
LEMMA SequelFacts ==
  /\ "STARTING" \in Sequel("none") /\ "STARTING" \in Sequel("SHUTDOWN")
  /\ "STARTING" \in Sequel("DESTROYED") /\ "DESTROYED" \in Sequel("SHUTDOWN")
  /\ \A s \in {"STARTING", "RESTARTING"} : "STARTED" \in Sequel(s)
  /\ "FAILED" \in Sequel("STARTED") /\ "STOPPED" \in Sequel("STARTED")
  /\ \A s \in {"FAILED", "STOPPED"} : "RESTARTING" \in Sequel(s)
  /\ \A s \in {"RESTARTING", "STARTED", "FAILED", "STOPPED", "RELOADING", "DESTROYING"} :
       "SHUTDOWN" \in Sequel(s)
  /\ \A s \in Words : s \notin Announced => Announced \subseteq Sequel(s)
BY DEF Sequel, Announced, Words, Statuses

----------------------------------------------------------------------------
(* A step that leaves a machine alone leaves its last word fitting. *)
LEMMA WordKept ==
  ASSUME NEW m \in Machines, WordInv(m),
         mon'[m] = mon[m], m \in tasks' <=> m \in tasks, main'.at = main.at,
         Awaited(m)' <=> Awaited(m), Awaited(m) => loop' = loop,
         WorkerEnds => WorkerEnds',
         \A s \in Words : Says(m, s) => Says(m, s)'
  PROVE  WordInv(m)'
<1>1. TaskInv(m)'
  BY DEF WordInv, TaskInv
<1>2. ASSUME NEW s \in Words, Fits(m, s)
      PROVE  Fits(m, s)'
  BY <1>2 DEF Fits
<1> QED
  BY <1>1, <1>2 DEF WordInv

(* What the variable proc of a task refers to. *)
Bounds(m) ==
  mon'[m].bound = CASE mon'[m].at = "running"  -> "current"
                    [] mon'[m].at = "spawning" ->
                         IF mon[m].bound = "unbound" THEN "unbound" ELSE "old"
                    [] OTHER -> mon[m].bound

(* Going elsewhere leaves proc what it was. *)
LEMMA GoesBound ==
  ASSUME TypeOK, NEW m \in Machines, NEW place, place \notin {"running", "spawning"},
         Goes(m, place)
  PROVE  Bounds(m)
BY DEF TypeOK, TaskStates, Goes, Bounds

(* A process that starts makes an earlier one the old one. *)
LEMMA SpawnBound ==
  ASSUME TypeOK, NEW m \in Machines, NEW s, Spawn(m, s)
  PROVE  Bounds(m)
BY DEF TypeOK, TaskStates, Spawn, Bounds

(* What proc is after any step of the task. *)
LEMMA BoundStep ==
  ASSUME TypeOK, NEW m \in Machines, Monitor(m)
  PROVE  Bounds(m)
<1>1. CASE MStart(m) \/ MWake(m)
  BY <1>1, GoesBound, SpawnBound DEF MStart, MWake
<1>2. CASE MSpawned(m)
  BY <1>2 DEF MSpawned, TypeOK, TaskStates, Bounds
<1>3. CASE MSpawnCancelled(m) \/ MExit(m) \/ MTerminationCancelled(m)
  BY <1>3, GoesBound DEF MSpawnCancelled, MExit, MTerminationCancelled
<1>4. CASE MAborted(m) \/ MRunCancelled(m) \/ MTerminated(m) \/ MSleepCancelled(m)
  BY <1>4, GoesBound DEF MAborted, MRunCancelled, MTerminated, MSleepCancelled, Shutdown
<1> QED
  BY <1>1, <1>2, <1>3, <1>4 DEF Monitor

----------------------------------------------------------------------------
(* The machine's own task. *)

(* What a machine's task says fits where it goes and follows what was said. *)
LEMMA MonitorWords ==
  ASSUME Inv, StoryInv, NEW m \in Machines, Monitor(m)
  PROVE  StoryInv' /\ Tells
<1>1. Moved(m) /\ Moves(m) /\ Speaks(m) /\ Bounds(m)
  BY MonitorStep, BoundStep DEF Inv
<1>2. /\ worker' = worker /\ tasks' = tasks /\ main' = main /\ loop' = loop /\ loop = "idle"
      /\ \A n \in Machines : n # m => mon'[n] = mon[n]
      /\ \A n \in Machines : Awaited(n)' <=> Awaited(n)
      /\ WorkerEnds' <=> WorkerEnds
  BY <1>1 DEF Moved, Own, Kept, Awaited, Awaiting, WorkerEnds
<1>3. TaskInv(m) /\ PlaceInv(m) /\ OnceInv(m) /\ HeldInv(m)
  BY DEF Inv, MachineInv, StoryInv, WordInv
<1>4. PICK s \in Words : Says(m, s) /\ Fits(m, s)
  BY DEF StoryInv, WordInv
<1>5. TaskInv(m)'
  <2>1. mon[m].at \in Live
    BY <1>1 DEF Moves, Live
  <2>2. m \in tasks' => mon'[m].at # "none"
    BY <1>1 DEF Moves
  <2>3. mon'[m].at # "created"
    BY <1>1 DEF Moves
  <2>4. mon'[m].at \in {"running", "sleeping"} => mon'[m].bound # "unbound"
    BY <1>1, <1>3 DEF Moves, Bounds, TaskInv
  <2>5. m \in tasks \/ Awaited(m)
    BY <1>3, <2>1 DEF HeldInv
  <2>6. ASSUME main'.at = "running", mon'[m].at = "finished"
        PROVE  m \notin tasks
    <3>1. mon[m].cancel \/ mon[m].at \in {"aborting", "terminating"}
      BY <1>1, <2>6 DEF Moves
    <3>2. main.at = "running" /\ ~main.delegated
      BY <1>2, <2>6 DEF Inv, WorkerInv
    <3>3. Awaited(m)
      BY <1>3, <3>1, <3>2 DEF OnceInv
    <3> QED
      BY <3>3 DEF Awaited, Inv, WorkerInv
  <2> QED
    BY <1>2, <2>2, <2>3, <2>4, <2>5, <2>6 DEF TaskInv
<1>6. ASSUME NEW n \in Machines, n # m, \A t \in Words : Says(n, t) => Says(n, t)'
      PROVE  WordInv(n)'
  BY <1>2, <1>6, WordKept DEF StoryInv
<1>7. ASSUME UNCHANGED records, Fits(m, s)'
      PROVE  StoryInv' /\ Tells
  <2>1. UNCHANGED <<statusq, story>>
    BY <1>7 DEF records
  <2>2. WordInv(m)'
    BY <1>4, <1>5, <1>7, <2>1, SaysSame DEF WordInv
  <2>3. Tells
    BY <2>1, Silent DEF Inv
  <2> QED
    BY <1>6, <2>1, <2>2, <2>3, SaysSame DEF StoryInv
<1>8. ASSUME NEW t \in Statuses, Put(m, t), Fits(m, t)',
             t \in Sequel(s) \/ (main.at = "gathering" /\ s \in Announced)
      PROVE  StoryInv' /\ Tells
  <2>1. Says(m, t)' /\ t \in Words
    BY <1>8, PutSays DEF Inv, Words
  <2>2. WordInv(m)'
    BY <1>5, <1>8, <2>1 DEF WordInv
  <2>3. Tells
    BY <1>4, <1>8, Follows DEF Inv
  <2>4. \A n \in Machines : n # m => WordInv(n)'
    BY <1>6, <1>8, PutSays DEF Inv
  <2> QED
    BY <2>2, <2>3, <2>4 DEF StoryInv
<1>9. /\ Awaited(m) => s # "DESTROYED"
      /\ main.at = "running" /\ m \in tasks => s \notin Announced
  BY <1>4 DEF Fits
<1>10. {"STARTING", "RESTARTING", "STARTED", "FAILED", "STOPPED", "SHUTDOWN"}
         \subseteq Statuses \ (Announced \cup {"DESTROYED"})
  BY DEF Statuses, Announced
(* When it shuts down. *)
<1>11. ASSUME Shutdown(m), s \in {"RESTARTING", "STARTED", "FAILED", "STOPPED"} \cup Announced
       PROVE  StoryInv' /\ Tells
  <2>1. Put(m, "SHUTDOWN") /\ mon'[m].at = "finished"
    BY <1>11, GoesFacts DEF Shutdown, Inv, Done
  <2>2. Fits(m, "SHUTDOWN")'
    BY <1>10, <2>1 DEF Fits
  <2>3. "SHUTDOWN" \in Sequel(s)
    BY <1>11, SequelFacts DEF Announced
  <2> QED
    BY <1>8, <1>10, <2>1, <2>2, <2>3
<1>12. CASE MStart(m)
  <2>1. mon[m].at = "created" /\ mon[m].bound = "unbound"
    BY <1>3, <1>12 DEF MStart, TaskInv
  <2>2. CASE mon[m].cancel
    <3>1. UNCHANGED records /\ mon'[m].at = "cancelled"
      BY <1>1, <1>12, <2>1, <2>2 DEF MStart, Moves
    <3>2. Fits(m, s)'
      BY <1>2, <1>9, <3>1 DEF Fits
    <3> QED
      BY <1>7, <3>1, <3>2
  <2>3. CASE ~mon[m].cancel
    <3>1. Put(m, "STARTING") /\ mon'[m].at \in {"spawning", "crashed"}
      BY <1>1, <1>12, <2>1, <2>3 DEF MStart, Spawn, Moves
    <3>2. Fits(m, "STARTING")'
      BY <1>1, <1>10, <2>1, <3>1 DEF Fits, Bounds
    <3>3. "STARTING" \in Sequel(s) \/ (main.at = "gathering" /\ s \in Announced)
      BY <1>4, <2>1, <2>3, SequelFacts DEF Fits
    <3> QED
      BY <1>8, <1>10, <3>1, <3>2, <3>3
  <2> QED
    BY <2>2, <2>3
<1>13. CASE MSpawned(m)
  <2>1. /\ mon[m].at = "spawning" /\ ~mon[m].cancel
        /\ Put(m, "STARTED") /\ mon'[m].at = "running"
    BY <1>1, <1>13 DEF MSpawned, Stands, Moves
  <2>2. Fits(m, "STARTED")'
    BY <1>10, <2>1 DEF Fits
  <2>3. "STARTED" \in Sequel(s)
    BY <1>4, <2>1, SequelFacts DEF Fits
  <2> QED
    BY <1>8, <1>10, <2>1, <2>2, <2>3
<1>14. CASE MSpawnCancelled(m)
  <2>1. /\ mon[m].at = "spawning" /\ UNCHANGED records /\ mon'[m].at = "aborting"
        /\ mon[m].bound \in {"unbound", "old", "current"}
    BY <1>1, <1>14 DEF MSpawnCancelled, Stands, Moves, Inv, TypeOK, TaskStates
  <2>2. mon'[m].bound = mon[m].bound
    BY <1>1, <2>1 DEF Bounds
  <2>3. Fits(m, s)'
    BY <1>2, <1>4, <1>9, <2>1, <2>2 DEF Fits
  <2> QED
    BY <1>7, <2>1, <2>3
<1>15. CASE MAborted(m)
  <2>1. mon[m].at = "aborting"
    BY <1>15 DEF MAborted
  <2>2. CASE mon[m].bound = "unbound"
    <3>1. UNCHANGED records /\ mon'[m].at = "crashed"
      BY <1>15, <2>2, GoesFacts DEF MAborted, Inv, Done
    <3>2. Fits(m, s)'
      BY <1>2, <1>9, <3>1 DEF Fits
    <3> QED
      BY <1>7, <3>1, <3>2
  <2>3. CASE mon[m].bound # "unbound"
    BY <1>4, <1>11, <1>15, <2>1, <2>3 DEF MAborted, Fits
  <2> QED
    BY <2>2, <2>3
<1>16. CASE MExit(m)
  <2>1. PICK t \in {"FAILED", "STOPPED"} : Put(m, t)
    BY <1>16 DEF MExit
  <2>2. mon[m].at = "running" /\ ~mon[m].cancel /\ mon'[m].at = "sleeping"
    BY <1>16, GoesFacts DEF MExit, Stands, Inv, Live
  <2>3. t \in Statuses /\ Fits(m, t)'
    BY <1>10, <2>1, <2>2 DEF Fits
  <2>4. t \in Sequel(s)
    BY <1>4, <2>1, <2>2, SequelFacts DEF Fits
  <2> QED
    BY <1>8, <2>1, <2>3, <2>4
<1>17. CASE MWake(m)
  <2>1. /\ mon[m].at = "sleeping" /\ ~mon[m].cancel /\ mon[m].bound # "unbound"
        /\ Put(m, "RESTARTING") /\ mon'[m].at \in {"spawning", "crashed"}
    BY <1>1, <1>3, <1>17 DEF MWake, Spawn, Stands, Moves, TaskInv
  <2>2. Fits(m, "RESTARTING")'
    BY <1>1, <1>10, <2>1 DEF Fits, Bounds
  <2>3. "RESTARTING" \in Sequel(s)
    BY <1>4, <2>1, SequelFacts DEF Fits
  <2> QED
    BY <1>8, <1>10, <2>1, <2>2, <2>3
<1>18. CASE MRunCancelled(m)
  <2>1. mon[m].at = "running" /\ mon[m].cancel
    BY <1>18 DEF MRunCancelled, Stands
  <2>2. s \in {"STARTED"} \cup Announced
    BY <1>4, <2>1 DEF Fits
  <2>3. CASE Goes(m, "terminating") /\ UNCHANGED records
    <3>1. mon'[m].at = "terminating"
      BY <2>3, GoesFacts DEF Inv, Live
    <3>2. Fits(m, s)'
      BY <1>2, <1>9, <2>2, <3>1 DEF Fits
    <3> QED
      BY <1>7, <2>3, <3>2
  <2>4. CASE Shutdown(m)
    BY <1>11, <2>2, <2>4
  <2> QED
    BY <1>18, <2>3, <2>4 DEF MRunCancelled, records
<1>19. CASE MTerminated(m)
  BY <1>4, <1>11, <1>19 DEF MTerminated, Stands, Fits
<1>20. CASE MTerminationCancelled(m)
  <2>1. UNCHANGED records /\ mon'[m].at = "cancelled"
    BY <1>20, GoesFacts DEF MTerminationCancelled, records, Inv, Done
  <2>2. Fits(m, s)'
    BY <1>2, <1>9, <2>1 DEF Fits
  <2> QED
    BY <1>7, <2>1, <2>2
<1>21. CASE MSleepCancelled(m)
  BY <1>4, <1>11, <1>21 DEF MSleepCancelled, Stands, Fits
<1> QED
  BY <1>12, <1>13, <1>14, <1>15, <1>16, <1>17, <1>18, <1>19, <1>20, <1>21 DEF Monitor

----------------------------------------------------------------------------
(* The updates worker. *)

(* The worker announces the end of a task. *)
LEMMA ReplaceWords ==
  ASSUME Inv, StoryInv, NEW m \in Machines, NEW c \in Configs \cup {NULL}, WReplace(m, c)
  PROVE  StoryInv' /\ Tells
<1> DEFINE t == IF c = NULL THEN "DESTROYING" ELSE "RELOADING"
<1>1. /\ Takes(m, c) /\ m \in tasks /\ Put(m, t) /\ tasks' = tasks \ {m}
      /\ mon' = Cancelled(m) /\ main' = main
      /\ worker' = [at |-> "await", m |-> m, cfg |-> c, cancel |-> FALSE]
      /\ loop' = (IF mon[m].at \in Done THEN "worker" ELSE "idle")
  BY DEF WReplace, At
<1>2. t \in Announced /\ t \in Statuses /\ t \in Words /\ t # "DESTROYED"
  BY DEF Statuses, Announced, Words
<1> HIDE DEF t
<1>3. worker.at = "get" /\ ~worker.cancel /\ Open /\ ~Awaiting
  BY <1>1, TakesFacts DEF Inv
<1>4. main.at \in {"running", "gathering"}
  BY <1>3, WorkerRuns
<1>5. /\ mon'[m].at = mon[m].at /\ mon'[m].bound = mon[m].bound
      /\ mon'[m].cancel = (mon[m].at \notin Done)
      /\ \A n \in Machines : n # m => mon'[n] = mon[n]
  BY <1>1 DEF Inv, TypeOK, TaskStates, Cancelled
<1>6. Awaited(m)' /\ \A n \in Machines : ~Awaited(n) /\ (n # m => ~Awaited(n)')
  BY <1>1, <1>3 DEF Awaited, Awaiting
<1>7. TaskInv(m)
  BY DEF StoryInv, WordInv
<1>8. TaskInv(m)'
  BY <1>1, <1>5, <1>6, <1>7 DEF TaskInv
<1>9. Fits(m, t)'
  <2>1. mon[m].at \notin Done => mon'[m].cancel
    BY <1>5
  <2>2. mon[m].at # "none"
    BY <1>1, <1>7 DEF TaskInv
  <2>3. mon[m].at = "finished" => main.at = "gathering" /\ loop' = "worker"
    BY <1>1, <1>4, <1>7 DEF TaskInv, Done
  <2> QED
    BY <1>1, <1>2, <1>5, <1>6, <2>1, <2>2, <2>3 DEF Fits, Done
<1>10. WordInv(m)'
  BY <1>1, <1>2, <1>8, <1>9, PutSays DEF Inv, WordInv
<1>11. ASSUME NEW n \in Machines, n # m
       PROVE  WordInv(n)'
  <2>1. \A s \in Words : Says(n, s) => Says(n, s)'
    BY <1>1, <1>2, <1>11, PutSays DEF Inv
  <2>2. WorkerEnds => WorkerEnds'
    BY <1>3 DEF WorkerEnds
  <2>3. n \in tasks' <=> n \in tasks
    BY <1>1, <1>11
  <2> QED
    BY <1>1, <1>5, <1>6, <1>11, <2>1, <2>2, <2>3, WordKept DEF StoryInv
<1>12. Tells
  <2>1. PICK s \in Words : Says(m, s) /\ Fits(m, s)
    BY DEF StoryInv, WordInv
  <2>2. t \in Sequel(s) \/ (main.at = "gathering" /\ s \in Announced)
    BY <1>1, <1>2, <1>4, <2>1, SequelFacts DEF Fits
  <2> QED
    BY <1>1, <1>2, <2>1, <2>2, Follows DEF Inv
<1> QED
  BY <1>10, <1>11, <1>12 DEF StoryInv

(* A task is created where the last has ended and said so. *)
LEMMA CreatedWords ==
  ASSUME Inv, NEW m \in Machines, NEW c \in Configs \cup {NULL}, Create(m, c),
         NEW s \in Words, Says(m, s),
         s \in {"none", "SHUTDOWN", "DESTROYED"} \/ (s \in Announced /\ main.at = "gathering"),
         UNCHANGED <<statusq, story>>, main'.at = main.at, ~Awaited(m)'
  PROVE  WordInv(m)'
<1>1. mon'[m] = [NoTask EXCEPT !.at = "created", !.cfg = c]
  BY DEF Inv, TypeOK, Create
<1>2. mon'[m].at = "created" /\ mon'[m].bound = "unbound"
  BY <1>1 DEF NoTask
<1>3. TaskInv(m)'
  BY <1>2 DEF TaskInv
<1>4. Fits(m, s)'
  BY <1>2 DEF Fits, Announced
<1>5. Says(m, s)'
  BY SaysSame
<1> QED
  BY <1>3, <1>4, <1>5 DEF WordInv

(* The worker starts a task where the last one has ended. *)
LEMMA CreateWords ==
  ASSUME Inv, StoryInv, NEW m \in Machines, NEW c \in Configs, WCreate(m, c)
  PROVE  StoryInv' /\ Tells
<1>1. /\ Takes(m, c) /\ m \notin tasks /\ Create(m, c)
      /\ UNCHANGED <<worker, main, statusq, story>>
  BY DEF WCreate, records
<1>2. worker.at = "get" /\ ~worker.cancel /\ Open /\ ~Awaiting
  BY <1>1, TakesFacts DEF Inv
<1>3. /\ \A n \in Machines : ~Awaited(n) /\ ~Awaited(n)'
      /\ ~WorkerEnds
  BY <1>1, <1>2 DEF Awaited, Awaiting, WorkerEnds
<1>4. PICK s \in Words : Says(m, s) /\ Fits(m, s)
  BY DEF StoryInv, WordInv
<1>5. mon[m].at \in {"none", "finished"}
  <2>1. mon[m].at \notin Live /\ mon[m].at \in {"none"} \cup Live \cup Done
    BY <1>1, <1>3 DEF Inv, MachineInv, HeldInv, TypeOK, TaskStates
  <2>2. mon[m].at \notin {"cancelled", "crashed"}
    BY <1>1, <1>3 DEF StoryInv, WordInv, TaskInv
  <2> QED
    BY <2>1, <2>2 DEF Done
<1>6. s \in {"none", "SHUTDOWN", "DESTROYED"}
  BY <1>3, <1>4, <1>5 DEF Fits
<1>7. WordInv(m)'
  BY <1>1, <1>3, <1>4, <1>6, CreatedWords
<1>8. ASSUME NEW n \in Machines, n # m
      PROVE  WordInv(n)'
  <2>1. mon'[n] = mon[n] /\ tasks' = tasks \cup {m}
    BY <1>1, <1>8, CreateFacts DEF Inv, Kept
  <2>2. n \in tasks' <=> n \in tasks
    BY <1>8, <2>1
  <2> QED
    BY <1>1, <1>3, <2>1, <2>2, WordKept, SaysSame DEF StoryInv
<1>9. Tells
  BY <1>1, Silent DEF Inv
<1> QED
  BY <1>7, <1>8, <1>9 DEF StoryInv

(* The worker goes on when the task it awaited has shut down. *)
LEMMA ReplacedWords ==
  ASSUME Inv, StoryInv, NEW m \in Machines, WReplaced(m)
  PROVE  StoryInv' /\ Tells
<1>1. /\ Awaiting /\ ~worker.cancel /\ worker.m = m /\ mon[m].at = "finished"
      /\ worker' = [at |-> "get", m |-> NULL, cfg |-> NULL, cancel |-> FALSE]
      /\ Replacement(m)
      /\ main' = [main EXCEPT !.gathers = @ \ {m}]
  BY DEF WReplaced, Resumes, Returned, At
<1>2. main'.at = main.at
  BY <1>1 DEF Inv, TypeOK, RunStates
<1>3. /\ ~WorkerEnds /\ m \notin tasks /\ worker.cfg \in Configs \cup {NULL}
      /\ Awaited(m) /\ \A n \in Machines : (n # m => ~Awaited(n)) /\ ~Awaited(n)'
  BY <1>1 DEF Inv, TypeOK, WorkerInv, WorkerStates, Awaited, Awaiting, WorkerEnds
<1>4. PICK s \in Words : Says(m, s) /\ Fits(m, s)
  BY DEF StoryInv, WordInv
<1>5. s = "SHUTDOWN" \/ (s \in Announced /\ main.at = "gathering")
  BY <1>1, <1>3, <1>4 DEF Fits
<1>6. CASE worker.cfg = NULL
  <2>1. Put(m, "DESTROYED") /\ UNCHANGED <<tasks, mon>>
    BY <1>1, <1>6 DEF Replacement, adapter
  <2>2. "DESTROYED" \in Statuses /\ "DESTROYED" \in Words /\ "DESTROYED" \notin Announced
    BY DEF Statuses, Words, Announced
  <2>3. Says(m, "DESTROYED")'
    BY <2>1, <2>2, PutSays DEF Inv
  <2>4. Fits(m, "DESTROYED")'
    BY <1>1, <1>3, <2>1, <2>2 DEF Fits
  <2>5. TaskInv(m)'
    BY <1>1, <1>3, <2>1 DEF TaskInv
  <2>6. WordInv(m)'
    BY <2>2, <2>3, <2>4, <2>5 DEF WordInv
  <2>7. ASSUME NEW n \in Machines, n # m
        PROVE  WordInv(n)'
    BY <1>2, <1>3, <2>1, <2>2, <2>7, WordKept, PutSays DEF Inv, StoryInv
  <2>8. Tells
    BY <1>4, <1>5, <2>1, <2>2, Follows, SequelFacts DEF Inv
  <2> QED
    BY <2>6, <2>7, <2>8 DEF StoryInv
<1>7. CASE worker.cfg # NULL
  <2>1. Create(m, worker.cfg) /\ UNCHANGED <<statusq, story>>
    BY <1>1, <1>7 DEF Replacement, records
  <2>2. WordInv(m)'
    BY <1>2, <1>3, <1>4, <1>5, <2>1, CreatedWords
  <2>3. ASSUME NEW n \in Machines, n # m
        PROVE  WordInv(n)'
    <3>1. mon'[n] = mon[n] /\ tasks' = tasks \cup {m}
      BY <1>3, <2>1, <2>3, CreateFacts DEF Inv, Kept
    <3>2. n \in tasks' <=> n \in tasks
      BY <2>3, <3>1
    <3> QED
      BY <1>2, <1>3, <2>1, <2>3, <3>1, <3>2, WordKept, SaysSame DEF StoryInv
  <2>4. Tells
    BY <2>1, Silent DEF Inv
  <2> QED
    BY <2>2, <2>3, <2>4 DEF StoryInv
<1> QED
  BY <1>6, <1>7

(* No word of the worker waits to be followed in the same turn. *)
Settled == loop = "idle" \/ \A n \in Machines : Awaited(n) => mon[n].at # "finished"

(* Steps that leave the tasks and what is said alone. *)
LEMMA QuietWords ==
  ASSUME Inv, StoryInv, UNCHANGED <<tasks, mon, statusq, story>>,
         UNCHANGED <<worker, loop>> \/ Settled,
         WorkerEnds => WorkerEnds',
         \A n \in Machines : Awaited(n)' => Awaited(n),
         \A n \in Machines : Awaited(n) /\ ~Awaited(n)' => WorkerEnds',
         \/ main'.at = main.at
         \/ /\ main'.at # "running" /\ Settled
            /\ \A n \in Machines : mon[n].at # "created"
  PROVE  StoryInv' /\ Tells
<1>1. ASSUME NEW n \in Machines
      PROVE  WordInv(n)'
  <2>1. PICK s \in Words : TaskInv(n) /\ Says(n, s) /\ Fits(n, s)
    BY DEF StoryInv, WordInv
  <2>2. TaskInv(n)'
    BY <2>1 DEF TaskInv
  <2>3. UNCHANGED <<worker, loop>> => loop' = loop /\ (Awaited(n)' <=> Awaited(n))
    BY DEF Awaited, Awaiting
  <2>4. Fits(n, s)'
    BY <2>1, <2>3 DEF Fits, Settled
  <2> QED
    BY <2>1, <2>2, <2>4, SaysSame DEF WordInv
<1> QED
  BY <1>1, Silent DEF Inv, StoryInv

(* Every step of the worker keeps the story. *)
LEMMA WorkerWords ==
  ASSUME Inv, StoryInv, Worker
  PROVE  StoryInv' /\ Tells
<1>1. CASE WFetch \/ WListen
  <2>1. /\ worker.at \in {"fetch", "listen"} /\ ~worker.cancel /\ loop = "idle"
        /\ worker'.at \in {"listen", "get"}
        /\ UNCHANGED <<tasks, mon, statusq, story, main>>
    BY <1>1 DEF WFetch, WListen, Turn, At, adapter, records
  <2>2. \A n \in Machines : ~Awaited(n) /\ ~Awaited(n)'
    BY <2>1 DEF Awaited, Awaiting
  <2> QED
    BY <2>1, <2>2, QuietWords DEF WorkerEnds, Settled
<1>2. CASE WCancelled
  <2>1. /\ loop = "idle" /\ worker'.at \in {"cancelled", "done"}
        /\ UNCHANGED <<tasks, mon, statusq, story, main>>
    BY <1>2 DEF WCancelled, Turn, At, adapter, records
  <2>2. \A n \in Machines : ~Awaited(n)'
    BY <2>1 DEF Awaited, Awaiting
  <2> QED
    BY <2>1, <2>2, QuietWords DEF WorkerEnds, Settled
<1>3. CASE \E m \in Machines : Updates(m)
  <2>1. PICK m \in Machines : Updates(m)
    BY <1>3
  <2>2. CASE \E c \in Configs \cup {NULL} : WReplace(m, c)
    BY <2>2, ReplaceWords
  <2>3. CASE \E c \in Configs : WCreate(m, c)
    BY <2>3, CreateWords
  <2>4. CASE WIgnore(m)
    <3>1. ~Awaiting /\ UNCHANGED <<worker, tasks, mon, statusq, story, main>>
      BY <2>4, TakesFacts DEF WIgnore, adapter, records, Inv
    <3>2. \A n \in Machines : ~Awaited(n) /\ ~Awaited(n)'
      BY <3>1 DEF Awaited, Awaiting
    <3> QED
      BY <3>1, <3>2, QuietWords DEF WorkerEnds, Settled
  <2>5. CASE WReplaced(m)
    BY <2>5, ReplacedWords
  <2>6. CASE WRaised(m)
    <3>1. /\ worker.m = m /\ mon[m].at # "finished" /\ ~worker.cancel
          /\ worker'.at \in {"done", "crashed"}
          /\ UNCHANGED <<tasks, mon, statusq, story, main>>
      BY <2>6 DEF WRaised, Resumes, At, adapter, records
    <3>2. /\ \A n \in Machines : ~Awaited(n)'
          /\ \A n \in Machines : Awaited(n) => mon[n].at # "finished"
      BY <3>1 DEF Awaited, Awaiting
    <3> QED
      BY <3>1, <3>2, QuietWords DEF WorkerEnds, Settled
  <2> QED
    BY <2>1, <2>2, <2>3, <2>4, <2>5, <2>6 DEF Updates
<1> QED
  BY <1>1, <1>2, <1>3 DEF Worker

----------------------------------------------------------------------------
(* The rest. *)

(* The table, the processes and a failing status worker say nothing. *)
LEMMA OtherWords ==
  ASSUME Inv, StoryInv,
         \/ Notify \/ Edit
         \/ SFails \/ \E m \in Machines : ChildExits(m)
         \/ UNCHANGED vars
  PROVE  StoryInv' /\ Tells
<1>1. UNCHANGED <<worker, loop, main, tasks, mon, statusq, story>>
  BY DEF Notify, Edit, EditRow, RenameRow, SFails, ChildExits, vars, adapter, records
<1>2. \A n \in Machines : Awaited(n)' <=> Awaited(n)
  BY <1>1 DEF Awaited, Awaiting
<1> QED
  BY <1>1, <1>2, QuietWords DEF WorkerEnds

(* run() says nothing, and goes on only when no word waits. *)
LEMMA RunWords ==
  ASSUME Inv, StoryInv, Run
  PROVE  StoryInv' /\ Tells
<1>1. /\ UNCHANGED <<worker, loop, tasks, mon, statusq, story>> /\ Turn
      /\ main'.at # "running"
  BY DEF Run, RunFails, MainGathered, MainJoined, adapter, records, Inv, TypeOK, RunStates
<1>2. \A n \in Machines : Awaited(n)' <=> Awaited(n)
  BY <1>1 DEF Awaited, Awaiting
<1> QED
  BY <1>1, <1>2, QuietWords DEF WorkerEnds, Settled, Turn

(* A written word is still the last. *)
LEMMA WriteWords ==
  ASSUME Inv, StoryInv, SWrite
  PROVE  StoryInv' /\ Tells
<1>1. /\ UNCHANGED <<worker, loop, main, tasks, mon>>
      /\ statusq # <<>> /\ statusq' = Tail(statusq)
  BY DEF SWrite, adapter
<1>2. \A n \in Machines : Awaited(n)' <=> Awaited(n)
  BY <1>1 DEF Awaited, Awaiting
<1>3. \A n \in Machines : WordInv(n)'
  BY <1>1, <1>2, WordKept, WriteSays DEF Inv, StoryInv, WorkerEnds
<1> QED
  BY <1>1, <1>3, Silent DEF Inv, StoryInv

(* The interrupt says nothing; what was told before the interrupt fits. *)
LEMMA InterruptWords ==
  ASSUME Inv, StoryInv, Interrupt
  PROVE  StoryInv' /\ Tells
<1> DEFINE delegated == Awaiting /\ mon[worker.m].at \notin Done
           hit == tasks \cup IF delegated THEN {worker.m} ELSE {}
<1>1. /\ main.at = "running" /\ main'.at = "gathering"
      /\ worker' = [worker EXCEPT !.cancel = ~delegated /\ worker.at \notin {"done", "crashed"}]
      /\ mon' = [m \in Machines |-> IF m \in hit THEN Cancelled(m)[m] ELSE mon[m]]
      /\ UNCHANGED <<tasks, loop, statusq, story>>
  BY DEF Interrupt, records
<1> HIDE DEF delegated, hit
<1>2. worker'.at = worker.at /\ worker'.m = worker.m /\ ~worker.cancel
  BY <1>1 DEF Inv, TypeOK, WorkerStates, WorkerInv
<1>3. ASSUME NEW m \in Machines
      PROVE  /\ mon'[m].at = mon[m].at /\ mon'[m].bound = mon[m].bound
             /\ mon[m].at \notin Done /\ mon[m].cancel => mon'[m].cancel
  <2>1. /\ mon[m] \in TaskStates
        /\ Cancelled(m)[m] = [mon[m] EXCEPT !.cancel = mon[m].at \notin Done]
    BY DEF Inv, TypeOK, Cancelled
  <2>2. mon'[m] = Cancelled(m)[m] \/ mon'[m] = mon[m]
    BY <1>1
  <2> QED
    BY <2>1, <2>2 DEF TaskStates
<1>4. \A m \in Machines : Awaited(m)' <=> Awaited(m)
  BY <1>2 DEF Awaited, Awaiting
<1>5. ASSUME NEW m \in Machines
      PROVE  WordInv(m)'
  <2>1. PICK s \in Words : TaskInv(m) /\ Says(m, s) /\ Fits(m, s)
    BY DEF StoryInv, WordInv
  <2>2. TaskInv(m)'
    BY <1>1, <1>2, <1>3, <1>4, <2>1 DEF TaskInv, WorkerEnds
  <2>3. Fits(m, s)'
    BY <1>1, <1>3, <1>4, <2>1 DEF Fits, Done
  <2> QED
    BY <1>1, <2>1, <2>2, <2>3, SaysSame DEF WordInv
<1> QED
  BY <1>1, <1>5, Silent DEF Inv, StoryInv

----------------------------------------------------------------------------

(* Nothing is said at the start. *)
LEMMA StoryInit == Init => StoryInv
<1> SUFFICES ASSUME Init, NEW m \in Machines PROVE WordInv(m)
  BY DEF StoryInv
<1>1. /\ mon[m] = [at |-> "none", bound |-> "unbound", cfg |-> NULL, cancel |-> FALSE]
      /\ worker.at = "fetch" /\ tasks = {} /\ statusq = <<>> /\ story[m] = "none"
  BY DEF Init, NoTask, At
<1>2. TaskInv(m)
  BY <1>1 DEF TaskInv
<1>3. Says(m, "none") /\ Fits(m, "none") /\ "none" \in Words
  BY <1>1 DEF Says, Fits, Words, Awaited, Awaiting
<1> QED
  BY <1>2, <1>3 DEF WordInv

(* Every step keeps the story, and tells it as StatusStory wants it. *)
LEMMA StoryStep == Inv /\ StoryInv /\ [Next]_vars => StoryInv' /\ Tells
<1> SUFFICES ASSUME Inv, StoryInv, [Next]_vars PROVE StoryInv' /\ Tells
  OBVIOUS
<1>1. CASE \/ Notify \/ Edit
           \/ SFails \/ \E m \in Machines : ChildExits(m)
           \/ UNCHANGED vars
  BY <1>1, OtherWords
<1>2. CASE Worker
  BY <1>2, WorkerWords
<1>3. CASE Run
  BY <1>3, RunWords
<1>4. CASE Interrupt
  BY <1>4, InterruptWords
<1>5. CASE SWrite
  BY <1>5, WriteWords
<1>6. CASE \E m \in Machines : Monitor(m)
  BY <1>6, MonitorWords
<1> QED
  BY <1>1, <1>2, <1>3, <1>4, <1>5, <1>6 DEF Next

(* The worker and the machine's own task write one story between them.      *)
THEOREM StoryIsOne == Spec => StatusStory
<1>1. Inv /\ StoryInv /\ [Next]_vars => [Tells]_vars
  BY StoryStep
<1>2. Spec => [][Tells]_vars
  BY <1>1, InitInv, NextInv, StoryInit, StoryStep, PTL DEF Spec
<1> QED
  BY <1>2 DEF StatusStory, Tells
=============================================================================
