--------------------------- MODULE AdapterMonitor ---------------------------
(***************************************************************************)
(* The monitor daemon (monitor/daemon.py): it keeps one adapter process    *)
(* running for each row of the table machine_monitor, with the row's       *)
(* configuration, and records what becomes of it.                          *)
(*                                                                         *)
(* It is one asyncio event loop.  A coroutine runs until it awaits         *)
(* something that is not ready, and cancel() is an exception thrown at the *)
(* await where the task stands; both are part of the model, because what   *)
(* goes wrong here is an exception at an await nobody thought of:          *)
(*   - putting on an unbounded queue, getting from one that is not empty   *)
(*     and awaiting a task that is done do not give the loop away, so the  *)
(*     updates worker may take several updates in one turn ("loop");       *)
(*   - a created task starts before anything that became ready later;      *)
(*   - cancelling a task that awaits another cancels that other;           *)
(*   - cancelling twice before the task runs is cancelling once;           *)
(*   - a task cancelled before it started ends without running a line.     *)
(*                                                                         *)
(* External: PostgreSQL (the table, its trigger and LISTEN), asyncio, and  *)
(* the operating system's processes.                                       *)
(***************************************************************************)
EXTENDS Integers, Sequences, FiniteSets, SequencesExt

CONSTANTS
  Machines,   \* machine ids
  Configs,    \* what a row says of a machine: its address
  NULL,       \* no row, no machine
  MaxEdits,   \* bound on changes of the table
  MaxExits,   \* bound on adapters that exit by themselves
  MaxFaults   \* bound on processes that cannot be started and failed writes

ASSUME ConstantsAssumption ==
  /\ IsFiniteSet(Machines) /\ NULL \notin Machines \cup Configs
  /\ MaxEdits \in Nat /\ MaxExits \in Nat /\ MaxFaults \in Nat

VARIABLES
  db,         \* machine_monitor: machine -> configuration or NULL
  listening,  \* the worker's connection has LISTEN in effect
  missed,     \* machines whose last edit neither the fetch nor a notification tells
  wire,       \* notifications sent and not yet read
  updates,    \* updates_queue
  worker,     \* __updates_worker: where it stands, for which machine
  tasks,      \* the machines in self.tasks
  mon,        \* the monitor_machine task of each machine
  child,      \* the adapter process that task started last
  orphans,    \* how many adapters run that no task holds any more
  statusq,    \* status_queue
  story,      \* machine_monitor_status_updates: the last status of each machine
  scribe,     \* __status_worker: "up", "crashed" or "closed"
  main,       \* run(): where it stands, what it gathers, and whether it was the
              \* task the worker awaits that its cancellation of the worker hit
  loop,       \* "worker" while the updates worker keeps the turn
  edits, exits, faults

table   == <<db, missed, edits>>
notices == <<listening, wire>>
adapter == <<mon, child, orphans>>
records == <<statusq, story, scribe>>
vars    == <<table, notices, updates, worker, tasks, adapter, records, main, loop,
             exits, faults>>

Done  == {"finished", "cancelled", "crashed"}
Alive == {"alive", "signalled"}

NoTask == [at |-> "none", bound |-> "unbound", cfg |-> NULL, cancel |-> FALSE]

Open == main.at \in {"running", "gathering", "joining"}

(* The loop is free for a coroutine other than a task that has yet to start. *)
Turn == Open /\ loop = "idle" /\ \A m \in Machines : mon[m].at # "created"

(* Mutant: the machine and the status change places. *)
PutSwapped(m, s) == statusq' = Append(statusq, <<s, m>>) /\ UNCHANGED <<story, scribe>>

Put(m, s) == statusq' = Append(statusq, <<m, s>>) /\ UNCHANGED <<story, scribe>>

----------------------------------------------------------------------------
(* The table.  An edit is notified to whoever listens when it commits. *)

EditRow(m, c) ==
  /\ edits < MaxEdits
  /\ c = NULL => db[m] # NULL
  /\ edits' = edits + 1
  /\ db' = [db EXCEPT ![m] = c]
  /\ IF listening
     THEN wire' = Append(wire, <<m, c>>) /\ missed' = missed \ {m}
     ELSE /\ missed' = IF worker.at = "listen" THEN missed \cup {m} ELSE missed
          /\ UNCHANGED wire
  /\ UNCHANGED <<listening, updates, worker, tasks, adapter, records, main, loop,
                 exits, faults>>

(* An UPDATE of the machine id itself: the trigger tells of the new id only, *)
(* and what becomes of the old one nobody hears.                             *)
RenameRow(m, n) ==
  /\ edits < MaxEdits
  /\ db[m] # NULL /\ db[n] = NULL
  /\ edits' = edits + 1
  /\ \E c \in Configs :
       /\ db' = [db EXCEPT ![m] = NULL, ![n] = c]
       /\ wire' = IF listening THEN Append(wire, <<n, c>>) ELSE wire
  /\ missed' = IF listening THEN (missed \ {n}) \cup {m}
               ELSE IF worker.at = "listen" THEN missed \cup {m, n} ELSE missed
  /\ UNCHANGED <<listening, updates, worker, tasks, adapter, records, main, loop,
                 exits, faults>>

(* cb *)
Notify ==
  /\ Turn /\ listening /\ wire # <<>>
  /\ updates' = Append(updates, Head(wire))
  /\ wire' = Tail(wire)
  /\ UNCHANGED <<table, listening, worker, tasks, adapter, records, main, loop,
                 exits, faults>>

----------------------------------------------------------------------------
(* __updates_worker *)

Awaiting == worker.at = "await"

Cancelled(m) == [mon EXCEPT ![m].cancel = mon[m].at \notin Done]

(* create_task: if the process of the machine's earlier task still runs,    *)
(* nothing holds it any more.                                               *)
Create(m, c) ==
  /\ mon' = [mon EXCEPT ![m] = [NoTask EXCEPT !.at = "created", !.cfg = c]]
  /\ child' = [child EXCEPT ![m] = "none"]
  /\ orphans' = [orphans EXCEPT ![m] = @ + IF child[m] \in Alive THEN 1 ELSE 0]
  /\ tasks' = tasks \cup {m}

At(place) == [at |-> place, m |-> NULL, cfg |-> NULL, cancel |-> FALSE]

KeepsTurn(queue) == loop' = IF queue # <<>> THEN "worker" ELSE "idle"

(* The rows there are become the first updates, in the order of the query. *)
WFetch ==
  /\ Turn /\ worker.at = "fetch" /\ ~worker.cancel
  /\ \E rows \in SetToSeqs({<<m, db[m]>> : m \in {n \in Machines : db[n] # NULL}}) :
       updates' = updates \o rows
  /\ worker' = At("listen")
  /\ UNCHANGED <<table, notices, tasks, adapter, records, main, loop, exits, faults>>

(* The LISTEN is in effect, and the first row fetched is taken at once. *)
WListen ==
  /\ Turn /\ worker.at = "listen" /\ ~worker.cancel
  /\ listening' = TRUE
  /\ worker' = At("get")
  /\ KeepsTurn(updates)
  /\ UNCHANGED <<table, wire, updates, tasks, adapter, records, main, exits, faults>>

Takes(m, c) ==
  /\ worker.at = "get" /\ ~worker.cancel
  /\ Turn \/ (Open /\ loop = "worker")
  /\ updates # <<>>
  /\ Head(updates) = <<m, c>>
  /\ updates' = Tail(updates)

(* An update of a machine that has a task: cancel it and await its end. *)
WReplace(m, c) ==
  /\ Takes(m, c) /\ m \in tasks
  /\ Put(m, IF c = NULL THEN "DESTROYING" ELSE "RELOADING")
  /\ tasks' = tasks \ {m}
  /\ mon' = Cancelled(m)
  /\ worker' = [At("await") EXCEPT !.m = m, !.cfg = c]
  /\ loop' = IF mon[m].at \in Done THEN "worker" ELSE "idle"
  /\ UNCHANGED <<table, notices, child, orphans, main, exits, faults>>

(* One of a machine that has none: start it. *)
WCreate(m, c) ==
  /\ Takes(m, c) /\ m \notin tasks /\ c # NULL
  /\ Create(m, c)
  /\ KeepsTurn(updates')
  /\ UNCHANGED <<table, notices, worker, records, main, exits, faults>>

(* "invalid condition" *)
WIgnore(m) ==
  /\ Takes(m, NULL) /\ m \notin tasks
  /\ KeepsTurn(updates')
  /\ UNCHANGED <<table, notices, worker, tasks, adapter, records, main, exits, faults>>

Resumes == Awaiting /\ ~worker.cancel /\ (Turn \/ (Open /\ loop = "worker"))

(* Mutant: a reload ends like a removal, with nothing started. *)
NoReplacement(m) == Put(m, "DESTROYED") /\ UNCHANGED <<tasks, adapter>>

(* What remains to be done once it has ended. *)
Replacement(m) ==
  IF worker.cfg = NULL
  THEN Put(m, "DESTROYED") /\ UNCHANGED <<tasks, adapter>>
  ELSE Create(m, worker.cfg) /\ UNCHANGED records

(* Mutant: the cancelled task is not awaited. *)
ReturnedAtOnce(m) == worker.m = m

(* The awaited task returned. *)
Returned(m) == worker.m = m /\ mon[m].at = "finished"

WReplaced(m) ==
  /\ Resumes /\ Returned(m)
  /\ Replacement(m)
  /\ worker' = At("get")
  /\ KeepsTurn(updates)
  /\ main' = [main EXCEPT !.gathers = @ \ {m}]
  /\ UNCHANGED <<table, notices, updates, exits, faults>>

(* It was cancelled, or failed: that is what the await raises. *)
WRaised(m) ==
  /\ Resumes
  /\ worker.m = m /\ mon[m].at \in {"cancelled", "crashed"}
  /\ worker' = At(IF mon[m].at = "cancelled" THEN "done" ELSE "crashed")
  /\ listening' = FALSE
  /\ loop' = "idle"
  /\ UNCHANGED <<table, wire, updates, tasks, adapter, records, main, exits, faults>>

(* CancelledError reaches the worker itself: outside its try at the fetch. *)
WCancelled ==
  /\ Turn /\ worker.cancel
  /\ worker' = At(IF worker.at = "fetch" THEN "cancelled" ELSE "done")
  /\ listening' = FALSE
  /\ UNCHANGED <<table, wire, updates, tasks, adapter, records, main, loop, exits, faults>>

----------------------------------------------------------------------------
(* monitor_machine *)

(* create_subprocess_exec starts the process before it first awaits. *)
Spawn(m, status) ==
  /\ Put(m, status)
  /\ \/ /\ mon' = [mon EXCEPT ![m].at = "spawning",
                              ![m].bound = IF @ = "unbound" THEN @ ELSE "old"]
        /\ child' = [child EXCEPT ![m] = "alive"]
        /\ UNCHANGED faults
     \/ /\ faults < MaxFaults
        /\ faults' = faults + 1
        /\ mon' = [mon EXCEPT ![m].at = "crashed"]
        /\ UNCHANGED child

(* What the task of one machine leaves alone. *)
Others == <<table, notices, updates, worker, tasks, orphans, main, loop, exits>>

(* The task stands at a place, with or without a CancelledError to be thrown *)
(* there; it goes on to another.                                             *)
Stands(m, place, cancelled) ==
  Turn /\ mon[m].at = place /\ mon[m].cancel = cancelled

Goes(m, place) == mon' = [mon EXCEPT ![m].at = place, ![m].cancel = FALSE]

Shutdown(m) == Goes(m, "finished") /\ Put(m, "SHUTDOWN") /\ UNCHANGED <<child, faults>>

Signal(m) == child' = [child EXCEPT ![m] = IF @ \in Alive THEN "signalled" ELSE @]

MStart(m) ==
  /\ Open /\ loop = "idle" /\ mon[m].at = "created"
  /\ IF mon[m].cancel
     THEN Goes(m, "cancelled") /\ UNCHANGED <<child, records, faults>>
     ELSE Spawn(m, "STARTING")
  /\ UNCHANGED Others

MSpawned(m) ==
  /\ Stands(m, "spawning", FALSE)
  /\ mon' = [mon EXCEPT ![m].at = "running", ![m].bound = "current"]
  /\ Put(m, "STARTED")
  /\ UNCHANGED <<Others, child, faults>>

(* asyncio kills the process it was starting and waits for it to be gone. *)
MSpawnCancelled(m) ==
  /\ Stands(m, "spawning", TRUE)
  /\ Goes(m, "aborting") /\ Signal(m)
  /\ UNCHANGED <<Others, records, faults>>

(* The handler asks the variable proc for its return code: in the first     *)
(* round nothing was assigned to it, later it is the previous process.      *)
MAborted(m) ==
  /\ Turn /\ mon[m].at = "aborting" /\ (child[m] = "dead" \/ mon[m].cancel)
  /\ IF mon[m].bound = "unbound"
     THEN Goes(m, "crashed") /\ UNCHANGED <<child, records, faults>>
     ELSE Shutdown(m)
  /\ UNCHANGED Others

(* Mutant: the end of the process hides the cancellation. *)
ExitHidesCancel(m) ==
  /\ Turn /\ mon[m].at = "running" /\ child[m] = "dead"
  /\ Goes(m, "sleeping")
  /\ \E s \in {"FAILED", "STOPPED"} : Put(m, s)
  /\ UNCHANGED <<Others, child, faults>>

(* communicate() returned. *)
MExit(m) ==
  /\ Stands(m, "running", FALSE) /\ child[m] = "dead"
  /\ Goes(m, "sleeping")
  /\ \E s \in {"FAILED", "STOPPED"} : Put(m, s)
  /\ UNCHANGED <<Others, child, faults>>

MWake(m) == Stands(m, "sleeping", FALSE) /\ Spawn(m, "RESTARTING") /\ UNCHANGED Others

(* Mutant: the process is told to stop and not waited for. *)
TerminateWithoutWait(m) ==
  /\ Stands(m, "running", TRUE)
  /\ Goes(m, "finished") /\ Signal(m) /\ Put(m, "SHUTDOWN")
  /\ UNCHANGED <<Others, faults>>

(* Cancelled at communicate(): terminate the process unless its end is known. *)
MRunCancelled(m) ==
  /\ Stands(m, "running", TRUE)
  /\ \/ Goes(m, "terminating") /\ Signal(m) /\ UNCHANGED <<records, faults>>
     \/ child[m] = "dead" /\ Shutdown(m)
  /\ UNCHANGED Others

MTerminated(m) ==
  /\ Stands(m, "terminating", FALSE) /\ child[m] = "dead"
  /\ Shutdown(m)
  /\ UNCHANGED Others

(* A second cancellation, in the handler of the first. *)
MTerminationCancelled(m) ==
  /\ Stands(m, "terminating", TRUE)
  /\ Goes(m, "cancelled")
  /\ UNCHANGED <<Others, child, records, faults>>

(* Mutant: a cancellation during the pause only cuts the pause short. *)
SleepSwallowsCancel(m) ==
  /\ Stands(m, "sleeping", TRUE)
  /\ Goes(m, "sleeping")
  /\ UNCHANGED <<Others, child, records, faults>>

MSleepCancelled(m) == Stands(m, "sleeping", TRUE) /\ Shutdown(m) /\ UNCHANGED Others

----------------------------------------------------------------------------
(* The adapter process: it may exit, and does when signalled. *)

ChildExits(m) ==
  /\ \/ child[m] = "signalled" /\ UNCHANGED exits
     \/ child[m] = "alive" /\ exits < MaxExits /\ exits' = exits + 1
  /\ child' = [child EXCEPT ![m] = "dead"]
  /\ UNCHANGED <<table, notices, updates, worker, tasks, mon, orphans, records, main,
                 loop, faults>>

----------------------------------------------------------------------------
(* __status_worker: one transaction per status. *)

SWrite ==
  /\ Turn /\ scribe = "up" /\ statusq # <<>>
  /\ story' = [story EXCEPT ![Head(statusq)[1]] = Head(statusq)[2]]
  /\ statusq' = Tail(statusq)
  /\ UNCHANGED <<table, notices, updates, worker, tasks, adapter, scribe, main, loop,
                 exits, faults>>

SFails ==
  /\ Turn /\ scribe = "up" /\ statusq # <<>>
  /\ faults < MaxFaults /\ faults' = faults + 1
  /\ scribe' = "crashed"
  /\ UNCHANGED <<table, notices, updates, worker, tasks, adapter, statusq, story, main,
                 loop, exits>>

----------------------------------------------------------------------------
(* run() *)

(* KeyboardInterrupt cancels run at the shield: cancel the worker, and with *)
(* it the task it awaits instead of itself, then every task of the table.   *)
Interrupt ==
  /\ Turn /\ main.at = "running"
  /\ LET delegated == Awaiting /\ mon[worker.m].at \notin Done
         hit       == tasks \cup IF delegated THEN {worker.m} ELSE {}
     IN /\ main' = [at |-> "gathering", gathers |-> tasks, delegated |-> delegated]
        /\ worker' = [worker EXCEPT !.cancel = ~delegated /\ worker.at \notin {"done", "crashed"}]
        /\ mon' = [m \in Machines |-> IF m \in hit THEN Cancelled(m)[m] ELSE mon[m]]
  /\ UNCHANGED <<table, notices, updates, tasks, child, orphans, records, loop, exits, faults>>

(* gather raises the first exception of its children, a cancellation too:   *)
(* run() ends there, and the loop with it.                                  *)
RunFails ==
  /\ Turn
  /\ \/ main.at = "running" /\ (worker.at \in {"crashed", "cancelled"} \/ scribe = "crashed")
     \/ /\ main.at = "gathering"
        /\ \/ worker.at \in {"crashed", "cancelled"}
           \/ \E m \in main.gathers : mon[m].at \in {"crashed", "cancelled"}
  /\ main' = [main EXCEPT !.at = "failed"]
  /\ UNCHANGED <<table, notices, updates, worker, tasks, adapter, records, loop, exits, faults>>

MainGathered ==
  /\ Turn /\ main.at = "gathering"
  /\ worker.at = "done"
  /\ \A m \in main.gathers : mon[m].at = "finished"
  /\ main' = [main EXCEPT !.at = "joining", !.gathers = {}]
  /\ UNCHANGED <<table, notices, updates, worker, tasks, adapter, records, loop, exits, faults>>

(* Mutant: the queue is not joined. *)
ClosedWithoutJoin ==
  /\ Turn /\ main.at = "joining" /\ scribe = "up"
  /\ scribe' = "closed"
  /\ main' = [main EXCEPT !.at = "closed"]
  /\ UNCHANGED <<table, notices, updates, worker, tasks, adapter, statusq, story, loop,
                 exits, faults>>

(* Mutant: statuses nobody is there to write are not waited for. *)
JoinGivenUp ==
  /\ Turn /\ main.at = "joining"
  /\ statusq = <<>> \/ scribe = "crashed"
  /\ scribe' = "closed"
  /\ main' = [main EXCEPT !.at = "closed"]
  /\ UNCHANGED <<table, notices, updates, worker, tasks, adapter, statusq, story, loop,
                 exits, faults>>

MainJoined ==
  /\ Turn /\ main.at = "joining"
  /\ statusq = <<>> /\ scribe = "up"
  /\ scribe' = "closed"
  /\ main' = [main EXCEPT !.at = "closed"]
  /\ UNCHANGED <<table, notices, updates, worker, tasks, adapter, statusq, story, loop,
                 exits, faults>>

----------------------------------------------------------------------------
Init ==
  /\ db \in [Machines -> Configs \cup {NULL}]
  /\ listening = FALSE /\ missed = {} /\ wire = <<>> /\ updates = <<>>
  /\ worker = At("fetch")
  /\ tasks = {}
  /\ mon = [m \in Machines |-> NoTask]
  /\ child = [m \in Machines |-> "none"]
  /\ orphans = [m \in Machines |-> 0]
  /\ statusq = <<>> /\ story = [m \in Machines |-> "none"] /\ scribe = "up"
  /\ main = [at |-> "running", gathers |-> {}, delegated |-> FALSE]
  /\ loop = "idle"
  /\ edits = 0 /\ exits = 0 /\ faults = 0

Updates(m) ==
  \/ \E c \in Configs \cup {NULL} : WReplace(m, c)
  \/ \E c \in Configs : WCreate(m, c)
  \/ WIgnore(m) \/ WReplaced(m) \/ WRaised(m)

Worker == WFetch \/ WListen \/ WCancelled \/ \E m \in Machines : Updates(m)

Monitor(m) ==
  \/ MStart(m) \/ MSpawned(m) \/ MSpawnCancelled(m) \/ MAborted(m) \/ MExit(m) \/ MWake(m)
  \/ MRunCancelled(m) \/ MTerminated(m) \/ MTerminationCancelled(m) \/ MSleepCancelled(m)

Run == RunFails \/ MainGathered \/ MainJoined

Edit ==
  \/ \E m \in Machines, c \in Configs \cup {NULL} : EditRow(m, c)
  \/ \E m, n \in Machines : RenameRow(m, n)

Next ==
  \/ Edit \/ Notify \/ Worker \/ Run \/ Interrupt \/ SWrite \/ SFails
  \/ \E m \in Machines : Monitor(m) \/ ChildExits(m)

Spec == Init /\ [][Next]_vars

(* asyncio runs what is ready in the order it became ready, so every         *)
(* coroutine that can go on does; a notification that was sent arrives; a    *)
(* signalled adapter exits (the driver's handler ends its loop).             *)
Fairness ==
  /\ WF_vars(Worker) /\ WF_vars(Notify) /\ WF_vars(SWrite) /\ WF_vars(Run)
  /\ \A m \in Machines : /\ WF_vars(Monitor(m))
                         /\ WF_vars(child[m] = "signalled" /\ ChildExits(m))

FairSpec == Spec /\ Fairness

----------------------------------------------------------------------------
Statuses == {"STARTING", "RESTARTING", "STARTED", "FAILED", "STOPPED", "RELOADING",
             "DESTROYING", "DESTROYED", "SHUTDOWN"}

Running(m) == child[m] \in Alive

Live == {"created", "spawning", "aborting", "running", "sleeping", "terminating"}

Notices == Seq(Machines \X (Configs \cup {NULL}))

WorkerStates ==
  [at : {"fetch", "listen", "get", "await", "done", "cancelled", "crashed"},
   m : Machines \cup {NULL}, cfg : Configs \cup {NULL}, cancel : BOOLEAN]

TaskStates ==
  [at : {"none"} \cup Live \cup Done, bound : {"unbound", "old", "current"},
   cfg : Configs \cup {NULL}, cancel : BOOLEAN]

RunStates ==
  [at : {"running", "gathering", "joining", "closed", "failed"},
   gathers : SUBSET Machines, delegated : BOOLEAN]

(* The type invariant. *)
TypeOK ==
  /\ db \in [Machines -> Configs \cup {NULL}]
  /\ listening \in BOOLEAN
  /\ missed \subseteq Machines
  /\ wire \in Notices /\ updates \in Notices
  /\ worker \in WorkerStates
  /\ tasks \subseteq Machines
  /\ mon \in [Machines -> TaskStates]
  /\ child \in [Machines -> Alive \cup {"none", "dead"}]
  /\ orphans \in [Machines -> Nat]
  /\ statusq \in Seq(Machines \X Statuses)
  /\ story \in [Machines -> Statuses \cup {"none"}]
  /\ scribe \in {"up", "crashed", "closed"}
  /\ main \in RunStates
  /\ loop \in {"idle", "worker"}
  /\ edits \in 0..MaxEdits /\ exits \in 0..MaxExits /\ faults \in 0..MaxFaults

(* Until the daemon is interrupted no machine is polled by two adapters: an *)
(* update awaits the end of the old process before it starts the new one,   *)
(* whatever the old one was doing and however the awaiting ended.  (The     *)
(* interrupt can break it: the second CancelledError of a task that is      *)
(* waiting for a killed process makes it return before the process is gone, *)
(* and the worker, which did not get the cancellation, starts the next.)    *)
OneProcessPerMachine ==
  main.at = "running" =>
    \A m \in Machines : orphans[m] + (IF Running(m) THEN 1 ELSE 0) <= 1

(* While the daemon runs, every running process is one it can still stop:   *)
(* its task is in self.tasks, or the worker is waiting for it.  Nothing     *)
(* that fails half-way leaves an adapter nobody remembers.                  *)
NoStrayProcess ==
  main.at = "running" =>
    \A m \in Machines :
      Running(m) => m \in tasks \/ (Awaiting /\ worker.m = m)

(* After a clean end everything was recorded and no adapter is left that    *)
(* was not told to stop, if the interrupt stopped the worker.  If it hit    *)
(* the task the worker awaited instead, the worker may have gone on: what   *)
(* it started afterwards is still in self.tasks and runs on, and an adapter *)
(* whose termination was itself cancelled was signalled and not waited for. *)
CleanClose ==
  main.at = "closed" =>
    /\ statusq = <<>>
    /\ \A m \in Machines :
         /\ mon[m].at = "finished" => story[m] \in {"SHUTDOWN", "DESTROYED"}
         /\ ~main.delegated =>
              mon[m].at \in {"none"} \cup Done /\ ~Running(m) /\ orphans[m] = 0
         /\ Running(m) => child[m] = "signalled" \/ (m \in tasks /\ mon[m].at \notin Done)

(* What is recorded of a machine: the last status queued, else written. *)
Said(m) ==
  LET own == {k \in DOMAIN statusq : statusq[k][1] = m}
  IN IF own = {} THEN story[m] ELSE statusq[Max(own)][2]

Announced == {"RELOADING", "DESTROYING"}

Sequel(s) ==
  CASE s = "none"                  -> {"STARTING"} \cup Announced
    [] s = "STARTING"              -> {"STARTED"} \cup Announced
    [] s = "RESTARTING"            -> {"STARTED", "SHUTDOWN"} \cup Announced
    [] s = "STARTED"               -> {"FAILED", "STOPPED", "SHUTDOWN"} \cup Announced
    [] s \in {"FAILED", "STOPPED"} -> {"RESTARTING", "SHUTDOWN"} \cup Announced
    [] s \in Announced             -> {"SHUTDOWN"}
    [] s = "SHUTDOWN"              -> {"STARTING", "DESTROYED"} \cup Announced
    [] s = "DESTROYED"             -> {"STARTING"} \cup Announced

(* The worker and the machine's own task write one story between them: a    *)
(* task that was told to stop says nothing but that it has shut down, and   *)
(* nothing starts before it has.  (An interrupt stops tasks the worker,     *)
(* still taking updates, then finds stopped already.)                       *)
StatusStory ==
  [][\A m \in Machines, s \in Statuses :
       statusq' = Append(statusq, <<m, s>>) =>
         s \in Sequel(Said(m)) \/ (main.at = "gathering" /\ Said(m) \in Announced)]_vars

(* Once the table is left alone, every machine whose last edit was told     *)
(* comes to be polled with the configuration of its row, or not polled if   *)
(* it has none (not the machine renamed away, whose adapter goes on, nor    *)
(* one edited between the fetch and the LISTEN): however the edits, the     *)
(* exits of the adapters and the reloads interleaved, as long as the daemon *)
(* and its worker live and the adapter could be started.                    *)
Applied(m) ==
  IF db[m] = NULL
  THEN m \notin tasks /\ ~Running(m)
  ELSE m \in tasks /\ mon[m].cfg = db[m] /\ mon[m].at \in {"running", "crashed"}

TableApplied ==
  <>[](main.at # "running" \/ worker.at \in {"done", "crashed"} \/
       \A m \in Machines \ missed : Applied(m))

(* If the worker itself was cancelled, and not a task in its place, the     *)
(* daemon ends.                                                             *)
ShutdownEnds ==
  (main.at = "gathering" /\ worker.cancel) ~>
    (main.at \in {"closed", "failed"} \/ scribe = "crashed")

----------------------------------------------------------------------------
(* What the repository says of the daemon and the code does not do. *)

(* daemon.py:207, "shield workers from first CancelledError", and monitor/  *)
(* README.md, "update if new ip address, add if new id": while the daemon   *)
(* was not interrupted, the worker that applies updates is there.           *)
WorkerShielded == main.at = "running" => worker.at # "done"

(* daemon.py:210, "cancel worker and worker tasks", and 220, "finally,      *)
(* close status worker": an interrupted daemon ends.                        *)
InterruptEnds ==
  main.at = "gathering" ~> (main.at \in {"closed", "failed"} \/ scribe = "crashed")
=============================================================================
