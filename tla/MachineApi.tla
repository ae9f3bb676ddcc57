------------------------------ MODULE MachineApi ------------------------------
(***************************************************************************)
(* The monitor's HTTP API (monitor/api.py): /check probes a machine and    *)
(* keeps the answer in the table machine_pings, /update writes the machine *)
(* that answered last into the table machines.                             *)
(*                                                                         *)
(* A probe runs in a thread of its own and calls the FOCAS library, whose  *)
(* one connection belongs to the process.  An asyncio lock, held by the    *)
(* probe's coroutine and not by its thread, is to keep probes apart.  When *)
(* a client goes away aiohttp 3.6 throws CancelledError into its handler,  *)
(* at the await where it stands; the coroutine of the probe is a job of    *)
(* its own (aiojobs), which that does not reach.                           *)
(*                                                                         *)
(* External: the machines and who has which address, the FOCAS library,    *)
(* PostgreSQL.  Left out: /status, which only reads.                       *)
(***************************************************************************)
EXTENDS Integers, Sequences

CONSTANTS
  NULL,         \* no machine, no connection
  Machines,     \* machine ids, as rdcncid reports them
  Addresses,    \* what requests name: of the form [ip, port]
  Nets,         \* who may have which address at first
  MaxRequests,  \* bound on the requests
  MaxMoves,     \* bound on the changes of who has which address
  MaxFaults     \* bound on clients that leave and restarts of the API

ASSUME NullAssumption == NULL \notin Machines \cup Addresses

ASSUME AddressesAssumption == \A a \in Addresses : DOMAIN a = {"ip", "port"} /\ a.port \in Int

(* validate_machine_port: 65535 is not accepted either. *)
Valid == {a \in Addresses : 0 < a.port /\ a.port < 65535}

ASSUME NetsAssumption == Nets \subseteq [Valid -> Machines \cup {NULL}]

ASSUME BoundsAssumption == MaxRequests \in Nat /\ MaxMoves \in Nat /\ MaxFaults \in Nat

VARIABLES
  net,        \* valid address -> the machine there, or NULL
  truths,     \* history: who has had which address
  library,    \* the address the library is connected to, or NULL
  req,        \* the requests so far, with their handlers and probes
  waiting,    \* the probes that wait for the lock
  running,    \* the probes that hold it
  clock,      \* utcnow()
  pings,      \* machine_pings
  machines,   \* machine -> its address, or NULL
  moves, faults

world  == <<net, truths, moves>>
lock   == <<waiting, running>>
tables == <<pings, machines>>
vars   == <<world, library, req, lock, clock, tables, faults>>

Answers == {"ok", "null", "rejected", "failed"}

Request(op, m, a, at) ==
  [op |-> op, machine |-> m, addr |-> a, at |-> at, probe |-> "none", id |-> NULL, date |-> 0]

Step(r, at) == req' = [req EXCEPT ![r].at = at]

Probing(r, probe) == req' = [req EXCEPT ![r].probe = probe]

----------------------------------------------------------------------------
(* Machines get, change and give up addresses. *)
Moves ==
  /\ moves < MaxMoves
  /\ moves' = moves + 1
  /\ \E a \in Valid, m \in Machines \cup {NULL} :
       /\ net' = [net EXCEPT ![a] = m]
       /\ truths' = truths \cup {<<m, a>>}
  /\ UNCHANGED <<library, req, lock, clock, tables, faults>>

----------------------------------------------------------------------------
(* app_check *)

Check(a) ==
  /\ Len(req) < MaxRequests
  /\ IF a \in Valid
     THEN /\ req' = Append(req, [Request("check", NULL, a, "probing") EXCEPT !.probe = "waiting"])
          /\ waiting' = Append(waiting, Len(req'))
     ELSE /\ req' = Append(req, Request("check", NULL, a, "rejected"))
          /\ UNCHANGED waiting
  /\ UNCHANGED <<world, library, running, clock, tables, faults>>

(* The first in the line gets the lock and starts its thread. *)
Acquire ==
  /\ waiting # <<>> /\ running = {}
  /\ waiting' = Tail(waiting)
  /\ running' = {Head(waiting)}
  /\ Probing(Head(waiting), "connect")
  /\ UNCHANGED <<world, library, clock, tables, faults>>

(* allclibhndl3, before the try: where it fails there is nothing to free. *)
Connect(r) ==
  /\ req[r].probe = "connect"
  /\ \/ /\ net[req[r].addr] # NULL
        /\ library' = req[r].addr
        /\ Probing(r, "id")
     \/ /\ Probing(r, "done")
        /\ UNCHANGED library
  /\ UNCHANGED <<world, lock, clock, tables, faults>>

(* rdcncid, of the machine the library is connected to. *)
ReadId(r) ==
  /\ req[r].probe = "id"
  /\ library # NULL /\ net[library] # NULL
  /\ req' = [req EXCEPT ![r].probe = "axes", ![r].id = net[library]]
  /\ UNCHANGED <<world, library, lock, clock, tables, faults>>

ReadAxes(r) ==
  /\ req[r].probe = "axes"
  /\ Probing(r, "free")
  /\ UNCHANGED <<world, library, lock, clock, tables, faults>>

(* Mutant: no finally. *)
ReadFailsUnfreed(r) ==
  /\ req[r].probe \in {"id", "axes"}
  /\ req' = [req EXCEPT ![r].probe = "done", ![r].id = NULL]
  /\ UNCHANGED <<world, library, lock, clock, tables, faults>>

ReadFails(r) ==
  /\ req[r].probe \in {"id", "axes"}
  /\ req' = [req EXCEPT ![r].probe = "free", ![r].id = NULL]
  /\ UNCHANGED <<world, library, lock, clock, tables, faults>>

(* freelibhndl *)
Free(r) ==
  /\ req[r].probe = "free"
  /\ library' = NULL
  /\ Probing(r, "done")
  /\ UNCHANGED <<world, lock, clock, tables, faults>>

(* Mutant: the lock is released after the thread's result is looked at. *)
ReturnUnreleased(r) ==
  /\ req[r].probe = "done" /\ r \in running
  /\ running' = IF req[r].id = NULL THEN running ELSE running \ {r}
  /\ IF req[r].at # "probing"
     THEN Probing(r, "none") /\ UNCHANGED clock
     ELSE /\ req' = [req EXCEPT ![r].probe = "none", ![r].date = clock,
                                ![r].at = IF req[r].id = NULL THEN "null" ELSE "recording"]
          /\ clock' = clock + 1
  /\ UNCHANGED <<world, library, waiting, tables, faults>>

(* Mutant: a probe without a result is recorded too. *)
ReturnUnlooked(r) ==
  /\ req[r].probe = "done" /\ r \in running
  /\ running' = running \ {r}
  /\ IF req[r].at # "probing"
     THEN Probing(r, "none") /\ UNCHANGED clock
     ELSE /\ req' = [req EXCEPT ![r].probe = "none", ![r].date = clock, ![r].at = "recording"]
          /\ clock' = clock + 1
  /\ UNCHANGED <<world, library, waiting, tables, faults>>

(* The thread's result is the job's, whose end is the end of the lock.  The *)
(* handler, if it still waits, answers null or dates the ping.              *)
Return(r) ==
  /\ req[r].probe = "done" /\ r \in running
  /\ running' = running \ {r}
  /\ IF req[r].at # "probing"
     THEN Probing(r, "none") /\ UNCHANGED clock
     ELSE /\ req' = [req EXCEPT ![r].probe = "none", ![r].date = clock,
                                ![r].at = IF req[r].id = NULL THEN "null" ELSE "recording"]
          /\ clock' = clock + 1
  /\ UNCHANGED <<world, library, waiting, tables, faults>>

Record(r) ==
  /\ req[r].at = "recording"
  /\ Step(r, "ok")
  /\ pings' = pings \cup {[date |-> req[r].date, machine |-> req[r].id, addr |-> req[r].addr]}
  /\ UNCHANGED <<world, library, lock, clock, machines, faults>>

----------------------------------------------------------------------------
(* app_update *)

Update(m, a) ==
  /\ Len(req) < MaxRequests
  /\ req' = Append(req, Request("update", m, a, "comparing"))
  /\ UNCHANGED <<world, library, lock, clock, tables, faults>>

(* Mutant: the machine's id is not compared. *)
MatchesAddress(r, ping) == ping.addr = req[r].addr

(* An invalid port is None by now, but no ping has one anyway. *)
Matches(r, ping) == ping.machine = req[r].machine /\ ping.addr = req[r].addr

Latest(ping) == ping \in pings /\ \A other \in pings : other.date <= ping.date

(* order by date desc, of whichever machine *)
Compare(r) ==
  /\ req[r].at = "comparing"
  /\ Step(r, IF \E ping \in pings : Latest(ping) /\ Matches(r, ping)
             THEN "choosing" ELSE "rejected")
  /\ UNCHANGED <<world, library, lock, clock, tables, faults>>

(* Mutant: the row is taken for granted. *)
ChooseUpdate(r) ==
  /\ req[r].at = "choosing"
  /\ Step(r, "updating")
  /\ UNCHANGED <<world, library, lock, clock, tables, faults>>

(* existing_machine *)
Choose(r) ==
  /\ req[r].at = "choosing"
  /\ Step(r, IF machines[req[r].machine] = NULL THEN "inserting" ELSE "updating")
  /\ UNCHANGED <<world, library, lock, clock, tables, faults>>

(* The id is the primary key: a row that has come since fails the insert. *)
InsertRow(r) ==
  /\ req[r].at = "inserting"
  /\ IF machines[req[r].machine] = NULL
     THEN /\ machines' = [machines EXCEPT ![req[r].machine] = req[r].addr]
          /\ Step(r, "ok")
     ELSE Step(r, "failed") /\ UNCHANGED machines
  /\ UNCHANGED <<world, library, lock, clock, pings, faults>>

UpdateRow(r) ==
  /\ req[r].at = "updating"
  /\ machines' = [m \in Machines |->
                    IF m = req[r].machine /\ machines[m] # NULL THEN req[r].addr ELSE machines[m]]
  /\ Step(r, "ok")
  /\ UNCHANGED <<world, library, lock, clock, pings, faults>>

----------------------------------------------------------------------------
(* Mutant: the probe is not a job of its own, but awaited by the handler:   *)
(* the lock is released, the thread goes on.                                *)
ClientLeavesUnshielded(r) ==
  /\ faults < MaxFaults
  /\ faults' = faults + 1
  /\ req[r].at \notin Answers \cup {"gone"}
  /\ Step(r, "gone")
  /\ running' = running \ {r}
  /\ waiting' = SelectSeq(waiting, LAMBDA s : s # r)
  /\ UNCHANGED <<world, library, clock, tables>>

(* The handler is cancelled; a statement on its way was executed (Record,   *)
(* InsertRow, UpdateRow before this step) or was not.  The probe goes on.   *)
ClientLeaves(r) ==
  /\ faults < MaxFaults
  /\ faults' = faults + 1
  /\ req[r].at \notin Answers \cup {"gone"}
  /\ Step(r, "gone")
  /\ UNCHANGED <<world, library, lock, clock, tables>>

(* The process ends and a new one has the tables, and nothing else. *)
ApiRestarts ==
  /\ faults < MaxFaults
  /\ faults' = faults + 1
  /\ req' = [r \in DOMAIN req |->
               IF req[r].at \in Answers THEN req[r]
               ELSE [req[r] EXCEPT !.at = "gone", !.probe = "none"]]
  /\ library' = NULL
  /\ waiting' = <<>> /\ running' = {}
  /\ UNCHANGED <<world, clock, tables>>

Init ==
  /\ net \in Nets
  /\ truths = {<<net[a], a>> : a \in Valid}
  /\ library = NULL
  /\ req = <<>> /\ waiting = <<>> /\ running = {}
  /\ clock = 1
  /\ pings = {} /\ machines = [m \in Machines |-> NULL]
  /\ moves = 0 /\ faults = 0

Thread(r)  == Connect(r) \/ ReadId(r) \/ ReadAxes(r) \/ ReadFails(r) \/ Free(r)
Handler(r) == Record(r) \/ Compare(r) \/ Choose(r) \/ InsertRow(r) \/ UpdateRow(r)

Next ==
  \/ Moves
  \/ \E a \in Addresses : Check(a) \/ \E m \in Machines : Update(m, a)
  \/ Acquire
  \/ \E r \in DOMAIN req : Thread(r) \/ Return(r) \/ Handler(r) \/ ClientLeaves(r)
  \/ ApiRestarts

Spec == Init /\ [][Next]_vars

(* The calls of a probe have a timeout (ten seconds), statements end, and   *)
(* the event loop gets to every handler.  Nobody has to send a request.     *)
FairSpec ==
  /\ Spec
  /\ WF_vars(Acquire)
  /\ \A r \in 1..MaxRequests :
       /\ WF_vars(r \in DOMAIN req /\ Thread(r))
       /\ WF_vars(r \in DOMAIN req /\ Return(r))
       /\ WF_vars(r \in DOMAIN req /\ Handler(r))

----------------------------------------------------------------------------
Requests ==
  [op : {"check", "update"}, machine : Machines \cup {NULL}, addr : Addresses,
   at : Answers \cup {"probing", "recording", "comparing", "choosing", "inserting",
                      "updating", "gone"},
   probe : {"none", "waiting", "connect", "id", "axes", "free", "done"},
   id : Machines \cup {NULL}, date : Nat]

(* The type invariant; a ping is of a machine, at a port that can be used. *)
TypeOK ==
  /\ net \in [Valid -> Machines \cup {NULL}]
  /\ library \in Valid \cup {NULL}
  /\ req \in Seq(Requests) /\ Len(req) <= MaxRequests
  /\ waiting \in Seq(DOMAIN req) /\ running \subseteq DOMAIN req
  /\ clock \in Nat
  /\ pings \subseteq [date : 0..clock-1, machine : Machines, addr : Valid]
  /\ machines \in [Machines -> Valid \cup {NULL}]
  /\ moves \in 0..MaxMoves /\ faults \in 0..MaxFaults

(* The machine a ping names has been at the ping's address: the one         *)
(* connection of the library was not turned to another machine between      *)
(* allclibhndl3 and rdcncid, whichever clients went away meanwhile.         *)
PingsTrue == \A p \in pings : <<p.machine, p.addr>> \in truths

(* A machine is only ever said to be where it answered a probe: however     *)
(* checks and updates interleave, a row of machines is that of some ping.   *)
RowsProbed ==
  \A m \in Machines : machines[m] # NULL => \E p \in pings : p.machine = m /\ p.addr = machines[m]

(* Two updates of a new machine both find it missing; one of them fails.    *)
(* An update that was answered OK, and one that failed, leaves a row.       *)
UpdatedIsKnown ==
  \A r \in DOMAIN req :
    req[r].op = "update" /\ req[r].at \in {"ok", "failed"} => machines[req[r].machine] # NULL

(* Without a probe's thread there is no connection: every way out of one    *)
(* frees it, also after a failure and when nobody waits for the result.     *)
ConnectionFreed ==
  (\A r \in DOMAIN req : req[r].probe \notin {"id", "axes", "free"}) => library = NULL

(* Every request is answered or given up by its client: a probe that fails, *)
(* and one nobody waits for any more, gives the lock to the next.           *)
RequestsEnd ==
  \A r \in 1..MaxRequests :
    r \in DOMAIN req ~> r \in DOMAIN req /\ req[r].at \in Answers \cup {"gone"}
=============================================================================
