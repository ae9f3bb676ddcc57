---------------------------- MODULE StagingStreams ----------------------------
(***************************************************************************)
(* The staging topology (streams/src/main/kotlin/Staging.kt) on one        *)
(* partition of the topic "input" that drivers write to.                   *)
(*                                                                         *)
(* One task reads "input": it drops part counts and execution states that  *)
(* do not differ from the machine's last ones, prints how long each ended  *)
(* state took, and sends part counts and programs on through a repartition *)
(* topic each.  A second task joins the part counts with a table of each   *)
(* machine's last program.  Processing is exactly-once: what a task read,  *)
(* stored and sent becomes visible together when it commits, and is taken  *)
(* back when the process ends before that; what it printed is not.         *)
(*                                                                         *)
(* A record is known by its offset, which stands for its timestamp too.    *)
(* Left out: the hash table and the session store, which nothing reads     *)
(* into an output; the commented-out outputs.                              *)
(***************************************************************************)
EXTENDS Integers, Sequences

CONSTANTS
  NULL,        \* a key the message does not have
  Machines,    \* the keys of the topic
  Records,     \* the messages drivers may send
  Length,      \* of the topic
  MaxExits     \* bound on the ends of the process

ASSUME RecordsAssumption ==
  /\ \A r \in Records :
       /\ DOMAIN r = {"machine", "parts", "program", "execution", "ok"}
       /\ r.machine \in Machines
       /\ r.parts = NULL \/ r.parts \in Nat
       /\ r.ok \in BOOLEAN
  /\ NULL \notin Nat

ASSUME LimitsAssumption == Length \in Nat \ {0} /\ MaxExits \in Nat

VARIABLES
  input,       \* the topic
  thread,      \* "down", "up", or "dead" in a process that lives on
  source,      \* the first task: its position and its stores
  sent,        \* what it has sent and not committed
  saved,       \* source as of its last commit
  parts,       \* the repartition topic of part counts, committed records only
  programs,    \* the repartition topic of programs
  join,        \* the second task: its two positions and its table
  joined,      \* what it has joined and not committed
  joinSaved,   \* join as of its last commit
  events,      \* partCompletedEvents
  printed,     \* the printed durations
  exits

tasks == <<source, sent, join, joined>>
log   == <<saved, parts, programs, joinSaved, events>>
vars  == <<input, thread, tasks, log, printed, exits>>

----------------------------------------------------------------------------
NoneYet(x) == [m \in Machines |-> x]

NewSource == [pos |-> 0, counts |-> NoneYet(NULL), states |-> NoneYet(NULL), spans |-> NoneYet(0)]

NewJoin == [parts |-> 0, programs |-> 0, table |-> NoneYet(0)]

Nothing == [parts |-> <<>>, programs |-> <<>>]

Countable(r) == r.parts # NULL /\ r.parts > 0

(* DedupTransformer: v is let through, and stored, if the store has another. *)
Passes(store, r, v) == store[r.machine] # v

NewCount(r) == Countable(r) /\ Passes(source.counts, r, r.parts)
NewState(r) == r.execution # NULL /\ Passes(source.states, r, r.execution)

Put(store, m, v, when) == IF when THEN [store EXCEPT ![m] = v] ELSE store

AppendIf(q, x, when) == IF when THEN Append(q, x) ELSE q

(* ExecutionDurationTransformer: the machine's previous state ends where its *)
(* new one begins.                                                           *)
Ended(i) ==
  LET start == source.spans[input[i].machine]
  IN IF NewState(input[i]) /\ start # 0 THEN {[start |-> start, end |-> i]} ELSE {}

----------------------------------------------------------------------------
(* The thread takes the next record through the first task. *)
Process ==
  /\ thread = "up" /\ source.pos < Len(input)
  /\ LET i == source.pos + 1
         r == input[i]
     IN /\ r.ok
        /\ source' = [pos    |-> i,
                      counts |-> Put(source.counts, r.machine, r.parts, NewCount(r)),
                      states |-> Put(source.states, r.machine, r.execution, NewState(r)),
                      spans  |-> Put(source.spans, r.machine, i, NewState(r))]
        /\ sent' = [parts    |-> AppendIf(sent.parts, i, NewCount(r)),
                    programs |-> AppendIf(sent.programs, i, r.program # NULL)]
        /\ printed' = printed \cup Ended(i)
  /\ UNCHANGED <<input, thread, join, joined, log, exits>>

(* The open transactions are aborted: nobody gets to see what they sent. *)
Abort == sent' = Nothing /\ joined' = <<>>

(* fromJson or the conversion throws: no handler is set, so the only stream *)
(* thread dies, and main goes on waiting for its latch.                     *)
Dies ==
  /\ thread = "up" /\ source.pos < Len(input)
  /\ ~input[source.pos + 1].ok
  /\ thread' = "dead"
  /\ Abort
  /\ UNCHANGED <<input, source, join, log, printed, exits>>

(* Mutant: the position is saved when the output is, and not with it. *)
CommitOutputFirst ==
  /\ thread = "up" /\ source # saved
  /\ saved' = IF sent = Nothing THEN source ELSE saved
  /\ parts' = parts \o sent.parts
  /\ programs' = programs \o sent.programs
  /\ sent' = Nothing
  /\ UNCHANGED <<input, thread, source, join, joined, joinSaved, events, printed, exits>>

(* Mutant: there is nothing to commit where nothing was sent. *)
CommitOutputOnly ==
  /\ thread = "up" /\ sent # Nothing
  /\ saved' = source
  /\ parts' = parts \o sent.parts
  /\ programs' = programs \o sent.programs
  /\ sent' = Nothing
  /\ UNCHANGED <<input, thread, source, join, joined, joinSaved, events, printed, exits>>

CommitSource ==
  /\ thread = "up" /\ source # saved
  /\ saved' = source
  /\ parts' = parts \o sent.parts
  /\ programs' = programs \o sent.programs
  /\ sent' = Nothing
  /\ UNCHANGED <<input, thread, source, join, joined, joinSaved, events, printed, exits>>

(* The second task takes whichever of its two topics has a record: the part *)
(* count and the program of one message may come in either order.           *)
ReadPart ==
  /\ thread = "up" /\ join.parts < Len(parts)
  /\ LET i == parts[join.parts + 1]
         p == join.table[input[i].machine]
     IN joined' = AppendIf(joined, [part |-> i, program |-> p], p # 0)
  /\ join' = [join EXCEPT !.parts = @ + 1]
  /\ UNCHANGED <<input, thread, source, sent, log, printed, exits>>

ReadProgram ==
  /\ thread = "up" /\ join.programs < Len(programs)
  /\ LET i == programs[join.programs + 1]
     IN join' = [join EXCEPT !.programs = @ + 1, !.table[input[i].machine] = i]
  /\ UNCHANGED <<input, thread, source, sent, joined, log, printed, exits>>

(* Mutant: the events are sent, and the positions saved by the next commit. *)
CommitEventsFirst ==
  /\ thread = "up" /\ join # joinSaved
  /\ joinSaved' = IF joined = <<>> THEN join ELSE joinSaved
  /\ events' = events \o joined
  /\ joined' = <<>>
  /\ UNCHANGED <<input, thread, source, sent, join, saved, parts, programs, printed, exits>>

(* Mutant: the position of the next part count is saved. *)
CommitNextPosition ==
  /\ thread = "up" /\ join # joinSaved
  /\ joinSaved' = [join EXCEPT !.parts = @ + 1]
  /\ events' = events \o joined
  /\ joined' = <<>>
  /\ UNCHANGED <<input, thread, source, sent, join, saved, parts, programs, printed, exits>>

CommitJoin ==
  /\ thread = "up" /\ join # joinSaved
  /\ joinSaved' = join
  /\ events' = events \o joined
  /\ joined' = <<>>
  /\ UNCHANGED <<input, thread, source, sent, join, saved, parts, programs, printed, exits>>

(* Killed, or closed by the shutdown hook after its last commits. *)
Exit ==
  /\ thread # "down" /\ exits < MaxExits
  /\ exits' = exits + 1
  /\ thread' = "down"
  /\ Abort
  /\ UNCHANGED <<input, source, join, log, printed>>

(* Mutant: the stores are wiped and have no changelog. *)
StartEmpty ==
  /\ thread = "down"
  /\ thread' = "up"
  /\ source' = [NewSource EXCEPT !.pos = saved.pos]
  /\ join' = [joinSaved EXCEPT !.table = NewJoin.table]
  /\ UNCHANGED <<input, sent, joined, log, printed, exits>>

(* Mutant: the table is not wiped, and may be ahead of the positions. *)
StartAhead ==
  /\ thread = "down"
  /\ thread' = "up"
  /\ source' = saved
  /\ join' = [joinSaved EXCEPT !.table = join.table]
  /\ UNCHANGED <<input, sent, joined, log, printed, exits>>

(* cleanUp wipes the stores, start restores them from their changelogs. *)
Start ==
  /\ thread = "down"
  /\ thread' = "up"
  /\ source' = saved
  /\ join' = joinSaved
  /\ UNCHANGED <<input, sent, joined, log, printed, exits>>

Init ==
  /\ input \in [1..Length -> Records]
  /\ thread = "down"
  /\ source = NewSource /\ saved = NewSource /\ sent = Nothing
  /\ parts = <<>> /\ programs = <<>>
  /\ join = NewJoin /\ joinSaved = NewJoin /\ joined = <<>> /\ events = <<>>
  /\ printed = {}
  /\ exits = 0

StreamThread == Process \/ Dies \/ CommitSource \/ ReadPart \/ ReadProgram \/ CommitJoin

Next == StreamThread \/ Exit \/ Start

Spec == Init /\ [][Next]_vars

(* The thread goes on while it lives.  Nothing promises that a process that *)
(* ended is started again: prod.yml has no restart policy for streams.      *)
FairSpec == Spec /\ WF_vars(StreamThread)

----------------------------------------------------------------------------
Values(k) == {NULL} \cup {r[k] : r \in Records}

Sources ==
  [pos    : 0..Length,
   counts : [Machines -> Values("parts")],
   states : [Machines -> Values("execution")],
   spans  : [Machines -> 0..Length]]

Joins ==
  [parts    : 0..Len(parts),
   programs : 0..Len(programs),
   table    : [Machines -> 0..Length]]

Offsets == Seq(1..Length)

Events == Seq([part : 1..Length, program : 1..Length])

(* The type invariant: positions within the topics, offsets within "input". *)
TypeOK ==
  /\ input \in [1..Length -> Records]
  /\ thread \in {"down", "up", "dead"}
  /\ source \in Sources /\ saved \in Sources
  /\ parts \in Offsets /\ programs \in Offsets
  /\ sent \in [parts : Offsets, programs : Offsets]
  /\ join \in Joins /\ joinSaved \in Joins
  /\ events \in Events /\ joined \in Events
  /\ printed \subseteq [start : 1..Length, end : 1..Length]
  /\ exits \in 0..MaxExits

----------------------------------------------------------------------------
Feed == INSTANCE StagedFeed WITH done <- saved.pos

(* Exactly once: the records on their way to the join are those of one pass *)
(* over the topic up to the committed position, however often the process   *)
(* ended in between; nothing is repeated, left out or reordered, and the    *)
(* message that cannot be read is never passed.                             *)
ExactlyOnce == Feed!Spec

(* A printed duration is from one change of a machine's state to its next,  *)
(* and none is missing below the committed position: the lines are not part *)
(* of a transaction, but a repeated line repeats the truth.                 *)
DurationsTrue ==
  /\ printed \subseteq Feed!Spans(Length)
  /\ Feed!Spans(saved.pos) \subseteq printed

Machine(e) == input[e.part].machine

(* Every part count the join has read is in exactly one event, except those *)
(* that came before their machine's first event, for want of a program.     *)
PartsJoinedOnce ==
  /\ \A a, b \in 1..Len(events) : a < b => events[a].part < events[b].part
  /\ \A k \in 1..joinSaved.parts : \A b \in 1..Len(events) :
       Machine(events[b]) = input[parts[k]].machine =>
         parts[k] < events[b].part \/ \E a \in 1..Len(events) : events[a].part = parts[k]

(* A machine's later part is never booked to an earlier program. *)
ProgramsNeverGoBack ==
  \A a, b \in 1..Len(events) :
    a < b /\ Machine(events[a]) = Machine(events[b]) => events[a].program <= events[b].program

(* A process that stays up and does not meet an unreadable message comes to *)
(* have the whole topic behind it, both tasks committed.                    *)
CatchesUp ==
  <>[](thread = "up") =>
    <>[](saved.pos = Length /\ joinSaved.parts = Len(parts) /\ joinSaved.programs = Len(programs))
=============================================================================
