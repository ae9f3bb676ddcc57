# Verification of fanuc_driver

`fanuc_driver` polls numerical controls of machine tools and turns what it sees
into a stream of changes that other programs store and analyse. This directory
holds TLA+ models of it, the instances TLC checks, and proofs that TLAPS checks.
Line numbers below are those of the repository's sources.

## 1. The system

```
 control --FOCAS--> driver --rows of changes--> Kafka "input" --> streams --> sinks --> PostgreSQL --> SQL
                      ^                                      \--> debug consumers -------^
 machine_monitor --> monitor daemon (one adapter process per row)
 machines, machine_pings <-- monitor API
```

| part | state | operations | who it talks to | what is hard |
|---|---|---|---|---|
| driver (`driver/src/main.c`, `check.c`, `data.c`) | the last reading of every check (statics), `cProgramNum`, `mProgramNum`, `mProgramPath`, `partCount`, the way tools are read, the message being composed, librdkafka's queue, `runningCondition` | ten checks per tick, produce, flush, signal handler | the control, librdkafka | the readings of one tick are of different moments; what is remembered as sent may never arrive; exits without a flush; restarts |
| driver configuration (`config.c`) | none that changes | `read_config`, called once (`main.c:95`) | - | in no CMake target |
| `debug.c` (target `fanuc_debug`) | as the driver | the loop, printed | the control | - |
| staging streams (`Staging.kt`, `AdapterDatumTransformer.kt`) | stores `part_counts`, `executions`, `executions_duration`, `sessions`, the program table | deduplicate, duration of a state, join part counts with programs | Kafka | order of two outputs of one input, wiped stores, exactly-once restarts |
| monitoring streams (`SerialMonitoringStreamProcessing.kt`) | windows and sessions | convert a message to a row, count | Kafka | late records, closed windows |
| sinks (`connect/`) | Kafka Connect's positions | upsert by offset and partition | Kafka, PostgreSQL | aborted and repeated records |
| debug consumers (`debug/*.py`) | a queue, a transaction | read, convert, insert | Kafka, PostgreSQL | done before inserted, uncommitted rows |
| monitor daemon (`monitor/daemon.py`) | `tasks`, `updates_queue`, `status_queue`, a coroutine per machine | apply an update, run and restart an adapter, record a status, shut down | PostgreSQL (LISTEN), processes | cancellation at every await, failing halfway, lost notifications |
| monitor API (`monitor/api.py`) | a lock; the tables `machine_pings`, `machines` | check, update, status | FOCAS, PostgreSQL | select then insert, a lock and a thread |
| SQL (`query*.sql`) | none | window queries | PostgreSQL | first and last rows of a window, resets |
| deployment, notebooks, spark, scripts | - | - | - | - |

What makes each part correct:

- *driver*: whoever lays the messages over each other has what the driver read
  last; a message is complete in itself where its keys belong together; a restart
  repairs; the reader converges when the machine stands still; a signal ends it.
- *daemon*: the table and the running adapters come to agree, never two adapters
  for a machine, none forgotten, a true story of statuses, a clean end.
- *streams*: no state reported twice in a row, durations that partition time, a
  part counted once and with the program that made it, over restarts too.
- *sinks and consumers*: every message stored at least once, in one row, its own.
- *API*: what is in `machines` was probed, a probe asked the machine it names, every
  request is answered.
- *queries*: they agree with the streams that compute the same.

The hazards, each at its line, are the `hazards` of `PROJECT.json`.

## 2. Plan

| order | module | of | state |
|---|---|---|---|
| 1 | `FanucDriver` | driver loop, restarts, librdkafka, a reader of the topic | safety proved, liveness checked |
| 2 | `AdapterMonitor` | monitor daemon | safety and `StatusStory` proved, liveness checked |
| 3 | `StagedFeed`, `StagingStreams` | `Staging.kt`: an abstract feed, and deduplication, durations, stores, transactions and the join, which implement it | safety and the refinement proved, liveness checked |
| 4 | `MonitorQueries` | two SQL queries next to the topology that computes the same | proved |
| 5 | `RowSinks` | monitoring streams, Kafka Connect, `consumer.py`, `dump.py` and the tables they share | safety proved, liveness checked |
| 6 | `MachineApi` | `api.py`: check, update, the lock and its threads | safety proved, liveness checked |

An earlier plan had a module of the upload sessions of `data.c`. What the code does
with every combination of answers is now in `FanucDriver` (`HeaderText`, `Contents`);
the rest of such a module would be the control's behaviour, which the repository does
not describe. It also had the driver composed with the streams: `StagingStreams` reads
every topic of up to four messages, those a driver sends among them, so the
composition would check less.

Every safety invariant that a passing run checks, the action property `StatusStory` and
the refinement `ExactlyOnce` are theorems (section 8). What is worth stating next is what
the daemon and the sinks promise in modules like `StagedFeed`: a story per machine, a
table that fills in any order. No module uses a `RECURSIVE` operator.

## 3. FanucDriver

State and code:

| variable | code |
|---|---|
| `machine` | the control; any of its fields may change between any two reads |
| `pc` | the place in `main` and `loop_tick`, `connect` being `setupConnection` |
| `last` | the `static ... *lv` of the compare-and-send checks; `lv == NULL` is absence from its domain |
| `gate` | `lastPartCount`, `lastCProgramNum` (two of them), `lastProgramNum` |
| `mProgramPath`, `toolMode` | `mProgramPath`; `toolManagementEnabled` and `useModalToolData` (managed, modal, none) |
| `updates` | the object composed in this tick |
| `outq` | librdkafka's output queue |
| `view` | what a reader has who lays every delivered message over the earlier ones |
| `lost` | history: keys whose newest value was deleted with a message |
| `stopping` | `runningCondition` |

`cProgramNum`, `mProgramNum` and `partCount` are not variables: they are written
only where the corresponding static is (`CProgramNum`, `MProgramNum`, `PartCount`).

Each `CheckMachine...` action is one check with its read, its comparison, what it
adds and what it remembers; the name and the path of the executing program are two
actions because they are two calls to the control. A check that fails is
`LoopFails`: `exit` without a flush. `Killed` is a death at any point. Both lead to
`down`, from where `Start` is the restart by Docker. A signal before the handlers are
installed, while the process connects, ends it there (`SigTermEarly`). `Produce` and
`ProduceRejected` are the two outcomes of `rd_kafka_producev`; `Deliver` and
`DeliveryFails` those of a queued message; `FlushDone` the end, with or without an
answer of the broker. A restart after a signal that was followed by an exit is not
modelled: Docker sends the signal to a container it is told to stop.

Abstracted: the axis arrays, feed rate, spindle speed and sequence number to one
value `absolute`, `edit` and `hdck` to the other status words (all have the code
of the keys that are kept); `block_num`, `meta` and the wait between two ticks are left out; a
program's text is the path it was read from and how much of it was read
(`WholeProgram` chunks, or fewer after an error); a header is what `HeaderText` makes of
the codes of its upload's start, reads and end; the axes come with their data or without it
(the one read that may fail alone); the time a reading is read in is one moment,
except for the name and path. A key added twice to one object is
read as its last value, which is what JSON readers do.

Constants: `Fields` are the values each part of the control takes, `Switches`
which program may follow which, `QueueCap` the capacity of the queue,
`MaxChanges` and `MaxFaults` bound the control's changes and the faults, `Garbage`
what an uninitialised `long` may hold. `FieldsAssumption` says that part counts and
program numbers are natural numbers, what a tool reading has, and that there is some
garbage. It says nothing of messages: any text may come with any number.

Properties: `TypeOK`; `Reconstruction` (the newest value composed for a key,
wherever it is on its way, is what the driver publishes of the reading it remembers,
unless its message was lost; `estop` and `alarm` are excluded, see section 9);
`TravelTogether`, `HeaderFollowsProgram`, `RestartSendsSnapshot`; `ReaderConverges`,
`PathConverges`, `StopsOnSignal`. The operator message is compared by its raw text and
published as null when its number is -1 (`Published`, `check.c:240-248`), so what a reader
has of a text follows from the reading alone only if the control never shows that text
both with a message and without one. Of a text it shows both ways (`Returning`),
`Reconstruction` and `ReaderConverges` promise the text or null (`Told`) and not which.

| run | configuration | shows |
|---|---|---|
| `driver_shop` | 2 execution states, 2 tools, 4 operator messages (none, a message, its text still there without it, another message); 2 changes, 1 fault, queue of 2 | `TypeOK`, `Reconstruction`; 3.5 million states |
| `driver_programs` | no program, a main program, the same in a subroutine, another main program in that subroutine; the subroutine and the second main program have number 65535, the short -1; any switch; 2 part counts | `Reconstruction`, `TravelTogether`, `HeaderFollowsProgram`, `RestartSendsSnapshot`; 4.4 million states |
| `driver_live` | 3 programs that do not come back, 3 operator messages (none, a message, its text without it); queue of 1; `FairSpec` | the three liveness properties; 0.8 million states |
| `driver_path`, `driver_estop` | the smallest that shows it | the two findings, each a violation |

Why the bounds are enough: two changes let the control change between two reads of
one tick and again in the next, which is what a stale value takes; a queue of two
holds the two messages one of which supersedes the other, a queue of one is full
after one; one fault is a kill, a failed check, a rejected or undelivered message
or a failed tool read at any point, and what follows is undisturbed. Nothing depends on
more than two values of a field, but for the messages, of which one text comes with its
number and without, next to one that does not.

Fairness: `Main` (the loop goes on; Docker restarts it, `restart: unless-stopped`
in `prod.yml`) and `Deliver` (librdkafka retries). Not the machine's changes, not
signals, not failures. `PathConverges` is checked under `OneWay` switches because
with a program that comes back within a tick it is false: the code reads the number
and the path at different moments and reads the path only when the number changes.

Integers are cut where the code cuts them (`Short`: the program numbers and the alarm
of `cnc_rddynamic2`). Program 65535 becomes -1, the value with which the gates begin, so
its name, path and contents are not read when it is the first: `TravelTogether` and
`RestartSendsSnapshot` exempt just that, and `driver_programs` has such a program.

## 4. AdapterMonitor

One asyncio loop. An action is what a coroutine does from one await that gives the
loop away to the next. Where an await does not give it away (an unbounded `put`, a
`get` from a queue that is not empty, a task that is done) the coroutine keeps the
turn (`loop`), and no other action of the daemon is enabled. A created task runs
before anything that becomes ready later, hence `Turn`. `cancel()` is a flag
delivered at the await where the task stands; each await has its own action for it:
`MStart` (never ran), `MSpawnCancelled`, `MAborted`, `MRunCancelled`,
`MTerminationCancelled`, `MSleepCancelled`, `WCancelled`, and an await of another
task passes it on (`Interrupt`).

| variable | code |
|---|---|
| `db`, `wire`, `listening`, `missed` | the table `machine_monitor`, its notifications, LISTEN; history: machines whose last edit neither the fetch nor a notification tells of |
| `updates`, `statusq`, `tasks` | `updates_queue`, `status_queue`, `self.tasks` |
| `worker` | where `__updates_worker` stands: `fetch`, `listen`, `get`, `await`, `done`, `crashed`, `cancelled` |
| `mon[m]` | where the task of `m` stands; `bound` is what the variable `proc` holds when a `CancelledError` is handled: nothing, the previous process, or the current one |
| `child[m]`, `orphans[m]` | the process of that task; how many run that no task holds |
| `story`, `scribe` | the last row of `machine_monitor_status_updates`; `__status_worker` |
| `main` | `run`: `running`, `gathering`, `joining`, `closed`, `failed`; `delegated`: the interrupt hit the task that the worker awaits, and not the worker |

The table is edited one row at a time (`EditRow`) or a row gets another machine's id
(`RenameRow`); the trigger tells of the new id only (`daemon.py:59-66`), so the adapter of
the old one goes on. Rows that were fetched are queued before the listener is added, and
then the worker goes from the LISTEN into its first turn without giving the loop away
(`WListen`).

External: PostgreSQL, asyncio, the processes. Ctrl-C is modelled where it nearly always
finds the loop, waiting for something to happen (`Interrupt` needs the `Turn`); the daemon
has no handler for SIGTERM. Not modelled: a second interrupt, a
daemon killed outright (the adapters stay, and the next daemon starts others), the
loss of the database connection outside the status worker, the output of an adapter
(which grows in memory), the value of statuses in `machine_monitor_status` (the code
updates rows that nothing in it inserts).

| run | configuration | shows |
|---|---|---|
| `monitor_one` | 1 machine, 2 addresses, 2 edits, 1 exit, 1 fault, an interrupt | `TypeOK`, `OneProcessPerMachine`, `NoStrayProcess`, `CleanClose` (with a status worker that may fail), `StatusStory`, and under `FairSpec` `TableApplied` and `ShutdownEnds`; 0.24 million states |
| `monitor_pair` | 2 machines (symmetric), 1 address, 3 edits, an interrupt | `CleanClose` and `OneProcessPerMachine` with two machines on one worker, where an edit may rename a machine; 4.5 million states |
| `monitor_shield`, `monitor_hang` | 1 machine, 2 or 1 edits, no faults | the two findings; the first is two notifications read in one turn of the loop |

Two edits of one machine are what it takes to meet every state of the old task, and
to have two updates in one turn; two machines share everything that is shared. A third
edit with two machines lets one machine be reloaded and interrupted while the other is
still to be created by a worker that did not get the interrupt; exits are left to
`monitor_one`. The proofs of section 8 have none of these bounds.
Deadlock is not checked in any run of the project: a driver that was asked to stop, a
closed or failed daemon, streams that have caught up or whose thread died, and an API
without requests really do stand still.

Fairness: the worker, the status worker, `run`, each machine's task and the arrival
of notifications (asyncio runs what is ready in order), and the exit of a process
that was signalled (the driver's handler ends its loop, `StopsOnSignal`). Not an
adapter's exit by itself, edits, faults or the interrupt.

What is exempted, and why: `OneProcessPerMachine` and `NoStrayProcess` speak of a
daemon that was not interrupted, because a second `CancelledError` makes a task return
while its killed process is still going, and a worker that did not get the
cancellation starts another. `CleanClose` promises that no adapter is left only if the
worker was the one interrupted (`~main.delegated`): otherwise the worker may go on and
create a task after `run` has made its list of tasks to wait for, and the daemon
closes while that adapter runs. An earlier `CleanClose` had no such exception; it held
on two machines with one edit, was found not to be inductive when it was to be proved,
and is false with three edits. What it still says then: everything is recorded, and an
adapter that is left was signalled or has its task in `self.tasks`. `TableApplied` exempts
`missed` machines (edited between the fetch and the LISTEN, or renamed away) and a worker
that ended (finding `monitor_shield`), `ShutdownEnds` a worker that was not
the one cancelled (finding `monitor_hang`) and a status worker that failed.

## 5. StagingStreams, StagedFeed and MonitorQueries

`StagedFeed` says what the staging topology promises, from the topic alone: the
committed output is that of one pass over a prefix of it (`PartChanges`,
`Announcing`), a message that cannot be read is in no prefix, and the prefix only
grows. `StagingStreams` is the topology. `Feed == INSTANCE StagedFeed WITH done <-
saved.pos` is the refinement; `ExactlyOnce == Feed!Spec` is checked as a property.

| variable | code |
|---|---|
| `input` | the partition of the topic; an offset stands for the message and for its timestamp |
| `thread` | the stream thread: `down`, `up`, or `dead` in a process whose `main` waits for its latch |
| `source`, `sent`, `saved` | the task of the topic: position and stores (`part_counts`, `executions`, `executions_duration`); its open transaction; both as last committed |
| `parts`, `programs` | the two repartition topics of the join (the streams' `transform` may change the key, so Kafka Streams repartitions) |
| `join`, `joined`, `joinSaved` | the task of the join: its two positions and the program table; its open transaction; as last committed |
| `events` | the joined parts |
| `printed` | the printed durations, no part of a transaction |

`Process` is one message through deduplication, durations and both repartitions;
`Dies` is the exception no handler is set for; `CommitSource` and `CommitJoin` are the
commits of the two tasks, `Exit` the end of the process at any moment, `Start` `cleanUp`
and the restoration from the changelogs. External: Kafka Streams' transactions,
repartition topics and changelogs, as `exactly_once` (`Staging.kt:41`) has them. The join
takes from whichever topic has a record.

Properties: `ExactlyOnce`; `DurationsTrue` (a line may be printed twice, but no wrong
one and none is missing); `PartsJoinedOnce`; `ProgramsNeverGoBack`; `CatchesUp`, for a
process that stays up. What is *not* true is in the comments: a part may be joined with
a program that came after it, and none before its machine's first program is.

`MonitorQueries` has `query-completed-program-parts.sql` and
`query-execution-duration.sql` as functions of the rows up to the topology's committed
position. `QueryPartsCounted`: a part the query lists is one the topology counted.
`QueryOneStateLate`: without repeats the query closes the durations the topology printed,
one state late. Rows of one second, to which the queries round, have no order in SQL;
the model takes the rows of a machine to be further apart.

| run | configuration | shows |
|---|---|---|
| `staging_shop` | all topics of 4 messages out of 6 (a first message, counts 2, 0 with a state, 1 with a program, a second machine, an unreadable one); 1 end of the process | all of the above; 0.7 million states |

Four messages are a first message, a change, a reset and a repetition; the second
machine and the unreadable message come at any place among them; one end of the process at
any point is followed by an undisturbed one. Fairness: the thread goes on while it lives
(`StreamThread`). `prod.yml` has no restart policy for the streams, so nothing is
assumed of `Start`.

## 6. RowSinks

The way from the topic to the tables `input-avro` and `execution`, with all the programs
that write into them. `deployed` is the set of those that are installed.

| variable | code |
|---|---|
| `thread`, `pos`, `saved`, `topic` | the monitoring streams, their position and the committed one, their output topics with the aborted records, which Connect reads (`read_committed` is set nowhere) |
| `connect[t]` | a connector's position and the flushed one |
| `table[t]` | the rows: key to the message the row was made from |
| `consumer` | `consumer.py`: what `a()` has read, the message it cannot queue, the queue, the batch of `b()` |
| `dump` | `dump.py`: what it has read, its open transaction |

A message is of one of four kinds: plain, with a state, with a load that is no integer (the
streams' schema has `int`, so `fromJson` throws and the thread dies), and not UTF-8 (Kafka's
String serde replaces what it cannot read, Python's `json.loads` refuses it). The rows
`dump.py` has inserted and not committed block every other insert of the same key
(`Locked`), as PostgreSQL's unique index does.

| run | configuration | shows |
|---|---|---|
| `sinks_table` | the streams with Connect, the same next to `dump.py`, both debug consumers; all topics of 3 messages; a queue of 1; 1 end of any process | `TypeOK`, `RowsTrue`, `CommittedReachesTable`, `ConsumersLoseNothing`, and under `FairSpec` `TablesFill`; 1.0 million states |

Three messages and a queue of one are one message in the batch, one in the queue and one
that waits for it, which is where `consumer.py` can lose something; an end at any point
leaves an aborted record or a position that was not flushed. Fairness: each process goes
on while it runs; `dump.py` is promised nothing, and `TablesFill` assumes that its
transaction ends again and again, because with a silent topic it never does.

## 7. MachineApi

| variable | code |
|---|---|
| `net`, `truths` | external: who has which address; history: who has had it |
| `library` | the FOCAS library's one connection of the process |
| `req` | per request: where its handler stands (`at`) and where the thread of its probe stands (`probe`) |
| `waiting`, `running` | `lock` (`api.py:14`) with its line |
| `clock`, `pings`, `machines` | `utcnow()`, the two tables |

`Check`, `Acquire`, `Connect`, `ReadId`, `ReadAxes`, `ReadFails`, `Free`, `Return`, `Record`
are `/check` with its thread; `Update`, `Compare`, `Choose`, `InsertRow`, `UpdateRow` are
`/update`, one action per statement. `ClientLeaves` is the cancellation of a handler by
aiohttp 3.6, which the probe, a job of aiojobs, does not see (that is what `spawn` is for:
`PingsTrue` breaks without it). `/status` only reads and is left out.

| run | configuration | shows |
|---|---|---|
| `api_races` | 2 machines, 2 usable addresses and one at port 65535; 3 requests, 1 change of address, 1 client that leaves or restart | `TypeOK`, `PingsTrue`, `RowsProbed`, `UpdatedIsKnown`, `ConnectionFreed`, and under `FairSpec` `RequestsEnd`; 0.5 million states |

Three requests are two checks and an update, or a check and the two updates that race;
one moved address makes a ping outdated. Fairness: the lock's line, each thread (the
connection has a timeout of ten seconds), each handler. Nobody has to send anything.

## 8. Proofs

Every theorem is about all values of the constants that satisfy the assumptions of its
module: any topic, any machines and addresses, any number of edits, requests, faults and
restarts. The assumptions say which values a field may have at all (`FieldsAssumption`,
`RecordsAssumption`, `NetsAssumption`, `AddressesAssumption`), that bounds are natural
numbers, and of the daemon that its machines are finitely many (`run` waits for all of
them). An inductive invariant was checked by TLC on small instances before it was proved.

**`FanucDriverProofs`**: `TypeCorrect`, `ReconstructionCorrect`.
`TypeOK` is inductive as it stands. `Reconstruction` is inductive relative to it and to
`MessageRead` (the remembered message is one the control has shown, so that a text which
did not change was published the same way both times, or is `Returning`),
and only in the form it has: that a value in the message being composed is the
remembered one must hold for lost keys too, or `Produce`, which takes its keys out of
`lost`, could not re-establish it. A compare-and-send check changes the newest value of
exactly the keys it compares; the other checks add keys no check remembers; `Produce`
moves the newest value to the end of the queue and `Deliver` from its head to the reader;
a rejected or undelivered message puts into `lost` the keys that no later message
repeats; an exit forgets `last`, and with it every obligation.

**`FanucDriverTickProofs`**: `MessagesAreComplete` (`TravelTogether`),
`FirstMessageIsSnapshot` (`RestartSendsSnapshot`), `HeadersFollow`
(`HeaderFollowsProgram`). A gated check reads when the number it remembers is not the
one last read, a compare-and-send check sends when the reading changed: that the two go
together holds because both remember the same reading, except between the reading of a
number and the gate that looks at it. So `TickInv` is stated by the place in the tick,
one part per gate. For the header, `HeadedInv` carries over to every queued message that
a program number other than 0 and its header come together; whatever is lost or rejected
is lost with both.

**`AdapterMonitorProofs`**: `TypeCorrect`, `OneAdapterEach` (`OneProcessPerMachine`),
`NoAdapterIsLost` (`NoStrayProcess`), `CloseIsClean` (`CleanClose`), all from
`Invariance`. `Inv` says which process stands next to a task (`PlaceInv`), that a task
which goes on is in `self.tasks` or awaited by the worker (`HeldInv`), that none is
cancelled a second time while it waits for its killed process, unless the interrupt was
delegated (`OnceInv`), where worker and `run` stand relative to each other (`WorkerInv`),
and that a finished task has said how it ended (`SaidInv`). The moves of a task are many
and alike: `MonitorStep` says once what one of them may do to a machine, its process and
the status queue, and the proof that it keeps `Inv` is done once.

**`AdapterMonitorStoryProofs`**: `StoryIsOne`, that every step satisfies `StatusStory`.
Two writers tell the story of a machine, the worker (`RELOADING`, `DESTROYING`) and its
task, and after a reload the next task goes on with it. `StoryInv` says which last word
fits each place of a task (`Fits`), whether the word is still queued or already recorded
(`Says`); `TaskInv` is what that needs of `Inv`'s state, above all that nothing is created
again for a machine whose task was cancelled or failed.

**`StagingStreamsProofs`**: `StagingIsExactlyOnce` (`ExactlyOnce`: initial states map to
initial states of `StagedFeed`, and every step is a step of it or leaves it alone),
`DurationsAreTrue`, `PartsAreJoinedOnce`, `ProgramsAreInOrder`, `TypeCorrect`.
`SourceInv`: both the working and the saved stores say of each machine what the topic says
up to their position (`StoresTrue`), and what was sent and committed lists exactly the
changes up to the positions (`FlowInv`). That is what makes a crash harmless: `saved` is
a state the task could have been in. `JoinInv` says the same of the join with its two
positions; it rests only on the order of the two topics it reads.

**`MonitorQueriesProofs`**: `PartsAgree` (`QueryPartsCounted`), `DurationsAgree`
(`QueryOneStateLate`). State predicates over a topic of any length: the neighbour a
window function looks at is the greatest or the least of a set of offsets, which exists
by well-founded minimality (`FirstExists`, `LastExists`), and `LagIs`, `LeadIs` and
`SpansAre` say which row that is. Of the topology
both need `SourceInv`, the one for `parts`, the other for the rows' types.

**`RowSinksProofs`**: `TypeCorrect`, `RowsAreTrue`, `CommittedAreKept`
(`CommittedReachesTable`), `ConsumersKeep` (`ConsumersLoseNothing`). `RowsTrue` and
`ConsumersLoseNothing` are inductive with `TypeOK`; `CommittedReachesTable` is not, it
needs `TopicsInv`: every record is in a topic it belongs to, an output for every message
before the streams' position, aborted or not, and a row for every record before a
connector's.

**`MachineApiProofs`**: `TypeCorrect`, `PingsAreTrue`, `RowsAreProbed`, `UpdatesAreKnown`,
`ConnectionIsFreed`. Everything rests on the lock (`LockInv`: who is in its line waits,
who uses the library holds it, one does); then the library is connected to the address of
that one thread (`LibraryInv`), so what a thread reads was true when it read it
(`TruthInv`), and an update goes on only with a ping (`UpdateInv`). A handler may be
cancelled at any of its awaits (`StageInv`): its probe keeps the lock, and frees it.

Only model-checked: liveness (`ReaderConverges`, `PathConverges`, `StopsOnSignal`,
`TableApplied`, `ShutdownEnds`, `CatchesUp`, `TablesFill`, `RequestsEnd`), because
fairness is defined by `ENABLED`, which the prover does not treat; and the four
disagreements of section 9, which are counterexamples.

## 9. Where the code does not do what it says

| run | what |
|---|---|
| `driver_path` | a changed main program alone does not read the path (`driver/README.md:9-10`, `check.c:197`) |
| `driver_estop` | `estop` is sent when the mode changes (`check.c:278`) |
| `monitor_shield` | two notifications read in one turn of the loop end the updates worker (`daemon.py:174-176`, `193`) |
| `monitor_hang` | an interrupt during a reload is lost (`daemon.py:211`) |

Seen while modelling, in the model, and without a property of its own:

- `alarm` is added by two checks with different meanings (`check.c:284`, `429`), so a
  reader sees whichever changed last; `Reconstruction` exempts the key.
- A message that returns while its text stood there without it stays null at the reader,
  and the text of one that goes while its text stays is not taken back: the raw text is
  compared, the published value depends on the number too (`check.c:240-248`). Whether a
  control leaves a text next to the number -1 the repository does not say; the buffer is
  an uninitialised variable of the stack (`data.c:145`), so it may. `Reconstruction` and
  `ReaderConverges` exempt it (`Returning`).
- An UPDATE of `machine_id` leaves the adapter of the old id running
  (`daemon.py:59-66`); `TableApplied` exempts that machine.
- When `cnc_rdntool` and then `cnc_modal` fail, the tool that is compared and published
  was never assigned (`data.c:316-331`).
- Program numbers are cut to 16 bits (`data.c:290-291`, `data.h:74-75`): two programs with
  the same low bits are one to the driver.
- A fraction in an axis load (`data.c:285`) stops the streams for good: their schema has
  integers (`AdapterDatum.avsc:66`), the thread dies at that message after every restart,
  and the process does not end, so nobody notices (`Dies`, `ThreadDies`).
- A part count that returns to its old value after a reset to 0 is not a part to the
  staging topology (`Staging.kt:153`), and the first part after a reset is none to the query.
- `query-execution-duration.sql` shows no state before it is two changes old.
- An interrupt that hits the task the worker awaits leaves the worker running: it may start
  an adapter that nobody stops when the daemon closes (`daemon.py:211`; `CleanClose`).
- `/update` compares with the latest ping of any machine, so a check of another machine
  in between refuses it (`api.py:118-129`).

## 10. Not modelled

- `config.c`: it is in no CMake target and uses undeclared names (`deviceHost`,
  `minimum_interval`), so there is no build whose behaviour a model could have; a failed
  `read_config` is logged and passed over.
- `debug.c`: the driver's checks, printed.
- What a control makes of an upload that was left open (`data.c:379`): not in the repository.
- The counts per minute and session of the monitoring streams, the session store and the
  table of hashes of the staging streams: the former are Kafka's windows, nothing is sent
  from the latter. The columns of a row.
- The other SQL queries (reports over fixed intervals of a table), notebooks, the spark job,
  scripts, `debug/main.py`, deployment files.
- Kafka's own failures, more than one partition (no state is shared between partitions),
  and Connect's batches.
