------------------------------- MODULE RowSinks -------------------------------
(***************************************************************************)
(* From the topic "input" to the rows of PostgreSQL, on one partition.     *)
(*                                                                         *)
(* The monitoring streams (SerialMonitoringStreamProcessing.kt) convert    *)
(* each message to a row of "input-avro" and, if it has a state, one of    *)
(* "execution"; Kafka Connect (connect/connector?.properties.template)     *)
(* upserts both topics into tables of these names, keyed by the offset and *)
(* partition of the message.  The debug consumers (debug/consumer.py,      *)
(* debug/dump.py) insert into the table "input-avro" straight from the     *)
(* topic.  The streams are exactly-once, but Connect does not read         *)
(* committed records only; Connect and the consumers are at-least-once.    *)
(*                                                                         *)
(* A message is known by its offset; of its content only the kind matters. *)
(* Left out: the counts per window and session, and the columns.           *)
(***************************************************************************)
EXTENDS Integers, Sequences

CONSTANTS
  Deployments, \* which of the programs may be installed side by side
  Length,      \* of the topic
  QueueSize,   \* of consumer.py's queue
  MaxExits     \* bound on the ends of processes

ASSUME DeploymentsAssumption ==
  Deployments \subseteq SUBSET {"streams", "connect", "consumer", "dump"}

ASSUME BoundsAssumption ==
  /\ Length \in Nat \ {0}
  /\ QueueSize \in Nat \ {0}
  /\ MaxExits \in Nat

(* "state": has an execution state.  "fraction": has a load that is no      *)
(* integer, for which the streams' schema has no place.  "bytes": is no     *)
(* UTF-8, which Kafka's String serde replaces and Python's json refuses.    *)
Kinds == {"plain", "state", "fraction", "bytes"}

Topics == {"input-avro", "execution"}

VARIABLES
  deployed,   \* the installed programs
  input,      \* the topic: offset -> kind
  thread,     \* the streams: "down", "up" or "dead"
  pos, saved, \* their position, and the committed one
  topic,      \* the output topics, aborted records included
  connect,    \* topic -> position of its connector, and the flushed one
  table,      \* topic -> rows: key -> the message the row was made from
  consumer,   \* consumer.py: position, message it cannot queue, queue, batch
  dump,       \* dump.py: position, rows of the open transaction
  exits

fixed   == <<deployed, input>>
streams == <<thread, pos, saved, topic>>
vars    == <<fixed, streams, connect, table, consumer, dump, exits>>

----------------------------------------------------------------------------
Stored(t) == DOMAIN table[t]

(* Mutant: pk.mode=kafka, the key is the record's own place in its topic. *)
KeyOfRecord(t, k) == k

(* pk.mode=record_value, pk.fields=offset,partition: those of the message. *)
KeyOf(t, k) == topic[t][k]

Upsert(rows, key, row) ==
  [i \in DOMAIN rows \cup {key} |-> IF i = key THEN row ELSE rows[i]]

(* insert ... on conflict do nothing, for a set of messages *)
Insert(rows, messages) ==
  [i \in DOMAIN rows \cup messages |-> IF i \in DOMAIN rows THEN rows[i] ELSE i]

Into(t, rows) == [table EXCEPT ![t] = rows]

(* The keys dump.py has inserted and not committed: an insert of the same   *)
(* key waits for the end of that transaction.                               *)
Locked(t) == IF t = "input-avro" THEN dump.open \ Stored(t) ELSE {}

----------------------------------------------------------------------------
(* The monitoring streams. *)

Outputs(i) == IF input[i] = "state" THEN Topics ELSE {"input-avro"}

Convert ==
  /\ thread = "up" /\ pos < Length
  /\ input[pos + 1] # "fraction"
  /\ pos' = pos + 1
  /\ topic' = [t \in Topics |-> IF t \in Outputs(pos') THEN Append(topic[t], pos') ELSE topic[t]]
  /\ UNCHANGED <<fixed, thread, saved, connect, table, consumer, dump, exits>>

(* fromJson throws and no handler is set: the stream thread dies, its       *)
(* transaction is aborted, the process lives on.                            *)
ThreadDies ==
  /\ thread = "up" /\ pos < Length
  /\ input[pos + 1] = "fraction"
  /\ thread' = "dead"
  /\ UNCHANGED <<fixed, pos, saved, topic, connect, table, consumer, dump, exits>>

Commit ==
  /\ thread = "up" /\ saved # pos
  /\ saved' = pos
  /\ UNCHANGED <<fixed, thread, pos, topic, connect, table, consumer, dump, exits>>

StreamsExit ==
  /\ thread # "down" /\ exits < MaxExits
  /\ exits' = exits + 1
  /\ thread' = "down"
  /\ UNCHANGED <<fixed, pos, saved, topic, connect, table, consumer, dump>>

(* Mutant: without a committed position the topic is read from its end. *)
StreamsStartLatest ==
  /\ thread = "down"
  /\ thread' = "up"
  /\ pos' = IF saved = 0 THEN Length ELSE saved
  /\ saved' = pos'
  /\ UNCHANGED <<fixed, topic, connect, table, consumer, dump, exits>>

StreamsStart ==
  /\ thread = "down"
  /\ thread' = "up"
  /\ pos' = saved
  /\ UNCHANGED <<fixed, saved, topic, connect, table, consumer, dump, exits>>

----------------------------------------------------------------------------
(* Kafka Connect: two JDBC sinks. *)

Put(t) ==
  /\ connect[t].pos < Len(topic[t])
  /\ LET k == connect[t].pos + 1
     IN /\ KeyOf(t, k) \notin Locked(t)
        /\ table' = Into(t, Upsert(table[t], KeyOf(t, k), topic[t][k]))
        /\ connect' = [connect EXCEPT ![t].pos = k]
  /\ UNCHANGED <<fixed, streams, consumer, dump, exits>>

(* offset.flush.interval.ms *)
Flush(t) ==
  /\ connect[t].flushed # connect[t].pos
  /\ connect' = [connect EXCEPT ![t].flushed = connect[t].pos]
  /\ UNCHANGED <<fixed, streams, table, consumer, dump, exits>>

(* Connect ends and is started again. *)
ConnectRestarts ==
  /\ exits < MaxExits
  /\ exits' = exits + 1
  /\ connect' = [t \in Topics |-> [connect[t] EXCEPT !.pos = connect[t].flushed]]
  /\ UNCHANGED <<fixed, streams, table, consumer, dump>>

----------------------------------------------------------------------------
(* consumer.py: a() reads and queues, b() takes all there is and inserts it. *)

NewConsumer == [pos |-> 0, waiting |-> 0, queue |-> <<>>, batch |-> {}]

Readable(i) == input[i] # "bytes"

(* Mutant: a full queue drops the message. *)
ReadDropsWhenFull ==
  /\ consumer.waiting = 0 /\ consumer.pos < Length
  /\ LET i == consumer.pos + 1
     IN consumer' =
          IF ~Readable(i) \/ Len(consumer.queue) = QueueSize THEN [consumer EXCEPT !.pos = i]
          ELSE [consumer EXCEPT !.pos = i, !.queue = Append(@, i)]
  /\ UNCHANGED <<fixed, streams, connect, table, dump, exits>>

(* Mutant: the queue is unbounded. *)
ReadUnbounded ==
  /\ consumer.waiting = 0 /\ consumer.pos < Length
  /\ LET i == consumer.pos + 1
     IN consumer' =
          IF ~Readable(i) THEN [consumer EXCEPT !.pos = i]
          ELSE [consumer EXCEPT !.pos = i, !.queue = Append(@, i)]
  /\ UNCHANGED <<fixed, streams, connect, table, dump, exits>>

(* put_nowait; when the queue is full a() waits in q.join(). *)
Read ==
  /\ consumer.waiting = 0 /\ consumer.pos < Length
  /\ LET i == consumer.pos + 1
     IN consumer' =
          IF ~Readable(i) THEN [consumer EXCEPT !.pos = i]
          ELSE IF Len(consumer.queue) < QueueSize
          THEN [consumer EXCEPT !.pos = i, !.queue = Append(@, i)]
          ELSE [consumer EXCEPT !.pos = i, !.waiting = i]
  /\ UNCHANGED <<fixed, streams, connect, table, dump, exits>>

(* Mutant: nobody calls task_done, and join never returns. *)
JoinedNever == FALSE /\ UNCHANGED vars

(* task_done was called for everything taken, so join returns. *)
Joined ==
  /\ consumer.waiting # 0 /\ consumer.queue = <<>>
  /\ consumer' = [consumer EXCEPT !.waiting = 0, !.queue = <<consumer.waiting>>]
  /\ UNCHANGED <<fixed, streams, connect, table, dump, exits>>

Taken == [consumer EXCEPT !.queue = <<>>,
                          !.batch = {consumer.queue[k] : k \in 1..Len(consumer.queue)}]

Take ==
  /\ consumer.batch = {} /\ consumer.queue # <<>>
  /\ consumer' = Taken
  /\ UNCHANGED <<fixed, streams, connect, table, dump, exits>>

(* executemany, and without another await what has come in since is taken. *)
InsertBatch ==
  /\ consumer.batch # {}
  /\ consumer.batch \cap Locked("input-avro") = {}
  /\ table' = Into("input-avro", Insert(table["input-avro"], consumer.batch))
  /\ consumer' = Taken
  /\ UNCHANGED <<fixed, streams, connect, dump, exits>>

(* Mutant: the consumer has a group and goes on where it was. *)
ConsumerGoesOn ==
  /\ exits < MaxExits
  /\ exits' = exits + 1
  /\ consumer' = [NewConsumer EXCEPT !.pos = consumer.pos]
  /\ UNCHANGED <<fixed, streams, connect, table, dump>>

(* It ends, by an error of a() or b() too, and is started again: it has no  *)
(* group and reads from the earliest message.                               *)
ConsumerRestarts ==
  /\ exits < MaxExits
  /\ exits' = exits + 1
  /\ consumer' = NewConsumer
  /\ UNCHANGED <<fixed, streams, connect, table, dump>>

----------------------------------------------------------------------------
(* dump.py: one transaction, committed before the first insert that comes   *)
(* five seconds after the last commit.                                      *)

NewDump == [pos |-> 0, open |-> {}]

(* Mutant: the transaction is begun anew instead of committed. *)
DumpRollsBack ==
  /\ dump.pos < Length
  /\ LET i == dump.pos + 1
     IN IF ~Readable(i)
        THEN dump' = [dump EXCEPT !.pos = i] /\ UNCHANGED table
        ELSE \E elapsed \in BOOLEAN :
               /\ UNCHANGED table
               /\ dump' = [pos |-> i, open |-> {i} \cup IF elapsed THEN {} ELSE dump.open]
  /\ UNCHANGED <<fixed, streams, connect, consumer, exits>>

DumpMessage ==
  /\ dump.pos < Length
  /\ LET i == dump.pos + 1
     IN IF ~Readable(i)
        THEN dump' = [dump EXCEPT !.pos = i] /\ UNCHANGED table
        ELSE \E elapsed \in BOOLEAN :
               /\ table' = IF elapsed THEN Into("input-avro", Insert(table["input-avro"], dump.open))
                           ELSE table
               /\ dump' = [pos |-> i, open |-> {i} \cup IF elapsed THEN {} ELSE dump.open]
  /\ UNCHANGED <<fixed, streams, connect, consumer, exits>>

(* finally: close without a commit *)
DumpRestarts ==
  /\ exits < MaxExits
  /\ exits' = exits + 1
  /\ dump' = NewDump
  /\ UNCHANGED <<fixed, streams, connect, table, consumer>>

----------------------------------------------------------------------------
Init ==
  /\ deployed \in Deployments
  /\ input \in [1..Length -> Kinds]
  /\ thread = "down" /\ pos = 0 /\ saved = 0
  /\ topic = [t \in Topics |-> <<>>]
  /\ connect = [t \in Topics |-> [pos |-> 0, flushed |-> 0]]
  /\ table = [t \in Topics |-> [i \in {} |-> 0]]
  /\ consumer = NewConsumer /\ dump = NewDump
  /\ exits = 0

StreamThread == Convert \/ ThreadDies \/ Commit
Connector(t) == "connect" \in deployed /\ (Put(t) \/ Flush(t))
Reader       == "consumer" \in deployed /\ (Read \/ Joined)
Batcher      == Take \/ InsertBatch

Next ==
  \/ StreamThread
  \/ StreamsExit
  \/ "streams" \in deployed /\ StreamsStart
  \/ \E t \in Topics : Connector(t)
  \/ "connect" \in deployed /\ ConnectRestarts
  \/ Reader \/ Batcher
  \/ "consumer" \in deployed /\ ConsumerRestarts
  \/ "dump" \in deployed /\ (DumpMessage \/ DumpRestarts)

Spec == Init /\ [][Next]_vars

(* Each process goes on while it runs; none is promised to run. *)
FairSpec ==
  /\ Spec
  /\ WF_vars(StreamThread) /\ \A t \in Topics : WF_vars(Connector(t))
  /\ WF_vars(Reader) /\ WF_vars(Batcher)

----------------------------------------------------------------------------
(* The type invariant: positions within their topics, keys within "input". *)
TypeOK ==
  /\ deployed \in Deployments /\ input \in [1..Length -> Kinds]
  /\ thread \in {"down", "up", "dead"}
  /\ saved \in 0..Length /\ pos \in saved..Length
  /\ topic \in [Topics -> Seq(1..Length)]
  /\ connect \in [Topics -> [pos : Nat, flushed : Nat]]
  /\ DOMAIN table = Topics
  /\ \A t \in Topics :
       /\ connect[t].flushed <= connect[t].pos /\ connect[t].pos <= Len(topic[t])
       /\ Stored(t) \subseteq 1..Length
  /\ consumer \in [pos : 0..Length, waiting : 0..Length,
                   queue : Seq(1..Length), batch : SUBSET (1..Length)]
  /\ Len(consumer.queue) <= QueueSize
  /\ dump \in [pos : 0..Length, open : SUBSET (1..Length)]
  /\ exits \in 0..MaxExits

(* A row holds the message its key names, and so a message has one row: the *)
(* aborted records Connect reads, the ones it reads again after a restart   *)
(* and the consumers' rows all fall on the same keys.                       *)
RowsTrue == \A t \in Topics : \A i \in Stored(t) : table[t][i] = i /\ t \in Outputs(i)

(* Whatever ended and was restarted in between, a message whose offset the  *)
(* streams have committed is in each of its tables or still before the      *)
(* table's connector.                                                       *)
CommittedReachesTable ==
  \A i \in 1..saved : \A t \in Outputs(i) :
    \/ "connect" \in deployed /\ i \in Stored(t)
    \/ \E k \in connect[t].pos+1..Len(topic[t]) : topic[t][k] = i

(* A message a debug consumer is past is stored or still in its hands, as   *)
(* far as it can read it: reported done before it is inserted, waiting for  *)
(* a full queue, or inserted and not committed.                             *)
ConsumersLoseNothing ==
  \A i \in 1..Length : Readable(i) /\ i \notin Stored("input-avro") =>
    /\ i <= consumer.pos =>
         \/ i = consumer.waiting \/ i \in consumer.batch
         \/ \E k \in 1..Len(consumer.queue) : consumer.queue[k] = i
    /\ i <= dump.pos => i \in dump.open

(* The tables come to have every message, if the streams stay up, and the   *)
(* consumer's table every message that is UTF-8; unless dump.py, waiting    *)
(* for a message to commit at, keeps a transaction open over a row that is  *)
(* due.  A message that cannot be converted keeps the streams from staying  *)
(* up.                                                                      *)
TablesFill ==
  LET unlocked == []<>(Locked("input-avro") = {})
  IN /\ unlocked /\ <>[](thread = "up" /\ "connect" \in deployed) =>
          <>(\A i \in 1..Length : \A t \in Outputs(i) : i \in Stored(t))
     /\ unlocked /\ "consumer" \in deployed =>
          <>(\A i \in 1..Length : Readable(i) => i \in Stored("input-avro"))
=============================================================================
