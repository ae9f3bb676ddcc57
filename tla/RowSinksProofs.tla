---------------------------- MODULE RowSinksProofs ----------------------------
(***************************************************************************)
(* Proofs about the way from the topic to the tables, for a topic of any   *)
(* length and content, any set of programs side by side, any size of       *)
(* consumer.py's queue and any number of restarts.                         *)
(***************************************************************************)
EXTENDS RowSinks, SequenceTheorems, TLAPS

----------------------------------------------------------------------------
(* The inductive invariant. *)

(* What the streams have written, in order or again after a restart: each   *)
(* record in a topic it belongs to, and nothing before their position left  *)
(* out.  The connectors have stored what they are past.                     *)
TopicsInv ==
  /\ \A t \in Topics : \A k \in 1..Len(topic[t]) : t \in Outputs(topic[t][k])
  /\ \A i \in 1..pos : \A t \in Outputs(i) : \E k \in 1..Len(topic[t]) : topic[t][k] = i
  /\ \A t \in Topics : \A k \in 1..connect[t].pos :
       "connect" \in deployed /\ topic[t][k] \in Stored(t)

Inv == TypeOK /\ TopicsInv /\ RowsTrue /\ ConsumersLoseNothing

----------------------------------------------------------------------------
(* Lemmas about rows. *)

(* An upsert puts the one row and keeps the others. *)
LEMMA UpsertRows ==
  ASSUME NEW rows, NEW key, NEW row
  PROVE  /\ DOMAIN Upsert(rows, key, row) = DOMAIN rows \cup {key}
         /\ Upsert(rows, key, row)[key] = row
         /\ \A i \in DOMAIN rows : i # key => Upsert(rows, key, row)[i] = rows[i]
BY DEF Upsert

(* An insert adds the missing rows and keeps the others. *)
LEMMA InsertRows ==
  ASSUME NEW rows, NEW messages
  PROVE  /\ DOMAIN Insert(rows, messages) = DOMAIN rows \cup messages
         /\ \A i \in DOMAIN rows : Insert(rows, messages)[i] = rows[i]
         /\ \A i \in messages \ DOMAIN rows : Insert(rows, messages)[i] = i
BY DEF Insert

(* Every message has a row in the table of its kind; all have one in the    *)
(* first.                                                                   *)
LEMMA OutputTopics == \A i : Outputs(i) \subseteq Topics /\ "input-avro" \in Outputs(i)
BY DEF Outputs, Topics

(* The tables after a step that stored true rows and deleted none. *)
LEMMA RowsStored ==
  ASSUME TypeOK, RowsTrue, NEW t \in Topics, NEW rows, table' = Into(t, rows),
         Stored(t) \subseteq DOMAIN rows, DOMAIN rows \subseteq 1..Length,
         \A i \in DOMAIN rows : rows[i] = i /\ t \in Outputs(i),
         input' = input
  PROVE  /\ DOMAIN table' = Topics /\ RowsTrue'
         /\ \A u \in Topics : Stored(u)' \subseteq 1..Length /\ Stored(u) \subseteq Stored(u)'
         /\ Stored(t)' = DOMAIN rows
<1>1. DOMAIN table = Topics BY DEF TypeOK
<1>2. /\ DOMAIN table' = Topics /\ table'[t] = rows
      /\ \A u \in Topics : u # t => table'[u] = table[u]
      BY <1>1 DEF Into
<1>3. \A i : Outputs(i)' = Outputs(i) BY DEF Outputs
<1>4. RowsTrue' BY <1>2, <1>3 DEF RowsTrue, Stored
<1> QED BY <1>2, <1>4 DEF Stored, TypeOK

----------------------------------------------------------------------------
(* The invariant holds at first. *)

LEMMA InitInv == Init => Inv
<1> SUFFICES ASSUME Init PROVE Inv
    OBVIOUS
<1>1. \A t \in Topics : Stored(t) = {} /\ topic[t] = <<>> /\ Len(topic[t]) = 0
      BY DEF Init, Stored
<1>2. <<>> \in Seq(1..Length) OBVIOUS
<1>3. /\ NewConsumer \in [pos : 0..Length, waiting : 0..Length,
                          queue : Seq(1..Length), batch : SUBSET (1..Length)]
      /\ Len(NewConsumer.queue) <= QueueSize
      BY <1>2, BoundsAssumption DEF NewConsumer
<1>4. NewDump \in [pos : 0..Length, open : SUBSET (1..Length)]
      BY BoundsAssumption DEF NewDump
<1>5. TypeOK BY <1>1, <1>2, <1>3, <1>4, BoundsAssumption DEF Init, TypeOK
<1>6. TopicsInv /\ RowsTrue BY <1>1 DEF Init, TopicsInv, RowsTrue
<1>7. ConsumersLoseNothing BY DEF Init, ConsumersLoseNothing, NewConsumer, NewDump
<1> QED BY <1>5, <1>6, <1>7 DEF Inv

----------------------------------------------------------------------------
(* The streams. *)

(* Nothing of the messages, the tables and the debug consumers changes. *)
LEMMA RowsKept ==
  ASSUME Inv, UNCHANGED <<fixed, table, consumer, dump>>
  PROVE  /\ RowsTrue' /\ ConsumersLoseNothing'
         /\ \A t \in Topics : Stored(t)' = Stored(t)
         /\ \A i : Outputs(i)' = Outputs(i)
BY DEF Inv, RowsTrue, ConsumersLoseNothing, Stored, Outputs, Readable, fixed

LEMMA ConvertInv == ASSUME Inv, Convert PROVE Inv'
<1> USE DEF Inv
<1>1. /\ pos' = pos + 1 /\ pos' \in 1..Length /\ pos \in Nat
      /\ topic' = [t \in Topics |-> IF t \in Outputs(pos') THEN Append(topic[t], pos') ELSE topic[t]]
      /\ UNCHANGED <<fixed, thread, saved, connect, table, consumer, dump, exits>>
      BY BoundsAssumption DEF Convert, TypeOK
<1>2. /\ RowsTrue' /\ ConsumersLoseNothing'
      /\ \A t \in Topics : Stored(t)' = Stored(t)
      /\ \A i : Outputs(i)' = Outputs(i)
      BY <1>1, RowsKept
<1>3. \A t \in Topics : topic[t] \in Seq(1..Length) /\ Len(topic[t]) \in Nat
  <2>1. \A t \in Topics : topic[t] \in Seq(1..Length) BY DEF TypeOK
  <2> QED BY <2>1, LenProperties
<1>4. ASSUME NEW t \in Topics
      PROVE  /\ topic'[t] \in Seq(1..Length) /\ Len(topic'[t]) \in Nat
             /\ Len(topic'[t]) >= Len(topic[t])
             /\ \A k \in 1..Len(topic[t]) : topic'[t][k] = topic[t][k]
             /\ t \in Outputs(pos') =>
                  Len(topic'[t]) = Len(topic[t]) + 1 /\ topic'[t][Len(topic[t]) + 1] = pos'
             /\ t \notin Outputs(pos') => topic'[t] = topic[t]
  <2>1. CASE t \in Outputs(pos')
    <3>1. topic'[t] = Append(topic[t], pos') BY <1>1, <2>1
    <3> QED BY <1>1, <1>3, <2>1, <3>1, AppendProperties
  <2>2. CASE t \notin Outputs(pos')
    <3>1. topic'[t] = topic[t] BY <1>1, <2>2
    <3> QED BY <1>3, <2>2, <3>1
  <2> QED BY <2>1, <2>2
<1>5. TypeOK'
  <2>1. topic' \in [Topics -> Seq(1..Length)] BY <1>1, <1>4
  <2>2. \A t \in Topics : connect[t].pos <= Len(topic'[t])
        BY <1>3, <1>4 DEF TypeOK
  <2> QED BY <1>1, <1>2, <2>1, <2>2 DEF TypeOK, fixed
<1>6. TopicsInv'
  <2>1. \A t \in Topics : \A k \in 1..Len(topic'[t]) : t \in Outputs(topic'[t][k])
        BY <1>3, <1>4 DEF TopicsInv
  <2>2. \A i \in 1..pos' : \A t \in Outputs(i) : \E k \in 1..Len(topic'[t]) : topic'[t][k] = i
    <3> TAKE i \in 1..pos'
    <3> TAKE t \in Outputs(i)
    <3>1. t \in Topics BY OutputTopics
    <3>2. CASE i = pos'
          BY <1>3, <1>4, <3>1, <3>2
    <3>3. CASE i # pos'
      <4>1. i \in 1..pos BY <1>1, <3>3
      <4>2. PICK k \in 1..Len(topic[t]) : topic[t][k] = i BY <4>1 DEF TopicsInv
      <4> QED BY <1>3, <1>4, <3>1, <4>2
    <3> QED BY <3>2, <3>3
  <2>3. \A t \in Topics : \A k \in 1..connect'[t].pos :
          "connect" \in deployed' /\ topic'[t][k] \in Stored(t)
    <3> TAKE t \in Topics
    <3> TAKE k \in 1..connect'[t].pos
    <3>1. connect'[t].pos <= Len(topic[t]) /\ connect'[t].pos \in Nat BY <1>1 DEF TypeOK
    <3>2. k \in 1..Len(topic[t]) BY <1>3, <3>1
    <3> QED BY <1>1, <1>4, <3>2 DEF TopicsInv, fixed
  <2> QED BY <1>2, <2>1, <2>2, <2>3 DEF TopicsInv
<1> QED BY <1>2, <1>5, <1>6

(* A stream thread that ends or commits, and one that starts again at the   *)
(* committed position: what it had written beyond that stays in the topics. *)
LEMMA StreamsInv ==
  ASSUME Inv, ThreadDies \/ Commit \/ StreamsExit \/ StreamsStart PROVE Inv'
<1> USE DEF Inv
<1>1. /\ UNCHANGED <<fixed, topic, connect, table, consumer, dump>>
      /\ thread' \in {"down", "up", "dead"} /\ exits' \in 0..MaxExits
      /\ saved' \in 0..Length /\ pos' \in saved'..Length /\ pos' <= pos
      /\ pos \in Nat /\ pos' \in Nat
  <2>1. /\ thread \in {"down", "up", "dead"} /\ exits \in 0..MaxExits /\ MaxExits \in Nat
        /\ saved \in 0..Length /\ pos \in saved..Length /\ Length \in Nat
        BY BoundsAssumption DEF TypeOK
  <2>2. CASE ThreadDies BY <2>1, <2>2 DEF ThreadDies
  <2>3. CASE Commit BY <2>1, <2>3 DEF Commit
  <2>4. CASE StreamsExit BY <2>1, <2>4 DEF StreamsExit
  <2>5. CASE StreamsStart BY <2>1, <2>5 DEF StreamsStart
  <2> QED BY <2>2, <2>3, <2>4, <2>5
<1>2. /\ RowsTrue' /\ ConsumersLoseNothing'
      /\ \A t \in Topics : Stored(t)' = Stored(t)
      /\ \A i : Outputs(i)' = Outputs(i)
      BY <1>1, RowsKept
<1>3. TypeOK' BY <1>1, <1>2 DEF TypeOK, fixed
<1>4. TopicsInv' BY <1>1, <1>2 DEF TopicsInv, fixed
<1> QED BY <1>2, <1>3, <1>4

----------------------------------------------------------------------------
(* The connectors. *)

(* A row put is that of the next record. *)
LEMMA PutInv == ASSUME Inv, "connect" \in deployed, NEW t \in Topics, Put(t) PROVE Inv'
<1> USE DEF Inv
<1> DEFINE k == connect[t].pos + 1
           i == topic[t][k]
           rows == Upsert(table[t], i, i)
<1>1. /\ connect[t].pos < Len(topic[t])
      /\ table' = Into(t, rows) /\ connect' = [connect EXCEPT ![t].pos = k]
      /\ UNCHANGED <<fixed, streams, consumer, dump, exits>>
      BY DEF Put, KeyOf
<1>2. topic[t] \in Seq(1..Length) /\ Len(topic[t]) \in Nat
  <2>1. topic[t] \in Seq(1..Length) BY DEF TypeOK
  <2> QED BY <2>1, LenProperties
<1>3. k \in 1..Len(topic[t]) /\ i \in 1..Length /\ t \in Outputs(i)
  <2>1. connect[t].pos \in Nat BY DEF TypeOK
  <2>2. k \in 1..Len(topic[t]) BY <1>1, <1>2, <2>1
  <2>3. i \in 1..Length BY <1>2, <2>2, ElementOfSeq
  <2> QED BY <2>2, <2>3 DEF TopicsInv
<1>4. /\ connect' \in [Topics -> [pos : Nat, flushed : Nat]]
      /\ connect'[t].pos = k /\ connect'[t].flushed = connect[t].flushed
      /\ \A u \in Topics : u # t => connect'[u] = connect[u]
      /\ connect[t].pos \in Nat /\ connect[t].flushed \in Nat
      /\ connect[t].flushed <= connect[t].pos
      BY <1>1 DEF TypeOK
<1>5. /\ DOMAIN rows = Stored(t) \cup {i} /\ rows[i] = i
      /\ \A j \in Stored(t) : rows[j] = IF j = i THEN i ELSE table[t][j]
      BY DEF Upsert, Stored
<1>6. \A j \in Stored(t) : table[t][j] = j /\ t \in Outputs(j) BY DEF RowsTrue
<1>7. Stored(t) \subseteq 1..Length BY DEF TypeOK
<1> HIDE DEF k, i, rows
<1>8. /\ DOMAIN table' = Topics /\ RowsTrue'
      /\ \A u \in Topics : Stored(u)' \subseteq 1..Length /\ Stored(u) \subseteq Stored(u)'
      /\ Stored(t)' = DOMAIN rows
      BY <1>1, <1>3, <1>5, <1>6, <1>7, RowsStored DEF fixed
<1>9. \A j : Outputs(j)' = Outputs(j) /\ Readable(j)' = Readable(j)
      BY <1>1 DEF Outputs, Readable, fixed
<1>10. TypeOK'
  <2>1. \A u \in Topics : connect'[u].flushed <= connect'[u].pos /\ connect'[u].pos <= Len(topic[u])
    <3> TAKE u \in Topics
    <3>1. CASE u = t
      <4>1. connect'[t].flushed <= k BY <1>4 DEF k
      <4> QED BY <1>3, <1>2, <1>4, <3>1, <4>1
    <3>2. CASE u # t BY <1>4, <3>2 DEF TypeOK
    <3> QED BY <3>1, <3>2
  <2> QED BY <1>1, <1>4, <1>8, <2>1 DEF TypeOK, fixed, streams
<1>11. TopicsInv'
  <2>1. \A u \in Topics : \A l \in 1..connect'[u].pos :
          "connect" \in deployed' /\ topic'[u][l] \in Stored(u)'
    <3> TAKE u \in Topics
    <3> TAKE l \in 1..connect'[u].pos
    <3>1. CASE u = t /\ l = k BY <1>1, <1>5, <1>8, <3>1 DEF fixed, streams, i
    <3>2. CASE ~(u = t /\ l = k)
      <4>1. l \in 1..connect[u].pos BY <1>4, <3>2 DEF k
      <4> QED BY <1>1, <1>8, <4>1 DEF TopicsInv, fixed, streams
    <3> QED BY <3>1, <3>2
  <2> QED BY <1>1, <1>9, <2>1 DEF TopicsInv, streams
<1>12. ConsumersLoseNothing'
  <2>1. Stored("input-avro") \subseteq Stored("input-avro")' BY <1>8 DEF Topics
  <2> QED BY <1>1, <1>9, <2>1 DEF ConsumersLoseNothing
<1> QED BY <1>8, <1>10, <1>11, <1>12

(* A connector that goes back is past no more than it was. *)
LEMMA ConnectorInv ==
  ASSUME Inv, ConnectRestarts \/ \E t \in Topics : Flush(t) PROVE Inv'
<1> USE DEF Inv
<1>1. /\ connect' \in [Topics -> [pos : Nat, flushed : Nat]]
      /\ \A t \in Topics : connect'[t].flushed <= connect'[t].pos
                            /\ connect'[t].pos <= connect[t].pos
      /\ UNCHANGED <<fixed, streams, table, consumer, dump>>
      /\ exits' \in 0..MaxExits
  <2>1. CASE ConnectRestarts
    <3>1. connect' = [t \in Topics |-> [connect[t] EXCEPT !.pos = connect[t].flushed]]
          BY <2>1 DEF ConnectRestarts
    <3>2. \A t \in Topics : connect'[t] \in [pos : Nat, flushed : Nat]
                            /\ connect'[t].pos = connect[t].flushed
                            /\ connect'[t].flushed = connect[t].flushed
                            /\ connect[t].flushed <= connect[t].pos
                            /\ connect[t].flushed \in Nat
          BY <3>1 DEF TypeOK
    <3>3. connect' \in [Topics -> [pos : Nat, flushed : Nat]] BY <3>1, <3>2
    <3>4. UNCHANGED <<fixed, streams, table, consumer, dump>> BY <2>1 DEF ConnectRestarts
    <3>5. exits' \in 0..MaxExits BY <2>1, BoundsAssumption DEF ConnectRestarts, TypeOK
    <3>6. \A t \in Topics : connect'[t].flushed <= connect'[t].pos
                            /\ connect'[t].pos <= connect[t].pos
          BY <3>2
    <3> QED BY <3>3, <3>4, <3>5, <3>6
  <2>2. ASSUME NEW t \in Topics, Flush(t)
        PROVE  /\ connect' \in [Topics -> [pos : Nat, flushed : Nat]]
               /\ \A u \in Topics : connect'[u].flushed <= connect'[u].pos
                                     /\ connect'[u].pos <= connect[u].pos
               /\ UNCHANGED <<fixed, streams, table, consumer, dump>>
               /\ exits' \in 0..MaxExits
    <3>1. connect' = [connect EXCEPT ![t].flushed = connect[t].pos] BY <2>2 DEF Flush
    <3>2. \A u \in Topics : connect[u] \in [pos : Nat, flushed : Nat]
                            /\ connect[u].flushed <= connect[u].pos
          BY DEF TypeOK
    <3> QED BY <2>2, <3>1, <3>2 DEF Flush, TypeOK
  <2> QED BY <2>1, <2>2
<1>2. /\ RowsTrue' /\ ConsumersLoseNothing'
      /\ \A t \in Topics : Stored(t)' = Stored(t)
      /\ \A i : Outputs(i)' = Outputs(i)
      BY <1>1, RowsKept
<1>3. \A t \in Topics : connect[t].pos \in Nat /\ connect'[t].pos \in Nat
                        /\ connect[t].pos <= Len(topic[t]) /\ Len(topic[t]) \in Nat
  <2>1. \A t \in Topics : topic[t] \in Seq(1..Length) BY DEF TypeOK
  <2> QED BY <1>1, <2>1, LenProperties DEF TypeOK
<1>4. TypeOK' BY <1>1, <1>2, <1>3 DEF TypeOK, fixed, streams
<1>5. TopicsInv' BY <1>1, <1>2, <1>3 DEF TopicsInv, fixed, streams
<1> QED BY <1>2, <1>4, <1>5

----------------------------------------------------------------------------
(* consumer.py *)

LEMMA ConsumerTyped ==
  ASSUME TypeOK
  PROVE  /\ consumer.pos \in 0..Length /\ consumer.waiting \in 0..Length
         /\ consumer.queue \in Seq(1..Length) /\ consumer.batch \subseteq 1..Length
         /\ Len(consumer.queue) \in Nat /\ Len(consumer.queue) <= QueueSize
         /\ \A k \in 1..Len(consumer.queue) : consumer.queue[k] \in 1..Length
<1>1. /\ consumer \in [pos : 0..Length, waiting : 0..Length,
                       queue : Seq(1..Length), batch : SUBSET (1..Length)]
      /\ Len(consumer.queue) <= QueueSize
      BY DEF TypeOK
<1>2. consumer.queue \in Seq(1..Length) BY <1>1
<1>3. /\ Len(consumer.queue) \in Nat
      /\ \A k \in 1..Len(consumer.queue) : consumer.queue[k] \in 1..Length
      BY <1>2, LenProperties
<1> QED BY <1>1, <1>3

(* Whatever the consumer does, the streams and what they wrote stay. *)
LEMMA ConsumerOnly ==
  ASSUME Inv, UNCHANGED <<fixed, streams, connect, dump, exits>>, RowsTrue',
         DOMAIN table' = Topics,
         \A t \in Topics : Stored(t)' \subseteq 1..Length /\ Stored(t) \subseteq Stored(t)',
         consumer' \in [pos : 0..Length, waiting : 0..Length,
                        queue : Seq(1..Length), batch : SUBSET (1..Length)],
         Len(consumer'.queue) <= QueueSize,
         \A i \in 1..Length : Readable(i) /\ i \notin Stored("input-avro")' /\ i <= consumer'.pos =>
           \/ i = consumer'.waiting \/ i \in consumer'.batch
           \/ \E k \in 1..Len(consumer'.queue) : consumer'.queue[k] = i
  PROVE  Inv'
<1> USE DEF Inv
<1>1. TypeOK' BY DEF TypeOK, fixed, streams
<1>2. \A i : Outputs(i)' = Outputs(i) /\ Readable(i)' = Readable(i)
      BY DEF Outputs, Readable, fixed
<1>3. TopicsInv' BY <1>2 DEF TopicsInv, fixed, streams
<1>4. Stored("input-avro") \subseteq Stored("input-avro")' BY DEF Topics
<1>5. ConsumersLoseNothing' BY <1>2, <1>4 DEF ConsumersLoseNothing
<1> QED BY <1>1, <1>3, <1>5

(* What was in the consumer's hands before a step without an insert. *)
LEMMA TablesKept ==
  ASSUME Inv, UNCHANGED <<fixed, table>>
  PROVE  /\ RowsTrue' /\ DOMAIN table' = Topics
         /\ \A t \in Topics : Stored(t)' \subseteq 1..Length /\ Stored(t)' = Stored(t)
         /\ \A i : Stored(i)' = Stored(i)
BY DEF Inv, TypeOK, RowsTrue, Stored, Outputs, fixed

LEMMA ReadInv == ASSUME Inv, Read PROVE Inv'
<1> USE DEF Inv
<1> DEFINE i == consumer.pos + 1
<1>1. i \in 1..Length /\ consumer.waiting = 0
      BY ConsumerTyped, BoundsAssumption DEF Read
<1>2. /\ RowsTrue' /\ DOMAIN table' = Topics
      /\ \A t \in Topics : Stored(t)' \subseteq 1..Length /\ Stored(t)' = Stored(t)
      /\ Stored("input-avro")' = Stored("input-avro")
      BY TablesKept DEF Read
<1>3. \A j \in 1..Length : Readable(j) /\ j \notin Stored("input-avro") /\ j <= consumer.pos =>
        j \in consumer.batch \/ \E k \in 1..Len(consumer.queue) : consumer.queue[k] = j
      BY <1>1 DEF ConsumersLoseNothing
<1>4. consumer \in [pos : 0..Length, waiting : 0..Length,
                    queue : Seq(1..Length), batch : SUBSET (1..Length)]
      BY DEF TypeOK
<1>5. \A j \in 1..Length : j <= i => j = i \/ j <= consumer.pos BY ConsumerTyped
<1>6. i <= Length /\ i \in Nat BY <1>1, BoundsAssumption
<1>7. UNCHANGED <<fixed, streams, connect, dump, exits>> BY DEF Read
<1>8. CASE ~Readable(i)
  <2>1. consumer' = [consumer EXCEPT !.pos = i] BY <1>8 DEF Read
  <2>2. /\ consumer'.pos = i /\ consumer'.waiting = consumer.waiting
        /\ consumer'.queue = consumer.queue /\ consumer'.batch = consumer.batch
        /\ consumer' \in [pos : 0..Length, waiting : 0..Length,
                          queue : Seq(1..Length), batch : SUBSET (1..Length)]
        BY <1>1, <1>4, <2>1
  <2> HIDE DEF i
  <2>3. Len(consumer'.queue) <= QueueSize BY <2>2, ConsumerTyped
  <2>4. \A j \in 1..Length : Readable(j) /\ j \notin Stored("input-avro")' /\ j <= consumer'.pos =>
           \/ j = consumer'.waiting \/ j \in consumer'.batch
           \/ \E k \in 1..Len(consumer'.queue) : consumer'.queue[k] = j
        BY <1>2, <1>3, <1>5, <1>8, <2>2
  <2> QED BY <1>2, <1>7, <2>2, <2>3, <2>4, ConsumerOnly
<1>9. CASE Readable(i) /\ Len(consumer.queue) < QueueSize
  <2>1. consumer' = [consumer EXCEPT !.pos = i, !.queue = Append(@, i)] BY <1>9 DEF Read
  <2>2. /\ Append(consumer.queue, i) \in Seq(1..Length)
        /\ Len(Append(consumer.queue, i)) = Len(consumer.queue) + 1
        /\ Append(consumer.queue, i)[Len(consumer.queue) + 1] = i
        /\ \A k \in 1..Len(consumer.queue) : Append(consumer.queue, i)[k] = consumer.queue[k]
        BY <1>1, ConsumerTyped, AppendProperties
  <2>3. /\ consumer'.pos = i /\ consumer'.waiting = consumer.waiting
        /\ consumer'.queue = Append(consumer.queue, i) /\ consumer'.batch = consumer.batch
        /\ consumer' \in [pos : 0..Length, waiting : 0..Length,
                          queue : Seq(1..Length), batch : SUBSET (1..Length)]
    <3> HIDE DEF i
    <3>1. i \in 0..Length BY <1>1
    <3> DEFINE q == Append(consumer.queue, i)
    <3>2. consumer' = [consumer EXCEPT !.pos = i, !.queue = q] BY <2>1
    <3>3. q \in Seq(1..Length) BY <2>2
    <3> HIDE DEF q
    <3>4. /\ consumer'.pos = i /\ consumer'.waiting = consumer.waiting
          /\ consumer'.queue = q /\ consumer'.batch = consumer.batch
          BY <1>4, <3>2
    <3>5. consumer' \in [pos : 0..Length, waiting : 0..Length,
                        queue : Seq(1..Length), batch : SUBSET (1..Length)]
          BY <1>4, <3>1, <3>2, <3>3
    <3> QED BY <3>4, <3>5 DEF q
  <2> HIDE DEF i
  <2>4. Len(consumer'.queue) <= QueueSize
        BY <1>9, <2>2, <2>3, ConsumerTyped, BoundsAssumption
  <2>5. \A j \in 1..Length : Readable(j) /\ j \notin Stored("input-avro")' /\ j <= consumer'.pos =>
           \/ j = consumer'.waiting \/ j \in consumer'.batch
           \/ \E k \in 1..Len(consumer'.queue) : consumer'.queue[k] = j
    <3> SUFFICES ASSUME NEW j \in 1..Length, Readable(j), j \notin Stored("input-avro"),
                        j <= i, j \notin consumer.batch
                 PROVE  \E k \in 1..Len(consumer'.queue) : consumer'.queue[k] = j
        BY <1>2, <2>3
    <3>1. CASE j = i BY <2>2, <2>3, <3>1, ConsumerTyped
    <3>2. CASE j # i
      <4>1. PICK k \in 1..Len(consumer.queue) : consumer.queue[k] = j BY <1>3, <1>5, <3>2
      <4> QED BY <2>2, <2>3, <4>1, ConsumerTyped
    <3> QED BY <3>1, <3>2
  <2> QED BY <1>2, <1>7, <2>3, <2>4, <2>5, ConsumerOnly
<1>10. CASE Readable(i) /\ ~(Len(consumer.queue) < QueueSize)
  <2>1. consumer' = [consumer EXCEPT !.pos = i, !.waiting = i] BY <1>10 DEF Read
  <2>2. /\ consumer'.pos = i /\ consumer'.waiting = i
        /\ consumer'.queue = consumer.queue /\ consumer'.batch = consumer.batch
        /\ consumer' \in [pos : 0..Length, waiting : 0..Length,
                          queue : Seq(1..Length), batch : SUBSET (1..Length)]
    <3> HIDE DEF i
    <3>1. i \in 0..Length BY <1>1
    <3> QED BY <1>4, <2>1, <3>1
  <2> HIDE DEF i
  <2>3. Len(consumer'.queue) <= QueueSize BY <2>2, ConsumerTyped
  <2>4. \A j \in 1..Length : Readable(j) /\ j \notin Stored("input-avro")' /\ j <= consumer'.pos =>
           \/ j = consumer'.waiting \/ j \in consumer'.batch
           \/ \E k \in 1..Len(consumer'.queue) : consumer'.queue[k] = j
        BY <1>2, <1>3, <1>5, <2>2
  <2> QED BY <1>2, <1>7, <2>2, <2>3, <2>4, ConsumerOnly
<1> QED BY <1>8, <1>9, <1>10

(* A message that waited for the queue to be done with is queued. *)
LEMMA JoinedInv == ASSUME Inv, Joined PROVE Inv'
<1> USE DEF Inv
<1> DEFINE i == consumer.waiting
<1>1. /\ i \in 1..Length /\ consumer.queue = <<>> /\ Len(consumer.queue) = 0
      BY ConsumerTyped DEF Joined
<1>2. /\ RowsTrue' /\ DOMAIN table' = Topics
      /\ \A t \in Topics : Stored(t)' \subseteq 1..Length /\ Stored(t)' = Stored(t)
      /\ Stored("input-avro")' = Stored("input-avro")
      BY TablesKept DEF Joined
<1>3. \A j \in 1..Length : Readable(j) /\ j \notin Stored("input-avro") /\ j <= consumer.pos =>
        j \in consumer.batch \/ j = i
      BY <1>1 DEF ConsumersLoseNothing
<1>4. /\ consumer \in [pos : 0..Length, waiting : 0..Length,
                       queue : Seq(1..Length), batch : SUBSET (1..Length)]
      /\ consumer' = [consumer EXCEPT !.waiting = 0, !.queue = <<i>>]
      /\ UNCHANGED <<fixed, streams, connect, dump, exits>>
      BY DEF TypeOK, Joined
<1> HIDE DEF i
<1>5. <<i>> \in Seq(1..Length) /\ Len(<<i>>) = 1 /\ <<i>>[1] = i BY <1>1
<1>6. 0 \in 0..Length BY BoundsAssumption
<1>7. /\ consumer'.pos = consumer.pos /\ consumer'.queue = <<i>>
      /\ consumer'.batch = consumer.batch
      BY <1>4
<1>8. consumer' \in [pos : 0..Length, waiting : 0..Length,
                     queue : Seq(1..Length), batch : SUBSET (1..Length)]
      BY <1>4, <1>5, <1>6
<1>9. Len(consumer'.queue) <= QueueSize BY <1>5, <1>7, BoundsAssumption
<1>10. \A j \in 1..Length : Readable(j) /\ j \notin Stored("input-avro")' /\ j <= consumer'.pos =>
         \/ j = consumer'.waiting \/ j \in consumer'.batch
         \/ \E k \in 1..Len(consumer'.queue) : consumer'.queue[k] = j
       BY <1>2, <1>3, <1>5, <1>7
<1> QED BY <1>2, <1>4, <1>8, <1>9, <1>10, ConsumerOnly

(* What is queued becomes the batch. *)
LEMMA TakenQueue ==
  ASSUME TypeOK
  PROVE  /\ Taken \in [pos : 0..Length, waiting : 0..Length,
                       queue : Seq(1..Length), batch : SUBSET (1..Length)]
         /\ Taken.pos = consumer.pos /\ Taken.waiting = consumer.waiting
         /\ Len(Taken.queue) = 0
         /\ \A k \in 1..Len(consumer.queue) : consumer.queue[k] \in Taken.batch
<1> DEFINE batch == {consumer.queue[k] : k \in 1..Len(consumer.queue)}
<1>1. batch \subseteq 1..Length /\ \A k \in 1..Len(consumer.queue) : consumer.queue[k] \in batch
      BY ConsumerTyped
<1>2. <<>> \in Seq(1..Length) /\ Len(<<>>) = 0 OBVIOUS
<1>3. Taken = [consumer EXCEPT !.queue = <<>>, !.batch = batch] BY DEF Taken
<1> HIDE DEF batch
<1>4. consumer \in [pos : 0..Length, waiting : 0..Length,
                    queue : Seq(1..Length), batch : SUBSET (1..Length)]
      BY DEF TypeOK
<1>5. Taken \in [pos : 0..Length, waiting : 0..Length,
                 queue : Seq(1..Length), batch : SUBSET (1..Length)]
      BY <1>1, <1>2, <1>3, <1>4
<1>6. /\ Taken.pos = consumer.pos /\ Taken.waiting = consumer.waiting
      /\ Taken.queue = <<>> /\ Taken.batch = batch
      BY <1>3, <1>4
<1> QED BY <1>1, <1>2, <1>5, <1>6

LEMMA TakeInv == ASSUME Inv, Take PROVE Inv'
<1> USE DEF Inv
<1>1. /\ RowsTrue' /\ DOMAIN table' = Topics
      /\ \A t \in Topics : Stored(t)' \subseteq 1..Length /\ Stored(t)' = Stored(t)
      /\ Stored("input-avro")' = Stored("input-avro")
      BY TablesKept DEF Take
<1>2. consumer' = Taken /\ consumer.batch = {} /\ UNCHANGED <<fixed, streams, connect, dump, exits>>
      BY DEF Take
<1>3. /\ consumer' \in [pos : 0..Length, waiting : 0..Length,
                        queue : Seq(1..Length), batch : SUBSET (1..Length)]
      /\ consumer'.pos = consumer.pos /\ consumer'.waiting = consumer.waiting
      /\ Len(consumer'.queue) = 0
      /\ \A k \in 1..Len(consumer.queue) : consumer.queue[k] \in consumer'.batch
      BY <1>2, TakenQueue
<1>4. \A j \in 1..Length : Readable(j) /\ j \notin Stored("input-avro")' /\ j <= consumer'.pos =>
         \/ j = consumer'.waiting \/ j \in consumer'.batch
         \/ \E k \in 1..Len(consumer'.queue) : consumer'.queue[k] = j
      BY <1>1, <1>2, <1>3 DEF ConsumersLoseNothing
<1>5. Len(consumer'.queue) <= QueueSize BY <1>3, BoundsAssumption
<1> QED BY <1>1, <1>2, <1>3, <1>4, <1>5, ConsumerOnly

(* The rows of a set of messages, inserted where they are missing. *)
LEMMA Inserted ==
  ASSUME TypeOK, RowsTrue, NEW messages \in SUBSET (1..Length),
         table' = Into("input-avro", Insert(table["input-avro"], messages)), input' = input
  PROVE  /\ DOMAIN table' = Topics /\ RowsTrue'
         /\ \A u \in Topics : Stored(u)' \subseteq 1..Length /\ Stored(u) \subseteq Stored(u)'
         /\ Stored("input-avro")' = Stored("input-avro") \cup messages
<1> DEFINE rows == Insert(table["input-avro"], messages)
<1>1. /\ DOMAIN rows = Stored("input-avro") \cup messages
      /\ \A i \in Stored("input-avro") : rows[i] = table["input-avro"][i]
      /\ \A i \in messages \ Stored("input-avro") : rows[i] = i
      BY InsertRows DEF Stored
<1>2. table' = Into("input-avro", rows) OBVIOUS
<1> HIDE DEF rows
<1>3. "input-avro" \in Topics BY DEF Topics
<1>4. \A i \in DOMAIN rows : rows[i] = i /\ "input-avro" \in Outputs(i)
      BY <1>1, <1>3, OutputTopics DEF RowsTrue
<1>5. DOMAIN rows \subseteq 1..Length BY <1>1, <1>3 DEF TypeOK
<1> QED BY <1>1, <1>2, <1>3, <1>4, <1>5, RowsStored

LEMMA InsertBatchInv == ASSUME Inv, InsertBatch PROVE Inv'
<1> USE DEF Inv
<1>1. /\ consumer' = Taken /\ input' = input
      /\ table' = Into("input-avro", Insert(table["input-avro"], consumer.batch))
      /\ UNCHANGED <<fixed, streams, connect, dump, exits>>
      BY DEF InsertBatch, fixed
<1>2. /\ DOMAIN table' = Topics /\ RowsTrue'
      /\ \A u \in Topics : Stored(u)' \subseteq 1..Length /\ Stored(u) \subseteq Stored(u)'
      /\ Stored("input-avro")' = Stored("input-avro") \cup consumer.batch
      BY <1>1, ConsumerTyped, Inserted
<1>3. /\ consumer' \in [pos : 0..Length, waiting : 0..Length,
                        queue : Seq(1..Length), batch : SUBSET (1..Length)]
      /\ consumer'.pos = consumer.pos /\ consumer'.waiting = consumer.waiting
      /\ Len(consumer'.queue) = 0
      /\ \A k \in 1..Len(consumer.queue) : consumer.queue[k] \in consumer'.batch
      BY <1>1, TakenQueue
<1>4. \A j \in 1..Length : Readable(j) /\ j \notin Stored("input-avro")' /\ j <= consumer'.pos =>
         \/ j = consumer'.waiting \/ j \in consumer'.batch
         \/ \E k \in 1..Len(consumer'.queue) : consumer'.queue[k] = j
      BY <1>2, <1>3 DEF ConsumersLoseNothing
<1>5. Len(consumer'.queue) <= QueueSize BY <1>3, BoundsAssumption
<1> QED BY <1>1, <1>2, <1>3, <1>4, <1>5, ConsumerOnly

(* A new consumer is past no message. *)
LEMMA ConsumerRestartsInv == ASSUME Inv, ConsumerRestarts PROVE Inv'
<1> USE DEF Inv
<1>1. /\ consumer' = NewConsumer /\ exits' \in 0..MaxExits
      /\ UNCHANGED <<fixed, streams, connect, table, dump>>
      BY BoundsAssumption DEF ConsumerRestarts, TypeOK
<1>2. /\ RowsTrue' /\ \A t \in Topics : Stored(t)' = Stored(t)
      /\ Stored("input-avro")' = Stored("input-avro")
      /\ \A i : Outputs(i)' = Outputs(i) /\ Readable(i)' = Readable(i)
  <2>1. RowsTrue' /\ \A t : Stored(t)' = Stored(t)
        BY <1>1, TablesKept
  <2> QED BY <1>1, <2>1 DEF Outputs, Readable, fixed
<1>3. /\ consumer' \in [pos : 0..Length, waiting : 0..Length,
                        queue : Seq(1..Length), batch : SUBSET (1..Length)]
      /\ Len(consumer'.queue) <= QueueSize /\ consumer'.pos = 0
  <2>1. <<>> \in Seq(1..Length) /\ Len(<<>>) = 0 OBVIOUS
  <2> QED BY <1>1, <2>1, BoundsAssumption DEF NewConsumer
<1>4. TypeOK' BY <1>1, <1>2, <1>3 DEF TypeOK, fixed, streams
<1>5. TopicsInv' BY <1>1, <1>2 DEF TopicsInv, fixed, streams
<1>6. ConsumersLoseNothing' BY <1>1, <1>2, <1>3 DEF ConsumersLoseNothing
<1> QED BY <1>2, <1>4, <1>5, <1>6

----------------------------------------------------------------------------
(* dump.py *)

LEMMA DumpInv == ASSUME Inv, DumpMessage \/ DumpRestarts PROVE Inv'
<1> USE DEF Inv
<1>1. dump \in [pos : 0..Length, open : SUBSET (1..Length)] BY DEF TypeOK
<1>2. ASSUME UNCHANGED <<fixed, streams, connect, consumer>>, exits' \in 0..MaxExits,
             RowsTrue', DOMAIN table' = Topics,
             \A u \in Topics : Stored(u)' \subseteq 1..Length /\ Stored(u) \subseteq Stored(u)',
             dump' \in [pos : 0..Length, open : SUBSET (1..Length)],
             \A i \in 1..Length : Readable(i) /\ i \notin Stored("input-avro")' /\ i <= dump'.pos =>
               i \in dump'.open
      PROVE  Inv'
  <2>1. TypeOK' BY <1>2 DEF TypeOK, fixed, streams
  <2>2. \A i : Outputs(i)' = Outputs(i) /\ Readable(i)' = Readable(i)
        BY <1>2 DEF Outputs, Readable, fixed
  <2>3. TopicsInv' BY <1>2, <2>2 DEF TopicsInv, fixed, streams
  <2>4. Stored("input-avro") \subseteq Stored("input-avro")' BY <1>2 DEF Topics
  <2>5. ConsumersLoseNothing' BY <1>2, <2>2, <2>4 DEF ConsumersLoseNothing
  <2> QED BY <1>2, <2>1, <2>3, <2>5
<1>3. \A i \in 1..Length : Readable(i) /\ i \notin Stored("input-avro") /\ i <= dump.pos =>
        i \in dump.open
      BY DEF ConsumersLoseNothing
<1>4. CASE DumpMessage
  <2> DEFINE i == dump.pos + 1
  <2>1. /\ UNCHANGED <<fixed, streams, connect, consumer>> /\ exits' \in 0..MaxExits
        /\ i \in 1..Length
        BY <1>1, <1>4, BoundsAssumption DEF DumpMessage, TypeOK
  <2>2. \A j \in 1..Length : j <= i => j = i \/ j <= dump.pos BY <1>1
  <2>3. CASE ~Readable(i)
    <3>1. dump' = [dump EXCEPT !.pos = i] /\ UNCHANGED table BY <1>4, <2>3 DEF DumpMessage
    <3> HIDE DEF i
    <3>2. dump' \in [pos : 0..Length, open : SUBSET (1..Length)]
          /\ dump'.pos = i /\ dump'.open = dump.open
          BY <1>1, <2>1, <3>1
    <3>3. /\ RowsTrue' /\ DOMAIN table' = Topics
          /\ \A t \in Topics : Stored(t)' \subseteq 1..Length /\ Stored(t)' = Stored(t)
          /\ Stored("input-avro")' = Stored("input-avro")
          BY <2>1, <3>1, TablesKept
    <3> QED BY <1>2, <1>3, <2>1, <2>2, <2>3, <3>2, <3>3
  <2>4. CASE Readable(i)
    <3>1. PICK elapsed \in BOOLEAN :
            /\ table' = IF elapsed THEN Into("input-avro", Insert(table["input-avro"], dump.open))
                        ELSE table
            /\ dump' = [pos |-> i, open |-> {i} \cup IF elapsed THEN {} ELSE dump.open]
          BY <1>4, <2>4 DEF DumpMessage
    <3> HIDE DEF i
    <3>2. dump' \in [pos : 0..Length, open : SUBSET (1..Length)]
          /\ dump'.pos = i /\ dump'.open = {i} \cup IF elapsed THEN {} ELSE dump.open
          BY <1>1, <2>1, <3>1
    <3>3. CASE elapsed
      <4>1. /\ DOMAIN table' = Topics /\ RowsTrue'
            /\ \A u \in Topics : Stored(u)' \subseteq 1..Length /\ Stored(u) \subseteq Stored(u)'
            /\ Stored("input-avro")' = Stored("input-avro") \cup dump.open
        <5>1. dump.open \in SUBSET (1..Length) /\ input' = input BY <1>1, <2>1 DEF fixed
        <5> QED BY <3>1, <3>3, <5>1, Inserted
      <4> QED BY <1>2, <1>3, <2>1, <2>2, <3>2, <3>3, <4>1
    <3>4. CASE ~elapsed
      <4>1. /\ RowsTrue' /\ DOMAIN table' = Topics
            /\ \A t \in Topics : Stored(t)' \subseteq 1..Length /\ Stored(t)' = Stored(t)
            /\ Stored("input-avro")' = Stored("input-avro")
            BY <2>1, <3>1, <3>4, TablesKept
      <4> QED BY <1>2, <1>3, <2>1, <2>2, <3>2, <3>4, <4>1
    <3> QED BY <3>3, <3>4
  <2> QED BY <2>3, <2>4
<1>5. CASE DumpRestarts
  <2>1. /\ UNCHANGED <<fixed, streams, connect, table, consumer>> /\ exits' \in 0..MaxExits
        /\ dump' = NewDump
        BY <1>5, BoundsAssumption DEF DumpRestarts, TypeOK
  <2>2. /\ RowsTrue' /\ DOMAIN table' = Topics
        /\ \A t \in Topics : Stored(t)' \subseteq 1..Length /\ Stored(t)' = Stored(t)
        BY <2>1, TablesKept
  <2>3. dump' \in [pos : 0..Length, open : SUBSET (1..Length)] /\ dump'.pos = 0
        BY <2>1, BoundsAssumption DEF NewDump
  <2> QED BY <1>2, <2>1, <2>2, <2>3
<1> QED BY <1>4, <1>5

----------------------------------------------------------------------------
(* The invariant holds throughout, and with it what it was made for. *)

LEMMA StepInv == Inv /\ [Next]_vars => Inv'
<1> SUFFICES ASSUME Inv, [Next]_vars PROVE Inv'
    OBVIOUS
<1>1. CASE StreamThread \/ StreamsExit \/ StreamsStart
      BY <1>1, ConvertInv, StreamsInv DEF StreamThread
<1>2. CASE \E t \in Topics : Connector(t)
      BY <1>2, PutInv, ConnectorInv DEF Connector
<1>3. CASE ConnectRestarts BY <1>3, ConnectorInv
<1>4. CASE Reader \/ Batcher \/ ConsumerRestarts
      BY <1>4, ReadInv, JoinedInv, TakeInv, InsertBatchInv, ConsumerRestartsInv
      DEF Reader, Batcher
<1>5. CASE DumpMessage \/ DumpRestarts BY <1>5, DumpInv
<1>6. CASE UNCHANGED vars
  <2>1. RowsTrue' /\ ConsumersLoseNothing' /\ \A t \in Topics : Stored(t)' = Stored(t)
        /\ \A i : Outputs(i)' = Outputs(i)
        BY <1>6, RowsKept DEF vars
  <2>2. TypeOK' BY <1>6, <2>1 DEF Inv, TypeOK, vars, fixed, streams
  <2>3. /\ deployed' = deployed /\ pos' = pos /\ topic' = topic /\ connect' = connect
        /\ input' = input /\ table' = table
        BY <1>6 DEF vars, fixed, streams
  <2>4. TopicsInv' BY <2>3 DEF Inv, TopicsInv, Stored, Outputs
  <2> QED BY <2>1, <2>2, <2>4 DEF Inv
<1> QED BY <1>1, <1>2, <1>3, <1>4, <1>5, <1>6 DEF Next

LEMMA AlwaysInv == Spec => []Inv
BY InitInv, StepInv, PTL DEF Spec

(* Positions stay within their topics, and keys within the input. *)
THEOREM TypeCorrect == Spec => []TypeOK
<1>1. Inv => TypeOK BY DEF Inv
<1> QED BY <1>1, AlwaysInv, PTL

(* A row holds the message its key names, whatever was written, read and    *)
(* inserted again, and a message has at most one row.                       *)
THEOREM RowsAreTrue == Spec => []RowsTrue
<1>1. Inv => RowsTrue BY DEF Inv
<1> QED BY <1>1, AlwaysInv, PTL

(* A message whose offset the streams have committed is in each of its      *)
(* tables or before the table's connector, whatever was restarted.          *)
THEOREM CommittedAreKept == Spec => []CommittedReachesTable
<1>1. Inv => CommittedReachesTable
  <2> SUFFICES ASSUME Inv, NEW i \in 1..saved, NEW t \in Outputs(i)
               PROVE  \/ "connect" \in deployed /\ i \in Stored(t)
                      \/ \E k \in connect[t].pos+1..Len(topic[t]) : topic[t][k] = i
      BY DEF CommittedReachesTable
  <2>1. t \in Topics BY OutputTopics
  <2>2. i \in 1..pos BY DEF Inv, TypeOK
  <2>3. PICK k \in 1..Len(topic[t]) : topic[t][k] = i BY <2>2 DEF Inv, TopicsInv
  <2>4. connect[t].pos \in Nat /\ topic[t] \in Seq(1..Length) BY <2>1 DEF Inv, TypeOK
  <2>5. Len(topic[t]) \in Nat BY <2>4, LenProperties
  <2>6. CASE k <= connect[t].pos
    <3>1. k \in 1..connect[t].pos BY <2>4, <2>5, <2>6
    <3> QED BY <2>1, <2>3, <3>1 DEF Inv, TopicsInv
  <2>7. CASE ~(k <= connect[t].pos)
    <3>1. k \in connect[t].pos+1..Len(topic[t]) BY <2>4, <2>5, <2>7
    <3> QED BY <2>3, <3>1
  <2> QED BY <2>6, <2>7
<1> QED BY <1>1, AlwaysInv, PTL

(* A message a debug consumer is past is stored or still in its hands.      *)
THEOREM ConsumersKeep == Spec => []ConsumersLoseNothing
<1>1. Inv => ConsumersLoseNothing BY DEF Inv
<1> QED BY <1>1, AlwaysInv, PTL
=============================================================================
