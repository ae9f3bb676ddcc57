---------------------------- MODULE MonitorQueries ----------------------------
(***************************************************************************)
(* Two of the SQL queries over the table "input-avro", as functions of its *)
(* rows, next to the staging topology that computes the same things from   *)
(* the same messages: which parts were completed                           *)
(* (query-completed-program-parts.sql) and how long each execution state   *)
(* took (query-execution-duration.sql).  A row is known by its offset,     *)
(* which orders the rows of a machine as their timestamps do, once these   *)
(* fall into different seconds, to which the queries round them.           *)
(***************************************************************************)
EXTENDS StagingStreams

(* lag(..., 1) and lead(..., 1) over (partition by machine_id order by      *)
(* timestamp), within the rows of S: a neighbour, or 0 for null.            *)
Lag(rows, i, S) ==
  LET earlier == {j \in S : j < i /\ rows[j].machine = rows[i].machine}
  IN IF earlier = {} THEN 0 ELSE CHOOSE j \in earlier : \A k \in earlier : k <= j

Lead(rows, i, S) ==
  LET later == {j \in S : j > i /\ rows[j].machine = rows[i].machine}
  IN IF later = {} THEN 0 ELSE CHOOSE j \in later : \A k \in later : j <= k

(* Mutant: lag over all rows that have a part count, zeroes included. *)
PartRowsWithZero(rows) == {i \in DOMAIN rows : rows[i].parts # NULL}

PartRows(rows) == {i \in DOMAIN rows : rows[i].parts # NULL /\ rows[i].parts > 0}

ProgramRows(rows) == {i \in DOMAIN rows : rows[i].program # NULL}

(* part_count > p, joined with the machine's last earlier program. *)
CompletedParts(rows) ==
  {[part |-> i, program |-> Lag(rows, i, ProgramRows(rows))] :
     i \in {i \in PartRows(rows) :
              LET p == Lag(rows, i, PartRows(rows))
              IN p # 0 /\ rows[i].parts > rows[p].parts /\ Lag(rows, i, ProgramRows(rows)) # 0}}

ExecutionRows(rows) == {i \in DOMAIN rows : rows[i].execution # NULL}

(* Mutant: the row without a successor is kept. *)
KeptWithLast(rows) ==
  {i \in ExecutionRows(rows) :
     LET n == Lead(rows, i, ExecutionRows(rows))
     IN n = 0 \/ rows[n].execution # rows[i].execution}

(* where n != execution: a comparison with null keeps nothing. *)
Kept(rows) ==
  {i \in ExecutionRows(rows) :
     LET n == Lead(rows, i, ExecutionRows(rows))
     IN n # 0 /\ rows[n].execution # rows[i].execution}

(* An end of 0 is null, for which the query takes the current time. *)
ExecutionDurations(rows) ==
  {[start |-> i, end |-> Lead(rows, i, Kept(rows))] : i \in Kept(rows)}

----------------------------------------------------------------------------
(* A table that has the messages up to the topology's committed position. *)
Rows == SubSeq(input, 1, saved.pos)

(* A part the query lists is one the topology counted, and its program came *)
(* before it.  Not the converse: the query wants a count that grew, so the  *)
(* first part after a start and after every reset is only in the topology's. *)
QueryPartsCounted ==
  \A q \in CompletedParts(Rows) :
    /\ \E k \in 1..Len(parts) : parts[k] = q.part
    /\ q.program < q.part

(* The driver sent no state twice in a row: none of its restarts is in Rows. *)
NoRepeats ==
  \A i, j \in Feed!Executing(saved.pos) :
    Feed!Previous(j, i, Feed!Executing(saved.pos)) => input[i].execution # input[j].execution

(* Without repeats the query closes the durations the topology printed, but *)
(* each one state late: the last state that ended is shown as lasting until *)
(* now, and the state the machine is in is not shown at all.                *)
QueryOneStateLate ==
  NoRepeats =>
    LET spans == Feed!Spans(saved.pos)
        late  == {s \in spans : \A t \in spans : t.start # s.end}
        shown == ExecutionDurations(Rows)
    IN /\ {q \in shown : q.end # 0} = spans \ late
       /\ {q.start : q \in {q \in shown : q.end = 0}} = {s.start : s \in late}
=============================================================================
