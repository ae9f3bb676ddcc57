------------------------- MODULE MonitorQueriesProofs -------------------------
(***************************************************************************)
(* Proofs that the two queries agree with the staging topology as far as   *)
(* MonitorQueries says they do, for a topic of any length and content.     *)
(***************************************************************************)
EXTENDS MonitorQueries, StagingStreamsProofs, WellFoundedInduction

----------------------------------------------------------------------------
(* Neighbours exist: a set of offsets has a first and a last one. *)

(* A set of offsets has a first one. *)
LEMMA FirstExists ==
  ASSUME NEW S, S \subseteq Nat, S # {}
  PROVE  \E i \in S : \A j \in S : i <= j
<1> DEFINE R == OpToRel(<, Nat)
<1>1. IsWellFoundedOn(R, Nat)
  BY NatLessThanWellFounded
<1>2. \A i, j \in Nat : i < j => <<i, j>> \in R
  BY DEF OpToRel
<1> HIDE DEF R
<1>3. PICK i \in S : \A j \in S : ~ (<<j, i>> \in R)
  BY <1>1, WFMin
<1>4. ASSUME NEW j \in S
      PROVE  i <= j
  <2>1. i \in Nat /\ j \in Nat /\ ~ (<<j, i>> \in R)
    BY <1>3
  <2>2. ~ (j < i)
    BY <1>2, <2>1
  <2> QED
    BY <2>1, <2>2
<1> QED
  BY <1>4

(* And a last one. *)
LEMMA LastExists ==
  ASSUME NEW n \in Nat, NEW S, S \subseteq 1..n, S # {}
  PROVE  \E i \in S : \A j \in S : j <= i
<1> DEFINE T == {n - i : i \in S}
<1>1. T \subseteq Nat /\ T # {}
  <2>1. \A i \in S : n - i \in Nat
    OBVIOUS
  <2> QED
    BY <2>1
<1>2. \A i \in S : n - i \in T
  OBVIOUS
<1> HIDE DEF T
<1>3. PICK k \in T : \A l \in T : k <= l
  BY <1>1, FirstExists
<1>4. PICK i \in S : k = n - i
  BY <1>3 DEF T
<1>5. ASSUME NEW j \in S
      PROVE  j <= i
  <2>1. n - i <= n - j
    BY <1>2, <1>3, <1>4
  <2> QED
    BY <2>1
<1> QED
  BY <1>5

----------------------------------------------------------------------------
(* The rows are the messages up to the committed position. *)

(* j is the machine's first offset in S after i. *)
Following(j, i, S) ==
  /\ j \in S /\ i < j /\ Feed!SameMachine(i, j)
  /\ \A k \in S : i < k /\ Feed!SameMachine(i, k) => j <= k

(* A row is the message at its offset. *)
LEMMA RowsAre ==
  ASSUME TypeOK
  PROVE  /\ saved.pos \in Nat /\ DOMAIN Rows = 1..saved.pos
         /\ \A i \in 1..saved.pos : Rows[i] = input[i]
<1>1. input \in Seq(Records) /\ Len(input) = Length /\ Length \in Nat
  BY Lengths, SeqDef DEF TypeOK
<1>2. saved.pos \in 0..Length
  BY DEF TypeOK, Sources
<1> QED
  BY <1>1, <1>2, SubSeqProperties DEF Rows

(* The rows a query selects are the messages of that kind. *)
LEMMA RowKinds ==
  ASSUME TypeOK
  PROVE  /\ PartRows(Rows) = Feed!Counting(saved.pos)
         /\ ProgramRows(Rows) = Feed!Announcing(saved.pos)
         /\ ExecutionRows(Rows) = Feed!Executing(saved.pos)
BY RowsAre
   DEF PartRows, ProgramRows, ExecutionRows, Feed!Counting, Feed!Announcing, Feed!Executing

(* lag() is the previous row of the machine, or null if there is none. *)
LEMMA LagIs ==
  ASSUME TypeOK, NEW S, S \subseteq 1..saved.pos, NEW i \in 1..saved.pos
  PROVE  /\ Lag(Rows, i, S) # 0 => Feed!Previous(Lag(Rows, i, S), i, S)
         /\ \A j : Feed!Previous(j, i, S) => Lag(Rows, i, S) = j
<1> DEFINE E == {j \in S : j < i /\ Rows[j].machine = Rows[i].machine}
           last == CHOOSE j \in E : \A k \in E : k <= j
<1>1. Lag(Rows, i, S) = IF E = {} THEN 0 ELSE last
  BY DEF Lag
<1>2. saved.pos \in Nat /\ E \subseteq 1..saved.pos /\ E \subseteq S
  BY RowsAre
<1>3. \A j \in S : j \in E <=> j < i /\ Feed!SameMachine(i, j)
  BY RowsAre DEF Feed!SameMachine
<1>4. E # {} => last \in E /\ \A k \in E : k <= last
  <2> SUFFICES ASSUME E # {} PROVE last \in E /\ \A k \in E : k <= last
    OBVIOUS
  <2> HIDE DEF E
  <2>1. \E j \in E : \A k \in E : k <= j
    BY <1>2, LastExists
  <2> QED
    BY <2>1, Zenon
<1> HIDE DEF E, last
<1>5. E # {} => Feed!Previous(last, i, S)
  BY <1>2, <1>3, <1>4 DEF Feed!Previous
<1>6. ASSUME NEW j, Feed!Previous(j, i, S)
      PROVE  E # {} /\ last = j
  <2>1. j \in E
    BY <1>3, <1>6 DEF Feed!Previous
  <2>2. last \in E /\ j <= last
    BY <1>4, <2>1
  <2>3. last <= j
    BY <1>2, <1>3, <1>6, <2>2 DEF Feed!Previous
  <2>4. j \in Int /\ last \in Int
    BY <1>2, <2>1, <2>2
  <2> QED
    BY <2>1, <2>2, <2>3, <2>4
<1> QED
  BY <1>1, <1>5, <1>6

(* lead() is the next one. *)
LEMMA LeadIs ==
  ASSUME TypeOK, NEW S, S \subseteq 1..saved.pos, NEW i \in 1..saved.pos
  PROVE  /\ Lead(Rows, i, S) # 0 => Following(Lead(Rows, i, S), i, S)
         /\ \A j : Following(j, i, S) => Lead(Rows, i, S) = j
<1> DEFINE E == {j \in S : j > i /\ Rows[j].machine = Rows[i].machine}
           first == CHOOSE j \in E : \A k \in E : j <= k
<1>1. Lead(Rows, i, S) = IF E = {} THEN 0 ELSE first
  BY DEF Lead
<1>2. saved.pos \in Nat /\ E \subseteq 1..saved.pos /\ E \subseteq S
  BY RowsAre
<1>3. \A j \in S : j \in E <=> i < j /\ Feed!SameMachine(i, j)
  BY RowsAre DEF Feed!SameMachine
<1>4. E # {} => first \in E /\ \A k \in E : first <= k
  <2> SUFFICES ASSUME E # {} PROVE first \in E /\ \A k \in E : first <= k
    OBVIOUS
  <2> HIDE DEF E
  <2>1. E \subseteq Nat
    BY <1>2
  <2>2. \E j \in E : \A k \in E : j <= k
    BY <2>1, FirstExists
  <2> QED
    BY <2>2, Zenon
<1> HIDE DEF E, first
<1>5. E # {} => Following(first, i, S)
  BY <1>2, <1>3, <1>4 DEF Following
<1>6. ASSUME NEW j, Following(j, i, S)
      PROVE  E # {} /\ first = j
  <2>1. j \in E
    BY <1>3, <1>6 DEF Following
  <2>2. first \in E /\ first <= j
    BY <1>4, <2>1
  <2>3. j <= first
    BY <1>2, <1>3, <1>6, <2>2 DEF Following
  <2>4. j \in Int /\ first \in Int
    BY <1>2, <2>1, <2>2
  <2> QED
    BY <2>1, <2>2, <2>3, <2>4
<1>7. ASSUME E = {}
      PROVE  \A j : ~Following(j, i, S)
  BY <1>3, <1>7 DEF Following
<1> QED
  BY <1>1, <1>5, <1>6, <1>7

----------------------------------------------------------------------------
(* A part the query lists is one the topology counted, and its program came *)
(* before it.                                                               *)
LEMMA PartsOfQuery == SourceInv => QueryPartsCounted
<1> DEFINE n == saved.pos
           C == Feed!Counting(n)
           A == Feed!Announcing(n)
<1> SUFFICES ASSUME SourceInv, NEW q \in CompletedParts(Rows)
             PROVE  /\ \E k \in 1..Len(parts) : parts[k] = q.part
                    /\ q.program < q.part
  BY DEF QueryPartsCounted
<1>1. TypeOK /\ n \in Nat /\ n <= Length /\ \A i \in 1..n : Rows[i] = input[i]
  BY RowsAre DEF SourceInv, TypeOK, Sources
<1>2. C \subseteq 1..n /\ A \subseteq 1..n
  BY <1>1, OffsetsGrow
<1>3. PICK i \in C :
        /\ q = [part |-> i, program |-> Lag(Rows, i, A)]
        /\ Lag(Rows, i, C) # 0 /\ Rows[i].parts > Rows[Lag(Rows, i, C)].parts
        /\ Lag(Rows, i, A) # 0
  BY <1>1, RowKinds DEF CompletedParts
<1> HIDE DEF C, A
<1>4. i \in 1..n
  BY <1>2, <1>3
<1>5. i \in Feed!PartChanges(n)
  <2> SUFFICES ASSUME NEW j \in 1..i, Feed!Previous(j, i, C)
               PROVE  input[j].parts # input[i].parts
    BY <1>3 DEF Feed!PartChanges, C
  <2>1. Lag(Rows, i, C) = j /\ j \in C
    BY <1>1, <1>2, <1>4, LagIs DEF Feed!Previous
  <2>2. input[i].parts > input[j].parts
    BY <1>1, <1>2, <1>3, <1>4, <2>1
  <2>3. input[i].parts \in Int /\ input[j].parts \in Int
    <3>1. \A k \in C : k \in 1..Length /\ input[k].parts # NULL
      <4>1. 1..n \subseteq 1..Length
        BY <1>1, LimitsAssumption
      <4> QED
        BY <1>2, <4>1 DEF C, Feed!Counting
    <3>2. \A k \in C : input[k].parts \in Nat
      BY <1>1, <3>1, RecordsAssumption DEF TypeOK
    <3> QED
      BY <1>3, <2>1, <3>2
  <2> QED
    BY <2>2, <2>3
<1>6. Feed!Lists(parts, Feed!PartChanges(n))
  BY DEF SourceInv, FlowInv
<1>7. \E k \in 1..Len(parts) : parts[k] = i
  BY <1>5, <1>6 DEF Feed!Lists
<1>8. Lag(Rows, i, A) < i
  BY <1>1, <1>2, <1>3, <1>4, LagIs DEF Feed!Previous
<1> QED
  BY <1>3, <1>7, <1>8

(* Every part the query lists is one the topology counted, however the      *)
(* process ended in between, and is booked to an earlier program.           *)
THEOREM PartsAgree == Spec => []QueryPartsCounted
BY AlwaysSource, PartsOfQuery, PTL

----------------------------------------------------------------------------
(* The durations of the query are the topology's, each one state late.      *)

(* Where a state that does not repeat is followed, it ends. *)
LEMMA SpansAre ==
  ASSUME TypeOK, NoRepeats, NEW E, E = Feed!Executing(saved.pos)
  PROVE  /\ E \subseteq 1..saved.pos
         /\ Feed!Spans(saved.pos) =
              {s \in [start : E, end : E] : Following(s.end, s.start, E)}
         /\ Kept(Rows) = {i \in E : \E j \in E : Following(j, i, E)}
<1> DEFINE n == saved.pos
<1>1. n \in Nat /\ \A i \in 1..n : Rows[i] = input[i]
  BY RowsAre
<1>2. E \subseteq 1..n
  BY <1>1, OffsetsGrow
<1>3. Feed!StateChanges(n) = E
  BY DEF Feed!StateChanges, NoRepeats, Feed!Previous
<1>4. \A i, j \in E : Feed!Previous(i, j, E) <=> Following(j, i, E)
  <2> SUFFICES ASSUME NEW i \in E, NEW j \in E
               PROVE  Feed!Previous(i, j, E) <=> Following(j, i, E)
    OBVIOUS
  <2>1. \A k \in E : k \in Int
    BY <1>2
  <2> QED
    BY <2>1 DEF Feed!Previous, Following, Feed!SameMachine
<1>5. Feed!Spans(n) = {s \in [start : E, end : E] : Following(s.end, s.start, E)}
  <2>1. ASSUME NEW s \in Feed!Spans(n)
        PROVE  s \in [start : E, end : E] /\ Following(s.end, s.start, E)
    <3>1. s \in [start : 1..n, end : 1..n] /\ s.end \in E /\ Feed!Previous(s.start, s.end, E)
      BY <1>3 DEF Feed!Spans
    <3>2. s.start \in E
      BY <3>1 DEF Feed!Previous
    <3> QED
      BY <1>4, <3>1, <3>2
  <2>2. ASSUME NEW s \in [start : E, end : E], Following(s.end, s.start, E)
        PROVE  s \in Feed!Spans(n)
    <3>1. s \in [start : 1..n, end : 1..n] /\ s.end \in E /\ s.start \in E
      BY <1>2
    <3> QED
      BY <1>3, <1>4, <2>2, <3>1 DEF Feed!Spans
  <2> QED
    BY <2>1, <2>2
<1>6. ASSUME NEW i \in E
      PROVE  i \in Kept(Rows) <=> \E j \in E : Following(j, i, E)
  <2> DEFINE j == Lead(Rows, i, E)
  <2>1. ExecutionRows(Rows) = E
    BY RowKinds
  <2>2. i \in Kept(Rows) <=> j # 0 /\ Rows[j].execution # Rows[i].execution
    BY <2>1 DEF Kept
  <2>3. /\ j # 0 => Following(j, i, E)
        /\ \A k : Following(k, i, E) => j = k
    BY <1>2, LeadIs
  <2> HIDE DEF j
  <2>4. Following(j, i, E) => /\ j # 0 /\ j \in E
                              /\ Rows[j].execution # Rows[i].execution
    <3> SUFFICES ASSUME Following(j, i, E)
                 PROVE  j # 0 /\ j \in E /\ Rows[j].execution # Rows[i].execution
      OBVIOUS
    <3>1. j \in E
      BY DEF Following
    <3>2. input[i].execution # input[j].execution
      BY <1>4, <3>1 DEF NoRepeats
    <3> QED
      BY <1>1, <1>2, <3>1, <3>2
  <2> QED
    BY <2>2, <2>3, <2>4
<1>7. Kept(Rows) \subseteq E
  BY RowKinds DEF Kept
<1> QED
  BY <1>2, <1>5, <1>6, <1>7

(* What the query shows, from what Spans and Kept are. *)
LEMMA DurationsOfQuery == SourceInv => QueryOneStateLate
<1> DEFINE E == Feed!Executing(saved.pos)
           K == Kept(Rows)
           spans == Feed!Spans(saved.pos)
           late  == {s \in spans : \A t \in spans : t.start # s.end}
           shown == ExecutionDurations(Rows)
           span(i, j) == [start |-> i, end |-> j]
<1> SUFFICES ASSUME TypeOK, NoRepeats
             PROVE  /\ {q \in shown : q.end # 0} = spans \ late
                    /\ {q.start : q \in {q \in shown : q.end = 0}} = {s.start : s \in late}
  BY DEF SourceInv, QueryOneStateLate
<1>1. /\ E \subseteq 1..saved.pos /\ K \subseteq E /\ saved.pos \in Nat
      /\ spans = {s \in [start : E, end : E] : Following(s.end, s.start, E)}
      /\ K = {i \in E : \E j \in E : Following(j, i, E)}
  BY SpansAre, RowsAre
<1>2. shown = {span(i, Lead(Rows, i, K)) : i \in K}
  BY DEF ExecutionDurations
<1> HIDE DEF E, K, spans, shown
<1>3. \A i, j : span(i, j) \in spans <=> i \in E /\ j \in E /\ Following(j, i, E)
  BY <1>1
<1>4. \A s \in spans : s = span(s.start, s.end) /\ s.start \in K
  <2> SUFFICES ASSUME NEW s \in spans
               PROVE  s = span(s.start, s.end) /\ s.start \in K
    OBVIOUS
  <2>1. /\ s \in [start : E, end : E] /\ s.start \in E /\ s.end \in E
        /\ Following(s.end, s.start, E)
    BY <1>1
  <2>2. s = span(s.start, s.end)
    BY <2>1
  <2> QED
    BY <1>1, <2>1, <2>2
(* The state that follows one that ended ended too, or was the last. *)
<1>5. ASSUME NEW i \in K, NEW j \in E, Following(j, i, E)
      PROVE  Lead(Rows, i, K) = IF j \in K THEN j ELSE 0
  <2>1. K \subseteq 1..saved.pos /\ i \in 1..saved.pos
    BY <1>1
  <2>2. /\ Lead(Rows, i, K) # 0 => Following(Lead(Rows, i, K), i, K)
        /\ \A k : Following(k, i, K) => Lead(Rows, i, K) = k
    BY <2>1, LeadIs
  <2>3. j \in K => Following(j, i, K)
    BY <1>1, <1>5 DEF Following
  <2>4. ASSUME NEW k, Following(k, i, K)
        PROVE  j \in K
    <3>1. /\ k \in K /\ k \in E /\ j <= k
          /\ input[j].machine = input[k].machine
      BY <1>1, <1>5, <2>4 DEF Following, Feed!SameMachine
    <3>2. PICK l \in E : Following(l, k, E)
      BY <1>1, <3>1
    <3>3. CASE j = k
      BY <3>1, <3>3
    <3>4. CASE j # k
      <4> DEFINE later == {e \in E : j < e /\ Feed!SameMachine(j, e)}
      <4>1. k \in later /\ later \subseteq Nat
        <5>1. E \subseteq Nat /\ j \in Nat /\ k \in Nat
          BY <1>1, <3>1
        <5>2. j < k
          BY <3>1, <3>4, <5>1
        <5>3. later \subseteq Nat
          BY <5>1
        <5> QED
          BY <3>1, <5>2, <5>3 DEF Feed!SameMachine
      <4>2. PICK e \in later : \A f \in later : e <= f
        BY <4>1, FirstExists
      <4>3. Following(e, j, E)
        BY <4>2 DEF Following
      <4> QED
        BY <1>1, <4>2, <4>3
    <3> QED
      BY <3>3, <3>4
  <2> QED
    BY <2>2, <2>3, <2>4
<1>6. ASSUME NEW i \in K
      PROVE  \E j \in E : Following(j, i, E)
  BY <1>1
<1>7. \A j : (\A t \in spans : t.start # j) <=> j \notin K
  <2>1. ASSUME NEW j \in K
        PROVE  \E t \in spans : t.start = j
    <3>1. PICK k \in E : Following(k, j, E)
      BY <1>6
    <3>2. span(j, k) \in spans
      BY <1>1, <1>3, <3>1
    <3> QED
      BY <3>2
  <2> QED
    BY <1>4, <2>1
<1>8. late = {s \in spans : s.end \notin K}
  BY <1>7
<1> HIDE DEF late
<1>9. \A j \in E : j # 0
  BY <1>1
<1>10. {q \in shown : q.end # 0} = spans \ late
  <2>1. ASSUME NEW q \in shown, q.end # 0
        PROVE  q \in spans /\ q.end \in K
    <3>1. PICK i \in K : q = span(i, Lead(Rows, i, K))
      BY <1>2
    <3>2. PICK j \in E : Following(j, i, E)
      BY <1>6
    <3>3. q = span(i, j) /\ j \in K
      BY <1>5, <2>1, <3>1, <3>2
    <3> QED
      BY <1>1, <1>3, <3>2, <3>3
  <2>2. ASSUME NEW s \in spans, s.end \in K
        PROVE  s \in shown /\ s.end # 0
    <3>1. s = span(s.start, s.end) /\ s.start \in K /\ s.end \in E /\ Following(s.end, s.start, E)
      BY <1>1, <1>4
    <3>2. Lead(Rows, s.start, K) = s.end
      BY <1>5, <2>2, <3>1
    <3> QED
      BY <1>2, <1>9, <3>1, <3>2
  <2> QED
    BY <1>8, <2>1, <2>2
<1>11. {q.start : q \in {q \in shown : q.end = 0}} = {s.start : s \in late}
  <2>1. ASSUME NEW q \in shown, q.end = 0
        PROVE  \E s \in late : s.start = q.start
    <3>1. PICK i \in K : q = span(i, Lead(Rows, i, K))
      BY <1>2
    <3>2. PICK j \in E : Following(j, i, E)
      BY <1>6
    <3>3. j \notin K
      BY <1>5, <1>9, <2>1, <3>1, <3>2
    <3>4. span(i, j) \in late
      BY <1>1, <1>3, <1>8, <3>2, <3>3
    <3> QED
      BY <3>1, <3>4
  <2>2. ASSUME NEW s \in late
        PROVE  \E q \in shown : q.end = 0 /\ q.start = s.start
    <3>1. s.start \in K /\ s.end \in E /\ Following(s.end, s.start, E) /\ s.end \notin K
      BY <1>1, <1>4, <1>8
    <3>2. Lead(Rows, s.start, K) = 0
      BY <1>5, <3>1
    <3>3. span(s.start, 0) \in shown
      BY <1>2, <3>1, <3>2
    <3> QED
      BY <3>3
  <2> QED
    BY <2>1, <2>2
<1> QED
  BY <1>10, <1>11

(* While no state repeats, the query closes the durations the topology      *)
(* printed, each one state late.                                            *)
THEOREM DurationsAgree == Spec => []QueryOneStateLate
BY AlwaysSource, DurationsOfQuery, PTL
=============================================================================
