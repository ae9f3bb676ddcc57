------------------------- MODULE StagingStreamsProofs -------------------------
(***************************************************************************)
(* Proofs about the staging topology, for a topic of any length and        *)
(* content and any number of ends of the process: it implements            *)
(* StagedFeed, and what it prints and joins is right.                      *)
(***************************************************************************)
EXTENDS StagingStreams, SequenceTheorems, TLAPS

----------------------------------------------------------------------------
(* The inductive invariant. *)

(* i is machine m's last offset in S, or 0 for want of one. *)
Latest(i, m, S) ==
  /\ i = 0 \/ (i \in S /\ input[i].machine = m)
  /\ \A k \in S : input[k].machine = m => k <= i

At(i, key) == IF i = 0 THEN NULL ELSE input[i][key]

(* The stores say of each machine what the topic says up to their position: *)
(* its last part count, its last state and where that state began.          *)
StoresTrue(s) ==
  /\ \A i \in 1..s.pos : input[i].ok
  /\ \A m \in Machines :
       /\ \E i : Latest(i, m, Feed!Counting(s.pos)) /\ s.counts[m] = At(i, "parts")
       /\ \E i : Latest(i, m, Feed!Executing(s.pos)) /\ s.states[m] = At(i, "execution")
       /\ Latest(s.spans[m], m, Feed!StateChanges(s.pos))

AllParts    == parts \o sent.parts
AllPrograms == programs \o sent.programs
AllEvents   == events \o joined

(* What is committed fits the committed position, what is committed or sent *)
(* the position reached; nothing is sent by a thread that is not up.        *)
FlowInv ==
  /\ Feed!Lists(parts, Feed!PartChanges(saved.pos))
  /\ Feed!Lists(programs, Feed!Announcing(saved.pos))
  /\ thread = "up" =>
       /\ Feed!Lists(AllParts, Feed!PartChanges(source.pos))
       /\ Feed!Lists(AllPrograms, Feed!Announcing(source.pos))
       /\ saved.pos < source.pos \/ source = saved
  /\ thread # "up" => sent = Nothing /\ joined = <<>>

SpansInv == DurationsTrue /\ (thread = "up" => Feed!Spans(source.pos) \subseteq printed)

(* The events E are those of a join that has come as far as j: in the order *)
(* of the part counts, none repeated, none left out after a machine's first *)
(* event, none with a program that is not in the table by now.              *)
Joined(E, j) ==
  /\ \A a \in 1..Len(E) : \E k \in 1..j.parts : E[a].part = parts[k]
  /\ \A a, b \in 1..Len(E) : a < b => E[a].part < E[b].part
  /\ \A k \in 1..j.parts : \A b \in 1..Len(E) :
       Machine(E[b]) = input[parts[k]].machine =>
         parts[k] < E[b].part \/ \E a \in 1..Len(E) : E[a].part = parts[k]
  /\ \A m \in Machines : j.table[m] # 0 => \E k \in 1..j.programs : programs[k] = j.table[m]
  /\ \A b \in 1..Len(E) : E[b].program <= j.table[Machine(E[b])]
  /\ \A a, b \in 1..Len(E) :
       a < b /\ Machine(E[a]) = Machine(E[b]) => E[a].program <= E[b].program

JoinInv == Joined(events, joinSaved) /\ (thread = "up" => Joined(AllEvents, join))

(* The first task needs nothing of the second, the second only that what it *)
(* reads is in the order of the topic: SourceInv is inductive by itself,    *)
(* JoinInv relative to it.                                                  *)
SourceInv == TypeOK /\ StoresTrue(source) /\ StoresTrue(saved) /\ FlowInv /\ SpansInv

----------------------------------------------------------------------------
(* Lemmas about offsets: what one more record changes. *)

(* The offsets in S with another value of key than their machine's last. *)
Changes(S, key) ==
  {i \in S : \A j \in 1..i : Feed!Previous(j, i, S) => input[j][key] # input[i][key]}

(* The part counts and the states that StagedFeed lets through. *)
LEMMA ChangesAre ==
  \A n : /\ Feed!PartChanges(n) = Changes(Feed!Counting(n), "parts")
         /\ Feed!StateChanges(n) = Changes(Feed!Executing(n), "execution")
BY DEF Feed!PartChanges, Feed!StateChanges, Changes

(* The next record joins the offsets of the kinds it has. *)
LEMMA OffsetsGrow ==
  ASSUME NEW n \in Nat
  PROVE  /\ Feed!Counting(n) \subseteq 1..n
         /\ Feed!Announcing(n) \subseteq 1..n
         /\ Feed!Executing(n) \subseteq 1..n
         /\ Feed!Counting(n + 1) =
              IF Countable(input[n + 1]) THEN Feed!Counting(n) \cup {n + 1} ELSE Feed!Counting(n)
         /\ Feed!Announcing(n + 1) =
              IF input[n + 1].program # NULL THEN Feed!Announcing(n) \cup {n + 1}
              ELSE Feed!Announcing(n)
         /\ Feed!Executing(n + 1) =
              IF input[n + 1].execution # NULL THEN Feed!Executing(n) \cup {n + 1}
              ELSE Feed!Executing(n)
<1>1. 1..(n + 1) = (1..n) \cup {n + 1} OBVIOUS
<1> QED BY <1>1 DEF Feed!Counting, Feed!Announcing, Feed!Executing, Countable

(* The last offset before the next record is the latest so far. *)
LEMMA PreviousIsLatest ==
  ASSUME NEW n \in Nat, NEW S, S \subseteq 1..(n - 1), NEW i, Latest(i, input[n].machine, S),
         NEW T, T = S \/ T = S \cup {n}
  PROVE  \A j : Feed!Previous(j, n, T) <=> i # 0 /\ j = i
<1> SUFFICES ASSUME NEW j PROVE Feed!Previous(j, n, T) <=> i # 0 /\ j = i
    OBVIOUS
<1>1. ASSUME Feed!Previous(j, n, T) PROVE i # 0 /\ j = i
  <2>0. j \in T /\ j < n /\ input[j].machine = input[n].machine
        BY <1>1 DEF Feed!Previous, Feed!SameMachine
  <2>1. j \in S /\ j < n /\ j \in 1..(n - 1) /\ input[j].machine = input[n].machine
    <3>1. j # n BY <2>0
    <3>2. j \in S BY <2>0, <3>1
    <3> QED BY <2>0, <3>2
  <2>2. j <= i BY <2>1 DEF Latest
  <2>3. i # 0 BY <2>1, <2>2
  <2>4. i \in S /\ i \in 1..(n - 1) /\ input[i].machine = input[n].machine
        BY <2>3 DEF Latest
  <2>5. i <= j BY <1>1, <2>4 DEF Feed!Previous, Feed!SameMachine
  <2> QED BY <2>1, <2>2, <2>3, <2>4, <2>5
<1>2. ASSUME i # 0, j = i PROVE Feed!Previous(j, n, T)
  <2>1. i \in S /\ i \in 1..(n - 1) /\ input[i].machine = input[n].machine
        BY <1>2 DEF Latest
  <2>2. i \in T /\ i < n BY <2>1
  <2>3. ASSUME NEW k \in T, k < n, input[k].machine = input[n].machine PROVE k <= i
    <3>1. k # n BY <2>3
    <3>2. k \in S BY <3>1
    <3> QED BY <2>3, <3>2 DEF Latest
  <2> QED BY <1>2, <2>1, <2>2, <2>3 DEF Feed!Previous, Feed!SameMachine
<1> QED BY <1>1, <1>2

(* The next record becomes the latest of its machine and of no other. *)
LEMMA LatestGrows ==
  ASSUME NEW n \in Nat \ {0}, NEW S, S \subseteq 1..(n - 1)
  PROVE  /\ Latest(n, input[n].machine, S \cup {n})
         /\ \A i, m : m # input[n].machine /\ Latest(i, m, S) => Latest(i, m, S \cup {n})
BY DEF Latest

(* The next record n is a change after i exactly if it differs from it. *)
Differs(n, i, key) == i = 0 \/ input[i][key] # input[n][key]

LEMMA ChangesGrow ==
  ASSUME NEW n \in Nat, NEW S, S \subseteq 1..(n - 1), NEW key,
         NEW i, Latest(i, input[n].machine, S)
  PROVE  /\ Differs(n, i, key) => Changes(S \cup {n}, key) = Changes(S, key) \cup {n}
         /\ ~Differs(n, i, key) => Changes(S \cup {n}, key) = Changes(S, key)
<1> DEFINE T == S \cup {n}
<1>1. \A j : Feed!Previous(j, n, T) <=> i # 0 /\ j = i BY PreviousIsLatest
<1>2. \A k \in S : \A j : Feed!Previous(j, k, T) <=> Feed!Previous(j, k, S)
      BY DEF Feed!Previous
<1>3. \A k \in S : k \in Changes(T, key) <=> k \in Changes(S, key)
      BY <1>2 DEF Changes
<1>4. n \in Changes(T, key) <=> Differs(n, i, key)
  <2>1. i # 0 => i \in 1..n
    <3> SUFFICES ASSUME i # 0 PROVE i \in 1..n
        OBVIOUS
    <3>1. i \in S BY DEF Latest
    <3>2. i \in 1..(n - 1) BY <3>1
    <3> QED BY <3>2
  <2>2. n \in T OBVIOUS
  <2> HIDE DEF T
  <2> QED BY <1>1, <2>1, <2>2 DEF Changes, Differs
<1>5. Changes(T, key) \subseteq T /\ Changes(S, key) \subseteq S /\ n \notin S
      BY DEF Changes
<1> HIDE DEF T
<1>6. S \cup {n} = T BY DEF T
<1>7. CASE Differs(n, i, key)
  <2>1. Changes(T, key) = Changes(S, key) \cup {n} BY <1>3, <1>4, <1>5, <1>6, <1>7
  <2> QED BY <1>6, <1>7, <2>1
<1>8. CASE ~Differs(n, i, key)
  <2>1. Changes(T, key) = Changes(S, key) BY <1>3, <1>4, <1>5, <1>6, <1>8
  <2> QED BY <1>6, <1>8, <2>1
<1> QED BY <1>7, <1>8

(* Later records change nothing about earlier offsets. *)
LEMMA ChangesPrefix ==
  ASSUME NEW n \in Nat, NEW S, NEW T, S \subseteq 1..n, T \subseteq Nat \ {0},
         \A k \in 1..n : k \in T <=> k \in S, NEW key
  PROVE  \A k \in 1..n : k \in Changes(T, key) <=> k \in Changes(S, key)
<1>1. ASSUME NEW k \in 1..n, NEW j PROVE Feed!Previous(j, k, T) <=> Feed!Previous(j, k, S)
  <2>1. \A l \in T : l < k => l \in S
    <3> SUFFICES ASSUME NEW l \in T, l < k PROVE l \in S
        OBVIOUS
    <3>1. l \in 1..n OBVIOUS
    <3> QED BY <3>1
  <2>2. \A l \in S : l \in T OBVIOUS
  <2> QED BY <2>1, <2>2 DEF Feed!Previous
<1> QED BY <1>1 DEF Changes

----------------------------------------------------------------------------
(* Lemmas about lists of offsets. *)

(* A later offset is listed last. *)
LEMMA ListsAppend ==
  ASSUME NEW n \in Nat, NEW S, S \subseteq 1..n, NEW q \in Seq(Nat), Feed!Lists(q, S)
  PROVE  Feed!Lists(Append(q, n + 1), S \cup {n + 1})
<1> DEFINE p == Append(q, n + 1)
<1>1. /\ Len(q) \in Nat /\ Len(p) = Len(q) + 1 /\ p[Len(q) + 1] = n + 1
      /\ \A k \in 1..Len(q) : p[k] = q[k]
      OBVIOUS
<1> HIDE DEF p
<1>2. 1..Len(p) = (1..Len(q)) \cup {Len(q) + 1} BY <1>1
<1>3. {p[k] : k \in 1..Len(p)} = {q[k] : k \in 1..Len(q)} \cup {n + 1} BY <1>1, <1>2
<1>4. \A k \in 1..Len(q) : q[k] \in 1..n BY DEF Feed!Lists
<1>5. \A k, l \in 1..Len(p) : k < l => p[k] < p[l]
  <2> SUFFICES ASSUME NEW k \in 1..Len(p), NEW l \in 1..Len(p), k < l PROVE p[k] < p[l]
      OBVIOUS
  <2>1. k \in 1..Len(q) /\ p[k] = q[k] /\ p[k] \in 1..n BY <1>1, <1>4
  <2>2. CASE l \in 1..Len(q) BY <1>1, <2>1, <2>2 DEF Feed!Lists
  <2>3. CASE l = Len(q) + 1 BY <1>1, <2>1, <2>3
  <2> QED BY <1>2, <2>2, <2>3
<1>6. Feed!Lists(p, S \cup {n + 1}) BY <1>3, <1>5 DEF Feed!Lists
<1> QED BY <1>6 DEF p

LEMMA ConcatAppend ==
  ASSUME NEW X, NEW p \in Seq(X), NEW q \in Seq(X), NEW x \in X
  PROVE  p \o Append(q, x) = Append(p \o q, x)
<1>1. /\ p \o q \in Seq(X) /\ Len(p \o q) = Len(p) + Len(q)
      /\ \A i \in 1..(Len(p) + Len(q)) :
           (p \o q)[i] = IF i <= Len(p) THEN p[i] ELSE q[i - Len(p)]
      BY ConcatProperties
<1>2. /\ Append(q, x) \in Seq(X) /\ Len(Append(q, x)) = Len(q) + 1
      /\ Append(q, x)[Len(q) + 1] = x
      /\ \A i \in 1..Len(q) : Append(q, x)[i] = q[i]
      OBVIOUS
<1>3. /\ p \o Append(q, x) \in Seq(X)
      /\ Len(p \o Append(q, x)) = Len(p) + (Len(q) + 1)
      /\ \A i \in 1..(Len(p) + (Len(q) + 1)) :
           (p \o Append(q, x))[i] = IF i <= Len(p) THEN p[i] ELSE Append(q, x)[i - Len(p)]
      BY <1>2, ConcatProperties
<1>4. Len(p) \in Nat /\ Len(q) \in Nat OBVIOUS
<1>5. /\ Append(p \o q, x) \in Seq(X)
      /\ Len(Append(p \o q, x)) = Len(p) + Len(q) + 1
      /\ Append(p \o q, x)[Len(p) + Len(q) + 1] = x
      /\ \A i \in 1..(Len(p) + Len(q)) : Append(p \o q, x)[i] = (p \o q)[i]
      BY <1>1
<1>6. ASSUME NEW i \in 1..(Len(p) + Len(q) + 1)
      PROVE  (p \o Append(q, x))[i] = Append(p \o q, x)[i]
  <2>1. CASE i = Len(p) + Len(q) + 1
    <3>1. (p \o Append(q, x))[i] = Append(q, x)[Len(q) + 1] BY <1>3, <1>4, <2>1
    <3> QED BY <1>2, <1>5, <2>1, <3>1
  <2>2. CASE i \in 1..Len(p) BY <1>1, <1>3, <1>4, <1>5, <2>2
  <2>3. CASE i \in (Len(p) + 1)..(Len(p) + Len(q))
    <3>1. i - Len(p) \in 1..Len(q) BY <1>4, <2>3
    <3>2. (p \o Append(q, x))[i] = q[i - Len(p)] BY <1>2, <1>3, <1>4, <2>3, <3>1
    <3>3. Append(p \o q, x)[i] = q[i - Len(p)] BY <1>1, <1>4, <1>5, <2>3
    <3> QED BY <3>2, <3>3
  <2> QED BY <1>4, <2>1, <2>2, <2>3
<1> QED BY <1>3, <1>4, <1>5, <1>6, SeqEqual

(* An offset that is sent after the others is listed after them. *)
LEMMA SentIsListed ==
  ASSUME NEW n \in 0..(Length - 1), NEW S, S \subseteq 1..n,
         NEW p \in Offsets, NEW q \in Offsets, Feed!Lists(p \o q, S), NEW when \in BOOLEAN
  PROVE  Feed!Lists(p \o AppendIf(q, n + 1, when), IF when THEN S \cup {n + 1} ELSE S)
<1>1. CASE when
  <2>1. n + 1 \in 1..Length BY LimitsAssumption
  <2>2. p \o Append(q, n + 1) = Append(p \o q, n + 1) BY <2>1, ConcatAppend DEF Offsets
  <2>3. p \o q \in Seq(Nat) /\ n \in Nat
    <3>1. p \o q \in Seq(1..Length) BY ConcatProperties DEF Offsets
    <3>2. 1..Length \subseteq Nat BY LimitsAssumption
    <3> QED BY <3>1, <3>2, SeqMonotonic, LimitsAssumption
  <2>4. Feed!Lists(Append(p \o q, n + 1), S \cup {n + 1}) BY <2>3, ListsAppend
  <2> QED BY <1>1, <2>2, <2>4 DEF AppendIf
<1>2. CASE ~when BY <1>2 DEF AppendIf
<1> QED BY <1>1, <1>2

----------------------------------------------------------------------------
(* Types. *)

LEMMA Lengths == TypeOK => Len(input) = Length /\ Length \in Nat \ {0}
<1> SUFFICES ASSUME TypeOK PROVE Len(input) = Length
    BY LimitsAssumption
<1>1. input \in [1..Length -> Records] /\ Length \in Nat BY LimitsAssumption DEF TypeOK
<1>2. input \in Seq(Records) BY <1>1, SeqDef
<1>3. DOMAIN input = 1..Len(input) /\ Len(input) \in Nat BY <1>2, LenProperties
<1> QED BY <1>1, <1>3

LEMMA RecordType ==
  ASSUME TypeOK, NEW i \in 1..Length
  PROVE  /\ input[i] \in Records /\ input[i].machine \in Machines
         /\ input[i].parts \in Values("parts") /\ input[i].execution \in Values("execution")
<1>1. input[i] \in Records BY DEF TypeOK
<1> QED BY <1>1, RecordsAssumption DEF Values

LEMMA PutType ==
  ASSUME NEW V, NEW store \in [Machines -> V], NEW m \in Machines, NEW v \in V, NEW when \in BOOLEAN
  PROVE  /\ Put(store, m, v, when) \in [Machines -> V]
         /\ Put(store, m, v, when)[m] = IF when THEN v ELSE store[m]
         /\ \A l \in Machines : l # m => Put(store, m, v, when)[l] = store[l]
BY DEF Put

LEMMA AppendType ==
  ASSUME NEW V, NEW q \in Seq(V), NEW v, NEW when \in BOOLEAN, when => v \in V
  PROVE  AppendIf(q, v, when) \in Seq(V)
BY DEF AppendIf

LEMMA NewSourceType == NewSource \in Sources /\ Nothing \in [parts : Offsets, programs : Offsets]
<1>1. Length \in Nat BY LimitsAssumption
<1>2. NULL \in Values("parts") /\ NULL \in Values("execution") BY DEF Values
<1>3. NewSource \in Sources BY <1>1, <1>2 DEF NewSource, NoneYet, Sources
<1>4. <<>> \in Seq(1..Length) OBVIOUS
<1> QED BY <1>3, <1>4 DEF Nothing, Offsets

LEMMA InitType == Init => TypeOK
<1> SUFFICES ASSUME Init PROVE TypeOK
    OBVIOUS
<1>1. <<>> \in Offsets /\ <<>> \in Events /\ Length \in Nat /\ MaxExits \in Nat
      BY LimitsAssumption DEF Offsets, Events
<1>2. parts = <<>> /\ programs = <<>> /\ Len(parts) = 0 /\ Len(programs) = 0
      BY DEF Init
<1>3. NewJoin \in Joins BY <1>1, <1>2 DEF NewJoin, NoneYet, Joins
<1> QED BY <1>1, <1>2, <1>3, NewSourceType DEF Init, TypeOK

LEMMA ProcessFacts ==
  ASSUME TypeOK, Process, NEW n, n = source.pos + 1
  PROVE  /\ n \in 1..Length /\ source.pos \in 0..(Length - 1) /\ n - 1 = source.pos
         /\ thread = "up" /\ input[n].ok
         /\ source' = [pos    |-> n,
                       counts |-> Put(source.counts, input[n].machine, input[n].parts, NewCount(input[n])),
                       states |-> Put(source.states, input[n].machine, input[n].execution, NewState(input[n])),
                       spans  |-> Put(source.spans, input[n].machine, n, NewState(input[n]))]
         /\ sent' = [parts    |-> AppendIf(sent.parts, n, NewCount(input[n])),
                     programs |-> AppendIf(sent.programs, n, input[n].program # NULL)]
         /\ printed' = printed \cup Ended(n)
         /\ NewCount(input[n]) \in BOOLEAN /\ NewState(input[n]) \in BOOLEAN
         /\ UNCHANGED <<input, thread, join, joined, saved, parts, programs, joinSaved, events, exits>>
<1>1. source.pos < Length /\ source.pos \in 0..Length /\ Length \in Nat
      BY Lengths DEF Process, TypeOK, Sources
<1>2. n \in 1..Length /\ source.pos \in 0..(Length - 1) /\ n - 1 = source.pos BY <1>1
<1> QED BY <1>2 DEF Process, log, NewCount, NewState, Countable

LEMMA ProcessType == ASSUME TypeOK, Process PROVE TypeOK'
<1> DEFINE n == source.pos + 1
           r == input[n]
<1>1. /\ n \in 1..Length
      /\ source' = [pos    |-> n,
                    counts |-> Put(source.counts, r.machine, r.parts, NewCount(r)),
                    states |-> Put(source.states, r.machine, r.execution, NewState(r)),
                    spans  |-> Put(source.spans, r.machine, n, NewState(r))]
      /\ sent' = [parts    |-> AppendIf(sent.parts, n, NewCount(r)),
                  programs |-> AppendIf(sent.programs, n, r.program # NULL)]
      /\ printed' = printed \cup Ended(n)
      /\ NewCount(r) \in BOOLEAN /\ NewState(r) \in BOOLEAN
      /\ UNCHANGED <<input, thread, join, joined, saved, parts, programs, joinSaved, events, exits>>
      BY ProcessFacts
<1> HIDE DEF n
<1>2. r.machine \in Machines /\ r.parts \in Values("parts") /\ r.execution \in Values("execution")
      BY <1>1, RecordType
<1>3. /\ source.counts \in [Machines -> Values("parts")]
      /\ source.states \in [Machines -> Values("execution")]
      /\ source.spans \in [Machines -> 0..Length]
      BY DEF TypeOK, Sources
<1>4. n \in 0..Length BY <1>1, LimitsAssumption
<1>5. source' \in Sources
  <2>1. Put(source.counts, r.machine, r.parts, NewCount(r)) \in [Machines -> Values("parts")]
        BY <1>1, <1>2, <1>3, PutType
  <2>2. Put(source.states, r.machine, r.execution, NewState(r)) \in [Machines -> Values("execution")]
        BY <1>1, <1>2, <1>3, PutType
  <2>3. Put(source.spans, r.machine, n, NewState(r)) \in [Machines -> 0..Length]
        BY <1>1, <1>2, <1>3, <1>4, PutType
  <2> QED BY <1>1, <1>4, <2>1, <2>2, <2>3 DEF Sources
<1>6. sent' \in [parts : Offsets, programs : Offsets]
  <2>1. sent.parts \in Seq(1..Length) /\ sent.programs \in Seq(1..Length)
        BY DEF TypeOK, Offsets
  <2>2. AppendIf(sent.parts, n, NewCount(r)) \in Offsets
        BY <1>1, <2>1, AppendType DEF Offsets
  <2>3. AppendIf(sent.programs, n, r.program # NULL) \in Offsets
        BY <1>1, <2>1, AppendType DEF Offsets
  <2> QED BY <1>1, <2>2, <2>3
<1>7. Ended(n) \subseteq [start : 1..Length, end : 1..Length]
  <2>1. source.spans[r.machine] \in 0..Length BY <1>2, <1>3
  <2>2. source.spans[r.machine] # 0 => source.spans[r.machine] \in 1..Length
        BY <2>1, LimitsAssumption
  <2> QED BY <1>1, <2>2 DEF Ended
<1>8. printed' \subseteq [start : 1..Length, end : 1..Length]
      BY <1>1, <1>7 DEF TypeOK
<1>9. Joins' = Joins /\ Sources' = Sources BY <1>1 DEF Joins, Sources
<1> HIDE DEF r
<1> QED BY <1>1, <1>5, <1>6, <1>8, <1>9 DEF TypeOK

LEMMA CommitSourceType == ASSUME TypeOK, CommitSource PROVE TypeOK'
<1>1. /\ saved' = source /\ sent' = Nothing
      /\ parts' = parts \o sent.parts /\ programs' = programs \o sent.programs
      /\ UNCHANGED <<input, thread, source, join, joined, joinSaved, events, printed, exits>>
      BY DEF CommitSource
<1>2. /\ parts \in Offsets /\ programs \in Offsets
      /\ sent.parts \in Offsets /\ sent.programs \in Offsets
      BY DEF TypeOK
<1>3. /\ parts' \in Offsets /\ programs' \in Offsets
      /\ Len(parts) \in Nat /\ Len(parts') \in Nat /\ Len(parts) <= Len(parts')
      /\ Len(programs) \in Nat /\ Len(programs') \in Nat /\ Len(programs) <= Len(programs')
  <2>1. ASSUME NEW p \in Offsets, NEW q \in Offsets
        PROVE  p \o q \in Offsets /\ Len(p) \in Nat /\ Len(p \o q) \in Nat /\ Len(p) <= Len(p \o q)
    <3>1. Len(p) \in Nat /\ Len(q) \in Nat /\ p \o q \in Offsets /\ Len(p \o q) = Len(p) + Len(q)
          BY ConcatProperties, LenProperties DEF Offsets
    <3> QED BY <3>1
  <2> QED BY <1>1, <1>2, <2>1
<1>4. Joins \subseteq Joins'
  <2>1. 0..Len(parts) \subseteq 0..Len(parts') /\ 0..Len(programs) \subseteq 0..Len(programs')
        BY <1>3
  <2> QED BY <2>1 DEF Joins
<1>5. join' \in Joins' /\ joinSaved' \in Joins' BY <1>1, <1>4 DEF TypeOK
<1>6. Sources' = Sources BY DEF Sources
<1> QED BY <1>1, <1>3, <1>5, <1>6, NewSourceType DEF TypeOK

LEMMA OffsetOf ==
  ASSUME NEW q \in Offsets, NEW k \in 0..Len(q), k < Len(q)
  PROVE  k + 1 \in 1..Len(q) /\ k + 1 \in 0..Len(q) /\ q[k + 1] \in 1..Length
<1>1. Len(q) \in Nat BY LenProperties DEF Offsets
<1>2. k + 1 \in 1..Len(q) /\ k + 1 \in 0..Len(q) BY <1>1
<1>3. q[k + 1] \in 1..Length BY <1>2, ElementOfSeq DEF Offsets
<1> QED BY <1>2, <1>3

LEMMA ReadPartFacts ==
  ASSUME TypeOK, ReadPart, NEW i, i = parts[join.parts + 1]
  PROVE  /\ i \in 1..Length /\ input[i].machine \in Machines
         /\ join.parts \in Nat /\ join.parts + 1 \in 1..Len(parts)
         /\ join' = [join EXCEPT !.parts = join.parts + 1]
         /\ joined' = AppendIf(joined, [part |-> i, program |-> join.table[input[i].machine]],
                               join.table[input[i].machine] # 0)
         /\ join'.parts = join.parts + 1
         /\ join'.programs = join.programs /\ join'.table = join.table
         /\ thread = "up"
         /\ UNCHANGED <<input, thread, source, sent, saved, parts, programs, joinSaved, events, printed, exits>>
<1>1. join.parts \in 0..Len(parts) /\ join.parts < Len(parts) /\ parts \in Offsets
      BY DEF ReadPart, TypeOK, Joins
<1>2. i \in 1..Length /\ join.parts + 1 \in 1..Len(parts) BY <1>1, OffsetOf
<1>3. input[i].machine \in Machines BY <1>2, RecordType
<1>4. join' = [join EXCEPT !.parts = join.parts + 1] BY DEF ReadPart
<1>5. /\ join'.parts = join.parts + 1
      /\ join'.programs = join.programs /\ join'.table = join.table
      BY <1>4 DEF TypeOK, Joins
<1> QED BY <1>1, <1>2, <1>3, <1>4, <1>5 DEF ReadPart, log

LEMMA ReadPartType == ASSUME TypeOK, ReadPart PROVE TypeOK'
<1> DEFINE i == parts[join.parts + 1]
           p == join.table[input[i].machine]
<1>1. /\ i \in 1..Length /\ input[i].machine \in Machines
      /\ join.parts + 1 \in 1..Len(parts)
      /\ join' = [join EXCEPT !.parts = join.parts + 1]
      /\ joined' = AppendIf(joined, [part |-> i, program |-> p], p # 0)
      /\ UNCHANGED <<input, thread, source, sent, saved, parts, programs, joinSaved, events, printed, exits>>
      BY ReadPartFacts
<1>2. join.parts + 1 \in 0..Len(parts) BY <1>1
<1>3. join' \in Joins BY <1>1, <1>2 DEF TypeOK, Joins
<1>4. joined' \in Events
  <2>1. p \in 0..Length BY <1>1 DEF TypeOK, Joins
  <2>2. p # 0 => [part |-> i, program |-> p] \in [part : 1..Length, program : 1..Length]
    <3>1. i \in 1..Length BY <1>1
    <3> HIDE DEF i, p
    <3>2. p # 0 => p \in 1..Length BY <2>1, LimitsAssumption
    <3> QED BY <3>1, <3>2
  <2>3. joined \in Seq([part : 1..Length, program : 1..Length]) /\ (p # 0) \in BOOLEAN
        BY DEF TypeOK, Events
  <2> HIDE DEF i, p
  <2> QED BY <1>1, <2>2, <2>3, AppendType DEF Events
<1>5. Joins' = Joins /\ Sources' = Sources BY <1>1 DEF Joins, Sources
<1> HIDE DEF i, p
<1> QED BY <1>1, <1>3, <1>4, <1>5 DEF TypeOK

LEMMA ReadProgramFacts ==
  ASSUME TypeOK, ReadProgram, NEW i, i = programs[join.programs + 1]
  PROVE  /\ i \in 1..Length /\ input[i].machine \in Machines
         /\ join.programs \in Nat /\ join.programs + 1 \in 1..Len(programs)
         /\ join' = [join EXCEPT !.programs = join.programs + 1,
                                 !.table = [join.table EXCEPT ![input[i].machine] = i]]
         /\ join'.programs = join.programs + 1 /\ join'.parts = join.parts
         /\ join'.table = [join.table EXCEPT ![input[i].machine] = i]
         /\ thread = "up"
         /\ UNCHANGED <<input, thread, source, sent, joined, saved, parts, programs, joinSaved, events, printed, exits>>
<1>1. join.programs \in 0..Len(programs) /\ join.programs < Len(programs) /\ programs \in Offsets
      BY DEF ReadProgram, TypeOK, Joins
<1>2. i \in 1..Length /\ join.programs + 1 \in 1..Len(programs) BY <1>1, OffsetOf
<1>3. input[i].machine \in Machines BY <1>2, RecordType
<1>4. join' = [join EXCEPT !.programs = join.programs + 1,
                           !.table = [join.table EXCEPT ![input[i].machine] = i]]
      BY DEF ReadProgram
<1>5. /\ join'.programs = join.programs + 1 /\ join'.parts = join.parts
      /\ join'.table = [join.table EXCEPT ![input[i].machine] = i]
      BY <1>4 DEF TypeOK, Joins
<1> QED BY <1>1, <1>2, <1>3, <1>4, <1>5 DEF ReadProgram, log

LEMMA ReadProgramType == ASSUME TypeOK, ReadProgram PROVE TypeOK'
<1> DEFINE i == programs[join.programs + 1]
           t == [join.table EXCEPT ![input[i].machine] = i]
<1>1. /\ i \in 1..Length /\ input[i].machine \in Machines
      /\ join.programs + 1 \in 1..Len(programs)
      /\ join' = [join EXCEPT !.programs = join.programs + 1, !.table = t]
      /\ UNCHANGED <<input, thread, source, sent, joined, saved, parts, programs, joinSaved, events, printed, exits>>
      BY ReadProgramFacts
<1>2. join.programs + 1 \in 0..Len(programs) /\ i \in 0..Length BY <1>1, LimitsAssumption
<1>3. join.table \in [Machines -> 0..Length] BY DEF TypeOK, Joins
<1>4. t \in [Machines -> 0..Length] BY <1>1, <1>2, <1>3
<1> HIDE DEF i, t
<1>5. join' \in Joins BY <1>1, <1>2, <1>4 DEF TypeOK, Joins
<1>6. Joins' = Joins /\ Sources' = Sources BY <1>1 DEF Joins, Sources
<1> QED BY <1>1, <1>5, <1>6 DEF TypeOK

LEMMA CommitJoinType == ASSUME TypeOK, CommitJoin PROVE TypeOK'
<1>1. /\ joinSaved' = join /\ events' = events \o joined /\ joined' = <<>>
      /\ UNCHANGED <<input, thread, source, sent, join, saved, parts, programs, printed, exits>>
      BY DEF CommitJoin
<1>2. events' \in Events /\ joined' \in Events
      BY <1>1, ConcatProperties DEF TypeOK, Events
<1>3. Joins' = Joins /\ Sources' = Sources BY <1>1 DEF Joins, Sources
<1> QED BY <1>1, <1>2, <1>3 DEF TypeOK

LEMMA TypeStep == ASSUME TypeOK, [Next]_vars PROVE TypeOK'
<1> DEFINE topics == <<input, parts, programs, events, saved, joinSaved, printed>>
<1>1. ASSUME UNCHANGED topics, thread' \in {"down", "up", "dead"}, source' \in Sources, join' \in Joins,
             sent' \in [parts : Offsets, programs : Offsets], joined' \in Events,
             exits' \in 0..MaxExits
      PROVE  TypeOK'
  <2>1. Joins' = Joins /\ Sources' = Sources BY <1>1 DEF Joins, Sources
  <2> QED BY <1>1, <2>1 DEF TypeOK
<1>2. ASSUME Abort
      PROVE  sent' \in [parts : Offsets, programs : Offsets] /\ joined' \in Events
      BY <1>2, NewSourceType DEF Abort, Events
<1>3. CASE Process BY <1>3, ProcessType
<1>4. CASE Dies
  <2>1. UNCHANGED topics /\ UNCHANGED <<source, join, exits>> /\ thread' = "dead" /\ Abort
        BY <1>4 DEF Dies, log
  <2> QED BY <1>1, <1>2, <2>1 DEF TypeOK
<1>5. CASE CommitSource BY <1>5, CommitSourceType
<1>6. CASE ReadPart BY <1>6, ReadPartType
<1>7. CASE ReadProgram BY <1>7, ReadProgramType
<1>8. CASE CommitJoin BY <1>8, CommitJoinType
<1>9. CASE Exit
  <2>1. UNCHANGED topics /\ UNCHANGED <<source, join>> /\ thread' = "down" /\ Abort
        BY <1>9 DEF Exit, log
  <2>2. exits' \in 0..MaxExits BY <1>9, LimitsAssumption DEF Exit, TypeOK
  <2> QED BY <1>1, <1>2, <2>1, <2>2 DEF TypeOK
<1>10. CASE Start
  <2>1. /\ UNCHANGED topics /\ UNCHANGED <<sent, joined, exits>> /\ thread' = "up"
        /\ source' = saved /\ join' = joinSaved
        BY <1>10 DEF Start, log
  <2> QED BY <1>1, <2>1 DEF TypeOK
<1>11. CASE UNCHANGED vars
  <2>1. UNCHANGED topics /\ UNCHANGED <<thread, source, join, sent, joined, exits>>
        BY <1>11 DEF vars, tasks, log
  <2> QED BY <1>1, <2>1 DEF TypeOK
<1> QED BY <1>3, <1>4, <1>5, <1>6, <1>7, <1>8, <1>9, <1>10, <1>11 DEF Next, StreamThread

----------------------------------------------------------------------------
(* The stores follow the topic. *)

(* What does not change as long as the topic does not. *)
LEMMA TopicKept ==
  ASSUME input' = input
  PROVE  /\ \A n : /\ Feed!Counting(n)' = Feed!Counting(n)
                   /\ Feed!Executing(n)' = Feed!Executing(n)
                   /\ Feed!Announcing(n)' = Feed!Announcing(n)
                   /\ Feed!PartChanges(n)' = Feed!PartChanges(n)
                   /\ Feed!StateChanges(n)' = Feed!StateChanges(n)
                   /\ Feed!Spans(n)' = Feed!Spans(n)
         /\ \A i, m, S : Latest(i, m, S)' <=> Latest(i, m, S)
         /\ \A i, key : At(i, key)' = At(i, key)
         /\ \A s : StoresTrue(s)' <=> StoresTrue(s)
<1>1. \A n : /\ Feed!Counting(n)' = Feed!Counting(n)
             /\ Feed!Executing(n)' = Feed!Executing(n)
             /\ Feed!Announcing(n)' = Feed!Announcing(n)
      BY DEF Feed!Counting, Feed!Executing, Feed!Announcing
<1>2. \A i, j, S : Feed!Previous(j, i, S)' <=> Feed!Previous(j, i, S)
      BY DEF Feed!Previous, Feed!SameMachine
<1>3. \A n : /\ Feed!PartChanges(n)' = Feed!PartChanges(n)
             /\ Feed!StateChanges(n)' = Feed!StateChanges(n)
      BY <1>1, <1>2 DEF Feed!PartChanges, Feed!StateChanges
<1>4. \A n : Feed!Spans(n)' = Feed!Spans(n)
      BY <1>2, <1>3 DEF Feed!Spans
<1>5. \A i, m, S : Latest(i, m, S)' <=> Latest(i, m, S) BY DEF Latest
<1>6. \A i, key : At(i, key)' = At(i, key) BY DEF At
<1>7. \A s : StoresTrue(s)' <=> StoresTrue(s)
      BY <1>1, <1>3, <1>5, <1>6 DEF StoresTrue
<1> QED BY <1>1, <1>3, <1>4, <1>5, <1>6, <1>7

(* What the first task lets through is what differs from the machine's last. *)
LEMMA ChangesPass ==
  ASSUME TypeOK, StoresTrue(source), NEW n \in 1..Length, n - 1 = source.pos
  PROVE  /\ Feed!PartChanges(n) =
              IF NewCount(input[n]) THEN Feed!PartChanges(source.pos) \cup {n}
              ELSE Feed!PartChanges(source.pos)
         /\ Feed!StateChanges(n) =
              IF NewState(input[n]) THEN Feed!StateChanges(source.pos) \cup {n}
              ELSE Feed!StateChanges(source.pos)
<1> DEFINE m == input[n].machine
           C == Feed!Counting(source.pos)
           E == Feed!Executing(source.pos)
<1>1. source.pos \in Nat /\ n = source.pos + 1 /\ m \in Machines /\ n \in Nat
      BY LimitsAssumption, RecordType DEF TypeOK, Sources
<1>2. /\ C \subseteq 1..(n - 1) /\ E \subseteq 1..(n - 1)
      /\ Feed!Counting(n) = IF Countable(input[n]) THEN C \cup {n} ELSE C
      /\ Feed!Executing(n) = IF input[n].execution # NULL THEN E \cup {n} ELSE E
      BY <1>1, OffsetsGrow
<1>3. PICK i : Latest(i, m, C) /\ source.counts[m] = At(i, "parts")
      BY <1>1 DEF StoresTrue
<1>4. PICK j : Latest(j, m, E) /\ source.states[m] = At(j, "execution")
      BY <1>1 DEF StoresTrue
<1>5. /\ Differs(n, i, "parts") => Changes(C \cup {n}, "parts") = Changes(C, "parts") \cup {n}
      /\ ~Differs(n, i, "parts") => Changes(C \cup {n}, "parts") = Changes(C, "parts")
      /\ Differs(n, j, "execution") =>
           Changes(E \cup {n}, "execution") = Changes(E, "execution") \cup {n}
      /\ ~Differs(n, j, "execution") => Changes(E \cup {n}, "execution") = Changes(E, "execution")
  <2> HIDE DEF C, E
  <2>1. n \in Nat /\ C \subseteq 1..(n - 1) /\ E \subseteq 1..(n - 1) BY <1>1, <1>2
  <2>2. Changes(C \cup {n}, "parts") =
          IF Differs(n, i, "parts") THEN Changes(C, "parts") \cup {n} ELSE Changes(C, "parts")
    BY <1>3, <2>1, ChangesGrow, Zenon
  <2>3. Changes(E \cup {n}, "execution") =
          IF Differs(n, j, "execution") THEN Changes(E, "execution") \cup {n}
          ELSE Changes(E, "execution")
    BY <1>4, <2>1, ChangesGrow, Zenon
  <2> QED BY <2>2, <2>3, Zenon
<1>6. /\ Feed!PartChanges(n) = Changes(Feed!Counting(n), "parts")
      /\ Feed!PartChanges(source.pos) = Changes(C, "parts")
      /\ Feed!StateChanges(n) = Changes(Feed!Executing(n), "execution")
      /\ Feed!StateChanges(source.pos) = Changes(E, "execution")
      BY ChangesAre
<1>7. NewCount(input[n]) <=>
        Countable(input[n]) /\ Differs(n, i, "parts")
      BY <1>3 DEF NewCount, Passes, At, Countable, Differs
<1>8. NewState(input[n]) <=>
        input[n].execution # NULL /\ Differs(n, j, "execution")
      BY <1>4 DEF NewState, Passes, At, Differs
<1> HIDE DEF C, E
<1>9. Feed!PartChanges(n) =
        IF NewCount(input[n]) THEN Feed!PartChanges(source.pos) \cup {n}
        ELSE Feed!PartChanges(source.pos)
      BY <1>2, <1>5, <1>6, <1>7
<1>10. Feed!StateChanges(n) =
        IF NewState(input[n]) THEN Feed!StateChanges(source.pos) \cup {n}
        ELSE Feed!StateChanges(source.pos)
      BY <1>2, <1>5, <1>6, <1>8
<1> QED BY <1>9, <1>10

LEMMA LatestStep ==
  ASSUME NEW n \in Nat \ {0}, NEW S, S \subseteq 1..(n - 1), NEW l, NEW i, Latest(i, l, S)
  PROVE  Latest(IF l = input[n].machine THEN n ELSE i, l, S \cup {n})
<1>1. CASE l = input[n].machine BY <1>1, LatestGrows
<1>2. CASE l # input[n].machine BY <1>2, LatestGrows
<1> QED BY <1>1, <1>2

LEMMA ProcessStores == ASSUME TypeOK, StoresTrue(source), Process PROVE StoresTrue(source)'
<1> DEFINE n == source.pos + 1
           r == input[n]
           C == Feed!Counting(source.pos)
           E == Feed!Executing(source.pos)
           D == Feed!StateChanges(source.pos)
<1>1. /\ n \in 1..Length /\ n - 1 = source.pos /\ n \in Nat \ {0} /\ r.ok /\ r.machine \in Machines
      /\ source' = [pos    |-> n,
                    counts |-> Put(source.counts, r.machine, r.parts, NewCount(r)),
                    states |-> Put(source.states, r.machine, r.execution, NewState(r)),
                    spans  |-> Put(source.spans, r.machine, n, NewState(r))]
      /\ NewCount(r) \in BOOLEAN /\ NewState(r) \in BOOLEAN
      /\ input' = input
      BY ProcessFacts, RecordType
<1>2. /\ source.pos \in Nat
      /\ source.counts \in [Machines -> Values("parts")]
      /\ source.states \in [Machines -> Values("execution")]
      /\ source.spans \in [Machines -> 0..Length]
      /\ r.parts \in Values("parts") /\ r.execution \in Values("execution") /\ n \in 0..Length
      BY <1>1, RecordType, LimitsAssumption DEF TypeOK, Sources
<1>3. /\ C \subseteq 1..(n - 1) /\ E \subseteq 1..(n - 1)
      /\ Feed!Counting(n) = IF Countable(r) THEN C \cup {n} ELSE C
      /\ Feed!Executing(n) = IF r.execution # NULL THEN E \cup {n} ELSE E
  <2>1. n = source.pos + 1 OBVIOUS
  <2> HIDE DEF n
  <2> QED BY <1>1, <1>2, <2>1, OffsetsGrow
<1>4. Feed!StateChanges(n) = IF NewState(r) THEN D \cup {n} ELSE D
      BY <1>1, ChangesPass
<1>5. D \subseteq 1..(n - 1) BY <1>3 DEF Feed!StateChanges
<1>6. source'.pos = n /\ \A i \in 1..n : input[i].ok
  <2>1. 1..n = (1..source.pos) \cup {n} BY <1>2
  <2> QED BY <1>1, <2>1 DEF StoresTrue
<1>7. ASSUME NEW l \in Machines
      PROVE  /\ source'.counts[l] = IF l = r.machine /\ NewCount(r) THEN r.parts ELSE source.counts[l]
             /\ source'.states[l] = IF l = r.machine /\ NewState(r) THEN r.execution ELSE source.states[l]
             /\ source'.spans[l] = IF l = r.machine /\ NewState(r) THEN n ELSE source.spans[l]
  <2>1. /\ source'.counts = Put(source.counts, r.machine, r.parts, NewCount(r))
        /\ source'.states = Put(source.states, r.machine, r.execution, NewState(r))
        /\ source'.spans = Put(source.spans, r.machine, n, NewState(r))
        BY <1>1
  <2>2. /\ NewCount(r) \in BOOLEAN /\ NewState(r) \in BOOLEAN /\ r.machine \in Machines
        /\ l = r.machine \/ l # r.machine
        BY <1>1
  <2> HIDE DEF n, r
  <2>3. source'.counts[l] = IF l = r.machine /\ NewCount(r) THEN r.parts ELSE source.counts[l]
        BY <1>2, <2>1, <2>2 DEF Put
  <2>4. source'.states[l] = IF l = r.machine /\ NewState(r) THEN r.execution ELSE source.states[l]
        BY <1>2, <2>1, <2>2 DEF Put
  <2>5. source'.spans[l] = IF l = r.machine /\ NewState(r) THEN n ELSE source.spans[l]
        BY <1>2, <2>1, <2>2 DEF Put
  <2> QED BY <2>3, <2>4, <2>5
<1> HIDE DEF n, C, E, D
<1>8. ASSUME NEW l \in Machines
      PROVE  \E i : Latest(i, l, Feed!Counting(n)) /\ source'.counts[l] = At(i, "parts")
  <2>1. PICK i : Latest(i, l, C) /\ source.counts[l] = At(i, "parts")
        BY DEF StoresTrue, C
  <2>2. CASE ~Countable(r)
    <3>1. ~NewCount(r) BY <2>2 DEF NewCount
    <3> QED BY <1>3, <1>7, <2>1, <2>2, <3>1
  <2>3. CASE Countable(r)
    <3> DEFINE j == IF l = input[n].machine THEN n ELSE i
    <3>1. Latest(j, l, C \cup {n}) BY <1>1, <1>3, <2>1, LatestStep
    <3>2. l = r.machine => source'.counts[l] = r.parts
      <4>1. Countable(r) /\ ~NewCount(r) => source.counts[r.machine] = r.parts
            BY DEF NewCount, Passes
      <4> QED BY <1>7, <2>3, <4>1
    <3>3. n # 0 /\ r = input[n] BY <1>1
    <3>4. source'.counts[l] = At(j, "parts")
          BY <1>7, <2>1, <3>1, <3>2, <3>3 DEF At
    <3> QED BY <1>3, <2>3, <3>1, <3>4
  <2> QED BY <2>2, <2>3
<1>9. ASSUME NEW l \in Machines
      PROVE  \E i : Latest(i, l, Feed!Executing(n)) /\ source'.states[l] = At(i, "execution")
  <2>1. PICK i : Latest(i, l, E) /\ source.states[l] = At(i, "execution")
        BY DEF StoresTrue, E
  <2>2. CASE r.execution = NULL
    <3>1. ~NewState(r) BY <2>2 DEF NewState
    <3> QED BY <1>3, <1>7, <2>1, <2>2, <3>1
  <2>3. CASE r.execution # NULL
    <3> DEFINE j == IF l = input[n].machine THEN n ELSE i
    <3>1. Latest(j, l, E \cup {n}) BY <1>1, <1>3, <2>1, LatestStep
    <3>2. l = r.machine => source'.states[l] = r.execution
      <4>1. ~NewState(r) => source.states[r.machine] = r.execution
            BY <2>3 DEF NewState, Passes
      <4> QED BY <1>7, <4>1
    <3>3. n # 0 /\ r = input[n] BY <1>1
    <3>4. source'.states[l] = At(j, "execution")
          BY <1>7, <2>1, <3>1, <3>2, <3>3 DEF At
    <3> QED BY <1>3, <2>3, <3>1, <3>4
  <2> QED BY <2>2, <2>3
<1>10. ASSUME NEW l \in Machines
       PROVE  Latest(source'.spans[l], l, Feed!StateChanges(n))
  <2>1. Latest(source.spans[l], l, D) BY DEF StoresTrue, D
  <2>2. CASE ~NewState(r) BY <1>4, <1>7, <2>1, <2>2
  <2>3. CASE NewState(r)
    <3>1. Latest(IF l = input[n].machine THEN n ELSE source.spans[l], l, D \cup {n})
          BY <1>1, <1>5, <2>1, LatestStep
    <3>2. source'.spans[l] = IF l = input[n].machine THEN n ELSE source.spans[l]
          BY <1>7, <2>3 DEF r
    <3> QED BY <1>4, <2>3, <3>1, <3>2
  <2> QED BY <2>2, <2>3
<1>11. \A l \in Machines :
         /\ \E i : Latest(i, l, Feed!Counting(source'.pos)) /\ source'.counts[l] = At(i, "parts")
         /\ \E i : Latest(i, l, Feed!Executing(source'.pos)) /\ source'.states[l] = At(i, "execution")
         /\ Latest(source'.spans[l], l, Feed!StateChanges(source'.pos))
       BY <1>6, <1>8, <1>9, <1>10
<1> QED BY <1>1, <1>6, <1>11, TopicKept DEF StoresTrue

----------------------------------------------------------------------------
(* What is sent is what the topic says. *)

LEMMA NothingSent ==
  ASSUME TypeOK
  PROVE  /\ sent = Nothing => AllParts = parts /\ AllPrograms = programs
         /\ joined = <<>> => AllEvents = events
<1>1. \A V : \A q \in Seq(V) : q \o <<>> = q BY ConcatEmptySeq
<1>2. parts \in Seq(1..Length) /\ programs \in Seq(1..Length) BY DEF TypeOK, Offsets
<1>3. events \in Seq([part : 1..Length, program : 1..Length]) BY DEF TypeOK, Events
<1> QED BY <1>1, <1>2, <1>3 DEF Nothing, AllParts, AllPrograms, AllEvents

LEMMA InitFlow == Init => FlowInv
<1> SUFFICES ASSUME Init PROVE FlowInv
    OBVIOUS
<1>1. Len(<<>>) = 0 /\ 1..0 = {} OBVIOUS
<1>2. Feed!PartChanges(0) = {} /\ Feed!Announcing(0) = {}
      BY <1>1 DEF Feed!PartChanges, Feed!Counting, Feed!Announcing
<1>3. Feed!Lists(<<>>, {}) BY <1>1 DEF Feed!Lists
<1>4. saved.pos = 0 BY DEF Init, NewSource
<1> QED BY <1>2, <1>3, <1>4 DEF Init, FlowInv

LEMMA ProcessFlow == ASSUME TypeOK, StoresTrue(source), FlowInv, Process PROVE FlowInv'
<1> DEFINE n == source.pos + 1
           r == input[n]
<1>1. /\ n \in 1..Length /\ source.pos \in 0..(Length - 1) /\ n - 1 = source.pos
      /\ thread = "up" /\ thread' = "up"
      /\ source'.pos = n
      /\ sent'.parts = AppendIf(sent.parts, n, NewCount(r))
      /\ sent'.programs = AppendIf(sent.programs, n, r.program # NULL)
      /\ NewCount(r) \in BOOLEAN
      /\ UNCHANGED <<input, saved, parts, programs>>
      BY ProcessFacts
<1>2. /\ parts \in Offsets /\ programs \in Offsets
      /\ sent.parts \in Offsets /\ sent.programs \in Offsets
      /\ source.pos \in Nat /\ saved.pos \in Nat /\ source.pos < n
      BY <1>1, LimitsAssumption DEF TypeOK, Sources
<1>3. Feed!PartChanges(source.pos) \subseteq 1..source.pos
      /\ Feed!Announcing(source.pos) \subseteq 1..source.pos
      BY <1>2, OffsetsGrow DEF Feed!PartChanges
<1>4. Feed!PartChanges(n) =
        IF NewCount(r) THEN Feed!PartChanges(source.pos) \cup {n} ELSE Feed!PartChanges(source.pos)
      BY <1>1, ChangesPass
<1>5. Feed!Announcing(n) =
        IF r.program # NULL THEN Feed!Announcing(source.pos) \cup {n}
        ELSE Feed!Announcing(source.pos)
      BY <1>2, OffsetsGrow
<1>6. Feed!Lists(AllParts', Feed!PartChanges(n))
  <2>1. Feed!Lists(parts \o sent.parts, Feed!PartChanges(source.pos))
        BY <1>1 DEF FlowInv, AllParts
  <2>2. Feed!Lists(parts \o AppendIf(sent.parts, source.pos + 1, NewCount(r)),
                   IF NewCount(r) THEN Feed!PartChanges(source.pos) \cup {source.pos + 1}
                   ELSE Feed!PartChanges(source.pos))
        BY <1>1, <1>2, <1>3, <2>1, SentIsListed
  <2> QED BY <1>1, <1>4, <2>2 DEF AllParts
<1>7. Feed!Lists(AllPrograms', Feed!Announcing(n))
  <2>1. Feed!Lists(programs \o sent.programs, Feed!Announcing(source.pos))
        BY <1>1 DEF FlowInv, AllPrograms
  <2>2. (r.program # NULL) \in BOOLEAN OBVIOUS
  <2>3. Feed!Lists(programs \o AppendIf(sent.programs, source.pos + 1, r.program # NULL),
                   IF r.program # NULL THEN Feed!Announcing(source.pos) \cup {source.pos + 1}
                   ELSE Feed!Announcing(source.pos))
        BY <1>1, <1>2, <1>3, <2>1, <2>2, SentIsListed
  <2> QED BY <1>1, <1>5, <2>3 DEF AllPrograms
<1>8. saved'.pos < source'.pos BY <1>1, <1>2 DEF FlowInv
<1>9. \A k : Feed!PartChanges(k)' = Feed!PartChanges(k) /\ Feed!Announcing(k)' = Feed!Announcing(k)
      BY <1>1, TopicKept
<1> HIDE DEF n, r
<1> QED BY <1>1, <1>6, <1>7, <1>8, <1>9 DEF FlowInv

LEMMA CommitSourceFlow == ASSUME TypeOK, FlowInv, CommitSource PROVE FlowInv'
<1>1. /\ saved' = source /\ source' = source /\ sent' = Nothing
      /\ thread = "up" /\ thread' = "up"
      /\ parts' = AllParts /\ programs' = AllPrograms /\ input' = input
      BY DEF CommitSource, AllParts, AllPrograms
<1>2. AllParts' = parts' /\ AllPrograms' = programs'
  <2>1. TypeOK' BY CommitSourceType
  <2>2. parts' \in Seq(1..Length) /\ programs' \in Seq(1..Length) BY <2>1 DEF TypeOK, Offsets
  <2>3. parts' \o <<>> = parts' /\ programs' \o <<>> = programs' BY <2>2, ConcatEmptySeq
  <2> QED BY <1>1, <2>3 DEF AllParts, AllPrograms, Nothing
<1>3. \A k : Feed!PartChanges(k)' = Feed!PartChanges(k) /\ Feed!Announcing(k)' = Feed!Announcing(k)
      BY <1>1, TopicKept
<1> QED BY <1>1, <1>2, <1>3 DEF FlowInv

LEMMA FlowStep == ASSUME TypeOK, StoresTrue(source), FlowInv, [Next]_vars PROVE FlowInv'
<1>1. ASSUME UNCHANGED <<input, saved, parts, programs>>,
             thread' # "up" /\ sent' = Nothing /\ joined' = <<>>
      PROVE  FlowInv'
      BY <1>1, TopicKept DEF FlowInv
<1>2. ASSUME UNCHANGED <<input, thread, source, saved, parts, programs, sent>>,
             thread = "up" \/ joined' = joined
      PROVE  FlowInv'
      BY <1>2, TopicKept DEF FlowInv, AllParts, AllPrograms
<1>3. CASE Process BY <1>3, ProcessFlow
<1>4. CASE Dies \/ Exit
      BY <1>1, <1>4 DEF Dies, Exit, Abort, log
<1>5. CASE CommitSource BY <1>5, CommitSourceFlow
<1>6. CASE ReadPart \/ ReadProgram \/ CommitJoin
      BY <1>2, <1>6 DEF ReadPart, ReadProgram, CommitJoin, log
<1>7. CASE Start
  <2>1. /\ source' = saved /\ saved' = saved /\ sent' = Nothing /\ sent = Nothing
        /\ UNCHANGED <<input, parts, programs>> /\ thread' = "up"
        BY <1>7 DEF Start, FlowInv, log
  <2>2. AllParts' = parts /\ AllPrograms' = programs
        BY <2>1, NothingSent DEF AllParts, AllPrograms
  <2> QED BY <2>1, <2>2, TopicKept DEF FlowInv
<1>8. CASE UNCHANGED vars BY <1>2, <1>8 DEF vars, tasks, log
<1> QED BY <1>3, <1>4, <1>5, <1>6, <1>7, <1>8 DEF Next, StreamThread

----------------------------------------------------------------------------
(* The durations. *)

LEMMA SpansGrow ==
  ASSUME NEW n \in Nat, NEW l \in Nat, n <= l
  PROVE  Feed!Spans(n) \subseteq Feed!Spans(l)
<1> DEFINE S == Feed!StateChanges(n)
           T == Feed!StateChanges(l)
<1>1. /\ Feed!Executing(n) \subseteq 1..n /\ Feed!Executing(l) \subseteq Nat \ {0}
      /\ \A k \in 1..n : k \in Feed!Executing(l) <=> k \in Feed!Executing(n)
  <2>1. 1..n \subseteq 1..l OBVIOUS
  <2> QED BY <2>1 DEF Feed!Executing
<1>2. \A k \in 1..n : k \in Changes(Feed!Executing(l), "execution") <=>
                      k \in Changes(Feed!Executing(n), "execution")
      BY <1>1, ChangesPrefix
<1>3. /\ S = Changes(Feed!Executing(n), "execution")
      /\ T = Changes(Feed!Executing(l), "execution")
      BY ChangesAre
<1>4. S \subseteq 1..n /\ T \subseteq Nat \ {0} BY <1>1, <1>3 DEF Changes
<1> SUFFICES ASSUME NEW s \in Feed!Spans(n) PROVE s \in Feed!Spans(l)
    OBVIOUS
<1>5. s \in [start : 1..n, end : 1..n] /\ s.end \in S /\ Feed!Previous(s.start, s.end, S)
      BY DEF Feed!Spans
<1> HIDE DEF S, T
<1>6. s \in [start : 1..l, end : 1..l]
  <2>1. 1..n \subseteq 1..l OBVIOUS
  <2> QED BY <1>5, <2>1
<1>7. \A k \in 1..n : k \in T <=> k \in S BY <1>2, <1>3
<1>8. s.end \in T BY <1>5, <1>7
<1>9. Feed!Previous(s.start, s.end, T)
  <2>1. s.start \in S /\ s.start < s.end /\ Feed!SameMachine(s.end, s.start)
        /\ \A k \in S : k < s.end /\ Feed!SameMachine(s.end, k) => k <= s.start
        BY <1>5 DEF Feed!Previous
  <2>2. s.start \in T BY <1>5, <1>7, <2>1
  <2>3. ASSUME NEW k \in T, k < s.end PROVE k \in S
    <3>1. k \in Nat \ {0} /\ s.end \in 1..n BY <1>4, <1>5
    <3>2. k \in 1..n BY <2>3, <3>1
    <3> QED BY <1>7, <3>2
  <2> QED BY <2>1, <2>2, <2>3 DEF Feed!Previous
<1> QED BY <1>6, <1>8, <1>9 DEF Feed!Spans, T

(* The first task prints the one state that a change of state ends. *)
LEMMA EndedAreSpans ==
  ASSUME TypeOK, StoresTrue(source), NEW n \in 1..Length, n - 1 = source.pos
  PROVE  /\ Ended(n) \subseteq Feed!Spans(n)
         /\ Feed!Spans(n) \subseteq Feed!Spans(source.pos) \cup Ended(n)
<1> DEFINE m == input[n].machine
           D == Feed!StateChanges(source.pos)
           T == Feed!StateChanges(n)
           p == source.spans[m]
<1>1. m \in Machines /\ n \in Nat \ {0} /\ source.pos \in Nat /\ n = source.pos + 1
      BY RecordType, LimitsAssumption DEF TypeOK, Sources
<1>2. Latest(p, m, D) BY <1>1 DEF StoresTrue
<1>3. T = IF NewState(input[n]) THEN D \cup {n} ELSE D BY ChangesPass
<1>4. D \subseteq 1..(n - 1) BY <1>1, OffsetsGrow DEF Feed!StateChanges
<1> HIDE DEF D, T, p
<1>5. \A j : Feed!Previous(j, n, T) <=> p # 0 /\ j = p
  <2>1. n \in Nat /\ (T = D \/ T = D \cup {n}) /\ Latest(p, input[n].machine, D)
        BY <1>1, <1>2, <1>3
  <2> QED BY <1>4, <2>1, PreviousIsLatest
<1>6. Ended(n) = IF NewState(input[n]) /\ p # 0 THEN {[start |-> p, end |-> n]} ELSE {}
      BY DEF Ended, p
<1>7. Ended(n) \subseteq Feed!Spans(n)
  <2> SUFFICES ASSUME NewState(input[n]), p # 0 PROVE [start |-> p, end |-> n] \in Feed!Spans(n)
      BY <1>6
  <2>1. p \in D BY <1>2 DEF Latest
  <2>2. p \in 1..n /\ n \in 1..n BY <1>1, <1>4, <2>1
  <2>3. n \in T /\ Feed!Previous(p, n, T) BY <1>3, <1>5
  <2> QED BY <2>2, <2>3 DEF Feed!Spans, T
<1>8. Feed!Spans(n) \subseteq Feed!Spans(source.pos) \cup Ended(n)
  <2> SUFFICES ASSUME NEW s \in Feed!Spans(n) PROVE s \in Feed!Spans(source.pos) \cup Ended(n)
      OBVIOUS
  <2>1. s \in [start : 1..n, end : 1..n] /\ s.end \in T /\ Feed!Previous(s.start, s.end, T)
        BY DEF Feed!Spans, T
  <2>2. CASE s.end = n
    <3>1. p # 0 /\ s.start = p BY <1>5, <2>1, <2>2
    <3>2. NewState(input[n]) BY <1>3, <1>4, <1>1, <2>1, <2>2
    <3>3. s = [start |-> p, end |-> n] BY <2>1, <2>2, <3>1
    <3> QED BY <1>6, <3>1, <3>2, <3>3
  <2>3. CASE s.end # n
    <3>1. s.end \in D /\ s.end \in 1..source.pos BY <1>1, <1>3, <1>4, <2>1, <2>3
    <3>2. s.start \in T /\ s.start < s.end BY <2>1 DEF Feed!Previous
    <3>3. s.start \in 1..source.pos BY <2>1, <3>1, <3>2
    <3>4. s.start \in D BY <1>1, <1>3, <3>2, <3>3
    <3>5. Feed!Previous(s.start, s.end, D)
          BY <1>3, <2>1, <3>4 DEF Feed!Previous
    <3>6. s \in [start : 1..source.pos, end : 1..source.pos] BY <2>1, <3>1, <3>3
    <3> QED BY <3>1, <3>5, <3>6 DEF Feed!Spans, D
  <2> QED BY <2>2, <2>3
<1> QED BY <1>7, <1>8

LEMMA SpansStep ==
  ASSUME TypeOK, StoresTrue(source), SpansInv, [Next]_vars PROVE SpansInv'
<1>1. ASSUME UNCHANGED <<input, saved, printed>>,
             thread' # "up" \/ (thread = "up" /\ source' = source) \/ source' = saved
      PROVE  SpansInv'
      BY <1>1, TopicKept DEF SpansInv, DurationsTrue
<1>2. CASE Process
  <2> DEFINE n == source.pos + 1
  <2>1. /\ n \in 1..Length /\ n - 1 = source.pos /\ source'.pos = n /\ thread = "up"
        /\ printed' = printed \cup Ended(n) /\ UNCHANGED <<input, saved>>
        BY <1>2, ProcessFacts
  <2> HIDE DEF n
  <2>2. Ended(n) \subseteq Feed!Spans(n) /\ Feed!Spans(n) \subseteq Feed!Spans(source.pos) \cup Ended(n)
        BY <2>1, EndedAreSpans
  <2>3. Feed!Spans(n) \subseteq Feed!Spans(Length)
    <3>1. n \in Nat /\ Length \in Nat /\ n <= Length BY <2>1, LimitsAssumption
    <3> QED BY <3>1, SpansGrow
  <2>4. printed' \subseteq Feed!Spans(Length) BY <2>1, <2>2, <2>3 DEF SpansInv, DurationsTrue
  <2>5. Feed!Spans(saved.pos) \subseteq printed' BY <2>1 DEF SpansInv, DurationsTrue
  <2>6. Feed!Spans(n) \subseteq printed' BY <2>1, <2>2 DEF SpansInv
  <2> QED BY <2>1, <2>4, <2>5, <2>6, TopicKept DEF SpansInv, DurationsTrue
<1>3. CASE CommitSource
      BY <1>3, TopicKept DEF CommitSource, SpansInv, DurationsTrue
<1>4. CASE Dies \/ ReadPart \/ ReadProgram \/ CommitJoin \/ Exit \/ Start
      BY <1>1, <1>4 DEF Dies, ReadPart, ReadProgram, CommitJoin, Exit, Start, log
<1>5. CASE UNCHANGED vars
  <2>1. CASE thread = "up" BY <1>1, <1>5, <2>1 DEF vars, tasks, log
  <2>2. CASE thread # "up" BY <1>1, <1>5, <2>2 DEF vars, tasks, log
  <2> QED BY <2>1, <2>2
<1> QED BY <1>2, <1>3, <1>4, <1>5 DEF Next, StreamThread

----------------------------------------------------------------------------
(* What the first task implements. *)

LEMMA StoresStep ==
  ASSUME TypeOK, StoresTrue(source), StoresTrue(saved), [Next]_vars
  PROVE  StoresTrue(source)' /\ StoresTrue(saved)'
<1>1. ASSUME input' = input, source' \in {source, saved}, saved' \in {source, saved}
      PROVE  StoresTrue(source)' /\ StoresTrue(saved)'
      BY <1>1, TopicKept
<1>2. CASE Process
  <2>1. StoresTrue(source)' BY <1>2, ProcessStores
  <2>2. input' = input /\ saved' = saved BY <1>2 DEF Process, log
  <2> QED BY <2>1, <2>2, TopicKept
<1>3. CASE Dies \/ CommitSource \/ ReadPart \/ ReadProgram \/ CommitJoin \/ Exit \/ Start
      BY <1>1, <1>3
      DEF Dies, CommitSource, ReadPart, ReadProgram, CommitJoin, Exit, Start, log
<1>4. CASE UNCHANGED vars BY <1>1, <1>4 DEF vars, tasks, log
<1> QED BY <1>2, <1>3, <1>4 DEF Next, StreamThread

LEMMA InitStores == Init => StoresTrue(source) /\ StoresTrue(saved) /\ SpansInv
<1> SUFFICES ASSUME Init PROVE StoresTrue(NewSource) /\ SpansInv
    BY DEF Init
<1>1. /\ NewSource.pos = 0 /\ 1..0 = {}
      /\ \A m \in Machines : /\ NewSource.counts[m] = NULL /\ NewSource.states[m] = NULL
                             /\ NewSource.spans[m] = 0
      BY DEF NewSource, NoneYet
<1>2. /\ Feed!Counting(0) = {} /\ Feed!Executing(0) = {} /\ Feed!StateChanges(0) = {}
      /\ Feed!Spans(0) = {}
      BY <1>1 DEF Feed!Counting, Feed!Executing, Feed!StateChanges, Feed!Spans
<1>3. \A m : Latest(0, m, {}) BY DEF Latest
<1>4. \A key : At(0, key) = NULL BY DEF At
<1>5. StoresTrue(NewSource) BY <1>1, <1>2, <1>3, <1>4 DEF StoresTrue
<1>6. SpansInv BY <1>1, <1>2 DEF Init, SpansInv, DurationsTrue
<1> QED BY <1>5, <1>6

LEMMA AlwaysSource == Spec => []SourceInv
<1>1. Init => SourceInv BY InitType, InitStores, InitFlow DEF SourceInv
<1>2. SourceInv /\ [Next]_vars => SourceInv'
      BY TypeStep, StoresStep, FlowStep, SpansStep DEF SourceInv
<1> QED BY <1>1, <1>2, PTL DEF Spec

(* Every state of the process, its two tasks and their topics is of the     *)
(* types the code gives them.                                               *)
THEOREM TypeCorrect == Spec => []TypeOK
<1>1. SourceInv => TypeOK BY DEF SourceInv
<1> QED BY <1>1, AlwaysSource, PTL

(* The printed durations are those of the topic, whatever is printed twice  *)
(* because the process ended between the line and the commit.               *)
THEOREM DurationsAreTrue == Spec => []DurationsTrue
<1>1. SourceInv => DurationsTrue BY DEF SourceInv, SpansInv
<1> QED BY <1>1, AlwaysSource, PTL

(* A commit of the first task is one advance of the feed. *)
LEMMA CommitAdvances == ASSUME SourceInv, CommitSource PROVE Feed!Advance
<1> USE DEF SourceInv
<1>1. /\ saved' = source /\ source # saved /\ thread = "up"
      /\ parts' = AllParts /\ programs' = AllPrograms /\ input' = input
      BY DEF CommitSource, AllParts, AllPrograms
<1>2. saved.pos < source.pos BY <1>1 DEF FlowInv
<1>3. source.pos \in (saved.pos + 1)..Len(input)
  <2>1. source.pos \in 0..Length /\ saved.pos \in Nat /\ Len(input) = Length /\ Length \in Nat
        BY Lengths DEF TypeOK, Sources
  <2> QED BY <1>2, <2>1
<1>4. \A i \in 1..source.pos : input[i].ok BY DEF StoresTrue
<1>5. Feed!Lists(AllParts, Feed!PartChanges(source.pos))
      /\ Feed!Lists(AllPrograms, Feed!Announcing(source.pos))
      BY <1>1 DEF FlowInv
<1> QED BY <1>1, <1>3, <1>4, <1>5 DEF Feed!Advance

(* Exactly once: at every moment what is committed for the join is the      *)
(* output of one undisturbed pass over a prefix of the topic, however often *)
(* the process ended and wherever.                                          *)
THEOREM StagingIsExactlyOnce == Spec => ExactlyOnce
<1>1. Init => Feed!Init BY DEF Init, NewSource, Feed!Init
<1>2. SourceInv /\ [Next]_vars => [Feed!Advance]_(Feed!vars)
  <2> SUFFICES ASSUME SourceInv, [Next]_vars PROVE [Feed!Advance]_(Feed!vars)
      OBVIOUS
  <2>1. CASE CommitSource BY <2>1, CommitAdvances
  <2>2. CASE Process \/ Dies \/ ReadPart \/ ReadProgram \/ CommitJoin \/ Exit \/ Start
        BY <2>2 DEF Process, Dies, ReadPart, ReadProgram, CommitJoin, Exit, Start, log, Feed!vars
  <2>3. CASE UNCHANGED vars BY <2>3 DEF vars, log, Feed!vars
  <2> QED BY <2>1, <2>2, <2>3 DEF Next, StreamThread
<1> QED BY <1>1, <1>2, AlwaysSource, PTL DEF Spec, ExactlyOnce, Feed!Spec

----------------------------------------------------------------------------
(* The join. *)

LEMMA JoinedKept ==
  ASSUME TypeOK, input' = input,
         \A k \in 1..Len(parts) : parts'[k] = parts[k],
         \A k \in 1..Len(programs) : programs'[k] = programs[k]
  PROVE  \A E : \A j \in Joins : Joined(E, j) => Joined(E, j)'
<1> SUFFICES ASSUME NEW E, NEW j \in Joins, Joined(E, j) PROVE Joined(E, j)'
    OBVIOUS
<1>1. \A e : Machine(e)' = Machine(e) BY DEF Machine
<1>2. /\ \A k \in 1..j.parts : parts'[k] = parts[k]
      /\ \A k \in 1..j.programs : programs'[k] = programs[k]
  <2>1. Len(parts) \in Nat /\ Len(programs) \in Nat
        BY LenProperties DEF TypeOK, Offsets
  <2> QED BY <2>1 DEF Joins
<1>3. \A k \in 1..j.parts : \A b \in 1..Len(E) :
        Machine(E[b])' = input'[parts'[k]].machine =>
          parts'[k] < E[b].part \/ \E a \in 1..Len(E) : E[a].part = parts'[k]
  BY <1>1, <1>2 DEF Joined
<1>4. /\ \A a \in 1..Len(E) : \E k \in 1..j.parts : E[a].part = parts'[k]
      /\ \A m \in Machines : j.table[m] # 0 => \E k \in 1..j.programs : programs'[k] = j.table[m]
  BY <1>2 DEF Joined
<1>5. \A b \in 1..Len(E) : E[b].program <= j.table[Machine(E[b])']
  BY <1>1 DEF Joined
<1>6. \A a, b \in 1..Len(E) :
        a < b /\ Machine(E[a])' = Machine(E[b])' => E[a].program <= E[b].program
  BY <1>1 DEF Joined
<1> QED BY <1>3, <1>4, <1>5, <1>6 DEF Joined

LEMMA EventType ==
  ASSUME TypeOK
  PROVE  /\ AllEvents \in Events /\ Len(AllEvents) \in Nat
         /\ \A a \in 1..Len(AllEvents) :
              /\ AllEvents[a].part \in 1..Length /\ AllEvents[a].program \in 1..Length
              /\ Machine(AllEvents[a]) \in Machines
<1>1. AllEvents \in Events BY ConcatProperties DEF TypeOK, Events, AllEvents
<1>2. Len(AllEvents) \in Nat BY <1>1, LenProperties DEF Events
<1>3. \A a \in 1..Len(AllEvents) : AllEvents[a] \in [part : 1..Length, program : 1..Length]
      BY <1>1, ElementOfSeq DEF Events
<1> QED BY <1>1, <1>2, <1>3, RecordType DEF Machine

(* The next program is later than the one it takes the place of. *)
LEMMA ReadProgramJoined ==
  ASSUME TypeOK, FlowInv, Joined(AllEvents, join), ReadProgram
  PROVE  Joined(AllEvents, join')
<1> DEFINE i == programs[join.programs + 1]
           E == AllEvents
<1>1. /\ i \in 1..Length /\ input[i].machine \in Machines
      /\ join.programs \in Nat /\ join.programs + 1 \in 1..Len(programs)
      /\ join'.programs = join.programs + 1 /\ join'.parts = join.parts
      /\ join'.table = [join.table EXCEPT ![input[i].machine] = i]
      BY ReadProgramFacts
<1>2. join.table \in [Machines -> 0..Length] BY DEF TypeOK, Joins
<1>3. \A m \in Machines : join'.table[m] = IF m = input[i].machine THEN i ELSE join.table[m]
      BY <1>1, <1>2
<1>4. \A k \in 1..join.programs : programs[k] < i
  <2> SUFFICES ASSUME NEW k \in 1..join.programs PROVE programs[k] < programs[join.programs + 1]
      OBVIOUS
  <2>1. Len(programs) \in Nat BY LenProperties DEF TypeOK, Offsets
  <2>2. k \in 1..Len(programs) /\ k < join.programs + 1 BY <1>1, <2>1
  <2> QED BY <1>1, <2>2 DEF FlowInv, Feed!Lists
<1>5. ASSUME NEW m \in Machines PROVE join.table[m] <= join'.table[m]
  <2>1. CASE m # input[i].machine BY <1>2, <1>3, <2>1
  <2>2. CASE m = input[i].machine /\ join.table[m] = 0 BY <1>1, <1>3, <2>2
  <2>3. CASE m = input[i].machine /\ join.table[m] # 0
    <3>1. PICK k \in 1..join.programs : programs[k] = join.table[m]
          BY <2>3 DEF Joined
    <3>2. join.table[m] < i BY <1>4, <3>1
    <3>3. join.table[m] \in Nat /\ i \in Nat BY <1>1, <1>2, LimitsAssumption
    <3> HIDE DEF i
    <3> QED BY <1>3, <2>3, <3>2, <3>3
  <2> QED BY <2>1, <2>2, <2>3
<1>6. \A m \in Machines : join'.table[m] # 0 =>
        \E k \in 1..join'.programs : programs[k] = join'.table[m]
  <2> SUFFICES ASSUME NEW m \in Machines, join'.table[m] # 0
               PROVE  \E k \in 1..join'.programs : programs[k] = join'.table[m]
      OBVIOUS
  <2>1. CASE m = input[i].machine
    <3>1. join.programs + 1 \in 1..join'.programs BY <1>1
    <3> QED BY <1>3, <2>1, <3>1
  <2>2. CASE m # input[i].machine
    <3>1. PICK k \in 1..join.programs : programs[k] = join.table[m]
          BY <1>3, <2>2 DEF Joined
    <3>2. k \in 1..join'.programs BY <1>1
    <3> QED BY <1>3, <2>2, <3>1, <3>2
  <2> QED BY <2>1, <2>2
<1> HIDE DEF i
<1>7. \A b \in 1..Len(E) : E[b].program <= join'.table[Machine(E[b])]
  <2> SUFFICES ASSUME NEW b \in 1..Len(E) PROVE E[b].program <= join'.table[Machine(E[b])]
      OBVIOUS
  <2> DEFINE m == Machine(E[b])
  <2>1. m \in Machines /\ E[b].program \in Nat BY EventType, LimitsAssumption
  <2>2. E[b].program <= join.table[m] BY DEF Joined
  <2>3. join.table[m] <= join'.table[m] BY <1>5, <2>1
  <2>4. join.table[m] \in Nat /\ join'.table[m] \in Nat
        BY <1>1, <1>2, <1>3, <2>1, LimitsAssumption
  <2> HIDE DEF m, E
  <2>5. E[b].program <= join'.table[m] BY <2>1, <2>2, <2>3, <2>4
  <2> QED BY <2>5 DEF m
<1>8. /\ \A a \in 1..Len(E) : \E k \in 1..join'.parts : E[a].part = parts[k]
      /\ \A a, b \in 1..Len(E) : a < b => E[a].part < E[b].part
      /\ \A k \in 1..join'.parts : \A b \in 1..Len(E) :
           Machine(E[b]) = input[parts[k]].machine =>
             parts[k] < E[b].part \/ \E a \in 1..Len(E) : E[a].part = parts[k]
      /\ \A a, b \in 1..Len(E) :
           a < b /\ Machine(E[a]) = Machine(E[b]) => E[a].program <= E[b].program
      BY <1>1 DEF Joined
<1> QED BY <1>6, <1>7, <1>8 DEF Joined

(* The next part count is later than all before, and is not joined only if  *)
(* its machine has no event yet.                                            *)
LEMMA ReadPartJoined ==
  ASSUME TypeOK, FlowInv, Joined(AllEvents, join), ReadPart
  PROVE  Joined(AllEvents', join')
<1> DEFINE i == parts[join.parts + 1]
           m == input[i].machine
           p == join.table[m]
           e == [part |-> i, program |-> p]
           E == AllEvents
           F == AllEvents'
<1>1. /\ i \in 1..Length /\ m \in Machines
      /\ join.parts \in Nat /\ join.parts + 1 \in 1..Len(parts)
      /\ joined' = AppendIf(joined, e, p # 0)
      /\ join'.parts = join.parts + 1
      /\ join'.programs = join.programs /\ join'.table = join.table
      /\ UNCHANGED <<input, parts, programs, events>>
      BY ReadPartFacts
<1>2. p \in 0..Length /\ Length \in Nat /\ e.part = i /\ e.program = p /\ Machine(e) = m
      BY <1>1, LimitsAssumption DEF TypeOK, Joins, Machine
<1>3. \A k \in 1..join.parts : parts[k] < i
  <2> SUFFICES ASSUME NEW k \in 1..join.parts PROVE parts[k] < parts[join.parts + 1]
      OBVIOUS
  <2>1. Len(parts) \in Nat BY LenProperties DEF TypeOK, Offsets
  <2>2. k \in 1..Len(parts) /\ k < join.parts + 1 BY <1>1, <2>1
  <2> QED BY <1>1, <2>2 DEF FlowInv, Feed!Lists
<1>4. 1..join'.parts = (1..join.parts) \cup {join.parts + 1} /\ parts[join.parts + 1] = i
      BY <1>1
<1>5. \A a \in 1..Len(E) : E[a].part \in Nat /\ E[a].part < i
  <2> SUFFICES ASSUME NEW a \in 1..Len(E) PROVE E[a].part \in Nat /\ E[a].part < i
      OBVIOUS
  <2>1. PICK k \in 1..join.parts : E[a].part = parts[k] BY DEF Joined
  <2>2. parts[k] < i BY <1>3
  <2>3. E[a].part \in Nat BY EventType, LimitsAssumption
  <2> HIDE DEF i, E
  <2> QED BY <2>1, <2>2, <2>3
<1>6. Len(E) \in Nat BY EventType
<1>7. CASE p = 0
  <2>1. F = E BY <1>1, <1>7 DEF AppendIf, AllEvents
  <2>2. \A b \in 1..Len(E) : Machine(E[b]) # m
    <3> SUFFICES ASSUME NEW b \in 1..Len(E), Machine(E[b]) = m PROVE FALSE
        OBVIOUS
    <3>1. E[b].program <= join.table[Machine(E[b])] BY DEF Joined
    <3>2. E[b].program <= 0 BY <1>7, <3>1
    <3>3. E[b].program \in 1..Length BY EventType
    <3> HIDE DEF E
    <3> QED BY <1>2, <3>2, <3>3
  <2> HIDE DEF i, m, p, e, E, F
  <2>3. \A a \in 1..Len(E) : \E k \in 1..join'.parts : E[a].part = parts[k]
        BY <1>4 DEF Joined, E
  <2>4. \A k \in 1..join'.parts : \A b \in 1..Len(E) :
          Machine(E[b]) = input[parts[k]].machine =>
            parts[k] < E[b].part \/ \E a \in 1..Len(E) : E[a].part = parts[k]
        BY <1>4, <2>2 DEF Joined, E, m
  <2>5. Joined(E, join') BY <1>1, <2>3, <2>4 DEF Joined, E
  <2> QED BY <2>1, <2>5 DEF F
<1>8. CASE p # 0
  <2>0. e \in [part : 1..Length, program : 1..Length]
    <3>1. i \in 1..Length BY <1>1
    <3>2. p \in 0..Length /\ p # 0 BY <1>2, <1>8
    <3> HIDE DEF i, p
    <3>3. p \in 1..Length BY <3>2, LimitsAssumption
    <3> QED BY <3>1, <3>3
  <2>1. F = Append(E, e)
    <3>1. e \in [part : 1..Length, program : 1..Length] BY <2>0
    <3>2. events \in Seq([part : 1..Length, program : 1..Length])
          /\ joined \in Seq([part : 1..Length, program : 1..Length])
          BY DEF TypeOK, Events
    <3> HIDE DEF e
    <3>3. events \o Append(joined, e) = Append(events \o joined, e)
          BY <3>1, <3>2, ConcatAppend
    <3>4. joined' = Append(joined, e) /\ events' = events BY <1>1, <1>8 DEF AppendIf
    <3> QED BY <3>3, <3>4 DEF AllEvents
  <2>2. /\ Len(F) = Len(E) + 1 /\ F[Len(E) + 1] = e
        /\ \A a \in 1..Len(E) : F[a] = E[a]
    <3>1. E \in Seq([part : 1..Length, program : 1..Length]) BY EventType DEF Events
    <3>2. e \in [part : 1..Length, program : 1..Length] BY <2>0
    <3> HIDE DEF e, E, F
    <3> QED BY <2>1, <3>1, <3>2
  <2>3. 1..Len(F) = (1..Len(E)) \cup {Len(E) + 1} BY <1>6, <2>2
  <2>4. \A a \in 1..Len(E) : E[a].program \in Nat BY EventType, LimitsAssumption
  <2> HIDE DEF i, m, p, e, E, F
  <2>5. \A a \in 1..Len(F) : \E k \in 1..join'.parts : F[a].part = parts[k]
    <3>1. \A a \in 1..Len(E) : \E k \in 1..join'.parts : E[a].part = parts[k]
          BY <1>4 DEF Joined, E
    <3>2. \E k \in 1..join'.parts : e.part = parts[k] BY <1>2, <1>4
    <3> QED BY <2>2, <2>3, <3>1, <3>2
  <2>6. \A a, b \in 1..Len(F) : a < b => F[a].part < F[b].part
    <3> SUFFICES ASSUME NEW a \in 1..Len(F), NEW b \in 1..Len(F), a < b
                 PROVE  F[a].part < F[b].part
        OBVIOUS
    <3>1. a \in 1..Len(E) BY <1>6, <2>2
    <3>2. CASE b \in 1..Len(E) BY <2>2, <3>1, <3>2 DEF Joined, E
    <3>3. CASE b = Len(E) + 1 BY <1>2, <1>5, <2>2, <3>1, <3>3
    <3> QED BY <2>3, <3>2, <3>3
  <2>7. \A k \in 1..join'.parts : \A b \in 1..Len(F) :
          Machine(F[b]) = input[parts[k]].machine =>
            parts[k] < F[b].part \/ \E a \in 1..Len(F) : F[a].part = parts[k]
    <3> SUFFICES ASSUME NEW k \in 1..join'.parts, NEW b \in 1..Len(F),
                        Machine(F[b]) = input[parts[k]].machine
                 PROVE  parts[k] < F[b].part \/ \E a \in 1..Len(F) : F[a].part = parts[k]
        OBVIOUS
    <3>1. CASE k = join.parts + 1 BY <1>2, <1>4, <2>2, <2>3, <3>1
    <3>2. CASE k \in 1..join.parts /\ b = Len(E) + 1 BY <1>2, <1>3, <2>2, <3>2
    <3>3. CASE k \in 1..join.parts /\ b \in 1..Len(E)
      <4>1. parts[k] < E[b].part \/ \E a \in 1..Len(E) : E[a].part = parts[k]
            BY <2>2, <3>3 DEF Joined, E
      <4> QED BY <2>2, <2>3, <3>3, <4>1
    <3> QED BY <1>4, <2>3, <3>1, <3>2, <3>3
  <2>8. \A l \in Machines : join'.table[l] # 0 =>
          \E k \in 1..join'.programs : programs[k] = join'.table[l]
        BY <1>1 DEF Joined
  <2>9. \A b \in 1..Len(F) : F[b].program <= join'.table[Machine(F[b])]
    <3>1. \A b \in 1..Len(E) : E[b].program <= join'.table[Machine(E[b])]
          BY <1>1 DEF Joined, E
    <3>2. e.program <= join'.table[Machine(e)]
      <4>1. join'.table[Machine(e)] = p BY <1>1, <1>2 DEF p
      <4> QED BY <1>2, <4>1
    <3> QED BY <2>2, <2>3, <3>1, <3>2
  <2>10. \A a, b \in 1..Len(F) :
           a < b /\ Machine(F[a]) = Machine(F[b]) => F[a].program <= F[b].program
    <3> SUFFICES ASSUME NEW a \in 1..Len(F), NEW b \in 1..Len(F), a < b,
                        Machine(F[a]) = Machine(F[b])
                 PROVE  F[a].program <= F[b].program
        OBVIOUS
    <3>1. a \in 1..Len(E) BY <1>6, <2>2
    <3>2. CASE b \in 1..Len(E) BY <2>2, <3>1, <3>2 DEF Joined, E
    <3>3. CASE b = Len(E) + 1
      <4>1. E[a].program <= join.table[Machine(E[a])] BY <3>1 DEF Joined, E
      <4>2. Machine(E[a]) = m /\ F[b].program = p BY <1>2, <2>2, <3>1, <3>3
      <4> QED BY <2>2, <3>1, <4>1, <4>2 DEF p
    <3> QED BY <2>3, <3>2, <3>3
  <2>11. Joined(F, join') BY <2>5, <2>6, <2>7, <2>8, <2>9, <2>10 DEF Joined
  <2> QED BY <2>11 DEF F
<1> QED BY <1>7, <1>8

LEMMA ConcatPrefix ==
  ASSUME NEW p \in Offsets, NEW q \in Offsets
  PROVE  \A k \in 1..Len(p) : (p \o q)[k] = p[k]
<1>1. Len(p) \in Nat /\ Len(q) \in Nat BY LenProperties DEF Offsets
<1>2. \A k \in 1..(Len(p) + Len(q)) : (p \o q)[k] = IF k <= Len(p) THEN p[k] ELSE q[k - Len(p)]
      BY ConcatProperties DEF Offsets
<1> QED BY <1>1, <1>2

LEMMA JoinStep == ASSUME TypeOK, FlowInv, JoinInv, [Next]_vars PROVE JoinInv'
<1> USE DEF JoinInv
<1>1. ASSUME UNCHANGED <<input, parts, programs>>
      PROVE  \A E : \A j \in Joins : Joined(E, j) => Joined(E, j)'
      BY <1>1, JoinedKept
<1>2. join \in Joins /\ joinSaved \in Joins BY DEF TypeOK
<1>3. CASE Process
  <2>1. UNCHANGED <<input, parts, programs, events, joined, join, joinSaved, thread>>
        BY <1>3 DEF Process, log
  <2>2. AllEvents' = AllEvents BY <2>1 DEF AllEvents
  <2> QED BY <1>1, <1>2, <2>1, <2>2
<1>4. CASE Dies \/ Exit
  <2>1. UNCHANGED <<input, parts, programs, events, joinSaved>> /\ thread' # "up"
        BY <1>4 DEF Dies, Exit, log
  <2> QED BY <1>1, <1>2, <2>1
<1>5. CASE CommitSource
  <2>1. /\ UNCHANGED <<input, events, joined, join, joinSaved, thread>>
        /\ parts' = parts \o sent.parts /\ programs' = programs \o sent.programs
        BY <1>5 DEF CommitSource
  <2>2. /\ \A k \in 1..Len(parts) : parts'[k] = parts[k]
        /\ \A k \in 1..Len(programs) : programs'[k] = programs[k]
        BY <2>1, ConcatPrefix DEF TypeOK
  <2>3. AllEvents' = AllEvents BY <2>1 DEF AllEvents
  <2>4. \A E : \A j \in Joins : Joined(E, j) => Joined(E, j)' BY <2>1, <2>2, JoinedKept
  <2> QED BY <1>2, <2>1, <2>3, <2>4
<1>6. CASE ReadPart
  <2>1. /\ UNCHANGED <<input, parts, programs, events, joinSaved>>
        /\ thread = "up" /\ thread' = "up"
        BY <1>6 DEF ReadPart, log
  <2>2. Joined(AllEvents', join') BY <1>6, <2>1, ReadPartJoined
  <2>3. join' \in Joins /\ Joins' = Joins
        BY <1>6, <2>1, ReadPartType DEF TypeOK, Joins
  <2> QED BY <1>1, <1>2, <2>1, <2>2, <2>3
<1>7. CASE ReadProgram
  <2>1. /\ UNCHANGED <<input, parts, programs, events, joined, joinSaved>>
        /\ thread = "up" /\ thread' = "up"
        BY <1>7 DEF ReadProgram, log
  <2>2. AllEvents' = AllEvents BY <2>1 DEF AllEvents
  <2>3. Joined(AllEvents', join') BY <1>7, <2>1, <2>2, ReadProgramJoined
  <2>4. join' \in Joins /\ Joins' = Joins
        BY <1>7, <2>1, ReadProgramType DEF TypeOK, Joins
  <2> QED BY <1>1, <1>2, <2>1, <2>3, <2>4
<1>8. CASE CommitJoin
  <2>1. /\ UNCHANGED <<input, parts, programs, join>> /\ joinSaved' = join
        /\ thread = "up" /\ events' = AllEvents /\ joined' = <<>>
        BY <1>8 DEF CommitJoin, AllEvents
  <2>2. AllEvents' = AllEvents
    <3>1. AllEvents \in Seq([part : 1..Length, program : 1..Length])
          BY EventType DEF Events
    <3>2. AllEvents \o <<>> = AllEvents BY <3>1, ConcatEmptySeq
    <3>3. AllEvents' = events' \o joined' BY DEF AllEvents
    <3> QED BY <2>1, <3>2, <3>3
  <2> QED BY <1>1, <1>2, <2>1, <2>2
<1>9. CASE Start
  <2>1. /\ UNCHANGED <<input, parts, programs, events, joined, joinSaved>>
        /\ join' = joinSaved /\ joined = <<>>
        BY <1>9 DEF Start, log, FlowInv
  <2>2. AllEvents' = events BY <2>1, NothingSent DEF AllEvents
  <2> QED BY <1>1, <1>2, <2>1, <2>2
<1>10. CASE UNCHANGED vars
  <2>1. UNCHANGED <<input, parts, programs, events, joined, join, joinSaved, thread>>
        BY <1>10 DEF vars, tasks, log
  <2>2. AllEvents' = AllEvents BY <2>1 DEF AllEvents
  <2> QED BY <1>1, <1>2, <2>1, <2>2
<1> QED BY <1>3, <1>4, <1>5, <1>6, <1>7, <1>8, <1>9, <1>10 DEF Next, StreamThread

LEMMA AlwaysJoin == Spec => []JoinInv
<1>1. Init => JoinInv
  <2> SUFFICES ASSUME Init PROVE JoinInv
      OBVIOUS
  <2>1. /\ events = <<>> /\ Len(events) = 0 /\ thread # "up"
        /\ joinSaved.parts = 0 /\ \A m \in Machines : joinSaved.table[m] = 0
        BY DEF Init, NewJoin, NoneYet
  <2> QED BY <2>1 DEF JoinInv, Joined
<1>2. SourceInv /\ JoinInv /\ [Next]_vars => JoinInv'
      BY JoinStep DEF SourceInv
<1> QED BY <1>1, <1>2, AlwaysSource, PTL DEF Spec

(* Every part count that the join has read is in exactly one event, except  *)
(* those before their machine's first event.                                *)
THEOREM PartsAreJoinedOnce == Spec => []PartsJoinedOnce
<1>1. JoinInv => PartsJoinedOnce BY DEF JoinInv, Joined, PartsJoinedOnce
<1> QED BY <1>1, AlwaysJoin, PTL

(* No later part of a machine is booked to an earlier program, though the   *)
(* programs and the part counts reach the join through two topics.          *)
THEOREM ProgramsAreInOrder == Spec => []ProgramsNeverGoBack
<1>1. JoinInv => ProgramsNeverGoBack BY DEF JoinInv, Joined, ProgramsNeverGoBack
<1> QED BY <1>1, AlwaysJoin, PTL
=============================================================================
