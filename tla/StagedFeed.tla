------------------------------ MODULE StagedFeed ------------------------------
(***************************************************************************)
(* What the staging topology promises of what it sends on: at every moment *)
(* the committed output is that of one undisturbed pass over a prefix of   *)
(* the "input" topic, and the prefix only grows.  The output is defined    *)
(* from the topic alone, without stores, positions or transactions; a      *)
(* record is known by its offset.                                          *)
(***************************************************************************)
EXTENDS Integers, Sequences

CONSTANT NULL        \* a key the message does not have

VARIABLES
  input,      \* the topic: records [machine, parts, program, execution, ok]
  done,       \* how much of it is accounted for
  parts,      \* offsets of the part counts sent to the join
  programs    \* offsets of the programs sent to the join's table

vars == <<input, done, parts, programs>>

SameMachine(i, j) == input[i].machine = input[j].machine

(* The offsets up to n that carry a part count, a program, a state. *)
Counting(n)   == {i \in 1..n : input[i].parts # NULL /\ input[i].parts > 0}
Announcing(n) == {i \in 1..n : input[i].program # NULL}
Executing(n)  == {i \in 1..n : input[i].execution # NULL}

(* j is the machine's last offset in S before i. *)
Previous(j, i, S) ==
  /\ j \in S /\ j < i /\ SameMachine(i, j)
  /\ \A k \in S : k < i /\ SameMachine(i, k) => k <= j

PartChanges(n) ==
  {i \in Counting(n) :
     \A j \in 1..i : Previous(j, i, Counting(n)) => input[j].parts # input[i].parts}

StateChanges(n) ==
  {i \in Executing(n) :
     \A j \in 1..i : Previous(j, i, Executing(n)) => input[j].execution # input[i].execution}

(* The states that have ended, each from one change to the machine's next. *)
Spans(n) ==
  {s \in [start : 1..n, end : 1..n] :
     s.end \in StateChanges(n) /\ Previous(s.start, s.end, StateChanges(n))}

(* q lists S in the order of the topic. *)
Lists(q, S) ==
  /\ {q[k] : k \in 1..Len(q)} = S
  /\ \A k, l \in 1..Len(q) : k < l => q[k] < q[l]

Init == done = 0 /\ parts = <<>> /\ programs = <<>>

Advance ==
  /\ done' \in done+1..Len(input)
  /\ \A i \in 1..done' : input[i].ok
  /\ Lists(parts', PartChanges(done'))
  /\ Lists(programs', Announcing(done'))
  /\ UNCHANGED input

Spec == Init /\ [][Advance]_vars
=============================================================================
