------------------------------ MODULE MCTraces ------------------------------
(***************************************************************************)
(* Model checking of Traces with pages of two, a list that live messages   *)
(* cut to three, and two filters, one of which leaves out a trace.  The    *)
(* layouts are those of up to six spans on two days, three on each, of up  *)
(* to four traces, numbered in the order of their first spans.             *)
(***************************************************************************)
EXTENDS Traces

MCMatches == [f \in Filter |-> IF f = "all" THEN 1..MaxTraces ELSE 1..MaxTraces \ {2}]

MCDurationOf == [n \in 1..MaxTraces |-> n % 2]

MCStatusOf == [n \in 1..MaxTraces |-> n % 3]

Slot == 1..6

Growing(f) == \A i \in Slot : f[i] <= 1 \/ \E j \in 1..i - 1 : f[i] <= f[j] + 1

\* Slot i, at time i, is on the first day if i <= 3; it is empty if its owner is 0.
Layout(f) ==
  [d \in 1..2 |->
     {[trace |-> f[i], start |-> i] : i \in {j \in 3 * d - 2..3 * d : f[j] # 0}}]

Layouts == {Layout(f) : f \in {g \in [Slot -> 0..4] : Growing(g)}}

Offsets == {PAGE_SIZE * k : k \in 0..MaxTraces}

ExactEverywhere ==
  \A from \in Offsets, days \in Layouts :
    PageExact(days, PAGE_SIZE, from) /\ LogsExact(days, PAGE_SIZE, from)

\* Whatever page the list asks for, QueryTraces and QueryLogs, which merge the
\* partitions' answers in memory, give what one database would give, in every
\* layout, but for what a trace over several days costs.
MergeExact == offset \in Offsets /\ ExactEverywhere
=============================================================================
