------------------------------ MODULE MCPages ------------------------------
(***************************************************************************)
(* Model checking of the pages with two things to ask for, and of the      *)
(* waterfall on all trees of four spans, with parents that are missing,    *)
(* circular or unknown, on trees of three with one span sent twice or one  *)
(* without an id, and on pairs of spans with any small times.              *)
(***************************************************************************)
EXTENDS TraceDetail

CONSTANTS k1, k2

MCKey == {k1, k2}

Span(id, parent, start, end, duration) ==
  [id |-> id, parent |-> parent, start |-> start, end |-> end,
   duration |-> duration, error |-> id = 2]

Missing == 9

Trees(ids, starts) ==
  {[i \in ids |-> Span(i, parent[i], starts[i], starts[i] + 1, 1)] :
     parent \in [ids -> ids \union {None, Missing}]}

Unnamed ==
  {[i \in 1..3 |-> Span(IF i = 2 THEN None ELSE i, parent[i], i, i + 1, 1)] :
     parent \in [1..3 -> {1, 3, None, Missing}]}

Copied(spans, i) == SubSeq(spans, 1, i) \o SubSeq(spans, i, Len(spans))

Pairs ==
  {<<Span(1, None, 0, e1, d1), Span(2, p, s2, e2, d2)>> :
     p \in {None, 1, Missing}, s2 \in 0..2, e1, e2, d1, d2 \in 0..3}

MCWaterfalls ==
  UNION {Trees(1..4, starts) : starts \in {<<0, 0, 0, 0>>, <<0, 1, 1, 2>>, <<0, 1, 2, 3>>}}
  \union {Copied(tree, i) : tree \in Trees(1..3, <<0, 1, 1>>), i \in 1..3}
  \union Unnamed
  \union Pairs

MCContent ==
  [k \in MCKey |->
     IF k = k1 THEN <<Span(1, None, 0, 3, 3), Span(2, 1, 0, 1, 1), Span(3, 1, 1, 2, 2)>>
               ELSE <<Span(4, Missing, 0, 1, 1), Span(5, 4, 1, 1, 0)>>]
=============================================================================
