---------------------------- MODULE MCPartitions ----------------------------
(***************************************************************************)
(* Model checking of Partitions: values for its constants.                 *)
(***************************************************************************)
EXTENDS Partitions

\* Half a day behind UTC.
West == -1

\* Records arrive at once, or two days late.
SomeAges == {0, 4}
=============================================================================
