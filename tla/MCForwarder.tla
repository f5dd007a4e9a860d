----------------------------- MODULE MCForwarder -----------------------------
(***************************************************************************)
(* Model checking of Forwarder: values for its function constants.         *)
(***************************************************************************)
EXTENDS Forwarder

\* Every endpoint takes every signal.
AllSignals == [e \in Endpoint |-> Signal]

\* The first endpoint does not take the last signal, the others take all.
FirstSkipsTheLast == [e \in Endpoint |-> IF e = 1 THEN Signal \ {NumSignals} ELSE Signal]

\* Only the last endpoint has a dead letter queue.
LastDLQ == [e \in Endpoint |-> e = NumEndpoints]
=============================================================================
