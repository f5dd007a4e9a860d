------------------------------- MODULE MCLogs -------------------------------
(***************************************************************************)
(* Model checking of Logs with two logs of different services, the first   *)
(* of them with a trace.                                                   *)
(***************************************************************************)
EXTENDS Logs

MCLog == <<[service |-> "a", body |-> "x", trace |-> "t"],
           [service |-> "b", body |-> "y", trace |-> ""]>>
=============================================================================
