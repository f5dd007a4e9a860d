-------------------------------- MODULE MCHub --------------------------------
(***************************************************************************)
(* Model checking of Hub: more clients than places, and two broadcasts     *)
(* that may run at once.                                                   *)
(***************************************************************************)
EXTENDS Hub
=============================================================================
