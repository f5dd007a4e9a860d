---------------------------- MODULE MCWSManager ----------------------------
(***************************************************************************)
(* Model checking of WSManager with three sockets: one more than live at   *)
(* any time, so that a second connection could show.                       *)
(***************************************************************************)
EXTENDS WSManager
=============================================================================
