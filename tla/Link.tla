-------------------------------- MODULE Link --------------------------------
(***************************************************************************)
(* What the WebSocket manager promises the pages (WSStatus of              *)
(* web/src/lib/websocket.ts): a link to the server that goes from          *)
(* 'disconnected' to 'reconnecting' to 'connected', may fall back to       *)
(* 'disconnected' at any time, and is always tried again.                  *)
(***************************************************************************)
VARIABLE link

Status == {"connected", "disconnected", "reconnecting"}

Init == link = "reconnecting"

Retry == link = "disconnected" /\ link' = "reconnecting"

Open == link = "reconnecting" /\ link' = "connected"

Lose == link # "disconnected" /\ link' = "disconnected"

Next == Retry \/ Open \/ Lose

\* A lost link is retried, however often it is lost.
Spec == Init /\ [][Next]_link /\ WF_link(Retry)
=============================================================================
