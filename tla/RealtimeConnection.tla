------------------------- MODULE RealtimeConnection -------------------------
(***************************************************************************)
(* What the rest of the Host relies on from the realtime supervisor: the   *)
(* installation has at most one WebSocket session towards Core, which is   *)
(* opened and closed any number of times until the connection is retired,  *)
(* and is never opened again after that.                                   *)
(***************************************************************************)
VARIABLES
  link,     \* is a WebSocket session open, or still being stopped?
  retired   \* the owner has been told that the connection is gone

vars == <<link, retired>>

TypeOK == link \in {"down", "up"} /\ retired \in BOOLEAN

Init == link = "down" /\ retired = FALSE

Open ==
  /\ ~retired
  /\ link = "down"
  /\ link' = "up"
  /\ UNCHANGED retired

Close ==
  /\ link = "up"
  /\ link' = "down"
  /\ UNCHANGED retired

Retire ==
  /\ link = "down"
  /\ retired' = TRUE
  /\ UNCHANGED link

Next == Open \/ Close \/ Retire

Spec == Init /\ [][Next]_vars
=============================================================================
