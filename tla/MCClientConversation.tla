---------------------- MODULE MCClientConversation ----------------------
(* ClientConversation with two conversations in one tenant and one in the other. *)
EXTENDS ClientConversation, TLC

CONSTANTS t1, t2, a, b, d

MCMail == t1 :> {a, b} @@ t2 :> {d}
==========================================================================
