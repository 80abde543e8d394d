------------------------------- MODULE Mailbox -------------------------------
(***************************************************************************)
(* What a peer and Core may rely on from the listener of an Agent: each    *)
(* Direct conversation is a mailbox.  What arrives is answered while the   *)
(* listener serves, in the order of arrival if Ordered, and what has been  *)
(* answered may be recorded in a file.  The mailbox is marked as read only *)
(* behind a record that survives, so that nothing unanswered is hidden by  *)
(* a crash.  A message may be answered more than once, and a record may be *)
(* set back, but never to less than the first message.                     *)
(***************************************************************************)
EXTENDS Naturals

CONSTANTS
  Conversations,
  Ordered   \* is a message answered only behind all that arrived before it?

VARIABLES
  received,   \* how many messages have arrived in each conversation
  unread,     \* how many of them Core counts as unread
  answered,   \* the messages that have their answer
  recorded,   \* the last message that is on record, or 0
  serving     \* is there a listener at work?

vars == <<received, unread, answered, recorded, serving>>

Init ==
  /\ received = [c \in Conversations |-> 0] /\ unread = received
  /\ answered = [c \in Conversations |-> {}] /\ recorded = received
  /\ serving = TRUE

Arrive(c) ==
  /\ received' = [received EXCEPT ![c] = @ + 1]
  /\ unread' = [unread EXCEPT ![c] = @ + 1]
  /\ UNCHANGED <<answered, recorded, serving>>

Answer(c, m) ==
  /\ serving
  /\ Ordered => 1 .. m - 1 \subseteq answered[c]
  /\ answered' = [answered EXCEPT ![c] = @ \cup {m}]
  /\ UNCHANGED <<received, unread, recorded, serving>>

\* The records of all conversations are one file.
Record ==
  /\ serving
  /\ recorded' \in [Conversations -> Nat]
  /\ \A c \in Conversations : recorded'[c] # recorded[c] =>
       /\ recorded'[c] \in answered[c]
       /\ Ordered => 1 .. recorded'[c] \subseteq answered[c]
  /\ UNCHANGED <<received, unread, answered, serving>>

Read(c) ==
  /\ serving
  /\ recorded[c] # 0
  /\ unread' = [unread EXCEPT ![c] = 0]
  /\ UNCHANGED <<received, answered, recorded, serving>>

\* The listener has been disposed of, or another is built on the records.
Retire == serving' = FALSE /\ UNCHANGED <<received, unread, answered, recorded>>
Restart == serving' = TRUE /\ UNCHANGED <<received, unread, answered, recorded>>

Next ==
  \/ \E c \in Conversations :
       Arrive(c) \/ Read(c) \/ \E m \in 1 .. received[c] : Answer(c, m)
  \/ Record \/ Retire \/ Restart

Spec == Init /\ [][Next]_vars
=============================================================================
