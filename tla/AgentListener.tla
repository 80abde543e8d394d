---------------------------- MODULE AgentListener ----------------------------
(***************************************************************************)
(* AwikiAgentListener (src/listener.ts) and its state store                *)
(* (src/listener-state.ts): committed Direct messages are read after every *)
(* synchronization, queued per conversation, turned into one Agent prompt  *)
(* and one reply each, and acknowledged by a persisted watermark.          *)
(*                                                                         *)
(* A message is its position in the incoming history of its conversation.  *)
(* The step between two awaits of process() is one action; stage names the *)
(* await.  Awaiting stateMutation before a read is not modelled: it delays *)
(* the read, and the route in memory is never rolled back.  Outgoing       *)
(* messages, and the conversations the allowlist excludes, do not appear.  *)
(***************************************************************************)
EXTENDS Naturals, Sequences, FiniteSets, Functions

CONSTANTS
  Conversations,    \* the allowed Direct conversations
  Kinds,            \* the kinds of message that arrive, a subset of AllKinds
  MaxMessages,      \* bound: messages per conversation
  MaxTrouble,       \* bound: failed calls and crashes, together
  OverlappingSync   \* may a sync commit messages while a reconcile runs?

\* ignored: not readable text; command: /help, /status and unknown commands;
\* new, newText: /new without and with a prompt; text: a prompt.
AllKinds == {"ignored", "command", "new", "newText", "text"}

ASSUME KindsAssumption == Kinds \subseteq AllKinds
ASSUME BoundsAssumption ==
  MaxMessages \in Nat /\ MaxTrouble \in Nat /\ OverlappingSync \in BOOLEAN

None == 0   \* the undefined message id, and the undefined session id

VARIABLES
  inbox,     \* Core: the incoming history of each conversation
  unread,    \* Core: its unread count
  requested, \* a synchronization, or the start, has asked for a reconcile not yet begun
  memory,    \* this.state: session and watermark of each conversation
  disk,      \* listener-state.json
  saving,    \* the conversation whose updateRoute() is writing, if any
  round,     \* the reconcile that syncMutation is running
  reads,     \* the unseenMessages() calls in flight
  queue,     \* conversationQueues: the scheduled messages, the head in process()
  stage,     \* the await process() of the head is suspended at
  local,     \* process(): the local sessionId
  sessions,  \* number of DSH sessions created so far
  listenerStopped, \* this.stopped
  released,  \* dispose() has settled
  loaded,    \* stateReady has not rejected
  answered,  \* ghost: messages whose effect (reply, or skip) is complete
  trouble    \* failed calls and crashes so far

core    == <<inbox, unread, requested>>
routes  == <<memory, disk, saving>>
syncing == <<round, reads>>
work    == <<queue, stage, local, sessions>>
life    == <<listenerStopped, released, loaded>>
listenerVars == <<core, routes, syncing, work, life, answered, trouble>>

Stages == {"idle", "reset", "open", "route", "routeSave", "prompt", "reply",
           "commit", "commitSave", "markRead"}
Route == [session : Nat, mark : Nat]
Read  == [conv : Conversations, unread : Nat, mark : Nat,
          at : {"route", "history"}, current : BOOLEAN]

ListenerTypeOK ==
  /\ inbox \in [Conversations -> Seq(AllKinds)]
  /\ unread \in [Conversations -> Nat]
  /\ memory \in [Conversations -> Route]
  /\ disk \in [Conversations -> Route]
  /\ saving \in SUBSET Conversations
  /\ round \in {"idle", "listing", "running"}
  /\ reads \in SUBSET Read
  /\ queue \in [Conversations -> Seq(Nat)]
  /\ stage \in [Conversations -> Stages]
  /\ local \in [Conversations -> Nat]
  /\ sessions \in Nat
  /\ listenerStopped \in BOOLEAN /\ released \in BOOLEAN
  /\ loaded \in BOOLEAN /\ requested \in BOOLEAN
  /\ answered \in [Conversations -> SUBSET Nat]
  /\ trouble \in Nat

NoRoute == [session |-> None, mark |-> None]

ListenerInit ==
  /\ inbox = [c \in Conversations |-> <<>>]
  /\ unread = [c \in Conversations |-> 0]
  /\ memory = [c \in Conversations |-> NoRoute] /\ disk = memory /\ saving = {}
  /\ round = "idle" /\ reads = {}
  /\ queue = [c \in Conversations |-> <<>>]
  /\ stage = [c \in Conversations |-> "idle"]
  /\ local = [c \in Conversations |-> None] /\ sessions = 0
  /\ listenerStopped = FALSE /\ released = FALSE /\ loaded = TRUE /\ requested = TRUE
  /\ answered = [c \in Conversations |-> {}] /\ trouble = 0

-----------------------------------------------------------------------------
(* Core.                                                                    *)

\* A synchronization commits an incoming message, and onRealtimeSynchronized() is called.
Arrive(c, kind) ==
  /\ Len(inbox[c]) < MaxMessages
  /\ OverlappingSync \/ (round = "idle" /\ reads = {})
  /\ inbox' = [inbox EXCEPT ![c] = Append(@, kind)]
  /\ unread' = [unread EXCEPT ![c] = @ + 1]
  /\ requested' = TRUE
  /\ UNCHANGED <<routes, syncing, work, life, answered, trouble>>

\* A synchronization that brings nothing, after a reconnection for example, calls it too.
Synchronize ==
  /\ ~requested
  /\ requested' = TRUE
  /\ UNCHANGED <<inbox, unread, routes, syncing, work, life, answered, trouble>>

\* A call fails, or the process crashes.
Trouble == trouble < MaxTrouble /\ trouble' = trouble + 1

\* A call whose outcome the step depends on.
Outcome(ok) == IF ok THEN UNCHANGED trouble ELSE Trouble

-----------------------------------------------------------------------------
(* reconcileOnce(): one reconcile at a time, serialized by enqueueSync().   *)

\* Mutant: a stopped listener goes on reconciling.
StartReconcileStopped ==
  /\ round = "idle" /\ requested /\ loaded
  /\ round' = "listing"
  /\ UNCHANGED <<core, routes, reads, work, life, answered, trouble>>

\* The state is loaded, or the reconcile rejects; a stopped listener returns.
StartReconcile ==
  /\ round = "idle" /\ requested
  /\ requested' = FALSE
  /\ round' = IF loaded /\ ~listenerStopped THEN "listing" ELSE round
  /\ UNCHANGED <<inbox, unread, routes, reads, work, life, answered, trouble>>

\* listConversations() answers with the unread counts of that moment.
ListConversations(ok) ==
  /\ round = "listing"
  /\ Outcome(ok)
  /\ IF ok
     THEN /\ round' = "running"
          /\ reads' = reads \cup
               {[conv |-> c, unread |-> unread[c], mark |-> None, at |-> "route",
                 current |-> TRUE] : c \in Conversations}
     ELSE round' = "idle" /\ UNCHANGED reads
  /\ UNCHANGED <<core, routes, work, life, answered>>


\* unseenMessages(): the watermark is read, then history is requested.  Without
\* a watermark and without unread messages there is nothing to do.
ReadRoute(r) ==
  /\ r \in reads /\ r.at = "route"
  /\ LET mark == memory[r.conv].mark IN
     reads' = (reads \ {r}) \cup
       IF mark = None /\ r.unread = 0 THEN {}
       ELSE {[r EXCEPT !.mark = mark, !.at = "history"]}
  /\ UNCHANGED <<core, routes, round, work, life, answered, trouble>>

\* The messages a read selects from the history of its conversation.
Candidates(r) ==
  LET last == Len(inbox[r.conv]) IN
  IF r.mark # None THEN r.mark + 1 .. last
  ELSE IF last >= r.unread THEN last - r.unread + 1 .. last ELSE {}

\* A set of messages in the order of the history.
Rising(f) == \A i, j \in DOMAIN f : i < j => f[i] < f[j]
InOrder(messages) == CHOOSE f \in [1 .. Cardinality(messages) -> messages] : Rising(f)

\* enqueue() for each candidate that is not scheduled yet, in order.
Enqueue(c, messages) == queue' = [queue EXCEPT ![c] = @ \o InOrder(messages \ Range(@))]

\* getHistory() answers, and its candidates are scheduled.  It selects nothing
\* when the boundary is out of the scan's reach or the peer DID has changed.
HistoryAnswers(r, reachable) ==
  /\ r \in reads /\ r.at = "history"
  /\ Outcome(reachable)
  /\ reads' = reads \ {r}
  /\ IF reachable THEN Enqueue(r.conv, Candidates(r)) ELSE UNCHANGED queue
  /\ UNCHANGED <<core, routes, round, stage, local, sessions, life, answered>>

\* getHistory() fails: the reconcile rejects at once, its other reads go on.
HistoryFails(r) ==
  /\ r \in reads /\ r.at = "history"
  /\ Trouble
  /\ reads' = {[s EXCEPT !.current = FALSE] : s \in reads \ {r}}
  /\ round' = IF r.current THEN "idle" ELSE round
  /\ UNCHANGED <<core, routes, work, life, answered>>

EndReconcile ==
  /\ round = "running"
  /\ \A r \in reads : ~r.current
  /\ round' = "idle"
  /\ UNCHANGED <<core, routes, reads, work, life, answered, trouble>>

-----------------------------------------------------------------------------
(* process() of the message at the head of a queue.                         *)

Message(c) == Head(queue[c])
Kind(c) == inbox[c][Message(c)]

\* The promise of the head resolves: its successor may start.
Finish(c) ==
  /\ stage' = [stage EXCEPT ![c] = "idle"]
  /\ queue' = [queue EXCEPT ![c] = Tail(@)]

\* Mutant: after a failure the successors run on.
AbandonHeadOnly(c) == Finish(c)

\* The promise of the head rejects: its successors are skipped and unscheduled.
Abandon(c) ==
  /\ stage' = [stage EXCEPT ![c] = "idle"]
  /\ queue' = [queue EXCEPT ![c] = <<>>]

Goto(c, s) == stage' = [stage EXCEPT ![c] = s] /\ UNCHANGED queue

\* The first await of each kind of message.
FirstStage(kind) ==
  [ignored |-> "commit", command |-> "reply", new |-> "reset", newText |-> "reset",
   text |-> "open"][kind]

\* The guards of process(): a stopped listener and a repeated watermark skip.
Begin(c) ==
  /\ queue[c] # <<>> /\ stage[c] = "idle"
  /\ IF listenerStopped \/ memory[c].mark = Message(c)
     THEN Finish(c) /\ UNCHANGED <<local, answered>>
     ELSE /\ Goto(c, FirstStage(Kind(c)))
          /\ local' = [local EXCEPT ![c] = memory[c].session]
          /\ answered' = [answered EXCEPT ![c] =
                            IF Kind(c) = "ignored" THEN @ \cup {Message(c)} ELSE @]
  /\ UNCHANGED <<core, routes, syncing, sessions, life, trouble>>

\* agents.reset(): /new forgets the session, and rejects if disposal fails.
Reset(c, ok) ==
  /\ stage[c] = "reset"
  /\ Outcome(ok)
  /\ local' = [local EXCEPT ![c] = None]
  /\ IF ok THEN Goto(c, IF Kind(c) = "new" THEN "reply" ELSE "open") ELSE Abandon(c)
  /\ UNCHANGED <<core, routes, syncing, sessions, life, answered>>

\* agents.open(): an existing session is resumed, else a fresh one is created;
\* a failure is answered with the failure text.
Open(c, ok) ==
  /\ stage[c] = "open"
  /\ Outcome(ok)
  /\ IF ok /\ local[c] = None
     THEN sessions' = sessions + 1 /\ local' = [local EXCEPT ![c] = sessions']
     ELSE UNCHANGED <<sessions, local>>
  /\ Goto(c, IF ok THEN "route" ELSE "reply")
  /\ UNCHANGED <<core, routes, syncing, life, answered>>

\* updateRoute(), once its turn on stateMutation has come: memory changes, then
\* the whole state is written.
UpdateRoute(c, session, mark) ==
  /\ saving = {}
  /\ saving' = {c}
  /\ memory' = [memory EXCEPT ![c] = [session |-> session, mark |-> mark]]
  /\ UNCHANGED disk

\* The route of an opened session, before the prompt.
SaveRoute(c) ==
  /\ stage[c] = "route"
  /\ UpdateRoute(c, local[c], memory[c].mark)
  /\ Goto(c, "routeSave")
  /\ UNCHANGED <<core, syncing, local, sessions, life, answered, trouble>>

\* The watermark, after the reply; an unset session is dropped from the route.
Commit(c) ==
  /\ stage[c] = "commit"
  /\ UpdateRoute(c, local[c], Message(c))
  /\ Goto(c, "commitSave")
  /\ UNCHANGED <<core, syncing, local, sessions, life, answered, trouble>>

\* Mutant: a failed write is not noticed after the reply.
SaveSettlesUnnoticed(c, ok) ==
  /\ c \in saving
  /\ saving' = {}
  /\ Outcome(ok)
  /\ disk' = IF ok THEN memory ELSE disk
  /\ Goto(c, IF stage[c] = "routeSave" THEN "prompt" ELSE "markRead")
  /\ UNCHANGED <<core, memory, syncing, local, sessions, life, answered>>

\* The write settles.  One that fails before the rename leaves memory ahead of the file;
\* one may also fail after it.  Before the prompt a failure is answered with the failure
\* text, after the reply it rejects.
SaveSettles(c, ok) ==
  /\ c \in saving
  /\ saving' = {}
  /\ Outcome(ok)
  /\ disk' \in IF ok THEN {memory} ELSE {disk, memory}
  /\ IF stage[c] = "routeSave" THEN Goto(c, IF ok THEN "prompt" ELSE "reply")
     ELSE IF ok THEN Goto(c, "markRead") ELSE Abandon(c)
  /\ UNCHANGED <<core, memory, syncing, local, sessions, life, answered>>

\* session.prompt() resolves, or fails and is answered with the failure text.
Prompt(c) ==
  /\ stage[c] = "prompt"
  /\ Goto(c, "reply")
  /\ UNCHANGED <<core, routes, syncing, local, sessions, life, answered, trouble>>

\* sendText() of every chunk of the reply.
Reply(c, ok) ==
  /\ stage[c] = "reply"
  /\ Outcome(ok)
  /\ IF ok
     THEN Goto(c, "commit") /\ answered' = [answered EXCEPT ![c] = @ \cup {Message(c)}]
     ELSE Abandon(c) /\ UNCHANGED answered
  /\ UNCHANGED <<core, routes, syncing, local, sessions, life>>

\* markConversationRead(): a failure is only logged.
MarkRead(c, ok) ==
  /\ stage[c] = "markRead"
  /\ Outcome(ok)
  /\ unread' = IF ok THEN [unread EXCEPT ![c] = 0] ELSE unread
  /\ Finish(c)
  /\ UNCHANGED <<inbox, requested, routes, syncing, local, sessions, life, answered>>

-----------------------------------------------------------------------------
(* Lifecycle.                                                               *)

Stop ==
  /\ ~listenerStopped
  /\ listenerStopped' = TRUE
  /\ UNCHANGED <<core, routes, syncing, work, released, loaded, answered, trouble>>

\* Mutant: dispose() waits for the reconcile and the writes only.
ReleaseUndrained(ok) ==
  /\ listenerStopped /\ ~released
  /\ round = "idle" /\ saving = {}
  /\ Outcome(ok)
  /\ released' = TRUE
  /\ UNCHANGED <<core, routes, syncing, work, listenerStopped, loaded, answered>>

\* dispose(): whenIdle() has drained the reconcile, the queues and the writes.  The Agents
\* are released last, and what of that fails rejects dispose() behind everything else.
Release(ok) ==
  /\ listenerStopped /\ ~released
  /\ round = "idle" /\ saving = {}
  /\ \A c \in Conversations : queue[c] = <<>>
  /\ Outcome(ok)
  /\ released' = TRUE
  /\ UNCHANGED <<core, routes, syncing, work, listenerStopped, loaded, answered>>

\* A listener is built on the persisted state, if that can be loaded: all else starts from
\* nothing.  It asks for a reconcile itself.
Fresh(ok) ==
  /\ loaded' = ok
  /\ memory' = IF ok THEN disk ELSE [c \in Conversations |-> NoRoute]
  /\ saving' = {}
  /\ round' = "idle" /\ reads' = {}
  /\ queue' = [c \in Conversations |-> <<>>]
  /\ stage' = [c \in Conversations |-> "idle"]
  /\ local' = [c \in Conversations |-> None]
  /\ listenerStopped' = FALSE /\ released' = FALSE /\ requested' = TRUE
  /\ UNCHANGED <<inbox, unread, disk, sessions, answered>>

Crash(ok) == Trouble /\ Fresh(ok)
Restart(ok) == released /\ Outcome(ok) /\ Fresh(ok)

-----------------------------------------------------------------------------
Reconcile ==
  \/ \E ok \in BOOLEAN : ListConversations(ok)
  \/ \E r \in reads : ReadRoute(r)
  \/ \E r \in reads, reachable \in BOOLEAN : HistoryAnswers(r, reachable)
  \/ \E r \in reads : HistoryFails(r)
  \/ EndReconcile

Process(c) ==
  \/ Begin(c) \/ SaveRoute(c) \/ Commit(c) \/ Prompt(c)
  \/ \E ok \in BOOLEAN :
       Reset(c, ok) \/ Open(c, ok) \/ SaveSettles(c, ok) \/ Reply(c, ok) \/ MarkRead(c, ok)

ListenerNext ==
  \/ \E c \in Conversations, kind \in Kinds : Arrive(c, kind)
  \/ Synchronize \/ StartReconcile \/ Reconcile
  \/ \E c \in Conversations : Process(c)
  \/ Stop \/ \E ok \in BOOLEAN : Release(ok) \/ Crash(ok) \/ Restart(ok)

\* A reconcile that was asked for begins, and every call settles.  Nothing says that
\* synchronizations go on: a healthy connection may stay quiet for ever.
ListenerFairness ==
  /\ WF_listenerVars(StartReconcile)
  /\ WF_listenerVars(Reconcile)
  /\ \A c \in Conversations : WF_listenerVars(Process(c))
  /\ WF_listenerVars(\E ok \in BOOLEAN : Release(ok))

ListenerSpec == ListenerInit /\ [][ListenerNext]_listenerVars
ListenerFairSpec == ListenerSpec /\ ListenerFairness

-----------------------------------------------------------------------------
(* Properties.                                                              *)

\* A watermark, in memory or on disk, is never ahead of the reply: a message is
\* acknowledged only once its effect is complete, whatever crashes or fails.
AnsweredBeforeMark ==
  \A c \in Conversations : \A mark \in {memory[c].mark, disk[c].mark} \ {None} :
    mark \in answered[c]

\* A failed message blocks its successors, across retries, crashes and restarts:
\* every message behind the watermark has been answered.  This is "advances only
\* a continuous successful watermark prefix" (listener.spec.ts).  It needs a Core
\* that commits no message between the listing of the unread counts and the
\* answers of the history, see OverlappingSync.
ContinuousPrefix ==
  \A c \in Conversations : \A mark \in {memory[c].mark, disk[c].mark} :
    1 .. mark \subseteq answered[c]

\* A conversation is marked as read in Core only when the watermark has reached
\* the disk, so that a crash cannot hide messages from the next reconcile.
ReadOnlyWhenDurable ==
  [][\A c \in Conversations : unread'[c] < unread[c] => disk[c].mark = memory[c].mark]_listenerVars

\* The route keeps its DSH session until the user asks for a new one.
SessionKept ==
  [][\A c \in Conversations :
       memory[c].session # None /\ memory'[c].session # memory[c].session
         => saving' = {} \/ Kind(c) \in {"new", "newText"}]_listenerVars

\* Once dispose() has returned, no message is processed any more, not even one
\* that a read left over from a failed reconcile schedules.
ReleasedIsQuiet == released => saving = {} /\ \A c \in Conversations : stage[c] = "idle"

\* The listener is a mailbox: while it has not been released, what has arrived is answered, and
\* recorded after that, and only what is recorded is marked as read (listener.ts:430-513).
Mail == INSTANCE Mailbox WITH
  Ordered <- ~OverlappingSync,
  received <- [c \in Conversations |-> Len(inbox[c])],
  recorded <- [c \in Conversations |-> disk[c].mark],
  serving <- ~released
ImplementsMailbox == Mail!Spec

\* dispose() returns.
StopDrains == listenerStopped ~> released \/ ~listenerStopped


-----------------------------------------------------------------------------
(* A promise of the repository's tests that the code does not keep.         *)

\* "advances only a continuous successful watermark prefix" (listener.spec.ts):
\* the watermark in memory moves back only when the listener is rebuilt.  A read
\* that started before two messages were processed schedules them again.
WatermarkAdvances ==
  [][\A c \in Conversations : memory'[c].mark < memory[c].mark
       => memory' = disk \/ ~loaded']_listenerVars
=============================================================================
