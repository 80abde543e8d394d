------------------------- MODULE RealtimeSupervisor -------------------------
(***************************************************************************)
(* IdentityRealtimeSupervisor (src/realtime-supervisor.ts): the background *)
(* loop that synchronizes, opens one WebSocket session, drains its events, *)
(* and retries with backoff, racing the dispose() of its owner.            *)
(*                                                                         *)
(* JavaScript runs one handler at a time, so a step of this model is the   *)
(* code between two awaits.  pc names the await the loop is suspended at;  *)
(* disposer does the same for the one effective call of dispose().  The    *)
(* SDK is external: it answers every call with any of its outcomes.        *)
(***************************************************************************)
EXTENDS Naturals, FiniteSets

CONSTANTS
  Sessions,   \* the WebSocket sessions startRealtime() may return, each once
  NoSession,  \* the undefined session
  RetryCap    \* bound: consecutive failures are counted up to this number

ASSUME SessionsAssumption == NoSession \notin Sessions
ASSUME RetryCapAssumption == RetryCap \in Nat \ {0}

VARIABLES
  pc,            \* the await at which run() is suspended
  cause,         \* run(): why the next synchronization at the loop top happens
  syncCause,     \* the cause of the synchronization in flight
  session,       \* run(): the session of this loop iteration
  failedPhase,   \* run(): the phase in which the iteration failed
  generation,    \* this.generation
  stopped,       \* this.stopped
  disposer,      \* progress of dispose()
  activeSession, \* this.activeSession
  stoppedSessions, \* this.stoppedSessions
  connected,     \* this.connected
  phase,         \* this.lifecyclePhase
  retryCount,    \* this.retryCount, equal to the local failures
  lastFailure,   \* this.lastFailureCode
  lastCommitted, \* this.lastCommittedSyncCause
  startCount,    \* this.startCount
  stopCount,     \* this.stopCount
  timerArmed,    \* a backoff timer is pending
  opened,        \* SDK: the sessions startRealtime() has opened
  stopCalls,     \* SDK: how often stop() was called on each session
  settled        \* SDK: the sessions whose stop() has settled

loop   == <<cause, syncCause, session, failedPhase>>
owner  == <<generation, stopped, disposer>>
held   == <<activeSession, stoppedSessions>>
report == <<connected, phase, retryCount, lastFailure, lastCommitted>>
counts == <<startCount, stopCount>>
sdk    == <<opened, stopCalls, settled>>
vars   == <<pc, loop, owner, held, report, counts, sdk, timerArmed>>

HintCauses == {"message", "system_notification"}
Causes == {"session_start", "reconnected"} \cup HintCauses
Phases == {"idle", "initial_sync", "reconnect_sync", "starting", "connected",
           "backoff", "stopping", "stopped"}
Failures == {"none", "sync_failed", "sync_code", "start_failed", "session_failed",
             "stop_failed"}
Awaits == {"none", "syncNow", "onSynchronized", "startRealtime", "getStatus",
           "nextEvent", "stop", "stopFailed", "stopLate", "backoff", "done"}

ControlTypeOK ==
  /\ pc \in Awaits
  /\ cause \in {"session_start", "reconnected"}
  /\ syncCause \in Causes
  /\ session \in Sessions \cup {NoSession}
  /\ failedPhase \in Phases
  /\ generation \in {0, 1, 2}
  /\ stopped \in BOOLEAN
  /\ disposer \in {"idle", "stop", "join", "done"}
  /\ activeSession \in Sessions \cup {NoSession}
  /\ timerArmed \in BOOLEAN

ReportTypeOK ==
  /\ connected \in BOOLEAN
  /\ phase \in Phases
  /\ retryCount \in Nat
  /\ lastFailure \in Failures
  /\ lastCommitted \in Causes \cup {"none"}
  /\ startCount \in Nat
  /\ stopCount \in Nat

SdkTypeOK ==
  /\ opened \in SUBSET Sessions
  /\ stoppedSessions \in SUBSET Sessions
  /\ settled \in SUBSET Sessions
  /\ stopCalls \in [Sessions -> Nat]

TypeOK == ControlTypeOK /\ ReportTypeOK /\ SdkTypeOK

Init ==
  /\ pc = "none" /\ cause = "session_start" /\ syncCause = "session_start"
  /\ session = NoSession /\ failedPhase = "idle"
  /\ generation = 0 /\ stopped = FALSE /\ disposer = "idle"
  /\ activeSession = NoSession /\ stoppedSessions = {}
  /\ connected = FALSE /\ phase = "idle" /\ retryCount = 0
  /\ lastFailure = "none" /\ lastCommitted = "none"
  /\ startCount = 0 /\ stopCount = 0 /\ timerArmed = FALSE
  /\ opened = {} /\ stopCalls = [s \in Sessions |-> 0] /\ settled = {}

-----------------------------------------------------------------------------
(* Helpers.                                                                 *)

\* The run's own generation is 1: start() increments it once, before run().
RunGeneration == 1

\* current(generation)
Current == ~stopped /\ generation = RunGeneration

\* The synchronous part of stopSession(s), up to the call of session.stop().
StopSession(s) ==
  /\ stoppedSessions' = stoppedSessions \cup {s}
  /\ activeSession' = IF activeSession = s THEN NoSession ELSE activeSession
  /\ connected' = FALSE
  /\ phase' = "stopping"
  /\ stopCount' = stopCount + 1
  /\ stopCalls' = [stopCalls EXCEPT ![s] = @ + 1]

\* The sessions stopSession() acts on; a repeated call returns at once.
Stoppable == Sessions \ stoppedSessions

\* The guard of the outer loop, and its body up to the first await.
LoopTop(c) ==
  /\ session' = NoSession
  /\ cause' = c
  /\ IF Current
     THEN /\ pc' = "syncNow"
          /\ syncCause' = c
          /\ phase' = IF c = "session_start" THEN "initial_sync" ELSE "reconnect_sync"
     ELSE pc' = "done" /\ UNCHANGED <<syncCause, phase>>

\* The guard of the inner loop, and its body up to the first await.
NextEventOrExit ==
  pc' = IF Current /\ activeSession = session THEN "nextEvent" ELSE "done"

-----------------------------------------------------------------------------
(* start(), and the answers of the SDK to the awaits of run().              *)

Start ==
  /\ pc = "none"
  /\ ~stopped
  /\ generation' = generation + 1
  /\ pc' = "syncNow"
  /\ phase' = "initial_sync"
  /\ UNCHANGED <<loop, held, counts, sdk, stopped, disposer, connected,
                 retryCount, lastFailure, lastCommitted, timerArmed>>

\* syncNow() resolves: the result counts only for a current run.
SyncResolves ==
  /\ pc = "syncNow"
  /\ IF Current
     THEN lastCommitted' = syncCause /\ pc' = "onSynchronized"
     ELSE UNCHANGED lastCommitted /\ pc' = "done"
  /\ UNCHANGED <<loop, owner, held, counts, sdk, connected, phase,
                 retryCount, lastFailure, timerArmed>>

\* The post-sync consumer resolves or rejects; its error is only logged.
ConsumerSettles ==
  /\ pc = "onSynchronized"
  /\ IF session # NoSession
     THEN NextEventOrExit /\ UNCHANGED phase
     ELSE IF Current
          THEN pc' = "startRealtime" /\ phase' = "starting"
          ELSE pc' = "done" /\ UNCHANGED phase
  /\ UNCHANGED <<loop, owner, held, counts, sdk, connected, retryCount,
                 lastFailure, lastCommitted, timerArmed>>

\* startRealtime() resolves with a session; a fenced run stops it at once.
StartResolves(s) ==
  /\ pc = "startRealtime"
  /\ s \notin opened
  /\ opened' = opened \cup {s}
  /\ session' = s
  /\ IF Current
     THEN /\ activeSession' = s
          /\ startCount' = startCount + 1
          /\ pc' = "getStatus"
          /\ UNCHANGED <<stoppedSessions, connected, phase, stopCount,
                         stopCalls>>
     ELSE /\ pc' = "stopLate"
          /\ StopSession(s)
          /\ UNCHANGED startCount
  /\ UNCHANGED <<owner, cause, syncCause, failedPhase, retryCount,
                 lastFailure, lastCommitted, timerArmed, settled>>

\* getStatus() answers up, or down (a rejection counts as down).
StatusResolves(up) ==
  /\ pc = "getStatus"
  /\ connected' = up
  /\ phase' = "connected"
  /\ lastFailure' = "none"
  /\ retryCount' = 0
  /\ NextEventOrExit
  /\ UNCHANGED <<loop, owner, held, counts, sdk, lastCommitted,
                 timerArmed>>

-----------------------------------------------------------------------------
(* nextEvent() on the open session.                                         *)

\* The check between every event and its handling.
Fenced == ~Current \/ activeSession # session

EventAfterFence ==
  /\ pc = "nextEvent"
  /\ Fenced
  /\ pc' = "done"
  /\ UNCHANGED <<loop, owner, held, report, counts, sdk, timerArmed>>

\* observeConnection()
ConnectionChanged(up) ==
  /\ pc = "nextEvent"
  /\ ~Fenced
  /\ connected' = up
  /\ IF up
     THEN phase' = "connected" /\ lastFailure' = "none"
     ELSE UNCHANGED <<phase, lastFailure>>
  /\ UNCHANGED <<pc, loop, owner, held, counts, sdk, retryCount,
                 lastCommitted, timerArmed>>

SyncRequired(c) ==
  /\ pc = "nextEvent"
  /\ ~Fenced
  /\ pc' = "syncNow"
  /\ syncCause' = c
  /\ UNCHANGED <<owner, held, report, counts, sdk, cause, session,
                 failedPhase, timerArmed>>

\* Mutant: the ended session is not stopped before the next one is opened.
StreamEndsWithoutStop ==
  /\ pc = "nextEvent"
  /\ ~Fenced
  /\ LoopTop("reconnected")
  /\ UNCHANGED <<owner, held, counts, sdk, failedPhase, connected,
                 retryCount, lastFailure, lastCommitted, timerArmed>>

\* nextEvent() resolves to null: the stream has ended.
StreamEnds ==
  /\ pc = "nextEvent"
  /\ ~Fenced
  /\ IF session \in Stoppable
     THEN StopSession(session)
     ELSE UNCHANGED <<held, connected, phase, stopCount, stopCalls>>
  /\ pc' = "stop"
  /\ UNCHANGED <<loop, owner, retryCount, lastFailure, lastCommitted,
                 startCount, timerArmed, opened, settled>>

\* stop() of an ended stream resolves: reconnect at once, without backoff.
StopResolves ==
  /\ pc = "stop"
  /\ settled' = settled \cup {session}
  /\ LoopTop("reconnected")
  /\ UNCHANGED <<owner, held, counts, failedPhase, connected, retryCount,
                 lastFailure, lastCommitted, timerArmed, opened, stopCalls>>

-----------------------------------------------------------------------------
(* The catch block of run().                                                *)

\* Mutant: the run gives up at an attempt ceiling.
AfterFailureWithCeiling(failed, reported) ==
  /\ lastFailure' = reported
  /\ IF ~Current \/ retryCount = RetryCap
     THEN pc' = "done" /\ UNCHANGED <<retryCount, timerArmed>>
     ELSE pc' = "backoff" /\ retryCount' = retryCount + 1 /\ timerArmed' = TRUE

\* What lastFailureCode may become when the iteration failed in a phase.
FailureCodes(failed) ==
  IF failed \in {"initial_sync", "reconnect_sync"} THEN {"sync_failed", "sync_code"}
  ELSE IF failed = "starting" THEN {"start_failed"} ELSE {"session_failed"}

\* After the failed session is stopped: leave if fenced, else arm the backoff.
\* A failed stop() stays on record until a session is up again.
AfterFailure(failed, reported) ==
  IF ~Current
  THEN /\ pc' = "done"
       /\ lastFailure' = reported
       /\ UNCHANGED <<retryCount, timerArmed>>
  ELSE /\ pc' = "backoff"
       /\ retryCount' = IF retryCount < RetryCap THEN retryCount + 1 ELSE retryCount
       /\ timerArmed' = TRUE
       /\ lastFailure' \in IF reported = "stop_failed" THEN {reported} ELSE FailureCodes(failed)

\* syncNow(), startRealtime(), nextEvent() or the stop() of an ended stream
\* rejects.  A session that is not stopped yet is stopped first.
CallRejects ==
  /\ pc \in {"syncNow", "startRealtime", "nextEvent", "stop"}
  /\ settled' = IF pc = "stop" THEN settled \cup {session} ELSE settled
  /\ IF session \in Stoppable
     THEN /\ pc' = "stopFailed"
          /\ failedPhase' = phase
          /\ StopSession(session)
          /\ UNCHANGED <<lastFailure, retryCount, timerArmed>>
     ELSE /\ AfterFailure(phase, lastFailure)
          /\ phase' = IF Current THEN "backoff" ELSE phase
          /\ connected' = FALSE
          /\ UNCHANGED <<held, failedPhase, stopCount, stopCalls>>
  /\ UNCHANGED <<owner, cause, syncCause, session, lastCommitted,
                 startCount, opened>>

\* stop() of the failed session settles.
FailedSessionStopped(ok) ==
  /\ pc = "stopFailed"
  /\ settled' = settled \cup {session}
  /\ AfterFailure(failedPhase, IF ok THEN lastFailure ELSE "stop_failed")
  /\ phase' = IF Current THEN "backoff" ELSE phase
  /\ failedPhase' = "idle"
  /\ UNCHANGED <<owner, held, counts, cause, syncCause, session,
                 connected, lastCommitted, opened, stopCalls>>

\* stop() of a session that answered after dispose() settles; errors are dropped.
LateSessionStopped ==
  /\ pc = "stopLate"
  /\ settled' = settled \cup {session}
  /\ pc' = "done"
  /\ UNCHANGED <<loop, owner, held, report, counts, timerArmed, opened,
                 stopCalls>>

\* The timer fires, or wakeRetry() has resolved the wait.
BackoffEnds ==
  /\ pc = "backoff"
  /\ timerArmed' = FALSE
  /\ LoopTop(cause)
  /\ UNCHANGED <<owner, held, counts, sdk, failedPhase, connected,
                 retryCount, lastFailure, lastCommitted>>

-----------------------------------------------------------------------------
(* dispose()                                                                *)

\* Mutant: dispose() does not stop the active session.
DisposeWithoutStop ==
  /\ ~stopped
  /\ stopped' = TRUE
  /\ generation' = generation + 1
  /\ timerArmed' = FALSE
  /\ disposer' = "join"
  /\ connected' = FALSE
  /\ phase' = "stopping"
  /\ UNCHANGED <<pc, loop, held, counts, sdk, retryCount, lastFailure,
                 lastCommitted>>

Dispose ==
  /\ ~stopped
  /\ stopped' = TRUE
  /\ generation' = generation + 1
  /\ timerArmed' = FALSE
  /\ IF activeSession \in Stoppable
     THEN /\ StopSession(activeSession)
          /\ disposer' = "stop"
     ELSE /\ disposer' = "join"
          /\ connected' = FALSE
          /\ phase' = "stopping"
          /\ UNCHANGED <<held, stopCount, stopCalls>>
  /\ UNCHANGED <<pc, loop, retryCount, lastFailure, lastCommitted,
                 startCount, opened, settled>>

\* The stop() that dispose() awaits settles; a rejection is dropped.  The
\* session it stopped is the one run() still holds.
DisposeStopSettles ==
  /\ disposer = "stop"
  /\ disposer' = "join"
  /\ settled' = settled \cup {session}
  /\ UNCHANGED <<pc, loop, held, report, counts, generation, stopped,
                 timerArmed, opened, stopCalls>>

\* run() has returned, or start() was never called.
DisposeJoins ==
  /\ disposer = "join"
  /\ pc \in {"none", "done"}
  /\ disposer' = "done"
  /\ phase' = "stopped"
  /\ UNCHANGED <<pc, loop, held, counts, sdk, generation, stopped,
                 connected, retryCount, lastFailure, lastCommitted, timerArmed>>

-----------------------------------------------------------------------------
EventArrives ==
  \/ \E up \in BOOLEAN : ConnectionChanged(up)
  \/ \E c \in HintCauses : SyncRequired(c)
  \/ StreamEnds
  \/ EventAfterFence

RunNext ==
  \/ SyncResolves
  \/ ConsumerSettles
  \/ \E s \in Sessions : StartResolves(s)
  \/ \E up \in BOOLEAN : StatusResolves(up)
  \/ EventArrives
  \/ StopResolves
  \/ CallRejects
  \/ \E ok \in BOOLEAN : FailedSessionStopped(ok)
  \/ LateSessionStopped
  \/ BackoffEnds

OwnerNext == Start \/ Dispose \/ DisposeStopSettles \/ DisposeJoins

Next == RunNext \/ OwnerNext

\* Every SDK call settles and every timer fires, except that nextEvent() may
\* wait forever on a healthy session; on a stopped session it settles.
Fairness ==
  /\ WF_vars(pc # "nextEvent" /\ RunNext)
  /\ WF_vars(pc = "nextEvent" /\ session \in stoppedSessions /\ RunNext)
  /\ WF_vars(DisposeStopSettles)
  /\ WF_vars(DisposeJoins)

Spec == Init /\ [][Next]_vars
FairSpec == Spec /\ Fairness

-----------------------------------------------------------------------------
(* Properties.                                                              *)

\* A session is open from the answer of startRealtime() until its stop() settles.
Live == opened \ settled

\* The installation owns one WebSocket: however dispose(), failures and late
\* answers interleave, no session is opened while another one still lives.
OneLiveSession == \A s, t \in Live : s = t

\* The failure path of run(), the end of the stream and dispose() may all want
\* to stop the same session; the SDK sees at most one stop() for each.
StopOnce == \A s \in Sessions : stopCalls[s] <= 1

\* No session leaks: one that is not stopped is the one run() works with.
NoLeakedSession == \A s \in opened \ stoppedSessions : s = session /\ pc # "done"

\* When dispose() has returned, nothing of the supervisor runs on: every session
\* it ever opened has been stopped, no backoff timer is pending, run() is over.
DisposedIsQuiet ==
  disposer = "done" =>
    /\ Live = {} /\ activeSession = NoSession
    /\ ~timerArmed
    /\ pc \in {"none", "done"}

\* A synchronization that resolves after dispose() is fenced: it is neither
\* reported as committed nor handed to the consumer.
NoCommitAfterDispose ==
  [][stopped => /\ lastCommitted' = lastCommitted
                /\ ~(pc # "onSynchronized" /\ pc' = "onSynchronized")]_vars

\* start() refuses to run twice, so a run that ends while the supervisor is in
\* use would leave the installation offline for good: only dispose() ends it.
RunEndsOnlyByDispose == pc = "done" => stopped

\* While in use, the supervisor reports a connection only of a session it holds.
ConnectedHasSession == ~stopped /\ connected => activeSession # NoSession

\* dispose() returns, whichever await it interrupted.
DisposeReturns == stopped ~> disposer = "done"

\* There is no attempt ceiling: until it is disposed of, a started supervisor
\* always gets back to synchronizing, or to waiting for the events of a session.
KeepsWorking == []<>(stopped \/ pc \in {"none", "syncNow", "nextEvent"})

\* The supervisor is one retirable connection towards Core.
Connection == INSTANCE RealtimeConnection WITH
  link <- IF Live = {} THEN "down" ELSE "up",
  retired <- disposer = "done"
ImplementsConnection == Connection!Spec

-----------------------------------------------------------------------------
(* Two promises of the repository's texts that the code does not keep.      *)

\* dispose() is to "fence late events [...] and join the lifecycle": a disposed
\* supervisor reports no connection.  A late getStatus() answer is not fenced.
DisposedIsDisconnected == disposer = "done" => ~connected

\* "start/stop balance" (README): a disposed supervisor reports as many starts
\* as stops.  A session that answers after dispose() is counted only as a stop.
StartStopBalance == disposer = "done" => startCount = stopCount

-----------------------------------------------------------------------------
(* The inductive invariant the proofs rest on.                              *)

\* The states in which run() holds a session it has not given up.
Streaming == pc \in {"getStatus", "nextEvent"}

\* The states in which run() awaits a stop() of its own.
Stopping == pc \in {"stop", "stopFailed", "stopLate"}

Holding ==
  /\ settled \subseteq stoppedSessions /\ stoppedSessions \subseteq opened
  /\ session \in opened \cup {NoSession}
  /\ opened \ {session} \subseteq settled
  /\ activeSession \in {NoSession, session}
  /\ activeSession \notin stoppedSessions
  /\ session # NoSession /\ session \notin stoppedSessions => activeSession = session
  /\ \A s \in Sessions : stopCalls[s] = IF s \in stoppedSessions THEN 1 ELSE 0

LoopShape ==
  /\ pc \in {"none", "startRealtime"} => session = NoSession
  /\ Streaming \/ Stopping => session # NoSession
  /\ Stopping => session \in stoppedSessions \ settled /\ disposer # "stop"
  /\ pc = "backoff" => session \in settled \cup {NoSession}
  /\ ~stopped /\ session \in stoppedSessions \ settled => Stopping
  /\ ~stopped /\ pc \in {"syncNow", "onSynchronized", "getStatus", "nextEvent"}
       => activeSession = session
  /\ pc \in {"done", "stopLate"} => stopped

DisposeShape ==
  /\ generation = (IF pc = "none" THEN 0 ELSE 1) + (IF stopped THEN 1 ELSE 0)
  /\ stopped <=> disposer # "idle"
  /\ stopped => activeSession = NoSession /\ ~timerArmed
  /\ stopped /\ session \in stoppedSessions \ settled => disposer = "stop" \/ Stopping
  /\ disposer = "stop" => session \in stoppedSessions \ settled
  /\ disposer = "done" => pc \in {"none", "done"}

IInv == TypeOK /\ Holding /\ LoopShape /\ DisposeShape /\ ConnectedHasSession
=============================================================================
