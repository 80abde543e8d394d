---------------------------- MODULE RealtimeProofs ----------------------------
(***************************************************************************)
(* The two consumers of the realtime events of an identity.                *)
(*                                                                         *)
(* RealtimeSupervisor: the safety properties for any set of sessions and   *)
(* any bound on the failure counter, by the inductive invariant IInv, and  *)
(* that it implements RealtimeConnection.                                  *)
(*                                                                         *)
(* AgentListener, for any conversations, messages, failures and crashes:   *)
(* the type, the safety properties that do not depend on what Core commits *)
(* during a reconcile, then the one that does, and that it implements      *)
(* Mailbox.  The parts of ListenerInv say what a conversation has done by  *)
(* each await of process().                                                *)
(***************************************************************************)
EXTENDS RealtimeSupervisor, AgentListener, FiniteSetTheorems, SequenceTheorems, TLAPS

-----------------------------------------------------------------------------
(* RealtimeSupervisor. *)

LEMMA InitIInv == Init => IInv
<1> SUFFICES ASSUME Init PROVE IInv
  OBVIOUS
<1> USE SessionsAssumption, RetryCapAssumption DEF Init
<1>1. TypeOK
  BY DEF TypeOK, ControlTypeOK, ReportTypeOK, SdkTypeOK, Awaits, Causes, HintCauses, Phases, Failures
<1>2. Holding
  BY DEF Holding
<1>3. LoopShape /\ ConnectedHasSession
  BY DEF LoopShape, Streaming, Stopping, ConnectedHasSession
<1>4. DisposeShape
  BY DEF DisposeShape
<1> QED
  BY <1>1, <1>2, <1>3, <1>4 DEF IInv

(* stopSession() keeps the types of what it writes.                         *)
LEMMA StopSessionTypes ==
  ASSUME TypeOK, NEW s \in Sessions, StopSession(s)
  PROVE  /\ activeSession' \in Sessions \cup {NoSession}
         /\ connected' = FALSE /\ phase' = "stopping" /\ stopCount' \in Nat
         /\ stoppedSessions' \in SUBSET Sessions
         /\ stopCalls' \in [Sessions -> Nat]
<1>1. stopCount' \in Nat
  BY DEF TypeOK, ReportTypeOK, StopSession
<1>2. stopCalls' \in [Sessions -> Nat]
  BY DEF TypeOK, SdkTypeOK, StopSession
<1> QED
  BY <1>1, <1>2 DEF TypeOK, ControlTypeOK, SdkTypeOK, StopSession

(* So does the catch block of run().                                        *)
LEMMA AfterFailureTypes ==
  ASSUME TypeOK, NEW failed \in Phases, NEW reported \in Failures,
         AfterFailure(failed, reported)
  PROVE  /\ pc' \in Awaits /\ timerArmed' \in BOOLEAN
         /\ retryCount' \in Nat /\ lastFailure' \in Failures
<1>1. retryCount' \in Nat
  BY DEF TypeOK, ReportTypeOK, AfterFailure
<1>2. lastFailure' \in Failures
  BY DEF AfterFailure, FailureCodes, Failures
<1> QED
  BY <1>1, <1>2 DEF TypeOK, ControlTypeOK, AfterFailure, Awaits

(* Every step of the supervisor and of its owner preserves IInv.            *)
LEMMA NextIInv == IInv /\ [Next]_vars => IInv'
<1> SUFFICES ASSUME IInv, [Next]_vars PROVE IInv'
  OBVIOUS
<1> USE SessionsAssumption, RetryCapAssumption
    DEF IInv, TypeOK, ControlTypeOK, ReportTypeOK, SdkTypeOK, Holding, LoopShape,
        DisposeShape, ConnectedHasSession, Streaming, Stopping, Awaits, Causes, HintCauses, Phases, Failures, Current, RunGeneration,
        loop, owner, held, report, counts, sdk
<1>1. CASE Start
  BY <1>1 DEF Start
<1>2. CASE SyncResolves
  BY <1>2 DEF SyncResolves
<1>3. CASE ConsumerSettles
  <2>1. TypeOK'
    <3>1. ControlTypeOK'
      BY <1>3 DEF ConsumerSettles, NextEventOrExit
    <3>2. ReportTypeOK'
      BY <1>3 DEF ConsumerSettles, NextEventOrExit
    <3>3. SdkTypeOK'
      BY <1>3 DEF ConsumerSettles, NextEventOrExit
    <3> QED
      BY <3>1, <3>2, <3>3 DEF TypeOK
  <2>2. Holding'
    BY <1>3 DEF ConsumerSettles, NextEventOrExit
  <2>3. LoopShape'
    BY <1>3 DEF ConsumerSettles, NextEventOrExit
  <2>4. DisposeShape'
    BY <1>3 DEF ConsumerSettles, NextEventOrExit
  <2>5. ConnectedHasSession'
    BY <1>3 DEF ConsumerSettles, NextEventOrExit
  <2> QED
    BY <2>1, <2>2, <2>3, <2>4, <2>5 DEF IInv
<1>4. ASSUME NEW s \in Sessions, StartResolves(s) PROVE IInv'
  <2>1. TypeOK'
    <3>1. ControlTypeOK'
      BY <1>4, StopSessionTypes DEF StartResolves
    <3>2. ReportTypeOK'
      <4>1. CASE Current
        BY <1>4, <4>1 DEF StartResolves
      <4>2. CASE ~Current
        BY <1>4, <4>2, StopSessionTypes DEF StartResolves
      <4> QED
        BY <4>1, <4>2
    <3>3. SdkTypeOK'
      BY <1>4, StopSessionTypes DEF StartResolves
    <3> QED
      BY <3>1, <3>2, <3>3 DEF TypeOK
  <2>2. Holding'
    BY <1>4 DEF StartResolves, StopSession
  <2>3. LoopShape'
    BY <1>4 DEF StartResolves, StopSession
  <2>4. DisposeShape'
    BY <1>4 DEF StartResolves, StopSession
  <2>5. ConnectedHasSession'
    BY <1>4 DEF StartResolves, StopSession
  <2> QED
    BY <2>1, <2>2, <2>3, <2>4, <2>5 DEF IInv
<1>5. ASSUME NEW up \in BOOLEAN, StatusResolves(up) PROVE IInv'
  BY <1>5 DEF StatusResolves, NextEventOrExit
<1>6. CASE EventAfterFence
  BY <1>6 DEF EventAfterFence, Fenced
<1>7. ASSUME NEW up \in BOOLEAN, ConnectionChanged(up) PROVE IInv'
  BY <1>7 DEF ConnectionChanged, Fenced
<1>8. ASSUME NEW c \in HintCauses, SyncRequired(c) PROVE IInv'
  BY <1>8 DEF SyncRequired, Fenced
<1>9. CASE StreamEnds
  <2>1. TypeOK'
    <3>1. ControlTypeOK'
      BY <1>9, StopSessionTypes DEF StreamEnds, Stoppable, Fenced
    <3>2. ReportTypeOK'
      BY <1>9, StopSessionTypes DEF StreamEnds, Stoppable, Fenced
    <3>3. SdkTypeOK'
      BY <1>9, StopSessionTypes DEF StreamEnds, Stoppable, Fenced
    <3> QED
      BY <3>1, <3>2, <3>3 DEF TypeOK
  <2>2. Holding'
    BY <1>9 DEF StreamEnds, StopSession, Stoppable, Fenced
  <2>3. LoopShape'
    BY <1>9 DEF StreamEnds, StopSession, Stoppable, Fenced
  <2>4. DisposeShape'
    BY <1>9 DEF StreamEnds, StopSession, Stoppable, Fenced
  <2>5. ConnectedHasSession'
    BY <1>9 DEF StreamEnds, StopSession, Stoppable, Fenced
  <2> QED
    BY <2>1, <2>2, <2>3, <2>4, <2>5 DEF IInv
<1>10. CASE StopResolves
  <2>1. TypeOK'
    <3>1. ControlTypeOK'
      BY <1>10 DEF StopResolves, LoopTop
    <3>2. ReportTypeOK'
      BY <1>10 DEF StopResolves, LoopTop
    <3>3. SdkTypeOK'
      BY <1>10 DEF StopResolves, LoopTop
    <3> QED
      BY <3>1, <3>2, <3>3 DEF TypeOK
  <2>2. Holding'
    BY <1>10 DEF StopResolves, LoopTop
  <2>3. LoopShape'
    BY <1>10 DEF StopResolves, LoopTop
  <2>4. DisposeShape'
    BY <1>10 DEF StopResolves, LoopTop
  <2>5. ConnectedHasSession'
    BY <1>10 DEF StopResolves, LoopTop
  <2> QED
    BY <2>1, <2>2, <2>3, <2>4, <2>5 DEF IInv
<1>11. CASE CallRejects
  <2>1. TypeOK'
    <3>1. ControlTypeOK'
      <4>1. CASE session \in Stoppable
        BY <1>11, <4>1, StopSessionTypes DEF CallRejects, Stoppable
      <4>2. CASE session \notin Stoppable
        BY <1>11, <4>2, AfterFailureTypes DEF CallRejects
      <4> QED
        BY <4>1, <4>2
    <3>2. ReportTypeOK'
      <4>1. CASE session \in Stoppable
        BY <1>11, <4>1, StopSessionTypes DEF CallRejects, Stoppable
      <4>2. CASE session \notin Stoppable
        <5>1. retryCount' \in Nat /\ lastFailure' \in Failures
          BY <1>11, <4>2, AfterFailureTypes DEF CallRejects
        <5> QED
          BY <1>11, <4>2, <5>1 DEF CallRejects
      <4> QED
        BY <4>1, <4>2
    <3>3. SdkTypeOK'
      BY <1>11, StopSessionTypes DEF CallRejects, AfterFailure, FailureCodes, Stoppable
    <3> QED
      BY <3>1, <3>2, <3>3 DEF TypeOK
  <2>2. Holding'
    BY <1>11 DEF CallRejects, AfterFailure, FailureCodes, StopSession, Stoppable
  <2>3. LoopShape'
    BY <1>11 DEF CallRejects, AfterFailure, FailureCodes, StopSession, Stoppable
  <2>4. DisposeShape'
    BY <1>11 DEF CallRejects, AfterFailure, FailureCodes, StopSession, Stoppable
  <2>5. ConnectedHasSession'
    BY <1>11 DEF CallRejects, AfterFailure, FailureCodes, StopSession, Stoppable
  <2> QED
    BY <2>1, <2>2, <2>3, <2>4, <2>5 DEF IInv
<1>12. ASSUME NEW ok \in BOOLEAN, FailedSessionStopped(ok) PROVE IInv'
  <2>1. TypeOK'
    <3>1. ControlTypeOK'
      BY <1>12 DEF FailedSessionStopped, AfterFailure, FailureCodes
    <3>2. ReportTypeOK'
      BY <1>12 DEF FailedSessionStopped, AfterFailure, FailureCodes
    <3>3. SdkTypeOK'
      BY <1>12 DEF FailedSessionStopped, AfterFailure, FailureCodes
    <3> QED
      BY <3>1, <3>2, <3>3 DEF TypeOK
  <2>2. Holding'
    BY <1>12 DEF FailedSessionStopped, AfterFailure, FailureCodes
  <2>3. LoopShape'
    BY <1>12 DEF FailedSessionStopped, AfterFailure, FailureCodes
  <2>4. DisposeShape'
    BY <1>12 DEF FailedSessionStopped, AfterFailure, FailureCodes
  <2>5. ConnectedHasSession'
    BY <1>12 DEF FailedSessionStopped, AfterFailure, FailureCodes
  <2> QED
    BY <2>1, <2>2, <2>3, <2>4, <2>5 DEF IInv
<1>13. CASE LateSessionStopped
  <2>1. TypeOK'
    <3>1. ControlTypeOK'
      BY <1>13 DEF LateSessionStopped
    <3>2. ReportTypeOK'
      BY <1>13 DEF LateSessionStopped
    <3>3. SdkTypeOK'
      BY <1>13 DEF LateSessionStopped
    <3> QED
      BY <3>1, <3>2, <3>3 DEF TypeOK
  <2>2. Holding'
    BY <1>13 DEF LateSessionStopped
  <2>3. LoopShape'
    BY <1>13 DEF LateSessionStopped
  <2>4. DisposeShape'
    BY <1>13 DEF LateSessionStopped
  <2>5. ConnectedHasSession'
    BY <1>13 DEF LateSessionStopped
  <2> QED
    BY <2>1, <2>2, <2>3, <2>4, <2>5 DEF IInv
<1>14. CASE BackoffEnds
  <2>1. TypeOK'
    <3>1. ControlTypeOK'
      BY <1>14 DEF BackoffEnds, LoopTop
    <3>2. ReportTypeOK'
      BY <1>14 DEF BackoffEnds, LoopTop
    <3>3. SdkTypeOK'
      BY <1>14 DEF BackoffEnds, LoopTop
    <3> QED
      BY <3>1, <3>2, <3>3 DEF TypeOK
  <2>2. Holding'
    BY <1>14 DEF BackoffEnds, LoopTop
  <2>3. LoopShape'
    BY <1>14 DEF BackoffEnds, LoopTop
  <2>4. DisposeShape'
    BY <1>14 DEF BackoffEnds, LoopTop
  <2>5. ConnectedHasSession'
    BY <1>14 DEF BackoffEnds, LoopTop
  <2> QED
    BY <2>1, <2>2, <2>3, <2>4, <2>5 DEF IInv
<1>15. CASE Dispose
  <2>1. TypeOK'
    <3>1. ControlTypeOK'
      <4>1. generation' \in {0, 1, 2}
        BY <1>15 DEF Dispose
      <4>2. activeSession' \in Sessions \cup {NoSession} /\ disposer' \in {"stop", "join"}
        BY <1>15, StopSessionTypes DEF Dispose, Stoppable
      <4> QED
        BY <4>1, <4>2, <1>15 DEF Dispose
    <3>2. ReportTypeOK'
      BY <1>15, StopSessionTypes DEF Dispose, Stoppable
    <3>3. SdkTypeOK'
      BY <1>15, StopSessionTypes DEF Dispose, Stoppable
    <3> QED
      BY <3>1, <3>2, <3>3 DEF TypeOK
  <2>2. Holding'
    BY <1>15 DEF Dispose, StopSession, Stoppable
  <2>3. LoopShape'
    BY <1>15 DEF Dispose, StopSession, Stoppable
  <2>4. DisposeShape'
    BY <1>15 DEF Dispose, StopSession, Stoppable
  <2>5. ConnectedHasSession'
    BY <1>15 DEF Dispose, StopSession, Stoppable
  <2> QED
    BY <2>1, <2>2, <2>3, <2>4, <2>5 DEF IInv
<1>16. CASE DisposeStopSettles
  BY <1>16 DEF DisposeStopSettles
<1>17. CASE DisposeJoins
  BY <1>17 DEF DisposeJoins
<1>18. CASE UNCHANGED vars
  BY <1>18 DEF vars
<1>19. QED
  BY <1>1, <1>2, <1>3, <1>4, <1>5, <1>6, <1>7, <1>8, <1>9, <1>10, <1>11, <1>12, <1>13,
     <1>14, <1>15, <1>16, <1>17, <1>18
  DEF Next, RunNext, OwnerNext, EventArrives

(* The invariant implies each property that is checked on the small model.  *)
LEMMA IInvImplies ==
  IInv => /\ OneLiveSession /\ StopOnce /\ NoLeakedSession
          /\ DisposedIsQuiet /\ RunEndsOnlyByDispose
<1> SUFFICES ASSUME IInv PROVE /\ OneLiveSession /\ StopOnce /\ NoLeakedSession
                               /\ DisposedIsQuiet /\ RunEndsOnlyByDispose
  OBVIOUS
<1> USE DEF IInv, Holding, LoopShape, DisposeShape, TypeOK, SdkTypeOK, ControlTypeOK
<1>1. OneLiveSession
  BY DEF OneLiveSession, Live
<1>2. StopOnce
  BY DEF StopOnce
<1>3. NoLeakedSession
  BY SessionsAssumption DEF NoLeakedSession
<1>4. DisposedIsQuiet
  BY SessionsAssumption DEF DisposedIsQuiet, Live, Stopping
<1>5. RunEndsOnlyByDispose
  BY DEF RunEndsOnlyByDispose
<1> QED
  BY <1>1, <1>2, <1>3, <1>4, <1>5

(* IInv holds throughout every behaviour.                                   *)
THEOREM Invariance == Spec => []IInv
<1>1. Init => IInv
  BY InitIInv
<1>2. IInv /\ [Next]_vars => IInv'
  BY NextIInv
<1> QED
  BY <1>1, <1>2, PTL DEF Spec

(* Every variable of the supervisor keeps its type.                         *)
THEOREM TypeCorrectness == Spec => []TypeOK
<1>1. IInv => TypeOK
  BY DEF IInv
<1> QED
  BY <1>1, Invariance, PTL

(* The installation never has two live WebSocket sessions.                  *)
THEOREM SingleSession == Spec => []OneLiveSession
BY IInvImplies, Invariance, PTL

(* No session is stopped twice, by whatever path.                           *)
THEOREM AtMostOneStop == Spec => []StopOnce
BY IInvImplies, Invariance, PTL

(* A session that is not stopped is always in the hands of the loop.        *)
THEOREM NoLeak == Spec => []NoLeakedSession
BY IInvImplies, Invariance, PTL

(* A returned dispose() has left nothing running.                           *)
THEOREM QuietAfterDispose == Spec => []DisposedIsQuiet
BY IInvImplies, Invariance, PTL

(* Only dispose() ends the loop.                                            *)
THEOREM RunGoesOn == Spec => []RunEndsOnlyByDispose
BY IInvImplies, Invariance, PTL

(* A late synchronization result is fenced.                                 *)
THEOREM FencedCommit == Spec => NoCommitAfterDispose
<1>1. [Next]_vars => [stopped => /\ lastCommitted' = lastCommitted
                                 /\ ~(pc # "onSynchronized" /\ pc' = "onSynchronized")]_vars
  <2> SUFFICES ASSUME [Next]_vars, stopped, vars' # vars
               PROVE  /\ lastCommitted' = lastCommitted
                      /\ ~(pc # "onSynchronized" /\ pc' = "onSynchronized")
    BY Zenon
  <2> QED
    BY DEF Next, RunNext, OwnerNext, EventArrives, Start, SyncResolves, ConsumerSettles,
       StartResolves, StatusResolves, NextEventOrExit, EventAfterFence, ConnectionChanged,
       SyncRequired, StreamEnds, StopResolves, CallRejects, AfterFailure,
       FailedSessionStopped, LateSessionStopped, BackoffEnds, LoopTop, Dispose,
       DisposeStopSettles, DisposeJoins, Current, loop, owner, held, report, counts, sdk, vars
<1> QED
  BY <1>1, PTL DEF Spec, NoCommitAfterDispose

(* The supervisor implements the retirable single connection.               *)
THEOREM Refinement == Spec => ImplementsConnection
<1>1. Init => Connection!Init
  BY DEF Init, Live, Connection!Init
<1>2. IInv /\ IInv' /\ [Next]_vars => [Connection!Next]_(Connection!vars)
  <2> SUFFICES ASSUME IInv, IInv', [Next]_vars
               PROVE  [Connection!Next]_(Connection!vars)
    OBVIOUS
  <2> USE DEF Connection!Next, Connection!Open, Connection!Close, Connection!Retire,
              Connection!vars
  <2>1. CASE \E s \in Sessions : StartResolves(s)
    <3>1. Live = {} /\ Live' # {} /\ disposer # "done" /\ disposer' = disposer
      BY <2>1 DEF StartResolves, Live, IInv, Holding, LoopShape, DisposeShape, owner
    <3> QED
      BY <3>1
  <2>2. CASE settled' = settled \cup {session} /\ opened' = opened /\ session \in Live
             /\ disposer # "done" /\ disposer' # "done"
    <3>1. Live # {} /\ Live' = {}
      BY <2>2 DEF Live, IInv, Holding
    <3> QED
      BY <3>1, <2>2
  <2>3. CASE DisposeJoins
    <3>1. session \notin stoppedSessions \ settled /\ activeSession = NoSession
      BY <2>3 DEF DisposeJoins, IInv, LoopShape, DisposeShape, Stopping
    <3>2. Live = {}
      BY <3>1, SessionsAssumption DEF Live, IInv, Holding, TypeOK, SdkTypeOK
    <3>3. Live' = {} /\ disposer' = "done"
      BY <2>3, <3>2 DEF DisposeJoins, Live, sdk
    <3> QED
      BY <3>2, <3>3
  <2>4. CASE /\ settled' = settled /\ opened' = opened
             /\ disposer' = "done" <=> disposer = "done"
    BY <2>4 DEF Live
  <2> QED
    <3> USE DEF IInv, Holding, LoopShape, DisposeShape, Stopping, Live
    <3>1. CASE StopResolves \/ LateSessionStopped \/ \E ok \in BOOLEAN : FailedSessionStopped(ok)
      BY <3>1, <2>2 DEF StopResolves, LateSessionStopped, FailedSessionStopped, owner
    <3>2. CASE DisposeStopSettles
      BY <3>2, <2>2 DEF DisposeStopSettles
    <3>3. CASE CallRejects
      BY <3>3, <2>2, <2>4 DEF CallRejects, owner
    <3>4. CASE \/ Start \/ SyncResolves \/ ConsumerSettles \/ EventArrives \/ BackoffEnds
               \/ \E up \in BOOLEAN : StatusResolves(up)
               \/ UNCHANGED vars
      BY <3>4, <2>4 DEF Start, SyncResolves, ConsumerSettles, EventArrives, BackoffEnds,
         StatusResolves, EventAfterFence, ConnectionChanged, SyncRequired, StreamEnds,
         loop, owner, sdk, vars
    <3>5. CASE Dispose
      BY <3>5, <2>4 DEF Dispose
    <3> QED
      BY <3>1, <3>2, <3>3, <3>4, <3>5, <2>1, <2>3 DEF Next, RunNext, OwnerNext
<1> QED
  BY <1>1, <1>2, Invariance, PTL DEF Spec, ImplementsConnection, Connection!Spec

-----------------------------------------------------------------------------
(* AgentListener. *)

-----------------------------------------------------------------------------
(* Scheduling a finite set of messages in order. *)

\* A set of natural numbers has a least one.
LEMMA LeastNat ==
  ASSUME NEW T \in SUBSET Nat, T # {}
  PROVE  \E x \in T : \A y \in T : x <= y
<1>1. \E x \in T : \A y \in T : ~(<<y, x>> \in OpToRel(<, Nat))
  BY NatLessThanWellFounded, WFMin
<1>2. \A x, y \in T : ~(<<y, x>> \in OpToRel(<, Nat)) => x <= y
  BY DEF OpToRel
<1> QED BY <1>1, <1>2

\* A finite set of natural numbers can be listed in order.
RisingList(S, n) == \E f \in [1 .. n -> S] : Rising(f)

LEMMA ListableNat ==
  ASSUME NEW S \in SUBSET Nat, IsFiniteSet(S)
  PROVE  RisingList(S, Cardinality(S))
<1> DEFINE Sized(n) == {R \in SUBSET Nat : IsFiniteSet(R) /\ Cardinality(R) = n}
           Bad == {n \in Nat : \E R \in Sized(n) : ~RisingList(R, n)}
<1>0. Cardinality(S) \in Nat BY FS_CardinalityType
<1>1. ASSUME Bad # {} PROVE FALSE
  <2>1. PICK n \in Bad : \A k \in Bad : n <= k
    <3>1. Bad \in SUBSET Nat OBVIOUS
    <3> HIDE DEF Bad
    <3> QED BY <3>1, <1>1, LeastNat
  <2>2. PICK R \in Sized(n) : ~RisingList(R, n) BY <2>1
  <2>3. n # 0
    <3> SUFFICES ASSUME n = 0 PROVE RisingList(R, n) BY <2>2
    <3>1. [i \in 1 .. 0 |-> 0] \in [1 .. n -> R] OBVIOUS
    <3>2. Rising([i \in 1 .. 0 |-> 0]) BY DEF Rising
    <3> QED BY <3>1, <3>2 DEF RisingList
  <2>4. PICK m \in R : \A k \in R : m <= k
    <3>1. R # {} BY <2>2, <2>3, FS_EmptySet
    <3> QED BY <3>1, <2>2, LeastNat
  <2>5. R \ {m} \in Sized(n - 1) BY <2>1, <2>2, FS_RemoveElement
  <2>6. RisingList(R \ {m}, n - 1)
    <3>1. n - 1 \in Nat /\ ~(n <= n - 1) BY <2>1, <2>3
    <3>2. n - 1 \notin Bad BY <3>1, <2>1
    <3> QED BY <3>1, <3>2, <2>5
  <2>7. PICK f \in [1 .. n - 1 -> R \ {m}] : Rising(f) BY <2>6 DEF RisingList
  <2> DEFINE g == [i \in 1 .. n |-> IF i = 1 THEN m ELSE f[i - 1]]
  <2>8. \A i \in 1 .. n : i # 1 => i - 1 \in 1 .. n - 1 BY <2>1
  <2>9. g \in [1 .. n -> R] BY <2>8
  <2>10. ASSUME NEW i \in 1 .. n, NEW j \in 1 .. n, i < j PROVE g[i] < g[j]
    <3>1. g[j] = f[j - 1] /\ j - 1 \in 1 .. n - 1 BY <2>10, <2>8
    <3>2. f[j - 1] \in R \ {m} BY <3>1
    <3>3. CASE i = 1
      <4>1. g[i] = m /\ m <= f[j - 1] /\ m # f[j - 1] BY <3>2, <3>3, <2>4
      <4>2. m \in Nat /\ f[j - 1] \in Nat BY <3>2, <2>2
      <4>3. m < f[j - 1] BY <4>1, <4>2
      <4> QED BY <4>1, <4>3, <3>1
    <3>4. CASE i # 1
      <4>1. g[i] = f[i - 1] /\ i - 1 \in 1 .. n - 1 /\ i - 1 < j - 1 BY <3>4, <2>8, <2>10, <2>1
      <4>2. DOMAIN f = 1 .. n - 1 OBVIOUS
      <4> QED BY <4>1, <4>2, <3>1, <2>7 DEF Rising
    <3> QED BY <3>3, <3>4
  <2>11. Rising(g) BY <2>10 DEF Rising
  <2> QED BY <2>9, <2>11, <2>2 DEF RisingList
<1>2. S \in Sized(Cardinality(S)) OBVIOUS
<1> QED BY <1>0, <1>1, <1>2

\* What enqueue() appends is a sequence of the messages it is given.
LEMMA InOrderType ==
  ASSUME NEW n \in Nat, NEW S \in SUBSET (1 .. n)
  PROVE  InOrder(S) \in Seq(S)
<1>1. IsFiniteSet(S)
  <2>1. IsFiniteSet(1 .. n) BY FS_Interval
  <2> QED BY <2>1, FS_Subset
<1>2. S \in SUBSET Nat OBVIOUS
<1>3. \E f \in [1 .. Cardinality(S) -> S] : Rising(f) BY <1>1, <1>2, ListableNat DEF RisingList
<1>4. InOrder(S) \in [1 .. Cardinality(S) -> S] BY <1>3 DEF InOrder
<1>5. Cardinality(S) \in Nat BY <1>1, FS_CardinalityType
<1> QED BY <1>4, <1>5

-----------------------------------------------------------------------------
(* The inductive invariant. *)

\* What conversation c has done by each await: its schedule is about messages that have
\* arrived; only a head that is processed suspends it; it writes where updateRoute() is; it
\* commits what is answered, which is then its mark, and never forgets that it has one, if its
\* state could be loaded; and it marks as read what is on disk.
ConvInv(c) ==
  /\ queue[c] \in Seq(1 .. Len(inbox[c]))
  /\ stage[c] # "idle" => queue[c] # <<>>
  /\ c \in saving => stage[c] \in {"routeSave", "commitSave"}
  /\ stage[c] = "commit" => Message(c) \in answered[c]
  /\ memory[c].mark \in answered[c] \cup {None}
  /\ disk[c].mark \in answered[c] \cup {None}
  /\ loaded /\ memory[c].mark = None => disk[c].mark = None
  /\ stage[c] \in {"commitSave", "markRead"} => memory[c].mark = Message(c)
  /\ stage[c] = "markRead" => disk[c] = memory[c]

\* A released listener was stopped with nothing under way; one that has no state never begins.
Quiet ==
  /\ released => /\ listenerStopped /\ saving = {}
                 /\ \A c \in Conversations : stage[c] = "idle"
  /\ ~loaded => /\ round = "idle" /\ reads = {}
                /\ \A c \in Conversations : queue[c] = <<>>

ListenerInv == ListenerTypeOK /\ (\A c \in Conversations : ConvInv(c)) /\ Quiet

\* The parts of the type, by what a step leaves alone.
CoreType ==
  /\ inbox \in [Conversations -> Seq(AllKinds)]
  /\ unread \in [Conversations -> Nat]
  /\ requested \in BOOLEAN
RoutesType ==
  /\ memory \in [Conversations -> Route]
  /\ disk \in [Conversations -> Route]
  /\ saving \in SUBSET Conversations
SyncType ==
  /\ round \in {"idle", "listing", "running"}
  /\ reads \in SUBSET Read
QueueType ==
  /\ queue \in [Conversations -> Seq(Nat)]
  /\ stage \in [Conversations -> Stages]
SessionType == local \in [Conversations -> Nat] /\ sessions \in Nat
LifeType == listenerStopped \in BOOLEAN /\ released \in BOOLEAN /\ loaded \in BOOLEAN
GhostType == answered \in [Conversations -> SUBSET Nat] /\ trouble \in Nat

LEMMA TypeParts ==
  ListenerTypeOK <=> /\ CoreType /\ RoutesType /\ SyncType /\ QueueType
             /\ SessionType /\ LifeType /\ GhostType
BY DEF ListenerTypeOK, CoreType, RoutesType, SyncType, QueueType, SessionType, LifeType, GhostType

LEMMA TypePartsNext ==
  ListenerTypeOK' <=> /\ CoreType' /\ RoutesType' /\ SyncType' /\ QueueType'
              /\ SessionType' /\ LifeType' /\ GhostType'
BY DEF ListenerTypeOK, CoreType, RoutesType, SyncType, QueueType, SessionType, LifeType, GhostType

-----------------------------------------------------------------------------
(* What the helpers do. *)

LEMMA OutcomeType == ASSUME trouble \in Nat, NEW ok, Outcome(ok) PROVE trouble' \in Nat
BY DEF Outcome, Trouble

LEMMA GotoType ==
  ASSUME QueueType, NEW c \in Conversations, NEW s \in Stages, Goto(c, s)
  PROVE  QueueType' /\ stage' = [stage EXCEPT ![c] = s] /\ queue' = queue
BY DEF QueueType, Goto

LEMMA FinishType ==
  ASSUME QueueType, NEW c \in Conversations, queue[c] # <<>>, Finish(c)
  PROVE  QueueType'
<1>1. Tail(queue[c]) \in Seq(Nat) BY DEF QueueType
<1>2. "idle" \in Stages BY DEF Stages
<1> QED BY <1>1, <1>2 DEF QueueType, Finish

LEMMA AbandonType ==
  ASSUME QueueType, NEW c \in Conversations, Abandon(c)
  PROVE  QueueType'
<1>1. <<>> \in Seq(Nat) OBVIOUS
<1>2. "idle" \in Stages BY DEF Stages
<1> QED BY <1>1, <1>2 DEF QueueType, Abandon

LEMMA UpdateRouteType ==
  ASSUME RoutesType, NEW c \in Conversations, NEW s \in Nat, NEW m \in Nat, UpdateRoute(c, s, m)
  PROVE  RoutesType'
<1>1. [session |-> s, mark |-> m] \in Route BY DEF Route
<1> QED BY <1>1 DEF RoutesType, UpdateRoute

\* The head of a busy queue is a message that has arrived, of a kind process() knows.
LEMMA HeadType ==
  ASSUME CoreType, NEW c \in Conversations, ConvInv(c), queue[c] # <<>>
  PROVE  /\ Message(c) \in 1 .. Len(inbox[c]) /\ Message(c) \in Nat
         /\ Tail(queue[c]) \in Seq(1 .. Len(inbox[c]))
         /\ Kind(c) \in AllKinds
<1>1. queue[c] \in Seq(1 .. Len(inbox[c])) BY DEF ConvInv
<1>2. Head(queue[c]) \in 1 .. Len(inbox[c]) /\ Tail(queue[c]) \in Seq(1 .. Len(inbox[c]))
  BY <1>1, HeadTailProperties
<1>3. inbox[c] \in Seq(AllKinds) BY DEF CoreType
<1>4. inbox[c][Head(queue[c])] \in AllKinds BY <1>2, <1>3
<1> QED BY <1>2, <1>4 DEF Message, Kind

LEMMA FirstStageType ==
  ASSUME NEW k \in AllKinds
  PROVE  /\ FirstStage(k) \in {"commit", "reply", "reset", "open"}
         /\ FirstStage(k) = "commit" => k = "ignored"
<1>1. CASE k = "ignored" BY <1>1 DEF FirstStage
<1>2. CASE k = "command" BY <1>2 DEF FirstStage
<1>3. CASE k = "new" BY <1>3 DEF FirstStage
<1>4. CASE k = "newText" BY <1>4 DEF FirstStage
<1>5. CASE k = "text" BY <1>5 DEF FirstStage
<1> QED BY <1>1, <1>2, <1>3, <1>4, <1>5 DEF AllKinds

\* A conversation a step does not touch.
LEMMA Frame ==
  ASSUME NEW c \in Conversations, ConvInv(c),
         inbox'[c] = inbox[c], queue'[c] = queue[c], stage'[c] = stage[c],
         memory'[c] = memory[c], disk'[c] \in {disk[c], memory[c]},
         answered[c] \subseteq answered'[c], c \in saving' => c \in saving, loaded' = loaded
  PROVE  ConvInv(c)'
BY DEF ConvInv, Message

-----------------------------------------------------------------------------
(* Steps of Core and of the reconcile. *)

\* A step that leaves the conversations' work alone keeps the invariant.
LEMMA SyncKeeps ==
  ASSUME ListenerInv, SyncType', trouble' \in Nat, requested' \in BOOLEAN,
         ~loaded => round' = "idle" /\ reads' = {},
         UNCHANGED <<inbox, unread, routes, queue, stage, local, sessions, life, answered>>
  PROVE  ListenerInv'
<1> USE DEF ListenerInv, routes, life
<1>1. ListenerTypeOK'
  BY TypeParts, TypePartsNext DEF CoreType, RoutesType, QueueType, SessionType, LifeType, GhostType
<1>2. ASSUME NEW d \in Conversations PROVE ConvInv(d)'
  BY Frame
<1>3. Quiet' BY DEF Quiet
<1> QED BY <1>1, <1>2, <1>3

LEMMA SeqOfLarger == ASSUME NEW S, NEW T, S \subseteq T PROVE Seq(S) \subseteq Seq(T)
OBVIOUS

LEMMA ArriveInv ==
  ASSUME ListenerInv, NEW c \in Conversations, NEW kind \in Kinds, Arrive(c, kind)
  PROVE  ListenerInv'
<1>t. CoreType /\ RoutesType /\ SyncType /\ QueueType /\ SessionType /\ LifeType /\ GhostType
  BY TypeParts DEF ListenerInv
<1>k. kind \in AllKinds BY KindsAssumption
<1>1. inbox' \in [Conversations -> Seq(AllKinds)]
  <2>1. Append(inbox[c], kind) \in Seq(AllKinds) BY <1>t, <1>k DEF CoreType
  <2> QED BY <2>1, <1>t DEF CoreType, Arrive
<1>2. unread' \in [Conversations -> Nat] BY <1>t DEF CoreType, Arrive
<1>3. ListenerTypeOK'
  BY <1>1, <1>2, <1>t, TypePartsNext DEF Arrive, routes, syncing, work, life,
     CoreType, RoutesType, SyncType, QueueType, SessionType, LifeType, GhostType
<1>4. ASSUME NEW d \in Conversations PROVE ConvInv(d)'
  <2>1. Len(inbox[d]) \in Nat /\ Len(inbox'[d]) \in Nat /\ Len(inbox[d]) <= Len(inbox'[d])
    <3>1. inbox[d] \in Seq(AllKinds) /\ inbox'[d] \in Seq(AllKinds) BY <1>t, <1>1 DEF CoreType
    <3>2. inbox'[d] = inbox[d] \/ inbox'[d] = Append(inbox[d], kind) BY <1>t DEF CoreType, Arrive
    <3>3. Len(Append(inbox[d], kind)) = Len(inbox[d]) + 1 BY <3>1, <1>k
    <3> QED BY <3>1, <3>2, <3>3
  <2>2. 1 .. Len(inbox[d]) \subseteq 1 .. Len(inbox'[d]) BY <2>1
  <2>3. Seq(1 .. Len(inbox[d])) \subseteq Seq(1 .. Len(inbox'[d])) BY <2>2, SeqOfLarger
  <2>4. ConvInv(d) BY DEF ListenerInv
  <2> QED BY <2>3, <2>4 DEF ConvInv, Arrive, routes, work, life, Message
<1>5. Quiet' BY DEF ListenerInv, Quiet, Arrive, routes, syncing, work, life
<1> QED BY <1>3, <1>4, <1>5 DEF ListenerInv

\* The messages a read selects have arrived.
LEMMA CandidatesType ==
  ASSUME CoreType, NEW r \in Read
  PROVE  Candidates(r) \in SUBSET (1 .. Len(inbox[r.conv])) /\ Len(inbox[r.conv]) \in Nat
<1>1. r.conv \in Conversations /\ r.mark \in Nat /\ r.unread \in Nat BY DEF Read
<1>2. Len(inbox[r.conv]) \in Nat BY <1>1 DEF CoreType
<1>3. \A m \in Nat : m + 1 .. Len(inbox[r.conv]) \subseteq 1 .. Len(inbox[r.conv]) BY <1>2
<1>4. Len(inbox[r.conv]) >= r.unread =>
        Len(inbox[r.conv]) - r.unread + 1 .. Len(inbox[r.conv]) \subseteq 1 .. Len(inbox[r.conv])
  BY <1>1, <1>2
<1> QED BY <1>1, <1>2, <1>3, <1>4 DEF Candidates

\* What is appended to a queue does not change its head.
LEMMA HeadOfConcat ==
  ASSUME NEW T, NEW q \in Seq(T), q # <<>>, NEW f \in Seq(T)
  PROVE  q \o f # <<>> /\ Head(q \o f) = Head(q)
<1>1. Len(q \o f) = Len(q) + Len(f) BY ConcatProperties
<1>2. Len(q) \in Nat \ {0} /\ Len(f) \in Nat OBVIOUS
<1>3. 1 \in 1 .. Len(q) + Len(f) /\ 1 <= Len(q) BY <1>2
<1>4. (q \o f)[1] = q[1] BY <1>3, ConcatProperties
<1>5. q \o f # <<>> BY <1>1, <1>2
<1>6. q \o f \in Seq(T) BY ConcatProperties
<1> QED BY <1>4, <1>5, <1>6

\* Scheduling appends messages that have arrived behind the head.
LEMMA EnqueueInv ==
  ASSUME ListenerInv, NEW c \in Conversations, NEW S \in SUBSET (1 .. Len(inbox[c])), Enqueue(c, S),
         loaded, SyncType', trouble' \in Nat,
         UNCHANGED <<core, routes, stage, local, sessions, life, answered>>
  PROVE  ListenerInv'
<1> USE DEF core, routes, life
<1>t. CoreType /\ RoutesType /\ SyncType /\ QueueType /\ SessionType /\ LifeType /\ GhostType
  BY TypeParts DEF ListenerInv
<1> DEFINE n == Len(inbox[c])
           new == InOrder(S \ Range(queue[c]))
<1>n. n \in Nat BY <1>t DEF CoreType
<1>1. new \in Seq(1 .. n)
  <2>1. S \ Range(queue[c]) \in SUBSET (1 .. n) OBVIOUS
  <2>2. InOrder(S \ Range(queue[c])) \in Seq(S \ Range(queue[c])) BY <2>1, <1>n, InOrderType
  <2> QED BY <2>1, <2>2
<1>2. queue[c] \in Seq(1 .. n) BY DEF ListenerInv, ConvInv
<1>3. queue' = [queue EXCEPT ![c] = @ \o new] BY DEF Enqueue
<1>4. queue'[c] = queue[c] \o new BY <1>3, <1>t DEF QueueType
<1> HIDE DEF new
<1>5. queue[c] \o new \in Seq(1 .. n) /\ (queue[c] # <<>> => queue[c] \o new # <<>>
                                          /\ Head(queue[c] \o new) = Head(queue[c]))
  <2>1. queue[c] \o new \in Seq(1 .. n) /\ Len(queue[c] \o new) = Len(queue[c]) + Len(new)
    BY <1>1, <1>2, ConcatProperties
  <2>2. queue[c] # <<>> => queue[c] \o new # <<>> /\ Head(queue[c] \o new) = Head(queue[c])
    BY <1>1, <1>2, HeadOfConcat
  <2> QED BY <2>1, <2>2
<1>6. ListenerTypeOK'
  <2>1. queue[c] \o new \in Seq(Nat)
    <3>1. Seq(1 .. n) \subseteq Seq(Nat) BY <1>n
    <3> QED BY <3>1, <1>5
  <2>2. QueueType' BY <2>1, <1>3, <1>t DEF QueueType
  <2> QED BY <2>2, <1>t, TypePartsNext DEF CoreType, RoutesType, SessionType, LifeType, GhostType
<1>7. ASSUME NEW d \in Conversations PROVE ConvInv(d)'
  <2>1. CASE d = c BY <2>1, <1>4, <1>5 DEF ListenerInv, ConvInv, Message
  <2>2. CASE d # c
    <3>1. queue'[d] = queue[d] BY <2>2, <1>3, <1>t DEF QueueType
    <3> QED BY <3>1, Frame DEF ListenerInv
  <2> QED BY <2>1, <2>2
<1>8. Quiet' BY DEF ListenerInv, Quiet
<1> QED BY <1>6, <1>7, <1>8 DEF ListenerInv

-----------------------------------------------------------------------------
(* Steps of process(). *)

\* A step of one conversation: the others are framed.
LEMMA OneConversation ==
  ASSUME ListenerInv, NEW c \in Conversations, ListenerTypeOK', ConvInv(c)', inbox' = inbox,
         \A d \in Conversations \ {c} :
           /\ queue'[d] = queue[d] /\ stage'[d] = stage[d] /\ memory'[d] = memory[d]
           /\ disk'[d] \in {disk[d], memory[d]}
           /\ answered[d] \subseteq answered'[d]
           /\ d \in saving' => d \in saving,
         loaded' = loaded, Quiet'
  PROVE  ListenerInv'
<1>1. ASSUME NEW d \in Conversations PROVE ConvInv(d)'
  <2>1. CASE d = c BY <2>1
  <2>2. CASE d # c BY <2>2, Frame DEF ListenerInv
  <2> QED BY <2>1, <2>2
<1> QED BY <1>1 DEF ListenerInv

\* A conversation that process() is suspended in is one of a listener that serves.
LEMMA BusyIsServing ==
  ASSUME ListenerInv, NEW c \in Conversations, stage[c] # "idle" \/ c \in saving
  PROVE  ~released /\ loaded
BY DEF ListenerInv, ConvInv, Quiet

\* A step that only moves the head on, and perhaps changes the session.
LEMMA MovesInv ==
  ASSUME ListenerInv, NEW c \in Conversations, stage[c] # "idle", c \notin saving, NEW s \in Stages,
         s \notin {"commit", "commitSave", "markRead"}, Goto(c, s), SessionType', trouble' \in Nat,
         UNCHANGED <<core, routes, syncing, life, answered>>
  PROVE  ListenerInv'
<1> USE DEF core, routes, syncing, life
<1>t. CoreType /\ RoutesType /\ SyncType /\ QueueType /\ SessionType /\ LifeType /\ GhostType
  BY TypeParts DEF ListenerInv
<1>1. QueueType' /\ stage' = [stage EXCEPT ![c] = s] /\ queue' = queue BY <1>t, GotoType
<1>2. ListenerTypeOK'
  BY <1>1, <1>t, TypePartsNext DEF CoreType, RoutesType, SyncType, LifeType, GhostType
<1>3. stage'[c] = s BY <1>1, <1>t DEF QueueType
<1>4. ConvInv(c)' BY <1>1, <1>3 DEF ListenerInv, ConvInv, Message
<1>5. \A d \in Conversations \ {c} : stage'[d] = stage[d] BY <1>1, <1>t DEF QueueType
<1>6. Quiet' BY BusyIsServing DEF Quiet
<1> QED BY <1>1, <1>2, <1>4, <1>5, <1>6, OneConversation

\* The promise of the head settles, and its successors go on or are abandoned.
LEMMA SettlesInv ==
  ASSUME ListenerInv, NEW c \in Conversations, queue[c] # <<>>, Finish(c) \/ Abandon(c),
         SessionType', trouble' \in Nat, unread' \in [Conversations -> Nat],
         disk' = disk \/ disk' = memory, saving' \in SUBSET (saving \ {c}),
         UNCHANGED <<inbox, requested, memory, syncing, life, answered>>
  PROVE  ListenerInv'
<1> USE DEF syncing, life
<1>t. CoreType /\ RoutesType /\ SyncType /\ QueueType /\ SessionType /\ LifeType /\ GhostType
  BY TypeParts DEF ListenerInv
<1>1. QueueType' BY <1>t, FinishType, AbandonType
<1>2. RoutesType' BY <1>t DEF RoutesType
<1>3. ListenerTypeOK'
  BY <1>1, <1>2, <1>t, TypePartsNext DEF CoreType, SyncType, LifeType, GhostType
<1>4. stage'[c] = "idle" /\ queue'[c] \in {Tail(queue[c]), <<>>}
  BY <1>t DEF QueueType, Finish, Abandon
<1>5. queue'[c] \in Seq(1 .. Len(inbox[c]))
  <2>1. Tail(queue[c]) \in Seq(1 .. Len(inbox[c])) BY <1>t, HeadType DEF ListenerInv
  <2>2. <<>> \in Seq(1 .. Len(inbox[c])) OBVIOUS
  <2> QED BY <1>4, <2>1, <2>2
<1>6. ConvInv(c)' BY <1>4, <1>5 DEF ListenerInv, ConvInv
<1>7. \A d \in Conversations \ {c} : stage'[d] = stage[d] /\ queue'[d] = queue[d]
  BY <1>t DEF QueueType, Finish, Abandon
<1>8. Quiet' BY <1>7, <1>4 DEF ListenerInv, Quiet
<1> QED BY <1>3, <1>6, <1>7, <1>8, OneConversation

LEMMA BeginInv == ASSUME ListenerInv, NEW c \in Conversations, Begin(c) PROVE ListenerInv'
<1> USE DEF Begin, core, routes, syncing, life
<1>t. CoreType /\ RoutesType /\ SyncType /\ QueueType /\ SessionType /\ LifeType /\ GhostType
  BY TypeParts DEF ListenerInv
<1>1. CASE listenerStopped \/ memory[c].mark = Message(c)
  <2>1. Finish(c) /\ UNCHANGED <<local, answered>> BY <1>1
  <2>2. SessionType' /\ trouble' \in Nat /\ unread' \in [Conversations -> Nat]
    BY <2>1, <1>t DEF SessionType, GhostType, CoreType
  <2>3. c \notin saving BY DEF ListenerInv, ConvInv
  <2> QED BY <2>1, <2>2, <2>3, SettlesInv
<1>2. CASE ~(listenerStopped \/ memory[c].mark = Message(c))
  <2> DEFINE k == Kind(c)
             s == FirstStage(k)
  <2>1. Goto(c, s) /\ local' = [local EXCEPT ![c] = memory[c].session] BY <1>2
  <2>2. answered' = [answered EXCEPT ![c] = IF k = "ignored" THEN @ \cup {Message(c)} ELSE @]
    BY <1>2
  <2>3. k \in AllKinds /\ Message(c) \in Nat BY <1>t, HeadType DEF ListenerInv
  <2>4. s \in {"commit", "reply", "reset", "open"} /\ (s = "commit" => k = "ignored")
    BY <2>3, FirstStageType
  <2> HIDE DEF k, s
  <2>5. QueueType' /\ stage' = [stage EXCEPT ![c] = s] /\ queue' = queue
    <3>1. s \in Stages BY <2>4 DEF Stages
    <3> QED BY <3>1, <2>1, <1>t, GotoType
  <2>6. stage'[c] = s BY <2>5, <1>t DEF QueueType
  <2>7. answered'[c] = IF k = "ignored" THEN answered[c] \cup {Message(c)} ELSE answered[c]
    BY <2>2, <1>t DEF GhostType
  <2>8. SessionType'
    <3>1. memory[c].session \in Nat BY <1>t DEF RoutesType, Route
    <3> QED BY <3>1, <2>1, <1>t DEF SessionType
  <2>9. GhostType'
    <3>1. answered[c] \in SUBSET Nat BY <1>t DEF GhostType
    <3>2. (IF k = "ignored" THEN answered[c] \cup {Message(c)} ELSE answered[c]) \in SUBSET Nat
      BY <3>1, <2>3
    <3> QED BY <3>2, <2>2, <1>t DEF GhostType
  <2>10. ListenerTypeOK'
    BY <2>5, <2>8, <2>9, <1>t, TypePartsNext DEF CoreType, RoutesType, SyncType, LifeType
  <2>11. ConvInv(c)'
    <3>1. c \notin saving BY DEF ListenerInv, ConvInv
    <3>2. Message(c)' = Message(c) BY <2>5 DEF Message
    <3> QED BY <3>1, <3>2, <2>4, <2>5, <2>6, <2>7 DEF ListenerInv, ConvInv
  <2>12. \A d \in Conversations \ {c} : stage'[d] = stage[d] /\ answered'[d] = answered[d]
    BY <2>2, <2>5, <1>t DEF QueueType, GhostType
  <2>13. Quiet' BY <1>2 DEF ListenerInv, Quiet
  <2> QED BY <2>5, <2>10, <2>11, <2>12, <2>13, OneConversation
<1> QED BY <1>1, <1>2

\* updateRoute() writes a watermark that is answered.
LEMMA WritesInv ==
  ASSUME ListenerInv, NEW c \in Conversations, stage[c] # "idle", NEW m \in Nat,
         m \in answered[c] \cup {None}, m = None => disk[c].mark = None,
         UpdateRoute(c, local[c], m),
         NEW s \in {"routeSave", "commitSave"}, s = "commitSave" => m = Message(c), Goto(c, s),
         UNCHANGED <<core, syncing, local, sessions, life, answered, trouble>>
  PROVE  ListenerInv'
<1> USE DEF core, syncing, life
<1>t. CoreType /\ RoutesType /\ SyncType /\ QueueType /\ SessionType /\ LifeType /\ GhostType
  BY TypeParts DEF ListenerInv
<1>1. s \in Stages BY DEF Stages
<1>2. QueueType' /\ stage' = [stage EXCEPT ![c] = s] /\ queue' = queue BY <1>1, <1>t, GotoType
<1>3. RoutesType'
  <2>1. local[c] \in Nat BY <1>t DEF SessionType
  <2> QED BY <2>1, <1>t, UpdateRouteType
<1>4. ListenerTypeOK' BY <1>2, <1>3, <1>t, TypePartsNext DEF CoreType, SyncType, SessionType, LifeType, GhostType
<1>5. stage'[c] = s BY <1>2, <1>t DEF QueueType
<1>6. memory'[c].mark = m /\ disk' = disk /\ saving' = {c} BY <1>t DEF RoutesType, UpdateRoute
<1>7. ConvInv(c)' BY <1>2, <1>5, <1>6 DEF ListenerInv, ConvInv, Message
<1>8. \A d \in Conversations \ {c} : stage'[d] = stage[d] /\ memory'[d] = memory[d]
  BY <1>2, <1>t DEF QueueType, RoutesType, UpdateRoute
<1>9. Quiet' BY BusyIsServing DEF Quiet
<1> QED BY <1>2, <1>4, <1>6, <1>7, <1>8, <1>9, OneConversation

LEMMA SaveSettlesInv ==
  ASSUME ListenerInv, NEW c \in Conversations, NEW ok \in BOOLEAN, SaveSettles(c, ok)
  PROVE  ListenerInv'
<1> USE DEF SaveSettles, core, syncing, life
<1>t. CoreType /\ RoutesType /\ SyncType /\ QueueType /\ SessionType /\ LifeType /\ GhostType
  BY TypeParts DEF ListenerInv
<1>1. stage[c] \in {"routeSave", "commitSave"} /\ queue[c] # <<>> BY DEF ListenerInv, ConvInv
<1>2. trouble' \in Nat BY <1>t, OutcomeType DEF GhostType
<1>3. SessionType' BY <1>t DEF SessionType
<1>4. disk' = disk \/ disk' = memory OBVIOUS
<1>5. CASE Abandon(c)
  <2>1. unread' \in [Conversations -> Nat] BY <1>t DEF CoreType
  <2>2. saving' \in SUBSET (saving \ {c}) OBVIOUS
  <2> QED BY <2>1, <2>2, <1>1, <1>2, <1>3, <1>4, <1>5, SettlesInv
<1>6. ASSUME NEW s \in {"prompt", "reply", "markRead"}, Goto(c, s),
             s = "markRead" => disk' = memory /\ stage[c] = "commitSave"
      PROVE  ListenerInv'
  <2>1. s \in Stages BY DEF Stages
  <2>2. QueueType' /\ stage' = [stage EXCEPT ![c] = s] /\ queue' = queue BY <2>1, <1>6, <1>t, GotoType
  <2>3. RoutesType' BY <1>4, <1>t DEF RoutesType
  <2>4. ListenerTypeOK' BY <2>2, <2>3, <1>2, <1>3, <1>t, TypePartsNext DEF CoreType, SyncType, LifeType, GhostType
  <2>5. stage'[c] = s BY <2>2, <1>t DEF QueueType
  <2>6. ConvInv(c)' BY <2>2, <2>5, <1>4, <1>6, <1>1 DEF ListenerInv, ConvInv, Message
  <2>7. \A d \in Conversations \ {c} : stage'[d] = stage[d] BY <2>2, <1>t DEF QueueType
  <2>8. Quiet' BY <1>1, BusyIsServing DEF Quiet
  <2> QED BY <2>2, <2>4, <2>6, <2>7, <2>8, <1>4, OneConversation
<1>7. CASE stage[c] = "routeSave"
  <2>1. Goto(c, "prompt") \/ Goto(c, "reply") BY <1>7
  <2> QED BY <2>1, <1>6
<1>8. CASE stage[c] # "routeSave"
  <2>1. (disk' = memory /\ Goto(c, "markRead")) \/ Abandon(c) BY <1>8
  <2> QED BY <2>1, <1>1, <1>5, <1>6, <1>8
<1> QED BY <1>7, <1>8

LEMMA ReplyInv ==
  ASSUME ListenerInv, NEW c \in Conversations, NEW ok \in BOOLEAN, Reply(c, ok)
  PROVE  ListenerInv'
<1> USE DEF Reply, core, routes, syncing, life
<1>t. CoreType /\ RoutesType /\ SyncType /\ QueueType /\ SessionType /\ LifeType /\ GhostType
  BY TypeParts DEF ListenerInv
<1>1. queue[c] # <<>> /\ c \notin saving BY DEF ListenerInv, ConvInv
<1>2. trouble' \in Nat BY <1>t, OutcomeType DEF GhostType
<1>3. SessionType' BY <1>t DEF SessionType
<1>4. CASE ~ok
  <2>1. Abandon(c) /\ UNCHANGED answered BY <1>4
  <2>2. unread' \in [Conversations -> Nat] BY <1>t DEF CoreType
  <2> QED BY <2>1, <2>2, <1>1, <1>2, <1>3, SettlesInv
<1>5. CASE ok
  <2>1. Goto(c, "commit") /\ answered' = [answered EXCEPT ![c] = @ \cup {Message(c)}] BY <1>5
  <2>2. QueueType' /\ stage' = [stage EXCEPT ![c] = "commit"] /\ queue' = queue
    <3>1. "commit" \in Stages BY DEF Stages
    <3> QED BY <3>1, <2>1, <1>t, GotoType
  <2>3. GhostType'
    <3>1. Message(c) \in Nat BY <1>1, <1>t, HeadType DEF ListenerInv
    <3>2. answered[c] \cup {Message(c)} \in SUBSET Nat BY <3>1, <1>t DEF GhostType
    <3> QED BY <3>2, <2>1, <1>2, <1>t DEF GhostType
  <2>4. ListenerTypeOK' BY <2>2, <2>3, <1>3, <1>t, TypePartsNext DEF CoreType, RoutesType, SyncType, LifeType
  <2>5. stage'[c] = "commit" /\ answered'[c] = answered[c] \cup {Message(c)}
    BY <2>1, <2>2, <1>t DEF QueueType, GhostType
  <2>6. ConvInv(c)' BY <2>2, <2>5, <1>1 DEF ListenerInv, ConvInv, Message
  <2>7. \A d \in Conversations \ {c} : stage'[d] = stage[d] /\ answered'[d] = answered[d]
    BY <2>1, <2>2, <1>t DEF QueueType, GhostType
  <2>8. Quiet' BY BusyIsServing DEF Quiet
  <2> QED BY <2>2, <2>4, <2>6, <2>7, <2>8, OneConversation
<1> QED BY <1>4, <1>5

\* Every step of a conversation's work.
LEMMA ProcessInv == ASSUME ListenerInv, NEW c \in Conversations, Process(c) PROVE ListenerInv'
<1>t. RoutesType /\ SessionType /\ GhostType /\ CoreType BY TypeParts DEF ListenerInv
<1>s. {"reply", "open", "route", "prompt"} \subseteq Stages BY DEF Stages
<1>w. stage[c] \notin {"routeSave", "commitSave"} => c \notin saving BY DEF ListenerInv, ConvInv
<1>1. CASE Begin(c) BY <1>1, BeginInv
<1>2. CASE SaveRoute(c)
  <2>1. memory[c].mark \in Nat BY <1>t DEF RoutesType, Route
  <2>2. memory[c].mark \in answered[c] \cup {None} /\ (memory[c].mark = None => disk[c].mark = None)
    BY <1>2, BusyIsServing DEF ListenerInv, ConvInv, SaveRoute
  <2> QED BY <2>1, <2>2, <1>2, WritesInv DEF SaveRoute
<1>3. CASE Commit(c)
  <2>1. queue[c] # <<>> /\ Message(c) \in answered[c] BY <1>3 DEF ListenerInv, ConvInv, Commit
  <2>2. Message(c) \in Nat /\ Message(c) # None
    <3>1. Message(c) \in 1 .. Len(inbox[c]) /\ Message(c) \in Nat
      BY <2>1, <1>t, HeadType DEF ListenerInv
    <3>2. Len(inbox[c]) \in Nat BY <1>t DEF CoreType
    <3> QED BY <3>1, <3>2 DEF None
  <2> QED BY <2>1, <2>2, <1>3, WritesInv DEF Commit
<1>4. CASE Prompt(c)
  <2>1. SessionType' /\ trouble' \in Nat BY <1>4, <1>t DEF Prompt, SessionType, GhostType
  <2> QED BY <2>1, <1>4, <1>s, <1>w, MovesInv DEF Prompt
<1>5. CASE \E ok \in BOOLEAN : Reset(c, ok)
  <2> PICK ok \in BOOLEAN : Reset(c, ok) BY <1>5
  <2>1. trouble' \in Nat BY <1>t, OutcomeType DEF Reset, GhostType
  <2>2. SessionType' BY <1>t DEF Reset, SessionType, None
  <2>3. CASE ok
    <3>1. Goto(c, "reply") \/ Goto(c, "open") BY <2>3 DEF Reset
    <3> QED BY <3>1, <2>1, <2>2, <1>s, <1>w, MovesInv DEF Reset
  <2>4. CASE ~ok
    <3>1. queue[c] # <<>> BY DEF ListenerInv, ConvInv, Reset
    <3>2. unread' \in [Conversations -> Nat] BY <1>t DEF CoreType, Reset, core
    <3> QED BY <3>1, <3>2, <2>1, <2>2, <2>4, <1>w, SettlesInv DEF Reset, core, routes
  <2> QED BY <2>3, <2>4
<1>6. CASE \E ok \in BOOLEAN : Open(c, ok)
  <2> PICK ok \in BOOLEAN : Open(c, ok) BY <1>6
  <2>1. trouble' \in Nat BY <1>t, OutcomeType DEF Open, GhostType
  <2>2. SessionType' BY <1>t DEF Open, SessionType
  <2>3. Goto(c, "route") \/ Goto(c, "reply") BY DEF Open
  <2> QED BY <2>1, <2>2, <2>3, <1>s, <1>w, MovesInv DEF Open
<1>7. CASE \E ok \in BOOLEAN : SaveSettles(c, ok) BY <1>7, SaveSettlesInv
<1>8. CASE \E ok \in BOOLEAN : Reply(c, ok) BY <1>8, ReplyInv
<1>9. CASE \E ok \in BOOLEAN : MarkRead(c, ok)
  <2> PICK ok \in BOOLEAN : MarkRead(c, ok) BY <1>9
  <2>1. trouble' \in Nat BY <1>t, OutcomeType DEF MarkRead, GhostType
  <2>2. SessionType' BY <1>t DEF MarkRead, SessionType
  <2>3. queue[c] # <<>> BY DEF ListenerInv, ConvInv, MarkRead
  <2>4. unread' \in [Conversations -> Nat] BY <1>t DEF MarkRead, CoreType
  <2> QED BY <2>1, <2>2, <2>3, <2>4, <1>w, SettlesInv DEF MarkRead, routes
<1> QED BY <1>1, <1>2, <1>3, <1>4, <1>5, <1>6, <1>7, <1>8, <1>9 DEF Process

-----------------------------------------------------------------------------
(* The whole. *)

LEMMA InitInv == ListenerInit => ListenerInv
<1> SUFFICES ASSUME ListenerInit PROVE ListenerInv OBVIOUS
<1> USE DEF ListenerInit
<1>1. NoRoute \in Route BY DEF NoRoute, Route, None
<1>2. <<>> \in Seq(AllKinds) /\ <<>> \in Seq(Nat) OBVIOUS
<1>3. "idle" \in Stages BY DEF Stages
<1>4. ListenerTypeOK BY <1>1, <1>2, <1>3 DEF ListenerTypeOK, None
<1>5. ASSUME NEW c \in Conversations PROVE ConvInv(c)
  <2>1. <<>> \in Seq(1 .. Len(inbox[c])) OBVIOUS
  <2> QED BY <2>1 DEF ConvInv, NoRoute
<1>6. Quiet BY DEF Quiet
<1> QED BY <1>4, <1>5, <1>6 DEF ListenerInv

\* A new process starts from what is on disk.
LEMMA FreshInv ==
  ASSUME ListenerInv, NEW ok \in BOOLEAN, Fresh(ok), trouble' \in Nat
  PROVE  ListenerInv'
<1> USE DEF Fresh, core
<1>t. CoreType /\ RoutesType /\ SyncType /\ QueueType /\ SessionType /\ LifeType /\ GhostType
  BY TypeParts DEF ListenerInv
<1>n. NoRoute \in Route /\ NoRoute.mark = None BY DEF NoRoute, Route, None
<1>1. RoutesType' BY <1>n, <1>t DEF RoutesType
<1>2. QueueType'
  <2>1. "idle" \in Stages /\ <<>> \in Seq(Nat) BY DEF Stages
  <2> QED BY <2>1 DEF QueueType
<1>3. SessionType' BY <1>t DEF SessionType, None
<1>4. ListenerTypeOK' BY <1>1, <1>2, <1>3, <1>t, TypePartsNext DEF CoreType, SyncType, LifeType, GhostType
<1>5. ASSUME NEW c \in Conversations PROVE ConvInv(c)'
  <2>1. <<>> \in Seq(1 .. Len(inbox'[c])) OBVIOUS
  <2>2. ConvInv(c) BY DEF ListenerInv
  <2>3. memory'[c] = disk[c] \/ (~loaded' /\ memory'[c].mark = None) BY <1>n
  <2> QED BY <2>1, <2>2, <2>3 DEF ConvInv
<1>6. Quiet' BY DEF Quiet
<1> QED BY <1>4, <1>5, <1>6 DEF ListenerInv

LEMMA StepInv == ListenerInv /\ [ListenerNext]_listenerVars => ListenerInv'
<1> SUFFICES ASSUME ListenerInv, [ListenerNext]_listenerVars PROVE ListenerInv' OBVIOUS
<1>t. CoreType /\ RoutesType /\ SyncType /\ QueueType /\ SessionType /\ LifeType /\ GhostType
  BY TypeParts DEF ListenerInv
<1>q. ~loaded => round = "idle" /\ reads = {} BY DEF ListenerInv, Quiet
<1>r. requested \in BOOLEAN BY <1>t DEF CoreType
<1>1. CASE \E c \in Conversations, kind \in Kinds : Arrive(c, kind) BY <1>1, ArriveInv
<1>0. CASE Synchronize
  <2>1. SyncType' /\ trouble' \in Nat BY <1>0, <1>t DEF Synchronize, syncing, SyncType, GhostType
  <2>2. ~loaded => round' = "idle" /\ reads' = {} BY <1>0, <1>q DEF Synchronize, syncing
  <2> QED BY <2>1, <2>2, <1>0, SyncKeeps DEF Synchronize, work
<1>2. CASE StartReconcile
  <2>1. SyncType' /\ trouble' \in Nat BY <1>2, <1>t DEF StartReconcile, SyncType, GhostType
  <2>2. ~loaded => round' = "idle" /\ reads' = {}
    BY <1>2, <1>q DEF StartReconcile
  <2> QED BY <2>1, <2>2, <1>2, SyncKeeps DEF StartReconcile, work
<1>3. CASE \E ok \in BOOLEAN : ListConversations(ok)
  <2> PICK ok \in BOOLEAN : ListConversations(ok) BY <1>3
  <2>1. trouble' \in Nat BY <1>t, OutcomeType DEF ListConversations, GhostType
  <2>2. ASSUME NEW c \in Conversations
        PROVE  [conv |-> c, unread |-> unread[c], mark |-> None, at |-> "route",
                current |-> TRUE] \in Read
    BY <1>t DEF CoreType, Read, None
  <2>3. SyncType' BY <2>2, <1>t DEF ListConversations, SyncType
  <2>4. loaded BY <1>q DEF ListConversations
  <2> QED BY <2>1, <2>3, <2>4, <1>r, SyncKeeps DEF ListConversations, core, work
<1>4. CASE \E r \in reads : ReadRoute(r)
  <2> PICK r \in reads : ReadRoute(r) BY <1>4
  <2>1. r \in Read BY <1>t DEF SyncType
  <2>2. memory[r.conv].mark \in Nat BY <2>1, <1>t DEF Read, RoutesType, Route
  <2>3. [r EXCEPT !.mark = memory[r.conv].mark, !.at = "history"] \in Read BY <2>1, <2>2 DEF Read
  <2>4. SyncType' /\ trouble' \in Nat BY <2>3, <1>t DEF ReadRoute, SyncType, GhostType
  <2>5. loaded BY <1>q
  <2> QED BY <2>4, <2>5, <1>r, SyncKeeps DEF ReadRoute, core, work
<1>5. CASE \E r \in reads, reachable \in BOOLEAN : HistoryAnswers(r, reachable)
  <2> PICK r \in reads, reachable \in BOOLEAN : HistoryAnswers(r, reachable) BY <1>5
  <2>1. r \in Read /\ r.conv \in Conversations BY <1>t DEF SyncType, Read
  <2>2. SyncType' BY <1>t DEF HistoryAnswers, SyncType
  <2>3. trouble' \in Nat BY <1>t, OutcomeType DEF HistoryAnswers, GhostType
  <2>6. loaded BY <1>q
  <2>4. CASE reachable
    <3>1. Candidates(r) \in SUBSET (1 .. Len(inbox[r.conv])) BY <2>1, <1>t, CandidatesType
    <3> QED BY <3>1, <2>1, <2>2, <2>3, <2>4, <2>6, EnqueueInv DEF HistoryAnswers
  <2>5. CASE ~reachable BY <2>2, <2>3, <2>5, <2>6, <1>r, SyncKeeps DEF HistoryAnswers, core
  <2> QED BY <2>4, <2>5
<1>6. CASE \E r \in reads : HistoryFails(r)
  <2> PICK r \in reads : HistoryFails(r) BY <1>6
  <2>1. ASSUME NEW s \in Read PROVE [s EXCEPT !.current = FALSE] \in Read BY DEF Read
  <2>2. SyncType' BY <2>1, <1>t DEF HistoryFails, SyncType
  <2>3. trouble' \in Nat BY <1>t DEF HistoryFails, Trouble, GhostType
  <2>4. loaded BY <1>q
  <2> QED BY <2>2, <2>3, <2>4, <1>r, SyncKeeps DEF HistoryFails, core, work
<1>7. CASE EndReconcile
  <2>1. SyncType' /\ trouble' \in Nat BY <1>7, <1>t DEF EndReconcile, SyncType, GhostType
  <2>2. ~loaded => round' = "idle" /\ reads' = {} BY <1>7, <1>q DEF EndReconcile
  <2> QED BY <2>1, <2>2, <1>7, <1>r, SyncKeeps DEF EndReconcile, core, work
<1>8. CASE \E c \in Conversations : Process(c) BY <1>8, ProcessInv
<1>9. CASE Stop
  <2> USE <1>9 DEF Stop, core, routes, syncing, work
  <2>1. ListenerTypeOK'
    BY <1>t, TypePartsNext DEF CoreType, RoutesType, SyncType, QueueType, SessionType, LifeType, GhostType
  <2>2. ASSUME NEW c \in Conversations PROVE ConvInv(c)' BY Frame DEF ListenerInv
  <2>3. Quiet' BY DEF ListenerInv, Quiet
  <2> QED BY <2>1, <2>2, <2>3 DEF ListenerInv
<1>10. CASE \E ok \in BOOLEAN : Release(ok)
  <2> PICK ok \in BOOLEAN : Release(ok) BY <1>10
  <2> USE DEF Release, core, routes, syncing, work
  <2>0. trouble' \in Nat BY <1>t, OutcomeType DEF GhostType
  <2>1. ListenerTypeOK'
    BY <2>0, <1>t, TypePartsNext DEF CoreType, RoutesType, SyncType, QueueType, SessionType, LifeType, GhostType
  <2>2. ASSUME NEW c \in Conversations PROVE ConvInv(c)' BY Frame DEF ListenerInv
  <2>3. Quiet' BY DEF ListenerInv, ConvInv, Quiet
  <2> QED BY <2>1, <2>2, <2>3 DEF ListenerInv
<1>11. CASE \E ok \in BOOLEAN : Crash(ok)
  <2>1. trouble' \in Nat BY <1>11, <1>t DEF Crash, Trouble, GhostType
  <2> QED BY <2>1, <1>11, FreshInv DEF Crash
<1>12. CASE \E ok \in BOOLEAN : Restart(ok)
  <2>1. trouble' \in Nat BY <1>12, <1>t, OutcomeType DEF Restart, GhostType
  <2> QED BY <2>1, <1>12, FreshInv DEF Restart
<1>13. CASE UNCHANGED listenerVars
  <2>1. SyncType' /\ trouble' \in Nat BY <1>13, <1>t DEF listenerVars, syncing, SyncType, GhostType
  <2>2. ~loaded => round' = "idle" /\ reads' = {} BY <1>13, <1>q DEF listenerVars, syncing
  <2> QED BY <2>1, <2>2, <1>13, <1>r, SyncKeeps DEF listenerVars, core, work
<1> QED
  BY <1>0, <1>1, <1>2, <1>3, <1>4, <1>5, <1>6, <1>7, <1>8, <1>9, <1>10, <1>11, <1>12, <1>13
  DEF ListenerNext, Reconcile

\* The invariant holds in every reachable state.
LEMMA ListenerInvariance == ListenerSpec => []ListenerInv
BY InitInv, StepInv, PTL DEF ListenerSpec

-----------------------------------------------------------------------------
\* The listener's state has its type, whatever fails and in whatever order it is answered.
THEOREM TypeCorrect == ListenerSpec => []ListenerTypeOK
<1>1. ListenerInv => ListenerTypeOK BY DEF ListenerInv
<1> QED BY <1>1, ListenerInvariance, PTL

\* A watermark, in memory or on disk, is only that of a message whose answer is complete
\* (listener.ts:430-513).
THEOREM MarkIsAnswered == ListenerSpec => []AnsweredBeforeMark
<1>1. ListenerInv => AnsweredBeforeMark BY DEF ListenerInv, ConvInv, AnsweredBeforeMark
<1> QED BY <1>1, ListenerInvariance, PTL

\* Once dispose() has returned nothing is processed or written, not even for a read that a
\* failed reconcile has left behind (listener.ts:300-331).
THEOREM ReleaseIsQuiet == ListenerSpec => []ReleasedIsQuiet
<1>1. ListenerInv => ReleasedIsQuiet BY DEF ListenerInv, Quiet, ReleasedIsQuiet
<1> QED BY <1>1, ListenerInvariance, PTL

\* Only markConversationRead() lowers a count, and it follows the write that succeeded.
LEMMA ReadStep ==
  ASSUME ListenerInv, [ListenerNext]_listenerVars, NEW c \in Conversations, unread'[c] < unread[c]
  PROVE  disk[c].mark = memory[c].mark
<1>t. unread \in [Conversations -> Nat] BY TypeParts DEF ListenerInv, CoreType
<1>0. ~(unread'[c] = unread[c]) BY <1>t
<1>1. CASE UNCHANGED unread BY <1>1, <1>0
<1>2. CASE \E d \in Conversations, kind \in Kinds : Arrive(d, kind)
  <2>1. unread'[c] = unread[c] \/ unread'[c] = unread[c] + 1 BY <1>2, <1>t DEF Arrive
  <2> QED BY <2>1, <1>t
<1>3. CASE \E d \in Conversations, ok \in BOOLEAN : MarkRead(d, ok)
  <2> PICK d \in Conversations, ok \in BOOLEAN : MarkRead(d, ok) BY <1>3
  <2>1. CASE d = c BY <2>1 DEF MarkRead, ListenerInv, ConvInv
  <2>2. CASE d # c
    <3>1. unread'[c] = unread[c] BY <2>2, <1>t DEF MarkRead
    <3> QED BY <3>1, <1>0
  <2> QED BY <2>1, <2>2
<1>4. ASSUME NEW d \in Conversations, Process(d), ~(\E ok \in BOOLEAN : MarkRead(d, ok))
      PROVE  UNCHANGED unread
  BY <1>4 DEF Process, Begin, SaveRoute, Commit, Prompt, Reset, Open, SaveSettles, Reply, core
<1>5. ASSUME Synchronize \/ StartReconcile \/ Reconcile PROVE UNCHANGED unread
  BY <1>5 DEF Synchronize, StartReconcile, Reconcile, ListConversations, ReadRoute, HistoryAnswers,
     HistoryFails, EndReconcile, core
<1>6. ASSUME \/ Stop \/ \E ok \in BOOLEAN : Release(ok) \/ Crash(ok) \/ Restart(ok)
             \/ UNCHANGED listenerVars
      PROVE  UNCHANGED unread
  BY <1>6 DEF Stop, Release, Crash, Restart, Fresh, core, listenerVars
<1> QED BY <1>1, <1>2, <1>3, <1>4, <1>5, <1>6 DEF ListenerNext

\* A crash never hides a message from the next reconcile: Core's count falls only when the
\* watermark is in the file (listener.ts:502-513).
THEOREM ReadIsDurable == ListenerSpec => ReadOnlyWhenDurable
<1> DEFINE A == \A c \in Conversations : unread'[c] < unread[c] => disk[c].mark = memory[c].mark
<1>1. ListenerInv /\ [ListenerNext]_listenerVars => A BY ReadStep
<1>2. A => [A]_listenerVars OBVIOUS
<1> HIDE DEF A
<1>3. ListenerSpec => [][A]_listenerVars BY <1>1, <1>2, ListenerInvariance, PTL DEF ListenerSpec
<1> QED BY <1>3 DEF A, ReadOnlyWhenDurable

-----------------------------------------------------------------------------
(***************************************************************************)
(* If Core commits no message while a reconcile runs, the watermark covers *)
(* a contiguous prefix of answered messages.  The argument has two sides:  *)
(* a schedule never contains a message whose predecessors are neither      *)
(* answered nor scheduled before it, and a read that knows no watermark    *)
(* starts at the first message, because the count of unread messages is    *)
(* only ever reset behind a watermark that is on disk.                     *)
(***************************************************************************)

\* Every message that precedes one of the schedule q is in A or earlier in q.
Covered(q, A) ==
  \A i \in 1 .. Len(q) : \A k \in 1 .. q[i] - 1 :
    k \in A \/ \E j \in 1 .. i - 1 : q[j] = k

-----------------------------------------------------------------------------
(* Schedules. *)

LEMMA CoveredMore ==
  ASSUME NEW q, NEW A, NEW B, A \subseteq B, Covered(q, A)
  PROVE  Covered(q, B)
BY DEF Covered

LEMMA CoveredEmpty == ASSUME NEW A PROVE Covered(<<>>, A)
BY DEF Covered

LEMMA CoveredHead ==
  ASSUME NEW q \in Seq(Nat), q # <<>>, NEW A, Covered(q, A)
  PROVE  1 .. Head(q) - 1 \subseteq A
<1>1. 1 \in 1 .. Len(q) /\ Head(q) = q[1] OBVIOUS
<1>2. \A k \in 1 .. q[1] - 1 : k \in A \/ \E j \in 1 .. 1 - 1 : q[j] = k BY <1>1 DEF Covered
<1>3. 1 .. 1 - 1 = {} OBVIOUS
<1> QED BY <1>1, <1>2, <1>3

LEMMA CoveredTail ==
  ASSUME NEW q \in Seq(Nat), q # <<>>, NEW A, Covered(q, A), Head(q) \in A
  PROVE  Covered(Tail(q), A)
<1>1. Len(Tail(q)) = Len(q) - 1 /\ \A i \in 1 .. Len(Tail(q)) : Tail(q)[i] = q[i + 1]
  BY HeadTailProperties
<1>2. Len(q) \in Nat /\ q[1] = Head(q) OBVIOUS
<1> SUFFICES ASSUME NEW i \in 1 .. Len(Tail(q)), NEW k \in 1 .. Tail(q)[i] - 1, k \notin A
             PROVE  \E j \in 1 .. i - 1 : Tail(q)[j] = k
  BY DEF Covered
<1>3. i + 1 \in 1 .. Len(q) /\ k \in 1 .. q[i + 1] - 1 BY <1>1, <1>2
<1>4. PICK j \in 1 .. (i + 1) - 1 : q[j] = k BY <1>3 DEF Covered
<1>5. j # 1 BY <1>2, <1>4
<1>6. j - 1 \in 1 .. i - 1 /\ j - 1 \in 1 .. Len(Tail(q)) BY <1>4, <1>5, <1>1, <1>2
<1>7. Tail(q)[j - 1] = q[(j - 1) + 1] /\ (j - 1) + 1 = j BY <1>6, <1>1, <1>4
<1> QED BY <1>4, <1>6, <1>7

\* A list in order has all members of the set.
LEMMA InOrderLists ==
  ASSUME NEW n \in Nat, NEW S \in SUBSET (1 .. n)
  PROVE  /\ InOrder(S) \in Seq(S)
         /\ Rising(InOrder(S))
         /\ \A k \in S : \E i \in 1 .. Len(InOrder(S)) : InOrder(S)[i] = k
<1>1. IsFiniteSet(S)
  <2>1. IsFiniteSet(1 .. n) BY FS_Interval
  <2> QED BY <2>1, FS_Subset
<1> DEFINE m == Cardinality(S)
           f == InOrder(S)
<1>2. m \in Nat BY <1>1, FS_CardinalityType
<1>3. f \in [1 .. m -> S] /\ Rising(f)
  <2>1. S \in SUBSET Nat OBVIOUS
  <2>2. \E g \in [1 .. m -> S] : Rising(g) BY <1>1, <2>1, ListableNat DEF RisingList
  <2> QED BY <2>2 DEF InOrder
<1> HIDE DEF f
<1>4. f \in Injection(1 .. m, S)
  <2>1. ASSUME NEW i \in 1 .. m, NEW j \in 1 .. m, f[i] = f[j] PROVE i = j
    <3>1. DOMAIN f = 1 .. m BY <1>3
    <3>2. f[i] \in Nat /\ f[j] \in Nat
      <4>1. f[i] \in S /\ f[j] \in S BY <1>3
      <4>2. \A x \in S : x \in Nat OBVIOUS
      <4> QED BY <4>1, <4>2
    <3>3. (i < j => f[i] < f[j]) /\ (j < i => f[j] < f[i]) BY <1>3, <3>1 DEF Rising
    <3> QED BY <1>2, <2>1, <3>2, <3>3
  <2>2. IsInjective(f) BY <2>1, <1>3 DEF IsInjective
  <2> QED BY <2>2, <1>3 DEF Injection
<1>5. IsFiniteSet(1 .. m) /\ Cardinality(1 .. m) = m BY <1>2, FS_Interval
<1>6. f \in Surjection(1 .. m, S) BY <1>4, <1>5, <1>1, FS_Injection
<1>7. \A k \in S : \E i \in 1 .. m : f[i] = k BY <1>6 DEF Surjection
<1>8. f \in Seq(S) /\ Len(f) = m BY <1>2, <1>3
<1> QED BY <1>3, <1>7, <1>8 DEF f

\* Scheduling a set that reaches down to what is answered or scheduled.
LEMMA CoveredConcat ==
  ASSUME NEW n \in Nat, NEW q \in Seq(1 .. n), NEW S \in SUBSET (1 .. n), NEW A, Covered(q, A),
         \A m \in S : \A k \in 1 .. m - 1 : k \in A \cup Range(q) \cup S
  PROVE  Covered(q \o InOrder(S), A)
<1> DEFINE f == InOrder(S)
           s == q \o f
<1>1. f \in Seq(S) /\ Rising(f) /\ (\A k \in S : \E i \in 1 .. Len(f) : f[i] = k)
  BY InOrderLists
<1>2. f \in Seq(1 .. n)
  <2>1. S \subseteq 1 .. n OBVIOUS
  <2> HIDE DEF f
  <2> QED BY <2>1, <1>1, SeqOfLarger
<1> HIDE DEF f
<1>3. /\ Len(s) = Len(q) + Len(f)
      /\ \A i \in 1 .. Len(q) + Len(f) : s[i] = IF i <= Len(q) THEN q[i] ELSE f[i - Len(q)]
  BY <1>2, ConcatProperties
<1>4. Len(q) \in Nat /\ Len(f) \in Nat BY <1>1
<1> SUFFICES ASSUME NEW i \in 1 .. Len(s), NEW k \in 1 .. s[i] - 1, k \notin A
             PROVE  \E j \in 1 .. i - 1 : s[j] = k
  BY DEF Covered, f
<1> HIDE DEF s
<1>5. CASE i <= Len(q)
  <2>1. i \in 1 .. Len(q) /\ s[i] = q[i] BY <1>3, <1>4, <1>5
  <2>2. PICK j \in 1 .. i - 1 : q[j] = k BY <2>1 DEF Covered
  <2>3. s[j] = q[j] BY <2>1, <1>3, <1>4
  <2> QED BY <2>2, <2>3
<1>6. CASE ~(i <= Len(q))
  <2>1. s[i] = f[i - Len(q)] /\ i - Len(q) \in 1 .. Len(f) BY <1>3, <1>4, <1>6
  <2>2. f[i - Len(q)] \in S BY <2>1, <1>1
  <2>3. k \in Range(q) \cup S BY <2>1, <2>2
  <2>4. CASE k \in Range(q)
    <3>1. PICK j \in 1 .. Len(q) : q[j] = k BY <2>4 DEF Range
    <3>2. j \in 1 .. i - 1 /\ s[j] = q[j] BY <1>3, <1>4, <1>6
    <3> QED BY <3>1, <3>2
  <2>5. CASE k \in S
    <3>1. PICK j \in 1 .. Len(f) : f[j] = k BY <2>5, <1>1
    <3>2. k \in Nat /\ k < f[i - Len(q)] /\ f[i - Len(q)] \in Nat
      <4>1. \A x \in S : x \in Nat OBVIOUS
      <4>2. f[i - Len(q)] \in Nat BY <2>2, <4>1
      <4>3. k \in 1 .. f[i - Len(q)] - 1 BY <2>1
      <4> QED BY <4>2, <4>3
    <3>3. DOMAIN f = 1 .. Len(f) BY <1>1
    <3>4. j < i - Len(q)
      <4>1. i - Len(q) < j => f[i - Len(q)] < f[j] BY <2>1, <3>3, <1>1 DEF Rising
      <4>2. i - Len(q) # j BY <3>1, <3>2
      <4>3. ~(i - Len(q) < j) BY <4>1, <3>1, <3>2
      <4> QED BY <4>2, <4>3, <2>1, <1>4
    <3>5. j + Len(q) \in 1 .. i - 1 /\ j + Len(q) \in 1 .. Len(q) + Len(f)
          /\ ~(j + Len(q) <= Len(q)) /\ (j + Len(q)) - Len(q) = j
      BY <3>4, <1>4, <2>1
    <3>6. s[j + Len(q)] = f[j] BY <3>5, <1>3
    <3> QED BY <3>1, <3>5, <3>6
  <2> QED BY <2>3, <2>4, <2>5
<1> QED BY <1>5, <1>6

-----------------------------------------------------------------------------
(* The inductive invariant. *)

\* Without a watermark nothing of conversation c has been marked as read; what its
\* watermarks cover is answered; so is what precedes the message in process(); and its
\* schedule leaves nothing out, unless the listener is stopped and skips it.
PrefixInv(c) ==
  /\ disk[c].mark = None => unread[c] = Len(inbox[c])
  /\ 1 .. memory[c].mark \subseteq answered[c]
  /\ 1 .. disk[c].mark \subseteq answered[c]
  /\ stage[c] # "idle" => 1 .. Message(c) - 1 \subseteq answered[c]
  /\ ~listenerStopped => Covered(queue[c], answered[c])

\* What a read knows: a watermark that is answered, or that nothing is.
ReadInv(r) ==
  /\ r.at = "route" /\ memory[r.conv].mark = None => r.unread = Len(inbox[r.conv])
  /\ r.at = "history" /\ r.mark = None => r.unread = Len(inbox[r.conv])
  /\ r.at = "history" => 1 .. r.mark \subseteq answered[r.conv]

PInv == ListenerInv /\ (\A c \in Conversations : PrefixInv(c)) /\ (\A r \in reads : ReadInv(r))

\* A conversation, and a read, that a step does not touch.
LEMMA PrefixFrame ==
  ASSUME NEW c \in Conversations, ConvInv(c), PrefixInv(c),
         inbox'[c] = inbox[c], unread'[c] = unread[c], queue'[c] = queue[c], stage'[c] = stage[c],
         memory'[c] = memory[c], disk'[c] \in {disk[c], memory[c]}, loaded \/ disk' = disk,
         answered[c] \subseteq answered'[c], listenerStopped => listenerStopped'
  PROVE  PrefixInv(c)'
<1>1. ~listenerStopped' => Covered(queue'[c], answered'[c]) BY CoveredMore DEF PrefixInv
<1> QED BY <1>1 DEF PrefixInv, ConvInv, Message

LEMMA ReadFrame ==
  ASSUME NEW r, ReadInv(r), inbox'[r.conv] = inbox[r.conv],
         memory'[r.conv].mark = None => memory[r.conv].mark = None,
         answered[r.conv] \subseteq answered'[r.conv]
  PROVE  ReadInv(r)'
BY DEF ReadInv

LEMMA PTypes ==
  ASSUME PInv
  PROVE  /\ CoreType /\ RoutesType /\ SyncType /\ QueueType /\ SessionType /\ LifeType /\ GhostType
         /\ \A r \in reads : r \in Read /\ r.conv \in Conversations
BY TypeParts DEF PInv, ListenerInv, SyncType, Read

\* A step of one conversation that leaves the reads alone.
LEMMA OnePrefix ==
  ASSUME PInv, ListenerInv', NEW c \in Conversations, PrefixInv(c)', inbox' = inbox, reads' = reads,
         memory'[c].mark = None => memory[c].mark = None,
         answered[c] \subseteq answered'[c], listenerStopped' = listenerStopped,
         loaded \/ disk' = disk,
         \A d \in Conversations \ {c} :
           /\ queue'[d] = queue[d] /\ stage'[d] = stage[d] /\ memory'[d] = memory[d]
           /\ disk'[d] \in {disk[d], memory[d]} /\ unread'[d] = unread[d]
           /\ answered'[d] = answered[d]
  PROVE  PInv'
<1>1. ASSUME NEW d \in Conversations PROVE PrefixInv(d)'
  <2>1. CASE d = c BY <2>1
  <2>2. CASE d # c BY <2>2, PrefixFrame DEF PInv, ListenerInv
  <2> QED BY <2>1, <2>2
<1>2. ASSUME NEW r \in reads PROVE ReadInv(r)'
  <2>1. r.conv \in Conversations /\ ReadInv(r) BY PTypes DEF PInv
  <2>2. CASE r.conv = c BY <2>1, <2>2, ReadFrame
  <2>3. CASE r.conv # c BY <2>1, <2>3, ReadFrame
  <2> QED BY <2>2, <2>3
<1> QED BY <1>1, <1>2 DEF PInv

\* A step that leaves the conversations alone, and makes reads that know what they should.
LEMMA ReadsPrefix ==
  ASSUME PInv, ListenerInv', \A r \in reads' : ReadInv(r),
         UNCHANGED <<inbox, unread, routes, queue, stage, answered, listenerStopped>>
  PROVE  PInv'
<1> USE DEF core, routes
<1>1. ASSUME NEW d \in Conversations PROVE PrefixInv(d)' BY PrefixFrame DEF PInv, ListenerInv
<1>2. ASSUME NEW r \in reads' PROVE ReadInv(r)' BY ReadFrame
<1> QED BY <1>1, <1>2 DEF PInv

-----------------------------------------------------------------------------
(* Steps of Core and of the reconcile. *)

LEMMA ArrivePrefix ==
  ASSUME PInv, ListenerInv', OverlappingSync = FALSE,
         NEW c \in Conversations, NEW kind \in Kinds, Arrive(c, kind)
  PROVE  PInv'
<1> USE DEF Arrive, routes, syncing, work, life
<1>t. CoreType BY PTypes
<1>1. reads' = {} BY DEF Arrive
<1>2. ASSUME NEW d \in Conversations PROVE PrefixInv(d)'
  <2>1. PrefixInv(d) /\ ConvInv(d) BY DEF PInv, ListenerInv
  <2>2. CASE d # c
    <3>1. inbox'[d] = inbox[d] /\ unread'[d] = unread[d] BY <2>2, <1>t DEF CoreType
    <3> QED BY <2>1, <3>1, PrefixFrame
  <2>3. CASE d = c
    <3>1. unread'[d] = unread[d] + 1 BY <2>3, <1>t DEF CoreType
    <3>2. Len(inbox'[d]) = Len(inbox[d]) + 1
      <4>1. kind \in AllKinds /\ inbox[d] \in Seq(AllKinds)
        BY <1>t, KindsAssumption DEF CoreType
      <4>2. inbox'[d] = Append(inbox[d], kind) BY <2>3, <1>t DEF CoreType
      <4> QED BY <4>1, <4>2, AppendProperties
    <3> QED BY <2>1, <3>1, <3>2 DEF PrefixInv, Message
  <2> QED BY <2>2, <2>3
<1> QED BY <1>1, <1>2 DEF PInv

LEMMA ListPrefix ==
  ASSUME PInv, ListenerInv', NEW ok \in BOOLEAN, ListConversations(ok)
  PROVE  PInv'
<1> USE DEF ListConversations, core, work, life
<1>0. loaded BY DEF PInv, ListenerInv, Quiet
<1> DEFINE R(c) == [conv |-> c, unread |-> unread[c], mark |-> None, at |-> "route",
                    current |-> TRUE]
<1>1. ASSUME NEW c \in Conversations PROVE ReadInv(R(c))
  <2>1. PrefixInv(c) /\ ConvInv(c) BY DEF PInv, ListenerInv
  <2> QED BY <2>1, <1>0 DEF PrefixInv, ConvInv, ReadInv
<1>2. \A r \in reads : ReadInv(r) BY DEF PInv
<1>3. \A r \in reads' : r \in reads \/ \E c \in Conversations : r = R(c) OBVIOUS
<1>4. \A r \in reads' : ReadInv(r) BY <1>1, <1>2, <1>3
<1> QED BY <1>4, ReadsPrefix

LEMMA RoutePrefix ==
  ASSUME PInv, ListenerInv', NEW r \in reads, ReadRoute(r)
  PROVE  PInv'
<1> USE DEF ReadRoute, core, work, life
<1> DEFINE h == [r EXCEPT !.mark = memory[r.conv].mark, !.at = "history"]
<1>1. r \in Read /\ r.conv \in Conversations /\ r.at = "route" /\ ReadInv(r) BY PTypes DEF PInv
<1>2. h.conv = r.conv /\ h.unread = r.unread /\ h.mark = memory[r.conv].mark /\ h.at = "history"
  BY <1>1 DEF Read
<1>3. ReadInv(h)
  <2>1. PrefixInv(r.conv) BY <1>1 DEF PInv
  <2> HIDE DEF h
  <2> QED BY <2>1, <1>1, <1>2 DEF PrefixInv, ReadInv
<1>4. \A s \in reads' : s \in reads \/ s = h OBVIOUS
<1>5. \A s \in reads' : ReadInv(s) BY <1>3, <1>4 DEF PInv
<1> QED BY <1>5, ReadsPrefix

LEMMA HistoryPrefix ==
  ASSUME PInv, ListenerInv', NEW r \in reads, HistoryAnswers(r, TRUE)
  PROVE  PInv'
<1> USE DEF HistoryAnswers, core, routes, life
<1> DEFINE c == r.conv
           n == Len(inbox[c])
           q == queue[c]
           S == Candidates(r) \ Range(q)
<1>t. CoreType /\ QueueType BY PTypes
<1>1. r \in Read /\ c \in Conversations /\ r.at = "history" /\ ReadInv(r) BY PTypes DEF PInv
<1>2. Candidates(r) \in SUBSET (1 .. n) /\ n \in Nat BY <1>1, <1>t, CandidatesType
<1>3. \A m \in Candidates(r) : \A k \in 1 .. m - 1 : k \in answered[c] \cup Candidates(r)
  <2>0. r.mark \in Nat /\ r.unread \in Nat BY <1>1 DEF Read
  <2>1. CASE r.mark # None
    <3>1. Candidates(r) = r.mark + 1 .. n BY <2>1 DEF Candidates
    <3>2. 1 .. r.mark \subseteq answered[c] BY <1>1 DEF ReadInv
    <3>3. \A m \in r.mark + 1 .. n : \A k \in 1 .. m - 1 : k \in 1 .. r.mark \/ k \in r.mark + 1 .. n
      BY <2>0, <1>2
    <3> QED BY <3>1, <3>2, <3>3
  <2>2. CASE r.mark = None
    <3>1. r.unread = n BY <2>2, <1>1 DEF ReadInv
    <3>2. Candidates(r) = n - n + 1 .. n BY <2>2, <3>1, <1>2 DEF Candidates
    <3>3. Candidates(r) = 1 .. n BY <3>2, <1>2
    <3>4. \A m \in 1 .. n : \A k \in 1 .. m - 1 : k \in 1 .. n BY <1>2
    <3> QED BY <3>3, <3>4
  <2> QED BY <2>1, <2>2
<1>4. \A m \in S : \A k \in 1 .. m - 1 : k \in answered[c] \cup Range(q) \cup S BY <1>3
<1>5. queue' = [queue EXCEPT ![c] = q \o InOrder(S)] BY DEF Enqueue
<1>6. queue'[c] = q \o InOrder(S) BY <1>5, <1>1, <1>t DEF QueueType
<1>7. PrefixInv(c) /\ ConvInv(c) BY <1>1 DEF PInv, ListenerInv
<1>8. ~listenerStopped => Covered(queue'[c], answered[c])
  <2> SUFFICES ASSUME ~listenerStopped PROVE Covered(queue'[c], answered[c]) OBVIOUS
  <2>1. q \in Seq(1 .. n) /\ Covered(q, answered[c]) BY <1>7 DEF PrefixInv, ConvInv
  <2>2. S \in SUBSET (1 .. n) BY <1>2
  <2> HIDE DEF S, q, n
  <2>3. Covered(q \o InOrder(S), answered[c]) BY <2>1, <2>2, <1>2, <1>4, CoveredConcat
  <2> QED BY <2>3, <1>6
<1>9. stage[c] # "idle" => Message(c)' = Message(c)
  <2> SUFFICES ASSUME stage[c] # "idle" PROVE Head(queue'[c]) = Head(q) BY DEF Message
  <2>1. q \in Seq(1 .. n) /\ q # <<>> BY <1>7 DEF ConvInv
  <2>2. S \in SUBSET (1 .. n) BY <1>2
  <2> HIDE DEF S, q, n
  <2>3. InOrder(S) \in Seq(1 .. n)
    <3>1. InOrder(S) \in Seq(S) BY <2>2, <1>2, InOrderType
    <3>2. S \subseteq 1 .. n BY <2>2
    <3> QED BY <3>1, <3>2, SeqOfLarger
  <2>4. Head(q \o InOrder(S)) = Head(q) BY <2>1, <2>3, HeadOfConcat
  <2> QED BY <2>4, <1>6
<1>10. PrefixInv(c)' BY <1>7, <1>8, <1>9 DEF PrefixInv
<1>11. ASSUME NEW d \in Conversations PROVE PrefixInv(d)'
  <2>1. CASE d = c BY <2>1, <1>10
  <2>2. CASE d # c
    <3>1. queue'[d] = queue[d] BY <2>2, <1>5, <1>t DEF QueueType
    <3> QED BY <3>1, PrefixFrame DEF PInv, ListenerInv
  <2> QED BY <2>1, <2>2
<1>12. ASSUME NEW s \in reads' PROVE ReadInv(s)'
  <2>1. ReadInv(s) BY DEF PInv
  <2> QED BY <2>1, ReadFrame
<1> QED BY <1>11, <1>12 DEF PInv

-----------------------------------------------------------------------------
(* Steps of process(). *)

\* The head's promise resolves: what follows stays covered if the head is answered.
LEMMA FinishPrefix ==
  ASSUME PInv, ListenerInv', NEW c \in Conversations, queue[c] # <<>>, Finish(c),
         ~listenerStopped => Message(c) \in answered[c],
         disk[c].mark = None => unread'[c] = unread[c],
         \A d \in Conversations \ {c} : unread'[d] = unread[d],
         UNCHANGED <<inbox, memory, disk, reads, listenerStopped, answered>>
  PROVE  PInv'
<1>t. QueueType BY PTypes
<1>1. queue' = [queue EXCEPT ![c] = Tail(@)] /\ stage' = [stage EXCEPT ![c] = "idle"] BY DEF Finish
<1>2. queue'[c] = Tail(queue[c]) /\ stage'[c] = "idle" BY <1>1, <1>t DEF QueueType
<1>3. PrefixInv(c) BY DEF PInv
<1>4. ~listenerStopped => Covered(Tail(queue[c]), answered[c])
  <2>1. queue[c] \in Seq(Nat) BY <1>t DEF QueueType
  <2> QED BY <2>1, <1>3, CoveredTail DEF PrefixInv, Message
<1>5. PrefixInv(c)' BY <1>2, <1>3, <1>4 DEF PrefixInv
<1>6. \A d \in Conversations \ {c} : stage'[d] = stage[d] /\ queue'[d] = queue[d]
  BY <1>1, <1>t DEF QueueType
<1> QED BY <1>5, <1>6, OnePrefix

\* It rejects: nothing is scheduled any more.
LEMMA AbandonPrefix ==
  ASSUME PInv, ListenerInv', NEW c \in Conversations, stage[c] # "idle", Abandon(c),
         disk' = disk \/ disk' = memory,
         UNCHANGED <<core, memory, reads, listenerStopped, answered>>
  PROVE  PInv'
<1> USE DEF core
<1>t. QueueType BY PTypes
<1>1. queue' = [queue EXCEPT ![c] = <<>>] /\ stage' = [stage EXCEPT ![c] = "idle"] BY DEF Abandon
<1>2. queue'[c] = <<>> /\ stage'[c] = "idle" BY <1>1, <1>t DEF QueueType
<1>0. loaded BY BusyIsServing DEF PInv
<1>3. PrefixInv(c)' BY <1>0, <1>2, CoveredEmpty DEF PInv, PrefixInv, ListenerInv, ConvInv
<1>4. \A d \in Conversations \ {c} : stage'[d] = stage[d] /\ queue'[d] = queue[d]
  BY <1>1, <1>t DEF QueueType
<1> QED BY <1>0, <1>3, <1>4, OnePrefix

\* The head moves on, perhaps with a write that settles.
LEMMA GotoPrefix ==
  ASSUME PInv, ListenerInv', NEW c \in Conversations, stage[c] # "idle", NEW s, Goto(c, s),
         disk' = disk \/ disk' = memory,
         answered[c] \subseteq answered'[c],
         \A d \in Conversations \ {c} : answered'[d] = answered[d],
         UNCHANGED <<core, memory, reads, listenerStopped>>
  PROVE  PInv'
<1> USE DEF core, Goto
<1>t. QueueType BY PTypes
<1>1. stage'[c] = s /\ \A d \in Conversations \ {c} : stage'[d] = stage[d] BY <1>t DEF QueueType
<1>2. ~listenerStopped => Covered(queue[c], answered'[c]) BY CoveredMore DEF PInv, PrefixInv
<1>0. loaded BY BusyIsServing DEF PInv
<1>3. PrefixInv(c)' BY <1>0, <1>1, <1>2 DEF PInv, PrefixInv, ListenerInv, ConvInv, Message
<1> QED BY <1>0, <1>1, <1>3, OnePrefix

LEMMA BeginPrefix ==
  ASSUME PInv, ListenerInv', NEW c \in Conversations, Begin(c)
  PROVE  PInv'
<1> USE DEF Begin, core, routes, syncing, life
<1>t. CoreType /\ QueueType /\ GhostType BY PTypes
<1>i. PrefixInv(c) /\ ConvInv(c) BY DEF PInv, ListenerInv
<1>m. Message(c) \in 1 .. Len(inbox[c]) /\ Message(c) \in Nat /\ Kind(c) \in AllKinds
  BY <1>i, <1>t, HeadType
<1>1. CASE listenerStopped \/ memory[c].mark = Message(c)
  <2>1. Finish(c) /\ UNCHANGED answered BY <1>1
  <2>2. ~listenerStopped => Message(c) \in answered[c]
    <3>1. Message(c) # None BY <1>m, <1>t DEF None, CoreType
    <3> QED BY <3>1, <1>1, <1>i DEF ConvInv
  <2> QED BY <2>1, <2>2, FinishPrefix
<1>2. CASE ~(listenerStopped \/ memory[c].mark = Message(c))
  <2> DEFINE s == FirstStage(Kind(c))
             A == IF Kind(c) = "ignored" THEN answered[c] \cup {Message(c)} ELSE answered[c]
  <2>1. Goto(c, s) /\ answered' = [answered EXCEPT ![c] =
                                     IF Kind(c) = "ignored" THEN @ \cup {Message(c)} ELSE @]
    BY <1>2
  <2>2. s \in {"commit", "reply", "reset", "open"} BY <1>m, FirstStageType
  <2> HIDE DEF s
  <2>3. stage'[c] = s /\ queue' = queue /\ \A d \in Conversations \ {c} : stage'[d] = stage[d]
    BY <2>1, <1>t DEF QueueType, Goto
  <2>4. answered'[c] = A /\ \A d \in Conversations \ {c} : answered'[d] = answered[d]
    BY <2>1, <1>t DEF GhostType
  <2>5. answered[c] \subseteq answered'[c] BY <2>4
  <2>6. Covered(queue[c], answered[c]) BY <1>2, <1>i DEF PrefixInv
  <2>7. 1 .. Message(c) - 1 \subseteq answered[c]
    <3>1. queue[c] \in Seq(Nat) BY <1>t DEF QueueType
    <3> QED BY <3>1, <2>6, CoveredHead DEF Message
  <2>8. PrefixInv(c)'
    <3>1. Covered(queue'[c], answered'[c]) BY <2>3, <2>5, <2>6, CoveredMore
    <3> QED BY <3>1, <2>2, <2>3, <2>5, <2>7, <1>i DEF PrefixInv, Message
  <2> QED BY <2>3, <2>4, <2>5, <2>8, OnePrefix
<1> QED BY <1>1, <1>2

LEMMA CommitPrefix ==
  ASSUME PInv, ListenerInv', NEW c \in Conversations, Commit(c)
  PROVE  PInv'
<1> USE DEF Commit, UpdateRoute, Goto, core, syncing, life
<1>t. CoreType /\ QueueType /\ RoutesType BY PTypes
<1>i. PrefixInv(c) /\ ConvInv(c) BY DEF PInv, ListenerInv
<1>m. Message(c) \in Nat /\ Message(c) # None BY <1>i, <1>t, HeadType DEF ConvInv, None
<1>1. memory'[c].mark = Message(c) /\ stage'[c] = "commitSave" BY <1>t DEF RoutesType, QueueType
<1>2. 1 .. Message(c) \subseteq answered[c]
  <2>1. 1 .. Message(c) - 1 \subseteq answered[c] /\ Message(c) \in answered[c]
    BY <1>i DEF PrefixInv, ConvInv
  <2>2. 1 .. Message(c) \subseteq (1 .. Message(c) - 1) \cup {Message(c)} BY <1>m
  <2> QED BY <2>1, <2>2
<1>3. PrefixInv(c)' BY <1>1, <1>2, <1>m, <1>i DEF PrefixInv, Message
<1>4. \A d \in Conversations \ {c} : stage'[d] = stage[d] /\ memory'[d] = memory[d]
  BY <1>t DEF QueueType, RoutesType
<1> QED BY <1>1, <1>3, <1>4, <1>m, OnePrefix

LEMMA SaveRoutePrefix ==
  ASSUME PInv, ListenerInv', NEW c \in Conversations, SaveRoute(c)
  PROVE  PInv'
<1> USE DEF SaveRoute, UpdateRoute, Goto, core, syncing, life
<1>t. QueueType /\ RoutesType BY PTypes
<1>1. memory'[c].mark = memory[c].mark /\ stage'[c] = "routeSave" BY <1>t DEF RoutesType, QueueType
<1>2. PrefixInv(c)' BY <1>1 DEF PInv, PrefixInv, Message
<1>3. \A d \in Conversations \ {c} : stage'[d] = stage[d] /\ memory'[d] = memory[d]
  BY <1>t DEF QueueType, RoutesType
<1> QED BY <1>1, <1>2, <1>3, OnePrefix

LEMMA ProcessPrefix ==
  ASSUME PInv, ListenerInv', NEW c \in Conversations, Process(c)
  PROVE  PInv'
<1> USE DEF core, routes, syncing, life
<1>t. GhostType BY PTypes
<1>i. PrefixInv(c) /\ ConvInv(c) BY DEF PInv, ListenerInv
<1>1. CASE Begin(c) BY <1>1, BeginPrefix
<1>2. CASE SaveRoute(c) BY <1>2, SaveRoutePrefix
<1>3. CASE Commit(c) BY <1>3, CommitPrefix
<1>4. CASE Prompt(c) BY <1>4, GotoPrefix DEF Prompt
<1>5. CASE \E ok \in BOOLEAN : Reset(c, ok)
  <2> PICK ok \in BOOLEAN : Reset(c, ok) BY <1>5
  <2>1. Goto(c, "reply") \/ Goto(c, "open") \/ Abandon(c) BY DEF Reset
  <2>2. CASE Abandon(c) BY <2>2, AbandonPrefix DEF Reset
  <2>3. CASE Goto(c, "reply") \/ Goto(c, "open") BY <2>3, GotoPrefix DEF Reset
  <2> QED BY <2>1, <2>2, <2>3
<1>6. CASE \E ok \in BOOLEAN : Open(c, ok)
  <2> PICK ok \in BOOLEAN : Open(c, ok) BY <1>6
  <2>1. Goto(c, "route") \/ Goto(c, "reply") BY DEF Open
  <2> QED BY <2>1, GotoPrefix DEF Open
<1>7. CASE \E ok \in BOOLEAN : SaveSettles(c, ok)
  <2> PICK ok \in BOOLEAN : SaveSettles(c, ok) BY <1>7
  <2>1. stage[c] \in {"routeSave", "commitSave"} BY <1>i DEF ConvInv, SaveSettles
  <2>2. CASE Abandon(c) BY <2>1, <2>2, AbandonPrefix DEF SaveSettles
  <2>3. CASE Goto(c, "prompt") \/ Goto(c, "reply") BY <2>1, <2>3, GotoPrefix DEF SaveSettles
  <2>4. CASE Goto(c, "markRead")
    BY <2>1, <2>4, GotoPrefix DEF SaveSettles
  <2> QED BY <2>1, <2>2, <2>3, <2>4 DEF SaveSettles
<1>8. CASE \E ok \in BOOLEAN : Reply(c, ok)
  <2> PICK ok \in BOOLEAN : Reply(c, ok) BY <1>8
  <2>1. CASE ok
    <3>1. Goto(c, "commit") /\ answered' = [answered EXCEPT ![c] = @ \cup {Message(c)}]
      BY <2>1 DEF Reply
    <3>2. answered[c] \subseteq answered'[c] /\ \A d \in Conversations \ {c} : answered'[d] = answered[d]
      BY <3>1, <1>t DEF GhostType
    <3> QED BY <3>1, <3>2, GotoPrefix DEF Reply
  <2>2. CASE ~ok BY <2>2, AbandonPrefix DEF Reply
  <2> QED BY <2>1, <2>2
<1>9. CASE \E ok \in BOOLEAN : MarkRead(c, ok)
  <2> PICK ok \in BOOLEAN : MarkRead(c, ok) BY <1>9
  <2>t. CoreType BY PTypes
  <2>1. queue[c] # <<>> /\ disk[c] = memory[c] /\ memory[c].mark = Message(c)
    BY <1>i DEF ConvInv, PrefixInv, MarkRead
  <2>2. Message(c) \in 1 .. Len(inbox[c]) /\ Message(c) \in Nat BY <2>1, <1>i, <2>t, HeadType
  <2>3. Message(c) # None BY <2>2, <2>t DEF CoreType, None
  <2>4. Message(c) \in answered[c] BY <2>1, <2>3, <1>i DEF ConvInv
  <2>5. \A d \in Conversations \ {c} : unread'[d] = unread[d] BY <2>t DEF MarkRead, CoreType
  <2> QED BY <2>1, <2>3, <2>4, <2>5, FinishPrefix DEF MarkRead
<1> QED BY <1>1, <1>2, <1>3, <1>4, <1>5, <1>6, <1>7, <1>8, <1>9 DEF Process

-----------------------------------------------------------------------------
(* The whole. *)

LEMMA PrefixInit == ListenerInit => PInv
<1> SUFFICES ASSUME ListenerInit PROVE PInv OBVIOUS
<1> USE DEF ListenerInit
<1>1. ASSUME NEW c \in Conversations PROVE PrefixInv(c)
  <2>1. 1 .. None = {} BY DEF None
  <2> QED BY <2>1, CoveredEmpty DEF PrefixInv, NoRoute
<1> QED BY <1>1, InitInv DEF PInv

LEMMA FreshPrefix ==
  ASSUME PInv, ListenerInv', NEW ok \in BOOLEAN, Fresh(ok)
  PROVE  PInv'
<1> USE DEF Fresh, core
<1>1. ASSUME NEW c \in Conversations PROVE PrefixInv(c)'
  <2>1. memory'[c].mark = disk[c].mark \/ 1 .. memory'[c].mark = {}
    BY DEF NoRoute, None
  <2> QED BY <2>1, CoveredEmpty DEF PInv, PrefixInv
<1> QED BY <1>1 DEF PInv

LEMMA PrefixStep == OverlappingSync = FALSE /\ PInv /\ [ListenerNext]_listenerVars => PInv'
<1> SUFFICES ASSUME OverlappingSync = FALSE, PInv, [ListenerNext]_listenerVars PROVE PInv' OBVIOUS
<1>i. ListenerInv' BY StepInv DEF PInv
<1>1. CASE \E c \in Conversations, kind \in Kinds : Arrive(c, kind) BY <1>1, <1>i, ArrivePrefix
<1>2. CASE Synchronize \/ StartReconcile
  BY <1>2, <1>i, ReadsPrefix DEF PInv, Synchronize, StartReconcile, syncing, work, life
<1>3. CASE \E ok \in BOOLEAN : ListConversations(ok) BY <1>3, <1>i, ListPrefix
<1>4. CASE \E r \in reads : ReadRoute(r) BY <1>4, <1>i, RoutePrefix
<1>5. CASE \E r \in reads, reachable \in BOOLEAN : HistoryAnswers(r, reachable)
  <2> PICK r \in reads, reachable \in BOOLEAN : HistoryAnswers(r, reachable) BY <1>5
  <2>1. CASE reachable
    <3>1. HistoryAnswers(r, TRUE) BY <2>1
    <3> QED BY <3>1, <1>i, HistoryPrefix
  <2>2. CASE ~reachable
    <3>1. \A s \in reads' : ReadInv(s) BY DEF PInv, HistoryAnswers
    <3> QED BY <3>1, <2>2, <1>i, ReadsPrefix DEF HistoryAnswers, core, life
  <2> QED BY <2>1, <2>2
<1>6. CASE \E r \in reads : HistoryFails(r)
  <2> PICK r \in reads : HistoryFails(r) BY <1>6
  <2>1. ASSUME NEW s \in reads PROVE ReadInv([s EXCEPT !.current = FALSE])
    <3>1. ReadInv(s) /\ s \in Read BY PTypes DEF PInv
    <3> QED BY <3>1 DEF ReadInv, Read
  <2>2. \A s \in reads' : ReadInv(s) BY <2>1 DEF HistoryFails
  <2> QED BY <2>2, <1>i, ReadsPrefix DEF HistoryFails, core, work, life
<1>7. CASE EndReconcile BY <1>7, <1>i, ReadsPrefix DEF PInv, EndReconcile, core, work, life
<1>8. CASE \E c \in Conversations : Process(c) BY <1>8, <1>i, ProcessPrefix
<1>9. CASE Stop \/ \E ok \in BOOLEAN : Release(ok)
  <2> USE <1>9 DEF Stop, Release, core, routes, syncing, work
  <2>1. ASSUME NEW c \in Conversations PROVE PrefixInv(c)' BY PrefixFrame DEF PInv, ListenerInv
  <2>2. ASSUME NEW r \in reads' PROVE ReadInv(r)' BY ReadFrame DEF PInv
  <2> QED BY <2>1, <2>2, <1>i DEF PInv
<1>10. CASE \E ok \in BOOLEAN : Crash(ok) BY <1>10, <1>i, FreshPrefix DEF Crash
<1>11. CASE \E ok \in BOOLEAN : Restart(ok) BY <1>11, <1>i, FreshPrefix DEF Restart
<1>12. CASE UNCHANGED listenerVars BY <1>12, <1>i, ReadsPrefix DEF PInv, listenerVars, core, syncing, work, life
<1> QED
  BY <1>1, <1>2, <1>3, <1>4, <1>5, <1>6, <1>7, <1>8, <1>9, <1>10, <1>11, <1>12
  DEF ListenerNext, Reconcile

-----------------------------------------------------------------------------
\* Every message behind a watermark, in memory or on disk, has been answered, through
\* failures, crashes and restarts, if Core commits no message while the history is read
\* (listener.ts:323-402).
THEOREM PrefixIsContinuous ==
  ASSUME OverlappingSync = FALSE
  PROVE  ListenerSpec => []ContinuousPrefix
<1>1. PInv /\ [ListenerNext]_listenerVars => PInv' BY PrefixStep
<1>2. PInv => ContinuousPrefix BY DEF PInv, PrefixInv, ContinuousPrefix
<1> QED BY <1>1, <1>2, PrefixInit, PTL DEF ListenerSpec

-----------------------------------------------------------------------------
(***************************************************************************)
(* The listener implements Mailbox.  What a step does to the mailbox       *)
(* follows from what the invariants say of the conversation it is about:   *)
(* an answer is about the head of its schedule, a write records what is in *)
(* memory, the count is reset behind a record, and all are steps of a      *)
(* listener that is not released.                                          *)
(***************************************************************************)

MailInv == ListenerInv /\ (OverlappingSync = FALSE => PInv)

LEMMA MailInvariance == ListenerSpec => []MailInv
<1>1. ListenerInit => MailInv BY InitInv, PrefixInit DEF MailInv
<1>2. MailInv /\ [ListenerNext]_listenerVars => MailInv' BY StepInv, PrefixStep DEF MailInv
<1> QED BY <1>1, <1>2, PTL DEF ListenerSpec

\* What a step leaves alone of the mailbox.
LEMMA SameRecord ==
  ASSUME UNCHANGED disk
  PROVE  [c \in Conversations |-> disk[c].mark]' = [c \in Conversations |-> disk[c].mark]
OBVIOUS

LEMMA SameReceived ==
  ASSUME UNCHANGED inbox
  PROVE  [c \in Conversations |-> Len(inbox[c])]' = [c \in Conversations |-> Len(inbox[c])]
OBVIOUS

LEMMA SameServing ==
  ASSUME UNCHANGED released
  PROVE  (~released)' = ~released
OBVIOUS

\* A step that neither Core nor the peer nor the file sees.
LEMMA Unseen ==
  ASSUME UNCHANGED <<inbox, unread, answered, disk, released>>
  PROVE  [Mail!Next]_(Mail!vars)
BY SameRecord, SameReceived, SameServing DEF Mail!vars

LEMMA ArriveMail ==
  ASSUME MailInv, NEW c \in Conversations, NEW kind \in Kinds, Arrive(c, kind)
  PROVE  [Mail!Next]_(Mail!vars)
<1> USE DEF Arrive, routes, life
<1>1. inbox \in [Conversations -> Seq(AllKinds)] BY TypeParts DEF MailInv, ListenerInv, CoreType
<1>2. \A d \in Conversations : Len(inbox'[d]) = IF d = c THEN Len(inbox[d]) + 1 ELSE Len(inbox[d])
  <2>1. inbox[c] \in Seq(AllKinds) /\ kind \in AllKinds BY <1>1, KindsAssumption
  <2>2. Len(Append(inbox[c], kind)) = Len(inbox[c]) + 1 BY <2>1
  <2> QED BY <1>1, <2>2
<1>3. [d \in Conversations |-> Len(inbox[d])]'
        = [[d \in Conversations |-> Len(inbox[d])] EXCEPT ![c] = @ + 1]
  BY <1>2
<1>4. Mail!Arrive(c) BY <1>3, SameRecord, SameServing DEF Mail!Arrive
<1> QED BY <1>4 DEF Mail!Next

\* An answer is of the head of the schedule, and all that precede the head are answered.
LEMMA AnswerMail ==
  ASSUME MailInv, NEW c \in Conversations, queue[c] # <<>>, ~released,
         stage[c] # "idle" \/ ~listenerStopped,
         answered' = [answered EXCEPT ![c] = @ \cup {Message(c)}],
         UNCHANGED <<inbox, unread, disk, released>>
  PROVE  [Mail!Next]_(Mail!vars)
<1>1. ConvInv(c) /\ CoreType /\ QueueType BY TypeParts DEF MailInv, ListenerInv
<1>2. Message(c) \in 1 .. Len(inbox[c]) BY <1>1, HeadType
<1>3. ASSUME OverlappingSync = FALSE PROVE 1 .. Message(c) - 1 \subseteq answered[c]
  <2>1. PrefixInv(c) BY <1>3 DEF MailInv, PInv
  <2>2. CASE stage[c] # "idle" BY <2>1, <2>2 DEF PrefixInv
  <2>3. CASE ~listenerStopped
    <3>1. queue[c] \in Seq(Nat) BY <1>1 DEF QueueType
    <3>2. Covered(queue[c], answered[c]) BY <2>1, <2>3 DEF PrefixInv
    <3> QED BY <3>1, <3>2, CoveredHead DEF Message
  <2> QED BY <2>2, <2>3
<1>4. Mail!Answer(c, Message(c))
  BY <1>3, SameRecord, SameReceived, SameServing, BoundsAssumption DEF Mail!Answer
<1>5. Message(c) \in 1 .. [d \in Conversations |-> Len(inbox[d])][c] BY <1>2
<1> QED BY <1>4, <1>5 DEF Mail!Next

\* A write that succeeds records the marks in memory, those of other conversations too.
LEMMA RecordMail ==
  ASSUME MailInv, ~released, loaded, disk' = memory, UNCHANGED <<inbox, unread, answered, released>>
  PROVE  [Mail!Next]_(Mail!vars)
<1> DEFINE old == [c \in Conversations |-> disk[c].mark]
           new == [c \in Conversations |-> disk'[c].mark]
<1>1. memory \in [Conversations -> Route] BY TypeParts DEF MailInv, ListenerInv, RoutesType
<1>2. new \in [Conversations -> Nat] BY <1>1 DEF Route
<1>3. ASSUME NEW c \in Conversations, new[c] # old[c]
      PROVE  /\ new[c] \in answered[c]
             /\ OverlappingSync = FALSE => 1 .. new[c] \subseteq answered[c]
  <2>1. ConvInv(c) /\ (OverlappingSync = FALSE => PrefixInv(c))
    BY DEF MailInv, ListenerInv, PInv
  <2>2. new[c] = memory[c].mark /\ old[c] = disk[c].mark OBVIOUS
  <2> QED BY <1>3, <2>1, <2>2 DEF ConvInv, PrefixInv
<1>4. [c \in Conversations |-> disk[c].mark]' = new OBVIOUS
<1> HIDE DEF new
<1>5. Mail!Record
  BY <1>2, <1>3, <1>4, SameReceived, SameServing, BoundsAssumption DEF Mail!Record
<1> QED BY <1>5 DEF Mail!Next

\* The count is reset behind the mark of the message that was processed.
LEMMA ReadMail ==
  ASSUME MailInv, NEW c \in Conversations, MarkRead(c, TRUE)
  PROVE  [Mail!Next]_(Mail!vars)
<1> USE DEF MarkRead, routes, life
<1>1. ConvInv(c) /\ CoreType /\ queue[c] # <<>> BY TypeParts DEF MailInv, ListenerInv, ConvInv
<1>2. ~released BY BusyIsServing DEF MailInv
<1>3. disk[c].mark = Message(c) BY <1>1 DEF ConvInv
<1>4. Message(c) # 0
  <2>1. Message(c) \in 1 .. Len(inbox[c]) BY <1>1, HeadType
  <2>2. Len(inbox[c]) \in Nat BY <1>1 DEF CoreType
  <2> QED BY <2>1, <2>2
<1>5. [d \in Conversations |-> disk[d].mark][c] # 0 BY <1>3, <1>4
<1>6. Mail!Read(c) BY <1>2, <1>5, SameRecord, SameReceived, SameServing DEF Mail!Read
<1> QED BY <1>6 DEF Mail!Next

\* Each step of process().
LEMMA ProcessMail ==
  ASSUME MailInv, NEW c \in Conversations, Process(c)
  PROVE  [Mail!Next]_(Mail!vars)
<1> USE DEF core, routes, life
<1>i. ListenerInv /\ GhostType /\ CoreType BY TypeParts DEF MailInv, ListenerInv
<1>1. CASE Begin(c)
  <2> USE <1>1 DEF Begin
  <2>1. CASE listenerStopped \/ memory[c].mark = Message(c) BY <2>1, Unseen
  <2>2. CASE ~(listenerStopped \/ memory[c].mark = Message(c))
    <3>1. ~released BY <2>2, <1>i DEF ListenerInv, Quiet
    <3>2. CASE Kind(c) = "ignored" BY <2>2, <3>1, <3>2, AnswerMail
    <3>3. CASE Kind(c) # "ignored"
      <4>1. answered' = answered BY <2>2, <3>3, <1>i DEF GhostType
      <4> QED BY <4>1, Unseen
    <3> QED BY <3>2, <3>3
  <2> QED BY <2>1, <2>2
<1>2. CASE SaveRoute(c) \/ Commit(c)
  BY <1>2, Unseen DEF SaveRoute, Commit, UpdateRoute
<1>3. CASE Prompt(c) BY <1>3, Unseen DEF Prompt
<1>4. CASE \E ok \in BOOLEAN : Reset(c, ok) \/ Open(c, ok) BY <1>4, Unseen DEF Reset, Open
<1>5. CASE \E ok \in BOOLEAN : SaveSettles(c, ok)
  <2> PICK ok \in BOOLEAN : SaveSettles(c, ok) BY <1>5
  <2>1. CASE ok
    <3>1. ~released /\ loaded BY <1>i, BusyIsServing DEF SaveSettles
    <3> QED BY <2>1, <3>1, RecordMail DEF SaveSettles
  <2>2. CASE ~ok
    <3>1. ~released /\ loaded BY <1>i, BusyIsServing DEF SaveSettles
    <3>2. CASE disk' = memory BY <3>1, <3>2, RecordMail DEF SaveSettles
    <3>3. CASE disk' = disk BY <3>3, Unseen DEF SaveSettles
    <3> QED BY <2>2, <3>2, <3>3 DEF SaveSettles
  <2> QED BY <2>1, <2>2
<1>6. CASE \E ok \in BOOLEAN : Reply(c, ok)
  <2> PICK ok \in BOOLEAN : Reply(c, ok) BY <1>6
  <2>1. CASE ok
    <3>1. stage[c] # "idle" BY DEF Reply
    <3>2. queue[c] # <<>> /\ ~released BY <3>1, <1>i, BusyIsServing DEF ListenerInv, ConvInv
    <3>3. answered' = [answered EXCEPT ![c] = @ \cup {Message(c)}] BY <2>1 DEF Reply
    <3> QED BY <3>1, <3>2, <3>3, AnswerMail DEF Reply
  <2>2. CASE ~ok BY <2>2, Unseen DEF Reply
  <2> QED BY <2>1, <2>2
<1>7. CASE \E ok \in BOOLEAN : MarkRead(c, ok)
  <2> PICK ok \in BOOLEAN : MarkRead(c, ok) BY <1>7
  <2>1. CASE ok
    <3>1. MarkRead(c, TRUE) BY <2>1
    <3> QED BY <3>1, ReadMail
  <2>2. CASE ~ok BY <2>2, Unseen DEF MarkRead
  <2> QED BY <2>1, <2>2
<1> QED BY <1>1, <1>2, <1>3, <1>4, <1>5, <1>6, <1>7 DEF Process

LEMMA StepMail == MailInv /\ [ListenerNext]_listenerVars => [Mail!Next]_(Mail!vars)
<1> SUFFICES ASSUME MailInv, [ListenerNext]_listenerVars PROVE [Mail!Next]_(Mail!vars) OBVIOUS
<1> USE DEF core, routes, life
<1>1. CASE \E c \in Conversations, kind \in Kinds : Arrive(c, kind) BY <1>1, ArriveMail
<1>2. CASE \E c \in Conversations : Process(c) BY <1>2, ProcessMail
<1>3. CASE Synchronize \/ StartReconcile \/ Reconcile
  BY <1>3, Unseen DEF Synchronize, StartReconcile, Reconcile, ListConversations, ReadRoute, HistoryAnswers,
     HistoryFails, EndReconcile
<1>4. CASE Stop BY <1>4, Unseen DEF Stop
<1>5. CASE \E ok \in BOOLEAN : Release(ok)
  <2>1. Mail!Retire BY <1>5, SameRecord, SameReceived DEF Release, Mail!Retire
  <2> QED BY <2>1 DEF Mail!Next
<1>6. CASE \E ok \in BOOLEAN : Crash(ok) \/ Restart(ok)
  <2>1. PICK ok \in BOOLEAN : Fresh(ok) BY <1>6 DEF Crash, Restart
  <2>2. Mail!Restart BY <2>1, SameRecord, SameReceived DEF Fresh, Mail!Restart
  <2> QED BY <2>2 DEF Mail!Next
<1>7. CASE UNCHANGED listenerVars BY <1>7, Unseen DEF listenerVars
<1> QED BY <1>1, <1>2, <1>3, <1>4, <1>5, <1>6, <1>7 DEF ListenerNext

\* The listener is a mailbox to the peer and to Core: it answers what has arrived, in order if
\* Core commits nothing while a reconcile runs, records only what it has answered, marks as read
\* only behind a record, and does nothing once released (listener.ts:291-513).
THEOREM ListenerIsMailbox == ListenerSpec => ImplementsMailbox
<1>1. ListenerInit => Mail!Init
  <2> SUFFICES ASSUME ListenerInit PROVE Mail!Init OBVIOUS
  <2>1. \A c \in Conversations : Len(inbox[c]) = 0 /\ disk[c].mark = 0
    BY DEF ListenerInit, NoRoute, None
  <2>2. [c \in Conversations |-> Len(inbox[c])] = [c \in Conversations |-> 0] BY <2>1
  <2>3. [c \in Conversations |-> disk[c].mark] = [c \in Conversations |-> 0] BY <2>1
  <2> QED BY <2>2, <2>3 DEF ListenerInit, Mail!Init
<1>2. MailInv /\ [ListenerNext]_listenerVars => [Mail!Next]_(Mail!vars) BY StepMail
<1> QED BY <1>1, <1>2, MailInvariance, PTL DEF ListenerSpec, ImplementsMailbox, Mail!Spec

===============================================================================
