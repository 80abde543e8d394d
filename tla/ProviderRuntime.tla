---------------------------- MODULE ProviderRuntime ----------------------------
(***************************************************************************)
(* The background runtime of one registered provider (src/index.ts):       *)
(* ensureProviderRuntime and stopProviderRuntime, which create and dispose *)
(* the realtime supervisor and the Agent consumer, and the replacement     *)
(* that follows an identity change.                                        *)
(*                                                                         *)
(* The generations realtimeGeneration and agentConsumerGeneration are only *)
(* ever compared for equality with a captured value, so a task carries     *)
(* fenced ("my generation has passed") in place of a number.  At most one  *)
(* of the startup and the slot is set, so one flag serves both.            *)
(* Continuations that follow each other without leaving the microtask      *)
(* queue are one step.                                                     *)
(*                                                                         *)
(* A consumer's dispose() may reject, and only once the consumer is quiet. *)
(* Promise.all then rejects the stop at once: what stopRealtimeSupervisor  *)
(* still does goes on in a place of its own, a stray.  The registry of     *)
(* workspaces is there throughout.                                         *)
(***************************************************************************)
EXTENDS Naturals, FiniteSets, FiniteSetsExt

CONSTANTS
  Dids,       \* the identities Core may hold, numbered by age
  Refreshes,  \* the refreshes of the update policy, which stop the runtime too
  Strays,     \* the supervisors' stops whose caller has gone on without them (their bound)
  Failures    \* may calls to the SDK, reads of the marker and disposals fail?

ASSUME DidsAssumption == Dids \subseteq Nat \ {0}
ASSUME FailuresAssumption == Failures \in BOOLEAN

\* A refresh is none of the names below: an owner of a stop, and the place a stop is at.
ASSUME RefreshesAssumption ==
  {"none", "mutation", "replacement", "startup", "dispose", "done", "failed", "ensure"}
    \cap Refreshes = {}

None == 0   \* undefined

\* The callers of stopProviderRuntime(): the serialized session operations (or the disposal
\* of the provider), replaceProviderRuntime(), and the update policy.
Owners == {"mutation", "replacement"} \cup Refreshes

ASSUME StraysAssumption == Strays \cap Owners = {}

Stops == Owners \cup Strays

VARIABLES
  identity,     \* Core: the default identity
  marker,       \* the file .host/signed-out exists
  signedOut,    \* this.signedOut: "unknown", "out", "in"
  activeDid,    \* this.activeIdentityDid
  restricted,   \* getUpdatePolicyStatus().restricted: nothing of the runtime may start
  realtime,     \* realtimeStartup, realtimeSupervisor, realtimeIdentityDid
  consumer,     \* agentConsumerStartup, agentConsumer, agentConsumerCleanup
  replacement,  \* runtimeReplacement: the identity it was started for
  stopping      \* the await each caller of stopProviderRuntime() is at, in both
                \* lanes; an owner's name: that owner's agentConsumerCleanup; and
                \* the await of each stray

account == <<identity, marker, signedOut, activeDid>>
runtime == <<realtime, consumer, replacement, stopping>>
runtimeVars == <<account, restricted, runtime>>

\* isSignedOut(): the marker file is read once, then cached.
IsSignedOut == IF signedOut # "unknown" THEN signedOut ELSE IF marker THEN "out" ELSE "in"

Did == Dids \cup {None}

RuntimeTypeOK ==
  /\ identity \in Did /\ activeDid \in Did
  /\ marker \in BOOLEAN /\ restricted \in BOOLEAN
  /\ signedOut \in {"unknown", "out", "in"}
  /\ realtime \in [startup : {"none", "marker", "identity"}, fenced : BOOLEAN, slot : Did]
  /\ consumer \in [startup : {"none", "detach", "reconcile"}, fenced : BOOLEAN,
                   did : Did, slot : Did, cleanup : Owners \cup {"ensure", "none"},
                   kept : BOOLEAN]   \* ghost: a rejected stop has left it in its slot
  /\ replacement \in Did
  /\ stopping \in [Stops -> [realtime : {"none", "startup", "dispose", "done"},
                             consumer : {"none", "startup", "dispose", "done", "failed"}
                                          \cup Owners]]

NoRealtime == [startup |-> "none", fenced |-> FALSE, slot |-> None]
StartingRealtime == [NoRealtime EXCEPT !.startup = "marker"]
NoConsumer == [startup |-> "none", fenced |-> FALSE, did |-> None, slot |-> None,
               cleanup |-> "none", kept |-> FALSE]
NotStopping == [o \in Stops |-> [realtime |-> "none", consumer |-> "none"]]

\* The process has started: openTenantProvider() has called
\* ensureProviderRuntime() with nothing cached.
FreshRuntime ==
  /\ signedOut = "unknown" /\ activeDid = None
  /\ realtime = IF restricted THEN NoRealtime ELSE StartingRealtime
  /\ consumer = NoConsumer /\ replacement = None /\ stopping = NotStopping

-----------------------------------------------------------------------------
(* Lanes of stopProviderRuntime(), as functions of the state they change.  *)

Lane(s, o, lane, at) == [s EXCEPT ![o][lane] = at]
Lanes(s, lane, at) == {o \in Stops : s[o][lane] = at}

\* Nobody waits for the end of a stray.
Over(o) == IF o \in Strays THEN "none" ELSE "done"

\* detachAgentConsumer() for the lanes os, whose waits are over: the first takes the
\* consumer, the others find the slot empty and return.
Detach(c, s, os) ==
  IF os = {} THEN {<<c, s>>}
  ELSE {<<IF c.slot = None THEN c ELSE [c EXCEPT !.slot = None, !.cleanup = o, !.kept = FALSE],
          [p \in Stops |-> IF p \notin os THEN s[p]
             ELSE [s[p] EXCEPT !.consumer = IF p = o /\ c.slot # None THEN "dispose"
                                             ELSE "done"]]>> : o \in os}

\* ... which first await agentConsumerCleanup.
AwaitCleanup(c, s, os) ==
  IF c.cleanup = "none" THEN Detach(c, s, os)
  ELSE {<<c, [p \in Stops |-> IF p \in os THEN [s[p] EXCEPT !.consumer = c.cleanup]
                               ELSE s[p]]>>}

\* The Agent consumer's startup is over: the lanes that waited for it go on.
ConsumerStarted(c, s) ==
  AwaitCleanup([c EXCEPT !.startup = "none"], s, Lanes(s, "consumer", "startup"))

\* The realtime startup is over: the first lane that waited for it takes the supervisor.
RealtimeStarted(r, s) ==
  LET os    == Lanes(s, "realtime", "startup")
      ended == [r EXCEPT !.startup = "none"]
  IN IF os = {} THEN {<<ended, s>>}
     ELSE {<<[ended EXCEPT !.slot = None],
             [p \in Stops |-> IF p \notin os THEN s[p]
                ELSE [s[p] EXCEPT !.realtime = IF p = o /\ r.slot # None THEN "dispose"
                                                ELSE Over(p)]]>> : o \in os}

\* stopProviderRuntime(): both lanes start together.
StopRealtime(r, s, o) ==
  <<[r EXCEPT !.fenced = TRUE, !.slot = IF r.startup = "none" THEN None ELSE @],
    Lane(s, o, "realtime", IF r.startup # "none" THEN "startup"
                           ELSE IF r.slot # None THEN "dispose" ELSE "done")>>

StopConsumer(c, s, o) ==
  LET fenced == [c EXCEPT !.fenced = TRUE]
  IN IF c.startup # "none" THEN {<<fenced, Lane(s, o, "consumer", "startup")>>}
     ELSE AwaitCleanup(fenced, s, {o})

BeginStop(o) ==
  \E next \in StopConsumer(consumer, StopRealtime(realtime, stopping, o)[2], o) :
    /\ realtime' = StopRealtime(realtime, stopping, o)[1]
    /\ consumer' = next[1] /\ stopping' = next[2]

Stopped(o) == stopping[o] = [realtime |-> "done", consumer |-> "done"]
Rejected(o) == stopping[o].consumer = "failed"

\* stopProviderRuntime() has returned: of the stops s, o's is over ...
StopReturns(s, o) ==
  /\ Stopped(o)
  /\ stopping' = [s EXCEPT ![o] = NotStopping[o]]

\* ... or rejects: its realtime lane, if it is not over, becomes a stray.
StopRejects(s, o) ==
  /\ Rejected(o)
  /\ \/ s[o].realtime = "done" /\ stopping' = [s EXCEPT ![o] = NotStopping[o]]
     \/ /\ s[o].realtime # "done"
        /\ \E x \in Strays :
             /\ s[x] = NotStopping[x]
             /\ stopping' = [s EXCEPT ![o] = NotStopping[o], ![x].realtime = s[o].realtime]

-----------------------------------------------------------------------------
(* ensureProviderRuntime(), with the values signedOut, activeDid and        *)
(* restricted have.                                                         *)

\* Mutant: the update policy is not asked.
EnsureRealtimeAlways(r, out, blocked) ==
  IF r.startup # "none" \/ r.slot # None \/ out = "out" THEN r
  ELSE [startup |-> IF out = "unknown" THEN "marker" ELSE "identity",
        fenced |-> FALSE, slot |-> None]

\* The slots in use by a supervisor or its startup are left alone.
EnsureRealtime(r, out, blocked) ==
  IF blocked \/ r.startup # "none" \/ r.slot # None \/ out = "out" THEN r
  ELSE [startup |-> IF out = "unknown" THEN "marker" ELSE "identity",
        fenced |-> FALSE, slot |-> None]

\* The consumer of another identity is detached first.
EnsureConsumer(c, did, blocked) ==
  IF blocked \/ did = None \/ c.slot = did \/ c.startup # "none" THEN c
  ELSE IF c.slot = None
  THEN [c EXCEPT !.startup = "reconcile", !.fenced = FALSE, !.did = did, !.slot = did,
                 !.kept = FALSE]
  ELSE [c EXCEPT !.startup = "detach", !.fenced = FALSE, !.did = did, !.slot = None,
                 !.cleanup = "ensure", !.kept = FALSE]

EnsureSlots(did, out, blocked) ==
  /\ realtime' = EnsureRealtime(realtime, out, blocked)
  /\ consumer' = EnsureConsumer(consumer, did, blocked)
  /\ UNCHANGED <<replacement, stopping>>

EnsureRuntime(did, out, blocked) ==
  \/ /\ replacement # None
     /\ UNCHANGED runtime
  \/ /\ replacement = None
     /\ {did, realtime.slot} \subseteq Dids /\ did # realtime.slot
     /\ BeginStop("replacement")
     /\ replacement' = did
  \/ /\ replacement = None
     /\ did = realtime.slot \/ None \in {did, realtime.slot}
     /\ EnsureSlots(did, out, blocked)

-----------------------------------------------------------------------------
(* The steps of the tasks.                                                  *)

\* ensureRealtimeSupervisor(): the marker is read and cached, or cannot be read.
StartupReadsMarker ==
  /\ realtime.startup = "marker"
  /\ \/ signedOut' = IsSignedOut \/ (Failures /\ UNCHANGED signedOut)
  /\ \E next \in IF signedOut' = "in" THEN {<<[realtime EXCEPT !.startup = "identity"], stopping>>}
                 ELSE RealtimeStarted(realtime, stopping) :
       realtime' = next[1] /\ stopping' = next[2]
  /\ UNCHANGED <<identity, marker, activeDid, restricted, consumer, replacement>>

\* Core answers with the identity: the supervisor and the Agent consumer start.
StartupOpens ==
  /\ realtime.startup = "identity"
  /\ identity # None /\ ~realtime.fenced
  /\ activeDid' = identity
  /\ \E next \in RealtimeStarted([realtime EXCEPT !.slot = identity], stopping) :
       realtime' = next[1] /\ stopping' = next[2]
  /\ consumer' = EnsureConsumer(consumer, identity, restricted)
  /\ UNCHANGED <<identity, marker, signedOut, restricted, replacement>>

\* There is no identity, the fence has passed, or the call fails.
StartupEnds ==
  /\ realtime.startup = "identity"
  /\ identity = None \/ realtime.fenced \/ Failures
  /\ \E next \in RealtimeStarted(realtime, stopping) :
       realtime' = next[1] /\ stopping' = next[2]
  /\ UNCHANGED <<account, restricted, consumer, replacement>>

\* ensureAgentConsumer(): the old consumer is disposed; is the fence still open?  A disposal
\* that rejects ends the startup.
ConsumerReplaces ==
  /\ consumer.startup = "detach"
  /\ LET cleaned == [consumer EXCEPT !.cleanup = IF @ = "ensure" THEN "none" ELSE @]
         open == consumer.did = activeDid /\ ~consumer.fenced
     IN \/ /\ open
           /\ consumer' = [cleaned EXCEPT !.startup = "reconcile", !.slot = consumer.did]
           /\ UNCHANGED stopping
        \/ /\ ~open \/ Failures
           /\ \E next \in ConsumerStarted(cleaned, stopping) :
                consumer' = next[1] /\ stopping' = next[2]
  /\ UNCHANGED <<account, restricted, realtime, replacement>>

\* Mutant: the startup is never taken off, and the lanes that wait for it stay.
ConsumerReadyUnseen ==
  /\ consumer.startup = "reconcile"
  /\ consumer' = [consumer EXCEPT !.startup = "none"]
  /\ UNCHANGED <<account, restricted, realtime, replacement, stopping>>

\* The first reconcile of the new consumer is over, with or without success.
ConsumerReady ==
  /\ consumer.startup = "reconcile"
  /\ \E next \in ConsumerStarted(consumer, stopping) :
       consumer' = next[1] /\ stopping' = next[2]
  /\ UNCHANGED <<account, restricted, realtime, replacement>>

\* The supervisor's dispose() is over.
SupervisorDisposed(o) ==
  /\ stopping[o].realtime = "dispose"
  /\ stopping' = Lane(stopping, o, "realtime", Over(o))
  /\ UNCHANGED <<account, restricted, realtime, consumer, replacement>>

\* The consumer's dispose() is over: the lanes that waited for it go on.
ConsumerDisposed(o) ==
  /\ stopping[o].consumer = "dispose"
  /\ \E next \in Detach([consumer EXCEPT !.cleanup = IF @ = o THEN "none" ELSE @],
                        Lane(stopping, o, "consumer", "done"), Lanes(stopping, "consumer", o)) :
       consumer' = next[1] /\ stopping' = next[2]
  /\ UNCHANGED <<account, restricted, realtime, replacement>>

\* ... or rejects, and so does every lane that waited for it, with the slot as it is.
ConsumerFails(o) ==
  /\ Failures /\ stopping[o].consumer = "dispose"
  /\ LET waiting == Lanes(stopping, "consumer", o)
     IN /\ consumer' = [consumer EXCEPT !.cleanup = IF @ = o THEN "none" ELSE @,
                                        !.kept = @ \/ (waiting # {} /\ consumer.slot # None)]
        /\ stopping' = [p \in Stops |->
             IF p \in waiting \cup {o} THEN [stopping[p] EXCEPT !.consumer = "failed"]
             ELSE stopping[p]]
  /\ UNCHANGED <<account, restricted, realtime, replacement>>

\* replaceProviderRuntime(): the old runtime is stopped, or the stop has rejected; the new
\* one starts.
Replaced ==
  /\ StopReturns(stopping, "replacement") \/ StopRejects(stopping, "replacement")
  /\ replacement' = None
  /\ realtime' = EnsureRealtime(realtime, signedOut, restricted)
  /\ consumer' = EnsureConsumer(consumer, activeDid, restricted)
  /\ UNCHANGED <<account, restricted>>

\* onRealtimeSynchronized(): the supervisor's callback asks for the consumer again.
Synchronized ==
  /\ realtime.slot # None /\ ~realtime.fenced
  /\ consumer' = EnsureConsumer(consumer, activeDid, restricted)
  /\ consumer' # consumer
  /\ UNCHANGED <<account, restricted, realtime, replacement, stopping>>

RealtimeTask == StartupReadsMarker \/ StartupOpens \/ StartupEnds
ConsumerTask == ConsumerReplaces \/ ConsumerReady

RuntimeStep ==
  \/ RealtimeTask \/ ConsumerTask
  \/ \E o \in Stops : SupervisorDisposed(o)
  \/ \E o \in Owners : ConsumerDisposed(o) \/ ConsumerFails(o)
  \/ Replaced \/ Synchronized

-----------------------------------------------------------------------------
(* What is running.                                                         *)

OpenSupervisors ==
  Cardinality(Lanes(stopping, "realtime", "dispose")) + (IF realtime.slot = None THEN 0 ELSE 1)

OpenConsumers ==
  Cardinality(Lanes(stopping, "consumer", "dispose"))
    + (IF consumer.slot = None THEN 0 ELSE 1) + (IF consumer.startup = "detach" THEN 1 ELSE 0)

\* Something of the runtime is in flight: a startup, a replacement, or a stop somebody awaits.
RuntimeBusy ==
  \/ realtime.startup # "none" \/ consumer.startup # "none"
  \/ replacement # None \/ stopping # NotStopping

\* ... and something of it goes on: a startup, a dispose(), or a replacement that has stopped.
RuntimeMoves ==
  \/ realtime.startup # "none" \/ consumer.startup # "none"
  \/ \E o \in Stops : "dispose" \in {stopping[o].realtime, stopping[o].consumer}
  \/ Stopped("replacement") \/ Rejected("replacement")

\* No task of the runtime is in flight, and a synchronization would start none.
RuntimeAtRest ==
  /\ realtime.slot = None \/ EnsureConsumer(consumer, activeDid, restricted) = consumer
  /\ realtime.startup = "none" /\ consumer.startup = "none"
  /\ replacement = None /\ stopping = NotStopping
=============================================================================
