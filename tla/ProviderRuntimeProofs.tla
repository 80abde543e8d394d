------------------------- MODULE ProviderRuntimeProofs -------------------------
(***************************************************************************)
(* The type of the runtime of the provider, through every operation that   *)
(* the session (HostSession) and the update policy (UpdatePolicy) make of  *)
(* it and every step of its own tasks.  One fact beyond the type is        *)
(* needed: a startup that replaces a consumer is the only one that cleans  *)
(* up on its own account, so that no stop ever waits for it by that name.  *)
(* Then what a stop leaves of the runtime, and that what it waits for is   *)
(* there and does not wait itself.                                         *)
(***************************************************************************)
EXTENDS ProviderRuntime, TLAPS

Realtime == [startup : {"none", "marker", "identity"}, fenced : BOOLEAN, slot : Did]
Consumer == [startup : {"none", "detach", "reconcile"}, fenced : BOOLEAN,
             did : Did, slot : Did, cleanup : Owners \cup {"ensure", "none"}, kept : BOOLEAN]
LanePair == [realtime : {"none", "startup", "dispose", "done"},
             consumer : {"none", "startup", "dispose", "done", "failed"} \cup Owners]
StrayPair == [realtime : {"none", "startup", "dispose"}, consumer : {"none"}]

\* A stray is what is left of a stop in the lane of the supervisor.
Strayed(s) == \A x \in Strays : s[x] \in StrayPair
Stopping == {s \in [Stops -> LanePair] : Strayed(s)}

\* Only the startup that detaches a consumer cleans up in the name of nobody.
CleanupShape(c) == c.cleanup \in Owners \cup {"none"} \/ c.startup = "detach"

RuntimeInv == RuntimeTypeOK /\ CleanupShape(consumer) /\ Strayed(stopping)

LEMMA RuntimeTypes ==
  RuntimeInv <=> /\ identity \in Did /\ activeDid \in Did
                 /\ marker \in BOOLEAN /\ restricted \in BOOLEAN
                 /\ signedOut \in {"unknown", "out", "in"}
                 /\ realtime \in Realtime
                 /\ consumer \in Consumer /\ CleanupShape(consumer)
                 /\ replacement \in Did
                 /\ stopping \in Stopping
BY DEF RuntimeInv, RuntimeTypeOK, Realtime, Consumer, Stopping, LanePair

-----------------------------------------------------------------------------
(* The lanes of a stop. *)

LEMMA NamesApart == {"none", "startup", "dispose", "done", "failed"} \cap Owners = {}
BY RefreshesAssumption DEF Owners

LEMMA StopLanes ==
  /\ \A o \in Owners : o \in Stops /\ o \notin Strays /\ Over(o) = "done"
  /\ \A x \in Strays : x \in Stops /\ Over(x) = "none"
  /\ \A p \in Stops : p \in Owners \/ p \in Strays
BY StraysAssumption DEF Stops, Over

LEMMA LaneTypes ==
  ASSUME NEW s \in Stopping, NEW o \in Owners
  PROVE  /\ s[o] \in LanePair
         /\ \A at \in {"none", "startup", "dispose", "done"} : Lane(s, o, "realtime", at) \in Stopping
         /\ \A at \in {"none", "startup", "dispose", "done", "failed"} \cup Owners :
              Lane(s, o, "consumer", at) \in Stopping
<1>1. s[o] \in LanePair /\ o \in Stops /\ o \notin Strays BY StopLanes DEF Stopping
<1>2. ASSUME NEW lane \in LanePair PROVE [s EXCEPT ![o] = lane] \in Stopping
  BY <1>1 DEF Stopping, Strayed, Stops
<1>3. ASSUME NEW at \in {"none", "startup", "dispose", "done"}
      PROVE  Lane(s, o, "realtime", at) \in Stopping
  <2>1. [s[o] EXCEPT !["realtime"] = at] \in LanePair BY <1>1 DEF LanePair
  <2> QED BY <1>2, <2>1 DEF Lane
<1>4. ASSUME NEW at \in {"none", "startup", "dispose", "done", "failed"} \cup Owners
      PROVE  Lane(s, o, "consumer", at) \in Stopping
  <2>1. [s[o] EXCEPT !["consumer"] = at] \in LanePair BY <1>1 DEF LanePair
  <2> QED BY <1>2, <2>1 DEF Lane
<1> QED BY <1>1, <1>3, <1>4

\* Only owners have a lane in which they wait for the consumer.
LEMMA ConsumerLanes ==
  ASSUME NEW s \in Stopping, NEW at, at # "none"
  PROVE  Lanes(s, "consumer", at) \in SUBSET Owners
BY StopLanes DEF Lanes, Stopping, Strayed, StrayPair

LEMMA DetachTypes ==
  ASSUME NEW c \in Consumer, CleanupShape(c), NEW s \in Stopping, NEW os \in SUBSET Owners,
         NEW next \in Detach(c, s, os)
  PROVE  next[1] \in Consumer /\ CleanupShape(next[1]) /\ next[2] \in Stopping
<1>1. CASE os = {} BY <1>1 DEF Detach
<1>2. CASE os # {}
  <2> DEFINE C(o) == IF c.slot = None THEN c ELSE [c EXCEPT !.slot = None, !.cleanup = o, !.kept = FALSE]
             L(o, p) == IF p \notin os THEN s[p]
                        ELSE [s[p] EXCEPT !.consumer = IF p = o /\ c.slot # None THEN "dispose"
                                                       ELSE "done"]
  <2>1. PICK o \in os : next = <<C(o), [p \in Stops |-> L(o, p)]>> BY <1>2 DEF Detach
  <2>2. C(o) \in Consumer /\ CleanupShape(C(o)) BY DEF Consumer, CleanupShape, Did
  <2>3. \A p \in Stops : L(o, p) \in LanePair /\ (p \in Strays => L(o, p) \in StrayPair)
    <3> SUFFICES ASSUME NEW p \in Stops
                 PROVE  L(o, p) \in LanePair /\ (p \in Strays => L(o, p) \in StrayPair)
      OBVIOUS
    <3>1. s[p] \in LanePair /\ (p \in Strays => s[p] \in StrayPair) BY DEF Stopping, Strayed
    <3>2. CASE p \notin os BY <3>1, <3>2
    <3>3. CASE p \in os
      <4>1. p \notin Strays BY <3>3, StopLanes
      <4> QED BY <3>1, <3>3, <4>1 DEF LanePair
    <3> QED BY <3>2, <3>3
  <2> HIDE DEF C, L
  <2>4. [p \in Stops |-> L(o, p)] \in Stopping BY <2>3 DEF Stopping, Strayed, Stops
  <2> QED BY <2>1, <2>2, <2>4
<1> QED BY <1>1, <1>2

LEMMA AwaitCleanupTypes ==
  ASSUME NEW c \in Consumer, c.cleanup \in Owners \cup {"none"}, NEW s \in Stopping,
         NEW os \in SUBSET Owners, NEW next \in AwaitCleanup(c, s, os)
  PROVE  next[1] \in Consumer /\ CleanupShape(next[1]) /\ next[2] \in Stopping
<1>1. CleanupShape(c) BY DEF CleanupShape
<1>2. CASE c.cleanup = "none" BY <1>1, <1>2, DetachTypes DEF AwaitCleanup
<1>3. CASE c.cleanup # "none"
  <2> DEFINE L(p) == IF p \in os THEN [s[p] EXCEPT !.consumer = c.cleanup] ELSE s[p]
  <2>1. next = <<c, [p \in Stops |-> L(p)]>> BY <1>3 DEF AwaitCleanup
  <2>2. \A p \in Stops : L(p) \in LanePair /\ (p \in Strays => L(p) \in StrayPair)
    <3> SUFFICES ASSUME NEW p \in Stops
                 PROVE  L(p) \in LanePair /\ (p \in Strays => L(p) \in StrayPair)
      OBVIOUS
    <3>1. s[p] \in LanePair /\ (p \in Strays => s[p] \in StrayPair) BY DEF Stopping, Strayed
    <3>2. CASE p \notin os BY <3>1, <3>2
    <3>3. CASE p \in os
      <4>1. p \notin Strays BY <3>3, StopLanes
      <4> QED BY <1>3, <3>1, <3>3, <4>1 DEF LanePair
    <3> QED BY <3>2, <3>3
  <2> HIDE DEF L
  <2>3. [p \in Stops |-> L(p)] \in Stopping BY <2>2 DEF Stopping, Strayed, Stops
  <2> QED BY <1>1, <2>1, <2>3
<1> QED BY <1>2, <1>3

LEMMA ConsumerStartedTypes ==
  ASSUME NEW c \in Consumer, c.cleanup \in Owners \cup {"none"}, NEW s \in Stopping,
         NEW next \in ConsumerStarted(c, s)
  PROVE  next[1] \in Consumer /\ CleanupShape(next[1]) /\ next[2] \in Stopping
<1> DEFINE ended == [c EXCEPT !.startup = "none"]
<1>1. ended \in Consumer /\ ended.cleanup = c.cleanup BY DEF Consumer
<1>2. Lanes(s, "consumer", "startup") \in SUBSET Owners BY ConsumerLanes
<1>3. next \in AwaitCleanup(ended, s, Lanes(s, "consumer", "startup")) BY DEF ConsumerStarted
<1> HIDE DEF ended
<1> QED BY <1>1, <1>2, <1>3, AwaitCleanupTypes

LEMMA RealtimeStartedTypes ==
  ASSUME NEW r \in Realtime, NEW s \in Stopping, NEW next \in RealtimeStarted(r, s)
  PROVE  next[1] \in Realtime /\ next[2] \in Stopping
<1> DEFINE os    == Lanes(s, "realtime", "startup")
           ended == [r EXCEPT !.startup = "none"]
<1>1. ended \in Realtime /\ [ended EXCEPT !.slot = None] \in Realtime BY DEF Realtime, Did
<1>2. CASE os = {} BY <1>1, <1>2 DEF RealtimeStarted
<1>3. CASE os # {}
  <2> DEFINE L(o, p) == IF p \notin os THEN s[p]
                        ELSE [s[p] EXCEPT !.realtime = IF p = o /\ r.slot # None THEN "dispose"
                                                       ELSE Over(p)]
  <2>1. PICK o \in os : next = <<[ended EXCEPT !.slot = None], [p \in Stops |-> L(o, p)]>>
    BY <1>3 DEF RealtimeStarted
  <2>2. \A p \in Stops : L(o, p) \in LanePair /\ (p \in Strays => L(o, p) \in StrayPair)
    <3> SUFFICES ASSUME NEW p \in Stops
                 PROVE  L(o, p) \in LanePair /\ (p \in Strays => L(o, p) \in StrayPair)
      OBVIOUS
    <3>1. s[p] \in LanePair /\ (p \in Strays => s[p] \in StrayPair) BY DEF Stopping, Strayed
    <3>2. Over(p) \in {"none", "done"} /\ (p \in Strays => Over(p) = "none") BY DEF Over
    <3> QED BY <3>1, <3>2 DEF LanePair, StrayPair
  <2> HIDE DEF L
  <2>3. [p \in Stops |-> L(o, p)] \in Stopping BY <2>2 DEF Stopping, Strayed, Stops
  <2> QED BY <1>1, <2>1, <2>3
<1> QED BY <1>2, <1>3

\* The end of a stop leaves the others as they are, or makes a stray.
LEMMA StopOverTypes ==
  ASSUME NEW s \in Stopping, NEW o \in Owners, StopReturns(s, o) \/ StopRejects(s, o)
  PROVE  /\ stopping' \in Stopping
         /\ stopping'[o] = [realtime |-> "none", consumer |-> "none"]
         /\ \A p \in Owners : p # o => stopping'[p] = s[p]
<1>1. s[o] \in LanePair /\ o \in Stops /\ o \notin Strays BY StopLanes DEF Stopping
<1>2. NotStopping[o] = [realtime |-> "none", consumer |-> "none"] BY <1>1 DEF NotStopping
<1>3. NotStopping[o] \in LanePair BY <1>2 DEF LanePair
<1>4. CASE stopping' = [s EXCEPT ![o] = NotStopping[o]]
  <2>1. stopping' \in Stopping BY <1>1, <1>3, <1>4 DEF Stopping, Strayed, Stops
  <2> QED BY <1>1, <1>2, <1>4, <2>1, StopLanes DEF Stopping
<1>5. CASE /\ s[o].realtime # "done"
           /\ \E x \in Strays :
                /\ s[x] = NotStopping[x]
                /\ stopping' = [s EXCEPT ![o] = NotStopping[o], ![x].realtime = s[o].realtime]
  <2>1. PICK x \in Strays :
          stopping' = [s EXCEPT ![o] = NotStopping[o], ![x].realtime = s[o].realtime]
    BY <1>5
  <2>2. x \in Stops /\ x # o /\ x \notin Owners BY <1>1, StopLanes, StraysAssumption
  <2>3. s[x] \in StrayPair BY DEF Stopping, Strayed
  <2> DEFINE left == [s[x] EXCEPT !.realtime = s[o].realtime]
  <2>4. left \in StrayPair /\ left \in LanePair
    BY <1>1, <1>5, <2>3 DEF StrayPair, LanePair
  <2>5. stopping' = [s EXCEPT ![o] = NotStopping[o], ![x] = left] BY <2>1, <2>2 DEF Stopping
  <2> HIDE DEF left
  <2>6. stopping' \in Stopping
    BY <1>1, <1>3, <2>2, <2>4, <2>5 DEF Stopping, Strayed, Stops
  <2> QED BY <1>1, <1>2, <2>2, <2>5, <2>6, StopLanes DEF Stopping
<1> QED BY <1>4, <1>5 DEF StopReturns, StopRejects

-----------------------------------------------------------------------------
(* The operations. *)

\* What an operation on the runtime leaves behind.
RuntimeTyped ==
  /\ realtime' \in Realtime /\ consumer' \in Consumer /\ CleanupShape(consumer')
  /\ replacement' \in Did /\ stopping' \in Stopping

LEMMA RuntimeTypesNext ==
  ASSUME RuntimeTyped,
         identity' \in Did, activeDid' \in Did, marker' \in BOOLEAN, restricted' \in BOOLEAN,
         signedOut' \in {"unknown", "out", "in"}
  PROVE  RuntimeInv'
BY DEF RuntimeTyped, RuntimeInv, RuntimeTypeOK, Realtime, Consumer, Stopping, LanePair

LEMMA BeginStopTypes ==
  ASSUME RuntimeInv, NEW o \in Owners, BeginStop(o)
  PROVE  /\ realtime' \in Realtime /\ consumer' \in Consumer /\ CleanupShape(consumer')
         /\ stopping' \in Stopping
<1> DEFINE R == StopRealtime(realtime, stopping, o)
<1>1. realtime \in Realtime /\ stopping \in Stopping BY RuntimeTypes
<1>2. consumer \in Consumer /\ CleanupShape(consumer) BY RuntimeTypes
<1>3. R[1] \in Realtime
  <2>1. R[1] = [realtime EXCEPT !.fenced = TRUE,
                                !.slot = IF realtime.startup = "none" THEN None ELSE @]
    BY DEF StopRealtime
  <2> QED BY <2>1, <1>1 DEF Realtime, Did
<1>4. R[2] \in Stopping
  <2>1. PICK at \in {"startup", "dispose", "done"} : R[2] = Lane(stopping, o, "realtime", at)
    BY DEF StopRealtime
  <2> QED BY <2>1, <1>1, LaneTypes
<1>5. PICK next \in StopConsumer(consumer, R[2], o) :
        realtime' = R[1] /\ consumer' = next[1] /\ stopping' = next[2]
  BY DEF BeginStop
<1> DEFINE fenced == [consumer EXCEPT !.fenced = TRUE]
<1>6. fenced \in Consumer /\ fenced.startup = consumer.startup /\ fenced.cleanup = consumer.cleanup
  BY <1>2 DEF Consumer
<1>7. CASE consumer.startup # "none"
  <2>1. next = <<fenced, Lane(R[2], o, "consumer", "startup")>> BY <1>5, <1>7 DEF StopConsumer
  <2>2. CleanupShape(fenced) BY <1>2, <1>6 DEF CleanupShape
  <2> HIDE DEF fenced, R
  <2> QED BY <1>3, <1>4, <1>5, <1>6, <2>1, <2>2, LaneTypes
<1>8. CASE consumer.startup = "none"
  <2>1. next \in AwaitCleanup(fenced, R[2], {o}) BY <1>5, <1>8 DEF StopConsumer
  <2>2. fenced.cleanup \in Owners \cup {"none"} BY <1>2, <1>6, <1>8 DEF CleanupShape
  <2> HIDE DEF fenced, R
  <2> QED BY <1>3, <1>4, <1>5, <1>6, <2>1, <2>2, AwaitCleanupTypes
<1> QED BY <1>7, <1>8

LEMMA EnsureTypes ==
  ASSUME RuntimeInv, NEW did \in Did, NEW out \in {"unknown", "out", "in"}, NEW blocked \in BOOLEAN
  PROVE  /\ EnsureRealtime(realtime, out, blocked) \in Realtime
         /\ EnsureConsumer(consumer, did, blocked) \in Consumer
         /\ CleanupShape(EnsureConsumer(consumer, did, blocked))
<1>1. realtime \in Realtime /\ consumer \in Consumer /\ CleanupShape(consumer) BY RuntimeTypes
<1>2. EnsureRealtime(realtime, out, blocked) \in Realtime
  BY <1>1 DEF EnsureRealtime, Realtime, Did
<1>3. EnsureConsumer(consumer, did, blocked) \in Consumer
  BY <1>1 DEF EnsureConsumer, Consumer, Did
<1>4. CleanupShape(EnsureConsumer(consumer, did, blocked))
  BY <1>1 DEF EnsureConsumer, Consumer, CleanupShape
<1> QED BY <1>2, <1>3, <1>4

LEMMA EnsureRuntimeTypes ==
  ASSUME RuntimeInv, NEW did \in Did, NEW out \in {"unknown", "out", "in"},
         NEW blocked \in BOOLEAN, EnsureRuntime(did, out, blocked)
  PROVE  RuntimeTyped
<1>1. CASE UNCHANGED runtime BY <1>1, RuntimeTypes DEF runtime, RuntimeTyped
<1>2. CASE BeginStop("replacement") /\ replacement' = did
  <2>1. "replacement" \in Owners BY DEF Owners
  <2> QED BY <1>2, <2>1, BeginStopTypes DEF RuntimeTyped
<1>3. CASE EnsureSlots(did, out, blocked)
  BY <1>3, EnsureTypes, RuntimeTypes DEF EnsureSlots, RuntimeTyped
<1> QED BY <1>1, <1>2, <1>3 DEF EnsureRuntime

-----------------------------------------------------------------------------
(* The steps of the tasks. *)

LEMMA RealtimeTaskTypes ==
  ASSUME RuntimeInv, RealtimeTask
  PROVE  RuntimeInv'
<1>1. /\ identity \in Did /\ realtime \in Realtime /\ stopping \in Stopping
      /\ marker \in BOOLEAN /\ signedOut \in {"unknown", "out", "in"} /\ restricted \in BOOLEAN
  BY RuntimeTypes
<1>2. CASE StartupReadsMarker
  <2>1. signedOut' \in {"unknown", "out", "in"} BY <1>1, <1>2 DEF StartupReadsMarker, IsSignedOut
  <2>2. realtime' \in Realtime /\ stopping' \in Stopping
    <3>1. CASE signedOut' # "in"
      <4>1. PICK next \in RealtimeStarted(realtime, stopping) :
              realtime' = next[1] /\ stopping' = next[2]
        BY <1>2, <3>1 DEF StartupReadsMarker
      <4> QED BY <4>1, <1>1, RealtimeStartedTypes
    <3>2. CASE signedOut' = "in"
      <4>1. realtime' = [realtime EXCEPT !.startup = "identity"] /\ stopping' = stopping
        BY <1>2, <3>2 DEF StartupReadsMarker
      <4> QED BY <4>1, <1>1 DEF Realtime
    <3> QED BY <3>1, <3>2
  <2>3. UNCHANGED <<identity, marker, activeDid, restricted, consumer, replacement>>
    BY <1>2 DEF StartupReadsMarker
  <2> QED BY <2>1, <2>2, <2>3, RuntimeTypes, RuntimeTypesNext DEF RuntimeTyped
<1>3. CASE StartupOpens
  <2> DEFINE opened == [realtime EXCEPT !.slot = identity]
  <2>1. opened \in Realtime BY <1>1 DEF Realtime
  <2>2. PICK next \in RealtimeStarted(opened, stopping) :
          realtime' = next[1] /\ stopping' = next[2]
    BY <1>3 DEF StartupOpens
  <2> HIDE DEF opened
  <2>3. realtime' \in Realtime /\ stopping' \in Stopping BY <2>1, <2>2, <1>1, RealtimeStartedTypes
  <2>4. /\ activeDid' = identity /\ consumer' = EnsureConsumer(consumer, identity, restricted)
        /\ UNCHANGED <<identity, marker, signedOut, restricted, replacement>>
    BY <1>3 DEF StartupOpens
  <2>5. consumer' \in Consumer /\ CleanupShape(consumer') BY <1>1, <2>4, EnsureTypes
  <2> QED BY <1>1, <2>3, <2>4, <2>5, RuntimeTypes, RuntimeTypesNext DEF RuntimeTyped
<1>4. CASE StartupEnds
  <2>1. PICK next \in RealtimeStarted(realtime, stopping) :
          realtime' = next[1] /\ stopping' = next[2]
    BY <1>4 DEF StartupEnds
  <2>2. realtime' \in Realtime /\ stopping' \in Stopping BY <2>1, <1>1, RealtimeStartedTypes
  <2>3. UNCHANGED <<account, restricted, consumer, replacement>> BY <1>4 DEF StartupEnds
  <2> QED BY <2>2, <2>3, RuntimeTypes, RuntimeTypesNext DEF account, RuntimeTyped
<1> QED BY <1>2, <1>3, <1>4 DEF RealtimeTask

LEMMA ConsumerTaskTypes ==
  ASSUME RuntimeInv, ConsumerTask
  PROVE  RuntimeInv'
<1>1. consumer \in Consumer /\ CleanupShape(consumer) /\ stopping \in Stopping /\ activeDid \in Did
  BY RuntimeTypes
<1>2. UNCHANGED <<account, restricted, realtime, replacement>>
  BY DEF ConsumerTask, ConsumerReplaces, ConsumerReady
<1> SUFFICES consumer' \in Consumer /\ CleanupShape(consumer') /\ stopping' \in Stopping
  BY <1>2, RuntimeTypes, RuntimeTypesNext DEF account, RuntimeTyped
<1>3. CASE ConsumerReplaces
  <2> DEFINE cleaned == [consumer EXCEPT !.cleanup = IF @ = "ensure" THEN "none" ELSE @]
  <2>1. cleaned \in Consumer /\ cleaned.cleanup \in Owners \cup {"none"}
    BY <1>1 DEF Consumer
  <2>2. \/ /\ consumer' = [cleaned EXCEPT !.startup = "reconcile", !.slot = consumer.did]
           /\ UNCHANGED stopping
        \/ \E next \in ConsumerStarted(cleaned, stopping) :
             consumer' = next[1] /\ stopping' = next[2]
    BY <1>3 DEF ConsumerReplaces
  <2>3. [cleaned EXCEPT !.startup = "reconcile", !.slot = consumer.did] \in Consumer
    BY <1>1, <2>1 DEF Consumer
  <2>4. CleanupShape([cleaned EXCEPT !.startup = "reconcile", !.slot = consumer.did])
    BY <2>1 DEF CleanupShape, Consumer
  <2> HIDE DEF cleaned
  <2> QED BY <1>1, <2>1, <2>2, <2>3, <2>4, ConsumerStartedTypes
<1>4. CASE ConsumerReady
  <2>1. consumer.cleanup \in Owners \cup {"none"} BY <1>1, <1>4 DEF ConsumerReady, CleanupShape
  <2>2. PICK next \in ConsumerStarted(consumer, stopping) :
          consumer' = next[1] /\ stopping' = next[2]
    BY <1>4 DEF ConsumerReady
  <2> QED BY <1>1, <2>1, <2>2, ConsumerStartedTypes
<1> QED BY <1>3, <1>4 DEF ConsumerTask

\* The lane of a stop is over, the consumer's lanes are as before.
LEMMA LaneOver ==
  ASSUME NEW s \in Stopping, NEW o \in Stops
  PROVE  /\ Lane(s, o, "realtime", Over(o)) \in Stopping
         /\ Lane(s, o, "realtime", Over(o))[o].realtime = Over(o)
         /\ \A p \in Stops : Lane(s, o, "realtime", Over(o))[p].consumer = s[p].consumer
         /\ \A p \in Stops : p # o => Lane(s, o, "realtime", Over(o))[p] = s[p]
<1> DEFINE left == [s[o] EXCEPT !.realtime = Over(o)]
<1>1. s[o] \in LanePair /\ (o \in Strays => s[o] \in StrayPair) BY DEF Stopping, Strayed
<1>2. Over(o) \in {"none", "done"} /\ (o \in Strays => Over(o) = "none") BY DEF Over
<1>3. /\ left \in LanePair /\ (o \in Strays => left \in StrayPair)
      /\ left.realtime = Over(o) /\ left.consumer = s[o].consumer
  BY <1>1, <1>2 DEF LanePair, StrayPair
<1>4. Lane(s, o, "realtime", Over(o)) = [s EXCEPT ![o] = left] BY DEF Lane, Stopping
<1> HIDE DEF left
<1> QED BY <1>3, <1>4 DEF Stopping, Strayed, Stops

LEMMA SupervisorDisposedTypes ==
  ASSUME RuntimeInv, NEW o \in Stops, SupervisorDisposed(o)
  PROVE  RuntimeInv'
<1>1. stopping \in Stopping BY RuntimeTypes
<1>2. stopping' \in Stopping BY <1>1, LaneOver DEF SupervisorDisposed
<1> QED BY <1>2, RuntimeTypes, RuntimeTypesNext DEF SupervisorDisposed, account, RuntimeTyped

LEMMA ConsumerDisposedTypes ==
  ASSUME RuntimeInv, NEW o \in Owners, ConsumerDisposed(o)
  PROVE  RuntimeInv'
<1> DEFINE cleaned == [consumer EXCEPT !.cleanup = IF @ = o THEN "none" ELSE @]
<1>1. consumer \in Consumer /\ CleanupShape(consumer) /\ stopping \in Stopping BY RuntimeTypes
<1>2. cleaned \in Consumer /\ CleanupShape(cleaned) BY <1>1 DEF Consumer, CleanupShape
<1>3. Lane(stopping, o, "consumer", "done") \in Stopping BY <1>1, LaneTypes
<1>4. Lanes(stopping, "consumer", o) \in SUBSET Owners BY <1>1, ConsumerLanes, NamesApart
<1>5. PICK next \in Detach(cleaned, Lane(stopping, o, "consumer", "done"),
                          Lanes(stopping, "consumer", o)) :
        consumer' = next[1] /\ stopping' = next[2]
  BY DEF ConsumerDisposed
<1> HIDE DEF cleaned
<1>6. consumer' \in Consumer /\ CleanupShape(consumer') /\ stopping' \in Stopping
  BY <1>2, <1>3, <1>4, <1>5, DetachTypes
<1> QED BY <1>6, RuntimeTypes, RuntimeTypesNext DEF ConsumerDisposed, account, RuntimeTyped

LEMMA ConsumerFailsTypes ==
  ASSUME RuntimeInv, NEW o \in Owners, ConsumerFails(o)
  PROVE  RuntimeInv'
<1> DEFINE waiting == Lanes(stopping, "consumer", o)
           left == [consumer EXCEPT !.cleanup = IF @ = o THEN "none" ELSE @,
                                    !.kept = @ \/ (waiting # {} /\ consumer.slot # None)]
           L(p) == IF p \in waiting \cup {o} THEN [stopping[p] EXCEPT !.consumer = "failed"]
                   ELSE stopping[p]
<1>1. consumer \in Consumer /\ CleanupShape(consumer) /\ stopping \in Stopping BY RuntimeTypes
<1>2. left \in Consumer /\ CleanupShape(left)
  <2> HIDE DEF waiting
  <2> QED BY <1>1 DEF Consumer, CleanupShape
<1>3. waiting \in SUBSET Owners BY <1>1, ConsumerLanes, NamesApart
<1>4. consumer' = left /\ stopping' = [p \in Stops |-> L(p)]
      /\ UNCHANGED <<account, restricted, realtime, replacement>>
  BY DEF ConsumerFails
<1> HIDE DEF waiting, left
<1>5. \A p \in Stops : L(p) \in LanePair /\ (p \in Strays => L(p) \in StrayPair)
  <2> SUFFICES ASSUME NEW p \in Stops
               PROVE  L(p) \in LanePair /\ (p \in Strays => L(p) \in StrayPair)
    OBVIOUS
  <2>1. stopping[p] \in LanePair /\ (p \in Strays => stopping[p] \in StrayPair)
    BY <1>1 DEF Stopping, Strayed
  <2>2. p \in Strays => p \notin waiting \cup {o} BY <1>3, StopLanes
  <2> QED BY <2>1, <2>2 DEF LanePair
<1> HIDE DEF L
<1>6. stopping' \in Stopping BY <1>4, <1>5 DEF Stopping, Strayed, Stops
<1> QED BY <1>2, <1>4, <1>6, RuntimeTypes, RuntimeTypesNext DEF account, RuntimeTyped

LEMMA ReplacedTypes ==
  ASSUME RuntimeInv, Replaced
  PROVE  RuntimeInv'
<1>1. /\ replacement' = None /\ None \in Did /\ "replacement" \in Owners
      /\ realtime' = EnsureRealtime(realtime, signedOut, restricted)
      /\ consumer' = EnsureConsumer(consumer, activeDid, restricted)
      /\ UNCHANGED <<account, restricted>>
  BY DEF Replaced, Did, Owners
<1>2. stopping \in Stopping BY RuntimeTypes
<1>3. stopping' \in Stopping BY <1>1, <1>2, StopOverTypes DEF Replaced
<1> QED BY <1>1, <1>3, EnsureTypes, RuntimeTypes, RuntimeTypesNext DEF account, RuntimeTyped

LEMMA SynchronizedTypes ==
  ASSUME RuntimeInv, Synchronized
  PROVE  RuntimeInv'
<1>1. /\ consumer' = EnsureConsumer(consumer, activeDid, restricted)
      /\ UNCHANGED <<account, restricted, realtime, replacement, stopping>>
  BY DEF Synchronized
<1> QED BY <1>1, EnsureTypes, RuntimeTypes, RuntimeTypesNext DEF account, RuntimeTyped

LEMMA RuntimeStepTypes ==
  ASSUME RuntimeInv, RuntimeStep
  PROVE  RuntimeInv'
BY RealtimeTaskTypes, ConsumerTaskTypes, SupervisorDisposedTypes, ConsumerDisposedTypes,
   ConsumerFailsTypes, ReplacedTypes, SynchronizedTypes DEF RuntimeStep

\* What the runtime is when the process starts.
LEMMA FreshTypes ==
  /\ NoRealtime \in Realtime /\ StartingRealtime \in Realtime
  /\ NoConsumer \in Consumer /\ CleanupShape(NoConsumer)
  /\ NotStopping \in Stopping /\ None \in Did
BY DEF NoRealtime, StartingRealtime, NoConsumer, NotStopping, Realtime, Consumer, Stopping, LanePair,
       StrayPair, Strayed, Stops, CleanupShape, Did

-----------------------------------------------------------------------------
(* A stop, once begun, empties the runtime, as long as nothing is started. *)

\* A supervisor and a startup of one are never both there.
OneStartup == realtime.startup # "none" => realtime.slot = None

\* What is left of a runtime that is being stopped: startups that are fenced, and a consumer
\* that somebody waits to take, or that a rejected stop has left in its slot.
Waiting == {"startup"} \cup Owners
RealtimeHalts(r) == r.slot = None /\ (r.startup # "none" => r.fenced)
ConsumerHalts(c, s) ==
  /\ c.startup = "detach" => c.fenced
  /\ c.slot # None => c.kept \/ \E o \in Owners : s[o].consumer \in Waiting
Halts == RealtimeHalts(realtime) /\ ConsumerHalts(consumer, stopping)

\* Lanes that detach take the consumer.
LEMMA DetachHalts ==
  ASSUME NEW c \in Consumer, NEW s \in Stopping, NEW os \in SUBSET Owners, os # {},
         NEW next \in Detach(c, s, os)
  PROVE  next[1].slot = None /\ next[1].startup = c.startup /\ next[1].fenced = c.fenced
<1> DEFINE C(o) == IF c.slot = None THEN c ELSE [c EXCEPT !.slot = None, !.cleanup = o, !.kept = FALSE]
           L(o, p) == IF p \notin os THEN s[p]
                      ELSE [s[p] EXCEPT !.consumer = IF p = o /\ c.slot # None THEN "dispose"
                                                     ELSE "done"]
<1>1. PICK o \in os : next = <<C(o), [p \in Stops |-> L(o, p)]>> BY DEF Detach
<1>2. C(o).slot = None /\ C(o).startup = c.startup /\ C(o).fenced = c.fenced BY DEF Consumer
<1> HIDE DEF C, L
<1> QED BY <1>1, <1>2

\* Lanes that first await a cleanup take it, or wait for that.
LEMMA AwaitCleanupHalts ==
  ASSUME NEW c \in Consumer, c.cleanup \in Owners \cup {"none"}, NEW s \in Stopping,
         NEW os \in SUBSET Owners, os # {}, NEW next \in AwaitCleanup(c, s, os),
         c.startup = "detach" => c.fenced
  PROVE  ConsumerHalts(next[1], next[2])
<1>1. CASE c.cleanup = "none" BY <1>1, DetachHalts DEF AwaitCleanup, ConsumerHalts
<1>2. CASE c.cleanup # "none"
  <2> DEFINE L(p) == IF p \in os THEN [s[p] EXCEPT !.consumer = c.cleanup] ELSE s[p]
  <2>1. next = <<c, [p \in Stops |-> L(p)]>> BY <1>2 DEF AwaitCleanup
  <2>2. PICK o \in os : o \in Owners OBVIOUS
  <2>3. s[o] \in LanePair BY LaneTypes
  <2>4. L(o).consumer \in Owners BY <1>2, <2>2, <2>3 DEF LanePair
  <2> HIDE DEF L
  <2>5. next[1] = c /\ next[2][o].consumer \in Waiting BY <2>1, <2>2, <2>4, StopLanes DEF Waiting
  <2> QED BY <2>2, <2>5 DEF ConsumerHalts
<1> QED BY <1>1, <1>2

\* The end of a startup hands the consumer to those that wait for it.
LEMMA ConsumerStartedHalts ==
  ASSUME NEW c \in Consumer, c.cleanup \in Owners \cup {"none"}, NEW s \in Stopping,
         ConsumerHalts(c, s), NEW next \in ConsumerStarted(c, s)
  PROVE  ConsumerHalts(next[1], next[2])
<1> DEFINE ended == [c EXCEPT !.startup = "none"]
           os == Lanes(s, "consumer", "startup")
<1>1. /\ ended \in Consumer /\ ended.cleanup = c.cleanup /\ ended.startup = "none"
      /\ ended.slot = c.slot /\ ended.kept = c.kept
  BY DEF Consumer
<1>2. os \in SUBSET Owners BY ConsumerLanes
<1>3. next \in AwaitCleanup(ended, s, os) BY DEF ConsumerStarted
<1> HIDE DEF ended, os
<1>4. CASE os # {} BY <1>1, <1>2, <1>3, <1>4, AwaitCleanupHalts
<1>5. CASE os = {}
  <2>1. next[1] = ended /\ next[2] = s
    <3>1. CASE ended.cleanup = "none" BY <1>3, <1>5, <3>1 DEF AwaitCleanup, Detach
    <3>2. CASE ended.cleanup # "none"
      <4>1. next = <<ended, [p \in Stops |-> s[p]]>> BY <1>3, <1>5, <3>2 DEF AwaitCleanup
      <4>2. s = [p \in Stops |-> s[p]] BY DEF Stopping
      <4> QED BY <4>1, <4>2
    <3> QED BY <3>1, <3>2
  <2> QED BY <1>1, <2>1 DEF ConsumerHalts
<1> QED BY <1>4, <1>5

\* The end of a startup leaves no supervisor if it made none.
LEMMA RealtimeStartedHalts ==
  ASSUME NEW r \in Realtime, NEW s \in Stopping, NEW next \in RealtimeStarted(r, s)
  PROVE  /\ next[1].startup = "none" /\ (r.slot = None => next[1].slot = None)
         /\ \A p \in Stops : next[2][p].consumer = s[p].consumer
<1> DEFINE os    == Lanes(s, "realtime", "startup")
           ended == [r EXCEPT !.startup = "none"]
<1>1. ended.startup = "none" /\ ended.slot = r.slot /\ ended \in Realtime BY DEF Realtime
<1>2. CASE os = {}
  <2>1. next = <<ended, s>> BY <1>2 DEF RealtimeStarted
  <2> HIDE DEF ended
  <2> QED BY <1>1, <2>1
<1>3. CASE os # {}
  <2> DEFINE L(o, p) == IF p \notin os THEN s[p]
                        ELSE [s[p] EXCEPT !.realtime = IF p = o /\ r.slot # None THEN "dispose"
                                                       ELSE Over(p)]
             taken == [ended EXCEPT !.slot = None]
  <2>1. PICK o \in os : next = <<taken, [p \in Stops |-> L(o, p)]>> BY <1>3 DEF RealtimeStarted
  <2>2. taken.startup = "none" /\ taken.slot = None BY <1>1 DEF Realtime
  <2>3. \A p \in Stops : L(o, p).consumer = s[p].consumer
    <3> SUFFICES ASSUME NEW p \in Stops PROVE L(o, p).consumer = s[p].consumer OBVIOUS
    <3>1. s[p] \in LanePair BY DEF Stopping
    <3> QED BY <3>1 DEF LanePair
  <2> HIDE DEF L, taken
  <2> QED BY <2>1, <2>2, <2>3
<1> QED BY <1>2, <1>3

\* A stop empties the runtime, or waits for what is starting.
LEMMA BeginStopHalts ==
  ASSUME RuntimeInv, OneStartup, NEW o \in Owners, BeginStop(o)
  PROVE  Halts' /\ OneStartup'
<1> DEFINE R == StopRealtime(realtime, stopping, o)
           fenced == [consumer EXCEPT !.fenced = TRUE]
<1>1. /\ realtime \in Realtime /\ stopping \in Stopping
      /\ consumer \in Consumer /\ CleanupShape(consumer)
  BY RuntimeTypes
<1>2. R[1].fenced /\ R[1].startup = realtime.startup /\ R[1].slot = None
  <2>1. R[1] = [realtime EXCEPT !.fenced = TRUE,
                                !.slot = IF realtime.startup = "none" THEN None ELSE @]
    BY DEF StopRealtime
  <2> QED BY <2>1, <1>1 DEF Realtime, OneStartup
<1>3. R[2] \in Stopping
  <2>1. PICK at \in {"startup", "dispose", "done"} : R[2] = Lane(stopping, o, "realtime", at)
    BY DEF StopRealtime
  <2> QED BY <2>1, <1>1, LaneTypes
<1>4. PICK next \in StopConsumer(consumer, R[2], o) :
        realtime' = R[1] /\ consumer' = next[1] /\ stopping' = next[2]
  BY DEF BeginStop
<1>5. /\ fenced \in Consumer /\ fenced.startup = consumer.startup
      /\ fenced.cleanup = consumer.cleanup /\ fenced.fenced
  BY <1>1 DEF Consumer
<1>6. ConsumerHalts(consumer', stopping')
  <2>1. CASE consumer.startup # "none"
    <3>1. next = <<fenced, Lane(R[2], o, "consumer", "startup")>> BY <1>4, <2>1 DEF StopConsumer
    <3> HIDE DEF fenced, R
    <3>2. Lane(R[2], o, "consumer", "startup")[o].consumer = "startup"
      BY <1>3, StopLanes DEF Lane, Stopping, LanePair
    <3> QED BY <1>4, <1>5, <3>1, <3>2 DEF ConsumerHalts, Waiting
  <2>2. CASE consumer.startup = "none"
    <3>1. next \in AwaitCleanup(fenced, R[2], {o}) BY <1>4, <2>2 DEF StopConsumer
    <3>2. fenced.cleanup \in Owners \cup {"none"} BY <1>1, <1>5, <2>2 DEF CleanupShape
    <3> HIDE DEF fenced, R
    <3> QED BY <1>3, <1>4, <1>5, <3>1, <3>2, AwaitCleanupHalts
  <2> QED BY <2>1, <2>2
<1> HIDE DEF R
<1> QED BY <1>2, <1>4, <1>6 DEF Halts, RealtimeHalts, OneStartup

\* Where nothing may start, what asks for the runtime changes nothing but to stop it once more.
LEMMA EnsureRuntimeHalts ==
  ASSUME RuntimeInv, OneStartup, Halts, NEW did, NEW out, EnsureRuntime(did, out, TRUE)
  PROVE  Halts'
<1>1. CASE UNCHANGED runtime BY <1>1 DEF runtime, Halts
<1>2. CASE BeginStop("replacement")
  <2>1. "replacement" \in Owners BY DEF Owners
  <2> QED BY <1>2, <2>1, BeginStopHalts
<1>3. CASE EnsureSlots(did, out, TRUE)
  BY <1>3 DEF EnsureSlots, EnsureRealtime, EnsureConsumer, Halts
<1> QED BY <1>1, <1>2, <1>3 DEF EnsureRuntime

\* A lane that is done, or has failed, waits for nothing.
LEMMA StopOverHalts ==
  ASSUME RuntimeInv, Halts, NEW o \in Owners, UNCHANGED <<realtime, consumer>>,
         StopReturns(stopping, o) \/ StopRejects(stopping, o)
  PROVE  Halts'
<1>1. stopping \in Stopping BY RuntimeTypes
<1>2. stopping[o].consumer \notin Waiting
  BY NamesApart DEF StopReturns, StopRejects, Stopped, Rejected, Waiting
<1>3. \A p \in Owners : p # o => stopping'[p] = stopping[p] BY <1>1, StopOverTypes
<1> QED BY <1>2, <1>3 DEF Halts, ConsumerHalts

\* The tasks of the runtime bring the stop to its end.
LEMMA RuntimeStepHalts ==
  ASSUME RuntimeInv, Halts, restricted, RuntimeStep
  PROVE  Halts'
<1>1. /\ realtime \in Realtime /\ stopping \in Stopping
      /\ consumer \in Consumer /\ CleanupShape(consumer)
  BY RuntimeTypes
<1>2. RealtimeHalts(realtime) /\ ConsumerHalts(consumer, stopping) BY DEF Halts
<1>3. ASSUME NEW next \in RealtimeStarted(realtime, stopping), UNCHANGED consumer,
             realtime' = next[1], stopping' = next[2]
      PROVE  Halts'
  <2>1. /\ realtime'.startup = "none" /\ realtime'.slot = None
        /\ \A p \in Stops : stopping'[p].consumer = stopping[p].consumer
    BY <1>1, <1>2, <1>3, RealtimeStartedHalts DEF RealtimeHalts
  <2> QED BY <1>2, <1>3, <2>1, StopLanes DEF Halts, RealtimeHalts, ConsumerHalts
<1>4. ASSUME UNCHANGED realtime, ConsumerHalts(consumer', stopping') PROVE Halts'
  BY <1>2, <1>4 DEF Halts
<1>5. CASE StartupReadsMarker
  <2>1. CASE signedOut' # "in" BY <1>3, <1>5, <2>1 DEF StartupReadsMarker
  <2>2. CASE signedOut' = "in"
    <3>1. realtime' = [realtime EXCEPT !.startup = "identity"] /\ UNCHANGED <<consumer, stopping>>
      BY <1>5, <2>2 DEF StartupReadsMarker
    <3>2. realtime.fenced BY <1>2, <1>5 DEF StartupReadsMarker, RealtimeHalts
    <3>3. RealtimeHalts(realtime') BY <1>1, <1>2, <3>1, <3>2 DEF Realtime, RealtimeHalts
    <3> QED BY <1>2, <3>1, <3>3 DEF Halts
  <2> QED BY <2>1, <2>2
<1>6. CASE StartupOpens BY <1>2, <1>6 DEF StartupOpens, RealtimeHalts
<1>7. CASE StartupEnds BY <1>3, <1>7 DEF StartupEnds
<1>8. CASE ConsumerReplaces
  <2> DEFINE cleaned == [consumer EXCEPT !.cleanup = IF @ = "ensure" THEN "none" ELSE @]
  <2>1. /\ cleaned \in Consumer /\ cleaned.cleanup \in Owners \cup {"none"}
        /\ cleaned.startup = consumer.startup /\ cleaned.slot = consumer.slot
        /\ cleaned.fenced = consumer.fenced /\ cleaned.kept = consumer.kept
    BY <1>1 DEF Consumer
  <2>2. consumer.fenced BY <1>2, <1>8 DEF ConsumerReplaces, ConsumerHalts
  <2>3. \E next \in ConsumerStarted(cleaned, stopping) :
          consumer' = next[1] /\ stopping' = next[2]
    BY <1>8, <2>2 DEF ConsumerReplaces
  <2> HIDE DEF cleaned
  <2>4. ConsumerHalts(cleaned, stopping) BY <1>2, <2>1 DEF ConsumerHalts
  <2>5. ConsumerHalts(consumer', stopping') BY <1>1, <2>1, <2>3, <2>4, ConsumerStartedHalts
  <2> QED BY <1>4, <1>8, <2>5 DEF ConsumerReplaces
<1>9. CASE ConsumerReady
  <2>1. consumer.cleanup \in Owners \cup {"none"} BY <1>1, <1>9 DEF ConsumerReady, CleanupShape
  <2>2. ConsumerHalts(consumer', stopping')
    BY <1>1, <1>2, <1>9, <2>1, ConsumerStartedHalts DEF ConsumerReady
  <2> QED BY <1>4, <1>9, <2>2 DEF ConsumerReady
<1>10. ASSUME NEW o \in Stops, SupervisorDisposed(o) PROVE Halts'
  <2>1. stopping' = Lane(stopping, o, "realtime", Over(o)) /\ UNCHANGED <<realtime, consumer>>
    BY <1>10 DEF SupervisorDisposed
  <2>2. \A p \in Owners : stopping'[p].consumer = stopping[p].consumer
    BY <1>1, <2>1, LaneOver, StopLanes
  <2> QED BY <1>2, <2>1, <2>2 DEF Halts, ConsumerHalts
<1>11. ASSUME NEW o \in Owners, ConsumerDisposed(o) PROVE Halts'
  <2> DEFINE cleaned == [consumer EXCEPT !.cleanup = IF @ = o THEN "none" ELSE @]
             left == Lane(stopping, o, "consumer", "done")
             os == Lanes(stopping, "consumer", o)
  <2>1. /\ cleaned \in Consumer /\ cleaned.startup = consumer.startup
        /\ cleaned.slot = consumer.slot /\ cleaned.fenced = consumer.fenced
        /\ cleaned.kept = consumer.kept
    BY <1>1 DEF Consumer
  <2>2. left \in Stopping BY <1>1, LaneTypes
  <2>3. \A p \in Owners : p # o => left[p] = stopping[p]
    BY <1>1, StopLanes DEF Lane, Stopping
  <2>4. os \in SUBSET Owners BY <1>1, ConsumerLanes, NamesApart
  <2>5. stopping[o].consumer \notin Waiting BY <1>11, NamesApart DEF ConsumerDisposed, Waiting
  <2>6. PICK next \in Detach(cleaned, left, os) : consumer' = next[1] /\ stopping' = next[2]
    BY <1>11 DEF ConsumerDisposed
  <2> HIDE DEF cleaned, left, os
  <2>7. ConsumerHalts(consumer', stopping')
    <3>1. CASE os = {}
      <4>1. consumer' = cleaned /\ stopping' = left BY <2>6, <3>1 DEF Detach
      <4> QED BY <1>2, <2>1, <2>3, <2>5, <4>1 DEF ConsumerHalts
    <3>2. CASE os # {}
      <4>1. consumer'.slot = None /\ consumer'.startup = consumer.startup
            /\ consumer'.fenced = consumer.fenced
        BY <2>1, <2>2, <2>4, <2>6, <3>2, DetachHalts
      <4> QED BY <1>2, <4>1 DEF ConsumerHalts
    <3> QED BY <3>1, <3>2
  <2> QED BY <1>4, <1>11, <2>7 DEF ConsumerDisposed
<1>12. CASE Replaced
  <2>1. "replacement" \in Owners BY DEF Owners
  <2>2. /\ StopReturns(stopping, "replacement") \/ StopRejects(stopping, "replacement")
        /\ UNCHANGED <<realtime, consumer>>
    BY <1>12 DEF Replaced, EnsureRealtime, EnsureConsumer
  <2> QED BY <2>1, <2>2, StopOverHalts
<1>13. CASE Synchronized BY <1>13 DEF Synchronized, EnsureConsumer
<1>14. ASSUME NEW o \in Owners, ConsumerFails(o) PROVE Halts'
  <2> DEFINE waiting == Lanes(stopping, "consumer", o)
  <2>1. /\ consumer'.startup = consumer.startup /\ consumer'.slot = consumer.slot
        /\ consumer'.fenced = consumer.fenced
        /\ consumer'.kept = (consumer.kept \/ (waiting # {} /\ consumer.slot # None))
    <3> DEFINE kept == consumer.kept \/ (waiting # {} /\ consumer.slot # None)
               cleanup == IF consumer.cleanup = o THEN "none" ELSE consumer.cleanup
    <3>1. consumer' = [consumer EXCEPT !.cleanup = cleanup, !.kept = kept]
      BY <1>14 DEF ConsumerFails
    <3> HIDE DEF kept, cleanup
    <3>2. /\ consumer'.startup = consumer.startup /\ consumer'.slot = consumer.slot
          /\ consumer'.fenced = consumer.fenced /\ consumer'.kept = kept
      BY <1>1, <3>1 DEF Consumer
    <3> QED BY <3>2 DEF kept
  <2>2. \A p \in Owners : p \notin waiting \cup {o} => stopping'[p] = stopping[p]
    BY <1>14, StopLanes DEF ConsumerFails
  <2>3. stopping[o].consumer \notin Waiting BY <1>14, NamesApart DEF ConsumerFails, Waiting
  <2> HIDE DEF waiting
  <2>4. ConsumerHalts(consumer', stopping') BY <1>2, <2>1, <2>2, <2>3 DEF ConsumerHalts
  <2> QED BY <1>4, <1>14, <2>4 DEF ConsumerFails
<1> QED BY <1>5, <1>6, <1>7, <1>8, <1>9, <1>10, <1>11, <1>12, <1>13, <1>14
        DEF RuntimeStep, RealtimeTask, ConsumerTask

\* One startup or supervisor, through every step.
LEMMA EnsureRuntimeStartup ==
  ASSUME RuntimeInv, OneStartup, NEW did, NEW out, NEW blocked, EnsureRuntime(did, out, blocked)
  PROVE  OneStartup'
<1>1. CASE UNCHANGED runtime BY <1>1 DEF runtime, OneStartup
<1>2. CASE BeginStop("replacement")
  <2>1. "replacement" \in Owners BY DEF Owners
  <2> QED BY <1>2, <2>1, BeginStopHalts
<1>3. CASE EnsureSlots(did, out, blocked)
  BY <1>3 DEF EnsureSlots, EnsureRealtime, OneStartup
<1> QED BY <1>1, <1>2, <1>3 DEF EnsureRuntime

LEMMA RuntimeStepStartup ==
  ASSUME RuntimeInv, OneStartup, RuntimeStep
  PROVE  OneStartup'
<1>1. identity \in Did /\ realtime \in Realtime /\ stopping \in Stopping BY RuntimeTypes
<1>2. ASSUME NEW r \in Realtime, NEW next \in RealtimeStarted(r, stopping), realtime' = next[1]
      PROVE  OneStartup'
  BY <1>1, <1>2, RealtimeStartedHalts DEF OneStartup
<1>3. CASE StartupReadsMarker
  <2>1. CASE signedOut' # "in" BY <1>1, <1>2, <1>3, <2>1 DEF StartupReadsMarker
  <2>2. CASE signedOut' = "in"
    <3>1. realtime' = [realtime EXCEPT !.startup = "identity"] /\ realtime.startup = "marker"
      BY <1>3, <2>2 DEF StartupReadsMarker
    <3> QED BY <1>1, <3>1 DEF Realtime, OneStartup
  <2> QED BY <2>1, <2>2
<1>4. CASE StartupOpens
  <2> DEFINE opened == [realtime EXCEPT !.slot = identity]
  <2>1. opened \in Realtime BY <1>1 DEF Realtime
  <2>2. \E next \in RealtimeStarted(opened, stopping) : realtime' = next[1]
    BY <1>4 DEF StartupOpens
  <2> HIDE DEF opened
  <2> QED BY <1>2, <2>1, <2>2
<1>5. CASE StartupEnds BY <1>1, <1>2, <1>5 DEF StartupEnds
<1>6. CASE Replaced BY <1>6 DEF Replaced, EnsureRealtime, OneStartup
<1>7. CASE UNCHANGED realtime BY <1>7 DEF OneStartup
<1> QED BY <1>3, <1>4, <1>5, <1>6, <1>7
        DEF RuntimeStep, RealtimeTask, ConsumerTask, ConsumerReplaces, ConsumerReady,
            SupervisorDisposed, ConsumerDisposed, ConsumerFails, Synchronized

-----------------------------------------------------------------------------
(* What a stop awaits is there: no stop waits for nobody, or for one that waits itself. *)

Begun(s, o) == s[o].realtime # "none" /\ s[o].consumer # "none"
Idle(s, o) == s[o].realtime = "none" /\ s[o].consumer = "none"

\* The lanes of a stop have begun, or not, as before.
SameBegun(s, t, o) ==
  /\ t[o].realtime = "none" <=> s[o].realtime = "none"
  /\ t[o].consumer = "none" <=> s[o].consumer = "none"

RealtimeServed(r, s) == \A o \in Stops : s[o].realtime = "startup" => r.startup # "none"

\* The lanes os are about to go on; the others wait for a startup that is there, or for the
\* disposal of an owner that disposes and waits for nobody.
Serves(c, s, os) ==
  /\ \A p \in os : s[p].consumer # "dispose"
  /\ \A p \in Owners \ os : s[p].consumer = "startup" => c.startup # "none"
  /\ \A p \in Owners \ os, q \in Owners : s[p].consumer = q => s[q].consumer = "dispose"
  /\ \A q \in Owners : c.cleanup = q => s[q].consumer = "dispose"

ConsumerServed(c, s) == Serves(c, s, {})

StopsBegin ==
  /\ \A o \in Owners : Begun(stopping, o) \/ Idle(stopping, o)
  /\ replacement # None <=> Begun(stopping, "replacement")

Served ==
  RealtimeServed(realtime, stopping) /\ ConsumerServed(consumer, stopping) /\ StopsBegin

LEMMA DetachServed ==
  ASSUME NEW c \in Consumer, NEW s \in Stopping, NEW os \in SUBSET Owners, Serves(c, s, os),
         NEW next \in Detach(c, s, os)
  PROVE  /\ ConsumerServed(next[1], next[2])
         /\ \A p \in Stops : next[2][p].realtime = s[p].realtime
         /\ \A p \in os : next[2][p].consumer # "none"
         /\ \A p \in Stops \ os : next[2][p] = s[p]
<1>1. CASE os = {}
  <2>1. next[1] = c /\ next[2] = s BY <1>1 DEF Detach
  <2> QED BY <1>1, <2>1 DEF ConsumerServed
<1>2. CASE os # {}
  <2> DEFINE C(o) == IF c.slot = None THEN c ELSE [c EXCEPT !.slot = None, !.cleanup = o, !.kept = FALSE]
             L(o, p) == IF p \notin os THEN s[p]
                        ELSE [s[p] EXCEPT !.consumer = IF p = o /\ c.slot # None THEN "dispose"
                                                       ELSE "done"]
  <2>1. PICK o \in os : next = <<C(o), [p \in Stops |-> L(o, p)]>> BY <1>2 DEF Detach
  <2>2. /\ C(o).startup = c.startup
        /\ C(o).cleanup = IF c.slot = None THEN c.cleanup ELSE o
    BY DEF Consumer
  <2>3. ASSUME NEW p \in Stops
        PROVE  /\ L(o, p).realtime = s[p].realtime
               /\ p \notin os => L(o, p) = s[p]
               /\ p \in os => L(o, p).consumer = IF p = o /\ c.slot # None THEN "dispose" ELSE "done"
    <3>1. s[p] \in LanePair BY DEF Stopping
    <3> QED BY <3>1 DEF LanePair
  <2> HIDE DEF C, L
  <2>4. /\ next[1] = C(o) /\ \A p \in Stops : next[2][p] = L(o, p)
        /\ \A p \in Owners : p \in Stops
    BY <2>1, StopLanes
  <2>5. \A q \in Owners : s[q].consumer = "dispose" => next[2][q].consumer = "dispose"
    BY <2>3, <2>4 DEF Serves
  <2>6. \A p \in os : p \in Owners /\ next[2][p].consumer \in {"dispose", "done"} BY <2>3, <2>4
  <2>7. \A p \in Owners \ os : next[2][p] = s[p] BY <2>3, <2>4
  <2>8. \A p \in Owners : next[2][p].consumer = "startup" => next[1].startup # "none"
    BY <2>2, <2>4, <2>6, <2>7 DEF Serves
  <2>9. \A p, q \in Owners : next[2][p].consumer = q => next[2][q].consumer = "dispose"
    BY <2>5, <2>6, <2>7, NamesApart DEF Serves
  <2>10. \A q \in Owners : next[1].cleanup = q => next[2][q].consumer = "dispose"
    BY <2>2, <2>3, <2>4, <2>5 DEF Serves
  <2>11. ConsumerServed(next[1], next[2]) BY <2>8, <2>9, <2>10 DEF ConsumerServed, Serves
  <2> QED BY <2>3, <2>4, <2>6, <2>7, <2>11
<1> QED BY <1>1, <1>2

LEMMA AwaitCleanupServed ==
  ASSUME NEW c \in Consumer, c.cleanup \in Owners \cup {"none"}, NEW s \in Stopping,
         NEW os \in SUBSET Owners, Serves(c, s, os), NEW next \in AwaitCleanup(c, s, os)
  PROVE  /\ ConsumerServed(next[1], next[2])
         /\ \A p \in Stops : next[2][p].realtime = s[p].realtime
         /\ \A p \in os : next[2][p].consumer # "none"
         /\ \A p \in Stops \ os : next[2][p] = s[p]
<1>1. CASE c.cleanup = "none" BY <1>1, DetachServed DEF AwaitCleanup
<1>2. CASE c.cleanup # "none"
  <2> DEFINE L(p) == IF p \in os THEN [s[p] EXCEPT !.consumer = c.cleanup] ELSE s[p]
  <2>1. next = <<c, [p \in Stops |-> L(p)]>> BY <1>2 DEF AwaitCleanup
  <2>2. ASSUME NEW p \in Stops
        PROVE  /\ L(p).realtime = s[p].realtime
               /\ p \notin os => L(p) = s[p]
               /\ p \in os => L(p).consumer = c.cleanup
    <3>1. s[p] \in LanePair BY DEF Stopping
    <3> QED BY <3>1 DEF LanePair
  <2> HIDE DEF L
  <2>3. /\ next[1] = c /\ \A p \in Stops : next[2][p] = L(p)
        /\ \A p \in Owners : p \in Stops
    BY <2>1, StopLanes
  <2>4. c.cleanup \in Owners /\ s[c.cleanup].consumer = "dispose" /\ c.cleanup \notin os
    BY <1>2 DEF Serves
  <2>5. \A p \in os : p \in Owners /\ next[2][p].consumer = c.cleanup BY <2>2, <2>3
  <2>6. \A p \in Owners \ os : next[2][p] = s[p] BY <2>2, <2>3
  <2>7. c.cleanup \notin {"none", "startup", "dispose", "done"} BY <2>4, NamesApart
  <2>8. \A q \in Owners : s[q].consumer = "dispose" => next[2][q].consumer = "dispose"
    BY <2>6 DEF Serves
  <2>9. \A p \in Owners : next[2][p].consumer = "startup" => next[1].startup # "none"
    BY <2>3, <2>5, <2>6, <2>7 DEF Serves
  <2>10. \A p, q \in Owners : next[2][p].consumer = q => next[2][q].consumer = "dispose"
    BY <2>4, <2>5, <2>6, <2>8 DEF Serves
  <2>11. ConsumerServed(next[1], next[2])
    BY <2>3, <2>8, <2>9, <2>10 DEF ConsumerServed, Serves
  <2> QED BY <2>2, <2>3, <2>5, <2>6, <2>7, <2>11
<1> QED BY <1>1, <1>2

LEMMA ConsumerStartedServed ==
  ASSUME NEW c \in Consumer, c.cleanup \in Owners \cup {"none"}, NEW s \in Stopping,
         ConsumerServed(c, s), NEW next \in ConsumerStarted(c, s)
  PROVE  /\ ConsumerServed(next[1], next[2])
         /\ \A p \in Stops : next[2][p].realtime = s[p].realtime
         /\ \A p \in Owners : SameBegun(s, next[2], p)
<1> DEFINE ended == [c EXCEPT !.startup = "none"]
           os == Lanes(s, "consumer", "startup")
<1>1. ended \in Consumer /\ ended.cleanup = c.cleanup BY DEF Consumer
<1>2. /\ os \in SUBSET Owners /\ \A p \in os : s[p].consumer = "startup"
      /\ \A p \in Owners \ os : s[p].consumer # "startup"
      /\ \A p \in Owners : p \in Stops
  BY ConsumerLanes, StopLanes DEF Lanes
<1>3. next \in AwaitCleanup(ended, s, os) BY DEF ConsumerStarted
<1> HIDE DEF ended, os
<1>4. Serves(ended, s, os) BY <1>1, <1>2 DEF ConsumerServed, Serves
<1>5. /\ ConsumerServed(next[1], next[2])
      /\ \A p \in Stops : next[2][p].realtime = s[p].realtime
      /\ \A p \in os : next[2][p].consumer # "none"
      /\ \A p \in Stops \ os : next[2][p] = s[p]
  BY <1>1, <1>2, <1>3, <1>4, AwaitCleanupServed
<1> QED BY <1>2, <1>5 DEF SameBegun

LEMMA RealtimeStartedServed ==
  ASSUME NEW r \in Realtime, NEW s \in Stopping, NEW next \in RealtimeStarted(r, s)
  PROVE  /\ RealtimeServed(next[1], next[2])
         /\ \A p \in Stops : next[2][p].consumer = s[p].consumer
         /\ \A p \in Owners : SameBegun(s, next[2], p)
<1> DEFINE os    == Lanes(s, "realtime", "startup")
           ended == [r EXCEPT !.startup = "none"]
<1>1. /\ os \in SUBSET Stops /\ \A p \in os : s[p].realtime = "startup"
      /\ \A p \in Stops \ os : s[p].realtime # "startup"
      /\ \A p \in Owners : p \in Stops
  BY StopLanes DEF Lanes
<1>2. CASE os = {}
  <2>1. next[2] = s BY <1>2 DEF RealtimeStarted
  <2> QED BY <1>1, <1>2, <2>1 DEF RealtimeServed, SameBegun
<1>3. CASE os # {}
  <2> DEFINE L(o, p) == IF p \notin os THEN s[p]
                        ELSE [s[p] EXCEPT !.realtime = IF p = o /\ r.slot # None THEN "dispose"
                                                       ELSE Over(p)]
  <2>1. PICK o \in os : next = <<[ended EXCEPT !.slot = None], [p \in Stops |-> L(o, p)]>>
    BY <1>3 DEF RealtimeStarted
  <2>2. ASSUME NEW p \in Stops
        PROVE  /\ L(o, p).consumer = s[p].consumer
               /\ p \notin os => L(o, p) = s[p]
               /\ p \in os => L(o, p).realtime \in {"dispose", "none", "done"}
               /\ p \in os /\ p \in Owners => L(o, p).realtime # "none"
    <3>1. s[p] \in LanePair BY DEF Stopping
    <3>2. Over(p) \in {"none", "done"} /\ (p \in Owners => Over(p) = "done")
      BY StopLanes DEF Over
    <3> QED BY <3>1, <3>2 DEF LanePair
  <2> HIDE DEF L, os, ended
  <2>3. \A p \in Stops : next[2][p] = L(o, p) BY <2>1
  <2> QED BY <1>1, <2>2, <2>3 DEF RealtimeServed, SameBegun
<1> QED BY <1>2, <1>3

\* What the lanes of the consumer await does not hang on those of the supervisor.
LEMMA ServesLanes ==
  ASSUME NEW c, NEW s, NEW t, NEW os \in SUBSET Owners, Serves(c, s, os),
         \A p \in Owners : t[p].consumer = s[p].consumer
  PROVE  Serves(c, t, os)
<1>1. \A p \in os : p \in Owners OBVIOUS
<1> QED BY <1>1 DEF Serves

\* stopProviderRuntime(), by an owner that is not stopping: it begins, and the others stay.
LEMMA BeginStopServed ==
  ASSUME RuntimeInv, NEW o \in Owners, Idle(stopping, o), BeginStop(o),
         RealtimeServed(realtime, stopping), ConsumerServed(consumer, stopping)
  PROVE  /\ RealtimeServed(realtime', stopping') /\ ConsumerServed(consumer', stopping')
         /\ Begun(stopping', o)
         /\ \A p \in Stops : p # o => stopping'[p] = stopping[p]
<1> DEFINE R == StopRealtime(realtime, stopping, o)
           fenced == [consumer EXCEPT !.fenced = TRUE]
           at == IF realtime.startup # "none" THEN "startup"
                 ELSE IF realtime.slot # None THEN "dispose" ELSE "done"
           left == Lane(stopping, o, "realtime", at)
<1>1. /\ realtime \in Realtime /\ stopping \in Stopping
      /\ consumer \in Consumer /\ CleanupShape(consumer)
  BY RuntimeTypes
<1>2. R[2] = left /\ R[1].startup = realtime.startup
  <2>1. R[2] = left BY DEF StopRealtime
  <2>2. R[1] = [realtime EXCEPT !.fenced = TRUE,
                                !.slot = IF realtime.startup = "none" THEN None ELSE @]
    BY DEF StopRealtime
  <2> QED BY <2>1, <2>2, <1>1 DEF Realtime
<1>3. at \in {"startup", "dispose", "done"} /\ (at = "startup" <=> realtime.startup # "none")
  OBVIOUS
<1> HIDE DEF at
<1>4. /\ left \in Stopping /\ left[o].realtime = at
      /\ \A p \in Stops : left[p].consumer = stopping[p].consumer
      /\ \A p \in Stops : p # o => left[p] = stopping[p]
      /\ \A p \in Owners : p \in Stops
  <2>1. left \in Stopping BY <1>1, <1>3, LaneTypes
  <2>2. stopping[o] \in LanePair /\ \A p \in Owners : p \in Stops
    BY <1>1, LaneTypes, StopLanes
  <2> QED BY <1>1, <2>1, <2>2 DEF Lane, Stopping, LanePair
<1>5. /\ fenced \in Consumer /\ fenced.startup = consumer.startup
      /\ fenced.cleanup = consumer.cleanup
  BY <1>1 DEF Consumer
<1>6. PICK next \in StopConsumer(consumer, left, o) :
        realtime' = R[1] /\ consumer' = next[1] /\ stopping' = next[2]
  BY <1>2 DEF BeginStop
<1> HIDE DEF R, left
<1>7. Serves(fenced, left, {o})
  <2>1. left[o].consumer = "none" BY <1>4 DEF Idle
  <2> HIDE DEF fenced
  <2>2. Serves(fenced, stopping, {o}) BY <1>5 DEF ConsumerServed, Serves, Idle
  <2> QED BY <1>4, <2>2, ServesLanes
<1>8. /\ ConsumerServed(next[1], next[2])
      /\ next[2][o].realtime = left[o].realtime /\ next[2][o].consumer # "none"
      /\ \A p \in Stops : p # o => next[2][p] = left[p]
  <2>1. CASE consumer.startup # "none"
    <3> DEFINE waits == Lane(left, o, "consumer", "startup")
    <3>1. next = <<fenced, waits>> BY <1>6, <2>1 DEF StopConsumer
    <3>2. left[o] \in LanePair BY <1>4 DEF Stopping
    <3>3. /\ waits[o].consumer = "startup" /\ waits[o].realtime = left[o].realtime
          /\ \A p \in Stops : p # o => waits[p] = left[p]
      BY <1>4, <3>2 DEF Lane, Stopping, LanePair
    <3> HIDE DEF waits, fenced
    <3>4. left[o].consumer = "none" BY <1>4 DEF Idle
    <3>5. ConsumerServed(fenced, waits)
      BY <1>4, <1>5, <1>7, <2>1, <3>3, <3>4, NamesApart DEF ConsumerServed, Serves
    <3> QED BY <3>1, <3>3, <3>5
  <2>2. CASE consumer.startup = "none"
    <3>1. next \in AwaitCleanup(fenced, left, {o}) BY <1>6, <2>2 DEF StopConsumer
    <3>2. fenced.cleanup \in Owners \cup {"none"} BY <1>1, <1>5, <2>2 DEF CleanupShape
    <3> HIDE DEF fenced
    <3>3. {o} \in SUBSET Owners OBVIOUS
    <3> QED BY <1>4, <1>5, <1>7, <3>1, <3>2, <3>3, AwaitCleanupServed
  <2> QED BY <2>1, <2>2
<1>9. RealtimeServed(realtime', stopping')
  BY <1>2, <1>3, <1>4, <1>6, <1>8 DEF RealtimeServed
<1> QED BY <1>3, <1>4, <1>6, <1>8, <1>9 DEF Begun

\* A call that asks for the runtime begins no stop but a replacement's.
LEMMA EnsureRuntimeServed ==
  ASSUME RuntimeInv, Served, NEW did, NEW out, NEW blocked, EnsureRuntime(did, out, blocked)
  PROVE  Served' /\ \A p \in Stops : p # "replacement" => stopping'[p] = stopping[p]
<1>1. CASE UNCHANGED runtime
  BY <1>1 DEF runtime, Served, StopsBegin, RealtimeServed, ConsumerServed, Serves
<1>2. CASE /\ replacement = None /\ did \in Dids
           /\ BeginStop("replacement") /\ replacement' = did
  <2>1. "replacement" \in Owners /\ did # None BY <1>2, DidsAssumption DEF Owners, None
  <2>2. Idle(stopping, "replacement") BY <1>2, <2>1 DEF Served, StopsBegin
  <2>3. /\ RealtimeServed(realtime', stopping') /\ ConsumerServed(consumer', stopping')
        /\ Begun(stopping', "replacement")
        /\ \A p \in Stops : p # "replacement" => stopping'[p] = stopping[p]
    BY <1>2, <2>1, <2>2, BeginStopServed DEF Served
  <2>4. \A p \in Owners : Begun(stopping', p) \/ Idle(stopping', p)
    BY <2>3, StopLanes DEF Served, StopsBegin, Begun, Idle
  <2> QED BY <1>2, <2>1, <2>3, <2>4 DEF Served, StopsBegin
<1>3. CASE EnsureSlots(did, out, blocked)
  <2>1. UNCHANGED <<replacement, stopping>> BY <1>3 DEF EnsureSlots
  <2>2. realtime.startup # "none" => realtime'.startup # "none"
    BY <1>3 DEF EnsureSlots, EnsureRealtime
  <2>3. /\ consumer.startup # "none" => consumer'.startup # "none"
        /\ consumer'.cleanup \in {consumer.cleanup, "ensure"}
    BY <1>3, RuntimeTypes DEF EnsureSlots, EnsureConsumer, Consumer
  <2>4. "ensure" \notin Owners BY RefreshesAssumption DEF Owners
  <2> QED BY <2>1, <2>2, <2>3, <2>4
      DEF Served, StopsBegin, RealtimeServed, ConsumerServed, Serves
<1> QED BY <1>1, <1>2, <1>3 DEF EnsureRuntime

\* A stop that is over, or has been rejected, is one nobody waits for; what it leaves of the
\* supervisor's lane waits for the same startup.
LEMMA StopOverServed ==
  ASSUME RuntimeInv, Served, NEW o \in Owners,
         StopReturns(stopping, o) \/ StopRejects(stopping, o),
         realtime.startup # "none" => realtime'.startup # "none",
         consumer.startup # "none" => consumer'.startup # "none",
         consumer'.cleanup \in {consumer.cleanup, "ensure"}
  PROVE  /\ RealtimeServed(realtime', stopping') /\ ConsumerServed(consumer', stopping')
         /\ Idle(stopping', o) /\ \A p \in Owners : p # o => stopping'[p] = stopping[p]
<1>1. stopping \in Stopping BY RuntimeTypes
<1>2. /\ stopping' \in Stopping
      /\ stopping'[o] = [realtime |-> "none", consumer |-> "none"]
      /\ \A p \in Owners : p # o => stopping'[p] = stopping[p]
  BY <1>1, StopOverTypes
<1>3. stopping[o].consumer \in {"done", "failed"}
  BY DEF StopReturns, StopRejects, Stopped, Rejected
<1>4. "ensure" \notin Owners BY RefreshesAssumption DEF Owners
<1>5. RealtimeServed(realtime', stopping')
  <2>1. CASE stopping' = [stopping EXCEPT ![o] = NotStopping[o]]
    BY <1>1, <1>2, <2>1 DEF Served, RealtimeServed, Stopping
  <2>2. ASSUME NEW x \in Strays, stopping' = [stopping EXCEPT ![o] = NotStopping[o],
                                                ![x].realtime = stopping[o].realtime]
        PROVE  RealtimeServed(realtime', stopping')
    <3>1. x \in Stops /\ x # o /\ o \in Stops BY StopLanes
    <3>2. stopping[x] \in LanePair BY <1>1, <3>1 DEF Stopping
    <3>3. /\ stopping'[x].realtime = stopping[o].realtime
          /\ \A p \in Stops \ {o, x} : stopping'[p] = stopping[p]
      BY <1>1, <2>2, <3>1, <3>2 DEF Stopping, LanePair
    <3> QED BY <1>2, <3>1, <3>3 DEF Served, RealtimeServed
  <2> QED BY <2>1, <2>2 DEF StopReturns, StopRejects
<1>6. ConsumerServed(consumer', stopping')
  BY <1>2, <1>3, <1>4, NamesApart DEF Served, ConsumerServed, Serves
<1> QED BY <1>2, <1>5, <1>6 DEF Idle

\* The same stops are under way after the step.
SameStops ==
  /\ \A o \in Owners : SameBegun(stopping, stopping', o)
  /\ UNCHANGED replacement

LEMMA StopsBeginNext ==
  ASSUME StopsBegin, SameStops
  PROVE  StopsBegin'
<1>1. "replacement" \in Owners BY DEF Owners
<1> QED BY <1>1 DEF StopsBegin, SameStops, SameBegun, Begun, Idle

LEMMA RealtimeTaskServed ==
  ASSUME RuntimeInv, Served, RealtimeTask
  PROVE  Served' /\ SameStops
<1>1. /\ identity \in Did /\ realtime \in Realtime /\ stopping \in Stopping
      /\ consumer \in Consumer
  BY RuntimeTypes
<1>2. /\ UNCHANGED replacement
      /\ consumer.startup # "none" => consumer'.startup # "none"
      /\ consumer'.cleanup \in {consumer.cleanup, "ensure"}
  BY <1>1 DEF RealtimeTask, StartupReadsMarker, StartupOpens, StartupEnds, EnsureConsumer, Consumer
<1>3. /\ RealtimeServed(realtime', stopping')
      /\ \A p \in Stops : stopping'[p].consumer = stopping[p].consumer
      /\ \A p \in Owners : SameBegun(stopping, stopping', p)
  <2>1. CASE realtime' = [realtime EXCEPT !.startup = "identity"] /\ UNCHANGED stopping
    <3>1. realtime'.startup # "none" BY <1>1, <2>1 DEF Realtime
    <3> QED BY <2>1, <3>1 DEF RealtimeServed, SameBegun
  <2>2. ASSUME NEW r \in Realtime, NEW next \in RealtimeStarted(r, stopping),
               realtime' = next[1], stopping' = next[2]
        PROVE  /\ RealtimeServed(realtime', stopping')
               /\ \A p \in Stops : stopping'[p].consumer = stopping[p].consumer
               /\ \A p \in Owners : SameBegun(stopping, stopping', p)
    BY <1>1, <2>2, RealtimeStartedServed
  <2>3. CASE StartupReadsMarker
    BY <1>1, <2>1, <2>2, <2>3 DEF StartupReadsMarker
  <2>4. CASE StartupOpens
    <3> DEFINE opened == [realtime EXCEPT !.slot = identity]
    <3>1. opened \in Realtime BY <1>1 DEF Realtime
    <3>2. PICK next \in RealtimeStarted(opened, stopping) :
            realtime' = next[1] /\ stopping' = next[2]
      BY <2>4 DEF StartupOpens
    <3> HIDE DEF opened
    <3> QED BY <2>2, <3>1, <3>2
  <2>5. CASE StartupEnds BY <1>1, <2>2, <2>5 DEF StartupEnds
  <2> QED BY <2>3, <2>4, <2>5 DEF RealtimeTask
<1>4. SameStops BY <1>2, <1>3 DEF SameStops
<1>5. ConsumerServed(consumer', stopping')
  <2>1. "ensure" \notin Owners BY RefreshesAssumption DEF Owners
  <2>2. ConsumerServed(consumer', stopping)
    BY <1>2, <2>1 DEF Served, ConsumerServed, Serves
  <2> QED BY <1>3, <2>2, ServesLanes, StopLanes DEF ConsumerServed
<1> QED BY <1>3, <1>4, <1>5, StopsBeginNext DEF Served

LEMMA ConsumerTaskServed ==
  ASSUME RuntimeInv, Served, ConsumerTask
  PROVE  Served' /\ SameStops
<1>1. consumer \in Consumer /\ CleanupShape(consumer) /\ stopping \in Stopping BY RuntimeTypes
<1>2. UNCHANGED <<realtime, replacement>> BY DEF ConsumerTask, ConsumerReplaces, ConsumerReady
<1>3. ASSUME NEW c \in Consumer, c.cleanup \in Owners \cup {"none"}, ConsumerServed(c, stopping),
             NEW next \in ConsumerStarted(c, stopping), consumer' = next[1], stopping' = next[2]
      PROVE  Served' /\ SameStops
  <2>1. /\ ConsumerServed(consumer', stopping')
        /\ \A p \in Stops : stopping'[p].realtime = stopping[p].realtime
        /\ \A p \in Owners : SameBegun(stopping, stopping', p)
    BY <1>1, <1>3, ConsumerStartedServed
  <2>2. SameStops BY <1>2, <2>1 DEF SameStops
  <2>3. RealtimeServed(realtime', stopping') BY <1>2, <2>1 DEF Served, RealtimeServed
  <2> QED BY <2>1, <2>2, <2>3, StopsBeginNext DEF Served
<1>4. CASE ConsumerReplaces
  <2> DEFINE cleaned == [consumer EXCEPT !.cleanup = IF @ = "ensure" THEN "none" ELSE @]
  <2>1. /\ cleaned \in Consumer /\ cleaned.cleanup \in Owners \cup {"none"}
        /\ cleaned.cleanup \in {consumer.cleanup, "none"} /\ cleaned.startup = consumer.startup
    BY <1>1 DEF Consumer
  <2>2. \/ /\ consumer' = [cleaned EXCEPT !.startup = "reconcile", !.slot = consumer.did]
           /\ UNCHANGED stopping
        \/ \E next \in ConsumerStarted(cleaned, stopping) :
             consumer' = next[1] /\ stopping' = next[2]
    BY <1>4 DEF ConsumerReplaces
  <2> HIDE DEF cleaned
  <2>3. ConsumerServed(cleaned, stopping)
    BY <2>1, NamesApart DEF Served, ConsumerServed, Serves
  <2>4. CASE /\ consumer' = [cleaned EXCEPT !.startup = "reconcile", !.slot = consumer.did]
             /\ UNCHANGED stopping
    <3>1. consumer'.startup = "reconcile" /\ consumer'.cleanup = cleaned.cleanup
      BY <2>1, <2>4 DEF Consumer
    <3>2. ConsumerServed(consumer', stopping') BY <2>3, <2>4, <3>1 DEF ConsumerServed, Serves
    <3>3. SameStops BY <1>2, <2>4 DEF SameStops, SameBegun
    <3> QED BY <1>2, <2>4, <3>2, <3>3, StopsBeginNext DEF Served
  <2> QED BY <1>3, <2>1, <2>2, <2>3, <2>4
<1>5. CASE ConsumerReady
  <2>1. consumer.cleanup \in Owners \cup {"none"} BY <1>1, <1>5 DEF ConsumerReady, CleanupShape
  <2> QED BY <1>1, <1>3, <1>5, <2>1 DEF ConsumerReady, Served
<1> QED BY <1>4, <1>5 DEF ConsumerTask

LEMMA SupervisorDisposedServed ==
  ASSUME RuntimeInv, Served, NEW o \in Stops, SupervisorDisposed(o)
  PROVE  Served' /\ SameStops
<1>1. stopping \in Stopping BY RuntimeTypes
<1>2. /\ stopping[o].realtime = "dispose" /\ stopping' = Lane(stopping, o, "realtime", Over(o))
      /\ UNCHANGED <<realtime, consumer, replacement>>
  BY DEF SupervisorDisposed
<1>3. /\ stopping'[o].realtime = Over(o)
      /\ \A p \in Stops : stopping'[p].consumer = stopping[p].consumer
      /\ \A p \in Stops : p # o => stopping'[p] = stopping[p]
  BY <1>1, <1>2, LaneOver
<1>4. Over(o) \in {"none", "done"} BY DEF Over
<1>5. SameStops
  <2> SUFFICES ASSUME NEW p \in Owners PROVE SameBegun(stopping, stopping', p)
    BY <1>2 DEF SameStops
  <2>1. p \in Stops /\ Over(p) = "done" BY StopLanes
  <2> QED BY <1>2, <1>3, <2>1 DEF SameBegun
<1>6. RealtimeServed(realtime', stopping') BY <1>2, <1>3, <1>4 DEF Served, RealtimeServed
<1>7. ConsumerServed(consumer', stopping')
  BY <1>2, <1>3, ServesLanes, StopLanes DEF Served, ConsumerServed
<1> QED BY <1>5, <1>6, <1>7, StopsBeginNext DEF Served

LEMMA ConsumerDisposedServed ==
  ASSUME RuntimeInv, Served, NEW o \in Owners, ConsumerDisposed(o)
  PROVE  Served' /\ SameStops
<1> DEFINE cleaned == [consumer EXCEPT !.cleanup = IF @ = o THEN "none" ELSE @]
           left == Lane(stopping, o, "consumer", "done")
           os == Lanes(stopping, "consumer", o)
<1>1. consumer \in Consumer /\ stopping \in Stopping BY RuntimeTypes
<1>2. stopping[o].consumer = "dispose" /\ UNCHANGED <<realtime, replacement>>
  BY DEF ConsumerDisposed
<1>3. /\ cleaned \in Consumer /\ cleaned.startup = consumer.startup
      /\ cleaned.cleanup = IF consumer.cleanup = o THEN "none" ELSE consumer.cleanup
  BY <1>1 DEF Consumer
<1>4. /\ left \in Stopping /\ left[o].consumer = "done"
      /\ \A p \in Stops : left[p].realtime = stopping[p].realtime
      /\ \A p \in Stops : p # o => left[p] = stopping[p]
      /\ \A p \in Owners : p \in Stops
  <2>1. left \in Stopping BY <1>1, LaneTypes
  <2>2. stopping[o] \in LanePair /\ \A p \in Owners : p \in Stops
    BY <1>1, LaneTypes, StopLanes
  <2> QED BY <1>1, <2>1, <2>2 DEF Lane, Stopping, LanePair
<1>5. /\ os \in SUBSET Owners /\ \A p \in os : stopping[p].consumer = o
      /\ \A p \in Owners \ os : stopping[p].consumer # o
  BY <1>1, ConsumerLanes, NamesApart, StopLanes DEF Lanes
<1>6. PICK next \in Detach(cleaned, left, os) : consumer' = next[1] /\ stopping' = next[2]
  BY DEF ConsumerDisposed
<1> HIDE DEF cleaned, left, os
<1>7. o \notin {"none", "startup", "dispose", "done", "failed"} BY NamesApart
<1>8. o \notin os BY <1>2, <1>5, <1>7
<1>9. Serves(cleaned, left, os)
  <2>1. \A p \in os : left[p].consumer # "dispose" BY <1>4, <1>5, <1>7, <1>8
  <2>2. \A p \in Owners \ os : left[p].consumer = "startup" => cleaned.startup # "none"
    BY <1>3, <1>4 DEF Served, ConsumerServed, Serves
  <2>3. ASSUME NEW p \in Owners \ os, NEW q \in Owners, left[p].consumer = q
        PROVE  left[q].consumer = "dispose"
    <3>1. p # o BY <1>4, <2>3, NamesApart
    <3>2. stopping[p].consumer = q BY <1>4, <2>3, <3>1
    <3>3. q # o BY <1>5, <3>2
    <3> QED BY <1>4, <3>2, <3>3 DEF Served, ConsumerServed, Serves
  <2>4. ASSUME NEW q \in Owners, cleaned.cleanup = q PROVE left[q].consumer = "dispose"
    <3>1. q # o /\ consumer.cleanup = q BY <1>3, <2>4, NamesApart
    <3> QED BY <1>4, <3>1 DEF Served, ConsumerServed, Serves
  <2> QED BY <2>1, <2>2, <2>3, <2>4 DEF Serves
<1>10. /\ ConsumerServed(consumer', stopping')
       /\ \A p \in Stops : stopping'[p].realtime = left[p].realtime
       /\ \A p \in os : stopping'[p].consumer # "none"
       /\ \A p \in Stops \ os : stopping'[p] = left[p]
  BY <1>3, <1>4, <1>5, <1>6, <1>9, DetachServed
<1>11. \A p \in Owners : SameBegun(stopping, stopping', p)
  <2> SUFFICES ASSUME NEW p \in Owners PROVE SameBegun(stopping, stopping', p) OBVIOUS
  <2>1. CASE p \in os BY <1>4, <1>5, <1>7, <1>10, <2>1 DEF SameBegun
  <2>2. CASE p = o BY <1>2, <1>4, <1>8, <1>10, <2>2 DEF SameBegun
  <2>3. CASE p \notin os /\ p # o BY <1>4, <1>10, <2>3 DEF SameBegun
  <2> QED BY <2>1, <2>2, <2>3
<1>12. SameStops BY <1>2, <1>11 DEF SameStops
<1>13. RealtimeServed(realtime', stopping')
  BY <1>2, <1>4, <1>10 DEF Served, RealtimeServed
<1> QED BY <1>10, <1>12, <1>13, StopsBeginNext DEF Served

\* A disposal that fails takes with it the lanes that wait for it.
LEMMA ConsumerFailsServed ==
  ASSUME RuntimeInv, Served, NEW o \in Owners, ConsumerFails(o)
  PROVE  Served' /\ SameStops
<1> DEFINE waiting == Lanes(stopping, "consumer", o)
<1>1. consumer \in Consumer /\ stopping \in Stopping BY RuntimeTypes
<1>2. stopping[o].consumer = "dispose" /\ UNCHANGED <<realtime, replacement>>
  BY DEF ConsumerFails
<1>3. /\ waiting \in SUBSET Owners /\ \A p \in waiting : stopping[p].consumer = o
      /\ \A p \in Owners \ waiting : stopping[p].consumer # o
      /\ \A p \in Owners : p \in Stops
  BY <1>1, ConsumerLanes, NamesApart, StopLanes DEF Lanes
<1>4. /\ \A p \in waiting \cup {o} : /\ stopping'[p].consumer = "failed"
                                   /\ stopping'[p].realtime = stopping[p].realtime
      /\ \A p \in Stops : p \notin waiting \cup {o} => stopping'[p] = stopping[p]
  <2>1. stopping' = [p \in Stops |-> IF p \in waiting \cup {o}
                       THEN [stopping[p] EXCEPT !.consumer = "failed"] ELSE stopping[p]]
    BY DEF ConsumerFails
  <2> HIDE DEF waiting
  <2>2. \A p \in waiting \cup {o} : p \in Stops /\ stopping[p] \in LanePair
    BY <1>1, <1>3, LaneTypes
  <2> QED BY <2>1, <2>2 DEF LanePair
<1>5. /\ consumer'.startup = consumer.startup
      /\ consumer'.cleanup = IF consumer.cleanup = o THEN "none" ELSE consumer.cleanup
  BY <1>1 DEF ConsumerFails, Consumer
<1> HIDE DEF waiting
<1>6. o \notin {"none", "startup", "dispose", "done", "failed"} BY NamesApart
<1>7. SameStops
  <2> SUFFICES ASSUME NEW p \in Owners PROVE SameBegun(stopping, stopping', p)
    BY <1>2 DEF SameStops
  <2>1. CASE p \in waiting \cup {o} BY <1>2, <1>3, <1>4, <1>6, <2>1 DEF SameBegun
  <2>2. CASE p \notin waiting \cup {o} BY <1>3, <1>4, <2>2 DEF SameBegun
  <2> QED BY <2>1, <2>2
<1>8. RealtimeServed(realtime', stopping')
  <2>1. \A p \in Stops : stopping'[p].realtime = stopping[p].realtime BY <1>3, <1>4
  <2> QED BY <1>2, <2>1 DEF Served, RealtimeServed
<1>9. ConsumerServed(consumer', stopping')
  <2>1. ASSUME NEW p \in Owners, stopping'[p].consumer = "startup"
        PROVE  consumer'.startup # "none"
    BY <1>3, <1>4, <1>5, <2>1 DEF Served, ConsumerServed, Serves
  <2>2. ASSUME NEW p \in Owners, NEW q \in Owners, stopping'[p].consumer = q
        PROVE  stopping'[q].consumer = "dispose"
    <3>1. p \notin waiting \cup {o} BY <1>4, <2>2, NamesApart
    <3>2. stopping[p].consumer = q /\ q # o BY <1>3, <1>4, <2>2, <3>1
    <3>3. stopping[q].consumer = "dispose" BY <3>2 DEF Served, ConsumerServed, Serves
    <3>4. q \notin waiting BY <1>3, <1>6, <3>3
    <3> QED BY <1>3, <1>4, <3>2, <3>3, <3>4
  <2>3. ASSUME NEW q \in Owners, consumer'.cleanup = q
        PROVE  stopping'[q].consumer = "dispose"
    <3>1. q # o /\ consumer.cleanup = q BY <1>5, <2>3, NamesApart
    <3>2. stopping[q].consumer = "dispose" BY <3>1 DEF Served, ConsumerServed, Serves
    <3>3. q \notin waiting BY <1>3, <1>6, <3>2
    <3> QED BY <1>3, <1>4, <3>1, <3>2, <3>3
  <2> QED BY <2>1, <2>2, <2>3 DEF ConsumerServed, Serves
<1> QED BY <1>7, <1>8, <1>9, StopsBeginNext DEF Served

\* Every step of the runtime's tasks leaves each stop something to wait for; only the end of a
\* replacement ends a stop.
LEMMA RuntimeStepServed ==
  ASSUME RuntimeInv, Served, RuntimeStep
  PROVE  Served' /\ \A o \in Owners : o # "replacement" => SameBegun(stopping, stopping', o)
<1>1. ASSUME Served', SameStops
      PROVE  Served' /\ \A o \in Owners : o # "replacement" => SameBegun(stopping, stopping', o)
  BY <1>1 DEF SameStops
<1>2. CASE RealtimeTask BY <1>1, <1>2, RealtimeTaskServed
<1>3. CASE ConsumerTask BY <1>1, <1>3, ConsumerTaskServed
<1>4. CASE \/ \E o \in Stops : SupervisorDisposed(o)
           \/ \E o \in Owners : ConsumerDisposed(o) \/ ConsumerFails(o)
  BY <1>1, <1>4, SupervisorDisposedServed, ConsumerDisposedServed, ConsumerFailsServed
<1>5. CASE Replaced
  <2>1. "replacement" \in Owners BY DEF Owners
  <2>2. /\ StopReturns(stopping, "replacement") \/ StopRejects(stopping, "replacement")
        /\ replacement' = None
        /\ realtime.startup # "none" => realtime'.startup # "none"
        /\ consumer.startup # "none" => consumer'.startup # "none"
        /\ consumer'.cleanup \in {consumer.cleanup, "ensure"}
    BY <1>5, RuntimeTypes DEF Replaced, EnsureRealtime, EnsureConsumer, Consumer
  <2>3. /\ RealtimeServed(realtime', stopping') /\ ConsumerServed(consumer', stopping')
        /\ Idle(stopping', "replacement")
        /\ \A p \in Owners : p # "replacement" => stopping'[p] = stopping[p]
    BY <2>1, <2>2, StopOverServed
  <2>4. StopsBegin' BY <2>1, <2>2, <2>3 DEF Served, StopsBegin, Begun, Idle
  <2> QED BY <2>3, <2>4 DEF Served, SameBegun
<1>6. CASE Synchronized
  <2>1. /\ consumer.startup # "none" => consumer'.startup # "none"
        /\ consumer'.cleanup \in {consumer.cleanup, "ensure"}
        /\ UNCHANGED <<realtime, replacement, stopping>>
    BY <1>6, RuntimeTypes DEF Synchronized, EnsureConsumer, Consumer
  <2>2. "ensure" \notin Owners BY RefreshesAssumption DEF Owners
  <2> QED BY <2>1, <2>2
      DEF Served, StopsBegin, RealtimeServed, ConsumerServed, Serves, SameBegun
<1> QED BY <1>2, <1>3, <1>4, <1>5, <1>6 DEF RuntimeStep

\* Nothing has begun in a process that has started.
LEMMA FreshServed ==
  ASSUME NEW s, NEW r, NEW c, s = NotStopping, c = NoConsumer
  PROVE  /\ RealtimeServed(r, s) /\ ConsumerServed(c, s)
         /\ \A o \in Owners : Idle(s, o) /\ ~Begun(s, o)
<1>1. \A o \in Stops : s[o] = [realtime |-> "none", consumer |-> "none"] BY DEF NotStopping
<1> QED BY <1>1, NamesApart, StopLanes
    DEF RealtimeServed, ConsumerServed, Serves, Begun, Idle, NoConsumer

\* A runtime in which something is in flight goes on, or what is in flight is a stop that is
\* over, or rejected, and that its caller has yet to see.
LEMMA ServedMoves ==
  ASSUME RuntimeInv, Served, RuntimeBusy, ~RuntimeMoves
  PROVE  /\ \A o \in Owners : Begun(stopping, o) => Stopped(o) \/ Rejected(o)
         /\ replacement = None
         /\ \E o \in Owners : o # "replacement" /\ Begun(stopping, o)
<1>1. stopping \in Stopping BY RuntimeTypes
<1>2. /\ realtime.startup = "none" /\ consumer.startup = "none"
      /\ ~Stopped("replacement") /\ ~Rejected("replacement")
      /\ \A o \in Stops : stopping[o].realtime # "dispose" /\ stopping[o].consumer # "dispose"
  BY DEF RuntimeMoves
<1>3. ASSUME NEW o \in Owners, Begun(stopping, o) PROVE Stopped(o) \/ Rejected(o)
  <2>1. stopping[o] \in LanePair /\ o \in Stops BY <1>1, LaneTypes, StopLanes
  <2>2. stopping[o].realtime = "done"
    BY <1>2, <1>3, <2>1 DEF LanePair, Begun, Served, RealtimeServed
  <2>3. stopping[o].consumer \in {"done", "failed"}
    BY <1>2, <1>3, <2>1, StopLanes DEF LanePair, Begun, Served, ConsumerServed, Serves
  <2> QED BY <2>1, <2>2, <2>3 DEF LanePair, Stopped, Rejected
<1>4. "replacement" \in Owners BY DEF Owners
<1>5. replacement = None BY <1>2, <1>3, <1>4 DEF Served, StopsBegin
<1>6. stopping # NotStopping BY <1>2, <1>5 DEF RuntimeBusy
<1>7. ASSUME \A o \in Owners : Idle(stopping, o) PROVE FALSE
  <2>1. ASSUME NEW o \in Stops PROVE stopping[o] = [realtime |-> "none", consumer |-> "none"]
    <3>1. stopping[o] \in LanePair BY <1>1 DEF Stopping
    <3>2. CASE o \in Owners BY <1>7, <3>1, <3>2 DEF LanePair, Idle
    <3>3. CASE o \in Strays
      <4>1. stopping[o] \in StrayPair BY <1>1, <3>3 DEF Stopping, Strayed
      <4>2. stopping[o].realtime \notin {"startup", "dispose"}
        BY <1>2 DEF Served, RealtimeServed
      <4> QED BY <4>1, <4>2 DEF StrayPair
    <3> QED BY <3>2, <3>3, StopLanes
  <2>2. stopping = NotStopping BY <1>1, <2>1 DEF Stopping, NotStopping
  <2> QED BY <1>6, <2>2
<1>8. PICK o \in Owners : Begun(stopping, o) BY <1>7 DEF Served, StopsBegin
<1> QED BY <1>2, <1>3, <1>5, <1>8

-----------------------------------------------------------------------------
(* What one stop has emptied, while nobody else asks for the runtime. *)

\* The lanes m of a stop: startups are fenced and it waits for them, and what it does not wait
\* for any more is gone.
Held(r, c, m) ==
  /\ r.slot = None
  /\ r.startup # "none" => r.fenced /\ m.realtime = "startup"
  /\ c.startup # "none" => c.fenced /\ m.consumer = "startup"
  /\ m.consumer \in {"dispose", "done"} => c.slot = None

Emptied(r, c) ==
  r.startup = "none" /\ r.slot = None /\ c.startup = "none" /\ c.slot = None

\* Lanes that detach leave no consumer, and touch nothing else.
LEMMA DetachEmpties ==
  ASSUME NEW c \in Consumer, NEW s \in Stopping, NEW os \in SUBSET Owners,
         NEW next \in Detach(c, s, os)
  PROVE  /\ next[1].startup = c.startup /\ next[1].fenced = c.fenced
         /\ os # {} \/ c.slot = None => next[1].slot = None
         /\ \A p \in Stops : next[2][p].realtime = s[p].realtime
         /\ \A p \in Stops \ os : next[2][p] = s[p]
<1>1. CASE os = {} BY <1>1 DEF Detach
<1>2. CASE os # {}
  <2> DEFINE L(o, p) == IF p \notin os THEN s[p]
                        ELSE [s[p] EXCEPT !.consumer = IF p = o /\ c.slot # None THEN "dispose"
                                                       ELSE "done"]
             C(o) == IF c.slot = None THEN c
                     ELSE [c EXCEPT !.slot = None, !.cleanup = o, !.kept = FALSE]
  <2>1. PICK o \in os : next = <<C(o), [p \in Stops |-> L(o, p)]>> BY <1>2 DEF Detach
  <2>2. ASSUME NEW p \in Stops
        PROVE  L(o, p).realtime = s[p].realtime /\ (p \notin os => L(o, p) = s[p])
    <3>1. s[p] \in LanePair BY DEF Stopping
    <3> QED BY <3>1 DEF LanePair
  <2> HIDE DEF L, C
  <2> QED BY <1>2, <2>1, <2>2, DetachHalts
<1> QED BY <1>1, <1>2

\* ... or wait for a disposal.
LEMMA AwaitCleanupEmpties ==
  ASSUME NEW c \in Consumer, c.cleanup \in Owners \cup {"none"}, NEW s \in Stopping,
         NEW os \in SUBSET Owners, NEW next \in AwaitCleanup(c, s, os)
  PROVE  /\ next[1].startup = c.startup /\ next[1].fenced = c.fenced
         /\ \A p \in os : next[2][p].consumer \in Owners \/ next[1].slot = None
         /\ \A p \in Stops : next[2][p].realtime = s[p].realtime
         /\ \A p \in Stops \ os : next[2][p] = s[p]
<1>1. CASE c.cleanup = "none" BY <1>1, DetachEmpties DEF AwaitCleanup
<1>2. CASE c.cleanup # "none"
  <2> DEFINE L(p) == IF p \in os THEN [s[p] EXCEPT !.consumer = c.cleanup] ELSE s[p]
  <2>1. next = <<c, [p \in Stops |-> L(p)]>> BY <1>2 DEF AwaitCleanup
  <2>2. ASSUME NEW p \in Stops
        PROVE  /\ L(p).realtime = s[p].realtime
               /\ p \in os => L(p).consumer \in Owners
               /\ p \notin os => L(p) = s[p]
    <3>1. s[p] \in LanePair BY DEF Stopping
    <3> QED BY <1>2, <3>1 DEF LanePair
  <2> HIDE DEF L
  <2>3. \A p \in os : p \in Stops BY StopLanes
  <2> QED BY <2>1, <2>2, <2>3
<1> QED BY <1>1, <1>2

\* The end of the consumer's startup, for a stop that waited for it.
LEMMA ConsumerStartedEmpties ==
  ASSUME NEW c \in Consumer, c.cleanup \in Owners \cup {"none"}, NEW s \in Stopping,
         NEW o \in Owners, s[o].consumer = "startup", NEW next \in ConsumerStarted(c, s)
  PROVE  /\ next[1].startup = "none"
         /\ next[2][o].consumer \in Owners \/ next[1].slot = None
         /\ next[2][o].realtime = s[o].realtime
<1> DEFINE ended == [c EXCEPT !.startup = "none"]
           os == Lanes(s, "consumer", "startup")
<1>1. ended \in Consumer /\ ended.cleanup = c.cleanup /\ ended.startup = "none" BY DEF Consumer
<1>2. os \in SUBSET Owners /\ o \in os /\ o \in Stops BY ConsumerLanes, StopLanes DEF Lanes
<1>3. next \in AwaitCleanup(ended, s, os) BY DEF ConsumerStarted
<1> HIDE DEF ended, os
<1> QED BY <1>1, <1>2, <1>3, AwaitCleanupEmpties

\* A stop takes what is running, or waits for what is starting; it starts nothing.
LEMMA BeginStopHolds ==
  ASSUME RuntimeInv, OneStartup, NEW o \in Owners, BeginStop(o)
  PROVE  /\ Held(realtime', consumer', stopping'[o])
         /\ realtime'.startup = realtime.startup /\ consumer'.startup = consumer.startup
<1> DEFINE R == StopRealtime(realtime, stopping, o)
           fenced == [consumer EXCEPT !.fenced = TRUE]
           at == IF realtime.startup # "none" THEN "startup"
                 ELSE IF realtime.slot # None THEN "dispose" ELSE "done"
           left == Lane(stopping, o, "realtime", at)
<1>1. /\ realtime \in Realtime /\ stopping \in Stopping
      /\ consumer \in Consumer /\ CleanupShape(consumer) /\ o \in Stops
  BY RuntimeTypes, StopLanes
<1>2. R[2] = left /\ R[1].startup = realtime.startup /\ R[1].fenced /\ R[1].slot = None
  <2>1. R[2] = left BY DEF StopRealtime
  <2>2. R[1] = [realtime EXCEPT !.fenced = TRUE,
                                !.slot = IF realtime.startup = "none" THEN None ELSE @]
    BY DEF StopRealtime
  <2> QED BY <2>1, <2>2, <1>1 DEF Realtime, OneStartup
<1>3. at \in {"startup", "dispose", "done"} /\ (realtime.startup # "none" => at = "startup")
  OBVIOUS
<1> HIDE DEF at
<1>4. left \in Stopping /\ left[o].realtime = at
  <2>1. stopping[o] \in LanePair BY <1>1, LaneTypes
  <2> QED BY <1>1, <1>3, <2>1, LaneTypes DEF Lane, Stopping, LanePair
<1>5. /\ fenced \in Consumer /\ fenced.startup = consumer.startup /\ fenced.fenced
      /\ fenced.cleanup = consumer.cleanup
  BY <1>1 DEF Consumer
<1>6. PICK next \in StopConsumer(consumer, left, o) :
        realtime' = R[1] /\ consumer' = next[1] /\ stopping' = next[2]
  BY <1>2 DEF BeginStop
<1> HIDE DEF R, left
<1>7. /\ next[1].startup = consumer.startup /\ next[1].fenced
      /\ next[2][o].realtime = at
      /\ consumer.startup # "none" => next[2][o].consumer = "startup"
      /\ next[2][o].consumer \in {"dispose", "done"} => next[1].slot = None
  <2>1. CASE consumer.startup # "none"
    <3>1. next = <<fenced, Lane(left, o, "consumer", "startup")>>
      BY <1>6, <2>1 DEF StopConsumer
    <3>2. left[o] \in LanePair BY <1>1, <1>4 DEF Stopping
    <3>3. /\ Lane(left, o, "consumer", "startup")[o].consumer = "startup"
          /\ Lane(left, o, "consumer", "startup")[o].realtime = at
      BY <1>1, <1>4, <3>2 DEF Lane, Stopping, LanePair
    <3> HIDE DEF fenced
    <3> QED BY <1>5, <3>1, <3>3
  <2>2. CASE consumer.startup = "none"
    <3>1. next \in AwaitCleanup(fenced, left, {o}) BY <1>6, <2>2 DEF StopConsumer
    <3>2. fenced.cleanup \in Owners \cup {"none"} BY <1>1, <1>5, <2>2 DEF CleanupShape
    <3> HIDE DEF fenced
    <3>3. {o} \in SUBSET Owners OBVIOUS
    <3>4. next[1].fenced = fenced.fenced
      BY <1>4, <1>5, <3>1, <3>2, <3>3, AwaitCleanupEmpties
    <3>5. next[1].fenced BY <1>5, <3>4, Zenon
    <3>6. next[2][o].consumer \in {"dispose", "done"} => next[1].slot = None
      BY <1>4, <1>5, <3>1, <3>2, <3>3, AwaitCleanupEmpties, NamesApart
    <3>7. next[1].startup = consumer.startup /\ next[2][o].realtime = at
      BY <1>1, <1>4, <1>5, <3>1, <3>2, <3>3, AwaitCleanupEmpties
    <3> QED BY <2>2, <3>5, <3>6, <3>7, Zenon
  <2> QED BY <2>1, <2>2
<1> QED BY <1>2, <1>3, <1>6, <1>7 DEF Held

\* A replacement ends but once.
LEMMA ReplacedMoves ==
  ASSUME Served, Replaced
  PROVE  replacement' # replacement
<1>1. "replacement" \in Owners BY DEF Owners
<1>2. stopping["replacement"].consumer # "none"
  BY DEF Replaced, StopReturns, StopRejects, Stopped, Rejected
<1> QED BY <1>1, <1>2 DEF Served, StopsBegin, Begun, Idle, Replaced

\* The tasks of the runtime empty it for the stop that holds it.
LEMMA RuntimeStepHolds ==
  ASSUME RuntimeInv, Served, NEW o \in Owners, Held(realtime, consumer, stopping[o]),
         RuntimeStep, replacement' = replacement
  PROVE  Held(realtime', consumer', stopping'[o])
<1>1. /\ realtime \in Realtime /\ stopping \in Stopping
      /\ consumer \in Consumer /\ CleanupShape(consumer) /\ o \in Stops
      /\ stopping[o] \in LanePair
  BY RuntimeTypes, StopLanes, LaneTypes
<1>2. ASSUME NEW next \in RealtimeStarted(realtime, stopping), UNCHANGED consumer,
             realtime' = next[1], stopping' = next[2]
      PROVE  Held(realtime', consumer', stopping'[o])
  BY <1>1, <1>2, RealtimeStartedHalts DEF Held
<1>3. CASE StartupReadsMarker
  <2>1. CASE signedOut' # "in" BY <1>2, <1>3, <2>1 DEF StartupReadsMarker
  <2>2. CASE signedOut' = "in"
    <3>1. realtime' = [realtime EXCEPT !.startup = "identity"] /\ UNCHANGED <<consumer, stopping>>
          /\ realtime.startup = "marker"
      BY <1>3, <2>2 DEF StartupReadsMarker
    <3>2. realtime'.slot = realtime.slot /\ realtime'.fenced = realtime.fenced
      BY <1>1, <3>1 DEF Realtime
    <3> QED BY <3>1, <3>2 DEF Held
  <2> QED BY <2>1, <2>2
<1>4. CASE StartupOpens BY <1>4 DEF StartupOpens, Held
<1>5. CASE StartupEnds BY <1>2, <1>5 DEF StartupEnds
<1>6. ASSUME NEW c \in Consumer, c.cleanup \in Owners \cup {"none"},
             stopping[o].consumer = "startup", UNCHANGED realtime,
             \E next \in ConsumerStarted(c, stopping) : consumer' = next[1] /\ stopping' = next[2]
      PROVE  Held(realtime', consumer', stopping'[o])
  BY <1>1, <1>6, ConsumerStartedEmpties, NamesApart DEF Held
<1>7. CASE ConsumerReplaces
  <2> DEFINE cleaned == [consumer EXCEPT !.cleanup = IF @ = "ensure" THEN "none" ELSE @]
  <2>1. cleaned \in Consumer /\ cleaned.cleanup \in Owners \cup {"none"} BY <1>1 DEF Consumer
  <2>2. consumer.fenced /\ stopping[o].consumer = "startup" BY <1>7 DEF ConsumerReplaces, Held
  <2>3. \E next \in ConsumerStarted(cleaned, stopping) :
          consumer' = next[1] /\ stopping' = next[2]
    BY <1>7, <2>2 DEF ConsumerReplaces
  <2> HIDE DEF cleaned
  <2> QED BY <1>6, <1>7, <2>1, <2>2, <2>3 DEF ConsumerReplaces
<1>8. CASE ConsumerReady
  <2>1. consumer.cleanup \in Owners \cup {"none"} BY <1>1, <1>8 DEF ConsumerReady, CleanupShape
  <2> QED BY <1>1, <1>6, <1>8, <2>1 DEF ConsumerReady, Held
<1>9. ASSUME NEW p \in Stops, SupervisorDisposed(p) PROVE Held(realtime', consumer', stopping'[o])
  <2>1. stopping' = Lane(stopping, p, "realtime", Over(p)) /\ UNCHANGED <<realtime, consumer>>
    BY <1>9 DEF SupervisorDisposed
  <2>2. stopping'[o].consumer = stopping[o].consumer BY <1>1, <2>1, LaneOver
  <2>3. realtime.startup # "none" => stopping'[o] = stopping[o]
    BY <1>1, <1>9, <2>1 DEF SupervisorDisposed, Held, Lane, Stopping
  <2> QED BY <2>1, <2>2, <2>3 DEF Held
<1>10. ASSUME NEW p \in Owners, ConsumerDisposed(p)
       PROVE  Held(realtime', consumer', stopping'[o])
  <2> DEFINE cleaned == [consumer EXCEPT !.cleanup = IF @ = p THEN "none" ELSE @]
             left == Lane(stopping, p, "consumer", "done")
             os == Lanes(stopping, "consumer", p)
  <2>1. /\ cleaned \in Consumer /\ cleaned.startup = consumer.startup
        /\ cleaned.slot = consumer.slot /\ cleaned.fenced = consumer.fenced
    BY <1>1 DEF Consumer
  <2>2. left \in Stopping BY <1>1, LaneTypes
  <2>3. /\ o # p => left[o] = stopping[o]
        /\ left[o].realtime = stopping[o].realtime
    BY <1>1, StopLanes DEF Lane, Stopping, LanePair
  <2>4. os \in SUBSET Owners BY <1>1, ConsumerLanes, NamesApart
  <2>5. PICK next \in Detach(cleaned, left, os) : consumer' = next[1] /\ stopping' = next[2]
    BY <1>10 DEF ConsumerDisposed
  <2>6. o \in os => stopping[o].consumer = p BY DEF Lanes
  <2>11. stopping[p].consumer = "dispose" /\ "startup" # p /\ UNCHANGED realtime
    BY <1>10, NamesApart DEF ConsumerDisposed
  <2> HIDE DEF cleaned, left, os
  <2>7. /\ consumer'.startup = consumer.startup /\ consumer'.fenced = consumer.fenced
        /\ os # {} \/ consumer.slot = None => consumer'.slot = None
        /\ stopping'[o].realtime = stopping[o].realtime
        /\ o \notin os => stopping'[o] = left[o]
    BY <1>1, <2>1, <2>2, <2>3, <2>4, <2>5, DetachEmpties
  <2>8. consumer.startup # "none" => stopping'[o] = stopping[o]
    BY <2>3, <2>6, <2>7, <2>11 DEF Held
  <2>9. os = {} => consumer'.slot = consumer.slot
    BY <2>1, <2>5 DEF Detach
  <2>10. stopping'[o].consumer \in {"dispose", "done"} => consumer'.slot = None
    BY <2>3, <2>7, <2>9, <2>11 DEF Held
  <2> QED BY <2>7, <2>8, <2>10, <2>11 DEF Held
<1>11. ASSUME NEW p \in Owners, ConsumerFails(p) PROVE Held(realtime', consumer', stopping'[o])
  <2> DEFINE waiting == Lanes(stopping, "consumer", p)
             L(q) == IF q \in waiting \cup {p} THEN [stopping[q] EXCEPT !.consumer = "failed"]
                     ELSE stopping[q]
  <2>1. /\ consumer'.startup = consumer.startup /\ consumer'.slot = consumer.slot
        /\ consumer'.fenced = consumer.fenced
    <3> DEFINE kept == consumer.kept \/ (waiting # {} /\ consumer.slot # None)
               cleanup == IF consumer.cleanup = p THEN "none" ELSE consumer.cleanup
    <3>1. consumer' = [consumer EXCEPT !.cleanup = cleanup, !.kept = kept]
      BY <1>11 DEF ConsumerFails
    <3> HIDE DEF kept, cleanup
    <3> QED BY <1>1, <3>1 DEF Consumer
  <2>2. /\ stopping' = [q \in Stops |-> L(q)] /\ UNCHANGED realtime
        /\ stopping[p].consumer = "dispose" /\ p # "startup"
    BY <1>11, NamesApart DEF ConsumerFails
  <2>3. /\ L(o).realtime = stopping[o].realtime
        /\ L(o) = stopping[o] \/ L(o).consumer = "failed"
        /\ L(o) = stopping[o] \/ stopping[o].consumer \in {"dispose", p}
    BY <1>1, <2>2 DEF LanePair, Lanes
  <2> HIDE DEF L, waiting
  <2>4. stopping'[o] = L(o) BY <1>1, <2>2
  <2> QED BY <2>1, <2>2, <2>3, <2>4 DEF Held
<1>12. ~Replaced BY ReplacedMoves
<1>13. ~Synchronized BY DEF Synchronized, Held
<1> QED BY <1>3, <1>4, <1>5, <1>7, <1>8, <1>9, <1>10, <1>11, <1>12, <1>13
        DEF RuntimeStep, RealtimeTask, ConsumerTask

\* ... and start nothing in an empty one.
LEMMA RuntimeStepEmpty ==
  ASSUME RuntimeInv, Served, Emptied(realtime, consumer), RuntimeStep, replacement' = replacement
  PROVE  Emptied(realtime', consumer')
<1>1. stopping \in Stopping /\ consumer \in Consumer BY RuntimeTypes
<1>2. ~RealtimeTask /\ ~ConsumerTask /\ ~Synchronized
  BY DEF Emptied, RealtimeTask, ConsumerTask, StartupReadsMarker, StartupOpens, StartupEnds,
         ConsumerReplaces, ConsumerReady, Synchronized
<1>3. ASSUME NEW o \in Owners, ConsumerDisposed(o) PROVE Emptied(realtime', consumer')
  <2> DEFINE cleaned == [consumer EXCEPT !.cleanup = IF @ = o THEN "none" ELSE @]
             left == Lane(stopping, o, "consumer", "done")
             os == Lanes(stopping, "consumer", o)
  <2>1. /\ cleaned \in Consumer /\ cleaned.startup = consumer.startup
        /\ cleaned.slot = consumer.slot
    BY <1>1 DEF Consumer
  <2>2. left \in Stopping /\ os \in SUBSET Owners BY <1>1, LaneTypes, ConsumerLanes, NamesApart
  <2>3. UNCHANGED realtime /\ \E next \in Detach(cleaned, left, os) : consumer' = next[1]
    BY <1>3 DEF ConsumerDisposed
  <2> HIDE DEF cleaned, left, os
  <2> QED BY <2>1, <2>2, <2>3, DetachEmpties DEF Emptied
<1>4. ASSUME NEW o \in Owners, ConsumerFails(o) PROVE Emptied(realtime', consumer')
  <2>1. PICK cleanup, kept : consumer' = [consumer EXCEPT !.cleanup = cleanup, !.kept = kept]
    BY <1>4 DEF ConsumerFails
  <2> QED BY <1>1, <1>4, <2>1 DEF ConsumerFails, Consumer, Emptied
<1>5. ASSUME NEW o \in Stops, SupervisorDisposed(o) PROVE Emptied(realtime', consumer')
  BY <1>5 DEF SupervisorDisposed, Emptied
<1> QED BY <1>2, <1>3, <1>4, <1>5, ReplacedMoves DEF RuntimeStep
=============================================================================
