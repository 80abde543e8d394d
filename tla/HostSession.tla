------------------------------ MODULE HostSession ------------------------------
(***************************************************************************)
(* The account session of one tenant (AwikiService in src/index.ts and     *)
(* AwikiSessionStore in src/session.ts): sign-out, sign-in, recovery,      *)
(* clearing and device retirement, serialized by mutateSession(), and the  *)
(* reads and registrations that are not; composed with ProviderRuntime.    *)
(*                                                                         *)
(* sessionRevision is only compared with a captured value, so a recovery   *)
(* carries fenced in its place.  A call of the SDK answers and is resumed  *)
(* in one step.  The tenant does not change (see TenantSwitch), the plugin *)
(* version is supported (see UpdatePolicy), and concurrent first reads of  *)
(* the marker file are not overtaken by a write of it.                     *)
(***************************************************************************)
EXTENDS ProviderRuntime, Sequences

CONSTANTS
  Callers,  \* the concurrent remote calls
  Ops       \* the operations they make, a subset of AllOps

AllOps == {"logout", "login", "recover", "clear", "retire",
           "getSession", "getIdentity", "register"}

ASSUME OpsAssumption == Ops \subseteq AllOps

VARIABLES
  calls,     \* the calls in flight: what they do, and the await they are at
  queue,     \* sessionMutation: the serialized calls, the head running
  published  \* the last session event

vars == <<runtimeVars, calls, queue, published>>

Call == [op : AllOps \cup {"none"},
         at : {"idle", "marker", "status", "queued", "core", "write", "mail", "stop"},
         did : Did,          \* the identity the call captured
         fenced : BOOLEAN,   \* sessionRevision has advanced since it was captured
         active : BOOLEAN,   \* alreadyActive
         beside : BOOLEAN]   \* ghost: since its stop began, an answer that is not serialized,
                             \* or a replacement, has asked for the runtime

TypeOK ==
  /\ RuntimeTypeOK
  /\ calls \in [Callers -> Call]
  /\ queue \in Seq(Callers)
  /\ published \in [status : {"none", "signed-out", "unregistered", "active"}, did : Did]

Session(status) == [status |-> status, did |-> None]
Active(did) == [status |-> "active", did |-> did]

NoCall == [op |-> "none", at |-> "idle", did |-> None, fenced |-> FALSE, active |-> FALSE,
           beside |-> FALSE]

Init ==
  /\ identity \in Did /\ marker \in BOOLEAN /\ restricted = FALSE
  /\ FreshRuntime
  /\ calls = [c \in Callers |-> NoCall] /\ queue = <<>> /\ published = Session("none")

-----------------------------------------------------------------------------

At(c, op, at) == calls[c].op = op /\ calls[c].at = at

\* A serialized call whose turn has come.
Turn(c, op, at) == At(c, op, at) /\ queue # <<>> /\ Head(queue) = c

\* The call goes on to its next await.
Goto(c, at) == calls' = [calls EXCEPT ![c].at = at]

\* sessionRevision advances.
Fence(cs) == [c \in Callers |-> [cs[c] EXCEPT !.fenced = (cs[c].op = "recover")]]

\* The runtime is asked for beside the calls that have stopped it.
Beside(cs) ==
  [c \in Callers |->
     IF cs[c].op \in {"clear", "retire"} /\ cs[c].at \in {"stop", "core"}
     THEN [cs[c] EXCEPT !.beside = TRUE] ELSE cs[c]]

\* The call returns; a serialized one leaves the queue.
Return(c, cs) ==
  /\ calls' = [cs EXCEPT ![c] = NoCall]
  /\ queue' = IF queue # <<>> /\ Head(queue) = c THEN Tail(queue) ELSE queue

-----------------------------------------------------------------------------
(* The calls arrive.                                                        *)

Enqueue(c, op, cs) ==
  /\ calls' = [cs EXCEPT ![c] = [NoCall EXCEPT !.op = op, !.at = "queued"]]
  /\ queue' = Append(queue, c)

\* Mutant: the revision does not advance until the operation runs.
RequestUnfenced(c, op) ==
  /\ calls[c] = NoCall /\ op \in Ops
  /\ \/ op \in {"logout", "clear", "login", "retire"} /\ Enqueue(c, op, calls)
     \/ /\ op \in {"recover", "getSession", "getIdentity", "register"}
        /\ calls' = [calls EXCEPT ![c] = [NoCall EXCEPT !.op = op,
                       !.at = IF op = "recover" THEN "status" ELSE "marker"]]
        /\ UNCHANGED queue
  /\ UNCHANGED <<runtimeVars, published>>

Request(c, op) ==
  /\ calls[c] = NoCall /\ op \in Ops
  /\ \/ op \in {"logout", "clear"} /\ Enqueue(c, op, Fence(calls))
     \/ op \in {"login", "retire"} /\ Enqueue(c, op, calls)
     \/ /\ op \in {"recover", "getSession", "getIdentity", "register"}
        /\ calls' = [calls EXCEPT ![c] = [NoCall EXCEPT !.op = op,
                       !.at = IF op = "recover" THEN "status" ELSE "marker"]]
        /\ UNCHANGED queue
  /\ UNCHANGED <<runtimeVars, published>>

-----------------------------------------------------------------------------
(* Reads and registration.                                                  *)

\* A signed-out account stops the call; getSession() also forgets the identity.  The marker
\* may be unreadable.
ReadChecks(c) ==
  /\ \E op \in {"getSession", "getIdentity", "register"} : At(c, op, "marker")
  /\ \/ /\ IsSignedOut = "in" /\ signedOut' = "in"
        /\ Goto(c, "core") /\ UNCHANGED <<activeDid, queue>>
     \/ /\ IsSignedOut = "out" /\ signedOut' = "out"
        /\ Return(c, calls)
        /\ activeDid' = IF calls[c].op = "getSession" THEN None ELSE activeDid
     \/ /\ Failures /\ UNCHANGED <<signedOut, activeDid>>
        /\ Return(c, calls)
  /\ UNCHANGED <<identity, marker, restricted, runtime, published>>

\* The call fails, or Core refuses the registration.
ReadFails(c) ==
  /\ \E op \in {"getSession", "getIdentity", "register"} : At(c, op, "core")
  /\ Failures \/ (calls[c].op = "register" /\ identity # None)
  /\ Return(c, calls)
  /\ UNCHANGED <<runtimeVars, published>>

GetSession(c) ==
  /\ At(c, "getSession", "core")
  /\ activeDid' = identity
  /\ \/ identity = None /\ UNCHANGED runtime /\ Return(c, calls)
     \/ /\ identity # None /\ EnsureRuntime(identity, signedOut, restricted)
        /\ Return(c, Beside(calls))
  /\ UNCHANGED <<identity, marker, signedOut, restricted, published>>

GetIdentity(c) ==
  /\ At(c, "getIdentity", "core")
  /\ activeDid' = identity
  /\ Return(c, calls)
  /\ UNCHANGED <<identity, marker, signedOut, restricted, runtime, published>>

Register(c) ==
  /\ At(c, "register", "core") /\ identity = None
  /\ identity' \in Dids
  /\ activeDid' = identity' /\ published' = Active(identity')
  /\ EnsureRuntime(identity', signedOut, restricted)
  /\ Return(c, Beside(calls))
  /\ UNCHANGED <<marker, signedOut, restricted>>

-----------------------------------------------------------------------------
(* logout(), login()                                                        *)

LogoutChecks(c) ==
  /\ Turn(c, "logout", "queued")
  /\ \/ /\ IsSignedOut = "in" /\ signedOut' = "in"
        /\ Goto(c, "write") /\ UNCHANGED queue
     \/ IsSignedOut = "out" /\ signedOut' = "out" /\ Return(c, calls)
     \/ Failures /\ UNCHANGED signedOut /\ Return(c, calls)
  /\ UNCHANGED <<identity, marker, activeDid, restricted, runtime, published>>

\* Mutant: logout() returns without waiting for the runtime to stop.
LogoutUnawaited(c) ==
  /\ Turn(c, "logout", "write")
  /\ marker' = TRUE /\ signedOut' = "out" /\ activeDid' = None
  /\ published' = Session("signed-out")
  /\ Return(c, Fence(calls))
  /\ BeginStop("mutation")
  /\ UNCHANGED <<identity, restricted, replacement>>

Logout(c) ==
  /\ Turn(c, "logout", "write")
  /\ marker' = TRUE /\ signedOut' = "out" /\ activeDid' = None
  /\ published' = Session("signed-out")
  /\ calls' = [Fence(calls) EXCEPT ![c].at = "stop"]
  /\ BeginStop("mutation")
  /\ UNCHANGED <<identity, restricted, replacement, queue>>

\* Mutant: the flag is set before the marker is written.
LogoutFailsCached(c) ==
  /\ Failures /\ Turn(c, "logout", "write")
  /\ marker' \in {marker, TRUE} /\ signedOut' = "out"
  /\ Return(c, calls)
  /\ UNCHANGED <<identity, activeDid, restricted, runtime, published>>

\* The marker could not be written, or not be given its mode.
LogoutFails(c) ==
  /\ Failures /\ Turn(c, "logout", "write")
  /\ marker' \in {marker, TRUE}
  /\ Return(c, calls)
  /\ UNCHANGED <<identity, signedOut, activeDid, restricted, runtime, published>>

LoginChecks(c) ==
  /\ Turn(c, "login", "queued")
  /\ \/ identity # None
        /\ calls' = [calls EXCEPT ![c].at = "write", ![c].did = identity]
        /\ UNCHANGED queue
     \/ (identity = None \/ Failures) /\ Return(c, calls)
  /\ UNCHANGED <<runtimeVars, published>>

Login(c) ==
  /\ Turn(c, "login", "write")
  /\ marker' = FALSE /\ signedOut' = "in" /\ activeDid' = calls[c].did
  /\ published' = Active(calls[c].did)
  /\ EnsureRuntime(activeDid', "in", restricted)
  /\ Return(c, Fence(calls))
  /\ UNCHANGED <<identity, restricted>>

\* Mutant: the failed call keeps its place in the chain.
SignInFailsInChain(c) ==
  /\ Failures /\ \E op \in {"login", "recover", "clear"} : Turn(c, op, "write")
  /\ calls' = [calls EXCEPT ![c] = NoCall]
  /\ UNCHANGED <<runtimeVars, queue, published>>

\* signIn() could not remove the marker.
SignInFails(c) ==
  /\ Failures /\ \E op \in {"login", "recover", "clear"} : Turn(c, op, "write")
  /\ Return(c, calls)
  /\ UNCHANGED <<runtimeVars, published>>

-----------------------------------------------------------------------------
(* enterRecoveredSession(), applyRecoveredSession()                         *)

\* Core reports the applied operation; the revision was captured with the call.
RecoverStarts(c) ==
  /\ At(c, "recover", "status")
  /\ \/ identity # None
        /\ calls' = [calls EXCEPT ![c].at = "queued", ![c].did = identity]
        /\ queue' = Append(queue, c)
     \/ (identity = None \/ Failures) /\ Return(c, calls)
  /\ UNCHANGED <<runtimeVars, published>>

RecoverChecks(c) ==
  /\ Turn(c, "recover", "queued")
  /\ IF calls[c].fenced THEN Return(c, calls) ELSE Goto(c, "core") /\ UNCHANGED queue
  /\ UNCHANGED <<runtimeVars, published>>

\* The identity read again is still the recovered one.
RecoverMatches(c) ==
  /\ Turn(c, "recover", "core")
  /\ LET active == signedOut = "in" /\ activeDid = identity
     IN \/ /\ ~calls[c].fenced /\ identity = calls[c].did
           /\ calls' = [calls EXCEPT ![c].active = active,
                                     ![c].at = IF active THEN "mail" ELSE "write"]
           /\ UNCHANGED queue
        \/ /\ calls[c].fenced \/ identity # calls[c].did \/ Failures
           /\ Return(c, calls)
  /\ UNCHANGED <<runtimeVars, published>>

\* The marker is removed, then the fence is checked.
RecoverEnters(c) ==
  /\ Turn(c, "recover", "write")
  /\ marker' = FALSE
  /\ IF calls[c].fenced THEN Return(c, calls) /\ UNCHANGED <<signedOut, activeDid>>
     ELSE /\ signedOut' = "in" /\ activeDid' = calls[c].did
          /\ calls' = [Fence(calls) EXCEPT ![c].fenced = FALSE, ![c].at = "mail"]
          /\ UNCHANGED queue
  /\ UNCHANGED <<identity, restricted, runtime, published>>

\* The mailbox is rebound, or could not be: the session is published all the same.
RecoverPublishes(c) ==
  /\ Turn(c, "recover", "mail")
  /\ IF calls[c].fenced \/ calls[c].active THEN UNCHANGED <<runtime, published>>
     ELSE published' = Active(calls[c].did) /\ EnsureRuntime(activeDid, signedOut, restricted)
  /\ Return(c, calls)
  /\ UNCHANGED <<account, restricted>>

-----------------------------------------------------------------------------
(* clearLocalData(), retireDeviceIdentityForRejoin()                        *)

\* Mutant: Core is called while the runtime is still stopping.
StopUnawaited(c) ==
  /\ \E op \in {"clear", "retire"} : Turn(c, op, "queued")
  /\ BeginStop("mutation")
  /\ Goto(c, "core")
  /\ UNCHANGED <<account, restricted, replacement, queue, published>>

StopFirst(c) ==
  /\ \E op \in {"clear", "retire"} : Turn(c, op, "queued")
  /\ BeginStop("mutation")
  /\ Goto(c, "stop")
  /\ UNCHANGED <<account, restricted, replacement, queue, published>>

\* stopProviderRuntime() has returned: logout() is complete, the others call Core.
StopEnds(c) ==
  /\ \E op \in {"logout", "clear", "retire"} : Turn(c, op, "stop")
  /\ StopReturns(stopping, "mutation")
  /\ IF calls[c].op = "logout" THEN Return(c, calls) ELSE Goto(c, "core") /\ UNCHANGED queue
  /\ UNCHANGED <<account, restricted, realtime, consumer, replacement, published>>

\* ... or has rejected: the call is over, and nothing starts the runtime again.
StopFails(c) ==
  /\ \E op \in {"logout", "clear", "retire"} : Turn(c, op, "stop")
  /\ StopRejects(stopping, "mutation")
  /\ Return(c, calls)
  /\ UNCHANGED <<account, restricted, realtime, consumer, replacement, published>>

CoreClears(c) ==
  /\ \E op \in {"clear", "retire"} : Turn(c, op, "core")
  /\ identity' = None
  /\ Goto(c, "write")
  /\ UNCHANGED <<marker, signedOut, activeDid, restricted, runtime, queue, published>>

CoreClearFails(c) ==
  /\ Failures /\ \E op \in {"clear", "retire"} : Turn(c, op, "core")
  /\ EnsureRuntime(activeDid, signedOut, restricted)
  /\ Return(c, calls)
  /\ UNCHANGED <<account, restricted, published>>

\* The caches and the marker are removed; a retirement only tries to remove the marker.
Cleared(c) ==
  /\ \E op \in {"clear", "retire"} : Turn(c, op, "write")
  /\ marker' = FALSE \/ (Failures /\ calls[c].op = "retire" /\ UNCHANGED marker)
  /\ signedOut' = "in" /\ activeDid' = None
  /\ published' = Session("unregistered")
  /\ Return(c, Fence(calls))
  /\ UNCHANGED <<identity, restricted, runtime>>

-----------------------------------------------------------------------------

\* A step of the runtime's tasks; a replacement that is over asks for the new runtime.
Beneath(step) ==
  /\ step
  /\ calls' = IF replacement' = replacement THEN calls ELSE Beside(calls)
  /\ UNCHANGED <<queue, published>>

Runtime == Beneath(RuntimeStep)

\* Core applies a recovered identity (activateRecovery), which has a new DID.
CoreRecovers ==
  /\ "recover" \in Ops
  /\ identity' \in {d \in Dids : d > identity}
  /\ UNCHANGED <<marker, signedOut, activeDid, restricted, runtime, calls, queue, published>>

\* The process ends and starts again: the files and Core's state remain.
Restart ==
  /\ signedOut' = "unknown" /\ activeDid' = None
  /\ realtime' = StartingRealtime /\ consumer' = NoConsumer
  /\ replacement' = None /\ stopping' = NotStopping
  /\ calls' = [c \in Callers |-> NoCall] /\ queue' = <<>> /\ published' = Session("none")
  /\ UNCHANGED <<identity, marker, restricted>>

CallStep(c) ==
  \/ ReadChecks(c) \/ ReadFails(c) \/ GetSession(c) \/ GetIdentity(c) \/ Register(c)
  \/ LogoutChecks(c) \/ Logout(c) \/ LogoutFails(c)
  \/ LoginChecks(c) \/ Login(c) \/ SignInFails(c)
  \/ RecoverStarts(c) \/ RecoverChecks(c) \/ RecoverMatches(c)
  \/ RecoverEnters(c) \/ RecoverPublishes(c)
  \/ StopFirst(c) \/ StopEnds(c) \/ StopFails(c) \/ CoreClears(c) \/ CoreClearFails(c) \/ Cleared(c)

Next ==
  \/ \E c \in Callers : CallStep(c) \/ \E op \in Ops : Request(c, op)
  \/ Runtime \/ CoreRecovers \/ Restart

Spec == Init /\ [][Next]_vars

\* Core, the file system and the promises the calls wait for all answer.
FairSpec ==
  /\ Spec
  /\ WF_vars(Beneath(RealtimeTask))
  /\ WF_vars(Beneath(ConsumerTask))
  /\ WF_vars(Beneath(Replaced))
  /\ \A o \in Stops : WF_vars(Beneath(SupervisorDisposed(o)))
  /\ \A o \in Owners : WF_vars(Beneath(ConsumerDisposed(o) \/ ConsumerFails(o)))
  /\ \A c \in Callers : WF_vars(CallStep(c))

-----------------------------------------------------------------------------
(* Properties.                                                              *)

AtRest == RuntimeAtRest /\ \A c \in Callers : calls[c] = NoCall

\* The sign-out survives a restart: an account signed out in memory is marked on disk.
SignOutIsDurable == signedOut = "out" /\ queue = <<>> => marker

\* A signed-out account has no Agent consumer once everything has settled.
SignOutIsQuiet == signedOut = "out" /\ AtRest => consumer.slot = None /\ realtime.slot = None

\* "The runtime has already been stopped" when Core clears or retires the identity: nothing
\* of it is in service or starting, and no Agent consumer is still being disposed, however
\* startups, failing disposals and other calls have met the stop; unless an answer that is
\* not serialized asked for the runtime meanwhile.  A replacement may still be disposing what
\* it has taken, and an earlier, rejected stop its supervisor.
ClearsAlone ==
  \A c \in Callers :
    calls[c].op \in {"clear", "retire"} /\ calls[c].at = "core" /\ ~calls[c].beside
      => /\ realtime.startup = "none" /\ realtime.slot = None
         /\ consumer.startup = "none" /\ consumer.slot = None
         /\ replacement = None => OpenConsumers = 0

\* A sign-in, a recovery or a failed clear starts the runtime only when what an operation
\* before it stopped is gone: two supervisors would hold two sessions of one identity, two
\* consumers would write one state file and answer twice.  Only the supervisor of a stop
\* that was rejected may still be closing.
Serialized == AllOps \ {"getSession", "getIdentity", "register"}
Starts ==
  \/ realtime.startup = "none" /\ realtime'.startup # "none"
  \/ consumer.startup = "none" /\ consumer'.startup # "none"
StartsApart ==
  [][\A c \in Callers : calls[c].op \in Serialized /\ calls'[c].at # calls[c].at /\ Starts =>
       \A o \in Owners : "dispose" \notin {stopping'[o].realtime, stopping'[o].consumer}]_vars

\* The session the clients were told of is the one in force.
PublishedIsCurrent ==
  AtRest =>
    /\ published.status = "signed-out" => signedOut = "out"
    /\ published.status \in {"unregistered", "active"} => signedOut = "in"
    /\ published = Active(identity) => activeDid = identity

\* An account that was told it is active is served: both slots are for its identity.
ActiveIsServed ==
  AtRest /\ published = Active(identity) => realtime.slot = identity /\ consumer.slot = identity

\* A recovered session is not entered, nor told to the clients, once a later sign-out or
\* clear waits behind it.
RecoveryYields ==
  [][\A c \in Callers :
       calls[c].op = "recover" /\ queue # <<>> /\ Head(queue) = c /\ calls'[c] # calls[c]
         /\ \/ signedOut # "in" /\ signedOut' = "in"
            \/ published' # published /\ published'.status = "active"
       => \A d \in Callers : calls[d].op \notin {"logout", "clear"}]_vars

\* A call at an await that is answered: by Core, the disk, its turn, or the end of a stop.
Unserialized == {"getSession", "getIdentity", "register"}
GoesOn(c) ==
  \/ At(c, "recover", "status")
  \/ \E op \in Unserialized, at \in {"marker", "core"} : At(c, op, at)
  \/ \E op \in AllOps \ Unserialized, at \in {"queued", "write"} : Turn(c, op, at)
  \/ \E op \in {"recover", "clear", "retire"} : Turn(c, op, "core")
  \/ Turn(c, "recover", "mail")
  \/ \E op \in {"logout", "clear", "retire"} : Turn(c, op, "stop")
       /\ (Stopped("mutation") \/ Rejected("mutation"))

\* Calls, stops, startups and replacements never wait for one another in a circle, nor for what
\* is gone: while one is in flight, one goes on.
NeverStuck ==
  RuntimeBusy \/ (\E c \in Callers : calls[c].op # "none") =>
    RuntimeMoves \/ \E c \in Callers : GoesOn(c)

\* Every call returns, whatever it waits for.
CallsReturn == \A c \in Callers : calls[c] # NoCall ~> calls[c] = NoCall

-----------------------------------------------------------------------------
(* What the code does not keep: reads start the runtime while an operation  *)
(* stops it, and a stop whose consumer rejects does not wait for its        *)
(* supervisor.                                                              *)

\* One supervisor and one Agent consumer are open at any time, those being disposed included.
OneRuntime == OpenSupervisors <= 1 /\ OpenConsumers <= 1

\* Core clears with nothing of the runtime open.
AllAlone ==
  \A c \in Callers : calls[c].op \in {"clear", "retire"} /\ calls[c].at = "core"
     => OpenSupervisors = 0 /\ OpenConsumers = 0
=============================================================================
