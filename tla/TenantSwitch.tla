------------------------------ MODULE TenantSwitch ------------------------------
(***************************************************************************)
(* The transaction that replaces the tenant the Host serves: switchTenant()*)
(* of AwikiService (src/index.ts), its rollback, and what goes on around   *)
(* it: session operations, reads, changes of the catalog, and crashes.     *)
(*                                                                         *)
(* runtimeGeneration is only compared with a captured value, so what a     *)
(* switch overtakes carries fenced in its place.  The background runtime   *)
(* (ProviderRuntime) is reduced to whether it starts or runs, the registry *)
(* (TenantRegistry) to the active and the archived tenants, and the        *)
(* participants to one; login() and logout() stand for the serialized      *)
(* operations.  A registration is one step, and a client whose disposal    *)
(* fails is closed.                                                        *)
(***************************************************************************)
EXTENDS Naturals, FiniteSets

CONSTANTS
  Tenants,   \* the tenants of the registry
  None,      \* undefined
  MaxFails   \* bound on the calls that fail between two starts of the Host

ASSUME TenantsAssumption == None \notin Tenants
ASSUME MaxFailsAssumption == MaxFails \in Nat

VARIABLES
  active,       \* the registry's activeTenantId, in memory and on disk
  archived,     \* its archived tenants
  credentials,  \* the tenants whose Core holds an identity
  marker,       \* the tenants whose scope holds the file .host/signed-out
  host,         \* the provider, the open clients, and the state bound to the tenant
  participant,  \* the tenant the participant is bound to, None when released
  switch,       \* the switch in flight; torn: an earlier rollback was incomplete
  mutation,     \* the serialized session operation in flight
  reader,       \* a getSession() in flight, with what it has captured
  fails         \* calls that have failed

session == <<mutation, reader>>
vars == <<active, archived, credentials, marker, host, participant, switch, session, fails>>

SwitchSteps == {"lock", "lockTarget", "prepare", "dispose", "open", "identity", "commit", "bind"}
UndoSteps == {"undoDispose", "undoCommit", "undoOpen", "undoBind"}

Hosts == [provider : Tenants \cup {None}, clients : SUBSET Tenants, bound : Tenants,
          signedOut : {"unknown", "out", "in"}, runtime : {"off", "starting", "on"}]
Switches == [at : {"idle"} \cup SwitchSteps \cup UndoSteps, from : Tenants, to : Tenants,
             opened : BOOLEAN, prepared : BOOLEAN, committed : BOOLEAN,
             incomplete : BOOLEAN, torn : BOOLEAN]
Mutations == [at : {"none", "core", "login", "logout"}, fenced : BOOLEAN]
Readers == [at : {"none", "marker", "core"}, out : BOOLEAN, fenced : BOOLEAN]

TypeOK ==
  /\ active \in Tenants /\ archived \subseteq Tenants
  /\ credentials \subseteq Tenants /\ marker \subseteq Tenants
  /\ host \in Hosts /\ participant \in Tenants \cup {None}
  /\ switch \in Switches /\ mutation \in Mutations /\ reader \in Readers
  /\ fails \in 0..MaxFails

NoSwitch(t) == [at |-> "idle", from |-> t, to |-> t, opened |-> FALSE, prepared |-> FALSE,
                committed |-> FALSE, incomplete |-> FALSE, torn |-> FALSE]
NoMutation == [at |-> "none", fenced |-> FALSE]
NoReader == [at |-> "none", out |-> FALSE, fenced |-> FALSE]

\* registerClientFactory(): the active tenant is opened.
StartedHost(t) == [provider |-> t, clients |-> {t}, bound |-> t,
                   signedOut |-> "unknown", runtime |-> "starting"]

Init ==
  /\ active \in Tenants /\ archived = {}
  /\ credentials \in SUBSET Tenants /\ marker \in SUBSET Tenants
  /\ host = StartedHost(active) /\ participant = active
  /\ switch = NoSwitch(active) /\ mutation = NoMutation /\ reader = NoReader /\ fails = 0

Switching == switch.at # "idle"
At(step) == switch.at = step
Goto(step) == switch' = [switch EXCEPT !.at = step]

\* The generation has advanced, or the provider is disposed of: run() will drop the answer.
Overtaken == [reader EXCEPT !.fenced = @ \/ reader.at = "core"]

\* A call fails, as far as the bound allows.
Fails == fails < MaxFails /\ fails' = fails + 1

IsSignedOut == IF host.signedOut # "unknown" THEN host.signedOut
               ELSE IF host.bound \in marker THEN "out" ELSE "in"

\* Mutant: a call that is answered during a switch starts the runtime.
EnsuredAlways(h) == IF h.runtime # "off" THEN h ELSE [h EXCEPT !.runtime = "starting"]

\* ensureProviderRuntime(), which does nothing during a switch.
Ensured(h) == IF Switching \/ h.runtime # "off" THEN h ELSE [h EXCEPT !.runtime = "starting"]

-----------------------------------------------------------------------------
(* The switch.                                                              *)

\* switchTenant(): the target is not the active tenant, nor archived.
SwitchStarts(t) ==
  /\ ~Switching /\ host.provider # None
  /\ t # active /\ t \notin archived
  /\ switch' = [NoSwitch(active) EXCEPT !.at = "lock", !.to = t, !.torn = switch.torn]
  /\ mutation' = [mutation EXCEPT !.fenced = mutation # NoMutation]
  /\ reader' = Overtaken
  /\ UNCHANGED <<active, archived, credentials, marker, host, participant, fails>>

\* Mutant: the session operation in flight is not awaited.
LocksAtOnce ==
  /\ At("lock")
  /\ marker' = marker \cup {host.bound} /\ host' = [host EXCEPT !.signedOut = "out"]
  /\ Goto("lockTarget")
  /\ UNCHANGED <<active, archived, credentials, participant, session, fails>>

\* The session operation that was in flight is over.
Locks ==
  /\ At("lock") /\ mutation = NoMutation
  /\ marker' = marker \cup {host.bound} /\ host' = [host EXCEPT !.signedOut = "out"]
  /\ Goto("lockTarget")
  /\ UNCHANGED <<active, archived, credentials, participant, session, fails>>

LocksTarget ==
  /\ At("lockTarget")
  /\ marker' = marker \cup {switch.to}
  /\ Goto("prepare")
  /\ UNCHANGED <<active, archived, credentials, host, participant, session, fails>>

Prepares ==
  /\ At("prepare")
  /\ participant' = None
  /\ switch' = [switch EXCEPT !.at = "dispose", !.prepared = TRUE]
  /\ UNCHANGED <<active, archived, credentials, marker, host, session, fails>>

\* disposeProvider(): the runtime stops, then the client is closed.
Disposed == [host EXCEPT !.provider = None, !.runtime = "off", !.clients = @ \ {host.provider}]

Disposes ==
  /\ At("dispose")
  /\ host' = Disposed /\ reader' = Overtaken
  /\ Goto("open")
  /\ UNCHANGED <<active, archived, credentials, marker, participant, mutation, fails>>

\* openTenantProvider() and bindTenantState(): the Host works in the scope of t.
Opened(t) == [host EXCEPT !.provider = t, !.clients = @ \cup {t}, !.bound = t,
                          !.signedOut = "unknown"]

Opens ==
  /\ At("open")
  /\ host' = Opened(switch.to)
  /\ switch' = [switch EXCEPT !.at = "identity", !.opened = TRUE]
  /\ UNCHANGED <<active, archived, credentials, marker, participant, session, fails>>

\* Mutant: the target is unlocked whatever its Core holds.
ReadsIdentityUnlocking ==
  /\ At("identity")
  /\ marker' = marker \ {host.bound} /\ host' = [host EXCEPT !.signedOut = "in"]
  /\ Goto("commit")
  /\ UNCHANGED <<active, archived, credentials, participant, session, fails>>

\* An empty scope has no session to restore, and needs no lock.
ReadsIdentity ==
  /\ At("identity")
  /\ IF switch.to \in credentials THEN UNCHANGED <<marker, host>>
     ELSE marker' = marker \ {host.bound} /\ host' = [host EXCEPT !.signedOut = "in"]
  /\ Goto("commit")
  /\ UNCHANGED <<active, archived, credentials, participant, session, fails>>

\* Capabilities and update policy have been read: commitActive().
Commits ==
  /\ At("commit") /\ switch.to \notin archived
  /\ active' = switch.to
  /\ switch' = [switch EXCEPT !.at = "bind", !.committed = TRUE]
  /\ UNCHANGED <<archived, credentials, marker, host, participant, session, fails>>

\* commitSwitch() of the participant; the runtime of the new tenant starts.
Binds ==
  /\ At("bind")
  /\ participant' = switch.to
  /\ switch' = NoSwitch(active)
  /\ host' = [host EXCEPT !.runtime = IF @ = "off" THEN "starting" ELSE @]
  /\ UNCHANGED <<active, archived, credentials, marker, session, fails>>

-----------------------------------------------------------------------------
(* The rollback.                                                            *)

\* Mutant: a target that has been committed is undone while it is still open.
UndoRegistryFirst(h) == IF switch.committed THEN "undoCommit"
                        ELSE IF switch.opened /\ h.provider # None THEN "undoDispose"
                        ELSE IF h.provider = None THEN "undoOpen" ELSE "undoBind"

\* Where the rollback begins, once a provider h has been left.
Undo(h) == IF switch.opened /\ h.provider # None THEN "undoDispose"
           ELSE IF switch.committed THEN "undoCommit"
           ELSE IF h.provider = None THEN "undoOpen" ELSE "undoBind"

\* One of the steps fails, when it has done nothing or half of its work.
SwitchFails ==
  /\ switch.at \in SwitchSteps
  /\ At("lock") => mutation = NoMutation
  /\ IF At("commit") /\ switch.to \in archived THEN UNCHANGED fails ELSE Fails
  /\ marker' \in {marker} \cup (IF At("lock") THEN {marker \cup {host.bound}}
                                ELSE IF At("lockTarget") THEN {marker \cup {switch.to}} ELSE {})
  /\ participant' \in {participant} \cup (IF At("prepare") THEN {None}
                                          ELSE IF At("bind") THEN {switch.to} ELSE {})
  /\ IF At("dispose") THEN host' = Disposed /\ reader' = Overtaken ELSE UNCHANGED <<host, reader>>
  /\ Goto(Undo(host'))
  /\ UNCHANGED <<active, archived, credentials, mutation>>

\* A step of the rollback ends, well or not: the others are made all the same.
Undone(step, ok) ==
  /\ IF ok THEN UNCHANGED fails ELSE Fails
  /\ switch' = [switch EXCEPT !.at = step, !.incomplete = @ \/ ~ok]

UndoesOpen ==
  /\ At("undoDispose")
  /\ host' = Disposed /\ reader' = Overtaken
  /\ \E ok \in BOOLEAN : Undone(IF switch.committed THEN "undoCommit" ELSE "undoOpen", ok)
  /\ UNCHANGED <<active, archived, credentials, marker, participant, mutation>>

\* Mutant: the target stays active.
UndoesCommitInMemory ==
  /\ At("undoCommit")
  /\ \E ok \in BOOLEAN : Undone("undoOpen", ok)
  /\ UNCHANGED <<active, archived, credentials, marker, host, participant, session>>

\* The previous tenant may have been archived while it was not the active one.
UndoesCommit ==
  /\ At("undoCommit")
  /\ \/ switch.from \notin archived /\ active' = switch.from /\ Undone("undoOpen", TRUE)
     \/ switch.from \notin archived /\ UNCHANGED active /\ Undone("undoOpen", FALSE)
     \/ /\ switch.from \in archived /\ UNCHANGED <<active, fails>>
        /\ switch' = [switch EXCEPT !.at = "undoOpen", !.incomplete = TRUE]
  /\ UNCHANGED <<archived, credentials, marker, host, participant, session>>

\* The client cannot be created, or its Core does not answer.
Reopens ==
  /\ At("undoOpen")
  /\ \E ok \in BOOLEAN :
       /\ host' \in {Opened(switch.from)} \cup (IF ok THEN {} ELSE {host})
       /\ Undone("undoBind", ok)
  /\ UNCHANGED <<active, archived, credentials, marker, participant, session>>

\* Mutant: an incomplete rollback throws before the switch is over.
SwitchEndsComplete ==
  /\ At("undoBind") /\ ~switch.incomplete
  /\ participant' = IF switch.prepared THEN host.bound ELSE participant
  /\ switch' = NoSwitch(active)
  /\ host' = IF host.runtime # "off" THEN host ELSE [host EXCEPT !.runtime = "starting"]
  /\ UNCHANGED <<active, archived, credentials, marker, session, fails>>

\* rollbackSwitch() of the participant, if it was prepared; unless something failed, the
\* runtime starts.
SwitchEnds ==
  /\ At("undoBind")
  /\ \E ok \in BOOLEAN :
       /\ IF ok THEN UNCHANGED fails ELSE switch.prepared /\ Fails
       /\ participant' = IF ~switch.prepared THEN participant ELSE IF ok THEN host.bound ELSE None
       /\ switch' = [NoSwitch(active) EXCEPT !.incomplete = switch.incomplete \/ ~ok,
                                              !.torn = switch.torn \/ switch.incomplete \/ ~ok]
       /\ host' = IF switch'.incomplete \/ host.provider = None \/ host.runtime # "off" THEN host
                  ELSE [host EXCEPT !.runtime = "starting"]
  /\ UNCHANGED <<active, archived, credentials, marker, session>>

-----------------------------------------------------------------------------
(* Around the switch.                                                       *)

\* The startup of the runtime: isSignedOut(), then the identity.
RuntimeStarts ==
  /\ host.runtime = "starting"
  /\ host' = [host EXCEPT !.signedOut = IsSignedOut,
                          !.runtime = IF IsSignedOut = "in" /\ host.provider \in credentials
                                      THEN "on" ELSE "off"]
  /\ UNCHANGED <<active, archived, credentials, marker, participant, switch, session, fails>>

\* mutateSession(): refused during a switch.
MutationStarts ==
  /\ ~Switching /\ mutation = NoMutation
  /\ \E op \in {"core", "logout"} : mutation' = [NoMutation EXCEPT !.at = op]
  /\ UNCHANGED <<active, archived, credentials, marker, host, participant, switch, reader, fails>>

LoginReads ==
  /\ mutation.at = "core"
  /\ mutation' = IF mutation.fenced \/ host.provider \notin credentials THEN NoMutation
                 ELSE [mutation EXCEPT !.at = "login"]
  /\ UNCHANGED <<active, archived, credentials, marker, host, participant, switch, reader, fails>>

MutationWrites ==
  /\ mutation.at \in {"login", "logout"}
  /\ mutation' = NoMutation
  /\ IF mutation.at = "login"
     THEN /\ marker' = marker \ {host.bound}
          /\ host' = Ensured([host EXCEPT !.signedOut = "in"])
     ELSE IF IsSignedOut = "out" THEN host' = [host EXCEPT !.signedOut = "out"] /\ UNCHANGED marker
     ELSE /\ marker' = marker \cup {host.bound}
          /\ host' = [host EXCEPT !.signedOut = "out", !.runtime = "off"]
  /\ UNCHANGED <<active, archived, credentials, participant, switch, reader, fails>>

\* registerIdentity(), which is not serialized with the switch.
Registers ==
  /\ host.provider # None /\ host.provider \notin credentials /\ IsSignedOut = "in"
  /\ credentials' = credentials \cup {host.provider}
  /\ host' = Ensured([host EXCEPT !.signedOut = "in"])
  /\ UNCHANGED <<active, archived, marker, participant, switch, session, fails>>

\* getSession(): isSignedOut() reads the file of the scope the Host is bound to; ...
ReaderStarts ==
  /\ reader = NoReader
  /\ \/ /\ host.signedOut = "unknown"
        /\ reader' = [NoReader EXCEPT !.at = "marker", !.out = host.bound \in marker]
     \/ /\ host.signedOut = "in" /\ host.provider # None
        /\ reader' = [NoReader EXCEPT !.at = "core"]
  /\ UNCHANGED <<active, archived, credentials, marker, host, participant, switch, mutation, fails>>

\* ... the answer is cached, whatever has happened to the cache meanwhile; ...
ReaderCaches ==
  /\ reader.at = "marker"
  /\ host' = [host EXCEPT !.signedOut = IF reader.out THEN "out" ELSE "in"]
  /\ reader' = IF reader.out \/ host.provider = None THEN NoReader
               ELSE [NoReader EXCEPT !.at = "core"]
  /\ UNCHANGED <<active, archived, credentials, marker, participant, switch, mutation, fails>>

\* ... and the identity is refused when the provider or the generation has changed.
ReaderEnds ==
  /\ reader.at = "core"
  /\ reader' = NoReader
  /\ host' = IF reader.fenced \/ host.provider \notin credentials THEN host ELSE Ensured(host)
  /\ UNCHANGED <<active, archived, credentials, marker, participant, switch, mutation, fails>>

\* archiveCustomTenant(), which does not look at the switch.
Archives ==
  /\ \E t \in Tenants \ (archived \cup {active}) : archived' = archived \cup {t}
  /\ UNCHANGED <<active, credentials, marker, host, participant, switch, session, fails>>

\* The process ends at any point and starts again: the files remain.
Restart ==
  /\ host' = StartedHost(active) /\ participant' = active
  /\ switch' = NoSwitch(active) /\ mutation' = NoMutation /\ reader' = NoReader /\ fails' = 0
  /\ UNCHANGED <<active, archived, credentials, marker>>

-----------------------------------------------------------------------------

SwitchStep ==
  \/ Locks \/ LocksTarget \/ Prepares \/ Disposes \/ Opens \/ ReadsIdentity
  \/ Commits \/ Binds \/ SwitchFails
  \/ UndoesOpen \/ UndoesCommit \/ Reopens \/ SwitchEnds

SessionStep == LoginReads \/ MutationWrites

Next ==
  \/ \E t \in Tenants : SwitchStarts(t)
  \/ SwitchStep \/ SessionStep \/ MutationStarts
  \/ RuntimeStarts \/ Registers
  \/ ReaderStarts \/ ReaderCaches \/ ReaderEnds
  \/ Archives \/ Restart

Spec == Init /\ [][Next]_vars

\* Core, the file system and the participants answer, well or not.
FairSpec == Spec /\ WF_vars(SwitchStep) /\ WF_vars(SessionStep)

-----------------------------------------------------------------------------
(* Properties.                                                              *)

\* From the first lock to the end of the switch or of its rollback, the scope the Host
\* leaves stays locked, and the target until its Core has turned out to be empty: a crash
\* at any point does not log in.  After a torn rollback the Host may serve another tenant
\* than the registry's, and the scope it locks is not that of switch.from.
SwitchIsLocked ==
  /\ ~switch.torn /\ (switch.at \in SwitchSteps \ {"lock"} \/ switch.prepared)
       => switch.from \in marker
  /\ switch.at \in {"prepare", "dispose", "open", "identity"} => switch.to \in marker

\* A switch never unlocks a scope that holds credentials: only login() does.
OnlyLoginUnlocks ==
  [][\A t \in marker \ marker' : t \in credentials => mutation.at = "login" /\ t = host.bound]_vars

\* Between switches, the Host serves the active tenant out of its own scope, and the
\* participant is not bound to another (one whose own preparation failed is bound to none:
\* it is not rolled back).  Excepted is the time from an incomplete rollback to the next
\* switch that succeeds.
ServedIsActive ==
  ~Switching /\ ~switch.torn =>
    /\ host.provider = active /\ host.bound = active
    /\ participant \in {active, None}

\* The Core of one tenant is closed before that of another is opened.
OneClient == Cardinality(host.clients) <= 1

\* The active tenant changes only while the target is open, its runtime stopped and the
\* participant released, or back while nothing is served.
CommitIsSafe ==
  [][active' # active =>
       \/ host.provider = active' /\ host.runtime = "off" /\ participant = None
       \/ host.provider = None /\ active' = switch.from]_vars

\* Every switch ends.
SwitchesEnd == Switching ~> ~Switching

\* Sign-out gates the Agent: between switches a signed-out account has no runtime.  A
\* switch whose participant fails to prepare leaves the account signed out, yet running.
SignedOutIsQuiet ==
  ~Switching /\ mutation = NoMutation /\ host.signedOut = "out" => host.runtime # "on"

\* The cached answer is that of the scope the Host is bound to; a late first read of the
\* scope the Host has left does not keep it.
CacheIsOfScope ==
  mutation = NoMutation /\ host.signedOut = "in" => host.bound \notin marker

\* switchTenant() is a transaction: closed before opened, committed while served, undone while
\* nothing is, over with one of the two active and served.  A step of the rollback that fails
\* tears it.
Transaction == INSTANCE SwitchTransaction WITH
  served <- host.provider,
  from <- switch.from,
  to <- IF Switching THEN switch.to ELSE switch.from,
  torn <- switch.torn \/ switch.incomplete
ImplementsTransaction == Transaction!Spec

-----------------------------------------------------------------------------
(* The inductive invariant the proofs rest on.                              *)

Clients == host.clients = {host.provider} \ {None}

\* What each step of the switch may rely on.
Steps ==
  /\ Switching => switch.from # switch.to
  /\ switch.at \notin {"idle", "lock"} => mutation = NoMutation
  /\ switch.at \in {"open", "undoCommit", "undoOpen"} => host.provider = None
  /\ switch.at \in {"identity", "commit", "bind"} =>
       host.provider = switch.to /\ host.bound = switch.to
  /\ switch.at \in {"dispose", "open", "identity", "commit", "bind"} => participant = None
  /\ switch.at \in {"open", "identity", "commit", "bind"} => host.runtime = "off"
  /\ switch.at = "bind" => active = switch.to

\* What has been done is what the step says.
Progress ==
  /\ switch.at \notin UndoSteps =>
       /\ switch.prepared <=> switch.at \in {"dispose", "open", "identity", "commit", "bind"}
       /\ switch.opened <=> switch.at \in {"identity", "commit", "bind"}
       /\ switch.committed <=> switch.at = "bind"
       /\ switch.incomplete => switch.torn
  /\ switch.committed => switch.opened /\ switch.prepared

\* Which tenant is served and which is active, unless a rollback was incomplete.
Served ==
  ~switch.torn /\ ~switch.incomplete =>
    /\ switch.at \in {"idle", "lock", "lockTarget", "prepare", "dispose", "undoBind"} =>
         host.provider = active /\ host.bound = active
    /\ Switching /\ ~switch.committed => active = switch.from
    /\ switch.at \in {"undoDispose", "undoCommit"} /\ switch.committed => active = switch.to
    /\ switch.at \in {"undoOpen", "undoBind"} => active = switch.from
    /\ ~switch.prepared => participant \in {active, None}

IInv == TypeOK /\ Clients /\ Steps /\ Progress /\ Served /\ SwitchIsLocked
=============================================================================
