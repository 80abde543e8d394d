------------------------------- MODULE ModelProxy -------------------------------
(***************************************************************************)
(* The hosted model of the Host (packages/dsh-model-proxy/src/index.ts):   *)
(* the adapter it registers for a signed-in identity that the service of   *)
(* the environment has accepted, the token it mints there, the model       *)
(* selection and the preference it keeps per environment, while the Host   *)
(* switches environments, the session and the update policy change, and    *)
(* the user turns the model on and off.                                    *)
(*                                                                         *)
(* The lifecycle queue serializes the parts of a switch, the binding, the  *)
(* persistence and the readiness check; the first operation of queue is    *)
(* running, and step says at which await it is.  Where the code compares   *)
(* identityGeneration or the generation of the token with a captured       *)
(* value, a record carries fresh, FALSE once the counter has advanced.     *)
(* An environment has one identity, and publishes its model service at one *)
(* of several addresses, or at none, whenever its capabilities are read.   *)
(*                                                                         *)
(* Registering the adapter and taking it back may throw, wherever sync()   *)
(* is called.  What the listener of an event throws does not reach the     *)
(* one who emits it, and a registration that cannot be completed is taken  *)
(* back.                                                                   *)
(***************************************************************************)
EXTENDS Naturals, Sequences, FiniteSets

CONSTANTS
  Tenants,       \* the environments
  None,          \* undefined
  Urls,          \* the addresses a model service may be published at
  Models,        \* the models of other providers
  Fallback,      \* deepseek-official
  Hosted,        \* the model of this provider
  MaxOps,        \* bound: switches, sign-ins, sign-outs, policy changes and requests
  MaxFaults,     \* bound: calls that fail
  Apart          \* a request overlaps no switch, binding, policy change or choice of this model

ASSUME ConstantsAssumption ==
  /\ None \notin Tenants
  /\ Fallback \in Models /\ Hosted \notin Models
  /\ MaxOps \in Nat /\ MaxFaults \in Nat /\ Apart \in BOOLEAN

VARIABLES
  host,        \* Host: tenant in force, ends and phase of a switch, session, policy
  settings,    \* enabled, the model to return to, the preference of each environment
  selection,   \* the default model of the agent
  bound,       \* currentTenantId
  config,      \* the service that is configured, None if undefined
  session,     \* sessionStatus, which service has accepted the identity (identityReady), and a
               \* ghost: whether a switch was undone that had published it
  policy,      \* policyRestricted
  adapter,     \* what is registered: route, directory
  torn,        \* ghost: the last attempt to release the adapter has thrown
  checks,      \* reconciliations in flight
  token,       \* the service that has minted the cached token
  minting,     \* token requests in flight
  queue,       \* tenantLifecycle
  failed,      \* initialBindingFailed
  request,     \* the request to turn the model on or off
  ops,         \* operations of the user and the Host so far
  faults       \* failed calls so far

bounds   == <<ops, faults>>
registered == <<adapter, torn>>
identity == <<session, registered, checks>>
tokens   == <<token, minting>>
vars     == <<host, settings, selection, bound, config, identity, policy, tokens,
              queue, failed, request, bounds>>

AnyModel == Models \cup {Hosted}
Service == [tenant : Tenants, url : Urls]
Handles == {"route", "directory"}
Preference == [enabled : BOOLEAN, previous : AnyModel]
NoPreference == [enabled |-> FALSE, previous |-> None]
Settings == [enabled : BOOLEAN, previous : AnyModel,
             stored : [Tenants -> Preference \cup {NoPreference}]]
Switch == [tenant : Tenants, from : Tenants, to : Tenants,
           phase : {"rest", "prepare", "open", "commit", "revert", "rollback"},
           active : BOOLEAN, restricted : SUBSET Tenants]
Operation == [kind : {"prepare", "bind", "retry", "follow", "persist", "ready"},
              step : {"start", "reads", "apply", "restrict", "session", "ready", "wait"}, fresh : BOOLEAN]
Request == [at : {"ready", "balance", "write", "select", "disable", "persist", "restore"},
            tenant : Tenants, enable : BOOLEAN,
            settings : Settings, selection : AnyModel]
Check == [config : Service, fresh : BOOLEAN, awaited : BOOLEAN]   \* identityReconciliation is it
Mint == [config : Service, fresh : BOOLEAN]

ASSUME NoneIsNoRecord == None \notin Request \cup Service

TypeOK ==
  /\ host \in Switch
  /\ settings \in Settings
  /\ selection \in AnyModel
  /\ bound \in Tenants /\ config \in Service \cup {None}
  /\ session \in [status : {"unknown", "signed-out", "active"}, ready : Service \cup {None},
                  undone : BOOLEAN]
  /\ {policy, torn, failed} \subseteq BOOLEAN
  /\ adapter \subseteq Handles
  /\ checks \subseteq Check
  /\ token \in Service \cup {None} /\ minting \subseteq Mint
  /\ queue \in Seq(Operation)
  /\ request \in Request \cup {None}
  /\ ops \in 0..MaxOps /\ faults \in 0..MaxFaults

-----------------------------------------------------------------------------
(* What the handlers share. *)

Fails == faults < MaxFaults /\ faults' = faults + 1
Works == UNCHANGED faults
Uses  == ops < MaxOps /\ ops' = ops + 1

\* What the capabilities of an environment say of its service when they are read.
Endpoints(tenant) == {None} \cup {c \in Service : c.tenant = tenant}
Restricted == host.tenant \in host.restricted
Reconciling == \E c \in checks : c.awaited

\* advanceIdentityGeneration(): what was started under another generation counts no more.
Stale(records) == {[r EXCEPT !.fresh = FALSE] : r \in records}
Outdated(q) == [i \in DOMAIN q |-> [q[i] EXCEPT !.fresh = FALSE]]

\* ... and identityReconciliation is another, or undefined.
Dropped == {[c EXCEPT !.fresh = FALSE, !.awaited = FALSE] : c \in checks}

\* token.clear()
Clears == token' = None /\ minting' = Stale(minting)

\* sync() finds the model served; an action states it after what it depends on.
Serves == /\ settings'.enabled /\ session'.status = "active" /\ config' # None
          /\ ~Restricted' /\ session'.ready # None

\* sync() registers what is missing, or releases what is registered.
Syncs == adapter' = (IF Serves THEN Handles ELSE {}) /\ torn' = FALSE

\* releaseAdapter() throws: what could not be released stays.
Tears == adapter' \in (SUBSET adapter) \ {{}} /\ torn' = TRUE /\ Fails

\* sync() throws.
Throws ==
  \/ Serves /\ adapter # Handles /\ UNCHANGED adapter /\ torn' = FALSE /\ Fails
  \/ ~Serves /\ Tears

\* sync() on an event.
Follows == (Syncs /\ Works) \/ Throws

\* publishSession(); the queue is outdated by its callers.
Session(active) ==
  session' = [status |-> IF active THEN "active" ELSE "signed-out", ready |-> None, undone |-> FALSE]

Publishes(active) ==
  /\ Session(active) /\ Clears
  /\ checks' = Dropped \cup
       IF ~active \/ config = None THEN {} ELSE {[config |-> config, fresh |-> TRUE, awaited |-> TRUE]}
  /\ Syncs /\ Works

\* ... and its sync() throws: no reconciliation is begun.
PublishFails(active) ==
  /\ Session(active) /\ Clears
  /\ checks' = Stale(checks)
  /\ Throws

\* The identity is forgotten, and whether it is signed in.
Forgets ==
  /\ session' = [status |-> "unknown", ready |-> None, undone |-> FALSE]
  /\ checks' = Dropped

\* restoreNonAwikiSelection()
Restored == IF selection = Hosted THEN settings.previous ELSE selection

-----------------------------------------------------------------------------
(* Loading the plugin queues the first binding; the settings of an earlier run may have the   *)
(* model turned on in the environment in force.                                                *)

New(kind) == [kind |-> kind, step |-> "start", fresh |-> TRUE]

Init ==
  /\ \E t \in Tenants, signedIn, on \in BOOLEAN, some \in SUBSET Tenants :
       /\ settings = [enabled |-> on, previous |-> Fallback, stored |-> [u \in Tenants |->
            IF on /\ u = t THEN [enabled |-> TRUE, previous |-> Fallback] ELSE NoPreference]]
       /\ selection \in IF on THEN AnyModel ELSE Models
       /\ host = [tenant |-> t, from |-> t, to |-> t, phase |-> "rest",
                  active |-> signedIn, restricted |-> some]
       /\ bound = t /\ config \in Endpoints(t) /\ policy = (t \in some)
  /\ session = [status |-> "unknown", ready |-> None, undone |-> FALSE]
  /\ adapter = {} /\ torn = FALSE /\ failed = FALSE
  /\ checks = {} /\ token = None /\ minting = {}
  /\ queue = <<New("bind")>>
  /\ request = None
  /\ ops = 0 /\ faults = 0

-----------------------------------------------------------------------------
(* The lifecycle queue: an operation runs when the one before it has settled. *)

Running(kinds, step) == queue # <<>> /\ Head(queue).kind \in kinds /\ Head(queue).step = step
Binds == {"bind", "retry", "follow"}
Enters(kind) == queue' = Append(queue, New(kind))
Goes(step) == queue' = [queue EXCEPT ![1].step = step]
GoesOutdated(step) == queue' = Outdated([queue EXCEPT ![1].step = step])

Moves(phase) == host' = [host EXCEPT !.phase = phase]

\* Mutant: the preference is kept for the environment switched to.
PersistsForTarget ==
  settings' = [settings EXCEPT !.stored[host.to] =
    [enabled |-> settings.enabled, previous |-> settings.previous]]

\* persistCurrentTenantPreference(), of the environment the plugin is bound to.
Persists ==
  settings' = [settings EXCEPT !.stored[bound] =
    [enabled |-> settings.enabled, previous |-> settings.previous]]

\* prepareSwitch persists, then releases everything; a participant that fails is not rolled back.
PreparePersists ==
  /\ Running({"prepare"}, "start")
  /\ UNCHANGED <<selection, bound, config, session, checks, policy, tokens, failed, request, ops>>
  /\ \/ Persists /\ Goes("apply") /\ UNCHANGED host /\ Follows
     \/ Fails /\ queue' = Tail(queue) /\ Moves("rest") /\ UNCHANGED <<settings, registered>>

PrepareReleases ==
  /\ Running({"prepare"}, "apply")
  /\ Clears
  /\ queue' = Outdated(Tail(queue))
  /\ Forgets /\ adapter' = {} /\ torn' = FALSE /\ config' = None
  /\ \/ selection' = Restored /\ Works /\ Moves("open")
     \/ selection = Hosted /\ UNCHANGED selection /\ Fails /\ Moves("rest")
  /\ UNCHANGED <<settings, bound, policy, failed, request, ops>>

\* releaseAdapter() throws: the identity counts as accepted no more, the rest stays.
PrepareTears ==
  /\ Running({"prepare"}, "apply")
  /\ Clears
  /\ queue' = Outdated(Tail(queue))
  /\ session' = [session EXCEPT !.ready = None] /\ checks' = Dropped
  /\ Tears /\ Moves("rest")
  /\ UNCHANGED <<settings, selection, bound, config, policy, failed, request, ops>>

\* bindActiveTenant() has ended: the first binding may be retried, the switch goes on.
Bound(ok) ==
  IF host.phase \in {"commit", "rollback"}
  THEN Moves(IF host.phase = "commit" /\ ~ok THEN "revert" ELSE "rest") /\ UNCHANGED failed
  ELSE /\ failed' = IF Head(queue).kind = "follow" THEN failed ELSE ~ok
       /\ UNCHANGED host

\* applyTenantPreference()
Preferred(tenant) ==
  IF settings.stored[tenant] # NoPreference
  THEN [settings EXCEPT !.enabled = settings.stored[tenant].enabled,
                        !.previous = settings.stored[tenant].previous]
  ELSE [settings EXCEPT !.enabled = FALSE,
                        !.previous = IF selection = Hosted THEN Fallback ELSE selection]

\* The operation has failed.
Rejects == queue' = Tail(queue) /\ Bound(FALSE)

\* The retry expects the generation at its start.
RetryBegins ==
  /\ Running({"retry"}, "start")
  /\ queue' = [queue EXCEPT ![1].step = "reads", ![1].fresh = TRUE]
  /\ UNCHANGED <<host, settings, selection, bound, config, identity, policy, tokens, failed, request, bounds>>

\* Capabilities and policy are read; a switch that has begun meanwhile is an error.  What
\* follows a policy depends on the policy by then.
BindReads ==
  /\ Running(Binds \ {"retry"}, "start") \/ Running({"retry"}, "reads")
  /\ ~(Head(queue).kind = "follow" /\ policy)
  /\ UNCHANGED <<selection, config, session, checks, tokens, request, ops>>
  /\ \/ /\ bound' = host.tenant /\ policy' = Restricted
        /\ \/ /\ settings' = Preferred(host.tenant)
              /\ Goes(IF Restricted THEN "restrict" ELSE "apply")
              /\ UNCHANGED <<host, failed>> /\ Follows
           \/ Fails /\ Rejects /\ UNCHANGED <<settings, registered>>
     \/ /\ IF host.phase = "prepare" THEN Works ELSE Fails
        /\ Rejects
        /\ UNCHANGED <<bound, policy, settings, registered>>

\* resolveTenantConfig() refuses what the capabilities publish.
Refuses ==
  /\ Running(Binds, "restrict") \/ Running(Binds, "apply")
  /\ Fails /\ Rejects
  /\ UNCHANGED <<settings, selection, bound, config, identity, policy, tokens, request, ops>>

\* A restricted environment is bound without its model.
BindRestricts ==
  /\ Running(Binds, "restrict")
  /\ config' \in Endpoints(host.tenant) /\ Clears
  /\ queue' = Tail(queue)
  /\ UNCHANGED <<settings, bound, session, checks, policy, request, ops>>
  /\ \/ selection' = Restored /\ Works /\ Bound(TRUE) /\ Syncs
     \/ selection = Hosted /\ UNCHANGED selection /\ Fails /\ Bound(FALSE) /\ Syncs
     \/ UNCHANGED selection /\ Bound(FALSE) /\ Throws

FollowRestricts ==
  /\ Running({"follow"}, "start") /\ policy
  /\ queue' = Tail(queue)
  /\ \/ selection' = Restored /\ Works
     \/ selection = Hosted /\ UNCHANGED selection /\ Fails
  /\ UNCHANGED <<host, settings, bound, config, identity, policy, tokens, failed, request, ops>>

BindConfigures ==
  /\ Running(Binds, "apply")
  /\ config' \in Endpoints(host.tenant) /\ Clears
  /\ Goes("session")
  /\ UNCHANGED <<host, settings, selection, bound, identity, policy, failed, request, bounds>>

\* After the session the identity is waited for, if the model is configured and turned on.
Readies(q) ==
  IF config # None /\ settings.enabled THEN [q EXCEPT ![1].step = "ready"] ELSE Tail(q)

\* getSession() answers; a session that has been published meanwhile is newer.
BindSession ==
  /\ Running(Binds, "session")
  /\ UNCHANGED <<settings, config, selection, bound, policy, request, ops>>
  /\ IF config # None /\ settings.enabled THEN UNCHANGED <<host, failed>> ELSE Bound(TRUE)
  /\ \/ /\ Head(queue).fresh
        /\ Publishes(host.active)
        /\ queue' = Outdated(Readies(queue))
     \/ /\ ~Head(queue).fresh /\ Works
        /\ queue' = Readies(queue)
        /\ UNCHANGED <<session, checks, tokens>> /\ Syncs
     \/ /\ Head(queue).fresh /\ Fails
        /\ Forgets /\ Syncs
        /\ queue' = Outdated(Readies(queue))
        /\ UNCHANGED tokens

\* getSession() rejects, or what follows its answer throws.
BindLoses ==
  /\ Running(Binds, "session")
  /\ UNCHANGED <<settings, config, selection, bound, policy, request, ops>>
  /\ Bound(FALSE)
  /\ \/ /\ Head(queue).fresh
        /\ PublishFails(host.active)
        /\ queue' = Outdated(Tail(queue))
     \/ /\ ~Head(queue).fresh
        /\ queue' = Tail(queue)
        /\ UNCHANGED <<session, checks, tokens>> /\ Throws
     \/ Fails /\ queue' = Tail(queue) /\ UNCHANGED <<identity, tokens>>

-----------------------------------------------------------------------------
(* modelIdentityReady(), at the end of a binding or for a request. *)

\* A readiness check that asks whether the identity is accepted, and what its answer leads to.
Known(ready) ==
  /\ queue' = Tail(queue)
  /\ \/ /\ Head(queue).kind \in Binds
        /\ \/ selection' = (IF ready THEN Hosted ELSE selection) /\ Works /\ Bound(TRUE)
           \/ ready /\ UNCHANGED selection /\ Fails /\ Bound(FALSE)
        /\ UNCHANGED request
     \/ /\ Head(queue).kind = "ready" /\ Works
        /\ request' = IF ~ready THEN None
                      ELSE [request EXCEPT !.at = IF request.enable THEN "balance" ELSE "write"]
        /\ UNCHANGED <<host, failed, selection>>

\* It has no answer for the first operation; for a binding this may be an error.
Gives(ok) ==
  IF Head(queue).kind = "ready" THEN request' = None /\ UNCHANGED <<host, failed>>
                                ELSE Bound(ok) /\ UNCHANGED request

\* The session is asked for again when it is not active, or nothing has confirmed it or will.
ReadyStarts ==
  /\ Running({"ready"}, "start") /\ Goes("ready")
  /\ UNCHANGED <<host, settings, selection, bound, config, identity, policy, tokens, failed, request, bounds>>

ReadyRefreshes ==
  /\ Running(Binds \cup {"ready"}, "ready")
  /\ UNCHANGED <<settings, bound, config, policy, ops>>
  /\ \/ /\ session.status = "active" /\ (session.ready # None \/ Reconciling)
        /\ Goes("wait") /\ Works
        /\ UNCHANGED <<host, selection, identity, tokens, failed, request>>
     \/ /\ session.status # "active" \/ (session.ready = None /\ ~Reconciling)
        /\ \/ /\ UNCHANGED <<host, selection, failed, request>>
              /\ Publishes(host.active)
              /\ GoesOutdated("wait")
           \/ /\ Fails /\ queue' = Tail(queue) /\ Gives(TRUE)
              /\ UNCHANGED <<selection, identity, tokens>>
           \/ /\ queue' = Outdated(Tail(queue)) /\ Gives(FALSE)
              /\ PublishFails(host.active)
              /\ UNCHANGED selection

\* Mutant: the wait ends only when the identity is accepted.
ReadyWaits ==
  /\ Running(Binds \cup {"ready"}, "wait")
  /\ session.status = "active" => session.ready # None
  /\ Known(session.status = "active" /\ session.ready # None)
  /\ UNCHANGED <<settings, bound, config, identity, policy, tokens, ops>>

\* It waits as long as the session is active and a reconciliation runs.
ReadyAnswers ==
  /\ Running(Binds \cup {"ready"}, "wait")
  /\ session.status = "active" => ~Reconciling
  /\ Known(session.status = "active" /\ session.ready # None)
  /\ UNCHANGED <<settings, bound, config, identity, policy, tokens, ops>>

\* Mutant: the answer of an earlier generation counts.
CheckAnswersLate(c) ==
  /\ checks' = checks \ {c}
  /\ UNCHANGED <<host, settings, selection, bound, config, policy, tokens, queue, failed, request, bounds>>
  /\ session' \in {[session EXCEPT !.ready = r] : r \in {None, c.config}}
  /\ Syncs

\* The service answers a reconciliation; one of another generation says nothing.  What throws
\* then, throws for the operation that waits.
CheckAnswers(c) ==
  /\ checks' = checks \ {c}
  /\ UNCHANGED <<settings, selection, bound, config, policy, tokens, ops>>
  /\ \/ ~c.fresh /\ UNCHANGED <<host, session, registered, queue, failed, request, faults>>
     \/ /\ c.fresh
        /\ session' \in {[session EXCEPT !.ready = r] : r \in {None, c.config}}
        /\ \/ UNCHANGED <<host, queue, failed, request>> /\ Syncs /\ Works
           \/ /\ IF Running(Binds \cup {"ready"}, "wait") THEN queue' = Tail(queue) /\ Gives(FALSE)
                 ELSE UNCHANGED <<host, queue, failed, request>>
              /\ Throws

-----------------------------------------------------------------------------
(* ModelProxyToken. *)

Mints ==
  /\ config # None /\ ~Restricted /\ token = None
  /\ "route" \in adapter \/ request # None
  /\ \A m \in minting : ~m.fresh
  /\ minting' = minting \cup {[config |-> config, fresh |-> TRUE]}
  /\ UNCHANGED <<host, settings, selection, bound, config, identity, policy, token, queue, failed, request, bounds>>

\* Mutant: the answer of an earlier generation is cached.
MintAnswersLate(m) ==
  /\ minting' = minting \ {m}
  /\ token' \in {token, m.config}
  /\ UNCHANGED <<host, settings, selection, bound, config, identity, policy, queue, failed, request, bounds>>

MintAnswers(m) ==
  /\ minting' = minting \ {m}
  /\ token' \in {token} \cup IF m.fresh THEN {m.config} ELSE {}
  /\ UNCHANGED <<host, settings, selection, bound, config, identity, policy, queue, failed, request, bounds>>

\* The service refuses the token.
Invalidate ==
  /\ token # None /\ Clears
  /\ UNCHANGED <<host, settings, selection, bound, config, identity, policy, queue, failed, request, bounds>>

-----------------------------------------------------------------------------
(* setEnabled: readiness, balance, then updateEnabledState() with its undo. *)

Alone == Apart => request = None
Calm == Apart => host.phase = "rest" /\ queue = <<>> /\ request = None

Ask(enable) ==
  /\ Uses /\ Calm /\ request = None
  /\ config # None /\ ~Restricted
  /\ request' = [at |-> "ready", tenant |-> config.tenant, enable |-> enable,
                 settings |-> settings, selection |-> selection]
  /\ Enters("ready")
  /\ UNCHANGED <<host, settings, selection, bound, config, identity, policy, tokens, failed, faults>>

At(step) == request # None /\ request.at = step
Steps(step) == request' = [request EXCEPT !.at = step]
Persisting == Steps("persist") /\ Enters("persist")

\* The account has the balance, or the request ends here.
BalanceAnswers ==
  /\ At("balance")
  /\ Steps("write") \/ request' = None
  /\ UNCHANGED <<host, settings, selection, bound, config, identity, policy, tokens, queue, failed, bounds>>

\* updateEnabledState() captures the state and makes its first change.
Captures(step) == request' = [request EXCEPT !.at = step, !.settings = settings, !.selection = selection]

WritesNothing ==
  /\ At("write") /\ request.enable = settings.enabled
  /\ UNCHANGED <<host, settings, bound, config, session, checks, policy, tokens, failed, ops>>
  /\ \/ /\ selection' = (IF request.enable THEN Hosted ELSE selection)
        /\ Captures("persist") /\ Enters("persist") /\ Works /\ Syncs
     \/ /\ request.enable /\ selection # Hosted /\ UNCHANGED selection
        /\ Captures("restore") /\ UNCHANGED queue /\ Fails /\ Syncs
     \/ UNCHANGED <<selection, queue>> /\ Captures("restore") /\ Throws

WritesEnabled ==
  /\ At("write") /\ request.enable /\ ~settings.enabled
  /\ UNCHANGED <<host, selection, bound, config, session, checks, policy, tokens, queue, failed, ops>>
  /\ \/ /\ settings' = [settings EXCEPT !.enabled = TRUE, !.previous = selection]
        /\ \/ Captures("select") /\ Works /\ Syncs
           \/ Captures("restore") /\ Throws
     \/ UNCHANGED <<settings, registered>> /\ Captures("restore") /\ Fails

WritesSelection ==
  /\ At("write") /\ ~request.enable /\ settings.enabled
  /\ \/ selection' = Restored /\ Captures("disable") /\ Works
     \/ selection = Hosted /\ UNCHANGED selection /\ Captures("restore") /\ Fails
  /\ UNCHANGED <<host, settings, bound, config, identity, policy, tokens, queue, failed, ops>>

Selects ==
  /\ At("select")
  /\ \/ selection' = Hosted /\ Persisting /\ Works
     \/ UNCHANGED <<selection, queue>> /\ Steps("restore") /\ Fails
  /\ UNCHANGED <<host, settings, bound, config, identity, policy, tokens, failed, ops>>

Disables ==
  /\ At("disable")
  /\ UNCHANGED <<host, selection, bound, config, session, checks, policy, tokens, failed, ops>>
  /\ \/ /\ settings' = [settings EXCEPT !.enabled = FALSE]
        /\ \/ Persisting /\ Works /\ Syncs
           \/ UNCHANGED queue /\ Steps("restore") /\ Throws
     \/ UNCHANGED <<settings, queue, registered>> /\ Steps("restore") /\ Fails

PersistRuns ==
  /\ Running({"persist"}, "start") /\ queue' = Tail(queue)
  /\ UNCHANGED <<host, selection, bound, config, session, checks, policy, tokens, failed, ops>>
  /\ \/ Persists /\ request' = None /\ Follows
     \/ UNCHANGED <<settings, registered>> /\ Steps("restore") /\ Fails

\* Mutant: the selection is not restored.
RestoresSettings ==
  /\ At("restore") /\ request' = None
  /\ settings' = request.settings /\ Works
  /\ UNCHANGED <<host, selection, bound, config, session, checks, policy, tokens, queue, failed, ops>>
  /\ Syncs

\* restoreState(): each part may fail on its own, sync() included.
Restores ==
  /\ At("restore") /\ request' = None
  /\ UNCHANGED <<host, bound, config, session, checks, policy, tokens, queue, failed, ops>>
  /\ \/ settings' = request.settings /\ selection' = request.selection /\ Follows
     \/ UNCHANGED settings /\ selection' = request.selection /\ Fails /\ Syncs
     \/ settings' = request.settings /\ UNCHANGED selection /\ Fails /\ Syncs

-----------------------------------------------------------------------------
(* The Host: switches, sessions, the update policy, and the retry of the first binding. *)

StartSwitch(t) ==
  /\ host.phase = "rest" /\ t # host.tenant /\ Uses /\ Alone
  /\ host' = [host EXCEPT !.phase = "prepare", !.from = host.tenant, !.to = t, !.active = FALSE]
  /\ Enters("prepare")
  /\ UNCHANGED <<settings, selection, bound, config, identity, policy, tokens, failed, request, faults>>

\* The other environment opens and is committed, or the switch is undone.
OpenAnswers ==
  /\ host.phase = "open"
  /\ \/ /\ host' = [host EXCEPT !.phase = "commit", !.tenant = host.to]
        /\ Enters("bind") /\ Works
     \/ /\ Moves("revert") /\ Fails
        /\ UNCHANGED queue
  /\ UNCHANGED <<settings, selection, bound, config, identity, policy, tokens, failed, request, ops>>

Reverts ==
  /\ host.phase = "revert"
  /\ host' = [host EXCEPT !.phase = "rollback", !.tenant = host.from, !.active = FALSE]
  /\ session' = [session EXCEPT !.undone = session.status = "active"]
  /\ Enters("bind")
  /\ UNCHANGED <<settings, selection, bound, config, registered, checks, policy, tokens, failed, request, bounds>>

\* awiki/session
Told(active) ==
  /\ UNCHANGED <<settings, selection, bound, config, policy, failed, request>>
  /\ Publishes(active) \/ PublishFails(active)
  /\ queue' = Outdated(queue)

SessionChanges(active) ==
  /\ host.phase = "rest" /\ Uses
  /\ host' = [host EXCEPT !.active = active]
  /\ Told(active)

\* A registration ends while the Host switches: one that began before the environment was
\* locked, or one in the other environment, which has no identity to lock.
Registers ==
  /\ host.phase \in {"prepare", "open", "commit", "revert"} /\ session.status # "active" /\ Uses
  /\ host' = [host EXCEPT !.active = (host.phase # "prepare")]
  /\ Told(TRUE)

\* awiki/update-policy, of the environment that is bound while no switch runs.
PolicyChanges ==
  /\ host.phase = "rest" /\ Uses /\ Alone
  /\ host' = [host EXCEPT !.restricted = IF Restricted THEN @ \ {host.tenant} ELSE @ \cup {host.tenant}]
  /\ UNCHANGED <<settings, selection, bound, config, session, checks, failed, request>>
  /\ IF bound = host.tenant /\ policy # ~Restricted
     THEN /\ policy' = ~Restricted /\ Clears
          /\ \/ Syncs /\ Works /\ Enters("follow")
             \/ Throws /\ UNCHANGED queue
     ELSE UNCHANGED <<policy, tokens, registered, queue, faults>>

\* A request finds that the first binding has failed.
Retry ==
  /\ failed /\ host.phase = "rest" /\ Alone
  /\ \A i \in DOMAIN queue : queue[i].kind # "retry"
  /\ Enters("retry")
  /\ UNCHANGED <<host, settings, selection, bound, config, identity, policy, tokens, failed, request, bounds>>

\* The user picks a model of another provider, or this one while it is listed.
ChooseModel(m) ==
  /\ Uses /\ m # selection /\ (m = Hosted => adapter # {} /\ Calm)
  /\ selection' = m
  /\ UNCHANGED <<host, settings, bound, config, identity, policy, tokens, queue, failed, request, faults>>

-----------------------------------------------------------------------------
Lifecycle ==
  \/ PreparePersists \/ PrepareReleases \/ PrepareTears
  \/ RetryBegins \/ BindReads \/ Refuses \/ BindRestricts \/ FollowRestricts
  \/ BindConfigures \/ BindSession \/ BindLoses
  \/ ReadyStarts \/ ReadyRefreshes \/ ReadyAnswers \/ PersistRuns
Requested ==
  \/ BalanceAnswers \/ WritesNothing \/ WritesEnabled \/ WritesSelection
  \/ Selects \/ Disables \/ Restores
Answer == (\E c \in checks : CheckAnswers(c)) \/ (\E m \in minting : MintAnswers(m))
Switching == OpenAnswers \/ Reverts
User ==
  \/ \E t \in Tenants : StartSwitch(t)
  \/ \E b \in BOOLEAN : SessionChanges(b) \/ Ask(b)
  \/ Registers \/ PolicyChanges \/ Retry \/ Mints \/ Invalidate
  \/ \E m \in AnyModel : ChooseModel(m)

Next == Lifecycle \/ Requested \/ Answer \/ Switching \/ User

\* The services and the settings answer; nothing says that anyone asks again.
Fairness ==
  /\ WF_vars(Lifecycle) /\ WF_vars(Requested) /\ WF_vars(Switching)
  /\ WF_vars(\E c \in checks : CheckAnswers(c))

Spec == Init /\ [][Next]_vars /\ Fairness

-----------------------------------------------------------------------------
\* The cached token was minted by the service that is configured, and so is one on its way,
\* unless its answer is fenced.
TokenOfService ==
  /\ token # None => token = config
  /\ \A m \in minting : m.fresh => m.config = config

\* The adapter is registered only while the service of the configured environment has accepted
\* the identity, whatever throws when it is registered or released; but for what is left from
\* a release that has thrown until the next one works, and for an identity that was registered
\* in an environment the switch to which was undone, until the session is published again.
AlwaysVerified ==
  adapter # {} =>
    /\ session.ready # None
    /\ config # None => session.ready.tenant = config.tenant

AdapterVerified == ~torn /\ ~session.undone => AlwaysVerified

\* The stored intent of an environment changes only by a request that was made there.
OwnIntent ==
  [][\A t \in Tenants : settings'.stored[t].enabled # settings.stored[t].enabled =>
       request # None /\ request.tenant = t]_vars

\* When nothing is in progress, the selected model is the hosted one only if it is turned on.
AtRest == host.phase = "rest" /\ queue = <<>> /\ request = None
SelectionServed == AtRest /\ selection = Hosted => settings.enabled

\* When nothing is in progress the plugin is bound to the environment in force.
BoundAtRest == AtRest /\ ~failed => bound = host.tenant /\ config \in Endpoints(host.tenant)

\* A switch ends, whatever waits for the identity in the queue.
SwitchEnds == host.phase # "rest" ~> host.phase = "rest"

=============================================================================
