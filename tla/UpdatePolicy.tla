----------------------------- MODULE UpdatePolicy -----------------------------
(***************************************************************************)
(* The update policy of the active tenant (src/index.ts and                *)
(* src/update-policy.ts): the status the Host works under, the last policy *)
(* verified for each tenant on disk, the refreshes that ask the service,   *)
(* and what they do to the runtime of the provider (ProviderRuntime): a    *)
(* version below the minimum stops it and keeps it from starting.          *)
(*                                                                         *)
(* A policy is its revision, and Restricting are the revisions this plugin *)
(* is too old for.  runtimeGeneration is only compared with a captured     *)
(* value, so a refresh carries fenced in its place.  The switch of tenants *)
(* is TenantSwitch's, reduced to what a refresh meets: the steps before    *)
(* the disposal are one, and so are those a rollback takes besides opening *)
(* the tenant it left.  The identity is the same throughout, and every     *)
(* scope holds one.  A consumer that a rejected disposal leaves in the     *)
(* slot of a provider goes out of sight with the provider.                 *)
(***************************************************************************)
EXTENDS ProviderRuntime

CONSTANTS
  Tenants,       \* the tenants of the registry
  MaxRevision,   \* bound on the revisions a service publishes
  Restricting,   \* the revisions whose minimum is above this plugin's version
  MaxSwitches    \* bound on the switches of a behaviour

ASSUME TenantsAssumption == "none" \notin Tenants
ASSUME RevisionsAssumption == MaxRevision \in Nat /\ Restricting \subseteq 1..MaxRevision
ASSUME MaxSwitchesAssumption == MaxSwitches \in Nat

VARIABLES
  tenant,     \* activeTenant
  proxy,      \* is the model proxy registered?  currentModelProxyVersion()
  policy,     \* updatePolicyStatus
  cache,      \* the policy file of each tenant
  refreshes,  \* the runs of performUpdatePolicyRefresh()
  request,    \* updatePolicyRequest: the refresh that owns it
  task,       \* updatePolicyTask
  switch,     \* the tenant switch: its step, the tenant it left, the refresh it awaits
  switches    \* how many have started

policyVars == <<tenant, proxy, policy, cache, refreshes, request, task, switch, switches>>
vars == <<runtimeVars, policyVars>>

Revisions == 1..MaxRevision
NoPolicy == 0   \* no file, or a status without a policy

NoStatus == [tenant |-> "none", proxy |-> FALSE, revision |-> NoPolicy]
Statuses == [tenant : Tenants, proxy : BOOLEAN, revision : Revisions \cup {NoPolicy}]
Refresh == [at : {"idle", "fetch", "aborted", "answered", "stop"},
            tenant : Tenants \cup {"none"}, proxy : BOOLEAN,
            cached : Revisions \cup {NoPolicy},     \* the file, when the refresh began
            revision : Revisions \cup {NoPolicy},   \* the status it resolves to
            fenced : BOOLEAN]                       \* the generation has passed

TypeOK ==
  /\ RuntimeTypeOK
  /\ tenant \in Tenants /\ proxy \in BOOLEAN
  /\ policy \in Statuses \cup {NoStatus}
  /\ cache \in [Tenants -> Revisions \cup {NoPolicy}]
  /\ refreshes \in [Refreshes -> Refresh]
  /\ request \in Refreshes \cup {"none"} /\ task \in Refreshes \cup {"none"}
  /\ switch \in [at : {"idle", "lock", "dispose", "identity", "refresh", "commit", "failed",
                       "undo", "restored"},
                 from : Tenants \cup {"none"}, to : Tenants \cup {"none"},
                 awaits : Refreshes \cup {"none"}]
  /\ switches \in 0..MaxSwitches

\* getUpdatePolicyStatus().restricted: the file decides as long as there is no status.
IsRestricted(status, files, t) ==
  (IF status = NoStatus THEN files[t] ELSE status.revision) \in Restricting

NoSwitch == [at |-> "idle", from |-> "none", to |-> "none", awaits |-> "none"]
Switching == switch.at # "idle"
Serving == switch.at \notin {"dispose", "undo"}   \* this.provider is set

-----------------------------------------------------------------------------
(* refreshUpdatePolicy()                                                    *)

NoRefresh == [at |-> "idle", tenant |-> "none", proxy |-> FALSE, cached |-> NoPolicy,
              revision |-> NoPolicy, fenced |-> FALSE]
Fetching(t, p) ==
  [NoRefresh EXCEPT !.at = "fetch", !.tenant = t, !.proxy = p, !.cached = cache[t]]

\* An abort only matters to a check that is not over.
Abort(rs) ==
  [r \in Refreshes |-> IF r = request /\ rs[r].at = "fetch"
                       THEN [NoRefresh EXCEPT !.at = "aborted"] ELSE rs[r]]

\* ... and the generation to a refresh that goes on.
Fence(rs) ==
  [r \in Refreshes |-> IF rs[r].at \in {"idle", "aborted"} THEN rs[r]
                       ELSE [rs[r] EXCEPT !.fenced = TRUE]]

\* The refresh in flight has the generation and the component version of now.
Joins(tk, p) == tk # "none" /\ ~refreshes[tk].fenced /\ refreshes[tk].proxy = p

\* Mutant: the request before it goes on.
BeginUnaborted(r, rs, t, p) ==
  /\ refreshes[r].at = "idle"
  /\ refreshes' = [rs EXCEPT ![r] = Fetching(t, p)]
  /\ request' = r /\ task' = r

\* performUpdatePolicyRefresh(): the request before it is aborted, whatever it is for.
Begin(r, rs, t, p) ==
  /\ refreshes[r].at = "idle"
  /\ refreshes' = [Abort(rs) EXCEPT ![r] = Fetching(t, p)]
  /\ request' = r /\ task' = r

JoinOrBegin(rs, t, tk, p) ==
  IF Joins(tk, p) THEN refreshes' = rs /\ task' = tk /\ UNCHANGED request
  ELSE \E r \in Refreshes : Begin(r, rs, t, p)

\* The timer, or a user who asks.
Asked ==
  /\ ~Joins(task, proxy)
  /\ \E r \in Refreshes : Begin(r, refreshes, tenant, proxy)
  /\ UNCHANGED <<runtimeVars, tenant, proxy, policy, cache, switch, switches>>

\* registerTenantLifecycleParticipant() and its disposer: the status is of other components.
ParticipantChanges ==
  /\ proxy' = ~proxy
  /\ policy' = NoStatus
  /\ restricted' = IsRestricted(NoStatus, cache, tenant)
  /\ JoinOrBegin(refreshes, tenant, task, ~proxy)
  /\ UNCHANGED <<account, runtime, tenant, cache, switch, switches>>

-----------------------------------------------------------------------------
(* checkAwikiUpdatePolicy()                                                 *)

Answered(r, revision) ==
  refreshes' = [refreshes EXCEPT ![r] = [@ EXCEPT !.at = "answered", !.cached = NoPolicy,
                                                  !.revision = revision]]

\* The file of a tenant changes, and with it what a Host without a status goes by.
Store(t, revision) ==
  /\ cache' = [cache EXCEPT ![t] = revision]
  /\ restricted' = IsRestricted(policy, cache', tenant)

Open(r) == refreshes[r].at = "fetch"

\* A policy not older than the file was when the refresh began; the file may stay unwritten.
PolicyArrives(r) ==
  /\ Open(r)
  /\ \E revision \in Revisions :
       /\ revision >= refreshes[r].cached
       /\ Answered(r, revision)
       /\ \/ Store(refreshes[r].tenant, revision)
          \/ Failures /\ UNCHANGED <<cache, restricted>>
  /\ UNCHANGED <<account, runtime, tenant, proxy, policy, request, task, switch, switches>>

\* The service withdraws the policy, or a custom one has none: the file is removed.
PolicyWithdrawn(r) ==
  /\ Open(r)
  /\ Answered(r, NoPolicy)
  /\ Store(refreshes[r].tenant, NoPolicy)
  /\ UNCHANGED <<account, runtime, tenant, proxy, policy, request, task, switch, switches>>

\* No answer, or none that can be trusted: the policy of the file still holds.
CheckFails(r) ==
  /\ Open(r)
  /\ Answered(r, refreshes[r].cached)
  /\ UNCHANGED <<runtimeVars, tenant, proxy, policy, cache, request, task, switch, switches>>

-----------------------------------------------------------------------------
(* performUpdatePolicyRefresh(), after the check.                           *)

Without(r, who) == IF who = r THEN "none" ELSE who

\* The refresh returns, and so does the switch that awaits it.
Ends(r, next) ==
  /\ refreshes' = [refreshes EXCEPT ![r] = NoRefresh]
  /\ request' = Without(r, request) /\ task' = Without(r, task)
  /\ switch' = IF switch.awaits = r THEN [switch EXCEPT !.at = next, !.awaits = "none"]
               ELSE switch

\* Mutant: only the tenant is compared.
InForceForTenant(r) == refreshes[r].tenant = tenant

\* The status is of the active tenant, and no later refresh has begun.
InForce(r) ==
  request = r /\ ~refreshes[r].fenced /\ refreshes[r].tenant = tenant

NewStatus(r) == [tenant |-> refreshes[r].tenant, proxy |-> refreshes[r].proxy,
                 revision |-> refreshes[r].revision]

\* A version that is too old: the runtime is stopped.
Restricts(r) ==
  /\ refreshes[r].at = "answered" /\ InForce(r)
  /\ refreshes[r].revision \in Restricting
  /\ policy' = NewStatus(r) /\ restricted' = TRUE
  /\ IF Serving
     THEN /\ BeginStop(r)
          /\ refreshes' = [refreshes EXCEPT ![r] = [@ EXCEPT !.at = "stop",
                                                            !.revision = NoPolicy]]
          /\ UNCHANGED <<replacement, request, task, switch>>
     ELSE Ends(r, "commit") /\ UNCHANGED runtime
  /\ UNCHANGED <<account, tenant, proxy, cache, switches>>

\* stopProviderRuntime() has returned, or has rejected.
RuntimeStopped(r) ==
  /\ refreshes[r].at = "stop"
  /\ StopReturns(stopping, r) \/ StopRejects(stopping, r)
  /\ Ends(r, "commit")
  /\ UNCHANGED <<account, restricted, realtime, consumer, replacement, tenant, proxy, policy,
                 cache, switches>>

\* A supported version: the runtime starts, if the Host was restricted until now.
Allows(r) ==
  /\ refreshes[r].at = "answered" /\ InForce(r)
  /\ refreshes[r].revision \notin Restricting
  /\ policy' = NewStatus(r) /\ restricted' = FALSE
  /\ IF restricted /\ Serving /\ ~Switching THEN EnsureRuntime(activeDid, signedOut, FALSE)
     ELSE UNCHANGED runtime
  /\ Ends(r, "commit")
  /\ UNCHANGED <<account, tenant, proxy, cache, switches>>

\* A later refresh, or a switch, has overtaken the answer.
Dropped(r) ==
  /\ refreshes[r].at = "answered" /\ ~InForce(r)
  /\ Ends(r, "commit")
  /\ UNCHANGED <<runtimeVars, tenant, proxy, policy, cache, switches>>

\* An aborted check rejects.
Rejects(r) ==
  /\ refreshes[r].at = "aborted"
  /\ Ends(r, "failed")
  /\ UNCHANGED <<runtimeVars, tenant, proxy, policy, cache, switches>>

-----------------------------------------------------------------------------
(* Calls, and the switch of tenants.                                        *)

\* A getSession() is answered, which may have begun before the Host was restricted.
Read ==
  /\ ~Switching /\ IsSignedOut = "in"
  /\ signedOut' = "in" /\ activeDid' = identity
  /\ EnsureRuntime(identity, "in", restricted)
  /\ UNCHANGED <<identity, marker, restricted, policyVars>>

\* ... and a login().
Login ==
  /\ ~Switching
  /\ marker' = FALSE /\ signedOut' = "in" /\ activeDid' = identity
  /\ EnsureRuntime(identity, "in", restricted)
  /\ UNCHANGED <<identity, restricted, policyVars>>

\* switchTenant(): a new generation; what is being asked is for the old one.
SwitchStarts(t) ==
  /\ ~Switching /\ t # tenant
  /\ switches < MaxSwitches /\ switches' = switches + 1
  /\ switch' = [at |-> "lock", from |-> tenant, to |-> t, awaits |-> "none"]
  /\ refreshes' = Fence(Abort(refreshes))
  /\ task' = "none"
  /\ UNCHANGED <<runtimeVars, tenant, proxy, policy, cache, request>>

LockScopes == marker' = TRUE /\ signedOut' = "out" /\ activeDid' = None /\ UNCHANGED identity

\* Both scopes are signed out and the participants are prepared: disposeProvider().
Disposes ==
  /\ switch.at = "lock" /\ replacement = None
  /\ LockScopes
  /\ BeginStop("mutation")
  /\ switch' = [switch EXCEPT !.at = "dispose"]
  /\ UNCHANGED <<restricted, replacement, tenant, proxy, policy, cache, refreshes, request,
                 task, switches>>

\* A marker could not be written, or a participant not be prepared.
LockFails ==
  /\ Failures /\ switch.at = "lock"
  /\ LockScopes \/ UNCHANGED account
  /\ switch' = NoSwitch
  /\ EnsureRuntime(activeDid', signedOut', restricted)
  /\ UNCHANGED <<restricted, tenant, proxy, policy, cache, refreshes, request, task, switches>>

\* disposeProvider() has rejected.  A startup of that provider ends, and starts nothing.
DisposeRejects ==
  StopRejects([o \in Stops |-> IF stopping[o].realtime = "startup"
                               THEN [stopping[o] EXCEPT !.realtime = Over(o)] ELSE stopping[o]],
              "mutation")

\* openTenantProvider(), bindTenantState(): nothing of the other tenant remains but what is
\* being disposed, and its policy is asked for.
Opened(t, next) ==
  /\ realtime' = NoRealtime /\ consumer' = NoConsumer
  /\ tenant' = t /\ signedOut' = "unknown" /\ activeDid' = None
  /\ policy' = NoStatus /\ restricted' = IsRestricted(NoStatus, cache, t)
  /\ \E r \in Refreshes : Begin(r, refreshes, t, proxy)
  /\ switch' = [switch EXCEPT !.at = next]
  /\ UNCHANGED <<identity, marker, replacement, proxy, cache, switches>>

Opens ==
  switch.at = "dispose" /\ StopReturns(stopping, "mutation") /\ Opened(switch.to, "identity")

Reopens ==
  /\ \/ switch.at = "undo" /\ StopReturns(stopping, "mutation")
     \/ switch.at \in {"dispose", "undo"} /\ DisposeRejects
  /\ Opened(switch.from, "restored")

\* Core has opened: the switch waits for the policy of the target.
AwaitsPolicy ==
  /\ switch.at = "identity"
  /\ JoinOrBegin(refreshes, tenant, task, proxy)
  /\ switch' = [switch EXCEPT !.at = "refresh", !.awaits = task']
  /\ UNCHANGED <<runtimeVars, tenant, proxy, policy, cache, switches>>

\* commitActive() and commitSwitch().
Commits ==
  /\ switch.at = "commit"
  /\ switch' = NoSwitch
  /\ EnsureRuntime(activeDid, signedOut, restricted)
  /\ UNCHANGED <<account, restricted, tenant, proxy, policy, cache, refreshes, request, task,
                 switches>>

\* Core does not open, or the registry cannot be written.
SwitchFails ==
  /\ Failures /\ switch.at \in {"identity", "commit"}
  /\ switch' = [switch EXCEPT !.at = "failed"]
  /\ UNCHANGED <<runtimeVars, tenant, proxy, policy, cache, refreshes, request, task,
                 switches>>

\* The rollback disposes the provider of the target.
Undoes ==
  /\ switch.at = "failed" /\ replacement = None
  /\ BeginStop("mutation")
  /\ switch' = [switch EXCEPT !.at = "undo"]
  /\ UNCHANGED <<account, restricted, replacement, tenant, proxy, policy, cache, refreshes,
                 request, task, switches>>

\* The previous tenant is open again.  A rollback of which any step has failed starts nothing.
Restored ==
  /\ switch.at = "restored"
  /\ switch' = NoSwitch
  /\ EnsureRuntime(activeDid, signedOut, restricted) \/ (Failures /\ UNCHANGED runtime)
  /\ UNCHANGED <<account, restricted, tenant, proxy, policy, cache, refreshes, request, task,
                 switches>>

-----------------------------------------------------------------------------

\* openTenantProvider(): the policy is asked for, then the runtime starts.
Init ==
  /\ tenant \in Tenants /\ proxy = FALSE /\ policy = NoStatus
  /\ cache \in [Tenants -> Revisions \cup {NoPolicy}]
  /\ \E r \in Refreshes :
       /\ refreshes = [q \in Refreshes |->
                         IF q = r THEN Fetching(tenant, FALSE) ELSE NoRefresh]
       /\ request = r /\ task = r
  /\ switch = NoSwitch /\ switches = 0
  /\ restricted = IsRestricted(NoStatus, cache, tenant)
  /\ identity \in Dids /\ marker \in BOOLEAN /\ FreshRuntime

RefreshStep(r) ==
  \/ PolicyArrives(r) \/ PolicyWithdrawn(r) \/ CheckFails(r) \/ Rejects(r)
  \/ Restricts(r) \/ Allows(r) \/ Dropped(r) \/ RuntimeStopped(r)

SwitchStep ==
  \/ Disposes \/ LockFails \/ Opens \/ AwaitsPolicy \/ Commits
  \/ SwitchFails \/ Undoes \/ Reopens \/ Restored

Runtime == RuntimeStep /\ UNCHANGED policyVars

Next ==
  \/ \E r \in Refreshes : RefreshStep(r)
  \/ Asked \/ ParticipantChanges \/ Read \/ Login
  \/ \E t \in Tenants : SwitchStarts(t)
  \/ SwitchStep \/ Runtime

Spec == Init /\ [][Next]_vars

-----------------------------------------------------------------------------
(* Properties.                                                              *)

Settled == ~Switching /\ RuntimeAtRest /\ \A r \in Refreshes : refreshes[r] = NoRefresh

\* A Host whose policy restricts it has no supervisor and no Agent consumer once everything
\* has settled, whatever was starting, stopping, failing or being answered when the policy
\* came; but for a consumer that a stop left in its slot because the disposal of the one
\* before it, which the stop awaited first, rejected.
RestrictedIsStopped ==
  Settled /\ policy.revision \in Restricting =>
    OpenSupervisors = 0 /\ (OpenConsumers = 0 \/ consumer.kept)

\* "late results from old tenants are discarded" (index.ts), and those for components that
\* have been replaced: the status is of the tenant served and of what is installed.
StatusIsCurrent == policy # NoStatus => policy.tenant = tenant /\ policy.proxy = proxy

\* The policy on disk, by which the next start decides, never goes back to an older one,
\* although answers may come late and the file was read before the request.
NeverOlder ==
  [][\A t \in Tenants :
       cache'[t] # cache[t] => cache'[t] = NoPolicy \/ cache'[t] > cache[t]]_vars

-----------------------------------------------------------------------------
(* What the code does not keep.                                             *)

\* A signed-in account is served once a policy allows it.  wasRestricted is read from the
\* file the check has just replaced, when there is no status yet.
LiftedIsServed ==
  Settled /\ policy # NoStatus /\ ~restricted /\ signedOut # "out" => realtime.slot # None

\* One supervisor and one consumer: a read that is answered while the old ones stop, after
\* the restriction was lifted, starts the new ones at once.
OneRuntime == OpenSupervisors <= 1 /\ OpenConsumers <= 1

\* RestrictedIsStopped without its exception.
NothingKept ==
  Settled /\ policy.revision \in Restricting => OpenSupervisors = 0 /\ OpenConsumers = 0
=============================================================================
