--------------------------- MODULE UpdatePolicyProofs ---------------------------
(***************************************************************************)
(* For any tenants, revisions and number of concurrent refreshes: the      *)
(* status the Host works under is of the tenant it serves and of the       *)
(* components it has, the policy on disk never goes back to an older one,  *)
(* and a Host that a policy restricts ends with nothing running.  The      *)
(* first two rest on the one request: every other check is aborted or      *)
(* over, so that what the request has captured is still the case.  The     *)
(* third rests on who stops the runtime: a restriction comes with a stop,  *)
(* and nothing starts under it.                                            *)
(***************************************************************************)
EXTENDS UpdatePolicy, ProviderRuntimeProofs, FiniteSetTheorems

\* The refreshes and the one that owns updatePolicyRequest, which the task joins.
RefreshTypes ==
  /\ refreshes \in [Refreshes -> Refresh]
  /\ request \in Refreshes \cup {"none"} /\ task \in {"none", request}
  /\ tenant \in Tenants /\ proxy \in BOOLEAN
  /\ cache \in [Tenants -> Revisions \cup {NoPolicy}]

\* Only the request still asks, and the file is as it was when it began.
OneRequest ==
  \A r \in Refreshes :
    refreshes[r].at = "fetch" =>
      /\ r = request /\ refreshes[r].tenant \in Tenants
      /\ refreshes[r].cached = cache[refreshes[r].tenant]

\* A request that is still in force is for the components that are installed.
RequestIsCurrent ==
  request # "none" /\ ~refreshes[request].fenced
      /\ refreshes[request].at \in {"fetch", "answered"}
    => refreshes[request].proxy = proxy

PolicyInv == RefreshTypes /\ OneRequest /\ RequestIsCurrent /\ StatusIsCurrent
-----------------------------------------------------------------------------
(* What the helpers do to the refreshes. *)

LEMMA NoRefreshType == NoRefresh \in Refresh /\ NoRefresh.at = "idle"
BY DEF NoRefresh, Refresh, NoPolicy

LEMMA AbortedType ==
  [NoRefresh EXCEPT !.at = "aborted"] \in Refresh /\ [NoRefresh EXCEPT !.at = "aborted"].at = "aborted"
BY DEF NoRefresh, Refresh, NoPolicy

\* No check is still open once the one of the request is aborted.
LEMMA AbortEndsAll ==
  ASSUME PolicyInv
  PROVE  /\ Abort(refreshes) \in [Refreshes -> Refresh]
         /\ \A r \in Refreshes : Abort(refreshes)[r].at # "fetch"
         /\ \A r \in Refreshes : Abort(refreshes)[r] = refreshes[r]
                                \/ Abort(refreshes)[r].at = "aborted"
<1>1. refreshes \in [Refreshes -> Refresh] BY DEF PolicyInv, RefreshTypes
<1>2. \A r \in Refreshes : refreshes[r].at = "fetch" => r = request BY DEF PolicyInv, OneRequest
<1> QED BY <1>1, <1>2, AbortedType DEF Abort

LEMMA FetchingType ==
  ASSUME PolicyInv, NEW t \in Tenants, NEW p \in BOOLEAN
  PROVE  /\ Fetching(t, p) \in Refresh
         /\ Fetching(t, p).at = "fetch" /\ Fetching(t, p).tenant = t /\ Fetching(t, p).proxy = p
         /\ Fetching(t, p).cached = cache[t]
BY DEF PolicyInv, RefreshTypes, Fetching, NoRefresh, Refresh, NoPolicy

\* A new refresh is the request, of what is installed now.
LEMMA BeginInv ==
  ASSUME PolicyInv, NEW r \in Refreshes, NEW t \in Tenants, NEW p \in BOOLEAN,
         Begin(r, refreshes, t, p), cache' = cache, proxy' = p, tenant' \in Tenants
  PROVE  RefreshTypes' /\ OneRequest' /\ RequestIsCurrent'
<1> DEFINE aborted == Abort(refreshes)
<1>1. /\ aborted \in [Refreshes -> Refresh]
      /\ \A q \in Refreshes : aborted[q].at # "fetch"
  BY AbortEndsAll
<1>2. /\ refreshes' = [aborted EXCEPT ![r] = Fetching(t, p)] /\ request' = r /\ task' = r
  BY DEF Begin
<1> HIDE DEF aborted
<1>3. refreshes' \in [Refreshes -> Refresh] /\ refreshes'[r] = Fetching(t, p)
  BY <1>1, <1>2, FetchingType
<1>4. \A q \in Refreshes : q # r => refreshes'[q] = aborted[q] BY <1>1, <1>2
<1>5. RefreshTypes' BY <1>2, <1>3 DEF PolicyInv, RefreshTypes
<1>6. OneRequest' BY <1>1, <1>2, <1>3, <1>4, FetchingType DEF OneRequest
<1>7. RequestIsCurrent' BY <1>2, <1>3, FetchingType DEF RequestIsCurrent
<1> QED BY <1>5, <1>6, <1>7

\* To join is to keep the request, which is then of the same components.
LEMMA JoinOrBeginInv ==
  ASSUME PolicyInv, NEW p \in BOOLEAN, JoinOrBegin(refreshes, tenant, task, p),
         cache' = cache, tenant' = tenant, proxy' = p
  PROVE  RefreshTypes' /\ OneRequest' /\ RequestIsCurrent'
<1>1. CASE Joins(task, p)
  <2>1. refreshes' = refreshes /\ task' = task /\ request' = request BY <1>1 DEF JoinOrBegin
  <2>2. request # "none" /\ refreshes[request].proxy = p
    BY <1>1 DEF Joins, PolicyInv, RefreshTypes
  <2>3. RefreshTypes' BY <2>1 DEF PolicyInv, RefreshTypes
  <2>4. OneRequest' BY <2>1 DEF PolicyInv, OneRequest
  <2>5. RequestIsCurrent' BY <2>1, <2>2 DEF RequestIsCurrent
  <2> QED BY <2>3, <2>4, <2>5
<1>2. CASE ~Joins(task, p)
  <2>1. PICK r \in Refreshes : Begin(r, refreshes, tenant, p) BY <1>2 DEF JoinOrBegin
  <2>2. tenant \in Tenants BY DEF PolicyInv, RefreshTypes
  <2> QED BY <2>1, <2>2, BeginInv
<1> QED BY <1>1, <1>2

\* A refresh that has returned asks nothing, and is not the request.
LEMMA EndsInv ==
  ASSUME PolicyInv, NEW r \in Refreshes, NEW next, Ends(r, next),
         tenant' = tenant, proxy' = proxy, cache' = cache
  PROVE  RefreshTypes' /\ OneRequest' /\ RequestIsCurrent'
<1>1. refreshes' = [refreshes EXCEPT ![r] = NoRefresh] BY DEF Ends
<1>2. refreshes \in [Refreshes -> Refresh] BY DEF PolicyInv, RefreshTypes
<1>3. /\ refreshes' \in [Refreshes -> Refresh] /\ refreshes'[r] = NoRefresh
      /\ \A q \in Refreshes : q # r => refreshes'[q] = refreshes[q]
  BY <1>1, <1>2, NoRefreshType
<1>4. /\ request' = (IF request = r THEN "none" ELSE request)
      /\ task' = (IF task = r THEN "none" ELSE task)
  BY DEF Ends, Without
<1>5. RefreshTypes' BY <1>3, <1>4 DEF PolicyInv, RefreshTypes
<1>6. OneRequest'
  <2> SUFFICES ASSUME NEW q \in Refreshes, refreshes'[q].at = "fetch"
               PROVE  /\ q = request' /\ refreshes'[q].tenant \in Tenants
                      /\ refreshes'[q].cached = cache'[refreshes'[q].tenant]
    BY DEF OneRequest
  <2>1. q # r /\ refreshes'[q] = refreshes[q] BY <1>3, NoRefreshType
  <2> QED BY <2>1, <1>4 DEF PolicyInv, OneRequest
<1>7. RequestIsCurrent'
  <2>1. request' # "none" => request' = request /\ request # r /\ request \in Refreshes
    BY <1>4 DEF PolicyInv, RefreshTypes
  <2> QED BY <2>1, <1>3 DEF PolicyInv, RequestIsCurrent
<1> QED BY <1>5, <1>6, <1>7

\* A step that leaves the refreshes and what they are about alone.
LEMMA RefreshFrame ==
  ASSUME PolicyInv, UNCHANGED <<refreshes, request, task, tenant, proxy, cache>>
  PROVE  RefreshTypes' /\ OneRequest' /\ RequestIsCurrent'
BY DEF PolicyInv, RefreshTypes, OneRequest, RequestIsCurrent

LEMMA StatusFrame ==
  ASSUME PolicyInv, UNCHANGED <<policy, tenant, proxy>>
  PROVE  StatusIsCurrent'
BY DEF PolicyInv, StatusIsCurrent

-----------------------------------------------------------------------------
(* The steps. *)

LEMMA InitInv == Init => PolicyInv
<1> SUFFICES ASSUME Init PROVE PolicyInv OBVIOUS
<1>1. tenant \in Tenants /\ proxy = FALSE /\ policy = NoStatus BY DEF Init
<1>2. cache \in [Tenants -> Revisions \cup {NoPolicy}] BY DEF Init
<1>3. PICK r \in Refreshes :
        /\ refreshes = [q \in Refreshes |-> IF q = r THEN Fetching(tenant, FALSE) ELSE NoRefresh]
        /\ request = r /\ task = r
  BY DEF Init
<1>4. /\ Fetching(tenant, FALSE) \in Refresh
      /\ Fetching(tenant, FALSE).tenant = tenant /\ Fetching(tenant, FALSE).proxy = FALSE
      /\ Fetching(tenant, FALSE).cached = cache[tenant]
  BY <1>1, <1>2 DEF Fetching, NoRefresh, Refresh, NoPolicy
<1>5. RefreshTypes BY <1>1, <1>2, <1>3, <1>4, NoRefreshType DEF RefreshTypes
<1>6. OneRequest BY <1>1, <1>3, <1>4, NoRefreshType DEF OneRequest
<1>7. RequestIsCurrent BY <1>1, <1>3, <1>4 DEF RequestIsCurrent
<1>8. StatusIsCurrent BY <1>1 DEF StatusIsCurrent
<1> QED BY <1>5, <1>6, <1>7, <1>8 DEF PolicyInv

\* The check of the request is over, and with it the last that was open.
LEMMA AnsweredInv ==
  ASSUME PolicyInv, NEW r \in Refreshes, Open(r), NEW v \in Revisions \cup {NoPolicy},
         Answered(r, v), cache' \in [Tenants -> Revisions \cup {NoPolicy}],
         UNCHANGED <<request, task, tenant, proxy>>
  PROVE  RefreshTypes' /\ OneRequest' /\ RequestIsCurrent'
<1>1. refreshes \in [Refreshes -> Refresh] /\ refreshes[r] \in Refresh
  BY DEF PolicyInv, RefreshTypes
<1> DEFINE answer == [refreshes[r] EXCEPT !.at = "answered", !.cached = NoPolicy, !.revision = v]
<1>2. refreshes' = [refreshes EXCEPT ![r] = answer] BY DEF Answered
<1>3. /\ answer \in Refresh /\ answer.at = "answered"
      /\ answer.proxy = refreshes[r].proxy /\ answer.fenced = refreshes[r].fenced
  BY <1>1 DEF Refresh, NoPolicy
<1> HIDE DEF answer
<1>4. /\ refreshes' \in [Refreshes -> Refresh] /\ refreshes'[r] = answer
      /\ \A q \in Refreshes : q # r => refreshes'[q] = refreshes[q]
  BY <1>1, <1>2, <1>3
<1>5. refreshes[r].at = "fetch" BY DEF Open
<1>6. RefreshTypes' BY <1>4 DEF PolicyInv, RefreshTypes
<1>7. OneRequest' BY <1>3, <1>4, <1>5 DEF PolicyInv, OneRequest
<1>8. RequestIsCurrent' BY <1>3, <1>4, <1>5 DEF PolicyInv, OneRequest, RequestIsCurrent
<1> QED BY <1>6, <1>7, <1>8

\* A policy that is stored is one.
LEMMA StoreType ==
  ASSUME PolicyInv, NEW t, NEW v \in Revisions \cup {NoPolicy}, Store(t, v)
  PROVE  cache' \in [Tenants -> Revisions \cup {NoPolicy}]
BY DEF PolicyInv, RefreshTypes, Store

\* The status a refresh that is in force brings is of what is installed.
LEMMA NewStatusInv ==
  ASSUME PolicyInv, NEW r \in Refreshes, refreshes[r].at = "answered", InForce(r),
         policy' = NewStatus(r), tenant' = tenant, proxy' = proxy
  PROVE  StatusIsCurrent'
<1>1. request = r /\ ~refreshes[r].fenced /\ refreshes[r].tenant = tenant BY DEF InForce
<1>2. r # "none" BY RefreshesAssumption
<1>3. refreshes[r].proxy = proxy BY <1>1, <1>2 DEF PolicyInv, RequestIsCurrent
<1> QED BY <1>1, <1>3 DEF NewStatus, StatusIsCurrent

LEMMA RefreshStepInv ==
  ASSUME PolicyInv, NEW r \in Refreshes, RefreshStep(r)
  PROVE  PolicyInv'
<1>1. CASE PolicyArrives(r)
  <2>1. PICK v \in Revisions :
          /\ Answered(r, v)
          /\ Store(refreshes[r].tenant, v) \/ UNCHANGED <<cache, restricted>>
    BY <1>1 DEF PolicyArrives
  <2>2. cache' \in [Tenants -> Revisions \cup {NoPolicy}]
    BY <2>1, StoreType DEF PolicyInv, RefreshTypes
  <2>3. Open(r) /\ UNCHANGED <<request, task, tenant, proxy, policy>> BY <1>1 DEF PolicyArrives
  <2> QED BY <2>1, <2>2, <2>3, AnsweredInv, StatusFrame DEF PolicyInv
<1>2. CASE PolicyWithdrawn(r)
  <2>1. /\ Open(r) /\ UNCHANGED <<request, task, tenant, proxy, policy>>
        /\ Answered(r, NoPolicy) /\ Store(refreshes[r].tenant, NoPolicy)
    BY <1>2 DEF PolicyWithdrawn
  <2> QED BY <2>1, StoreType, AnsweredInv, StatusFrame DEF PolicyInv
<1>3. CASE CheckFails(r)
  <2>1. /\ Open(r) /\ UNCHANGED <<request, task, tenant, proxy, policy, cache>>
        /\ Answered(r, refreshes[r].cached)
    BY <1>3 DEF CheckFails
  <2>2. refreshes[r].cached \in Revisions \cup {NoPolicy}
    BY DEF PolicyInv, RefreshTypes, Refresh
  <2>3. cache' \in [Tenants -> Revisions \cup {NoPolicy}] BY <2>1 DEF PolicyInv, RefreshTypes
  <2> QED BY <2>1, <2>2, <2>3, AnsweredInv, StatusFrame DEF PolicyInv
<1>4. CASE Rejects(r)
  BY <1>4, EndsInv, StatusFrame DEF PolicyInv, Rejects
<1>5. CASE Restricts(r)
  <2>1. /\ refreshes[r].at = "answered" /\ InForce(r) /\ policy' = NewStatus(r)
        /\ UNCHANGED <<tenant, proxy, cache>>
    BY <1>5 DEF Restricts
  <2>2. StatusIsCurrent' BY <2>1, NewStatusInv
  <2>3. CASE Serving
    <3> DEFINE stop == [refreshes[r] EXCEPT !.at = "stop", !.revision = NoPolicy]
    <3>1. refreshes' = [refreshes EXCEPT ![r] = stop] /\ UNCHANGED <<request, task>>
      BY <1>5, <2>3 DEF Restricts
    <3>2. refreshes \in [Refreshes -> Refresh] /\ refreshes[r] \in Refresh
      BY DEF PolicyInv, RefreshTypes
    <3>3. stop \in Refresh /\ stop.at = "stop" BY <3>2 DEF Refresh, NoPolicy
    <3> HIDE DEF stop
    <3>4. /\ refreshes' \in [Refreshes -> Refresh] /\ refreshes'[r] = stop
          /\ \A q \in Refreshes : q # r => refreshes'[q] = refreshes[q]
      BY <3>1, <3>2, <3>3
    <3>5. RefreshTypes' BY <2>1, <3>1, <3>4 DEF PolicyInv, RefreshTypes
    <3>6. OneRequest' BY <2>1, <3>1, <3>3, <3>4 DEF PolicyInv, OneRequest
    <3>7. RequestIsCurrent'
      <4>1. request = r BY <2>1 DEF InForce
      <4> QED BY <4>1, <3>1, <3>3, <3>4 DEF RequestIsCurrent
    <3> QED BY <2>2, <3>5, <3>6, <3>7 DEF PolicyInv
  <2>4. CASE ~Serving
    <3>1. Ends(r, "commit") BY <1>5, <2>4 DEF Restricts
    <3> QED BY <2>1, <2>2, <3>1, EndsInv DEF PolicyInv
  <2> QED BY <2>3, <2>4
<1>6. CASE Allows(r)
  <2>1. /\ refreshes[r].at = "answered" /\ InForce(r) /\ policy' = NewStatus(r)
        /\ UNCHANGED <<tenant, proxy, cache>> /\ Ends(r, "commit")
    BY <1>6 DEF Allows
  <2> QED BY <2>1, NewStatusInv, EndsInv DEF PolicyInv
<1>7. CASE Dropped(r)
  BY <1>7, EndsInv, StatusFrame DEF PolicyInv, Dropped
<1>8. CASE RuntimeStopped(r)
  BY <1>8, EndsInv, StatusFrame DEF PolicyInv, RuntimeStopped
<1> QED BY <1>1, <1>2, <1>3, <1>4, <1>5, <1>6, <1>7, <1>8 DEF RefreshStep

\* A fence leaves a refresh at its await.
LEMMA FenceFacts ==
  ASSUME NEW rs \in [Refreshes -> Refresh]
  PROVE  /\ Fence(rs) \in [Refreshes -> Refresh]
         /\ \A r \in Refreshes : Fence(rs)[r].at = rs[r].at
         /\ \A r \in Refreshes : rs[r].at \in {"idle", "aborted"} \/ Fence(rs)[r].fenced = TRUE
<1> DEFINE F(r) == IF rs[r].at \in {"idle", "aborted"} THEN rs[r]
                   ELSE [rs[r] EXCEPT !.fenced = TRUE]
<1>1. ASSUME NEW r \in Refreshes
      PROVE  /\ F(r) \in Refresh /\ F(r).at = rs[r].at
             /\ rs[r].at \in {"idle", "aborted"} \/ F(r).fenced = TRUE
  <2>1. rs[r] \in Refresh OBVIOUS
  <2> QED BY <2>1 DEF Refresh
<1>2. Fence(rs) = [r \in Refreshes |-> F(r)] BY DEF Fence
<1> HIDE DEF F
<1> QED BY <1>1, <1>2

\* A new generation: what is open is aborted, what goes on is fenced.
LEMMA SwitchStartsInv ==
  ASSUME PolicyInv, NEW t \in Tenants, SwitchStarts(t)
  PROVE  PolicyInv'
<1>1. /\ refreshes' = Fence(Abort(refreshes)) /\ task' = "none"
      /\ UNCHANGED <<tenant, proxy, policy, cache, request>>
  BY DEF SwitchStarts
<1>2. PICK aborted \in [Refreshes -> Refresh] :
        aborted = Abort(refreshes) /\ \A r \in Refreshes : aborted[r].at # "fetch"
  BY AbortEndsAll
<1>3. refreshes' = Fence(aborted) BY <1>1, <1>2
<1>4. /\ refreshes' \in [Refreshes -> Refresh]
      /\ \A r \in Refreshes : refreshes'[r].at = aborted[r].at
      /\ \A r \in Refreshes : aborted[r].at \in {"idle", "aborted"} \/ refreshes'[r].fenced = TRUE
  BY <1>3, FenceFacts
<1>5. RefreshTypes' BY <1>1, <1>4 DEF PolicyInv, RefreshTypes
<1>6. OneRequest' BY <1>2, <1>4 DEF OneRequest
<1>7. RequestIsCurrent'
  <2>1. request \in Refreshes \cup {"none"} BY DEF PolicyInv, RefreshTypes
  <2> QED BY <2>1, <1>1, <1>4 DEF RequestIsCurrent
<1> QED BY <1>1, <1>5, <1>6, <1>7, StatusFrame DEF PolicyInv

\* The provider of a tenant opens: its policy is asked for, and no status is left.
LEMMA OpenedInv ==
  ASSUME PolicyInv, NEW t \in Tenants, NEW next, Opened(t, next)
  PROVE  PolicyInv'
<1>1. /\ tenant' = t /\ policy' = NoStatus /\ UNCHANGED <<proxy, cache>>
      /\ \E r \in Refreshes : Begin(r, refreshes, t, proxy)
  BY DEF Opened
<1>2. proxy \in BOOLEAN BY DEF PolicyInv, RefreshTypes
<1>3. RefreshTypes' /\ OneRequest' /\ RequestIsCurrent' BY <1>1, <1>2, BeginInv
<1>4. StatusIsCurrent' BY <1>1 DEF StatusIsCurrent
<1> QED BY <1>3, <1>4 DEF PolicyInv

\* The step of the switch that has the policy asked for leaves the status alone.
LEMMA AwaitsPolicyInv ==
  ASSUME PolicyInv, AwaitsPolicy
  PROVE  PolicyInv'
<1>1. /\ JoinOrBegin(refreshes, tenant, task, proxy)
      /\ UNCHANGED <<tenant, proxy, policy, cache>>
  BY DEF AwaitsPolicy
<1>2. proxy \in BOOLEAN BY DEF PolicyInv, RefreshTypes
<1> QED BY <1>1, <1>2, JoinOrBeginInv, StatusFrame DEF PolicyInv

LEMMA ParticipantChangesInv ==
  ASSUME PolicyInv, ParticipantChanges
  PROVE  PolicyInv'
<1>1. /\ proxy' = ~proxy /\ policy' = NoStatus /\ UNCHANGED <<tenant, cache>>
      /\ JoinOrBegin(refreshes, tenant, task, ~proxy)
  BY DEF ParticipantChanges
<1>2. (~proxy) \in BOOLEAN OBVIOUS
<1>3. RefreshTypes' /\ OneRequest' /\ RequestIsCurrent' BY <1>1, <1>2, JoinOrBeginInv
<1>4. StatusIsCurrent' BY <1>1 DEF StatusIsCurrent
<1> QED BY <1>3, <1>4 DEF PolicyInv

LEMMA AskedInv ==
  ASSUME PolicyInv, Asked
  PROVE  PolicyInv'
<1>1. /\ \E r \in Refreshes : Begin(r, refreshes, tenant, proxy)
      /\ UNCHANGED <<tenant, proxy, policy, cache>>
  BY DEF Asked
<1>2. tenant \in Tenants /\ proxy \in BOOLEAN BY DEF PolicyInv, RefreshTypes
<1> QED BY <1>1, <1>2, BeginInv, StatusFrame DEF PolicyInv

\* A switch goes between two tenants.
RunningSwitch == [at : {"lock", "dispose", "identity", "refresh", "commit", "failed", "undo",
                        "restored"},
                  from : Tenants, to : Tenants, awaits : Refreshes \cup {"none"}]
SwitchTypes == switch \in RunningSwitch \cup {NoSwitch}

Frame == UNCHANGED <<refreshes, request, task, tenant, proxy, cache, policy>>

LEMMA SwitchStepInv ==
  ASSUME PolicyInv, SwitchTypes, SwitchStep
  PROVE  PolicyInv'
<1>1. CASE Opens
  BY <1>1, OpenedInv DEF Opens, SwitchTypes, RunningSwitch, NoSwitch
<1>2. CASE Reopens
  BY <1>2, OpenedInv DEF Reopens, SwitchTypes, RunningSwitch, NoSwitch
<1>3. CASE AwaitsPolicy BY <1>3, AwaitsPolicyInv
<1>4. CASE Disposes \/ LockFails \/ Commits \/ SwitchFails \/ Undoes \/ Restored
  <2>1. Frame
    BY <1>4 DEF Frame, Disposes, LockFails, Commits, SwitchFails, Undoes, Restored
  <2> QED BY <2>1, RefreshFrame, StatusFrame DEF Frame, PolicyInv
<1> QED BY <1>1, <1>2, <1>3, <1>4 DEF SwitchStep

LEMMA StepInv == PolicyInv /\ SwitchTypes /\ [Next]_vars => PolicyInv'
<1> SUFFICES ASSUME PolicyInv, SwitchTypes, [Next]_vars PROVE PolicyInv' OBVIOUS
<1>1. CASE \E r \in Refreshes : RefreshStep(r) BY <1>1, RefreshStepInv
<1>2. CASE Asked BY <1>2, AskedInv
<1>3. CASE ParticipantChanges BY <1>3, ParticipantChangesInv
<1>4. CASE \E t \in Tenants : SwitchStarts(t) BY <1>4, SwitchStartsInv
<1>5. CASE SwitchStep BY <1>5, SwitchStepInv
<1>6. CASE Read \/ Login \/ Runtime \/ UNCHANGED vars
  <2>1. Frame BY <1>6 DEF Frame, Read, Login, Runtime, policyVars, vars
  <2> QED BY <2>1, RefreshFrame, StatusFrame DEF Frame, PolicyInv
<1> QED BY <1>1, <1>2, <1>3, <1>4, <1>5, <1>6 DEF Next

\* A switch starts between two tenants, and keeps them.
LEMMA SwitchInv == PolicyInv /\ SwitchTypes /\ [Next]_vars => SwitchTypes'
<1> SUFFICES ASSUME PolicyInv, SwitchTypes, [Next]_vars PROVE SwitchTypes' OBVIOUS
<1>1. CASE switch' = switch BY <1>1 DEF SwitchTypes
<1>2. CASE switch' = NoSwitch BY <1>2 DEF SwitchTypes
<1>3. ASSUME switch.at # "idle",
             NEW at \in {"dispose", "identity", "refresh", "commit", "failed", "undo", "restored"},
             NEW awaits \in Refreshes \cup {"none"},
             switch' = [switch EXCEPT !.at = at, !.awaits = awaits]
      PROVE  SwitchTypes'
  <2>1. switch \in RunningSwitch BY <1>3 DEF SwitchTypes, NoSwitch
  <2>2. [switch EXCEPT !.at = at, !.awaits = awaits] \in RunningSwitch BY <2>1 DEF RunningSwitch
  <2> QED BY <1>3, <2>2 DEF SwitchTypes
<1>4. ASSUME switch.at # "idle",
             NEW at \in {"dispose", "identity", "refresh", "commit", "failed", "undo", "restored"},
             switch' = [switch EXCEPT !.at = at]
      PROVE  SwitchTypes'
  <2>1. switch \in RunningSwitch BY <1>4 DEF SwitchTypes, NoSwitch
  <2>2. [switch EXCEPT !.at = at] \in RunningSwitch BY <2>1 DEF RunningSwitch
  <2> QED BY <1>4, <2>2 DEF SwitchTypes
<1>5. CASE \E r \in Refreshes : RefreshStep(r)
  <2>1. PICK r \in Refreshes : RefreshStep(r) BY <1>5
  <2>2. ASSUME NEW next \in {"commit", "failed"}, Ends(r, next) PROVE SwitchTypes'
    <3>1. CASE switch.awaits # r BY <3>1, <2>2, <1>1 DEF Ends
    <3>2. CASE switch.awaits = r
      <4>1. switch.at # "idle"
        <5>1. r # "none" BY RefreshesAssumption
        <5> QED BY <5>1, <3>2 DEF SwitchTypes, RunningSwitch, NoSwitch
      <4>2. switch' = [switch EXCEPT !.at = next, !.awaits = "none"] BY <3>2, <2>2 DEF Ends
      <4> QED BY <4>1, <4>2, <1>3
    <3> QED BY <3>1, <3>2
  <2>3. CASE PolicyArrives(r) \/ PolicyWithdrawn(r) \/ CheckFails(r)
    BY <2>3, <1>1 DEF PolicyArrives, PolicyWithdrawn, CheckFails
  <2>4. CASE Rejects(r) BY <2>4, <2>2 DEF Rejects
  <2>5. CASE Restricts(r) BY <2>5, <2>2, <1>1 DEF Restricts
  <2>6. CASE Allows(r) BY <2>6, <2>2 DEF Allows
  <2>7. CASE Dropped(r) BY <2>7, <2>2 DEF Dropped
  <2>8. CASE RuntimeStopped(r) BY <2>8, <2>2 DEF RuntimeStopped
  <2> QED BY <2>1, <2>3, <2>4, <2>5, <2>6, <2>7, <2>8 DEF RefreshStep
<1>6. CASE \E t \in Tenants : SwitchStarts(t)
  <2>1. PICK t \in Tenants : SwitchStarts(t) BY <1>6
  <2>2. switch' = [at |-> "lock", from |-> tenant, to |-> t, awaits |-> "none"]
    BY <2>1 DEF SwitchStarts
  <2> QED BY <2>2 DEF SwitchTypes, RunningSwitch, PolicyInv, RefreshTypes
<1>7. CASE SwitchStep
  <2>1. CASE LockFails \/ Commits \/ Restored BY <2>1, <1>2 DEF LockFails, Commits, Restored
  <2>2. CASE AwaitsPolicy
    <3>1. switch' = [switch EXCEPT !.at = "refresh", !.awaits = task'] /\ switch.at = "identity"
      BY <2>2 DEF AwaitsPolicy
    <3>2. task' \in Refreshes \cup {"none"}
      <4>1. JoinOrBegin(refreshes, tenant, task, proxy) BY <2>2 DEF AwaitsPolicy
      <4>2. task \in Refreshes \cup {"none"} BY DEF PolicyInv, RefreshTypes
      <4> QED BY <4>1, <4>2 DEF JoinOrBegin, Begin
    <3> QED BY <3>1, <3>2, <1>3
  <2>3. CASE Disposes BY <2>3, <1>4 DEF Disposes
  <2>4. CASE Opens BY <2>4, <1>4 DEF Opens, Opened
  <2>5. CASE SwitchFails BY <2>5, <1>4 DEF SwitchFails
  <2>6. CASE Undoes BY <2>6, <1>4 DEF Undoes
  <2>7. CASE Reopens BY <2>7, <1>4 DEF Reopens, Opened
  <2> QED BY <1>7, <2>1, <2>2, <2>3, <2>4, <2>5, <2>6, <2>7 DEF SwitchStep
<1>8. CASE \/ Read \/ Login \/ Runtime \/ Asked \/ ParticipantChanges \/ UNCHANGED vars
  BY <1>8, <1>1 DEF Read, Login, Runtime, Asked, ParticipantChanges, policyVars, vars
<1> QED BY <1>5, <1>6, <1>7, <1>8 DEF Next

-----------------------------------------------------------------------------
(* The type of the rest. *)

PolicyTypes == policy \in Statuses \cup {NoStatus} /\ switches \in 0..MaxSwitches

LEMMA IsRestrictedType ==
  ASSUME NEW status, NEW files, NEW t
  PROVE  IsRestricted(status, files, t) \in BOOLEAN
BY DEF IsRestricted

LEMMA MarkerType ==
  ASSUME signedOut \in {"unknown", "out", "in"}
  PROVE  IsSignedOut \in {"unknown", "out", "in"}
BY DEF IsSignedOut

\* Whether the disposal of the provider returns or rejects, what it leaves are stops.
LEMMA DisposeOverTypes ==
  ASSUME RuntimeInv, StopReturns(stopping, "mutation") \/ DisposeRejects
  PROVE  stopping' \in Stopping
<1> DEFINE L(o) == IF stopping[o].realtime = "startup"
                   THEN [stopping[o] EXCEPT !.realtime = Over(o)] ELSE stopping[o]
           s == [o \in Stops |-> L(o)]
<1>1. stopping \in Stopping /\ "mutation" \in Owners BY RuntimeTypes DEF Owners
<1>2. \A o \in Stops : L(o) \in LanePair /\ (o \in Strays => L(o) \in StrayPair)
  <2> SUFFICES ASSUME NEW o \in Stops
               PROVE  L(o) \in LanePair /\ (o \in Strays => L(o) \in StrayPair)
    OBVIOUS
  <2>1. stopping[o] \in LanePair /\ (o \in Strays => stopping[o] \in StrayPair)
    BY <1>1 DEF Stopping, Strayed
  <2>2. Over(o) \in {"none", "done"} /\ (o \in Strays => Over(o) = "none") BY DEF Over
  <2> QED BY <2>1, <2>2 DEF LanePair, StrayPair
<1>3. DisposeRejects => StopRejects(s, "mutation") BY DEF DisposeRejects
<1> HIDE DEF L
<1>4. s \in Stopping BY <1>2 DEF Stopping, Strayed, Stops
<1> HIDE DEF s
<1> QED BY <1>1, <1>3, <1>4, StopOverTypes

LEMMA RefreshStepTypes ==
  ASSUME PolicyInv, RuntimeInv, PolicyTypes, NEW r \in Refreshes, RefreshStep(r)
  PROVE  RuntimeInv' /\ PolicyTypes'
<1>1. r \in Owners BY DEF Owners
<1>2. /\ identity \in Did /\ activeDid \in Did /\ marker \in BOOLEAN
      /\ restricted \in BOOLEAN /\ signedOut \in {"unknown", "out", "in"}
      /\ realtime \in Realtime /\ consumer \in Consumer /\ CleanupShape(consumer)
      /\ replacement \in Did /\ stopping \in Stopping
  BY RuntimeTypes
<1>3. ASSUME UNCHANGED <<account, runtime>>, restricted' \in BOOLEAN PROVE RuntimeInv'
  BY <1>2, <1>3, RuntimeTypesNext DEF account, runtime, RuntimeTyped
<1>4. ASSUME UNCHANGED account, restricted' \in BOOLEAN, RuntimeTyped PROVE RuntimeInv'
  BY <1>2, <1>4, RuntimeTypesNext DEF account
<1>5. ASSUME refreshes[r].at = "answered", InForce(r), policy' = NewStatus(r), switches' = switches
      PROVE  PolicyTypes'
  <2>1. /\ refreshes[r] \in Refresh /\ refreshes[r].tenant = tenant /\ tenant \in Tenants
    BY <1>5 DEF PolicyInv, RefreshTypes, InForce
  <2>2. NewStatus(r) \in Statuses BY <2>1 DEF NewStatus, Statuses, Refresh
  <2> QED BY <1>5, <2>2 DEF PolicyTypes
<1>6. CASE PolicyArrives(r) \/ PolicyWithdrawn(r)
  <2>1. UNCHANGED <<account, runtime, policy, switches>>
    BY <1>6 DEF PolicyArrives, PolicyWithdrawn
  <2>2. restricted' \in BOOLEAN
    BY <1>2, <1>6, IsRestrictedType DEF PolicyArrives, PolicyWithdrawn, Store
  <2> QED BY <1>3, <2>1, <2>2 DEF PolicyTypes
<1>7. CASE CheckFails(r) \/ Rejects(r) \/ Dropped(r)
  <2>1. UNCHANGED <<account, runtime, restricted, policy, switches>>
    BY <1>7 DEF CheckFails, Rejects, Dropped, runtimeVars
  <2> QED BY <1>2, <1>3, <2>1 DEF PolicyTypes
<1>8. CASE Restricts(r)
  <2>1. /\ refreshes[r].at = "answered" /\ InForce(r) /\ policy' = NewStatus(r)
        /\ restricted' = TRUE /\ UNCHANGED <<account, switches>>
    BY <1>8 DEF Restricts
  <2>2. CASE Serving
    <3>1. BeginStop(r) /\ UNCHANGED replacement BY <1>8, <2>2 DEF Restricts
    <3>2. RuntimeTyped BY <1>1, <1>2, <3>1, BeginStopTypes DEF RuntimeTyped
    <3> QED BY <1>4, <1>5, <2>1, <3>2
  <2>3. CASE ~Serving
    <3>1. UNCHANGED runtime BY <1>8, <2>3 DEF Restricts
    <3> QED BY <1>3, <1>5, <2>1, <3>1
  <2> QED BY <2>2, <2>3
<1>9. CASE Allows(r)
  <2>1. /\ refreshes[r].at = "answered" /\ InForce(r) /\ policy' = NewStatus(r)
        /\ restricted' = FALSE /\ UNCHANGED <<account, switches>>
        /\ EnsureRuntime(activeDid, signedOut, FALSE) \/ UNCHANGED runtime
    BY <1>9 DEF Allows
  <2>2. CASE EnsureRuntime(activeDid, signedOut, FALSE)
    <3>1. RuntimeTyped BY <1>2, <2>2, EnsureRuntimeTypes
    <3> QED BY <1>4, <1>5, <2>1, <3>1
  <2>3. CASE UNCHANGED runtime BY <1>3, <1>5, <2>1, <2>3
  <2> QED BY <2>1, <2>2, <2>3
<1>10. CASE RuntimeStopped(r)
  <2>1. /\ StopReturns(stopping, r) \/ StopRejects(stopping, r)
        /\ UNCHANGED <<account, restricted, realtime, consumer, replacement, policy, switches>>
    BY <1>10 DEF RuntimeStopped
  <2>2. stopping' \in Stopping BY <1>1, <1>2, <2>1, StopOverTypes
  <2>3. RuntimeTyped BY <1>2, <2>1, <2>2 DEF RuntimeTyped
  <2> QED BY <1>2, <1>4, <2>1, <2>3 DEF PolicyTypes
<1> QED BY <1>6, <1>7, <1>8, <1>9, <1>10 DEF RefreshStep

\* A step of the switch leaves the account and the runtime typed, and the status too.
LEMMA SwitchStepTypes ==
  ASSUME PolicyInv, RuntimeInv, PolicyTypes, SwitchTypes, SwitchStep
  PROVE  RuntimeInv' /\ PolicyTypes'
<1>1. "mutation" \in Owners BY DEF Owners
<1>2. /\ identity \in Did /\ activeDid \in Did /\ marker \in BOOLEAN /\ None \in Did
      /\ restricted \in BOOLEAN /\ signedOut \in {"unknown", "out", "in"}
      /\ realtime \in Realtime /\ consumer \in Consumer /\ CleanupShape(consumer)
      /\ replacement \in Did /\ stopping \in Stopping
  BY RuntimeTypes, FreshTypes
<1>3. ASSUME BeginStop("mutation"), UNCHANGED <<restricted, replacement, policy, switches>>,
             LockScopes \/ UNCHANGED account
      PROVE  RuntimeInv' /\ PolicyTypes'
  <2>1. RuntimeTyped BY <1>1, <1>2, <1>3, BeginStopTypes DEF RuntimeTyped
  <2> QED BY <1>2, <1>3, <2>1, RuntimeTypesNext DEF LockScopes, account, PolicyTypes
<1>4. ASSUME NEW t \in Tenants, NEW next, Opened(t, next), stopping' \in Stopping
      PROVE  RuntimeInv' /\ PolicyTypes'
  <2>1. /\ realtime' = NoRealtime /\ consumer' = NoConsumer /\ UNCHANGED replacement
        /\ signedOut' = "unknown" /\ activeDid' = None /\ UNCHANGED <<identity, marker>>
        /\ policy' = NoStatus /\ restricted' = IsRestricted(NoStatus, cache, t)
        /\ UNCHANGED switches
    BY <1>4 DEF Opened
  <2>2. RuntimeTyped BY <1>2, <1>4, <2>1, FreshTypes DEF RuntimeTyped
  <2> QED BY <1>2, <2>1, <2>2, IsRestrictedType, RuntimeTypesNext DEF PolicyTypes
<1>5. ASSUME UNCHANGED runtimeVars, UNCHANGED <<policy, switches>> PROVE RuntimeInv' /\ PolicyTypes'
  BY <1>2, <1>5, RuntimeTypesNext DEF runtimeVars, account, runtime, RuntimeTyped, PolicyTypes
<1>6. CASE Disposes BY <1>3, <1>6 DEF Disposes
<1>7. CASE Undoes BY <1>3, <1>7 DEF Undoes
<1>8. CASE LockFails
  <2>1. /\ LockScopes \/ UNCHANGED account
        /\ EnsureRuntime(activeDid', signedOut', restricted)
        /\ UNCHANGED <<restricted, policy, switches>>
    BY <1>8 DEF LockFails
  <2>2. /\ identity' \in Did /\ activeDid' \in Did /\ marker' \in BOOLEAN
        /\ signedOut' \in {"unknown", "out", "in"}
    BY <1>2, <2>1 DEF LockScopes, account
  <2>3. RuntimeTyped BY <1>2, <2>1, <2>2, EnsureRuntimeTypes
  <2> QED BY <1>2, <2>1, <2>2, <2>3, RuntimeTypesNext DEF PolicyTypes
<1>9. CASE Commits \/ Restored
  <2>1. /\ EnsureRuntime(activeDid, signedOut, restricted) \/ UNCHANGED runtime
        /\ UNCHANGED <<account, restricted, policy, switches>>
    BY <1>9 DEF Commits, Restored
  <2>2. RuntimeTyped BY <1>2, <2>1, EnsureRuntimeTypes DEF runtime, RuntimeTyped
  <2> QED BY <1>2, <2>1, <2>2, RuntimeTypesNext DEF account, PolicyTypes
<1>10. CASE AwaitsPolicy \/ SwitchFails BY <1>5, <1>10 DEF AwaitsPolicy, SwitchFails
<1>11. CASE Opens \/ Reopens
  <2>1. stopping' \in Stopping BY <1>11, DisposeOverTypes DEF Opens, Reopens
  <2> QED BY <1>4, <1>11, <2>1 DEF Opens, Reopens, SwitchTypes, RunningSwitch, NoSwitch
<1> QED BY <1>6, <1>7, <1>8, <1>9, <1>10, <1>11 DEF SwitchStep

Inv == PolicyInv /\ SwitchTypes /\ RuntimeInv /\ PolicyTypes

LEMMA TypesStep == Inv /\ [Next]_vars => RuntimeInv' /\ PolicyTypes'
<1> SUFFICES ASSUME Inv, [Next]_vars PROVE RuntimeInv' /\ PolicyTypes' OBVIOUS
<1>1. /\ identity \in Did /\ activeDid \in Did /\ marker \in BOOLEAN
      /\ restricted \in BOOLEAN /\ signedOut \in {"unknown", "out", "in"}
      /\ realtime \in Realtime /\ consumer \in Consumer /\ CleanupShape(consumer)
      /\ replacement \in Did /\ stopping \in Stopping
  BY RuntimeTypes DEF Inv
<1>2. CASE \E r \in Refreshes : RefreshStep(r) BY <1>2, RefreshStepTypes DEF Inv
<1>3. CASE SwitchStep BY <1>3, SwitchStepTypes DEF Inv
<1>4. CASE \/ Asked \/ (\E t \in Tenants : SwitchStarts(t)) \/ UNCHANGED vars
  <2>1. UNCHANGED <<runtimeVars, policy>> BY <1>4 DEF Asked, SwitchStarts, vars, policyVars
  <2>2. RuntimeInv'
    BY <1>1, <2>1, RuntimeTypesNext DEF runtimeVars, account, runtime, RuntimeTyped
  <2>3. switches' \in 0..MaxSwitches
    BY <1>4, MaxSwitchesAssumption DEF Inv, PolicyTypes, Asked, SwitchStarts, vars, policyVars
  <2> QED BY <2>1, <2>2, <2>3 DEF Inv, PolicyTypes
<1>5. CASE ParticipantChanges
  <2>1. /\ policy' = NoStatus /\ restricted' = IsRestricted(NoStatus, cache, tenant)
        /\ UNCHANGED <<account, runtime, switches>>
    BY <1>5 DEF ParticipantChanges
  <2>2. RuntimeInv'
    BY <1>1, <2>1, IsRestrictedType, RuntimeTypesNext DEF account, runtime, RuntimeTyped
  <2> QED BY <2>1, <2>2 DEF Inv, PolicyTypes
<1>6. CASE Read \/ Login
  <2>1. /\ EnsureRuntime(identity, "in", restricted)
        /\ signedOut' = "in" /\ activeDid' = identity /\ marker' \in {marker, FALSE}
        /\ UNCHANGED <<identity, restricted, policyVars>>
    BY <1>6 DEF Read, Login
  <2>2. RuntimeTyped BY <1>1, <2>1, EnsureRuntimeTypes DEF Inv
  <2>3. RuntimeInv' BY <1>1, <2>1, <2>2, RuntimeTypesNext
  <2> QED BY <2>1, <2>3 DEF Inv, PolicyTypes, policyVars
<1>7. CASE Runtime
  BY <1>7, RuntimeStepTypes DEF Runtime, Inv, PolicyTypes, policyVars
<1> QED BY <1>2, <1>3, <1>4, <1>5, <1>6, <1>7 DEF Next

-----------------------------------------------------------------------------
(* The theorems. *)

LEMMA Invariance == Spec => []Inv
<1>1. Init => Inv
  <2> SUFFICES ASSUME Init PROVE Inv OBVIOUS
  <2>1. SwitchTypes BY DEF Init, SwitchTypes
  <2>2. PolicyTypes BY MaxSwitchesAssumption DEF Init, PolicyTypes
  <2>3. RuntimeInv
    <3>1. /\ identity \in Did /\ activeDid \in Did /\ marker \in BOOLEAN
          /\ signedOut \in {"unknown", "out", "in"}
      BY FreshTypes DEF Init, FreshRuntime, Did
    <3>2. restricted \in BOOLEAN BY IsRestrictedType DEF Init
    <3> QED BY <3>1, <3>2, FreshTypes, RuntimeTypes DEF Init, FreshRuntime
  <2> QED BY <2>1, <2>2, <2>3, InitInv DEF Inv
<1>2. Inv /\ [Next]_vars => Inv' BY StepInv, SwitchInv, TypesStep DEF Inv
<1> QED BY <1>1, <1>2, PTL DEF Spec

\* The type invariant, for any tenants, revisions and refreshes.
THEOREM TypeCorrect == Spec => []TypeOK
<1>1. Inv => TypeOK
  <2> SUFFICES ASSUME Inv PROVE TypeOK OBVIOUS
  <2>1. /\ RuntimeTypeOK /\ tenant \in Tenants /\ proxy \in BOOLEAN
        /\ policy \in Statuses \cup {NoStatus}
        /\ cache \in [Tenants -> Revisions \cup {NoPolicy}]
        /\ refreshes \in [Refreshes -> Refresh] /\ switches \in 0..MaxSwitches
        /\ request \in Refreshes \cup {"none"} /\ task \in Refreshes \cup {"none"}
    BY DEF Inv, RuntimeInv, PolicyInv, PolicyTypes, RefreshTypes
  <2>2. switch \in [at : {"idle", "lock", "dispose", "identity", "refresh", "commit", "failed",
                         "undo", "restored"},
                   from : Tenants \cup {"none"}, to : Tenants \cup {"none"},
                   awaits : Refreshes \cup {"none"}]
    BY DEF Inv, SwitchTypes, RunningSwitch, NoSwitch
  <2> QED BY <2>1, <2>2 DEF TypeOK
<1> QED BY <1>1, Invariance, PTL

\* For any tenants, policies, refreshes and switches: a status in memory is of the tenant
\* that is served and of the components that are installed (index.ts:1430).
THEOREM StatusIsOfNow == Spec => []StatusIsCurrent
<1>1. Inv => StatusIsCurrent BY DEF Inv, PolicyInv
<1> QED BY <1>1, Invariance, PTL

\* Only an open check writes, and what it writes is not older than the file it has read,
\* which nobody has written since.
CacheStep ==
  \A t \in Tenants : cache'[t] # cache[t] => cache'[t] = NoPolicy \/ cache'[t] > cache[t]

LEMMA WriteStep ==
  ASSUME PolicyInv, NEW r \in Refreshes, Open(r), NEW v \in Revisions \cup {NoPolicy},
         v = NoPolicy \/ v >= refreshes[r].cached, Store(refreshes[r].tenant, v)
  PROVE  CacheStep
<1>1. /\ refreshes[r].tenant \in Tenants
      /\ refreshes[r].cached = cache[refreshes[r].tenant]
  BY DEF Open, PolicyInv, OneRequest
<1>2. cache' = [cache EXCEPT ![refreshes[r].tenant] = v] BY DEF Store
<1>3. cache \in [Tenants -> Revisions \cup {NoPolicy}] BY DEF PolicyInv, RefreshTypes
<1> SUFFICES ASSUME NEW t \in Tenants, cache'[t] # cache[t]
             PROVE  cache'[t] = NoPolicy \/ cache'[t] > cache[t]
  BY DEF CacheStep
<1>4. t = refreshes[r].tenant /\ cache'[t] = v BY <1>1, <1>2, <1>3
<1>5. v \in Nat /\ cache[t] \in Nat
  BY <1>3, RevisionsAssumption DEF Revisions, NoPolicy
<1> QED BY <1>1, <1>4, <1>5

LEMMA CacheMoves == PolicyInv /\ [Next]_vars => CacheStep
<1> SUFFICES ASSUME PolicyInv, [Next]_vars PROVE CacheStep OBVIOUS
<1>1. CASE cache' = cache BY <1>1 DEF CacheStep
<1>2. ASSUME NEW r \in Refreshes, PolicyArrives(r) PROVE CacheStep
  <2>1. PICK v \in Revisions :
          /\ v >= refreshes[r].cached
          /\ Store(refreshes[r].tenant, v) \/ UNCHANGED <<cache, restricted>>
    BY <1>2 DEF PolicyArrives
  <2>2. Open(r) BY <1>2 DEF PolicyArrives
  <2> QED BY <2>1, <2>2, <1>1, WriteStep
<1>3. ASSUME NEW r \in Refreshes, PolicyWithdrawn(r) PROVE CacheStep
  <2>1. Open(r) /\ Store(refreshes[r].tenant, NoPolicy) BY <1>3 DEF PolicyWithdrawn
  <2> QED BY <2>1, WriteStep
<1>4. CASE \E r \in Refreshes : RefreshStep(r)
  BY <1>4, <1>1, <1>2, <1>3
     DEF RefreshStep, CheckFails, Rejects, Restricts, Allows, Dropped, RuntimeStopped
<1>5. CASE SwitchStep
  BY <1>5, <1>1 DEF SwitchStep, Disposes, LockFails, Opens, AwaitsPolicy, Commits, SwitchFails,
                    Undoes, Reopens, Restored, Opened
<1>6. CASE \/ Asked \/ ParticipantChanges \/ Read \/ Login \/ Runtime \/ UNCHANGED vars
           \/ \E t \in Tenants : SwitchStarts(t)
  BY <1>6, <1>1 DEF Asked, ParticipantChanges, Read, Login, Runtime, SwitchStarts, policyVars, vars
<1> QED BY <1>4, <1>5, <1>6 DEF Next

\* The file of a tenant, by which the next start decides, never goes back to an older
\* policy (update-policy.ts:178).
THEOREM PolicyNeverOlder == Spec => NeverOlder
<1>1. Inv /\ [Next]_vars =>
        [\A t \in Tenants :
           cache'[t] # cache[t] => cache'[t] = NoPolicy \/ cache'[t] > cache[t]]_vars
  BY CacheMoves DEF CacheStep, Inv
<1> QED BY <1>1, Invariance, PTL DEF Spec, NeverOlder

-----------------------------------------------------------------------------
(* A restriction.  A status that restricts the Host comes with a stop, and from then on        *)
(* nothing starts; where the provider is being disposed another stop has begun, and the        *)
(* status does not outlive it.                                                                 *)

\* The flag that the runtime goes by is that of the status, or of the file.
Follows == restricted = IsRestricted(policy, cache, tenant)

\* The switch awaits a refresh at one step only.
AwaitsAtRefresh == switch.awaits # "none" => switch.at = "refresh"

InRestriction == policy.revision \in Restricting
RestrictedHalts == InRestriction /\ Serving => Halts

HaltInv == OneStartup /\ Follows /\ AwaitsAtRefresh /\ RestrictedHalts

LEMMA NoStatusAllows == NoStatus.revision \notin Restricting
BY RevisionsAssumption DEF NoStatus, NoPolicy

\* Under a status that restricts, nothing may start.
LEMMA RestrictedBlocks == ASSUME Follows, InRestriction PROVE restricted = TRUE
<1>1. policy # NoStatus BY NoStatusAllows DEF InRestriction
<1> QED BY <1>1 DEF Follows, IsRestricted, InRestriction

LEMMA NewStatusIs ==
  ASSUME PolicyInv, NEW r \in Refreshes, InForce(r)
  PROVE  NewStatus(r) # NoStatus /\ NewStatus(r).revision = refreshes[r].revision
<1>1. refreshes[r].tenant \in Tenants BY DEF InForce, PolicyInv, RefreshTypes
<1> QED BY <1>1, TenantsAssumption DEF NewStatus, NoStatus

\* A refresh that returns does not disturb a disposal.
LEMMA EndsServing ==
  ASSUME AwaitsAtRefresh, NEW r \in Refreshes, NEW next \in {"commit", "failed"}, Ends(r, next),
         SwitchTypes
  PROVE  AwaitsAtRefresh' /\ (Serving' => Serving)
<1>1. r # "none" BY RefreshesAssumption
<1>2. CASE switch.awaits = r
  <2>1. switch' = [switch EXCEPT !.at = next, !.awaits = "none"] BY <1>2 DEF Ends
  <2>2. switch'.awaits = "none" BY <2>1 DEF SwitchTypes, RunningSwitch, NoSwitch
  <2>3. Serving BY <1>1, <1>2 DEF AwaitsAtRefresh, Serving
  <2> QED BY <2>2, <2>3 DEF AwaitsAtRefresh
<1>3. CASE switch.awaits # r BY <1>3 DEF Ends, AwaitsAtRefresh, Serving
<1> QED BY <1>2, <1>3

LEMMA RefreshStepHalts ==
  ASSUME Inv, HaltInv, NEW r \in Refreshes, RefreshStep(r)
  PROVE  HaltInv'
<1>1. /\ PolicyInv /\ SwitchTypes /\ RuntimeInv
      /\ OneStartup /\ Follows /\ AwaitsAtRefresh /\ RestrictedHalts
  BY DEF Inv, HaltInv
<1>2. r \in Owners BY DEF Owners
<1>3. ASSUME UNCHANGED <<runtime, policy>>, Follows', AwaitsAtRefresh', Serving' => Serving
      PROVE  HaltInv'
  <2>1. OneStartup' BY <1>1, <1>3 DEF OneStartup, runtime
  <2>2. RestrictedHalts' BY <1>1, <1>3 DEF RestrictedHalts, InRestriction, Halts, runtime
  <2> QED BY <1>3, <2>1, <2>2 DEF HaltInv
<1>4. CASE PolicyArrives(r) \/ PolicyWithdrawn(r)
  <2>1. /\ UNCHANGED <<runtime, policy, tenant, switch>>
        /\ restricted' = IsRestricted(policy, cache', tenant) \/ UNCHANGED <<cache, restricted>>
    BY <1>4 DEF PolicyArrives, PolicyWithdrawn, Store
  <2>2. Follows' BY <1>1, <2>1 DEF Follows
  <2>3. AwaitsAtRefresh' /\ (Serving' => Serving) BY <1>1, <2>1 DEF AwaitsAtRefresh, Serving
  <2> QED BY <1>3, <2>1, <2>2, <2>3
<1>5. CASE CheckFails(r)
  <2>1. UNCHANGED <<runtime, restricted, policy, tenant, cache, switch>>
    BY <1>5 DEF CheckFails, runtimeVars
  <2>2. Follows' BY <1>1, <2>1 DEF Follows
  <2>3. AwaitsAtRefresh' /\ (Serving' => Serving) BY <1>1, <2>1 DEF AwaitsAtRefresh, Serving
  <2> QED BY <1>3, <2>1, <2>2, <2>3
<1>6. CASE Rejects(r) \/ Dropped(r)
  <2>1. UNCHANGED <<runtime, restricted, policy, tenant, cache>>
    BY <1>6 DEF Rejects, Dropped, runtimeVars
  <2>2. Ends(r, "failed") \/ Ends(r, "commit") BY <1>6 DEF Rejects, Dropped
  <2>3. Follows' BY <1>1, <2>1 DEF Follows
  <2> QED BY <1>1, <1>3, <2>1, <2>2, <2>3, EndsServing
<1>7. CASE Restricts(r)
  <2>1. /\ InForce(r) /\ refreshes[r].revision \in Restricting /\ policy' = NewStatus(r)
        /\ restricted' = TRUE
    BY <1>7 DEF Restricts
  <2>2. Follows' BY <1>1, <2>1, NewStatusIs DEF Follows, IsRestricted
  <2>3. CASE Serving
    <3>1. BeginStop(r) /\ UNCHANGED switch BY <1>7, <2>3 DEF Restricts
    <3>2. Halts' /\ OneStartup' BY <1>1, <1>2, <3>1, BeginStopHalts
    <3>3. AwaitsAtRefresh' BY <1>1, <3>1 DEF AwaitsAtRefresh
    <3> QED BY <2>2, <3>2, <3>3 DEF HaltInv, RestrictedHalts
  <2>4. CASE ~Serving
    <3>1. Ends(r, "commit") /\ UNCHANGED runtime BY <1>7, <2>4 DEF Restricts
    <3>2. AwaitsAtRefresh' /\ ~Serving' BY <1>1, <2>4, <3>1, EndsServing
    <3>3. OneStartup' BY <1>1, <3>1 DEF OneStartup, runtime
    <3> QED BY <2>2, <3>2, <3>3 DEF HaltInv, RestrictedHalts
  <2> QED BY <2>3, <2>4
<1>8. CASE Allows(r)
  <2>1. /\ InForce(r) /\ refreshes[r].revision \notin Restricting /\ policy' = NewStatus(r)
        /\ restricted' = FALSE /\ Ends(r, "commit")
        /\ EnsureRuntime(activeDid, signedOut, FALSE) \/ UNCHANGED runtime
    BY <1>8 DEF Allows
  <2>2. Follows' /\ ~InRestriction'
    <3>1. policy' # NoStatus /\ policy'.revision \notin Restricting BY <1>1, <2>1, NewStatusIs
    <3>2. IsRestricted(policy', cache', tenant') = FALSE BY <3>1 DEF IsRestricted
    <3> QED BY <2>1, <3>1, <3>2 DEF Follows, InRestriction
  <2>3. AwaitsAtRefresh' BY <1>1, <2>1, EndsServing
  <2>4. OneStartup' BY <1>1, <2>1, EnsureRuntimeStartup DEF OneStartup, runtime
  <2> QED BY <2>2, <2>3, <2>4 DEF HaltInv, RestrictedHalts
<1>9. CASE RuntimeStopped(r)
  <2>1. /\ StopReturns(stopping, r) \/ StopRejects(stopping, r)
        /\ Ends(r, "commit")
        /\ UNCHANGED <<restricted, realtime, consumer, policy, tenant, cache>>
    BY <1>9 DEF RuntimeStopped
  <2>2. Follows' /\ OneStartup' BY <1>1, <2>1 DEF Follows, OneStartup
  <2>3. AwaitsAtRefresh' /\ (Serving' => Serving) BY <1>1, <2>1, EndsServing
  <2>4. Halts => Halts' BY <1>1, <1>2, <2>1, StopOverHalts
  <2> QED BY <1>1, <2>1, <2>2, <2>3, <2>4 DEF HaltInv, RestrictedHalts, InRestriction
<1> QED BY <1>4, <1>5, <1>6, <1>7, <1>8, <1>9 DEF RefreshStep

LEMMA StepHalts == Inv /\ HaltInv /\ [Next]_vars => HaltInv'
<1> SUFFICES ASSUME Inv, HaltInv, [Next]_vars PROVE HaltInv' OBVIOUS
<1>1. /\ PolicyInv /\ SwitchTypes /\ RuntimeInv
      /\ OneStartup /\ Follows /\ AwaitsAtRefresh /\ RestrictedHalts
  BY DEF Inv, HaltInv
<1>2. ASSUME UNCHANGED <<restricted, policy, cache, tenant>>, AwaitsAtRefresh',
             Serving' => Serving, UNCHANGED runtime
      PROVE  HaltInv'
  <2>1. Follows' /\ OneStartup' BY <1>1, <1>2 DEF Follows, OneStartup, runtime
  <2>2. RestrictedHalts' BY <1>1, <1>2 DEF RestrictedHalts, InRestriction, Halts, runtime
  <2> QED BY <1>2, <2>1, <2>2 DEF HaltInv
<1>3. ASSUME UNCHANGED <<restricted, policy, cache, tenant>>, AwaitsAtRefresh', Serving,
             NEW did, NEW out, EnsureRuntime(did, out, restricted)
      PROVE  HaltInv'
  <2>1. Follows' BY <1>1, <1>3 DEF Follows
  <2>2. OneStartup' BY <1>1, <1>3, EnsureRuntimeStartup
  <2>3. ASSUME InRestriction PROVE Halts'
    <3>1. restricted = TRUE BY <1>1, <2>3, RestrictedBlocks
    <3>2. EnsureRuntime(did, out, TRUE) BY <1>3, <3>1
    <3>3. Halts BY <1>1, <1>3, <2>3 DEF RestrictedHalts
    <3> QED BY <1>1, <3>2, <3>3, EnsureRuntimeHalts
  <2> QED BY <1>3, <2>1, <2>2, <2>3 DEF HaltInv, RestrictedHalts, InRestriction
<1>4. ASSUME policy' = NoStatus, Follows', AwaitsAtRefresh', OneStartup' PROVE HaltInv'
  BY <1>4, NoStatusAllows DEF HaltInv, RestrictedHalts, InRestriction
<1>5. CASE \E r \in Refreshes : RefreshStep(r) BY <1>5, RefreshStepHalts
<1>6. CASE Asked
  <2>1. UNCHANGED <<restricted, policy, cache, tenant, runtime, switch>>
    BY <1>6 DEF Asked, runtimeVars
  <2> QED BY <1>1, <1>2, <2>1 DEF AwaitsAtRefresh, Serving
<1>7. CASE ParticipantChanges
  <2>1. /\ policy' = NoStatus /\ restricted' = IsRestricted(NoStatus, cache, tenant)
        /\ UNCHANGED <<tenant, cache, switch, runtime>>
    BY <1>7 DEF ParticipantChanges
  <2>2. Follows' /\ AwaitsAtRefresh' /\ OneStartup'
    BY <1>1, <2>1 DEF Follows, AwaitsAtRefresh, OneStartup, runtime
  <2> QED BY <1>4, <2>1, <2>2
<1>8. CASE Read \/ Login
  <2>1. /\ EnsureRuntime(identity, "in", restricted) /\ ~Switching
        /\ UNCHANGED <<restricted, policy, cache, tenant, switch>>
    BY <1>8 DEF Read, Login, policyVars
  <2>2. Serving /\ AwaitsAtRefresh' BY <1>1, <2>1 DEF Switching, Serving, AwaitsAtRefresh
  <2> QED BY <1>3, <2>1, <2>2
<1>9. CASE \E t \in Tenants : SwitchStarts(t)
  <2>1. /\ UNCHANGED <<restricted, policy, cache, tenant, runtime>> /\ ~Switching
        /\ switch'.awaits = "none"
    BY <1>9 DEF SwitchStarts, runtimeVars
  <2> QED BY <1>2, <2>1 DEF AwaitsAtRefresh, Switching, Serving
<1>10. CASE Runtime
  <2>1. RuntimeStep /\ UNCHANGED <<policy, cache, tenant, switch>> BY <1>10 DEF Runtime, policyVars
  <2>2. UNCHANGED restricted
    BY <2>1 DEF RuntimeStep, RealtimeTask, ConsumerTask, StartupReadsMarker, StartupOpens,
       StartupEnds, ConsumerReplaces, ConsumerReady, SupervisorDisposed, ConsumerDisposed,
       ConsumerFails, Replaced, Synchronized
  <2>3. Follows' /\ AwaitsAtRefresh' BY <1>1, <2>1, <2>2 DEF Follows, AwaitsAtRefresh
  <2>4. OneStartup' BY <1>1, <2>1, RuntimeStepStartup
  <2>5. ASSUME InRestriction, Serving PROVE Halts'
    <3>1. restricted /\ Halts BY <1>1, <2>5, RestrictedBlocks DEF RestrictedHalts
    <3> QED BY <1>1, <2>1, <3>1, RuntimeStepHalts
  <2> QED BY <2>1, <2>3, <2>4, <2>5 DEF HaltInv, RestrictedHalts, InRestriction, Serving
<1>11. CASE SwitchStep
  <2>1. ASSUME switch.at # "refresh", NEW at, switch' = [switch EXCEPT !.at = at]
        PROVE  AwaitsAtRefresh'
    <3>1. switch' = [switch EXCEPT !.at = at] /\ switch'.awaits = switch.awaits
      BY <2>1 DEF SwitchTypes, RunningSwitch, NoSwitch
    <3> QED BY <1>1, <2>1, <3>1 DEF AwaitsAtRefresh
  <2>2. ASSUME BeginStop("mutation"), UNCHANGED <<restricted, policy, cache, tenant>>,
               AwaitsAtRefresh', ~Serving'
        PROVE  HaltInv'
    <3>1. "mutation" \in Owners BY DEF Owners
    <3>2. OneStartup' BY <1>1, <2>2, <3>1, BeginStopHalts
    <3> QED BY <1>1, <2>2, <3>2 DEF HaltInv, Follows, RestrictedHalts
  <2>3. ASSUME NEW t, NEW next, Opened(t, next), switch.at # "refresh" PROVE HaltInv'
    <3>1. /\ policy' = NoStatus /\ restricted' = IsRestricted(NoStatus, cache, t) /\ tenant' = t
          /\ UNCHANGED cache /\ realtime' = NoRealtime
          /\ switch' = [switch EXCEPT !.at = next]
      BY <2>3 DEF Opened
    <3>2. Follows' BY <3>1 DEF Follows
    <3>3. OneStartup' BY <3>1 DEF OneStartup, NoRealtime
    <3> QED BY <1>4, <2>1, <2>3, <3>1, <3>2, <3>3
  <2>4. ASSUME switch' = NoSwitch PROVE AwaitsAtRefresh' BY <2>4 DEF AwaitsAtRefresh, NoSwitch
  <2>5. CASE Disposes \/ Undoes
    <3>1. /\ switch.at # "refresh" /\ BeginStop("mutation")
          /\ UNCHANGED <<restricted, policy, cache, tenant>>
          /\ \E at \in {"dispose", "undo"} : switch' = [switch EXCEPT !.at = at]
      BY <2>5 DEF Disposes, Undoes
    <3>2. AwaitsAtRefresh' BY <2>1, <3>1
    <3>3. ~Serving' BY <1>1, <3>1 DEF Serving, SwitchTypes, RunningSwitch, NoSwitch
    <3> QED BY <2>2, <3>1, <3>2, <3>3
  <2>6. CASE LockFails \/ Commits \/ Restored
    <3>1. /\ switch.at \in {"lock", "commit", "restored"} /\ switch' = NoSwitch
          /\ EnsureRuntime(activeDid', signedOut', restricted) \/ UNCHANGED runtime
          /\ UNCHANGED <<restricted, policy, cache, tenant>>
      BY <2>6 DEF LockFails, Commits, Restored, account
    <3>2. Serving BY <3>1 DEF Serving
    <3> QED BY <1>2, <1>3, <2>4, <3>1, <3>2
  <2>7. CASE Opens \/ Reopens BY <2>3, <2>7 DEF Opens, Reopens
  <2>8. CASE AwaitsPolicy
    <3>1. /\ switch.at = "identity" /\ switch' = [switch EXCEPT !.at = "refresh", !.awaits = task']
          /\ UNCHANGED <<restricted, policy, cache, tenant, runtime>>
      BY <2>8 DEF AwaitsPolicy, runtimeVars
    <3>2. switch'.at = "refresh" BY <1>1, <3>1 DEF SwitchTypes, RunningSwitch, NoSwitch
    <3> QED BY <1>2, <3>1, <3>2 DEF AwaitsAtRefresh, Serving
  <2>9. CASE SwitchFails
    <3>1. /\ switch.at \in {"identity", "commit"} /\ switch' = [switch EXCEPT !.at = "failed"]
          /\ UNCHANGED <<restricted, policy, cache, tenant, runtime>>
      BY <2>9 DEF SwitchFails, runtimeVars
    <3>2. AwaitsAtRefresh' /\ Serving BY <2>1, <3>1 DEF Serving
    <3> QED BY <1>2, <3>1, <3>2
  <2> QED BY <1>11, <2>5, <2>6, <2>7, <2>8, <2>9 DEF SwitchStep
<1>12. CASE UNCHANGED vars
  <2>1. UNCHANGED <<restricted, policy, cache, tenant, runtime, switch>>
    BY <1>12 DEF vars, runtimeVars, policyVars
  <2> QED BY <1>1, <1>2, <2>1 DEF AwaitsAtRefresh, Serving
<1> QED BY <1>5, <1>6, <1>7, <1>8, <1>9, <1>10, <1>11, <1>12 DEF Next

\* Once everything has settled, a Host under a policy that restricts it runs no supervisor and
\* no Agent consumer, whatever was starting, stopping, failing, answered or switched when the
\* policy came (index.ts:1438-1441, 3350-3528); but for a consumer that a rejected stop has left.
THEOREM RestrictedStops == Spec => []RestrictedIsStopped
<1>1. Init => HaltInv
  <2> SUFFICES ASSUME Init PROVE HaltInv OBVIOUS
  <2>1. OneStartup BY DEF Init, FreshRuntime, OneStartup, NoRealtime, StartingRealtime
  <2>2. Follows BY DEF Init, Follows
  <2>3. AwaitsAtRefresh BY DEF Init, AwaitsAtRefresh, NoSwitch
  <2>4. ~InRestriction BY NoStatusAllows DEF Init, InRestriction
  <2> QED BY <2>1, <2>2, <2>3, <2>4 DEF HaltInv, RestrictedHalts
<1>2. HaltInv => RestrictedIsStopped
  <2> SUFFICES ASSUME HaltInv, Settled, InRestriction
               PROVE  OpenSupervisors = 0 /\ (OpenConsumers = 0 \/ consumer.kept)
    BY DEF RestrictedIsStopped, InRestriction
  <2>1. Serving BY DEF Settled, Switching, Serving
  <2>2. Halts BY <2>1 DEF HaltInv, RestrictedHalts
  <2>3. stopping = NotStopping /\ consumer.startup = "none" BY DEF Settled, RuntimeAtRest
  <2>4. \A o \in Stops : stopping[o] = [realtime |-> "none", consumer |-> "none"]
    BY <2>3 DEF NotStopping
  <2>5. realtime.slot = None /\ (consumer.slot = None \/ consumer.kept)
    BY <2>2, <2>4, NamesApart, StopLanes DEF Halts, RealtimeHalts, ConsumerHalts, Waiting
  <2>6. Lanes(stopping, "realtime", "dispose") = {} /\ Lanes(stopping, "consumer", "dispose") = {}
    BY <2>4 DEF Lanes
  <2> QED BY <2>3, <2>5, <2>6, FS_EmptySet DEF OpenSupervisors, OpenConsumers
<1>3. Inv /\ HaltInv /\ [Next]_vars => HaltInv' BY StepHalts
<1> QED BY <1>1, <1>2, <1>3, Invariance, PTL DEF Spec
=============================================================================
