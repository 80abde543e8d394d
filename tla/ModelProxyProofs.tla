---------------------------- MODULE ModelProxyProofs ----------------------------
(***************************************************************************)
(* For every set of environments and every bound: the token that the       *)
(* model's requests carry was minted by the service that is configured;    *)
(* the adapter is registered only while that service has accepted the      *)
(* identity, until two calls have failed; and where requests keep apart,   *)
(* the hosted model is selected at rest only if it is turned on.  The      *)
(* first invariant adds what an answer in flight needs: it is fenced, or   *)
(* the configuration has not changed since it was asked for.  The second   *)
(* adds the order of the lifecycle queue in every phase of a switch, the   *)
(* third what a request remembers to undo.                                 *)
(***************************************************************************)
EXTENDS ModelProxy, SequenceTheorems, TLAPS

\* What the steps read besides the token: the environment that is in force, the configuration.
TokenTypes ==
  /\ host \in Switch
  /\ config \in Service \cup {None}
  /\ minting \subseteq Mint

TokenInv == TokenTypes /\ TokenOfService

-----------------------------------------------------------------------------
(* What the helpers do to this. *)

\* token.clear() drops the token and fences every answer, whatever the configuration becomes.
LEMMA ClearIsSafe ==
  ASSUME minting \subseteq Mint, Clears
  PROVE  minting' \subseteq Mint /\ TokenOfService'
<1>1. \A m \in minting : [m EXCEPT !.fresh = FALSE] \in Mint /\ ~[m EXCEPT !.fresh = FALSE].fresh
  BY DEF Mint
<1>2. minting' \subseteq Mint /\ \A m \in minting' : ~m.fresh
  BY <1>1 DEF Clears, Stale
<1> QED BY <1>2 DEF Clears, TokenOfService

\* A step that leaves the token and the configuration alone.
LEMMA KeepIsSafe ==
  ASSUME TokenInv, UNCHANGED <<config, token, minting>>
  PROVE  config' \in Service \cup {None} /\ minting' \subseteq Mint /\ TokenOfService'
BY DEF TokenInv, TokenTypes, TokenOfService

\* An endpoint is that of a known environment.
LEMMA EndpointType == \A t : Endpoints(t) \subseteq Service \cup {None}
BY DEF Endpoints

\* The Host moves between the phases of a switch.
LEMMA MoveType ==
  ASSUME host \in Switch, NEW p \in {"rest", "prepare", "open", "commit", "revert", "rollback"}, Moves(p)
  PROVE  host' \in Switch
BY DEF Moves, Switch

\* The end of a binding moves the Host on, or leaves it.
LEMMA BoundType == ASSUME host \in Switch, NEW ok, Bound(ok) PROVE host' \in Switch
<1>1. CASE host.phase \in {"commit", "rollback"}
  <2>1. Moves("revert") \/ Moves("rest") BY <1>1 DEF Bound
  <2> QED BY <2>1, MoveType
<1>2. CASE host.phase \notin {"commit", "rollback"} BY <1>2 DEF Bound
<1> QED BY <1>1, <1>2

-----------------------------------------------------------------------------
\* Loading the plugin starts without a token.
LEMMA InitInv == Init => TokenInv
BY DEF Init, TokenInv, TokenTypes, TokenOfService, Switch, Endpoints

\* Every step keeps the invariant; only those that touch the token or the endpoint need more.
LEMMA StepInv == TokenInv /\ [Next]_vars => TokenInv'
<1> SUFFICES ASSUME TokenInv, [Next]_vars PROVE TokenInv' OBVIOUS
<1> USE DEF TokenInv
<1>t. host \in Switch /\ config \in Service \cup {None} /\ minting \subseteq Mint BY DEF TokenTypes
<1>k. ASSUME host' \in Switch, UNCHANGED <<config, token, minting>> PROVE TokenInv'
  BY <1>k, KeepIsSafe DEF TokenTypes
<1>c. ASSUME host' \in Switch, config' \in Service \cup {None}, Clears PROVE TokenInv'
  BY <1>c, <1>t, ClearIsSafe DEF TokenTypes
<1>p. ASSUME NEW b, Publishes(b) \/ PublishFails(b) PROVE Clears
  BY <1>p DEF Publishes, PublishFails
<1>x. ASSUME Rejects PROVE host' \in Switch BY <1>x, <1>t, BoundType DEF Rejects
<1>y. ASSUME NEW ok, Gives(ok) PROVE host' \in Switch BY <1>y, <1>t, BoundType DEF Gives
<1>1. CASE PreparePersists
  <2>1. host' \in Switch
    <3>1. CASE UNCHANGED host BY <3>1, <1>t
    <3>2. CASE Moves("rest") BY <3>2, <1>t, MoveType
    <3> QED BY <1>1, <3>1, <3>2 DEF PreparePersists
  <2>2. UNCHANGED <<config, token, minting>> BY <1>1 DEF PreparePersists, tokens
  <2> QED BY <2>1, <2>2, <1>k
<1>2. CASE PrepareReleases
  <2>1. Moves("open") \/ Moves("rest") BY <1>2 DEF PrepareReleases
  <2>2. host' \in Switch BY <2>1, <1>t, MoveType
  <2>3. config' \in Service \cup {None} /\ Clears BY <1>2 DEF PrepareReleases
  <2> QED BY <2>2, <2>3, <1>c
<1>3. CASE BindReads
  <2>1. UNCHANGED host \/ Rejects BY <1>3 DEF BindReads
  <2>2. host' \in Switch BY <2>1, <1>t, <1>x
  <2>3. UNCHANGED <<config, token, minting>> BY <1>3 DEF BindReads, tokens
  <2> QED BY <2>2, <2>3, <1>k
<1>4. CASE BindRestricts
  <2>1. Bound(TRUE) \/ Bound(FALSE) BY <1>4 DEF BindRestricts
  <2>2. host' \in Switch BY <2>1, <1>t, BoundType
  <2>3. config' \in Service \cup {None} /\ Clears BY <1>4, <1>t, EndpointType DEF BindRestricts
  <2> QED BY <2>2, <2>3, <1>c
<1>5. CASE FollowRestricts
  <2>1. UNCHANGED <<host, config, token, minting>> BY <1>5 DEF FollowRestricts, tokens
  <2> QED BY <2>1, <1>t, <1>k
<1>6. CASE BindConfigures
  <2>1. UNCHANGED host /\ config' \in Endpoints(host.tenant) /\ Clears BY <1>6 DEF BindConfigures
  <2> QED BY <2>1, <1>t, <1>c, EndpointType
<1>7. CASE BindSession
  <2>1. UNCHANGED host \/ Bound(TRUE) BY <1>7 DEF BindSession
  <2>2. host' \in Switch BY <2>1, <1>t, BoundType
  <2>3. UNCHANGED config /\ (Clears \/ UNCHANGED <<token, minting>>)
    BY <1>7, <1>p DEF BindSession, tokens
  <2> QED BY <2>2, <2>3, <1>t, <1>k, <1>c
<1>8. CASE ReadyStarts
  <2>1. UNCHANGED <<host, config, token, minting>> BY <1>8 DEF ReadyStarts, tokens
  <2> QED BY <2>1, <1>t, <1>k
<1>9. CASE ReadyRefreshes
  <2>1. UNCHANGED host \/ Gives(TRUE) \/ Gives(FALSE) BY <1>9 DEF ReadyRefreshes
  <2>2. host' \in Switch BY <2>1, <1>t, <1>y
  <2>3. UNCHANGED config /\ (Clears \/ UNCHANGED <<token, minting>>)
    BY <1>9, <1>p DEF ReadyRefreshes, tokens
  <2> QED BY <2>2, <2>3, <1>t, <1>k, <1>c
<1>10. CASE ReadyAnswers
  <2>1. UNCHANGED host \/ Bound(TRUE) \/ Bound(FALSE) BY <1>10 DEF ReadyAnswers, Known
  <2>2. host' \in Switch BY <2>1, <1>t, BoundType
  <2>3. UNCHANGED <<config, token, minting>> BY <1>10 DEF ReadyAnswers, tokens
  <2> QED BY <2>2, <2>3, <1>k
<1>11. CASE PersistRuns
  <2>1. UNCHANGED <<host, config, token, minting>> BY <1>11 DEF PersistRuns, tokens
  <2> QED BY <2>1, <1>t, <1>k
<1>12. CASE BalanceAnswers
  <2>1. UNCHANGED <<host, config, token, minting>> BY <1>12 DEF BalanceAnswers, tokens
  <2> QED BY <2>1, <1>t, <1>k
<1>13. CASE WritesNothing
  <2>1. UNCHANGED <<host, config, token, minting>> BY <1>13 DEF WritesNothing, tokens
  <2> QED BY <2>1, <1>t, <1>k
<1>14. CASE WritesEnabled
  <2>1. UNCHANGED <<host, config, token, minting>> BY <1>14 DEF WritesEnabled, tokens
  <2> QED BY <2>1, <1>t, <1>k
<1>15. CASE WritesSelection
  <2>1. UNCHANGED <<host, config, token, minting>> BY <1>15 DEF WritesSelection, tokens
  <2> QED BY <2>1, <1>t, <1>k
<1>16. CASE Selects
  <2>1. UNCHANGED <<host, config, token, minting>> BY <1>16 DEF Selects, tokens
  <2> QED BY <2>1, <1>t, <1>k
<1>17. CASE Disables
  <2>1. UNCHANGED <<host, config, token, minting>> BY <1>17 DEF Disables, tokens
  <2> QED BY <2>1, <1>t, <1>k
<1>18. CASE Restores
  <2>1. UNCHANGED <<host, config, token, minting>> BY <1>18 DEF Restores, tokens
  <2> QED BY <2>1, <1>t, <1>k
<1>19. CASE \E c \in checks : CheckAnswers(c)
  <2>1. UNCHANGED host \/ Gives(FALSE) BY <1>19 DEF CheckAnswers
  <2>2. host' \in Switch BY <2>1, <1>t, <1>y
  <2>3. UNCHANGED <<config, token, minting>> BY <1>19 DEF CheckAnswers, tokens
  <2> QED BY <2>2, <2>3, <1>k
<1>20. CASE \E m \in minting : MintAnswers(m)
  <2> PICK m \in minting : MintAnswers(m) BY <1>20
  <2>1. UNCHANGED <<host, config>> /\ minting' \subseteq minting BY DEF MintAnswers
  <2>2. token' = token \/ (m.fresh /\ token' = m.config) BY DEF MintAnswers
  <2>3. TokenOfService' BY <2>1, <2>2 DEF TokenOfService
  <2> QED BY <2>1, <2>3, <1>t DEF TokenTypes
<1>21. CASE OpenAnswers
  <2>1. host' \in Switch
    <3>1. CASE host' = [host EXCEPT !.phase = "commit", !.tenant = host.to] BY <3>1, <1>t DEF Switch
    <3>2. CASE Moves("revert") BY <3>2, <1>t, MoveType
    <3> QED BY <1>21, <3>1, <3>2 DEF OpenAnswers
  <2>2. UNCHANGED <<config, token, minting>> BY <1>21 DEF OpenAnswers, tokens
  <2> QED BY <2>1, <2>2, <1>k
<1>22. CASE Reverts
  <2>1. host' \in Switch BY <1>22, <1>t DEF Reverts, Switch
  <2>2. UNCHANGED <<config, token, minting>> BY <1>22 DEF Reverts, tokens
  <2> QED BY <2>1, <2>2, <1>k
<1>23. CASE \E t \in Tenants : StartSwitch(t)
  <2>1. host' \in Switch BY <1>23, <1>t DEF StartSwitch, Switch
  <2>2. UNCHANGED <<config, token, minting>> BY <1>23 DEF StartSwitch, tokens
  <2> QED BY <2>1, <2>2, <1>k
<1>24. CASE \E b \in BOOLEAN : SessionChanges(b)
  <2>1. host' \in Switch BY <1>24, <1>t DEF SessionChanges, Switch
  <2>2. UNCHANGED config /\ Clears BY <1>24, <1>p DEF SessionChanges, Told
  <2> QED BY <2>1, <2>2, <1>t, <1>c
<1>25. CASE \E b \in BOOLEAN : Ask(b)
  <2>1. UNCHANGED <<host, config, token, minting>> BY <1>25 DEF Ask, tokens
  <2> QED BY <2>1, <1>t, <1>k
<1>26. CASE PolicyChanges
  <2>1. host' \in Switch BY <1>26, <1>t DEF PolicyChanges, Switch
  <2>2. UNCHANGED config /\ (Clears \/ UNCHANGED <<token, minting>>)
    BY <1>26 DEF PolicyChanges, tokens
  <2> QED BY <2>1, <2>2, <1>t, <1>k, <1>c
<1>27. CASE Retry
  <2>1. UNCHANGED <<host, config, token, minting>> BY <1>27 DEF Retry, tokens
  <2> QED BY <2>1, <1>t, <1>k
<1>28. CASE Mints
  <2>1. UNCHANGED <<host, config, token>> /\ config # None BY <1>28 DEF Mints
  <2>2. minting' = minting \cup {[config |-> config, fresh |-> TRUE]} BY <1>28 DEF Mints
  <2>3. minting' \subseteq Mint
    <3>1. config \in Service BY <2>1, <1>t
    <3>2. [config |-> config, fresh |-> TRUE] \in Mint BY <3>1 DEF Mint
    <3> QED BY <2>2, <3>2, <1>t
  <2>4. TokenOfService' BY <2>1, <2>2 DEF TokenOfService
  <2> QED BY <2>1, <2>3, <2>4, <1>t DEF TokenTypes
<1>29. CASE Invalidate
  <2>1. UNCHANGED <<host, config>> /\ Clears BY <1>29 DEF Invalidate
  <2> QED BY <2>1, <1>t, <1>c
<1>30. CASE \E m \in AnyModel : ChooseModel(m)
  <2>1. UNCHANGED <<host, config, token, minting>> BY <1>30 DEF ChooseModel, tokens
  <2> QED BY <2>1, <1>t, <1>k
<1>31. CASE PrepareTears
  <2>1. Moves("rest") /\ UNCHANGED config /\ Clears BY <1>31 DEF PrepareTears
  <2>2. host' \in Switch BY <2>1, <1>t, MoveType
  <2> QED BY <2>1, <2>2, <1>t, <1>c
<1>32. CASE RetryBegins
  <2>1. UNCHANGED <<host, config, token, minting>> BY <1>32 DEF RetryBegins, tokens
  <2> QED BY <2>1, <1>t, <1>k
<1>33. CASE Refuses
  <2>1. Rejects /\ UNCHANGED <<config, token, minting>> BY <1>33 DEF Refuses, tokens
  <2> QED BY <2>1, <1>x, <1>k
<1>34. CASE BindLoses
  <2>1. Bound(FALSE) BY <1>34 DEF BindLoses
  <2>2. host' \in Switch BY <2>1, <1>t, BoundType
  <2>3. UNCHANGED config /\ (Clears \/ UNCHANGED <<token, minting>>)
    BY <1>34, <1>p DEF BindLoses, tokens
  <2> QED BY <2>2, <2>3, <1>t, <1>k, <1>c
<1>35. CASE Registers
  <2>1. host' = [host EXCEPT !.active = (host.phase # "prepare")] BY <1>35 DEF Registers
  <2>2. host' \in Switch BY <2>1, <1>t DEF Switch
  <2>3. UNCHANGED config /\ Clears BY <1>35, <1>p DEF Registers, Told
  <2> QED BY <2>2, <2>3, <1>t, <1>c
<1>36. CASE UNCHANGED vars
  <2>1. UNCHANGED <<host, config, token, minting>> BY <1>36 DEF vars, tokens
  <2> QED BY <2>1, <1>t, <1>k
<1> QED
  BY <1>1, <1>2, <1>3, <1>4, <1>5, <1>6, <1>7, <1>8, <1>9, <1>10, <1>11, <1>12, <1>13, <1>14, <1>15, <1>16, <1>17, <1>18, <1>19, <1>20, <1>21, <1>22, <1>23, <1>24, <1>25, <1>26, <1>27, <1>28, <1>29, <1>30, <1>31, <1>32, <1>33, <1>34, <1>35, <1>36
  DEF Next, Lifecycle, Requested, Answer, Switching, User

-----------------------------------------------------------------------------
\* The token of the model's requests, and of the account's, is never that of a service left
\* by a switch, a sign-in or a policy, however late the answer is (index.ts:594-650).
THEOREM TokenIsOfService == Spec => []TokenOfService
<1>1. Spec => []TokenInv BY InitInv, StepInv, PTL DEF Spec
<1>2. TokenInv => TokenOfService BY DEF TokenInv
<1> QED BY <1>1, <1>2, PTL

-----------------------------------------------------------------------------
(* The lifecycle queue.  Operations of the request wait in it as well as those of a switch and *)
(* of the bindings.                                                                            *)

Own == {"ready", "persist"}
Kinds == {"prepare", "bind", "retry", "follow", "persist", "ready"}
StepNames == {"start", "reads", "apply", "restrict", "session", "ready", "wait"}

\* At most one operation is of the request, and the request is where the operation will find it.
Suits(q, r) ==
  /\ \A i \in 1..Len(q) : q[i].kind \in Own => r # None /\ r.at = q[i].kind
  /\ \A i, j \in 1..Len(q) : q[i].kind \in Own /\ q[j].kind \in Own => i = j

\* What a switch leaves in the queue in its phases: after the preparation nothing binds, and
\* the commitment and the rollback bind once.
Order(q, p) ==
  /\ p # "prepare" => \A i \in 1..Len(q) : q[i].kind # "prepare"
  /\ \A i, j \in 1..Len(q) : i < j /\ q[i].kind = "prepare" => q[j].kind \in Own
  /\ p \in {"open", "revert"} => \A i \in 1..Len(q) : q[i].kind \in Own
  /\ p \in {"commit", "rollback"} =>
       \A i, j \in 1..Len(q) : q[i].kind \notin Own /\ q[j].kind \notin Own => i = j

\* Only the first operation has begun.
Waits(q) == \A i \in 1..Len(q) : i > 1 => q[i].step = "start"

\* The first operation takes a step, or operations are outdated.
Advances(q, r) ==
  /\ r \in Seq(Operation) /\ Len(r) = Len(q)
  /\ \A i \in 1..Len(q) : r[i].kind = q[i].kind /\ (i > 1 => r[i].step = q[i].step)

LEMMA OperationType ==
  ASSUME NEW o \in Operation
  PROVE  /\ o.kind \in Kinds /\ o.step \in StepNames /\ o.fresh \in BOOLEAN
         /\ \A f \in BOOLEAN : [o EXCEPT !.fresh = f] \in Operation
         /\ \A f \in BOOLEAN : [o EXCEPT !.fresh = f].kind = o.kind /\ [o EXCEPT !.fresh = f].step = o.step
         /\ \A s \in StepNames : [o EXCEPT !.step = s] \in Operation
         /\ \A s \in StepNames : [o EXCEPT !.step = s].kind = o.kind /\ [o EXCEPT !.step = s].step = s
BY DEF Operation, Kinds, StepNames

LEMMA NewType ==
  ASSUME NEW k \in Kinds
  PROVE  New(k) \in Operation /\ New(k).kind = k /\ New(k).step = "start"
BY DEF New, Operation, Kinds

\* Steps of the first operation.
LEMMA StepAdvances ==
  ASSUME NEW q \in Seq(Operation), q # <<>>, NEW s \in StepNames
  PROVE  LET r == [q EXCEPT ![1].step = s] IN Advances(q, r) /\ r # <<>> /\ r[1].step = s
<1>1. 1 \in 1..Len(q) BY EmptySeq
<1>2. q[1] \in Operation BY <1>1, ElementOfSeq
<1> DEFINE o == [q[1] EXCEPT !.step = s]
           r == [q EXCEPT ![1] = o]
<1>3. o \in Operation /\ o.kind = q[1].kind /\ o.step = s BY <1>2, OperationType
<1> HIDE DEF o
<1>4. /\ r \in Seq(Operation) /\ Len(r) = Len(q)
      /\ \A j \in 1..Len(q) : r[j] = IF j = 1 THEN o ELSE q[j]
  BY <1>1, <1>3, ExceptSeq
<1> HIDE DEF r
<1>5. Advances(q, r) /\ r # <<>> /\ r[1].step = s BY <1>1, <1>3, <1>4, EmptySeq DEF Advances
<1> QED BY <1>5 DEF r, o

LEMMA OutdatedAdvances ==
  ASSUME NEW q \in Seq(Operation)
  PROVE  LET r == Outdated(q) IN
         /\ Advances(q, r) /\ (q = <<>> <=> r = <<>>)
         /\ \A i \in 1..Len(q) : r[i].step = q[i].step
<1> DEFINE r == Outdated(q)
<1>1. Len(q) \in Nat /\ DOMAIN q = 1..Len(q) BY LenProperties
<1>2. \A i \in 1..Len(q) : /\ [q[i] EXCEPT !.fresh = FALSE] \in Operation
                           /\ [q[i] EXCEPT !.fresh = FALSE].kind = q[i].kind
                           /\ [q[i] EXCEPT !.fresh = FALSE].step = q[i].step
  BY ElementOfSeq, OperationType
<1>3. r = [i \in 1..Len(q) |-> [q[i] EXCEPT !.fresh = FALSE]] BY <1>1 DEF Outdated
<1>4. r \in [1..Len(q) -> Operation] BY <1>2, <1>3
<1>5. r \in Seq(Operation) BY <1>1, <1>4, SeqDef
<1>6. DOMAIN r = 1..Len(q) BY <1>3
<1>7. Len(r) = Len(q) BY <1>1, <1>5, <1>6, LenProperties
<1>8. \A i \in 1..Len(q) : r[i].kind = q[i].kind /\ r[i].step = q[i].step BY <1>2, <1>3
<1> HIDE DEF r
<1>9. Advances(q, r) BY <1>5, <1>7, <1>8 DEF Advances
<1>10. q = <<>> <=> r = <<>> BY <1>5, <1>7, EmptySeq
<1> QED BY <1>8, <1>9, <1>10 DEF r

LEMMA TailProps ==
  ASSUME NEW q \in Seq(Operation), q # <<>>
  PROVE  /\ Tail(q) \in Seq(Operation) /\ Len(Tail(q)) = Len(q) - 1 /\ Len(q) \in Nat \ {0}
         /\ \A i \in 1..Len(Tail(q)) : Tail(q)[i] = q[i + 1]
         /\ Head(q) = q[1] /\ q[1] \in Operation
BY HeadTailProperties, EmptySeq, ElementOfSeq

LEMMA EntersProps ==
  ASSUME NEW q \in Seq(Operation), NEW k \in Kinds
  PROVE  LET r == Append(q, New(k)) IN
         /\ r \in Seq(Operation) /\ Len(r) = Len(q) + 1 /\ Len(q) \in Nat /\ r # <<>>
         /\ \A i \in 1..Len(q) : r[i] = q[i]
         /\ r[Len(q) + 1].kind = k /\ r[Len(q) + 1].step = "start"
BY NewType, AppendProperties, LenProperties

\* Taking a step keeps what is known of the queue.
LEMMA AdvanceKeeps ==
  ASSUME NEW q \in Seq(Operation), NEW r, Advances(q, r)
  PROVE  /\ \A p : Order(q, p) => Order(r, p)
         /\ \A x : Suits(q, x) => Suits(r, x)
         /\ Waits(q) => Waits(r)
<1>1. ASSUME NEW p, Order(q, p) PROVE Order(r, p) BY <1>1 DEF Advances, Order
<1>2. ASSUME NEW x, Suits(q, x) PROVE Suits(r, x) BY <1>2 DEF Advances, Suits
<1>3. ASSUME Waits(q) PROVE Waits(r) BY <1>3 DEF Advances, Waits
<1> QED BY <1>1, <1>2, <1>3

\* So does the end of the first operation; what it was says what may follow.
LEMMA TailKeeps ==
  ASSUME NEW q \in Seq(Operation), q # <<>>, Waits(q)
  PROVE  LET r == Tail(q) IN
         /\ \A p : Order(q, p) => Order(r, p)
         /\ \A p \in {"commit", "rollback"} : Order(q, p) /\ q[1].kind \notin Own =>
              Order(r, "rest") /\ Order(r, "revert")
         /\ \A p : Order(q, p) /\ q[1].kind = "prepare" => Order(r, "rest") /\ Order(r, "open")
         /\ \A x : Suits(q, x) => Suits(r, x)
         /\ \A x, y : Suits(q, x) /\ q[1].kind \in Own => Suits(r, y)
         /\ \A i \in 1..Len(r) : r[i].step = "start"
<1> DEFINE r == Tail(q)
<1>1. /\ r \in Seq(Operation) /\ Len(r) = Len(q) - 1 /\ Len(q) \in Nat \ {0}
      /\ \A i \in 1..Len(r) : r[i] = q[i + 1]
  BY TailProps
<1>2. \A i \in 1..Len(r) : i + 1 \in 1..Len(q) /\ i + 1 > 1 /\ i + 1 # 1 BY <1>1
<1>3. 1 \in 1..Len(q) BY <1>1
<1> HIDE DEF r
<1>s. \A i, j \in 1..Len(r) : (i < j => i + 1 < j + 1) /\ (i + 1 = j + 1 => i = j) BY <1>1
<1>4. ASSUME NEW p, Order(q, p) PROVE Order(r, p)
  <2>1. p # "prepare" => \A i \in 1..Len(r) : r[i].kind # "prepare" BY <1>1, <1>2, <1>4 DEF Order
  <2>2. ASSUME NEW i \in 1..Len(r), NEW j \in 1..Len(r), i < j, r[i].kind = "prepare"
        PROVE  r[j].kind \in Own
    <3>1. i + 1 \in 1..Len(q) /\ j + 1 \in 1..Len(q) /\ i + 1 < j + 1 BY <2>2, <1>2, <1>s
    <3>2. q[i + 1].kind = "prepare" BY <2>2, <1>1
    <3>3. q[j + 1].kind \in Own BY <3>1, <3>2, <1>4 DEF Order
    <3> QED BY <3>3, <1>1
  <2>3. p \in {"open", "revert"} => \A i \in 1..Len(r) : r[i].kind \in Own
    BY <1>1, <1>2, <1>4 DEF Order
  <2>4. ASSUME p \in {"commit", "rollback"}, NEW i \in 1..Len(r), NEW j \in 1..Len(r),
               r[i].kind \notin Own, r[j].kind \notin Own
        PROVE  i = j
    <3>1. i + 1 \in 1..Len(q) /\ j + 1 \in 1..Len(q) BY <1>2
    <3>2. q[i + 1].kind \notin Own /\ q[j + 1].kind \notin Own BY <2>4, <1>1
    <3>3. i + 1 = j + 1 BY <3>1, <3>2, <2>4, <1>4 DEF Order
    <3> QED BY <3>3, <1>s
  <2> QED BY <2>1, <2>2, <2>3, <2>4 DEF Order
<1>5. ASSUME NEW p \in {"commit", "rollback"}, Order(q, p), q[1].kind \notin Own
      PROVE  Order(r, "rest") /\ Order(r, "revert")
  <2>1. \A i \in 1..Len(r) : r[i].kind \in Own BY <1>1, <1>2, <1>3, <1>5 DEF Order
  <2> QED BY <2>1 DEF Order, Own
<1>6. ASSUME NEW p, Order(q, p), q[1].kind = "prepare" PROVE Order(r, "rest") /\ Order(r, "open")
  <2>1. \A i \in 1..Len(r) : r[i].kind \in Own BY <1>1, <1>2, <1>3, <1>6 DEF Order
  <2> QED BY <2>1 DEF Order, Own
<1>7. ASSUME NEW x, Suits(q, x) PROVE Suits(r, x)
  <2>1. \A i \in 1..Len(r) : r[i].kind \in Own => x # None /\ x.at = r[i].kind
    BY <1>1, <1>2, <1>7 DEF Suits
  <2>2. ASSUME NEW i \in 1..Len(r), NEW j \in 1..Len(r), r[i].kind \in Own, r[j].kind \in Own
        PROVE  i = j
    <3>1. i + 1 \in 1..Len(q) /\ j + 1 \in 1..Len(q) BY <1>2
    <3>2. q[i + 1].kind \in Own /\ q[j + 1].kind \in Own BY <2>2, <1>1
    <3>3. i + 1 = j + 1 BY <3>1, <3>2, <1>7 DEF Suits
    <3> QED BY <3>3, <1>s
  <2> QED BY <2>1, <2>2 DEF Suits
<1>8. ASSUME NEW x, NEW y, Suits(q, x), q[1].kind \in Own PROVE Suits(r, y)
  <2>1. \A i \in 1..Len(r) : r[i].kind \notin Own BY <1>1, <1>2, <1>3, <1>8 DEF Suits
  <2> QED BY <2>1 DEF Suits
<1>9. \A i \in 1..Len(r) : r[i].step = "start" BY <1>1, <1>2 DEF Waits
<1> QED BY <1>4, <1>5, <1>6, <1>7, <1>8, <1>9 DEF r

\* An operation enters in a phase that has room for it.
LEMMA EntersKeeps ==
  ASSUME NEW q \in Seq(Operation), NEW k \in Kinds
  PROVE  LET r == Append(q, New(k)) IN
         /\ \A p : Order(q, p) /\ k \in Own => Order(r, p)
         /\ Order(q, "rest") /\ k # "prepare" => Order(r, "rest")
         /\ Order(q, "rest") => Order(r, "prepare")
         /\ Order(q, "open") /\ k \in Binds => Order(r, "commit")
         /\ Order(q, "revert") /\ k \in Binds => Order(r, "rollback")
         /\ \A x : Suits(q, x) /\ k \notin Own => Suits(r, x)
         /\ \A x, y : (Suits(q, x) /\ (x # None => x.at \notin Own)
                         /\ k \in Own /\ y # None /\ y.at = k) => Suits(r, y)
         /\ Waits(q) => Waits(r)
<1> DEFINE r == Append(q, New(k))
<1>1. /\ r \in Seq(Operation) /\ Len(r) = Len(q) + 1 /\ Len(q) \in Nat
      /\ \A i \in 1..Len(q) : r[i] = q[i]
      /\ r[Len(q) + 1].kind = k /\ r[Len(q) + 1].step = "start"
  BY EntersProps
<1>2. 1..Len(r) = 1..Len(q) \cup {Len(q) + 1} BY <1>1
<1> HIDE DEF r
<1>3. ASSUME NEW p, Order(q, p), k \in Own PROVE Order(r, p) BY <1>1, <1>2, <1>3 DEF Order, Own
<1>4. ASSUME Order(q, "rest"), k # "prepare" PROVE Order(r, "rest") BY <1>1, <1>2, <1>4 DEF Order
<1>5. ASSUME Order(q, "rest") PROVE Order(r, "prepare") BY <1>1, <1>2, <1>5 DEF Order
<1>6. ASSUME Order(q, "open"), k \in Binds PROVE Order(r, "commit")
  BY <1>1, <1>2, <1>6 DEF Order, Binds, Own
<1>7. ASSUME Order(q, "revert"), k \in Binds PROVE Order(r, "rollback")
  BY <1>1, <1>2, <1>7 DEF Order, Binds, Own
<1>8. ASSUME NEW x, Suits(q, x), k \notin Own PROVE Suits(r, x) BY <1>1, <1>2, <1>8 DEF Suits
<1>9. \A x, y : (Suits(q, x) /\ (x # None => x.at \notin Own)
                   /\ k \in Own /\ y # None /\ y.at = k) => Suits(r, y)
  <2> SUFFICES ASSUME NEW x, NEW y, Suits(q, x), x # None => x.at \notin Own,
                      k \in Own, y # None, y.at = k
               PROVE  Suits(r, y)
    OBVIOUS
  <2>1. \A i \in 1..Len(q) : r[i].kind \notin Own BY <1>1 DEF Suits
  <2> QED BY <2>1, <1>1, <1>2 DEF Suits
<1>10. ASSUME Waits(q) PROVE Waits(r) BY <1>1, <1>2, <1>10 DEF Waits
<1> QED BY <1>3, <1>4, <1>5, <1>6, <1>7, <1>8, <1>9, <1>10 DEF r

-----------------------------------------------------------------------------
(* How each variable moves. *)

\* The settings, and the selection of the agent.
LEMMA SettingsMoves ==
  ASSUME [Next]_vars
  PROVE  /\ \/ UNCHANGED settings
            \/ Persists
            \/ settings' = Preferred(host.tenant)
            \/ settings' = [settings EXCEPT !.enabled = TRUE, !.previous = selection]
            \/ settings' = [settings EXCEPT !.enabled = FALSE]
            \/ At("restore") /\ settings' = request.settings
         /\ \/ selection' \in {selection, Restored, Hosted}
            \/ \E m \in AnyModel : selection' = m
            \/ At("restore") /\ selection' = request.selection
<1>1. CASE Lifecycle
  BY <1>1 DEF Lifecycle, PreparePersists, PrepareReleases, PrepareTears, RetryBegins, BindReads, Refuses,
      BindRestricts, FollowRestricts,
      BindConfigures, BindSession, BindLoses, ReadyStarts, ReadyRefreshes, ReadyAnswers, PersistRuns, Known, Gives, Rejects
<1>2. CASE Requested
  BY <1>2 DEF Requested, BalanceAnswers, WritesNothing, WritesEnabled, WritesSelection, Selects, Disables, Restores
<1>3. CASE Answer \/ Switching \/ User
  BY <1>3 DEF Answer, CheckAnswers, MintAnswers, Switching, OpenAnswers, Reverts, User, StartSwitch,
      SessionChanges, Registers, Told, Ask, PolicyChanges, Retry, Mints, Invalidate, ChooseModel
<1>4. CASE UNCHANGED vars BY <1>4 DEF vars
<1> QED BY <1>1, <1>2, <1>3, <1>4 DEF Next

\* The binding, the policy and whether the first binding has failed.
LEMMA BoundMoves ==
  ASSUME [Next]_vars
  PROVE  /\ bound' \in {bound, host.tenant}
         /\ \/ UNCHANGED policy
            \/ policy' = Restricted
            \/ policy' = ~Restricted
         /\ UNCHANGED failed \/ Bound(TRUE) \/ Bound(FALSE)
<1>1. CASE Lifecycle
  BY <1>1 DEF Lifecycle, PreparePersists, PrepareReleases, PrepareTears, RetryBegins, BindReads, Refuses,
      BindRestricts, FollowRestricts,
      BindConfigures, BindSession, BindLoses, ReadyStarts, ReadyRefreshes, ReadyAnswers, PersistRuns, Known, Gives, Rejects
<1>2. CASE Requested
  BY <1>2 DEF Requested, BalanceAnswers, WritesNothing, WritesEnabled, WritesSelection, Selects, Disables, Restores
<1>3. CASE Answer \/ Switching \/ User
  BY <1>3 DEF Answer, CheckAnswers, MintAnswers, Switching, OpenAnswers, Reverts, User, StartSwitch,
      SessionChanges, Registers, Told, Ask, PolicyChanges, Retry, Mints, Invalidate, ChooseModel, Gives
<1>4. CASE UNCHANGED vars BY <1>4 DEF vars
<1> QED BY <1>1, <1>2, <1>3, <1>4 DEF Next

\* The session and the reconciliations.
LEMMA SessionMoves ==
  ASSUME [Next]_vars
  PROVE  \/ UNCHANGED <<session, checks>>
         \/ \E b : /\ Publishes(b) \/ PublishFails(b)
                   /\ b = host.active \/ host.phase # "rollback"
         \/ Forgets
         \/ session' = [session EXCEPT !.ready = None] /\ checks' = Dropped
         \/ Reverts
         \/ \E c \in checks : CheckAnswers(c)
<1>1. CASE Lifecycle
  BY <1>1 DEF Lifecycle, PreparePersists, PrepareReleases, PrepareTears, RetryBegins, BindReads, Refuses,
      BindRestricts, FollowRestricts, BindConfigures, BindSession, BindLoses, ReadyStarts, ReadyRefreshes,
      ReadyAnswers, PersistRuns, identity
<1>2. CASE Requested
  BY <1>2 DEF Requested, BalanceAnswers, WritesNothing, WritesEnabled, WritesSelection, Selects, Disables, Restores, identity
<1>3. CASE Answer \/ Switching \/ User
  BY <1>3 DEF Answer, MintAnswers, Switching, OpenAnswers, User, StartSwitch,
      SessionChanges, Registers, Told, Ask, PolicyChanges, Retry, Mints, Invalidate, ChooseModel, identity
<1>4. CASE UNCHANGED vars BY <1>4 DEF vars, identity
<1> QED BY <1>1, <1>2, <1>3, <1>4 DEF Next

\* What is registered is released, is served, or is what it was.
LEMMA Synchronized ==
  /\ Syncs => Serves \/ adapter' = {}
  /\ Throws => Serves \/ torn'
  /\ Syncs \/ Throws => adapter' \in (SUBSET adapter) \cup {Handles, {}} /\ torn' \in BOOLEAN
<1>1. Syncs => Serves \/ adapter' = {} BY DEF Syncs
<1>2. Throws => Serves \/ torn' BY DEF Throws, Tears
<1>3. Syncs => adapter' \in {Handles, {}} /\ torn' = FALSE
  <2>1. Syncs => adapter' = Handles \/ adapter' = {} BY Zenon DEF Syncs
  <2>2. Syncs => torn' = FALSE BY Zenon DEF Syncs
  <2> QED BY <2>1, <2>2
<1>4. Throws => adapter' \in SUBSET adapter /\ torn' \in BOOLEAN
  <2>1. Throws => adapter' = adapter \/ adapter' \in (SUBSET adapter) \ {{}} BY Zenon DEF Throws, Tears
  <2>2. Throws => torn' = FALSE \/ torn' = TRUE BY Zenon DEF Throws, Tears
  <2> QED BY <2>1, <2>2
<1> QED BY <1>1, <1>2, <1>3, <1>4

\* The adapter.
LEMMA AdapterMoves ==
  ASSUME [Next]_vars
  PROVE  \/ UNCHANGED <<registered, session>>
         \/ Syncs \/ Throws
         \/ adapter' = {} /\ torn' = FALSE
         \/ Tears
         \/ Reverts
<1>1. CASE Lifecycle
  BY <1>1 DEF Lifecycle, PreparePersists, PrepareReleases, PrepareTears, RetryBegins, BindReads, Refuses,
      BindRestricts, FollowRestricts, BindConfigures, BindSession, BindLoses, ReadyStarts, ReadyRefreshes,
      ReadyAnswers, PersistRuns, identity, registered, Publishes, PublishFails, Follows
<1>2. CASE Requested
  BY <1>2 DEF Requested, BalanceAnswers, WritesNothing, WritesEnabled, WritesSelection, Selects, Disables, Restores, identity, registered, Publishes, PublishFails, Follows
<1>3. CASE Answer \/ Switching \/ User
  BY <1>3 DEF Answer, CheckAnswers, MintAnswers, Switching, OpenAnswers, User, StartSwitch,
      SessionChanges, Registers, Told, Ask, PolicyChanges, Retry, Mints, Invalidate, ChooseModel, identity, registered, Publishes, PublishFails, Follows
<1>4. CASE UNCHANGED vars BY <1>4 DEF vars, identity, registered, Publishes, PublishFails, Follows
<1> QED BY <1>1, <1>2, <1>3, <1>4 DEF Next

\* The bounds.
LEMMA BoundsMove ==
  ASSUME [Next]_vars
  PROVE  /\ UNCHANGED ops \/ Uses
         /\ Works \/ Fails
<1>1. CASE Lifecycle
  BY <1>1 DEF Lifecycle, PreparePersists, PrepareReleases, PrepareTears, RetryBegins, BindReads, Refuses,
      BindRestricts, FollowRestricts, BindConfigures, BindSession, BindLoses, ReadyStarts, ReadyRefreshes,
      ReadyAnswers, PersistRuns, bounds, Works, Known,
      Follows, Throws, Tears, Publishes, PublishFails, Rejects, Gives
<1>2. CASE Requested
  BY <1>2 DEF Requested, BalanceAnswers, WritesNothing, WritesEnabled, WritesSelection, Selects, Disables, Restores, bounds, Works, Known,
      Follows, Throws, Tears, Publishes, PublishFails, Rejects, Gives
<1>3. CASE Answer \/ Switching \/ User
  BY <1>3 DEF Answer, CheckAnswers, MintAnswers, Switching, OpenAnswers, Reverts, User, StartSwitch,
      SessionChanges, Registers, Told, Ask, PolicyChanges, Retry, Mints, Invalidate, ChooseModel, bounds, Works, Known,
      Follows, Throws, Tears, Publishes, PublishFails, Rejects, Gives
<1>4. CASE UNCHANGED vars BY <1>4 DEF vars, bounds, Works, Known,
      Follows, Throws, Tears, Publishes, PublishFails, Rejects, Gives
<1> QED BY <1>1, <1>2, <1>3, <1>4 DEF Next

-----------------------------------------------------------------------------
(* The types. *)

TypeInv == TypeOK /\ Suits(queue, request) /\ Waits(queue)

LEMMA SelectionType ==
  ASSUME TypeOK, [Next]_vars
  PROVE  settings' \in Settings /\ selection' \in AnyModel
<1>1. /\ settings \in Settings /\ selection \in AnyModel /\ bound \in Tenants /\ host.tenant \in Tenants
      /\ At("restore") => request.settings \in Settings /\ request.selection \in AnyModel
  BY DEF TypeOK, Switch, At, Request
<1>2. /\ settings.enabled \in BOOLEAN /\ settings.previous \in AnyModel
      /\ settings.stored \in [Tenants -> Preference \cup {NoPreference}]
      /\ Fallback \in AnyModel /\ Hosted \in AnyModel
  BY <1>1, ConstantsAssumption DEF Settings, AnyModel
<1>3. \A e \in BOOLEAN, m \in AnyModel : [settings EXCEPT !.enabled = e, !.previous = m] \in Settings
  BY <1>1 DEF Settings
<1>4. ASSUME Persists PROVE settings' \in Settings
  <2>1. [enabled |-> settings.enabled, previous |-> settings.previous] \in Preference
    BY <1>2 DEF Preference
  <2> DEFINE stored == [settings.stored EXCEPT ![bound] =
                          [enabled |-> settings.enabled, previous |-> settings.previous]]
  <2>2. stored \in [Tenants -> Preference \cup {NoPreference}] BY <2>1, <1>1, <1>2
  <2>3. settings' = [settings EXCEPT !.stored = stored] BY <1>4 DEF Persists
  <2> HIDE DEF stored
  <2> QED BY <2>2, <2>3, <1>1 DEF Settings
<1>5. Preferred(host.tenant) \in Settings
  <2>1. CASE settings.stored[host.tenant] # NoPreference
    <3>1. settings.stored[host.tenant] \in Preference BY <2>1, <1>1, <1>2
    <3> QED BY <3>1, <2>1, <1>3 DEF Preferred, Preference
  <2>2. CASE settings.stored[host.tenant] = NoPreference BY <2>2, <1>1, <1>2, <1>3 DEF Preferred
  <2> QED BY <2>1, <2>2
<1>6. [settings EXCEPT !.enabled = FALSE] \in Settings BY <1>1 DEF Settings
<1>7. settings' \in Settings BY <1>1, <1>3, <1>4, <1>5, <1>6, SettingsMoves
<1>8. Restored \in AnyModel BY <1>1, <1>2 DEF Restored
<1>9. selection' \in AnyModel BY <1>1, <1>2, <1>8, SettingsMoves
<1> QED BY <1>7, <1>9

LEMMA BoundStepType ==
  ASSUME TypeOK, [Next]_vars
  PROVE  bound' \in Tenants /\ policy' \in BOOLEAN /\ failed' \in BOOLEAN
<1>1. bound \in Tenants /\ host.tenant \in Tenants BY DEF TypeOK, Switch
<1>2. policy \in BOOLEAN /\ failed \in BOOLEAN BY DEF TypeOK
<1>3. bound' \in Tenants BY <1>1, BoundMoves
<1>4. policy' \in BOOLEAN
  <2>1. Restricted \in BOOLEAN /\ (~Restricted) \in BOOLEAN BY DEF Restricted
  <2> QED BY <2>1, <1>2, BoundMoves
<1>5. failed' \in BOOLEAN
  <2>1. \A ok \in BOOLEAN : Bound(ok) => failed' = failed \/ failed' = ~ok BY DEF Bound
  <2> QED BY <2>1, <1>2, BoundMoves
<1> QED BY <1>3, <1>4, <1>5

LEMMA AdapterType ==
  ASSUME TypeOK, [Next]_vars
  PROVE  adapter' \subseteq Handles /\ torn' \in BOOLEAN
<1>1. adapter \subseteq Handles /\ torn \in BOOLEAN BY DEF TypeOK
<1>2. CASE UNCHANGED <<registered, session>> BY <1>1, <1>2 DEF registered
<1>3. CASE Syncs \/ Throws
  <2>1. adapter' \in (SUBSET adapter) \cup {Handles, {}} /\ torn' \in BOOLEAN BY <1>3, Synchronized
  <2> QED BY <2>1, <1>1
<1>4. CASE adapter' = {} /\ torn' = FALSE BY <1>4
<1>5. CASE Tears
  <2>1. adapter' \in SUBSET adapter /\ torn' = TRUE BY <1>5 DEF Tears
  <2> QED BY <2>1, <1>1
<1>6. CASE Reverts BY <1>1, <1>6 DEF Reverts, registered
<1> QED BY <1>2, <1>3, <1>4, <1>5, <1>6, AdapterMoves

SessionRecord == [status : {"unknown", "signed-out", "active"}, ready : Service \cup {None}, undone : BOOLEAN]

\* What was begun under an earlier generation of the identity counts no more.
LEMMA DroppedType ==
  ASSUME checks \subseteq Check
  PROVE  /\ Dropped \subseteq Check /\ \A c \in Dropped : ~c.fresh
         /\ Stale(checks) \subseteq Check /\ \A c \in Stale(checks) : ~c.fresh
<1>1. \A c \in checks : /\ [c EXCEPT !.fresh = FALSE, !.awaited = FALSE] \in Check
                        /\ ~[c EXCEPT !.fresh = FALSE, !.awaited = FALSE].fresh
                        /\ [c EXCEPT !.fresh = FALSE] \in Check /\ ~[c EXCEPT !.fresh = FALSE].fresh
  BY DEF Check
<1> QED BY <1>1 DEF Dropped, Stale

\* A session is published for the environment in force, and is checked by the service configured.
LEMMA PublishType ==
  ASSUME config \in Service \cup {None}, checks \subseteq Check,
         NEW b, Publishes(b) \/ PublishFails(b)
  PROVE  /\ session' = [status |-> IF b THEN "active" ELSE "signed-out", ready |-> None, undone |-> FALSE]
         /\ checks' \subseteq Check
         /\ \A c \in checks' : c.fresh => b /\ c.config = config
<1>1. session' = [status |-> IF b THEN "active" ELSE "signed-out", ready |-> None, undone |-> FALSE]
  BY DEF Publishes, PublishFails, Session
<1>2. CASE PublishFails(b)
  <2>1. checks' = Stale(checks) BY <1>2 DEF PublishFails
  <2> QED BY <2>1, <1>1, DroppedType
<1>3. CASE Publishes(b)
  <2> DEFINE new == [config |-> config, fresh |-> TRUE, awaited |-> TRUE]
  <2>1. checks' = Dropped \cup (IF ~b \/ config = None THEN {} ELSE {new}) BY <1>3 DEF Publishes
  <2>2. config # None => new \in Check BY DEF Check
  <2>3. new.config = config OBVIOUS
  <2> HIDE DEF new
  <2>4. checks' \subseteq Check BY <2>1, <2>2, DroppedType
  <2>5. \A c \in checks' : c.fresh => b /\ c.config = config BY <2>1, <2>3, DroppedType
  <2> QED BY <2>4, <2>5, <1>1
<1> QED BY <1>2, <1>3

LEMMA ForgetType ==
  ASSUME checks \subseteq Check, Forgets
  PROVE  /\ session' = [status |-> "unknown", ready |-> None, undone |-> FALSE]
         /\ checks' \subseteq Check /\ \A c \in checks' : ~c.fresh
BY DroppedType DEF Forgets

\* An answer about the identity is used up, and counts only if it is of this generation.
LEMMA AnswerType ==
  ASSUME session \in SessionRecord, NEW c \in checks, CheckAnswers(c)
  PROVE  /\ checks' \subseteq checks
         /\ \/ UNCHANGED session
            \/ c.fresh /\ session' = [session EXCEPT !.ready = None]
            \/ c.fresh /\ session' = [session EXCEPT !.ready = c.config]
BY DEF CheckAnswers

LEMMA SessionType ==
  ASSUME TypeOK, [Next]_vars
  PROVE  session' \in SessionRecord /\ checks' \subseteq Check
<1>1. /\ config \in Service \cup {None} /\ checks \subseteq Check /\ session \in SessionRecord
  BY DEF TypeOK, SessionRecord
<1>2. CASE UNCHANGED <<session, checks>> BY <1>1, <1>2
<1>3. CASE \E b : Publishes(b) \/ PublishFails(b)
  <2>1. PICK b : Publishes(b) \/ PublishFails(b) BY <1>3
  <2>2. checks' \subseteq Check BY <2>1, <1>1, PublishType
  <2> DEFINE status == IF b THEN "active" ELSE "signed-out"
  <2>3. status \in {"unknown", "signed-out", "active"} BY Zenon
  <2>4. session' = [status |-> status, ready |-> None, undone |-> FALSE]
    BY <2>1 DEF Publishes, PublishFails, Session
  <2> HIDE DEF status
  <2>5. session' \in SessionRecord BY <2>3, <2>4 DEF SessionRecord
  <2> QED BY <2>2, <2>5
<1>4. CASE Forgets
  <2>1. session' = [status |-> "unknown", ready |-> None, undone |-> FALSE] BY <1>4 DEF Forgets
  <2>2. session' \in SessionRecord BY <2>1 DEF SessionRecord
  <2>3. checks' \subseteq Check BY <1>4, <1>1, ForgetType
  <2> QED BY <2>2, <2>3
<1>5. CASE session' = [session EXCEPT !.ready = None] /\ checks' = Dropped
  BY <1>5, <1>1, DroppedType DEF SessionRecord
<1>6. CASE Reverts
  <2>1. session' = [session EXCEPT !.undone = session.status = "active"] /\ checks' = checks
    BY <1>6 DEF Reverts
  <2>2. (session.status = "active") \in BOOLEAN OBVIOUS
  <2> QED BY <2>1, <2>2, <1>1 DEF SessionRecord
<1>7. CASE \E c \in checks : CheckAnswers(c)
  <2>1. PICK c \in checks : CheckAnswers(c) BY <1>7
  <2>2. c.config \in Service BY <1>1 DEF Check
  <2> QED BY <2>1, <2>2, <1>1, AnswerType DEF SessionRecord
<1> QED BY <1>2, <1>3, <1>4, <1>5, <1>6, <1>7, SessionMoves

-----------------------------------------------------------------------------
(* The queue and the request. *)

LEMMA AdvanceTwice ==
  ASSUME NEW q \in Seq(Operation), NEW r, Advances(q, r), NEW u, Advances(r, u)
  PROVE  Advances(q, u)
BY DEF Advances

\* A binding that goes on may be fresh again.
LEMMA FreshAdvances ==
  ASSUME NEW q \in Seq(Operation), q # <<>>, NEW s \in StepNames, NEW f \in BOOLEAN
  PROVE  LET r == [q EXCEPT ![1].step = s, ![1].fresh = f] IN Advances(q, r) /\ r # <<>> /\ r[1].step = s
<1>1. 1 \in 1..Len(q) BY EmptySeq
<1>2. q[1] \in Operation BY <1>1, ElementOfSeq
<1> DEFINE o == [q[1] EXCEPT !.step = s, !.fresh = f]
           r == [q EXCEPT ![1] = o]
<1>3. o \in Operation /\ o.kind = q[1].kind /\ o.step = s BY <1>2 DEF Operation, StepNames
<1>6. r = [q EXCEPT ![1].step = s, ![1].fresh = f] BY <1>1, <1>2
<1> HIDE DEF o
<1>4. /\ r \in Seq(Operation) /\ Len(r) = Len(q)
      /\ \A j \in 1..Len(q) : r[j] = IF j = 1 THEN o ELSE q[j]
  BY <1>1, <1>3, ExceptSeq
<1> HIDE DEF r
<1>5. Advances(q, r) /\ r # <<>> /\ r[1].step = s BY <1>1, <1>3, <1>4, EmptySeq DEF Advances
<1> QED BY <1>5, <1>6

\* The ways in which the running operation goes on.
LEMMA GoesAdvances ==
  ASSUME queue \in Seq(Operation), queue # <<>>, NEW s \in StepNames, NEW r,
         r \in {[queue EXCEPT ![1].step = s], Outdated([queue EXCEPT ![1].step = s])}
  PROVE  Advances(queue, r) /\ r # <<>> /\ r[1].step = s
<1> DEFINE u == [queue EXCEPT ![1].step = s]
<1>1. Advances(queue, u) /\ u # <<>> /\ u[1].step = s BY StepAdvances
<1> HIDE DEF u
<1>2. u \in Seq(Operation) /\ 1 \in 1..Len(u) BY <1>1, EmptySeq DEF Advances
<1>3. Advances(u, Outdated(u)) /\ Outdated(u) # <<>> /\ Outdated(u)[1].step = s
  BY <1>1, <1>2, OutdatedAdvances
<1>4. Advances(queue, Outdated(u)) BY <1>1, <1>3, AdvanceTwice
<1> QED BY <1>1, <1>3, <1>4 DEF u

\* An operation ends, perhaps with the others outdated.
LEMMA EndKeeps ==
  ASSUME NEW q \in Seq(Operation), q # <<>>, Waits(q), NEW r \in {Tail(q), Outdated(Tail(q))}
  PROVE  /\ r \in Seq(Operation)
         /\ \A p : Order(q, p) => Order(r, p)
         /\ \A p \in {"commit", "rollback"} : Order(q, p) /\ q[1].kind \notin Own =>
              Order(r, "rest") /\ Order(r, "revert")
         /\ \A p : Order(q, p) /\ q[1].kind = "prepare" => Order(r, "rest") /\ Order(r, "open")
         /\ \A x : Suits(q, x) => Suits(r, x)
         /\ \A x, y : Suits(q, x) /\ q[1].kind \in Own => Suits(r, y)
         /\ \A i \in 1..Len(r) : r[i].step = "start"
<1>1. Tail(q) \in Seq(Operation) BY TailProps
<1>2. CASE r = Tail(q) BY <1>2, <1>1, TailKeeps
<1>3. CASE r = Outdated(Tail(q))
  <2> DEFINE u == Tail(q)
  <2>1. Advances(u, r) /\ \A i \in 1..Len(u) : r[i].step = u[i].step BY <1>1, <1>3, OutdatedAdvances
  <2>2. /\ \A p : Order(u, p) => Order(r, p)
        /\ \A x : Suits(u, x) => Suits(r, x)
    BY <1>1, <2>1, AdvanceKeeps
  <2>3. \A i \in 1..Len(u) : u[i].step = "start" BY TailKeeps
  <2>4. \A i \in 1..Len(r) : r[i].step = "start" BY <2>1, <2>3 DEF Advances
  <2>5. r \in Seq(Operation) BY <2>1 DEF Advances
  <2>6. /\ \A p : Order(q, p) => Order(u, p)
        /\ \A p \in {"commit", "rollback"} : Order(q, p) /\ q[1].kind \notin Own =>
             Order(u, "rest") /\ Order(u, "revert")
        /\ \A p : Order(q, p) /\ q[1].kind = "prepare" => Order(u, "rest") /\ Order(u, "open")
        /\ \A x : Suits(q, x) => Suits(u, x)
        /\ \A x, y : Suits(q, x) /\ q[1].kind \in Own => Suits(u, y)
    BY TailKeeps
  <2> HIDE DEF u
  <2> QED BY <2>2, <2>4, <2>5, <2>6
<1> QED BY <1>2, <1>3

\* What the queue and the request are after a step.
RequestKept ==
  /\ queue' \in Seq(Operation) /\ request' \in Request \cup {None}
  /\ Suits(queue', request') /\ Waits(queue')

LEMMA RequestStep == ASSUME TypeInv, [Next]_vars PROVE RequestKept
<1>t. /\ queue \in Seq(Operation) /\ request \in Request \cup {None}
      /\ Suits(queue, request) /\ Waits(queue)
      /\ settings \in Settings /\ selection \in AnyModel
  BY DEF TypeInv, TypeOK
<1>h. queue # <<>> => Head(queue) = queue[1] /\ 1 \in 1..Len(queue) BY <1>t, TailProps
<1>a. ASSUME Advances(queue, queue'), UNCHANGED request PROVE RequestKept
  BY <1>a, <1>t, AdvanceKeeps DEF Advances, RequestKept
<1>u. ASSUME UNCHANGED <<queue, request>> PROVE RequestKept BY <1>u, <1>t DEF RequestKept
<1>b. ASSUME queue # <<>>, queue' \in {Tail(queue), Outdated(Tail(queue))},
             request' \in Request \cup {None}, UNCHANGED request \/ Head(queue).kind \in Own
      PROVE  RequestKept
  <2>1. /\ queue' \in Seq(Operation)
        /\ \A x : Suits(queue, x) => Suits(queue', x)
        /\ \A x, y : Suits(queue, x) /\ queue[1].kind \in Own => Suits(queue', y)
        /\ \A i \in 1..Len(queue') : queue'[i].step = "start"
    BY <1>b, <1>t, EndKeeps
  <2>2. Suits(queue', request') BY <2>1, <1>b, <1>t, <1>h
  <2>3. Waits(queue') BY <2>1 DEF Waits
  <2> QED BY <2>1, <2>2, <2>3, <1>b DEF RequestKept
<1>c. ASSUME UNCHANGED queue, request # None, request.at \notin Own, request' \in Request \cup {None}
      PROVE  RequestKept
  <2>1. \A i \in 1..Len(queue) : queue[i].kind \notin Own BY <1>c, <1>t DEF Suits
  <2>2. Suits(queue', request') BY <2>1, <1>c DEF Suits
  <2> QED BY <2>2, <1>c, <1>t DEF RequestKept
<1>d. ASSUME NEW k \in Own, Enters(k), request # None => request.at \notin Own,
             request' \in Request, request'.at = k, request' # None
      PROVE  RequestKept
  <2>1. k \in Kinds BY DEF Own, Kinds
  <2>2. queue' \in Seq(Operation) BY <1>d, <1>t, <2>1, EntersProps DEF Enters
  <2>3. Waits(queue') BY <1>d, <1>t, <2>1, EntersKeeps DEF Enters
  <2>4. Suits(queue', request') BY <1>d, <1>t, <2>1, EntersKeeps DEF Enters
  <2> QED BY <2>2, <2>3, <2>4, <1>d DEF RequestKept
<1>e. ASSUME NEW k \in {"prepare", "bind", "retry", "follow"}, Enters(k), UNCHANGED request
      PROVE  RequestKept
  <2>1. k \in Kinds /\ k \notin Own BY DEF Own, Kinds
  <2>2. queue' \in Seq(Operation) BY <1>e, <1>t, <2>1, EntersProps DEF Enters
  <2>3. Waits(queue') BY <1>e, <1>t, <2>1, EntersKeeps DEF Enters
  <2>4. Suits(queue', request') BY <1>e, <1>t, <2>1, EntersKeeps DEF Enters
  <2> QED BY <2>2, <2>3, <2>4, <1>e, <1>t DEF RequestKept
<1>g. ASSUME NEW s \in StepNames, queue # <<>>, Goes(s) \/ GoesOutdated(s), UNCHANGED request
      PROVE  RequestKept
  BY <1>g, <1>t, <1>a, GoesAdvances DEF Goes, GoesOutdated
<1>v. ASSUME queue # <<>>, queue' \in {Tail(queue), Outdated(Tail(queue))}, NEW ok, Gives(ok)
      PROVE  RequestKept
  <2>1. UNCHANGED request \/ (request' = None /\ Head(queue).kind \in Own) BY <1>v DEF Gives, Own
  <2> QED BY <2>1, <1>v, <1>t, <1>b
<1>r. /\ request # None => /\ request \in Request
                           /\ \A s \in {"ready", "balance", "write", "select", "disable", "persist", "restore"} :
                                /\ [request EXCEPT !.at = s] \in Request
                                /\ [request EXCEPT !.at = s].at = s
                                /\ [request EXCEPT !.at = s, !.settings = settings, !.selection = selection] \in Request
                                /\ [request EXCEPT !.at = s, !.settings = settings, !.selection = selection].at = s
      /\ None \notin Request
  BY <1>t, NoneIsNoRecord DEF Request
<1>1. CASE PreparePersists
  <2>1. queue # <<>> /\ UNCHANGED request /\ (Goes("apply") \/ queue' = Tail(queue))
    BY <1>1 DEF PreparePersists, Running
  <2>2. CASE Goes("apply") BY <2>1, <2>2, <1>g DEF StepNames
  <2>3. CASE queue' = Tail(queue) BY <2>1, <2>3, <1>t, <1>b
  <2> QED BY <2>1, <2>2, <2>3
<1>2. CASE PrepareReleases
  <2>1. queue # <<>> /\ UNCHANGED request /\ queue' = Outdated(Tail(queue))
    BY <1>2 DEF PrepareReleases, Running
  <2> QED BY <2>1, <1>t, <1>b
<1>3. CASE BindReads
  <2>1. queue # <<>> /\ UNCHANGED request BY <1>3 DEF BindReads, Running
  <2>2. \/ queue' = Tail(queue)
        \/ Goes(IF Restricted THEN "restrict" ELSE "apply")
    BY <1>3 DEF BindReads, Rejects
  <2> QED BY <2>1, <2>2, <1>t, <1>b, <1>g DEF StepNames
<1>4. CASE BindRestricts
  <2>1. queue # <<>> /\ UNCHANGED request /\ queue' = Tail(queue) BY <1>4 DEF BindRestricts, Running
  <2> QED BY <2>1, <1>t, <1>b
<1>5. CASE FollowRestricts
  <2>1. queue # <<>> /\ UNCHANGED request /\ queue' = Tail(queue) BY <1>5 DEF FollowRestricts, Running
  <2> QED BY <2>1, <1>t, <1>b
<1>6. CASE BindConfigures
  <2>1. queue # <<>> /\ UNCHANGED request /\ Goes("session") BY <1>6 DEF BindConfigures, Running
  <2> QED BY <2>1, <1>g DEF StepNames
<1>7. CASE BindSession
  <2>1. queue # <<>> /\ UNCHANGED request BY <1>7 DEF BindSession, Running
  <2>2. \/ queue' \in {Tail(queue), Outdated(Tail(queue))}
        \/ Goes("ready") \/ GoesOutdated("ready")
    BY <1>7 DEF BindSession, Goes, GoesOutdated, Readies
  <2> QED BY <2>1, <2>2, <1>t, <1>b, <1>g DEF StepNames
<1>8. CASE ReadyStarts
  <2>1. queue # <<>> /\ UNCHANGED request /\ Goes("ready") BY <1>8 DEF ReadyStarts, Running
  <2> QED BY <2>1, <1>g DEF StepNames
<1>9. CASE ReadyRefreshes
  <2>1. queue # <<>> BY <1>9 DEF ReadyRefreshes, Running
  <2>2. \/ UNCHANGED request /\ (Goes("wait") \/ GoesOutdated("wait"))
        \/ /\ queue' \in {Tail(queue), Outdated(Tail(queue))}
           /\ Gives(TRUE) \/ Gives(FALSE)
    BY <1>9 DEF ReadyRefreshes
  <2> QED BY <2>1, <2>2, <1>v, <1>g DEF StepNames
<1>10. CASE ReadyAnswers
  <2>1. queue # <<>> /\ queue' = Tail(queue) BY <1>10 DEF ReadyAnswers, Running, Known
  <2>2. \/ UNCHANGED request
        \/ /\ Head(queue).kind = "ready"
           /\ \/ request' = None
              \/ request' = [request EXCEPT !.at = "balance"]
              \/ request' = [request EXCEPT !.at = "write"]
    BY <1>10 DEF ReadyAnswers, Known
  <2>3. Head(queue).kind = "ready" => Head(queue).kind \in Own /\ request # None
    BY <2>1, <1>h, <1>t DEF Suits, Own
  <2> QED BY <2>1, <2>2, <2>3, <1>t, <1>r, <1>b
<1>11. CASE PersistRuns
  <2>1. queue # <<>> /\ queue' = Tail(queue) /\ Head(queue).kind = "persist"
    BY <1>11 DEF PersistRuns, Running
  <2>2. request' = None \/ request' = [request EXCEPT !.at = "restore"]
    BY <1>11 DEF PersistRuns, Steps
  <2>3. Head(queue).kind \in Own /\ request # None BY <2>1, <1>h, <1>t DEF Suits, Own
  <2> QED BY <2>1, <2>2, <2>3, <1>t, <1>r, <1>b
<1>12. CASE BalanceAnswers
  <2>1. UNCHANGED queue /\ At("balance") /\ (Steps("write") \/ request' = None)
    BY <1>12 DEF BalanceAnswers
  <2> QED BY <2>1, <1>t, <1>r, <1>c DEF At, Steps, Own
<1>13. CASE WritesNothing
  <2>1. /\ request # None /\ request.at \notin Own
        /\ (Captures("persist") /\ Enters("persist")) \/ (Captures("restore") /\ UNCHANGED queue)
    BY <1>13 DEF WritesNothing, At, Own
  <2>2. CASE Captures("persist") /\ Enters("persist")
    <3>1. request' \in Request /\ request'.at = "persist" BY <2>1, <2>2, <1>r DEF Captures
    <3> QED BY <2>1, <2>2, <3>1, <1>r, <1>d DEF Own
  <2>3. CASE Captures("restore") /\ UNCHANGED queue
    <3>1. request' \in Request /\ request'.at = "restore" BY <2>1, <2>3, <1>r DEF Captures
    <3> QED BY <2>1, <2>3, <3>1, <1>c
  <2> QED BY <2>1, <2>2, <2>3
<1>14. CASE WritesEnabled
  <2>1. /\ request # None /\ request.at \notin Own /\ UNCHANGED queue
        /\ Captures("select") \/ Captures("restore")
    BY <1>14 DEF WritesEnabled, At, Own
  <2> QED BY <2>1, <1>r, <1>c DEF Captures
<1>15. CASE WritesSelection
  <2>1. /\ request # None /\ request.at \notin Own /\ UNCHANGED queue
        /\ Captures("disable") \/ Captures("restore")
    BY <1>15 DEF WritesSelection, At, Own
  <2> QED BY <2>1, <1>r, <1>c DEF Captures
<1>16. CASE Selects
  <2>1. /\ request # None /\ request.at \notin Own
        /\ Persisting \/ (UNCHANGED queue /\ Steps("restore"))
    BY <1>16 DEF Selects, At, Own
  <2>2. CASE Persisting
    <3>1. request' \in Request /\ request'.at = "persist" /\ Enters("persist")
      BY <2>1, <2>2, <1>r DEF Persisting, Steps
    <3> QED BY <2>1, <3>1, <1>r, <1>d DEF Own
  <2>3. CASE UNCHANGED queue /\ Steps("restore") BY <2>1, <2>3, <1>r, <1>c DEF Steps
  <2> QED BY <2>1, <2>2, <2>3
<1>17. CASE Disables
  <2>1. /\ request # None /\ request.at \notin Own
        /\ Persisting \/ (UNCHANGED queue /\ Steps("restore"))
    BY <1>17 DEF Disables, At, Own
  <2>2. CASE Persisting
    <3>1. request' \in Request /\ request'.at = "persist" /\ Enters("persist")
      BY <2>1, <2>2, <1>r DEF Persisting, Steps
    <3> QED BY <2>1, <3>1, <1>r, <1>d DEF Own
  <2>3. CASE UNCHANGED queue /\ Steps("restore") BY <2>1, <2>3, <1>r, <1>c DEF Steps
  <2> QED BY <2>1, <2>2, <2>3
<1>18. CASE Restores
  <2>1. request # None /\ request.at \notin Own /\ UNCHANGED queue /\ request' = None
    BY <1>18 DEF Restores, At, Own
  <2> QED BY <2>1, <1>c
<1>19. CASE \E c \in checks : CheckAnswers(c)
  <2>1. UNCHANGED <<queue, request>> \/ (queue # <<>> /\ queue' = Tail(queue) /\ Gives(FALSE))
    BY <1>19 DEF CheckAnswers, Running
  <2> QED BY <2>1, <1>u, <1>v
<1>20. CASE \E m \in minting : MintAnswers(m)
  <2>1. UNCHANGED <<queue, request>> BY <1>20 DEF MintAnswers
  <2> QED BY <2>1, <1>u
<1>21. CASE OpenAnswers
  <2>1. UNCHANGED request /\ (Enters("bind") \/ UNCHANGED queue) BY <1>21 DEF OpenAnswers
  <2> QED BY <2>1, <1>u, <1>e
<1>22. CASE Reverts
  <2>1. UNCHANGED request /\ Enters("bind") BY <1>22 DEF Reverts
  <2> QED BY <2>1, <1>e
<1>23. CASE \E t \in Tenants : StartSwitch(t)
  <2>1. UNCHANGED request /\ Enters("prepare") BY <1>23 DEF StartSwitch
  <2> QED BY <2>1, <1>e
<1>24. CASE \E b \in BOOLEAN : SessionChanges(b)
  <2>1. UNCHANGED request /\ queue' = Outdated(queue) BY <1>24 DEF SessionChanges, Told
  <2> QED BY <2>1, <1>t, <1>a, OutdatedAdvances
<1>25. CASE \E b \in BOOLEAN : Ask(b)
  <2>1. PICK b \in BOOLEAN : Ask(b) BY <1>25
  <2>2. /\ request = None /\ Enters("ready") /\ config # None
        /\ request' = [at |-> "ready", tenant |-> config.tenant, enable |-> b,
                       settings |-> settings, selection |-> selection]
    BY <2>1 DEF Ask
  <2>3. config.tenant \in Tenants BY <2>2 DEF TypeInv, TypeOK, Service
  <2>4. request' \in Request /\ request'.at = "ready" BY <2>2, <2>3, <1>t DEF Request
  <2> QED BY <2>2, <2>4, <1>r, <1>d DEF Own
<1>26. CASE PolicyChanges
  <2>1. UNCHANGED request /\ (Enters("follow") \/ UNCHANGED queue) BY <1>26 DEF PolicyChanges
  <2> QED BY <2>1, <1>u, <1>e
<1>27. CASE Retry
  <2>1. UNCHANGED request /\ Enters("retry") BY <1>27 DEF Retry
  <2> QED BY <2>1, <1>e
<1>28. CASE Mints
  <2>1. UNCHANGED <<queue, request>> BY <1>28 DEF Mints
  <2> QED BY <2>1, <1>u
<1>29. CASE Invalidate
  <2>1. UNCHANGED <<queue, request>> BY <1>29 DEF Invalidate
  <2> QED BY <2>1, <1>u
<1>30. CASE \E m \in AnyModel : ChooseModel(m)
  <2>1. UNCHANGED <<queue, request>> BY <1>30 DEF ChooseModel
  <2> QED BY <2>1, <1>u
<1>31. CASE PrepareTears
  <2>1. queue # <<>> /\ UNCHANGED request /\ queue' = Outdated(Tail(queue))
    BY <1>31 DEF PrepareTears, Running
  <2> QED BY <2>1, <1>t, <1>b
<1>32. CASE RetryBegins
  <2>1. /\ queue # <<>> /\ UNCHANGED request
        /\ queue' = [queue EXCEPT ![1].step = "reads", ![1].fresh = TRUE]
    BY <1>32 DEF RetryBegins, Running
  <2> QED BY <2>1, <1>t, <1>a, FreshAdvances DEF StepNames
<1>33. CASE Refuses
  <2>1. queue # <<>> /\ UNCHANGED request /\ queue' = Tail(queue) BY <1>33 DEF Refuses, Rejects, Running
  <2> QED BY <2>1, <1>t, <1>b
<1>34. CASE BindLoses
  <2>1. queue # <<>> /\ UNCHANGED request /\ queue' \in {Tail(queue), Outdated(Tail(queue))}
    BY <1>34 DEF BindLoses, Running
  <2> QED BY <2>1, <1>t, <1>b
<1>35. CASE Registers
  <2>1. UNCHANGED request /\ queue' = Outdated(queue) BY <1>35 DEF Registers, Told
  <2> QED BY <2>1, <1>t, <1>a, OutdatedAdvances
<1>36. CASE UNCHANGED vars
  <2>1. UNCHANGED <<queue, request>> BY <1>36 DEF vars
  <2> QED BY <2>1, <1>u
<1> QED
  BY <1>1, <1>2, <1>3, <1>4, <1>5, <1>6, <1>7, <1>8, <1>9, <1>10, <1>11, <1>12, <1>13, <1>14, <1>15, <1>16, <1>17, <1>18, <1>19, <1>20, <1>21, <1>22, <1>23, <1>24, <1>25, <1>26, <1>27, <1>28, <1>29, <1>30, <1>31, <1>32, <1>33, <1>34, <1>35, <1>36
  DEF Next, Lifecycle, Requested, Answer, Switching, User

LEMMA BoundsStep == ASSUME TypeOK, [Next]_vars PROVE ops' \in 0..MaxOps /\ faults' \in 0..MaxFaults
<1>1. ops \in 0..MaxOps /\ faults \in 0..MaxFaults /\ MaxOps \in Nat /\ MaxFaults \in Nat
  BY ConstantsAssumption DEF TypeOK
<1>2. ops' = ops \/ (ops < MaxOps /\ ops' = ops + 1) BY BoundsMove DEF Uses
<1>3. faults' = faults \/ (faults < MaxFaults /\ faults' = faults + 1) BY BoundsMove DEF Works, Fails
<1> QED BY <1>1, <1>2, <1>3

\* The types, what the queue says of the request, and the token.
Core == TypeInv /\ TokenOfService

LEMMA InitCore == Init => Core
<1> SUFFICES ASSUME Init PROVE Core OBVIOUS
<1>1. PICK t \in Tenants, signedIn \in BOOLEAN, on \in BOOLEAN, some \in SUBSET Tenants :
        /\ settings = [enabled |-> on, previous |-> Fallback, stored |-> [u \in Tenants |->
             IF on /\ u = t THEN [enabled |-> TRUE, previous |-> Fallback] ELSE NoPreference]]
        /\ selection \in IF on THEN AnyModel ELSE Models
        /\ host = [tenant |-> t, from |-> t, to |-> t, phase |-> "rest",
                   active |-> signedIn, restricted |-> some]
        /\ bound = t /\ config \in Endpoints(t) /\ policy = (t \in some)
  BY DEF Init
<1>2. Fallback \in AnyModel /\ MaxOps \in Nat /\ MaxFaults \in Nat BY ConstantsAssumption DEF AnyModel
<1>3. settings \in Settings BY <1>1, <1>2 DEF Settings, Preference
<1>4. New("bind") \in Operation /\ New("bind").kind = "bind" /\ New("bind").step = "start"
  BY NewType DEF Kinds
<1>5. queue = <<New("bind")>> BY DEF Init
<1>6. queue \in Seq(Operation) /\ Len(queue) = 1 /\ queue[1] = New("bind") BY <1>4, <1>5
<1>7. host \in Switch BY <1>1 DEF Switch
<1>8. TypeOK
  <2>1. selection \in AnyModel BY <1>1 DEF AnyModel
  <2>2. bound \in Tenants /\ config \in Service \cup {None} BY <1>1, EndpointType
  <2>3. policy \in BOOLEAN /\ adapter \subseteq Handles /\ torn \in BOOLEAN /\ failed \in BOOLEAN
    <3>1. policy = TRUE \/ policy = FALSE BY <1>1
    <3>2. adapter = {} /\ torn = FALSE /\ failed = FALSE BY DEF Init
    <3> QED BY <3>1, <3>2
  <2>4. /\ session \in SessionRecord
        /\ checks \subseteq Check /\ token \in Service \cup {None} /\ minting \subseteq Mint
        /\ request \in Request \cup {None}
    BY DEF Init, SessionRecord
  <2>5. ops \in 0..MaxOps /\ faults \in 0..MaxFaults BY <1>2 DEF Init
  <2> QED BY <1>3, <1>6, <1>7, <2>1, <2>2, <2>3, <2>4, <2>5 DEF TypeOK, SessionRecord
<1>9. Suits(queue, request) /\ Waits(queue) BY <1>4, <1>6 DEF Suits, Waits, Own
<1> QED BY <1>8, <1>9, InitInv DEF Core, TypeInv, TokenInv

LEMMA StepCore == Core /\ [Next]_vars => Core'
<1> SUFFICES ASSUME Core, [Next]_vars PROVE Core' OBVIOUS
<1>1. TypeInv /\ TypeOK /\ TokenInv BY DEF Core, TypeInv, TypeOK, TokenInv, TokenTypes
<1>2. TokenInv' BY <1>1, StepInv
<1>3. host' \in Switch /\ config' \in Service \cup {None} /\ minting' \subseteq Mint /\ TokenOfService'
  BY <1>2 DEF TokenInv, TokenTypes
<1>4. token' \in Service \cup {None} BY <1>3 DEF TokenOfService
<1>5. settings' \in Settings /\ selection' \in AnyModel BY <1>1, SelectionType
<1>6. /\ bound' \in Tenants /\ policy' \in BOOLEAN /\ failed' \in BOOLEAN
      /\ adapter' \subseteq Handles /\ torn' \in BOOLEAN
  BY <1>1, BoundStepType, AdapterType
<1>7. session' \in SessionRecord /\ checks' \subseteq Check
  BY <1>1, SessionType
<1>8. /\ queue' \in Seq(Operation) /\ request' \in Request \cup {None}
      /\ Suits(queue', request') /\ Waits(queue')
  BY <1>1, RequestStep DEF RequestKept
<1>9. ops' \in 0..MaxOps /\ faults' \in 0..MaxFaults BY <1>1, BoundsStep
<1>10. TypeOK' BY <1>3, <1>4, <1>5, <1>6, <1>7, <1>8, <1>9 DEF TypeOK, SessionRecord
<1> QED BY <1>3, <1>8, <1>10 DEF Core, TypeInv

\* A request is where the operation that waits for it expects it, so no answer meets a request
\* that has ended; an environment's preference is complete or absent (index.ts:81-86, 502-507).
THEOREM TypeCorrect == Spec => []TypeOK
<1>1. Spec => []Core BY InitCore, StepCore, PTL DEF Spec
<1>2. Core => TypeOK BY DEF Core, TypeInv
<1> QED BY <1>1, <1>2, PTL

-----------------------------------------------------------------------------
(* The adapter.  While a switch has released the identity, nobody is accepted; and the         *)
(* configured service is that of the environment in force, unless the binding of a commitment  *)
(* fails late and that of its rollback early: two failures.                                    *)

Serving(q) == q # <<>> /\ q[1].kind \in Binds /\ q[1].step \in {"session", "ready", "wait"}
InForce(c) == c # None => c.tenant = host.tenant
Nobody == session.ready = None /\ \A c \in checks : ~c.fresh

Locked == host.phase = "rollback" => ~host.active
Released == host.phase = "open" => config = None
Configured == Serving(queue) => InForce(config)
Undone == host.phase \in {"revert", "rollback"} => faults >= 1
SwitchInv == Order(queue, host.phase) /\ Locked /\ Released /\ Configured /\ Undone

\* An identity is accepted, or may be, while it is signed in; but for one that was registered in
\* an environment the switch to which is undone, nobody is while a switch is open or rolled back.
Inactive == session.status # "active" => Nobody /\ ~session.undone
Quiet == host.phase = "open" \/ (host.phase = "rollback" /\ ~session.undone) => Nobody
SessionInv == Inactive /\ Quiet

Current == host.phase # "rollback" => InForce(config)
Accepted ==
  ~session.undone =>
    /\ session.ready # None => session.ready.tenant = host.tenant
    /\ \A c \in checks : c.fresh => c.config.tenant = host.tenant
AdapterInv == faults <= 1 => Current /\ Accepted /\ AdapterVerified

\* What throws is a call that fails.
LEMMA ThrowingFails == (Throws => Fails) /\ \A b : PublishFails(b) => Fails
BY DEF Throws, Tears, PublishFails

LEMMA EndpointInForce == \A c \in Endpoints(host.tenant) : InForce(c)
BY DEF Endpoints, InForce

\* What begins to serve again is nothing: the other operations wait.
LEMMA WaitingServesNot ==
  ASSUME NEW q \in Seq(Operation), \A i \in 1..Len(q) : q[i].step = "start"
  PROVE  ~Serving(q)
BY EmptySeq DEF Serving

\* An operation that enters does not run before the others.
LEMMA EnteredServesNot ==
  ASSUME NEW q \in Seq(Operation), NEW k \in Kinds
  PROVE  Serving(Append(q, New(k))) => Serving(q)
<1> DEFINE r == Append(q, New(k))
<1>1. /\ r \in Seq(Operation) /\ Len(r) = Len(q) + 1 /\ Len(q) \in Nat /\ r # <<>>
      /\ \A i \in 1..Len(q) : r[i] = q[i]
      /\ r[Len(q) + 1].kind = k /\ r[Len(q) + 1].step = "start"
  BY EntersProps
<1>2. CASE q = <<>>
  <2>1. Len(q) = 0 BY <1>2, EmptySeq
  <2>2. r[1].step = "start" BY <2>1, <1>1
  <2> HIDE DEF r
  <2> QED BY <2>2 DEF Serving, r
<1>3. CASE q # <<>>
  <2>1. 1 \in 1..Len(q) BY <1>3, EmptySeq
  <2>2. r[1] = q[1] BY <2>1, <1>1
  <2> HIDE DEF r
  <2> QED BY <2>2, <1>3 DEF Serving, r
<1> QED BY <1>2, <1>3

\* What a binding leaves when it ends.
LEMMA BoundKeeps ==
  ASSUME host \in Switch, queue \in Seq(Operation), Waits(queue), queue # <<>>, queue[1].kind \in Binds,
         Order(queue, host.phase), queue' \in {Tail(queue), Outdated(Tail(queue))},
         NEW ok \in BOOLEAN, Bound(ok)
  PROVE  /\ Order(queue', host'.phase) /\ ~Serving(queue')
         /\ host'.tenant = host.tenant /\ host'.active = host.active
         /\ \/ host' = host
            \/ (host.phase = "rollback" \/ (host.phase = "commit" /\ ok)) /\ host'.phase = "rest"
            \/ host.phase = "commit" /\ ~ok /\ host'.phase = "revert"
<1>1. queue[1].kind \notin Own BY DEF Binds, Own
<1>2. /\ queue' \in Seq(Operation)
      /\ Order(queue', host.phase)
      /\ \A p \in {"commit", "rollback"} : Order(queue, p) /\ queue[1].kind \notin Own =>
           Order(queue', "rest") /\ Order(queue', "revert")
      /\ \A i \in 1..Len(queue') : queue'[i].step = "start"
  BY EndKeeps
<1>3. ~Serving(queue') BY <1>2, WaitingServesNot
<1>4. CASE host.phase \in {"commit", "rollback"}
  <2>1. Moves(IF host.phase = "commit" /\ ~ok THEN "revert" ELSE "rest") BY <1>4 DEF Bound
  <2>2. /\ host'.tenant = host.tenant /\ host'.active = host.active
        /\ host'.phase = IF host.phase = "commit" /\ ~ok THEN "revert" ELSE "rest"
    BY <2>1 DEF Moves, Switch
  <2> QED BY <2>2, <1>1, <1>2, <1>3, <1>4
<1>5. CASE host.phase \notin {"commit", "rollback"}
  <2>1. host' = host BY <1>5 DEF Bound
  <2> QED BY <2>1, <1>2, <1>3
<1> QED BY <1>4, <1>5

\* While a switch is open no service is asked, and while it is rolled back nobody is signed in.
LEMMA SessionStep ==
  ASSUME Core, SwitchInv, SessionInv, [Next]_vars,
         host'.phase \in {"open", "rollback"} => host'.phase = host.phase \/ Forgets \/ Reverts
  PROVE  SessionInv'
<1>t. /\ host \in Switch /\ config \in Service \cup {None} /\ checks \subseteq Check
      /\ session \in SessionRecord
  BY DEF Core, TypeInv, TypeOK, SessionRecord
<1>i. /\ session.status # "active" => Nobody /\ ~session.undone
      /\ host.phase = "open" \/ (host.phase = "rollback" /\ ~session.undone) => Nobody
      /\ host.phase = "open" => config = None
      /\ host.phase = "rollback" => ~host.active
  BY DEF SessionInv, Inactive, Quiet, SwitchInv, Released, Locked
\* The identity is forgotten, or counts as accepted no more.
<1>n. ASSUME Nobody', session'.undone = FALSE \/ (UNCHANGED session.undone /\ UNCHANGED session.status)
      PROVE  SessionInv'
  BY <1>n, <1>i DEF SessionInv, Inactive, Quiet
<1>1. CASE Reverts
  <2>1. session' = [session EXCEPT !.undone = session.status = "active"] /\ checks' = checks
    BY <1>1 DEF Reverts
  <2>2. /\ session'.status = session.status /\ session'.ready = session.ready
        /\ session'.undone <=> session.status = "active"
    BY <2>1, <1>t DEF SessionRecord
  <2>3. host'.phase = "rollback" BY <1>1, <1>t DEF Reverts, Switch
  <2>4. ~session'.undone => Nobody' BY <2>1, <2>2, <1>i DEF Nobody
  <2>5. session'.status # "active" => Nobody' /\ ~session'.undone BY <2>2, <2>4
  <2> QED BY <2>3, <2>4, <2>5 DEF SessionInv, Inactive, Quiet
<1>2. CASE Forgets
  <2>1. session' = [status |-> "unknown", ready |-> None, undone |-> FALSE] BY <1>2 DEF Forgets
  <2>2. Nobody' BY <2>1, <1>2, <1>t, ForgetType DEF Nobody
  <2> QED BY <2>1, <2>2, <1>n
<1>3. CASE session' = [session EXCEPT !.ready = None] /\ checks' = Dropped
  <2>1. session'.ready = None /\ UNCHANGED session.undone /\ UNCHANGED session.status
    BY <1>3, <1>t DEF SessionRecord
  <2>2. Nobody' BY <2>1, <1>3, <1>t, DroppedType DEF Nobody
  <2> QED BY <2>1, <2>2, <1>n
<1>4. CASE ~Reverts /\ ~Forgets
  <2>p. host'.phase \in {"open", "rollback"} => host'.phase = host.phase BY <1>4
  <2>1. CASE UNCHANGED <<session, checks>>
    <3>1. Nobody => Nobody' BY <2>1 DEF Nobody
    <3> QED BY <2>1, <2>p, <3>1, <1>i DEF SessionInv, Inactive, Quiet
  <2>2. CASE \E b : (Publishes(b) \/ PublishFails(b)) /\ (b = host.active \/ host.phase # "rollback")
    <3>1. PICK b : (Publishes(b) \/ PublishFails(b)) /\ (b = host.active \/ host.phase # "rollback")
      BY <2>2
    <3>2. session' = [status |-> IF b THEN "active" ELSE "signed-out", ready |-> None, undone |-> FALSE]
      BY <3>1, <1>t, PublishType
    <3>3. checks' \subseteq Check /\ \A c \in checks' : c.fresh => b /\ c.config = config
      BY <3>1, <1>t, PublishType
    <3>4. session'.ready = None /\ session'.undone = FALSE BY <3>2
    <3>5. session'.status # "active" => ~b
      <4>1. b => session'.status = "active" BY <3>2
      <4> QED BY <4>1
    <3>6. ~b \/ config = None => Nobody'
      <4>1. \A c \in checks' : c.config # None BY <3>3, NoneIsNoRecord DEF Check
      <4>2. ~b \/ config = None => \A c \in checks' : ~c.fresh BY <3>3, <4>1
      <4> QED BY <3>4, <4>2 DEF Nobody
    <3>7. Inactive' BY <3>4, <3>5, <3>6 DEF Inactive
    <3>8. host'.phase \in {"open", "rollback"} => ~b \/ config = None BY <2>p, <3>1, <1>i
    <3>9. Quiet' BY <3>6, <3>8 DEF Quiet
    <3> QED BY <3>7, <3>9 DEF SessionInv
  <2>3. CASE \E c \in checks : CheckAnswers(c)
    <3>1. PICK c \in checks : CheckAnswers(c) BY <2>3
    <3>2. checks' \subseteq checks /\ (c.fresh \/ UNCHANGED session) BY <3>1, <1>t, AnswerType
    <3>3. UNCHANGED session.status /\ UNCHANGED session.undone
      BY <3>1, <1>t, AnswerType DEF SessionRecord
    <3>4. Nobody => Nobody'
      <4>1. Nobody => UNCHANGED session BY <3>2 DEF Nobody
      <4> QED BY <3>2, <4>1 DEF Nobody
    <3> QED BY <2>p, <3>3, <3>4, <1>i DEF SessionInv, Inactive, Quiet
  <2> QED BY <2>1, <2>2, <2>3, <1>3, <1>4, SessionMoves
<1> QED BY <1>1, <1>2, <1>4

\* Who is accepted was accepted by a service of the environment in force.
LEMMA AcceptedStep ==
  ASSUME Core, SwitchInv, SessionInv, Current, Accepted, [Next]_vars,
         host'.tenant = host.tenant \/ (host.phase = "open" /\ UNCHANGED <<session, checks>>) \/ Reverts
  PROVE  Accepted'
<1>t. /\ host \in Switch /\ config \in Service \cup {None} /\ checks \subseteq Check
      /\ session \in SessionRecord
  BY DEF Core, TypeInv, TypeOK, SessionRecord
<1>n. ASSUME Nobody' PROVE Accepted' BY <1>n DEF Accepted, Nobody
<1>1. CASE Reverts
  <2>1. session' = [session EXCEPT !.undone = session.status = "active"] /\ checks' = checks
    BY <1>1 DEF Reverts
  <2>2. /\ session'.ready = session.ready
        /\ session'.undone <=> session.status = "active"
    BY <2>1, <1>t DEF SessionRecord
  <2>3. ~session'.undone => Nobody' BY <2>1, <2>2 DEF SessionInv, Inactive, Nobody
  <2> QED BY <2>3, <1>n DEF Accepted
<1>2. CASE host.phase = "open" /\ UNCHANGED <<session, checks>>
  <2>1. Nobody' BY <1>2 DEF SessionInv, Quiet, Nobody
  <2> QED BY <2>1, <1>n
<1>3. CASE host'.tenant = host.tenant /\ ~Reverts
  <2>1. CASE UNCHANGED <<session, checks>> BY <2>1, <1>3 DEF Accepted
  <2>2. CASE \E b : (Publishes(b) \/ PublishFails(b)) /\ (b = host.active \/ host.phase # "rollback")
    <3>1. PICK b : (Publishes(b) \/ PublishFails(b)) /\ (b = host.active \/ host.phase # "rollback")
      BY <2>2
    <3>2. session' = [status |-> IF b THEN "active" ELSE "signed-out", ready |-> None, undone |-> FALSE]
      BY <3>1, <1>t, PublishType
    <3>3. checks' \subseteq Check /\ \A c \in checks' : c.fresh => b /\ c.config = config
      BY <3>1, <1>t, PublishType
    <3>4. session'.ready = None BY <3>2
    <3>5. \A c \in checks' : c.config # None BY <3>3, NoneIsNoRecord DEF Check
    <3>6. b => config = None \/ config.tenant = host.tenant
      BY <3>1 DEF Current, InForce, SwitchInv, Locked
    <3>7. \A c \in checks' : c.fresh => c.config.tenant = host.tenant BY <3>3, <3>5, <3>6
    <3> QED BY <3>4, <3>7, <1>3 DEF Accepted
  <2>3. CASE Forgets
    <3>1. session' = [status |-> "unknown", ready |-> None, undone |-> FALSE] BY <2>3 DEF Forgets
    <3> QED BY <3>1, <2>3, <1>t, <1>n, ForgetType DEF Nobody
  <2>4. CASE session' = [session EXCEPT !.ready = None] /\ checks' = Dropped
    <3>1. session'.ready = None BY <2>4, <1>t DEF SessionRecord
    <3> QED BY <3>1, <2>4, <1>t, <1>n, DroppedType DEF Nobody
  <2>5. CASE \E c \in checks : CheckAnswers(c)
    <3>1. PICK c \in checks : CheckAnswers(c) BY <2>5
    <3>2. /\ checks' \subseteq checks
          /\ UNCHANGED session.undone
          /\ session' = session \/ session'.ready = None \/ (c.fresh /\ session'.ready = c.config)
      BY <3>1, <1>t, AnswerType DEF SessionRecord
    <3> QED BY <3>2, <1>3 DEF Accepted
  <2> QED BY <2>1, <2>2, <2>3, <2>4, <2>5, <1>3, SessionMoves
<1> QED BY <1>1, <1>2, <1>3

\* The configuration changes when everything is released, and when a binding configures.
LEMMA ConfigMoves ==
  ASSUME [Next]_vars
  PROVE  UNCHANGED config \/ config' = None \/ config' \in Endpoints(host.tenant)
<1>1. CASE Lifecycle
  BY <1>1 DEF Lifecycle, PreparePersists, PrepareReleases, PrepareTears, RetryBegins, BindReads, Refuses,
      BindRestricts, FollowRestricts, BindConfigures, BindSession, BindLoses, ReadyStarts, ReadyRefreshes,
      ReadyAnswers, PersistRuns, Readies
<1>2. CASE Requested
  BY <1>2 DEF Requested, BalanceAnswers, WritesNothing, WritesEnabled, WritesSelection, Selects, Disables, Restores, Readies
<1>3. CASE Answer \/ Switching \/ User
  BY <1>3 DEF Answer, CheckAnswers, MintAnswers, Switching, OpenAnswers, Reverts, User, StartSwitch,
      SessionChanges, Registers, Told, Ask, PolicyChanges, Retry, Mints, Invalidate, ChooseModel, Readies
<1>4. CASE UNCHANGED vars BY <1>4 DEF vars, Readies
<1> QED BY <1>1, <1>2, <1>3, <1>4 DEF Next

\* A binding configures the environment in force: who was accepted was accepted there.
LEMMA AdapterStep ==
  ASSUME Core, SessionInv, Accepted, AdapterVerified, [Next]_vars, SessionInv', Current', Accepted'
  PROVE  AdapterVerified'
<1>t. session \in SessionRecord BY DEF Core, TypeInv, TypeOK, SessionRecord
<1> SUFFICES ASSUME ~torn', ~session'.undone, adapter' # {}
             PROVE  session'.ready # None /\ (config' # None => session'.ready.tenant = config'.tenant)
  BY DEF AdapterVerified, AlwaysVerified
<1>1. CASE UNCHANGED <<registered, session>>
  <2>1. /\ session'.ready # None /\ session' = session
        /\ config # None => session'.ready.tenant = config.tenant
    BY <1>1 DEF registered, AdapterVerified, AlwaysVerified
  <2>2. session'.ready.tenant = host.tenant BY <2>1 DEF Accepted
  <2>3. \A c \in Endpoints(host.tenant) : c # None => c.tenant = host.tenant
    BY EndpointInForce DEF InForce
  <2> QED BY <2>1, <2>2, <2>3, ConfigMoves
<1>2. CASE Serves
  <2>1. session'.ready # None /\ config' # None BY <1>2 DEF Serves
  <2>2. host'.phase # "rollback" BY <2>1 DEF SessionInv, Quiet, Nobody
  <2>3. config'.tenant = host'.tenant BY <2>1, <2>2 DEF Current, InForce
  <2>4. session'.ready.tenant = host'.tenant BY <2>1 DEF Accepted
  <2> QED BY <2>1, <2>3, <2>4
<1>3. CASE Reverts
  <2>1. session' = [session EXCEPT !.undone = session.status = "active"] /\ UNCHANGED <<adapter, torn>>
    BY <1>3 DEF Reverts, registered
  <2>2. session.status # "active" BY <2>1, <1>t DEF SessionRecord
  <2>3. ~session.undone /\ session.ready = None BY <2>2 DEF SessionInv, Inactive, Nobody
  <2> QED BY <2>1, <2>3 DEF AdapterVerified, AlwaysVerified
<1>4. CASE Tears BY <1>4 DEF Tears
<1> QED BY <1>1, <1>2, <1>3, <1>4, AdapterMoves, Synchronized

\* What a step does to a switch.
Switched ==
  /\ SwitchInv'
  /\ host'.phase \in {"open", "rollback"} => host'.phase = host.phase \/ Forgets \/ Reverts
  /\ host'.tenant = host.tenant \/ (host.phase = "open" /\ UNCHANGED <<session, checks>>) \/ Reverts
  /\ faults' <= 1 /\ Current => Current'

LEMMA SwitchStep == ASSUME Core, SwitchInv, [Next]_vars PROVE Switched
<1>t. /\ queue \in Seq(Operation) /\ Waits(queue) /\ Order(queue, host.phase) /\ host \in Switch
      /\ host.phase \in {"rest", "prepare", "open", "commit", "revert", "rollback"}
      /\ faults \in Nat /\ host.active \in BOOLEAN
  BY ConstantsAssumption DEF Core, TypeInv, TypeOK, SwitchInv, Switch
<1>i. Locked /\ Released /\ Configured /\ Undone BY DEF SwitchInv
<1>f. faults' = faults \/ faults' = faults + 1 BY BoundsMove DEF Works, Fails
<1>h. queue # <<>> => Head(queue) = queue[1] /\ 1 \in 1..Len(queue) BY <1>t, TailProps
<1>o. queue # <<>> /\ Head(queue).kind \in Binds => host.phase \notin {"open", "revert"}
  BY <1>t, <1>h DEF Order, Binds, Own
<1>s. ASSUME host'.phase = host.phase, host'.tenant = host.tenant,
             host'.active = host.active \/ host.phase # "rollback", UNCHANGED config,
             Order(queue', host.phase), Serving(queue') => Serving(queue)
      PROVE  Switched
  <2>1. Locked' /\ Released' BY <1>s, <1>i DEF Locked, Released
  <2>2. Configured' BY <1>s, <1>i DEF Configured, InForce
  <2>3. Undone' BY <1>s, <1>i, <1>f, <1>t DEF Undone
  <2>4. Current => Current' BY <1>s DEF Current, InForce
  <2> QED BY <2>1, <2>2, <2>3, <2>4, <1>s DEF Switched, SwitchInv
<1>q. ASSUME UNCHANGED <<host, config, queue>> PROVE Switched BY <1>q, <1>s, <1>t
<1>w. ASSUME UNCHANGED <<host, config>>, NEW k \in Own, Enters(k) PROVE Switched
  <2>1. k \in Kinds BY DEF Own, Kinds
  <2>2. Order(queue', host.phase) BY <2>1, <1>w, <1>t, EntersKeeps DEF Enters
  <2>3. Serving(queue') => Serving(queue) BY <2>1, <1>w, <1>t, EnteredServesNot DEF Enters
  <2> QED BY <2>2, <2>3, <1>w, <1>s
<1>g. ASSUME UNCHANGED <<host, config>>, queue # <<>>, NEW s \in StepNames, Goes(s) \/ GoesOutdated(s),
             queue[1].kind \in Binds /\ s \in {"session", "ready", "wait"} => Serving(queue)
      PROVE  Switched
  <2>1. Advances(queue, queue') /\ queue' # <<>> /\ queue'[1].step = s
    BY <1>g, <1>t, GoesAdvances DEF Goes, GoesOutdated
  <2>2. queue'[1].kind = queue[1].kind BY <2>1, <1>g, <1>h DEF Advances
  <2>3. Order(queue', host.phase) BY <2>1, <1>t, AdvanceKeeps
  <2>4. Serving(queue') => Serving(queue) BY <2>1, <2>2, <1>g DEF Serving
  <2> QED BY <2>3, <2>4, <1>g, <1>s
<1>e. ASSUME UNCHANGED <<host, config>>, queue # <<>>, queue' \in {Tail(queue), Outdated(Tail(queue))}
      PROVE  Switched
  <2>1. /\ queue' \in Seq(Operation) /\ Order(queue', host.phase)
        /\ \A i \in 1..Len(queue') : queue'[i].step = "start"
    BY <1>e, <1>t, EndKeeps
  <2>2. ~Serving(queue') BY <2>1, WaitingServesNot
  <2> QED BY <2>1, <2>2, <1>e, <1>s
<1>b. ASSUME queue # <<>>, Head(queue).kind \in Binds, queue' \in {Tail(queue), Outdated(Tail(queue))},
             NEW ok \in BOOLEAN, Bound(ok), host.phase = "commit" /\ ~ok => Fails,
             \/ InForce(config')
             \/ config' = config /\ ~ok /\ (host.phase = "rollback" => Fails)
      PROVE  Switched
  <2>1. /\ Order(queue', host'.phase) /\ ~Serving(queue')
        /\ host'.tenant = host.tenant /\ host'.active = host.active
        /\ \/ host' = host
           \/ (host.phase = "rollback" \/ (host.phase = "commit" /\ ok)) /\ host'.phase = "rest"
           \/ host.phase = "commit" /\ ~ok /\ host'.phase = "revert"
    BY <1>b, <1>h, <1>t, BoundKeeps
  <2>2. Locked' /\ Released' BY <2>1, <1>b, <1>o, <1>i DEF Locked, Released
  <2>3. Configured' BY <2>1 DEF Configured
  <2>4. Undone' BY <2>1, <1>b, <1>i, <1>f, <1>t DEF Undone, Fails
  <2>5. host'.phase \in {"open", "rollback"} => host'.phase = host.phase BY <2>1
  <2>6. ASSUME faults' <= 1, Current PROVE Current'
    <3>1. CASE InForce(config') BY <3>1, <2>1 DEF Current, InForce
    <3>2. CASE config' = config /\ ~ok /\ (host.phase = "rollback" => Fails)
      <4>1. host.phase # "rollback" BY <3>2, <2>6, <1>i, <1>t DEF Undone, Fails
      <4> QED BY <4>1, <3>2, <2>1, <2>6 DEF Current, InForce
    <3> QED BY <3>1, <3>2, <1>b
  <2> QED BY <2>1, <2>2, <2>3, <2>4, <2>5, <2>6 DEF Switched, SwitchInv
\* A binding is rejected by a call that has failed.
<1>x. ASSUME queue # <<>>, Head(queue).kind \in Binds, Rejects, UNCHANGED config,
             host.phase \in {"commit", "rollback"} => Fails
      PROVE  Switched
  BY <1>x, <1>b DEF Rejects
\* The identity is in place, and the service was configured before.
<1>v. ASSUME queue # <<>>, queue' \in {Tail(queue), Outdated(Tail(queue))}, UNCHANGED config,
             NEW ok \in BOOLEAN, Gives(ok), ok \/ Fails, Head(queue).step \in {"session", "ready", "wait"},
             Head(queue).kind \in Binds \cup {"ready"}
      PROVE  Switched
  <2>1. CASE Head(queue).kind = "ready" BY <2>1, <1>v, <1>e DEF Gives
  <2>2. CASE Head(queue).kind \in Binds
    <3>1. InForce(config) BY <2>2, <1>v, <1>h, <1>i DEF Serving, Configured
    <3>2. Bound(ok) BY <2>2, <1>v DEF Gives, Binds
    <3> QED BY <2>2, <3>1, <3>2, <1>v, <1>b DEF InForce
  <2> QED BY <2>1, <2>2, <1>v
<1>1. CASE PreparePersists
  <2>1. queue # <<>> /\ queue[1].kind = "prepare" /\ UNCHANGED config
    BY <1>1, <1>h DEF PreparePersists, Running
  <2>2. CASE Goes("apply") /\ UNCHANGED host
    BY <2>1, <2>2, <1>g DEF StepNames, Binds
  <2>3. CASE queue' = Tail(queue) /\ Moves("rest")
    <3>1. /\ Order(queue', "rest") /\ queue' \in Seq(Operation)
          /\ \A i \in 1..Len(queue') : queue'[i].step = "start"
      BY <2>1, <2>3, <1>t, EndKeeps
    <3>2. host'.phase = "rest" /\ host'.tenant = host.tenant BY <2>3, <1>t DEF Moves, Switch
    <3>3. ~Serving(queue') BY <3>1, WaitingServesNot
    <3>4. host.phase = "prepare" BY <2>1, <1>h, <1>t DEF Order
    <3>5. Current => Current' BY <2>1, <3>2, <3>4 DEF Current, InForce
    <3> QED BY <3>1, <3>2, <3>3, <3>5 DEF Switched, SwitchInv, Locked, Released, Configured, Undone
  <2> QED BY <1>1, <2>2, <2>3 DEF PreparePersists
<1>2. CASE PrepareReleases
  <2>1. /\ queue # <<>> /\ queue[1].kind = "prepare" /\ queue' = Outdated(Tail(queue))
        /\ config' = None /\ Forgets
    BY <1>2, <1>h DEF PrepareReleases, Running
  <2>2. Moves("open") \/ Moves("rest") BY <1>2 DEF PrepareReleases
  <2>3. /\ Order(queue', "rest") /\ Order(queue', "open") /\ queue' \in Seq(Operation)
        /\ \A i \in 1..Len(queue') : queue'[i].step = "start"
    BY <2>1, <1>t, EndKeeps
  <2>4. host'.phase \in {"rest", "open"} /\ host'.tenant = host.tenant BY <2>2, <1>t DEF Moves, Switch
  <2>5. ~Serving(queue') BY <2>3, WaitingServesNot
  <2>6. Locked' /\ Released' BY <2>1, <2>4 DEF Locked, Released
  <2>7. Configured' /\ Undone' /\ Current'
    BY <2>1, <2>4, <2>5 DEF Configured, Undone, Current, InForce
  <2> QED BY <2>1, <2>3, <2>4, <2>6, <2>7 DEF Switched, SwitchInv
<1>3. CASE BindReads
  <2>1. queue # <<>> /\ Head(queue).kind \in Binds /\ UNCHANGED config
    BY <1>3 DEF BindReads, Running, Binds
  <2>2. CASE Rejects /\ (host.phase # "prepare" => Fails) BY <2>1, <2>2, <1>x
  <2>3. CASE Goes(IF Restricted THEN "restrict" ELSE "apply") /\ UNCHANGED host
    <3> DEFINE s == IF Restricted THEN "restrict" ELSE "apply"
    <3>1. s \in StepNames /\ s \notin {"session", "ready", "wait"} BY DEF StepNames
    <3>2. Goes(s) BY <2>3
    <3> HIDE DEF s
    <3> QED BY <2>1, <2>3, <3>1, <3>2, <1>g
  <2>4. \/ Rejects /\ (host.phase # "prepare" => Fails)
        \/ Goes(IF Restricted THEN "restrict" ELSE "apply") /\ UNCHANGED host
    BY <1>3 DEF BindReads
  <2> QED BY <2>2, <2>3, <2>4
<1>4. CASE BindRestricts
  <2>1. /\ queue # <<>> /\ Head(queue).kind \in Binds /\ queue' = Tail(queue)
        /\ config' \in Endpoints(host.tenant)
        /\ Bound(TRUE) \/ (Bound(FALSE) /\ Fails)
    BY <1>4, ThrowingFails DEF BindRestricts, Running
  <2>2. InForce(config') BY <2>1, EndpointInForce
  <2> QED BY <2>1, <2>2, <1>b
<1>5. CASE FollowRestricts
  <2>1. queue # <<>> /\ queue' = Tail(queue) /\ UNCHANGED <<host, config>>
    BY <1>5 DEF FollowRestricts, Running
  <2> QED BY <2>1, <1>e
<1>6. CASE BindConfigures
  <2>1. /\ queue # <<>> /\ Head(queue).kind \in Binds /\ Goes("session") /\ UNCHANGED host
        /\ config' \in Endpoints(host.tenant)
    BY <1>6 DEF BindConfigures, Running
  <2>2. Advances(queue, queue') BY <2>1, <1>t, GoesAdvances DEF Goes, StepNames
  <2>3. Order(queue', host.phase) BY <2>2, <1>t, AdvanceKeeps
  <2>4. Locked' /\ Released' /\ Undone' BY <2>1, <1>i, <1>o, <1>f, <1>t DEF Locked, Released, Undone
  <2>5. InForce(config') BY <2>1, EndpointInForce
  <2>6. Configured' /\ Current' BY <2>1, <2>5 DEF Configured, Current, InForce
  <2> QED BY <2>1, <2>3, <2>4, <2>6 DEF Switched, SwitchInv
<1>7. CASE BindSession
  <2>1. /\ queue # <<>> /\ Head(queue).kind \in Binds /\ Head(queue).step = "session"
        /\ UNCHANGED config
    BY <1>7 DEF BindSession, Running
  <2>2. Serving(queue) /\ InForce(config) BY <2>1, <1>h, <1>i DEF Serving, Configured
  <2>3. \/ Bound(TRUE) /\ queue' \in {Tail(queue), Outdated(Tail(queue))}
        \/ UNCHANGED host /\ (Goes("ready") \/ GoesOutdated("ready"))
    BY <1>7 DEF BindSession, Goes, GoesOutdated, Readies
  <2>4. CASE Bound(TRUE) /\ queue' \in {Tail(queue), Outdated(Tail(queue))}
    BY <2>1, <2>2, <2>4, <1>b
  <2>5. CASE UNCHANGED host /\ (Goes("ready") \/ GoesOutdated("ready"))
    BY <2>1, <2>2, <2>5, <1>g DEF StepNames
  <2> QED BY <2>3, <2>4, <2>5
<1>8. CASE ReadyStarts
  <2>1. /\ queue # <<>> /\ queue[1].kind = "ready" /\ Goes("ready") /\ UNCHANGED <<host, config>>
    BY <1>8, <1>h DEF ReadyStarts, Running
  <2> QED BY <2>1, <1>g DEF StepNames, Binds
<1>9. CASE ReadyRefreshes
  <2>1. /\ queue # <<>> /\ Head(queue).kind \in Binds \cup {"ready"} /\ Head(queue).step = "ready"
        /\ UNCHANGED config
    BY <1>9 DEF ReadyRefreshes, Running
  <2>2. Head(queue).kind \in Binds => Serving(queue) BY <2>1, <1>h DEF Serving
  <2>3. \/ UNCHANGED host /\ (Goes("wait") \/ GoesOutdated("wait"))
        \/ queue' = Tail(queue) /\ Gives(TRUE)
        \/ queue' = Outdated(Tail(queue)) /\ Gives(FALSE) /\ Fails
    BY <1>9, ThrowingFails DEF ReadyRefreshes
  <2>4. CASE UNCHANGED host /\ (Goes("wait") \/ GoesOutdated("wait"))
    BY <2>1, <2>2, <2>4, <1>g, <1>h DEF StepNames
  <2>5. CASE queue' = Tail(queue) /\ Gives(TRUE) BY <2>1, <2>5, <1>v
  <2>6. CASE queue' = Outdated(Tail(queue)) /\ Gives(FALSE) /\ Fails BY <2>1, <2>6, <1>v
  <2> QED BY <2>3, <2>4, <2>5, <2>6
<1>10. CASE ReadyAnswers
  <2>1. /\ queue # <<>> /\ Head(queue).step = "wait" /\ queue' = Tail(queue) /\ UNCHANGED config
    BY <1>10 DEF ReadyAnswers, Running, Known
  <2>2. \/ UNCHANGED host
        \/ Head(queue).kind \in Binds /\ (Bound(TRUE) \/ (Bound(FALSE) /\ Fails))
    BY <1>10 DEF ReadyAnswers, Known
  <2>3. CASE UNCHANGED host BY <2>1, <2>3, <1>e
  <2>4. CASE Head(queue).kind \in Binds /\ (Bound(TRUE) \/ (Bound(FALSE) /\ Fails))
    <3>1. InForce(config') BY <2>1, <2>4, <1>h, <1>i DEF Serving, Configured, InForce
    <3> QED BY <2>1, <2>4, <3>1, <1>b
  <2> QED BY <2>2, <2>3, <2>4
<1>11. CASE PersistRuns
  <2>1. queue # <<>> /\ queue' = Tail(queue) /\ UNCHANGED <<host, config>>
    BY <1>11 DEF PersistRuns, Running
  <2> QED BY <2>1, <1>e
<1>12. CASE BalanceAnswers
  <2>1. UNCHANGED <<host, config, queue>> BY <1>12 DEF BalanceAnswers
  <2> QED BY <2>1, <1>q
<1>13. CASE WritesNothing
  <2>1. UNCHANGED <<host, config>> /\ (Enters("persist") \/ UNCHANGED queue) BY <1>13 DEF WritesNothing
  <2> QED BY <2>1, <1>q, <1>w DEF Own
<1>14. CASE WritesEnabled
  <2>1. UNCHANGED <<host, config, queue>> BY <1>14 DEF WritesEnabled
  <2> QED BY <2>1, <1>q
<1>15. CASE WritesSelection
  <2>1. UNCHANGED <<host, config, queue>> BY <1>15 DEF WritesSelection
  <2> QED BY <2>1, <1>q
<1>16. CASE Selects
  <2>1. UNCHANGED <<host, config>> /\ (Enters("persist") \/ UNCHANGED queue) BY <1>16 DEF Selects, Persisting
  <2> QED BY <2>1, <1>q, <1>w DEF Own
<1>17. CASE Disables
  <2>1. UNCHANGED <<host, config>> /\ (Enters("persist") \/ UNCHANGED queue) BY <1>17 DEF Disables, Persisting
  <2> QED BY <2>1, <1>q, <1>w DEF Own
<1>18. CASE Restores
  <2>1. UNCHANGED <<host, config, queue>> BY <1>18 DEF Restores
  <2> QED BY <2>1, <1>q
<1>19. CASE \E c \in checks : CheckAnswers(c)
  <2>1. \/ UNCHANGED <<host, config, queue>>
        \/ /\ queue # <<>> /\ Head(queue).kind \in Binds \cup {"ready"} /\ Head(queue).step = "wait"
           /\ queue' = Tail(queue) /\ Gives(FALSE) /\ Fails /\ UNCHANGED config
    BY <1>19, ThrowingFails DEF CheckAnswers, Running
  <2> QED BY <2>1, <1>q, <1>v
<1>20. CASE \E m \in minting : MintAnswers(m)
  <2>1. UNCHANGED <<host, config, queue>> BY <1>20 DEF MintAnswers
  <2> QED BY <2>1, <1>q
<1>21. CASE OpenAnswers
  <2>1. host.phase = "open" /\ UNCHANGED <<config, session, checks>> BY <1>21 DEF OpenAnswers, identity
  <2>2. config = None BY <2>1, <1>i DEF Released
  <2>3. CASE host' = [host EXCEPT !.phase = "commit", !.tenant = host.to] /\ Enters("bind")
    <3>1. host'.phase = "commit" BY <2>3, <1>t DEF Switch
    <3>2. "bind" \in Kinds /\ "bind" \in Binds BY DEF Kinds, Binds
    <3>3. Order(queue', "commit") BY <2>1, <2>3, <3>2, <1>t, EntersKeeps DEF Enters
    <3>4. Locked' /\ Released' /\ Undone' BY <3>1 DEF Locked, Released, Undone
    <3>5. Configured' /\ Current' BY <2>1, <2>2 DEF Configured, Current, InForce
    <3> QED BY <2>1, <3>1, <3>3, <3>4, <3>5 DEF Switched, SwitchInv
  <2>4. CASE Moves("revert") /\ Fails /\ UNCHANGED queue
    <3>1. host'.phase = "revert" /\ host'.tenant = host.tenant BY <2>4, <1>t DEF Moves, Switch
    <3>2. Order(queue', "revert") BY <2>1, <2>4, <1>t DEF Order
    <3>3. Locked' /\ Released' /\ Undone' BY <2>4, <3>1, <1>t DEF Locked, Released, Undone, Fails
    <3>4. Configured' /\ Current' BY <2>1, <2>2 DEF Configured, Current, InForce
    <3> QED BY <2>1, <3>1, <3>2, <3>3, <3>4 DEF Switched, SwitchInv
  <2> QED BY <1>21, <2>3, <2>4 DEF OpenAnswers
<1>22. CASE Reverts
  <2>1. /\ host.phase = "revert" /\ UNCHANGED config /\ Enters("bind")
        /\ host' = [host EXCEPT !.phase = "rollback", !.tenant = host.from, !.active = FALSE]
    BY <1>22 DEF Reverts
  <2>2. host'.phase = "rollback" /\ host'.active = FALSE BY <2>1, <1>t DEF Switch
  <2>3. "bind" \in Kinds /\ "bind" \in Binds BY DEF Kinds, Binds
  <2>4. Order(queue', "rollback") BY <2>1, <2>3, <1>t, EntersKeeps DEF Enters
  <2>5. ~Serving(queue')
    <3>1. ~Serving(queue) BY <2>1, <1>h, <1>t DEF Order, Serving, Binds, Own
    <3> QED BY <3>1, <2>1, <2>3, <1>t, EnteredServesNot DEF Enters
  <2>6. Locked' /\ Released' /\ Undone' BY <2>1, <2>2, <1>i, <1>f, <1>t DEF Locked, Released, Undone
  <2>7. Configured' /\ Current' BY <2>2, <2>5 DEF Configured, Current
  <2> QED BY <1>22, <2>2, <2>4, <2>6, <2>7 DEF Switched, SwitchInv
<1>23. CASE \E t \in Tenants : StartSwitch(t)
  <2>1. PICK t \in Tenants : StartSwitch(t) BY <1>23
  <2>2. /\ host.phase = "rest" /\ UNCHANGED config /\ Enters("prepare")
        /\ host' = [host EXCEPT !.phase = "prepare", !.from = host.tenant, !.to = t, !.active = FALSE]
    BY <2>1 DEF StartSwitch
  <2>3. host'.phase = "prepare" /\ host'.tenant = host.tenant BY <2>2, <1>t DEF Switch
  <2>4. "prepare" \in Kinds BY DEF Kinds
  <2>5. Order(queue', "prepare") BY <2>2, <2>4, <1>t, EntersKeeps DEF Enters
  <2>6. Serving(queue') => Serving(queue) BY <2>2, <2>4, <1>t, EnteredServesNot DEF Enters
  <2>7. Locked' /\ Released' /\ Undone' BY <2>3 DEF Locked, Released, Undone
  <2>8. Configured' BY <2>2, <2>3, <2>6, <1>i DEF Configured, InForce
  <2>9. Current => Current' BY <2>2, <2>3 DEF Current, InForce
  <2> QED BY <2>3, <2>5, <2>7, <2>8, <2>9 DEF Switched, SwitchInv
<1>24. CASE \E b \in BOOLEAN : SessionChanges(b)
  <2>1. /\ host.phase = "rest" /\ UNCHANGED config /\ queue' = Outdated(queue)
        /\ \E b \in BOOLEAN : host' = [host EXCEPT !.active = b]
    BY <1>24 DEF SessionChanges, Told
  <2>2. host'.phase = host.phase /\ host'.tenant = host.tenant BY <2>1, <1>t DEF Switch
  <2>3. /\ Advances(queue, queue') /\ (queue = <<>> <=> queue' = <<>>)
        /\ \A i \in 1..Len(queue) : queue'[i].step = queue[i].step
    BY <2>1, <1>t, OutdatedAdvances
  <2>4. Order(queue', host.phase) BY <2>3, <1>t, AdvanceKeeps
  <2>5. Serving(queue') => Serving(queue) BY <2>3, <1>h DEF Serving, Advances
  <2> QED BY <2>1, <2>2, <2>4, <2>5, <1>s
<1>25. CASE \E b \in BOOLEAN : Ask(b)
  <2>1. UNCHANGED <<host, config>> /\ (Enters("ready") \/ UNCHANGED queue) BY <1>25 DEF Ask
  <2> QED BY <2>1, <1>q, <1>w DEF Own
<1>26. CASE PolicyChanges
  <2>1. /\ host.phase = "rest" /\ UNCHANGED config /\ (Enters("follow") \/ UNCHANGED queue)
        /\ host'.phase = host.phase /\ host'.tenant = host.tenant
    BY <1>26, <1>t DEF PolicyChanges, Switch
  <2>2. Order(queue', host.phase) /\ (Serving(queue') => Serving(queue))
    <3>1. CASE UNCHANGED queue BY <3>1, <1>t
    <3>2. CASE Enters("follow")
      <4>1. "follow" \in Kinds /\ "follow" # "prepare" BY DEF Kinds
      <4> QED BY <3>2, <4>1, <2>1, <1>t, EntersKeeps, EnteredServesNot DEF Enters
    <3> QED BY <2>1, <3>1, <3>2
  <2> QED BY <2>1, <2>2, <1>s
<1>27. CASE Retry
  <2>1. /\ host.phase = "rest" /\ UNCHANGED <<host, config>> /\ (Enters("retry") \/ UNCHANGED queue)
    BY <1>27 DEF Retry
  <2>2. Order(queue', host.phase) /\ (Serving(queue') => Serving(queue))
    <3>1. CASE UNCHANGED queue BY <3>1, <1>t
    <3>2. CASE Enters("retry")
      <4>1. "retry" \in Kinds /\ "retry" # "prepare" BY DEF Kinds
      <4> QED BY <3>2, <4>1, <2>1, <1>t, EntersKeeps, EnteredServesNot DEF Enters
    <3> QED BY <2>1, <3>1, <3>2
  <2> QED BY <2>1, <2>2, <1>s
<1>28. CASE Mints
  <2>1. UNCHANGED <<host, config, queue>> BY <1>28 DEF Mints
  <2> QED BY <2>1, <1>q
<1>29. CASE Invalidate
  <2>1. UNCHANGED <<host, config, queue>> BY <1>29 DEF Invalidate
  <2> QED BY <2>1, <1>q
<1>30. CASE \E m \in AnyModel : ChooseModel(m)
  <2>1. UNCHANGED <<host, config, queue>> BY <1>30 DEF ChooseModel
  <2> QED BY <2>1, <1>q
<1>31. CASE PrepareTears
  <2>1. /\ queue # <<>> /\ queue[1].kind = "prepare" /\ queue' = Outdated(Tail(queue))
        /\ UNCHANGED config /\ Moves("rest")
    BY <1>31, <1>h DEF PrepareTears, Running
  <2>2. /\ Order(queue', "rest") /\ queue' \in Seq(Operation)
        /\ \A i \in 1..Len(queue') : queue'[i].step = "start"
    BY <2>1, <1>t, EndKeeps
  <2>3. host'.phase = "rest" /\ host'.tenant = host.tenant BY <2>1, <1>t DEF Moves, Switch
  <2>4. ~Serving(queue') BY <2>2, WaitingServesNot
  <2>5. host.phase = "prepare" BY <2>1, <1>h, <1>t DEF Order
  <2>6. Current => Current' BY <2>1, <2>3, <2>5 DEF Current, InForce
  <2> QED BY <2>2, <2>3, <2>4, <2>6 DEF Switched, SwitchInv, Locked, Released, Configured, Undone
<1>32. CASE RetryBegins
  <2>1. /\ queue # <<>> /\ UNCHANGED <<host, config>>
        /\ queue' = [queue EXCEPT ![1].step = "reads", ![1].fresh = TRUE]
    BY <1>32 DEF RetryBegins, Running
  <2>2. Advances(queue, queue') /\ queue'[1].step = "reads"
    BY <2>1, <1>t, FreshAdvances DEF StepNames
  <2>3. Order(queue', host.phase) BY <2>2, <1>t, AdvanceKeeps
  <2>4. ~Serving(queue') BY <2>2 DEF Serving
  <2> QED BY <2>1, <2>3, <2>4, <1>s
<1>33. CASE Refuses
  <2>1. queue # <<>> /\ Head(queue).kind \in Binds /\ Rejects /\ Fails /\ UNCHANGED config
    BY <1>33 DEF Refuses, Running
  <2> QED BY <2>1, <1>x
<1>34. CASE BindLoses
  <2>1. /\ queue # <<>> /\ Head(queue).kind \in Binds /\ Head(queue).step = "session"
        /\ queue' \in {Tail(queue), Outdated(Tail(queue))} /\ Bound(FALSE) /\ Fails /\ UNCHANGED config
    BY <1>34, ThrowingFails DEF BindLoses, Running
  <2>2. InForce(config') BY <2>1, <1>h, <1>i DEF Serving, Configured, InForce
  <2> QED BY <2>1, <2>2, <1>b
<1>35. CASE Registers
  <2>1. /\ host.phase # "rollback" /\ UNCHANGED config /\ queue' = Outdated(queue)
        /\ host' = [host EXCEPT !.active = (host.phase # "prepare")]
    BY <1>35 DEF Registers, Told
  <2>2. host'.phase = host.phase /\ host'.tenant = host.tenant BY <2>1, <1>t DEF Switch
  <2>3. /\ Advances(queue, queue') /\ (queue = <<>> <=> queue' = <<>>)
        /\ \A i \in 1..Len(queue) : queue'[i].step = queue[i].step
    BY <2>1, <1>t, OutdatedAdvances
  <2>4. Order(queue', host.phase) BY <2>3, <1>t, AdvanceKeeps
  <2>5. Serving(queue') => Serving(queue) BY <2>3, <1>h DEF Serving, Advances
  <2> QED BY <2>1, <2>2, <2>4, <2>5, <1>s
<1>36. CASE UNCHANGED vars
  <2>1. UNCHANGED <<host, config, queue>> BY <1>36 DEF vars
  <2> QED BY <2>1, <1>q
<1> QED
  BY <1>1, <1>2, <1>3, <1>4, <1>5, <1>6, <1>7, <1>8, <1>9, <1>10, <1>11, <1>12, <1>13, <1>14, <1>15, <1>16, <1>17, <1>18, <1>19, <1>20, <1>21, <1>22, <1>23, <1>24, <1>25, <1>26, <1>27, <1>28, <1>29, <1>30, <1>31, <1>32, <1>33, <1>34, <1>35, <1>36
  DEF Next, Lifecycle, Requested, Answer, Switching, User

SwitchCore == Core /\ SwitchInv /\ SessionInv /\ AdapterInv

LEMMA InitSwitch == Init => SwitchCore
<1> SUFFICES ASSUME Init PROVE SwitchInv /\ SessionInv /\ AdapterInv BY InitCore DEF SwitchCore
<1>1. PICK t \in Tenants, signedIn \in BOOLEAN, some \in SUBSET Tenants :
        /\ host = [tenant |-> t, from |-> t, to |-> t, phase |-> "rest",
                   active |-> signedIn, restricted |-> some]
        /\ config \in Endpoints(t)
  BY DEF Init
<1>2. New("bind").kind = "bind" /\ New("bind").step = "start" BY NewType DEF Kinds
<1>3. Len(queue) = 1 /\ queue[1] = New("bind") BY DEF Init
<1>4. Order(queue, host.phase) BY <1>1, <1>2, <1>3 DEF Order
<1>5. Locked /\ Released /\ Undone BY <1>1 DEF Locked, Released, Undone
<1>6. Configured BY <1>2, <1>3 DEF Configured, Serving
<1>7. Nobody /\ ~session.undone BY DEF Init, Nobody
<1>8. SessionInv BY <1>7 DEF SessionInv, Inactive, Quiet
<1>9. Current BY <1>1 DEF Current, InForce, Endpoints
<1>10. Accepted BY <1>7 DEF Accepted, Nobody
<1>11. AdapterVerified BY DEF Init, AdapterVerified, AlwaysVerified
<1> QED BY <1>4, <1>5, <1>6, <1>8, <1>9, <1>10, <1>11 DEF SwitchInv, AdapterInv

LEMMA StepSwitch == SwitchCore /\ [Next]_vars => SwitchCore'
<1> SUFFICES ASSUME SwitchCore, [Next]_vars PROVE SwitchCore' OBVIOUS
<1>1. Core /\ SwitchInv /\ SessionInv /\ AdapterInv BY DEF SwitchCore
<1>2. Core' BY <1>1, StepCore
<1>3. Switched BY <1>1, SwitchStep
<1>4. SwitchInv' BY <1>3 DEF Switched
<1>5. SessionInv' BY <1>1, <1>3, SessionStep DEF Switched
<1>6. ASSUME faults' <= 1 PROVE Current' /\ Accepted' /\ AdapterVerified'
  <2>1. faults <= 1
    <3>1. faults \in Nat BY <1>1, ConstantsAssumption DEF Core, TypeInv, TypeOK
    <3>2. faults' = faults \/ faults' = faults + 1 BY BoundsMove DEF Works, Fails
    <3> QED BY <3>1, <3>2, <1>6
  <2>2. Current /\ Accepted /\ AdapterVerified BY <1>1, <2>1 DEF AdapterInv
  <2>3. Current' BY <1>3, <1>6, <2>2 DEF Switched
  <2>4. Accepted' BY <1>1, <1>3, <2>2, AcceptedStep DEF Switched
  <2> QED BY <1>1, <1>5, <2>2, <2>3, <2>4, AdapterStep
<1> QED BY <1>2, <1>4, <1>5, <1>6 DEF SwitchCore, AdapterInv

\* Until a second call fails, the adapter is registered only while the service that is configured
\* has accepted the identity, whatever switches, sessions, registrations and policies overlap and
\* whichever call it is that fails: after a release that has thrown this begins again with the
\* next one, after a switch that was undone under a new identity with the next session
\* (index.ts:275-366, 466-536).
THEOREM AdapterIsVerified == Spec => [](faults <= 1 => AdapterVerified)
<1>1. Spec => []SwitchCore BY InitSwitch, StepSwitch, PTL DEF Spec
<1>2. SwitchCore => (faults <= 1 => AdapterVerified) BY DEF SwitchCore, AdapterInv
<1> QED BY <1>1, <1>2, PTL

\* Until a second call fails, the service that is configured is one that the environment in
\* force has published, but while a switch is undone: before it, while it is prepared and
\* committed, and after it (index.ts:466-498, 982-993).
THEOREM ServiceInForce == Spec => [](faults <= 1 => Current)
<1>1. Spec => []SwitchCore BY InitSwitch, StepSwitch, PTL DEF Spec
<1>2. SwitchCore => (faults <= 1 => Current) BY DEF SwitchCore, AdapterInv
<1> QED BY <1>1, <1>2, PTL

\* While a switch opens the other environment, and while it is undone unless an identity was
\* registered there, no identity counts as accepted, and no answer about one that is still on
\* its way will, however many calls fail (index.ts:266-273, 529-538).
THEOREM NothingWhileAway == Spec => []Quiet
<1>1. Spec => []SwitchCore BY InitSwitch, StepSwitch, PTL DEF Spec
<1>2. SwitchCore => Quiet BY DEF SwitchCore, SessionInv
<1> QED BY <1>1, <1>2, PTL

-----------------------------------------------------------------------------
(* The intent.  Where requests keep apart from switches and from the other operations of the   *)
(* queue, the settings in force are those stored for the environment that is bound, except     *)
(* while a request writes them, and it remembers what they were.                               *)

Away == {"open", "commit", "revert", "rollback"}
Written == {"select", "disable", "persist", "restore"}
Begun(q) == q # <<>> /\ q[1].kind \in Binds /\ q[1].step \notin {"start", "reads"}
Readying(q) == q # <<>> /\ q[1].kind \in Binds /\ q[1].step \in {"ready", "wait"}
Placed == host.phase \in {"rest", "prepare"} \/ Begun(queue)
Writing == request # None /\ request.at \in Written

\* A release that has thrown when the model was turned off is made up for: by the binding that
\* runs, or by the request's undo.
Lingers == faults >= 1 /\ ((Begun(queue) /\ ~Readying(queue)) \/ At("restore"))

Singly == request # None => host.phase = "rest" /\ \A i \in 1..Len(queue) : queue[i].kind \in Own
Here == Placed => bound = host.tenant
Settled == Placed /\ ~Writing => settings.enabled = settings.stored[bound].enabled
Turned ==
  /\ selection = Hosted => settings.enabled
  /\ adapter # {} => settings.enabled \/ Lingers
  /\ host.phase \in Away => selection # Hosted
  /\ Readying(queue) => settings.enabled
  /\ settings.previous # Hosted
  /\ \A t \in Tenants : settings.stored[t] # NoPreference => settings.stored[t].previous # Hosted
Remembers ==
  request # None =>
    /\ request.tenant = bound
    /\ request.at \in Written =>
         /\ request.settings.stored = settings.stored
         /\ request.settings.enabled = settings.stored[bound].enabled
         /\ request.settings.previous # Hosted
         /\ request.selection = Hosted => request.settings.enabled
    /\ request.at = "disable" => selection # Hosted
    /\ request.at = "select" => settings.enabled
    /\ request.at = "restore" => faults >= 1

Intent == Here /\ Settled /\ Turned /\ Remembers

\* An operation that enters is not the one that runs, and has not begun.
LEMMA HeadEntered ==
  ASSUME NEW q \in Seq(Operation), NEW k \in Kinds
  PROVE  LET r == Append(q, New(k)) IN
         /\ (Begun(r) <=> Begun(q)) /\ (Readying(r) <=> Readying(q))
<1> DEFINE r == Append(q, New(k))
<1>1. /\ r # <<>> /\ Len(q) \in Nat /\ r[Len(q) + 1].step = "start"
      /\ \A i \in 1..Len(q) : r[i] = q[i]
  BY EntersProps
<1>2. CASE q = <<>>
  <2>1. Len(q) = 0 BY <1>2, EmptySeq
  <2>2. r[1].step = "start" BY <2>1, <1>1
  <2> HIDE DEF r
  <2> QED BY <2>2 DEF Begun, Readying, r
<1>3. CASE q # <<>>
  <2>1. 1 \in 1..Len(q) BY <1>3, EmptySeq
  <2>2. r[1] = q[1] BY <2>1, <1>1
  <2> HIDE DEF r
  <2> QED BY <2>2, <1>3 DEF Begun, Readying, r
<1> QED BY <1>2, <1>3

\* When an operation ends, the next has not begun.
LEMMA HeadEnded ==
  ASSUME NEW q \in Seq(Operation), q # <<>>, Waits(q), NEW r \in {Tail(q), Outdated(Tail(q))}
  PROVE  ~Begun(r) /\ ~Readying(r)
<1>1. r \in Seq(Operation) /\ \A i \in 1..Len(r) : r[i].step = "start" BY EndKeeps
<1> QED BY <1>1, EmptySeq DEF Begun, Readying

\* Being outdated is not a step.
LEMMA HeadOutdated ==
  ASSUME NEW q \in Seq(Operation)
  PROVE  (Begun(Outdated(q)) <=> Begun(q)) /\ (Readying(Outdated(q)) <=> Readying(q))
<1> DEFINE r == Outdated(q)
<1>1. /\ Advances(q, r) /\ (q = <<>> <=> r = <<>>)
      /\ \A i \in 1..Len(q) : r[i].step = q[i].step
  BY OutdatedAdvances
<1> HIDE DEF r
<1>2. q # <<>> => 1 \in 1..Len(q) BY EmptySeq
<1>3. Begun(r) <=> Begun(q) BY <1>1, <1>2 DEF Begun, Advances
<1>4. Readying(r) <=> Readying(q) BY <1>1, <1>2 DEF Readying, Advances
<1> QED BY <1>3, <1>4 DEF r

\* Which steps may turn the model off.
LEMMA SettingsTurned ==
  ASSUME [Next]_vars
  PROVE  BindReads \/ Disables \/ Restores \/ Persists \/ UNCHANGED settings
         \/ settings' = [settings EXCEPT !.enabled = TRUE, !.previous = selection]
<1>1. CASE Lifecycle
  BY <1>1 DEF Lifecycle, PreparePersists, PrepareReleases, PrepareTears, RetryBegins, Refuses,
      BindRestricts, FollowRestricts,
      BindConfigures, BindSession, BindLoses, ReadyStarts, ReadyRefreshes, ReadyAnswers, PersistRuns
<1>2. CASE Requested
  BY <1>2 DEF Requested, BalanceAnswers, WritesNothing, WritesEnabled, WritesSelection, Selects
<1>3. CASE Answer \/ Switching \/ User
  BY <1>3 DEF Answer, CheckAnswers, MintAnswers, Switching, OpenAnswers, Reverts, User, StartSwitch,
      SessionChanges, Registers, Told, Ask, PolicyChanges, Retry, Mints, Invalidate, ChooseModel
<1>4. CASE UNCHANGED vars BY <1>4 DEF vars
<1> QED BY <1>1, <1>2, <1>3, <1>4 DEF Next

\* What remains registered is served, or was registered and a release of it fails.
LEMMA AdapterFollows ==
  ASSUME TypeInv, Remembers, [Next]_vars, faults' <= 1,
         adapter # {} => settings.enabled \/ Lingers
  PROVE  adapter' # {} => settings'.enabled \/ Lingers'
<1> SUFFICES ASSUME adapter' # {}, ~settings'.enabled PROVE Lingers' OBVIOUS
<1>t. /\ queue \in Seq(Operation) /\ Suits(queue, request) /\ settings \in Settings /\ faults \in Nat
      /\ request \in Request \cup {None}
  BY ConstantsAssumption DEF TypeInv, TypeOK
<1>h. queue # <<>> => /\ Head(queue) = queue[1] /\ 1 \in 1..Len(queue)
                      /\ Head(queue).kind \in Own => request # None /\ request.at = Head(queue).kind
  <2>1. queue # <<>> => Head(queue) = queue[1] /\ 1 \in 1..Len(queue) BY <1>t, TailProps
  <2> QED BY <2>1, <1>t DEF Suits
<1>f. /\ Throws => Fails
      /\ \A b : PublishFails(b) => Fails
      /\ Fails => faults = 0 /\ faults' = 1
      /\ faults' \in Nat /\ faults' >= faults
  <2>1. faults' = faults \/ faults' = faults + 1 BY BoundsMove DEF Works, Fails
  <2> QED BY <2>1, <1>t, ThrowingFails DEF Fails
<1>s. ~Syncs /\ ~Serves
  <2>1. ~Serves BY DEF Serves
  <2> QED BY <2>1, Synchronized
<1>p. \A b : ~Publishes(b) BY <1>s DEF Publishes
\* The release throws while the model is turned off.
<1>1. CASE settings.enabled
  <2>1. CASE BindReads
    <3>1. /\ queue # <<>> /\ Head(queue).kind \in Binds
          /\ Goes(IF Restricted THEN "restrict" ELSE "apply") /\ Throws
      BY <1>1, <2>1, <1>s DEF BindReads, Running, Follows, Binds
    <3> DEFINE s == IF Restricted THEN "restrict" ELSE "apply"
    <3>2. s \in {"restrict", "apply"} /\ s \in StepNames BY DEF StepNames
    <3>3. Goes(s) BY <3>1
    <3> HIDE DEF s
    <3>4. Advances(queue, queue') /\ queue' # <<>> /\ queue'[1].step = s
      BY <3>1, <3>2, <3>3, <1>t, GoesAdvances DEF Goes
    <3>5. queue'[1].kind \in Binds BY <3>1, <3>4, <1>h DEF Advances
    <3>6. Begun(queue') /\ ~Readying(queue') BY <3>2, <3>4, <3>5 DEF Begun, Readying
    <3> QED BY <3>1, <3>6, <1>f DEF Lingers
  <2>2. CASE Disables
    <3>1. Steps("restore") /\ Throws /\ request # None BY <1>1, <2>2, <1>s DEF Disables, At
    <3>2. request' = [request EXCEPT !.at = "restore"] BY <3>1 DEF Steps
    <3>3. request \in Request BY <3>1, <1>t
    <3>4. request' \in Request /\ request'.at = "restore" BY <3>2, <3>3 DEF Request
    <3>5. At("restore")' BY <3>4, NoneIsNoRecord DEF At
    <3> QED BY <3>1, <3>5, <1>f DEF Lingers
  <2>3. CASE Restores
    <3>1. request # None /\ faults >= 1 BY <2>3 DEF Restores, At, Remembers
    <3>2. ~Fails BY <3>1, <1>f
    <3> QED BY <2>3, <3>2, <1>f, <1>s DEF Restores, Follows
  <2>4. CASE Persists \/ UNCHANGED settings \/ settings' = [settings EXCEPT !.enabled = TRUE, !.previous = selection]
    BY <1>1, <2>4, <1>t DEF Persists, Settings
  <2>5. BindReads \/ Disables \/ Restores \/ Persists \/ UNCHANGED settings
        \/ settings' = [settings EXCEPT !.enabled = TRUE, !.previous = selection]
    BY SettingsTurned
  <2> QED BY <2>1, <2>2, <2>3, <2>4, <2>5
\* What had to be made up for still has to be.
<1>2. CASE ~settings.enabled
  <2>1. adapter # {}
    <3>1. CASE adapter = {}
      <4>1. ~Tears BY <3>1 DEF Tears
      <4>2. ~Throws BY <3>1, <4>1, <1>s DEF Throws
      <4> QED BY <3>1, <4>1, <4>2, <1>s, AdapterMoves DEF registered, Reverts
    <3> QED BY <3>1
  <2>2. Lingers BY <2>1, <1>2
  <2>3. faults >= 1 /\ faults' >= 1 /\ ~Fails
    <3>1. faults >= 1 BY <2>2 DEF Lingers
    <3> QED BY <3>1, <1>f, <1>t
  <2>4. ~Throws /\ ~Tears /\ \A b : ~PublishFails(b) BY <2>3, <1>f DEF Tears
  <2>5. CASE Begun(queue) /\ ~Readying(queue)
    <3>1. /\ queue # <<>> /\ Head(queue).kind \in Binds
          /\ Head(queue).step \notin {"start", "reads", "ready", "wait"}
      BY <2>5, <1>h DEF Begun, Readying
    <3>2. CASE BindConfigures
      <4>1. Goes("session") BY <3>2 DEF BindConfigures
      <4>2. Advances(queue, queue') /\ queue' # <<>> /\ queue'[1].step = "session"
        BY <3>1, <4>1, <1>t, GoesAdvances DEF Goes, StepNames
      <4>3. queue'[1].kind \in Binds BY <3>1, <4>2, <1>h DEF Advances
      <4> QED BY <2>3, <4>2, <4>3 DEF Lingers, Begun, Readying
    <3>3. CASE UNCHANGED queue \/ queue' = Outdated(queue) \/ \E k \in Kinds : Enters(k)
      <4>1. CASE UNCHANGED queue BY <2>3, <2>5, <4>1 DEF Lingers
      <4>2. CASE queue' = Outdated(queue) BY <2>3, <2>5, <4>2, <1>t, HeadOutdated DEF Lingers
      <4>3. CASE \E k \in Kinds : Enters(k) BY <2>3, <2>5, <4>3, <1>t, HeadEntered DEF Lingers, Enters
      <4> QED BY <3>3, <4>1, <4>2, <4>3
    <3>4. BindConfigures \/ UNCHANGED queue \/ queue' = Outdated(queue) \/ \E k \in Kinds : Enters(k)
      <4>1. CASE Lifecycle
        <5>1. "persist" \notin Binds /\ "prepare" \notin Binds /\ "ready" \notin Binds BY DEF Binds
        <5> QED BY <4>1, <5>1, <3>1, <2>3, <2>4, <1>s, <1>p
            DEF Lifecycle, PreparePersists, PrepareReleases, PrepareTears, RetryBegins, BindReads, Refuses,
                BindRestricts, FollowRestricts, BindSession, BindLoses, ReadyStarts, ReadyRefreshes,
                ReadyAnswers, PersistRuns, Running
      <4>2. CASE Requested
        BY <4>2 DEF Requested, BalanceAnswers, WritesNothing, WritesEnabled, WritesSelection, Selects,
            Disables, Restores, Persisting, Kinds
      <4>3. CASE Answer
        BY <4>3, <2>4 DEF Answer, CheckAnswers, MintAnswers
      <4>4. CASE Switching \/ User
        BY <4>4 DEF Switching, OpenAnswers, Reverts, User, StartSwitch, SessionChanges, Registers, Told, Ask,
            PolicyChanges, Retry, Mints, Invalidate, ChooseModel, Kinds
      <4>5. CASE UNCHANGED vars BY <4>5 DEF vars
      <4> QED BY <4>1, <4>2, <4>3, <4>4, <4>5 DEF Next
    <3> QED BY <3>2, <3>3, <3>4
  <2>6. CASE At("restore")
    <3>1. queue # <<>> => Head(queue).kind \notin Own BY <2>6, <1>h DEF At, Own
    <3>2. ~Restores BY <2>3, <2>4, <1>s DEF Restores, Follows
    <3>3. UNCHANGED request
      <4>1. CASE Lifecycle
        <5>1. Binds \cap Own = {} /\ "persist" \in Own /\ "ready" \in Own BY DEF Binds, Own
        <5> QED BY <4>1, <5>1, <3>1
            DEF Lifecycle, PreparePersists, PrepareReleases, PrepareTears, RetryBegins, BindReads, Refuses,
                BindRestricts, FollowRestricts, BindConfigures, BindSession, BindLoses, ReadyStarts,
                ReadyRefreshes, ReadyAnswers, PersistRuns, Known, Gives, Running
      <4>2. CASE Requested
        BY <4>2, <3>2, <2>6 DEF Requested, BalanceAnswers, WritesNothing, WritesEnabled, WritesSelection,
            Selects, Disables, At
      <4>3. CASE Answer
        BY <4>3, <2>4 DEF Answer, CheckAnswers, MintAnswers
      <4>4. CASE Switching \/ User
        BY <4>4, <2>6 DEF Switching, OpenAnswers, Reverts, User, StartSwitch, SessionChanges, Registers, Told,
            Ask, PolicyChanges, Retry, Mints, Invalidate, ChooseModel, At
      <4>5. CASE UNCHANGED vars BY <4>5 DEF vars
      <4> QED BY <4>1, <4>2, <4>3, <4>4, <4>5 DEF Next
    <3> QED BY <3>3, <2>3, <2>6 DEF Lingers, At
  <2> QED BY <2>2, <2>5, <2>6 DEF Lingers
<1> QED BY <1>1, <1>2

\* While a request runs, nothing but the request, its operation, answers and the session move.
LEMMA AloneMoves ==
  ASSUME TypeInv, Singly, Apart, request # None, [Next]_vars
  PROVE  \/ ReadyStarts \/ ReadyRefreshes \/ ReadyAnswers \/ PersistRuns \/ Requested
         \/ \E b \in BOOLEAN : SessionChanges(b)
         \/ \E m \in AnyModel : m # Hosted /\ ChooseModel(m)
         \/ \E c \in checks : CheckAnswers(c)
         \/ UNCHANGED <<host, settings, selection, bound, queue, request>>
<1>t. queue \in Seq(Operation) /\ host.phase = "rest" /\ \A i \in 1..Len(queue) : queue[i].kind \in Own
  BY DEF TypeInv, TypeOK, Singly
<1>1. queue # <<>> => Head(queue).kind \in Own
  <2>1. queue # <<>> => Head(queue) = queue[1] /\ 1 \in 1..Len(queue) BY <1>t, TailProps
  <2> QED BY <2>1, <1>t
<1>2. CASE Lifecycle
  BY <1>1, <1>2 DEF Lifecycle, PreparePersists, PrepareReleases, PrepareTears, RetryBegins, BindReads, Refuses,
      BindRestricts, FollowRestricts, BindConfigures, BindSession, BindLoses, Running, Own, Binds
<1>3. CASE Answer
  BY <1>3 DEF Answer, MintAnswers
<1>4. CASE Switching BY <1>4, <1>t DEF Switching, OpenAnswers, Reverts
<1>5. CASE User
  BY <1>5, <1>t DEF User, StartSwitch, Registers, Ask, PolicyChanges, Retry, Mints, Invalidate, ChooseModel, Alone, Calm
<1>6. CASE UNCHANGED vars BY <1>6 DEF vars
<1> QED BY <1>2, <1>3, <1>4, <1>5, <1>6 DEF Next

\* The environment and the binding stay while a request runs, and the queue is its own.
LEMMA AloneStays ==
  ASSUME TypeInv, Singly, Apart, request # None, [Next]_vars
  PROVE  /\ host'.phase = "rest" /\ host'.tenant = host.tenant /\ bound' = bound
         /\ Singly' /\ ~Begun(queue') /\ ~Readying(queue')
<1>t. /\ queue \in Seq(Operation) /\ Waits(queue) /\ host \in Switch /\ request \in Request
      /\ host.phase = "rest" /\ \A i \in 1..Len(queue) : queue[i].kind \in Own
  BY DEF TypeInv, TypeOK, Singly
<1>h. queue # <<>> => Head(queue) = queue[1] /\ 1 \in 1..Len(queue) /\ Head(queue).kind \in Own
  BY <1>t, TailProps
<1>k. ASSUME host'.phase = host.phase, host'.tenant = host.tenant, UNCHANGED bound,
             queue' \in Seq(Operation), \A i \in 1..Len(queue') : queue'[i].kind \in Own
      PROVE  /\ host'.phase = "rest" /\ host'.tenant = host.tenant /\ bound' = bound
             /\ Singly' /\ ~Begun(queue') /\ ~Readying(queue')
  <2>1. queue' # <<>> => queue'[1].kind \in Own BY <1>k, EmptySeq
  <2> QED BY <2>1, <1>k, <1>t DEF Singly, Begun, Readying, Own, Binds
<1>a. ASSUME Advances(queue, queue') PROVE queue' \in Seq(Operation) /\ \A i \in 1..Len(queue') : queue'[i].kind \in Own
  BY <1>a, <1>t DEF Advances
<1>b. ASSUME queue # <<>>, queue' \in {Tail(queue), Outdated(Tail(queue))}
      PROVE  queue' \in Seq(Operation) /\ \A i \in 1..Len(queue') : queue'[i].kind \in Own
  <2>1. /\ Tail(queue) \in Seq(Operation)
        /\ \A i \in 1..Len(Tail(queue)) : Tail(queue)[i].kind \in Own
    BY <1>b, <1>t, TailProps
  <2>2. Advances(Tail(queue), Outdated(Tail(queue))) BY <2>1, OutdatedAdvances
  <2> QED BY <2>1, <2>2, <1>b DEF Advances
<1>c. ASSUME Enters("persist")
      PROVE  queue' \in Seq(Operation) /\ \A i \in 1..Len(queue') : queue'[i].kind \in Own
  <2>1. "persist" \in Kinds /\ "persist" \in Own BY DEF Kinds, Own
  <2>2. /\ queue' \in Seq(Operation) /\ Len(queue') = Len(queue) + 1 /\ Len(queue) \in Nat
        /\ \A i \in 1..Len(queue) : queue'[i] = queue[i]
        /\ queue'[Len(queue) + 1].kind = "persist"
    BY <1>c, <2>1, <1>t, EntersProps DEF Enters
  <2> QED BY <2>1, <2>2, <1>t
<1>1. CASE ReadyStarts
  <2>1. queue # <<>> /\ Goes("ready") /\ UNCHANGED <<host, bound>> BY <1>1 DEF ReadyStarts, Running
  <2>2. Advances(queue, queue') BY <2>1, <1>t, GoesAdvances DEF Goes, StepNames
  <2> QED BY <2>1, <2>2, <1>a, <1>k
<1>2. CASE ReadyRefreshes
  <2>1. queue # <<>> /\ UNCHANGED bound BY <1>2 DEF ReadyRefreshes, Running
  <2>2. Head(queue).kind \in Own BY <2>1, <1>h
  <2>3. \/ UNCHANGED host /\ (Goes("wait") \/ GoesOutdated("wait"))
        \/ UNCHANGED host /\ queue' \in {Tail(queue), Outdated(Tail(queue))}
    BY <1>2, <2>1, <2>2 DEF ReadyRefreshes, Running, Own, Binds, Gives
  <2>4. Goes("wait") \/ GoesOutdated("wait") => Advances(queue, queue')
    BY <2>1, <1>t, GoesAdvances DEF Goes, GoesOutdated, StepNames
  <2> QED BY <2>1, <2>3, <2>4, <1>a, <1>b, <1>k
<1>3. CASE ReadyAnswers
  <2>1. queue # <<>> /\ UNCHANGED bound /\ queue' = Tail(queue) BY <1>3 DEF ReadyAnswers, Running, Known
  <2>2. Head(queue).kind \in Own BY <2>1, <1>h
  <2>3. UNCHANGED host BY <1>3, <2>2 DEF ReadyAnswers, Known, Own, Binds
  <2> QED BY <2>1, <2>3, <1>b, <1>k
<1>4. CASE PersistRuns
  <2>1. queue # <<>> /\ UNCHANGED <<host, bound>> /\ queue' = Tail(queue) BY <1>4 DEF PersistRuns, Running
  <2> QED BY <2>1, <1>b, <1>k
<1>5. CASE Requested
  <2>1. UNCHANGED <<host, bound>> /\ (UNCHANGED queue \/ Enters("persist"))
    BY <1>5 DEF Requested, BalanceAnswers, WritesNothing, WritesEnabled, WritesSelection, Selects, Disables, Restores, Persisting
  <2> QED BY <2>1, <1>t, <1>c, <1>k
<1>6. CASE \E b \in BOOLEAN : SessionChanges(b)
  <2>1. /\ \E b \in BOOLEAN : host' = [host EXCEPT !.active = b]
        /\ UNCHANGED bound /\ queue' = Outdated(queue)
    BY <1>6 DEF SessionChanges, Told
  <2>2. host'.phase = host.phase /\ host'.tenant = host.tenant BY <2>1, <1>t DEF Switch
  <2>3. Advances(queue, queue') BY <2>1, <1>t, OutdatedAdvances
  <2> QED BY <2>1, <2>2, <2>3, <1>a, <1>k
<1>7. CASE \E m \in AnyModel : ChooseModel(m)
  <2>1. UNCHANGED <<host, bound, queue>> BY <1>7 DEF ChooseModel
  <2> QED BY <2>1, <1>t, <1>k
<1>8. CASE \E c \in checks : CheckAnswers(c)
  <2>1. /\ UNCHANGED bound
        /\ \/ UNCHANGED <<host, queue>>
           \/ queue # <<>> /\ queue' = Tail(queue) /\ Gives(FALSE) /\ Head(queue).kind \in Binds \cup {"ready"}
    BY <1>8 DEF CheckAnswers, Running
  <2>2. queue # <<>> /\ Head(queue).kind \in Binds \cup {"ready"} => Head(queue).kind = "ready"
    BY <1>h DEF Own, Binds
  <2>3. CASE UNCHANGED <<host, queue>> BY <2>1, <2>3, <1>t, <1>k
  <2>4. CASE queue # <<>> /\ queue' = Tail(queue) /\ Gives(FALSE) /\ Head(queue).kind \in Binds \cup {"ready"}
    <3>1. UNCHANGED host BY <2>2, <2>4 DEF Gives
    <3> QED BY <2>1, <2>4, <3>1, <1>b, <1>k
  <2> QED BY <2>1, <2>3, <2>4
<1>9. CASE UNCHANGED <<host, settings, selection, bound, queue, request>> BY <1>9, <1>t, <1>k
<1> QED BY <1>1, <1>2, <1>3, <1>4, <1>5, <1>6, <1>7, <1>8, <1>9, AloneMoves
\* What a request changes is undone by itself, and nobody else changes it meanwhile.
LEMMA AloneIntent ==
  ASSUME Core, Singly, Apart, Intent, request # None, [Next]_vars, faults' <= 1
  PROVE  Intent'
<1>t. /\ TypeInv /\ host \in Switch /\ request \in Request /\ settings \in Settings
      /\ selection \in AnyModel /\ bound \in Tenants /\ host.phase = "rest" /\ faults \in Nat
      /\ request.settings \in Settings /\ request.enable \in BOOLEAN /\ None \notin Request
  BY ConstantsAssumption, NoneIsNoRecord DEF Core, TypeInv, TypeOK, Singly, Request
<1>s. /\ host'.phase = "rest" /\ host'.tenant = host.tenant /\ bound' = bound
      /\ Singly' /\ ~Begun(queue') /\ ~Readying(queue')
  BY <1>t, AloneStays
<1>f. /\ faults' = faults \/ faults' = faults + 1
      /\ Fails => faults = 0 /\ faults' = 1
      /\ Throws => Fails
  BY <1>t, BoundsMove, ThrowingFails DEF Works, Fails
<1>i. /\ bound = host.tenant
      /\ ~Writing => settings.enabled = settings.stored[bound].enabled
      /\ selection = Hosted => settings.enabled
      /\ adapter' # {} => settings'.enabled \/ Lingers'
      /\ settings.previous # Hosted
      /\ \A t \in Tenants : settings.stored[t] # NoPreference => settings.stored[t].previous # Hosted
      /\ request.tenant = bound
      /\ request.at \in Written =>
           /\ request.settings.stored = settings.stored
           /\ request.settings.enabled = settings.stored[bound].enabled
           /\ request.settings.previous # Hosted
           /\ request.selection = Hosted => request.settings.enabled
      /\ request.at = "disable" => selection # Hosted
      /\ request.at = "select" => settings.enabled
      /\ request.at = "restore" => faults >= 1
  <2>1. adapter' # {} => settings'.enabled \/ Lingers' BY <1>t, AdapterFollows DEF Intent, Turned
  <2> QED BY <1>t, <2>1 DEF Intent, Here, Settled, Turned, Remembers, Placed
<1> DEFINE Ats == {"ready", "balance", "write", "select", "disable", "persist", "restore"}
           Goto(s) == [request EXCEPT !.at = s]
           Capture(s) == [request EXCEPT !.at = s, !.settings = settings, !.selection = selection]
<1>r. ASSUME NEW s \in Ats
      PROVE  /\ Goto(s) # None /\ Goto(s).at = s /\ Goto(s).tenant = request.tenant
             /\ Goto(s).settings = request.settings /\ Goto(s).selection = request.selection
             /\ Capture(s) # None /\ Capture(s).at = s /\ Capture(s).tenant = request.tenant
             /\ Capture(s).settings = settings /\ Capture(s).selection = selection
  <2>1. Goto(s) \in Request /\ Capture(s) \in Request BY <1>t DEF Request
  <2>2. Goto(s) # None /\ Capture(s) # None BY <2>1, <1>t
  <2> QED BY <2>2, <1>t DEF Request
\* What has to be shown of a step.
<1>k. ASSUME ~Writing' => settings'.enabled = settings'.stored[bound].enabled,
             selection' = Hosted => settings'.enabled,
             settings'.previous # Hosted,
             \A t \in Tenants : settings'.stored[t] # NoPreference => settings'.stored[t].previous # Hosted,
             Remembers'
      PROVE  Intent'
  <2>1. Here' BY <1>s, <1>i DEF Here
  <2>2. Settled' BY <1>s, <1>k DEF Settled
  <2>3. Turned' BY <1>s, <1>i, <1>k DEF Turned, Away
  <2> QED BY <2>1, <2>2, <2>3, <1>k DEF Intent
\* The request goes on before it writes, or is over.
<1>p. ASSUME UNCHANGED <<settings, selection>>, request.at \notin Written,
             request' = None \/ (request'.tenant = request.tenant /\ request'.at \notin Written)
      PROVE  Intent'
  <2>1. Remembers' BY <1>p, <1>s, <1>i DEF Remembers, Written
  <2>2. ~Writing BY <1>p DEF Writing
  <2>3. Intent' BY <2>1, <2>2, <1>p, <1>k, <1>i
  <2> QED BY <2>3, <1>p
\* The state is captured, and the first change made.
<1>c. ASSUME NEW s \in Written, Captures(s), settings'.stored = settings.stored,
             request.at = "write", settings'.previous # Hosted,
             selection' = Hosted => settings'.enabled,
             s = "disable" => selection' # Hosted, s = "select" => settings'.enabled,
             s = "restore" => Fails
      PROVE  Intent'
  <2>1. settings.enabled = settings.stored[bound].enabled BY <1>c, <1>i DEF Writing, Written
  <2>2. /\ request'.at = s /\ request'.tenant = request.tenant /\ request'.settings = settings
        /\ request'.selection = selection /\ request' # None
    <3>1. s \in Ats BY <1>c DEF Written
    <3>2. request' = Capture(s) BY <1>c DEF Captures
    <3> HIDE DEF Capture, Goto, Ats
    <3> QED BY <3>1, <3>2, <1>r
  <2>3. Remembers'
    <3>1. s = "restore" => faults' >= 1 BY <1>c, <1>f
    <3> QED BY <2>1, <2>2, <3>1, <1>c, <1>s, <1>i DEF Remembers
  <2>4. Writing' BY <2>2 DEF Writing
  <2>5. Intent' BY <2>3, <2>4, <1>c, <1>i, <1>k
  <2> QED BY <2>5, <1>c
\* The request makes its next change.
<1>n. ASSUME NEW s \in {"persist", "restore"}, Steps(s), settings'.stored = settings.stored,
             request.at \in Written, settings'.previous # Hosted,
             selection' = Hosted => settings'.enabled, s = "restore" => Fails
      PROVE  Intent'
  <2>1. /\ request'.at = s /\ request'.tenant = request.tenant /\ request'.settings = request.settings
        /\ request'.selection = request.selection /\ request' # None
    BY <1>n, <1>r DEF Steps
  <2>2. Remembers'
    <3>1. s = "restore" => faults' >= 1 BY <1>n, <1>f
    <3> QED BY <2>1, <3>1, <1>n, <1>s, <1>i DEF Remembers
  <2>3. Writing' BY <2>1, <1>n DEF Writing, Written
  <2>4. Intent' BY <2>2, <2>3, <1>n, <1>i, <1>k
  <2> QED BY <2>4, <1>n
\* The model that is selected is another.
<1>m. ASSUME UNCHANGED <<settings, request>>, selection' # Hosted PROVE Intent'
  <2>1. Remembers' BY <1>m, <1>s, <1>i, <1>f, <1>t DEF Remembers
  <2>2. ~Writing' => ~Writing BY <1>m DEF Writing
  <2>3. Intent' BY <2>1, <2>2, <1>m, <1>k, <1>i
  <2> QED BY <2>3, <1>m
\* Nothing that matters moves.
<1>u. ASSUME UNCHANGED <<settings, selection, request>> PROVE Intent'
  <2>1. Remembers' BY <1>u, <1>s, <1>i, <1>f, <1>t DEF Remembers
  <2>2. ~Writing' => ~Writing BY <1>u DEF Writing
  <2>3. Intent' BY <2>1, <2>2, <1>u, <1>k, <1>i
  <2> QED BY <2>3, <1>u
<1>h. /\ queue # <<>> => Head(queue).kind \in Own /\ request.at = Head(queue).kind
      /\ Restored # Hosted
  <2>1. queue # <<>> => Head(queue) = queue[1] /\ 1 \in 1..Len(queue) BY TailProps DEF Core, TypeInv, TypeOK
  <2>2. queue # <<>> => Head(queue).kind \in Own BY <2>1 DEF Singly
  <2>3. Restored # Hosted BY <1>i DEF Restored
  <2> QED BY <2>1, <2>2, <2>3 DEF Core, TypeInv, Suits
<1>1. CASE ReadyStarts
  <2>1. UNCHANGED <<settings, selection, request>> BY <1>1 DEF ReadyStarts
  <2> QED BY <2>1, <1>u
<1>2. CASE ReadyRefreshes
  <2>1. queue # <<>> /\ UNCHANGED settings /\ (Head(queue).kind = "persist" => FALSE)
    BY <1>2 DEF ReadyRefreshes, Running, Binds
  <2>2. request.at \notin Written BY <2>1, <1>h DEF Own, Written
  <2>3. UNCHANGED selection /\ (UNCHANGED request \/ request' = None) BY <1>2 DEF ReadyRefreshes, Gives
  <2> QED BY <2>1, <2>2, <2>3, <1>p
<1>3. CASE ReadyAnswers
  <2>1. /\ queue # <<>> /\ UNCHANGED settings /\ Head(queue).kind = "ready"
    BY <1>3, <1>h DEF ReadyAnswers, Running, Binds, Own
  <2>2. request.at \notin Written BY <2>1, <1>h DEF Written
  <2>3. /\ UNCHANGED selection
        /\ request' = None \/ request' = [request EXCEPT !.at = "balance"] \/ request' = [request EXCEPT !.at = "write"]
    BY <1>3, <2>1 DEF ReadyAnswers, Known, Binds
  <2>4. request' = None \/ (request'.tenant = request.tenant /\ request'.at \notin Written)
    <3>1. "balance" \in Ats /\ "write" \in Ats OBVIOUS
    <3>2. request' = None \/ request' = Goto("balance") \/ request' = Goto("write") BY <2>3
    <3> HIDE DEF Capture, Goto, Ats
    <3> QED BY <3>1, <3>2, <1>r DEF Written
  <2> QED BY <2>1, <2>2, <2>3, <2>4, <1>p
<1>4. CASE PersistRuns
  <2>1. queue # <<>> /\ request.at = "persist" /\ UNCHANGED selection
    BY <1>4, <1>h DEF PersistRuns, Running
  <2>2. CASE Persists /\ request' = None
    <3> DEFINE p == [enabled |-> settings.enabled, previous |-> settings.previous]
    <3>1. /\ settings'.enabled = settings.enabled /\ settings'.previous = settings.previous
          /\ settings'.stored = [settings.stored EXCEPT ![bound] = p]
      BY <2>2, <1>t DEF Persists, Settings
    <3>2. \A t \in Tenants : settings'.stored[t] = IF t = bound THEN p ELSE settings.stored[t]
      BY <3>1, <1>t DEF Settings
    <3>3. settings'.stored[bound].enabled = settings.enabled BY <3>2, <1>t
    <3>4. \A t \in Tenants : settings'.stored[t] # NoPreference => settings'.stored[t].previous # Hosted BY <3>2, <1>i
    <3>6. Remembers' BY <2>2 DEF Remembers
    <3> HIDE DEF p
    <3>7. Intent' BY <3>1, <3>3, <3>4, <3>6, <2>1, <1>i, <1>k
    <3> QED BY <3>7
  <2>3. CASE UNCHANGED settings /\ Steps("restore") /\ Fails
    BY <2>1, <2>3, <1>n, <1>i DEF Written
  <2> QED BY <1>4, <2>2, <2>3 DEF PersistRuns
<1>5. CASE BalanceAnswers
  <2>1. request.at = "balance" /\ UNCHANGED <<settings, selection>> /\ (Steps("write") \/ request' = None)
    BY <1>5 DEF BalanceAnswers, At
  <2>2. request' = None \/ (request'.tenant = request.tenant /\ request'.at \notin Written)
    <3>1. "write" \in Ats OBVIOUS
    <3>2. request' = None \/ request' = Goto("write") BY <2>1 DEF Steps
    <3> HIDE DEF Capture, Goto, Ats
    <3> QED BY <3>1, <3>2, <1>r DEF Written
  <2> QED BY <2>1, <2>2, <1>p DEF Written
<1>6. CASE WritesNothing
  <2>1. request.at = "write" /\ request.enable = settings.enabled /\ UNCHANGED settings
    BY <1>6 DEF WritesNothing, At
  <2>2. CASE selection' = (IF request.enable THEN Hosted ELSE selection) /\ Captures("persist")
    <3>1. selection' = Hosted => settings.enabled BY <2>1, <2>2, <1>i
    <3> QED BY <2>1, <2>2, <3>1, <1>c, <1>i DEF Written
  <2>3. CASE UNCHANGED selection /\ Captures("restore") /\ Fails
    BY <2>1, <2>3, <1>c, <1>i DEF Written
  <2> QED BY <1>6, <1>f, <2>2, <2>3 DEF WritesNothing
<1>7. CASE WritesEnabled
  <2>1. request.at = "write" /\ ~settings.enabled /\ UNCHANGED selection /\ selection # Hosted
    BY <1>7, <1>i DEF WritesEnabled, At
  <2>2. CASE /\ settings' = [settings EXCEPT !.enabled = TRUE, !.previous = selection]
             /\ Captures("select") \/ (Captures("restore") /\ Fails)
    <3>1. settings'.enabled = TRUE /\ settings'.previous = selection /\ settings'.stored = settings.stored
      BY <2>2, <1>t DEF Settings
    <3>2. CASE Captures("select") BY <2>1, <3>1, <3>2, <1>c DEF Written
    <3>3. CASE Captures("restore") /\ Fails BY <2>1, <3>1, <3>3, <1>c DEF Written
    <3> QED BY <2>2, <3>2, <3>3
  <2>3. CASE UNCHANGED settings /\ Captures("restore") /\ Fails
    BY <2>1, <2>3, <1>c, <1>i DEF Written
  <2> QED BY <1>7, <1>f, <2>2, <2>3 DEF WritesEnabled
<1>8. CASE WritesSelection
  <2>1. request.at = "write" /\ UNCHANGED settings BY <1>8 DEF WritesSelection, At
  <2>2. CASE selection' = Restored /\ Captures("disable")
    BY <2>1, <2>2, <1>c, <1>h, <1>i DEF Written
  <2>3. CASE UNCHANGED selection /\ Captures("restore") /\ Fails
    BY <2>1, <2>3, <1>c, <1>i DEF Written
  <2> QED BY <1>8, <2>2, <2>3 DEF WritesSelection
<1>9. CASE Selects
  <2>1. request.at = "select" /\ UNCHANGED settings BY <1>9 DEF Selects, At
  <2>2. CASE selection' = Hosted /\ Persisting
    <3>1. settings.enabled BY <2>1, <1>i
    <3> QED BY <2>1, <2>2, <3>1, <1>n, <1>i DEF Written, Persisting
  <2>3. CASE UNCHANGED selection /\ Steps("restore") /\ Fails
    BY <2>1, <2>3, <1>n, <1>i DEF Written
  <2> QED BY <1>9, <2>2, <2>3 DEF Selects
<1>10. CASE Disables
  <2>1. request.at = "disable" /\ UNCHANGED selection /\ selection # Hosted BY <1>10, <1>i DEF Disables, At
  <2>2. CASE /\ settings' = [settings EXCEPT !.enabled = FALSE]
             /\ Persisting \/ (Steps("restore") /\ Fails)
    <3>1. settings'.previous = settings.previous /\ settings'.stored = settings.stored
      BY <2>2, <1>t DEF Settings
    <3>2. CASE Persisting BY <2>1, <3>1, <3>2, <1>n, <1>i DEF Written, Persisting
    <3>3. CASE Steps("restore") /\ Fails BY <2>1, <3>1, <3>3, <1>n, <1>i DEF Written
    <3> QED BY <2>2, <3>2, <3>3
  <2>3. CASE UNCHANGED settings /\ Steps("restore") /\ Fails
    BY <2>1, <2>3, <1>n, <1>i DEF Written
  <2> QED BY <1>10, <1>f, <2>2, <2>3 DEF Disables
<1>11. CASE Restores
  <2>1. request.at = "restore" /\ request' = None BY <1>11 DEF Restores, At
  <2>2. ~Fails BY <2>1, <1>f, <1>i, <1>t
  <2>3. settings' = request.settings /\ selection' = request.selection BY <1>11, <2>2 DEF Restores
  <2>4. Remembers' BY <2>1 DEF Remembers
  <2>5. settings'.stored = settings.stored BY <2>1, <2>3, <1>i DEF Written
  <2>6. Intent' BY <2>1, <2>3, <2>4, <2>5, <1>i, <1>k DEF Written
  <2> QED BY <2>6
<1>12. CASE \E b \in BOOLEAN : SessionChanges(b)
  <2>1. UNCHANGED <<settings, selection, request>> BY <1>12 DEF SessionChanges, Told
  <2> QED BY <2>1, <1>u
<1>13. CASE \E m \in AnyModel : m # Hosted /\ ChooseModel(m)
  <2>1. UNCHANGED <<settings, request>> /\ selection' # Hosted BY <1>13 DEF ChooseModel
  <2> QED BY <2>1, <1>m
<1>14. CASE \E c \in checks : CheckAnswers(c)
  <2>1. /\ UNCHANGED <<settings, selection>>
        /\ \/ UNCHANGED request
           \/ queue # <<>> /\ Gives(FALSE) /\ Head(queue).kind \in Binds \cup {"ready"}
    BY <1>14 DEF CheckAnswers, Running
  <2>2. CASE UNCHANGED request BY <2>1, <2>2, <1>u
  <2>3. CASE queue # <<>> /\ Gives(FALSE) /\ Head(queue).kind \in Binds \cup {"ready"}
    <3>1. Head(queue).kind = "ready" BY <2>3, <1>h DEF Own, Binds
    <3>2. request.at \notin Written /\ request' = None BY <2>3, <3>1, <1>h DEF Gives, Written
    <3> QED BY <2>1, <3>2, <1>p
  <2> QED BY <2>1, <2>2, <2>3
<1>15. CASE UNCHANGED <<host, settings, selection, bound, queue, request>>
  BY <1>15, <1>u
<1> QED
  BY <1>1, <1>2, <1>3, <1>4, <1>5, <1>6, <1>7, <1>8, <1>9, <1>10, <1>11, <1>12, <1>13, <1>14, <1>15, <1>t, AloneMoves
  DEF Requested
\* Without a request a switch and the bindings move, and a request begins where all is calm.
LEMMA SinglyStep == ASSUME Core, Singly, Apart, [Next]_vars PROVE Singly'
<1>1. CASE request # None BY <1>1, AloneStays DEF Core
<1>2. CASE request = None
  <2>t. queue \in Seq(Operation) /\ host \in Switch /\ Suits(queue, request)
    BY DEF Core, TypeInv, TypeOK
  <2>1. queue # <<>> => Head(queue).kind \notin Own
    <3>1. queue # <<>> => Head(queue) = queue[1] /\ 1 \in 1..Len(queue) BY <2>t, TailProps
    <3> QED BY <3>1, <2>t, <1>2 DEF Suits
  <2>2. CASE \E b \in BOOLEAN : Ask(b)
    <3>1. host.phase = "rest" /\ queue = <<>> /\ UNCHANGED host /\ queue' = Append(queue, New("ready"))
      BY <2>2 DEF Ask, Calm, Enters
    <3>2. "ready" \in Kinds /\ "ready" \in Own BY DEF Kinds, Own
    <3>3. /\ Len(queue') = 1 /\ queue'[1].kind = "ready"
      <4>1. Len(queue) = 0 BY <3>1
      <4>2. Len(queue') = Len(queue) + 1 /\ queue'[Len(queue) + 1].kind = "ready"
        BY <3>1, <3>2, <2>t, EntersProps
      <4> QED BY <4>1, <4>2
    <3> QED BY <3>1, <3>2, <3>3 DEF Singly
  <2>3. CASE ~\E b \in BOOLEAN : Ask(b)
    <3>1. request' = None
      <4>1. CASE Lifecycle
        BY <4>1, <2>1, <1>2 DEF Lifecycle, PreparePersists, PrepareReleases, PrepareTears, RetryBegins, BindReads,
          Refuses, BindRestricts, FollowRestricts, BindConfigures, BindSession, BindLoses, ReadyStarts,
          ReadyRefreshes, ReadyAnswers, PersistRuns, Known, Gives, Running, Own
      <4>2. CASE Requested
        BY <4>2, <1>2 DEF Requested, BalanceAnswers, WritesNothing, WritesEnabled, WritesSelection,
          Selects, Disables, Restores, At
      <4>3. CASE Answer \/ Switching \/ User
        BY <4>3, <2>3, <1>2 DEF Answer, CheckAnswers, Gives, MintAnswers, Switching, OpenAnswers, Reverts, User,
          StartSwitch, SessionChanges, Registers, Told, PolicyChanges, Retry, Mints, Invalidate, ChooseModel
      <4>4. CASE UNCHANGED vars BY <4>4, <1>2 DEF vars
      <4> QED BY <4>1, <4>2, <4>3, <4>4 DEF Next
    <3> QED BY <3>1 DEF Singly
  <2> QED BY <2>2, <2>3
<1> QED BY <1>1, <1>2

\* A binding finds what was stored, and a switch persists what is in force.
LEMMA OtherIntent ==
  ASSUME SwitchCore, Singly, Apart, Intent, request = None, [Next]_vars, faults' <= 1
  PROVE  Intent'
<1>t. /\ queue \in Seq(Operation) /\ Waits(queue) /\ Order(queue, host.phase) /\ Suits(queue, request)
      /\ host \in Switch /\ settings \in Settings /\ selection \in AnyModel /\ bound \in Tenants
      /\ host.tenant \in Tenants /\ config \in Service \cup {None} /\ faults \in Nat
      /\ host.phase \in {"rest", "prepare", "open", "commit", "revert", "rollback"}
      /\ settings.stored \in [Tenants -> Preference \cup {NoPreference}]
  BY ConstantsAssumption DEF SwitchCore, SwitchInv, Core, TypeInv, TypeOK, Switch, Settings
<1>h. queue # <<>> => /\ Head(queue) = queue[1] /\ 1 \in 1..Len(queue) /\ Head(queue).kind \notin Own
                      /\ (Head(queue).kind \in Binds => host.phase \notin {"open", "revert"})
                      /\ (Head(queue).kind = "prepare" => host.phase = "prepare")
  <2>1. queue # <<>> => Head(queue) = queue[1] /\ 1 \in 1..Len(queue) BY <1>t, TailProps
  <2>2. queue # <<>> => Head(queue).kind \notin Own BY <2>1, <1>t DEF Suits
  <2>3. queue # <<>> /\ Head(queue).kind \in Binds => host.phase \notin {"open", "revert"}
    BY <2>1, <1>t DEF Order, Binds, Own
  <2>4. queue # <<>> /\ Head(queue).kind = "prepare" => host.phase = "prepare" BY <2>1, <1>t DEF Order
  <2> QED BY <2>1, <2>2, <2>3, <2>4
<1>f. /\ faults' = faults \/ faults' = faults + 1
      /\ Fails => faults = 0 /\ faults' = 1
      /\ host.phase \in {"revert", "rollback"} => ~Fails
      /\ Throws => Fails
      /\ \A b : PublishFails(b) => Fails
  <2>1. faults' = faults \/ faults' = faults + 1 BY BoundsMove DEF Works, Fails
  <2>2. Fails => faults = 0 /\ faults' = 1 BY <1>t DEF Fails
  <2>3. host.phase \in {"revert", "rollback"} => faults >= 1 BY DEF SwitchCore, SwitchInv, Undone
  <2> QED BY <2>1, <2>2, <2>3, <1>t, ThrowingFails
<1>i. /\ Placed => bound = host.tenant /\ settings.enabled = settings.stored[bound].enabled
      /\ selection = Hosted => settings.enabled
      /\ adapter' # {} => settings'.enabled \/ Lingers'
      /\ host.phase \in Away => selection # Hosted
      /\ Readying(queue) => settings.enabled
      /\ settings.previous # Hosted /\ Restored # Hosted
      /\ \A t \in Tenants : settings.stored[t] # NoPreference => settings.stored[t].previous # Hosted
  <2>1. adapter' # {} => settings'.enabled \/ Lingers' BY AdapterFollows DEF Intent, Turned, SwitchCore, Core
  <2> QED BY <2>1 DEF Intent, Here, Settled, Turned, Restored, Writing
\* What has to be shown of a step that begins no request.
<1>k. ASSUME request' = None,
             Placed' => bound' = host'.tenant /\ settings'.enabled = settings'.stored[bound'].enabled,
             selection' = Hosted => settings'.enabled,
             host'.phase \in Away => selection' # Hosted,
             Readying(queue') => settings'.enabled,
             settings'.previous # Hosted, \A t \in Tenants : settings'.stored[t] # NoPreference => settings'.stored[t].previous # Hosted
      PROVE  Intent'
  BY <1>k, <1>i DEF Intent, Here, Settled, Turned, Remembers
\* The settings and the phase stay.
<1>s. ASSUME UNCHANGED <<settings, bound, request>>, host'.phase = host.phase, host'.tenant = host.tenant,
             selection' \in {selection, Restored}, Begun(queue') => Begun(queue),
             Readying(queue') => settings.enabled
      PROVE  Intent'
  <2>1. Placed' => Placed BY <1>s DEF Placed
  <2> QED BY <2>1, <1>s, <1>i, <1>k
\* A binding ends, in the phase of the switch it belongs to.
<1>b. ASSUME queue # <<>>, Head(queue).kind \in Binds, Head(queue).step \notin {"start", "reads"},
             queue' \in {Tail(queue), Outdated(Tail(queue))}, UNCHANGED <<settings, bound, request>>,
             NEW ok \in BOOLEAN, Bound(ok), ~ok => Fails,
             selection' = Hosted => settings.enabled,
             ~ok /\ host.phase = "commit" => selection' # Hosted
      PROVE  Intent'
  <2>1. /\ host'.tenant = host.tenant
        /\ \/ host' = host
           \/ (host.phase = "rollback" \/ (host.phase = "commit" /\ ok)) /\ host'.phase = "rest"
           \/ host.phase = "commit" /\ ~ok /\ host'.phase = "revert"
    BY <1>b, <1>h, <1>t, BoundKeeps
  <2>2. ~Begun(queue') /\ ~Readying(queue') BY <1>b, <1>t, HeadEnded
  <2>3. Placed BY <1>b, <1>h DEF Placed, Begun
  <2>4. host'.phase \in Away => selection' # Hosted
    <3>1. host.phase \notin {"open", "revert"} BY <1>b, <1>h
    <3>2. host' = host => host.phase \notin {"commit", "rollback"}
      <4>1. host.phase \in {"commit", "rollback"} => host'.phase # host.phase
        BY <1>b, <1>t DEF Bound, Moves, Switch
      <4> QED BY <4>1
    <3> QED BY <2>1, <3>1, <3>2, <1>b DEF Away
  <2> QED BY <2>1, <2>2, <2>3, <2>4, <1>b, <1>i, <1>t, <1>k
\* The running operation goes on.
<1>g. ASSUME NEW s \in StepNames, queue # <<>>, Goes(s) \/ GoesOutdated(s)
      PROVE  /\ Begun(queue') => queue[1].kind \in Binds
             /\ Readying(queue') => queue[1].kind \in Binds /\ s \in {"ready", "wait"}
  <2>1. Advances(queue, queue') /\ queue' # <<>> /\ queue'[1].step = s
    BY <1>g, <1>t, GoesAdvances DEF Goes, GoesOutdated
  <2>2. queue'[1].kind = queue[1].kind BY <2>1, <1>g, <1>h DEF Advances
  <2> QED BY <2>1, <2>2 DEF Begun, Readying
\* Operations enter.
<1>e. ASSUME NEW k \in {"prepare", "bind", "follow", "retry"}, Enters(k)
      PROVE  (Begun(queue') => Begun(queue)) /\ (Readying(queue') => settings.enabled)
  <2>1. k \in Kinds BY DEF Kinds
  <2> QED BY <2>1, <1>e, <1>t, <1>i, HeadEntered DEF Enters
<1>q. ASSUME UNCHANGED <<settings, bound, request, host, queue>>, selection' \in {selection, Restored}
      PROVE  Intent'
  BY <1>q, <1>i, <1>s
<1>1. CASE PreparePersists
  <2>1. /\ queue # <<>> /\ Head(queue).kind = "prepare" /\ UNCHANGED <<selection, bound, request>>
    BY <1>1 DEF PreparePersists, Running
  <2>2. host.phase = "prepare" BY <2>1, <1>h
  <2>3. CASE Persists /\ Goes("apply") /\ UNCHANGED host
    <3> DEFINE p == [enabled |-> settings.enabled, previous |-> settings.previous]
    <3>1. /\ settings'.enabled = settings.enabled /\ settings'.previous = settings.previous
          /\ settings'.stored = [settings.stored EXCEPT ![bound] = p]
      BY <2>3, <1>t DEF Persists, Settings
    <3>2. \A t \in Tenants : settings'.stored[t] = IF t = bound THEN p ELSE settings.stored[t]
      BY <3>1, <1>t
    <3>3. settings.enabled = settings.stored[bound].enabled /\ bound = host.tenant BY <2>2, <1>i DEF Placed
    <3>4. ~Readying(queue')
      <4>1. Readying(queue') => queue[1].kind \in Binds BY <2>1, <2>3, <1>g DEF StepNames
      <4> QED BY <4>1, <2>1, <1>h DEF Binds
    <3>6. \A t \in Tenants : settings'.stored[t] # NoPreference => settings'.stored[t].previous # Hosted BY <3>2, <1>i
    <3>7. settings'.stored[bound].enabled = settings.enabled BY <3>2, <1>t
    <3> HIDE DEF p
    <3>8. Intent' BY <3>1, <3>3, <3>4, <3>6, <3>7, <2>1, <2>2, <2>3, <1>i, <1>k DEF Away
    <3> QED BY <3>8
  <2>4. CASE queue' = Tail(queue) /\ Moves("rest") /\ UNCHANGED settings
    <3>1. host'.phase = "rest" /\ host'.tenant = host.tenant BY <2>4, <1>t DEF Moves, Switch
    <3>2. ~Begun(queue') /\ ~Readying(queue') BY <2>1, <2>4, <1>t, HeadEnded
    <3>3. Placed BY <2>2 DEF Placed
    <3>4. Intent' BY <3>1, <3>2, <3>3, <2>1, <2>4, <1>i, <1>k DEF Away
    <3> QED BY <3>4, <2>4
  <2> QED BY <1>1, <2>3, <2>4 DEF PreparePersists
<1>2. CASE PrepareReleases
  <2>1. /\ queue # <<>> /\ Head(queue).kind = "prepare" /\ queue' = Outdated(Tail(queue))
        /\ UNCHANGED <<settings, bound, request>>
        /\ \/ selection' = Restored /\ Moves("open")
           \/ UNCHANGED selection /\ Moves("rest")
    BY <1>2 DEF PrepareReleases, Running
  <2>2. host.phase = "prepare" /\ Placed BY <2>1, <1>h DEF Placed
  <2>3. ~Begun(queue') /\ ~Readying(queue') BY <2>1, <1>t, HeadEnded
  <2>4. /\ host'.tenant = host.tenant
        /\ \/ host'.phase = "open" /\ selection' = Restored
           \/ host'.phase = "rest" /\ UNCHANGED selection
    BY <2>1, <1>t DEF Moves, Switch
  <2>5. Intent' BY <2>1, <2>2, <2>3, <2>4, <1>i, <1>k DEF Away
  <2> QED BY <2>5
<1>3. CASE BindReads
  <2>1. queue # <<>> /\ Head(queue).kind \in Binds /\ UNCHANGED <<selection, request>>
    BY <1>3 DEF BindReads, Running, Binds
  <2>2. host.phase \notin {"open", "revert"} BY <2>1, <1>h
  <2>3. CASE /\ settings' = Preferred(host.tenant) /\ bound' = host.tenant /\ UNCHANGED host
             /\ Goes(IF Restricted THEN "restrict" ELSE "apply")
    <3>1. /\ settings'.stored = settings.stored
          /\ settings'.enabled = settings.stored[host.tenant].enabled
          /\ settings'.previous # Hosted
      <4>1. CASE settings.stored[host.tenant] # NoPreference
        BY <4>1, <2>3, <1>t, <1>i DEF Preferred, Settings
      <4>2. CASE settings.stored[host.tenant] = NoPreference
        <5>1. settings' = [settings EXCEPT !.enabled = FALSE,
                                           !.previous = IF selection = Hosted THEN Fallback ELSE selection]
          BY <4>2, <2>3 DEF Preferred
        <5>2. Fallback # Hosted BY ConstantsAssumption
        <5>3. settings.stored[host.tenant].enabled = FALSE BY <4>2 DEF NoPreference
        <5> QED BY <5>1, <5>2, <5>3, <1>t DEF Settings
      <4> QED BY <4>1, <4>2
    <3>2. selection = Hosted => settings'.enabled
      <4>1. host.phase \in Away \/ Placed BY <1>t DEF Away, Placed
      <4> QED BY <4>1, <3>1, <1>i
    <3>3. ~Readying(queue')
      <4> DEFINE s == IF Restricted THEN "restrict" ELSE "apply"
      <4>1. s \in StepNames /\ s \notin {"ready", "wait"} BY DEF StepNames
      <4>2. Goes(s) BY <2>3
      <4> HIDE DEF s
      <4> QED BY <2>1, <4>1, <4>2, <1>g
    <3>4. Intent' BY <3>1, <3>2, <3>3, <2>1, <2>3, <1>i, <1>k
    <3> QED BY <3>4
  <2>4. CASE /\ UNCHANGED settings /\ bound' \in {bound, host.tenant} /\ Rejects
             /\ (host.phase # "prepare" => Fails)
    <3>1. /\ queue' = Tail(queue) /\ Bound(FALSE) BY <2>4 DEF Rejects
    <3>2. /\ host'.tenant = host.tenant
          /\ \/ host' = host
             \/ host.phase = "rollback" /\ host'.phase = "rest"
             \/ host.phase = "commit" /\ host'.phase = "revert"
      BY <2>1, <3>1, <1>h, <1>t, BoundKeeps
    <3>3. host.phase # "rollback" BY <2>4, <1>f
    <3>4. ~Begun(queue') /\ ~Readying(queue') BY <2>1, <3>1, <1>t, HeadEnded
    <3>5. Placed' => Placed BY <3>2, <3>3, <3>4 DEF Placed
    <3>6. host'.phase \in Away => host.phase \in Away BY <3>2, <3>3 DEF Away
    <3> QED BY <3>2, <3>4, <3>5, <3>6, <2>1, <2>4, <1>i, <1>k
  <2>5. \/ /\ settings' = Preferred(host.tenant) /\ bound' = host.tenant /\ UNCHANGED host
           /\ Goes(IF Restricted THEN "restrict" ELSE "apply")
        \/ /\ UNCHANGED settings /\ bound' \in {bound, host.tenant} /\ Rejects
           /\ (host.phase # "prepare" => Fails)
    BY <1>3 DEF BindReads
  <2> QED BY <2>3, <2>4, <2>5
<1>4. CASE BindRestricts
  <2>1. /\ queue # <<>> /\ Head(queue).kind \in Binds /\ Head(queue).step = "restrict"
        /\ queue' = Tail(queue) /\ UNCHANGED <<settings, bound, request>>
        /\ \/ selection' = Restored /\ Bound(TRUE)
           \/ UNCHANGED selection /\ Fails /\ Bound(FALSE)
    BY <1>4, <1>f DEF BindRestricts, Running
  <2>2. CASE selection' = Restored /\ Bound(TRUE) BY <2>1, <2>2, <1>b, <1>i
  <2>3. CASE UNCHANGED selection /\ Fails /\ Bound(FALSE)
    <3>1. host.phase = "commit" => selection' # Hosted BY <2>3, <1>i DEF Away
    <3> QED BY <3>1, <2>1, <2>3, <1>b, <1>i
  <2> QED BY <2>1, <2>2, <2>3
<1>5. CASE FollowRestricts
  <2>1. /\ queue # <<>> /\ queue' = Tail(queue) /\ UNCHANGED <<host, settings, bound, request>>
        /\ selection' \in {selection, Restored}
    BY <1>5 DEF FollowRestricts, Running
  <2>2. ~Begun(queue') /\ ~Readying(queue') BY <2>1, <1>t, HeadEnded
  <2> QED BY <2>1, <2>2, <1>s
<1>6. CASE BindConfigures
  <2>1. /\ queue # <<>> /\ Goes("session") /\ Head(queue).kind \in Binds /\ Head(queue).step = "apply"
        /\ UNCHANGED <<host, settings, selection, bound, request>>
    BY <1>6 DEF BindConfigures, Running
  <2>2. Begun(queue) BY <2>1, <1>h DEF Begun
  <2>3. ~Readying(queue') BY <2>1, <1>g DEF StepNames
  <2> QED BY <2>1, <2>2, <2>3, <1>s
<1>7. CASE BindSession
  <2> DEFINE go == config # None /\ settings.enabled
  <2>1. /\ queue # <<>> /\ Head(queue).kind \in Binds /\ Head(queue).step = "session"
        /\ UNCHANGED <<settings, selection, bound, request>>
    BY <1>7 DEF BindSession, Running
  <2>2. Begun(queue) BY <2>1, <1>h DEF Begun
  <2>3. CASE go
    <3>1. UNCHANGED host /\ (Goes("ready") \/ GoesOutdated("ready")) BY <1>7, <2>3 DEF BindSession, Readies, Goes, GoesOutdated
    <3> QED BY <3>1, <2>1, <2>2, <2>3, <1>s
  <2>4. CASE ~go
    <3>1. Bound(TRUE) /\ queue' \in {Tail(queue), Outdated(Tail(queue))} BY <1>7, <2>4 DEF BindSession, Readies
    <3> QED BY <3>1, <2>1, <1>b, <1>i
  <2> QED BY <2>3, <2>4
<1>8. CASE ReadyStarts
  <2>1. queue # <<>> /\ Head(queue).kind \in Own BY <1>8 DEF ReadyStarts, Running, Own
  <2> QED BY <2>1, <1>h
<1>9. CASE ReadyRefreshes
  <2>1. /\ queue # <<>> /\ Head(queue).kind \in Binds /\ Head(queue).step = "ready"
        /\ UNCHANGED <<settings, selection, bound>>
    BY <1>9, <1>h DEF ReadyRefreshes, Running, Own
  <2>2. Begun(queue) /\ Readying(queue) BY <2>1, <1>h DEF Begun, Readying
  <2>3. Head(queue).kind # "ready" BY <2>1 DEF Binds
  <2>4. \/ UNCHANGED <<host, request>> /\ (Goes("wait") \/ GoesOutdated("wait"))
        \/ /\ queue' \in {Tail(queue), Outdated(Tail(queue))} /\ UNCHANGED request
           /\ Bound(TRUE) \/ (Bound(FALSE) /\ Fails)
    BY <1>9, <1>f, <2>3 DEF ReadyRefreshes, Gives
  <2>5. CASE UNCHANGED <<host, request>> /\ (Goes("wait") \/ GoesOutdated("wait"))
    BY <2>1, <2>2, <2>5, <1>i, <1>s
  <2>6. CASE /\ queue' \in {Tail(queue), Outdated(Tail(queue))} /\ UNCHANGED request
             /\ Bound(TRUE) \/ (Bound(FALSE) /\ Fails)
    <3>1. host.phase = "commit" => selection' # Hosted BY <2>1, <1>i DEF Away
    <3> QED BY <2>1, <2>6, <3>1, <1>b, <1>i
  <2> QED BY <2>4, <2>5, <2>6
<1>10. CASE ReadyAnswers
  <2>1. /\ queue # <<>> /\ Head(queue).kind \in Binds /\ Head(queue).step = "wait"
        /\ UNCHANGED <<settings, bound>> /\ queue' = Tail(queue)
    BY <1>10, <1>h DEF ReadyAnswers, Running, Own, Known
  <2>2. settings.enabled BY <2>1, <1>h, <1>i DEF Readying
  <2>3. Head(queue).kind # "ready" BY <2>1 DEF Binds
  <2>4. /\ UNCHANGED request
        /\ \/ Bound(TRUE)
           \/ UNCHANGED selection /\ Bound(FALSE) /\ Fails
    BY <1>10, <2>3 DEF ReadyAnswers, Known
  <2>5. CASE Bound(TRUE) BY <2>1, <2>2, <2>4, <2>5, <1>b
  <2>6. CASE UNCHANGED selection /\ Bound(FALSE) /\ Fails
    <3>1. host.phase = "commit" => selection' # Hosted BY <2>6, <1>i DEF Away
    <3> QED BY <3>1, <2>1, <2>2, <2>4, <2>6, <1>b
  <2> QED BY <2>4, <2>5, <2>6
<1>11. CASE PersistRuns
  <2>1. queue # <<>> /\ Head(queue).kind \in Own BY <1>11 DEF PersistRuns, Running, Own
  <2> QED BY <2>1, <1>h
<1>12. CASE Requested
  BY <1>12 DEF Requested, BalanceAnswers, WritesNothing, WritesEnabled, WritesSelection, Selects, Disables, Restores, At
<1>13. CASE Answer
  <2>1. CASE UNCHANGED <<settings, selection, bound, request, host, queue>> BY <2>1, <1>q
  <2>2. CASE \E c \in checks : /\ CheckAnswers(c) /\ ~UNCHANGED queue
    <3>1. /\ queue # <<>> /\ Head(queue).kind \in Binds \cup {"ready"} /\ Head(queue).step = "wait"
          /\ queue' = Tail(queue) /\ Gives(FALSE) /\ Fails /\ UNCHANGED <<settings, selection, bound>>
      BY <2>2, <1>f DEF CheckAnswers, Running
    <3>2. Head(queue).kind \in Binds /\ Head(queue).kind # "ready" BY <3>1, <1>h DEF Own
    <3>3. Bound(FALSE) /\ UNCHANGED request BY <3>1, <3>2 DEF Gives
    <3>4. host.phase = "commit" => selection' # Hosted BY <3>1, <1>i DEF Away
    <3> QED BY <3>1, <3>2, <3>3, <3>4, <1>b, <1>i
  <2>3. \/ UNCHANGED <<settings, selection, bound, request, host, queue>>
        \/ \E c \in checks : CheckAnswers(c) /\ ~UNCHANGED queue
    <3>1. CASE \E m \in minting : MintAnswers(m) BY <3>1 DEF MintAnswers
    <3>2. CASE \E c \in checks : CheckAnswers(c)
      <4>1. PICK c \in checks : CheckAnswers(c) BY <3>2
      <4>2. queue # <<>> => Tail(queue) # queue
        <5>1. queue # <<>> => Len(Tail(queue)) = Len(queue) - 1 /\ Len(queue) \in Nat BY <1>t, TailProps
        <5> QED BY <5>1
      <4>3. UNCHANGED queue => UNCHANGED <<settings, selection, bound, request, host>>
        BY <4>1, <4>2 DEF CheckAnswers, Running
      <4> QED BY <4>1, <4>3
    <3> QED BY <1>13, <3>1, <3>2 DEF Answer
  <2> QED BY <2>1, <2>2, <2>3
<1>14. CASE OpenAnswers
  <2>1. /\ UNCHANGED <<settings, selection, bound, request>> /\ host.phase = "open"
        /\ Enters("bind") \/ UNCHANGED queue
        /\ \/ host' = [host EXCEPT !.phase = "commit", !.tenant = host.to]
           \/ Moves("revert")
    BY <1>14 DEF OpenAnswers
  <2>2. host'.phase \in {"commit", "revert"} BY <2>1, <1>t DEF Moves, Switch
  <2>3. ~Begun(queue) BY <2>1, <1>h DEF Begun
  <2>4. ~Begun(queue') /\ (Readying(queue') => settings.enabled) BY <2>1, <2>3, <1>e, <1>i
  <2>5. ~Placed' BY <2>2, <2>4 DEF Placed
  <2>6. selection # Hosted BY <2>1, <1>i DEF Away
  <2>7. Intent' BY <2>1, <2>4, <2>5, <2>6, <1>i, <1>k
  <2> QED BY <2>7
<1>15. CASE Reverts
  <2>1. /\ UNCHANGED <<settings, selection, bound, request>> /\ host.phase = "revert" /\ Enters("bind")
        /\ host' = [host EXCEPT !.phase = "rollback", !.tenant = host.from, !.active = FALSE]
    BY <1>15 DEF Reverts
  <2>2. host'.phase = "rollback" BY <2>1, <1>t DEF Switch
  <2>3. ~Begun(queue) BY <2>1, <1>h DEF Begun
  <2>4. ~Begun(queue') /\ (Readying(queue') => settings.enabled) BY <2>1, <2>3, <1>e
  <2>5. ~Placed' BY <2>2, <2>4 DEF Placed
  <2>6. selection # Hosted BY <2>1, <1>i DEF Away
  <2>7. Intent' BY <2>1, <2>4, <2>5, <2>6, <1>i, <1>k
  <2> QED BY <2>7
<1>16. CASE \E t \in Tenants : StartSwitch(t)
  <2>1. /\ UNCHANGED <<settings, selection, bound, request>> /\ host.phase = "rest" /\ Enters("prepare")
        /\ \E t \in Tenants : host' = [host EXCEPT !.phase = "prepare", !.from = host.tenant, !.to = t, !.active = FALSE]
    BY <1>16 DEF StartSwitch
  <2>2. host'.phase = "prepare" /\ host'.tenant = host.tenant BY <2>1, <1>t DEF Switch
  <2>3. Readying(queue') => settings.enabled BY <2>1, <1>e
  <2>4. Placed BY <2>1 DEF Placed
  <2>5. Intent' BY <2>1, <2>2, <2>3, <2>4, <1>i, <1>k DEF Away
  <2> QED BY <2>5
<1>17. CASE \E b \in BOOLEAN : SessionChanges(b)
  <2>1. /\ UNCHANGED <<settings, selection, bound, request>> /\ queue' = Outdated(queue)
        /\ \E b \in BOOLEAN : host' = [host EXCEPT !.active = b]
    BY <1>17 DEF SessionChanges, Told
  <2>2. host'.phase = host.phase /\ host'.tenant = host.tenant BY <2>1, <1>t DEF Switch
  <2>3. (Begun(queue') => Begun(queue)) /\ (Readying(queue') => settings.enabled)
    BY <2>1, <1>t, <1>i, HeadOutdated
  <2> QED BY <2>1, <2>2, <2>3, <1>s
<1>18. CASE \E b \in BOOLEAN : Ask(b)
  <2>1. /\ UNCHANGED <<host, settings, selection, bound, faults>> /\ Calm /\ config # None
        /\ request' \in {[at |-> "ready", tenant |-> config.tenant, enable |-> b,
                          settings |-> settings, selection |-> selection] : b \in BOOLEAN}
        /\ Enters("ready")
    BY <1>18 DEF Ask
  <2>2. host.phase = "rest" /\ queue = <<>> BY <2>1 DEF Calm
  <2>3. bound = host.tenant BY <2>2, <1>i DEF Placed
  <2>4. config.tenant = bound
    <3>1. faults <= 1 BY <1>f, <1>t
    <3>2. InForce(config) BY <3>1, <2>2 DEF SwitchCore, AdapterInv, Current
    <3> QED BY <3>2, <2>1, <2>3 DEF InForce
  <2>5. request'.at = "ready" /\ request'.tenant = bound BY <2>1, <2>4
  <2>6. Remembers' BY <2>1, <2>5 DEF Remembers, Written
  <2>7. Readying(queue') => Readying(queue)
    <3>1. "ready" \in Kinds BY DEF Kinds
    <3> QED BY <3>1, <2>1, <1>t, HeadEntered DEF Enters
  <2>8. Here' BY <2>1, <2>3 DEF Here
  <2>9. Settled' BY <2>1, <2>2, <1>i DEF Settled, Placed
  <2>10. Turned' BY <2>1, <2>7, <1>i DEF Turned
  <2> QED BY <2>1, <2>6, <2>8, <2>9, <2>10 DEF Intent
<1>19. CASE PolicyChanges
  <2>1. /\ UNCHANGED <<settings, selection, bound, request>> /\ (Enters("follow") \/ UNCHANGED queue)
        /\ host'.phase = host.phase /\ host'.tenant = host.tenant
    BY <1>19, <1>t DEF PolicyChanges, Switch
  <2>2. (Begun(queue') => Begun(queue)) /\ (Readying(queue') => settings.enabled) BY <2>1, <1>e, <1>i
  <2> QED BY <2>1, <2>2, <1>s
<1>20. CASE Retry
  <2>1. UNCHANGED <<host, settings, selection, bound, request>> /\ Enters("retry") BY <1>20 DEF Retry
  <2>2. (Begun(queue') => Begun(queue)) /\ (Readying(queue') => settings.enabled) BY <2>1, <1>e
  <2> QED BY <2>1, <2>2, <1>s
<1>21. CASE Mints \/ Invalidate
  <2>1. UNCHANGED <<settings, selection, bound, request, host, queue>> BY <1>21 DEF Mints, Invalidate
  <2> QED BY <2>1, <1>q
<1>22. CASE \E m \in AnyModel : ChooseModel(m)
  <2>1. PICK m \in AnyModel : ChooseModel(m) BY <1>22
  <2>2. /\ UNCHANGED <<host, settings, bound, queue, request>> /\ selection' = m
        /\ m = Hosted => adapter # {} /\ host.phase = "rest" /\ queue = <<>>
    BY <2>1 DEF ChooseModel, Calm
  <2>3. m = Hosted => settings.enabled BY <2>2 DEF Intent, Turned, Lingers, Begun, At
  <2>4. Placed' => Placed BY <2>2 DEF Placed
  <2>5. Intent' BY <2>2, <2>3, <2>4, <1>i, <1>k DEF Away
  <2> QED BY <2>5, <2>2
<1>23. CASE UNCHANGED vars
  <2>1. UNCHANGED <<settings, selection, bound, request, host, queue>> BY <1>23 DEF vars
  <2> QED BY <2>1, <1>q
<1>24. CASE PrepareTears
  <2>1. /\ queue # <<>> /\ Head(queue).kind = "prepare" /\ queue' = Outdated(Tail(queue))
        /\ UNCHANGED <<settings, selection, bound, request>> /\ Moves("rest")
    BY <1>24 DEF PrepareTears, Running
  <2>2. Placed BY <2>1, <1>h DEF Placed
  <2>3. host'.phase = "rest" /\ host'.tenant = host.tenant BY <2>1, <1>t DEF Moves, Switch
  <2>4. ~Begun(queue') /\ ~Readying(queue') BY <2>1, <1>t, HeadEnded
  <2> QED BY <2>1, <2>2, <2>3, <2>4, <1>i, <1>k DEF Away
<1>25. CASE RetryBegins
  <2>1. /\ queue # <<>> /\ UNCHANGED <<host, settings, selection, bound, request>>
        /\ queue' = [queue EXCEPT ![1].step = "reads", ![1].fresh = TRUE]
    BY <1>25 DEF RetryBegins, Running
  <2>2. queue'[1].step = "reads" BY <2>1, <1>t, FreshAdvances DEF StepNames
  <2>3. ~Begun(queue') /\ ~Readying(queue') BY <2>2 DEF Begun, Readying
  <2> QED BY <2>1, <2>3, <1>s
<1>26. CASE Refuses
  <2>1. /\ queue # <<>> /\ Head(queue).kind \in Binds /\ Head(queue).step \in {"restrict", "apply"}
        /\ queue' = Tail(queue) /\ Bound(FALSE) /\ Fails /\ UNCHANGED <<settings, selection, bound, request>>
    BY <1>26 DEF Refuses, Rejects, Running
  <2>2. host.phase = "commit" => selection' # Hosted BY <2>1, <1>i DEF Away
  <2> QED BY <2>1, <2>2, <1>b, <1>i
<1>27. CASE BindLoses
  <2>1. /\ queue # <<>> /\ Head(queue).kind \in Binds /\ Head(queue).step = "session"
        /\ queue' \in {Tail(queue), Outdated(Tail(queue))} /\ Bound(FALSE) /\ Fails
        /\ UNCHANGED <<settings, selection, bound, request>>
    BY <1>27, <1>f DEF BindLoses, Running
  <2>2. host.phase = "commit" => selection' # Hosted BY <2>1, <1>i DEF Away
  <2> QED BY <2>1, <2>2, <1>b, <1>i
<1>28. CASE Registers
  <2>1. /\ UNCHANGED <<settings, selection, bound, request>> /\ queue' = Outdated(queue)
        /\ host' = [host EXCEPT !.active = (host.phase # "prepare")]
    BY <1>28 DEF Registers, Told
  <2>2. host'.phase = host.phase /\ host'.tenant = host.tenant BY <2>1, <1>t DEF Switch
  <2>3. (Begun(queue') => Begun(queue)) /\ (Readying(queue') => settings.enabled)
    BY <2>1, <1>t, <1>i, HeadOutdated
  <2> QED BY <2>1, <2>2, <2>3, <1>s
<1>u. CASE User
  <2>1. \/ \E t \in Tenants : StartSwitch(t)
        \/ \E b \in BOOLEAN : SessionChanges(b)
        \/ \E b \in BOOLEAN : Ask(b)
        \/ Registers \/ PolicyChanges \/ Retry \/ (Mints \/ Invalidate)
        \/ \E m \in AnyModel : ChooseModel(m)
    BY <1>u DEF User
  <2> QED BY <2>1, <1>16, <1>17, <1>18, <1>19, <1>20, <1>21, <1>22, <1>28
<1>l. CASE Lifecycle
  BY <1>l, <1>1, <1>2, <1>3, <1>4, <1>5, <1>6, <1>7, <1>8, <1>9, <1>10, <1>11, <1>24, <1>25, <1>26, <1>27
  DEF Lifecycle
<1>w. CASE Switching BY <1>w, <1>14, <1>15 DEF Switching
<1> QED BY <1>l, <1>12, <1>13, <1>w, <1>u, <1>23 DEF Next

IntentCore == SwitchCore /\ Singly /\ (faults <= 1 => Intent)

LEMMA InitIntent == Init => SwitchCore /\ Singly /\ Intent
<1> SUFFICES ASSUME Init PROVE Singly /\ Intent BY InitSwitch
<1>1. PICK t \in Tenants, on \in BOOLEAN :
        /\ settings = [enabled |-> on, previous |-> Fallback, stored |-> [u \in Tenants |->
             IF on /\ u = t THEN [enabled |-> TRUE, previous |-> Fallback] ELSE NoPreference]]
        /\ selection \in IF on THEN AnyModel ELSE Models
        /\ host.phase = "rest" /\ host.tenant = t /\ bound = t
  <2>1. PICK t \in Tenants, signedIn \in BOOLEAN, on \in BOOLEAN, some \in SUBSET Tenants :
          /\ settings = [enabled |-> on, previous |-> Fallback, stored |-> [u \in Tenants |->
               IF on /\ u = t THEN [enabled |-> TRUE, previous |-> Fallback] ELSE NoPreference]]
          /\ selection \in IF on THEN AnyModel ELSE Models
          /\ host = [tenant |-> t, from |-> t, to |-> t, phase |-> "rest",
                     active |-> signedIn, restricted |-> some]
          /\ bound = t
    BY DEF Init
  <2>2. host.phase = "rest" /\ host.tenant = t BY <2>1
  <2> QED BY <2>1, <2>2
<1>2. request = None /\ adapter = {} /\ Fallback # Hosted /\ Hosted \notin Models
  BY ConstantsAssumption DEF Init
<1>3. New("bind").step = "start" BY NewType DEF Kinds
<1>4. queue # <<>> /\ queue[1] = New("bind") BY DEF Init
<1>5. ~Begun(queue) /\ ~Readying(queue) BY <1>3, <1>4 DEF Begun, Readying
<1>6. settings.stored[t].enabled = on BY <1>1 DEF NoPreference
<1>7. \A u \in Tenants : settings.stored[u] # NoPreference => settings.stored[u].previous # Hosted
  BY <1>1, <1>2
<1>8. Here /\ Settled BY <1>1, <1>6 DEF Here, Settled
<1>9. Turned BY <1>1, <1>2, <1>5, <1>7 DEF Turned, Away
<1> QED BY <1>2, <1>8, <1>9 DEF Singly, Intent, Remembers

LEMMA StepIntent == ASSUME Apart PROVE IntentCore /\ [Next]_vars => IntentCore'
<1> SUFFICES ASSUME IntentCore, [Next]_vars PROVE IntentCore' OBVIOUS
<1>1. SwitchCore /\ Singly /\ Core BY DEF IntentCore, SwitchCore
<1>2. SwitchCore' BY <1>1, StepSwitch
<1>3. Singly' BY <1>1, SinglyStep
<1>4. ASSUME faults' <= 1 PROVE Intent'
  <2>1. faults <= 1
    <3>1. faults \in Nat BY <1>1, ConstantsAssumption DEF Core, TypeInv, TypeOK
    <3>2. faults' = faults \/ faults' = faults + 1 BY BoundsMove DEF Works, Fails
    <3> QED BY <3>1, <3>2, <1>4
  <2>2. Intent BY <2>1 DEF IntentCore
  <2>3. CASE request # None BY <2>2, <2>3, <1>1, <1>4, AloneIntent
  <2>4. CASE request = None BY <2>2, <2>4, <1>1, <1>4, OtherIntent
  <2> QED BY <2>3, <2>4
<1> QED BY <1>2, <1>3, <1>4 DEF IntentCore

\* Where requests keep apart from switches, bindings, policies and choices of the model, and until
\* a second call fails: when nothing is in progress, the agent uses the hosted model only if it is
\* turned on in the environment, whatever switches and failed requests have come before
\* (index.ts:466-536, 667-707).
THEOREM SelectionIsServed == ASSUME Apart PROVE Spec => [](faults <= 1 => SelectionServed)
<1>1. Init => IntentCore BY InitIntent DEF IntentCore
<1>2. IntentCore /\ [Next]_vars => IntentCore' BY StepIntent
<1>3. Spec => []IntentCore BY <1>1, <1>2, PTL DEF Spec
<1>4. IntentCore => (faults <= 1 => SelectionServed) BY DEF IntentCore, Intent, Turned, SelectionServed
<1> QED BY <1>3, <1>4, PTL

=============================================================================
