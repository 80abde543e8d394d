------------------------- MODULE TenantSwitchProofs -------------------------
(***************************************************************************)
(* The safety of the tenant switch for any set of tenants and any number   *)
(* of failures, by the inductive invariant IInv of TenantSwitch, and that  *)
(* the switch implements SwitchTransaction.                                *)
(***************************************************************************)
EXTENDS TenantSwitch, FiniteSetTheorems, TLAPS

(* The Host starts with the active tenant opened.                           *)
LEMMA InitIInv == Init => IInv
<1> SUFFICES ASSUME Init PROVE IInv
  OBVIOUS
<1> USE TenantsAssumption, MaxFailsAssumption DEF Init, StartedHost, NoSwitch, NoMutation, NoReader
<1>1. TypeOK
  <2>1. host \in Hosts
    BY DEF Hosts
  <2>2. switch \in Switches /\ mutation \in Mutations /\ reader \in Readers
    BY DEF Switches, Mutations, Readers
  <2> QED
    BY <2>1, <2>2 DEF TypeOK
<1>2. Clients
  BY DEF Clients
<1>3. Steps /\ Progress /\ Served /\ SwitchIsLocked
  BY DEF Steps, Progress, Served, SwitchIsLocked, Switching, SwitchSteps, UndoSteps
<1> QED
  BY <1>1, <1>2, <1>3 DEF IInv

(* Leaving a provider, opening one and starting the runtime keep the type of the Host. *)
LEMMA HostTypes ==
  ASSUME TypeOK
  PROVE  /\ Disposed \in Hosts
         /\ \A t \in Tenants : Opened(t) \in Hosts
         /\ \A h \in Hosts : Ensured(h) \in Hosts
         /\ \A v \in {"unknown", "out", "in"} : [host EXCEPT !.signedOut = v] \in Hosts
<1> USE DEF TypeOK
<1>1. Disposed \in Hosts
  BY DEF Disposed, Hosts
<1>2. \A t \in Tenants : Opened(t) \in Hosts
  BY DEF Opened, Hosts
<1>3. \A h \in Hosts : Ensured(h) \in Hosts
  BY DEF Ensured, Hosts
<1>4. \A v \in {"unknown", "out", "in"} : [host EXCEPT !.signedOut = v] \in Hosts
  BY DEF Hosts
<1> QED
  BY <1>1, <1>2, <1>3, <1>4

(* So does a step of the rollback for the switch.                           *)
LEMMA UndoneTypes ==
  ASSUME TypeOK, NEW step \in UndoSteps, NEW ok \in BOOLEAN, Undone(step, ok)
  PROVE  switch' \in Switches /\ fails' \in 0..MaxFails
<1>1. switch' \in Switches
  BY DEF TypeOK, Undone, Switches
<1>2. fails' \in 0..MaxFails
  BY MaxFailsAssumption DEF TypeOK, Undone, Fails
<1> QED
  BY <1>1, <1>2

(* Every step keeps the types.                                              *)
LEMMA NextTypeOK == TypeOK /\ [Next]_vars => TypeOK'
<1> SUFFICES ASSUME TypeOK, [Next]_vars PROVE TypeOK'
  OBVIOUS
<1> USE TenantsAssumption, MaxFailsAssumption DEF TypeOK, session
<1>1. ASSUME NEW t \in Tenants, SwitchStarts(t) PROVE TypeOK'
  <2>1. switch' \in Switches
    BY <1>1 DEF SwitchStarts, NoSwitch, Switches, SwitchSteps
  <2>2. mutation' \in Mutations /\ reader' \in Readers
    BY <1>1 DEF SwitchStarts, Overtaken, Mutations, Readers
  <2> QED
    BY <1>1, <2>1, <2>2 DEF SwitchStarts
<1>2. CASE Locks
  <2>1. host' \in Hosts
    BY <1>2, HostTypes DEF Locks
  <2>2. switch' \in Switches
    BY <1>2 DEF Locks, Goto, Switches, SwitchSteps
  <2> QED
    BY <1>2, <2>1, <2>2 DEF Locks, Hosts
<1>3. CASE LocksTarget
  <2>1. switch' \in Switches
    BY <1>3 DEF LocksTarget, Goto, Switches, SwitchSteps
  <2> QED
    BY <1>3, <2>1 DEF LocksTarget, Switches
<1>4. CASE Prepares
  <2>1. switch' \in Switches
    BY <1>4 DEF Prepares, Switches, SwitchSteps
  <2> QED
    BY <1>4, <2>1 DEF Prepares
<1>5. CASE Disposes
  <2>1. switch' \in Switches
    BY <1>5 DEF Disposes, Goto, Switches, SwitchSteps
  <2>2. reader' \in Readers
    BY <1>5 DEF Disposes, Overtaken, Readers
  <2> QED
    BY <1>5, <2>1, <2>2, HostTypes DEF Disposes
<1>6. CASE Opens
  <2>1. switch' \in Switches
    BY <1>6 DEF Opens, Switches, SwitchSteps
  <2>2. host' \in Hosts
    BY <1>6, HostTypes DEF Opens, Switches
  <2> QED
    BY <1>6, <2>1, <2>2 DEF Opens
<1>7. CASE ReadsIdentity
  BY <1>7 DEF ReadsIdentity, Goto, Hosts, Switches, SwitchSteps
<1>8. CASE Commits
  <2>1. switch' \in Switches
    BY <1>8 DEF Commits, Switches, SwitchSteps
  <2> QED
    BY <1>8, <2>1 DEF Commits, Switches
<1>9. CASE Binds
  BY <1>9 DEF Binds, NoSwitch, Hosts, Switches
<1>10. CASE SwitchFails
  <2>1. host' \in Hosts
    BY <1>10, HostTypes DEF SwitchFails
  <2>2. switch' \in Switches
    BY <1>10 DEF SwitchFails, Undo, Goto, Switches, UndoSteps
  <2>3. marker' \subseteq Tenants
    BY <1>10 DEF SwitchFails, Hosts, Switches
  <2>4. participant' \in Tenants \cup {None}
    BY <1>10 DEF SwitchFails, Switches
  <2>5. reader' \in Readers
    BY <1>10 DEF SwitchFails, Overtaken, Readers
  <2>6. fails' \in 0..MaxFails
    BY <1>10 DEF SwitchFails, Fails
  <2> QED
    BY <1>10, <2>1, <2>2, <2>3, <2>4, <2>5, <2>6 DEF SwitchFails
<1>11. CASE UndoesOpen
  <2>1. switch' \in Switches /\ fails' \in 0..MaxFails
    BY <1>11, UndoneTypes DEF UndoesOpen, UndoSteps
  <2>2. reader' \in Readers
    BY <1>11 DEF UndoesOpen, Overtaken, Readers
  <2> QED
    BY <1>11, <2>1, <2>2, HostTypes DEF UndoesOpen
<1>12. CASE UndoesCommit
  <2>1. switch' \in Switches /\ fails' \in 0..MaxFails
    <3>1. CASE switch.from \in archived
      BY <1>12, <3>1 DEF UndoesCommit, Switches, UndoSteps
    <3>2. CASE switch.from \notin archived
      BY <1>12, <3>2, UndoneTypes DEF UndoesCommit, UndoSteps
    <3> QED
      BY <3>1, <3>2
  <2>2. active' \in Tenants
    BY <1>12 DEF UndoesCommit, Switches
  <2> QED
    BY <1>12, <2>1, <2>2 DEF UndoesCommit
<1>13. CASE Reopens
  <2>1. switch' \in Switches /\ fails' \in 0..MaxFails
    BY <1>13, UndoneTypes DEF Reopens, UndoSteps
  <2>2. host' \in Hosts
    BY <1>13, HostTypes DEF Reopens, Switches
  <2> QED
    BY <1>13, <2>1, <2>2 DEF Reopens
<1>14. CASE SwitchEnds
  <2>1. switch' \in Switches
    <3>1. PICK ok \in BOOLEAN :
            switch' = [NoSwitch(active) EXCEPT !.incomplete = switch.incomplete \/ ~ok,
                                     !.torn = switch.torn \/ switch.incomplete \/ ~ok]
      BY <1>14 DEF SwitchEnds
    <3> QED
      BY <3>1 DEF NoSwitch, Switches
  <2>2. host' \in Hosts
    BY <1>14 DEF SwitchEnds, Hosts
  <2>3. participant' \in Tenants \cup {None}
    BY <1>14 DEF SwitchEnds, Hosts
  <2>4. fails' \in 0..MaxFails
    BY <1>14 DEF SwitchEnds, Fails
  <2> QED
    BY <1>14, <2>1, <2>2, <2>3, <2>4 DEF SwitchEnds
<1>15. CASE RuntimeStarts
  <2>1. host' \in Hosts
    BY <1>15 DEF RuntimeStarts, IsSignedOut, Hosts
  <2> QED
    BY <1>15, <2>1 DEF RuntimeStarts
<1>16. CASE MutationStarts
  <2>1. mutation' \in Mutations
    BY <1>16 DEF MutationStarts, NoMutation, Mutations
  <2> QED
    BY <1>16, <2>1 DEF MutationStarts
<1>17. CASE LoginReads
  BY <1>17 DEF LoginReads, NoMutation, Mutations
<1>18. CASE MutationWrites
  <2>1. host' \in Hosts
    <3>1. CASE mutation.at = "login"
      BY <1>18, <3>1, HostTypes DEF MutationWrites
    <3>2. CASE mutation.at # "login"
      BY <1>18, <3>2 DEF MutationWrites, Hosts
    <3> QED
      BY <3>1, <3>2
  <2>2. marker' \subseteq Tenants
    BY <1>18 DEF MutationWrites, Hosts
  <2> QED
    BY <1>18, <2>1, <2>2 DEF MutationWrites, NoMutation, Mutations
<1>19. CASE Registers
  <2>1. host' \in Hosts
    BY <1>19, HostTypes DEF Registers
  <2>2. credentials' \subseteq Tenants
    BY <1>19 DEF Registers, Hosts
  <2> QED
    BY <1>19, <2>1, <2>2 DEF Registers
<1>20. CASE ReaderStarts
  <2>1. reader' \in Readers
    <3>1. CASE reader' = [NoReader EXCEPT !.at = "core"]
      BY <3>1 DEF NoReader, Readers
    <3>2. CASE reader' = [NoReader EXCEPT !.at = "marker", !.out = host.bound \in marker]
      <4>1. \A out \in BOOLEAN : [NoReader EXCEPT !.at = "marker", !.out = out] \in Readers
        BY DEF NoReader, Readers
      <4>2. (host.bound \in marker) \in BOOLEAN
        OBVIOUS
      <4> QED
        BY <3>2, <4>1, <4>2, Zenon
    <3> QED
      BY <1>20, <3>1, <3>2 DEF ReaderStarts
  <2> QED
    BY <1>20, <2>1 DEF ReaderStarts
<1>21. CASE ReaderCaches
  <2>1. host' \in Hosts
    BY <1>21, HostTypes DEF ReaderCaches
  <2>2. reader' \in Readers
    BY <1>21 DEF ReaderCaches, NoReader, Readers
  <2> QED
    BY <1>21, <2>1, <2>2 DEF ReaderCaches
<1>22. CASE ReaderEnds
  BY <1>22, HostTypes DEF ReaderEnds, NoReader, Readers
<1>23. CASE Archives
  BY <1>23 DEF Archives
<1>24. CASE Restart
  <2>1. host' \in Hosts
    BY <1>24 DEF Restart, StartedHost, Hosts
  <2>2. switch' \in Switches /\ mutation' \in Mutations /\ reader' \in Readers
    BY <1>24 DEF Restart, NoSwitch, Switches, NoMutation, Mutations, NoReader, Readers
  <2> QED
    BY <1>24, <2>1, <2>2 DEF Restart
<1>25. CASE UNCHANGED vars
  BY <1>25 DEF vars
<1> QED
  BY <1>1, <1>2, <1>3, <1>4, <1>5, <1>6, <1>7, <1>8, <1>9, <1>10, <1>11, <1>12, <1>13, <1>14, <1>15, <1>16, <1>17, <1>18, <1>19, <1>20, <1>21, <1>22, <1>23, <1>24, <1>25 DEF Next, SwitchStep, SessionStep

(* A session operation leaves the provider alone.                           *)
LEMMA MutationKeepsProvider ==
  ASSUME TypeOK, MutationWrites
  PROVE  /\ host'.provider = host.provider /\ host'.clients = host.clients
         /\ host'.bound = host.bound
<1> USE DEF TypeOK, Hosts
<1>1. CASE mutation.at = "login"
  BY <1>1 DEF MutationWrites, Ensured
<1>2. CASE mutation.at # "login"
  <2>1. CASE host' = [host EXCEPT !.signedOut = "out"]
    BY <2>1
  <2>2. CASE host' = [host EXCEPT !.signedOut = "out", !.runtime = "off"]
    BY <2>2
  <2> QED
    BY <1>2, <2>1, <2>2 DEF MutationWrites
<1> QED
  BY <1>1, <1>2

(* Every step of the switch and around it preserves IInv.                   *)
LEMMA NextIInv == IInv /\ [Next]_vars => IInv'
<1> SUFFICES ASSUME IInv, [Next]_vars PROVE IInv'
  OBVIOUS
<1>0. TypeOK'
  BY NextTypeOK DEF IInv
<1> USE TenantsAssumption, <1>0
    DEF IInv, TypeOK, Hosts, Switches, Clients, Steps, Progress, Served, SwitchIsLocked,
        SwitchSteps, UndoSteps, Switching, At, Goto, NoSwitch, NoMutation, session
<1>1. ASSUME NEW t \in Tenants, SwitchStarts(t) PROVE IInv'
  BY <1>1 DEF SwitchStarts
<1>2. CASE Locks
  BY <1>2 DEF Locks
<1>3. CASE LocksTarget
  BY <1>3 DEF LocksTarget
<1>4. CASE Prepares
  BY <1>4 DEF Prepares
<1>5. CASE Disposes
  BY <1>5 DEF Disposes, Disposed
<1>6. CASE Opens
  BY <1>6 DEF Opens, Opened
<1>7. CASE ReadsIdentity
  BY <1>7 DEF ReadsIdentity
<1>8. CASE Commits
  BY <1>8 DEF Commits
<1>9. CASE Binds
  BY <1>9 DEF Binds
<1>10. CASE SwitchFails
  <2>1. \/ At("dispose") /\ host' = Disposed
        \/ ~At("dispose") /\ host' = host
    BY <1>10 DEF SwitchFails
  <2>2. switch' = [switch EXCEPT !.at = Undo(host')]
    BY <1>10 DEF SwitchFails
  <2>3. Clients'
    <3>1. CASE host' = Disposed
      <4>1. host'.provider = None /\ host'.clients = host.clients \ {host.provider}
        BY <3>1 DEF Disposed
      <4> QED
        BY <4>1
    <3>2. CASE host' = host
      BY <3>2
    <3> QED
      BY <2>1, <3>1, <3>2
  <2>4. Steps'
    BY <1>10 DEF SwitchFails, Undo, Disposed
  <2>5. Progress'
    BY <1>10 DEF SwitchFails, Undo, Disposed
  <2>6. Served'
    <3>1. active' = active
      BY <1>10 DEF SwitchFails
    <3>2. switch'.committed = switch.committed /\ switch'.from = switch.from
      BY <2>2
    <3>3. CASE At("dispose")
      BY <1>10, <2>1, <2>2, <3>1, <3>2, <3>3 DEF SwitchFails, Undo, Disposed
    <3>4. CASE ~At("dispose")
      BY <1>10, <2>1, <2>2, <3>1, <3>2, <3>4 DEF SwitchFails, Undo
    <3> QED
      BY <3>3, <3>4
  <2>7. SwitchIsLocked'
    BY <1>10 DEF SwitchFails, Undo, Disposed
  <2> QED
    BY <2>3, <2>4, <2>5, <2>6, <2>7
<1>11. CASE UndoesOpen
  BY <1>11 DEF UndoesOpen, Undone, Disposed
<1>12. CASE UndoesCommit
  <2>1. PICK incomplete \in BOOLEAN :
          /\ switch' = [switch EXCEPT !.at = "undoOpen", !.incomplete = incomplete]
          /\ ~incomplete => active' = switch.from /\ ~switch.incomplete
    <3>1. CASE switch.from \in archived
      BY <1>12, <3>1 DEF UndoesCommit
    <3>2. CASE switch.from \notin archived
      BY <1>12, <3>2 DEF UndoesCommit, Undone
    <3> QED
      BY <3>1, <3>2
  <2>2. Clients' /\ Steps'
    BY <1>12, <2>1 DEF UndoesCommit
  <2>3. Progress'
    BY <1>12, <2>1 DEF UndoesCommit
  <2>4. Served'
    <3>1. switch'.at = "undoOpen" /\ switch'.from = switch.from /\ switch'.torn = switch.torn
          /\ switch'.incomplete = incomplete /\ switch'.prepared = switch.prepared
      BY <2>1
    <3>2. host' = host /\ participant' = participant
      BY <1>12 DEF UndoesCommit
    <3>3. ~switch'.incomplete => active' = switch'.from
      BY <2>1, <3>1
    <3>4. ~incomplete /\ ~switch'.torn /\ ~switch'.prepared => participant' \in {active', None}
      BY <1>12, <2>1, <3>1, <3>2 DEF UndoesCommit
    <3> QED
      BY <3>1, <3>2, <3>3, <3>4
  <2>5. SwitchIsLocked'
    BY <1>12, <2>1 DEF UndoesCommit
  <2> QED
    BY <2>2, <2>3, <2>4, <2>5
<1>13. CASE Reopens
  <2>1. Clients'
    <3>1. CASE host' = host
      BY <3>1
    <3>2. CASE host' = Opened(switch.from)
      <4>1. host.clients = {}
        BY <1>13 DEF Reopens
      <4>2. host'.provider = switch.from /\ host'.clients = host.clients \cup {switch.from}
        BY <3>2 DEF Opened
      <4> QED
        BY <4>1, <4>2
    <3> QED
      BY <1>13, <3>1, <3>2 DEF Reopens
  <2>2. Steps'
    BY <1>13 DEF Reopens, Undone, Opened
  <2>3. Progress'
    BY <1>13 DEF Reopens, Undone, Opened
  <2>4. Served'
    BY <1>13 DEF Reopens, Undone, Opened
  <2>5. SwitchIsLocked'
    BY <1>13 DEF Reopens, Undone, Opened
  <2> QED
    BY <2>1, <2>2, <2>3, <2>4, <2>5
<1>14. CASE SwitchEnds
  BY <1>14 DEF SwitchEnds
<1>15. CASE RuntimeStarts
  BY <1>15 DEF RuntimeStarts, IsSignedOut
<1>16. CASE MutationStarts
  BY <1>16 DEF MutationStarts
<1>17. CASE LoginReads
  BY <1>17 DEF LoginReads
<1>18. CASE MutationWrites
  <2>1. host'.provider = host.provider /\ host'.clients = host.clients /\ host'.bound = host.bound
    BY <1>18, MutationKeepsProvider
  <2>2. Clients'
    BY <2>1
  <2>3. Served'
    BY <1>18, <2>1 DEF MutationWrites
  <2>4. Steps' /\ Progress' /\ SwitchIsLocked'
    BY <1>18 DEF MutationWrites, Ensured
  <2> QED
    BY <2>2, <2>3, <2>4
<1>19. CASE Registers
  BY <1>19 DEF Registers, Ensured, IsSignedOut
<1>20. CASE ReaderStarts
  BY <1>20 DEF ReaderStarts
<1>21. CASE ReaderCaches
  BY <1>21 DEF ReaderCaches
<1>22. CASE ReaderEnds
  BY <1>22 DEF ReaderEnds, Ensured
<1>23. CASE Archives
  BY <1>23 DEF Archives
<1>24. CASE Restart
  BY <1>24 DEF Restart, StartedHost
<1>25. CASE UNCHANGED vars
  BY <1>25 DEF vars, session
<1> QED
  BY <1>1, <1>2, <1>3, <1>4, <1>5, <1>6, <1>7, <1>8, <1>9, <1>10, <1>11, <1>12, <1>13, <1>14, <1>15, <1>16, <1>17, <1>18, <1>19, <1>20, <1>21, <1>22, <1>23, <1>24, <1>25 DEF Next, SwitchStep, SessionStep

(* Only login(), and the reading of a Core without an identity, take a lock away.          *)
LEMMA UnlockStep ==
  ASSUME IInv, [Next]_vars, NEW t \in marker \ marker', t \in credentials
  PROVE  mutation.at = "login" /\ t = host.bound
<1> USE DEF session, Goto, At
<1>1. CASE ReadsIdentity
  <2>1. t = host.bound /\ switch.to \notin credentials
    BY <1>1 DEF ReadsIdentity
  <2>2. host.bound = switch.to
    BY <1>1 DEF ReadsIdentity, IInv, Steps
  <2> QED
    BY <2>1, <2>2
<1>2. CASE MutationWrites
  BY <1>2 DEF MutationWrites
<1>3. CASE ~ReadsIdentity /\ ~MutationWrites
  <2>1. marker \subseteq marker'
    BY <1>3 DEF Next, SwitchStep, SessionStep, vars, SwitchStarts, Locks, LocksTarget, Prepares,
       Disposes, Opens, Commits, Binds, SwitchFails, UndoesOpen, UndoesCommit, Reopens,
       SwitchEnds, LoginReads, MutationStarts, RuntimeStarts, Registers, ReaderStarts,
       ReaderCaches, ReaderEnds, Archives, Restart
  <2> QED
    BY <2>1
<1> QED
  BY <1>1, <1>2, <1>3

(* Only the commit and its undoing write the registry's active tenant.      *)
LEMMA CommitStep ==
  ASSUME IInv, [Next]_vars, active' # active
  PROVE  \/ host.provider = active' /\ host.runtime = "off" /\ participant = None
         \/ host.provider = None /\ active' = switch.from
<1> USE DEF session, Goto, At
<1>1. CASE Commits
  BY <1>1 DEF Commits, IInv, Steps
<1>2. CASE UndoesCommit
  BY <1>2 DEF UndoesCommit, IInv, Steps
<1>3. CASE ~Commits /\ ~UndoesCommit
  <2>1. active' = active
    BY <1>3 DEF Next, SwitchStep, SessionStep, vars, SwitchStarts, Locks, LocksTarget, Prepares,
       Disposes, Opens, ReadsIdentity, Binds, SwitchFails, UndoesOpen, Reopens, SwitchEnds,
       LoginReads, MutationWrites, MutationStarts, RuntimeStarts, Registers, ReaderStarts,
       ReaderCaches, ReaderEnds, Archives, Restart
  <2> QED
    BY <2>1
<1> QED
  BY <1>1, <1>2, <1>3

-----------------------------------------------------------------------------

(* The inductive invariant holds of every reachable state of switchTenant() and of what     *)
(* goes on around it.                                                       *)
THEOREM Invariance == Spec => []IInv
<1>1. Init => IInv
  BY InitIInv
<1>2. IInv /\ [Next]_vars => IInv'
  BY NextIInv
<1> QED
  BY <1>1, <1>2, PTL DEF Spec

(* Every variable keeps its type, in particular the Host is always bound to a tenant.      *)
THEOREM TypeCorrect == Spec => []TypeOK
<1>1. IInv => TypeOK
  BY DEF IInv
<1> QED
  BY <1>1, Invariance, PTL

(* The scope switchTenant() leaves, and the target until it has turned out to be empty,    *)
(* stay locked through every step, failure and crash.                       *)
THEOREM SwitchLocks == Spec => []SwitchIsLocked
<1>1. IInv => SwitchIsLocked
  BY DEF IInv
<1> QED
  BY <1>1, Invariance, PTL

(* Between switches the Host serves the registry's active tenant out of its own scope,     *)
(* unless a rollback was incomplete.                                        *)
THEOREM ServesActive == Spec => []ServedIsActive
<1>1. IInv => ServedIsActive
  BY DEF IInv, Progress, Served, ServedIsActive, Switching, UndoSteps
<1> QED
  BY <1>1, Invariance, PTL

(* disposeProvider() has closed one tenant's Core before another is opened. *)
THEOREM OneClientOpen == Spec => []OneClient
<1>1. IInv => OneClient
  <2> SUFFICES ASSUME IInv PROVE Cardinality(host.clients) <= 1
    BY DEF OneClient
  <2>1. CASE host.provider = None
    <3>1. host.clients = {}
      BY <2>1 DEF IInv, Clients
    <3> QED
      BY <3>1, FS_EmptySet
  <2>2. CASE host.provider # None
    <3>1. host.clients = {host.provider}
      BY <2>2 DEF IInv, Clients
    <3>2. Cardinality({host.provider}) = 1
      BY FS_Singleton
    <3> QED
      BY <3>1, <3>2
  <2> QED
    BY <2>1, <2>2
<1> QED
  BY <1>1, Invariance, PTL

(* No step of a switch or of a rollback unlocks a scope with credentials: only login() does.*)
THEOREM LoginUnlocks == Spec => OnlyLoginUnlocks
<1>1. IInv /\ [Next]_vars =>
        [\A t \in marker \ marker' :
           t \in credentials => mutation.at = "login" /\ t = host.bound]_vars
  BY UnlockStep
<1> QED
  BY <1>1, Invariance, PTL DEF Spec, OnlyLoginUnlocks

(* commitActive() runs only while the target is open and nothing runs for it, or, in the   *)
(* rollback, while nothing is served.                                       *)
THEOREM CommitsSafely == Spec => CommitIsSafe
<1>1. IInv /\ [Next]_vars =>
        [active' # active =>
           \/ host.provider = active' /\ host.runtime = "off" /\ participant = None
           \/ host.provider = None /\ active' = switch.from]_vars
  BY CommitStep
<1> QED
  BY <1>1, Invariance, PTL DEF Spec, CommitIsSafe
(* A step that is none of the transaction's leaves what the transaction is about.           *)
LEMMA AroundStutters ==
  ASSUME IInv, [Next]_vars, ~SwitchStep, ~Restart, ~\E t \in Tenants : SwitchStarts(t)
  PROVE  UNCHANGED <<active, switch>> /\ host'.provider = host.provider
<1>1. host \in Hosts
  BY DEF IInv, TypeOK
<1>2. CASE MutationWrites
  BY <1>2, MutationKeepsProvider DEF IInv, MutationWrites
<1>3. CASE Registers
  BY <1>1, <1>3 DEF Registers, Ensured, Hosts
<1>4. CASE RuntimeStarts
  BY <1>1, <1>4 DEF RuntimeStarts, Hosts, session
<1>5. CASE ReaderCaches
  BY <1>1, <1>5 DEF ReaderCaches, Hosts
<1>6. CASE ReaderEnds
  BY <1>1, <1>6 DEF ReaderEnds, Ensured, Hosts
<1>7. CASE MutationStarts \/ LoginReads \/ ReaderStarts \/ Archives \/ UNCHANGED vars
  BY <1>7 DEF MutationStarts, LoginReads, ReaderStarts, Archives, vars
<1> QED
  BY <1>2, <1>3, <1>4, <1>5, <1>6, <1>7 DEF Next, SessionStep

(* switchTenant() and its rollback are one transaction on the active tenant and the        *)
(* provider, whatever fails, is called meanwhile, or crashes (index.ts:1498-1583).          *)
THEOREM IsTransaction == Spec => ImplementsTransaction
<1>1. Init => Transaction!Init
  <2>1. ASSUME Init PROVE host.provider = active /\ switch = NoSwitch(active)
    BY <2>1 DEF Init, StartedHost
  <2> QED
    BY <2>1 DEF Init, Transaction!Init, NoSwitch, Switching
<1>2. IInv /\ [Next]_vars => [Transaction!Next]_(Transaction!vars)
  <2> SUFFICES ASSUME IInv, [Next]_vars PROVE [Transaction!Next]_(Transaction!vars)
    OBVIOUS
  <2>t. /\ host \in Hosts /\ switch \in Switches /\ active \in Tenants /\ None \notin Tenants
        /\ Steps /\ Progress /\ Served
    BY TenantsAssumption DEF IInv, TypeOK
  <2> DEFINE to == IF Switching THEN switch.to ELSE switch.from
             torn == switch.torn \/ switch.incomplete
  <2>s. (Switching => switch.from # to) /\ (~Switching => switch.from = to)
    BY <2>t DEF Steps
  <2>k. ASSUME UNCHANGED <<active, switch>>, host'.provider = host.provider
        PROVE  [Transaction!Next]_(Transaction!vars)
    BY <2>k DEF Transaction!vars, Switching
  <2> USE DEF Transaction!Next, Transaction!InFlight
  <2>1. CASE \E t \in Tenants : SwitchStarts(t)
    <3>1. PICK t \in Tenants : SwitchStarts(t)
      BY <2>1
    <3>2. /\ ~Switching /\ host.provider # None /\ t # active /\ active' = active /\ host' = host
          /\ switch'.at = "lock" /\ switch'.from = active /\ switch'.to = t
          /\ switch'.torn = switch.torn /\ switch'.incomplete = FALSE
      BY <3>1 DEF SwitchStarts, NoSwitch
    <3>3. switch.incomplete => switch.torn
      BY <3>2, <2>t DEF Progress, Switching, UndoSteps
    <3>4. Transaction!Begin
      BY <3>2, <3>3, <2>t DEF Transaction!Begin, Switching, Switches
    <3> QED
      BY <3>4
  <2>2. CASE Locks \/ LocksTarget \/ Prepares \/ ReadsIdentity
    <3>1. /\ Switching /\ active' = active /\ host'.provider = host.provider
          /\ switch'.at # "idle" /\ switch'.from = switch.from /\ switch'.to = switch.to
          /\ switch'.torn = switch.torn /\ switch'.incomplete = switch.incomplete
      BY <2>2, <2>t DEF Locks, LocksTarget, Prepares, ReadsIdentity, Goto, At, Switching, Hosts, Switches
    <3> QED
      BY <3>1 DEF Transaction!vars, Switching
  <2>3. CASE Disposes
    <3>1. /\ Switching /\ active' = active /\ host'.provider = None
          /\ switch'.at # "idle" /\ switch'.from = switch.from /\ switch'.to = switch.to
          /\ switch'.torn = switch.torn /\ switch'.incomplete = switch.incomplete
      BY <2>3, <2>t DEF Disposes, Disposed, Goto, At, Switching, Hosts, Switches
    <3>2. CASE host.provider = None
      BY <3>1, <3>2 DEF Transaction!vars, Switching
    <3>3. CASE host.provider # None
      <4>1. Transaction!Close
        BY <3>1, <3>3, <2>s DEF Transaction!Close, Transaction!MayTear, Switching
      <4> QED
        BY <4>1
    <3> QED
      BY <3>2, <3>3
  <2>4. CASE Opens
    <3>1. /\ Switching /\ active' = active /\ host'.provider = switch.to
          /\ switch'.at # "idle" /\ switch'.from = switch.from /\ switch'.to = switch.to
          /\ switch'.torn = switch.torn /\ switch'.incomplete = switch.incomplete
      BY <2>4, <2>t DEF Opens, Opened, At, Switching, Hosts, Switches
    <3>2. host.provider = None /\ (~torn => active = switch.from)
      BY <2>4, <2>t DEF Opens, At, Steps, Served, Progress, Switching, UndoSteps
    <3>3. Transaction!Open
      BY <3>1, <3>2, <2>s DEF Transaction!Open, Transaction!MayTear, Switching
    <3> QED
      BY <3>3
  <2>5. CASE Commits
    <3>1. /\ Switching /\ active' = switch.to /\ host' = host /\ host.provider = switch.to
          /\ switch'.at # "idle" /\ switch'.from = switch.from /\ switch'.to = switch.to
          /\ switch'.torn = switch.torn /\ switch'.incomplete = switch.incomplete
      BY <2>5, <2>t DEF Commits, At, Steps, Switching, Switches
    <3>2. Transaction!Commit
      BY <3>1, <2>s DEF Transaction!Commit, Switching
    <3> QED
      BY <3>2
  <2>6. CASE Binds
    <3>1. /\ Switching /\ active' = active /\ host'.provider = host.provider
          /\ host.provider = switch.to /\ active = switch.to
          /\ switch'.at = "idle" /\ switch'.from = active /\ switch'.torn = FALSE
          /\ switch'.incomplete = FALSE
      BY <2>6, <2>t DEF Binds, NoSwitch, At, Steps, Switching, Hosts
    <3>2. Transaction!Complete
      BY <3>1, <2>s DEF Transaction!Complete, Transaction!Ends, Switching
    <3> QED
      BY <3>2
  <2>7. CASE SwitchFails
    <3>1. /\ Switching /\ active' = active
          /\ host' = Disposed \/ host' = host
          /\ Goto(Undo(host'))
      BY <2>7 DEF SwitchFails, Switching, SwitchSteps
    <3>2. /\ switch'.at # "idle" /\ switch'.from = switch.from /\ switch'.to = switch.to
          /\ switch'.torn = switch.torn /\ switch'.incomplete = switch.incomplete
      BY <3>1, <2>t DEF Goto, Undo, Switches
    <3>3. host'.provider = None \/ host'.provider = host.provider
      BY <3>1, <2>t DEF Disposed, Hosts
    <3>4. CASE host'.provider = host.provider
      BY <3>1, <3>2, <3>4 DEF Transaction!vars, Switching
    <3>5. CASE host'.provider = None /\ host.provider # None
      <4>1. Transaction!Close
        BY <3>1, <3>2, <3>5, <2>s DEF Transaction!Close, Transaction!MayTear, Switching
      <4> QED
        BY <4>1
    <3> QED
      BY <3>3, <3>4, <3>5
  \* A step of the rollback.
  <2>u. ASSUME NEW step \in UndoSteps, NEW ok \in BOOLEAN, Undone(step, ok)
        PROVE  /\ switch'.at # "idle" /\ switch'.from = switch.from /\ switch'.to = switch.to
               /\ (switch'.torn \/ switch'.incomplete) \in {torn, TRUE}
               /\ ~ok => switch'.incomplete
               /\ ok => switch'.torn = switch.torn /\ switch'.incomplete = switch.incomplete
    BY <2>u, <2>t DEF Undone, Switches, UndoSteps
  <2>8. CASE UndoesOpen
    <3>1. PICK ok \in BOOLEAN : Undone(IF switch.committed THEN "undoCommit" ELSE "undoOpen", ok)
      BY <2>8 DEF UndoesOpen
    <3>2. /\ switch'.at # "idle" /\ switch'.from = switch.from /\ switch'.to = switch.to
          /\ (switch'.torn \/ switch'.incomplete) \in {torn, TRUE}
      BY <3>1, <2>u DEF UndoSteps
    <3>3. Switching /\ active' = active /\ host'.provider = None
      BY <2>8, <2>t DEF UndoesOpen, Disposed, At, Switching, Hosts
    <3>4. CASE host.provider # None
      <4>1. Transaction!Close
        BY <3>2, <3>3, <3>4, <2>s DEF Transaction!Close, Transaction!MayTear, Switching
      <4> QED
        BY <4>1
    <3>5. CASE host.provider = None
      <4>1. CASE (switch'.torn \/ switch'.incomplete) = torn
        BY <3>2, <3>3, <3>5, <4>1 DEF Transaction!vars, Switching
      <4>2. CASE (switch'.torn \/ switch'.incomplete) = TRUE
        <5>1. Transaction!Tear
          BY <3>2, <3>3, <3>5, <4>2, <2>s DEF Transaction!Tear, Switching
        <5> QED
          BY <5>1
      <4> QED
        BY <3>2, <4>1, <4>2
    <3> QED
      BY <3>4, <3>5
  <2>9. CASE UndoesCommit
    <3>1. /\ Switching /\ host.provider = None /\ host' = host
      BY <2>9, <2>t DEF UndoesCommit, At, Steps, Switching
    <3>2. /\ switch'.at # "idle" /\ switch'.from = switch.from /\ switch'.to = switch.to
          /\ \/ /\ active' = switch.from
                /\ switch'.torn = switch.torn /\ switch'.incomplete = switch.incomplete
             \/ active' = active /\ switch'.incomplete
      <4>1. CASE switch.from \in archived
        BY <2>9, <4>1, <2>t DEF UndoesCommit, Switches
      <4>2. CASE active' = switch.from /\ Undone("undoOpen", TRUE)
        BY <4>2, <2>u DEF UndoSteps
      <4>3. CASE active' = active /\ Undone("undoOpen", FALSE)
        BY <4>3, <2>u DEF UndoSteps
      <4> QED
        BY <2>9, <4>1, <4>2, <4>3 DEF UndoesCommit
    <3>3. Transaction!Revert \/ Transaction!Tear
      BY <3>1, <3>2, <2>s DEF Transaction!Revert, Transaction!Tear, Switching
    <3> QED
      BY <3>3
  <2>10. CASE Reopens
    <3>1. PICK ok \in BOOLEAN :
            /\ host' \in {Opened(switch.from)} \cup (IF ok THEN {} ELSE {host})
            /\ Undone("undoBind", ok)
      BY <2>10 DEF Reopens
    <3>2. /\ switch'.at # "idle" /\ switch'.from = switch.from /\ switch'.to = switch.to
          /\ (switch'.torn \/ switch'.incomplete) \in {torn, TRUE}
          /\ ~ok => switch'.incomplete
      BY <3>1, <2>u DEF UndoSteps
    <3>3. Switching /\ active' = active /\ host.provider = None /\ (~torn => active = switch.from)
      BY <2>10, <2>t DEF Reopens, At, Steps, Served, Switching, UndoSteps
    <3>4. CASE host' = Opened(switch.from)
      <4>1. host'.provider = switch.from
        BY <3>4, <2>t DEF Opened, Hosts
      <4>2. Transaction!Open
        BY <4>1, <3>2, <3>3, <2>s DEF Transaction!Open, Transaction!MayTear, Switching
      <4> QED
        BY <4>2
    <3>5. CASE host' = host /\ ~ok
      <4>1. Transaction!Tear
        BY <3>2, <3>3, <3>5, <2>s DEF Transaction!Tear, Switching
      <4> QED
        BY <4>1
    <3> QED
      BY <3>1, <3>4, <3>5
  <2>11. CASE SwitchEnds
    <3>1. PICK ok \in BOOLEAN :
            switch' = [NoSwitch(active) EXCEPT !.incomplete = switch.incomplete \/ ~ok,
                                               !.torn = switch.torn \/ switch.incomplete \/ ~ok]
      BY <2>11 DEF SwitchEnds
    <3>2. /\ switch'.at = "idle" /\ switch'.from = active
          /\ (switch'.torn \/ switch'.incomplete) \in {torn, TRUE}
      BY <3>1, <2>t DEF NoSwitch, Switches
    <3>3. Switching /\ active' = active /\ host'.provider = host.provider
      BY <2>11, <2>t DEF SwitchEnds, At, Switching, Hosts
    <3>4. ~torn => active = switch.from /\ host.provider = switch.from
      BY <2>11, <2>t DEF SwitchEnds, At, Served
    <3>5. Transaction!Abandon
      BY <3>2, <3>3, <3>4, <2>s DEF Transaction!Abandon, Transaction!Ends, Transaction!MayTear, Switching
    <3> QED
      BY <3>5
  <2>12. CASE Restart
    <3>1. /\ active' = active /\ host'.provider = active /\ switch'.at = "idle"
          /\ switch'.from = active /\ ~switch'.torn /\ ~switch'.incomplete
      BY <2>12 DEF Restart, StartedHost, NoSwitch
    <3>2. Transaction!Restart
      BY <3>1 DEF Transaction!Restart, Switching
    <3> QED
      BY <3>2
  <2>13. CASE ~SwitchStep /\ ~Restart /\ ~\E t \in Tenants : SwitchStarts(t)
    BY <2>13, <2>k, AroundStutters
  <2> QED
    BY <2>1, <2>2, <2>3, <2>4, <2>5, <2>6, <2>7, <2>8, <2>9, <2>10, <2>11, <2>12, <2>13
    DEF SwitchStep
<1> QED
  BY <1>1, <1>2, Invariance, PTL DEF Spec, ImplementsTransaction, Transaction!Spec
=============================================================================
