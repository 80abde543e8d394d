--------------------------- MODULE SwitchTransaction ---------------------------
(***************************************************************************)
(* What the rest of the Host relies on from a switch of environments: it   *)
(* is a transaction on what is active in the registry and what is served.  *)
(* It closes what is served before it opens anything, opens nothing but    *)
(* the two environments it is between, makes the one it goes to active     *)
(* only while that one is served, and the one it came from only while none *)
(* is, and ends with one of the two both active and served.  An undo that  *)
(* is itself incomplete tears the transaction: then only the order holds,  *)
(* until a later one is completed or the Host starts again.                *)
(***************************************************************************)
CONSTANTS
  Tenants,   \* the environments
  None       \* nothing is served

VARIABLES
  active,    \* the environment that is active in the registry
  served,    \* the environment whose Core is open
  from, to,  \* those the transaction is between, the same when there is none
  torn       \* an undo was incomplete

vars == <<active, served, from, to, torn>>

Init ==
  /\ active \in Tenants
  /\ served = active /\ from = active /\ to = active
  /\ torn = FALSE

InFlight == from # to

\* An undo may fail with what it does, or without having done it.
MayTear == torn' \in {torn, TRUE}

Begin ==
  /\ ~InFlight /\ served # None
  /\ from' = active /\ to' \in Tenants \ {active}
  /\ UNCHANGED <<active, served, torn>>

Close ==
  /\ InFlight /\ served # None
  /\ served' = None /\ MayTear
  /\ UNCHANGED <<active, from, to>>

\* Until it is torn, a transaction opens nothing while the other environment is still active.
Open ==
  /\ InFlight /\ served = None
  /\ ~torn => active = from
  /\ served' \in {from, to} /\ MayTear
  /\ UNCHANGED <<active, from, to>>

Commit ==
  /\ InFlight /\ served = to
  /\ active' = to
  /\ UNCHANGED <<served, from, to, torn>>

Revert ==
  /\ InFlight /\ served = None
  /\ active' = from
  /\ UNCHANGED <<served, from, to, torn>>

Tear ==
  /\ InFlight /\ torn' = TRUE
  /\ UNCHANGED <<active, served, from, to>>

Ends == from' = active /\ to' = active /\ UNCHANGED <<active, served>>

Complete ==
  /\ InFlight /\ active = to /\ served = to
  /\ torn' = FALSE /\ Ends

Abandon ==
  /\ InFlight /\ MayTear
  /\ ~torn => active = from /\ served = from
  /\ Ends

\* A crash at any point: the registry says what is served.
Restart ==
  /\ served' = active /\ from' = active /\ to' = active /\ torn' = FALSE
  /\ UNCHANGED active

Next == Begin \/ Close \/ Open \/ Commit \/ Revert \/ Tear \/ Complete \/ Abandon \/ Restart

Spec == Init /\ [][Next]_vars
=============================================================================
