---------------------------- MODULE OrderLifecycle ----------------------------
(***************************************************************************)
(* What an order tracker promises of each order: it is followed from the   *)
(* moment it is tracked, completes at most once, and each completion is    *)
(* handed to the completion callback exactly once.                         *)
(***************************************************************************)
CONSTANT Orders

VARIABLES
  phase,  \* order -> "new", "tracked" or "completed"
  owed    \* the completed orders whose callback has not returned

LifecycleInit ==
  /\ phase = [o \in Orders |-> "new"]
  /\ owed = {}

Track(o) ==
  /\ phase[o] = "new"
  /\ phase' = [phase EXCEPT ![o] = "tracked"]
  /\ UNCHANGED owed

\* The caller gives up on an order.
Drop(o) ==
  /\ phase[o] = "tracked"
  /\ phase' = [phase EXCEPT ![o] = "new"]
  /\ UNCHANGED owed

Complete(o) ==
  /\ phase[o] = "tracked"
  /\ phase' = [phase EXCEPT ![o] = "completed"]
  /\ owed' = owed \cup {o}

Deliver(o) ==
  /\ o \in owed
  /\ owed' = owed \ {o}
  /\ UNCHANGED phase

LifecycleNext == \E o \in Orders : Track(o) \/ Drop(o) \/ Complete(o) \/ Deliver(o)

LifecycleSpec == LifecycleInit /\ [][LifecycleNext]_<<phase, owed>>
=============================================================================
