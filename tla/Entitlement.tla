---------------------------- MODULE Entitlement ----------------------------
(***************************************************************************)
(* What the payment component promises about the goods of an order,        *)
(* whatever callbacks, cancellations, background jobs, account deletions   *)
(* and crashes happen meanwhile: an order is settled at most once; it is   *)
(* settled by delivering the VIP time it buys to its owner, and only an    *)
(* order whose owner has deleted the account is settled without delivery.  *)
(***************************************************************************)

EXTENDS Naturals

CONSTANT Orders

VARIABLES
  delivered,  \* [Orders -> Nat], how often the goods were delivered
  forfeited,  \* orders settled without delivery
  orphaned    \* orders whose owner's account no longer exists

vars == <<delivered, forfeited, orphaned>>

Init ==
  /\ delivered = [o \in Orders |-> 0]
  /\ forfeited = {}
  /\ orphaned = {}

Unsettled(o) == delivered[o] = 0 /\ o \notin forfeited

Deliver(o) ==
  /\ Unsettled(o)
  /\ o \notin orphaned
  /\ delivered' = [delivered EXCEPT ![o] = 1]
  /\ UNCHANGED <<forfeited, orphaned>>

Forfeit(o) ==
  /\ Unsettled(o)
  /\ o \in orphaned
  /\ forfeited' = forfeited \cup {o}
  /\ UNCHANGED <<delivered, orphaned>>

\* Accounts go away together with the ownership of their orders.
Orphan ==
  /\ orphaned \subseteq orphaned'
  /\ orphaned' \subseteq Orders
  /\ UNCHANGED <<delivered, forfeited>>

Next ==
  \/ \E o \in Orders : Deliver(o) \/ Forfeit(o)
  \/ Orphan

Spec == Init /\ [][Next]_vars
=============================================================================
