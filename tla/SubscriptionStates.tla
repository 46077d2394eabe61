------------------------- MODULE SubscriptionStates -------------------------
(***************************************************************************)
(* The statuses of a subscription and the table of the transitions that    *)
(* SubscriptionStateMachine.cs allows.  Shared by the detailed model       *)
(* (Subscriptions) and by what it implements (SubscriptionLedger).         *)
(***************************************************************************)

Statuses == {"Trial", "Active", "Suspended", "Expired", "Cancelled"}

\* The dictionary ValidTransitions: the statuses a status may change to.
\* Cancelled is the terminal state.
ValidTransitions(from) ==
  CASE from = "Trial"     -> {"Active", "Cancelled", "Expired"}
    [] from = "Active"    -> {"Suspended", "Cancelled", "Expired"}
    [] from = "Suspended" -> {"Active", "Cancelled", "Expired"}
    [] from = "Expired"   -> {"Active", "Cancelled"}
    [] from = "Cancelled" -> {}

\* A status may always be "changed" to itself.
CanTransition(from, to) == from = to \/ to \in ValidTransitions(from)

=============================================================================
