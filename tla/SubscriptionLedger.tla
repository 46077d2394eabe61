------------------------- MODULE SubscriptionLedger -------------------------
(***************************************************************************)
(* What the SaaS service promises about its stored subscriptions, one row  *)
(* at a time: every visible change is one legal step from the row that was *)
(* visible before it, whoever else was working on the row meanwhile.       *)
(*   - a row is opened once, for one tenant, on trial or active;           *)
(*   - its status only ever follows the transition table;                  *)
(*   - a cancelled row is never billed again and never comes back;         *)
(*   - a removed (soft deleted) row does not change any more.              *)
(***************************************************************************)
EXTENDS SubscriptionStates

CONSTANTS SubIds,   \* identifiers of subscriptions
          Tenants,  \* identifiers of tenants
          Absent    \* the value of an identifier no row was opened for

VARIABLE ledger     \* for each identifier, Absent or its row

Rows == [owner: Tenants, status: Statuses, billed: BOOLEAN, removed: BOOLEAN]

TypeOK == ledger \in [SubIds -> Rows \cup {Absent}]

Init == ledger = [id \in SubIds |-> Absent]

Live(id) == ledger[id] # Absent /\ ~ledger[id].removed

Store(id, owner, status, billed, removed) ==
  ledger' = [ledger EXCEPT ![id] = [owner |-> owner, status |-> status,
                                    billed |-> billed, removed |-> removed]]

Open(id) ==
  /\ ledger[id] = Absent
  /\ \E t \in Tenants, s \in {"Trial", "Active"}, b \in BOOLEAN :
       Store(id, t, s, b, FALSE)

\* A move of the status machine; cancelling also stops the billing.
Move(id) ==
  /\ Live(id)
  /\ \E s \in ValidTransitions(ledger[id].status) :
       Store(id, ledger[id].owner, s,
             ledger[id].billed /\ s # "Cancelled", FALSE)

\* A change of plan, which may start or stop the billing of a row that is
\* not cancelled.
Rebill(id) ==
  /\ Live(id)
  /\ ledger[id].status # "Cancelled"
  /\ \E b \in BOOLEAN :
       Store(id, ledger[id].owner, ledger[id].status, b, FALSE)

Remove(id) ==
  /\ Live(id)
  /\ Store(id, ledger[id].owner, ledger[id].status, ledger[id].billed, TRUE)

Next == \E id \in SubIds : Open(id) \/ Move(id) \/ Rebill(id) \/ Remove(id)

Spec == Init /\ [][Next]_ledger

=============================================================================
