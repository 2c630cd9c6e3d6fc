--------------------------- MODULE PaidInference ---------------------------
(***************************************************************************)
(* What a client is promised for one payment, whatever fails: its payer is *)
(* debited before the payment is accepted, an accepted payment dispatches  *)
(* the external provider at most once, and it is served at most once, by   *)
(* the output of that dispatch. PaymentGateway implements it.              *)
(***************************************************************************)
EXTENDS Naturals

CONSTANT Payments

VARIABLES
  onPaper,     \* TRUE for a gateway that settles without a chain
  charged,     \* payments whose payer has been debited
  dispatches,  \* calls of the provider, by payment
  stage        \* what the gateway tells the client of the payment

vars == <<onPaper, charged, dispatches, stage>>

Init ==
  /\ onPaper \in BOOLEAN
  /\ charged = {}
  /\ dispatches = [p \in Payments |-> 0]
  /\ stage = [p \in Payments |-> "pending"]

Charge(p) ==
  /\ p \notin charged /\ charged' = charged \cup {p}
  /\ UNCHANGED <<onPaper, dispatches, stage>>

Accept(p) ==
  /\ stage[p] = "pending"
  /\ onPaper \/ p \in charged
  /\ stage' = [stage EXCEPT ![p] = "accepted"]
  /\ UNCHANGED <<onPaper, charged, dispatches>>

Fail(p) ==
  /\ stage[p] = "pending"
  /\ stage' = [stage EXCEPT ![p] = "failed"]
  /\ UNCHANGED <<onPaper, charged, dispatches>>

Dispatch(p) ==
  /\ stage[p] = "accepted" /\ dispatches[p] = 0
  /\ dispatches' = [dispatches EXCEPT ![p] = 1]
  /\ UNCHANGED <<onPaper, charged, stage>>

Serve(p) ==
  /\ stage[p] = "accepted" /\ dispatches[p] = 1
  /\ stage' = [stage EXCEPT ![p] = "served"]
  /\ UNCHANGED <<onPaper, charged, dispatches>>

Next ==
  \E p \in Payments :
    Charge(p) \/ Accept(p) \/ Fail(p) \/ Dispatch(p) \/ Serve(p)

Spec == Init /\ [][Next]_vars
=============================================================================
