--------------------------- MODULE PaymentGateway ---------------------------
(***************************************************************************)
(* The gateway's two state machines over one payments table: settlement    *)
(* (PaymentSettlement) moves a row to settled, inference                   *)
(* (InferenceExecution) consumes it. They share the column status and meet *)
(* in consumePayment, which re-verifies on the chain what settlement       *)
(* recorded, once before the dispatch claim and once before publishing.    *)
(***************************************************************************)
EXTENDS InferenceExecution, Sums

CONSTANTS  \* those of settlement
  Handlers, Subject, Amount, Limit, Deployments, MayRevert, PayerActs, None,
  MaxAttempt, MaxDay, MaxFaults

ASSUME GatewayAssumption ==
  /\ IsFiniteSet(Payments) /\ None \notin Payments
  /\ \A p \in Payments : IsFiniteSet({r \in Requests : PaymentOf[r] = p})
  /\ DOMAIN Subject = Payments
  /\ Amount \in [Payments -> Nat \ {0}]
  /\ Limit \in [DOMAIN Limit -> Nat]
  /\ Deployments \subseteq {"simulated", "mock", "authorized"}
  /\ MaxAttempt \in Nat /\ MaxDay \in Nat \ {0} /\ MaxFaults \in Nat

VARIABLES  \* those of settlement
  deployed, attempt, mode, mandateDay, settleTx, reserved, rowDay, call,
  relayOp, prepaidOp, meter, auth, today, clock, faults, countedDay

S == INSTANCE PaymentSettlement

settleVars == <<deployed, attempt, mode, mandateDay, settleTx, reserved, rowDay,
                call, relayOp, prepaidOp, meter, auth, today, clock, faults,
                countedDay>>
gatewayVars == <<status, settleVars, inferVars>>

GatewayInit == S!Init /\ InitInference

\* consumePayment, the part about the chain, whenever an execution claims its
\* dispatch or takes the payment to publish.
ConsumesProven(c) ==
  caller'[c].at \in {"claimed", "running"} /\ caller'[c].at # caller[c].at =>
    S!ConsumptionProof(PaymentOf[caller[c].request])

Settle == S!Settle /\ UNCHANGED inferVars

InferProven ==
  /\ Infer
  /\ \A c \in Callers : ConsumesProven(c)
  /\ UNCHANGED settleVars

GatewayNext == Settle \/ InferProven

GatewaySpec == GatewayInit /\ [][GatewayNext]_gatewayVars

\* The scheduling of settlement; an inference comes when its client calls.
FairSpec == GatewaySpec /\ S!Fairness

-----------------------------------------------------------------------------
(* Properties.                                                              *)

\* Inference does to a payment nothing settlement does not expect: it consumes
\* settled rows whose proof still stands when the publication commits.
KeepsSettlement == S!Spec

\* How inference sees a payment: not yet paid, settled or consumed.
Seen ==
  [p \in Payments |->
     IF status[p] \in {"settled", "consumed"} THEN status[p] ELSE "open"]

Observed == INSTANCE InferenceExecution WITH status <- Seen

\* Settlement, its retries and its stale executions never take a payment away
\* from an inference that relies on it, nor give it back.
KeepsInference == Observed!Spec

StageOf(p) ==
  CASE status[p] \in {"open", "settling", "settlement_unknown"} -> "pending"
    [] status[p] = "settled"  -> "accepted"
    [] status[p] = "consumed" -> "served"
    [] status[p] = "failed"   -> "failed"

Dispatches(p) == Sum(ran, {r \in Requests : PaymentOf[r] = p})

Promise == INSTANCE PaidInference WITH
  onPaper    <- deployed = "simulated",
  charged    <- {p \in Payments : S!Debited(p)},
  dispatches <- [p \in Payments |-> Dispatches(p)],
  stage      <- [p \in Payments |-> StageOf(p)]

\* With a bounded number of faults, whatever inference does meanwhile, a claim
\* of settlement is resolved (PaymentSettlement!SettlementResolves).
SettlementResolves == S!SettlementResolves

\* The composed gateway keeps the promise made to a client: debited before it
\* is accepted, dispatched at most once, served at most once.
KeepsPromise == Promise!Spec
=============================================================================
