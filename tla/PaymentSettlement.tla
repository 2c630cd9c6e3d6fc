------------------------- MODULE PaymentSettlement -------------------------
(***************************************************************************)
(* Settlement of payment intents by the gateway (gateway.ts): the payments *)
(* table, the PostgreSQL reservation of the daily mandate, the concurrent  *)
(* executions of performSettlement and settleX402ForKey that API requests  *)
(* and the reconciler start, and the chain as those executions see it: one *)
(* journaled relay transaction per operation key, the UsageMeter's replay  *)
(* flag, the state of the payer's EIP-3009 authorization.                  *)
(*                                                                         *)
(* An execution is a process (a handler) that a crash can stop anywhere:   *)
(* its transactions are atomic steps, its calls to the chain are not.      *)
(* settlingStartedAt, the value that fences a stale execution, is an       *)
(* attempt number: every claim draws a new one. A transaction that is      *)
(* mined is final here: forks belong to the signer's journal.              *)
(***************************************************************************)
EXTENDS Integers, Sums

CONSTANTS
  Payments,     \* rows of the payments table
  Handlers,     \* concurrent executions of the settlement code
  Subject,      \* payment -> agent id, or key hash, whose mandate it spends
  Amount,       \* payment -> amountUnits
  Limit,        \* subject that has a mandates row -> dailyLimitUnits
  Deployments,  \* values of PAYMENT_MODE a run considers, "simulated" standing
                \* for a gateway without a UsageMeter
  MayRevert,    \* payments whose on-chain preconditions (balance, validity
                \* window, mandate) may fail when the relay's call is mined
  PayerActs,    \* what the payer may do with its signed authorization by
                \* itself: a subset of {"settle", "deposit", "cancel"}
  None,         \* no payment
  MaxAttempt,   \* bound on the claims of the model
  MaxDay,       \* bound on the UTC days of the model
  MaxFaults     \* bound on crashes, failed calls and overdue executions

Mandated == DOMAIN Limit

ASSUME SettlementAssumption ==
  /\ IsFiniteSet(Payments) /\ None \notin Payments
  /\ DOMAIN Subject = Payments
  /\ Amount \in [Payments -> Nat \ {0}]
  /\ Limit \in [Mandated -> Nat]
  /\ Deployments \subseteq {"simulated", "mock", "authorized"}
  /\ MaxAttempt \in Nat /\ MaxDay \in Nat \ {0} /\ MaxFaults \in Nat

VARIABLES
  deployed,     \* config.PAYMENT_MODE
  status,       \* payments.status
  attempt,      \* payments.settlingStartedAt, 0 when null
  mode,         \* payments.settlementMode, "none" when null
  mandateDay,   \* payments.mandateDayKey, 0 when null
  settleTx,     \* payments.settleTx: the transaction that is the proof
  reserved,     \* mandates.spentTodayUnits
  rowDay,       \* mandates.dayKey
  call,         \* the executions
  relayOp,      \* the journaled payment:<id> or x402:<id>:transfer operation
  prepaidOp,    \* the journaled x402:<id>:prepaid:<fundingTx> operation
  meter,        \* UsageMeter.settled[id]: the transaction that set it
  auth,         \* state of the payer's authorization in the token
  today,        \* the UTC day
  clock,        \* last attempt number drawn
  faults,       \* faults so far
  countedDay    \* history: the day whose budget the reservation counted against

rowVars   == <<status, attempt, mode, mandateDay, settleTx>>
mandVars  == <<reserved, rowDay, countedDay>>
chainVars == <<relayOp, prepaidOp, meter, auth>>
envVars   == <<deployed, today>>
vars == <<rowVars, mandVars, chainVars, envVars, call, clock, faults>>

Statuses == {"open", "settling", "settlement_unknown", "settled", "consumed",
             "failed"}
Stages == {"idle", "reserving", "settling", "waiting", "searching",
           "prepaying", "proven", "reverted", "uncertain"}
Txs == {"none", "simulated", "relay", "prepaid"}
OpStates == {"none", "sent", "success", "reverted"}

NoCall == [at |-> "idle", payment |-> None, attempt |-> 0, day |-> 0,
           tx |-> "none"]
Calls == [at : Stages, payment : Payments \cup {None},
          attempt : 0..MaxAttempt, day : 0..MaxDay, tx : Txs]

TypeOK ==
  /\ deployed \in Deployments
  /\ status \in [Payments -> Statuses]
  /\ attempt \in [Payments -> 0..MaxAttempt]
  /\ mode \in [Payments -> {"none", "simulated", "mock", "authorized", "x402"}]
  /\ mandateDay \in [Payments -> 0..MaxDay]
  /\ settleTx \in [Payments -> Txs]
  /\ reserved \in [Mandated -> Nat]
  /\ rowDay \in [Mandated -> 1..MaxDay]
  /\ call \in [Handlers -> Calls]
  /\ relayOp \in [Payments -> OpStates] /\ prepaidOp \in [Payments -> OpStates]
  /\ meter \in [Payments -> {"none", "relay", "prepaid", "payer"}]
  /\ auth \in [Payments -> {"unused", "used", "deposited", "canceled"}]
  /\ today \in 1..MaxDay /\ clock \in 0..MaxAttempt /\ faults \in 0..MaxFaults
  /\ countedDay \in [Payments -> 0..MaxDay]

Init ==
  /\ deployed \in Deployments
  /\ status = [p \in Payments |-> "open"]
  /\ attempt = [p \in Payments |-> 0]
  /\ mode = [p \in Payments |-> "none"]
  /\ mandateDay = [p \in Payments |-> 0]
  /\ settleTx = [p \in Payments |-> "none"]
  /\ reserved = [s \in Mandated |-> 0]
  /\ rowDay = [s \in Mandated |-> 1]
  /\ call = [h \in Handlers |-> NoCall]
  /\ relayOp = [p \in Payments |-> "none"]
  /\ prepaidOp = [p \in Payments |-> "none"]
  /\ meter = [p \in Payments |-> "none"]
  /\ auth = [p \in Payments |-> "unused"]
  /\ today = 1 /\ clock = 0 /\ faults = 0
  /\ countedDay = [p \in Payments |-> 0]

Fault == faults < MaxFaults /\ faults' = faults + 1
Goto(h, stage) == call' = [call EXCEPT ![h].at = stage]
Enter(h, stage, p, n, day) ==
  call' = [call EXCEPT ![h] = [at |-> stage, payment |-> p, attempt |-> n,
                               day |-> day, tx |-> "none"]]
Finish(h) == call' = [call EXCEPT ![h] = NoCall]

-----------------------------------------------------------------------------
(* Claiming a payment: the transaction at the head of performSettlement and
   settleX402ForKey.                                                        *)

\* A transaction that waits for the mandate row holds the payment's row lock.
RowLocked(p) == \E h \in Handlers : call[h].at = "reserving" /\ call[h].payment = p

UsesAuthorization(p) ==
  \/ mode[p] \in {"authorized", "x402"}
  \/ mode[p] = "none" /\ deployed = "authorized"

\* reserveMandate: what a reservation made for this day finds spent already.
SpentOn(s, day) == IF rowDay[s] = day THEN reserved[s] ELSE 0

CanReserve(p, day) ==
  Subject[p] \in Mandated =>
    SpentOn(Subject[p], day) + Amount[p] <= Limit[Subject[p]]

ReserveFor(p, day) ==
  IF Subject[p] \in Mandated
  THEN /\ reserved' = [reserved EXCEPT ![Subject[p]] =
                         SpentOn(Subject[p], day) + Amount[p]]
       /\ rowDay' = [rowDay EXCEPT ![Subject[p]] = day]
  ELSE UNCHANGED <<reserved, rowDay>>

\* x402Challenge: from now on the intent speaks x402 only, and auth[p] is the
\* authorization of that protocol, whose nonce the payer chooses.
Challenge(p) ==
  /\ deployed = "authorized"
  /\ status[p] = "open" /\ mode[p] = "none" /\ ~RowLocked(p)
  /\ mode' = [mode EXCEPT ![p] = "x402"]
  /\ auth' = [auth EXCEPT ![p] = "unused"]
  /\ UNCHANGED <<status, attempt, mandateDay, settleTx, mandVars, relayOp,
                 prepaidOp, meter, call, envVars, clock, faults>>

\* An open payment: row lock, admission (an x402 authorization must still be
\* unused on chain), then assertMandateTx reads the day and waits for the
\* mandate row, which other payments of the subject lock too.
BeginClaim(h, p) ==
  /\ call[h].at = "idle"
  /\ status[p] = "open" /\ ~RowLocked(p)
  /\ mode[p] = "x402" => auth[p] = "unused"
  /\ Enter(h, "reserving", p, 0, today)
  /\ UNCHANGED <<rowVars, mandVars, chainVars, envVars, clock, faults>>

\* The mandate row is ours: reserve, write the claim, commit. The payment is
\* labelled with the day read now, the reservation made for the day read then.
Reserve(h) ==
  LET p == call[h].payment IN
  /\ call[h].at = "reserving" /\ CanReserve(p, call[h].day)
  /\ clock < MaxAttempt /\ clock' = clock + 1
  /\ ReserveFor(p, call[h].day)
  /\ countedDay' = [countedDay EXCEPT ![p] = call[h].day]
  /\ status' = [status EXCEPT ![p] = "settling"]
  /\ attempt' = [attempt EXCEPT ![p] = clock + 1]
  /\ mode' = [mode EXCEPT ![p] = IF @ = "none" THEN deployed ELSE @]
  /\ mandateDay' = [mandateDay EXCEPT ![p] = today]
  /\ Enter(h, "settling", p, clock + 1, 0)
  /\ UNCHANGED <<settleTx, chainVars, envVars, faults>>

\* MandateBreachError: the transaction rolls back.
Refuse(h) ==
  /\ call[h].at = "reserving" /\ ~CanReserve(call[h].payment, call[h].day)
  /\ Finish(h)
  /\ UNCHANGED <<rowVars, mandVars, chainVars, envVars, clock, faults>>

\* (mutant) The reconciler overlooks the x402 intents.
ResumableV1Only(p) == status[p] = "settlement_unknown" /\ mode[p] # "x402"

Resumable(p) == status[p] = "settlement_unknown"

\* settlement_unknown: the reconciler, or a client's retry, resumes the stored
\* intent under a new attempt. The mandate stays reserved from the first claim.
Resume(h, p) ==
  /\ call[h].at = "idle" /\ clock < MaxAttempt
  /\ Resumable(p)
  /\ clock' = clock + 1
  /\ status' = [status EXCEPT ![p] = "settling"]
  /\ attempt' = [attempt EXCEPT ![p] = clock + 1]
  /\ Enter(h, "settling", p, clock + 1, 0)
  /\ UNCHANGED <<mode, mandateDay, settleTx, mandVars, chainVars, envVars, faults>>

-----------------------------------------------------------------------------
(* Between claim and record: the facilitator's calls to the chain. An
   operation key names one journaled transaction for ever: sending it again
   finds it, whatever became of it.                                         *)

SendOp(op, p) == [op EXCEPT ![p] = IF @ = "none" THEN "sent" ELSE @]
Proven(h, tx) ==
  call' = [call EXCEPT ![h] = [call[h] EXCEPT !.at = "proven", !.tx = tx]]

\* simulated: there is no meter and the payment is settled on paper.
SettleSimulated(h) ==
  /\ call[h].at = "settling" /\ mode[call[h].payment] = "simulated"
  /\ Proven(h, "simulated")
  /\ UNCHANGED <<rowVars, mandVars, chainVars, envVars, clock, faults>>

Submit(h) ==
  LET p == call[h].payment IN
  /\ call[h].at = "settling" /\ mode[p] # "simulated"
  /\ relayOp' = SendOp(relayOp, p)
  /\ Goto(h, "waiting")
  /\ UNCHANGED <<rowVars, mandVars, prepaidOp, meter, auth, envVars, clock, faults>>

\* confirmDurableTransaction, then verifySettlementProof.
RelayConfirmed(h) ==
  LET p == call[h].payment IN
  /\ call[h].at = "waiting" /\ relayOp[p] = "success" /\ meter[p] = "relay"
  /\ Proven(h, "relay")
  /\ UNCHANGED <<rowVars, mandVars, chainVars, envVars, clock, faults>>

\* TransactionRevertedError: conclusive, except for x402, where somebody else
\* may have submitted the same authorization to the token.
RelayReverted(h) ==
  LET p == call[h].payment IN
  /\ call[h].at = "waiting" /\ relayOp[p] = "reverted"
  /\ Goto(h, IF mode[p] = "x402" THEN "searching" ELSE "reverted")
  /\ UNCHANGED <<rowVars, mandVars, chainVars, envVars, clock, faults>>

\* (mutant) A used nonce is taken for a deposit.
ProvesFundingByNonce(p) == auth[p] # "unused"

\* verifyX402FundingProof: a direct token transfer under this authorization.
ProvesFunding(p) == auth[p] = "deposited"

FundingFound(h) ==
  LET p == call[h].payment IN
  /\ call[h].at = "searching" /\ ProvesFunding(p)
  /\ prepaidOp' = SendOp(prepaidOp, p)
  /\ Goto(h, "prepaying")
  /\ UNCHANGED <<rowVars, mandVars, relayOp, meter, auth, envVars, clock, faults>>

NoFunding(h) ==
  /\ call[h].at = "searching" /\ ~ProvesFunding(call[h].payment)
  /\ Goto(h, "uncertain")
  /\ UNCHANGED <<rowVars, mandVars, chainVars, envVars, clock, faults>>

PrepaidConfirmed(h) ==
  LET p == call[h].payment IN
  /\ call[h].at = "prepaying" /\ prepaidOp[p] = "success" /\ meter[p] = "prepaid"
  /\ Proven(h, "prepaid")
  /\ UNCHANGED <<rowVars, mandVars, chainVars, envVars, clock, faults>>

PrepaidReverted(h) ==
  /\ call[h].at = "prepaying" /\ prepaidOp[call[h].payment] = "reverted"
  /\ Goto(h, "uncertain")
  /\ UNCHANGED <<rowVars, mandVars, chainVars, envVars, clock, faults>>

\* (mutant) An error of the first call is taken for a revert.
ErrorStagesConclusive(h) == IF mode[call[h].payment] = "x402" THEN {"uncertain"} ELSE {"reverted"}

\* Where an RPC error, a timeout or a database error leads. In x402 an error
\* around the first transaction makes the code look for a deposit.
ErrorStages(h) ==
  IF mode[call[h].payment] = "x402" /\ call[h].at \in {"settling", "waiting"}
  THEN {"searching"} \cup (IF call[h].at = "settling" THEN {"uncertain"} ELSE {})
  ELSE {"uncertain"}

\* A call fails; a failed Submit may have journaled the transaction or not.
CallFails(h) ==
  LET p == call[h].payment IN
  /\ Fault
  /\ call[h].at \in {"settling", "waiting", "searching", "prepaying", "proven"}
  /\ \/ relayOp' = relayOp
     \/ /\ call[h].at = "settling" /\ mode[p] # "simulated"
        /\ relayOp' = SendOp(relayOp, p)
  /\ \E stage \in ErrorStages(h) : Goto(h, stage)
  /\ UNCHANGED <<rowVars, mandVars, prepaidOp, meter, auth, envVars, clock>>

-----------------------------------------------------------------------------
(* Recording the outcome: updates fenced by status and settlingStartedAt.    *)

\* (mutant) The update names the payment only.
IsCurrentUnfenced(h) == call[h].payment \in Payments

\* (mutant) The update forgets settlingStartedAt.
IsCurrentByStatus(h) == status[call[h].payment] = "settling"

IsCurrent(h) ==
  /\ status[call[h].payment] = "settling"
  /\ attempt[call[h].payment] = call[h].attempt

Settled(h) ==
  LET p == call[h].payment IN
  IF IsCurrent(h)
  THEN /\ status' = [status EXCEPT ![p] = "settled"]
       /\ settleTx' = [settleTx EXCEPT ![p] = call[h].tx]
       /\ attempt' = [attempt EXCEPT ![p] = 0]
  ELSE UNCHANGED <<status, settleTx, attempt>>

RecordSettled(h) ==
  /\ call[h].at = "proven"
  /\ Settled(h) /\ Finish(h)
  /\ UNCHANGED <<mode, mandateDay, mandVars, chainVars, envVars, clock, faults>>

\* The update commits but its acknowledgement is lost: the catch block runs.
RecordSettledUnacknowledged(h) ==
  /\ Fault /\ call[h].at = "proven"
  /\ Settled(h) /\ Goto(h, "uncertain")
  /\ UNCHANGED <<mode, mandateDay, mandVars, chainVars, envVars, clock>>

\* (mutant) The refund forgets the day.
RefundAppliesAnyDay(p) == Subject[p] \in Mandated

\* The day a refund must match, for the row of the subject still to hold it.
RefundApplies(p) == Subject[p] \in Mandated /\ rowDay[Subject[p]] = mandateDay[p]

Refund(p) ==
  IF RefundApplies(p)
  THEN reserved' = [reserved EXCEPT ![Subject[p]] =
                      IF @ > Amount[p] THEN @ - Amount[p] ELSE 0]
  ELSE reserved' = reserved

\* A mined revert: failed, and the reservation of the day is given back.
RecordReverted(h) ==
  LET p == call[h].payment IN
  /\ call[h].at = "reverted"
  /\ IF IsCurrent(h)
     THEN status' = [status EXCEPT ![p] = "failed"] /\ Refund(p)
     ELSE UNCHANGED <<status, reserved>>
  /\ Finish(h)
  /\ UNCHANGED <<attempt, mode, mandateDay, settleTx, rowDay, countedDay,
                 chainVars, envVars, clock, faults>>

RecordUnknown(h) ==
  /\ call[h].at = "uncertain"
  /\ status' = IF IsCurrent(h)
               THEN [status EXCEPT ![call[h].payment] = "settlement_unknown"]
               ELSE status
  /\ Finish(h)
  /\ UNCHANGED <<attempt, mode, mandateDay, settleTx, mandVars, chainVars,
                 envVars, clock, faults>>

\* The process stops: transactions in progress roll back, the rest is lost.
Crash(h) ==
  /\ Fault /\ call[h].at # "idle" /\ Finish(h)
  /\ UNCHANGED <<rowVars, mandVars, chainVars, envVars, clock>>

\* The reconciler, here or in the worker: a claim older than 120 s is
\* uncertain. Its execution may still run, which is the case worth counting.
Overdue(p) ==
  /\ status[p] = "settling"
  /\ IF \E h \in Handlers : call[h].payment = p /\ call[h].attempt = attempt[p]
     THEN Fault ELSE faults' = faults
  /\ status' = [status EXCEPT ![p] = "settlement_unknown"]
  /\ UNCHANGED <<attempt, mode, mandateDay, settleTx, mandVars, chainVars,
                 call, envVars, clock>>

-----------------------------------------------------------------------------
(* The chain, the payer, the clock, and inference (InferenceExecution).      *)

\* The meter takes one settlement per payment id, the token one use per
\* authorization.
RelayCanSettle(p) ==
  meter[p] = "none" /\ (UsesAuthorization(p) => auth[p] = "unused")

MineRelay(p) ==
  /\ relayOp[p] = "sent"
  /\ \/ /\ RelayCanSettle(p)
        /\ relayOp' = [relayOp EXCEPT ![p] = "success"]
        /\ meter' = [meter EXCEPT ![p] = "relay"]
        /\ auth' = IF UsesAuthorization(p) THEN [auth EXCEPT ![p] = "used"] ELSE auth
     \/ /\ RelayCanSettle(p) => p \in MayRevert
        /\ relayOp' = [relayOp EXCEPT ![p] = "reverted"]
        /\ UNCHANGED <<meter, auth>>
  /\ UNCHANGED <<rowVars, mandVars, prepaidOp, call, envVars, clock, faults>>

Deposits == {p \in Payments : auth[p] = "deposited"}
Withdrawn == {p \in Payments : meter[p] = "prepaid"}

PoolCovers(p) ==
  Sum(Amount, Deposits) >= Sum(Amount, Withdrawn) + Amount[p]

\* settlePrepaidTransfer sees that the authorization is spent and that the
\* meter's pooled balance suffices: it cannot see whose deposit it spends.
PrepaidCanSettle(p) ==
  meter[p] = "none" /\ auth[p] \in {"deposited", "canceled"} /\ PoolCovers(p)

MinePrepaid(p) ==
  /\ prepaidOp[p] = "sent"
  /\ \/ /\ PrepaidCanSettle(p)
        /\ prepaidOp' = [prepaidOp EXCEPT ![p] = "success"]
        /\ meter' = [meter EXCEPT ![p] = "prepaid"]
     \/ /\ PrepaidCanSettle(p) => p \in MayRevert
        /\ prepaidOp' = [prepaidOp EXCEPT ![p] = "reverted"]
        /\ meter' = meter
  /\ UNCHANGED <<rowVars, mandVars, relayOp, auth, call, envVars, clock, faults>>

\* The payer holds the signature: it may call the meter itself, hand a direct
\* transfer to the token, or cancel the authorization.
PayerSpends(p, act, result) ==
  /\ act \in PayerActs /\ UsesAuthorization(p) /\ auth[p] = "unused"
  /\ auth' = [auth EXCEPT ![p] = result]
  /\ UNCHANGED <<rowVars, mandVars, relayOp, prepaidOp, call, envVars, clock, faults>>

PayerSettles(p) ==
  /\ PayerSpends(p, "settle", "used")
  /\ meter[p] = "none" /\ meter' = [meter EXCEPT ![p] = "payer"]

PayerDeposits(p) ==
  /\ mode[p] = "x402" /\ PayerSpends(p, "deposit", "deposited") /\ meter' = meter

PayerCancels(p) == PayerSpends(p, "cancel", "canceled") /\ meter' = meter

NextDay ==
  /\ today < MaxDay /\ today' = today + 1
  /\ UNCHANGED <<rowVars, mandVars, chainVars, deployed, call, clock, faults>>

\* consumePayment: the transaction that publishes a receipt re-verifies the
\* settlement's proof and, for a recovered x402 payment, the deposit's.
ConsumptionProof(p) ==
  \/ mode[p] = "simulated"
  \/ /\ settleTx[p] # "none" /\ meter[p] = settleTx[p]
     /\ settleTx[p] = "prepaid" => ProvesFunding(p)

Consume(p) ==
  /\ status[p] = "settled" /\ ConsumptionProof(p)
  /\ status' = [status EXCEPT ![p] = "consumed"]
  /\ UNCHANGED <<attempt, mode, mandateDay, settleTx, mandVars, chainVars,
                 call, envVars, clock, faults>>

-----------------------------------------------------------------------------

\* What an execution does next when nothing fails.
Proceed(h) ==
  \/ Reserve(h) \/ Refuse(h)
  \/ SettleSimulated(h) \/ Submit(h)
  \/ RelayConfirmed(h) \/ RelayReverted(h)
  \/ FundingFound(h) \/ NoFunding(h)
  \/ PrepaidConfirmed(h) \/ PrepaidReverted(h)
  \/ RecordSettled(h) \/ RecordReverted(h) \/ RecordUnknown(h)

Fails(h) == CallFails(h) \/ RecordSettledUnacknowledged(h) \/ Crash(h)
Payer(p) == PayerSettles(p) \/ PayerDeposits(p) \/ PayerCancels(p)
Mine(p) == MineRelay(p) \/ MinePrepaid(p)

\* Everything but the consumption of a settled payment, which is inference's.
Settle ==
  \/ \E h \in Handlers : Proceed(h) \/ Fails(h)
  \/ \E h \in Handlers, p \in Payments : BeginClaim(h, p) \/ Resume(h, p)
  \/ \E p \in Payments : Challenge(p) \/ Overdue(p) \/ Mine(p) \/ Payer(p)
  \/ NextDay

Next == Settle \/ \E p \in Payments : Consume(p)

Spec == Init /\ [][Next]_vars

\* Promises are driven by the event loop; blocks are produced; the reconciler
\* polls every 15 s. Claims by clients, the payer's acts and faults are not.
Fairness ==
  /\ \A h \in Handlers : WF_vars(Proceed(h))
  /\ \A p \in Payments :
       /\ WF_vars(Mine(p))
       /\ WF_vars(Overdue(p))
       /\ WF_vars(\E h \in Handlers : Resume(h, p))

FairSpec == Spec /\ Fairness

-----------------------------------------------------------------------------
(* Properties.                                                              *)

\* The payer's money has moved for this payment.
Debited(p) == meter[p] \in {"relay", "payer"} \/ auth[p] = "deposited"

\* A payment is accepted, and later consumed by an inference, only when the
\* recorded transaction settled it on the meter and its own payer was debited,
\* never on the strength of somebody else's deposit (gateway.ts
\* performSettlement, settleX402ForKey; UsageMeter.settlePrepaidTransfer).
NoFreeService ==
  \A p \in Payments :
    status[p] \in {"settled", "consumed"} /\ mode[p] # "simulated" =>
      meter[p] = settleTx[p] /\ Debited(p)

\* A payment the gateway declared failed, and whose reservation it gave back,
\* is never charged by a transaction of the relay, sent before or after.
FailedNeverCharged ==
  \A p \in Payments :
    status[p] = "failed" => meter[p] \notin {"relay", "prepaid"}

\* Payments whose reservation counted against this day of the subject's budget.
Holders(s, day) ==
  {p \in Payments : /\ Subject[p] = s /\ countedDay[p] = day
                    /\ status[p] \notin {"open", "failed"}}

HeldOn(s, day) == Sum(Amount, Holders(s, day))

\* A claim that read the day before midnight and was written after it.
Straddled == \E p \in Payments : countedDay[p] # mandateDay[p]

\* As long as no claim straddled midnight, the mandate row holds exactly the
\* amounts of the payments of its day that did not fail, whatever was resumed,
\* timed out, refunded or rolled over, and never more than the limit
\* (assertMandateTx, the refund of performSettlement).
ReservationsExact ==
  ~Straddled =>
    \A s \in Mandated :
      reserved[s] = HeldOn(s, rowDay[s]) /\ reserved[s] <= Limit[s]

\* A settled payment can only be consumed, a consumed or failed one is final:
\* no stale execution resurrects it (the fences of gateway.ts).
NeverReopened ==
  [][\A p \in Payments :
       /\ status[p] = "settled" => status'[p] \in {"settled", "consumed"}
       /\ status[p] \in {"consumed", "failed"} => status'[p] = status[p]]_vars

\* While an attempt is in progress, only its own execution records an outcome
\* for it: an older one, still running, changes nothing. The reconciler may
\* declare it uncertain.
OnlyCurrentAttemptRecords ==
  [][\A p \in Payments :
       status[p] = "settling" /\ status'[p] # "settling" =>
         \/ call' = call /\ status'[p] = "settlement_unknown"
         \/ \E h \in Handlers : /\ call'[h] # call[h]
                                /\ call[h].payment = p
                                /\ call[h].attempt = attempt[p]]_vars

\* The payer made the relay's call impossible: no transaction of the relay will
\* ever prove what happened.
Thwarted(p) == auth[p] = "canceled" \/ meter[p] = "payer"

\* With a bounded number of faults and on-chain preconditions that hold, every
\* claim is resolved unless its payer thwarts it: crashes, lost answers and a
\* deposit that beats the relay are recovered by the reconciler.
SettlementResolves ==
  \A p \in Payments :
    status[p] \in {"settling", "settlement_unknown"} ~>
      status[p] \in {"settled", "consumed", "failed"} \/ Thwarted(p)

\* gateway.ts, the catch block of performSettlement: "Only a mined revert
\* proves no transfer happened."
RevertProvesNoTransfer ==
  \A p \in Payments : status[p] = "failed" => ~Debited(p)

\* _backend/README.md: "PostgreSQL also reserves the caller's daily limit
\* while settlement is in progress."
DailyLimitHeld ==
  \A s \in Mandated : \A day \in 1..MaxDay : HeldOn(s, day) <= Limit[s]
=============================================================================
