----------------------- MODULE PaymentSettlementProofs -----------------------
(***************************************************************************)
(* The safety properties of PaymentSettlement proved for any payments,     *)
(* executions, limits, bounds and faults.                                  *)
(*                                                                         *)
(* The argument has two halves. Some facts are final once true (Final): a  *)
(* chosen mode, the outcome of a journaled operation, the meter's flag, a  *)
(* deposit. And what an execution knows at each stage (HInv) is made of    *)
(* such facts, so that it is still right when the execution, however late, *)
(* writes its conclusion into the row (PInv). The arithmetic of the        *)
(* mandate (BudgetInv) comes last: only a claim and a refund touch it.     *)
(***************************************************************************)
EXTENDS PaymentSettlement, SumsProofs, TLAPS

\* The evidence a payment is accepted on.
Accepted(p, tx) ==
  \/ mode[p] = "simulated"
  \/ tx \in {"relay", "prepaid"} /\ meter[p] = tx /\ Debited(p)

PInv(p) ==
  /\ mode[p] = "none" => status[p] = "open"
  /\ meter[p] = "relay" => relayOp[p] = "success"
  /\ meter[p] = "prepaid" => prepaidOp[p] # "none"
  /\ prepaidOp[p] # "none" => mode[p] = "x402"
  /\ auth[p] = "deposited" => mode[p] = "x402"
  /\ status[p] = "failed" => relayOp[p] = "reverted" /\ mode[p] # "x402"
  /\ status[p] \in {"settled", "consumed"} => Accepted(p, settleTx[p])

\* What an execution has learned when it is at this stage for this payment.
Knows(stage, p, tx) ==
  /\ stage \notin {"idle", "reserving"} => mode[p] # "none"
  /\ stage \in {"searching", "prepaying"} => mode[p] = "x402"
  /\ stage = "prepaying" => auth[p] = "deposited"
  /\ stage = "reverted" => relayOp[p] = "reverted" /\ mode[p] # "x402"
  /\ stage = "proven" => Accepted(p, tx)

HInv(h) ==
  call[h].at # "idle" =>
    /\ call[h].payment \in Payments
    /\ Knows(call[h].at, call[h].payment, call[h].tx)
    /\ call[h].at = "reserving" =>
         call[h].day \in 1..MaxDay /\ status[call[h].payment] = "open"

\* The row lock of a claim in progress.
ReserversDistinct ==
  \A g, h \in Handlers :
    /\ call[g].at = "reserving" /\ call[h].at = "reserving"
    /\ call[g].payment = call[h].payment
    => g = h

IInv ==
  /\ TypeOK /\ ReserversDistinct
  /\ \A p \in Payments : PInv(p)
  /\ \A h \in Handlers : HInv(h)

\* The facts no step takes back.
Final(p) ==
  /\ mode[p] # "none" => mode'[p] = mode[p]
  /\ relayOp[p] \in {"success", "reverted"} => relayOp'[p] = relayOp[p]
  /\ prepaidOp[p] # "none" => prepaidOp'[p] # "none"
  /\ meter[p] # "none" => meter'[p] = meter[p]
  /\ auth[p] = "deposited" => auth'[p] = "deposited"
-----------------------------------------------------------------------------
(* Executions: the types of their records, and what outlives other steps.    *)

\* Moving a handler to its next await changes where it stands and nothing else it carries.
LEMMA GotoFacts ==
  ASSUME TypeOK, NEW h \in Handlers, NEW stage \in Stages, Goto(h, stage)
  PROVE  /\ call' \in [Handlers -> Calls]
         /\ call'[h].at = stage /\ call'[h].payment = call[h].payment
         /\ call'[h].tx = call[h].tx /\ call'[h].day = call[h].day
         /\ \A g \in Handlers : g # h => call'[g] = call[g]
  <1>1. call \in [Handlers -> Calls]
    BY DEF TypeOK
  <1>2. [call[h] EXCEPT !.at = stage] \in Calls
    BY <1>1 DEF Calls
  <1> QED
    BY <1>1, <1>2 DEF Goto, Calls

\* A handler that has a proof carries the transaction it proves and keeps its payment and its attempt.
LEMMA ProvenFacts ==
  ASSUME TypeOK, NEW h \in Handlers, NEW tx \in Txs, Proven(h, tx)
  PROVE  /\ call' \in [Handlers -> Calls]
         /\ call'[h].at = "proven" /\ call'[h].payment = call[h].payment
         /\ call'[h].tx = tx
         /\ \A g \in Handlers : g # h => call'[g] = call[g]
  <1>1. call \in [Handlers -> Calls]
    BY DEF TypeOK
  <1>2. [call[h] EXCEPT !.at = "proven", !.tx = tx] \in Calls
    BY <1>1 DEF Calls, Stages
  <1> QED
    BY <1>1, <1>2 DEF Proven, Calls

\* A handler that claims a payment carries that payment, the attempt it stamped and the day it read.
LEMMA EnterFacts ==
  ASSUME TypeOK, NEW h \in Handlers, NEW stage \in Stages, NEW p \in Payments,
         NEW n \in 0..MaxAttempt, NEW day \in 0..MaxDay, Enter(h, stage, p, n, day)
  PROVE  /\ call' \in [Handlers -> Calls]
         /\ call'[h] = [at |-> stage, payment |-> p, attempt |-> n, day |-> day,
                        tx |-> "none"]
         /\ \A g \in Handlers : g # h => call'[g] = call[g]
  BY DEF TypeOK, Enter, Calls, Txs

\* A handler that returns forgets its attempt and touches no other handler.
LEMMA FinishFacts ==
  ASSUME TypeOK, NEW h \in Handlers, Finish(h)
  PROVE  /\ call' \in [Handlers -> Calls]
         /\ call'[h].at = "idle"
         /\ \A g \in Handlers : g # h => call'[g] = call[g]
  BY SettlementAssumption DEF TypeOK, Finish, NoCall, Calls, Txs, Stages

\* What the invariant says of one handler, ready to cite: its stage, its transaction and its attempt.
LEMMA CallerFacts ==
  ASSUME IInv, NEW h \in Handlers
  PROVE  /\ call[h].at \in Stages /\ call[h].tx \in Txs
         /\ call[h].day \in 0..MaxDay /\ call[h].attempt \in 0..MaxAttempt
         /\ call[h].at # "idle" => call[h].payment \in Payments
  BY DEF IInv, TypeOK, HInv, Calls

\* What an execution knows outlives the steps of the others.
LEMMA OthersKnow ==
  ASSUME IInv, NEW h \in Handlers, call'[h] = call[h],
         \A p \in Payments : Final(p),
         call[h].at = "reserving" => status'[call[h].payment] = status[call[h].payment]
  PROVE  HInv(h)'
  <1> SUFFICES ASSUME call[h].at # "idle" PROVE HInv(h)'
    BY DEF HInv
  <1> DEFINE p == call[h].payment
  <1>1. p \in Payments /\ Final(p) /\ HInv(h)
    BY DEF IInv, HInv
  <1>2. Knows(call[h].at, p, call[h].tx)
    BY <1>1 DEF HInv
  <1>3. Knows(call[h].at, p, call[h].tx)'
    BY <1>1, <1>2 DEF Knows, Accepted, Debited, Final
  <1> QED
    BY <1>1, <1>3 DEF HInv
-----------------------------------------------------------------------------

\* Open intents, no operation submitted and no handler at work satisfy the invariant.
LEMMA InitIInv == Init => IInv
  <1> SUFFICES ASSUME Init PROVE IInv
    OBVIOUS
  <1> USE SettlementAssumption DEF Init
  <1>1. TypeOK
    BY DEF TypeOK, Statuses, Calls, NoCall, Stages, Txs, OpStates
  <1>2. ReserversDistinct /\ \A h \in Handlers : HInv(h)
    BY DEF ReserversDistinct, HInv, NoCall
  <1>3. \A p \in Payments : PInv(p)
    BY DEF PInv
  <1> QED
    BY <1>1, <1>2, <1>3 DEF IInv

\* An execution that moves on, and may journal an operation, writes no row: it
\* is enough that it knows what its new stage requires.
LEMMA HandlerIInv ==
  ASSUME IInv, NEW h \in Handlers,
         UNCHANGED <<rowVars, mandVars, meter, auth, envVars, clock>>,
         faults' \in 0..MaxFaults,
         call' \in [Handlers -> Calls],
         \A g \in Handlers : g # h => call'[g] = call[g],
         HInv(h)', call'[h].at # "reserving",
         relayOp' = relayOp \/ \E p \in Payments : relayOp' = SendOp(relayOp, p),
         prepaidOp' = prepaidOp \/ \E p \in Payments :
           mode[p] = "x402" /\ prepaidOp' = SendOp(prepaidOp, p)
  PROVE  IInv'
  <1> USE DEF IInv, rowVars, mandVars, envVars
  <1>1. /\ relayOp' \in [Payments -> OpStates]
        /\ \A p \in Payments : relayOp[p] # "none" => relayOp'[p] = relayOp[p]
    BY DEF SendOp, OpStates, TypeOK
  <1>2. /\ prepaidOp' \in [Payments -> OpStates]
        /\ \A p \in Payments : prepaidOp[p] # "none" => prepaidOp'[p] = prepaidOp[p]
        /\ \A p \in Payments : prepaidOp'[p] # "none" =>
                                 prepaidOp[p] # "none" \/ mode[p] = "x402"
    BY DEF SendOp, OpStates, TypeOK
  <1>3. TypeOK'
    BY <1>1, <1>2 DEF TypeOK
  <1>4. \A p \in Payments : Final(p)
    BY <1>1, <1>2 DEF Final
  <1>5. \A g \in Handlers : g # h => HInv(g)'
    BY <1>4, OthersKnow
  <1>6. ReserversDistinct'
    BY DEF ReserversDistinct
  <1>7. \A p \in Payments : PInv(p)'
    BY <1>1, <1>2 DEF PInv, Accepted, Debited
  <1> QED
    BY <1>3, <1>5, <1>6, <1>7

\* The transaction rolled back, or the process is gone.
LEMMA StopIInv ==
  ASSUME IInv, NEW h \in Handlers, Refuse(h) \/ Crash(h)
  PROVE  IInv'
  <1>1. /\ Finish(h) /\ UNCHANGED <<rowVars, mandVars, chainVars, envVars, clock>>
        /\ faults' = faults \/ Fault
    BY DEF Refuse, Crash
  <1>2. faults' \in 0..MaxFaults
    BY <1>1, SettlementAssumption DEF Fault, IInv, TypeOK
  <1>3. /\ call' \in [Handlers -> Calls] /\ call'[h].at = "idle"
        /\ \A g \in Handlers : g # h => call'[g] = call[g]
    BY <1>1, FinishFacts DEF IInv
  <1>4. HInv(h)'
    BY <1>3 DEF HInv
  <1> QED
    BY <1>1, <1>2, <1>3, <1>4, HandlerIInv DEF chainVars

\* Broadcasting the facilitator transaction keeps the invariant.
LEMMA SubmitIInv ==
  ASSUME IInv, NEW h \in Handlers, Submit(h)
  PROVE  IInv'
  <1> DEFINE p == call[h].payment
  <1>1. /\ call[h].at = "settling" /\ Goto(h, "waiting")
        /\ relayOp' = SendOp(relayOp, p)
        /\ UNCHANGED <<rowVars, mandVars, prepaidOp, meter, auth, envVars, clock, faults>>
    BY DEF Submit
  <1>2. p \in Payments /\ mode[p] # "none"
    BY <1>1 DEF IInv, HInv, Knows
  <1>3. /\ call' \in [Handlers -> Calls]
        /\ call'[h].at = "waiting" /\ call'[h].payment = p
        /\ \A g \in Handlers : g # h => call'[g] = call[g]
    BY <1>1, GotoFacts DEF IInv, Stages
  <1> HIDE DEF p
  <1>4. HInv(h)'
    BY <1>1, <1>2, <1>3 DEF HInv, Knows, rowVars
  <1>5. faults' \in 0..MaxFaults
    BY <1>1 DEF IInv, TypeOK
  <1> QED
    BY <1>1, <1>2, <1>3, <1>4, <1>5, HandlerIInv

\* The relay's transaction, found mined, is the proof of the payment.
LEMMA ProvenIInv ==
  ASSUME IInv, NEW h \in Handlers,
         SettleSimulated(h) \/ RelayConfirmed(h) \/ PrepaidConfirmed(h)
  PROVE  IInv'
  <1>1. /\ call[h].at \in {"settling", "waiting", "prepaying"}
        /\ UNCHANGED <<rowVars, mandVars, chainVars, envVars, clock, faults>>
    BY DEF SettleSimulated, RelayConfirmed, PrepaidConfirmed
  <1>2. PICK p \in Payments : p = call[h].payment /\ mode[p] # "none"
    BY <1>1 DEF IInv, HInv, Knows
  <1>3. PICK tx \in Txs : Proven(h, tx) /\ Accepted(p, tx)
    <2>1. CASE SettleSimulated(h)
      BY <1>2, <2>1 DEF SettleSimulated, Accepted, Txs
    <2>2. CASE RelayConfirmed(h)
      BY <1>2, <2>2 DEF RelayConfirmed, Accepted, Debited, Txs
    <2>3. CASE PrepaidConfirmed(h)
      <3>1. auth[p] = "deposited"
        BY <1>2, <2>3 DEF PrepaidConfirmed, IInv, HInv, Knows
      <3> QED
        BY <1>2, <2>3, <3>1 DEF PrepaidConfirmed, Accepted, Debited, Txs
    <2> QED
      BY <2>1, <2>2, <2>3
  <1>4. /\ call' \in [Handlers -> Calls]
        /\ call'[h].at = "proven" /\ call'[h].payment = p /\ call'[h].tx = tx
        /\ \A g \in Handlers : g # h => call'[g] = call[g]
    BY <1>2, <1>3, ProvenFacts DEF IInv
  <1>5. Accepted(p, tx)'
    BY <1>1, <1>3 DEF Accepted, Debited, rowVars, chainVars
  <1>6. HInv(h)'
    BY <1>1, <1>2, <1>4, <1>5 DEF HInv, Knows, rowVars
  <1>7. faults' \in 0..MaxFaults
    BY <1>1 DEF IInv, TypeOK
  <1> QED
    BY <1>1, <1>4, <1>6, <1>7, HandlerIInv DEF chainVars

\* A revert is conclusive only outside x402; an error never is.
LEMMA VerdictIInv ==
  ASSUME IInv, NEW h \in Handlers,
         \/ RelayReverted(h) \/ NoFunding(h) \/ PrepaidReverted(h) \/ CallFails(h)
  PROVE  IInv'
  <1>1. /\ call[h].at \in {"settling", "waiting", "searching", "prepaying", "proven"}
        /\ UNCHANGED <<rowVars, mandVars, prepaidOp, meter, auth, envVars, clock>>
        /\ faults' = faults \/ Fault
        /\ relayOp' = relayOp \/ relayOp' = SendOp(relayOp, call[h].payment)
    BY DEF RelayReverted, NoFunding, PrepaidReverted, CallFails, chainVars
  <1>2. PICK p \in Payments : p = call[h].payment /\ mode[p] # "none"
    BY <1>1 DEF IInv, HInv, Knows
  <1>3. PICK stage \in {"searching", "reverted", "uncertain"} :
          /\ Goto(h, stage)
          /\ stage = "searching" => mode[p] = "x402"
          /\ stage = "reverted" => relayOp[p] = "reverted" /\ mode[p] # "x402"
    <2>1. CASE RelayReverted(h)
      BY <1>2, <2>1 DEF RelayReverted
    <2>2. CASE NoFunding(h) \/ PrepaidReverted(h)
      BY <2>2 DEF NoFunding, PrepaidReverted
    <2>3. CASE CallFails(h)
      <3>1. PICK stage \in ErrorStages(h) : Goto(h, stage)
        BY <2>3 DEF CallFails
      <3>2. /\ stage \in {"searching", "uncertain"}
            /\ stage = "searching" => mode[p] = "x402"
        BY <1>2, <3>1 DEF ErrorStages
      <3> QED
        BY <3>1, <3>2
    <2> QED
      BY <2>1, <2>2, <2>3
  <1>4. /\ call' \in [Handlers -> Calls]
        /\ call'[h].at = stage /\ call'[h].payment = p
        /\ \A g \in Handlers : g # h => call'[g] = call[g]
    BY <1>2, <1>3, GotoFacts DEF IInv, Stages
  <1>5. relayOp[p] = "reverted" => relayOp'[p] = "reverted"
    BY <1>1, <1>2 DEF SendOp, IInv, TypeOK
  <1>6. HInv(h)'
    BY <1>1, <1>2, <1>3, <1>4, <1>5 DEF HInv, Knows, rowVars
  <1>7. faults' \in 0..MaxFaults
    BY <1>1, SettlementAssumption DEF IInv, TypeOK, Fault
  <1> QED
    BY <1>1, <1>2, <1>3, <1>4, <1>6, <1>7, HandlerIInv

\* Finding the proof that the payer already funded the meter keeps the invariant.
LEMMA FundingIInv ==
  ASSUME IInv, NEW h \in Handlers, FundingFound(h)
  PROVE  IInv'
  <1>1. /\ call[h].at = "searching" /\ ProvesFunding(call[h].payment)
        /\ Goto(h, "prepaying")
        /\ prepaidOp' = SendOp(prepaidOp, call[h].payment)
        /\ UNCHANGED <<rowVars, mandVars, relayOp, meter, auth, envVars, clock, faults>>
    BY DEF FundingFound
  <1>2. PICK p \in Payments : p = call[h].payment /\ mode[p] = "x402"
    BY <1>1 DEF IInv, HInv, Knows
  <1>3. /\ call' \in [Handlers -> Calls]
        /\ call'[h].at = "prepaying" /\ call'[h].payment = p
        /\ \A g \in Handlers : g # h => call'[g] = call[g]
    BY <1>1, <1>2, GotoFacts DEF IInv, Stages
  <1>4. HInv(h)'
    BY <1>1, <1>2, <1>3 DEF HInv, Knows, ProvesFunding, rowVars
  <1>5. faults' \in 0..MaxFaults
    BY <1>1 DEF IInv, TypeOK
  <1> QED
    BY <1>1, <1>2, <1>3, <1>4, <1>5, HandlerIInv

\* A claim begins under the row lock, on an open payment.
LEMMA BeginIInv ==
  ASSUME IInv, NEW h \in Handlers, NEW p \in Payments, BeginClaim(h, p)
  PROVE  IInv'
  <1>1. /\ status[p] = "open" /\ ~RowLocked(p) /\ Enter(h, "reserving", p, 0, today)
        /\ UNCHANGED <<rowVars, mandVars, chainVars, envVars, clock, faults>>
    BY DEF BeginClaim
  <1>2. PICK day \in 1..MaxDay : day = today /\ day \in 0..MaxDay /\ 0 \in 0..MaxAttempt
    BY SettlementAssumption DEF IInv, TypeOK
  <1>3. /\ call' \in [Handlers -> Calls]
        /\ call'[h].at = "reserving" /\ call'[h].payment = p /\ call'[h].day = day
        /\ \A g \in Handlers : g # h => call'[g] = call[g]
    <2>1. Enter(h, "reserving", p, 0, day)
      BY <1>1, <1>2 DEF Enter
    <2>2. TypeOK /\ "reserving" \in Stages
      BY DEF IInv, Stages
    <2>3. /\ call' \in [Handlers -> Calls]
          /\ call'[h] = [at |-> "reserving", payment |-> p, attempt |-> 0, day |-> day,
                         tx |-> "none"]
          /\ \A g \in Handlers : g # h => call'[g] = call[g]
      BY <1>2, <2>1, <2>2, EnterFacts
    <2> QED
      BY <2>3
  <1> USE DEF IInv, rowVars, mandVars, chainVars, envVars
  <1>4. TypeOK'
    BY <1>1, <1>3 DEF TypeOK
  <1>5. \A q \in Payments : Final(q) /\ PInv(q)'
    BY <1>1 DEF Final, PInv, Accepted, Debited
  <1>6. HInv(h)'
    BY <1>1, <1>2, <1>3 DEF HInv, Knows
  <1>7. \A g \in Handlers : g # h => HInv(g)'
    BY <1>1, <1>3, <1>5, OthersKnow
  <1>8. ReserversDistinct'
    BY <1>1, <1>3 DEF ReserversDistinct, RowLocked
  <1> QED
    BY <1>4, <1>5, <1>6, <1>7, <1>8

-----------------------------------------------------------------------------
(* The chain and the payer.                                                  *)

\* A step of the chain writes no row: what it changes must fit the row.
LEMMA ChainIInv ==
  ASSUME IInv, UNCHANGED <<rowVars, mandVars, call, envVars, clock, faults>>,
         relayOp' \in [Payments -> OpStates], prepaidOp' \in [Payments -> OpStates],
         meter' \in [Payments -> {"none", "relay", "prepaid", "payer"}],
         auth' \in [Payments -> {"unused", "used", "deposited", "canceled"}],
         \A p \in Payments : Final(p),
         \A p \in Payments :
           /\ meter'[p] = "relay" => relayOp'[p] = "success"
           /\ meter'[p] = "prepaid" => prepaidOp'[p] # "none"
           /\ prepaidOp'[p] # "none" => prepaidOp[p] # "none"
           /\ auth'[p] = "deposited" => auth[p] = "deposited" \/ mode[p] = "x402"
  PROVE  IInv'
  <1> USE DEF IInv, rowVars, mandVars, envVars
  <1>1. TypeOK' /\ ReserversDistinct'
    BY DEF TypeOK, ReserversDistinct
  <1>2. \A h \in Handlers : HInv(h)'
    BY OthersKnow
  <1>3. \A p \in Payments : PInv(p)'
    BY DEF PInv, Accepted, Debited, Final
  <1> QED
    BY <1>1, <1>2, <1>3

\* Mining the relay transaction, settled or reverted, keeps the invariant.
LEMMA MineRelayIInv ==
  ASSUME IInv, NEW p \in Payments, MineRelay(p)
  PROVE  IInv'
  <1> USE DEF IInv, TypeOK, OpStates
  <1>1. /\ relayOp[p] = "sent"
        /\ UNCHANGED <<rowVars, mandVars, prepaidOp, call, envVars, clock, faults>>
    BY DEF MineRelay
  <1>2. CASE /\ RelayCanSettle(p)
             /\ relayOp' = [relayOp EXCEPT ![p] = "success"]
             /\ meter' = [meter EXCEPT ![p] = "relay"]
             /\ auth' = IF UsesAuthorization(p) THEN [auth EXCEPT ![p] = "used"] ELSE auth
    <2>1. meter[p] = "none" /\ (UsesAuthorization(p) => auth[p] = "unused")
      BY <1>2 DEF RelayCanSettle
    <2>2. /\ auth' \in [Payments -> {"unused", "used", "deposited", "canceled"}]
          /\ \A q \in Payments : auth[q] = "deposited" <=> auth'[q] = "deposited"
      BY <1>2, <2>1
    <2>3. \A q \in Payments : Final(q)
      BY <1>1, <1>2, <2>1, <2>2 DEF Final, rowVars
    <2>4. \A q \in Payments :
            /\ meter'[q] = "relay" => relayOp'[q] = "success"
            /\ meter'[q] = "prepaid" => prepaidOp'[q] # "none"
      BY <1>1, <1>2 DEF PInv
    <2> QED
      BY <1>1, <1>2, <2>2, <2>3, <2>4, ChainIInv
  <1>3. CASE relayOp' = [relayOp EXCEPT ![p] = "reverted"] /\ UNCHANGED <<meter, auth>>
    <2>1. \A q \in Payments : Final(q)
      BY <1>1, <1>3 DEF Final, rowVars
    <2>2. \A q \in Payments :
            /\ meter'[q] = "relay" => relayOp'[q] = "success"
            /\ meter'[q] = "prepaid" => prepaidOp'[q] # "none"
      BY <1>1, <1>3 DEF PInv
    <2> QED
      BY <1>1, <1>3, <2>1, <2>2, ChainIInv
  <1> QED
    BY <1>2, <1>3 DEF MineRelay

\* Mining the prepaid settlement, settled or reverted, keeps the invariant.
LEMMA MinePrepaidIInv ==
  ASSUME IInv, NEW p \in Payments, MinePrepaid(p)
  PROVE  IInv'
  <1> USE DEF IInv, TypeOK, OpStates
  <1>1. /\ prepaidOp[p] = "sent"
        /\ prepaidOp' \in {[prepaidOp EXCEPT ![p] = "success"],
                           [prepaidOp EXCEPT ![p] = "reverted"]}
        /\ \/ meter[p] = "none" /\ meter' = [meter EXCEPT ![p] = "prepaid"]
           \/ meter' = meter
        /\ UNCHANGED <<rowVars, mandVars, relayOp, auth, call, envVars, clock, faults>>
    BY DEF MinePrepaid, PrepaidCanSettle
  <1>2. \A q \in Payments : prepaidOp'[q] # "none" <=> prepaidOp[q] # "none"
    BY <1>1
  <1>3. /\ prepaidOp' \in [Payments -> OpStates]
        /\ meter' \in [Payments -> {"none", "relay", "prepaid", "payer"}]
    BY <1>1
  <1>4. \A q \in Payments : Final(q)
    BY <1>1, <1>2 DEF Final, rowVars
  <1>5. \A q \in Payments :
          /\ meter'[q] = "relay" => relayOp'[q] = "success"
          /\ meter'[q] = "prepaid" => prepaidOp'[q] # "none"
    BY <1>1, <1>2 DEF PInv
  <1> QED
    BY <1>1, <1>2, <1>3, <1>4, <1>5, ChainIInv

\* Nothing the payer does on chain by itself breaks the invariant.
LEMMA PayerIInv ==
  ASSUME IInv, NEW p \in Payments, Payer(p)
  PROVE  IInv'
  <1> USE DEF IInv, TypeOK
  <1>1. /\ auth[p] = "unused"
        /\ \/ auth' \in {[auth EXCEPT ![p] = "used"], [auth EXCEPT ![p] = "canceled"]}
           \/ auth' = [auth EXCEPT ![p] = "deposited"] /\ mode[p] = "x402"
        /\ \/ meter[p] = "none" /\ meter' = [meter EXCEPT ![p] = "payer"]
           \/ meter' = meter
        /\ UNCHANGED <<rowVars, mandVars, relayOp, prepaidOp, call, envVars, clock, faults>>
    BY DEF Payer, PayerSettles, PayerDeposits, PayerCancels, PayerSpends
  <1>2. /\ auth' \in [Payments -> {"unused", "used", "deposited", "canceled"}]
        /\ meter' \in [Payments -> {"none", "relay", "prepaid", "payer"}]
    BY <1>1
  <1>3. \A q \in Payments : Final(q)
    BY <1>1 DEF Final, rowVars
  <1>4. \A q \in Payments :
          /\ meter'[q] = "relay" => relayOp'[q] = "success"
          /\ meter'[q] = "prepaid" => prepaidOp'[q] # "none"
          /\ auth'[q] = "deposited" => auth[q] = "deposited" \/ mode[q] = "x402"
    BY <1>1 DEF PInv
  <1> QED
    BY <1>1, <1>2, <1>3, <1>4, ChainIInv
-----------------------------------------------------------------------------
(* Steps that write the row of one payment.                                  *)

\* An execution that waits for the mandate holds an open row.
LEMMA NoReserver ==
  ASSUME IInv, NEW p \in Payments, status[p] # "open", NEW g \in Handlers,
         call[g].at = "reserving"
  PROVE  call[g].payment # p
  BY DEF IInv, HInv

\* A write to one payments row that no chain state accompanies keeps the invariant when that row, and every handler that holds it, still satisfy their parts.
LEMMA RowIInv ==
  ASSUME IInv, NEW p \in Payments, TypeOK', PInv(p)',
         UNCHANGED <<relayOp, prepaidOp, meter>>,
         \A q \in Payments : Final(q),
         \A q \in Payments : q # p =>
           /\ status'[q] = status[q] /\ mode'[q] = mode[q]
           /\ settleTx'[q] = settleTx[q] /\ auth'[q] = auth[q],
         \A g \in Handlers : call[g].at = "reserving" /\ call'[g] = call[g] =>
           call[g].payment # p \/ status'[p] = status[p],
         \A g \in Handlers :
           call'[g] = call[g] \/ (call'[g].at # "reserving" /\ HInv(g)')
  PROVE  IInv'
  <1> USE DEF IInv
  <1>1. \A q \in Payments : q # p => PInv(q)'
    BY DEF PInv, Accepted, Debited
  <1>2. ASSUME NEW g \in Handlers, call'[g] = call[g] PROVE HInv(g)'
    <2>1. ASSUME call[g].at = "reserving"
          PROVE  status'[call[g].payment] = status[call[g].payment]
      <3>1. call[g].payment \in Payments
        BY <2>1 DEF HInv
      <3> QED
        BY <1>2, <2>1, <3>1
    <2> QED
      BY <1>2, <2>1, OthersKnow
  <1>3. ReserversDistinct'
    BY DEF ReserversDistinct
  <1> QED
    BY <1>1, <1>2, <1>3

\* Replacing the payment challenge of an open intent keeps the invariant.
LEMMA ChallengeIInv ==
  ASSUME IInv, NEW p \in Payments, Challenge(p)
  PROVE  IInv'
  <1>1. /\ status[p] = "open" /\ mode[p] = "none" /\ ~RowLocked(p)
        /\ mode' = [mode EXCEPT ![p] = "x402"] /\ auth' = [auth EXCEPT ![p] = "unused"]
        /\ UNCHANGED <<status, attempt, mandateDay, settleTx, mandVars, relayOp,
                       prepaidOp, meter, call, envVars, clock, faults>>
    BY DEF Challenge
  <1> USE DEF IInv, mandVars, envVars
  <1>2. TypeOK'
    BY <1>1 DEF TypeOK
  <1>3. /\ mode'[p] = "x402" /\ auth'[p] = "unused"
        /\ \A q \in Payments : q # p => mode'[q] = mode[q] /\ auth'[q] = auth[q]
    BY <1>1 DEF TypeOK
  <1>4. PInv(p)'
    BY <1>1, <1>3 DEF PInv
  <1>5. auth[p] # "deposited"
    BY <1>1 DEF PInv
  <1>6. \A q \in Payments : Final(q)
    BY <1>1, <1>3, <1>5 DEF Final
  <1>7. \A g \in Handlers : call[g].at = "reserving" => call[g].payment # p
    BY <1>1 DEF RowLocked
  <1> QED
    BY <1>1, <1>2, <1>3, <1>4, <1>6, <1>7, RowIInv

\* Claiming a payment for settlement, with its daily reservation, keeps the invariant.
LEMMA ReserveIInv ==
  ASSUME IInv, NEW h \in Handlers, Reserve(h)
  PROVE  IInv'
  <1> USE DEF IInv
  <1>1. /\ call[h].at = "reserving" /\ clock' = clock + 1 /\ clock < MaxAttempt
        /\ ReserveFor(call[h].payment, call[h].day)
        /\ countedDay' = [countedDay EXCEPT ![call[h].payment] = call[h].day]
        /\ status' = [status EXCEPT ![call[h].payment] = "settling"]
        /\ attempt' = [attempt EXCEPT ![call[h].payment] = clock + 1]
        /\ mode' = [mode EXCEPT ![call[h].payment] = IF @ = "none" THEN deployed ELSE @]
        /\ mandateDay' = [mandateDay EXCEPT ![call[h].payment] = today]
        /\ Enter(h, "settling", call[h].payment, clock + 1, 0)
        /\ UNCHANGED <<settleTx, chainVars, envVars, faults>>
    BY DEF Reserve
  <1>2. PICK p \in Payments : p = call[h].payment
    BY <1>1 DEF HInv
  <1>3. PICK day \in 1..MaxDay : day = call[h].day /\ day \in 0..MaxDay
    BY <1>1, SettlementAssumption DEF HInv
  <1>4. PICK n \in 0..MaxAttempt : n = clock + 1
    BY <1>1, SettlementAssumption DEF TypeOK
  <1>5. status[p] = "open"
    BY <1>1, <1>2 DEF HInv
  <1>6. deployed \in {"simulated", "mock", "authorized"}
    BY SettlementAssumption DEF TypeOK
  <1>7. /\ call' \in [Handlers -> Calls]
        /\ call'[h] = [at |-> "settling", payment |-> p, attempt |-> n, day |-> 0,
                       tx |-> "none"]
        /\ \A g \in Handlers : g # h => call'[g] = call[g]
    <2>1. Enter(h, "settling", p, n, 0)
      BY <1>1, <1>2, <1>4 DEF Enter
    <2>2. "settling" \in Stages /\ 0 \in 0..MaxDay
      BY SettlementAssumption DEF Stages
    <2> QED
      BY <2>1, <2>2, EnterFacts
  <1>8. /\ status' \in [Payments -> Statuses] /\ status'[p] = "settling"
        /\ \A q \in Payments : q # p => status'[q] = status[q]
    BY <1>1, <1>2 DEF TypeOK, Statuses
  <1>9. /\ mode' \in [Payments -> {"none", "simulated", "mock", "authorized", "x402"}]
        /\ mode'[p] # "none"
        /\ mode[p] # "none" => mode'[p] = mode[p]
        /\ mode'[p] = "x402" <=> mode[p] = "x402"
        /\ \A q \in Payments : q # p => mode'[q] = mode[q]
    BY <1>1, <1>2, <1>6 DEF TypeOK
  <1>10. /\ attempt' \in [Payments -> 0..MaxAttempt]
         /\ mandateDay' \in [Payments -> 0..MaxDay]
         /\ countedDay' \in [Payments -> 0..MaxDay]
         /\ clock' \in 0..MaxAttempt
    <2>1. today \in 0..MaxDay
      BY SettlementAssumption DEF TypeOK
    <2> QED
      BY <1>1, <1>2, <1>3, <1>4, <2>1 DEF TypeOK
  <1>11. reserved' \in [Mandated -> Nat] /\ rowDay' \in [Mandated -> 1..MaxDay]
    <2>1. ReserveFor(p, day)
      BY <1>1, <1>2, <1>3 DEF ReserveFor, SpentOn
    <2>2. CASE Subject[p] \in Mandated
      <3>1. SpentOn(Subject[p], day) + Amount[p] \in Nat
        BY <2>2, SettlementAssumption DEF SpentOn, TypeOK
      <3> QED
        BY <2>1, <2>2, <3>1 DEF ReserveFor, TypeOK
    <2>3. CASE Subject[p] \notin Mandated
      BY <2>1, <2>3 DEF ReserveFor, TypeOK
    <2> QED
      BY <2>2, <2>3
  <1>12. TypeOK'
    BY <1>1, <1>7, <1>8, <1>9, <1>10, <1>11 DEF TypeOK, chainVars, envVars
  <1>13. PInv(p)'
    BY <1>1, <1>8, <1>9 DEF PInv, chainVars
  <1>14. \A q \in Payments : Final(q)
    BY <1>1, <1>9 DEF Final, chainVars
  <1>15. call'[h].at # "reserving" /\ HInv(h)'
    BY <1>7, <1>9 DEF HInv, Knows
  <1>16. \A g \in Handlers : call[g].at = "reserving" /\ g # h => call[g].payment # p
    BY <1>1, <1>2 DEF ReserversDistinct
  <1>17. call'[h] # call[h]
    BY <1>1, <1>15
  <1> QED
    BY <1>1, <1>7, <1>8, <1>9, <1>12, <1>13, <1>14, <1>15, <1>16, <1>17, RowIInv
    DEF chainVars

\* The reconciler taking over an overdue settlement keeps the invariant.
LEMMA ResumeIInv ==
  ASSUME IInv, NEW h \in Handlers, NEW p \in Payments, Resume(h, p)
  PROVE  IInv'
  <1> USE DEF IInv
  <1>1. /\ call[h].at = "idle" /\ clock < MaxAttempt /\ clock' = clock + 1
        /\ status[p] = "settlement_unknown"
        /\ status' = [status EXCEPT ![p] = "settling"]
        /\ attempt' = [attempt EXCEPT ![p] = clock + 1]
        /\ Enter(h, "settling", p, clock + 1, 0)
        /\ UNCHANGED <<mode, mandateDay, settleTx, mandVars, chainVars, envVars, faults>>
    BY DEF Resume, Resumable
  <1>2. PICK n \in 0..MaxAttempt : n = clock + 1
    BY <1>1, SettlementAssumption DEF TypeOK
  <1>3. /\ call' \in [Handlers -> Calls]
        /\ call'[h] = [at |-> "settling", payment |-> p, attempt |-> n, day |-> 0,
                       tx |-> "none"]
        /\ \A g \in Handlers : g # h => call'[g] = call[g]
    <2>1. Enter(h, "settling", p, n, 0)
      BY <1>1, <1>2 DEF Enter
    <2>2. "settling" \in Stages /\ 0 \in 0..MaxDay
      BY SettlementAssumption DEF Stages
    <2> QED
      BY <2>1, <2>2, EnterFacts
  <1>4. /\ status' \in [Payments -> Statuses] /\ status'[p] = "settling"
        /\ \A q \in Payments : q # p => status'[q] = status[q]
        /\ attempt' \in [Payments -> 0..MaxAttempt] /\ clock' \in 0..MaxAttempt
    BY <1>1, <1>2 DEF TypeOK, Statuses
  <1>5. TypeOK'
    BY <1>1, <1>3, <1>4 DEF TypeOK, mandVars, chainVars, envVars
  <1>6. mode[p] # "none"
    BY <1>1 DEF PInv
  <1>7. PInv(p)' /\ \A q \in Payments : Final(q)
    BY <1>1, <1>4, <1>6 DEF PInv, Final, chainVars
  <1>8. call'[h].at # "reserving" /\ HInv(h)'
    BY <1>1, <1>3, <1>6 DEF HInv, Knows
  <1>9. \A g \in Handlers : call[g].at = "reserving" => call[g].payment # p
    BY <1>1, NoReserver
  <1> QED
    BY <1>1, <1>3, <1>4, <1>5, <1>7, <1>8, <1>9, RowIInv DEF chainVars

\* What an execution records, or finds it may no longer record.
LEMMA OutcomeIInv ==
  ASSUME IInv, NEW p \in Payments, NEW h \in Handlers,
         status[p] # "open", NEW next \in Statuses \ {"open"},
         status' = [status EXCEPT ![p] = next],
         settleTx' \in [Payments -> Txs],
         attempt' \in [Payments -> 0..MaxAttempt],
         reserved' \in [Mandated -> Nat],
         \A q \in Payments : q # p => settleTx'[q] = settleTx[q],
         next = "failed" => relayOp[p] = "reverted" /\ mode[p] # "x402",
         next \in {"settled", "consumed"} => Accepted(p, settleTx'[p]),
         call' \in [Handlers -> Calls],
         \A g \in Handlers : g # h => call'[g] = call[g],
         call'[h] = call[h] \/ (call'[h].at # "reserving" /\ HInv(h)'),
         faults' \in 0..MaxFaults,
         UNCHANGED <<mode, mandateDay, rowDay, countedDay, chainVars, envVars, clock>>
  PROVE  IInv'
  <1> USE DEF IInv, chainVars, envVars
  <1>1. /\ status' \in [Payments -> Statuses] /\ status'[p] = next
        /\ \A q \in Payments : q # p => status'[q] = status[q]
    BY DEF TypeOK
  <1>2. TypeOK'
    BY <1>1 DEF TypeOK
  <1>3. mode[p] # "none"
    BY DEF PInv
  <1>4. PInv(p)'
    BY <1>1, <1>3 DEF PInv, Accepted, Debited
  <1>5. \A q \in Payments : Final(q)
    BY DEF Final
  <1>6. \A g \in Handlers : call[g].at = "reserving" => call[g].payment # p
    BY NoReserver
  <1> QED
    BY <1>1, <1>2, <1>4, <1>5, <1>6, RowIInv

\* Recording a settlement, acknowledged to the handler or not, keeps the invariant.
LEMMA RecordSettledIInv ==
  ASSUME IInv, NEW h \in Handlers, RecordSettled(h) \/ RecordSettledUnacknowledged(h)
  PROVE  IInv'
  <1>1. /\ call[h].at = "proven" /\ Settled(h)
        /\ Finish(h) \/ Goto(h, "uncertain")
        /\ faults' = faults \/ Fault
        /\ UNCHANGED <<mode, mandateDay, mandVars, chainVars, envVars, clock>>
    BY DEF RecordSettled, RecordSettledUnacknowledged
  <1>2. PICK p \in Payments : p = call[h].payment /\ mode[p] # "none"
    BY <1>1 DEF IInv, HInv, Knows
  <1>3. faults' \in 0..MaxFaults
    BY <1>1, SettlementAssumption DEF IInv, TypeOK, Fault
  <1>4. /\ call' \in [Handlers -> Calls]
        /\ call'[h].at \in {"idle", "uncertain"}
        /\ call'[h].at = "uncertain" => call'[h].payment = p
        /\ \A g \in Handlers : g # h => call'[g] = call[g]
    BY <1>1, <1>2, FinishFacts, GotoFacts DEF IInv, Stages
  <1>5. HInv(h)'
    BY <1>1, <1>2, <1>4 DEF HInv, Knows
  <1>6. CASE IsCurrent(h)
    <2>1. /\ status[p] = "settling"
          /\ status' = [status EXCEPT ![p] = "settled"]
          /\ settleTx' = [settleTx EXCEPT ![p] = call[h].tx]
          /\ attempt' = [attempt EXCEPT ![p] = 0]
      BY <1>1, <1>2, <1>6 DEF Settled, IsCurrent
    <2>2. /\ settleTx' \in [Payments -> Txs] /\ settleTx'[p] = call[h].tx
          /\ \A q \in Payments : q # p => settleTx'[q] = settleTx[q]
      BY <2>1, CallerFacts DEF IInv, TypeOK
    <2>3. attempt' \in [Payments -> 0..MaxAttempt]
      BY <2>1, SettlementAssumption DEF IInv, TypeOK
    <2>4. Accepted(p, call[h].tx)
      BY <1>1, <1>2 DEF IInv, HInv, Knows
    <2>5. Accepted(p, settleTx'[p])
      BY <2>2, <2>4 DEF Accepted
    <2>6. reserved' \in [Mandated -> Nat]
      BY <1>1 DEF IInv, TypeOK, mandVars
    <2> QED
      BY <1>1, <1>3, <1>4, <1>5, <2>1, <2>2, <2>3, <2>5, <2>6, OutcomeIInv
      DEF mandVars, Statuses
  <1>7. CASE ~IsCurrent(h)
    <2>1. UNCHANGED <<status, settleTx, attempt>>
      BY <1>1, <1>7 DEF Settled
    <2> QED
      BY <1>1, <1>3, <1>4, <1>5, <2>1, HandlerIInv DEF rowVars, chainVars
  <1> QED
    BY <1>6, <1>7

\* A revert is recorded as failed: the operation of that payment can never
\* succeed any more.
LEMMA RecordFailureIInv ==
  ASSUME IInv, NEW h \in Handlers, RecordReverted(h) \/ RecordUnknown(h)
  PROVE  IInv'
  <1> DEFINE next == IF call[h].at = "reverted" THEN "failed" ELSE "settlement_unknown"
  <1>1. /\ call[h].at \in {"reverted", "uncertain"} /\ Finish(h)
        /\ UNCHANGED <<attempt, mode, mandateDay, settleTx, rowDay, countedDay,
                       chainVars, envVars, clock, faults>>
    BY DEF RecordReverted, RecordUnknown, mandVars
  <1>2. PICK p \in Payments : p = call[h].payment
    BY <1>1 DEF IInv, HInv
  <1>3. /\ call' \in [Handlers -> Calls] /\ call'[h].at = "idle"
        /\ \A g \in Handlers : g # h => call'[g] = call[g]
    BY <1>1, FinishFacts DEF IInv
  <1>4. HInv(h)'
    BY <1>3 DEF HInv
  <1>5. CASE IsCurrent(h)
    <2>1. status[p] = "settling" /\ status' = [status EXCEPT ![p] = next]
      BY <1>2, <1>5 DEF IsCurrent, RecordReverted, RecordUnknown
    <2>2. reserved' \in [Mandated -> Nat]
      <3>1. CASE RecordReverted(h)
        <4>1. Refund(p)
          BY <1>2, <1>5, <3>1 DEF RecordReverted, Refund, RefundApplies
        <4> QED
          BY <4>1, SettlementAssumption DEF Refund, RefundApplies, IInv, TypeOK
      <3>2. CASE RecordUnknown(h)
        BY <3>2 DEF RecordUnknown, mandVars, IInv, TypeOK
      <3> QED
        BY <3>1, <3>2
    <2>3. next = "failed" => relayOp[p] = "reverted" /\ mode[p] # "x402"
      BY <1>2 DEF IInv, HInv, Knows
    <2>4. PICK s \in {"failed", "settlement_unknown"} : s = next
      OBVIOUS
    <2> HIDE DEF next
    <2>5. /\ attempt' \in [Payments -> 0..MaxAttempt] /\ settleTx' \in [Payments -> Txs]
          /\ faults' \in 0..MaxFaults
      BY <1>1 DEF IInv, TypeOK
    <2> QED
      BY <1>1, <1>3, <1>4, <2>1, <2>2, <2>3, <2>4, <2>5, OutcomeIInv DEF Statuses
  <1>6. CASE ~IsCurrent(h)
    <2>1. UNCHANGED <<status, reserved>>
      BY <1>6 DEF RecordReverted, RecordUnknown, mandVars
    <2>2. faults' \in 0..MaxFaults
      BY <1>1 DEF IInv, TypeOK
    <2> QED
      BY <1>1, <1>3, <1>4, <2>1, <2>2, HandlerIInv DEF rowVars, mandVars, chainVars
  <1> QED
    BY <1>5, <1>6

\* The steps that are nobody's conclusion: the reconciler's timeout, which
\* makes a claim uncertain, and the consumption of a settled payment.
LEMMA StatusIInv ==
  ASSUME IInv, NEW p \in Payments, Overdue(p) \/ Consume(p)
  PROVE  IInv'
  <1>1. /\ faults' \in 0..MaxFaults
        /\ UNCHANGED <<attempt, mode, mandateDay, settleTx, mandVars, chainVars,
                       call, envVars, clock>>
    BY SettlementAssumption DEF Overdue, Consume, Fault, IInv, TypeOK
  <1>2. PICK next \in {"settlement_unknown", "consumed"} :
          /\ status' = [status EXCEPT ![p] = next]
          /\ status[p] = (IF next = "consumed" THEN "settled" ELSE "settling")
    BY DEF Overdue, Consume
  <1>3. next = "consumed" => Accepted(p, settleTx'[p])
    BY <1>1, <1>2 DEF IInv, PInv
  <1>4. status[p] # "open" /\ next \in Statuses \ {"open"}
    BY <1>2 DEF Statuses
  <1>5. TypeOK' /\ \A q \in Payments : q # p => status'[q] = status[q]
    BY <1>1, <1>2, <1>4 DEF IInv, TypeOK, mandVars, chainVars, envVars
  <1>6. status'[p] = next
    BY <1>2, <1>4 DEF IInv, TypeOK
  <1>7. mode[p] # "none"
    BY <1>4 DEF IInv, PInv
  <1>8. PInv(p)'
    BY <1>1, <1>2, <1>3, <1>6, <1>7 DEF IInv, PInv, Accepted, Debited, chainVars
  <1>9. \A q \in Payments : Final(q)
    BY <1>1 DEF Final, chainVars
  <1>10. \A g \in Handlers : call[g].at = "reserving" => call[g].payment # p
    BY <1>4, NoReserver
  <1> QED
    BY <1>1, <1>5, <1>8, <1>9, <1>10, RowIInv DEF chainVars

\* Midnight, and a step that changes nothing, keep the invariant.
LEMMA QuietIInv ==
  ASSUME IInv, NextDay \/ UNCHANGED vars
  PROVE  IInv'
  <1> USE DEF IInv, rowVars, mandVars, chainVars, envVars
  <1>1. /\ UNCHANGED <<rowVars, mandVars, chainVars, deployed, call, clock, faults>>
        /\ today' \in 1..MaxDay
    BY SettlementAssumption DEF NextDay, vars, TypeOK
  <1>2. TypeOK' /\ ReserversDistinct'
    BY <1>1 DEF TypeOK, ReserversDistinct
  <1>3. \A p \in Payments : PInv(p)' /\ Final(p)
    BY <1>1 DEF PInv, Accepted, Debited, Final
  <1>4. \A h \in Handlers : HInv(h)'
    BY <1>1, <1>3, OthersKnow
  <1> QED
    BY <1>2, <1>3, <1>4

\* Every step of the next-state relation keeps the invariant: one case for each action.
LEMMA NextIInv == IInv /\ [Next]_vars => IInv'
  <1> SUFFICES ASSUME IInv, [Next]_vars PROVE IInv'
    OBVIOUS
  <1>1. ASSUME NEW h \in Handlers, Proceed(h) \/ Fails(h) PROVE IInv'
    BY <1>1, StopIInv, SubmitIInv, ProvenIInv, VerdictIInv, FundingIInv,
       ReserveIInv, RecordSettledIInv, RecordFailureIInv
    DEF Proceed, Fails
  <1>2. ASSUME NEW h \in Handlers, NEW p \in Payments, BeginClaim(h, p) \/ Resume(h, p)
        PROVE  IInv'
    BY <1>2, BeginIInv, ResumeIInv
  <1>3. ASSUME NEW p \in Payments, Challenge(p) \/ Overdue(p) \/ Consume(p) PROVE IInv'
    BY <1>3, ChallengeIInv, StatusIInv
  <1>4. ASSUME NEW p \in Payments, Mine(p) \/ Payer(p) PROVE IInv'
    BY <1>4, MineRelayIInv, MinePrepaidIInv, PayerIInv DEF Mine
  <1>5. CASE NextDay \/ UNCHANGED vars
    BY <1>5, QuietIInv
  <1> QED
    BY <1>1, <1>2, <1>3, <1>4, <1>5 DEF Next, Settle

-----------------------------------------------------------------------------

\* The inductive invariant holds in every reachable state of the settlement.
THEOREM Invariance == Spec => []IInv
  <1> QED
    BY InitIInv, NextIInv, PTL DEF Spec

\* Rows, executions and the chain keep their types.
THEOREM TypeCorrect == Spec => []TypeOK
  <1>1. IInv => TypeOK
    BY DEF IInv
  <1> QED
    BY <1>1, Invariance, PTL

\* gateway.ts performSettlement, settleX402ForKey: whatever is retried, late,
\* recovered or front-run, a payment that is accepted was settled by the
\* transaction recorded for it and debited from its own payer.
THEOREM AcceptedIsPaid == Spec => []NoFreeService
  <1>1. IInv => NoFreeService
    BY DEF IInv, PInv, Accepted, NoFreeService
  <1> QED
    BY <1>1, Invariance, PTL

\* A failed payment, its reservation given back, is never charged by the relay.
THEOREM FailedIsUncharged == Spec => []FailedNeverCharged
  <1>1. IInv => FailedNeverCharged
    BY DEF IInv, PInv, FailedNeverCharged
  <1> QED
    BY <1>1, Invariance, PTL

\* A step that changes a status changes the one of its own payment, which it
\* found open, in progress, uncertain or, to consume it, settled.
LEMMA StatusSteps ==
  ASSUME IInv, [Next]_vars, NEW p \in Payments, status'[p] # status[p]
  PROVE  \/ status[p] = "open" /\ status'[p] = "settling"
         \/ status[p] = "settlement_unknown" /\ status'[p] = "settling"
         \/ status[p] = "settled" /\ status'[p] = "consumed"
         \/ /\ status[p] = "settling" /\ status'[p] = "settlement_unknown"
            /\ call' = call
         \/ /\ status[p] = "settling"
            /\ status'[p] \in {"settled", "failed", "settlement_unknown"}
            /\ \E h \in Handlers : /\ call'[h] # call[h]
                                   /\ call[h].payment = p
                                   /\ call[h].attempt = attempt[p]
  <1> USE DEF IInv
  <1>1. ASSUME NEW h \in Handlers, Reserve(h)
        PROVE  status[p] = "open" /\ status'[p] = "settling"
    BY <1>1 DEF Reserve, HInv, TypeOK
  <1>2. ASSUME NEW h \in Handlers, NEW q \in Payments, Resume(h, q)
        PROVE  status[p] = "settlement_unknown" /\ status'[p] = "settling"
    BY <1>2 DEF Resume, Resumable, TypeOK
  <1>3. ASSUME NEW q \in Payments, Overdue(q)
        PROVE  /\ status[p] = "settling" /\ status'[p] = "settlement_unknown"
               /\ call' = call
    BY <1>3 DEF Overdue, TypeOK
  <1>4. ASSUME NEW q \in Payments, Consume(q)
        PROVE  status[p] = "settled" /\ status'[p] = "consumed"
    BY <1>4 DEF Consume, TypeOK
  <1>5. ASSUME NEW h \in Handlers,
               \/ RecordSettled(h) \/ RecordSettledUnacknowledged(h)
               \/ RecordReverted(h) \/ RecordUnknown(h)
        PROVE  /\ status[p] = "settling"
               /\ status'[p] \in {"settled", "failed", "settlement_unknown"}
               /\ call'[h] # call[h]
               /\ call[h].payment = p /\ call[h].attempt = attempt[p]
    <2>1. /\ IsCurrent(h)
          /\ \E next \in {"settled", "failed", "settlement_unknown"} :
               status' = [status EXCEPT ![call[h].payment] = next]
      BY <1>5 DEF RecordSettled, RecordSettledUnacknowledged, RecordReverted,
                  RecordUnknown, Settled
    <2>2. call[h].payment = p
      BY <2>1 DEF TypeOK
    <2>3. call'[h].at # call[h].at
      BY <1>5, FinishFacts, GotoFacts
      DEF RecordSettled, RecordSettledUnacknowledged, RecordReverted,
          RecordUnknown, Stages
    <2> QED
      BY <2>1, <2>2, <2>3 DEF IsCurrent, TypeOK
  <1>6. ~UNCHANGED status
    OBVIOUS
  <1> QED
    BY <1>1, <1>2, <1>3, <1>4, <1>5, <1>6
    DEF Next, Settle, Proceed, Fails, Payer, Mine, vars, rowVars, Challenge,
        BeginClaim, Refuse, SettleSimulated, Submit, RelayConfirmed,
        RelayReverted, FundingFound, NoFunding, PrepaidConfirmed,
        PrepaidReverted, CallFails, Crash, MineRelay, MinePrepaid,
        PayerSettles, PayerDeposits, PayerCancels, PayerSpends, NextDay

\* The fences of gateway.ts: no stale execution resurrects a payment.
THEOREM NothingReopened == Spec => NeverReopened
  <1>1. IInv /\ [Next]_vars =>
          [\A p \in Payments :
             /\ status[p] = "settled" => status'[p] \in {"settled", "consumed"}
             /\ status[p] \in {"consumed", "failed"} => status'[p] = status[p]]_vars
    <2> SUFFICES ASSUME IInv, [Next]_vars, NEW p \in Payments
                 PROVE  /\ status[p] = "settled" => status'[p] \in {"settled", "consumed"}
                        /\ status[p] \in {"consumed", "failed"} => status'[p] = status[p]
      OBVIOUS
    <2> QED
      BY StatusSteps
  <1> QED
    BY <1>1, Invariance, PTL DEF Spec, NeverReopened

\* settlingStartedAt: an attempt in progress is concluded by its own execution,
\* or declared uncertain by the reconciler.
THEOREM FencedOutcomes == Spec => OnlyCurrentAttemptRecords
  <1>1. IInv /\ [Next]_vars =>
          [\A p \in Payments :
             status[p] = "settling" /\ status'[p] # "settling" =>
               \/ call' = call /\ status'[p] = "settlement_unknown"
               \/ \E h \in Handlers : /\ call'[h] # call[h]
                                      /\ call[h].payment = p
                                      /\ call[h].attempt = attempt[p]]_vars
    <2> SUFFICES ASSUME IInv, [Next]_vars, NEW p \in Payments,
                        status[p] = "settling", status'[p] # "settling"
                 PROVE  \/ call' = call /\ status'[p] = "settlement_unknown"
                        \/ \E h \in Handlers : /\ call'[h] # call[h]
                                               /\ call[h].payment = p
                                               /\ call[h].attempt = attempt[p]
      OBVIOUS
    <2> QED
      BY StatusSteps
  <1> QED
    BY <1>1, Invariance, PTL DEF Spec, OnlyCurrentAttemptRecords

-----------------------------------------------------------------------------
(* What a step of settlement is to those who only see its outcome: the       *)
(* gateway that serves the payment, the client that is promised something.   *)

\* A step of settlement moves at most one row, that neither settled nor failed
\* before, and consumes none.
LEMMA OneRowMoves ==
  ASSUME IInv, Settle
  PROVE  \/ status' = status
         \/ \E p \in Payments, next \in {"settling", "settlement_unknown", "settled", "failed"} :
              /\ status[p] \in {"open", "settling", "settlement_unknown"}
              /\ status' = [status EXCEPT ![p] = next]
  <1> DEFINE Moves(p) ==
        /\ status[p] \in {"open", "settling", "settlement_unknown"}
        /\ \E next \in {"settling", "settlement_unknown", "settled", "failed"} :
             status' = [status EXCEPT ![p] = next]
  <1> USE DEF IInv
  <1>1. ASSUME NEW h \in Handlers, Reserve(h) PROVE \E p \in Payments : Moves(p)
    BY <1>1 DEF Reserve, HInv
  <1>2. ASSUME NEW h \in Handlers, NEW p \in Payments, Resume(h, p) PROVE Moves(p)
    BY <1>2 DEF Resume, Resumable
  <1>3. ASSUME NEW p \in Payments, Overdue(p) PROVE Moves(p)
    BY <1>3 DEF Overdue
  <1>4. ASSUME NEW h \in Handlers,
               \/ RecordSettled(h) \/ RecordSettledUnacknowledged(h)
               \/ RecordReverted(h) \/ RecordUnknown(h)
        PROVE  status' = status \/ \E p \in Payments : Moves(p)
    <2>1. call[h].payment \in Payments
      BY <1>4 DEF RecordSettled, RecordSettledUnacknowledged, RecordReverted,
                  RecordUnknown, HInv
    <2> QED
      BY <1>4, <2>1 DEF RecordSettled, RecordSettledUnacknowledged, RecordReverted,
                        RecordUnknown, Settled, IsCurrent
  <1>5. \/ status' = status
        \/ \E h \in Handlers :
             \/ Reserve(h) \/ RecordSettled(h) \/ RecordSettledUnacknowledged(h)
             \/ RecordReverted(h) \/ RecordUnknown(h)
             \/ \E p \in Payments : Resume(h, p)
        \/ \E p \in Payments : Overdue(p)
    BY DEF Settle, Proceed, Fails, Payer, Mine, rowVars, Challenge, BeginClaim, Refuse,
           SettleSimulated, Submit, RelayConfirmed, RelayReverted, FundingFound,
           NoFunding, PrepaidConfirmed, PrepaidReverted, CallFails, Crash, MineRelay,
           MinePrepaid, PayerSettles, PayerDeposits, PayerCancels, PayerSpends, NextDay
  <1> QED
    BY <1>1, <1>2, <1>3, <1>4, <1>5

\* A step of settlement debits at most one payer, for good, and then writes no row.
LEMMA OnePayerDebited ==
  ASSUME IInv, Settle
  PROVE  \/ \A p \in Payments : Debited(p)' <=> Debited(p)
         \/ /\ status' = status
            /\ \E p \in Payments : /\ ~Debited(p) /\ Debited(p)'
                                   /\ \A q \in Payments \ {p} : Debited(q)' <=> Debited(q)
  <1> USE DEF IInv, TypeOK
  <1>1. ASSUME NEW p \in Payments, Mine(p) \/ Payer(p)
        PROVE  /\ status' = status
               /\ \A q \in Payments \ {p} : Debited(q)' <=> Debited(q)
               /\ Debited(p) => Debited(p)'
    <2>1. CASE MineRelay(p)
      BY <2>1 DEF MineRelay, RelayCanSettle, UsesAuthorization, Debited, rowVars, PInv
    <2>2. CASE MinePrepaid(p)
      BY <2>2 DEF MinePrepaid, PrepaidCanSettle, Debited, rowVars
    <2>3. CASE Payer(p)
      BY <2>3 DEF Payer, PayerSettles, PayerDeposits, PayerCancels, PayerSpends, Debited, rowVars
    <2> QED
      BY <1>1, <2>1, <2>2, <2>3 DEF Mine
  <1>2. ASSUME NEW p \in Payments, Challenge(p)
        PROVE  \A q \in Payments : Debited(q)' <=> Debited(q)
    BY <1>2 DEF Challenge, Debited, PInv
  <1>3. \/ UNCHANGED <<meter, auth>>
        \/ \E p \in Payments : Mine(p) \/ Payer(p) \/ Challenge(p)
    BY DEF Settle, Proceed, Fails, chainVars, BeginClaim, Refuse, Reserve, Resume,
           SettleSimulated, Submit, RelayConfirmed, RelayReverted, FundingFound,
           NoFunding, PrepaidConfirmed, PrepaidReverted, CallFails, Crash,
           RecordSettled, RecordSettledUnacknowledged, RecordReverted, RecordUnknown,
           Overdue, NextDay
  <1>4. CASE UNCHANGED <<meter, auth>>
    BY <1>4 DEF Debited
  <1> QED
    BY <1>1, <1>2, <1>3, <1>4

\* The deployment is chosen once, and only one without a chain settles on paper.
PaperOnly == \A p \in Payments : mode[p] = "simulated" => deployed = "simulated"

\* The mode of a payment is the deployment's, or that of the protocol of the challenge.
LEMMA PaperStep ==
  ASSUME IInv, PaperOnly, [Next]_vars
  PROVE  PaperOnly' /\ deployed' = deployed
  <1> USE DEF IInv, TypeOK
  <1>1. deployed' = deployed
    BY DEF Next, Settle, Proceed, Fails, Mine, Payer, vars, envVars, Challenge, BeginClaim,
           Refuse, Reserve, Resume, SettleSimulated, Submit, RelayConfirmed, RelayReverted,
           FundingFound, NoFunding, PrepaidConfirmed, PrepaidReverted, CallFails, Crash,
           RecordSettled, RecordSettledUnacknowledged, RecordReverted, RecordUnknown,
           Overdue, MineRelay, MinePrepaid, PayerSettles, PayerDeposits, PayerCancels,
           PayerSpends, NextDay, Consume
  <1>2. \/ mode' = mode
        \/ \E p \in Payments : mode' = [mode EXCEPT ![p] = "x402"]
        \/ \E p \in Payments : mode' = [mode EXCEPT ![p] = IF @ = "none" THEN deployed ELSE @]
    <2>1. ASSUME NEW h \in Handlers, Reserve(h)
          PROVE  \E p \in Payments : mode' = [mode EXCEPT ![p] = IF @ = "none" THEN deployed ELSE @]
      BY <2>1 DEF Reserve, HInv
    <2>2. mode' = mode \/ (\E p \in Payments : Challenge(p)) \/ (\E h \in Handlers : Reserve(h))
      BY DEF Next, Settle, Proceed, Fails, Mine, Payer, vars, rowVars, BeginClaim,
             Refuse, Resume, SettleSimulated, Submit, RelayConfirmed, RelayReverted,
             FundingFound, NoFunding, PrepaidConfirmed, PrepaidReverted, CallFails, Crash,
             RecordSettled, RecordSettledUnacknowledged, RecordReverted, RecordUnknown,
             Overdue, MineRelay, MinePrepaid, PayerSettles, PayerDeposits, PayerCancels,
             PayerSpends, NextDay, Consume
    <2> QED
      BY <2>1, <2>2 DEF Challenge
  <1> QED
    BY <1>1, <1>2 DEF PaperOnly
-----------------------------------------------------------------------------
\* What the mandate's arithmetic rests on: an open payment carries no day, and, unless a claim
\* straddled midnight, a row's day is the latest on which anything was counted.
BudgetInv ==
  /\ \A p \in Payments : status[p] = "open" => countedDay[p] = mandateDay[p]
  /\ ~Straddled =>
       /\ \A s \in Mandated : rowDay[s] <= today
       /\ \A p \in Payments : Subject[p] \in Mandated => countedDay[p] <= rowDay[Subject[p]]
       /\ \A s \in Mandated : reserved[s] = HeldOn(s, rowDay[s]) /\ reserved[s] <= Limit[s]

LEMMA HoldersFinite ==
  /\ \A S \in SUBSET Payments : IsFiniteSet(S)
  /\ \A s, day : Holders(s, day) \in SUBSET Payments
  /\ \A p \in Payments : Amount[p] \in Nat \ {0}
BY SettlementAssumption, FS_Subset DEF Holders

\* Every step but a claim and a refund leaves the budgets and what counts against them alone.
LEMMA BudgetSteps ==
  ASSUME IInv, [Next]_vars, \A h \in Handlers : ~Reserve(h) /\ ~RecordReverted(h)
  PROVE  /\ UNCHANGED <<reserved, rowDay, countedDay, mandateDay>> /\ today <= today'
         /\ \A q \in Payments : /\ status'[q] = "open" <=> status[q] = "open"
                                /\ status'[q] = "failed" <=> status[q] = "failed"
<1> USE DEF rowVars, mandVars, chainVars, envVars
<1>0. today \in Nat /\ status \in [Payments -> Statuses]
  BY DEF IInv, TypeOK
<1>1. ASSUME UNCHANGED <<status, reserved, rowDay, countedDay, mandateDay, today>>
      PROVE  /\ UNCHANGED <<reserved, rowDay, countedDay, mandateDay>> /\ today <= today'
             /\ \A q \in Payments : /\ status'[q] = "open" <=> status[q] = "open"
                                    /\ status'[q] = "failed" <=> status[q] = "failed"
  BY <1>0, <1>1
<1>2. ASSUME UNCHANGED <<reserved, rowDay, countedDay, mandateDay, today>>, NEW p \in Payments,
             status[p] \notin {"open", "failed"},
             NEW next \in Statuses \ {"open", "failed"}, status' = [status EXCEPT ![p] = next]
      PROVE  /\ UNCHANGED <<reserved, rowDay, countedDay, mandateDay>> /\ today <= today'
             /\ \A q \in Payments : /\ status'[q] = "open" <=> status[q] = "open"
                                    /\ status'[q] = "failed" <=> status[q] = "failed"
  BY <1>0, <1>2
<1>3. ASSUME NEW h \in Handlers,
             \/ Refuse(h) \/ SettleSimulated(h) \/ Submit(h) \/ RelayConfirmed(h) \/ RelayReverted(h)
             \/ FundingFound(h) \/ NoFunding(h) \/ PrepaidConfirmed(h) \/ PrepaidReverted(h)
             \/ CallFails(h) \/ Crash(h)
      PROVE  UNCHANGED <<status, reserved, rowDay, countedDay, mandateDay, today>>
  BY <1>3 DEF Refuse, SettleSimulated, Submit, RelayConfirmed, RelayReverted, FundingFound, NoFunding,
              PrepaidConfirmed, PrepaidReverted, CallFails, Crash
<1>4. ASSUME NEW p \in Payments,
             (\E h \in Handlers : BeginClaim(h, p)) \/ Challenge(p) \/ Mine(p) \/ Payer(p)
      PROVE  UNCHANGED <<status, reserved, rowDay, countedDay, mandateDay, today>>
  BY <1>4 DEF BeginClaim, Challenge, Mine, MineRelay, MinePrepaid, Payer, PayerSettles, PayerDeposits,
              PayerCancels, PayerSpends
<1>5. ASSUME NEW h \in Handlers, RecordSettled(h) \/ RecordSettledUnacknowledged(h) \/ RecordUnknown(h)
      PROVE  /\ UNCHANGED <<reserved, rowDay, countedDay, mandateDay>> /\ today <= today'
             /\ \A q \in Payments : /\ status'[q] = "open" <=> status[q] = "open"
                                    /\ status'[q] = "failed" <=> status[q] = "failed"
  <2>1. /\ UNCHANGED <<reserved, rowDay, countedDay, mandateDay, today>>
        /\ call[h].at \in {"proven", "uncertain"}
    BY <1>5 DEF RecordSettled, RecordSettledUnacknowledged, RecordUnknown
  <2>2. CASE IsCurrent(h)
    <3>1. PICK p \in Payments : p = call[h].payment
      BY <2>1, CallerFacts
    <3>2. status[p] = "settling"
      BY <2>2, <3>1 DEF IsCurrent
    <3>3. \E next \in {"settled", "settlement_unknown"} : status' = [status EXCEPT ![p] = next]
      BY <1>5, <2>2, <3>1 DEF RecordSettled, RecordSettledUnacknowledged, RecordUnknown, Settled
    <3>4. {"settled", "settlement_unknown"} \subseteq Statuses \ {"open", "failed"}
      BY DEF Statuses
    <3> QED
      BY <1>2, <2>1, <3>2, <3>3, <3>4
  <2>3. CASE ~IsCurrent(h)
    <3>1. status' = status
      BY <1>5, <2>3 DEF RecordSettled, RecordSettledUnacknowledged, RecordUnknown, Settled
    <3> QED
      BY <1>1, <2>1, <3>1
  <2> QED
    BY <2>2, <2>3
<1>6. ASSUME NEW p \in Payments, (\E h \in Handlers : Resume(h, p)) \/ Overdue(p) \/ Consume(p)
      PROVE  /\ UNCHANGED <<reserved, rowDay, countedDay, mandateDay>> /\ today <= today'
             /\ \A q \in Payments : /\ status'[q] = "open" <=> status[q] = "open"
                                    /\ status'[q] = "failed" <=> status[q] = "failed"
  <2>1. /\ UNCHANGED <<reserved, rowDay, countedDay, mandateDay, today>>
        /\ status[p] \notin {"open", "failed"}
        /\ \E next \in {"settling", "settlement_unknown", "consumed"} : status' = [status EXCEPT ![p] = next]
    BY <1>6 DEF Resume, Resumable, Overdue, Consume
  <2>2. {"settling", "settlement_unknown", "consumed"} \subseteq Statuses \ {"open", "failed"}
    BY DEF Statuses
  <2> QED
    BY <1>2, <2>1, <2>2
<1>7. CASE NextDay
  BY <1>0, <1>7 DEF NextDay
<1>8. CASE UNCHANGED vars
  BY <1>1, <1>8 DEF vars
<1>9. \/ UNCHANGED <<status, reserved, rowDay, countedDay, mandateDay, today>>
      \/ \E h \in Handlers : RecordSettled(h) \/ RecordSettledUnacknowledged(h) \/ RecordUnknown(h)
      \/ \E p \in Payments : (\E h \in Handlers : Resume(h, p)) \/ Overdue(p) \/ Consume(p)
      \/ NextDay \/ UNCHANGED vars
  BY <1>3, <1>4 DEF Next, Settle, Proceed, Fails
<1> QED
  BY <1>1, <1>5, <1>6, <1>7, <1>8, <1>9

LEMMA BudgetKept ==
  ASSUME IInv, BudgetInv, UNCHANGED <<reserved, rowDay, countedDay, mandateDay>>,
         today' \in Nat, today <= today',
         \A q \in Payments : /\ status'[q] = "open" <=> status[q] = "open"
                             /\ status'[q] = "failed" <=> status[q] = "failed"
  PROVE  BudgetInv'
<1>1. Straddled' = Straddled /\ \A s, day : Holders(s, day)' = Holders(s, day)
  BY DEF Straddled, Holders
<1>2. \A s, day : HeldOn(s, day)' = HeldOn(s, day)
  BY <1>1 DEF HeldOn
<1>3. today \in Nat /\ \A s \in Mandated : rowDay[s] \in Nat
  BY DEF IInv, TypeOK
<1> QED
  BY <1>1, <1>2, <1>3 DEF BudgetInv

\* A claim counts its amount against the day it was checked for.
LEMMA ReserveBudget ==
  ASSUME IInv, BudgetInv, NEW h \in Handlers, Reserve(h)
  PROVE  BudgetInv'
<1>1. PICK p \in Payments : p = call[h].payment
  BY DEF Reserve, IInv, HInv
<1>2. PICK day \in 1..MaxDay : day = call[h].day
  BY DEF Reserve, IInv, HInv
<1>3. status[p] = "open"
  BY <1>1 DEF Reserve, IInv, HInv
<1>4. /\ CanReserve(p, day) /\ ReserveFor(p, day)
      /\ countedDay' = [countedDay EXCEPT ![p] = day]
      /\ status' = [status EXCEPT ![p] = "settling"]
      /\ mandateDay' = [mandateDay EXCEPT ![p] = today] /\ today' = today
  BY <1>1, <1>2 DEF Reserve, envVars, CanReserve, ReserveFor, SpentOn
<1>5. /\ status \in [Payments -> Statuses] /\ countedDay \in [Payments -> 0..MaxDay]
      /\ mandateDay \in [Payments -> 0..MaxDay] /\ today \in 1..MaxDay
      /\ reserved \in [Mandated -> Nat] /\ rowDay \in [Mandated -> 1..MaxDay]
      /\ MaxDay \in Nat
  BY SettlementAssumption DEF IInv, TypeOK
<1>6. \A q \in Payments : status'[q] = "open" => countedDay'[q] = mandateDay'[q]
  BY <1>4, <1>5 DEF BudgetInv
<1>7. ASSUME ~Straddled'
      PROVE  /\ \A s \in Mandated : rowDay'[s] <= today'
             /\ \A q \in Payments : Subject[q] \in Mandated => countedDay'[q] <= rowDay'[Subject[q]]
             /\ \A s \in Mandated : reserved'[s] = HeldOn(s, rowDay[s])' /\ reserved'[s] <= Limit[s]
  <2>1. ~Straddled /\ day = today
    <3>1. \A q \in Payments : countedDay'[q] = mandateDay'[q]
      BY <1>7 DEF Straddled
    <3>2. countedDay[p] = mandateDay[p]
      BY <1>3 DEF BudgetInv
    <3>3. \A q \in Payments : q # p => countedDay[q] = mandateDay[q]
      BY <1>4, <1>5, <3>1
    <3>4. day = today
      BY <1>4, <1>5, <3>1
    <3> QED
      BY <3>2, <3>3, <3>4 DEF Straddled
  <2>2. /\ \A s \in Mandated : rowDay[s] <= today
        /\ \A q \in Payments : Subject[q] \in Mandated => countedDay[q] <= rowDay[Subject[q]]
        /\ \A s \in Mandated : reserved[s] = HeldOn(s, rowDay[s]) /\ reserved[s] <= Limit[s]
    BY <2>1 DEF BudgetInv
  <2>3. \A s, d : Holders(s, d)' = IF s = Subject[p] /\ d = today THEN Holders(s, d) \cup {p}
                                   ELSE Holders(s, d)
    BY <1>3, <1>4, <1>5, <2>1 DEF Holders
  <2>4. ASSUME NEW s \in Mandated, s # Subject[p]
        PROVE  /\ rowDay'[s] = rowDay[s] /\ reserved'[s] = reserved[s]
               /\ HeldOn(s, rowDay[s])' = HeldOn(s, rowDay[s])
    <3>1. rowDay'[s] = rowDay[s] /\ reserved'[s] = reserved[s]
      BY <1>4, <1>5, <2>4 DEF ReserveFor
    <3> QED
      BY <2>3, <2>4, <3>1 DEF HeldOn
  <2>5. CASE Subject[p] \in Mandated
    <3>1. PICK s \in Mandated : s = Subject[p]
      BY <2>5
    <3>2. SpentOn(s, today) = HeldOn(s, today)
      <4>1. CASE rowDay[s] = today
        BY <2>2, <4>1 DEF SpentOn
      <4>2. CASE rowDay[s] # today
        <5>1. Holders(s, today) = {}
          BY <1>5, <2>2, <3>1, <4>2 DEF Holders
        <5> QED
          BY <4>2, <5>1, SumEmpty DEF HeldOn, SpentOn
      <4> QED
        BY <4>1, <4>2
    <3>3. /\ reserved'[s] = SpentOn(s, today) + Amount[p] /\ rowDay'[s] = today
          /\ SpentOn(s, today) + Amount[p] <= Limit[s]
      BY <1>4, <1>5, <2>1, <3>1 DEF ReserveFor, CanReserve
    <3>4. HeldOn(s, rowDay[s])' = HeldOn(s, today) + Amount[p]
      <4>1. p \notin Holders(s, today)
        BY <1>3 DEF Holders
      <4>2. Sum(Amount, Holders(s, today) \cup {p}) = Amount[p] + Sum(Amount, Holders(s, today))
        BY <4>1, HoldersFinite, SumWith
      <4>3. HeldOn(s, rowDay[s])' = Sum(Amount, Holders(s, today) \cup {p})
        BY <2>3, <3>1, <3>3 DEF HeldOn
      <4>4. Sum(Amount, Holders(s, today)) \in Int /\ Amount[p] \in Int
        BY HoldersFinite, SumType
      <4> QED
        BY <4>2, <4>3, <4>4 DEF HeldOn
    <3>5. \A q \in Payments : Subject[q] \in Mandated => countedDay'[q] <= rowDay'[Subject[q]]
      BY <1>4, <1>5, <2>1, <2>2, <2>4, <3>1, <3>3
    <3>6. ASSUME NEW x \in Mandated
          PROVE  /\ rowDay'[x] <= today'
                 /\ reserved'[x] = HeldOn(x, rowDay[x])' /\ reserved'[x] <= Limit[x]
      <4>1. CASE x = s
        BY <1>4, <1>5, <3>2, <3>3, <3>4, <4>1
      <4>2. CASE x # s
        BY <1>4, <2>2, <2>4, <3>1, <4>2
      <4> QED
        BY <4>1, <4>2
    <3> QED
      BY <3>5, <3>6
  <2>6. CASE Subject[p] \notin Mandated
    <3>1. \A q \in Payments : Subject[q] \in Mandated => countedDay'[q] <= rowDay'[Subject[q]]
      BY <1>4, <1>5, <2>2, <2>6 DEF ReserveFor
    <3>2. ASSUME NEW x \in Mandated
          PROVE  /\ rowDay'[x] <= today'
                 /\ reserved'[x] = HeldOn(x, rowDay[x])' /\ reserved'[x] <= Limit[x]
      BY <1>4, <2>2, <2>4, <2>6
    <3> QED
      BY <3>1, <3>2
  <2> QED
    BY <2>5, <2>6
<1> QED
  BY <1>6, <1>7 DEF BudgetInv

\* A mined revert gives back what it counted, if the row still holds that day.
LEMMA RefundBudget ==
  ASSUME IInv, BudgetInv, NEW h \in Handlers, RecordReverted(h)
  PROVE  BudgetInv'
<1>1. PICK p \in Payments : p = call[h].payment
  BY DEF RecordReverted, IInv, HInv
<1>2. UNCHANGED <<rowDay, countedDay, mandateDay, today>>
  BY DEF RecordReverted, envVars
<1>3. /\ status \in [Payments -> Statuses] /\ reserved \in [Mandated -> Nat] /\ today \in Nat
  BY DEF IInv, TypeOK
<1>4. CASE ~IsCurrent(h)
  <2>1. UNCHANGED <<status, reserved>>
    BY <1>4 DEF RecordReverted
  <2> QED
    BY <1>2, <1>3, <2>1, BudgetKept
<1>5. CASE IsCurrent(h)
  <2>1. status[p] = "settling" /\ status' = [status EXCEPT ![p] = "failed"]
    BY <1>1, <1>5 DEF RecordReverted, IsCurrent
  <2>2. Refund(p)
    BY <1>1, <1>5 DEF RecordReverted, Refund, RefundApplies
  <2>3. /\ Straddled' = Straddled
        /\ \A q \in Payments : status'[q] = "open" => status[q] = "open"
    BY <1>2, <1>3, <2>1 DEF Straddled
  <2>4. \A s, d : Holders(s, d)' = Holders(s, d) \ {p}
    BY <1>2, <1>3, <2>1 DEF Holders
  <2>5. ASSUME ~Straddled, NEW s \in Mandated
        PROVE  reserved'[s] = HeldOn(s, rowDay[s])' /\ reserved'[s] <= Limit[s]
    <3>1. reserved[s] = HeldOn(s, rowDay[s]) /\ reserved[s] <= Limit[s] /\ reserved[s] \in Nat
      BY <1>3, <2>5 DEF BudgetInv
    <3>2. HeldOn(s, rowDay[s])' = Sum(Amount, Holders(s, rowDay[s]) \ {p})
      BY <1>2, <2>4 DEF HeldOn
    <3>3. p \in Holders(s, rowDay[s]) <=> Subject[p] = s /\ rowDay[s] = mandateDay[p]
      BY <2>1, <2>5 DEF Holders, Straddled
    <3>4. CASE p \in Holders(s, rowDay[s])
      <4>1. Sum(Amount, Holders(s, rowDay[s])) = Amount[p] + Sum(Amount, Holders(s, rowDay[s]) \ {p})
        BY <3>4, HoldersFinite, SumWithout
      <4>2. /\ Sum(Amount, Holders(s, rowDay[s]) \ {p}) \in Int
            /\ Sum(Amount, Holders(s, rowDay[s]) \ {p}) >= 0
        BY HoldersFinite, SumType
      <4>3. reserved'[s] = IF reserved[s] > Amount[p] THEN reserved[s] - Amount[p] ELSE 0
        BY <1>3, <2>2, <3>3, <3>4 DEF Refund, RefundApplies
      <4>4. Amount[p] \in Nat
        BY HoldersFinite
      <4>5. Limit[s] \in Nat
        BY SettlementAssumption
      <4> QED
        BY <3>1, <3>2, <4>1, <4>2, <4>3, <4>4, <4>5 DEF HeldOn
    <3>5. CASE p \notin Holders(s, rowDay[s])
      <4>1. Holders(s, rowDay[s]) \ {p} = Holders(s, rowDay[s])
        BY <3>5
      <4>2. reserved'[s] = reserved[s]
        BY <1>3, <2>2, <3>3, <3>5 DEF Refund, RefundApplies
      <4> QED
        BY <3>1, <3>2, <4>1, <4>2 DEF HeldOn
    <3> QED
      BY <3>4, <3>5
  <2> QED
    BY <1>2, <2>3, <2>5 DEF BudgetInv
<1> QED
  BY <1>4, <1>5

LEMMA BudgetInvInit == Init => BudgetInv
<1> SUFFICES ASSUME Init PROVE BudgetInv
  OBVIOUS
<1>1. /\ \A p \in Payments : status[p] = "open" /\ countedDay[p] = 0 /\ mandateDay[p] = 0
      /\ \A s \in Mandated : reserved[s] = 0 /\ rowDay[s] = 1
      /\ today = 1
  BY DEF Init
<1>2. ASSUME NEW s \in Mandated PROVE HeldOn(s, rowDay[s]) = 0
  <2>1. Holders(s, rowDay[s]) = {}
    BY <1>1 DEF Holders
  <2> QED
    BY <2>1, SumEmpty DEF HeldOn
<1>3. \A s \in Mandated : Limit[s] \in Nat
  BY SettlementAssumption
<1> QED
  BY <1>1, <1>2, <1>3 DEF BudgetInv

\* gateway.ts assertMandateTx: whatever is resumed, timed out, refunded or rolled over, the
\* mandate's row holds exactly what the payments of its day reserved, within the limit.
THEOREM ReservationsStayExact == Spec => []ReservationsExact
<1>1. Init => IInv /\ BudgetInv
  BY InitIInv, BudgetInvInit
<1>2. IInv /\ BudgetInv /\ [Next]_vars => (IInv /\ BudgetInv)'
  <2> SUFFICES ASSUME IInv, BudgetInv, [Next]_vars PROVE IInv' /\ BudgetInv'
    OBVIOUS
  <2>1. IInv'
    BY NextIInv
  <2>2. ASSUME \A h \in Handlers : ~Reserve(h) /\ ~RecordReverted(h)
        PROVE  BudgetInv'
    <3>1. today' \in Nat
      BY <2>1 DEF IInv, TypeOK
    <3> QED
      BY <2>2, <3>1, BudgetSteps, BudgetKept
  <2> QED
    BY <2>1, <2>2, ReserveBudget, RefundBudget
<1>3. BudgetInv => ReservationsExact
  BY DEF BudgetInv, ReservationsExact
<1> QED
  BY <1>1, <1>2, <1>3, PTL DEF Spec
=============================================================================
