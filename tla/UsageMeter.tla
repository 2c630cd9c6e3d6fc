----------------------------- MODULE UsageMeter -----------------------------
(***************************************************************************)
(* UsageMeter.sol: one settlement per payment id, funded by the payer's    *)
(* own call, by a receive authorization for that id, by a transfer         *)
(* authorization consumed in the same transaction, or by a deposit that    *)
(* the transfer authorization made before. The terms of a payment are      *)
(* those its quote gave; the relay is trusted to keep them.                *)
(***************************************************************************)
EXTENDS ModelRegistry, AgentMandate

CONSTANTS
  Payments,     \* payment ids
  Terms,        \* payment -> [payer, amount, agent, model]
  NoAgent, NoModel, NoPayment

ASSUME MeterAssumption ==
  /\ IsFiniteSet(Payments) /\ DOMAIN Terms = Payments /\ NoPayment \notin Payments
  /\ NoAgent \notin Agents /\ NoModel \notin Models
  /\ \A p \in Payments :
       /\ Terms[p].payer \in Users /\ Terms[p].amount \in Nat \ {0}
       /\ Terms[p].agent \in Agents \cup {NoAgent}
       /\ Terms[p].model \in Models \cup {NoModel}

VARIABLES
  settled,      \* settled: "no", "paid" or "shielded" (settleConfidential)
  spent,        \* spent
  earned,       \* providerEarned
  volume,       \* listingVolume
  boundTo,      \* x402AuthorizationPayments
  wired         \* which of mandate, modelRegistry, relay, confidential are set

meterVars == <<settled, spent, earned, volume, boundTo, wired>>

Wires == {"mandate", "registry", "relay", "confidential"}

MeterTypeOK ==
  /\ settled \in [Payments -> {"no", "paid", "shielded"}]
  /\ spent \in [Users -> Nat]
  /\ earned \in [Models -> Nat] /\ volume \in [Models -> Nat]
  /\ boundTo \in [Auths -> Payments \cup {NoPayment}]
  /\ wired \subseteq Wires

MeterInit ==
  /\ settled = [p \in Payments |-> "no"]
  /\ spent = [u \in Users |-> 0]
  /\ earned = [m \in Models |-> 0] /\ volume = [m \in Models |-> 0]
  /\ boundTo = [a \in Auths |-> NoPayment]
  /\ wired = {"relay"}

\* (mutant) The part below 10000 units earns nothing.
ProviderFeeCoarse(amount, bps) == (amount \div 10000) * bps

\* The provider's share, computed without overflow.
ProviderFee(amount, bps) ==
  (amount \div 10000) * bps + ((amount % 10000) * bps) \div 10000

MandatePays(p) ==
  IF Terms[p].agent = NoAgent THEN UNCHANGED mandateVars
  ELSE "mandate" \in wired /\ Spends(Terms[p].agent, Terms[p].payer, Terms[p].amount)

\* The money of a settlement, out of the payer's account or the meter's.
Pays(p, from) ==
  LET m == Terms[p].model  amount == Terms[p].amount IN
  /\ usdc[from] >= amount
  /\ IF m = NoModel
     THEN usdc' = Moved(usdc, from, Vault, amount) /\ UNCHANGED <<earned, volume>>
     ELSE LET fee == ProviderFee(amount, listing[m].bps) IN
       /\ "registry" \in wired /\ IsApproved(m)
       /\ usdc' = Moved(Moved(usdc, from, listing[m].provider, fee), from, Vault, amount - fee)
       /\ earned' = [earned EXCEPT ![m] = @ + fee]
       /\ volume' = [volume EXCEPT ![m] = @ + amount]

\* _settle
Settles(p, from) ==
  /\ settled[p] = "no"
  /\ settled' = [settled EXCEPT ![p] = "paid"]
  /\ spent' = [spent EXCEPT ![Terms[p].payer] = @ + Terms[p].amount]
  /\ MandatePays(p) /\ Pays(p, from)
  /\ UNCHANGED <<wired, registryVars, encl, now>>

\* settle, settleAgent, settleModel; and settleAuthorized by the payer or the
\* relay, whose authorization carries the payment id as its nonce.
SettleOnce(p) == Settles(p, Terms[p].payer) /\ UNCHANGED <<boundTo, auth>>

\* The signature of authorization a covers the payer and amount of payment p.
Covers(a, p) == AuthPayer[a] = Terms[p].payer /\ AuthAmount[a] = Terms[p].amount

\* (mutant) Nothing remembers what an authorization paid for.
ConsumesAgain(a, p) == Covers(a, p) /\ boundTo' = [boundTo EXCEPT ![a] = p]

\* _consumeX402: an authorization serves one payment.
Consumes(a, p) ==
  /\ Covers(a, p) /\ boundTo[a] = NoPayment
  /\ boundTo' = [boundTo EXCEPT ![a] = p]

SettleTransferAuthorized(p, a) ==
  /\ auth[a] = "unused" /\ auth' = [auth EXCEPT ![a] = "transferred"]
  /\ Consumes(a, p) /\ Settles(p, Terms[p].payer)

\* The relay has verified the deposit by its logs; the meter itself knows only
\* that the authorization was used and that its balance suffices.
SettlePrepaidTransfer(p, a) ==
  /\ "relay" \in wired /\ auth[a] = "transferred"
  /\ Consumes(a, p) /\ Settles(p, Meter)
  /\ UNCHANGED auth

\* The unverified confidential hook, on a local chain only.
SettleConfidential(p) ==
  /\ local /\ "confidential" \in wired /\ settled[p] = "no"
  /\ settled' = [settled EXCEPT ![p] = "shielded"]
  /\ UNCHANGED <<spent, earned, volume, boundTo, wired, registryVars, mandateVars, ledgerVars>>

\* setMandate, setModelRegistry, setConfidential; setRelay, which may disable it.
Configure(w) ==
  /\ wired' = wired \cup w \/ wired' = wired \ (w \cap {"relay"})
  /\ UNCHANGED <<settled, spent, earned, volume, boundTo, registryVars, mandateVars, ledgerVars>>

MeterNext ==
  \/ \E p \in Payments :
       \/ SettleOnce(p) \/ SettleConfidential(p)
       \/ \E a \in Auths : SettleTransferAuthorized(p, a) \/ SettlePrepaidTransfer(p, a)
  \/ \E w \in Wires : Configure({w})

-----------------------------------------------------------------------------
Unclaimed == {a \in Auths : auth[a] = "transferred" /\ boundTo[a] = NoPayment}
PaidBy(u) == {p \in Payments : settled[p] = "paid" /\ Terms[p].payer = u}
PaidFor(m) == {p \in Payments : settled[p] = "paid" /\ Terms[p].model = m}

Prices == [p \in Payments |-> Terms[p].amount]
Fees(m) == [p \in Payments |-> (Terms[p].amount * listing[m].bps) \div 10000]

\* The meter holds exactly the deposits no payment has claimed: the relay's
\* recovery never spends another payer's deposit, nor one deposit twice.
DepositsBacked == usdc[Meter] = Sum(AuthAmount, Unclaimed)

\* What an account is recorded to have spent is what its settled payments cost,
\* each counted once by whatever path it was funded; and a listing earned its
\* exact share of each payment, however small (UsageMeter._settle).
BooksExact ==
  /\ \A u \in Users : spent[u] = Sum(Prices, PaidBy(u))
  /\ \A m \in Models :
       volume[m] = Sum(Prices, PaidFor(m)) /\ earned[m] = Sum(Fees(m), PaidFor(m))
=============================================================================
