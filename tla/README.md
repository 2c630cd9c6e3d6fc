# Enclave: models of the payment, inference and chain protocols

TLA+ models of the code under `src/_backend` (an inference gateway, a worker and
EVM contracts) and `src/frontend/src/enclave` (the browser). `PROJECT.json`
lists the components, the TLC runs, the mutants, the source lines behind every
definition, the hazards and the theorems.

## 1. Inventory

| Component | State | Operations | Interacts with |
| --- | --- | --- | --- |
| Payment settlement (`apps/api/src/gateway.ts`, `chain.ts`, `settlement-proof.ts`) | `payments` row (status, attempt, mode, mandate day, proof), `mandates` row | intent, x402 challenge, claim, settle, record, refund, reconcile | signer journal, UsageMeter, token, inference |
| Inference execution (`gateway.ts` `infer`, `inference-execution.ts`) | `inference_executions`, `receipts`, `idempotency_keys`, `usage`, payment status | replay, dispatch claim, run, publish, quarantine | settlement, provider, receipt anchoring |
| Signer journal (`packages/db/src/signer.ts`) | `chain_transactions`, node's pool and chain | send, confirm, recover | every module that writes to the chain |
| x402 v2 funding (`chain.ts`, `x402-v2.ts`) | authorization bound to a payment, admission block, funding transaction | admission, transfer, search for a deposit, prepaid settlement | settlement, UsageMeter |
| UsageMeter, AgentMandate, FeeVault, InsuranceStaking, ModelRegistry, AttestationVerifier, ENCL (`contracts/src`) | storage of each contract, token balances | public functions | the relay, payers, providers, owner |
| Agent runtime (`agent-runtime.ts`, `agent-runtime-store.ts`) | run row (status, lease, version, spent, phase), action ledger | create, claim, heartbeat, step, cancel, reconcile | settlement and inference |
| TCB policy lifecycle (`tcb-lifecycle.ts`) | active policy, proposals | initialize, propose, activate | inference, sessions, ModelRegistry |
| Provider readiness (`gateway.ts`, `near-provider.ts`) | attempt counter, readiness | preflight, failure, admission | NEAR verifier |
| Wallet login (`wallet-auth.ts`) and browser session (`wallet-session.ts`) | challenges, limiters, sessions; revisions | challenge, verify, logout; connect, refresh | gateway |
| Receipt anchoring (`worker/src/anchorer.ts`, `receipt-recovery.ts`, `jobs.ts`) | receipt status, job state | anchor, recheck, requeue | journal, AttestationVerifier, Redis |
| Chain indexer and policy sync (`indexer.ts`, `reorg.ts`, `policy-sync.ts`) | cursor, checkpoints, events, model approvals | batch, rewind, rebuild, quarantine | chain, inference |
| Release acceptance (`scripts/accept-near-arc.ts`, `rearm-near-arc-settlement.ts`) | private journal, its lock file, recovery record, candidate manifest | execute, recover, replay, prepare, rearm, archive, unlock | gateway, chain, an operator |
| Worker lifecycle, HTTP routing, SDK, release manifest, deployment runtime | none of protocol interest | | |

What is hard here: PostgreSQL and the chain are not one transaction. Between a
claim and the record of its outcome a process makes calls that may fail, time
out after having acted, or be overtaken by a recovery attempt; the payer acts on
chain by itself; the provider cannot take part in a transaction; forks undo what
was confirmed. The properties that make the components correct:

- settlement: what is accepted was paid, by its own payer and by the transaction
  recorded; what is declared failed is not charged afterwards; the daily
  reservation is exact; stale executions record nothing; every claim resolves;
- inference: one provider run per payment and per idempotency key; receipts,
  usage and consumed payments one to one; consistent replays; permanent quarantine;
- signer journal: one transaction per operation, one operation per nonce, no gap
  left by a crash, no stale confirmation after a fork;
- contracts: balances cover what is owed, limits hold, nothing settles twice;
- agent runtime: a stale runner publishes nothing, nothing is paid twice, budget
  and cancellation hold at dispatch;
- anchoring and indexing: nothing wrong is final, and both converge to the canonical chain;
- policies and readiness: nothing is published under a retired policy, no failure
  is forgotten because of an older success;
- logins: a token belongs to the wallet that is connected, abandoned sessions end;
- acceptance: one payment and one completion whatever fails, true evidence.

## 2. The modules

`PaymentSettlement` models the settlement code as a set of *handlers*:
concurrent executions of `performSettlement` / `settleX402ForKey`, started by a
client (`BeginClaim`), or by a retry or the reconciler (`Resume`). A database
transaction is one step, except the claim of an open payment, which is split
where it waits for the mandate row (`BeginClaim`, `Reserve`/`Refuse`) because
the day is read before the wait. After the claim each `await` is a step:
`Submit` (sendDurableTransaction), `RelayConfirmed`/`RelayReverted`
(confirmDurableTransaction and verifySettlementProof), for x402 the search for a
deposit (`FundingFound`/`NoFunding`) and the prepaid settlement
(`PrepaidConfirmed`/`PrepaidReverted`), and the outcome (`RecordSettled`,
`RecordReverted` with its refund, `RecordUnknown`), fenced by the status and by
`settlingStartedAt`, here an attempt number. `CallFails` sends any of these
calls down the error path the code takes; `RecordSettledUnacknowledged` commits
and then fails; `Crash` stops a handler anywhere; `Overdue` is the 120 s expiry of the
API reconciler and of the worker. The chain is the operation of the relay per
operation key, the meter's replay flag (remembering which transaction set it)
and the state of the payer's authorization; the payer may submit it to the
meter, hand it to the token as a direct transfer, or cancel it.

`InferenceExecution` models `infer`: `Arrive`, `Replay`, `Claim` (the permanent
dispatch claim of external providers), `Run` (publishing transaction takes the
key and row locks, consumes, calls the provider), `Publish` (one commit) and
`Abort` (rollback, failure of the provider, of a later check, of the process).

`PaymentGateway` runs both over one `status` column. Its inference adds what
`consumePayment` verifies on the chain, at the claim and again at publication.
`PaidInference` is the abstract promise made to a client for one payment: its
payer is debited before it is accepted, at most one dispatch, served at most
once. The refinement mapping reads `charged` off the meter and the
authorization, `dispatches` off the provider runs and the stage off the status.

`SignerJournal` models `packages/db/src/signer.ts` for one signer: executions
of `sendDurableTransaction` followed by `confirmDurableTransaction` (`Senders`)
and of `recoverSignerTransactions` (`Workers`), over the journal, the advisory
lock and a chain. The database transactions hold the lock across their calls to
the node, so a locked transaction is *not* one step: the holder works on
`draft`, and the chain mines, forks and forgets between `Begin`, one `Check`,
`Replay` or `Conflict` for each row in nonce order, and `Found`, `Allocate`,
`NonceGap` or `Recovered`, which commit (`journal' = draft'`) or roll back
(`Leave`). After the commit come `BroadcastFirst`, `Mark` (the conditional
update of the status), `See` (waitForTransactionReceipt), `Prove` (the second
reading of the receipt, under the lock) and `Record`. `Crash` ends any of them;
`GiveUp` is a timeout or a TransactionProofError. A block carries at most one
transaction of the signer, and the signer's nonce after it; a fork replaces the
last blocks by blocks of a new `branch`.

`AgentRuntime` models `agent-runtime.ts` and its store. `row` is `agent_runs`
with the part of the sealed state that steers the run (phase, amount); a runner
(`runNext`) works on `seen`, its copy, and every write goes through `Save`, which
is `write` under `change`: the lease token must be the row's and alive
(`Fenced`), the current row is what is written over, and a cancellation it
carries wins (`Honoured`). Requests of the owner write with the version they
read (`SaveRead`). `SweepRead`, `Sweep`, `Claim`, `StopRead`, `StopWrite`,
`Prepare`, `Ask`, `RequirePayment`, `Dispatch`, `Call`, `SettleReturns`,
`InferReturns`, `Complete` follow runNext from one await to the next; `Fail` is
its catch block, where the marker in the row and not the runner's progress
decides; `Crash`, `Expire`, `Deadline` are the process, the lease and the clock.
The gateway is `gate`: for each step the payment, the idempotent answer and how
often the runtime asked for each. `Settle` and `Infer` happen whether the runner
still waits or not, so that an answer may come after the timeout, the lease, or
another runner's claim.

`TcbLifecycle` is the versions of the software policy (`Propose`, `Approve` and
`Revoke` by the registry, `Activate` in a transaction that holds an exclusive
advisory lock while it asks the chain). `ProviderReadiness` is the flag behind
new payments and the attempt number that decides whose success counts.
`Serving` composes both with `InferenceExecution`: a request names a session
opened under one version, a publication holds the lock shared from its check of
the policy to its commit (`fence`), and a failure of the provider closes
admission.

`Ledger` is the two tokens of a deployment: balances, time, and the state of
each EIP-3009 authorization. `UsageMeter`, `AgentMandate`, `FeeVault`,
`InsuranceStaking` and `ModelRegistry` have one action per public function over
it; a `require` is a guard, a call of another contract is that contract's
operator (`_settle` reads `ModelRegistry`'s terms, spends the mandate and pays
the vault in one step). `OnChain` composes them.

`ChainIndexer` follows a tick of the indexer between its reads of the chain: the
advisory lock, the search for a common ancestor, batches that stage rows, the
rewind that rebuilds the models' approvals from the events that remain, and the
commit, which happens even when the batch fails. Logs and stored events are sets,
as the rows of `chain_events` are; a replay takes them in the order of block and
log index (`Precedes`). `ReceiptAnchoring` is one
receipt: the queue's job with its attempts, workers of which one may be stalled
and continue beside its replacement, recovery of anchored receipts
(`RecoverRead`, then the update on what was read) and of jobs, over a verifier's
chain that forks. `Worker` is the process: which loops run, one tick at a time.

`WalletLogin` is the gateway's login store; `consume` is split at its locks
(`Delete`, `Lock`, `Insert`). `WalletSession` adds the browser page: connections
and their events, refreshes, the attempts that sign in or restore, timeouts and
sign-outs whose requests go on after the page has given up on them, and the one
cookie that the responses set and delete.

`Acceptance` is the scripts that buy one inference and prepare the evidence for
a release. A run is a sequence of awaits over `mem`, its copy of the journal;
`Saves` replaces the file, `Begins` saves and then sends, `Fail` is any check or
request that ends the run and `Crash` leaves the lock. `wire` holds requests
that may be handled at any later time, or never. `Review`, `Rearm` and
`SaveRearmed` are the operator's proof that nothing was spent and the script that
acts on it. The gateway and the chain are what their handlers do to the one
payment of the plan, by a clock of their own.

`Sums` is the sum over a finite set that the books of settlement, of the
contracts and of the agent runtime are made of. `SumsProofs`,
`PaymentSettlementProofs`, `GatewayProofs` (inference, serving and the composed
gateway), `SignerJournalProofs`, `OnChainProofs` (the contracts, and the worker
that follows them), `WalletSessionProofs`, `AgentRuntimeProofs` and
`AcceptanceProofs` hold the theorems; the `MC*` modules the constants of the runs.

### Abstractions

- Settlement treats a mined transaction as final and a transaction as found
  again by its operation key. The second is `EffectOnce` of
  `SignerJournal` and its `CommittedFirst`; the first is true of it down to the confirmation depth.
- In mock mode the mint and approve transactions, and opening an agent's
  on-chain mandate, are one operation with the settle call.
- A stored x402 authorization exists exactly in payments that left `open`; each
  payment has its own authorization. `Challenge` switches an intent to x402,
  whose nonce the payer chooses: its authorization is a fresh one.
- The in-process queue `serialized` of chain.ts only narrows the interleavings
  and is ignored. Intents (`openPayment`) are the initial rows.
- Refusals that change nothing (unknown key, wrong owner, changed deployment,
  provider admission) are claims that do not happen, or `Reject`/`Abort`.
- In inference, one owner; payments are large enough; a lost acknowledgement of
  the publication is a publication without an answer. A unique violation inside
  the publishing transaction aborts it in PostgreSQL, which is `Abort`. A replay
  found by the second lookup of an execution that holds a claim cannot happen:
  the claim is unique per owner and key, so no other execution can have
  published under that key.

- In the journal, an operation key stands for one call: the refusal of a key
  reused with other parameters, gas limits, the chain id check and the safe
  integer bound change nothing and are left out. The calls that `broadcast` and
  a replay make to the node are one step with the nonce they rest on, and so is
  reading the pending count with preparing, signing and inserting the row, which
  nobody sees before the commit. The receipt of `waitForTransactionReceipt` is
  the first one seen, however the chain forks afterwards. Blocks without a
  transaction of the signer come only while one of its own is too shallow;
  transactions signed elsewhere do not return after a fork.
- In the agent runtime, a lease is alive or not, for all processes at once
  (processes whose clocks disagree are not modelled); a session may expire
  whenever it is checked. An inference without a payment opens the intent of the
  step's idempotency key or finds it again; the payment is bound to the request
  hash, so that no other inference consumes it. The owner may settle the intent
  directly. `runNext` reads at most 100 expired runs; more wait for the next
  tick. `get`, `list`, the hash chain of the journal and a sealed state that
  cannot be opened are left out. A marker committed for a call that was never
  made stays `outcome_unknown` until the gateway has a proof, as the code
  intends. A call that fails with a `ConflictError` ends the tick without a write
  (`agent-runtime.ts:328`) and leaves the row until its lease expires: for the row
  that is `Crash` and then `Expire`.

- In serving, the CVM that `syncTcb` keeps is taken to follow the row; repeated
  calls of propose and activate (their idempotency keys), the legacy and fixture
  bindings and the listing of policies on the chain are left out. `Scenes` bounds
  what one behaviour combines.
- In the contracts, signatures, permits and metadata are left out, users are
  distinct from contracts. A confidential payment moves confidential tokens only,
  whose balances are not counted: `SettleConfidential` records the payment and
  moves no balance of the model. Nobody sends ERC-20 tokens to a contract
  unasked; that would only leave it with more than it owes, so that the equalities
  of `ObligationsHeld` are bounds from below in practice. Time is a
  counter with days of two ticks. `Scenarios` says which contracts a behaviour
  calls; `clock` is the passing of time and `deposits` the payers' direct
  transfers. AgentMandate has one meter for good.
- In the indexer, a branch that a fork abandoned does not come back, the search
  for an ancestor is one read. It starts beside a chain of `Existing` blocks, of
  which the second lists a model. `index.overlooked` is a history variable: the
  old cursor, when a batch longer than the window of checkpoints skipped over a
  block that a fork had replaced. In anchoring, `verifyReceipt` always emits its
  event when it does not revert, so the branch of `anchorer.ts:82-85` cannot be
  taken; a recovery that skips a receipt or fails (`receipt-recovery.ts:24,32,36`)
  changes nothing and is a recovery not yet run.
- The two halves of the worker write different tables and read none of each
  other's, so the run takes them one at a time.
- In the wallet, the page's fences (generation, version, signal) all mean that a
  continuation runs only while its attempt is the active one; accounts and chain
  are read at once. A challenge with its answer, and a resume with its answer,
  are one step. The probes of a WalletConnect peer, payment approvals, network
  switching, API-key clients, the workspace's content and closing the page are
  left out.
- In the acceptance, the preflight, the checks of hardware, signatures and
  histories and the paging of the workspace only end a run; one operator unlocks
  at a time, because two could remove a lock made in between
  (`accept-near-arc.ts:506-507`). A tick is longer than the 60 seconds a proof is
  good for and than a request's handling by the gateway.

## 3. The runs

| Run | Instance | Shows |
| --- | --- | --- |
| `settlement` | 2 payments (amounts 2 and 1) of one mandate with limit 2, 2 handlers, 3 claims, 2 days, 1 fault, simulated and authorized, all payer acts; 0.9 M states | `NoFreeService`, `FailedNeverCharged`, `ReservationsExact`, `NeverReopened`, `OnlyCurrentAttemptRecords` |
| `gateway` | 1 payment, 2 handlers, 2 executions of infer, 4 claims, 1 fault, every deployment and payer act | the refinements `KeepsSettlement`, `KeepsInference`, `KeepsPromise`, and `SettlementResolves` |
| `serving` | 3 payments, up to 4 requests (retry without key, key reused for another payment, and for another body), 2 executions, both backends, 2 policies, 2 activations, 2 checks of the provider | `AtMostOneRun`, `ReceiptsMatchPayments`, `AnswersConsistent`, `ServedByActivePolicy`, `ReadinessFresh` |
| `signer` | 2 operations, 1 sender, the worker's recovery, depth 0, a fork of 1 block, 1 foreign transaction, 1 fault; 0.4 M states | `EffectOnce`, `NoncesExact`, `RecordMatchesBlock`, `RevisedOnlyByForks` |
| `signer_live` | 1 operation, 1 sender, the recovery, depth 1, 2 forks of up to 2 blocks, 1 fault | `EventuallyRecorded` |
| `agent` | 1 run of 2 steps, 2 runners, an owner's request at a time, prices 1 and 2 against a budget of 3, both payment modes, 2 events | `PaidOnce`, `BudgetHeld`, `SpendingAccounted`, `StepsFollowAnswers`, `CancelSticks`, `ComesToRest` |
| `contracts` | 2 users, 1 model, 1 mandate, 3 payments, 2 authorizations of which one covers any of them, 2 stakers; 0.35 M states | `ObligationsHeld`, `BooksExact`, `ReserveBacked`, `RewardsCovered`, `MandateHeld` |
| `worker` | 2 models on a chain of 5 blocks that grows by 4, 2 blocks with events, a window of 2 and batches of 3, one receipt with 2 attempts and 2 workers, one fork of any depth, 1 failed read, crash or reset of the indexer, 2 of the anchoring; 0.8 M states | `IndexConsistent`, `IndexConverges`, `FailedOnlyIfReverted`, `ReceiptsSettle` |
| `wallet` | 2 addresses, 1 session per address, up to 2 clicks, and in turn wallet changes, a connection, a fault, an expiry, another device | `SessionsLimited`, `TokenMatchesWallet`, `NoSessionLeft` |
| `acceptance` | 3 runs of any mode, 1 of them killed, 3 ticks, logins and sessions of 2 and authorizations of 1; 0.6 M states | `EvidenceTrue`, `OneAttempt`, `JournalFirst` |
| `finding_revert` | 1 payment, 1 handler, the payer settles itself | `RevertProvesNoTransfer` is violated |
| `finding_midnight` | 3 payments, 3 handlers, limit 1, 2 days, no fault | `DailyLimitHeld` is violated |

Bounds. Two handlers suffice for an execution and the one that superseded it;
three claims let both payments be claimed and one resumed, or one resumed
twice. One fault is enough to start a recovery while the first execution still
runs, since the expiry of a live execution, a failed call and a crash each
count as one. Two payments of one subject with unequal amounts, together above
the limit, make a refund of the wrong size or day visible.
Two days are one midnight. `MayRevert` names the payment whose preconditions
on chain may fail; in the liveness run they hold, since otherwise an x402 payment may
rightly stay uncertain for ever.

For the journal, the sender and the worker are the two executions that meet on
one row; the sender may send the second operation while the first is pending,
forgotten or orphaned, or the same one again. A fork is one block deeper than
the confirmation depth, so that confirmed rows are orphaned too.
The worker visits every row under the lock, which makes it the second process
in every race of two senders except a race of two allocations, which the lock
excludes and `NoncesConsecutive` proves for any number of senders.

For the agent runtime, one run suffices because runs share nothing but the
queue; two steps are the least with a budget to carry over. Two runners are the
one that lost its lease and its successor. An event is a lease lost by a live
runner, a crash, a failed call or a request of the owner; two let a resume or a
cancellation meet a fault. Timeouts, deadlines and expired sessions are not
counted.

For the contracts, an authorization that several payments could claim is what a
pooled balance risks; amounts and the scale of rewards are small primes, so that
every division rounds. For serving, the scenes pair what races: retries of one
payment, activations under running executions, checks under failures. For the
indexer, a window of two allows forks deeper than it, and batches of three leave a
gap between two windows, as the defaults of 128 and 2000 do; five blocks are the
least that take a second batch, and four more let a fork replace the first. A second fork would
repeat the first, since an abandoned branch does not come back. One receipt suffices, as receipts share
nothing but the signer. For the login, one session per address makes every
second login one too many. For the acceptance, three runs are a failed one, a
rearm and an execution, or a failed one and two replays; three ticks let an
authorization expire by the script's clock two ticks before it does on chain.

Deadlock is not checked: the clocks, claims, budgets and days of the instances
are bounded, the journal may have nothing left to confirm and a run ends, so the
models stop.

Fairness (`gateway`, `signer_live`, `agent`, `worker`, `wallet`). Settlement: weak fairness of what an execution does next (the
event loop drives resolved promises, and a call returns), of mining (blocks are
produced), of the expiry and of resuming each uncertain payment (reconcilePayments
runs every 15 s and visits every uncertain row). No fairness is assumed of
clients, of the payer, of midnight or of faults, which are bounded in number.
Journal: weak fairness of each execution's next step and of mining what the node
holds; strong fairness of starting the recovery, because the worker's timer
starts it again every 15 s and PostgreSQL queues the lock's waiters in order, so
that others taking the lock again and again cannot starve it. Nothing is assumed
of senders starting, forks, faults or forgotten transactions.
Agent runtime: weak fairness of each runner's next step (its timer ticks for
ever, database transactions end), of its timeout and the errors it must expect
(`bounded` races every call against a timer), and of the expiry of a lease
nobody renews. The owner, the gateway's answers and faults are free.
Worker: weak fairness of the next step of each loop (`polling.ts` starts a tick
after every tick, whatever its outcome), of BullMQ giving a job to a worker, of
mining and of the signer's rebroadcast. Growth of the registry's chain, forks,
stalls and failed calls are free. Wallet: weak fairness of the gateway's
executions, of their answers, of sign-out requests and of the timer of an
attempt; nothing is assumed of the user, the wallet or the network's order.

## 4. Findings

*A mined revert does not prove that nothing was debited.* In authorized mode the
payer may call `settleAuthorized` itself. The relay's transaction then reverts
(`replay`), and `performSettlement` marks the payment `failed`, a final status,
and refunds its reservation, although the meter holds the payment as settled. The
comment beside that update says the opposite. The x402 path keeps such a payment
uncertain.

*The daily limit at midnight.* `assertMandateTx` reads the day before it waits
for the row lock. A waiter from before midnight that gets the row after somebody
rolled it to the new day resets it to the ended day with nothing spent, and the
next claim resets it again: reservations of one day exceed the limit. The window
is the wait for one row lock. `ReservationsExact` is therefore stated for
histories in which no claim straddled midnight.

*A fork hidden by a long batch.* The indexer looks for a common ancestor, and then
reads a batch of up to 2000 blocks; the checkpoints it keeps are the last 128.
When a batch is longer than that, its first kept header is not next to the last
checkpoint, and `checkpointTail` (`reorg.ts:49`) starts a new window instead of
comparing hashes. A fork below the cursor that comes between the search and the
batch is therefore not noticed, then or later: the events of the orphaned blocks
stay, and the index says it is active. `_backend/README.md:162` promises a rewind
or `INDEXER_REBUILD_REQUIRED`. It takes a fork deeper than the confirmations, and
an indexer that is more than a window behind. This is the deployed configuration,
so `IndexConsistent` is stated for it: the history `overlooked` is the height up to
which such a fork was missed, what is stored above it is one branch, and the
models table is the replay of what is stored. The `worker` run takes such batches
and reaches states where an orphaned approval is served: that an active index
approves only what its branch does, `rows[m].approved = Registry(Indexed)[m].approved`,
is violated in a trace of 16 states. No run is kept for that.

Two races have no run of their own, since they heal. `reconcileJournal` asks the
node for the receipt of a row (`signer.ts:88`) and then for the mined nonce
(`:101`): a transaction mined in between makes `SignerNonceConflictError` report
a nonce "consumed without the recorded transaction"; the transaction rolls back
and the next call finds the receipt. In the browser, the answer of a sign-out
request for a restored session deletes the one cookie (`wallet-auth.ts:266`), even
if a newer login has set it meanwhile (`dashboard.ts:433`): the page stays signed
in, and signs in again after a reload.

Modelled as the code does it, and covered by `EventuallyRecorded` instead of a
finding: `confirmDurableTransaction` reads the head after the receipt, so a fork
between the two calls records a block that is already orphaned. The next
reconciliation revises the row.

## 5. Proofs

The proof modules follow one argument: an inductive invariant `IInv`, `Init =>
IInv`, one lemma per action that `IInv /\ [Next]_vars => IInv'`, and the
properties as consequences. The assumptions are those named in the modules
(`SettlementAssumption`, `InferenceAssumption`, `GatewayAssumption`,
`SignerAssumption`, `AcceptanceAssumption` and those of the composed modules): nothing on
the number of payments, handlers, requests, claims, days, forks or faults; the
operations of the journal, and the payments, users and listings that are summed
over, are finitely many, and the names of what is absent are not those of things.

*Sums.* Amounts are added up over sets whose size the theorems leave open.
`SumsProofs` derives what is needed of `Sum` (adding and removing an element, a
change at one element, order, sums of sums and of multiples) from an induction
over the subsets of a finite set. `FiniteInduction` states it of a family of sets
instead of a predicate, and gets it from the well-foundedness of the subset order
in the library; the recursive function behind `MapThenSumSet` is shown to exist
the same way (`SumsExist`).

*Settlement.* Some facts are final once true (`Final`): the chosen mode, the
outcome of a journaled operation, the meter's flag, a deposit. `IInv` is
`TypeOK`, `ReserversDistinct` (the row lock: two executions never wait for a
mandate with the same payment), `PInv(p)` for each payment (a flag set on the
meter comes from the operation it names; a failed row has a reverted relay
operation and is not x402; an accepted row carries the evidence of its
acceptance) and `HInv(h)` for each handler: what an execution knows at each
stage is made of final facts, so it is still right when the execution, however
late, writes its conclusion. That is what makes the properties inductive: an
outcome is recorded on the strength of what was read several steps before.
`ReservationsExact` has an invariant of its own, `BudgetInv`: as long as no claim
straddled midnight, a mandate's row holds the sum of what the payments dated with
its day reserved, and nothing is dated later than the row. Proved: `TypeOK`,
`NoFreeService`, `FailedNeverCharged`, `ReservationsExact`, `NeverReopened`,
`OnlyCurrentAttemptRecords`.

*Inference.* `IInv` adds to `TypeOK` who may hold a claim (`HoldersHaveClaims`,
`HoldersDistinct`: an execution past its claim is the only one of its payment
and key), that a running execution's payment is settled, that claims are unique
by key, that runs and answers are traced to claims and receipts. Proved: `TypeOK`,
`AtMostOneRun`, `ReceiptsMatchPayments`, `AnswersConsistent` and
`QuarantineIsPermanent` (an action property that the runs leave out).

*Serving.* Every step of `ServingNext` is a step of `InferenceExecution` or leaves
its variables alone (`ServingInfers`), so what is proved of inference holds under
activations and revocations too. `ServedByActivePolicy` follows from an invariant
of the two locks: while a publication holds the shared lock nobody activates, and
the version it checked stays the only active one until it commits. `ReadinessFresh`
follows from one on the attempt numbers: the newest check is never one that
something was observed after.

*Gateway.* Settlement and inference share the row of a payment, and each proves
its properties as if it were alone; the composition is sound because every step
of `GatewayNext` is a step or a stutter of both. `GInv` joins the two invariants
with `RunningRan` (a running execution has counted its run) and `PaperOnly` (only a
deployment without a chain settles on paper). A step of settlement leaves the
rows that inference relies on alone: it never moves a row that is settled or
consumed. A publication is settlement's `Consume`, because `InferProven` has just
checked that the row's settlement is proven. Under the mapping to `PaidInference` a
payment's acceptance needs the debit (`NoFreeService`), its dispatch the claim,
and its serving the commit. Proved: `KeepsSettlement`, `KeepsInference` and, for
external providers, `KeepsPromise`: the echo backend has no dispatch claims, so it
may run a request again after a rollback, and makes no such promise.

*Contracts.* `ReserveBacked` rests on `VaultInv` (the reserve is at most the
vault's balance, which only the vault's own functions lower), `MandateHeld` on
`MandateInv` (the counter of a mandate is what a history says was spent on the day
it is dated with, no later day has any). `ContractsInv` puts with them what each
contract owes as a sum: `BooksInv` (the meter holds the deposits no payment has
claimed, the registry the listings' stakes; what accounts spent and listings earned
is the sum over the payments made) and `StakingInv`, where `Covered` bounds the
stakers' claims at full precision, before rounding: what is accounted for covers
the sum of their rewards and of stake times the reward per token since they were
last paid, and rounding only lowers what a staker gets. All for any number of
users, agents, authorizations and payments, any limits, precision and times.
Proved: `TypeOK`, `ReserveBacked`, `MandateHeld`, `ObligationsHeld`, `BooksExact`,
`RewardsCovered`.

*Journal.* `IInv` is `TypeOK` (which says when the lock is held), `Coherent`
(the draft has the committed rows with the committed nonces), `KnownOps` (past
the lock, an execution works on a committed row), `CommittedFirst` and
`CountsRise`. The last is about the chain alone: along it the signer's nonce
rises by one at each of its transactions and nowhere else, across any fork. Two
blocks therefore never have transactions of one nonce, and as an operation has
one committed nonce, it is mined at most once: `EffectOnce`. `NoncesExact` is an
induction on the steps that write a row (`RowsStep`): while the signer is the
only one to sign, the node's next nonce is the count below the end of the chain
or above a pending committed row, so it is at most the number of rows
(`NextNonce`), and the check against the highest committed nonce makes it no
less. The outcomes rest on `PInv`. A fork never brings a block back, it puts blocks
of a new branch where it removed some; so what was read of a block is right for as
long as that block is canonical (`Holds`), however long ago it was read. `PInv`
says so of the rows, of the draft of the lock's holder and of the receipt a
confirmer carries (`Confirms`), and that a reconciliation's head is above every
confirmation it can see (`Reconciling`): a row it calls missing is then one whose
block is gone, since an operation is mined at most once. Proved: `TypeOK`,
`CommittedFirst`, `EffectOnce`, `NoncesExact`, `RecordMatchesBlock`,
`RevisedOnlyByForks`.

*Agent runtime.* `AInv` says that a row's progress, its step and then its markers,
never goes back (`Onward`). Two fences make it so. A token is the version its
claim wrote (`TokensDistinct`), so the one runner whose token is the row's sees
the step and phase that are in it (`HoldersUpToDate`); every other runner's write
is refused, however late. A request that finds the version it read finds the row
it read (`RequestsUpToDate`). A call of a step is therefore made only by the
runner that committed its marker, and before the marker no call was made
(`SettledOnce`, `InferredOnce`); once the row is past it, no runner commits it
again. Every write therefore moves a row to the next marker of its step or to the
next step (`Progress`), whoever makes it, and `AccountInv` follows the sums along
those moves: `spent` is the price of the steps counted, the amount of the current
step fits what is left of the budget from the moment its marker is committed, and
a step is counted with its answer. Proved: `PaidOnce`, `CancelSticks`,
`BudgetHeld`, `SpendingAccounted` and `StepsFollowAnswers`, for any runs, runners,
requests, prices, deadlines and faults.

*Wallet login.* A verification deletes its challenge under the row's lock and then
counts the sessions of its address under an advisory lock of that address, which
it holds until it commits. The invariant says who can be between the two: one
verification for a challenge, one for an address, and that one knows the count to
be below the limit. Proved: `SessionsLimited`, for any browsers, addresses and challenges.

*Browser.* `TokenMatchesWallet` is what is left, when an answer comes, of what the
page knew when it asked. `PageInv` says that the active attempt and its challenge
are for the connected account (`Fits`), because every change of the connection
ends the attempt (`NotifiedFits`), and that a token's session is for the address
of its challenge (`SessionsNamed`). `WalletInv` says that the last event that is
queued, or else an answer that is pending, is the wallet's selection
(`EventsCatchUp`), so that the page cannot miss the last change, and that nothing
is pending of an earlier connection (`OneConnection`). Proved: `TokenMatchesWallet`.

*Worker.* `FailedOnlyIfReverted` is one invariant of whoever holds a verdict: the
row, a run between its verdict and the write, a recovery between its reading and
its repair. Each took it from a transaction that was deep and reverted, and the
history only adds reverts to those it has seen (`VerdictsTrue`), so a verdict is
as true when it is written late as when it was taken. Proved: `FailedOnlyIfReverted`,
for any workers, recoveries, attempts and forks.

*Indexer.* `IndexConsistent` says that a table is the replay of a branch, although
rows were written batch by batch, under forks, from reads of different moments.
`ChainInv`: a block, wherever it is on a branch, ends the same prefix, and its
logs are at its height. `IndexInv`: the checkpoints are the last blocks of one
branch as long as the cursor; what is stored lies below the cursor and is, above
`overlooked`, what the registry emitted on that branch; a rewind to an ancestor
keeps all of it. `RowsInv`: the table agrees with the replay of what is stored while
the index is active, and approves nothing otherwise; agreement is up to models that
were orphaned, which stay as disabled rows with no listing id (`Agrees`, `Kept`), so
that a later event cannot reach them. `BatchInv` is about a tick: what it has read
between two looks at the chain is the batch of one branch, if the block it ends
with is still canonical (`Fetched`). A block fixes its branch, so the check of that
one hash at the end (`Snapshot`) makes the batch a part of one branch, and the link
to the last checkpoint (`Linked`) an extension of what was followed. Over a gap
there is no such check: the index goes on along the new branch, and either that is
an extension too or everything stored so far is below `overlooked`. When batches
are no longer than the window there is no gap (`Continues`). A rebuild replays all of
what is stored, an active index only the batch, and the two agree because a replay
can be cut anywhere between two blocks (`ReplaySplit`), whatever branches the two
parts come from. That is an induction over sets of logs, stated, as for sums, of a
family of sets. Proved: `IndexConsistent`, for any models, confirmations, windows,
batches, lags, failures and forks. A chain of any shape is covered by `Existing =
1`, from which it grows before the first tick.

*Acceptance.* The file, the run's copy of it and the requests on the wire are
three accounts of one purchase. `OneRun` is the lock: what a run works on is
the file (`Informed`), for as long as it is alive. `Story` relates the phase of
the file to what was ever sent, and `Asked` what the gateway did to what was asked
of it, however late it handles a request. `ProofStands` is what re-arming rests on:
once a block past an authorization's expiry is proven and nothing was debited, no
request still on the wire can spend it, and no second authorization has been
signed. Proved: `EvidenceTrue`, `OneAttempt` and `JournalFirst`, for any clocks,
runs, crashes and delays.

Only model-checked: `SettlementResolves`, `EventuallyRecorded`, `ComesToRest`,
`IndexConverges`, `ReceiptsSettle` and `NoSessionLeft`, which are liveness under
fairness and out of the prover's reach. Every safety property of the runs is proved.

## 6. Not modelled, and what would come next

- The 256-block window of x402 recovery (`chain.ts:390`): blocks are not counted
  in `PaymentSettlement`, and `SettlementResolves` assumes that a recovery runs
  within the window.
- Marketplace listings, listing approval and buybacks of the gateway: each is a
  call of the signer journal followed by a database write, which is what
  `SignerJournal` and `PaymentSettlement` check for payments. A `DurableOperation`
  abstraction of the journal, that these could share, is the next module worth
  writing.
- The browser's workspace, payment forms and component library, the API client,
  the receipt tools, the agent SDK (a stateless client), routing and
  configuration, the release manifest (validation of a document) and the
  deployment runtime (process wrappers) keep no protocol state. They are most of
  the lines the map does not cover.

Left out for good: cryptography and evidence verification (pure functions of
their inputs), parsing and routing, presentation.
