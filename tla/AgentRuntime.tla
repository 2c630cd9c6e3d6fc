---------------------------- MODULE AgentRuntime ----------------------------
(***************************************************************************)
(* The durable agent runtime (agent-runtime.ts, agent-runtime-store.ts):   *)
(* runs of bounded reasoning steps, each of which asks the gateway for a   *)
(* payment, settles it and infers once. Runners lease a run and are fenced *)
(* by a token; a marker is committed before every paid call, and a run     *)
(* whose call has an unknown outcome waits for a proof.                    *)
(*                                                                         *)
(* A runner works on a copy of the row, which its writes may find changed: *)
(* by a cancellation, or by everything that happened since its lease       *)
(* expired. Every await between two transactions is a step. The gateway is *)
(* the payments and the idempotent answers that its calls leave behind,    *)
(* whether or not the runner still waits for them.                         *)
(***************************************************************************)
EXTENDS Integers, Sums

CONSTANTS
  Runs,         \* agent_runs, one per idempotency key
  Runners,      \* processes that execute runNext
  Clients,      \* requests of the owner in progress
  MaxSteps,     \* maxSteps of a run
  Budget,       \* maxBudgetUnits of a run
  Amounts,      \* prices an intent may have
  Modes,        \* values of paymentMode a run of the model considers
  NoRun,
  MaxEvents     \* bound on requests (but for paused runs), deadlines, crashes,
                \* failed calls and leases lost by a live runner

ASSUME RuntimeAssumption ==
  /\ NoRun \notin Runs
  /\ MaxSteps \in Nat \ {0} /\ Budget \in Nat \ {0}
  /\ Amounts \subseteq Nat \ {0}
  /\ Modes \subseteq {"mock", "authorized"}
  /\ MaxEvents \in Nat

VARIABLES
  row,       \* agent_runs with its sealed state; live: the lease has not expired
  runner,    \* the runners, each with its copy of the row
  client,    \* the owner's requests, each with the row it read
  gate,      \* the gateway's payment and answer for each step, and the calls made
  mode,      \* paymentMode
  late,      \* the deadline of the run has passed
  events

vars == <<row, runner, client, gate, mode, late, events>>

Steps == 0..(MaxSteps - 1)
Terminal == {"completed", "cancelled", "failed", "exhausted"}
Statuses == {"none", "queued", "running", "awaiting_payment", "outcome_unknown"}
              \cup Terminal
Phases == {"ready", "challenge", "awaiting_payment", "payment_ready",
           "settlement_dispatched", "paid", "inference_dispatched"}
Decisions == {"continue", "complete", "invalid"}
Uncertain(phase) == phase \in {"settlement_dispatched", "inference_dispatched"}

Rows == [status : Statuses, step : 0..MaxSteps, spent : 0..Budget, version : Nat,
         token : Nat, live : BOOLEAN, cancel : BOOLEAN, phase : Phases,
         amount : Amounts \cup {0}]
NoRow == [status |-> "none", step |-> 0, spent |-> 0, version |-> 0, token |-> 0,
          live |-> FALSE, cancel |-> FALSE, phase |-> "ready", amount |-> 0]

Stages == {"idle", "sweeping", "starting", "stopping", "preparing", "session",
           "asking", "asked", "checking", "dispatching", "calling", "waiting",
           "completing"}

\* What a runner keeps of the row: how far the run is, and its sealed state.
Seen(x) == [step |-> x.step, spent |-> x.spent, cancel |-> x.cancel,
            phase |-> x.phase, amount |-> x.amount]
Views == [step : 0..MaxSteps, spent : 0..Budget, cancel : BOOLEAN,
          phase : Phases, amount : Amounts \cup {0}]
NoWork == [at |-> "idle", run |-> NoRun, token |-> 0, seen |-> Seen(NoRow), todo |-> {}]
NoRequest == [at |-> "idle", run |-> NoRun, row |-> NoRow]

NoStep == [payment |-> "none", amount |-> 0, answer |-> "none", settles |-> 0, infers |-> 0]

TypeOK ==
  /\ row \in [Runs -> Rows]
  /\ runner \in [Runners ->
       [at : Stages, run : Runs \cup {NoRun}, token : Nat, seen : Views,
        todo : SUBSET [run : Runs, version : Nat]]]
  /\ client \in [Clients -> [at : {"idle", "cancelling", "resuming"},
                             run : Runs \cup {NoRun}, row : Rows]]
  /\ gate \in [Runs -> [Steps ->
       [payment : {"none", "open", "settled", "consumed"}, amount : Amounts \cup {0},
        answer : Decisions \cup {"none"}, settles : Nat, infers : Nat]]]
  /\ mode \in Modes /\ late \in [Runs -> BOOLEAN]
  /\ events \in 0..MaxEvents
  /\ \A r \in Runs : row[r].status = "running" <=> row[r].token > 0

Init ==
  /\ row = [r \in Runs |-> NoRow]
  /\ runner = [p \in Runners |-> NoWork]
  /\ client = [c \in Clients |-> NoRequest]
  /\ gate = [r \in Runs |-> [s \in Steps |-> NoStep]]
  /\ mode \in Modes /\ late = [r \in Runs |-> FALSE]
  /\ events = 0

Event == events < MaxEvents /\ events' = events + 1

-----------------------------------------------------------------------------
(* The store: what a transaction of change() writes, and who may write it.   *)

\* Every change of a row has a version of its own.
Commit(r, x) == row' = [row EXCEPT ![r] = [x EXCEPT !.version = row[r].version + 1]]

Released(x, status) == [x EXCEPT !.status = status, !.token = 0, !.live = FALSE]

\* (mutant) A cancellation that came in after the row was read is ignored.
HonouredNever(r, x) == x

\* write: a cancellation that the row has met wins over the status to be written.
Honoured(r, x) ==
  IF row[r].cancel /\ x.status \in {"queued", "completed", "awaiting_payment"}
  THEN [x EXCEPT !.status = "cancelled"] ELSE x

\* (mutant) Any lease of the run will do.
FencedByStatus(p) == row[runner[p].run].status = "running" /\ row[runner[p].run].live

\* assertRunFence of a runner: its lease, not expired.
Fenced(p) ==
  LET r == row[runner[p].run] IN
  r.status = "running" /\ r.token = runner[p].token /\ r.live

\* The row that a write of the runner starts from: its sealed state is the one
\* the runner has in memory.
Local(p) ==
  [row[runner[p].run] EXCEPT !.phase = runner[p].seen.phase, !.amount = runner[p].seen.amount]

Goto(p, stage) == runner' = [runner EXCEPT ![p].at = stage]

\* save, followed by the next stage; a runner without its lease is refused.
Save(p, x, stage) ==
  LET r == runner[p].run
      y == [Honoured(r, x) EXCEPT !.version = row[r].version + 1]
  IN /\ Fenced(p) /\ row' = [row EXCEPT ![r] = y]
     /\ runner' = [runner EXCEPT ![p] =
          IF y.status = "running" THEN [@ EXCEPT !.at = stage, !.seen = Seen(y)] ELSE NoWork]

\* The same write of a request: the row must be the version it read.
SaveRead(c, x) ==
  LET r == client[c].run IN
  /\ row[r].version = client[c].row.version
  /\ Commit(r, Honoured(r, x))
  /\ client' = [client EXCEPT ![c] = NoRequest]

Read(c) ==
  [row[client[c].run] EXCEPT !.phase = client[c].row.phase, !.amount = client[c].row.amount]

\* (mutant) An answer that cannot be parsed counts as "continue".
DecidedUnparsed(seen, decision) ==
  CASE seen.cancel -> "cancelled"
    [] ~seen.cancel /\ decision = "complete" -> "completed"
    [] OTHER -> IF seen.step + 1 >= MaxSteps THEN "exhausted" ELSE "queued"

\* complete: the status after an answer, decided on the row as it was read.
Decided(seen, decision) ==
  CASE seen.cancel -> "cancelled"
    [] ~seen.cancel /\ decision = "complete" -> "completed"
    [] ~seen.cancel /\ decision = "continue" ->
         IF seen.step + 1 >= MaxSteps THEN "exhausted" ELSE "queued"
    [] OTHER -> "failed"

Completed(x, seen, decision) ==
  [Released(x, Decided(seen, decision)) EXCEPT
     !.phase = "ready", !.amount = 0, !.step = seen.step + 1]

-----------------------------------------------------------------------------
(* The owner.                                                                *)

Create(r) ==
  /\ row[r].status = "none"
  /\ row' = [row EXCEPT ![r].status = "queued"]
  /\ UNCHANGED <<runner, client, gate, mode, late, events>>

\* cancel and resume read the row; a run they have nothing to do for ends them.
Request(c, r) ==
  /\ client[c].at = "idle"
  /\ \E at \in {"cancelling", "resuming"} :
       /\ \/ at = "cancelling" /\ row[r].status \notin Terminal \cup {"none"} /\ ~row[r].cancel
          \/ at = "resuming" /\ row[r].status \in {"outcome_unknown", "awaiting_payment"}
       /\ client' = [client EXCEPT ![c] = [at |-> at, run |-> r, row |-> row[r]]]
  /\ IF row[r].status = "awaiting_payment" THEN UNCHANGED events ELSE Event
  /\ UNCHANGED <<row, runner, gate, mode, late>>

\* A run that is executing, or quarantined, ends later; any other one ends now.
Cancel(c) ==
  LET x == [Read(c) EXCEPT !.cancel = TRUE] IN
  /\ client[c].at = "cancelling"
  /\ SaveRead(c, IF client[c].row.status \in {"running", "outcome_unknown"}
                 THEN x ELSE Released(x, "cancelled"))
  /\ UNCHANGED <<runner, gate, mode, late, events>>

Resuming(c, status) == client[c].at = "resuming" /\ client[c].row.status = status
Pending(c) == gate[client[c].run][client[c].row.step]
Requeued(c) == IF client[c].row.cancel THEN "cancelled" ELSE "queued"

\* The gateway has the answer of the step: it is processed without a call.
ResumeAnswered(c) ==
  /\ Resuming(c, "outcome_unknown") /\ client[c].row.phase = "inference_dispatched"
  /\ Pending(c).answer # "none"
  /\ SaveRead(c, Completed(Read(c), client[c].row, Pending(c).answer))
  /\ UNCHANGED <<runner, gate, mode, late, events>>

\* (mutant) The settlement is proved, and what it cost forgotten.
ResumeSettledUncounted(c) ==
  /\ Resuming(c, "outcome_unknown") /\ client[c].row.phase = "settlement_dispatched"
  /\ Pending(c).payment = "settled"
  /\ SaveRead(c, [Read(c) EXCEPT !.phase = "paid", !.status = Requeued(c)])
  /\ UNCHANGED <<runner, gate, mode, late, events>>

\* The gateway has settled the payment: the run goes on from there.
ResumeSettled(c) ==
  /\ Resuming(c, "outcome_unknown") /\ client[c].row.phase = "settlement_dispatched"
  /\ Pending(c).payment = "settled"
  /\ SaveRead(c, [Read(c) EXCEPT
       !.phase = "paid", !.spent = client[c].row.spent + client[c].row.amount,
       !.status = Requeued(c)])
  /\ UNCHANGED <<runner, gate, mode, late, events>>

\* Nothing paid was dispatched: the step is done again from where it stands.
ResumePreparation(c) ==
  /\ Resuming(c, "outcome_unknown") /\ ~Uncertain(client[c].row.phase)
  /\ SaveRead(c, [Read(c) EXCEPT !.status = Requeued(c)])
  /\ UNCHANGED <<runner, gate, mode, late, events>>

\* The owner's wallet has signed the authorization of the payment.
Authorize(c) ==
  /\ Resuming(c, "awaiting_payment") /\ client[c].row.phase = "awaiting_payment"
  /\ SaveRead(c, [Read(c) EXCEPT !.phase = "payment_ready", !.status = "queued"])
  /\ UNCHANGED <<runner, gate, mode, late, events>>

\* No proof yet, the row changed since it was read, or the request is lost.
Refuse(c) ==
  /\ client[c].at # "idle" /\ client' = [client EXCEPT ![c] = NoRequest]
  /\ UNCHANGED <<row, runner, gate, mode, late, events>>

-----------------------------------------------------------------------------
(* runNext, up to a dispatch.                                                *)

Expired(r) == row[r].status = "running" /\ ~row[r].live

SweepRead(p) ==
  /\ runner[p].at = "idle"
  /\ runner' = [runner EXCEPT ![p].at = "sweeping", ![p].todo =
       {[run |-> r, version |-> row[r].version] : r \in {r \in Runs : Expired(r)}}]
  /\ UNCHANGED <<row, client, gate, mode, late, events>>

\* A run that was expired when the rows were read, and still is.
Sweep(p) ==
  /\ runner[p].at = "sweeping"
  /\ \E t \in runner[p].todo :
       /\ runner' = [runner EXCEPT ![p].todo = @ \ {t}]
       /\ IF Expired(t.run) /\ row[t.run].version = t.version
          THEN Commit(t.run, Released(row[t.run], "outcome_unknown"))
          ELSE UNCHANGED row
  /\ UNCHANGED <<client, gate, mode, late, events>>

Claim(p) ==
  /\ runner[p].at = "sweeping" /\ runner[p].todo = {}
  /\ \E r \in Runs :
       LET n == row[r].version + 1
           x == [row[r] EXCEPT !.status = "running", !.token = n, !.live = TRUE, !.version = n]
       IN /\ row[r].status = "queued" /\ row' = [row EXCEPT ![r] = x]
          /\ runner' = [runner EXCEPT ![p] =
               [at |-> "starting", run |-> r, token |-> n, seen |-> Seen(x), todo |-> {}]]
  /\ UNCHANGED <<client, gate, mode, late, events>>

NothingQueued(p) ==
  /\ runner[p].at = "sweeping" /\ runner[p].todo = {}
  /\ \A r \in Runs : row[r].status # "queued"
  /\ runner' = [runner EXCEPT ![p] = NoWork]
  /\ UNCHANGED <<row, client, gate, mode, late, events>>

MustStop(x, r) == x.cancel \/ late[r] \/ x.step >= MaxSteps

\* stop reads the row again; the runner's own progress stays in memory.
StopRead(p) ==
  LET r == runner[p].run IN
  /\ runner[p].at \in {"starting", "checking"}
  /\ runner' = [runner EXCEPT ![p].seen = Seen(Local(p)), ![p].at =
       IF MustStop(row[r], r) THEN "stopping"
       ELSE IF runner[p].at = "checking" THEN "dispatching"
       ELSE IF runner[p].seen.phase = "ready" THEN "preparing" ELSE "session"]
  /\ UNCHANGED <<row, client, gate, mode, late, events>>

StopWrite(p) ==
  /\ runner[p].at = "stopping"
  /\ Save(p, Released(Local(p), IF runner[p].seen.cancel THEN "cancelled" ELSE "exhausted"), "idle")
  /\ UNCHANGED <<client, gate, mode, late, events>>

\* Quote, session and encrypted prompt: the request is fixed before it is priced.
Prepare(p) ==
  /\ runner[p].at = "preparing"
  /\ Save(p, [Local(p) EXCEPT !.phase = "challenge"], "session")
  /\ UNCHANGED <<client, gate, mode, late, events>>

\* A session may have expired while the run was paused.
SessionExpired(p) ==
  /\ runner[p].at = "session" /\ Save(p, Released(Local(p), "failed"), "idle")
  /\ UNCHANGED <<client, gate, mode, late, events>>

SessionValid(p) ==
  /\ runner[p].at = "session"
  /\ Goto(p, IF runner[p].seen.phase = "challenge" THEN "asking" ELSE "checking")
  /\ UNCHANGED <<row, client, gate, mode, late, events>>

StepGate(p) == gate[runner[p].run][runner[p].seen.step]

\* An inference without a payment: the intent of the step, opened once.
Ask(p) ==
  LET r == runner[p].run  s == runner[p].seen.step IN
  /\ runner[p].at = "asking" /\ ~late[r] /\ Goto(p, "asked")
  /\ \/ gate[r][s].payment # "none" /\ UNCHANGED gate
     \/ /\ gate[r][s].payment = "none"
        /\ \E a \in Amounts :
             gate' = [gate EXCEPT ![r][s] = [@ EXCEPT !.payment = "open", !.amount = a]]
  /\ UNCHANGED <<row, client, mode, late, events>>

\* (mutant) Each step is compared with the whole budget.
AffordableAlone(x, amount) == amount <= Budget

Affordable(x, amount) == amount + x.spent <= Budget

OverBudget(p) ==
  /\ runner[p].at = "asked" /\ StepGate(p).payment = "open"
  /\ ~Affordable(runner[p].seen, StepGate(p).amount)
  /\ Save(p, Released(Local(p), "exhausted"), "idle")
  /\ UNCHANGED <<client, gate, mode, late, events>>

\* An open intent: a mock payment is made at once, another one waits for the owner.
RequirePayment(p) ==
  LET x == [Local(p) EXCEPT !.amount = StepGate(p).amount] IN
  /\ runner[p].at = "asked" /\ StepGate(p).payment = "open"
  /\ Affordable(runner[p].seen, StepGate(p).amount)
  /\ \/ mode = "mock" /\ Save(p, [x EXCEPT !.phase = "payment_ready"], "checking")
     \/ mode = "authorized" /\ Save(p, Released([x EXCEPT !.phase = "awaiting_payment"],
                                                 "awaiting_payment"), "idle")
  /\ UNCHANGED <<client, gate, mode, late, events>>

-----------------------------------------------------------------------------
(* Dispatch, and what comes back.                                            *)

\* The call that is due, by its marker.
Due(p, marker) ==
  LET x == runner[p].seen IN
  \/ /\ x.phase = "payment_ready" /\ Affordable(x, x.amount)
     /\ marker = "settlement_dispatched"
  \/ x.phase = "paid" /\ marker = "inference_dispatched"

\* The marker is committed before the call, unless the row says stop.
Dispatch(p) ==
  LET r == runner[p].run IN
  /\ runner[p].at = "dispatching"
  /\ \E marker \in Phases :
       /\ Due(p, marker)
       /\ IF row[r].cancel \/ late[r]
          THEN Save(p, Released(row[r], IF row[r].cancel THEN "cancelled" ELSE "exhausted"), "idle")
          ELSE Save(p, [Local(p) EXCEPT !.phase = marker], "calling")
  /\ UNCHANGED <<client, gate, mode, late, events>>

\* The call is made whatever happened to the lease since the marker.
Call(p) ==
  LET r == runner[p].run  s == runner[p].seen.step IN
  /\ runner[p].at = "calling" /\ ~late[r] /\ Goto(p, "waiting")
  /\ gate' = IF runner[p].seen.phase = "settlement_dispatched"
             THEN [gate EXCEPT ![r][s].settles = @ + 1]
             ELSE [gate EXCEPT ![r][s].infers = @ + 1]
  /\ UNCHANGED <<row, client, mode, late, events>>

SettleReturns(p) ==
  LET seen == runner[p].seen IN
  /\ runner[p].at = "waiting" /\ seen.phase = "settlement_dispatched"
  /\ StepGate(p).payment = "settled"
  /\ Save(p, [Local(p) EXCEPT !.phase = "paid", !.spent = seen.spent + seen.amount], "checking")
  /\ UNCHANGED <<client, gate, mode, late, events>>

\* The answer is in; the row is read again before it is completed.
InferReturns(p) ==
  /\ runner[p].at = "waiting" /\ runner[p].seen.phase = "inference_dispatched"
  /\ StepGate(p).answer # "none"
  /\ runner' = [runner EXCEPT ![p].at = "completing", ![p].seen = Seen(Local(p))]
  /\ UNCHANGED <<row, client, gate, mode, late, events>>

Complete(p) ==
  /\ runner[p].at = "completing"
  /\ Save(p, Completed(Local(p), runner[p].seen, StepGate(p).answer), "idle")
  /\ UNCHANGED <<client, gate, mode, late, events>>

\* (mutant) A call has no timeout of its own.
RefusedAtDeadline(p) ==
  \/ runner[p].at \in {"asking", "calling", "waiting"} /\ late[runner[p].run]
  \/ runner[p].at = "asked" /\ StepGate(p).payment # "open"
  \/ runner[p].at = "dispatching" /\ ~Affordable(runner[p].seen, runner[p].seen.amount)

\* What a runner must expect: a timeout, the deadline, an intent that is not
\* open any more, a budget that another price has used up.
Refused(p) ==
  \/ runner[p].at = "waiting"
  \/ runner[p].at \in {"asking", "calling"} /\ late[runner[p].run]
  \/ runner[p].at = "asked" /\ StepGate(p).payment # "open"
  \/ runner[p].at = "dispatching" /\ ~Affordable(runner[p].seen, runner[p].seen.amount)

\* An error: the marker in the row decides, not what the runner was doing.
Fail(p) ==
  LET x == row[runner[p].run] IN
  /\ runner[p].at \notin {"idle", "sweeping"}
  /\ \/ Refused(p) /\ UNCHANGED events
     \/ Event
  /\ Save(p, Released(x, IF Uncertain(x.phase) THEN "outcome_unknown" ELSE "failed"), "idle")
  /\ UNCHANGED <<client, gate, mode, late>>

\* A runner that lost its lease ends at its next write, or when it is told so.
FencedOut(p) ==
  /\ runner[p].at \notin {"idle", "sweeping"} /\ ~Fenced(p)
  /\ runner' = [runner EXCEPT ![p] = NoWork]
  /\ UNCHANGED <<row, client, gate, mode, late, events>>

\* The process dies, or takes a failed heartbeat for a lost lease.
Crash(p) ==
  /\ runner[p].at \notin {"idle", "sweeping"} /\ Event
  /\ runner' = [runner EXCEPT ![p] = NoWork]
  /\ UNCHANGED <<row, client, gate, mode, late>>

-----------------------------------------------------------------------------
(* Time and the gateway.                                                     *)

Held(r) == \E p \in Runners : runner[p].run = r /\ runner[p].token = row[r].token

\* A lease runs out: nobody renews it, or the runner that does is stalled.
Expire(r) ==
  /\ row[r].status = "running" /\ row[r].live
  /\ IF Held(r) THEN Event ELSE UNCHANGED events
  /\ row' = [row EXCEPT ![r].live = FALSE]
  /\ UNCHANGED <<runner, client, gate, mode, late>>

Deadline(r) ==
  /\ row[r].status # "none" /\ ~late[r] /\ Event /\ late' = [late EXCEPT ![r] = TRUE]
  /\ UNCHANGED <<row, runner, client, gate, mode>>

\* The payment is settled, by the runner's call or by the owner directly.
Settle(r, s) ==
  /\ gate[r][s].payment = "open"
  /\ gate' = [gate EXCEPT ![r][s].payment = "settled"]
  /\ UNCHANGED <<row, runner, client, mode, late, events>>

\* The inference of the step, which consumes its payment.
Infer(r, s, decision) ==
  /\ gate[r][s].infers > 0 /\ gate[r][s].payment = "settled"
  /\ gate' = [gate EXCEPT ![r][s] = [@ EXCEPT !.payment = "consumed", !.answer = decision]]
  /\ UNCHANGED <<row, runner, client, mode, late, events>>

-----------------------------------------------------------------------------
Owner(c) ==
  \/ \E r \in Runs : Request(c, r)
  \/ Cancel(c) \/ ResumeAnswered(c) \/ ResumeSettled(c) \/ ResumePreparation(c)
  \/ Authorize(c) \/ Refuse(c)

\* What a runner does next, unless a fault intervenes.
Tick(p) ==
  \/ SweepRead(p) \/ Sweep(p) \/ Claim(p) \/ NothingQueued(p)
  \/ StopRead(p) \/ StopWrite(p) \/ Prepare(p) \/ SessionExpired(p) \/ SessionValid(p)
  \/ Ask(p) \/ OverBudget(p) \/ RequirePayment(p)
  \/ Dispatch(p) \/ Call(p) \/ SettleReturns(p) \/ InferReturns(p) \/ Complete(p)
  \/ FencedOut(p)

Next ==
  \/ \E c \in Clients : Owner(c)
  \/ \E p \in Runners : Tick(p) \/ Fail(p) \/ Crash(p)
  \/ \E r \in Runs : Create(r) \/ Expire(r) \/ Deadline(r)
  \/ \E r \in Runs, s \in Steps :
       Settle(r, s) \/ \E d \in Decisions : Infer(r, s, d)

Spec == Init /\ [][Next]_vars

\* The runner ticks for ever, its calls time out and leases run out.
Fairness ==
  /\ \A p \in Runners :
       WF_vars(Tick(p)) /\ WF_vars(runner[p].at # "idle" /\ Refused(p) /\ Fail(p))
  /\ \A r \in Runs : WF_vars(~Held(r) /\ Expire(r))

FairSpec == Spec /\ Fairness
-----------------------------------------------------------------------------
\* No paid call of a step is made twice, by whatever runner, after whatever
\* crash, lost lease or resume.
PaidOnce ==
  \A r \in Runs, s \in Steps : gate[r][s].settles <= 1 /\ gate[r][s].infers <= 1

\* The steps that the row counts as paid.
PaidSteps(r) ==
  0..(row[r].step - 1)
    \cup {row[r].step : x \in {x \in {row[r].phase} : x \in {"paid", "inference_dispatched"}}}

Prices(r) == [s \in Steps |-> gate[r][s].amount]

\* Settlements the runtime has asked for never exceed the budget, those with an
\* unknown outcome included.
BudgetHeld ==
  \A r \in Runs : Sum(Prices(r), {s \in Steps : gate[r][s].settles > 0}) <= Budget

\* spentUnits is what the paid steps cost, each was settled, and a settlement
\* asked for is counted as spent or still marked as dispatched.
SpendingAccounted ==
  \A r \in Runs :
    /\ row[r].spent = Sum(Prices(r), PaidSteps(r))
    /\ \A s \in PaidSteps(r) : gate[r][s].payment \in {"settled", "consumed"}
    /\ \A s \in Steps : gate[r][s].settles > 0 =>
         \/ s \in PaidSteps(r)
         \/ s = row[r].step /\ row[r].phase = "settlement_dispatched"

\* A step is counted once, when its answer is there; the run goes on after
\* "continue" only, completes with "complete" only, and asks for nothing ahead.
StepsFollowAnswers ==
  \A r \in Runs : \A s \in Steps :
    /\ s < row[r].step => gate[r][s].answer # "none"
    /\ s < row[r].step - 1 => gate[r][s].answer = "continue"
    /\ s = row[r].step - 1 =>
         /\ row[r].status = "completed" => gate[r][s].answer = "complete"
         /\ row[r].status \notin Terminal => gate[r][s].answer = "continue"
    /\ s > row[r].step => gate[r][s] = NoStep

\* A cancelled run is never completed, queued again or left waiting for a
\* payment, whoever writes the row next.
CancelSticks ==
  \A r \in Runs :
    row[r].cancel => row[r].status \notin {"completed", "queued", "awaiting_payment"}

\* Every run that is queued or executing comes to rest: it ends, waits for its
\* owner's payment, or for a proof of what happened.
ComesToRest ==
  \A r \in Runs :
    row[r].status \in {"queued", "running"} ~> row[r].status \notin {"queued", "running"}
=============================================================================
