------------------------ MODULE InferenceExecution ------------------------
(***************************************************************************)
(* Paid inference (gateway.ts infer, inference-execution.ts): a settled    *)
(* payment buys one execution of the model. With an external provider the  *)
(* gateway commits a permanent claim, then runs the provider and publishes *)
(* receipt, consumption, usage and cached answer in one transaction; any   *)
(* failure in between leaves the claim, which quarantines the payment. The *)
(* local echo backend has no claim: its transaction may be run again.      *)
(*                                                                         *)
(* A publishing transaction holds the advisory lock of its idempotency key *)
(* and the row lock of its payment while the provider runs.                *)
(***************************************************************************)
EXTENDS Integers, Sequences

CONSTANTS
  Payments,
  Requests,    \* the calls clients make, retries included
  Callers,     \* concurrent executions of infer
  PaymentOf,   \* request -> the payment it names
  KeyOf,       \* request -> its idempotency key, or NoKey
  BodyOf,      \* request -> requestHash: session, input, agent and model
  BoundTo,     \* payment -> payments.requestHash
  NoKey, NoRequest,
  Backends     \* values of INFERENCE_BACKEND considered: "echo", "external"

Keys == {KeyOf[r] : r \in Requests} \ {NoKey}

ASSUME InferenceAssumption ==
  /\ PaymentOf \in [Requests -> Payments]
  /\ DOMAIN KeyOf = Requests /\ DOMAIN BodyOf = Requests
  /\ DOMAIN BoundTo = Payments
  /\ NoRequest \notin Requests
  /\ Backends \subseteq {"echo", "external"}

VARIABLES
  status,      \* payments.status
  backend,     \* config.INFERENCE_BACKEND
  exec,        \* inference_executions: request and status of a payment's row
  receiptOf,   \* payments.receiptHash: index of a receipt, 0 when null
  receipts,    \* the receipts, each as the request it was signed for
  cached,      \* idempotency_keys: index of the receipt cached, 0 for none
  usage,       \* usage.calls
  caller,      \* the executions of infer
  ran,         \* history: provider runs per request (2 stands for "or more")
  answered     \* history: receipts returned to requests

inferVars == <<backend, exec, receiptOf, receipts, cached, usage, caller, ran,
               answered>>
vars == <<status, inferVars>>

Statuses == {"open", "settling", "settlement_unknown", "settled", "consumed",
             "failed"}
NoExec == [request |-> NoRequest, status |-> "none"]
NoCall == [at |-> "idle", request |-> NoRequest]

TypeOK ==
  /\ status \in [Payments -> Statuses]
  /\ backend \in Backends
  /\ exec \in [Payments -> [request : Requests \cup {NoRequest},
                            status : {"none", "dispatched", "completed"}]]
  /\ receipts \in Seq(Requests)
  /\ receiptOf \in [Payments -> 0..Len(receipts)]
  /\ cached \in [Keys -> 0..Len(receipts)]
  /\ usage \in Nat
  /\ caller \in [Callers -> [at : {"idle", "admitted", "claimed", "running"},
                             request : Requests \cup {NoRequest}]]
  /\ ran \in [Requests -> 0..2]
  /\ answered \subseteq Requests \X (1..Len(receipts))

InitInference ==
  /\ backend \in Backends
  /\ exec = [p \in Payments |-> NoExec]
  /\ receiptOf = [p \in Payments |-> 0]
  /\ receipts = <<>>
  /\ cached = [k \in Keys |-> 0]
  /\ usage = 0
  /\ caller = [c \in Callers |-> NoCall]
  /\ ran = [r \in Requests |-> 0]
  /\ answered = {}

Init == status = [p \in Payments |-> "open"] /\ InitInference

-----------------------------------------------------------------------------

Pay(c) == PaymentOf[caller[c].request]
Key(c) == KeyOf[caller[c].request]
Keyed(c) == Key(c) # NoKey

\* (mutant) The payment is read without FOR UPDATE.
RowLockedNever(p) == p \notin Payments

RowLocked(p) == \E c \in Callers : caller[c].at = "running" /\ Pay(c) = p

KeyLocked(k) ==
  k # NoKey /\ \E c \in Callers : caller[c].at = "running" /\ Key(c) = k

LocksFree(c) == ~KeyLocked(Key(c)) /\ ~RowLocked(Pay(c))

\* (mutant) The cached answer is found by its key alone.
SameBodyUnchecked(r, q) == BodyOf[r] = BodyOf[r] /\ BodyOf[q] = BodyOf[q]

SameBody(r, q) == BodyOf[r] = BodyOf[q]

\* loadIdempotent: the key has an answer. For another body it is a conflict.
Cached(c) == Keyed(c) /\ cached[Key(c)] # 0
Hit(c) == Cached(c) /\ SameBody(caller[c].request, receipts[cached[Key(c)]])

\* (mutant) A settlement that is being recovered counts as settled.
MayConsumeUncertain(c) ==
  /\ status[Pay(c)] \in {"settled", "settlement_unknown"}
  /\ BoundTo[Pay(c)] = BodyOf[caller[c].request]

\* consumePayment, checked: settled, and bound to this request. The proof on
\* the chain is PaymentSettlement's.
MayConsume(c) ==
  status[Pay(c)] = "settled" /\ BoundTo[Pay(c)] = BodyOf[caller[c].request]

\* (mutant) A retry takes over the claim of an execution that failed.
ClaimableAfterFailure(c) ==
  \A p \in Payments : exec[p] # NoExec =>
    IF exec[p] = [request |-> caller[c].request, status |-> "dispatched"]
    THEN \A d \in Callers :
           caller[d].at \in {"claimed", "running"} => caller[d].request # exec[p].request
    ELSE p # Pay(c) /\ (Keyed(c) => KeyOf[exec[p].request] # Key(c))

\* The two unique indexes of inference_executions: payment, and owner and key.
Claimable(c) ==
  /\ exec[Pay(c)] = NoExec
  /\ Keyed(c) => \A p \in Payments : exec[p] # NoExec => KeyOf[exec[p].request] # Key(c)

Goto(c, stage) ==
  caller' = [caller EXCEPT ![c] = [at |-> stage, request |-> caller[c].request]]
Leave(c) == caller' = [caller EXCEPT ![c] = NoCall]

\* Key, session, current policy, ciphertext and agent have been checked.
Arrive(c, r) ==
  /\ caller[c].at = "idle"
  /\ caller' = [caller EXCEPT ![c] = [at |-> "admitted", request |-> r]]
  /\ UNCHANGED <<status, backend, exec, receiptOf, receipts, cached, usage,
                 ran, answered>>

\* The answer exists: no payment is touched and nothing runs.
Replay(c) ==
  /\ caller[c].at = "admitted" /\ Hit(c)
  /\ answered' = answered \cup {<<caller[c].request, cached[Key(c)]>>}
  /\ Leave(c)
  /\ UNCHANGED <<status, backend, exec, receiptOf, receipts, cached, usage, ran>>

\* Payment required, conflict, uncertain, policy changed, or a lost process.
Reject(c) ==
  /\ caller[c].at = "admitted" /\ Leave(c)
  /\ UNCHANGED <<status, backend, exec, receiptOf, receipts, cached, usage,
                 ran, answered>>

\* claimInferenceExecution, in a transaction of its own.
Claim(c) ==
  /\ caller[c].at = "admitted" /\ backend = "external"
  /\ LocksFree(c) /\ ~Cached(c) /\ MayConsume(c) /\ Claimable(c)
  /\ exec' = [exec EXCEPT ![Pay(c)] =
                [request |-> caller[c].request, status |-> "dispatched"]]
  /\ Goto(c, "claimed")
  /\ UNCHANGED <<status, backend, receiptOf, receipts, cached, usage, ran,
                 answered>>

\* The publishing transaction takes its locks, consumes the payment (not yet
\* committed) and calls the provider.
Run(c) ==
  /\ caller[c].at = (IF backend = "external" THEN "claimed" ELSE "admitted")
  /\ LocksFree(c) /\ ~Cached(c) /\ MayConsume(c)
  /\ ran' = [ran EXCEPT ![caller[c].request] = IF @ = 2 THEN 2 ELSE @ + 1]
  /\ Goto(c, "running")
  /\ UNCHANGED <<status, backend, exec, receiptOf, receipts, cached, usage,
                 answered>>

\* completeInferenceExecution: this claim, still dispatched.
Complete(c) ==
  IF backend = "external"
  THEN /\ exec[Pay(c)] = [request |-> caller[c].request, status |-> "dispatched"]
       /\ exec' = [exec EXCEPT ![Pay(c)] =
                       [request |-> caller[c].request, status |-> "completed"]]
  ELSE exec' = exec

InsertReceipt(c) == Append(receipts, caller[c].request)

\* Policy, wiring and approval hold again after the run: everything is
\* committed at once. The acknowledgement, and so the answer, may be lost.
Publish(c) ==
  LET n == Len(receipts) + 1 IN
  /\ caller[c].at = "running"
  /\ status' = [status EXCEPT ![Pay(c)] = "consumed"]
  /\ receipts' = InsertReceipt(c)
  /\ receiptOf' = [receiptOf EXCEPT ![Pay(c)] = n]
  /\ usage' = usage + 1
  /\ IF Keyed(c)
     THEN cached[Key(c)] = 0 /\ cached' = [cached EXCEPT ![Key(c)] = n]
     ELSE cached' = cached
  /\ Complete(c)
  /\ answered' \in {answered, answered \cup {<<caller[c].request, n>>}}
  /\ Leave(c)
  /\ UNCHANGED <<backend, ran>>

\* The provider, a later check, the commit or the process fails: the
\* transaction rolls back. A claim that was committed stays.
Abort(c) ==
  /\ caller[c].at \in {"claimed", "running"} /\ Leave(c)
  /\ UNCHANGED <<status, backend, exec, receiptOf, receipts, cached, usage,
                 ran, answered>>

Infer ==
  \E c \in Callers :
    \/ \E r \in Requests : Arrive(c, r)
    \/ Replay(c) \/ Reject(c) \/ Claim(c) \/ Run(c) \/ Publish(c) \/ Abort(c)

\* What PaymentSettlement does to a payment, as far as inference can tell.
PaymentSettled(p) ==
  /\ status[p] = "open"
  /\ status' = [status EXCEPT ![p] = "settled"]
  /\ UNCHANGED inferVars

Next == Infer \/ \E p \in Payments : PaymentSettled(p)

Spec == Init /\ [][Next]_vars

-----------------------------------------------------------------------------
(* Properties.                                                              *)

SameExecution(r, q) ==
  PaymentOf[r] = PaymentOf[q] \/ (KeyOf[r] # NoKey /\ KeyOf[r] = KeyOf[q])

\* The external provider is never called twice for one payment or for one
\* idempotency key, whatever fails, is retried or runs concurrently.
AtMostOneRun ==
  backend = "external" =>
    \A r, q \in Requests :
      /\ ran[r] <= 1
      /\ ran[r] > 0 /\ ran[q] > 0 /\ SameExecution(r, q) => r = q

\* Receipts, usage and consumed payments agree one to one: each receipt was
\* signed for a request of the payment that carries it, each consumed payment
\* carries one, and with an external provider its claim is completed.
ReceiptsMatchPayments ==
  /\ usage = Len(receipts)
  /\ \A n \in 1..Len(receipts) : receiptOf[PaymentOf[receipts[n]]] = n
  /\ \A p \in Payments :
       /\ status[p] = "consumed" <=> receiptOf[p] # 0
       /\ backend = "external" =>
            (status[p] = "consumed" <=> exec[p].status = "completed")

\* An answer, replayed or fresh, is the receipt of the very request hash that
\* asked for it, and all answers to one idempotency key are the same receipt.
AnswersConsistent ==
  \A a \in answered :
    /\ BodyOf[receipts[a[2]]] = BodyOf[a[1]]
    /\ \A b \in answered :
         KeyOf[a[1]] # NoKey /\ KeyOf[a[1]] = KeyOf[b[1]] => a[2] = b[2]

\* A claim no execution holds any more: dispatched, perhaps run, never known.
Quarantined(p) ==
  /\ exec[p].status = "dispatched"
  /\ \A c \in Callers :
       caller[c].at \in {"claimed", "running"} => caller[c].request # exec[p].request

\* "Durable payment and inference journals prevent repeating an ambiguous
\* execution" (docs/architecture.md): a quarantined payment stays quarantined,
\* unconsumed, and nothing runs for it again.
QuarantineIsPermanent ==
  [][\A p \in Payments :
       Quarantined(p) =>
         /\ Quarantined(p)' /\ (status'[p] = "consumed" => status[p] = "consumed")
         /\ \A r \in Requests : PaymentOf[r] = p => ran'[r] = ran[r]]_vars
=============================================================================
