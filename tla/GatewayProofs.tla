--------------------------- MODULE GatewayProofs ---------------------------
(***************************************************************************)
(* What the gateway promises of a paid inference, proved for any sets of   *)
(* payments, requests and concurrent executions, in three parts.           *)
(*                                                                         *)
(* Inference alone. The inductive invariant says who holds what: an        *)
(* execution beyond admission is the only one for its payment, owns the    *)
(* dispatch claim of an external backend, and finds the payment settled; a *)
(* provider run is traced by the claim, a receipt by its payment, an       *)
(* answer by its key.                                                      *)
(*                                                                         *)
(* Inference under a policy (Serving). Serving refuses more but does       *)
(* nothing else to inference's variables, so that the theorems of the      *)
(* first part carry over. What is new needs two invariants: the advisory   *)
(* lock is never held shared and exclusive, which keeps a checked policy   *)
(* current until the commit, and the check that carries the last number    *)
(* has seen nothing newer.                                                 *)
(*                                                                         *)
(* Inference and settlement over one payments table (PaymentGateway). The  *)
(* invariants of both hold together, because settlement leaves alone the   *)
(* rows inference relies on and inference does to a row only what          *)
(* settlement expects; the composition implements each of them, and the    *)
(* promise made to a client (PaidInference).                               *)
(***************************************************************************)
EXTENDS Serving, PaymentGateway, SumsProofs, TLAPS

-----------------------------------------------------------------------------
(* Inference alone.                                                        *)

Holding(c) == caller[c].at \in {"claimed", "running"}
Claimed(p) == exec[p].status # "none"

CallersTyped ==
  \A c \in Callers : caller[c].at # "idle" => caller[c].request \in Requests

ClaimsTyped ==
  \A p \in Payments :
    IF Claimed(p)
    THEN exec[p].request \in Requests /\ PaymentOf[exec[p].request] = p
    ELSE exec[p].request = NoRequest

\* Only an external backend claims.
EchoHasNoClaims ==
  backend = "echo" =>
    /\ \A p \in Payments : ~Claimed(p)
    /\ \A c \in Callers : caller[c].at # "claimed"

HoldersHaveClaims ==
  backend = "external" =>
    \A c \in Callers :
      Holding(c) =>
        /\ exec[Pay(c)].request = caller[c].request
        /\ exec[Pay(c)].status = "dispatched"

HoldersDistinct ==
  \A c, d \in Callers : Holding(c) /\ Holding(d) /\ Pay(c) = Pay(d) => c = d

RunningSettled ==
  \A c \in Callers : caller[c].at = "running" => status[Pay(c)] = "settled"

\* One claim per idempotency key.
KeysUnique ==
  \A p, q \in Payments :
    /\ Claimed(p) /\ Claimed(q)
    /\ KeyOf[exec[p].request] # NoKey
    /\ KeyOf[exec[p].request] = KeyOf[exec[q].request]
    => p = q

RunsTraced ==
  backend = "external" =>
    /\ \A r \in Requests :
         ran[r] # 0 => ran[r] = 1 /\ exec[PaymentOf[r]].request = r
    /\ \A c \in Callers : caller[c].at = "claimed" => ran[caller[c].request] = 0

AnswersTraced ==
  \A a \in answered :
    /\ BodyOf[receipts[a[2]]] = BodyOf[a[1]]
    /\ KeyOf[a[1]] # NoKey => cached[KeyOf[a[1]]] = a[2]

IInv ==
  /\ TypeOK /\ CallersTyped /\ ClaimsTyped /\ EchoHasNoClaims
  /\ HoldersHaveClaims /\ HoldersDistinct /\ RunningSettled /\ KeysUnique
  /\ RunsTraced /\ ReceiptsMatchPayments /\ AnswersTraced
-----------------------------------------------------------------------------

\* What every execution is made of, unfolded once.
LEMMA CallerFacts ==
  ASSUME IInv, NEW c \in Callers
  PROVE  /\ caller[c].at \in {"idle", "admitted", "claimed", "running"}
         /\ caller[c] = [at |-> caller[c].at, request |-> caller[c].request]
         /\ caller[c].at # "idle" =>
              caller[c].request \in Requests /\ Pay(c) \in Payments
  BY InferenceAssumption DEF IInv, TypeOK, CallersTyped, Pay

\* A payment has an inference_executions row exactly when the model holds one: the empty record is no claim.
LEMMA ClaimedRow ==
  ASSUME IInv, NEW p \in Payments
  PROVE  exec[p] = NoExec <=> ~Claimed(p)
  <1>1. exec[p] \in [request : Requests \cup {NoRequest},
                     status : {"none", "dispatched", "completed"}]
    BY DEF IInv, TypeOK
  <1>2. ~Claimed(p) => exec[p].request = NoRequest
    BY DEF IInv, ClaimsTyped
  <1> QED
    BY <1>1, <1>2 DEF NoExec, Claimed

\* The part of the type invariant that is about processes and claims.
LEMMA CallerStep ==
  ASSUME TypeOK, NEW c \in Callers, NEW stage, NEW r \in Requests \cup {NoRequest},
         stage \in {"idle", "admitted", "claimed", "running"},
         caller' = [caller EXCEPT ![c] = [at |-> stage, request |-> r]]
  PROVE  /\ caller' \in [Callers -> [at : {"idle", "admitted", "claimed", "running"},
                                    request : Requests \cup {NoRequest}]]
         /\ caller'[c].at = stage /\ caller'[c].request = r
         /\ \A d \in Callers : d # c => caller'[d] = caller[d]
  BY DEF TypeOK

\* The invariant holds initially: nothing is claimed, run or answered.
LEMMA InitIInv == Init => IInv
  <1> SUFFICES ASSUME Init PROVE IInv
    OBVIOUS
  <1> USE InferenceAssumption DEF Init, InitInference
  <1>1. TypeOK
    BY DEF TypeOK, Statuses, NoExec, NoCall
  <1>2. CallersTyped /\ ClaimsTyped /\ EchoHasNoClaims /\ HoldersHaveClaims
    BY DEF CallersTyped, ClaimsTyped, EchoHasNoClaims, HoldersHaveClaims,
           Holding, Claimed, NoCall, NoExec
  <1>3. HoldersDistinct /\ RunningSettled /\ KeysUnique
    BY DEF HoldersDistinct, RunningSettled, KeysUnique, Holding, Claimed, NoCall, NoExec
  <1>4. RunsTraced /\ AnswersTraced
    BY DEF RunsTraced, AnswersTraced, NoCall
  <1>5. ReceiptsMatchPayments
    BY DEF ReceiptsMatchPayments, NoExec
  <1> QED
    BY <1>1, <1>2, <1>3, <1>4, <1>5 DEF IInv

\* An execution that only enters or leaves, and commits nothing, keeps the
\* invariant: a claim it held stays behind.
LEMMA CommitNothing ==
  ASSUME IInv, NEW c \in Callers, NEW stage \in {"idle", "admitted"},
         NEW r \in Requests \cup {NoRequest}, stage = "idle" \/ r \in Requests,
         caller' = [caller EXCEPT ![c] = [at |-> stage, request |-> r]],
         UNCHANGED <<status, backend, exec, receiptOf, receipts, cached, usage, ran>>,
         answered' \subseteq Requests \X (1..Len(receipts)), AnswersTraced'
  PROVE  IInv'
  <1> USE DEF IInv
  <1>1. /\ caller' \in [Callers -> [at : {"idle", "admitted", "claimed", "running"},
                                   request : Requests \cup {NoRequest}]]
        /\ caller'[c].at = stage /\ caller'[c].request = r
        /\ \A d \in Callers : d # c => caller'[d] = caller[d]
    BY CallerStep
  <1>2. TypeOK'
    BY <1>1 DEF TypeOK
  <1>3. CallersTyped' /\ ClaimsTyped' /\ EchoHasNoClaims'
    BY <1>1 DEF CallersTyped, ClaimsTyped, EchoHasNoClaims, Claimed
  <1>4. ~Holding(c)' /\ \A d \in Callers : d # c => Pay(d)' = Pay(d) /\ Holding(d)' = Holding(d)
    BY <1>1 DEF Holding, Pay
  <1>5. HoldersHaveClaims' /\ HoldersDistinct'
    BY <1>1, <1>4 DEF HoldersHaveClaims, HoldersDistinct
  <1>6. RunningSettled'
    BY <1>1, <1>4 DEF RunningSettled
  <1>7. KeysUnique' /\ RunsTraced'
    BY <1>1 DEF KeysUnique, RunsTraced, Claimed
  <1>8. ReceiptsMatchPayments'
    BY DEF ReceiptsMatchPayments
  <1> QED
    BY <1>2, <1>3, <1>5, <1>6, <1>7, <1>8

\* An arriving request only moves the handler to its lookup and commits nothing.
LEMMA ArriveIInv ==
  ASSUME IInv, NEW c \in Callers, NEW r \in Requests, Arrive(c, r)
  PROVE  IInv'
  <1>1. AnswersTraced' /\ answered' \subseteq Requests \X (1..Len(receipts))
    BY DEF IInv, Arrive, AnswersTraced, TypeOK
  <1> QED
    BY <1>1, CommitNothing DEF Arrive

\* Refusing a request, or aborting its publication, leaves every committed row as it was.
LEMMA LeaveIInv ==
  ASSUME IInv, NEW c \in Callers, Reject(c) \/ Abort(c)
  PROVE  IInv'
  <1>1. /\ caller' = [caller EXCEPT ![c] = [at |-> "idle", request |-> NoRequest]]
        /\ UNCHANGED <<status, backend, exec, receiptOf, receipts, cached, usage, ran,
                       answered>>
    BY DEF Reject, Abort, Leave, NoCall
  <1>2. AnswersTraced' /\ answered' \subseteq Requests \X (1..Len(receipts))
    BY <1>1 DEF IInv, AnswersTraced, TypeOK
  <1> QED
    BY <1>1, <1>2, CommitNothing

\* A replayed answer is the receipt cached for the key, and of this body.
LEMMA ReplayIInv ==
  ASSUME IInv, NEW c \in Callers, Replay(c)
  PROVE  IInv'
  <1> DEFINE r == caller[c].request
             n == cached[Key(c)]
  <1>1. /\ caller' = [caller EXCEPT ![c] = [at |-> "idle", request |-> NoRequest]]
        /\ UNCHANGED <<status, backend, exec, receiptOf, receipts, cached, usage, ran>>
        /\ answered' = answered \cup {<<r, n>>}
    BY DEF Replay, Leave, NoCall
  <1>2. /\ r \in Requests /\ KeyOf[r] # NoKey /\ n = cached[KeyOf[r]] /\ n # 0
        /\ BodyOf[r] = BodyOf[receipts[n]]
    BY CallerFacts DEF Replay, Hit, Cached, Keyed, Key, SameBody
  <1> HIDE DEF r, n
  <1>3. n \in 1..Len(receipts)
    <2>1. KeyOf[r] \in Keys
      BY <1>2 DEF Keys
    <2>2. cached[KeyOf[r]] \in 0..Len(receipts)
      BY <2>1 DEF IInv, TypeOK
    <2>3. Len(receipts) \in Nat
      BY DEF IInv, TypeOK
    <2> QED
      BY <1>2, <2>2, <2>3
  <1>4. answered' \subseteq Requests \X (1..Len(receipts))
    BY <1>1, <1>2, <1>3 DEF IInv, TypeOK
  <1>5. AnswersTraced'
    BY <1>1, <1>2 DEF IInv, AnswersTraced
  <1> QED
    BY <1>1, <1>4, <1>5, CommitNothing

\* A committed claim is the only one of its payment and of its key.
LEMMA ClaimIInv ==
  ASSUME IInv, NEW c \in Callers, Claim(c)
  PROVE  IInv'
  <1> DEFINE p == Pay(c)
             r == caller[c].request
  <1>1. /\ backend = "external" /\ Claimable(c)
        /\ UNCHANGED <<status, backend, receiptOf, receipts, cached, usage, ran,
                       answered>>
        /\ exec' = [exec EXCEPT ![p] = [request |-> r, status |-> "dispatched"]]
    BY DEF Claim
  <1>2. /\ r \in Requests /\ p \in Payments /\ PaymentOf[r] = p
        /\ ~Claimed(p)
    BY CallerFacts, ClaimedRow DEF Claim, Claimable, Pay
  <1>3. caller' = [caller EXCEPT ![c] = [at |-> "claimed", request |-> r]]
    BY DEF Claim, Goto
  <1>4. KeyOf[r] # NoKey =>
          \A q \in Payments : Claimed(q) => KeyOf[exec[q].request] # KeyOf[r]
    BY <1>1, ClaimedRow DEF Claimable, Keyed, Key
  <1> HIDE DEF p, r
  <1> USE DEF IInv
  <1>5. /\ caller' \in [Callers -> [at : {"idle", "admitted", "claimed", "running"},
                                   request : Requests \cup {NoRequest}]]
        /\ caller'[c].at = "claimed" /\ caller'[c].request = r
        /\ \A d \in Callers : d # c => caller'[d] = caller[d]
    BY <1>2, <1>3, CallerStep
  <1>6. /\ exec' \in [Payments -> [request : Requests \cup {NoRequest},
                                  status : {"none", "dispatched", "completed"}]]
        /\ exec'[p].request = r /\ exec'[p].status = "dispatched"
        /\ \A q \in Payments : q # p => exec'[q] = exec[q]
    BY <1>1, <1>2 DEF TypeOK
  <1>7. TypeOK'
    BY <1>1, <1>5, <1>6 DEF TypeOK
  <1>8. CallersTyped' /\ ClaimsTyped' /\ EchoHasNoClaims'
    BY <1>1, <1>2, <1>5, <1>6
    DEF CallersTyped, ClaimsTyped, EchoHasNoClaims, Claimed
  <1>9. \A d \in Callers : Holding(d) => Pay(d) # p
    BY <1>1, <1>2 DEF HoldersHaveClaims, Claimed
  <1>10. /\ Pay(c)' = p /\ Holding(c)'
         /\ \A d \in Callers : d # c => Pay(d)' = Pay(d) /\ Holding(d)' = Holding(d)
    BY <1>2, <1>5 DEF Pay, Holding
  <1>11. \A d \in Callers : Holding(d) => Pay(d) \in Payments
    BY CallerFacts DEF Holding
  <1>12. HoldersHaveClaims'
    BY <1>5, <1>6, <1>9, <1>10, <1>11, <1>1 DEF HoldersHaveClaims
  <1>13. HoldersDistinct'
    BY <1>9, <1>10 DEF HoldersDistinct
  <1>14. RunningSettled'
    BY <1>1, <1>5, <1>10 DEF RunningSettled
  <1>15. KeysUnique'
    BY <1>2, <1>4, <1>6 DEF KeysUnique, Claimed
  <1>16. ran[r] = 0
    <2>1. exec[PaymentOf[r]].request = NoRequest
      BY <1>2 DEF ClaimsTyped
    <2> QED
      BY <2>1, <1>1, <1>2, InferenceAssumption DEF RunsTraced
  <1>17. RunsTraced'
    <2>1. ASSUME NEW q \in Requests, ran[q] # 0
          PROVE  ran[q] = 1 /\ exec'[PaymentOf[q]].request = q
      <3>1. ran[q] = 1 /\ exec[PaymentOf[q]].request = q /\ PaymentOf[q] \in Payments
        BY <1>1, <2>1, InferenceAssumption DEF RunsTraced
      <3> QED
        BY <3>1, <1>2, <1>6, InferenceAssumption DEF ClaimsTyped
    <2>2. ASSUME NEW d \in Callers, caller'[d].at = "claimed"
          PROVE  ran[caller'[d].request] = 0
      BY <1>1, <1>5, <1>16, <2>2 DEF RunsTraced
    <2> QED
      BY <1>1, <2>1, <2>2 DEF RunsTraced
  <1>18. AnswersTraced'
    BY <1>1 DEF AnswersTraced
  <1>19. ReceiptsMatchPayments'
    BY <1>1, <1>2, <1>6 DEF ReceiptsMatchPayments, Claimed
  <1> QED
    BY <1>7, <1>8, <1>12, <1>13, <1>14, <1>15, <1>17, <1>18, <1>19

\* The provider runs once for a claim: the execution that starts it is the
\* claim's only holder, and the request has not run.
LEMMA RunIInv ==
  ASSUME IInv, NEW c \in Callers, Run(c)
  PROVE  IInv'
  <1> DEFINE p == Pay(c)
             r == caller[c].request
  <1>1. /\ caller[c].at = (IF backend = "external" THEN "claimed" ELSE "admitted")
        /\ ~RowLocked(p) /\ status[p] = "settled"
        /\ UNCHANGED <<status, backend, exec, receiptOf, receipts, cached, usage,
                       answered>>
        /\ ran' = [ran EXCEPT ![r] = IF @ = 2 THEN 2 ELSE @ + 1]
        /\ caller' = [caller EXCEPT ![c] = [at |-> "running", request |-> r]]
    BY DEF Run, LocksFree, MayConsume, Goto
  <1>2. r \in Requests /\ p \in Payments /\ PaymentOf[r] = p
    BY <1>1, CallerFacts DEF Pay
  <1>3. \A d \in Callers : caller[d].at = "running" => Pay(d) # p
    BY <1>1 DEF RowLocked
  <1> HIDE DEF p, r
  <1> USE DEF IInv
  <1>4. backend \in {"echo", "external"}
    BY InferenceAssumption DEF TypeOK
  <1>5. /\ caller' \in [Callers -> [at : {"idle", "admitted", "claimed", "running"},
                                   request : Requests \cup {NoRequest}]]
        /\ caller'[c].at = "running" /\ caller'[c].request = r
        /\ \A d \in Callers : d # c => caller'[d] = caller[d]
    BY <1>1, <1>2, CallerStep
  <1>6. /\ ran' \in [Requests -> 0..2]
        /\ \A q \in Requests : q # r => ran'[q] = ran[q]
        /\ ran[r] = 0 => ran'[r] = 1
    BY <1>1, <1>2 DEF TypeOK
  <1>7. TypeOK'
    BY <1>1, <1>5, <1>6 DEF TypeOK
  <1>8. CallersTyped' /\ ClaimsTyped' /\ EchoHasNoClaims'
    BY <1>1, <1>2, <1>5 DEF CallersTyped, ClaimsTyped, EchoHasNoClaims, Claimed
  <1>9. /\ Pay(c)' = p /\ Holding(c)'
        /\ \A d \in Callers : d # c => Pay(d)' = Pay(d) /\ Holding(d)' = Holding(d)
    BY <1>2, <1>5 DEF Pay, Holding
  <1>10. HoldersHaveClaims'
    <2>1. backend = "external" =>
            Holding(c) /\ Pay(c) = p /\ caller[c].request = r
      BY <1>1, <1>2 DEF Holding, p, r
    <2> QED
      BY <1>1, <1>5, <1>9, <2>1 DEF HoldersHaveClaims
  <1>11. \A d \in Callers : d # c /\ Holding(d) => Pay(d) # p
    <2>1. CASE backend = "external"
      BY <1>1, <2>1 DEF HoldersDistinct, Holding, p
    <2>2. CASE backend = "echo"
      BY <1>3, <2>2 DEF EchoHasNoClaims, Holding
    <2> QED
      BY <1>4, <2>1, <2>2
  <1>12. HoldersDistinct'
    BY <1>9, <1>11 DEF HoldersDistinct
  <1>13. RunningSettled'
    BY <1>1, <1>5, <1>9 DEF RunningSettled
  <1>14. KeysUnique'
    BY <1>1 DEF KeysUnique, Claimed
  <1>15. RunsTraced'
    <2> SUFFICES ASSUME backend = "external" PROVE RunsTraced'
      BY <1>1, <1>4 DEF RunsTraced
    <2>1. ran'[r] = 1
      BY <1>1, <1>6 DEF RunsTraced, r
    <2>2. exec[p].request = r
      BY <1>1 DEF HoldersHaveClaims, Holding, p, r
    <2>3. ASSUME NEW d \in Callers, caller'[d].at = "claimed"
          PROVE  ran'[caller'[d].request] = 0
      <3>1. d # c /\ caller[d].at = "claimed" /\ caller'[d].request = caller[d].request
        BY <1>5, <2>3
      <3>2. Pay(d) # p /\ caller[d].request \in Requests
        BY <1>11, <3>1 DEF Holding, CallersTyped
      <3>3. caller[d].request # r
        BY <1>2, <3>2 DEF Pay
      <3> QED
        BY <1>6, <3>1, <3>2, <3>3 DEF RunsTraced
    <2>4. ASSUME NEW q \in Requests, ran'[q] # 0
          PROVE  ran'[q] = 1 /\ exec[PaymentOf[q]].request = q
      BY <1>2, <1>6, <2>1, <2>2, <2>4 DEF RunsTraced
    <2> QED
      BY <1>1, <2>3, <2>4 DEF RunsTraced
  <1>16. AnswersTraced' /\ ReceiptsMatchPayments'
    BY <1>1 DEF AnswersTraced, ReceiptsMatchPayments
  <1> QED
    BY <1>7, <1>8, <1>10, <1>12, <1>13, <1>14, <1>15, <1>16

\* Publication consumes the payment, completes the claim, and writes receipt,
\* usage and cached answer together: the payment had no receipt before it.
LEMMA PublishIInv ==
  ASSUME IInv, NEW c \in Callers, Publish(c)
  PROVE  IInv'
  <1> DEFINE p == Pay(c)
             r == caller[c].request
             n == Len(receipts) + 1
  <1>1. /\ caller[c].at = "running"
        /\ status' = [status EXCEPT ![p] = "consumed"]
        /\ receipts' = Append(receipts, r)
        /\ receiptOf' = [receiptOf EXCEPT ![p] = n]
        /\ usage' = usage + 1
        /\ answered' \in {answered, answered \cup {<<r, n>>}}
        /\ UNCHANGED <<backend, ran>>
        /\ caller' = [caller EXCEPT ![c] = [at |-> "idle", request |-> NoRequest]]
    BY DEF Publish, InsertReceipt, Leave, NoCall
  <1>2. IF KeyOf[r] # NoKey
        THEN /\ cached[KeyOf[r]] = 0
             /\ cached' = [cached EXCEPT ![KeyOf[r]] = n]
        ELSE cached' = cached
    BY DEF Publish, Keyed, Key
  <1>3. IF backend = "external"
        THEN /\ exec[p] = [request |-> r, status |-> "dispatched"]
             /\ exec' = [exec EXCEPT ![p] = [request |-> r, status |-> "completed"]]
        ELSE exec' = exec
    BY DEF Publish, Complete
  <1>4. r \in Requests /\ p \in Payments /\ PaymentOf[r] = p
    BY <1>1, CallerFacts DEF Pay
  <1> HIDE DEF p, r
  <1> USE DEF IInv
  <1>5. /\ backend \in {"echo", "external"}
        /\ receipts \in Seq(Requests) /\ Len(receipts) \in Nat /\ n \in Nat \ {0}
    BY InferenceAssumption DEF TypeOK
  <1>6. /\ receipts' \in Seq(Requests) /\ Len(receipts') = n /\ receipts'[n] = r
        /\ \A m \in 1..Len(receipts) : receipts'[m] = receipts[m]
    BY <1>1, <1>4, <1>5
  <1>7. 1..n = (1..Len(receipts)) \cup {n} /\ 0..Len(receipts) \subseteq 0..n
    BY <1>5
  <1> HIDE DEF n
  <1>8. /\ caller' \in [Callers -> [at : {"idle", "admitted", "claimed", "running"},
                                   request : Requests \cup {NoRequest}]]
        /\ caller'[c].at = "idle"
        /\ \A d \in Callers : d # c => caller'[d] = caller[d]
    BY <1>1, CallerStep
  <1>9. /\ status' \in [Payments -> Statuses] /\ status'[p] = "consumed"
        /\ \A q \in Payments : q # p => status'[q] = status[q]
    BY <1>1, <1>4 DEF TypeOK, Statuses
  <1>10. /\ receiptOf' \in [Payments -> 0..n] /\ receiptOf'[p] = n
         /\ \A q \in Payments : q # p => receiptOf'[q] = receiptOf[q]
    BY <1>1, <1>4, <1>5, <1>7 DEF TypeOK
  <1>11. /\ cached' \in [Keys -> 0..n]
         /\ KeyOf[r] # NoKey => cached[KeyOf[r]] = 0 /\ cached'[KeyOf[r]] = n
         /\ \A k \in Keys : k # KeyOf[r] => cached'[k] = cached[k]
    <2>1. cached \in [Keys -> 0..n]
      BY <1>7 DEF TypeOK
    <2>2. n \in 0..n
      BY <1>5
    <2>3. KeyOf[r] # NoKey <=> KeyOf[r] \in Keys
      BY <1>4 DEF Keys
    <2>4. CASE KeyOf[r] # NoKey
      BY <1>2, <2>1, <2>2, <2>3, <2>4
    <2>5. CASE KeyOf[r] = NoKey
      BY <1>2, <2>1, <2>3, <2>5
    <2> QED
      BY <2>4, <2>5
  <1>12. answered' \subseteq Requests \X (1..n)
    BY <1>1, <1>4, <1>5, <1>7 DEF TypeOK
  <1>13. /\ exec' \in [Payments -> [request : Requests \cup {NoRequest},
                                   status : {"none", "dispatched", "completed"}]]
         /\ exec'[p].request = exec[p].request
         /\ backend = "external" =>
              exec[p].status = "dispatched" /\ exec'[p].status = "completed"
         /\ backend = "echo" => exec'[p].status = exec[p].status
         /\ \A q \in Payments : q # p => exec'[q] = exec[q]
    <2>1. CASE backend = "external"
      <3>1. exec[p].request = r /\ exec[p].status = "dispatched"
        BY <1>3, <2>1
      <3>2. exec' = [exec EXCEPT ![p] = [request |-> r, status |-> "completed"]]
        BY <1>3, <2>1
      <3> QED
        BY <3>1, <3>2, <1>4, <2>1 DEF TypeOK
    <2>2. CASE backend = "echo"
      BY <1>3, <2>2 DEF TypeOK
    <2> QED
      BY <1>5, <2>1, <2>2
  <1>14. TypeOK'
    BY <1>1, <1>6, <1>8, <1>9, <1>10, <1>11, <1>12, <1>13 DEF TypeOK
  <1>15. CallersTyped'
    BY <1>8 DEF CallersTyped
  <1>16. \A q \in Payments : /\ exec'[q].request = exec[q].request
                             /\ Claimed(q)' = Claimed(q)
    BY <1>5, <1>13 DEF Claimed
  <1>17. ClaimsTyped' /\ KeysUnique'
    BY <1>16 DEF ClaimsTyped, KeysUnique
  <1>18. EchoHasNoClaims'
    BY <1>1, <1>8, <1>16 DEF EchoHasNoClaims
  <1>19. \A d \in Callers : d # c /\ Holding(d) => Pay(d) # p /\ Pay(d) \in Payments
    BY <1>1, CallerFacts DEF HoldersDistinct, Holding, p
  <1>20. /\ ~Holding(c)'
         /\ \A d \in Callers : d # c => Pay(d)' = Pay(d) /\ Holding(d)' = Holding(d)
    BY <1>8 DEF Pay, Holding
  <1>21. HoldersHaveClaims'
    BY <1>1, <1>8, <1>13, <1>19, <1>20 DEF HoldersHaveClaims
  <1>22. HoldersDistinct'
    BY <1>20 DEF HoldersDistinct
  <1>23. RunningSettled'
    BY <1>8, <1>9, <1>19, <1>20 DEF RunningSettled, Holding
  <1>24. RunsTraced'
    BY <1>1, <1>8, <1>16, InferenceAssumption DEF RunsTraced
  <1>25. status[p] = "settled"
    BY <1>1 DEF RunningSettled, p
  <1>26. ReceiptsMatchPayments'
    <2>1. receiptOf[p] = 0
      BY <1>4, <1>5, <1>25 DEF ReceiptsMatchPayments
    <2>2. \A m \in 1..Len(receipts) : receipts[m] \in Requests
      BY <1>5
    <2>3. \A m \in 1..Len(receipts) :
            PaymentOf[receipts[m]] # p /\ PaymentOf[receipts[m]] \in Payments
      BY <2>1, <2>2, <1>5, InferenceAssumption DEF ReceiptsMatchPayments
    <2>4. \A m \in 1..n : receiptOf'[PaymentOf[receipts'[m]]] = m
      BY <2>3, <1>4, <1>6, <1>7, <1>10 DEF ReceiptsMatchPayments
    <2>5. usage' = Len(receipts')
      BY <1>1, <1>5, <1>6 DEF ReceiptsMatchPayments, n
    <2>6. \A q \in Payments : status'[q] = "consumed" <=> receiptOf'[q] # 0
      BY <1>5, <1>9, <1>10 DEF ReceiptsMatchPayments, n
    <2>7. backend = "external" => \A q \in Payments :
            status'[q] = "consumed" <=> exec'[q].status = "completed"
      BY <1>9, <1>13 DEF ReceiptsMatchPayments
    <2> QED
      BY <2>4, <2>5, <2>6, <2>7, <1>1, <1>6 DEF ReceiptsMatchPayments
  <1>27. AnswersTraced'
    <2>1. ASSUME NEW a \in answered
          PROVE  /\ BodyOf[receipts'[a[2]]] = BodyOf[a[1]]
                 /\ KeyOf[a[1]] # NoKey => cached'[KeyOf[a[1]]] = a[2]
      <3>1. a[1] \in Requests /\ a[2] \in 1..Len(receipts)
        BY DEF TypeOK
      <3>2. BodyOf[receipts'[a[2]]] = BodyOf[a[1]]
        BY <3>1, <1>6 DEF AnswersTraced
      <3>3. ASSUME KeyOf[a[1]] # NoKey PROVE cached'[KeyOf[a[1]]] = a[2]
        <4>1. KeyOf[a[1]] \in Keys /\ cached[KeyOf[a[1]]] = a[2] /\ a[2] # 0
          BY <3>1, <3>3, <1>5 DEF AnswersTraced, Keys
        <4> QED
          BY <3>3, <4>1, <1>11
      <3> QED
        BY <3>2, <3>3
    <2>2. /\ BodyOf[receipts'[n]] = BodyOf[r]
          /\ KeyOf[r] # NoKey => cached'[KeyOf[r]] = n
      BY <1>6, <1>11
    <2>3. \A a \in answered' :
            a \in answered \/ (a[1] = r /\ a[2] = n)
      BY <1>1 DEF n
    <2>4. \A a \in answered' :
            /\ BodyOf[receipts'[a[2]]] = BodyOf[a[1]]
            /\ KeyOf[a[1]] # NoKey => cached'[KeyOf[a[1]]] = a[2]
      BY <2>1, <2>2, <2>3
    <2> QED
      BY <2>4 DEF AnswersTraced
  <1> QED
    BY <1>14, <1>15, <1>17, <1>18, <1>21, <1>22, <1>23, <1>24, <1>26, <1>27

\* Whatever settlement does to rows that are not settled yet, short of consuming
\* one, touches no payment an execution relies on.
LEMMA RowsIInv ==
  ASSUME IInv, UNCHANGED inferVars, status' \in [Payments -> Statuses],
         \A p \in Payments :
           status'[p] # status[p] => status[p] \notin {"settled", "consumed"} /\ status'[p] # "consumed"
  PROVE  IInv'
  <1> USE DEF IInv
  <1>1. UNCHANGED <<backend, exec, receiptOf, receipts, cached, usage, caller,
                    ran, answered>>
    BY DEF inferVars
  <1>2. TypeOK'
    BY <1>1 DEF TypeOK
  <1>3. CallersTyped' /\ ClaimsTyped' /\ EchoHasNoClaims' /\ HoldersHaveClaims'
    BY <1>1 DEF CallersTyped, ClaimsTyped, EchoHasNoClaims, HoldersHaveClaims,
                Claimed, Holding, Pay
  <1>4. HoldersDistinct' /\ KeysUnique' /\ RunsTraced' /\ AnswersTraced'
    BY <1>1 DEF HoldersDistinct, KeysUnique, RunsTraced, AnswersTraced,
                Claimed, Holding, Pay
  <1>5. RunningSettled'
    BY <1>1, CallerFacts DEF RunningSettled, Pay
  <1>6. ReceiptsMatchPayments'
    BY <1>1 DEF ReceiptsMatchPayments
  <1> QED
    BY <1>2, <1>3, <1>4, <1>5, <1>6

\* A payment that becomes settled is such a row.
LEMMA SettledIInv ==
  ASSUME IInv, NEW p \in Payments, PaymentSettled(p)
  PROVE  IInv'
  <1>1. status' \in [Payments -> Statuses]
    BY DEF PaymentSettled, IInv, TypeOK, Statuses
  <1> QED
    BY <1>1, RowsIInv DEF PaymentSettled, IInv, TypeOK

\* A step that changes no variable keeps the invariant.
LEMMA StutterIInv == IInv /\ UNCHANGED vars => IInv'
  BY DEF vars, inferVars, IInv, TypeOK, CallersTyped, ClaimsTyped,
     EchoHasNoClaims, HoldersHaveClaims, HoldersDistinct, RunningSettled,
     KeysUnique, RunsTraced, ReceiptsMatchPayments, AnswersTraced, Claimed,
     Holding, Pay

\* Every step of the next-state relation keeps the invariant: one case for each action.
LEMMA NextIInv == IInv /\ [Next]_vars => IInv'
  <1> SUFFICES ASSUME IInv, [Next]_vars PROVE IInv'
    OBVIOUS
  <1>1. ASSUME NEW c \in Callers, NEW r \in Requests, Arrive(c, r) PROVE IInv'
    BY <1>1, ArriveIInv
  <1>2. ASSUME NEW c \in Callers, Replay(c) PROVE IInv'
    BY <1>2, ReplayIInv
  <1>3. ASSUME NEW c \in Callers, Reject(c) \/ Abort(c) PROVE IInv'
    BY <1>3, LeaveIInv
  <1>4. ASSUME NEW c \in Callers, Claim(c) PROVE IInv'
    BY <1>4, ClaimIInv
  <1>5. ASSUME NEW c \in Callers, Run(c) PROVE IInv'
    BY <1>5, RunIInv
  <1>6. ASSUME NEW c \in Callers, Publish(c) PROVE IInv'
    BY <1>6, PublishIInv
  <1>7. ASSUME NEW p \in Payments, PaymentSettled(p) PROVE IInv'
    BY <1>7, SettledIInv
  <1>8. CASE UNCHANGED vars
    BY <1>8, StutterIInv
  <1> QED
    BY <1>1, <1>2, <1>3, <1>4, <1>5, <1>6, <1>7, <1>8 DEF Next, Infer

-----------------------------------------------------------------------------

\* The inductive invariant holds in every reachable state of infer().
THEOREM Invariance == Spec => []IInv
  <1> QED
    BY InitIInv, NextIInv, PTL DEF Spec

\* Rows, claims, receipts and executions keep their types.
THEOREM TypeCorrect == Spec => []TypeOK
  <1>1. IInv => TypeOK
    BY DEF IInv
  <1> QED
    BY <1>1, Invariance, PTL

\* inference-execution.ts: with an external provider, neither two requests of
\* one payment nor two of one idempotency key both reach the provider, and no
\* request reaches it twice, whatever fails or runs concurrently.
THEOREM ProviderRunsOnce == Spec => []AtMostOneRun
  <1>1. IInv => AtMostOneRun
    <2> SUFFICES ASSUME IInv, backend = "external", NEW r \in Requests, NEW q \in Requests
                 PROVE  /\ ran[r] <= 1
                        /\ ran[r] > 0 /\ ran[q] > 0 /\ SameExecution(r, q) => r = q
      BY DEF AtMostOneRun
    <2> USE DEF IInv
    <2>1. ran[r] \in 0..2 /\ ran[q] \in 0..2
      BY DEF TypeOK
    <2>2. ran[r] <= 1
      BY <2>1 DEF RunsTraced
    <2>3. ASSUME ran[r] > 0, ran[q] > 0, SameExecution(r, q) PROVE r = q
      <3>1. /\ exec[PaymentOf[r]].request = r /\ PaymentOf[r] \in Payments
            /\ exec[PaymentOf[q]].request = q /\ PaymentOf[q] \in Payments
        BY <2>1, <2>3, InferenceAssumption DEF RunsTraced
      <3>2. Claimed(PaymentOf[r]) /\ Claimed(PaymentOf[q])
        BY <3>1, InferenceAssumption DEF ClaimsTyped
      <3>3. CASE PaymentOf[r] = PaymentOf[q]
        BY <3>1, <3>3
      <3>4. CASE KeyOf[r] # NoKey /\ KeyOf[r] = KeyOf[q]
        BY <3>1, <3>2, <3>4 DEF KeysUnique
      <3> QED
        BY <2>3, <3>3, <3>4 DEF SameExecution
    <2> QED
      BY <2>2, <2>3
  <1> QED
    BY <1>1, Invariance, PTL

\* gateway.ts infer: receipts, usage, consumed payments and completed claims
\* are written together or not at all.
THEOREM ReceiptsExact == Spec => []ReceiptsMatchPayments
  <1>1. IInv => ReceiptsMatchPayments
    BY DEF IInv
  <1> QED
    BY <1>1, Invariance, PTL

\* gateway.ts loadIdempotent: every answer is the receipt of the request hash
\* that asked, and one key is always answered with one receipt.
THEOREM AnswersExact == Spec => []AnswersConsistent
  <1>1. IInv => AnswersConsistent
    BY DEF IInv, AnswersTraced, AnswersConsistent
  <1> QED
    BY <1>1, Invariance, PTL

\* A step that starts from a quarantined payment leaves it quarantined: its
\* row is claimed, so only its holder could run or publish, and none is left.
LEMMA QuarantineStep ==
  ASSUME IInv, [Next]_vars, NEW p \in Payments, Quarantined(p)
  PROVE  /\ Quarantined(p)' /\ (status'[p] = "consumed" => status[p] = "consumed")
         /\ \A r \in Requests : PaymentOf[r] = p => ran'[r] = ran[r]
  <1> USE DEF IInv
  <1>1. /\ backend = "external" /\ Claimed(p)
        /\ exec[p].request \in Requests /\ PaymentOf[exec[p].request] = p
    BY InferenceAssumption DEF Quarantined, Claimed, ClaimsTyped, EchoHasNoClaims, TypeOK
  <1>2. \A c \in Callers : Holding(c) => Pay(c) # p
    BY <1>1 DEF Quarantined, Holding, HoldersHaveClaims
  <1>3. ASSUME NEW c \in Callers, Claim(c)
        PROVE  /\ Quarantined(p)' /\ status' = status /\ ran' = ran
    <2>1. Pay(c) # p /\ Pay(c) \in Payments
      BY <1>1, <1>3, ClaimedRow, CallerFacts DEF Claim, Claimable
    <2>2. exec'[p] = exec[p] /\ status' = status /\ ran' = ran
      BY <1>3, <2>1 DEF Claim, TypeOK
    <2>3. /\ caller'[c].request = caller[c].request
          /\ \A d \in Callers : d # c => caller'[d] = caller[d]
      BY <1>3 DEF Claim, Goto, TypeOK
    <2>4. caller[c].request # exec[p].request
      BY <1>1, <2>1 DEF Pay
    <2> QED
      BY <2>2, <2>3, <2>4 DEF Quarantined
  <1>4. ASSUME NEW c \in Callers, Run(c) \/ Publish(c)
        PROVE  /\ Quarantined(p)' /\ (status'[p] = "consumed" => status[p] = "consumed")
               /\ \A r \in Requests : PaymentOf[r] = p => ran'[r] = ran[r]
    <2>1. Pay(c) # p /\ caller[c].request \in Requests /\ Pay(c) \in Payments
      BY <1>1, <1>2, <1>4, CallerFacts DEF Run, Publish, Holding
    <2>2. caller[c].request # exec[p].request
      BY <1>1, <2>1 DEF Pay
    <2>3. exec'[p] = exec[p]
      BY <1>4, <2>1 DEF Run, Publish, Complete, TypeOK
    <2>4. \A d \in Callers :
            d # c => caller'[d] = caller[d]
      BY <1>4 DEF Run, Publish, Goto, Leave, TypeOK
    <2>5. caller'[c].request = caller[c].request \/ caller'[c].at = "idle"
      BY <1>4 DEF Run, Publish, Goto, Leave, NoCall, TypeOK
    <2>6. Quarantined(p)'
      BY <2>2, <2>3, <2>4, <2>5 DEF Quarantined
    <2>7. status'[p] = status[p]
      BY <1>4, <2>1 DEF Run, Publish, TypeOK
    <2>8. \A r \in Requests : PaymentOf[r] = p => ran'[r] = ran[r]
      BY <1>4, <2>1 DEF Run, Publish, Pay, TypeOK
    <2> QED
      BY <2>6, <2>7, <2>8
  <1>5. ASSUME NEW c \in Callers, NEW r \in Requests, Arrive(c, r)
        PROVE  Quarantined(p)' /\ status' = status /\ ran' = ran
    BY <1>5 DEF Arrive, Quarantined, TypeOK
  <1>6. ASSUME NEW c \in Callers, Replay(c) \/ Reject(c) \/ Abort(c)
        PROVE  Quarantined(p)' /\ status' = status /\ ran' = ran
    <2>1. /\ UNCHANGED <<status, ran, exec>>
          /\ caller' = [caller EXCEPT ![c] = [at |-> "idle", request |-> NoRequest]]
      BY <1>6 DEF Replay, Reject, Abort, Leave, NoCall
    <2>2. caller'[c].at = "idle" /\ \A d \in Callers : d # c => caller'[d] = caller[d]
      BY <2>1, CallerStep
    <2> QED
      BY <2>1, <2>2 DEF Quarantined
  <1>7. ASSUME NEW q \in Payments, PaymentSettled(q)
        PROVE  /\ Quarantined(p)' /\ (status'[p] = "consumed" => status[p] = "consumed")
               /\ ran' = ran
    <2>1. /\ UNCHANGED <<ran, exec, caller>>
          /\ status' = [status EXCEPT ![q] = "settled"]
      BY <1>7 DEF PaymentSettled, inferVars
    <2>2. status'[p] = "consumed" => status[p] = "consumed"
      BY <2>1 DEF TypeOK
    <2> QED
      BY <2>1, <2>2 DEF Quarantined
  <1>8. CASE UNCHANGED vars
    BY <1>8 DEF vars, inferVars, Quarantined
  <1> QED
    BY <1>3, <1>4, <1>5, <1>6, <1>7, <1>8 DEF Next, Infer

\* docs/architecture.md: "Durable payment and inference journals prevent
\* repeating an ambiguous execution": a claim that lost its holder blocks its
\* payment for ever.
THEOREM QuarantineStays == Spec => QuarantineIsPermanent
  <1>1. IInv /\ [Next]_vars =>
          [\A p \in Payments :
             Quarantined(p) =>
               /\ Quarantined(p)' /\ (status'[p] = "consumed" => status[p] = "consumed")
               /\ \A r \in Requests : PaymentOf[r] = p => ran'[r] = ran[r]]_vars
    BY QuarantineStep
  <1> QED
    BY <1>1, Invariance, PTL DEF Spec, QuarantineIsPermanent

-----------------------------------------------------------------------------
(* Serving as InferenceExecution.                                           *)

SceneOK == scene \in Scenes

LEMMA StepInfers ==
  ASSUME SceneOK, [ServingNext]_servingVars
  PROVE  [Next]_vars /\ SceneOK'
  <1>1. /\ scene.requests \subseteq Requests /\ scene.checks \subseteq Checks
        /\ scene.admins \subseteq Admins
    BY SessionAssumption DEF SceneOK
  <1>2. ASSUME NEW c \in Callers,
               \/ \E r \in scene.requests : Enter(c, r)
               \/ Repeat(c) \/ Refuse(c) \/ Dispatch(c) \/ Execute(c) \/ Commit(c) \/ Fails(c)
        PROVE  Infer
    BY <1>1, <1>2 DEF Infer, Enter, Repeat, Refuse, Dispatch, Execute, Commit, Fails
  <1>3. ASSUME NEW c \in Callers, Fence(c) \/ Reapprove(c)
        PROVE  UNCHANGED vars
    BY <1>3 DEF Fence, Reapprove
  <1>4. ASSUME NEW r \in scene.requests, PaymentSettled(PaymentOf[r])
        PROVE  Next
    BY <1>1, <1>4, InferenceAssumption DEF Next
  <1>5. AdmissionRejected => UNCHANGED vars
    BY DEF AdmissionRejected
  <1>6. [Next]_vars
    BY <1>2, <1>3, <1>4, <1>5 DEF Next, ServingNext, servingVars
  <1>7. SceneOK'
    BY DEF SceneOK, ServingNext, servingVars
  <1> QED
    BY <1>6, <1>7

\* gateway.ts infer: with the policy's locks, approvals and readiness around
\* it, an inference still does only what InferenceExecution does.
THEOREM ServingInfers == ServingSpec => Spec
  <1>1. ServingInit => Init /\ SceneOK
    BY DEF ServingInit, SceneOK
  <1>2. SceneOK /\ [ServingNext]_servingVars => [Next]_vars /\ SceneOK'
    BY StepInfers
  <1> QED
    BY <1>1, <1>2, PTL DEF ServingSpec, Spec

\* What InferenceExecution guarantees holds while policies change: one run of
\* the provider, receipts that match payments, consistent answers.
THEOREM ServingKeepsInference ==
  ServingSpec => [](AtMostOneRun /\ ReceiptsMatchPayments /\ AnswersConsistent)
  <1> QED
    BY ServingInfers, ProviderRunsOnce, ReceiptsExact, AnswersExact, PTL

\* A payment quarantined by a failure stays so while policies change.
THEOREM ServingKeepsQuarantine == ServingSpec => QuarantineIsPermanent
  <1> QED
    BY ServingInfers, QuarantineStays

-----------------------------------------------------------------------------
(* The policy.                                                              *)

FenceTyped ==
  /\ fence \in [Callers -> {"none", "current", "approved"}]
  /\ caller \in [Callers -> [at : {"idle", "admitted", "claimed", "running"},
                             request : Requests \cup {NoRequest}]]
  /\ admin \in [Admins -> [at : {"idle", "asking", "allowed"}, version : 0 .. MaxVersion]]

\* The shared and the exclusive lock exclude each other.
LocksExclude == ~(SharedHeld /\ ExclusiveHeld)

FencesHold ==
  \A c \in Callers : fence[c] # "none" => caller[c].at = "running" /\ Current(Under(c))

PolicyInv == SceneOK /\ FenceTyped /\ LocksExclude /\ FencesHold

\* What a step of one execution must do to keep the invariant: the policies
\* and the other executions are untouched.
LEMMA CallerKeepsPolicy ==
  ASSUME PolicyInv, NEW c \in Callers, UNCHANGED <<policies, admin, scene>>,
         FenceTyped',
         \A d \in Callers : d # c => fence'[d] = fence[d] /\ caller'[d] = caller[d],
         fence'[c] # "none" =>
            ~ExclusiveHeld /\ caller'[c].at = "running" /\ Current(SessionUnder[caller'[c].request])
  PROVE  PolicyInv'
  <1> USE DEF PolicyInv
  <1>1. ExclusiveHeld' = ExclusiveHeld /\ \A v \in PolicyVersions : Current(v)' = Current(v)
    BY DEF ExclusiveHeld, Current, ActiveVersions
  <1>2. LocksExclude'
    BY <1>1 DEF LocksExclude, SharedHeld
  <1>3. \A v : Current(v)' = Current(v)
    BY DEF Current, ActiveVersions
  <1>4. FencesHold'
    BY <1>3 DEF FencesHold, Under
  <1> QED
    BY <1>2, <1>4 DEF SceneOK

LEMMA CallerStepPolicy ==
  ASSUME PolicyInv, scene' = scene, NEW c \in Callers,
         \/ \E r \in scene.requests : Enter(c, r)
         \/ Repeat(c) \/ Refuse(c) \/ Dispatch(c) \/ Execute(c)
         \/ Fence(c) \/ Reapprove(c) \/ Commit(c) \/ Fails(c)
  PROVE  PolicyInv'
  <1> USE DEF PolicyInv
  <1>0. scene.requests \subseteq Requests
    BY SessionAssumption DEF SceneOK
  <1>1. UNCHANGED <<policies, admin>>
    BY DEF Enter, Repeat, Refuse, Dispatch, Execute, Fence, Reapprove, Commit, Fails,
           Untouched, Unfenced, tcbVars
  <1>2. ASSUME NEW stage \in {"idle", "admitted", "claimed", "running"},
               NEW r \in Requests \cup {NoRequest},
               caller' = [caller EXCEPT ![c] = [at |-> stage, request |-> r]],
               fence' = fence, fence[c] = "none"
        PROVE  PolicyInv'
    <2>1. FenceTyped'
      BY <1>1, <1>2 DEF FenceTyped
    <2>2. \A d \in Callers : d # c => fence'[d] = fence[d] /\ caller'[d] = caller[d]
      BY <1>2 DEF FenceTyped
    <2> QED
      BY <1>1, <1>2, <2>1, <2>2, CallerKeepsPolicy
  <1>3. caller[c].at # "running" => fence[c] = "none"
    BY DEF FencesHold
  <1>4. caller[c].request \in Requests \cup {NoRequest}
    BY DEF FenceTyped
  <1>5. CASE \E r \in scene.requests : Enter(c, r)
    <2>1. PICK r \in scene.requests : Enter(c, r)
      BY <1>5
    <2>2. /\ caller[c].at = "idle" /\ fence' = fence
          /\ caller' = [caller EXCEPT ![c] = [at |-> "admitted", request |-> r]]
      BY <2>1 DEF Enter, Arrive, Untouched, Unfenced
    <2> QED
      BY <1>0, <1>2, <1>3, <2>2
  <1>6. CASE Repeat(c) \/ Refuse(c)
    <2>1. /\ caller[c].at = "admitted" /\ fence' = fence
          /\ caller' = [caller EXCEPT ![c] = [at |-> "idle", request |-> NoRequest]]
      BY <1>6 DEF Repeat, Refuse, Replay, Reject, Leave, NoCall, Untouched, Unfenced
    <2> QED
      BY <1>2, <1>3, <2>1
  <1>7. CASE Dispatch(c)
    <2>1. /\ caller[c].at = "admitted" /\ fence' = fence
          /\ caller' = [caller EXCEPT ![c] = [at |-> "claimed", request |-> caller[c].request]]
      BY <1>7 DEF Dispatch, Claim, Goto, Untouched, Unfenced
    <2> QED
      BY <1>2, <1>3, <1>4, <2>1
  <1>8. CASE Execute(c)
    <2>1. /\ caller[c].at # "running" /\ fence' = fence
          /\ caller' = [caller EXCEPT ![c] = [at |-> "running", request |-> caller[c].request]]
      BY <1>8 DEF Execute, Run, Goto, Untouched, Unfenced
    <2> QED
      BY <1>2, <1>3, <1>4, <2>1
  <1>9. CASE Fence(c)
    <2>1. /\ caller' = caller /\ caller[c].at = "running" /\ ~ExclusiveHeld /\ Current(Under(c))
          /\ fence' = [fence EXCEPT ![c] = "current"]
      BY <1>9 DEF Fence, Admitted, vars, inferVars
    <2>2. FenceTyped' /\ \A d \in Callers : d # c => fence'[d] = fence[d] /\ caller'[d] = caller[d]
      BY <1>1, <2>1 DEF FenceTyped
    <2> QED
      BY <1>1, <2>1, <2>2, CallerKeepsPolicy DEF Under
  <1>10. CASE Reapprove(c)
    <2>1. /\ caller' = caller /\ fence[c] = "current"
          /\ fence' = [fence EXCEPT ![c] = "approved"]
      BY <1>10 DEF Reapprove, vars, inferVars
    <2>2. FenceTyped' /\ \A d \in Callers : d # c => fence'[d] = fence[d] /\ caller'[d] = caller[d]
      BY <1>1, <2>1 DEF FenceTyped
    <2>3. ~ExclusiveHeld /\ caller[c].at = "running" /\ Current(Under(c))
      BY <2>1 DEF LocksExclude, SharedHeld, FencesHold
    <2> QED
      BY <1>1, <2>1, <2>2, <2>3, CallerKeepsPolicy DEF Under
  <1>11. CASE Commit(c) \/ Fails(c)
    <2>1. /\ caller' = [caller EXCEPT ![c] = [at |-> "idle", request |-> NoRequest]]
          /\ fence' = [fence EXCEPT ![c] = "none"]
      BY <1>11 DEF Commit, Fails, Publish, Abort, Leave, NoCall
    <2>2. FenceTyped' /\ \A d \in Callers : d # c => fence'[d] = fence[d] /\ caller'[d] = caller[d]
      BY <1>1, <2>1 DEF FenceTyped
    <2>3. fence'[c] = "none"
      BY <2>1 DEF FenceTyped
    <2> QED
      BY <1>1, <2>2, <2>3, CallerKeepsPolicy
  <1> QED
    BY <1>5, <1>6, <1>7, <1>8, <1>9, <1>10, <1>11

\* An administrator's step that changes a policy or takes the lock finds no
\* publication fenced.
LEMMA AdminStepPolicy ==
  ASSUME PolicyInv, UNCHANGED <<scene, caller, fence>>, TcbNext(SharedHeld, scene.admins)
  PROVE  PolicyInv'
  <1> USE DEF PolicyInv
  <1>0. scene.admins \subseteq Admins
    BY SessionAssumption DEF SceneOK
  <1>1. ASSUME ~SharedHeld, FenceTyped' PROVE PolicyInv'
    BY <1>1 DEF SharedHeld, LocksExclude, FencesHold, SceneOK
  <1>2. ASSUME UNCHANGED <<policies, admin>> PROVE PolicyInv'
    <2>1. FenceTyped' /\ LocksExclude' /\ \A v : Current(v)' = Current(v)
      BY <1>2 DEF FenceTyped, LocksExclude, SharedHeld, ExclusiveHeld, Current, ActiveVersions
    <2>2. FencesHold'
      BY <2>1 DEF FencesHold, Under
    <2> QED
      BY <2>1, <2>2 DEF SceneOK
  <1>3. ASSUME NEW m \in Admins, admin[m].at # "idle", UNCHANGED policies,
               NEW a \in [at : {"idle", "asking", "allowed"}, version : 0 .. MaxVersion],
               admin' = [admin EXCEPT ![m] = a]
        PROVE  PolicyInv'
    BY <1>1, <1>3 DEF FenceTyped, LocksExclude, ExclusiveHeld
  <1>4. CASE Initialize(SharedHeld) \/ \E v \in PolicyVersions : Propose(SharedHeld, v)
    <2>1. ~SharedHeld /\ admin' = admin
      BY <1>4 DEF Initialize, Propose
    <2> QED
      BY <1>1, <2>1 DEF FenceTyped
  <1>5. CASE \E v \in PolicyVersions : Approve(v) \/ Revoke(v)
    BY <1>2, <1>5 DEF Approve, Revoke
  <1>6. ASSUME NEW m \in Admins,
               AskRegistry(m) \/ ActivationFails(m) \/ Activate(m)
                 \/ \E v, expected \in PolicyVersions : BeginActivation(SharedHeld, m, v, expected)
        PROVE  PolicyInv'
    <2>1. CASE AskRegistry(m)
      <3>1. PICK a \in [at : {"idle", "asking", "allowed"}, version : 0 .. MaxVersion] :
              admin' = [admin EXCEPT ![m] = a]
        <4>1. admin[m] \in [at : {"idle", "asking", "allowed"}, version : 0 .. MaxVersion]
          BY DEF FenceTyped
        <4>2. NoActivation \in [at : {"idle", "asking", "allowed"}, version : 0 .. MaxVersion]
          BY TcbAssumption DEF NoActivation
        <4>3. [admin[m] EXCEPT !.at = "allowed"]
                \in [at : {"idle", "asking", "allowed"}, version : 0 .. MaxVersion]
          BY <4>1
        <4>4. admin' = [admin EXCEPT ![m] = IF admin[m].version \in approved
                          THEN [admin[m] EXCEPT !.at = "allowed"] ELSE NoActivation]
          BY <2>1 DEF AskRegistry
        <4> QED
          BY <4>2, <4>3, <4>4
      <3>2. admin[m].at # "idle" /\ UNCHANGED policies
        BY <2>1 DEF AskRegistry
      <3> QED
        BY <1>3, <3>1, <3>2
    <2>2. CASE ActivationFails(m)
      <3>1. NoActivation \in [at : {"idle", "asking", "allowed"}, version : 0 .. MaxVersion]
        BY TcbAssumption DEF NoActivation
      <3> QED
        BY <1>3, <2>2, <3>1 DEF ActivationFails
    <2>3. CASE Activate(m)
      <3>1. ~SharedHeld
        BY <2>3 DEF Activate, LocksExclude, ExclusiveHeld
      <3>2. FenceTyped'
        BY <2>3, TcbAssumption DEF Activate, FenceTyped, NoActivation
      <3> QED
        BY <1>1, <3>1, <3>2
    <2>4. ASSUME NEW v \in PolicyVersions, NEW expected \in PolicyVersions,
                 BeginActivation(SharedHeld, m, v, expected)
          PROVE  PolicyInv'
      <3>1. ~SharedHeld /\ admin' = [admin EXCEPT ![m] = [at |-> "asking", version |-> v]]
        BY <2>4 DEF BeginActivation
      <3>2. v \in 0 .. MaxVersion
        BY TcbAssumption DEF PolicyVersions
      <3>3. FenceTyped'
        BY <3>1, <3>2 DEF FenceTyped
      <3> QED
        BY <1>1, <3>1, <3>3
    <2> QED
      BY <1>6, <2>1, <2>2, <2>3, <2>4
  <1> QED
    BY <1>0, <1>4, <1>5, <1>6 DEF TcbNext

LEMMA PolicyInvInit == ServingInit => PolicyInv
  BY TcbAssumption
     DEF ServingInit, Init, InitInference, TcbInit, PolicyInv, SceneOK, FenceTyped, LocksExclude,
         FencesHold, SharedHeld, NoCall, NoActivation

LEMMA PolicyInvNext == PolicyInv /\ [ServingNext]_servingVars => PolicyInv'
  <1> SUFFICES ASSUME PolicyInv, [ServingNext]_servingVars PROVE PolicyInv'
    OBVIOUS
  <1>1. ASSUME UNCHANGED <<policies, admin, scene, caller, fence>> PROVE PolicyInv'
    <2>1. FenceTyped' /\ LocksExclude' /\ \A v : Current(v)' = Current(v)
      BY <1>1 DEF PolicyInv, FenceTyped, LocksExclude, SharedHeld, ExclusiveHeld, Current,
                  ActiveVersions
    <2>2. FencesHold'
      BY <1>1, <2>1 DEF PolicyInv, FencesHold, Under
    <2> QED
      BY <1>1, <2>1, <2>2 DEF PolicyInv, SceneOK
  <1>2. CASE UNCHANGED servingVars
    BY <1>1, <1>2 DEF servingVars, vars, inferVars, tcbVars
  <1>3. CASE (\E r \in scene.requests : PaymentSettled(PaymentOf[r])) /\ Untouched /\ scene' = scene
    BY <1>1, <1>3 DEF PaymentSettled, inferVars, Untouched, Unfenced, tcbVars
  <1>4. CASE TcbNext(SharedHeld, scene.admins) /\ UNCHANGED <<vars, readinessVars, fence, scene>>
    BY <1>4, AdminStepPolicy DEF vars, inferVars
  <1>5. CASE ReadinessNext(scene.checks) /\ UNCHANGED <<vars, tcbVars, fence, scene>>
    BY <1>1, <1>5 DEF vars, inferVars, tcbVars
  <1>6. CASE AdmissionRejected /\ scene' = scene
    BY <1>1, <1>6 DEF AdmissionRejected, vars, inferVars, tcbVars
  <1> QED
    BY <1>2, <1>3, <1>4, <1>5, <1>6, CallerStepPolicy DEF ServingNext

\* tcb-lifecycle.ts: what infer commits or answers, it commits or answers while
\* the policy of its session is the only active one, however activations
\* interleave with it.
THEOREM PolicyFencesPublication == ServingSpec => ServedByActivePolicy
  <1>1. PolicyInv /\ [ServingNext]_servingVars =>
          [\A c \in Callers :
             caller[c].at # "idle" /\ <<receipts, answered, status>>' # <<receipts, answered, status>>
               /\ caller'[c].at = "idle"
               => Current(Under(c))]_servingVars
    <2> SUFFICES ASSUME PolicyInv, ServingNext, NEW c \in Callers,
                        caller[c].at # "idle", caller'[c].at = "idle",
                        <<receipts, answered, status>>' # <<receipts, answered, status>>
                 PROVE  Current(Under(c))
      OBVIOUS
    <2> USE DEF PolicyInv
    <2>1. caller' # caller
      OBVIOUS
    <2>2. ASSUME NEW d \in Callers, d # c,
                 \/ \E r \in scene.requests : Enter(d, r)
                 \/ Repeat(d) \/ Refuse(d) \/ Dispatch(d) \/ Execute(d)
                 \/ Fence(d) \/ Reapprove(d) \/ Commit(d) \/ Fails(d)
          PROVE  FALSE
      <3>1. \E to : caller' = caller \/ caller' = [caller EXCEPT ![d] = to]
        BY <2>2 DEF Enter, Repeat, Refuse, Dispatch, Execute, Fence, Reapprove, Commit, Fails,
                    Arrive, Replay, Reject, Claim, Run, Publish, Abort, Goto, Leave, vars, inferVars
      <3>2. caller'[c] = caller[c]
        BY <2>2, <3>1 DEF FenceTyped
      <3> QED
        BY <3>2
    <2>3. CASE \/ \E r \in scene.requests : Enter(c, r)
               \/ Refuse(c) \/ Dispatch(c) \/ Execute(c)
               \/ Fence(c) \/ Reapprove(c) \/ Fails(c)
      BY <2>3 DEF Enter, Refuse, Dispatch, Execute, Fence, Reapprove, Fails,
                  Arrive, Reject, Claim, Run, Abort, vars, inferVars
    <2>4. CASE Repeat(c)
      BY <2>4 DEF Repeat, Admitted
    <2>5. CASE Commit(c)
      BY <2>5 DEF Commit, FencesHold
    <2>6. ~((\E r \in scene.requests : PaymentSettled(PaymentOf[r])) /\ Untouched)
      BY <2>1 DEF PaymentSettled, inferVars
    <2>7. ~UNCHANGED vars
      BY <2>1 DEF vars, inferVars
    <2> QED
      BY <2>2, <2>3, <2>4, <2>5, <2>6, <2>7 DEF ServingNext, AdmissionRejected
  <1> QED
    BY <1>1, PolicyInvInit, PolicyInvNext, PTL DEF ServingSpec, ServedByActivePolicy

-----------------------------------------------------------------------------
(* The readiness.                                                           *)

\* The check that carries the last number, while it runs, has seen nothing
\* newer; one that has not started has nothing to be older than.
ReadinessInv ==
  /\ ReadinessTypeOK
  /\ \A k \in Checks :
       /\ check[k].number <= preflightAttempt
       /\ check[k].at = "none" => k \notin stale
       /\ check[k].at = "running" /\ Newest(k) => k \notin stale
  /\ ReadinessFresh

LEMMA RejectedFresh == ReadinessInv /\ Rejected => ReadinessInv'
  <1> SUFFICES ASSUME ReadinessInv, Rejected PROVE ReadinessInv'
    OBVIOUS
  <1>1. /\ preflightAttempt \in Nat /\ preflightAttempt' = preflightAttempt + 1 /\ ready' = FALSE /\ check' = check
        /\ \A k \in Checks : check[k].number \in Nat /\ check[k].number <= preflightAttempt
        /\ \A k \in Checks : check[k].at = "none" => k \notin stale'
    BY DEF ReadinessInv, ReadinessTypeOK, Rejected, Started
  <1>2. ReadinessTypeOK'
    <2>1. stale' \subseteq Checks
      BY DEF ReadinessInv, ReadinessTypeOK, Rejected, Started
    <2>2. preflightAttempt' \in Nat
      BY <1>1
    <2> QED
      BY <1>1, <2>1, <2>2, Zenon DEF ReadinessInv, ReadinessTypeOK
  <1> QED
    BY <1>1, <1>2 DEF ReadinessInv, ReadinessFresh, Newest

LEMMA CheckFresh ==
  ASSUME ReadinessInv, NEW k \in Checks, StartCheck(k) \/ CheckSucceeds(k) \/ CheckFails(k)
  PROVE  ReadinessInv'
  <1> USE DEF ReadinessInv, ReadinessTypeOK
  <1>1. CASE StartCheck(k)
    <2>1. ReadinessTypeOK'
      <3>1. [at |-> "running", number |-> preflightAttempt + 1]
              \in [at : {"none", "running", "succeeded", "failed"}, number : Nat]
        OBVIOUS
      <3> QED
        BY <1>1, <3>1 DEF StartCheck, Started
    <2>2. \A j \in Checks : check'[j] = IF j = k THEN [at |-> "running", number |-> preflightAttempt + 1] ELSE check[j]
      BY <1>1 DEF StartCheck
    <2>3. k \notin stale' /\ preflightAttempt' = preflightAttempt + 1 /\ ready' = FALSE
      BY <1>1 DEF StartCheck, Started
    <2>4. \A j \in Checks : check[j].at = "none" /\ j # k => j \notin stale'
      BY <1>1 DEF StartCheck, Started
    <2> QED
      BY <2>1, <2>2, <2>3, <2>4 DEF Newest, ReadinessFresh
  <1>2. CASE CheckSucceeds(k)
    <2>1. ReadinessTypeOK'
      BY <1>2 DEF CheckSucceeds, Ended, Newest
    <2>2. /\ \A j \in Checks : check'[j] = IF j = k THEN [check[k] EXCEPT !.at = "succeeded"] ELSE check[j]
          /\ UNCHANGED <<preflightAttempt, stale>> /\ check[k].at = "running" /\ ready' = (ready \/ Newest(k))
      BY <1>2 DEF CheckSucceeds, Ended
    <2>3. ReadinessFresh'
      <3>1. CASE Newest(k)
        BY <2>2, <3>1 DEF ReadinessFresh
      <3>2. CASE ~Newest(k)
        <4>1. ready' => \E j \in Checks : check[j].at = "succeeded" /\ j \notin stale
          BY <2>2, <3>2 DEF ReadinessFresh
        <4> QED
          BY <2>2, <4>1 DEF ReadinessFresh
      <3> QED
        BY <3>1, <3>2
    <2> QED
      BY <2>1, <2>2, <2>3 DEF Newest
  <1>3. CASE CheckFails(k)
    <2>1. ReadinessTypeOK'
      BY <1>3 DEF CheckFails, Ended, Started
    <2>2. /\ \A j \in Checks : check'[j] = IF j = k THEN [check[k] EXCEPT !.at = "failed"] ELSE check[j]
          /\ preflightAttempt' = preflightAttempt /\ ready' = FALSE /\ check[k].at = "running"
          /\ stale' = stale \cup {j \in Started : check[j].at # "running"}
      BY <1>3 DEF CheckFails, Ended
    <2> QED
      BY <2>1, <2>2 DEF Newest, ReadinessFresh, Started
  <1> QED
    BY <1>1, <1>2, <1>3

LEMMA ReadinessUnchanged == ReadinessInv /\ UNCHANGED readinessVars => ReadinessInv'
  BY DEF ReadinessInv, ReadinessTypeOK, ReadinessFresh, Newest, readinessVars

\* gateway.ts providerPreflight: admission opens on a check that nothing newer
\* has overtaken, and every failure or rejection closes it.
THEOREM AdmissionFresh == ServingSpec => []ReadinessFresh
  <1>1. ServingInit => SceneOK /\ ReadinessInv
    <2>1. [at |-> "none", number |-> 0] \in [at : {"none", "running", "succeeded", "failed"}, number : Nat]
      OBVIOUS
    <2>2. ReadinessInit => ReadinessTypeOK
      BY <2>1, Zenon DEF ReadinessInit, ReadinessTypeOK
    <2>3. ReadinessInit => ReadinessInv
      BY <2>2 DEF ReadinessInit, ReadinessInv, ReadinessFresh
    <2> QED
      BY <2>3 DEF ServingInit, SceneOK
  <1>2. SceneOK /\ ReadinessInv /\ [ServingNext]_servingVars => ReadinessInv'
    <2> SUFFICES ASSUME SceneOK, ReadinessInv, [ServingNext]_servingVars PROVE ReadinessInv'
      OBVIOUS
    <2>1. scene.checks \subseteq Checks
      BY SessionAssumption DEF SceneOK
    <2>2. ASSUME NEW c \in Callers,
                 \/ \E r \in scene.requests : Enter(c, r)
                 \/ Repeat(c) \/ Refuse(c) \/ Dispatch(c) \/ Execute(c)
                 \/ Fence(c) \/ Reapprove(c) \/ Commit(c) \/ Fails(c)
          PROVE  UNCHANGED readinessVars \/ Rejected
      BY <2>2 DEF Enter, Repeat, Refuse, Dispatch, Execute, Fence, Reapprove, Commit, Fails, Untouched
    <2>3. CASE ReadinessNext(scene.checks)
      BY <2>1, <2>3, CheckFresh DEF ReadinessNext
    <2>4. CASE UNCHANGED readinessVars \/ Rejected
      BY <2>4, ReadinessUnchanged, RejectedFresh
    <2>5. UNCHANGED servingVars \/ Untouched => UNCHANGED readinessVars
      BY DEF servingVars, Untouched
    <2> QED
      BY <2>2, <2>3, <2>4, <2>5 DEF ServingNext, AdmissionRejected
  <1>3. SceneOK /\ [ServingNext]_servingVars => SceneOK'
    BY DEF SceneOK, ServingNext, servingVars
  <1>4. ReadinessInv => ReadinessFresh
    BY DEF ReadinessInv
  <1> QED
    BY <1>1, <1>2, <1>3, <1>4, PTL DEF ServingSpec

-----------------------------------------------------------------------------
(* Inference and settlement.                                               *)

\* Settlement again, with its lemmas.
SP == INSTANCE PaymentSettlementProofs

\* Settlement as SP and settlement as S, the gateway's own, are one
\* specification: action by action the definitions are the same.
LEMMA SameSettlement ==
  /\ S!Init <=> SP!Init
  /\ S!vars = SP!vars
  /\ S!Settle <=> SP!Settle
  /\ \A p \in Payments : S!Consume(p) <=> SP!Consume(p)
  <1>1. \A p \in Payments : S!Challenge(p) <=> SP!Challenge(p)
    BY DEF S!Challenge, SP!Challenge, S!RowLocked, SP!RowLocked, S!mandVars,
           SP!mandVars, S!envVars, SP!envVars
  <1>2. \A h \in Handlers, p \in Payments : S!BeginClaim(h, p) <=> SP!BeginClaim(h, p)
    BY DEF S!BeginClaim, SP!BeginClaim, S!RowLocked, SP!RowLocked, S!Enter, SP!Enter,
           S!rowVars, SP!rowVars, S!mandVars, SP!mandVars, S!chainVars, SP!chainVars,
           S!envVars, SP!envVars
  <1>3. \A h \in Handlers : S!Reserve(h) <=> SP!Reserve(h)
    BY DEF S!Reserve, SP!Reserve, S!CanReserve, SP!CanReserve, S!ReserveFor,
           SP!ReserveFor, S!SpentOn, SP!SpentOn, S!Mandated, SP!Mandated, S!Enter,
           SP!Enter, S!chainVars, SP!chainVars, S!envVars, SP!envVars
  <1>4. \A h \in Handlers : S!Refuse(h) <=> SP!Refuse(h)
    BY DEF S!Refuse, SP!Refuse, S!CanReserve, SP!CanReserve, S!SpentOn, SP!SpentOn,
           S!Mandated, SP!Mandated, S!Finish, SP!Finish, S!NoCall, SP!NoCall, S!rowVars,
           SP!rowVars, S!mandVars, SP!mandVars, S!chainVars, SP!chainVars, S!envVars,
           SP!envVars
  <1>5. \A h \in Handlers, p \in Payments : S!Resume(h, p) <=> SP!Resume(h, p)
    BY DEF S!Resume, SP!Resume, S!Resumable, SP!Resumable, S!Enter, SP!Enter,
           S!mandVars, SP!mandVars, S!chainVars, SP!chainVars, S!envVars, SP!envVars
  <1>6. \A h \in Handlers : S!SettleSimulated(h) <=> SP!SettleSimulated(h)
    BY DEF S!SettleSimulated, SP!SettleSimulated, S!Proven, SP!Proven, S!rowVars,
           SP!rowVars, S!mandVars, SP!mandVars, S!chainVars, SP!chainVars, S!envVars,
           SP!envVars
  <1>7. \A h \in Handlers : S!Submit(h) <=> SP!Submit(h)
    BY DEF S!Submit, SP!Submit, S!SendOp, SP!SendOp, S!Goto, SP!Goto, S!rowVars,
           SP!rowVars, S!mandVars, SP!mandVars, S!envVars, SP!envVars
  <1>8. \A h \in Handlers : S!RelayConfirmed(h) <=> SP!RelayConfirmed(h)
    BY DEF S!RelayConfirmed, SP!RelayConfirmed, S!Proven, SP!Proven, S!rowVars,
           SP!rowVars, S!mandVars, SP!mandVars, S!chainVars, SP!chainVars, S!envVars,
           SP!envVars
  <1>9. \A h \in Handlers : S!RelayReverted(h) <=> SP!RelayReverted(h)
    BY DEF S!RelayReverted, SP!RelayReverted, S!Goto, SP!Goto, S!rowVars, SP!rowVars,
           S!mandVars, SP!mandVars, S!chainVars, SP!chainVars, S!envVars, SP!envVars
  <1>10. \A h \in Handlers : S!FundingFound(h) <=> SP!FundingFound(h)
    BY DEF S!FundingFound, SP!FundingFound, S!ProvesFunding, SP!ProvesFunding, S!SendOp,
           SP!SendOp, S!Goto, SP!Goto, S!rowVars, SP!rowVars, S!mandVars, SP!mandVars,
           S!envVars, SP!envVars
  <1>11. \A h \in Handlers : S!NoFunding(h) <=> SP!NoFunding(h)
    BY DEF S!NoFunding, SP!NoFunding, S!ProvesFunding, SP!ProvesFunding, S!Goto,
           SP!Goto, S!rowVars, SP!rowVars, S!mandVars, SP!mandVars, S!chainVars,
           SP!chainVars, S!envVars, SP!envVars
  <1>12. \A h \in Handlers : S!PrepaidConfirmed(h) <=> SP!PrepaidConfirmed(h)
    BY DEF S!PrepaidConfirmed, SP!PrepaidConfirmed, S!Proven, SP!Proven, S!rowVars,
           SP!rowVars, S!mandVars, SP!mandVars, S!chainVars, SP!chainVars, S!envVars,
           SP!envVars
  <1>13. \A h \in Handlers : S!PrepaidReverted(h) <=> SP!PrepaidReverted(h)
    BY DEF S!PrepaidReverted, SP!PrepaidReverted, S!Goto, SP!Goto, S!rowVars,
           SP!rowVars, S!mandVars, SP!mandVars, S!chainVars, SP!chainVars, S!envVars,
           SP!envVars
  <1>14. \A h \in Handlers : S!CallFails(h) <=> SP!CallFails(h)
    BY DEF S!CallFails, SP!CallFails, S!Fault, SP!Fault, S!SendOp, SP!SendOp,
           S!ErrorStages, SP!ErrorStages, S!Goto, SP!Goto, S!rowVars, SP!rowVars,
           S!mandVars, SP!mandVars, S!envVars, SP!envVars
  <1>15. \A h \in Handlers : S!RecordSettled(h) <=> SP!RecordSettled(h)
    BY DEF S!RecordSettled, SP!RecordSettled, S!Settled, SP!Settled, S!IsCurrent,
           SP!IsCurrent, S!Finish, SP!Finish, S!NoCall, SP!NoCall, S!mandVars,
           SP!mandVars, S!chainVars, SP!chainVars, S!envVars, SP!envVars
  <1>16. \A h \in Handlers : S!RecordSettledUnacknowledged(h) <=> SP!RecordSettledUnacknowledged(h)
    BY DEF S!RecordSettledUnacknowledged, SP!RecordSettledUnacknowledged, S!Fault,
           SP!Fault, S!Settled, SP!Settled, S!IsCurrent, SP!IsCurrent, S!Goto, SP!Goto,
           S!mandVars, SP!mandVars, S!chainVars, SP!chainVars, S!envVars, SP!envVars
  <1>17. \A h \in Handlers : S!RecordReverted(h) <=> SP!RecordReverted(h)
    BY DEF S!RecordReverted, SP!RecordReverted, S!IsCurrent, SP!IsCurrent, S!Refund,
           SP!Refund, S!RefundApplies, SP!RefundApplies, S!Mandated, SP!Mandated,
           S!Finish, SP!Finish, S!NoCall, SP!NoCall, S!chainVars, SP!chainVars,
           S!envVars, SP!envVars
  <1>18. \A h \in Handlers : S!RecordUnknown(h) <=> SP!RecordUnknown(h)
    BY DEF S!RecordUnknown, SP!RecordUnknown, S!IsCurrent, SP!IsCurrent, S!Finish,
           SP!Finish, S!NoCall, SP!NoCall, S!mandVars, SP!mandVars, S!chainVars,
           SP!chainVars, S!envVars, SP!envVars
  <1>19. \A h \in Handlers : S!Crash(h) <=> SP!Crash(h)
    BY DEF S!Crash, SP!Crash, S!Fault, SP!Fault, S!Finish, SP!Finish, S!NoCall,
           SP!NoCall, S!rowVars, SP!rowVars, S!mandVars, SP!mandVars, S!chainVars,
           SP!chainVars, S!envVars, SP!envVars
  <1>20. \A p \in Payments : S!Overdue(p) <=> SP!Overdue(p)
    BY DEF S!Overdue, SP!Overdue, S!Fault, SP!Fault, S!mandVars, SP!mandVars,
           S!chainVars, SP!chainVars, S!envVars, SP!envVars
  <1>21. \A p \in Payments : S!MineRelay(p) <=> SP!MineRelay(p)
    BY DEF S!MineRelay, SP!MineRelay, S!RelayCanSettle, SP!RelayCanSettle,
           S!UsesAuthorization, SP!UsesAuthorization, S!rowVars, SP!rowVars, S!mandVars,
           SP!mandVars, S!envVars, SP!envVars
  <1>22. \A p \in Payments : S!MinePrepaid(p) <=> SP!MinePrepaid(p)
    BY DEF S!MinePrepaid, SP!MinePrepaid, S!PrepaidCanSettle, SP!PrepaidCanSettle,
           S!PoolCovers, SP!PoolCovers, S!Deposits, SP!Deposits, S!Withdrawn,
           SP!Withdrawn, S!Sum, SP!Sum, S!MapThenSumSet, SP!MapThenSumSet,
           S!MapThenFoldSet, SP!MapThenFoldSet, S!rowVars, SP!rowVars, S!mandVars,
           SP!mandVars, S!envVars, SP!envVars
  <1>23. \A p \in Payments : S!Payer(p) <=> SP!Payer(p)
    BY DEF S!Payer, SP!Payer, S!PayerSettles, SP!PayerSettles, S!PayerDeposits,
           SP!PayerDeposits, S!PayerCancels, SP!PayerCancels, S!PayerSpends,
           SP!PayerSpends, S!UsesAuthorization, SP!UsesAuthorization, S!rowVars,
           SP!rowVars, S!mandVars, SP!mandVars, S!envVars, SP!envVars
  <1>24. S!NextDay <=> SP!NextDay
    BY DEF S!NextDay, SP!NextDay, S!rowVars, SP!rowVars, S!mandVars, SP!mandVars,
           S!chainVars, SP!chainVars
  <1>25. S!Settle <=> SP!Settle
    BY <1>1, <1>2, <1>3, <1>4, <1>5, <1>6, <1>7, <1>8, <1>9, <1>10, <1>11, <1>12, <1>13,
       <1>14, <1>15, <1>16, <1>17, <1>18, <1>19, <1>20, <1>21, <1>22, <1>23, <1>24
    DEF S!Settle, SP!Settle, S!Proceed, SP!Proceed, S!Fails, SP!Fails, S!Mine, SP!Mine
  <1>26. \A p \in Payments : S!Consume(p) <=> SP!Consume(p)
    BY DEF S!Consume, SP!Consume, S!ConsumptionProof, SP!ConsumptionProof,
           S!ProvesFunding, SP!ProvesFunding, S!mandVars, SP!mandVars, S!chainVars,
           SP!chainVars, S!envVars, SP!envVars
  <1>27. (S!Init <=> SP!Init) /\ S!vars = SP!vars
    BY DEF S!Init, SP!Init, S!Mandated, SP!Mandated, S!NoCall, SP!NoCall, S!vars,
           SP!vars, S!rowVars, SP!rowVars, S!mandVars, SP!mandVars, S!chainVars,
           SP!chainVars, S!envVars, SP!envVars
  <1> QED
    BY <1>25, <1>26, <1>27

\* What the lemmas of settlement assume of the constants is assumed here.
LEMMA SettlementLemmas ==
  /\ SP!Init => SP!IInv
  /\ SP!IInv /\ [SP!Next]_SP!vars => SP!IInv'
  /\ SP!IInv /\ SP!PaperOnly /\ [SP!Next]_SP!vars => SP!PaperOnly' /\ deployed' = deployed
  <1> USE GatewayAssumption DEF SP!Mandated, IsFiniteSet, SP!IsFiniteSet
  <1>1. SP!Init => SP!IInv
    BY SP!InitIInv
  <1>2. SP!IInv /\ [SP!Next]_SP!vars => SP!IInv'
    BY SP!NextIInv
  <1>3. SP!IInv /\ SP!PaperOnly /\ [SP!Next]_SP!vars => SP!PaperOnly' /\ deployed' = deployed
    BY SP!PaperStep
  <1> QED
    BY <1>1, <1>2, <1>3

\* What a step of settlement can do to the rows and to the payers: move one row
\* that is not settled yet, or debit one payer while no row moves.
LEMMA SettleSteps ==
  ASSUME SP!IInv, S!Settle
  PROVE  /\ \/ status' = status
            \/ \E p \in Payments, next \in {"settling", "settlement_unknown", "settled", "failed"} :
                 /\ status[p] \in {"open", "settling", "settlement_unknown"}
                 /\ status' = [status EXCEPT ![p] = next]
         /\ \/ \A p \in Payments : S!Debited(p)' <=> S!Debited(p)
            \/ /\ status' = status
               /\ \E p \in Payments : /\ ~S!Debited(p) /\ S!Debited(p)'
                                      /\ \A q \in Payments \ {p} : S!Debited(q)' <=> S!Debited(q)
  <1> USE GatewayAssumption DEF SP!Mandated, IsFiniteSet, SP!IsFiniteSet
  <1>1. SP!Settle
    BY SameSettlement
  <1>2. \/ status' = status
        \/ \E p \in Payments, next \in {"settling", "settlement_unknown", "settled", "failed"} :
             /\ status[p] \in {"open", "settling", "settlement_unknown"}
             /\ status' = [status EXCEPT ![p] = next]
    BY <1>1, SP!OneRowMoves
  <1>3. \/ \A p \in Payments : SP!Debited(p)' <=> SP!Debited(p)
        \/ /\ status' = status
           /\ \E p \in Payments : /\ ~SP!Debited(p) /\ SP!Debited(p)'
                                  /\ \A q \in Payments \ {p} : SP!Debited(q)' <=> SP!Debited(q)
    BY <1>1, SP!OnePayerDebited
  <1>4. \A p \in Payments : (S!Debited(p) <=> SP!Debited(p)) /\ (S!Debited(p)' <=> SP!Debited(p)')
    BY DEF S!Debited, SP!Debited
  <1> QED
    BY <1>2, <1>3, <1>4

-----------------------------------------------------------------------------
(* The invariants of both together.                                        *)

\* An execution that is running has run the provider once for its request.
RunningRan ==
  backend = "external" =>
    \A c \in Callers : caller[c].at = "running" => ran[caller[c].request] = 1

\* The inductive invariant: that of inference, with what its runs have counted,
\* and that of settlement, whose mode of paper money nothing changes.
GInv == IInv /\ RunningRan /\ SP!IInv /\ SP!PaperOnly

\* It holds of an empty gateway.
LEMMA GInvInit == GatewayInit => GInv
  <1> SUFFICES ASSUME GatewayInit PROVE GInv
    OBVIOUS
  <1>1. Init
    BY DEF GatewayInit, Init, S!Init
  <1>2. RunningRan
    BY <1>1 DEF Init, InitInference, RunningRan, NoCall
  <1>3. SP!Init /\ SP!PaperOnly
    BY SameSettlement DEF GatewayInit, SP!Init, SP!PaperOnly
  <1> QED
    BY <1>1, <1>2, <1>3, InitIInv, SettlementLemmas DEF GInv

\* The proof that consumePayment verifies stands for every settled payment.
LEMMA SettledProven ==
  ASSUME SP!IInv, NEW p \in Payments, status[p] = "settled"
  PROVE  S!ConsumptionProof(p)
  BY DEF SP!IInv, SP!PInv, SP!Accepted, SP!Debited, S!ConsumptionProof, S!ProvesFunding

\* A publication is the consumption settlement knows; nothing else inference
\* does shows in the row.
LEMMA InferConsumes ==
  ASSUME GInv, InferProven
  PROVE  UNCHANGED SP!vars \/ \E p \in Payments : SP!Consume(p)
  <1> USE DEF SP!vars, SP!rowVars, SP!mandVars, SP!chainVars, SP!envVars, settleVars
  <1>1. UNCHANGED settleVars /\ Infer
    BY DEF InferProven
  <1>2. ASSUME NEW c \in Callers, Publish(c) PROVE \E p \in Payments : SP!Consume(p)
    <2>1. Pay(c) \in Payments /\ status[Pay(c)] = "settled"
      BY <1>2, CallerFacts DEF GInv, IInv, RunningSettled, Publish
    <2>2. S!ConsumptionProof(Pay(c))
      BY <2>1, SettledProven DEF GInv
    <2>3. S!Consume(Pay(c))
      BY <1>1, <1>2, <2>1, <2>2 DEF S!Consume, Publish, S!mandVars, S!chainVars, S!envVars
    <2> QED
      BY <2>1, <2>3, SameSettlement
  <1>3. (\E c \in Callers : Publish(c)) \/ status' = status
    BY <1>1 DEF Infer, Arrive, Replay, Reject, Claim, Run, Abort
  <1> QED
    BY <1>1, <1>2, <1>3

\* Two executions that hold a payment hold different ones, so that a run of one
\* is not counted for the other.
LEMMA RunningRanStep ==
  ASSUME IInv, RunningRan, Infer
  PROVE  RunningRan'
  <1> SUFFICES ASSUME backend' = "external", NEW d \in Callers, caller'[d].at = "running"
               PROVE  ran'[caller'[d].request] = 1
    BY DEF RunningRan
  <1> USE DEF IInv
  <1>1. backend = "external"
    BY DEF Infer, Arrive, Replay, Reject, Claim, Run, Publish, Abort
  <1>2. ASSUME NEW c \in Callers, Run(c) PROVE ran'[caller'[d].request] = 1
    <2>1. caller[c].at = "claimed" /\ caller[c].request \in Requests /\ ran[caller[c].request] = 0
      BY <1>1, <1>2, CallerFacts DEF Run, RunsTraced
    <2>2. ran' = [ran EXCEPT ![caller[c].request] = 1]
      BY <1>2, <2>1 DEF Run, TypeOK
    <2>3. caller'[c].request = caller[c].request /\ \A e \in Callers \ {c} : caller'[e] = caller[e]
      BY <1>2 DEF Run, Goto, TypeOK
    <2>4. CASE d = c
      BY <2>1, <2>2, <2>3, <2>4 DEF TypeOK
    <2>5. CASE d # c
      <3>1. caller[d].at = "running" /\ caller[d].request \in Requests /\ ran[caller[d].request] = 1
        BY <1>1, <2>3, <2>5, CallerFacts DEF RunningRan
      <3>2. caller[d].request # caller[c].request
        BY <2>1, <2>5, <3>1 DEF HoldersDistinct, Holding, Pay
      <3> QED
        BY <2>2, <2>3, <2>5, <3>1, <3>2 DEF TypeOK
    <2> QED
      BY <2>4, <2>5
  <1>3. ASSUME ~\E c \in Callers : Run(c) PROVE ran'[caller'[d].request] = 1
    <2>1. ran' = ran
      BY <1>3 DEF Infer, Arrive, Replay, Reject, Claim, Publish, Abort
    <2>2. caller'[d] = caller[d]
      BY <1>3 DEF Infer, Arrive, Replay, Reject, Claim, Publish, Abort, Goto, Leave, NoCall, TypeOK
    <2> QED
      BY <1>1, <2>1, <2>2 DEF RunningRan
  <1> QED
    BY <1>2, <1>3

\* A step of either machine keeps the invariants of both.
LEMMA GInvNext == GInv /\ [GatewayNext]_gatewayVars => GInv'
  <1> SUFFICES ASSUME GInv, [GatewayNext]_gatewayVars PROVE GInv'
    OBVIOUS
  <1> USE DEF GInv
  <1>1. CASE Settle
    <2>1. S!Settle /\ SP!Next /\ UNCHANGED inferVars
      BY <1>1, SameSettlement DEF Settle, SP!Next
    <2>2. SP!IInv' /\ SP!PaperOnly'
      BY <2>1, SettlementLemmas
    <2>3. status \in [Payments -> Statuses]
      BY DEF IInv, TypeOK
    <2>4. /\ status' \in [Payments -> Statuses]
          /\ \A p \in Payments :
               status'[p] # status[p] => status[p] \notin {"settled", "consumed"} /\ status'[p] # "consumed"
      BY <2>1, <2>3, SettleSteps DEF Statuses
    <2>5. IInv'
      BY <2>1, <2>4, RowsIInv
    <2>6. RunningRan'
      BY <2>1 DEF RunningRan, inferVars
    <2> QED
      BY <2>2, <2>5, <2>6
  <1>2. CASE InferProven
    <2>1. IInv' /\ RunningRan'
      BY <1>2, NextIInv, RunningRanStep DEF InferProven, Next
    <2>2. [SP!Next]_SP!vars
      BY <1>2, InferConsumes DEF SP!Next
    <2> QED
      BY <2>1, <2>2, SettlementLemmas
  <1>3. CASE UNCHANGED gatewayVars
    <2>1. UNCHANGED vars /\ UNCHANGED SP!vars
      BY <1>3 DEF gatewayVars, settleVars, vars, SP!vars, SP!rowVars, SP!mandVars,
                  SP!chainVars, SP!envVars
    <2>2. IInv' /\ RunningRan'
      BY <2>1, StutterIInv DEF RunningRan, vars, inferVars
    <2> QED
      BY <2>1, <2>2, SettlementLemmas
  <1> QED
    BY <1>1, <1>2, <1>3 DEF GatewayNext

\* The invariant holds in every reachable state of the gateway.
THEOREM GatewayInvariance == GatewaySpec => []GInv
  <1> QED
    BY GInvInit, GInvNext, PTL DEF GatewaySpec

\* gateway.ts consumePayment: what inference does to a row is a step settlement
\* expects, so that every property of settlement holds in the gateway.
THEOREM SettlementKept == GatewaySpec => KeepsSettlement
  <1>1. GatewayInit => S!Init
    BY DEF GatewayInit
  <1>2. GInv /\ [GatewayNext]_gatewayVars => [S!Next]_S!vars
    <2> SUFFICES ASSUME GInv, [GatewayNext]_gatewayVars PROVE [S!Next]_S!vars
      OBVIOUS
    <2>1. CASE Settle
      BY <2>1 DEF Settle, S!Next
    <2>2. CASE InferProven
      <3>1. CASE UNCHANGED SP!vars
        BY <3>1 DEF SP!vars, SP!rowVars, SP!mandVars, SP!chainVars, SP!envVars,
                    S!vars, S!rowVars, S!mandVars, S!chainVars, S!envVars
      <3>2. ASSUME NEW p \in Payments, SP!Consume(p) PROVE S!Next
        BY <3>2, SameSettlement DEF S!Next
      <3> QED
        BY <2>2, <3>1, <3>2, InferConsumes
    <2>3. CASE UNCHANGED gatewayVars
      BY <2>3 DEF gatewayVars, settleVars, S!vars, S!rowVars, S!mandVars,
                  S!chainVars, S!envVars
    <2> QED
      BY <2>1, <2>2, <2>3 DEF GatewayNext
  <1> QED
    BY <1>1, <1>2, GatewayInvariance, PTL DEF GatewaySpec, KeepsSettlement, S!Spec

-----------------------------------------------------------------------------
(* Inference under settlement.                                             *)

\* What inference sees of a row tells settled and consumed from the rest.
LEMMA SeenFacts ==
  ASSUME IInv
  PROVE  \A p \in Payments : /\ Seen[p] = "settled" <=> status[p] = "settled"
                             /\ Seen[p] = "consumed" <=> status[p] = "consumed"
                             /\ Seen[p] \in {"open", "settled", "consumed"}
  BY DEF Seen

\* One row that settlement moves is, to inference, a payment that settles, or
\* nothing at all.
LEMMA SettleSeen ==
  ASSUME GInv, Settle
  PROVE  Observed!Next \/ UNCHANGED Observed!vars
  <1>1. S!Settle /\ UNCHANGED inferVars /\ status \in [Payments -> Statuses]
    BY DEF Settle, GInv, IInv, TypeOK
  <1>2. CASE status' = status
    BY <1>1, <1>2 DEF Observed!vars, Observed!inferVars, inferVars, Seen
  <1>3. ASSUME NEW p \in Payments,
               NEW next \in {"settling", "settlement_unknown", "settled", "failed"},
               status[p] \in {"open", "settling", "settlement_unknown"},
               status' = [status EXCEPT ![p] = next]
        PROVE  Observed!Next \/ UNCHANGED Observed!vars
    <2>1. CASE next = "settled"
      <3>1. Seen[p] = "open" /\ Seen' = [Seen EXCEPT ![p] = "settled"]
        BY <1>1, <1>3, <2>1 DEF Seen
      <3>2. Observed!PaymentSettled(p)
        BY <1>1, <3>1 DEF Observed!PaymentSettled, Observed!inferVars, inferVars
      <3> QED
        BY <3>2 DEF Observed!Next
    <2>2. CASE next # "settled"
      <3>1. Seen' = Seen
        BY <1>1, <1>3, <2>2 DEF Seen
      <3> QED
        BY <1>1, <3>1 DEF Observed!vars, Observed!inferVars, inferVars
    <2> QED
      BY <2>1, <2>2
  <1> QED
    BY <1>1, <1>2, <1>3, SettleSteps DEF GInv

\* Each step of inference is the same step on what it sees of the payments.
LEMMA InferSeen ==
  ASSUME IInv, Infer
  PROVE  Observed!Infer
  <1> USE DEF IInv
  <1>1. \A c \in Callers : /\ Observed!Pay(c) = Pay(c) /\ Observed!Key(c) = Key(c)
                           /\ Observed!Keyed(c) <=> Keyed(c)
                           /\ Observed!Cached(c) <=> Cached(c)
                           /\ Observed!Hit(c) <=> Hit(c)
                           /\ Observed!LocksFree(c) <=> LocksFree(c)
                           /\ Observed!Claimable(c) <=> Claimable(c)
    BY DEF Observed!Pay, Pay, Observed!Key, Key, Observed!Keyed, Keyed, Observed!Cached,
           Cached, Observed!Hit, Hit, Observed!SameBody, SameBody, Observed!LocksFree,
           LocksFree, Observed!KeyLocked, KeyLocked, Observed!RowLocked, RowLocked,
           Observed!Claimable, Claimable, Observed!NoExec, NoExec
  <1>2. ASSUME NEW c \in Callers, caller[c].at # "idle"
        PROVE  Observed!MayConsume(c) <=> MayConsume(c)
    <2>1. Pay(c) \in Payments
      BY <1>2, CallerFacts
    <2> QED
      BY <1>1, <2>1, SeenFacts DEF Observed!MayConsume, MayConsume
  <1>3. status' = status => Seen' = Seen
    BY DEF Seen
  <1>4. ASSUME NEW c \in Callers, NEW r \in Requests, Arrive(c, r) PROVE Observed!Arrive(c, r)
    BY <1>3, <1>4 DEF Arrive, Observed!Arrive
  <1>5. ASSUME NEW c \in Callers, Replay(c) PROVE Observed!Replay(c)
    BY <1>1, <1>3, <1>5 DEF Replay, Observed!Replay, Leave, Observed!Leave, NoCall, Observed!NoCall
  <1>6. ASSUME NEW c \in Callers, Reject(c) \/ Abort(c)
        PROVE  Observed!Reject(c) \/ Observed!Abort(c)
    BY <1>3, <1>6 DEF Reject, Abort, Observed!Reject, Observed!Abort, Leave, Observed!Leave,
                      NoCall, Observed!NoCall
  <1>7. ASSUME NEW c \in Callers, Claim(c) PROVE Observed!Claim(c)
    BY <1>1, <1>2, <1>3, <1>7 DEF Claim, Observed!Claim, Goto, Observed!Goto
  <1>8. ASSUME NEW c \in Callers, Run(c) PROVE Observed!Run(c)
    <2>1. caller[c].at # "idle"
      BY <1>8 DEF Run
    <2> QED
      BY <1>1, <1>2, <1>3, <1>8, <2>1 DEF Run, Observed!Run, Goto, Observed!Goto
  <1>9. ASSUME NEW c \in Callers, Publish(c) PROVE Observed!Publish(c)
    <2>1. Pay(c) \in Payments
      BY <1>9, CallerFacts DEF Publish
    <2>2. Seen' = [Seen EXCEPT ![Pay(c)] = "consumed"]
      BY <1>9, <2>1 DEF Publish, TypeOK, Seen
    <2>3. Complete(c) <=> Observed!Complete(c)
      BY <1>1 DEF Complete, Observed!Complete
    <2> QED
      BY <1>1, <1>9, <2>2, <2>3 DEF Publish, Observed!Publish, InsertReceipt,
         Observed!InsertReceipt, Leave, Observed!Leave, NoCall, Observed!NoCall
  <1> QED
    BY <1>4, <1>5, <1>6, <1>7, <1>8, <1>9 DEF Infer, Observed!Infer

\* gateway.ts infer: to inference a payment is settled once and for all,
\* whatever settlement retries, times out or records late, so that every
\* property of inference holds in the gateway.
THEOREM InferenceKept == GatewaySpec => KeepsInference
  <1>1. GatewayInit => Observed!Init
    BY DEF GatewayInit, S!Init, Seen, Observed!Init, InitInference, Observed!InitInference,
           Keys, Observed!Keys, NoExec, Observed!NoExec, NoCall, Observed!NoCall
  <1>2. GInv /\ [GatewayNext]_gatewayVars => [Observed!Next]_Observed!vars
    <2> SUFFICES ASSUME GInv, [GatewayNext]_gatewayVars PROVE [Observed!Next]_Observed!vars
      OBVIOUS
    <2>1. CASE Settle
      BY <2>1, SettleSeen
    <2>2. CASE InferProven
      BY <2>2, InferSeen DEF GInv, InferProven, Observed!Next
    <2>3. CASE UNCHANGED gatewayVars
      BY <2>3 DEF gatewayVars, inferVars, Seen, Observed!vars, Observed!inferVars
    <2> QED
      BY <2>1, <2>2, <2>3 DEF GatewayNext
  <1> QED
    BY <1>1, <1>2, GatewayInvariance, PTL DEF GatewaySpec, KeepsInference, Observed!Spec

-----------------------------------------------------------------------------
(* The promise to the client.                                              *)

RequestsFor(p) == {r \in Requests : PaymentOf[r] = p}

\* The requests of one payment reached the provider as often as one of them
\* did: no other request of it ever got there.
LEMMA OneDispatch ==
  ASSUME GInv, backend = "external", NEW c \in Callers
  PROVE  /\ caller[c].at = "claimed" => Dispatches(Pay(c)) = 0
         /\ caller[c].at = "running" => Dispatches(Pay(c)) = 1
  <1> SUFFICES ASSUME Holding(c)
               PROVE  Dispatches(Pay(c)) = ran[caller[c].request] /\ RunsTraced /\ RunningRan
    BY DEF GInv, IInv, RunsTraced, RunningRan, Holding
  <1> USE DEF GInv, IInv
  <1> DEFINE q == caller[c].request
             R == RequestsFor(Pay(c))
  <1>1. q \in Requests /\ q \in R /\ Pay(c) \in Payments
    BY CallerFacts DEF Holding, Pay, RequestsFor
  <1>2. IsFiniteSet(R) /\ \A r \in R : r \in Requests /\ ran[r] \in Int
    BY <1>1, GatewayAssumption DEF TypeOK, RequestsFor
  <1>3. \A r \in R : r # q => ran[r] = 0
    <2> SUFFICES ASSUME NEW r \in R, ran[r] # 0 PROVE r = q
      OBVIOUS
    <2>1. r \in Requests /\ PaymentOf[r] = Pay(c) /\ exec[PaymentOf[r]].request = r
      BY <1>2 DEF RequestsFor, RunsTraced
    <2> QED
      BY <2>1 DEF HoldersHaveClaims
  <1>4. Sum(ran, R) = ran[q] + Sum(ran, R \ {q})
    BY <1>1, <1>2, SumWithout
  <1>5. IsFiniteSet(R \ {q}) /\ \A r \in R \ {q} : ran[r] = 0
    BY <1>2, <1>3, FS_Subset
  <1>6. Sum(ran, R \ {q}) = 0
    BY <1>5, SumOfZeros
  <1> QED
    BY <1>1, <1>2, <1>4, <1>6 DEF Dispatches, RequestsFor

\* A run is counted for its payment and for no other.
LEMMA RunCounts ==
  ASSUME GInv, backend = "external", NEW c \in Callers, Run(c), NEW p, p = Pay(c)
  PROVE  /\ p \in Payments /\ Dispatches(p) = 0 /\ Dispatches(p)' = 1
         /\ \A o \in Payments : o # p => Dispatches(o)' = Dispatches(o)
  <1> USE DEF GInv, IInv
  <1>0. PICK q : q = caller[c].request
    OBVIOUS
  <1>1. caller[c].at = "claimed" /\ q \in Requests /\ p \in Payments /\ PaymentOf[q] = p
    BY <1>0, CallerFacts DEF Run, Pay
  <1>2. Dispatches(p) = 0 /\ ran[q] = 0
    BY <1>0, <1>1, OneDispatch DEF RunsTraced
  <1>3. ran' = [ran EXCEPT ![q] = 1]
    BY <1>0, <1>1, <1>2 DEF Run, TypeOK
  <1>4. \A o \in Payments : IsFiniteSet(RequestsFor(o)) /\ RequestsFor(o) \subseteq Requests
    BY GatewayAssumption DEF RequestsFor
  <1>5. \A r \in Requests : ran[r] \in Int /\ ran'[r] = IF r = q THEN 1 ELSE ran[r]
    BY <1>1, <1>3 DEF TypeOK
  <1>6. ASSUME NEW o \in Payments, o # p PROVE Dispatches(o)' = Dispatches(o)
    <2>1. \A r \in RequestsFor(o) : ran'[r] = ran[r]
      BY <1>1, <1>4, <1>5, <1>6 DEF RequestsFor
    <2>2. Sum(ran', RequestsFor(o)) = Sum(ran, RequestsFor(o))
      BY <1>4, <2>1, SumSame
    <2> QED
      BY <2>2 DEF Dispatches, RequestsFor
  <1>7. Dispatches(p)' = 1
    <2> DEFINE R == RequestsFor(p)
    <2>1. q \in R
      BY <1>1 DEF RequestsFor
    <2>2. Sum(ran', R) = Sum(ran, R) - ran[q] + ran'[q]
      <3>1. IsFiniteSet(R) /\ (\A r \in R : ran[r] \in Int) /\ ran'[q] \in Int
            /\ \A r \in R : r # q => ran'[r] = ran[r]
        BY <1>1, <1>4, <1>5
      <3> HIDE DEF R
      <3> QED
        BY <2>1, <3>1, SumUpdate
    <2>3. Sum(ran, R) = 0
      BY <1>2 DEF Dispatches, RequestsFor
    <2>4. Sum(ran', R) = 1
      BY <1>1, <1>2, <1>5, <2>2, <2>3
    <2> QED
      BY <2>4 DEF Dispatches, RequestsFor
  <1> QED
    BY <1>1, <1>2, <1>6, <1>7

\* The refinement mapping, component by component.
runs == [p \in Payments |-> Dispatches(p)]
stages == [p \in Payments |-> StageOf(p)]
payers == {p \in Payments : S!Debited(p)}

\* A stage follows from the status of the row.
LEMMA StageFacts ==
  ASSUME IInv, NEW p \in Payments
  PROVE  /\ StageOf(p) = "accepted" <=> status[p] = "settled"
         /\ StageOf(p) = "pending" <=> status[p] \in {"open", "settling", "settlement_unknown"}
         /\ StageOf(p) = "served" <=> status[p] = "consumed"
         /\ StageOf(p) = "failed" <=> status[p] = "failed"
  BY DEF IInv, TypeOK, Statuses, StageOf

\* Settlement debits a payer, accepts a payment whose payer was debited,
\* declares one failed, or does what no client sees.
LEMMA SettlePromised ==
  ASSUME GInv, GInv', Settle
  PROVE  Promise!Next \/ UNCHANGED Promise!vars
  <1> DEFINE paper == deployed = "simulated"
  <1>1. S!Settle /\ UNCHANGED inferVars /\ SP!Next
    BY SameSettlement DEF Settle, SP!Next
  <1>2. UNCHANGED <<deployed, runs>>
    <2>1. deployed' = deployed
      BY <1>1, SettlementLemmas DEF GInv
    <2>2. ran' = ran
      BY <1>1 DEF inferVars
    <2> QED
      BY <2>1, <2>2 DEF runs, Dispatches
  <1>3. CASE status' = status
    <2>1. UNCHANGED stages
      BY <1>3 DEF stages, StageOf
    <2>2. CASE \A p \in Payments : S!Debited(p)' <=> S!Debited(p)
      <3>1. UNCHANGED payers
        BY <2>2 DEF payers
      <3> QED
        BY <1>2, <2>1, <3>1 DEF Promise!vars, runs, stages, payers
    <2>3. ASSUME NEW p \in Payments, ~S!Debited(p), S!Debited(p)',
                 \A q \in Payments \ {p} : S!Debited(q)' <=> S!Debited(q)
          PROVE  Promise!Next
      <3>1. p \notin payers /\ payers' = payers \cup {p}
        BY <2>3 DEF payers
      <3>2. Promise!Charge(p)
        BY <1>2, <2>1, <3>1 DEF Promise!Charge, runs, stages, payers
      <3> QED
        BY <3>2 DEF Promise!Next
    <2> QED
      BY <1>1, <2>2, <2>3, SettleSteps DEF GInv
  <1>4. ASSUME NEW p \in Payments,
               NEW next \in {"settling", "settlement_unknown", "settled", "failed"},
               status[p] \in {"open", "settling", "settlement_unknown"},
               status' = [status EXCEPT ![p] = next], status' # status
        PROVE  Promise!Next \/ UNCHANGED Promise!vars
    <2>1. \A q \in Payments : S!Debited(q)' <=> S!Debited(q)
      BY <1>1, <1>4, SettleSteps DEF GInv
    <2>2. UNCHANGED payers
      BY <2>1 DEF payers
    <2>3. status \in [Payments -> Statuses]
      BY DEF GInv, IInv, TypeOK
    <2>4. \A q \in Payments : q # p => StageOf(q)' = StageOf(q)
      BY <1>4, <2>3 DEF StageOf
    <2>5. StageOf(p) = "pending"
      BY <1>4 DEF StageOf
    <2>6. CASE next = "settled"
      <3>1. StageOf(p)' = "accepted"
        BY <1>4, <2>3, <2>6 DEF StageOf
      <3>2. stages' = [stages EXCEPT ![p] = "accepted"]
        BY <2>4, <3>1 DEF stages
      <3>3. deployed = "simulated" \/ S!Debited(p)
        <4>1. SP!PInv(p)' /\ SP!PaperOnly' /\ status'[p] = "settled"
          BY <1>4, <2>3, <2>6 DEF GInv, SP!IInv
        <4>2. deployed' = "simulated" \/ SP!Debited(p)'
          BY <4>1 DEF SP!PInv, SP!Accepted, SP!PaperOnly
        <4>3. SP!Debited(p)' => S!Debited(p)'
          BY DEF S!Debited, SP!Debited
        <4> QED
          BY <1>2, <2>1, <4>2, <4>3
      <3>4. Promise!Accept(p)
        BY <1>2, <2>2, <2>5, <3>2, <3>3 DEF Promise!Accept, runs, stages, payers
      <3> QED
        BY <3>4 DEF Promise!Next
    <2>7. CASE next = "failed"
      <3>1. StageOf(p)' = "failed"
        BY <1>4, <2>3, <2>7 DEF StageOf
      <3>2. stages' = [stages EXCEPT ![p] = "failed"]
        BY <2>4, <3>1 DEF stages
      <3>3. Promise!Fail(p)
        BY <1>2, <2>2, <2>5, <3>2 DEF Promise!Fail, runs, stages, payers
      <3> QED
        BY <3>3 DEF Promise!Next
    <2>8. CASE next \in {"settling", "settlement_unknown"}
      <3>1. StageOf(p)' = "pending"
        BY <1>4, <2>3, <2>8 DEF StageOf
      <3>2. UNCHANGED stages
        BY <2>4, <2>5, <3>1 DEF stages
      <3> QED
        BY <1>2, <2>2, <3>2 DEF Promise!vars, runs, stages, payers
    <2> QED
      BY <2>6, <2>7, <2>8
  <1> QED
    BY <1>1, <1>3, <1>4, SettleSteps DEF GInv

\* Inference dispatches an accepted payment that was not dispatched, serves one
\* that was, or does what the promise does not mention.
LEMMA InferPromised ==
  ASSUME GInv, backend = "external", InferProven
  PROVE  Promise!Next \/ UNCHANGED Promise!vars
  <1>1. Infer /\ UNCHANGED <<deployed, meter, auth>>
    BY DEF InferProven, settleVars
  <1>2. UNCHANGED <<deployed, payers>>
    BY <1>1 DEF payers, S!Debited
  <1>3. ASSUME NEW c \in Callers, Run(c) PROVE Promise!Next
    <2>0. PICK p : p = Pay(c)
      OBVIOUS
    <2>1. /\ p \in Payments /\ Dispatches(p) = 0 /\ Dispatches(p)' = 1
          /\ \A o \in Payments : o # p => Dispatches(o)' = Dispatches(o)
      BY <1>3, <2>0, RunCounts
    <2>2. runs[p] = 0 /\ runs' = [runs EXCEPT ![p] = 1]
      BY <2>1 DEF runs
    <2>3. status[p] = "settled" /\ status' = status
      BY <1>3, <2>0 DEF Run, MayConsume
    <2>4. stages[p] = "accepted" /\ UNCHANGED stages
      BY <2>1, <2>3 DEF stages, StageOf
    <2>5. Promise!Dispatch(p)
      BY <1>2, <2>2, <2>4 DEF Promise!Dispatch, runs, stages, payers
    <2> QED
      BY <2>1, <2>5 DEF Promise!Next
  <1>4. ASSUME NEW c \in Callers, Publish(c) PROVE Promise!Next
    <2>0. PICK p : p = Pay(c)
      OBVIOUS
    <2>1. /\ caller[c].at = "running" /\ status' = [status EXCEPT ![p] = "consumed"]
          /\ ran' = ran
      BY <1>4, <2>0 DEF Publish
    <2>2. p \in Payments /\ status[p] = "settled" /\ status \in [Payments -> Statuses]
      BY <2>0, <2>1, CallerFacts DEF GInv, IInv, RunningSettled, TypeOK
    <2>3. StageOf(p) = "accepted" /\ StageOf(p)' = "served"
      BY <2>1, <2>2 DEF StageOf
    <2>4. \A o \in Payments : o # p => StageOf(o)' = StageOf(o)
      BY <2>1, <2>2 DEF StageOf
    <2>5. stages[p] = "accepted" /\ stages' = [stages EXCEPT ![p] = "served"]
      BY <2>2, <2>3, <2>4 DEF stages
    <2>6. runs[p] = 1 /\ UNCHANGED runs
      BY <2>0, <2>1, <2>2, OneDispatch DEF runs, Dispatches
    <2>7. Promise!Serve(p)
      BY <1>2, <2>5, <2>6 DEF Promise!Serve, runs, stages, payers
    <2> QED
      BY <2>2, <2>7 DEF Promise!Next
  <1>5. CASE ~\E c \in Callers : Run(c) \/ Publish(c)
    <2>1. ran' = ran /\ status' = status
      BY <1>1, <1>5 DEF Infer, Arrive, Replay, Reject, Claim, Abort
    <2>2. UNCHANGED <<runs, stages>>
      BY <2>1 DEF runs, Dispatches, stages, StageOf
    <2> QED
      BY <1>2, <2>2 DEF Promise!vars, runs, stages, payers
  <1> QED
    BY <1>3, <1>4, <1>5

\* gateway.ts settlePayment, infer: with an external provider, a payment is
\* accepted only when its payer is debited (or nothing is charged at all),
\* reaches the provider once, and is served once, by that call.
THEOREM PromiseKept ==
  ASSUME Backends = {"external"}
  PROVE  GatewaySpec => KeepsPromise
  <1> DEFINE External == backend = "external"
  <1>1. GatewayInit => Promise!Init /\ External
    <2> SUFFICES ASSUME GatewayInit PROVE Promise!Init /\ External
      OBVIOUS
    <2> USE DEF GatewayInit, S!Init, InitInference
    <2>1. payers = {}
      BY DEF payers, S!Debited
    <2>2. stages = [p \in Payments |-> "pending"]
      BY DEF stages, StageOf
    <2>3. ASSUME NEW p \in Payments PROVE Dispatches(p) = 0
      <3>1. IsFiniteSet(RequestsFor(p)) /\ \A r \in RequestsFor(p) : ran[r] = 0
        BY GatewayAssumption DEF RequestsFor
      <3>2. Sum(ran, RequestsFor(p)) = 0
        BY <3>1, SumOfZeros
      <3> QED
        BY <3>2 DEF Dispatches, RequestsFor
    <2>4. runs = [p \in Payments |-> 0]
      BY <2>3 DEF runs
    <2> QED
      BY <2>1, <2>2, <2>4 DEF Promise!Init, runs, stages, payers
  <1>2. External /\ [GatewayNext]_gatewayVars => External'
    BY DEF GatewayNext, Settle, InferProven, gatewayVars, inferVars, Infer, Arrive, Replay,
           Reject, Claim, Run, Publish, Abort
  <1>3. GInv /\ GInv' /\ External /\ [GatewayNext]_gatewayVars => [Promise!Next]_Promise!vars
    <2> SUFFICES ASSUME GInv, GInv', External, [GatewayNext]_gatewayVars
                 PROVE  [Promise!Next]_Promise!vars
      OBVIOUS
    <2>1. CASE Settle
      BY <2>1, SettlePromised
    <2>2. CASE InferProven
      BY <2>2, InferPromised
    <2>3. CASE UNCHANGED gatewayVars
      BY <2>3 DEF gatewayVars, settleVars, inferVars, Promise!vars, S!Debited, Dispatches, StageOf
    <2> QED
      BY <2>1, <2>2, <2>3 DEF GatewayNext
  <1> HIDE DEF External
  <1> QED
    BY <1>1, <1>2, <1>3, GatewayInvariance, PTL DEF GatewaySpec, KeepsPromise, Promise!Spec
=============================================================================
