------------------------------- MODULE Serving -------------------------------
(***************************************************************************)
(* Paid inference under a software policy: the executions of infer, the    *)
(* activations of policies they race with, and the readiness the failures  *)
(* of both close.  A request names a session, which was opened under one   *)
(* version of the policy and is refused under any other.                   *)
(***************************************************************************)
EXTENDS InferenceExecution, TcbLifecycle, ProviderReadiness

CONSTANTS SessionUnder, \* request -> the version its session was opened under
          MaxAttempts,  \* bound: attempts to reach the provider
          Scenes        \* bound: what happens in one behaviour, each of
                        \* [requests, admins, checks]; no administrator: the
                        \* policy stays as it was configured

ASSUME SessionAssumption ==
    /\ SessionUnder \in [Requests -> PolicyVersions]
    /\ Scenes \subseteq [requests : SUBSET Requests, admins : SUBSET Admins, checks : SUBSET Checks]

VARIABLES fence, \* publications: the policy is checked, then the approval
          scene  \* the one of Scenes

servingVars == <<vars, tcbVars, readinessVars, fence, scene>>

Under(c) == SessionUnder[caller[c].request]

ServingInit ==
    /\ Init /\ TcbInit /\ ReadinessInit
    /\ fence = [c \in Callers |-> "none"]
    /\ scene \in Scenes

\* (mutant) the check of the policy takes no lock
SharedNever == \A c \in Callers : fence[c] \notin {"none", "current", "approved"}

SharedHeld == \E c \in Callers : fence[c] # "none"

\* assertCurrentTcb, in a transaction that ends with the step.
Admitted(c) == ~ExclusiveHeld /\ Current(Under(c))

Unfenced == UNCHANGED <<tcbVars, fence>>
Untouched == Unfenced /\ UNCHANGED readinessVars

Enter(c, r) == Arrive(c, r) /\ Current(SessionUnder[r]) /\ SessionUnder[r] \in approved /\ Untouched
Repeat(c) == Replay(c) /\ Admitted(c) /\ Untouched
Refuse(c) == Reject(c) /\ Untouched
Dispatch(c) == Claim(c) /\ Admitted(c) /\ Under(c) \in approved /\ Untouched
Execute(c) == Run(c) /\ Untouched

\* The provider has answered: the policy is still current, and stays so until
\* the transaction ends.
Fence(c) ==
    /\ caller[c].at = "running" /\ fence[c] = "none" /\ Admitted(c)
    /\ fence' = [fence EXCEPT ![c] = "current"]
    /\ UNCHANGED <<vars, tcbVars, readinessVars>>

\* assertServingApproved asks the registry once more.
Reapprove(c) ==
    /\ fence[c] = "current" /\ Under(c) \in approved
    /\ fence' = [fence EXCEPT ![c] = "approved"]
    /\ UNCHANGED <<vars, tcbVars, readinessVars>>

Commit(c) ==
    /\ fence[c] = "approved" /\ Publish(c)
    /\ fence' = [fence EXCEPT ![c] = "none"]
    /\ UNCHANGED <<tcbVars, readinessVars>>

\* Any failure; that of the provider's evidence closes admission as well.
Fails(c) ==
    /\ Abort(c)
    /\ fence' = [fence EXCEPT ![c] = "none"]
    /\ \/ caller[c].at = "running" /\ fence[c] = "none" /\ scene.checks # {} /\ preflightAttempt < MaxAttempts /\ Rejected
       \/ UNCHANGED readinessVars
    /\ UNCHANGED tcbVars

\* assertNewPaymentAdmission: syncTcb fails, because the active policy is not
\* approved any more or because it, or the registry, could not be read.
AdmissionRejected ==
    /\ scene.checks # {} /\ preflightAttempt < MaxAttempts
    /\ Rejected
    /\ UNCHANGED <<vars, tcbVars, fence>>

ServingNext ==
    /\ \/ \E c \in Callers :
            \/ \E r \in scene.requests : Enter(c, r)
            \/ Repeat(c) \/ Refuse(c) \/ Dispatch(c) \/ Execute(c)
            \/ Fence(c) \/ Reapprove(c) \/ Commit(c) \/ Fails(c)
       \/ (\E r \in scene.requests : PaymentSettled(PaymentOf[r])) /\ Untouched
       \/ TcbNext(SharedHeld, scene.admins) /\ UNCHANGED <<vars, readinessVars, fence>>
       \/ ReadinessNext(scene.checks) /\ UNCHANGED <<vars, tcbVars, fence>>
       \/ AdmissionRejected
    /\ UNCHANGED scene

ServingSpec == ServingInit /\ [][ServingNext]_servingVars

\* "A request started under the old policy cannot publish a receipt or commit
\* payment consumption after activation" (docs/tcb-policy-lifecycle.md): a
\* receipt is committed, and an answer given, while the policy of its session
\* is the only active one.
ServedByActivePolicy ==
    [][\A c \in Callers :
         caller[c].at # "idle" /\ <<receipts, answered, status>>' # <<receipts, answered, status>> /\ caller'[c].at = "idle"
           => Current(Under(c))]_servingVars
==============================================================================
