-------------------------- MODULE ProviderReadiness --------------------------
(***************************************************************************)
(* The readiness the gateway reports of its provider (gateway.ts, provider-*)
(* Preflight and assertNewPaymentAdmission): overlapping checks, failures  *)
(* of inference and rejections of the policy all write one flag, and the   *)
(* number of the attempt decides whose success counts.                     *)
(***************************************************************************)
EXTENDS Naturals

CONSTANTS Checks  \* admissions that check the provider

VARIABLES ready,    \* providerAdmissionReady
          preflightAttempt,  \* providerPreflightAttempt
          check,    \* each check: progress, and the attempt it is
          stale     \* history: checks something newer was observed after

readinessVars == <<ready, preflightAttempt, check, stale>>

ReadinessTypeOK ==
    /\ ready \in BOOLEAN /\ preflightAttempt \in Nat
    /\ check \in [Checks -> [at : {"none", "running", "succeeded", "failed"}, number : Nat]]
    /\ stale \subseteq Checks

ReadinessInit ==
    /\ ready = FALSE /\ preflightAttempt = 0 /\ stale = {}
    /\ check = [k \in Checks |-> [at |-> "none", number |-> 0]]

Started == {k \in Checks : check[k].at # "none"}
Ended(k, how) == check' = [check EXCEPT ![k].at = how]

\* providerPreflight asks the provider for its evidence.
StartCheck(k) ==
    /\ check[k].at = "none"
    /\ preflightAttempt' = preflightAttempt + 1 /\ ready' = FALSE
    /\ check' = [check EXCEPT ![k] = [at |-> "running", number |-> preflightAttempt + 1]]
    /\ stale' = stale \cup Started

\* (mutant) whichever check succeeds opens admission
NewestAny(k) == check[k].number > 0

Newest(k) == check[k].number = preflightAttempt

CheckSucceeds(k) ==
    /\ check[k].at = "running" /\ Ended(k, "succeeded")
    /\ ready' = (ready \/ Newest(k))
    /\ UNCHANGED <<preflightAttempt, stale>>

\* A failed check closes admission, and what succeeded before it is old.
CheckFails(k) ==
    /\ check[k].at = "running" /\ Ended(k, "failed")
    /\ ready' = FALSE
    /\ stale' = stale \cup {j \in Started : check[j].at # "running"}
    /\ UNCHANGED preflightAttempt

\* The policy is rejected at an admission, or an inference finds the
\* provider's evidence invalid: older checks that still run are fenced.
Rejected ==
    /\ preflightAttempt' = preflightAttempt + 1 /\ ready' = FALSE
    /\ stale' = stale \cup Started
    /\ UNCHANGED check

ReadinessNext(checks) == \E k \in checks : StartCheck(k) \/ CheckSucceeds(k) \/ CheckFails(k)

\* The gateway is ready only on a check that succeeded and that no newer
\* check, failure or rejection was observed after.
ReadinessFresh == ready => \E k \in Checks : check[k].at = "succeeded" /\ k \notin stale
==============================================================================
