----------------------------- MODULE TcbLifecycle ----------------------------
(***************************************************************************)
(* The software policy the gateway serves (tcb-lifecycle.ts): versions are *)
(* proposed, approved by the registry and activated, each mutation in a    *)
(* transaction that holds an exclusive advisory lock; an activation asks   *)
(* the chain while it holds it.  Publications hold the same lock shared    *)
(* (assertCurrentTcb), from their check of the policy to their commit.     *)
(*                                                                         *)
(* A repeated call whose idempotency key is on a row changes nothing and   *)
(* is left out.  approved is the registry's, as the gateway reads it:      *)
(* policy, model and code approved together, and not revoked.              *)
(***************************************************************************)
EXTENDS Naturals, FiniteSets

CONSTANTS MaxVersion,  \* bound: versions of the policy
          Bootstrap,   \* the version of the configuration
          Admins       \* concurrent calls of activate

ASSUME TcbAssumption == MaxVersion \in Nat /\ Bootstrap \in 1 .. MaxVersion

VARIABLES policies,    \* tcb_policy: the status of each version, "none" without a row
          approved,    \* versions the registry approves
          admin        \* calls of activate: the version, and the progress

tcbVars == <<policies, approved, admin>>

PolicyVersions == 1 .. MaxVersion
NoActivation == [at |-> "idle", version |-> 0]

TcbTypeOK ==
    /\ policies \in [PolicyVersions -> {"none", "pending", "active", "retired"}]
    /\ approved \subseteq PolicyVersions
    /\ admin \in [Admins -> [at : {"idle", "asking", "allowed"}, version : 0 .. MaxVersion]]

TcbInit ==
    /\ policies = [v \in PolicyVersions |-> "none"]
    /\ approved = {Bootstrap}
    /\ admin = [m \in Admins |-> NoActivation]

ActiveVersions == {v \in PolicyVersions : policies[v] = "active"}
Current(v) == ActiveVersions = {v}

ExclusiveHeld == \E m \in Admins : admin[m].at # "idle"

\* initialize: without an active policy the configured one becomes it.
Initialize(shared) ==
    /\ ~shared /\ ~ExclusiveHeld
    /\ ActiveVersions = {} /\ "retired" \notin {policies[v] : v \in PolicyVersions}
    /\ policies' = [policies EXCEPT ![Bootstrap] = "active"]
    /\ UNCHANGED <<approved, admin>>

\* propose, of a version above the active one that has no row.
Propose(shared, v) ==
    /\ ~shared /\ ~ExclusiveHeld
    /\ policies[v] = "none" /\ \E w \in ActiveVersions : Current(w) /\ w < v
    /\ policies' = [policies EXCEPT ![v] = "pending"]
    /\ UNCHANGED <<approved, admin>>

\* activate: the lock, the rows and their checks; expected is the version
\* the administrator saw.
BeginActivation(shared, m, v, expected) ==
    /\ admin[m].at = "idle" /\ ~shared /\ ~ExclusiveHeld
    /\ Current(expected) /\ expected < v /\ policies[v] = "pending"
    /\ admin' = [admin EXCEPT ![m] = [at |-> "asking", version |-> v]]
    /\ UNCHANGED <<policies, approved>>

AskRegistry(m) ==
    /\ admin[m].at = "asking"
    /\ admin' = [admin EXCEPT ![m] = IF @.version \in approved THEN [@ EXCEPT !.at = "allowed"] ELSE NoActivation]
    /\ UNCHANGED <<policies, approved>>

\* Both updates commit together.
Activate(m) ==
    /\ admin[m].at = "allowed"
    /\ policies' = [v \in PolicyVersions |->
                      IF v = admin[m].version THEN "active"
                      ELSE IF policies[v] = "active" THEN "retired" ELSE policies[v]]
    /\ admin' = [admin EXCEPT ![m] = NoActivation]
    /\ UNCHANGED approved

\* A read fails or the process ends: the transaction rolls back.
ActivationFails(m) ==
    /\ admin[m].at # "idle"
    /\ admin' = [admin EXCEPT ![m] = NoActivation]
    /\ UNCHANGED <<policies, approved>>

\* The registry approves a proposed policy's listing, or revokes a listing.
Approve(v) ==
    /\ policies[v] = "pending" /\ approved' = approved \cup {v}
    /\ UNCHANGED <<policies, admin>>

Revoke(v) ==
    /\ policies[v] # "none" /\ approved' = approved \ {v}
    /\ UNCHANGED <<policies, admin>>

TcbNext(shared, admins) ==
    \/ Initialize(shared)
    \/ admins # {} /\ \E v \in PolicyVersions : Propose(shared, v) \/ Approve(v) \/ Revoke(v)
    \/ \E m \in admins :
         \/ AskRegistry(m) \/ Activate(m) \/ ActivationFails(m)
         \/ \E v, expected \in PolicyVersions : BeginActivation(shared, m, v, expected)
==============================================================================
