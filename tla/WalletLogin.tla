----------------------------- MODULE WalletLogin -----------------------------
(***************************************************************************)
(* The login store of the gateway (wallet-auth.ts): challenges a wallet    *)
(* signs, sessions issued for them, and the requests that verify, resume   *)
(* and revoke.  A transaction of PostgreSQL is the steps between which     *)
(* others run: consume deletes the challenge (its row stays locked until   *)
(* the end), waits for the advisory lock of the address, then counts and   *)
(* inserts.  A token is named by the verification it is the result of.     *)
(***************************************************************************)
EXTENDS Naturals, FiniteSets

CONSTANTS Addresses,       \* accounts that sign in
          Challenges,      \* challenges that may be issued
          Copies,          \* executions of verify with one challenge
          Old,             \* the token of a session of an earlier visit
          None,
          ChallengeLimit,  \* open challenges of an address (5 in the code)
          SessionLimit     \* sessions of an address (10 in the code)

ASSUME LimitsAssumption == ChallengeLimit \in Nat \ {0} /\ SessionLimit \in Nat \ {0}

VARIABLES challenges,  \* wallet_login_challenges: the address, and the row's status
          verifying,   \* progress of each execution of verify
          sessions     \* wallet_login_sessions: the address, and the row's status

loginVars == <<challenges, verifying, sessions>>

Verifications == Challenges \X Copies
Tokens == Verifications \cup {Old}

\* "deleted" and "locked" are inside the transaction of consume.
Steps == {"none", "sent", "checked", "deleted", "locked", "issued", "refused", "over"}

LoginTypeOK ==
    /\ challenges \in [Challenges -> [address : Addresses \cup {None}, status : {"none", "open", "gone"}]]
    /\ verifying \in [Verifications -> Steps]
    /\ sessions \in [Tokens -> [address : Addresses \cup {None}, status : {"none", "active", "revoked", "expired"}]]

NoSession == [address |-> None, status |-> "none"]

LoginInit(owner) ==
    /\ challenges = [i \in Challenges |-> [address |-> None, status |-> "none"]]
    /\ verifying = [v \in Verifications |-> "none"]
    /\ sessions = [t \in Tokens |-> IF t = Old /\ owner # None
                                    THEN [address |-> owner, status |-> "active"] ELSE NoSession]

AddressOf(v) == challenges[v[1]].address
InConsume(v) == verifying[v] \in {"deleted", "locked"}
SessionsOf(a) == {t \in Tokens : sessions[t].status = "active" /\ sessions[t].address = a}
OpenChallengesOf(a) == {i \in Challenges : challenges[i].status = "open" /\ challenges[i].address = a}

\* put, under the advisory lock of the address and the client.
Put(i, a) ==
    /\ challenges[i].status = "none"
    /\ Cardinality(OpenChallengesOf(a)) < ChallengeLimit
    /\ challenges' = [challenges EXCEPT ![i] = [address |-> a, status |-> "open"]]
    /\ UNCHANGED <<verifying, sessions>>

Becomes(v, step) == verifying' = [verifying EXCEPT ![v] = step]

\* get, and the checks of the message and the signature.
Check(v) ==
    /\ verifying[v] = "sent"
    /\ Becomes(v, IF challenges[v[1]].status = "open" THEN "checked" ELSE "refused")
    /\ UNCHANGED <<challenges, sessions>>

\* The row is locked until the transaction that deleted it ends.
RowFree(v) == \A w \in Verifications : w[1] = v[1] => ~InConsume(w)

Delete(v) ==
    /\ verifying[v] = "checked" /\ RowFree(v)
    /\ Becomes(v, IF challenges[v[1]].status = "open" THEN "deleted" ELSE "refused")
    /\ UNCHANGED <<challenges, sessions>>

\* (mutant) the advisory lock is taken on the challenge, not on the address
LockFreePerChallenge(v) == \A w \in Verifications : w[1] = v[1] => verifying[w] # "locked"

LockFree(v) == \A w \in Verifications : AddressOf(w) = AddressOf(v) => verifying[w] # "locked"

\* The count and the insert are statements of their own: what the count saw
\* may be out of date at the insert, unless the lock excludes it.
Counted(v) == Cardinality(SessionsOf(AddressOf(v)))

Lock(v) ==
    /\ verifying[v] = "deleted" /\ LockFree(v)
    /\ IF Counted(v) < SessionLimit
       THEN Becomes(v, "locked")
       ELSE Becomes(v, "refused")        \* the transaction rolls back
    /\ UNCHANGED <<challenges, sessions>>

Insert(v) ==
    /\ verifying[v] = "locked"
    /\ Becomes(v, "issued")
    /\ challenges' = [challenges EXCEPT ![v[1]].status = "gone"]
    /\ sessions' = [sessions EXCEPT ![v] = [address |-> AddressOf(v), status |-> "active"]]

\* The database fails, or the process dies: the challenge is there again.
ConsumeFails(v) ==
    /\ verifying[v] \in {"sent", "checked", "deleted", "locked"}
    /\ Becomes(v, "refused")
    /\ UNCHANGED <<challenges, sessions>>

Verify(v) == Check(v) \/ Delete(v) \/ Lock(v) \/ Insert(v)

\* A row that transactions hold cannot be deleted by another.
ExpireChallenge(i) ==
    /\ challenges[i].status = "open"
    /\ \A v \in Verifications : v[1] = i => ~InConsume(v)
    /\ challenges' = [challenges EXCEPT ![i].status = "gone"]
    /\ UNCHANGED <<verifying, sessions>>

ExpireSession(t) ==
    /\ sessions[t].status = "active"
    /\ sessions' = [sessions EXCEPT ![t].status = "expired"]
    /\ UNCHANGED <<challenges, verifying>>

Revoked(t) ==
    IF t \in Tokens /\ sessions[t].status = "active"
    THEN [sessions EXCEPT ![t].status = "revoked"] ELSE sessions

Resumes(t, a) == t \in Tokens /\ sessions[t].status = "active" /\ sessions[t].address = a
==============================================================================
