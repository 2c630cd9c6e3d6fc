------------------------- MODULE WalletSessionProofs -------------------------
(***************************************************************************)
(* SessionsLimited and TokenMatchesWallet, proved for any accounts,        *)
(* limits, clicks and budgets.                                             *)
(*                                                                         *)
(* The first is about the transaction of consume. A challenge whose row is *)
(* held is open, and held by one verification (the row lock); the count    *)
(* stays below the limit for as long as the advisory lock of the address   *)
(* is held (nobody else inserts for it, and the rest only ends sessions);  *)
(* and a challenge that gave a session is gone. What the wallet and the    *)
(* page do is irrelevant, except through the steps of the login store they *)
(* take: the first lemma is that there are no others.                      *)
(*                                                                         *)
(* The second is about what an attempt, started for one account, finds     *)
(* when its answers come. Every change of the connection ends the active   *)
(* attempt, so that a challenge, a signature and a token are still for the *)
(* account that is connected (Fits); and an event or a pending read always *)
(* stands between the wallet's selection and a connection that differs     *)
(* from it (EventsCatchUp).                                                *)
(***************************************************************************)
EXTENDS WalletSession, FiniteSetTheorems, TLAPS

\* A verification moves outside the transaction of consume, or leaves it.
MovesOutside(v, step) ==
  step \notin {"deleted", "locked", "issued"} /\ Becomes(v, step) /\ UNCHANGED <<challenges, sessions>>

LogsOut(t) == sessions' = Revoked(t) /\ UNCHANGED <<challenges, verifying>>

\* What a step may do to the login store.
LoginStep ==
  \/ UNCHANGED loginVars
  \/ \E i, a : Put(i, a)
  \/ \E v, step : MovesOutside(v, step)
  \/ \E v \in Verifications : Delete(v) \/ Lock(v) \/ Insert(v)
  \/ \E i \in Challenges : ExpireChallenge(i)
  \/ \E t \in Tokens : ExpireSession(t)
  \/ \E t : LogsOut(t)

LShape ==
  /\ DOMAIN challenges = Challenges /\ challenges = [i \in Challenges |-> challenges[i]]
  /\ \A i \in Challenges :
       challenges[i] = [address |-> challenges[i].address, status |-> challenges[i].status]
  /\ DOMAIN verifying = Verifications /\ verifying = [v \in Verifications |-> verifying[v]]
  /\ DOMAIN sessions = Tokens /\ sessions = [t \in Tokens |-> sessions[t]]
  /\ \A t \in Tokens :
       sessions[t] = [address |-> sessions[t].address, status |-> sessions[t].status]

\* The row lock of a challenge, and what it protects.
RowLock ==
  /\ \A v \in Verifications : InConsume(v) => challenges[v[1]].status = "open"
  /\ \A v, w \in Verifications : InConsume(v) /\ InConsume(w) /\ v[1] = w[1] => v = w

\* The advisory lock of an address, and what it protects.
AddressLock ==
  /\ \A v \in Verifications : verifying[v] = "locked" => Counted(v) < SessionLimit
  /\ \A v, w \in Verifications :
       verifying[v] = "locked" /\ verifying[w] = "locked" /\ AddressOf(v) = AddressOf(w) => v = w

\* A challenge that gave a session is gone, and gave one.
Spent ==
  /\ \A v \in Verifications : sessions[v].status # "none" => challenges[v[1]].status = "gone"
  /\ \A v, w \in Verifications :
       sessions[v].status # "none" /\ sessions[w].status # "none" /\ v[1] = w[1] => v = w

Limited == \A a : Cardinality(SessionsOf(a)) <= SessionLimit

LInv == LShape /\ RowLock /\ AddressLock /\ Spent /\ Limited

-----------------------------------------------------------------------------
\* Verifications and tokens are finite sets, and the old token is no verification.
LEMMA TokensFinite == IsFiniteSet(Tokens) /\ Old \notin Verifications
  <1>1. IsFiniteSet(1 .. MaxLogins)
    BY BudgetsAssumption, FS_Interval
  <1>2. IsFiniteSet({Device}) /\ IsFiniteSet({Old}) /\ IsFiniteSet({1}) /\ IsFiniteSet({2})
    BY FS_Singleton
  <1>3. IsFiniteSet(Challenges)
    BY <1>1, <1>2, FS_Union, ChallengesAssumption DEF Logins
  <1>4. Copies = {1} \cup {2}
    BY ChallengesAssumption
  <1>5. IsFiniteSet({1} \cup {2})
    BY <1>2, FS_Union
  <1>6. IsFiniteSet(Verifications)
    BY <1>3, <1>4, <1>5, FS_Product DEF Verifications
  <1> QED
    BY <1>2, <1>6, FS_Union, ChallengesAssumption DEF Tokens

\* The sessions of an address are finitely many.
LEMMA SessionsFinite == \A a : IsFiniteSet(SessionsOf(a)) /\ Cardinality(SessionsOf(a)) \in Nat
  BY TokensFinite, FS_Subset, FS_CardinalityType DEF SessionsOf

\* Every step of the page, the wallet and the network is one of LoginStep.
LEMMA StepsOfLogin == [Next]_vars => LoginStep
  <1> SUFFICES ASSUME [Next]_vars PROVE LoginStep
    OBVIOUS
  <1>1. CASE UNCHANGED vars
    BY <1>1 DEF LoginStep, vars
  <1>2. CASE Wallet
    BY <1>2 DEF LoginStep, Wallet, Changes, Connect, Connected, ConnectFails, RestoreWallet, Reconnected,
      HandleEvent, BrowserEvent, PeerEvent, Dropped, Read, Refresh, RefreshFails, SessionEnds,
      ReconnectWithQr, Disconnect, loginVars
  <1>3. CASE Login
    <2>1. CASE SignIn \/ AttemptFails \/ AttemptTimesOut \/ Resume \/ Load \/ LoginExpires \/ SignOut
      BY <2>1 DEF LoginStep, SignIn, AttemptFails, AttemptTimesOut, Resume, Load, LoginExpires, SignOut,
        PageOnly, loginVars
    <2>2. CASE RequestChallenge
      BY <2>2 DEF LoginStep, RequestChallenge
    <2>3. CASE Sign
      BY <2>3 DEF LoginStep, Sign, MovesOutside
    <2>4. CASE \E i \in Logins : VerifyRepeated(i)
      BY <2>4 DEF LoginStep, VerifyRepeated, MovesOutside
    <2>5. ASSUME NEW v \in Verifications, VerifyAnswered(v) \/ VerifyLost(v) \/ VerifyFails(v)
          PROVE  LoginStep
      BY <2>5 DEF LoginStep, VerifyAnswered, VerifyLost, VerifyFails, ConsumeFails, MovesOutside
    <2>6. ASSUME NEW v \in Verifications, Verify(v)
          PROVE  LoginStep
      <3>1. CASE Check(v)
        BY <3>1 DEF LoginStep, Check, MovesOutside
      <3> QED
        BY <2>6, <3>1 DEF LoginStep, Verify
    <2>7. ASSUME NEW l \in logouts, Logout(l) \/ LogoutLost(l)
          PROVE  LoginStep
      BY <2>7 DEF LoginStep, Logout, ServeLogout, LogoutAnswered, LogoutLost, LogsOut, loginVars
    <2>8. ASSUME NEW a \in Addresses, DeviceSignsIn(a)
          PROVE  LoginStep
      BY <2>8 DEF LoginStep, DeviceSignsIn, MovesOutside
    <2> QED
      BY <1>3, <2>1, <2>2, <2>3, <2>4, <2>5, <2>6, <2>7, <2>8 DEF Login
  <1>4. CASE Expiry
    BY <1>4 DEF LoginStep, Expiry
  <1> QED
    BY <1>1, <1>2, <1>3, <1>4 DEF Next

-----------------------------------------------------------------------------
\* Initially there is no verification, and the session of an earlier visit at most.
LEMMA LInit == Init => LInv
  <1> SUFFICES ASSUME Init PROVE LInv
    OBVIOUS
  <1>1. PICK owner : LoginInit(owner)
    BY DEF Init
  <1>2. LShape
    BY <1>1 DEF LoginInit, LShape, NoSession
  <1>3. RowLock /\ AddressLock
    BY <1>1 DEF LoginInit, RowLock, AddressLock, InConsume
  <1>4. Spent
    BY <1>1, TokensFinite DEF LoginInit, Spent, NoSession, Tokens
  <1>5. ASSUME NEW a PROVE Cardinality(SessionsOf(a)) <= SessionLimit
    <2>1. SessionsOf(a) \subseteq {Old}
      BY <1>1 DEF LoginInit, SessionsOf, NoSession
    <2>2. IsFiniteSet({Old}) /\ Cardinality({Old}) = 1
      BY FS_Singleton
    <2>3. Cardinality(SessionsOf(a)) <= 1 /\ Cardinality(SessionsOf(a)) \in Nat
      BY <2>1, <2>2, FS_Subset, SessionsFinite
    <2> QED
      BY <2>3, LimitsAssumption
  <1> QED
    BY <1>2, <1>3, <1>4, <1>5 DEF LInv, Limited

\* Steps that end sessions and begin none: the limits go on holding.
LEMMA SessionsEnd ==
  ASSUME LInv, UNCHANGED <<challenges, verifying>>, LShape',
         \A t \in Tokens : sessions'[t] = sessions[t] \/
           (sessions[t].status = "active" /\ sessions'[t].status \in {"revoked", "expired"})
  PROVE  LInv'
  <1>1. \A a : SessionsOf(a)' \subseteq SessionsOf(a)
    BY DEF SessionsOf
  <1>2. \A a : Cardinality(SessionsOf(a)') <= Cardinality(SessionsOf(a))
    BY <1>1, SessionsFinite, FS_Subset
  <1>3. \A a : Cardinality(SessionsOf(a)') \in Nat
    BY <1>1, SessionsFinite, FS_Subset, FS_CardinalityType
  <1>4. Limited'
    <2> SUFFICES ASSUME NEW a PROVE Cardinality(SessionsOf(a)') <= SessionLimit
      BY DEF Limited
    <2> QED
      BY <1>2, <1>3, SessionsFinite, LimitsAssumption DEF LInv, Limited
  <1>5. RowLock'
    BY DEF LInv, RowLock, InConsume
  <1>6. AddressLock'
    <2>1. ASSUME NEW v \in Verifications, verifying[v] = "locked" PROVE Counted(v)' < SessionLimit
      <3>1. AddressOf(v)' = AddressOf(v) /\ Counted(v) < SessionLimit
        BY <2>1 DEF AddressOf, LInv, AddressLock
      <3> QED
        BY <3>1, <1>2, <1>3, SessionsFinite, LimitsAssumption DEF Counted
    <2> QED
      BY <2>1 DEF LInv, AddressLock, AddressOf
  <1>7. Spent'
    BY DEF LInv, Spent, Tokens
  <1> QED
    BY <1>4, <1>5, <1>6, <1>7 DEF LInv

\* A verification that leaves the transaction, or moves outside it, gives up its locks.
LEMMA LMovesOutside ==
  ASSUME LInv, NEW v, NEW step, MovesOutside(v, step)
  PROVE  LInv'
  <1> USE DEF MovesOutside, Becomes
  <1>1. \A w \in Verifications : verifying'[w] = verifying[w] \/ (w = v /\ verifying'[w] = step)
    BY DEF LInv, LShape
  <1>2. LShape' /\ Limited' /\ Spent'
    <2>1. LShape'
      BY DEF LInv, LShape
    <2>2. \A a : SessionsOf(a)' = SessionsOf(a)
      BY DEF SessionsOf
    <2>3. Spent'
      BY DEF LInv, Spent
    <2> QED
      BY <2>1, <2>2, <2>3 DEF LInv, Limited
  <1>3. RowLock'
    BY <1>1 DEF LInv, RowLock, InConsume
  <1>4. AddressLock'
    BY <1>1 DEF LInv, AddressLock, AddressOf, Counted, SessionsOf
  <1> QED
    BY <1>2, <1>3, <1>4 DEF LInv

\* A challenge that is issued was nobody's.
LEMMA LPut ==
  ASSUME LInv, NEW i, NEW a, Put(i, a)
  PROVE  LInv'
  <1> USE DEF Put
  <1>1. CASE i \notin Challenges
    <2>1. UNCHANGED loginVars
      BY <1>1 DEF LInv, LShape, loginVars
    <2> QED
      BY <2>1, SessionsEnd DEF loginVars, LInv, LShape
  <1>2. CASE i \in Challenges
    <2>1. \A j \in Challenges : challenges'[j] = IF j = i THEN [address |-> a, status |-> "open"] ELSE challenges[j]
      BY <1>2 DEF LInv, LShape
    <2>2. LShape'
      BY <1>2, <2>1 DEF LInv, LShape
    <2>3. \A v \in Verifications : InConsume(v) => v[1] # i
      BY DEF LInv, RowLock
    <2>4. \A v \in Verifications : v[1] \in Challenges
      BY DEF Verifications
    <2>5. RowLock'
      BY <2>1, <2>3, <2>4 DEF LInv, RowLock, InConsume
    <2>6. \A v \in Verifications : InConsume(v) => AddressOf(v)' = AddressOf(v)
      BY <2>1, <2>3, <2>4 DEF AddressOf
    <2>7. \A b : SessionsOf(b)' = SessionsOf(b)
      BY DEF SessionsOf
    <2>8. AddressLock'
      <3>1. \A v \in Verifications : verifying'[v] = "locked" => verifying[v] = "locked" /\ InConsume(v)
        BY DEF InConsume
      <3> QED
        BY <2>6, <2>7, <3>1 DEF LInv, AddressLock, Counted
    <2>9. Spent' /\ Limited'
      BY <2>1, <2>4, <2>7 DEF LInv, Spent, Limited
    <2> QED
      BY <2>2, <2>5, <2>8, <2>9 DEF LInv
  <1> QED
    BY <1>1, <1>2

\* The row lock is taken when nobody has it, of a challenge that is open.
LEMMA LDelete ==
  ASSUME LInv, NEW v \in Verifications, Delete(v)
  PROVE  LInv'
  <1>1. CASE challenges[v[1]].status # "open"
    BY <1>1, LMovesOutside DEF Delete, MovesOutside
  <1>2. CASE challenges[v[1]].status = "open"
    <2> USE DEF Delete, Becomes
    <2>1. \A w \in Verifications : verifying'[w] = IF w = v THEN "deleted" ELSE verifying[w]
      BY <1>2 DEF LInv, LShape
    <2>2. LShape' /\ Limited' /\ Spent'
      <3>1. LShape'
        BY <1>2 DEF LInv, LShape
      <3>2. \A a : SessionsOf(a)' = SessionsOf(a)
        BY DEF SessionsOf
      <3>3. Spent'
        BY DEF LInv, Spent
      <3> QED
        BY <3>1, <3>2, <3>3 DEF LInv, Limited
    <2>3. RowLock'
      BY <1>2, <2>1 DEF LInv, RowLock, InConsume, RowFree
    <2>4. AddressLock'
      BY <2>1 DEF LInv, AddressLock, AddressOf, Counted, SessionsOf
    <2> QED
      BY <2>2, <2>3, <2>4 DEF LInv
  <1> QED
    BY <1>1, <1>2

\* The advisory lock is taken when nobody has it, and the count is below the limit.
LEMMA LLock ==
  ASSUME LInv, NEW v \in Verifications, Lock(v)
  PROVE  LInv'
  <1>1. CASE ~(Counted(v) < SessionLimit)
    BY <1>1, LMovesOutside DEF Lock, MovesOutside
  <1>2. CASE Counted(v) < SessionLimit
    <2> USE DEF Lock, Becomes
    <2>1. \A w \in Verifications : verifying'[w] = IF w = v THEN "locked" ELSE verifying[w]
      BY <1>2 DEF LInv, LShape
    <2>2. LShape' /\ Limited' /\ Spent'
      <3>1. LShape'
        BY <1>2 DEF LInv, LShape
      <3>2. \A a : SessionsOf(a)' = SessionsOf(a)
        BY DEF SessionsOf
      <3>3. Spent'
        BY DEF LInv, Spent
      <3> QED
        BY <3>1, <3>2, <3>3 DEF LInv, Limited
    <2>3. RowLock'
      BY <2>1 DEF LInv, RowLock, InConsume
    <2>4. \A w \in Verifications : AddressOf(w)' = AddressOf(w) /\ Counted(w)' = Counted(w)
      BY DEF AddressOf, Counted, SessionsOf
    <2>5. AddressLock'
      BY <1>2, <2>1, <2>4 DEF LInv, AddressLock, LockFree
    <2> QED
      BY <2>2, <2>3, <2>5 DEF LInv
  <1> QED
    BY <1>1, <1>2

\* The insert adds the one session that the count left room for, and frees the locks.
LEMMA LInsert ==
  ASSUME LInv, NEW v \in Verifications, Insert(v)
  PROVE  LInv'
  <1>0. PICK home : home = AddressOf(v)
    OBVIOUS
  <1> USE DEF Insert, Becomes
  <1>1. v[1] \in Challenges /\ v \in Tokens /\ \A w \in Verifications : w[1] \in Challenges /\ w \in Tokens
    BY DEF Verifications, Tokens
  <1>2. challenges[v[1]].status = "open" /\ InConsume(v)
    BY DEF LInv, RowLock, InConsume
  <1>3. \A w \in Verifications : w[1] = v[1] => sessions[w].status = "none"
    BY <1>2 DEF LInv, Spent
  <1>4. \A w \in Verifications : verifying'[w] = IF w = v THEN "issued" ELSE verifying[w]
    BY DEF LInv, LShape
  <1>5. \A t \in Tokens : sessions'[t] = IF t = v THEN [address |-> home, status |-> "active"] ELSE sessions[t]
    BY <1>0 DEF LInv, LShape
  <1>6. \A i \in Challenges : challenges'[i] =
          IF i = v[1] THEN [address |-> challenges[i].address, status |-> "gone"] ELSE challenges[i]
    BY <1>1 DEF LInv, LShape
  <1>7. LShape'
    <2>1. /\ DOMAIN challenges' = Challenges
          /\ challenges' = [i \in Challenges |-> challenges'[i]]
      BY DEF LInv, LShape
    <2>2. \A i \in Challenges :
            challenges'[i] = [address |-> challenges'[i].address, status |-> challenges'[i].status]
      <3>1. \A i \in Challenges : i # v[1] => challenges'[i] = challenges[i]
        BY DEF LInv, LShape
      <3>2. challenges'[v[1]] = [address |-> challenges[v[1]].address, status |-> "gone"]
        BY <1>1, <1>6
      <3> QED
        BY <3>1, <3>2 DEF LInv, LShape
    <2>3. /\ DOMAIN verifying' = Verifications
          /\ verifying' = [w \in Verifications |-> verifying'[w]]
      BY DEF LInv, LShape
    <2>4. /\ DOMAIN sessions' = Tokens
          /\ sessions' = [t \in Tokens |-> sessions'[t]]
      BY DEF LInv, LShape
    <2>5. \A t \in Tokens :
            sessions'[t] = [address |-> sessions'[t].address, status |-> sessions'[t].status]
      <3>1. \A t \in Tokens : t # v => sessions'[t] = sessions[t]
        BY DEF LInv, LShape
      <3>2. sessions'[v] = [address |-> home, status |-> "active"]
        BY <1>1, <1>5
      <3> QED
        BY <3>1, <3>2 DEF LInv, LShape
    <2> QED
      BY <2>1, <2>2, <2>3, <2>4, <2>5 DEF LShape
  <1>8. \A w \in Verifications : AddressOf(w)' = AddressOf(w)
    BY <1>1, <1>6 DEF AddressOf
  <1>9. RowLock'
    BY <1>1, <1>2, <1>4, <1>6 DEF LInv, RowLock, InConsume
  <1>10. SessionsOf(home)' = SessionsOf(home) \cup {v}
    BY <1>1, <1>5 DEF SessionsOf
  <1>11. \A a : a # home => SessionsOf(a)' = SessionsOf(a)
    BY <1>1, <1>3, <1>5 DEF SessionsOf
  <1>12. Cardinality(SessionsOf(home)') <= Cardinality(SessionsOf(home)) + 1
    <2>1. Cardinality(SessionsOf(home) \cup {v}) \in
            {Cardinality(SessionsOf(home)), Cardinality(SessionsOf(home)) + 1}
      BY SessionsFinite, FS_AddElement
    <2> QED
      BY <2>1, <1>10, SessionsFinite
  <1>13. Cardinality(SessionsOf(home)) < SessionLimit
    BY <1>0 DEF LInv, AddressLock, Counted
  <1>14. Cardinality(SessionsOf(home)') <= SessionLimit
    <2>1. Cardinality(SessionsOf(home)') \in Nat
      BY <1>10, SessionsFinite, FS_AddElement, FS_CardinalityType
    <2> QED
      BY <2>1, <1>12, <1>13, SessionsFinite, LimitsAssumption
  <1>15. Limited'
    BY <1>11, <1>14 DEF LInv, Limited
  <1>16. AddressLock'
    <2>1. \A w \in Verifications : verifying'[w] = "locked" => w # v /\ verifying[w] = "locked" /\ AddressOf(w) # home
      BY <1>0, <1>4 DEF LInv, AddressLock
    <2>2. \A w \in Verifications : verifying'[w] = "locked" => Counted(w)' = Counted(w)
      BY <2>1, <1>8, <1>11 DEF Counted
    <2> QED
      BY <2>1, <2>2, <1>8 DEF LInv, AddressLock
  <1>17. Spent'
    <2>1. \A w \in Verifications : sessions'[w].status # "none" =>
            w = v \/ (sessions[w].status # "none" /\ w[1] # v[1])
      BY <1>1, <1>3, <1>5
    <2>2. challenges'[v[1]].status = "gone"
      <3>1. challenges'[v[1]] = [address |-> challenges[v[1]].address, status |-> "gone"]
        BY <1>1, <1>6
      <3> QED
        BY <3>1
    <2>3. \A w \in Verifications : w[1] # v[1] => challenges'[w[1]] = challenges[w[1]]
      BY <1>1, <1>6
    <2>4. \A w \in Verifications : sessions'[w].status # "none" => challenges'[w[1]].status = "gone"
      BY <2>1, <2>2, <2>3 DEF LInv, Spent
    <2>5. \A w, x \in Verifications :
            sessions'[w].status # "none" /\ sessions'[x].status # "none" /\ w[1] = x[1] => w = x
      BY <2>1 DEF LInv, Spent
    <2> QED
      BY <2>4, <2>5 DEF Spent
  <1> QED
    BY <1>7, <1>9, <1>15, <1>16, <1>17 DEF LInv

\* A challenge that nobody consumes may go.
LEMMA LExpireChallenge ==
  ASSUME LInv, NEW i \in Challenges, ExpireChallenge(i)
  PROVE  LInv'
  <1> USE DEF ExpireChallenge
  <1>1. \A j \in Challenges : challenges'[j] =
          IF j = i THEN [address |-> challenges[j].address, status |-> "gone"] ELSE challenges[j]
    BY DEF LInv, LShape
  <1>2. LShape'
    BY <1>1 DEF LInv, LShape
  <1>3. \A v \in Verifications : v[1] \in Challenges
    BY DEF Verifications
  <1>4. \A v \in Verifications : AddressOf(v)' = AddressOf(v)
    BY <1>1, <1>3 DEF AddressOf
  <1>5. \A a : SessionsOf(a)' = SessionsOf(a)
    BY DEF SessionsOf
  <1>6. RowLock'
    BY <1>1, <1>3 DEF LInv, RowLock, InConsume
  <1>7. AddressLock' /\ Limited'
    BY <1>4, <1>5 DEF LInv, AddressLock, Limited, Counted
  <1>8. Spent'
    BY <1>1, <1>3 DEF LInv, Spent
  <1> QED
    BY <1>2, <1>6, <1>7, <1>8 DEF LInv

\* Every step of the login store keeps the invariant.
LEMMA LNext == LInv /\ [Next]_vars => LInv'
  <1> SUFFICES ASSUME LInv, LoginStep PROVE LInv'
    BY StepsOfLogin
  <1>1. CASE UNCHANGED loginVars
    BY <1>1, SessionsEnd DEF loginVars, LInv, LShape
  <1>2. ASSUME NEW t \in Tokens, ExpireSession(t) PROVE LInv'
    <2>1. LShape'
      BY <1>2 DEF ExpireSession, LInv, LShape
    <2> QED
      BY <1>2, <2>1, SessionsEnd DEF ExpireSession, LInv, LShape
  <1>3. ASSUME NEW t, LogsOut(t) PROVE LInv'
    <2>1. LShape'
      BY <1>3 DEF LogsOut, Revoked, LInv, LShape
    <2> QED
      BY <1>3, <2>1, SessionsEnd DEF LogsOut, Revoked, LInv, LShape
  <1> QED
    BY <1>1, <1>2, <1>3, LPut, LMovesOutside, LDelete, LLock, LInsert, LExpireChallenge DEF LoginStep

\* A challenge gives one session at most: what Spent says, as a cardinality.
LEMMA InvariantLimits == LInv => SessionsLimited
  <1> SUFFICES ASSUME LInv PROVE SessionsLimited
    OBVIOUS
  <1>1. ASSUME NEW i \in Challenges
        PROVE  Cardinality({v \in Verifications : v[1] = i /\ sessions[v].status # "none"}) <= 1
    <2> DEFINE S == {v \in Verifications : v[1] = i /\ sessions[v].status # "none"}
    <2>1. CASE S = {}
      <3>1. Cardinality(S) = 0
        BY <2>1, FS_EmptySet
      <3> QED
        BY <3>1
    <2>2. CASE S # {}
      <3>1. PICK v : v \in S
        BY <2>2
      <3>2. \A w \in S : w = v
        BY <3>1 DEF LInv, Spent
      <3>3. S = {v}
        BY <3>1, <3>2
      <3>4. Cardinality({v}) = 1
        BY FS_Singleton
      <3>5. Cardinality(S) = 1
        BY <3>3, <3>4
      <3> QED
        BY <3>5
    <2> QED
      BY <2>1, <2>2
  <1> QED
    BY <1>1 DEF SessionsLimited, LInv, Limited

\* Whatever verifications overlap, repeat or fail, an address never has more
\* sessions than the limit, and a challenge gives one at most (consume of
\* wallet-auth.ts).
THEOREM SessionsAlwaysLimited == Spec => []SessionsLimited
  <1>1. Spec => []LInv
    BY LInit, LNext, PTL DEF Spec
  <1> QED
    BY <1>1, InvariantLimits, PTL

-----------------------------------------------------------------------------
(* The workspace and the wallet.                                            *)

Pages == [token : Tokens \cup {None}, active : Logins \cup {Restore, None}, stage : Stages,
          asked : Tokens \cup {None}, restored : BOOLEAN, dropped : SUBSET Tokens]

\* What a browser wallet says, or is asked.
WalletShape ==
  /\ selected \in Identities \cup {Locked} /\ conn \in Connections \cup {None}
  /\ events \in Seq(Identities \cup {Locked})
  /\ reading \in Identities \cup {Locked, Asked, None}
  /\ saved \in Addresses \cup {None} /\ connecting \in BOOLEAN

\* Nothing is pending without a connection, and no connection is replaced by
\* another without an end of the first.
OneConnection ==
  /\ conn = None => events = <<>> /\ reading = None
  /\ connecting => conn = None /\ saved = None
  /\ saved # None => conn = None
  /\ conn # None /\ ~conn.browser => reading = None

\* The last event is the wallet's selection, and so is an answer with no event
\* after it.
EventsCatchUp ==
  /\ events # <<>> => events[Len(events)] = selected
  /\ events = <<>> /\ reading \in Identities \cup {Locked} => reading = selected
  /\ conn # None /\ events = <<>> /\ reading = None =>
       selected.address = conn.address /\ selected.arc = conn.arc

WalletInv == WalletShape /\ OneConnection /\ EventsCatchUp

\* A session is that of its challenge's address.
SessionsNamed ==
  \A v \in Verifications :
    /\ verifying[v] = "issued" => sessions[v].status # "none"
    /\ sessions[v].status # "none" => sessions[v].address = AddressOf(v)

\* The page's attempt and token are for the account it is connected to.
Fits(p, c) ==
  /\ p.active = None => p.stage = "idle"
  /\ p.active # None => c # None /\ c.arc
  /\ p.token # None =>
       /\ sessions[p.token].status # "none"
       /\ c # None => c.arc /\ c.address = sessions[p.token].address
  /\ p.stage \in {"challenge", "signing", "stale", "verify"} => p.active \in Logins
  /\ p.stage \in {"signing", "stale", "verify"} =>
       challenges[p.active].status # "none" /\ challenges[p.active].address = c.address

PageInv ==
  /\ page \in Pages /\ Fits(page, conn) /\ cookie \in Tokens \cup {None}
  /\ budget \in [Bounded -> Nat] /\ budget.logins <= MaxLogins

WInv == LInv /\ WalletInv /\ SessionsNamed /\ PageInv

-----------------------------------------------------------------------------
\* Operators of the dashboard.
LEMMA Clearing ==
  ASSUME NEW p \in Pages
  PROVE  /\ Cancelled(p) \in Pages /\ Cancelled(p).active = None /\ Cancelled(p).stage = "idle"
         /\ Cancelled(p).token = p.token
         /\ Cleared(p) \in Pages /\ Cleared(p).active = None /\ Cleared(p).stage = "idle"
         /\ Cleared(p).token = None
BY DEF Pages, Cancelled, Cleared, Stages

\* Without an attempt, a page with a token of the connection's account fits.
LEMMA IdleFits ==
  ASSUME NEW p, NEW c, p.active = None, p.stage = "idle",
         p.token # None => /\ sessions[p.token].status # "none"
                           /\ c # None => c.arc /\ c.address = sessions[p.token].address
  PROVE  Fits(p, c)
BY DEF Fits

LEMMA RestoringFits ==
  ASSUME NEW p \in Pages, NEW c, p.active = None, p.stage = "idle", p.token = None,
         cookie \in Tokens \cup {None}
  PROVE  Restoring(p, c) \in Pages /\ Fits(Restoring(p, c), c)
<1>1. CASE p.restored \/ c = None
  BY <1>1, IdleFits DEF Restoring
<1>2. CASE ~p.restored /\ c # None /\ ~c.arc
  <2>1. Restoring(p, c) = [p EXCEPT !.restored = TRUE]
    BY <1>2 DEF Restoring
  <2>2. Restoring(p, c) \in Pages /\ Restoring(p, c).active = None /\ Restoring(p, c).stage = "idle"
        /\ Restoring(p, c).token = None
    BY <2>1 DEF Pages
  <2> QED
    BY <2>2, IdleFits
<1>3. CASE ~p.restored /\ c # None /\ c.arc
  <2>1. Restoring(p, c) = [p EXCEPT !.restored = TRUE, !.active = Restore, !.stage = "resume", !.asked = cookie]
    BY <1>3 DEF Restoring
  <2>2. /\ Restoring(p, c) \in Pages /\ Restoring(p, c).active = Restore /\ Restoring(p, c).stage = "resume"
        /\ Restoring(p, c).token = None
    BY <2>1 DEF Pages, Stages
  <2> QED
    BY <1>3, <2>2, NamesAssumption DEF Fits
<1> QED
  BY <1>1, <1>2, <1>3

\* The listener of dashboard.ts leaves a page that fits the new connection.
LEMMA NotifiedFits ==
  ASSUME PageInv, NEW c, NEW reason
  PROVE  Notified(page, c, reason) \in Pages /\ Fits(Notified(page, c, reason), c)
<1> DEFINE q == IF page.active = None THEN page ELSE IF page.token = None THEN Cancelled(page) ELSE Cleared(page)
<1>1. /\ q \in Pages /\ q.active = None /\ q.stage = "idle" /\ (q.token = page.token \/ q.token = None)
      /\ cookie \in Tokens \cup {None}
  BY Clearing DEF PageInv, Fits
<1>2. Notified(page, c, reason) = IF q.token = None THEN Restoring(q, c)
                                  ELSE IF reason = "connection" /\ Belongs(q, c) THEN q ELSE Cleared(q)
  BY DEF Notified
<1> HIDE DEF q
<1>3. CASE q.token = None
  BY <1>1, <1>2, <1>3, RestoringFits
<1>4. CASE q.token # None /\ reason = "connection" /\ Belongs(q, c)
  <2>1. sessions[q.token].status # "none"
    BY <1>1, <1>4 DEF PageInv, Fits
  <2> QED
    BY <1>1, <1>2, <1>4, <2>1, IdleFits DEF Belongs
<1>5. CASE q.token # None /\ ~(reason = "connection" /\ Belongs(q, c))
  BY <1>1, <1>2, <1>5, Clearing, IdleFits
<1> QED
  BY <1>3, <1>4, <1>5

\* The tokens a page gave up do not concern it any more.
LEMMA ShownFits ==
  ASSUME NEW p \in Pages, NEW c, NEW held, Fits(p, c), Shows(p, held), UNCHANGED <<challenges, sessions>>,
         conn' = c, cookie' \in Tokens \cup {None}, budget' \in [Bounded -> Nat], budget'.logins <= MaxLogins
  PROVE  PageInv'
<1>1. /\ page' = [p EXCEPT !.dropped = {}]
  BY DEF Shows
<1>2. /\ page' \in Pages /\ page'.active = p.active /\ page'.stage = p.stage /\ page'.token = p.token
  BY <1>1 DEF Pages
<1>3. Fits(page, conn)'
  BY <1>2 DEF Fits
<1> QED
  BY <1>2, <1>3 DEF PageInv

-----------------------------------------------------------------------------
\* A new connection, and what is shown for it.
LEMMA ReconnectedFits ==
  ASSUME PageInv, NEW c, NEW reason, Reconnected(c, reason),
         budget' \in [Bounded -> Nat], budget'.logins <= MaxLogins
  PROVE  PageInv'
<1>1. /\ Shows(Notified(page, c, reason), cookie) /\ UNCHANGED <<challenges, sessions>> /\ conn' = c
      /\ cookie' \in Tokens \cup {None}
  BY DEF Reconnected, loginVars, PageInv
<1>2. PICK p : p = Notified(page, c, reason)
  OBVIOUS
<1>3. p \in Pages /\ Fits(p, c) /\ Shows(p, cookie)
  BY <1>1, <1>2, NotifiedFits
<1> QED
  BY <1>1, <1>3, ShownFits

\* A page without attempt and token fits any connection.
LEMMA ClearedFits ==
  ASSUME PageInv, NEW held, Shows(Cleared(page), held), UNCHANGED <<challenges, sessions>>,
         cookie' \in Tokens \cup {None}, budget' \in [Bounded -> Nat], budget'.logins <= MaxLogins
  PROVE  PageInv'
<1>1. PICK p : p = Cleared(page)
  OBVIOUS
<1>2. p \in Pages /\ Fits(p, conn') /\ Shows(p, held)
  BY <1>1, Clearing, IdleFits DEF PageInv
<1> QED
  BY <1>2, ShownFits

\* What a step leaves of the login store that the page may rely on.
LoginGoesOn ==
  /\ \A t \in Tokens : sessions[t].status # "none" =>
       sessions'[t].status # "none" /\ sessions'[t].address = sessions[t].address
  /\ \A i \in Challenges : challenges[i].status # "none" =>
       challenges'[i].status # "none" /\ challenges'[i].address = challenges[i].address

LEMMA LoginsGoOn ==
  ASSUME LInv, SessionsNamed, LoginStep
  PROVE  LoginGoesOn /\ SessionsNamed'
<1>0. \A v \in Verifications : v[1] \in Challenges /\ v \in Tokens
  BY DEF Verifications, Tokens
<1>1. CASE UNCHANGED loginVars
  BY <1>1 DEF loginVars, LoginGoesOn, SessionsNamed, AddressOf
<1>2. ASSUME NEW i, NEW a, Put(i, a) PROVE LoginGoesOn /\ SessionsNamed'
  <2>1. CASE i \in Challenges
    <3>1. /\ challenges[i].status = "none" /\ UNCHANGED <<verifying, sessions>>
          /\ challenges'[i].status = "open" /\ \A j \in Challenges \ {i} : challenges'[j] = challenges[j]
      BY <1>2, <2>1 DEF Put, LInv, LShape
    <3>2. \A v \in Verifications : sessions[v].status # "none" => v[1] # i /\ AddressOf(v)' = AddressOf(v)
      BY <1>0, <3>1 DEF LInv, Spent, AddressOf
    <3> QED
      BY <3>1, <3>2 DEF LoginGoesOn, SessionsNamed
  <2>2. CASE i \notin Challenges
    <3>1. UNCHANGED loginVars
      BY <1>2, <2>2 DEF Put, LInv, LShape, loginVars
    <3> QED
      BY <1>1, <3>1
  <2> QED
    BY <2>1, <2>2
<1>3. ASSUME NEW v, NEW step, MovesOutside(v, step) PROVE LoginGoesOn /\ SessionsNamed'
  <2>1. \A w \in Verifications : verifying'[w] = verifying[w] \/ verifying'[w] = step
    BY <1>3 DEF MovesOutside, Becomes, LInv, LShape
  <2> QED
    BY <1>3, <2>1 DEF MovesOutside, LoginGoesOn, SessionsNamed, AddressOf
<1>4. ASSUME NEW v \in Verifications, Delete(v) \/ Lock(v) PROVE LoginGoesOn /\ SessionsNamed'
  <2>1. \A w \in Verifications : verifying'[w] = "issued" => verifying[w] = "issued"
    BY <1>4 DEF Delete, Lock, Becomes, LInv, LShape
  <2> QED
    BY <1>4, <2>1 DEF Delete, Lock, LoginGoesOn, SessionsNamed, AddressOf
<1>5. ASSUME NEW v \in Verifications, Insert(v) PROVE LoginGoesOn /\ SessionsNamed'
  <2>1. challenges[v[1]].status = "open" /\ v \in Tokens /\ v[1] \in Challenges
    BY <1>0, <1>5 DEF Insert, LInv, RowLock, InConsume
  <2>2. sessions[v].status = "none"
    BY <2>1 DEF LInv, Spent
  <2>3. PICK home : home = AddressOf(v)
    OBVIOUS
  <2>4. /\ \A t \in Tokens : sessions'[t] = IF t = v THEN [address |-> home, status |-> "active"] ELSE sessions[t]
        /\ \A j \in Challenges : challenges'[j].address = challenges[j].address
        /\ \A j \in Challenges : challenges[j].status # "none" => challenges'[j].status # "none"
        /\ \A w \in Verifications : verifying'[w] = IF w = v THEN "issued" ELSE verifying[w]
    BY <1>5, <2>1, <2>3 DEF Insert, Becomes, LInv, LShape
  <2>5. \A w \in Verifications : AddressOf(w)' = AddressOf(w)
    BY <1>0, <2>4 DEF AddressOf
  <2> QED
    BY <1>0, <2>2, <2>3, <2>4, <2>5 DEF LoginGoesOn, SessionsNamed
<1>6. ASSUME NEW i \in Challenges, ExpireChallenge(i) PROVE LoginGoesOn /\ SessionsNamed'
  <2>1. /\ \A j \in Challenges : challenges'[j].address = challenges[j].address
        /\ \A j \in Challenges : challenges[j].status # "none" => challenges'[j].status # "none"
        /\ UNCHANGED <<verifying, sessions>>
    BY <1>6 DEF ExpireChallenge, LInv, LShape
  <2> QED
    BY <1>0, <2>1 DEF LoginGoesOn, SessionsNamed, AddressOf
<1>7. ASSUME UNCHANGED <<challenges, verifying>>,
             \A t \in Tokens : sessions'[t].address = sessions[t].address
                               /\ (sessions'[t].status = "none" <=> sessions[t].status = "none")
      PROVE  LoginGoesOn /\ SessionsNamed'
  BY <1>0, <1>7 DEF LoginGoesOn, SessionsNamed, AddressOf
<1>8. ASSUME NEW t \in Tokens, ExpireSession(t) PROVE LoginGoesOn /\ SessionsNamed'
  <2>1. \A u \in Tokens : sessions'[u].address = sessions[u].address
                          /\ (sessions'[u].status = "none" <=> sessions[u].status = "none")
    BY <1>8 DEF ExpireSession, LInv, LShape
  <2> QED
    BY <1>7, <1>8, <2>1 DEF ExpireSession
<1>9. ASSUME NEW t, LogsOut(t) PROVE LoginGoesOn /\ SessionsNamed'
  <2>1. \A u \in Tokens : sessions'[u].address = sessions[u].address
                          /\ (sessions'[u].status = "none" <=> sessions[u].status = "none")
    BY <1>9 DEF LogsOut, Revoked, LInv, LShape
  <2> QED
    BY <1>7, <1>9, <2>1 DEF LogsOut
<1> QED
  BY <1>1, <1>2, <1>3, <1>4, <1>5, <1>6, <1>8, <1>9 DEF LoginStep

\* The page stays as it is while the login store goes on.
LEMMA PageStays ==
  ASSUME PageInv, LoginGoesOn, UNCHANGED <<conn, page, cookie>>,
         budget' \in [Bounded -> Nat], budget'.logins <= MaxLogins
  PROVE  PageInv'
<1>1. page.token \in Tokens \cup {None}
  BY DEF PageInv, Pages
<1>2. page.stage \in {"signing", "stale", "verify"} => page.active \in Challenges
  BY ChallengesAssumption DEF PageInv, Fits
<1>3. Fits(page, conn)'
  BY <1>1, <1>2 DEF PageInv, Fits, LoginGoesOn
<1> QED
  BY <1>3 DEF PageInv

\* What is spent of a budget.
LEMMA Spending ==
  ASSUME PageInv, NEW what \in Bounded, Spends(what)
  PROVE  budget' \in [Bounded -> Nat] /\ budget'.logins <= MaxLogins
<1>1. budget["logins"] \in Nat /\ budget[what] \in Nat /\ budget["logins"] <= MaxLogins /\ MaxLogins \in Nat
  BY BudgetsAssumption DEF PageInv, Bounded
<1>2. budget' = [budget EXCEPT ![what] = budget[what] - 1] /\ budget[what] > 0
  BY DEF Spends
<1>3. budget[what] - 1 \in Nat
  BY <1>1, <1>2
<1>4. budget' \in [Bounded -> Nat]
  BY <1>2, <1>3 DEF PageInv
<1>5. budget'["logins"] = IF what = "logins" THEN budget["logins"] - 1 ELSE budget["logins"]
  BY <1>2 DEF PageInv, Bounded
<1> QED
  BY <1>1, <1>4, <1>5

-----------------------------------------------------------------------------
(* The steps of the wallet.                                                 *)

LEMMA WalletPage ==
  ASSUME PageInv, WalletInv, Wallet
  PROVE  PageInv'
<1>0. /\ budget \in [Bounded -> Nat] /\ budget.logins <= MaxLogins
      /\ UNCHANGED <<challenges, sessions>> => LoginGoesOn
  BY DEF PageInv, LoginGoesOn
<1>1. ASSUME NEW to, Changes(to) PROVE PageInv'
  BY <1>0, <1>1, PageStays, Spending DEF Changes, loginVars, Bounded
<1>2. CASE Connect \/ ConnectFails
  BY <1>0, <1>2, PageStays, Spending DEF Connect, ConnectFails, loginVars, Bounded
<1>3. ASSUME NEW browser \in BOOLEAN, Connected(browser) PROVE PageInv'
  BY <1>0, <1>3, ReconnectedFits DEF Connected
<1>4. ASSUME NEW browser \in BOOLEAN, RestoreWallet(browser) PROVE PageInv'
  BY <1>0, <1>4, ReconnectedFits, PageStays DEF RestoreWallet, loginVars
<1>5. ASSUME NEW reason, Dropped(reason), UNCHANGED budget \/ Spends("connects") PROVE PageInv'
  BY <1>0, <1>5, ReconnectedFits, Spending DEF Dropped, Bounded
<1>6. CASE HandleEvent
  <2>1. PICK e : e = Head(events)
    OBVIOUS
  <2>2. CASE conn.browser
    <3>1. CASE e = Locked
      BY <1>5, <1>6, <2>1, <2>2, <3>1 DEF HandleEvent, BrowserEvent
    <3>2. CASE e # Locked /\ e.address = conn.address /\ e.arc = conn.arc
      <4>1. /\ page' = Superseded(page) /\ UNCHANGED <<challenges, sessions, conn, cookie, budget>>
        BY <1>6, <2>1, <2>2, <3>2 DEF HandleEvent, BrowserEvent, loginVars
      <4>2. /\ page' \in Pages /\ page'.token = page.token /\ page'.active = page.active
            /\ page'.stage = page.stage \/ (page.stage = "signing" /\ page'.stage = "stale")
        BY <4>1 DEF Superseded, PageInv, Pages, Stages
      <4>3. Fits(page, conn)'
        BY <4>1, <4>2 DEF PageInv, Fits
      <4> QED
        BY <4>1, <4>2, <4>3 DEF PageInv
    <3>3. CASE e # Locked /\ ~(e.address = conn.address /\ e.arc = conn.arc)
      <4>1. /\ Shows(Notified(page, conn', "identity"), cookie)
            /\ UNCHANGED <<challenges, sessions, cookie, budget>>
        BY <1>6, <2>1, <2>2, <3>3 DEF HandleEvent, BrowserEvent, loginVars
      <4>2. PICK c : c = conn'
        OBVIOUS
      <4>3. PICK p : p = Notified(page, c, "identity")
        OBVIOUS
      <4>4. p \in Pages /\ Fits(p, c) /\ Shows(p, cookie)
        BY <4>1, <4>2, <4>3, NotifiedFits
      <4> QED
        BY <1>0, <4>1, <4>2, <4>4, ShownFits DEF PageInv
    <3> QED
      BY <3>1, <3>2, <3>3
  <2>3. CASE ~conn.browser
    <3>1. CASE e.address = conn.address /\ e.arc = conn.arc
      BY <1>0, <1>6, <2>1, <2>3, <3>1, PageStays DEF HandleEvent, PeerEvent, loginVars
    <3>2. CASE ~(e.address = conn.address /\ e.arc = conn.arc)
      BY <1>5, <1>6, <2>1, <2>3, <3>2 DEF HandleEvent, PeerEvent
    <3> QED
      BY <3>1, <3>2
  <2> QED
    BY <2>2, <2>3
<1>7. CASE Read
  BY <1>0, <1>7, PageStays DEF Read, loginVars
<1>8. CASE Refresh
  BY <1>0, <1>5, <1>8, ReconnectedFits DEF Refresh
<1>9. CASE RefreshFails \/ SessionEnds \/ ReconnectWithQr
  BY <1>5, <1>9 DEF RefreshFails, SessionEnds, ReconnectWithQr
<1>10. CASE Disconnect
  <2>1. PICK p : p = Notified(page, None, "disconnect")
    OBVIOUS
  <2>2. p \in Pages /\ Fits(p, None) /\ page' = [p EXCEPT !.dropped = {}] /\ conn' = None
        /\ UNCHANGED <<challenges, sessions, cookie, budget>>
    BY <1>10, <2>1, NotifiedFits DEF Disconnect, loginVars
  <2>3. page' \in Pages /\ page'.active = p.active /\ page'.stage = p.stage /\ page'.token = p.token
    BY <2>2 DEF Pages
  <2>4. Fits(page, conn)'
    BY <2>2, <2>3 DEF Fits
  <2> QED
    BY <2>2, <2>3, <2>4 DEF PageInv
<1> QED
  BY <1>1, <1>2, <1>3, <1>4, <1>6, <1>7, <1>8, <1>9, <1>10 DEF Wallet

-----------------------------------------------------------------------------
(* The steps of the login.                                                  *)

\* The page's record changes, its connection does not.
LEMMA PageBecomes ==
  ASSUME PageInv, LoginGoesOn, UNCHANGED <<conn, cookie>>, page' \in Pages, Fits(page, conn)',
         budget' \in [Bounded -> Nat], budget'.logins <= MaxLogins
  PROVE  PageInv'
BY DEF PageInv

LEMMA LoginPage ==
  ASSUME LInv, SessionsNamed, PageInv, LoginGoesOn, Login
  PROVE  PageInv'
<1>0. /\ budget \in [Bounded -> Nat] /\ budget.logins <= MaxLogins /\ cookie \in Tokens \cup {None}
      /\ page \in Pages /\ Fits(page, conn)
  BY DEF PageInv
<1>1. CASE SignIn
  <2>1. CASE conn # None /\ conn.arc
    <3>1. /\ Spends("logins") /\ UNCHANGED <<challenges, sessions, conn, cookie>>
          /\ Shows([Cleared(page) EXCEPT !.active = Attempt, !.stage = "challenge"], cookie)
      BY <1>1, <2>1 DEF SignIn, PageOnly, loginVars, walletVars
    <3>2. Attempt \in Logins
      BY <1>0, <3>1, BudgetsAssumption DEF Attempt, Logins, Spends, Bounded
    <3>3. PICK p : p = [Cleared(page) EXCEPT !.active = Attempt, !.stage = "challenge"]
      OBVIOUS
    <3>4. p \in Pages /\ p.active = Attempt /\ p.stage = "challenge" /\ p.token = None
      BY <1>0, <3>2, <3>3, Clearing DEF Pages, Stages
    <3>5. Fits(p, conn)
      BY <2>1, <3>2, <3>4, NamesAssumption DEF Fits
    <3> QED
      BY <1>0, <3>1, <3>3, <3>4, <3>5, ShownFits, Spending DEF Bounded
  <2>2. CASE ~(conn # None /\ conn.arc)
    BY <1>0, <1>1, <2>2, ClearedFits DEF SignIn, PageOnly, loginVars
  <2> QED
    BY <2>1, <2>2
<1>2. CASE RequestChallenge
  <2>1. /\ page.stage = "challenge" /\ Put(page.active, conn.address) /\ page' = [page EXCEPT !.stage = "signing"]
        /\ UNCHANGED <<conn, cookie, budget>>
    BY <1>2 DEF RequestChallenge, walletVars
  <2>2. page.active \in Logins /\ page.active \in Challenges
    BY <1>0, <2>1, ChallengesAssumption DEF Fits
  <2>3. challenges'[page.active] = [address |-> conn.address, status |-> "open"] /\ sessions' = sessions
    BY <2>1, <2>2 DEF Put, LInv, LShape
  <2>4. /\ page' \in Pages /\ page'.active = page.active /\ page'.stage = "signing" /\ page'.token = page.token
    BY <1>0, <2>1 DEF Pages, Stages
  <2>5. Fits(page, conn)'
    BY <1>0, <2>1, <2>2, <2>3, <2>4, NamesAssumption DEF Fits
  <2> QED
    BY <1>0, <2>1, <2>4, <2>5, PageBecomes
<1>3. CASE Sign
  <2>1. /\ page.stage = "signing" /\ page' = [page EXCEPT !.stage = "verify"]
        /\ UNCHANGED <<challenges, sessions, conn, cookie, budget>>
    BY <1>3 DEF Sign, walletVars
  <2>2. /\ page' \in Pages /\ page'.active = page.active /\ page'.stage = "verify" /\ page'.token = page.token
    BY <1>0, <2>1 DEF Pages, Stages
  <2>3. Fits(page, conn)'
    BY <1>0, <2>1, <2>2 DEF Fits
  <2> QED
    BY <1>0, <2>1, <2>2, <2>3, PageBecomes
<1>4. CASE AttemptFails \/ LoginExpires \/ SignOut
  BY <1>0, <1>4, ClearedFits DEF AttemptFails, LoginExpires, SignOut, PageOnly, loginVars
<1>5. CASE AttemptTimesOut
  BY <1>0, <1>5, ClearedFits DEF AttemptTimesOut, loginVars
<1>6. CASE Resume
  <2>1. UNCHANGED <<challenges, sessions, conn, cookie, budget>>
    BY <1>6 DEF Resume, PageOnly, loginVars, walletVars
  <2>2. CASE page' = Cancelled(page)
    <3>1. page' \in Pages /\ page'.active = None /\ page'.stage = "idle" /\ page'.token = page.token
      BY <1>0, <2>2, Clearing
    <3>2. Fits(page, conn)'
      BY <1>0, <2>1, <3>1 DEF Fits
    <3> QED
      BY <1>0, <2>1, <3>1, <3>2, PageBecomes
  <2>3. CASE /\ Resumes(page.asked, conn.address)
             /\ page' = [page EXCEPT !.token = page.asked, !.asked = None, !.stage = "loading"]
    <3>1. /\ page' \in Pages /\ page'.active = page.active /\ page'.stage = "loading" /\ page'.token = page.asked
      BY <1>0, <2>3 DEF Pages, Stages
    <3>2. conn.arc /\ conn # None
      <4>1. page.stage = "resume"
        BY <1>6 DEF Resume
      <4> QED
        BY <1>0, <4>1 DEF Fits
    <3>3. Fits(page, conn)'
      BY <1>0, <1>6, <2>1, <2>3, <3>1, <3>2 DEF Fits, Resumes, Resume
    <3> QED
      BY <1>0, <2>1, <3>1, <3>3, PageBecomes
  <2> QED
    BY <1>6, <2>2, <2>3 DEF Resume
<1>7. CASE Load
  <2>1. page' = Cancelled(page) /\ UNCHANGED <<challenges, sessions, conn, cookie, budget>>
    BY <1>7 DEF Load, PageOnly, loginVars, walletVars
  <2>2. page' \in Pages /\ page'.active = None /\ page'.stage = "idle" /\ page'.token = page.token
    BY <1>0, <2>1, Clearing
  <2>3. Fits(page, conn)'
    BY <1>0, <2>1, <2>2 DEF Fits
  <2> QED
    BY <1>0, <2>1, <2>2, <2>3, PageBecomes
<1>8. ASSUME NEW i \in Logins, VerifyRepeated(i) PROVE PageInv'
  BY <1>0, <1>8, PageStays, Spending DEF VerifyRepeated, walletVars, Bounded
<1>9. ASSUME NEW v \in Verifications, VerifyAnswered(v) PROVE PageInv'
  <2>1. /\ Delivered(v) /\ verifying[v] \in {"issued", "refused"}
        /\ UNCHANGED <<challenges, sessions, conn, budget>>
    BY <1>9 DEF VerifyAnswered, walletVars
  <2>2. v \in Tokens /\ v[1] \in Challenges
    BY DEF Tokens, Verifications
  <2>3. ASSUME verifying[v] = "issued" PROVE PageInv'
    <3>1. cookie' = v /\ Shows(Received(v), v)
      BY <1>9, <2>3 DEF VerifyAnswered
    <3>2. PICK p : p = Received(v)
      OBVIOUS
    <3>3. CASE Awaits(v)
      <4>1. p = [page EXCEPT !.token = v, !.stage = "loading"] /\ page.stage = "verify" /\ page.active = v[1]
        BY <3>2, <3>3 DEF Received, Awaits
      <4>2. p \in Pages /\ p.token = v /\ p.stage = "loading" /\ p.active = page.active
        BY <1>0, <2>2, <4>1 DEF Pages, Stages
      <4>3. sessions[v].status # "none" /\ sessions[v].address = challenges[v[1]].address
        BY <2>3 DEF SessionsNamed, AddressOf
      <4>4. challenges[v[1]].address = conn.address /\ page.active # None
        BY <1>0, <4>1, NamesAssumption DEF Fits
      <4>5. Fits(p, conn)
        BY <1>0, <4>1, <4>2, <4>3, <4>4 DEF Fits
      <4> QED
        BY <1>0, <2>1, <2>2, <3>1, <3>2, <4>2, <4>5, ShownFits
    <3>4. CASE ~Awaits(v)
      <4>1. p = [page EXCEPT !.dropped = {v}]
        BY <3>2, <3>4 DEF Received
      <4>2. p \in Pages /\ p.token = page.token /\ p.stage = page.stage /\ p.active = page.active
        BY <1>0, <2>2, <4>1 DEF Pages
      <4>3. Fits(p, conn)
        BY <1>0, <4>2 DEF Fits
      <4> QED
        BY <1>0, <2>1, <2>2, <3>1, <3>2, <4>2, <4>3, ShownFits
    <3> QED
      BY <3>3, <3>4
  <2>4. ASSUME verifying[v] # "issued" PROVE PageInv'
    <3>1. cookie' = cookie /\ Shows(IF Awaits(v) THEN Cleared(page) ELSE page, cookie)
      BY <1>9, <2>4 DEF VerifyAnswered
    <3> QED
      BY <1>0, <2>1, <3>1, ClearedFits, ShownFits
  <2> QED
    BY <2>3, <2>4
<1>10. ASSUME NEW v \in Verifications, VerifyLost(v) PROVE PageInv'
  <2>1. /\ Spends("faults") /\ UNCHANGED <<challenges, sessions, conn, cookie>>
        /\ Shows(IF Awaits(v) THEN Cleared(page) ELSE page, cookie)
    BY <1>10 DEF VerifyLost, walletVars
  <2>2. budget' \in [Bounded -> Nat] /\ budget'.logins <= MaxLogins
    BY <2>1, Spending DEF Bounded
  <2> QED
    BY <1>0, <2>1, <2>2, ClearedFits, ShownFits
<1>11. ASSUME NEW v \in Verifications, VerifyFails(v) PROVE PageInv'
  BY <1>0, <1>11, PageStays, Spending DEF VerifyFails, walletVars, Bounded
<1>12. ASSUME NEW v \in Verifications, UNCHANGED <<walletVars, page, cookie, logouts, budget>> PROVE PageInv'
  BY <1>0, <1>12, PageStays DEF walletVars
<1>13. ASSUME NEW l \in logouts, Logout(l) \/ LogoutLost(l) PROVE PageInv'
  <2>1. UNCHANGED <<conn, page>> /\ (cookie' = cookie \/ cookie' = None)
    BY <1>13 DEF Logout, ServeLogout, LogoutAnswered, LogoutLost, walletVars
  <2>2. budget' \in [Bounded -> Nat] /\ budget'.logins <= MaxLogins
    BY <1>0, <1>13, Spending DEF Logout, ServeLogout, LogoutAnswered, LogoutLost, Bounded
  <2>3. page.token \in Tokens \cup {None}
    BY <1>0 DEF Pages
  <2>4. page.stage \in {"signing", "stale", "verify"} => page.active \in Challenges
    BY <1>0, ChallengesAssumption DEF Fits
  <2>5. Fits(page, conn)'
    BY <1>0, <2>1, <2>3, <2>4 DEF Fits, LoginGoesOn
  <2> QED
    BY <1>0, <2>1, <2>2, <2>5 DEF PageInv
<1>14. ASSUME NEW a \in Addresses, DeviceSignsIn(a) PROVE PageInv'
  <2>1. UNCHANGED <<conn, page, cookie>>
    BY <1>14 DEF DeviceSignsIn, walletVars
  <2>2. budget' \in [Bounded -> Nat] /\ budget'.logins <= MaxLogins
    BY <1>0, <1>14, Spending DEF DeviceSignsIn, Bounded
  <2> QED
    BY <2>1, <2>2, PageStays
<1> QED
  BY <1>1, <1>2, <1>3, <1>4, <1>5, <1>6, <1>7, <1>8, <1>9, <1>10, <1>11, <1>12, <1>13, <1>14 DEF Login

-----------------------------------------------------------------------------
(* The wallet's events and answers.                                         *)

\* The login does nothing to the connection, but to give it up.
LEMMA LoginWallet ==
  ASSUME WalletInv, Login \/ Expiry \/ UNCHANGED vars
  PROVE  WalletInv'
<1>1. \/ UNCHANGED walletVars
      \/ conn' = None /\ events' = <<>> /\ reading' = None /\ UNCHANGED <<selected, connecting, saved>>
  BY DEF Login, SignIn, RequestChallenge, Sign, AttemptFails, AttemptTimesOut, Resume, Load, LoginExpires, SignOut,
     VerifyRepeated, VerifyAnswered, VerifyLost, VerifyFails, Logout, ServeLogout, LogoutAnswered, LogoutLost,
     DeviceSignsIn, PageOnly, Expiry, vars
<1>2. CASE UNCHANGED walletVars
  BY <1>2 DEF walletVars, WalletInv, WalletShape, OneConnection, EventsCatchUp
<1>3. CASE conn' = None /\ events' = <<>> /\ reading' = None /\ UNCHANGED <<selected, connecting, saved>>
  BY <1>3, NamesAssumption DEF WalletInv, WalletShape, OneConnection, EventsCatchUp
<1> QED
  BY <1>1, <1>2, <1>3

\* The end of a connection.
LEMMA DroppedWallet ==
  ASSUME WalletInv, conn' = None, events' = <<>>, reading' = None, UNCHANGED selected,
         \/ UNCHANGED <<connecting, saved>>
         \/ connecting' = TRUE /\ saved' = None
  PROVE  WalletInv'
<1>0. \A S : <<>> \in Seq(S)
  OBVIOUS
<1>1. WalletShape'
  BY <1>0 DEF WalletInv, WalletShape
<1>2. OneConnection'
  BY DEF WalletInv, OneConnection
<1>3. EventsCatchUp'
  BY NamesAssumption DEF WalletInv, EventsCatchUp
<1> QED
  BY <1>1, <1>2, <1>3 DEF WalletInv

LEMMA WalletWallet ==
  ASSUME WalletInv, Wallet
  PROVE  WalletInv'
<1> DEFINE Says == Identities \cup {Locked}
<1>0. /\ selected \in Says /\ conn \in Connections \cup {None} /\ events \in Seq(Says)
      /\ reading \in Says \cup {Asked, None} /\ saved \in Addresses \cup {None} /\ connecting \in BOOLEAN
      /\ Asked \notin Says /\ None \notin Says /\ Asked # None
  BY NamesAssumption DEF WalletInv, WalletShape
<1>1. ASSUME NEW to \in Says, Changes(to) PROVE WalletInv'
  <2>1. /\ selected' = to /\ UNCHANGED <<conn, reading, connecting, saved>>
        /\ events' = IF conn = None THEN events ELSE Append(events, to)
    BY <1>1 DEF Changes
  <2>2. CASE conn = None
    BY <1>0, <2>1, <2>2 DEF WalletInv, WalletShape, OneConnection, EventsCatchUp
  <2>3. CASE conn # None
    <3>1. events' \in Seq(Says) /\ events' # <<>> /\ events'[Len(events')] = to
      BY <1>0, <2>1, <2>3
    <3> QED
      BY <1>0, <2>1, <2>3, <3>1 DEF WalletInv, WalletShape, OneConnection, EventsCatchUp
  <2> QED
    BY <2>2, <2>3
<1>2. CASE Connect \/ ConnectFails
  <2>1. UNCHANGED <<selected, conn, events, reading>>
    BY <1>2 DEF Connect, ConnectFails
  <2> QED
    BY <1>2, <2>1 DEF Connect, ConnectFails, WalletInv, WalletShape, OneConnection, EventsCatchUp
<1>3. ASSUME NEW browser \in BOOLEAN, Connected(browser) PROVE WalletInv'
  <2>1. /\ selected \in Identities /\ conn = None /\ saved = None /\ connecting' = FALSE
        /\ conn' = [address |-> selected.address, arc |-> selected.arc, browser |-> browser, changing |-> FALSE]
        /\ events' = <<>> /\ UNCHANGED <<selected, reading, saved>> /\ reading = None
    BY <1>0, <1>3 DEF Connected, Reconnected, WalletInv, OneConnection
  <2>2. conn' \in Connections /\ conn'.address = selected.address /\ conn'.arc = selected.arc
    BY <2>1 DEF Connections, Identities
  <2> QED
    BY <1>0, <2>1, <2>2, NamesAssumption DEF WalletInv, WalletShape, OneConnection, EventsCatchUp
<1>4. ASSUME NEW browser \in BOOLEAN, RestoreWallet(browser) PROVE WalletInv'
  <2>1. conn = None /\ reading = None /\ events = <<>> /\ ~connecting /\ saved \in Addresses /\ saved' = None
        /\ UNCHANGED <<selected, reading, connecting>>
    BY <1>0, <1>4 DEF RestoreWallet, Reconnected, WalletInv, OneConnection
  <2>2. CASE selected.address = saved /\ (browser \/ selected.arc)
    <3>1. /\ conn' = [address |-> saved, arc |-> selected.arc, browser |-> browser, changing |-> FALSE]
          /\ events' = <<>>
      BY <1>4, <2>1, <2>2 DEF RestoreWallet, Reconnected
    <3>2. selected.arc \in BOOLEAN
      <4>1. CASE selected \in Identities
        BY <4>1 DEF Identities
      <4>2. CASE selected = Locked
        BY <4>2 DEF Locked
      <4> QED
        BY <1>0, <4>1, <4>2
    <3>3. conn' \in Connections /\ conn'.address = selected.address /\ conn'.arc = selected.arc
      BY <2>1, <2>2, <3>1, <3>2 DEF Connections
    <3> QED
      BY <1>0, <2>1, <3>1, <3>3, NamesAssumption DEF WalletInv, WalletShape, OneConnection, EventsCatchUp
  <2>3. CASE ~(selected.address = saved /\ (browser \/ selected.arc))
    <3>1. UNCHANGED <<conn, events>>
      BY <1>4, <2>3 DEF RestoreWallet
    <3> QED
      BY <1>0, <2>1, <3>1 DEF WalletInv, WalletShape, OneConnection, EventsCatchUp
  <2> QED
    BY <2>2, <2>3
<1>5. ASSUME NEW reason, Dropped(reason),
             UNCHANGED <<connecting, saved>> \/ (connecting' = TRUE /\ saved' = None)
      PROVE  WalletInv'
  BY <1>5, DroppedWallet DEF Dropped, Reconnected
<1>6. CASE HandleEvent
  <2>1. PICK e : e = Head(events)
    OBVIOUS
  <2>2. /\ conn \in Connections /\ conn # None /\ events # <<>> /\ e \in Says /\ Tail(events) \in Seq(Says)
        /\ UNCHANGED <<connecting, saved>>
        /\ Tail(events) = <<>> => e = selected
        /\ Tail(events) # <<>> => Tail(events)[Len(Tail(events))] = selected
    <3>1. conn \in Connections /\ conn # None /\ events # <<>> /\ UNCHANGED <<connecting, saved>>
      BY <1>0, <1>6 DEF HandleEvent
    <3>2. events[Len(events)] = selected
      BY <3>1 DEF WalletInv, EventsCatchUp
    <3>3. Len(events) \in Nat \ {0} /\ e = events[1] /\ e \in Says /\ Tail(events) \in Seq(Says)
          /\ Len(Tail(events)) = Len(events) - 1
          /\ \A i \in 1..(Len(events) - 1) : Tail(events)[i] = events[i + 1]
      BY <1>0, <2>1, <3>1
    <3>4. PICK rest : rest = Tail(events)
      OBVIOUS
    <3>5. PICK n : n = Len(events)
      OBVIOUS
    <3>6. rest \in Seq(Says) /\ Len(rest) = n - 1 /\ n \in Nat \ {0} /\ \A i \in 1..(n - 1) : rest[i] = events[i + 1]
      BY <3>3, <3>4, <3>5
    <3>7. rest = <<>> => e = selected
      <4> SUFFICES ASSUME rest = <<>> PROVE e = selected
        OBVIOUS
      <4>1. Len(rest) = 0
        OBVIOUS
      <4>2. n = 1
        BY <3>6, <4>1
      <4> QED
        BY <3>2, <3>3, <3>5, <4>2
    <3>8. rest # <<>> => rest[Len(rest)] = selected
      <4> SUFFICES ASSUME rest # <<>> PROVE rest[Len(rest)] = selected
        OBVIOUS
      <4>1. Len(rest) # 0
        BY <3>6
      <4>2. n - 1 \in 1..(n - 1) /\ n - 1 + 1 = n
        BY <3>6, <4>1
      <4>3. rest[n - 1] = events[n]
        BY <3>6, <4>2
      <4> QED
        BY <3>2, <3>5, <3>6, <4>3
    <3> QED
      BY <3>1, <3>3, <3>4, <3>7, <3>8
  <2>3. CASE conn.browser /\ e = Locked
    BY <1>5, <1>6, <2>1, <2>3 DEF HandleEvent, BrowserEvent
  <2>4. CASE conn.browser /\ e # Locked
    <3>1. /\ reading' = Asked /\ events' = Tail(events) /\ UNCHANGED selected
          /\ \/ UNCHANGED conn
             \/ conn' = [conn EXCEPT !.address = e.address, !.arc = e.arc, !.changing = TRUE]
      BY <1>6, <2>1, <2>4 DEF HandleEvent, BrowserEvent, Restarted
    <3>2. conn' \in Connections /\ conn'.browser /\ conn' # None
      <4>1. e \in Identities
        BY <2>2, <2>4
      <4>2. CASE UNCHANGED conn
        BY <2>2, <2>4, <4>2
      <4>3. CASE conn' = [conn EXCEPT !.address = e.address, !.arc = e.arc, !.changing = TRUE]
        <5>1. e.address \in Addresses /\ e.arc \in BOOLEAN
          BY <4>1 DEF Identities
        <5>2. conn' \in Connections /\ conn'.browser = conn.browser
          BY <2>2, <4>3, <5>1 DEF Connections
        <5> QED
          BY <2>4, <5>2, NamesAssumption
      <4> QED
        BY <3>1, <4>2, <4>3
    <3>3. events' \in Seq(Says) /\ (events' # <<>> => events'[Len(events')] = selected')
      BY <2>2, <3>1
    <3> QED
      BY <1>0, <2>2, <3>1, <3>2, <3>3 DEF WalletInv, WalletShape, OneConnection, EventsCatchUp
  <2>5. CASE ~conn.browser /\ e.address = conn.address /\ e.arc = conn.arc
    <3>1. events' = Tail(events) /\ UNCHANGED <<selected, conn, reading>> /\ reading = None
      BY <1>6, <2>1, <2>2, <2>5 DEF HandleEvent, PeerEvent, WalletInv, OneConnection
    <3>2. events' \in Seq(Says) /\ (events' # <<>> => events'[Len(events')] = selected')
      BY <2>2, <3>1
    <3>3. events' = <<>> => selected.address = conn.address /\ selected.arc = conn.arc
      BY <2>2, <2>5, <3>1
    <3> QED
      BY <1>0, <2>2, <3>1, <3>2, <3>3 DEF WalletInv, WalletShape, OneConnection, EventsCatchUp
  <2>6. CASE ~conn.browser /\ ~(e.address = conn.address /\ e.arc = conn.arc)
    BY <1>5, <1>6, <2>1, <2>6 DEF HandleEvent, PeerEvent
  <2> QED
    BY <2>3, <2>4, <2>5, <2>6
<1>7. CASE Read
  <2>1. reading = Asked /\ reading' = selected /\ UNCHANGED <<selected, conn, events, connecting, saved>>
    BY <1>7 DEF Read
  <2> QED
    BY <1>0, <2>1 DEF WalletInv, WalletShape, OneConnection, EventsCatchUp
<1>8. CASE Refresh
  <2>1. conn # None /\ reading \in Says /\ UNCHANGED <<connecting, saved>>
    BY <1>8 DEF Refresh
  <2>2. CASE reading = Locked
    BY <1>5, <1>8, <2>1, <2>2 DEF Refresh
  <2>3. CASE reading # Locked
    <3>1. /\ conn' = [conn EXCEPT !.address = reading.address, !.arc = reading.arc, !.changing = FALSE]
          /\ reading' = None /\ UNCHANGED selected /\ reading \in Identities
      BY <1>8, <2>1, <2>3 DEF Refresh, Reconnected
    <3>2. conn' \in Connections /\ conn' # None /\ conn'.address = reading.address /\ conn'.arc = reading.arc
      BY <1>0, <2>1, <3>1, NamesAssumption DEF Connections, Identities
    <3>3. events' = events
      BY <1>8, <2>1, <2>3, <3>1, <3>2 DEF Refresh, Reconnected
    <3> QED
      BY <1>0, <2>1, <3>1, <3>2, <3>3 DEF WalletInv, WalletShape, OneConnection, EventsCatchUp
  <2> QED
    BY <2>2, <2>3
<1>9. CASE RefreshFails \/ SessionEnds \/ ReconnectWithQr
  BY <1>5, <1>9 DEF RefreshFails, SessionEnds, ReconnectWithQr
<1>10. CASE Disconnect
  BY <1>10, DroppedWallet DEF Disconnect
<1> QED
  BY <1>1, <1>2, <1>3, <1>4, <1>6, <1>7, <1>8, <1>9, <1>10 DEF Wallet

-----------------------------------------------------------------------------
LEMMA WNext == WInv /\ [Next]_vars => WInv'
<1> SUFFICES ASSUME WInv, [Next]_vars PROVE WInv'
  OBVIOUS
<1>1. LInv' /\ LoginGoesOn /\ SessionsNamed'
  BY LNext, StepsOfLogin, LoginsGoOn DEF WInv
<1>2. WalletInv'
  BY LoginWallet, WalletWallet DEF WInv, Next
<1>3. PageInv'
  <2>1. CASE Wallet
    BY <2>1, WalletPage DEF WInv
  <2>2. CASE Login
    BY <1>1, <2>2, LoginPage DEF WInv
  <2>3. CASE Expiry
    BY <1>1, <2>3, PageStays, Spending DEF WInv, Expiry, walletVars, Bounded
  <2>4. CASE UNCHANGED vars
    BY <1>1, <2>4, PageStays DEF WInv, vars, walletVars, PageInv
  <2> QED
    BY <2>1, <2>2, <2>3, <2>4 DEF Next
<1> QED
  BY <1>1, <1>2, <1>3 DEF WInv

LEMMA WInit == Init => WInv
<1> SUFFICES ASSUME Init PROVE WInv
  OBVIOUS
<1>1. LInv
  BY LInit
<1>2. WalletInv
  <2>0. \A S : <<>> \in Seq(S)
    OBVIOUS
  <2>1. WalletShape
    <3>1. selected \in Identities
      BY BudgetsAssumption DEF Init, Identities
    <3> QED
      BY <2>0, <3>1 DEF Init, WalletShape
  <2>2. OneConnection /\ EventsCatchUp
    BY NamesAssumption DEF Init, OneConnection, EventsCatchUp
  <2> QED
    BY <2>1, <2>2 DEF WalletInv
<1>3. SessionsNamed
  <2>1. \A v \in Verifications : sessions[v] = NoSession /\ verifying[v] = "none"
    BY ChallengesAssumption DEF Init, LoginInit, Tokens
  <2> QED
    BY <2>1 DEF SessionsNamed, NoSession
<1>4. PageInv
  <2>1. page \in Pages /\ page.token = None /\ page.active = None /\ page.stage = "idle"
    BY DEF Init, Pages, Stages
  <2>2. budget \in [Bounded -> Nat] /\ budget.logins <= MaxLogins
    BY BudgetsAssumption DEF Init
  <2>3. cookie \in Tokens \cup {None}
    BY DEF Init, Tokens
  <2> QED
    BY <2>1, <2>2, <2>3, IdleFits DEF PageInv
<1> QED
  BY <1>1, <1>2, <1>3, <1>4 DEF WInv

\* A workspace is open only for the account the page is connected to, and with
\* its events handled that account is the wallet's, whatever sign-ins,
\* restorations, events, refreshes and answers overlap (the listener of
\* dashboard.ts, the revisions of wallet-session.ts).
THEOREM TokensMatchWallet == Spec => []TokenMatchesWallet
<1>1. WInv => TokenMatchesWallet
  BY DEF WInv, WalletInv, EventsCatchUp, PageInv, Fits, TokenMatchesWallet
<1>2. Spec => []WInv
  BY WInit, WNext, PTL DEF Spec
<1> QED
  BY <1>1, <1>2, PTL
=============================================================================
