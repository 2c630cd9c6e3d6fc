------------------------------- MODULE Ledger -------------------------------
(***************************************************************************)
(* What the contracts share: the balances of the two tokens (MockUSDC.sol, *)
(* ENCL.sol), the EIP-3009 transfer authorizations that payers sign in     *)
(* favour of the meter, and the block's timestamp. A call is one step: it  *)
(* takes effect or reverts, and every contract guards against reentrancy.  *)
(* Token allowances are those the caller gives for the call.               *)
(***************************************************************************)
EXTENDS Integers, Sums

CONSTANTS
  Users,       \* accounts of payers, providers and stakers
  Meter, Vault, Staking, Registry,   \* accounts of the contracts
  Treasury, Market,                  \* the vault's treasury, the router's pool
  Usdc0, Encl0,                      \* user -> balance at first
  Auths,       \* nonces of signed transfer authorizations to the meter
  AuthPayer, AuthAmount,             \* authorization -> signer, value
  MaxTime,     \* bound on the timestamps of the model
  DayLength    \* timestamps in a UTC day

Contracts == {Meter, Vault, Staking, Registry}
Accounts == Users \cup Contracts \cup {Treasury, Market}

ASSUME LedgerAssumption ==
  /\ Users \cap (Contracts \cup {Treasury, Market}) = {}
  /\ Contracts \cap {Treasury, Market} = {} /\ Treasury # Market
  /\ Meter # Vault /\ Meter # Staking /\ Meter # Registry
  /\ Vault # Staking /\ Vault # Registry /\ Staking # Registry
  /\ IsFiniteSet(Users) /\ IsFiniteSet(Auths)
  /\ Usdc0 \in [Users -> Nat] /\ Encl0 \in [Users -> Nat]
  /\ AuthPayer \in [Auths -> Users] /\ AuthAmount \in [Auths -> Nat \ {0}]
  /\ MaxTime \in Nat /\ DayLength \in Nat \ {0}

VARIABLES
  usdc, encl,  \* balanceOf
  auth,        \* authorizationState, a transfer told from a cancellation by its log
  now          \* block.timestamp

ledgerVars == <<usdc, encl, auth, now>>

LedgerTypeOK ==
  /\ usdc \in [Accounts -> Nat] /\ encl \in [Accounts -> Nat]
  /\ auth \in [Auths -> {"unused", "transferred", "canceled"}]
  /\ now \in 0..MaxTime

Funded(initial) == [a \in Accounts |-> IF a \in Users THEN initial[a] ELSE 0]

LedgerInit ==
  /\ usdc = Funded(Usdc0) /\ encl = Funded(Encl0)
  /\ auth = [a \in Auths |-> "unused"]
  /\ now = 0

Moved(balance, from, to, value) ==
  [[balance EXCEPT ![from] = @ - value] EXCEPT ![to] = @ + value]

TransferUsdc(from, to, value) ==
  usdc[from] >= value /\ usdc' = Moved(usdc, from, to, value)

TransferEncl(from, to, value) ==
  encl[from] >= value /\ encl' = Moved(encl, from, to, value)

Today == now \div DayLength

\* The payer, or whoever holds its authorization, hands it to the token itself.
Deposit(a) ==
  /\ auth[a] = "unused"
  /\ TransferUsdc(AuthPayer[a], Meter, AuthAmount[a])
  /\ auth' = [auth EXCEPT ![a] = "transferred"]
  /\ UNCHANGED <<encl, now>>

CancelAuthorization(a) ==
  /\ auth[a] = "unused"
  /\ auth' = [auth EXCEPT ![a] = "canceled"]
  /\ UNCHANGED <<usdc, encl, now>>

Tick ==
  /\ now < MaxTime /\ now' = now + 1
  /\ UNCHANGED <<usdc, encl, auth>>

Deposits == \E a \in Auths : Deposit(a) \/ CancelAuthorization(a)
=============================================================================
