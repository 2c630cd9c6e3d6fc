---------------------------- MODULE OnChainProofs ----------------------------
(***************************************************************************)
(* The contracts' properties, proved for any accounts, balances,           *)
(* authorizations, payments, listings, limits, precision and scenarios: the *)
(* vault holds what it reserved (ReserveBacked), a mandate's daily limit    *)
(* holds across midnight and changes (MandateHeld), each contract holds     *)
(* what it owes (ObligationsHeld), the meter's books are exact              *)
(* (BooksExact), and all stakers' rewards are covered (RewardsCovered). The *)
(* first needs that a provider's share never exceeds the payment, whatever  *)
(* listing it comes from; the second, that the day in the row is never      *)
(* ahead of the clock; the last, that what is accounted for covers the      *)
(* claims at full precision, of which rounding only ever takes away.        *)
(* The last sections are about the worker that follows the chain. A receipt *)
(* is left for review only after its transaction reverted                   *)
(* (FailedOnlyIfReverted), for any number of workers, recoveries and forks. *)
(* An active index is one branch above the height that a gap has hidden,    *)
(* and approves what its stored events say (IndexConsistent), for any       *)
(* models, windows, batches, forks, lags and failures: the index follows a  *)
(* branch above that height, its table is the replay of what it stored or   *)
(* approves nothing, and what a batch has read is right for as long as its  *)
(* last block is canonical. Without gaps nothing is hidden.                 *)
(***************************************************************************)
EXTENDS OnChain, Worker, SumsProofs, Sequences, TLAPS

-----------------------------------------------------------------------------
(* Arithmetic.                                                              *)

LEMMA DivFacts ==
  ASSUME NEW a \in Nat, NEW d \in Nat \ {0}
  PROVE  /\ a \div d \in Nat /\ a % d \in 0..(d - 1)
         /\ a = d * (a \div d) + (a % d)
  OBVIOUS

LEMMA ProductOrder ==
  ASSUME NEW a \in Nat, NEW b \in Nat, NEW c \in Nat, a <= b
  PROVE  c * a <= c * b /\ a * c <= b * c /\ c * a \in Nat
  OBVIOUS

LEMMA ShareOfProduct ==
  ASSUME NEW t \in Nat, NEW r \in Nat, t <= r * 10000
  PROVE  t \div 10000 \in 0..r
  OBVIOUS

LEMMA DivOrder ==
  ASSUME NEW a \in Nat, NEW b \in Nat, NEW d \in Nat \ {0}, a <= b
  PROVE  a \div d <= b \div d
  <1> DEFINE p == a \div d
             q == b \div d
  <1>1. p \in Nat /\ q \in Nat /\ d * p <= a /\ b < d * q + d
    <2>1. p \in Nat /\ a % d \in Nat /\ a = d * p + (a % d)
      BY DivFacts
    <2>2. q \in Nat /\ b % d \in 0..(d - 1) /\ b = d * q + (b % d)
      BY DivFacts
    <2>3. d * p \in Nat /\ d * q \in Nat
      BY <2>1, <2>2, ProductOrder
    <2> HIDE DEF p, q
    <2> QED
      BY <2>1, <2>2, <2>3
  <1> HIDE DEF p, q
  <1>2. ASSUME q + 1 <= p PROVE FALSE
    <2>1. d * (q + 1) <= d * p /\ d * (q + 1) = d * q + d /\ d * p \in Nat /\ d * q \in Nat
      BY <1>1, <1>2, ProductOrder
    <2> QED
      BY <1>1, <2>1
  <1> QED
    BY <1>1, <1>2 DEF p, q

LEMMA NatProduct ==
  ASSUME NEW a \in Nat, NEW b \in Nat
  PROVE  a * b \in Nat
OBVIOUS

LEMMA ProductCancel ==
  ASSUME NEW a \in Nat, NEW b \in Nat, NEW c \in Nat \ {0}, a * c <= b * c
  PROVE  a <= b
<1>1. SUFFICES ASSUME b + 1 <= a PROVE FALSE
  OBVIOUS
<1>2. (b + 1) * c <= a * c /\ (b + 1) * c = b * c + c /\ b * c \in Nat /\ a * c \in Nat
  BY <1>1, ProductOrder
<1> QED
  BY <1>2

BpsOf(amount, bps) == (amount * bps) \div 10000

LEMMA BpsShare ==
  ASSUME NEW amount \in Nat, NEW bps \in Nat, bps <= 10000
  PROVE  BpsOf(amount, bps) \in 0..amount
  <1> DEFINE t == amount * bps
  <1>1. t \in Nat /\ t <= amount * 10000
    BY ProductOrder
  <1> HIDE DEF t
  <1>2. t \div 10000 \in 0..amount
    BY <1>1, ShareOfProduct
  <1> QED
    BY <1>2 DEF t, BpsOf

\* UsageMeter.sol: the provider's share is part of the amount.
LEMMA FeeWithin ==
  ASSUME NEW amount \in Nat, NEW bps \in Nat, bps <= 10000
  PROVE  ProviderFee(amount, bps) \in 0..amount
  <1> DEFINE q == amount \div 10000
             r == amount % 10000
  <1>1. q \in Nat /\ r \in Nat /\ amount = 10000 * q + r
    BY DivFacts
  <1> HIDE DEF q, r
  <1>2. q * bps \in Nat /\ q * bps <= q * 10000
    BY <1>1, ProductOrder
  <1>4. BpsOf(r, bps) \in 0..r
    BY <1>1, BpsShare
  <1>5. ProviderFee(amount, bps) = q * bps + BpsOf(r, bps)
    BY DEF ProviderFee, BpsOf, q, r
  <1> DEFINE x == q * bps
             y == BpsOf(r, bps)
  <1>6. x \in Nat /\ x <= q * 10000 /\ y \in 0..r /\ ProviderFee(amount, bps) = x + y
    BY <1>2, <1>4, <1>5
  <1> HIDE DEF x, y
  <1> QED
    BY <1>1, <1>6

\* FeeVault.sol: what is distributed is split without remainder, and what is
\* kept back comes out of the treasury's share.
LEMMA SplitExact ==
  ASSUME NEW bal \in Nat, NEW bps \in Nat, bps <= 10000, reserveBps = bps
  PROVE  /\ Reserve(bal) \in 0..Share(bal, 80)
         /\ Share(bal, 80) \in Nat /\ Share(bal, 10) \in Nat /\ Share(bal, 5) \in Nat
         /\ Remainder(bal) \in Nat
  <1>1. Share(bal, 80) \in Nat /\ Share(bal, 10) \in Nat /\ Share(bal, 5) \in Nat
    BY DEF Share
  <1>2. Remainder(bal) \in Nat
    BY <1>1 DEF Share, Remainder
  <1> DEFINE s == Share(bal, 80)
  <1>3. s \in Nat
    BY <1>1
  <1> HIDE DEF s
  <1>5. BpsOf(s, bps) \in 0..s
    BY <1>3, BpsShare
  <1>6. Reserve(bal) = BpsOf(s, bps)
    BY DEF Reserve, BpsOf, s
  <1> QED
    BY <1>1, <1>2, <1>5, <1>6 DEF s

-----------------------------------------------------------------------------
(* A transfer.                                                              *)

IsMap(f) == f = [a \in Accounts |-> f[a]]

LEMMA MovedFacts ==
  ASSUME NEW f, IsMap(f), NEW x \in Accounts, NEW y \in Accounts, NEW value
  PROVE  /\ IsMap(Moved(f, x, y, value))
         /\ \A z \in Accounts \ {x, y} : Moved(f, x, y, value)[z] = f[z]
         /\ x # y => /\ Moved(f, x, y, value)[x] = f[x] - value
                     /\ Moved(f, x, y, value)[y] = f[y] + value
  BY DEF Moved, IsMap

LEMMA AccountsApart ==
  /\ Users \subseteq Accounts
  /\ {Meter, Vault, Staking, Registry, Treasury, Market} \subseteq Accounts
  /\ Users \cap {Meter, Vault, Staking, Registry, Treasury, Market} = {}
  /\ Meter \notin {Vault, Staking, Registry, Treasury, Market}
  /\ Vault \notin {Staking, Registry, Treasury, Market}
  /\ Staking \notin {Registry, Treasury, Market}
  /\ Registry \notin {Treasury, Market}
  BY LedgerAssumption DEF Accounts, Contracts

-----------------------------------------------------------------------------
(* The vault.                                                               *)

VaultInv ==
  /\ IsMap(usdc) /\ usdc[Vault] \in Nat /\ now \in 0..MaxTime
  /\ RegistryTypeOK /\ VaultTypeOK /\ ReserveBacked

\* What leaves the vault's own variables alone and pays into it, or moves
\* other accounts' money.
LEMMA VaultReceives ==
  ASSUME VaultInv, IsMap(usdc'), usdc'[Vault] \in Nat, usdc'[Vault] >= usdc[Vault],
         UNCHANGED vaultVars, now' \in 0..MaxTime, RegistryTypeOK'
  PROVE  VaultInv'
  BY DEF VaultInv, vaultVars, VaultTypeOK, ReserveBacked

LEMMA TransferBesideVault ==
  ASSUME VaultInv, NEW x \in Accounts, NEW y \in Accounts, NEW value, x # Vault, y # Vault,
         usdc' = Moved(usdc, x, y, value), UNCHANGED <<vaultVars, now, registryVars>>
  PROVE  VaultInv'
  <1>1. IsMap(usdc') /\ usdc'[Vault] = usdc[Vault]
    BY MovedFacts, AccountsApart DEF VaultInv
  <1>2. RegistryTypeOK'
    BY DEF VaultInv, registryVars, RegistryTypeOK, Listings
  <1> QED
    BY <1>1, <1>2, VaultReceives DEF VaultInv

LEMMA VaultUntouched ==
  ASSUME VaultInv, UNCHANGED <<usdc, vaultVars>>, now' \in 0..MaxTime, RegistryTypeOK'
  PROVE  VaultInv'
  BY VaultReceives DEF VaultInv

LEMMA TokensKeepVault == VaultInv /\ CallTokens => VaultInv'
  <1> SUFFICES ASSUME VaultInv, CallTokens PROVE VaultInv'
    OBVIOUS
  <1>0. UNCHANGED <<registryVars, vaultVars>>
    BY DEF CallTokens
  <1>1. RegistryTypeOK'
    BY <1>0 DEF VaultInv, registryVars, RegistryTypeOK, Listings
  <1>2. CASE Tick
    BY <1>0, <1>1, <1>2, VaultUntouched, LedgerAssumption DEF Tick, VaultInv
  <1>3. ASSUME NEW a \in Auths, Deposit(a) PROVE VaultInv'
    <2>1. AuthPayer[a] \in Accounts /\ AuthPayer[a] # Vault /\ Meter \in Accounts /\ Meter # Vault
      BY AccountsApart, LedgerAssumption
    <2>2. usdc' = Moved(usdc, AuthPayer[a], Meter, AuthAmount[a]) /\ now' = now
      BY <1>3 DEF Deposit, TransferUsdc
    <2> QED
      BY <1>0, <2>1, <2>2, TransferBesideVault
  <1>4. ASSUME NEW a \in Auths, CancelAuthorization(a) PROVE VaultInv'
    BY <1>0, <1>1, <1>4, VaultUntouched DEF CancelAuthorization, VaultInv
  <1> QED
    BY <1>2, <1>3, <1>4 DEF CallTokens, Deposits

LEMMA RegistryKeepsTypes ==
  ASSUME RegistryTypeOK, now \in 0..MaxTime, RegistryNext
  PROVE  RegistryTypeOK'
  <1> USE DEF RegistryTypeOK
  <1>1. ASSUME NEW m \in Models, NEW entry \in Listings, listing' = [listing EXCEPT ![m] = entry],
               local' = local
        PROVE  RegistryTypeOK'
    <2>1. Listings' = Listings
      BY DEF Listings
    <2> QED
      BY <1>1, <2>1
  <1>2. ASSUME NEW m \in Models, NEW u \in Users, NEW bps \in Shares,
               NEW policy \in Policies \cup {"none"}, List(u, m, bps, policy)
        PROVE  RegistryTypeOK'
    <2> DEFINE entry == [listed |-> TRUE, provider |-> u, at |-> now, bps |-> bps,
                       staked |-> ListingStake, approved |-> FALSE, revoked |-> FALSE,
                       policy |-> policy]
    <2>1. entry \in Listings
      BY DEF Listings
    <2>2. listing' = [listing EXCEPT ![m] = entry] /\ local' = local
      BY <1>2 DEF List
    <2> HIDE DEF entry
    <2> QED
      BY <1>1, <2>1, <2>2
  <1>3. ASSUME NEW m \in Models, listing[m].listed PROVE listing[m] \in Listings
    BY <1>3 DEF NoListing
  <1>4. ASSUME NEW m \in Models, Approve(m) \/ BootstrapApprove(m) PROVE RegistryTypeOK'
    <2>1. listing[m] \in Listings
      BY <1>3, <1>4 DEF Approve, BootstrapApprove, Approvable
    <2>2. [listing[m] EXCEPT !.approved = TRUE] \in Listings
      BY <2>1 DEF Listings
    <2>3. listing' = [listing EXCEPT ![m] = [listing[m] EXCEPT !.approved = TRUE]] /\ local' = local
      BY <1>4 DEF Approve, BootstrapApprove
    <2> QED
      BY <1>1, <2>2, <2>3
  <1>5. ASSUME NEW m \in Models, Revoke(m) PROVE RegistryTypeOK'
    <2>1. listing[m] \in Listings
      BY <1>3, <1>5 DEF Revoke
    <2>2. RevokedRow(listing[m]) \in Listings
      BY <2>1 DEF Listings, RevokedRow
    <2>3. listing' = [listing EXCEPT ![m] = RevokedRow(listing[m])] /\ local' = local
      BY <1>5 DEF Revoke
    <2> QED
      BY <1>1, <2>2, <2>3
  <1>6. ASSUME NEW m \in Models, BootstrapRestore(m) PROVE RegistryTypeOK'
    <2>1. listing[m] \in Listings
      BY <1>3, <1>6 DEF BootstrapRestore
    <2> DEFINE entry == [[listing[m] EXCEPT !.revoked = FALSE] EXCEPT !.approved = TRUE]
    <2>2. entry \in Listings
      BY <2>1 DEF Listings
    <2>3. listing' = [listing EXCEPT ![m] = entry] /\ local' = local
      BY <1>6 DEF BootstrapRestore
    <2> HIDE DEF entry
    <2> QED
      BY <1>1, <2>2, <2>3
  <1> QED
    BY <1>2, <1>4, <1>5, <1>6 DEF RegistryNext

LEMMA RegistryKeepsVault == VaultInv /\ CallRegistry => VaultInv'
  <1> SUFFICES ASSUME VaultInv, CallRegistry PROVE VaultInv'
    OBVIOUS
  <1>1. RegistryTypeOK' /\ UNCHANGED <<usdc, now, vaultVars>>
    BY RegistryKeepsTypes DEF VaultInv, CallRegistry, RegistryNext, List, Approve, BootstrapApprove,
                              Revoke, BootstrapRestore, ledgerVars
  <1> QED
    BY <1>1, VaultUntouched DEF VaultInv

LEMMA PaymentKeepsVault ==
  ASSUME VaultInv, NEW p \in Payments, NEW from \in Accounts, from # Vault, Pays(p, from),
         UNCHANGED <<vaultVars, registryVars, now>>
  PROVE  VaultInv'
  <1> DEFINE m == Terms[p].model
             amount == Terms[p].amount
  <1>1. amount \in Nat /\ m \in Models \cup {NoModel}
    BY MeterAssumption
  <1>2. RegistryTypeOK' /\ now' \in 0..MaxTime
    BY DEF VaultInv, registryVars, RegistryTypeOK, Listings
  <1>3. CASE m = NoModel
    <2>1. usdc' = Moved(usdc, from, Vault, amount)
      BY <1>3 DEF Pays
    <2>2. IsMap(usdc') /\ usdc'[Vault] = usdc[Vault] + amount
      BY <2>1, MovedFacts, AccountsApart DEF VaultInv
    <2> QED
      BY <1>1, <1>2, <2>2, VaultReceives DEF VaultInv
  <1>4. CASE m # NoModel
    <2> DEFINE fee == ProviderFee(amount, listing[m].bps)
               provider == listing[m].provider
               paid == Moved(usdc, from, provider, fee)
    <2>1. usdc' = Moved(paid, from, Vault, amount - fee) /\ IsApproved(m)
      BY <1>4 DEF Pays
    <2>2. provider \in Users /\ listing[m].bps \in Nat /\ listing[m].bps <= 10000
      <3>1. listing[m].listed /\ listing[m] \in Listings \cup {NoListing}
        BY <1>1, <1>4, <2>1 DEF VaultInv, RegistryTypeOK, IsApproved
      <3>2. listing[m] \in Listings
        <4>1. NoListing.listed = FALSE
          BY DEF NoListing
        <4> QED
          BY <3>1, <4>1
      <3>3. \A entry \in Listings : entry.provider \in Users /\ entry.bps \in Shares
        BY DEF Listings
      <3> QED
        BY <3>2, <3>3, RegistryAssumption
    <2>3. fee \in 0..amount
      <3> DEFINE bps == listing[m].bps
      <3>1. amount \in Nat /\ bps \in Nat /\ bps <= 10000
        BY <1>1, <2>2
      <3> HIDE DEF amount, bps
      <3>2. ProviderFee(amount, bps) \in 0..amount
        BY <3>1, FeeWithin
      <3> QED
        BY <3>2 DEF bps
    <2>4. IsMap(paid) /\ paid[Vault] = usdc[Vault]
      BY <2>2, MovedFacts, AccountsApart DEF VaultInv
    <2>5. IsMap(usdc') /\ usdc'[Vault] = paid[Vault] + (amount - fee)
      <3> HIDE DEF paid, fee
      <3> QED
        BY <2>1, <2>4, MovedFacts, AccountsApart
    <2>6. usdc'[Vault] \in Nat /\ usdc'[Vault] >= usdc[Vault]
      <3> HIDE DEF paid, fee, amount
      <3> QED
        BY <1>1, <2>3, <2>4, <2>5 DEF VaultInv
    <2> QED
      BY <1>2, <2>5, <2>6, VaultReceives
  <1> QED
    BY <1>3, <1>4

LEMMA MeterKeepsVault == VaultInv /\ CallMeter => VaultInv'
  <1> SUFFICES ASSUME VaultInv, CallMeter PROVE VaultInv'
    OBVIOUS
  <1>1. UNCHANGED vaultVars
    BY DEF CallMeter
  <1>2. ASSUME NEW p \in Payments, NEW from \in Users \cup {Meter}, Settles(p, from)
        PROVE  VaultInv'
    BY <1>1, <1>2, PaymentKeepsVault, AccountsApart DEF Settles
  <1>3. ASSUME UNCHANGED <<registryVars, ledgerVars>> PROVE VaultInv'
    <2>1. RegistryTypeOK' /\ now' \in 0..MaxTime
      BY <1>3 DEF VaultInv, registryVars, ledgerVars, RegistryTypeOK, Listings
    <2> QED
      BY <1>1, <1>3, <2>1, VaultUntouched DEF ledgerVars
  <1>4. \A p \in Payments : Terms[p].payer \in Users
    BY MeterAssumption
  <1> QED
    BY <1>2, <1>3, <1>4 DEF CallMeter, MeterNext, SettleOnce, SettleTransferAuthorized,
                            SettlePrepaidTransfer, SettleConfidential, Configure

LEMMA StakingKeepsVault == VaultInv /\ CallStaking => VaultInv'
  <1> SUFFICES ASSUME VaultInv, CallStaking PROVE VaultInv'
    OBVIOUS
  <1>1. UNCHANGED <<registryVars, vaultVars>>
    BY DEF CallStaking
  <1>2. CASE UNCHANGED <<usdc, now>>
    <2>1. RegistryTypeOK' /\ now' \in 0..MaxTime
      BY <1>1, <1>2 DEF VaultInv, registryVars, RegistryTypeOK, Listings
    <2> QED
      BY <1>1, <1>2, <2>1, VaultUntouched
  <1>3. ASSUME NEW y \in Users \cup {Treasury}, NEW value, TransferUsdc(Staking, y, value), now' = now
        PROVE  VaultInv'
    BY <1>1, <1>3, TransferBesideVault, AccountsApart DEF TransferUsdc
  <1>4. CASE UNCHANGED ledgerVars
    BY <1>2, <1>4 DEF ledgerVars
  <1> QED
    BY <1>2, <1>3, <1>4 DEF CallStaking, StakingNext, SyncRewards, ConfigureRewards, ClaimRewards,
                            Stake, Unstake, RecoverUnallocated

LEMMA DistributionKeepsVault ==
  ASSUME VaultInv, Distribute, UNCHANGED registryVars
  PROVE  VaultInv'
  <1> DEFINE bal == Distributable
             s80 == Share(bal, 80)
             s10 == Share(bal, 10)
             s5 == Share(bal, 5)
             rest == Remainder(bal)
             kept == Reserve(bal)
             one == Moved(usdc, Vault, Treasury, s80 - kept)
             two == Moved(one, Vault, Staking, s10)
             three == Moved(two, Vault, Providers, s5)
  <1>1. bal \in Nat /\ reserveBps \in Nat /\ reserveBps <= 10000
    BY VaultAssumption DEF VaultInv, VaultTypeOK, Distributable, ReserveBacked
  <1>2. /\ kept \in 0..s80 /\ s80 \in Nat /\ s10 \in Nat /\ s5 \in Nat /\ rest \in Nat
        /\ rest = bal - s80 - s10 - s5
    <2>1. rest = bal - s80 - s10 - s5
      BY DEF Remainder
    <2> HIDE DEF bal
    <2> QED
      BY <1>1, <2>1, SplitExact
  <1>3. usdc' = Moved(three, Vault, Ecosystem, rest) /\ reserved' = reserved + kept
    BY DEF Distribute
  <1>4. /\ Providers \in Accounts /\ Ecosystem \in Accounts /\ Providers # Vault /\ Ecosystem # Vault
        /\ Vault \in Accounts /\ Treasury \in Accounts /\ Staking \in Accounts
        /\ Vault # Treasury /\ Vault # Staking
    BY AccountsApart, VaultAssumption
  <1>5. IsMap(one) /\ one[Vault] = usdc[Vault] - (s80 - kept)
    BY <1>4, MovedFacts DEF VaultInv
  <1>6. IsMap(two) /\ two[Vault] = one[Vault] - s10
    <2> HIDE DEF one
    <2> QED BY <1>4, <1>5, MovedFacts
  <1>7. IsMap(three) /\ three[Vault] = two[Vault] - s5
    <2> HIDE DEF two
    <2> QED BY <1>4, <1>6, MovedFacts
  <1>8. IsMap(usdc') /\ usdc'[Vault] = three[Vault] - rest
    <2> HIDE DEF three
    <2> QED BY <1>3, <1>4, <1>7, MovedFacts
  <1>9. bal = usdc[Vault] - reserved /\ usdc[Vault] \in Nat /\ reserved \in Nat
    BY DEF Distributable, VaultInv, VaultTypeOK
  <1>10. usdc'[Vault] = reserved' /\ reserved' \in Nat
    <2> HIDE DEF bal, s80, s10, s5, rest, kept, one, two, three
    <2> QED BY <1>2, <1>3, <1>5, <1>6, <1>7, <1>8, <1>9
  <1>11. RegistryTypeOK' /\ now' \in 0..MaxTime
    BY DEF VaultInv, registryVars, RegistryTypeOK, Listings, Distribute
  <1>12. VaultTypeOK'
    BY <1>10 DEF Distribute, VaultInv, VaultTypeOK
  <1> QED
    BY <1>8, <1>10, <1>11, <1>12 DEF VaultInv, ReserveBacked

LEMMA VaultKeepsVault == VaultInv /\ CallVault => VaultInv'
  <1> SUFFICES ASSUME VaultInv, CallVault PROVE VaultInv'
    OBVIOUS
  <1>1. UNCHANGED registryVars
    BY DEF CallVault
  <1>2. now' = now => RegistryTypeOK' /\ now' \in 0..MaxTime
    BY <1>1 DEF VaultInv, registryVars, RegistryTypeOK, Listings
  <1>3. CASE SetSplit \/ ConfigureBuyback \/ \E bps \in ReserveBps : SetBuybackReserveBps(bps)
    BY <1>2, <1>3 DEF SetSplit, ConfigureBuyback, SetBuybackReserveBps, ledgerVars,
                      VaultInv, VaultTypeOK, ReserveBacked
  <1>4. CASE Distribute
    BY <1>1, <1>4, DistributionKeepsVault
  <1>5. ASSUME NEW amountIn \in 1..reserved, ExecuteBuyback(amountIn)
        PROVE  VaultInv'
    <2>1. usdc' = Moved(usdc, Vault, Market, amountIn) /\ reserved' = reserved - amountIn /\ now' = now
          /\ UNCHANGED <<split, routed, reserveBps>>
      BY <1>5 DEF ExecuteBuyback, TransferUsdc
    <2>2. IsMap(usdc') /\ usdc'[Vault] = usdc[Vault] - amountIn
      BY <2>1, MovedFacts, AccountsApart DEF VaultInv
    <2>3. reserved \in Nat /\ usdc[Vault] \in Nat /\ reserved <= usdc[Vault] /\ amountIn \in Nat
          /\ amountIn <= reserved
      BY DEF VaultInv, VaultTypeOK, ReserveBacked
    <2>4. reserved' \in Nat /\ usdc'[Vault] \in Nat /\ reserved' <= usdc'[Vault]
      BY <2>1, <2>2, <2>3
    <2>5. VaultTypeOK'
      BY <2>1, <2>4 DEF VaultInv, VaultTypeOK
    <2> QED
      BY <1>2, <2>1, <2>2, <2>4, <2>5 DEF VaultInv, ReserveBacked
  <1> QED
    BY <1>3, <1>4, <1>5 DEF CallVault, VaultNext

LEMMA VaultInvInit == Init => VaultInv
  <1> SUFFICES ASSUME Init PROVE VaultInv
    OBVIOUS
  <1>1. IsMap(usdc) /\ usdc[Vault] = 0
    BY AccountsApart DEF Init, LedgerInit, Funded, IsMap
  <1>2. now \in 0..MaxTime
    BY LedgerAssumption DEF Init, LedgerInit
  <1>3. RegistryTypeOK
    BY DEF Init, RegistryInit, RegistryTypeOK
  <1>4. VaultTypeOK
    BY DEF Init, VaultInit, VaultTypeOK
  <1> QED
    BY <1>1, <1>2, <1>3, <1>4 DEF VaultInv, ReserveBacked, Init, VaultInit

LEMMA VaultInvNext == VaultInv /\ [Next]_allVars => VaultInv'
  <1> SUFFICES ASSUME VaultInv, [Next]_allVars PROVE VaultInv'
    OBVIOUS
  <1>1. CASE UNCHANGED allVars
    <2>1. UNCHANGED <<usdc, now, registryVars, vaultVars>>
      BY <1>1 DEF allVars, ledgerVars
    <2>2. RegistryTypeOK' /\ now' \in 0..MaxTime
      BY <2>1 DEF VaultInv, registryVars, RegistryTypeOK, Listings
    <2> QED
      BY <2>1, <2>2, VaultUntouched
  <1>2. CASE CallMandate
    <2>1. UNCHANGED <<usdc, now, registryVars, vaultVars>>
      BY <1>2 DEF CallMandate, MandateNext, Open, Spend, ledgerVars
    <2>2. RegistryTypeOK' /\ now' \in 0..MaxTime
      BY <2>1 DEF VaultInv, registryVars, RegistryTypeOK, Listings
    <2> QED
      BY <2>1, <2>2, VaultUntouched
  <1> QED
    BY <1>1, <1>2, TokensKeepVault, RegistryKeepsVault, MeterKeepsVault, VaultKeepsVault,
       StakingKeepsVault DEF Next

\* FeeVault.sol: whatever is collected, distributed or bought, in any order, the
\* vault holds the USDC it has reserved for buybacks.
THEOREM VaultHoldsReserve == Spec => []ReserveBacked
  <1>1. VaultInv => ReserveBacked
    BY DEF VaultInv
  <1> QED
    BY <1>1, VaultInvInit, VaultInvNext, PTL DEF Spec

-----------------------------------------------------------------------------
(* The mandates.                                                            *)

\* The row's day is never ahead of the clock; it holds what was spent on that
\* day, nothing has been spent on a later one, and an agent that nobody owns
\* has spent nothing.
DayInv(g) ==
  LET entry == mandate[g] IN
  /\ entry.dayKey <= Today /\ spentOn[g][entry.dayKey] = entry.spentToday
  /\ \A d \in Days : d > entry.dayKey => spentOn[g][d] = 0
  /\ entry.owner = NoOwner => entry.spentToday = 0 /\ \A d \in Days : spentOn[g][d] = 0

MandateInv == now \in 0..MaxTime /\ MandateTypeOK /\ \A g \in Agents : DayInv(g)

LEMMA TodayFacts ==
  ASSUME now \in 0..MaxTime
  PROVE  /\ Today \in Nat /\ Today \in Days
         /\ \A d \in Nat : d <= Today => d \in Days
  <1> DEFINE last == MaxTime \div DayLength
  <1>0. now \in Nat /\ MaxTime \in Nat /\ now <= MaxTime /\ DayLength \in Nat \ {0}
    BY LedgerAssumption
  <1>1. Today \in Nat /\ last \in Nat /\ Today <= last
    BY <1>0, DivFacts, DivOrder DEF Today
  <1> HIDE DEF last
  <1>2. Today \in 0..last /\ \A d \in Nat : d <= Today => d \in 0..last
    BY <1>1
  <1> QED
    BY <1>1, <1>2 DEF Days, last

LEMMA ClockKeepsMandates ==
  ASSUME MandateInv, UNCHANGED mandateVars, now' \in 0..MaxTime, now <= now'
  PROVE  MandateInv'
  <1>0. now \in Nat /\ now' \in Nat /\ DayLength \in Nat \ {0}
    BY LedgerAssumption DEF MandateInv
  <1>1. Today <= Today' /\ Today \in Nat /\ Today' \in Nat
    BY <1>0, DivOrder, DivFacts DEF Today
  <1>2. MandateTypeOK'
    BY DEF MandateInv, MandateTypeOK, mandateVars, Days
  <1>3. ASSUME NEW g \in Agents PROVE DayInv(g)'
    <2>1. mandate[g].dayKey \in Nat /\ mandate' = mandate /\ spentOn' = spentOn /\ DayInv(g)
      BY DEF MandateInv, MandateTypeOK, mandateVars
    <2> QED
      BY <1>1, <2>1 DEF DayInv
  <1> QED
    BY <1>2, <1>3 DEF MandateInv

\* A step that leaves the other agents alone need only care for one.
LEMMA OneAgent ==
  ASSUME MandateInv, NEW g \in Agents, now' = now, MandateTypeOK', DayInv(g)',
         \A h \in Agents \ {g} : mandate'[h] = mandate[h] /\ spentOn'[h] = spentOn[h]
  PROVE  MandateInv'
  <1>1. Today' = Today /\ Days' = Days
    BY DEF Today, Days
  <1>2. ASSUME NEW h \in Agents \ {g} PROVE DayInv(h)'
    BY <1>1 DEF MandateInv, DayInv
  <1> QED
    BY <1>2 DEF MandateInv

LEMMA OpenKeepsMandates ==
  ASSUME MandateInv, NEW u \in Users, NEW g \in Agents, NEW limit \in Limits, Open(u, g, limit)
  PROVE  MandateInv'
  <1> DEFINE day == IF mandate[g].owner = NoOwner THEN Today ELSE mandate[g].dayKey
             entry == [mandate[g] EXCEPT !.owner = u, !.dailyLimit = limit, !.dayKey = day]
  <1>1. mandate' = [mandate EXCEPT ![g] = entry] /\ UNCHANGED <<spentOn, now>>
    BY DEF Open, ledgerVars
  <1>2. mandate[g] \in [owner : Users \cup {NoOwner}, dailyLimit : Nat, spentToday : Nat, dayKey : Nat]
    BY DEF MandateInv, MandateTypeOK
  <1>3. Today \in Nat /\ Today \in Days /\ now \in 0..MaxTime
    BY TodayFacts DEF MandateInv
  <1>4. /\ entry.owner = u /\ entry.dayKey = day /\ entry.spentToday = mandate[g].spentToday
        /\ entry \in [owner : Users \cup {NoOwner}, dailyLimit : Nat, spentToday : Nat, dayKey : Nat]
    BY <1>2, <1>3, MandateAssumption
  <1> HIDE DEF entry
  <1>5. MandateTypeOK' /\ mandate'[g] = entry
    BY <1>1, <1>4 DEF MandateInv, MandateTypeOK, Days
  <1>6. DayInv(g)'
    <2>1. Today' = Today /\ DayInv(g) /\ u # NoOwner
      BY <1>1, MandateAssumption DEF MandateInv, Today
    <2>2. spentOn[g] \in [Days -> Nat]
      BY DEF MandateInv, MandateTypeOK
    <2> QED
      BY <1>1, <1>2, <1>3, <1>4, <1>5, <2>1, <2>2 DEF DayInv, Days
  <1>7. \A h \in Agents \ {g} : mandate'[h] = mandate[h] /\ spentOn'[h] = spentOn[h]
    BY <1>1 DEF MandateInv, MandateTypeOK
  <1> QED
    BY <1>1, <1>5, <1>6, <1>7, OneAgent

\* A spending adds to today's sum, and what it adds to is the row's.
LEMMA SpendsKeepsMandates ==
  ASSUME MandateInv, NEW g \in Agents, NEW payer \in Users, NEW amount \in Nat,
         Spends(g, payer, amount), now' = now
  PROVE  /\ MandateInv'
         /\ \A h \in Agents : \A d \in Days :
              spentOn'[h][d] # spentOn[h][d] => spentOn'[h][d] <= mandate[h].dailyLimit
  <1> DEFINE entry == Rolled(mandate[g])
             next == [entry EXCEPT !.spentToday = @ + amount]
  <1>1. mandate[g] \in [owner : Users \cup {NoOwner}, dailyLimit : Nat, spentToday : Nat, dayKey : Nat]
    BY DEF MandateInv, MandateTypeOK
  <1>2. Today \in Nat /\ Today \in Days /\ now \in 0..MaxTime
    BY TodayFacts DEF MandateInv
  <1>3. /\ entry \in [owner : Users \cup {NoOwner}, dailyLimit : Nat, spentToday : Nat, dayKey : Nat]
        /\ entry.dayKey = Today /\ entry.dailyLimit = mandate[g].dailyLimit /\ entry.owner = payer
        /\ entry.spentToday = spentOn[g][Today]
    <2>1. DayInv(g) /\ mandate[g].owner = payer
      BY DEF MandateInv, Spends
    <2>2. CASE mandate[g].dayKey = Today
      BY <1>1, <2>1, <2>2 DEF Rolled, DayInv
    <2>3. CASE mandate[g].dayKey # Today
      <3>1. entry = [mandate[g] EXCEPT !.spentToday = 0, !.dayKey = Today]
        BY <2>3 DEF Rolled
      <3>2. mandate[g].dayKey < Today /\ spentOn[g][Today] = 0
        BY <1>1, <1>2, <2>1, <2>3 DEF DayInv
      <3> HIDE DEF entry
      <3> QED
        BY <1>1, <1>2, <2>1, <3>1, <3>2
    <2> QED
      BY <2>2, <2>3
  <1>4. /\ entry.spentToday + amount <= entry.dailyLimit
        /\ mandate' = [mandate EXCEPT ![g] = next]
        /\ spentOn' = [spentOn EXCEPT ![g][Today] = spentOn[g][Today] + amount]
    BY DEF Spends
  <1> HIDE DEF entry
  <1>5. /\ next \in [owner : Users \cup {NoOwner}, dailyLimit : Nat, spentToday : Nat, dayKey : Nat]
        /\ next.dayKey = Today /\ next.owner = payer /\ next.spentToday = entry.spentToday + amount
    BY <1>3
  <1> HIDE DEF next
  <1>6. spentOn[g] \in [Days -> Nat] /\ spentOn[g][Today] + amount \in Nat
    BY <1>2 DEF MandateInv, MandateTypeOK
  <1>7. /\ spentOn'[g] = [spentOn[g] EXCEPT ![Today] = spentOn[g][Today] + amount]
        /\ mandate'[g] = next
        /\ \A h \in Agents \ {g} : mandate'[h] = mandate[h] /\ spentOn'[h] = spentOn[h]
    BY <1>4 DEF MandateInv, MandateTypeOK
  <1>8. /\ spentOn'[g][Today] = spentOn[g][Today] + amount
        /\ \A d \in Days : d # Today => spentOn'[g][d] = spentOn[g][d]
    BY <1>2, <1>6, <1>7
  <1>9. MandateTypeOK'
    <2>1. [spentOn[g] EXCEPT ![Today] = spentOn[g][Today] + amount] \in [Days -> Nat]
      BY <1>2, <1>6
    <2>2. spentOn' = [spentOn EXCEPT ![g] = [spentOn[g] EXCEPT ![Today] = spentOn[g][Today] + amount]]
      BY <1>4
    <2>3. spentOn' \in [Agents -> [Days -> Nat]]
      BY <2>1, <2>2 DEF MandateInv, MandateTypeOK
    <2> QED
      BY <1>4, <1>5, <2>3 DEF MandateInv, MandateTypeOK, Days
  <1>10. DayInv(g)'
    <2>1. DayInv(g) /\ Today' = Today /\ payer # NoOwner
      BY MandateAssumption DEF MandateInv, Today
    <2>2. \A d \in Days : d \in Nat
      BY LedgerAssumption DEF Days
    <2>3. mandate[g].dayKey \in Nat /\ mandate[g].dayKey <= Today
      BY <1>1, <2>1 DEF DayInv
    <2>4. \A d \in Days : d > Today => spentOn'[g][d] = 0
      BY <1>2, <1>8, <2>1, <2>2, <2>3 DEF DayInv
    <2> QED
      BY <1>2, <1>3, <1>5, <1>7, <1>8, <2>1, <2>4 DEF DayInv, Days
  <1>11. MandateInv'
    BY <1>7, <1>9, <1>10, OneAgent
  <1> QED
    BY <1>3, <1>4, <1>7, <1>8, <1>11

LEMMA MandateStep ==
  ASSUME MandateInv, [Next]_allVars
  PROVE  /\ MandateInv'
         /\ \A g \in Agents : \A d \in Days :
              spentOn'[g][d] # spentOn[g][d] => spentOn'[g][d] <= mandate[g].dailyLimit
  <1>1. ASSUME UNCHANGED mandateVars, now' \in 0..MaxTime, now <= now'
        PROVE  /\ MandateInv' /\ spentOn' = spentOn
    <2>1. MandateInv'
      BY <1>1, ClockKeepsMandates
    <2>2. spentOn' = spentOn
      BY <1>1 DEF mandateVars
    <2> QED
      BY <2>1, <2>2
  <1>2. CASE CallTokens
    <2>1. UNCHANGED mandateVars /\ (now' = now \/ (now < MaxTime /\ now' = now + 1))
      BY <1>2 DEF CallTokens, Tick, Deposits, Deposit, CancelAuthorization
    <2>2. now' \in 0..MaxTime /\ now <= now'
      BY <2>1, LedgerAssumption DEF MandateInv
    <2> QED
      BY <1>1, <2>1, <2>2
  <1>3. ASSUME UNCHANGED mandateVars, now' = now
        PROVE  /\ MandateInv' /\ spentOn' = spentOn
    <2>1. now' \in 0..MaxTime /\ now <= now'
      BY <1>3, LedgerAssumption DEF MandateInv
    <2> QED
      BY <1>1, <1>3, <2>1
  <1>4. CASE CallRegistry
    BY <1>3, <1>4 DEF CallRegistry, RegistryNext, List, Approve, BootstrapApprove, Revoke,
                      BootstrapRestore, ledgerVars
  <1>5. CASE CallVault
    BY <1>3, <1>5 DEF CallVault, VaultNext, SetSplit, ConfigureBuyback, SetBuybackReserveBps,
                      Distribute, ExecuteBuyback, ledgerVars
  <1>6. CASE CallStaking
    BY <1>3, <1>6 DEF CallStaking, StakingNext, SyncRewards, ConfigureRewards, ClaimRewards,
                      Stake, Unstake, RecoverUnallocated, ledgerVars
  <1>7. CASE UNCHANGED allVars
    BY <1>3, <1>7 DEF allVars, ledgerVars
  <1>8. CASE CallMandate
    <2>1. ASSUME NEW u \in Users, NEW g \in Agents, NEW limit \in Limits, Open(u, g, limit)
          PROVE  MandateInv' /\ spentOn' = spentOn
      BY <2>1, OpenKeepsMandates DEF Open
    <2>2. ASSUME NEW u \in Users, NEW g \in Agents, NEW amount \in Spendings, Spend(u, g, amount)
          PROVE  /\ MandateInv'
                 /\ \A h \in Agents : \A d \in Days :
                      spentOn'[h][d] # spentOn[h][d] => spentOn'[h][d] <= mandate[h].dailyLimit
      <3>1. amount \in Nat /\ Spends(g, u, amount) /\ now' = now
        BY <2>2, MandateAssumption DEF Spend, ledgerVars
      <3> QED
        BY <3>1, SpendsKeepsMandates
    <2> QED
      BY <1>8, <2>1, <2>2 DEF CallMandate, MandateNext
  <1>9. CASE CallMeter
    <2>1. ASSUME NEW p \in Payments, NEW from, Settles(p, from)
          PROVE  /\ MandateInv'
                 /\ \A h \in Agents : \A d \in Days :
                      spentOn'[h][d] # spentOn[h][d] => spentOn'[h][d] <= mandate[h].dailyLimit
      <3>1. MandatePays(p) /\ now' = now
        BY <2>1 DEF Settles
      <3>2. CASE Terms[p].agent = NoAgent
        BY <1>3, <3>1, <3>2 DEF MandatePays
      <3>3. CASE Terms[p].agent # NoAgent
        <4>1. Terms[p].agent \in Agents /\ Terms[p].payer \in Users /\ Terms[p].amount \in Nat
          BY <3>3, MeterAssumption
        <4>2. Spends(Terms[p].agent, Terms[p].payer, Terms[p].amount)
          BY <3>1, <3>3 DEF MandatePays
        <4> QED
          BY <3>1, <4>1, <4>2, SpendsKeepsMandates
      <3> QED
        BY <3>2, <3>3
    <2>2. ASSUME UNCHANGED <<mandateVars, ledgerVars>> PROVE MandateInv' /\ spentOn' = spentOn
      BY <1>3, <2>2 DEF ledgerVars
    <2> QED
      BY <1>9, <2>1, <2>2 DEF CallMeter, MeterNext, SettleOnce, SettleTransferAuthorized,
                              SettlePrepaidTransfer, SettleConfidential, Configure
  <1> QED
    BY <1>2, <1>4, <1>5, <1>6, <1>7, <1>8, <1>9 DEF Next

LEMMA MandateInvInit == Init => MandateInv
  <1> SUFFICES ASSUME Init PROVE MandateInv
    OBVIOUS
  <1>1. now = 0 /\ now \in 0..MaxTime
    BY LedgerAssumption DEF Init, LedgerInit
  <1>2. MandateTypeOK
    BY DEF Init, MandateInit, MandateTypeOK
  <1>3. 0 \in Days /\ Today \in Nat
    BY <1>1, TodayFacts
  <1>4. ASSUME NEW g \in Agents PROVE DayInv(g)
    <2>1. /\ mandate[g].dayKey = 0 /\ mandate[g].spentToday = 0
          /\ \A d \in Days : spentOn[g][d] = 0
      BY DEF Init, MandateInit
    <2> QED
      BY <1>3, <2>1 DEF DayInv
  <1> QED
    BY <1>1, <1>2, <1>4 DEF MandateInv

\* AgentMandate.sol _spend: what an agent spends on a day stays within the limit
\* in force, however the meter's settlements, its owner's spending, changes of
\* the limit and midnights interleave.
THEOREM MandateLimitsDays == Spec => MandateHeld
  <1>1. MandateInv /\ [Next]_allVars => MandateInv'
    BY MandateStep
  <1>2. MandateInv /\ [Next]_allVars =>
          [\A g \in Agents : \A d \in Days :
             spentOn'[g][d] # spentOn[g][d] => spentOn'[g][d] <= mandate[g].dailyLimit]_mandateVars
    BY MandateStep
  <1> QED
    BY <1>1, <1>2, MandateInvInit, PTL DEF Spec, MandateHeld

-----------------------------------------------------------------------------
(* What a transfer and a payment do to all balances.                        *)

Balances == [Accounts -> Nat]

LEMMA TransferTypes ==
  ASSUME NEW f \in Balances, NEW x \in Accounts, NEW y \in Accounts, NEW value \in Nat, value <= f[x]
  PROVE  /\ Moved(f, x, y, value) \in Balances
         /\ \A z \in Accounts \ {x, y} : Moved(f, x, y, value)[z] = f[z]
         /\ x # y => /\ Moved(f, x, y, value)[x] = f[x] - value
                     /\ Moved(f, x, y, value)[y] = f[y] + value
         /\ x = y => Moved(f, x, y, value) = f
<1> DEFINE g == Moved(f, x, y, value)
<1>1. f[x] \in Nat /\ f[y] \in Nat /\ f[x] - value \in Nat /\ f[y] + value \in Nat
  BY DEF Balances
<1>2. CASE x = y
  <2> DEFINE less == [f EXCEPT ![x] = f[x] - value]
  <2>2. g = [less EXCEPT ![x] = less[x] + value]
    BY <1>2 DEF Moved
  <2>3. less \in Balances /\ less[x] = f[x] - value
    BY <1>1 DEF Balances
  <2>4. f[x] - value + value = f[x]
    BY <1>1
  <2>5. [less EXCEPT ![x] = f[x]] = f
    BY DEF Balances
  <2> HIDE DEF less
  <2>1. g = f
    BY <2>2, <2>3, <2>4, <2>5
  <2> QED
    BY <1>2, <2>1
<1>3. CASE x # y
  <2>1. g = [f EXCEPT ![x] = f[x] - value, ![y] = f[y] + value]
    BY <1>3 DEF Moved, Balances
  <2> QED
    BY <1>1, <1>3, <2>1 DEF Balances
<1> QED
  BY <1>2, <1>3

LEMMA PaymentFacts ==
  ASSUME NEW p \in Payments
  PROVE  /\ Terms[p].payer \in Users /\ Terms[p].amount \in Nat \ {0}
         /\ Terms[p].model \in Models \cup {NoModel} /\ Terms[p].agent \in Agents \cup {NoAgent}
BY MeterAssumption

\* The row of an approved listing.
LEMMA ApprovedFacts ==
  ASSUME RegistryTypeOK, NEW m \in Models, listing[m].listed
  PROVE  /\ listing[m] \in Listings
         /\ listing[m].provider \in Users /\ listing[m].bps \in Nat /\ listing[m].bps <= 10000
         /\ listing[m].staked \in {0, ListingStake}
<1>1. listing[m] \in Listings
  <2>1. NoListing.listed = FALSE
    BY DEF NoListing
  <2> QED
    BY <2>1 DEF RegistryTypeOK
<1>2. \A entry \in Listings : /\ entry.provider \in Users /\ entry.bps \in Shares
                            /\ entry.staked \in {0, ListingStake}
  BY DEF Listings
<1> QED
  BY <1>1, <1>2, RegistryAssumption

\* What a payment of p out of account from does to the balances and the books: its amount leaves
\* the account, at most to its own, the provider's and the vault's.
LEMMA PaysFacts ==
  ASSUME usdc \in Balances, RegistryTypeOK, earned \in [Models -> Nat], volume \in [Models -> Nat],
         NEW p \in Payments, NEW from \in Users \cup {Meter}, Pays(p, from)
  PROVE  /\ usdc' \in Balances
         /\ usdc'[Staking] = usdc[Staking]
         /\ usdc'[Meter] = IF from = Meter THEN usdc[Meter] - Terms[p].amount ELSE usdc[Meter]
         /\ earned' \in [Models -> Nat] /\ volume' \in [Models -> Nat]
         /\ Terms[p].model = NoModel => UNCHANGED <<earned, volume>>
         /\ Terms[p].model # NoModel =>
              /\ IsApproved(Terms[p].model)
              /\ earned' = [earned EXCEPT ![Terms[p].model] =
                              @ + ProviderFee(Terms[p].amount, listing[Terms[p].model].bps)]
              /\ volume' = [volume EXCEPT ![Terms[p].model] = @ + Terms[p].amount]
<1> DEFINE m == Terms[p].model
           amount == Terms[p].amount
<1>1. PICK n \in Nat : n = amount
  BY PaymentFacts
<1>2. usdc[from] >= n /\ from \in Accounts /\ from \notin {Vault, Staking}
  BY <1>1, AccountsApart DEF Pays
<1>3. CASE m = NoModel
  <2>1. usdc' = Moved(usdc, from, Vault, n) /\ UNCHANGED <<earned, volume>>
    BY <1>1, <1>3 DEF Pays
  <2>2. /\ usdc' \in Balances /\ usdc'[Staking] = usdc[Staking]
        /\ from = Meter => usdc'[Meter] = usdc[Meter] - n
        /\ from # Meter => usdc'[Meter] = usdc[Meter]
    BY <1>2, <2>1, AccountsApart, TransferTypes DEF Balances
  <2> QED
    BY <1>1, <1>3, <2>1, <2>2
<1>4. CASE m # NoModel
  <2>1. m \in Models /\ IsApproved(m)
    BY <1>4, PaymentFacts DEF Pays
  <2>2. PICK bps \in Nat : bps = listing[m].bps /\ bps <= 10000
    BY <2>1, ApprovedFacts DEF IsApproved
  <2>3. PICK provider \in Users : provider = listing[m].provider
    BY <2>1, ApprovedFacts DEF IsApproved
  <2>4. PICK fee \in 0..n : fee = ProviderFee(n, bps)
    <3>1. bps <= 10000
      BY <2>2
    <3>2. ProviderFee(n, bps) \in 0..n
      BY <3>1, FeeWithin, SMT
    <3> QED
      BY <3>2, Zenon
  <2> DEFINE paid == Moved(usdc, from, provider, fee)
  <2>5. /\ usdc' = Moved(paid, from, Vault, n - fee)
        /\ earned' = [earned EXCEPT ![m] = @ + fee] /\ volume' = [volume EXCEPT ![m] = @ + n]
    BY <1>1, <1>4, <2>2, <2>3, <2>4 DEF Pays
  <2>6. fee \in Nat /\ n - fee \in Nat /\ fee <= n /\ fee <= usdc[from] /\ usdc[from] \in Nat
    BY <1>2 DEF Balances
  <2>7. /\ paid \in Balances /\ paid[Staking] = usdc[Staking]
        /\ from = provider => paid = usdc
        /\ from # provider => paid[from] = usdc[from] - fee
        /\ from # Meter => paid[Meter] = usdc[Meter]
    <3>1. /\ provider \in Accounts /\ Meter \in Accounts /\ Staking \in Accounts
          /\ provider # Meter /\ provider # Staking /\ from # Staking
      BY <1>2, AccountsApart
    <3>2. /\ paid \in Balances /\ \A z \in Accounts \ {from, provider} : paid[z] = usdc[z]
          /\ from # provider => paid[from] = usdc[from] - fee
          /\ from = provider => paid = usdc
      BY <1>2, <2>6, <3>1, TransferTypes
    <3> QED
      BY ONLY <3>1, <3>2
  <2>8. n - fee <= paid[from]
    BY <1>2, <2>6, <2>7
  <2>9. from = Meter => from # provider
    BY AccountsApart
  <2> HIDE DEF paid
  <2>10. /\ usdc' \in Balances /\ usdc'[Staking] = paid[Staking]
         /\ usdc'[from] = paid[from] - (n - fee)
         /\ from # Meter => usdc'[Meter] = paid[Meter]
    <3>1. Vault \in Accounts /\ Vault # Staking /\ Vault # Meter /\ Staking \in Accounts /\ Meter \in Accounts
      BY AccountsApart
    <3>2. /\ usdc' \in Balances /\ \A z \in Accounts \ {from, Vault} : usdc'[z] = paid[z]
          /\ from # Vault => usdc'[from] = paid[from] - (n - fee)
      BY <1>2, <2>5, <2>6, <2>7, <2>8, <3>1, TransferTypes
    <3> QED
      BY <1>2, <3>1, <3>2
  <2>11. usdc'[Meter] = IF from = Meter THEN usdc[Meter] - n ELSE usdc[Meter]
    BY <2>6, <2>7, <2>9, <2>10
  <2>12. earned' \in [Models -> Nat] /\ volume' \in [Models -> Nat]
    BY <2>1, <2>5, <2>6
  <2>13. /\ earned' = [earned EXCEPT ![m] = @ + ProviderFee(amount, listing[m].bps)]
         /\ volume' = [volume EXCEPT ![m] = @ + amount]
    BY <1>1, <2>2, <2>4, <2>5
  <2>14. usdc' \in Balances /\ usdc'[Staking] = usdc[Staking]
    BY <2>7, <2>10
  <2> QED
    BY <1>1, <1>4, <2>1, <2>11, <2>12, <2>13, <2>14
<1> QED
  BY <1>3, <1>4

-----------------------------------------------------------------------------
(* The stakers.                                                             *)

\* What every staker may claim, in units of 1 / Precision: its recorded rewards, and what its
\* stake has earned between the accumulator it was paid up to and the value acc.
ScaledAt(acc) ==
  [u \in Users |-> rewards[u] * Precision + staked[u] * (acc - paidPerToken[u])]

Covered == Sum(ScaledAt(perToken), Users) + unallocated * Precision <= accounted * Precision

\* Nothing is ever rounded up: what was accounted for covers the scaled claims of all stakers.
StakingInv ==
  /\ StakingTypeOK
  /\ accounted <= usdc[Staking]
  /\ \A u \in Users : paidPerToken[u] <= perToken
  /\ StakerStakesHeld
  /\ Covered

LEMMA UsersFinite == IsFiniteSet(Users)
BY LedgerAssumption

LEMMA ScaledTypes ==
  ASSUME StakingTypeOK, NEW acc \in Nat, \A u \in Users : paidPerToken[u] <= acc
  PROVE  /\ \A u \in Users : ScaledAt(acc)[u] \in Nat
         /\ Sum(ScaledAt(acc), Users) \in Nat
<1>1. ASSUME NEW u \in Users PROVE ScaledAt(acc)[u] \in Nat
  <2>1. acc - paidPerToken[u] \in Nat /\ rewards[u] \in Nat /\ staked[u] \in Nat /\ Precision \in Nat
    BY StakingAssumption DEF StakingTypeOK
  <2>2. staked[u] * (acc - paidPerToken[u]) \in Nat /\ rewards[u] * Precision \in Nat
    BY <2>1, NatProduct
  <2> QED
    BY <2>2 DEF ScaledAt
<1>2. \A u \in Users : ScaledAt(acc)[u] \in Int /\ ScaledAt(acc)[u] >= 0
  BY <1>1
<1>3. Sum(ScaledAt(acc), Users) \in Int /\ Sum(ScaledAt(acc), Users) >= 0
  <2> DEFINE f == ScaledAt(acc)
  <2> HIDE DEF f
  <2>1. (\A u \in Users : f[u] \in Int /\ f[u] >= 0) => Sum(f, Users) \in Int /\ Sum(f, Users) >= 0
    BY SumType, UsersFinite
  <2> QED
    BY <1>2, <2>1 DEF f
<1> QED
  BY <1>1, <1>3

\* A larger accumulator is worth as much to each staker as it has staked.
LEMMA ScaledGrows ==
  ASSUME StakingTypeOK, total = Sum(staked, Users), NEW acc \in Nat, NEW k \in Nat,
         \A u \in Users : paidPerToken[u] <= acc
  PROVE  Sum(ScaledAt(acc + k), Users) = Sum(ScaledAt(acc), Users) + k * total
<1> DEFINE f == ScaledAt(acc)
           g == [u \in Users |-> k * staked[u]]
           h == ScaledAt(acc + k)
<1>1. \A u \in Users : staked[u] \in Int /\ g[u] = k * staked[u] /\ g[u] \in Int
  BY DEF StakingTypeOK
<1>2. Sum(g, Users) = k * total
  <2> HIDE DEF g
  <2> QED
    BY <1>1, SumTimes, UsersFinite
<1>3. \A u \in Users : f[u] \in Int /\ h[u] \in Int
  <2>1. acc + k \in Nat /\ \A u \in Users : paidPerToken[u] <= acc + k
    BY DEF StakingTypeOK
  <2> QED
    BY <2>1, ScaledTypes
<1>4. ASSUME NEW u \in Users PROVE h[u] = f[u] + g[u]
  <2>1. PICK c \in Int : c = acc - paidPerToken[u]
    BY DEF StakingTypeOK
  <2>2. PICK s \in Int : s = staked[u]
    BY DEF StakingTypeOK
  <2>3. PICK r \in Int : r = rewards[u] * Precision
    BY StakingAssumption DEF StakingTypeOK
  <2>4. (acc + k) - paidPerToken[u] = c + k
    BY <2>1 DEF StakingTypeOK
  <2>5. s * (c + k) = s * c + k * s
    OBVIOUS
  <2>6. h[u] = r + s * (c + k) /\ f[u] = r + s * c /\ g[u] = k * s
    BY <2>1, <2>2, <2>3, <2>4 DEF ScaledAt
  <2>7. s * c \in Int /\ k * s \in Int
    OBVIOUS
  <2> QED
    BY <2>5, <2>6, <2>7
<1>5. \A u \in Users : f[u] \in Int /\ g[u] \in Int /\ h[u] \in Int /\ h[u] = f[u] + g[u] /\ h[u] <= f[u] + g[u]
  <2> HIDE DEF f, g, h
  <2> QED
    BY <1>1, <1>3, <1>4
<1>6. Sum(h, Users) = Sum(f, Users) + Sum(g, Users)
  <2> HIDE DEF f, g, h
  <2> QED
    BY <1>5, SumPlus, UsersFinite
<1> QED
  BY <1>2, <1>6

\* What a sync accounts for covers what it promises (_syncRewards).
LEMMA SyncCovers ==
  ASSUME StakingInv, usdc[Staking] \in Nat
  PROVE  /\ Received \in Nat /\ PerToken \in Nat /\ PerToken >= perToken /\ Unallocated \in Nat
         /\ \A u \in Users : paidPerToken[u] <= PerToken
         /\ Sum(ScaledAt(PerToken), Users) \in Nat
         /\ Sum(ScaledAt(PerToken), Users) + Unallocated * Precision
              <= (accounted + Received) * Precision
         /\ accounted + Received <= usdc[Staking]
<1>1. /\ Received \in Nat /\ accounted \in Nat /\ accounted + Received <= usdc[Staking]
      /\ total \in Nat /\ perToken \in Nat /\ unallocated \in Nat /\ Precision \in Nat \ {0}
  BY StakingAssumption DEF StakingInv, StakingTypeOK, Received
<1> DEFINE k == IF total = 0 THEN 0 ELSE (Received * Precision) \div total
<1>2. Received * Precision \in Nat
  BY <1>1, NatProduct
<1>3. k \in Nat /\ k * total <= Received * Precision
  <2>1. CASE total = 0
    BY <1>1, <1>2, <2>1
  <2>2. CASE total # 0
    <3>1. PICK n \in Nat : n = Received * Precision
      BY <1>2
    <3>2. n \div total \in Nat /\ n % total \in 0..(total - 1) /\ n = total * (n \div total) + (n % total)
      BY <1>1, <2>2, DivFacts
    <3>3. PICK q \in Nat : q = n \div total
      BY <3>2
    <3>4. total * q \in Nat /\ total * q = q * total
      BY <1>1, NatProduct
    <3>5. k = q
      BY <2>2, <3>1, <3>3
    <3>6. total * q <= n
      BY <1>1, <3>2, <3>3, <3>4
    <3> QED
      BY <3>1, <3>4, <3>5, <3>6
  <2> QED
    BY <2>1, <2>2
<1>4. PerToken = perToken + k
  BY DEF PerToken
<1> HIDE DEF k
<1>5. PerToken \in Nat /\ PerToken >= perToken /\ Unallocated \in Nat
  BY <1>1, <1>3, <1>4 DEF Unallocated
<1>6. \A u \in Users : paidPerToken[u] <= perToken /\ paidPerToken[u] <= PerToken
  BY <1>1, <1>3, <1>4 DEF StakingInv, StakingTypeOK
<1>7. Sum(ScaledAt(PerToken), Users) = Sum(ScaledAt(perToken), Users) + k * total
  BY <1>1, <1>3, <1>4, <1>6, ScaledGrows DEF StakingInv, StakerStakesHeld
<1>8. Sum(ScaledAt(PerToken), Users) \in Nat /\ Sum(ScaledAt(perToken), Users) \in Nat
  BY <1>1, <1>5, <1>6, ScaledTypes DEF StakingInv
<1>9. Sum(ScaledAt(PerToken), Users) + Unallocated * Precision <= (accounted + Received) * Precision
  <2>1. PICK a \in Nat : a = accounted * Precision
    BY <1>1, NatProduct
  <2>2. PICK r \in Nat : r = Received * Precision
    BY <1>2
  <2>3. PICK n \in Nat : n = unallocated * Precision
    BY <1>1, NatProduct
  <2>4. (accounted + Received) * Precision = a + r
    BY <1>1, <2>1, <2>2
  <2>5. PICK kt \in Nat : kt = k * total
    BY <1>1, <1>3, NatProduct
  <2>6. kt <= r /\ (total = 0 => kt = 0)
    BY <1>1, <1>3, <2>2, <2>5
  <2>7. Unallocated * Precision = IF total = 0 THEN n + r ELSE n
    BY <1>1, <2>2, <2>3 DEF Unallocated
  <2>8. Sum(ScaledAt(perToken), Users) + n <= a
    BY <2>1, <2>3 DEF StakingInv, Covered
  <2> QED
    BY <1>7, <1>8, <2>4, <2>5, <2>6, <2>7, <2>8
<1> QED
  BY <1>1, <1>5, <1>6, <1>8, <1>9

\* What a staker has earned is a part of its scaled claim.
LEMMA EarnedWithin ==
  ASSUME StakingInv, usdc[Staking] \in Nat, NEW u \in Users
  PROVE  Earned(u) \in Nat /\ Earned(u) * Precision <= ScaledAt(PerToken)[u]
<1>1. PerToken \in Nat /\ paidPerToken[u] <= PerToken
  BY SyncCovers
<1>2. PICK c \in Nat : c = PerToken - paidPerToken[u]
  BY <1>1 DEF StakingInv, StakingTypeOK
<1>3. rewards[u] \in Nat /\ staked[u] \in Nat /\ Precision \in Nat \ {0}
  BY StakingAssumption DEF StakingInv, StakingTypeOK
<1>4. PICK n \in Nat : n = staked[u] * c
  BY <1>3, NatProduct
<1>5. /\ n \div Precision \in Nat /\ n % Precision \in 0..(Precision - 1)
      /\ n = Precision * (n \div Precision) + (n % Precision)
  BY <1>3, DivFacts
<1>6. PICK q \in Nat : q = n \div Precision
  BY <1>5
<1>7. PICK pq \in Nat : pq = Precision * q
  BY <1>3, NatProduct
<1>8. pq <= n
  BY <1>3, <1>5, <1>6, <1>7
<1>9. Earned(u) = rewards[u] + q
  BY <1>2, <1>4, <1>6 DEF Earned
<1>10. PICK r \in Nat : r = rewards[u] * Precision
  BY <1>3, NatProduct
<1>11. (rewards[u] + q) * Precision = r + pq
  BY <1>3, <1>7, <1>10
<1>12. ScaledAt(PerToken)[u] = r + n
  BY <1>2, <1>4, <1>10 DEF ScaledAt
<1> QED
  BY <1>3, <1>8, <1>9, <1>11, <1>12

\* A sync accounts for enough to pay any staker in full.
LEMMA EarnedAccounted ==
  ASSUME StakingInv, usdc[Staking] \in Nat, NEW u \in Users
  PROVE  Earned(u) <= accounted + Received
<1> DEFINE f == ScaledAt(PerToken)
<1>1. /\ Received \in Nat /\ PerToken \in Nat /\ Unallocated \in Nat /\ Sum(f, Users) \in Nat
      /\ \A w \in Users : paidPerToken[w] <= PerToken
      /\ Sum(f, Users) + Unallocated * Precision <= (accounted + Received) * Precision
  BY SyncCovers
<1>2. accounted + Received \in Nat /\ Precision \in Nat \ {0}
  BY <1>1, StakingAssumption DEF StakingInv, StakingTypeOK
<1>3. Earned(u) \in Nat /\ Earned(u) * Precision <= f[u]
  BY EarnedWithin
<1>4. \A w \in Users : f[w] \in Nat
  BY <1>1, ScaledTypes DEF StakingInv
<1> HIDE DEF f
<1>5. f[u] <= Sum(f, Users)
  BY <1>4, SumElement, UsersFinite
<1>6. Earned(u) * Precision <= (accounted + Received) * Precision
  <2>1. Unallocated * Precision \in Nat /\ Earned(u) * Precision \in Nat
        /\ (accounted + Received) * Precision \in Nat
    BY <1>1, <1>2, <1>3, NatProduct
  <2> QED
    BY <1>1, <1>3, <1>4, <1>5, <2>1
<1> QED
  BY <1>2, <1>3, <1>6, ProductCancel

\* A staker's checkpoint settles its own claim and leaves the others' alone: what it takes is
\* paid, the fraction it loses stays accounted for, and its new stake starts from nothing.
LEMMA CheckpointCovers ==
  ASSUME StakingInv, usdc[Staking] \in Nat, NEW u \in Users, NEW taken \in Nat, taken <= Earned(u),
         NEW n \in Nat, SyncWith(taken, 0), CheckpointWith(u, taken),
         staked' = [staked EXCEPT ![u] = n], rewarding' \in BOOLEAN, total' \in Nat
  PROVE  /\ StakingTypeOK' /\ \A w \in Users : paidPerToken'[w] <= perToken'
         /\ Covered' /\ accounted' <= usdc[Staking] - taken
<1> DEFINE f == ScaledAt(PerToken)
           g == [w \in Users |-> rewards'[w] * Precision + staked'[w] * (perToken' - paidPerToken'[w])]
<1>1. /\ Received \in Nat /\ PerToken \in Nat /\ Unallocated \in Nat /\ Sum(f, Users) \in Nat
      /\ \A w \in Users : paidPerToken[w] <= PerToken
      /\ Sum(f, Users) + Unallocated * Precision <= (accounted + Received) * Precision
      /\ accounted + Received <= usdc[Staking]
  BY SyncCovers
<1>2. accounted \in Nat /\ Precision \in Nat \ {0}
  BY StakingAssumption DEF StakingInv, StakingTypeOK
<1>3. PICK due \in Nat : due = Earned(u) /\ due * Precision <= f[u] /\ due <= accounted + Received
  BY EarnedWithin, EarnedAccounted
<1>4. /\ perToken' = PerToken /\ accounted' = accounted + Received - taken
      /\ unallocated' = Unallocated
      /\ rewards' = [rewards EXCEPT ![u] = due - taken]
      /\ paidPerToken' = [paidPerToken EXCEPT ![u] = PerToken]
  BY <1>1, <1>3 DEF SyncWith, CheckpointWith
<1>5. StakingTypeOK' /\ accounted' \in Nat /\ accounted' <= usdc[Staking] - taken
  <2>1. due - taken \in Nat /\ accounted' \in Nat /\ accounted' <= usdc[Staking] - taken
    BY <1>1, <1>2, <1>3, <1>4
  <2>2. /\ staked' \in [Users -> Nat] /\ rewards' \in [Users -> Nat]
        /\ paidPerToken' \in [Users -> Nat]
    BY <1>1, <1>4, <2>1 DEF StakingInv, StakingTypeOK
  <2> QED
    BY <1>1, <1>4, <2>1, <2>2 DEF StakingTypeOK
<1>6. \A w \in Users : paidPerToken'[w] <= perToken'
  BY <1>1, <1>4 DEF StakingInv, StakingTypeOK
<1>7. \A w \in Users : f[w] \in Nat
  BY <1>1, ScaledTypes DEF StakingInv
<1>8. ASSUME NEW w \in Users, w # u PROVE g[w] = f[w]
  BY <1>4, <1>8 DEF ScaledAt, StakingInv, StakingTypeOK
<1>9. g[u] = (due - taken) * Precision
  <2>1. /\ rewards'[u] = due - taken /\ paidPerToken'[u] = PerToken /\ staked'[u] = n
    BY <1>4 DEF StakingInv, StakingTypeOK
  <2>2. perToken' - paidPerToken'[u] = 0 /\ n * 0 = 0
    BY <1>1, <1>4, <2>1
  <2>3. g[u] = (due - taken) * Precision + n * 0
    BY <2>1, <2>2
  <2>4. (due - taken) * Precision \in Nat
    BY <1>2, <1>3, NatProduct
  <2> QED
    BY <2>2, <2>3, <2>4
<1>10. g[u] \in Int /\ Sum(g, Users) = Sum(f, Users) - f[u] + g[u]
  <2>1. g[u] \in Int
    <3>1. (due - taken) * Precision \in Nat
      BY <1>2, <1>3, NatProduct
    <3> QED
      BY <1>9, <3>1
  <2> HIDE DEF f, g
  <2> QED
    BY <1>7, <1>8, <2>1, SumUpdate, UsersFinite
<1>11. Covered'
  <2>1. PICK d \in Nat : d = due * Precision
    BY <1>2, <1>3, NatProduct
  <2>2. PICK t \in Nat : t = taken * Precision
    BY <1>2, NatProduct
  <2>3. (due - taken) * Precision = d - t
    BY <1>2, <1>3, <2>1, <2>2
  <2>4. PICK c \in Nat : c = (accounted + Received) * Precision
    BY <1>1, <1>2, NatProduct
  <2>5. accounted' * Precision = c - t
    <3>1. PICK x \in Nat : x = accounted + Received
      BY <1>1, <1>2
    <3>2. (x - taken) * Precision = x * Precision - taken * Precision
      BY <1>2, <3>1
    <3>3. accounted' = x - taken
      BY <1>1, <1>2, <1>4, <3>1
    <3> QED
      BY <2>2, <2>4, <3>1, <3>2, <3>3
  <2>6. PICK un \in Nat : un = Unallocated * Precision
    BY <1>1, <1>2, NatProduct
  <2>7. Sum(g, Users) + un <= c - t
    <3> HIDE DEF f, g
    <3> QED
      BY <1>1, <1>3, <1>7, <1>9, <1>10, <2>1, <2>3, <2>4, <2>6
  <2>8. ScaledAt(perToken)' = g
    BY DEF ScaledAt
  <2> QED
    BY <1>4, <2>5, <2>6, <2>7, <2>8 DEF Covered
<1> QED
  BY <1>5, <1>6, <1>11

\* A sync alone, and one that gives unassigned rewards back (syncRewards, recoverUnallocated).
LEMMA SyncKeeps ==
  ASSUME StakingInv, usdc[Staking] \in Nat, NEW taken \in Nat, taken <= Unallocated,
         SyncWith(taken, taken), UNCHANGED <<rewarding, staked, total, userVars>>
  PROVE  /\ StakingTypeOK' /\ \A w \in Users : paidPerToken'[w] <= perToken'
         /\ Covered' /\ accounted' <= usdc[Staking] - taken
<1> DEFINE f == ScaledAt(PerToken)
<1>1. /\ Received \in Nat /\ PerToken \in Nat /\ Unallocated \in Nat /\ Sum(f, Users) \in Nat
      /\ \A w \in Users : paidPerToken[w] <= PerToken
      /\ Sum(f, Users) + Unallocated * Precision <= (accounted + Received) * Precision
      /\ accounted + Received <= usdc[Staking]
  BY SyncCovers
<1>2. accounted \in Nat /\ Precision \in Nat \ {0}
  BY StakingAssumption DEF StakingInv, StakingTypeOK
<1>3. /\ perToken' = PerToken /\ accounted' = accounted + Received - taken
      /\ unallocated' = Unallocated - taken
      /\ rewards' = rewards /\ paidPerToken' = paidPerToken /\ staked' = staked
  BY DEF SyncWith, userVars
<1>4. ScaledAt(perToken)' = f
  BY <1>3 DEF ScaledAt
<1> HIDE DEF f
<1>5. taken <= accounted + Received
  <2>1. Unallocated * Precision <= (accounted + Received) * Precision
    <3>1. Unallocated * Precision \in Nat /\ (accounted + Received) * Precision \in Nat
      BY <1>1, <1>2, NatProduct
    <3> QED
      BY <1>1, <3>1
  <2>2. accounted + Received \in Nat
    BY <1>1, <1>2
  <2>3. Unallocated <= accounted + Received
    BY <1>1, <1>2, <2>1, <2>2, ProductCancel
  <2> QED
    BY <1>1, <2>2, <2>3
<1>6. /\ accounted' \in Nat /\ accounted' <= usdc[Staking] - taken
      /\ unallocated' \in Nat /\ perToken' \in Nat
  BY <1>1, <1>2, <1>3, <1>5
<1>7. StakingTypeOK'
  BY <1>3, <1>6 DEF StakingInv, StakingTypeOK
<1>8. Covered'
  <2>1. PICK t \in Nat : t = taken * Precision
    BY <1>2, NatProduct
  <2>2. PICK c \in Nat : c = (accounted + Received) * Precision
    BY <1>1, <1>2, NatProduct
  <2>3. PICK un \in Nat : un = Unallocated * Precision
    BY <1>1, <1>2, NatProduct
  <2>4. accounted' * Precision = c - t /\ unallocated' * Precision = un - t
    <3>1. PICK x \in Nat : x = accounted + Received
      BY <1>1, <1>2
    <3>2. PICK y \in Nat : y = Unallocated
      BY <1>1
    <3>3. (x - taken) * Precision = x * Precision - taken * Precision
          /\ (y - taken) * Precision = y * Precision - taken * Precision
      BY <1>2
    <3>4. accounted' = x - taken /\ unallocated' = y - taken
      BY <1>1, <1>2, <1>3, <3>1, <3>2
    <3> QED
      BY <2>1, <2>2, <2>3, <3>1, <3>2, <3>3, <3>4
  <2>5. Sum(f, Users) + (un - t) <= c - t
    BY <1>1, <2>1, <2>2, <2>3
  <2> QED
    BY <1>4, <2>4, <2>5 DEF Covered
<1> QED
  BY <1>1, <1>3, <1>6, <1>7, <1>8

\* Only a whole stake that is there can be withdrawn, and the sum of the stakes follows each
\* staker's.
LEMMA StakesFollow ==
  ASSUME StakingTypeOK, StakerStakesHeld, NEW u \in Users, NEW n \in Nat,
         staked' = [staked EXCEPT ![u] = n], total' = total - staked[u] + n,
         encl'[Staking] = encl[Staking] - staked[u] + n
  PROVE  StakerStakesHeld' /\ total' \in Nat
<1>1. \A w \in Users : staked[w] \in Nat /\ staked'[w] \in Nat
  BY DEF StakingTypeOK
<1>2. staked'[u] = n /\ \A w \in Users : w # u => staked'[w] = staked[w]
  BY DEF StakingTypeOK
<1>3. Sum(staked, Users)' = Sum(staked, Users) - staked[u] + n
  <2>1. \A g : (/\ g[u] = n
                /\ \A w \in Users : w # u => g[w] = staked[w])
               => Sum(g, Users) = Sum(staked, Users) - staked[u] + g[u]
    BY <1>1, SumUpdate, UsersFinite
  <2>2. Sum(staked', Users) = Sum(staked, Users) - staked[u] + staked'[u]
    BY <1>2, <2>1
  <2> QED
    BY <1>2, <2>2
<1>4. Sum(staked, Users) \in Int /\ staked[u] <= Sum(staked, Users)
  BY <1>1, SumType, SumElement, UsersFinite
<1> QED
  BY <1>1, <1>3, <1>4 DEF StakerStakesHeld

\* A call of the staking contract.
LEMMA StakingKeepsStakes ==
  ASSUME StakingInv, usdc \in Balances, encl \in Balances, CallStaking
  PROVE  /\ StakingInv' /\ usdc' \in Balances /\ encl' \in Balances
         /\ UNCHANGED <<auth, now>> /\ usdc'[Meter] = usdc[Meter]
         /\ encl'[Registry] = encl[Registry]
<1>0. /\ StakingTypeOK /\ StakerStakesHeld /\ usdc[Staking] \in Nat /\ encl[Staking] \in Nat
      /\ total \in Nat /\ rewarding \in BOOLEAN /\ \A u \in Users : staked[u] \in Nat
  BY AccountsApart DEF StakingInv, StakingTypeOK, Balances
<1>1. /\ Staking \in Accounts /\ Treasury \in Accounts /\ Registry \in Accounts /\ Meter \in Accounts
      /\ Staking \notin {Registry, Meter, Treasury}
      /\ \A u \in Users : u \in Accounts /\ u \notin {Staking, Registry, Meter}
      /\ Treasury # Meter
  BY AccountsApart
<1>2. ASSUME NEW u \in Users, NEW amount \in 1..encl[u], Stake(u, amount)
      PROVE  StakingInv' /\ encl' \in Balances /\ usdc' = usdc /\ encl'[Registry] = encl[Registry]
  <2>1. amount \in Nat /\ amount <= encl[u] /\ encl' = Moved(encl, u, Staking, amount)
    BY <1>1, <1>2 DEF Stake, TransferEncl, Balances
  <2>2. /\ encl' \in Balances /\ encl'[Staking] = encl[Staking] + amount
        /\ encl'[Registry] = encl[Registry]
    BY <1>1, <2>1, TransferTypes
  <2>3. PICK n \in Nat : n = staked[u] + amount
    BY <1>0, <2>1
  <2>4. /\ SyncWith(0, 0) /\ CheckpointWith(u, 0) /\ staked' = [staked EXCEPT ![u] = n]
        /\ total' = total + amount /\ UNCHANGED <<rewarding, usdc>>
    BY <1>2, <2>3 DEF Stake
  <2>5. total' = total - staked[u] + n /\ encl'[Staking] = encl[Staking] - staked[u] + n
    BY <1>0, <2>1, <2>2, <2>3, <2>4
  <2>6. StakerStakesHeld' /\ total' \in Nat
    BY <1>0, <2>4, <2>5, StakesFollow
  <2>7. 0 <= Earned(u)
    BY <1>0, EarnedWithin
  <2>8. /\ StakingTypeOK' /\ \A w \in Users : paidPerToken'[w] <= perToken'
        /\ Covered' /\ accounted' <= usdc[Staking] - 0
    BY <1>0, <2>4, <2>6, <2>7, CheckpointCovers
  <2> QED
    BY <1>0, <2>2, <2>4, <2>6, <2>8 DEF StakingInv
<1>3. ASSUME NEW u \in Users, NEW amount \in 1..staked[u], Unstake(u, amount)
      PROVE  StakingInv' /\ encl' \in Balances /\ usdc' = usdc /\ encl'[Registry] = encl[Registry]
  <2>1. /\ amount \in Nat /\ amount <= staked[u] /\ amount <= encl[Staking]
        /\ encl' = Moved(encl, Staking, u, amount)
    BY <1>0, <1>3 DEF Unstake, TransferEncl
  <2>2. /\ encl' \in Balances /\ encl'[Staking] = encl[Staking] - amount
        /\ encl'[Registry] = encl[Registry]
    BY <1>1, <2>1, TransferTypes
  <2>3. PICK n \in Nat : n = staked[u] - amount
    BY <1>0, <2>1
  <2>4. /\ SyncWith(0, 0) /\ CheckpointWith(u, 0) /\ staked' = [staked EXCEPT ![u] = n]
        /\ total' = total - amount /\ UNCHANGED <<rewarding, usdc>>
    BY <1>3, <2>3 DEF Unstake
  <2>5. total' = total - staked[u] + n /\ encl'[Staking] = encl[Staking] - staked[u] + n
    BY <1>0, <2>1, <2>2, <2>3, <2>4
  <2>6. StakerStakesHeld' /\ total' \in Nat
    BY <1>0, <2>4, <2>5, StakesFollow
  <2>7. 0 <= Earned(u)
    BY <1>0, EarnedWithin
  <2>8. /\ StakingTypeOK' /\ \A w \in Users : paidPerToken'[w] <= perToken'
        /\ Covered' /\ accounted' <= usdc[Staking] - 0
    BY <1>0, <2>4, <2>6, <2>7, CheckpointCovers
  <2> QED
    BY <1>0, <2>2, <2>4, <2>6, <2>8 DEF StakingInv
<1>4. ASSUME NEW u \in Users, ClaimRewards(u)
      PROVE  StakingInv' /\ usdc' \in Balances /\ encl' = encl /\ usdc'[Meter] = usdc[Meter]
  <2>1. PICK due \in Nat : due = Earned(u)
    BY <1>0, EarnedWithin
  <2>2. /\ due <= usdc[Staking] /\ usdc' = Moved(usdc, Staking, u, due)
        /\ SyncWith(due, 0) /\ CheckpointWith(u, due)
        /\ UNCHANGED <<rewarding, staked, total, encl>>
    BY <1>0, <1>4, <2>1 DEF ClaimRewards, TransferUsdc
  <2>3. /\ usdc' \in Balances /\ usdc'[Staking] = usdc[Staking] - due /\ usdc'[Meter] = usdc[Meter]
    BY <1>1, <2>2, TransferTypes
  <2>4. StakerStakesHeld'
    BY <1>0, <2>2 DEF StakerStakesHeld
  <2>5. staked' = [staked EXCEPT ![u] = staked[u]] /\ staked[u] \in Nat
    BY <1>0, <2>2 DEF StakingTypeOK
  <2>6. /\ StakingTypeOK' /\ \A w \in Users : paidPerToken'[w] <= perToken'
        /\ Covered' /\ accounted' <= usdc[Staking] - due
    <3>1. due <= Earned(u) /\ rewarding' \in BOOLEAN /\ total' \in Nat
      BY <1>0, <2>1, <2>2
    <3> QED
      BY <1>0, <2>2, <2>5, <3>1, CheckpointCovers
  <2> QED
    BY <2>2, <2>3, <2>4, <2>6 DEF StakingInv
<1>5. CASE SyncRewards
  <2>1. /\ SyncWith(0, 0)
        /\ UNCHANGED <<rewarding, staked, total, userVars>> /\ UNCHANGED <<usdc, encl, auth, now>>
    BY <1>5 DEF SyncRewards, ledgerVars
  <2>2. Unallocated \in Nat /\ 0 <= Unallocated
    BY <1>0, SyncCovers
  <2>3. /\ StakingTypeOK' /\ \A w \in Users : paidPerToken'[w] <= perToken'
        /\ Covered' /\ accounted' <= usdc[Staking] - 0
    BY <1>0, <2>1, <2>2, SyncKeeps
  <2>4. StakerStakesHeld'
    BY <1>0, <2>1 DEF StakerStakesHeld
  <2>5. accounted' <= usdc'[Staking]
    BY <1>0, <2>1, <2>3
  <2> QED
    BY <2>1, <2>3, <2>4, <2>5 DEF StakingInv
<1>6. ASSUME NEW amount \in 1..Unallocated, RecoverUnallocated(amount)
      PROVE  StakingInv' /\ usdc' \in Balances /\ encl' = encl /\ usdc'[Meter] = usdc[Meter]
  <2>1. Unallocated \in Nat
    BY <1>0, SyncCovers
  <2>2. /\ amount \in Nat /\ amount <= Unallocated /\ amount <= usdc[Staking]
        /\ usdc' = Moved(usdc, Staking, Treasury, amount) /\ SyncWith(amount, amount)
        /\ UNCHANGED <<rewarding, staked, total, userVars>> /\ encl' = encl
    BY <1>0, <1>6, <2>1 DEF RecoverUnallocated, TransferUsdc
  <2>3. /\ usdc' \in Balances /\ usdc'[Staking] = usdc[Staking] - amount /\ usdc'[Meter] = usdc[Meter]
    BY <1>1, <2>2, TransferTypes
  <2>4. /\ StakingTypeOK' /\ \A w \in Users : paidPerToken'[w] <= perToken'
        /\ Covered' /\ accounted' <= usdc[Staking] - amount
    BY <1>0, <2>2, SyncKeeps
  <2>5. StakerStakesHeld'
    BY <1>0, <2>2 DEF StakerStakesHeld
  <2> QED
    BY <2>2, <2>3, <2>4, <2>5 DEF StakingInv
<1>7. CASE ConfigureRewards
  <2>1. /\ UNCHANGED <<staked, total, perToken, accounted, unallocated, paidPerToken, rewards>>
        /\ UNCHANGED <<usdc, encl, auth, now>> /\ rewarding' \in BOOLEAN
    BY <1>7 DEF ConfigureRewards, ledgerVars, rewardVars, userVars
  <2>2. StakingTypeOK' /\ StakerStakesHeld' /\ Covered'
    BY <1>0, <2>1 DEF StakingInv, StakingTypeOK, StakerStakesHeld, Covered, ScaledAt
  <2> QED
    BY <2>1, <2>2 DEF StakingInv
<1>8. UNCHANGED <<auth, now>>
  BY DEF CallStaking, StakingNext, SyncRewards, ConfigureRewards, ClaimRewards, Stake, Unstake,
         RecoverUnallocated, ledgerVars
<1>9. CASE UNCHANGED <<usdc, encl>> /\ StakingInv'
  BY <1>8, <1>9
<1> QED
  BY <1>2, <1>3, <1>4, <1>5, <1>6, <1>7, <1>8
     DEF CallStaking, StakingNext, SyncRewards, ConfigureRewards, ledgerVars

\* What the other contracts do to the staking contract's accounts is to pay in USDC.
LEMMA OthersKeepStakes ==
  ASSUME StakingInv, UNCHANGED stakingVars, usdc[Staking] \in Nat, usdc'[Staking] \in Nat,
         usdc'[Staking] >= usdc[Staking], encl'[Staking] = encl[Staking]
  PROVE  StakingInv'
<1>1. /\ UNCHANGED <<rewarding, staked, total, perToken, accounted, unallocated, paidPerToken>>
      /\ rewards' = rewards
  BY DEF stakingVars, rewardVars, userVars
<1>2. accounted \in Nat /\ accounted <= usdc[Staking] /\ accounted' <= usdc'[Staking]
  BY <1>1 DEF StakingInv, StakingTypeOK
<1>3. StakingTypeOK' /\ StakerStakesHeld' /\ Covered' /\ \A u \in Users : paidPerToken'[u] <= perToken'
  BY <1>1 DEF StakingInv, StakingTypeOK, StakerStakesHeld, Covered, ScaledAt
<1> QED
  BY <1>2, <1>3 DEF StakingInv

\* The claims of all stakers are a part of what is accounted for.
LEMMA ClaimsCovered ==
  ASSUME StakingInv, usdc[Staking] \in Nat
  PROVE  RewardsCovered
<1> DEFINE f == ScaledAt(PerToken)
           e == [u \in Users |-> Earned(u)]
           pe == [u \in Users |-> Precision * e[u]]
<1>1. /\ Received \in Nat /\ PerToken \in Nat /\ Unallocated \in Nat /\ Sum(f, Users) \in Nat
      /\ \A w \in Users : paidPerToken[w] <= PerToken
      /\ Sum(f, Users) + Unallocated * Precision <= (accounted + Received) * Precision
      /\ accounted + Received <= usdc[Staking]
  BY SyncCovers
<1>2. accounted \in Nat /\ Precision \in Nat \ {0} /\ accounted <= usdc[Staking]
  BY StakingAssumption DEF StakingInv, StakingTypeOK
<1>3. \A u \in Users : f[u] \in Nat
  BY <1>1, ScaledTypes DEF StakingInv
<1>4. \A u \in Users : e[u] \in Nat /\ e[u] * Precision <= f[u]
  BY EarnedWithin
<1>5. \A u \in Users : pe[u] = Precision * e[u] /\ pe[u] \in Nat /\ pe[u] <= f[u]
  <2> SUFFICES ASSUME NEW u \in Users PROVE pe[u] = Precision * e[u] /\ pe[u] \in Nat /\ pe[u] <= f[u]
    OBVIOUS
  <2>1. PICK n \in Nat : n = e[u]
    BY <1>4
  <2>2. n * Precision = Precision * n /\ Precision * n \in Nat
    BY <1>2, NatProduct
  <2>3. pe[u] = Precision * n /\ n * Precision <= f[u]
    BY <1>4, <2>1
  <2> QED
    BY <2>1, <2>2, <2>3
<1>6. Sum(e, Users) \in Nat /\ Sum(pe, Users) = Precision * Sum(e, Users) /\ Sum(pe, Users) <= Sum(f, Users)
  <2> HIDE DEF f, e, pe
  <2>1. Sum(e, Users) \in Nat
    BY <1>4, SumType, UsersFinite
  <2>2. Sum(pe, Users) = Precision * Sum(e, Users)
    BY <1>2, <1>4, <1>5, SumTimes, UsersFinite
  <2>3. Sum(pe, Users) <= Sum(f, Users)
    BY <1>3, <1>5, SumOrder, UsersFinite
  <2> QED
    BY <2>1, <2>2, <2>3
<1> HIDE DEF f, e, pe
<1>7. Sum(e, Users) + Unallocated <= accounted + Received
  <2>1. PICK s \in Nat : s = Sum(e, Users)
    BY <1>6
  <2>2. PICK n \in Nat : n = Unallocated
    BY <1>1
  <2>3. PICK c \in Nat : c = accounted + Received
    BY <1>1, <1>2
  <2>4. (s + n) * Precision = Precision * s + n * Precision
    BY <1>2
  <2>5. (s + n) * Precision <= c * Precision
    <3>1. Precision * s \in Nat /\ n * Precision \in Nat /\ c * Precision \in Nat
      BY <1>2, NatProduct
    <3>2. Precision * s <= Sum(f, Users) /\ Sum(f, Users) + n * Precision <= c * Precision
      BY <1>1, <1>6, <2>1, <2>2, <2>3
    <3> QED
      BY <1>1, <2>4, <3>1, <3>2
  <2>6. s + n <= c
    BY <1>2, <2>5, ProductCancel
  <2> QED
    BY <2>1, <2>2, <2>3, <2>6
<1>8. Sum(e, Users) + Unallocated <= usdc[Staking]
  BY <1>1, <1>2, <1>6, <1>7
<1> QED
  BY <1>2, <1>8 DEF RewardsCovered, e

-----------------------------------------------------------------------------
(* What the books rest on, and the transfers of a call.                     *)

\* What the books of the contracts rest on beside the types: a payment for a model is made only
\* while the model is listed, and an authorization pays only once it is used.
PaidListed == \A p \in Payments : settled[p] = "paid" /\ Terms[p].model # NoModel => listing[Terms[p].model].listed
BoundUsed == \A a \in Auths : boundTo[a] # NoPayment => auth[a] = "transferred"

LedgerInv == LedgerTypeOK /\ VaultInv /\ StakingInv
BooksInv ==
  /\ MeterTypeOK /\ ListingStakesHeld /\ DepositsBacked /\ BooksExact
  /\ PaidListed /\ BoundUsed

LEMMA TokensEffect ==
  ASSUME LedgerTypeOK, CallTokens
  PROVE  /\ LedgerTypeOK' /\ usdc'[Staking] = usdc[Staking] /\ encl' = encl
         /\ \/ UNCHANGED <<usdc, auth>>
            \/ \E a \in Auths : Deposit(a) \/ CancelAuthorization(a)
<1>0. usdc \in Balances /\ encl \in Balances
  BY DEF LedgerTypeOK, Balances
<1>1. CASE Tick
  <2>1. now' \in 0..MaxTime
    BY <1>1, LedgerAssumption DEF Tick, LedgerTypeOK
  <2> QED
    BY <1>1, <2>1 DEF Tick, LedgerTypeOK
<1>2. ASSUME NEW a \in Auths, Deposit(a)
      PROVE  LedgerTypeOK' /\ usdc'[Staking] = usdc[Staking] /\ encl' = encl
  <2>1. AuthPayer[a] \in Users /\ AuthAmount[a] \in Nat
    BY LedgerAssumption
  <2>2. AuthAmount[a] <= usdc[AuthPayer[a]] /\ usdc' = Moved(usdc, AuthPayer[a], Meter, AuthAmount[a])
    BY <1>0, <1>2, <2>1, AccountsApart DEF Deposit, TransferUsdc, Balances
  <2>3. usdc' \in Balances /\ usdc'[Staking] = usdc[Staking]
    BY <1>0, <2>1, <2>2, AccountsApart, TransferTypes
  <2> QED
    BY <1>2, <2>3 DEF Deposit, LedgerTypeOK, Balances
<1>3. ASSUME NEW a \in Auths, CancelAuthorization(a)
      PROVE  LedgerTypeOK' /\ usdc'[Staking] = usdc[Staking] /\ encl' = encl
  BY <1>3 DEF CancelAuthorization, LedgerTypeOK
<1> QED
  BY <1>1, <1>2, <1>3 DEF CallTokens, Tick, Deposits

LEMMA DistributionEffect ==
  ASSUME usdc \in Balances, VaultTypeOK, ReserveBacked, Distribute
  PROVE  usdc' \in Balances /\ usdc'[Staking] >= usdc[Staking] /\ usdc'[Meter] = usdc[Meter]
<1> DEFINE bal == Distributable
           s80 == Share(bal, 80)
           s10 == Share(bal, 10)
           s5 == Share(bal, 5)
           rest == Remainder(bal)
           kept == Reserve(bal)
<1>1. /\ bal \in Nat /\ bal <= usdc[Vault] /\ usdc[Vault] \in Nat
      /\ reserveBps \in Nat /\ reserveBps <= 10000
  BY VaultAssumption, AccountsApart DEF Balances, VaultTypeOK, Distributable, ReserveBacked
<1>2. /\ kept \in 0..s80 /\ s80 \in Nat /\ s10 \in Nat /\ s5 \in Nat /\ rest \in Nat
      /\ rest = bal - s80 - s10 - s5
  <2>1. rest = bal - s80 - s10 - s5
    BY DEF Remainder
  <2> HIDE DEF bal
  <2> QED
    BY <1>1, <2>1, SplitExact
<1>3. usdc' = Moved(Moved(Moved(Moved(usdc, Vault, Treasury, s80 - kept), Vault, Staking, s10),
                          Vault, Providers, s5), Vault, Ecosystem, rest)
  BY DEF Distribute
<1> HIDE DEF bal, s80, s10, s5, rest, kept
<1>4. PICK t \in Nat : t = s80 - kept
  BY <1>2
<1>5. t + s10 + s5 + rest <= usdc[Vault]
  BY <1>1, <1>2, <1>4
<1>6. /\ {Vault, Treasury, Staking, Providers, Ecosystem, Meter} \subseteq Accounts
      /\ Vault \notin {Treasury, Staking, Providers, Ecosystem, Meter}
      /\ Meter \notin {Treasury, Staking, Providers, Ecosystem}
      /\ Staking \notin {Treasury, Providers, Ecosystem}
  BY AccountsApart, VaultAssumption
<1> DEFINE one == Moved(usdc, Vault, Treasury, t)
           two == Moved(one, Vault, Staking, s10)
           three == Moved(two, Vault, Providers, s5)
           four == Moved(three, Vault, Ecosystem, rest)
<1>7. /\ one \in Balances /\ one[Vault] = usdc[Vault] - t
      /\ one[Staking] = usdc[Staking] /\ one[Meter] = usdc[Meter]
  BY <1>1, <1>2, <1>4, <1>5, <1>6, TransferTypes
<1> HIDE DEF one
<1>8. /\ two \in Balances /\ two[Vault] = usdc[Vault] - t - s10
      /\ two[Staking] = usdc[Staking] + s10 /\ two[Meter] = usdc[Meter]
  <2>1. s10 <= one[Vault]
    BY <1>1, <1>2, <1>5, <1>7
  <2> QED
    BY <1>2, <1>6, <1>7, <2>1, TransferTypes
<1> HIDE DEF two
<1>9. /\ three \in Balances /\ three[Vault] = usdc[Vault] - t - s10 - s5
      /\ three[Staking] = usdc[Staking] + s10 /\ three[Meter] = usdc[Meter]
  <2>1. s5 <= two[Vault]
    BY <1>1, <1>2, <1>5, <1>8
  <2> QED
    BY <1>2, <1>6, <1>8, <2>1, TransferTypes
<1> HIDE DEF three
<1>10. four \in Balances /\ four[Staking] = usdc[Staking] + s10 /\ four[Meter] = usdc[Meter]
  <2>1. rest <= three[Vault]
    BY <1>1, <1>2, <1>5, <1>9
  <2> QED
    BY <1>2, <1>6, <1>9, <2>1, TransferTypes
<1>11. usdc' = four
  BY <1>3, <1>4 DEF one, two, three
<1>12. usdc[Staking] \in Nat
  BY <1>6 DEF Balances
<1> QED
  BY <1>2, <1>10, <1>11, <1>12

LEMMA VaultEffect ==
  ASSUME LedgerTypeOK, VaultTypeOK, ReserveBacked, CallVault
  PROVE  /\ LedgerTypeOK' /\ usdc'[Staking] >= usdc[Staking] /\ usdc'[Meter] = usdc[Meter]
         /\ UNCHANGED <<encl, auth, now>>
<1>0. usdc \in Balances /\ usdc[Staking] \in Nat
  BY AccountsApart DEF LedgerTypeOK, Balances
<1>1. UNCHANGED <<encl, auth, now>>
  BY DEF CallVault, VaultNext, SetSplit, ConfigureBuyback, Distribute, SetBuybackReserveBps,
         ExecuteBuyback, ledgerVars
<1>2. ASSUME Distribute
      PROVE  usdc' \in Balances /\ usdc'[Staking] >= usdc[Staking] /\ usdc'[Meter] = usdc[Meter]
  BY <1>0, <1>2, DistributionEffect
<1>3. ASSUME NEW amountIn \in 1..reserved, ExecuteBuyback(amountIn)
      PROVE  usdc' \in Balances /\ usdc'[Staking] = usdc[Staking] /\ usdc'[Meter] = usdc[Meter]
  <2>1. amountIn \in Nat /\ amountIn <= usdc[Vault] /\ usdc' = Moved(usdc, Vault, Market, amountIn)
    BY <1>0, <1>3, AccountsApart DEF ExecuteBuyback, TransferUsdc, VaultTypeOK, Balances
  <2> QED
    BY <1>0, <2>1, AccountsApart, TransferTypes
<1>4. ASSUME UNCHANGED usdc
      PROVE  usdc' \in Balances /\ usdc'[Staking] = usdc[Staking] /\ usdc'[Meter] = usdc[Meter]
  BY <1>0, <1>4
<1>5. usdc' \in Balances /\ usdc'[Staking] >= usdc[Staking] /\ usdc'[Meter] = usdc[Meter]
  <2>1. \/ Distribute \/ UNCHANGED usdc
        \/ \E amountIn \in 1..reserved : ExecuteBuyback(amountIn)
    BY DEF CallVault, VaultNext, SetSplit, ConfigureBuyback, SetBuybackReserveBps, ledgerVars
  <2> QED
    BY <1>0, <1>2, <1>3, <1>4, <2>1
<1> QED
  BY <1>1, <1>5 DEF LedgerTypeOK, Balances

-----------------------------------------------------------------------------
(* The listings.                                                            *)

LEMMA ListingRow ==
  ASSUME NEW entry \in Listings \cup {NoListing}
  PROVE  /\ entry.listed \in BOOLEAN
         /\ entry.listed => entry \in Listings /\ entry.staked \in Nat
<1>1. NoListing.listed = FALSE
  BY DEF NoListing
<1>2. \A r \in Listings : r.listed = TRUE /\ r.staked \in Nat
  <2>1. \A r \in Listings : r.staked \in {0, ListingStake}
    BY DEF Listings
  <2>2. ListingStake \in Nat
    BY RegistryAssumption
  <2>3. \A r \in Listings : r.staked \in Nat
    BY <2>1, <2>2
  <2>4. \A r \in Listings : r.listed = TRUE
    BY DEF Listings
  <2> QED
    BY <2>3, <2>4
<1> QED
  BY <1>1, <1>2

LEMMA ModelsFinite == IsFiniteSet(Models)
BY RegistryAssumption

\* The stakes by which rows in l are listed, over all models.
StakesIn(l) == [m \in Models |-> IF l[m].listed THEN l[m].staked ELSE 0]
ListedIn(l) == {m \in Models : l[m].listed}

LEMMA StakesOfAll ==
  ASSUME NEW l \in [Models -> Listings \cup {NoListing}]
  PROVE  /\ Sum([m \in ListedIn(l) |-> l[m].staked], ListedIn(l)) = Sum(StakesIn(l), Models)
         /\ \A m \in Models : StakesIn(l)[m] \in Nat
<1> DEFINE f == [m \in ListedIn(l) |-> l[m].staked]
           g == StakesIn(l)
           rest == Models \ ListedIn(l)
<1>1. \A m \in ListedIn(l) : f[m] = g[m] /\ g[m] \in Nat
  BY ListingRow DEF ListedIn, StakesIn
<1>2. \A m \in rest : g[m] = 0
  BY DEF ListedIn, StakesIn
<1>3. ListedIn(l) \subseteq Models /\ IsFiniteSet(ListedIn(l)) /\ IsFiniteSet(Models)
  BY ModelsFinite, FS_Subset DEF ListedIn
<1> HIDE DEF f, g
<1>4. Sum(f, ListedIn(l)) = Sum(g, ListedIn(l))
  BY <1>1, <1>3, SumSame
<1>5. Sum(g, ListedIn(l)) = Sum(g, Models)
  BY <1>1, <1>2, <1>3, SumZeros
<1>6. \A m \in Models : g[m] \in Nat
  BY <1>1, <1>2
<1> QED
  BY <1>4, <1>5, <1>6 DEF f, g

\* A listing's row changes, and the registry's balance with its stake.
LEMMA ListingChanges ==
  ASSUME RegistryTypeOK, RegistryTypeOK', ListingStakesHeld, NEW m \in Models, NEW entry \in Listings,
         listing' = [listing EXCEPT ![m] = entry], encl[Registry] \in Nat,
         encl'[Registry] = encl[Registry] - StakesIn(listing)[m] + entry.staked
  PROVE  ListingStakesHeld'
<1> DEFINE f == StakesIn(listing)
           g == StakesIn(listing')
<1>1. /\ Sum([x \in Listed |-> listing[x].staked], Listed) = Sum(f, Models)
      /\ Sum([x \in Listed |-> listing[x].staked], Listed)' = Sum(g, Models)
      /\ \A x \in Models : f[x] \in Nat /\ g[x] \in Nat
  <2>1. listing \in [Models -> Listings \cup {NoListing}] /\ listing' \in [Models -> Listings \cup {NoListing}]
    BY DEF RegistryTypeOK
  <2> QED
    BY <2>1, StakesOfAll DEF Listed, ListedIn
<1>2. entry.listed = TRUE
  BY DEF Listings
<1>3. g[m] = entry.staked
  BY <1>2 DEF RegistryTypeOK, StakesIn
<1>4. \A x \in Models : x # m => g[x] = f[x]
  BY DEF RegistryTypeOK, StakesIn
<1> HIDE DEF f, g
<1>5. Sum(g, Models) = Sum(f, Models) - f[m] + g[m]
  BY <1>1, <1>4, SumUpdate, ModelsFinite
<1>6. Sum(f, Models) \in Int
  BY <1>1, SumType, ModelsFinite
<1>7. encl'[Registry] = Sum(g, Models)
  BY <1>1, <1>3, <1>5, <1>6 DEF ListingStakesHeld, f
<1> QED
  BY <1>1, <1>7 DEF ListingStakesHeld

\* A call of the registry moves only listing stakes, and keeps the share of what is listed.
LEMMA RegistryEffect ==
  ASSUME LedgerTypeOK, RegistryTypeOK, ListingStakesHeld, RegistryNext
  PROVE  /\ LedgerTypeOK' /\ ListingStakesHeld' /\ encl'[Staking] = encl[Staking]
         /\ UNCHANGED <<usdc, auth, now>>
         /\ \A m \in Models : listing[m].listed =>
              listing'[m].listed /\ listing'[m].bps = listing[m].bps
<1>0. /\ usdc \in Balances /\ encl \in Balances /\ encl[Registry] \in Nat /\ ListingStake \in Nat
      /\ now \in 0..MaxTime
  BY AccountsApart, RegistryAssumption DEF LedgerTypeOK, Balances
<1>1. RegistryTypeOK'
  BY <1>0, RegistryKeepsTypes
<1>2. /\ listing \in [Models -> Listings \cup {NoListing}]
      /\ \A m \in Models : listing[m].listed => listing[m] \in Listings /\ listing[m].staked \in Nat
  BY ListingRow DEF RegistryTypeOK
<1>3. /\ Registry \in Accounts /\ Staking \in Accounts /\ Registry # Staking
      /\ \A u \in Users : u \in Accounts /\ u \notin {Registry, Staking}
  BY AccountsApart
<1>4. UNCHANGED <<usdc, auth, now>>
  BY DEF RegistryNext, List, Approve, BootstrapApprove, Revoke, BootstrapRestore, ledgerVars
<1>5. ASSUME NEW m \in Models, NEW entry \in Listings, listing' = [listing EXCEPT ![m] = entry],
             encl' \in Balances, encl'[Staking] = encl[Staking],
             encl'[Registry] = encl[Registry] - StakesIn(listing)[m] + entry.staked,
             listing[m].listed => entry.bps = listing[m].bps
      PROVE  /\ LedgerTypeOK' /\ ListingStakesHeld' /\ encl'[Staking] = encl[Staking]
             /\ UNCHANGED <<usdc, auth, now>>
             /\ \A x \in Models : listing[x].listed =>
                  listing'[x].listed /\ listing'[x].bps = listing[x].bps
  <2>1. ListingStakesHeld'
    BY <1>0, <1>1, <1>5, ListingChanges
  <2>2. LedgerTypeOK'
    BY <1>4, <1>5 DEF LedgerTypeOK, Balances
  <2>3. entry.listed = TRUE
    BY DEF Listings
  <2>4. \A x \in Models : listing'[x] = IF x = m THEN entry ELSE listing[x]
    BY <1>2, <1>5
  <2> QED
    BY <1>4, <1>5, <2>1, <2>2, <2>3, <2>4
<1>6. ASSUME NEW m \in Models, NEW u \in Users, NEW bps \in Shares,
             NEW policy \in Policies \cup {"none"}, List(u, m, bps, policy)
      PROVE  \E entry \in Listings :
               /\ listing' = [listing EXCEPT ![m] = entry]
               /\ encl' \in Balances /\ encl'[Staking] = encl[Staking]
               /\ encl'[Registry] = encl[Registry] - StakesIn(listing)[m] + entry.staked
               /\ listing[m].listed => entry.bps = listing[m].bps
  <2> DEFINE entry == [listed |-> TRUE, provider |-> u, at |-> now, bps |-> bps,
                     staked |-> ListingStake, approved |-> FALSE, revoked |-> FALSE,
                     policy |-> policy]
  <2>1. entry \in Listings /\ entry.staked = ListingStake
    BY <1>0 DEF Listings
  <2>2. /\ ~listing[m].listed /\ listing' = [listing EXCEPT ![m] = entry]
        /\ encl[u] >= ListingStake /\ encl' = Moved(encl, u, Registry, ListingStake)
    BY <1>6 DEF List, TransferEncl
  <2>3. /\ encl' \in Balances /\ encl'[Staking] = encl[Staking]
        /\ encl'[Registry] = encl[Registry] + ListingStake
    BY <1>0, <1>3, <2>2, TransferTypes
  <2>4. StakesIn(listing)[m] = 0
    BY <2>2 DEF StakesIn
  <2> HIDE DEF entry
  <2>5. encl'[Registry] = encl[Registry] - StakesIn(listing)[m] + entry.staked
    BY <1>0, <2>1, <2>3, <2>4
  <2> QED
    BY <2>1, <2>2, <2>3, <2>5
<1>7. ASSUME NEW m \in Models, listing[m].listed, encl' = encl, NEW entry \in Listings,
             listing' = [listing EXCEPT ![m] = entry], entry.staked = listing[m].staked,
             entry.bps = listing[m].bps
      PROVE  \E r \in Listings :
               /\ listing' = [listing EXCEPT ![m] = r]
               /\ encl' \in Balances /\ encl'[Staking] = encl[Staking]
               /\ encl'[Registry] = encl[Registry] - StakesIn(listing)[m] + r.staked
               /\ listing[m].listed => r.bps = listing[m].bps
  <2>1. StakesIn(listing)[m] = listing[m].staked /\ listing[m].staked \in Nat
    BY <1>2, <1>7 DEF StakesIn
  <2>2. encl'[Registry] = encl[Registry] - StakesIn(listing)[m] + entry.staked
    BY <1>0, <1>7, <2>1
  <2> QED
    BY <1>0, <1>7, <2>2
<1>8. ASSUME NEW m \in Models, Approve(m) \/ BootstrapApprove(m)
      PROVE  \E r \in Listings :
               /\ listing' = [listing EXCEPT ![m] = r]
               /\ encl' \in Balances /\ encl'[Staking] = encl[Staking]
               /\ encl'[Registry] = encl[Registry] - StakesIn(listing)[m] + r.staked
               /\ listing[m].listed => r.bps = listing[m].bps
  <2> DEFINE entry == [listing[m] EXCEPT !.approved = TRUE]
  <2>1. listing[m].listed /\ listing[m] \in Listings /\ encl' = encl /\ listing' = [listing EXCEPT ![m] = entry]
    BY <1>2, <1>8 DEF Approve, BootstrapApprove, Approvable, ledgerVars
  <2>2. entry \in Listings /\ entry.staked = listing[m].staked /\ entry.bps = listing[m].bps
    BY <2>1 DEF Listings
  <2> HIDE DEF entry
  <2> QED
    BY <1>7, <2>1, <2>2
<1>9. ASSUME NEW m \in Models, BootstrapRestore(m)
      PROVE  \E r \in Listings :
               /\ listing' = [listing EXCEPT ![m] = r]
               /\ encl' \in Balances /\ encl'[Staking] = encl[Staking]
               /\ encl'[Registry] = encl[Registry] - StakesIn(listing)[m] + r.staked
               /\ listing[m].listed => r.bps = listing[m].bps
  <2> DEFINE entry == [[listing[m] EXCEPT !.revoked = FALSE] EXCEPT !.approved = TRUE]
  <2>1. listing[m].listed /\ listing[m] \in Listings /\ encl' = encl /\ listing' = [listing EXCEPT ![m] = entry]
    BY <1>2, <1>9 DEF BootstrapRestore, ledgerVars
  <2>2. entry \in Listings /\ entry.staked = listing[m].staked /\ entry.bps = listing[m].bps
    BY <2>1 DEF Listings
  <2> HIDE DEF entry
  <2> QED
    BY <1>7, <2>1, <2>2
<1>10. ASSUME NEW m \in Models, Revoke(m)
       PROVE  \E r \in Listings :
                /\ listing' = [listing EXCEPT ![m] = r]
                /\ encl' \in Balances /\ encl'[Staking] = encl[Staking]
                /\ encl'[Registry] = encl[Registry] - StakesIn(listing)[m] + r.staked
                /\ listing[m].listed => r.bps = listing[m].bps
  <2> DEFINE entry == RevokedRow(listing[m])
  <2>1. /\ listing[m].listed /\ listing[m] \in Listings /\ listing' = [listing EXCEPT ![m] = entry]
        /\ encl[Registry] >= listing[m].staked
        /\ encl' = Moved(encl, Registry, listing[m].provider, listing[m].staked)
    BY <1>2, <1>10 DEF Revoke, TransferEncl
  <2>2. PICK back \in Nat : back = listing[m].staked
    BY <1>2, <2>1
  <2>3. PICK provider \in Users : provider = listing[m].provider
    BY <2>1 DEF Listings
  <2>4. entry \in Listings /\ entry.staked = 0 /\ entry.bps = listing[m].bps
    BY <2>1 DEF Listings, RevokedRow
  <2>5. /\ encl' \in Balances /\ encl'[Staking] = encl[Staking]
        /\ encl'[Registry] = encl[Registry] - back
    BY <1>0, <1>3, <2>1, <2>2, <2>3, TransferTypes
  <2>6. StakesIn(listing)[m] = back
    BY <2>1, <2>2 DEF StakesIn
  <2> HIDE DEF entry
  <2>7. encl'[Registry] = encl[Registry] - StakesIn(listing)[m] + entry.staked
    BY <1>0, <2>2, <2>4, <2>5, <2>6
  <2> QED
    BY <2>1, <2>4, <2>5, <2>7
<1>11. \E m \in Models, r \in Listings :
         /\ listing' = [listing EXCEPT ![m] = r]
         /\ encl' \in Balances /\ encl'[Staking] = encl[Staking]
         /\ encl'[Registry] = encl[Registry] - StakesIn(listing)[m] + r.staked
         /\ listing[m].listed => r.bps = listing[m].bps
  BY <1>6, <1>8, <1>9, <1>10 DEF RegistryNext
<1> QED
  BY <1>5, <1>11

-----------------------------------------------------------------------------
(* A settlement.                                                            *)

\* The share that the meter computes without overflow is the exact one.
LEMMA FeeExact ==
  ASSUME NEW amount \in Nat, NEW bps \in Nat
  PROVE  ProviderFee(amount, bps) = (amount * bps) \div 10000
<1>1. PICK q \in Nat : q = amount \div 10000
  BY DivFacts
<1>2. PICK r \in Nat : r = amount % 10000
  BY DivFacts
<1>3. amount = 10000 * q + r
  BY <1>1, <1>2, DivFacts
<1>4. PICK x \in Nat : x = q * bps
  BY NatProduct
<1>5. PICK y \in Nat : y = r * bps
  BY NatProduct
<1>6. amount * bps = 10000 * x + y
  BY <1>3, <1>4, <1>5
<1>7. (10000 * x + y) \div 10000 = x + (y \div 10000)
  OBVIOUS
<1>8. ProviderFee(amount, bps) = x + (y \div 10000)
  BY <1>1, <1>2, <1>4, <1>5 DEF ProviderFee
<1> QED
  BY <1>6, <1>7, <1>8

LEMMA PaymentsFinite ==
  ASSUME NEW S \in SUBSET Payments
  PROVE  IsFiniteSet(S)
BY MeterAssumption, FS_Subset

\* What a payment that is settled adds to a sum over the settled ones.
LEMMA PaymentAdds ==
  ASSUME NEW p \in Payments, NEW S \in SUBSET Payments, p \notin S, NEW f,
         \A q \in S \cup {p} : f[q] \in Int
  PROVE  Sum(f, S \cup {p}) = Sum(f, S) + f[p] /\ Sum(f, S) \in Int
<1>1. Sum(f, S \cup {p}) = f[p] + Sum(f, S)
  BY PaymentsFinite, SumWith
<1>2. Sum(f, S) \in Int
  BY PaymentsFinite, SumType
<1> QED
  BY <1>1, <1>2

\* The books follow a settlement: its amount is counted once for the payer and, if it is for a
\* model, once for the listing, with the listing's share of it.
LEMMA SettleBooks ==
  ASSUME usdc \in Balances, RegistryTypeOK, MeterTypeOK, BooksExact, PaidListed,
         NEW p \in Payments, NEW from \in Users \cup {Meter}, Settles(p, from)
  PROVE  /\ BooksExact' /\ PaidListed'
         /\ settled' \in [Payments -> {"no", "paid", "shielded"}] /\ spent' \in [Users -> Nat]
         /\ earned' \in [Models -> Nat] /\ volume' \in [Models -> Nat]
<1> DEFINE m == Terms[p].model
<1>0. /\ settled \in [Payments -> {"no", "paid", "shielded"}] /\ spent \in [Users -> Nat]
      /\ earned \in [Models -> Nat] /\ volume \in [Models -> Nat]
  BY DEF MeterTypeOK
<1>1. PICK payer \in Users : payer = Terms[p].payer
  BY PaymentFacts
<1>2. PICK n \in Nat : n = Terms[p].amount
  BY PaymentFacts
<1>3. /\ settled[p] = "no" /\ settled' = [settled EXCEPT ![p] = "paid"]
      /\ spent' = [spent EXCEPT ![payer] = @ + n]
      /\ Pays(p, from) /\ listing' = listing
  BY <1>1, <1>2 DEF Settles, registryVars
<1>4. /\ earned' \in [Models -> Nat] /\ volume' \in [Models -> Nat]
      /\ m = NoModel => UNCHANGED <<earned, volume>>
      /\ m # NoModel => /\ IsApproved(m)
                        /\ earned' = [earned EXCEPT ![m] = @ + ProviderFee(n, listing[m].bps)]
                        /\ volume' = [volume EXCEPT ![m] = @ + n]
  BY <1>0, <1>2, <1>3, PaysFacts
<1>5. PaidListed'
  <2> SUFFICES ASSUME NEW q \in Payments, settled'[q] = "paid", Terms[q].model # NoModel
               PROVE  listing'[Terms[q].model].listed
    BY DEF PaidListed
  <2>1. CASE q = p
    BY <1>3, <1>4, <2>1 DEF IsApproved
  <2>2. CASE q # p
    BY <1>0, <1>3, <2>2 DEF PaidListed
  <2> QED
    BY <2>1, <2>2
<1>6. /\ settled' \in [Payments -> {"no", "paid", "shielded"}]
      /\ spent' \in [Users -> Nat]
  BY <1>0, <1>3
<1>7. /\ \A q \in Payments : Prices[q] = Terms[q].amount /\ Prices[q] \in Int
      /\ Prices[p] = n
  BY <1>2, PaymentFacts DEF Prices
<1>8. ASSUME NEW u \in Users PROVE spent'[u] = Sum(Prices, PaidBy(u))'
  <2>1. spent[u] = Sum(Prices, PaidBy(u)) /\ spent[u] \in Nat
    BY <1>0 DEF BooksExact
  <2>2. PaidBy(u) \in SUBSET Payments /\ p \notin PaidBy(u)
    BY <1>3 DEF PaidBy
  <2>3. CASE u = payer
    <3>1. PaidBy(u)' = PaidBy(u) \cup {p}
      BY <1>0, <1>1, <1>3, <2>3 DEF PaidBy
    <3>2. Sum(Prices, PaidBy(u) \cup {p}) = Sum(Prices, PaidBy(u)) + n
      BY <1>7, <2>2, PaymentAdds
    <3>3. spent'[u] = spent[u] + n
      BY <1>0, <1>3, <2>3
    <3> QED
      BY <2>1, <3>1, <3>2, <3>3 DEF Prices
  <2>4. CASE u # payer
    <3>1. PaidBy(u)' = PaidBy(u) /\ spent'[u] = spent[u]
      BY <1>0, <1>1, <1>3, <2>4 DEF PaidBy
    <3> QED
      BY <2>1, <3>1 DEF Prices
  <2> QED
    BY <2>3, <2>4
<1>9. ASSUME NEW x \in Models
      PROVE  volume'[x] = Sum(Prices, PaidFor(x))' /\ earned'[x] = Sum(Fees(x), PaidFor(x))'
  <2>1. /\ volume[x] = Sum(Prices, PaidFor(x)) /\ volume[x] \in Nat
        /\ earned[x] = Sum(Fees(x), PaidFor(x)) /\ earned[x] \in Nat
    BY <1>0 DEF BooksExact
  <2>2. PaidFor(x) \in SUBSET Payments /\ p \notin PaidFor(x)
    BY <1>3 DEF PaidFor
  <2>3. Fees(x)' = Fees(x) /\ Prices' = Prices
    BY <1>3 DEF Fees, Prices
  <2>4. CASE x = m
    <3>1. m # NoModel /\ listing[m].listed
      BY <1>4, <2>4, MeterAssumption DEF IsApproved
    <3>2. PICK bps \in Nat : bps = listing[m].bps
      BY <2>4, <3>1, ApprovedFacts
    <3>3. PaidFor(x)' = PaidFor(x) \cup {p}
      BY <1>0, <1>3, <2>4 DEF PaidFor
    <3>4. Sum(Prices, PaidFor(x) \cup {p}) = Sum(Prices, PaidFor(x)) + n
      BY <1>7, <2>2, PaymentAdds
    <3> DEFINE f == Fees(x)
    <3>5. \A q \in Payments : f[q] \in Int
      <4> SUFFICES ASSUME NEW q \in Payments PROVE f[q] \in Int
        OBVIOUS
      <4>1. PICK a \in Nat : a = Terms[q].amount
        BY PaymentFacts
      <4>2. a * bps \in Nat /\ (a * bps) \div 10000 \in Int
        BY NatProduct, DivFacts
      <4>3. f[q] = (a * bps) \div 10000
        BY <2>4, <3>2, <4>1 DEF Fees
      <4> QED
        BY <4>2, <4>3
    <3>6. f[p] = ProviderFee(n, bps)
      BY <1>2, <2>4, <3>2, FeeExact DEF Fees
    <3> HIDE DEF f
    <3>7. Sum(f, PaidFor(x) \cup {p}) = Sum(f, PaidFor(x)) + ProviderFee(n, bps)
      BY <2>2, <3>5, <3>6, PaymentAdds
    <3>8. volume'[x] = volume[x] + n /\ earned'[x] = earned[x] + ProviderFee(n, bps)
      BY <1>0, <1>4, <2>4, <3>1, <3>2
    <3>9. volume'[x] = Sum(Prices, PaidFor(x))'
      BY <2>1, <2>3, <3>3, <3>4, <3>8
    <3>10. earned'[x] = Sum(Fees(x), PaidFor(x))'
      BY <2>1, <2>3, <3>3, <3>7, <3>8 DEF f
    <3> QED
      BY <3>9, <3>10
  <2>5. CASE x # m
    <3>1. PaidFor(x)' = PaidFor(x)
      BY <1>0, <1>3, <2>5 DEF PaidFor
    <3>2. volume'[x] = volume[x] /\ earned'[x] = earned[x]
      BY <1>0, <1>4, <2>5
    <3> QED
      BY <2>1, <2>3, <3>1, <3>2
  <2> QED
    BY <2>4, <2>5
<1>10. BooksExact'
  BY <1>8, <1>9 DEF BooksExact
<1> QED
  BY <1>4, <1>5, <1>6, <1>10

\* The books stay exact when nothing is paid and what is listed keeps its share.
LEMMA BooksKept ==
  ASSUME BooksExact, PaidListed, UNCHANGED <<spent, earned, volume>>,
         \A p \in Payments : settled'[p] = "paid" <=> settled[p] = "paid",
         \A m \in Models : listing[m].listed => listing'[m].listed /\ listing'[m].bps = listing[m].bps
  PROVE  BooksExact' /\ PaidListed'
<1>1. /\ \A u \in Users : PaidBy(u)' = PaidBy(u)
      /\ \A m \in Models : PaidFor(m)' = PaidFor(m)
      /\ Prices' = Prices
  BY DEF PaidBy, PaidFor, Prices
<1>2. ASSUME NEW m \in Models PROVE Sum(Fees(m), PaidFor(m))' = Sum(Fees(m), PaidFor(m))
  <2>1. CASE PaidFor(m) = {}
    <3>1. PaidFor(m)' = {}
      BY <1>1, <2>1
    <3>2. Sum(Fees(m), {}) = 0 /\ Sum(Fees(m)', {}) = 0
      BY SumEmpty
    <3> QED
      BY <2>1, <3>1, <3>2
  <2>2. CASE PaidFor(m) # {}
    <3>1. listing[m].listed
      BY <2>2, MeterAssumption DEF PaidListed, PaidFor
    <3>2. Fees(m)' = Fees(m)
      BY <3>1 DEF Fees
    <3> QED
      BY <1>1, <3>2
  <2> QED
    BY <2>1, <2>2
<1>3. BooksExact'
  <2>1. ASSUME NEW u \in Users PROVE spent'[u] = Sum(Prices, PaidBy(u))'
    BY <1>1 DEF BooksExact
  <2>2. ASSUME NEW m \in Models
        PROVE  volume'[m] = Sum(Prices, PaidFor(m))' /\ earned'[m] = Sum(Fees(m), PaidFor(m))'
    BY <1>1, <1>2 DEF BooksExact
  <2> QED
    BY <2>1, <2>2 DEF BooksExact
<1>4. PaidListed'
  <2> SUFFICES ASSUME NEW p \in Payments, settled'[p] = "paid", Terms[p].model # NoModel
               PROVE  listing'[Terms[p].model].listed
    BY DEF PaidListed
  <2>1. settled[p] = "paid" /\ Terms[p].model \in Models
    BY PaymentFacts
  <2> QED
    BY <2>1 DEF PaidListed
<1> QED
  BY <1>3, <1>4

-----------------------------------------------------------------------------
(* The deposits.                                                            *)

LEMMA UnclaimedFinite ==
  /\ IsFiniteSet(Auths) /\ \A a \in Auths : AuthAmount[a] \in Nat /\ AuthPayer[a] \in Users
  /\ \A S \in SUBSET Auths : IsFiniteSet(S)
BY LedgerAssumption, FS_Subset

LEMMA DepositAdds ==
  ASSUME NEW a \in Auths, a \notin Unclaimed, Unclaimed' = Unclaimed \cup {a}, DepositsBacked,
         usdc[Meter] \in Nat, usdc'[Meter] = usdc[Meter] + AuthAmount[a]
  PROVE  DepositsBacked'
<1>1. Unclaimed \in SUBSET Auths /\ IsFiniteSet(Unclaimed)
  BY UnclaimedFinite DEF Unclaimed
<1>2. Sum(AuthAmount, Unclaimed \cup {a}) = AuthAmount[a] + Sum(AuthAmount, Unclaimed)
  BY <1>1, UnclaimedFinite, SumWith
<1> QED
  BY <1>2, UnclaimedFinite DEF DepositsBacked

LEMMA ClaimTakes ==
  ASSUME NEW a \in Unclaimed, Unclaimed' = Unclaimed \ {a}, DepositsBacked,
         usdc[Meter] \in Nat, usdc'[Meter] = usdc[Meter] - AuthAmount[a]
  PROVE  DepositsBacked'
<1>1. Unclaimed \in SUBSET Auths /\ IsFiniteSet(Unclaimed) /\ IsFiniteSet(Unclaimed \ {a}) /\ a \in Auths
  BY UnclaimedFinite DEF Unclaimed
<1>2. Sum(AuthAmount, Unclaimed) = AuthAmount[a] + Sum(AuthAmount, Unclaimed \ {a})
  BY <1>1, UnclaimedFinite, SumWithout
<1>3. Sum(AuthAmount, Unclaimed \ {a}) \in Int
  BY <1>1, UnclaimedFinite, SumType
<1> QED
  BY <1>1, <1>2, <1>3, UnclaimedFinite DEF DepositsBacked

\* A call of the meter.
LEMMA MeterEffect ==
  ASSUME LedgerTypeOK, RegistryTypeOK, BooksInv, CallMeter
  PROVE  /\ LedgerTypeOK' /\ BooksInv'
         /\ usdc'[Staking] = usdc[Staking] /\ UNCHANGED encl
<1>0. /\ usdc \in Balances /\ usdc[Meter] \in Nat
      /\ auth \in [Auths -> {"unused", "transferred", "canceled"}]
      /\ boundTo \in [Auths -> Payments \cup {NoPayment}] /\ wired \subseteq Wires
      /\ settled \in [Payments -> {"no", "paid", "shielded"}]
  BY AccountsApart DEF LedgerTypeOK, Balances, BooksInv, MeterTypeOK
<1>1. /\ MeterTypeOK /\ BooksExact /\ PaidListed /\ BoundUsed /\ DepositsBacked
      /\ ListingStakesHeld
  BY DEF BooksInv
<1>2. \A p \in Payments : Terms[p].payer \in Users /\ Terms[p].payer # Meter /\ Terms[p].amount \in Nat
  BY PaymentFacts, AccountsApart
<1>3. ASSUME NEW p \in Payments, NEW from \in Users \cup {Meter}, Settles(p, from),
             auth' \in [Auths -> {"unused", "transferred", "canceled"}],
             boundTo' \in [Auths -> Payments \cup {NoPayment}]
      PROVE  /\ LedgerTypeOK' /\ usdc'[Staking] = usdc[Staking] /\ UNCHANGED encl
             /\ MeterTypeOK' /\ BooksExact' /\ PaidListed' /\ ListingStakesHeld'
             /\ usdc'[Meter] = IF from = Meter THEN usdc[Meter] - Terms[p].amount ELSE usdc[Meter]
  <2>1. Pays(p, from) /\ UNCHANGED <<wired, local, listing, encl, now>>
    BY <1>3 DEF Settles, registryVars
  <2>2. /\ usdc' \in Balances /\ usdc'[Staking] = usdc[Staking]
        /\ usdc'[Meter] = IF from = Meter THEN usdc[Meter] - Terms[p].amount ELSE usdc[Meter]
    BY <1>0, <1>1, <2>1, PaysFacts DEF MeterTypeOK
  <2>3. LedgerTypeOK'
    BY <1>3, <2>1, <2>2 DEF LedgerTypeOK, Balances
  <2>4. /\ BooksExact' /\ PaidListed'
        /\ settled' \in [Payments -> {"no", "paid", "shielded"}] /\ spent' \in [Users -> Nat]
        /\ earned' \in [Models -> Nat] /\ volume' \in [Models -> Nat]
    BY <1>0, <1>1, <1>3, SettleBooks
  <2>5. MeterTypeOK'
    BY <1>0, <1>3, <2>1, <2>4 DEF MeterTypeOK
  <2>6. ListingStakesHeld'
    BY <1>1, <2>1 DEF ListingStakesHeld, Listed
  <2> QED
    BY <2>1, <2>2, <2>3, <2>4, <2>5, <2>6
<1>4. ASSUME NEW p \in Payments, SettleOnce(p)
      PROVE  /\ LedgerTypeOK' /\ BooksInv'
             /\ usdc'[Staking] = usdc[Staking] /\ UNCHANGED encl
  <2>1. Settles(p, Terms[p].payer) /\ boundTo' = boundTo /\ auth' = auth
    BY <1>4 DEF SettleOnce
  <2>2. /\ LedgerTypeOK' /\ usdc'[Staking] = usdc[Staking] /\ UNCHANGED encl
        /\ MeterTypeOK' /\ BooksExact' /\ PaidListed' /\ ListingStakesHeld'
        /\ usdc'[Meter] = usdc[Meter]
    BY <1>0, <1>2, <1>3, <2>1
  <2>3. DepositsBacked' /\ BoundUsed'
    BY <1>1, <2>1, <2>2 DEF DepositsBacked, Unclaimed, BoundUsed
  <2> QED
    BY <2>2, <2>3 DEF BooksInv
<1>5. ASSUME NEW p \in Payments, NEW a \in Auths, SettleTransferAuthorized(p, a)
      PROVE  /\ LedgerTypeOK' /\ BooksInv'
             /\ usdc'[Staking] = usdc[Staking] /\ UNCHANGED encl
  <2>1. /\ Settles(p, Terms[p].payer) /\ boundTo[a] = NoPayment /\ auth[a] = "unused"
        /\ boundTo' = [boundTo EXCEPT ![a] = p] /\ auth' = [auth EXCEPT ![a] = "transferred"]
    BY <1>5 DEF SettleTransferAuthorized, Consumes
  <2>2. /\ auth' \in [Auths -> {"unused", "transferred", "canceled"}]
        /\ boundTo' \in [Auths -> Payments \cup {NoPayment}]
    BY <1>0, <2>1
  <2>3. /\ LedgerTypeOK' /\ usdc'[Staking] = usdc[Staking] /\ UNCHANGED encl
        /\ MeterTypeOK' /\ BooksExact' /\ PaidListed' /\ ListingStakesHeld'
        /\ usdc'[Meter] = usdc[Meter]
    BY <1>2, <1>3, <2>1, <2>2
  <2>4. Unclaimed' = Unclaimed
    BY <1>0, <2>1, MeterAssumption DEF Unclaimed
  <2>5. DepositsBacked' /\ BoundUsed'
    BY <1>0, <1>1, <2>1, <2>3, <2>4 DEF DepositsBacked, BoundUsed
  <2> QED
    BY <2>3, <2>5 DEF BooksInv
<1>6. ASSUME NEW p \in Payments, NEW a \in Auths, SettlePrepaidTransfer(p, a)
      PROVE  /\ LedgerTypeOK' /\ BooksInv'
             /\ usdc'[Staking] = usdc[Staking] /\ UNCHANGED encl
  <2>1. /\ Settles(p, Meter) /\ boundTo[a] = NoPayment /\ auth[a] = "transferred"
        /\ AuthAmount[a] = Terms[p].amount
        /\ boundTo' = [boundTo EXCEPT ![a] = p] /\ auth' = auth
    BY <1>6 DEF SettlePrepaidTransfer, Consumes, Covers
  <2>2. /\ auth' \in [Auths -> {"unused", "transferred", "canceled"}]
        /\ boundTo' \in [Auths -> Payments \cup {NoPayment}]
    BY <1>0, <2>1
  <2>3. /\ LedgerTypeOK' /\ usdc'[Staking] = usdc[Staking] /\ UNCHANGED encl
        /\ MeterTypeOK' /\ BooksExact' /\ PaidListed' /\ ListingStakesHeld'
        /\ usdc'[Meter] = usdc[Meter] - AuthAmount[a]
    BY <1>3, <2>1, <2>2
  <2>4. a \in Unclaimed /\ Unclaimed' = Unclaimed \ {a}
    BY <1>0, <2>1, MeterAssumption DEF Unclaimed
  <2>5. DepositsBacked'
    BY <1>0, <1>1, <2>3, <2>4, ClaimTakes
  <2>6. BoundUsed'
    BY <1>0, <1>1, <2>1 DEF BoundUsed
  <2> QED
    BY <2>3, <2>5, <2>6 DEF BooksInv
<1>7. ASSUME UNCHANGED <<spent, earned, volume, boundTo, registryVars, ledgerVars>>,
             settled' \in [Payments -> {"no", "paid", "shielded"}], wired' \subseteq Wires,
             \A p \in Payments : settled'[p] = "paid" <=> settled[p] = "paid"
      PROVE  /\ LedgerTypeOK' /\ BooksInv'
             /\ usdc'[Staking] = usdc[Staking] /\ UNCHANGED encl
  <2>1. UNCHANGED <<usdc, encl, auth, now, local, listing>>
    BY <1>7 DEF ledgerVars, registryVars
  <2>2. BooksExact' /\ PaidListed'
    BY <1>1, <1>7, <2>1, BooksKept
  <2>3. LedgerTypeOK' /\ MeterTypeOK'
    BY <1>1, <1>7, <2>1 DEF LedgerTypeOK, MeterTypeOK
  <2>4. ListingStakesHeld' /\ DepositsBacked' /\ BoundUsed'
    BY <1>1, <1>7, <2>1 DEF ListingStakesHeld, Listed, DepositsBacked, Unclaimed, BoundUsed
  <2> QED
    BY <2>1, <2>2, <2>3, <2>4 DEF BooksInv
<1>8. ASSUME NEW p \in Payments, SettleConfidential(p)
      PROVE  /\ LedgerTypeOK' /\ BooksInv'
             /\ usdc'[Staking] = usdc[Staking] /\ UNCHANGED encl
  <2>1. /\ settled[p] = "no" /\ settled' = [settled EXCEPT ![p] = "shielded"] /\ wired' = wired
        /\ UNCHANGED <<spent, earned, volume, boundTo, registryVars, ledgerVars>>
    BY <1>8 DEF SettleConfidential
  <2>2. \A q \in Payments : settled'[q] = "paid" <=> settled[q] = "paid"
    BY <1>0, <2>1
  <2>3. settled' \in [Payments -> {"no", "paid", "shielded"}]
    BY <1>0, <2>1
  <2> QED
    BY <1>0, <1>7, <2>1, <2>2, <2>3
<1>9. ASSUME NEW w \in Wires, Configure({w})
      PROVE  /\ LedgerTypeOK' /\ BooksInv'
             /\ usdc'[Staking] = usdc[Staking] /\ UNCHANGED encl
  <2>1. /\ settled' = settled /\ wired' \subseteq Wires
        /\ UNCHANGED <<spent, earned, volume, boundTo, registryVars, ledgerVars>>
    BY <1>0, <1>9 DEF Configure
  <2> QED
    BY <1>0, <1>7, <2>1
<1> QED
  BY <1>4, <1>5, <1>6, <1>8, <1>9 DEF CallMeter, MeterNext

\* A transfer of a deposit, or its cancellation, leaves the meter owing what it holds.
LEMMA TokensKeepBooks ==
  ASSUME LedgerTypeOK, BooksInv, CallTokens
  PROVE  BooksInv'
<1>0. /\ usdc \in Balances /\ usdc[Meter] \in Nat
      /\ auth \in [Auths -> {"unused", "transferred", "canceled"}]
  BY AccountsApart DEF LedgerTypeOK, Balances
<1>1. /\ encl' = encl /\ UNCHANGED <<listing, settled, spent, earned, volume, boundTo, wired>>
      /\ \/ UNCHANGED <<usdc, auth>>
         \/ \E a \in Auths : Deposit(a) \/ CancelAuthorization(a)
  BY TokensEffect DEF CallTokens, registryVars, meterVars
<1>2. MeterTypeOK' /\ ListingStakesHeld' /\ BooksExact' /\ PaidListed'
  <2>1. BooksExact' /\ PaidListed'
    BY <1>1, BooksKept DEF BooksInv
  <2> QED
    BY <1>1, <2>1 DEF BooksInv, MeterTypeOK, ListingStakesHeld, Listed
<1>3. CASE UNCHANGED <<usdc, auth>>
  BY <1>1, <1>2, <1>3 DEF BooksInv, DepositsBacked, Unclaimed, BoundUsed
<1>4. ASSUME NEW a \in Auths, Deposit(a) PROVE BooksInv'
  <2>1. /\ auth[a] = "unused" /\ auth' = [auth EXCEPT ![a] = "transferred"]
        /\ usdc[AuthPayer[a]] >= AuthAmount[a]
        /\ usdc' = Moved(usdc, AuthPayer[a], Meter, AuthAmount[a])
    BY <1>4 DEF Deposit, TransferUsdc
  <2>2. /\ AuthAmount[a] \in Nat /\ AuthPayer[a] \in Accounts /\ Meter \in Accounts
        /\ AuthPayer[a] # Meter
    BY UnclaimedFinite, AccountsApart
  <2>3. usdc'[Meter] = usdc[Meter] + AuthAmount[a]
    BY <1>0, <2>1, <2>2, TransferTypes DEF Balances
  <2>4. boundTo[a] = NoPayment
    BY <2>1 DEF BooksInv, BoundUsed
  <2>5. a \notin Unclaimed /\ Unclaimed' = Unclaimed \cup {a}
    BY <1>0, <1>1, <2>1, <2>4 DEF Unclaimed
  <2>6. DepositsBacked'
    BY <1>0, <2>3, <2>5, DepositAdds DEF BooksInv
  <2>7. BoundUsed'
    BY <1>0, <1>1, <2>1 DEF BooksInv, BoundUsed
  <2> QED
    BY <1>2, <2>6, <2>7 DEF BooksInv
<1>5. ASSUME NEW a \in Auths, CancelAuthorization(a) PROVE BooksInv'
  <2>1. /\ auth[a] = "unused" /\ auth' = [auth EXCEPT ![a] = "canceled"] /\ usdc' = usdc
    BY <1>5 DEF CancelAuthorization
  <2>2. Unclaimed' = Unclaimed
    BY <1>0, <1>1, <2>1 DEF Unclaimed
  <2>3. BoundUsed'
    BY <1>0, <1>1, <2>1 DEF BooksInv, BoundUsed
  <2> QED
    BY <1>2, <2>1, <2>2, <2>3 DEF BooksInv, DepositsBacked
<1> QED
  BY <1>1, <1>3, <1>4, <1>5

\* The other contracts do not touch the meter's books.
LEMMA OthersKeepBooks ==
  ASSUME BooksInv, UNCHANGED <<auth, meterVars>>, usdc'[Meter] = usdc[Meter], ListingStakesHeld',
         \A m \in Models : listing[m].listed => listing'[m].listed /\ listing'[m].bps = listing[m].bps
  PROVE  BooksInv'
<1>1. UNCHANGED <<settled, spent, earned, volume, boundTo, wired>>
  BY DEF meterVars
<1>2. BooksExact' /\ PaidListed'
  BY <1>1, BooksKept DEF BooksInv
<1> QED
  BY <1>1, <1>2 DEF BooksInv, MeterTypeOK, DepositsBacked, Unclaimed, BoundUsed

-----------------------------------------------------------------------------
(* The contracts together.                                                  *)

LEMMA LedgerInvInit == Init => LedgerInv /\ BooksInv
<1> SUFFICES ASSUME Init PROVE LedgerInv /\ BooksInv
  OBVIOUS
<1>0. LedgerInit /\ RegistryInit /\ MeterInit /\ StakingInit
  BY DEF Init
<1>1. LedgerTypeOK
  <2>1. usdc \in [Accounts -> Nat] /\ encl \in [Accounts -> Nat]
    BY <1>0, LedgerAssumption DEF LedgerInit, Funded
  <2> QED
    BY <1>0, <2>1, LedgerAssumption DEF LedgerInit, LedgerTypeOK
<1>2. usdc[Staking] = 0 /\ encl[Staking] = 0 /\ usdc[Meter] = 0 /\ encl[Registry] = 0
  BY <1>0, AccountsApart DEF LedgerInit, Funded
<1>3. StakingInv
  <2>1. StakingTypeOK /\ accounted <= usdc[Staking] /\ \A u \in Users : paidPerToken[u] <= perToken
    <3>1. StakingTypeOK
      BY <1>0 DEF StakingInit, StakingTypeOK
    <3>2. accounted = 0 /\ perToken = 0 /\ \A u \in Users : paidPerToken[u] = 0
      BY <1>0 DEF StakingInit
    <3> QED
      BY <1>2, <3>1, <3>2
  <2>2. \A u \in Users : staked[u] = 0 /\ ScaledAt(perToken)[u] = 0
    BY <1>0, StakingAssumption DEF StakingInit, ScaledAt
  <2>3. Sum(staked, Users) = 0
    BY <2>2, UsersFinite, SumOfZeros
  <2>4. Sum(ScaledAt(perToken), Users) = 0
    <3> DEFINE f == ScaledAt(perToken)
    <3> HIDE DEF f
    <3>1. (\A u \in Users : f[u] = 0) => Sum(f, Users) = 0
      BY UsersFinite, SumOfZeros
    <3> QED
      BY <2>2, <3>1 DEF f
  <2>5. unallocated * Precision = 0 /\ accounted * Precision = 0
    BY <1>0, StakingAssumption DEF StakingInit
  <2> QED
    BY <1>0, <1>2, <2>1, <2>3, <2>4, <2>5 DEF StakingInit, StakingInv, StakerStakesHeld, Covered
<1>4. MeterTypeOK
  BY <1>0 DEF MeterInit, MeterTypeOK, Wires
<1>5. ListingStakesHeld
  <2>1. Listed = {}
    BY <1>0 DEF RegistryInit, Listed, NoListing
  <2>2. Sum([m \in Listed |-> listing[m].staked], {}) = 0
    BY SumEmpty
  <2> QED
    BY <1>2, <2>1, <2>2 DEF ListingStakesHeld
<1>6. DepositsBacked
  <2>1. Unclaimed = {}
    BY <1>0 DEF LedgerInit, Unclaimed
  <2>2. Sum(AuthAmount, {}) = 0
    BY SumEmpty
  <2> QED
    BY <1>2, <2>1, <2>2 DEF DepositsBacked
<1>7. BooksExact
  <2>1. (\A u : PaidBy(u) = {}) /\ (\A m : PaidFor(m) = {})
    BY <1>0 DEF MeterInit, PaidBy, PaidFor
  <2>2. Sum(Prices, {}) = 0 /\ \A m \in Models : Sum(Fees(m), {}) = 0
    BY SumEmpty
  <2> QED
    BY <1>0, <2>1, <2>2 DEF MeterInit, BooksExact
<1>8. PaidListed /\ BoundUsed
  BY <1>0 DEF MeterInit, PaidListed, BoundUsed
<1> QED
  BY <1>1, <1>3, <1>4, <1>5, <1>6, <1>7, <1>8, VaultInvInit DEF LedgerInv, BooksInv

LEMMA ContractsStep ==
  ASSUME LedgerInv, BooksInv, [Next]_allVars
  PROVE  LedgerInv' /\ BooksInv'
<1>0. /\ LedgerTypeOK /\ VaultInv /\ StakingInv /\ RegistryTypeOK /\ VaultTypeOK /\ ReserveBacked
      /\ ListingStakesHeld /\ usdc \in Balances /\ encl \in Balances
  BY DEF LedgerInv, VaultInv, BooksInv, LedgerTypeOK, Balances
<1>1. VaultInv'
  BY <1>0, VaultInvNext
<1>2. usdc[Staking] \in Nat
  BY <1>0, AccountsApart DEF Balances
<1>3. ASSUME LedgerTypeOK' PROVE usdc'[Staking] \in Nat
  BY <1>3, AccountsApart DEF LedgerTypeOK
<1>4. CASE CallTokens
  <2>1. LedgerTypeOK' /\ usdc'[Staking] = usdc[Staking] /\ encl' = encl /\ UNCHANGED stakingVars
    BY <1>0, <1>4, TokensEffect DEF CallTokens
  <2>2. StakingInv'
    BY <1>0, <1>2, <2>1, OthersKeepStakes
  <2> QED
    BY <1>0, <1>1, <1>4, <2>1, <2>2, TokensKeepBooks DEF LedgerInv
<1>5. CASE CallRegistry
  <2>1. RegistryNext /\ UNCHANGED <<stakingVars, meterVars>>
    BY <1>5 DEF CallRegistry
  <2>2. /\ LedgerTypeOK' /\ ListingStakesHeld' /\ encl'[Staking] = encl[Staking]
        /\ UNCHANGED <<usdc, auth, now>>
        /\ \A m \in Models : listing[m].listed =>
             listing'[m].listed /\ listing'[m].bps = listing[m].bps
    BY <1>0, <2>1, RegistryEffect
  <2>3. StakingInv'
    BY <1>0, <1>2, <2>1, <2>2, OthersKeepStakes
  <2>4. BooksInv'
    BY <2>1, <2>2, OthersKeepBooks
  <2> QED
    BY <1>1, <2>2, <2>3, <2>4 DEF LedgerInv
<1>6. ASSUME UNCHANGED <<usdc, encl, auth, now, registryVars, meterVars, stakingVars>>
      PROVE  LedgerInv' /\ BooksInv'
  <2>1. LedgerTypeOK' /\ UNCHANGED listing
    BY <1>0, <1>6 DEF LedgerTypeOK, registryVars
  <2>2. StakingInv'
    BY <1>0, <1>2, <1>6, OthersKeepStakes
  <2>3. ListingStakesHeld'
    BY <1>0, <1>6, <2>1 DEF ListingStakesHeld, Listed
  <2>4. BooksInv'
    BY <1>6, <2>1, <2>3, OthersKeepBooks
  <2> QED
    BY <1>1, <2>1, <2>2, <2>4 DEF LedgerInv
<1>7. CASE CallMandate
  BY <1>6, <1>7 DEF CallMandate, MandateNext, Open, Spend, ledgerVars
<1>8. CASE CallMeter
  <2>1. LedgerTypeOK' /\ BooksInv' /\ usdc'[Staking] = usdc[Staking] /\ encl' = encl /\ UNCHANGED stakingVars
    BY <1>0, <1>8, MeterEffect DEF CallMeter
  <2>2. StakingInv'
    BY <1>0, <1>2, <2>1, OthersKeepStakes
  <2> QED
    BY <1>1, <2>1, <2>2 DEF LedgerInv
<1>9. CASE CallVault
  <2>1. /\ LedgerTypeOK' /\ usdc'[Staking] >= usdc[Staking] /\ usdc'[Meter] = usdc[Meter]
        /\ UNCHANGED <<encl, auth, now, registryVars, meterVars, stakingVars>>
    BY <1>0, <1>9, VaultEffect DEF CallVault
  <2>2. usdc'[Staking] \in Nat
    BY <1>3, <2>1
  <2>3. StakingInv'
    BY <1>0, <1>2, <2>1, <2>2, OthersKeepStakes
  <2>4. UNCHANGED listing
    BY <2>1 DEF registryVars
  <2>5. ListingStakesHeld'
    BY <1>0, <2>1, <2>4 DEF ListingStakesHeld, Listed
  <2>6. BooksInv'
    BY <2>1, <2>4, <2>5, OthersKeepBooks
  <2> QED
    BY <1>1, <2>1, <2>3, <2>6 DEF LedgerInv
<1>10. CASE CallStaking
  <2>1. /\ StakingInv' /\ usdc' \in Balances /\ encl' \in Balances
        /\ UNCHANGED <<auth, now>> /\ usdc'[Meter] = usdc[Meter]
        /\ encl'[Registry] = encl[Registry] /\ UNCHANGED <<registryVars, meterVars>>
    BY <1>0, <1>10, StakingKeepsStakes DEF CallStaking
  <2>2. LedgerTypeOK' /\ UNCHANGED listing
    BY <1>0, <2>1 DEF LedgerTypeOK, Balances, registryVars
  <2>3. ListingStakesHeld'
    BY <1>0, <2>1, <2>2 DEF ListingStakesHeld, Listed
  <2>4. BooksInv'
    BY <2>1, <2>2, <2>3, OthersKeepBooks
  <2> QED
    BY <1>1, <2>1, <2>2, <2>4 DEF LedgerInv
<1>11. CASE UNCHANGED allVars
  BY <1>6, <1>11 DEF allVars, ledgerVars
<1> QED
  BY <1>4, <1>5, <1>7, <1>8, <1>9, <1>10, <1>11 DEF Next

ContractsInv == LedgerInv /\ BooksInv /\ MandateInv /\ called \in Scenarios

LEMMA ContractsInductive == Spec => []ContractsInv
<1>1. Init => ContractsInv
  BY LedgerInvInit, MandateInvInit DEF ContractsInv, Init
<1>2. ContractsInv /\ [Next]_allVars => ContractsInv'
  <2> SUFFICES ASSUME ContractsInv, [Next]_allVars PROVE ContractsInv'
    OBVIOUS
  <2>1. LedgerInv' /\ BooksInv' /\ MandateInv'
    BY ContractsStep, MandateStep DEF ContractsInv
  <2>2. called' = called
    BY DEF Next, CallTokens, CallRegistry, CallMandate, CallMeter, CallVault, CallStaking, allVars
  <2> QED
    BY <2>1, <2>2 DEF ContractsInv
<1> QED
  BY <1>1, <1>2, PTL DEF Spec

\* Every variable of the contracts keeps its type: no balance, stake or account is negative.
THEOREM ContractTypes == Spec => []TypeOK
<1>1. ContractsInv => TypeOK
  BY DEF ContractsInv, LedgerInv, BooksInv, VaultInv, MandateInv, StakingInv, TypeOK
<1> QED
  BY <1>1, ContractsInductive, PTL

\* UsageMeter.sol, ModelRegistry.sol, InsuranceStaking.sol: each contract holds what it owes,
\* whatever calls of anyone interleave.
THEOREM ContractsHoldObligations == Spec => []ObligationsHeld
<1>1. ContractsInv => ObligationsHeld
  BY DEF ContractsInv, LedgerInv, BooksInv, StakingInv, ObligationsHeld
<1> QED
  BY <1>1, ContractsInductive, PTL

\* UsageMeter.sol: what accounts spent and listings earned is exactly what was paid, each payment
\* counted once whatever its path.
THEOREM BooksStayExact == Spec => []BooksExact
<1>1. ContractsInv => BooksExact
  BY DEF ContractsInv, BooksInv
<1> QED
  BY <1>1, ContractsInductive, PTL

\* InsuranceStaking.sol: all stakers together can be paid what they have earned, whatever they
\* stake, claim, leave or are rounded down, for any Precision.
THEOREM StakersRewarded == Spec => []RewardsCovered
<1>1. ContractsInv => RewardsCovered
  <2> SUFFICES ASSUME ContractsInv PROVE RewardsCovered
    OBVIOUS
  <2>1. StakingInv /\ usdc[Staking] \in Nat
    BY AccountsApart DEF ContractsInv, LedgerInv, LedgerTypeOK
  <2> QED
    BY <2>1, ClaimsCovered
<1> QED
  BY <1>1, ContractsInductive, PTL

-----------------------------------------------------------------------------
(* The worker that follows the chain: the anchoring of receipts.            *)

AnchoringStops ==
  {"idle", "start", "send", "broadcast", "record", "confirm", "verified", "reverted"}

AnchoringTyped ==
  /\ tx \in [state : {"none", "signed", "pool", "mined", "deep"}, success : BOOLEAN,
             everReverted : BOOLEAN]
  /\ row \in [status : {"pending", "anchoring", "anchored", "anchored-sim", "anchor_failed"},
              recorded : BOOLEAN]
  /\ run \in [Workers -> AnchoringStops]
  /\ recovery \in [Instances -> {"idle", "read", "anchoring", "anchor_failed"}]
  /\ approved \in BOOLEAN

\* Whoever holds a verdict of failure has read it off a block in which the
\* transaction reverted.
VerdictsTrue ==
  /\ tx.state \in {"mined", "deep"} /\ ~tx.success => tx.everReverted
  /\ \A w \in Workers : run[w] = "reverted" => tx.everReverted
  /\ \A i \in Instances : recovery[i] = "anchor_failed" => tx.everReverted
  /\ row.status = "anchor_failed" => tx.everReverted

AnchoringInv == AnchoringTyped /\ VerdictsTrue

\* The chain only ever adds a revert to those it has seen.
LEMMA ChainKeepsVerdicts ==
  ASSUME AnchoringInv,
         \/ Anchoring!Mine \/ Anchoring!Deepen \/ Anchoring!Revoke \/ Anchoring!Fork
         \/ Anchoring!Rebroadcast
  PROVE  AnchoringInv'
  <1> USE DEF AnchoringInv, AnchoringTyped
  <1>1. UNCHANGED <<row, run, recovery>>
    BY DEF Anchoring!Mine, Anchoring!Deepen, Anchoring!Revoke, Anchoring!Fork,
           Anchoring!Rebroadcast, Anchoring!loopVars
  <1>2. /\ tx' \in [state : {"none", "signed", "pool", "mined", "deep"}, success : BOOLEAN,
                    everReverted : BOOLEAN]
        /\ approved' \in BOOLEAN /\ (tx.everReverted => tx'.everReverted)
        /\ (tx'.state \in {"mined", "deep"} /\ ~tx'.success => tx'.everReverted)
    <2>1. CASE Anchoring!Mine
      BY <2>1 DEF Anchoring!Mine
    <2>2. CASE Anchoring!Deepen \/ Anchoring!Rebroadcast
      BY <2>2 DEF Anchoring!Deepen, Anchoring!Rebroadcast, VerdictsTrue
    <2>3. CASE Anchoring!Revoke \/ Anchoring!Fork
      BY <2>3 DEF Anchoring!Revoke, Anchoring!Fork, VerdictsTrue
    <2> QED
      BY <2>1, <2>2, <2>3
  <1> QED
    BY <1>1, <1>2 DEF VerdictsTrue

\* A run takes its verdict from a transaction that is deep.
LEMMA RunKeepsVerdicts ==
  ASSUME AnchoringInv, NEW w \in Workers,
         Anchoring!Run(w) \/ Anchoring!Fails(w) \/ Anchoring!Crash(w)
  PROVE  AnchoringInv'
  <1> USE DEF AnchoringInv, AnchoringTyped
  <1>1. UNCHANGED <<approved, recovery>> /\ \E to \in AnchoringStops :
          /\ run' = [run EXCEPT ![w] = to]
          /\ to = "reverted" => tx.state = "deep" /\ ~tx.success
    BY DEF Anchoring!Run, Anchoring!Fails, Anchoring!Crash, Anchoring!Take, Anchoring!Start,
           Anchoring!Send, Anchoring!Broadcast, Anchoring!Record, Anchoring!Confirm,
           Anchoring!WriteVerdict, Anchoring!Ends, Anchoring!Goes, Anchoring!loopVars,
           Anchoring!chainVars, AnchoringStops
  <1>2. /\ tx' \in [state : {"none", "signed", "pool", "mined", "deep"}, success : BOOLEAN,
                    everReverted : BOOLEAN]
        /\ tx'.everReverted = tx.everReverted
        /\ tx'.state \in {"mined", "deep"} => tx' = tx
    BY DEF Anchoring!Run, Anchoring!Fails, Anchoring!Crash, Anchoring!Take, Anchoring!Start,
           Anchoring!Send, Anchoring!Broadcast, Anchoring!Record, Anchoring!Confirm,
           Anchoring!WriteVerdict, Anchoring!chainVars
  <1>3. /\ row' \in [status : {"pending", "anchoring", "anchored", "anchored-sim", "anchor_failed"},
                     recorded : BOOLEAN]
        /\ row'.status = "anchor_failed" => row.status = "anchor_failed" \/ run[w] = "reverted"
    <2>1. CASE \/ Anchoring!Fails(w) \/ Anchoring!Crash(w) \/ Anchoring!Take(w)
               \/ Anchoring!Send(w) \/ Anchoring!Broadcast(w) \/ Anchoring!Confirm(w)
      BY <2>1 DEF Anchoring!Fails, Anchoring!Crash, Anchoring!Take, Anchoring!Send,
                  Anchoring!Broadcast, Anchoring!Confirm
    <2>2. CASE Anchoring!Start(w)
      <3>1. row' = row \/ row' = [status |-> "anchored-sim", recorded |-> FALSE]
        BY <2>2 DEF Anchoring!Start
      <3>2. CASE row' = row
        BY <3>2
      <3>3. CASE row' = [status |-> "anchored-sim", recorded |-> FALSE]
        BY ONLY <3>3
      <3> QED
        BY <3>1, <3>2, <3>3
    <2>3. CASE Anchoring!Record(w) \/ Anchoring!WriteVerdict(w)
      <3>1. \/ row' = [status |-> "anchoring", recorded |-> TRUE]
            \/ row' = [status |-> "anchored", recorded |-> TRUE]
            \/ row' = [status |-> "anchor_failed", recorded |-> TRUE] /\ run[w] = "reverted"
        BY <2>3 DEF Anchoring!Record, Anchoring!WriteVerdict
      <3>2. CASE row' = [status |-> "anchoring", recorded |-> TRUE]
        BY ONLY <3>2
      <3>3. CASE row' = [status |-> "anchored", recorded |-> TRUE]
        BY ONLY <3>3
      <3>4. CASE row' = [status |-> "anchor_failed", recorded |-> TRUE] /\ run[w] = "reverted"
        BY ONLY <3>4
      <3> QED
        BY <3>1, <3>2, <3>3, <3>4
    <2> QED
      BY <2>1, <2>2, <2>3 DEF Anchoring!Run
  <1> QED
    BY <1>1, <1>2, <1>3 DEF VerdictsTrue

\* A recovery takes its verdict the same way, and writes nothing else.
LEMMA RecoveryKeepsVerdicts ==
  ASSUME AnchoringInv, NEW i \in Instances, Anchoring!Recover(i) \/ Anchoring!JudgeFails(i)
  PROVE  AnchoringInv'
  <1> USE DEF AnchoringInv, AnchoringTyped
  <1>1. /\ UNCHANGED <<approved, tx, run>>
        /\ \E to \in {"idle", "read", "anchoring", "anchor_failed"} :
             /\ recovery' = [recovery EXCEPT ![i] = to]
             /\ to = "anchor_failed" => tx.state = "deep" /\ ~tx.success
    BY DEF Anchoring!Recover, Anchoring!ReadAnchored, Anchoring!Judge, Anchoring!Repair,
           Anchoring!JudgeFails, Anchoring!Verdict, Anchoring!chainVars
  <1>2. /\ row' \in [status : {"pending", "anchoring", "anchored", "anchored-sim", "anchor_failed"},
                     recorded : BOOLEAN]
        /\ row'.status = "anchor_failed" => row.status = "anchor_failed" \/ recovery[i] = "anchor_failed"
    BY DEF Anchoring!Recover, Anchoring!ReadAnchored, Anchoring!Judge, Anchoring!Repair,
           Anchoring!JudgeFails
  <1> QED
    BY <1>1, <1>2 DEF VerdictsTrue

\* Nothing else reads or writes a verdict.
LEMMA AnchoringKeepsVerdicts ==
  ASSUME AnchoringInv, [WorkerNext]_workerVars
  PROVE  AnchoringInv'
  <1>1. CASE Anchoring!Next
    <2>1. CASE \/ Anchoring!Enqueue \/ Anchoring!Orphaned \/ Anchoring!Stalled
               \/ Anchoring!Configure \/ Anchoring!Requeue
      <3>1. UNCHANGED <<approved, tx, row, run, recovery>>
        BY <2>1 DEF Anchoring!Enqueue, Anchoring!Orphaned, Anchoring!Stalled, Anchoring!Lapses,
                    Anchoring!Configure, Anchoring!Requeue, Anchoring!ListUnfinished,
                    Anchoring!RecoverJob, Anchoring!chainVars, Anchoring!loopVars
      <3> QED
        BY <3>1 DEF AnchoringInv, AnchoringTyped, VerdictsTrue
    <2> QED
      BY <1>1, <2>1, ChainKeepsVerdicts, RunKeepsVerdicts, RecoveryKeepsVerdicts DEF Anchoring!Next
  <1>2. CASE UNCHANGED anchoringVars \/ UNCHANGED <<configured, approved, tx, row, job, run, recovery, listed>>
    BY <1>2 DEF AnchoringInv, AnchoringTyped, VerdictsTrue, anchoringVars
  <1> QED
    BY <1>1, <1>2 DEF WorkerNext, workerVars

\* anchorer.ts, receipt-recovery.ts: a receipt is left for review only after its
\* transaction reverted, however runs stall, die, fork and repair each other.
THEOREM ReceiptsFailOnlyIfReverted == WorkerSpec => []FailedOnlyIfReverted
  <1>1. WorkerInit => AnchoringInv
    BY DEF WorkerInit, Anchoring!Init, Anchoring!Unsigned, AnchoringInv, AnchoringTyped,
           VerdictsTrue, AnchoringStops
  <1>2. AnchoringInv => FailedOnlyIfReverted
    BY DEF AnchoringInv, VerdictsTrue, FailedOnlyIfReverted, Anchoring!FailedOnlyIfReverted
  <1> QED
    BY <1>1, <1>2, AnchoringKeepsVerdicts, PTL DEF WorkerSpec

-----------------------------------------------------------------------------
(* The indexer: sets of logs, and their replay.                             *)

\* What the registry emits, and where.
Emitted ==
  {Indexer!Listed(i, m) : i \in Nat \ {0}, m \in IndexedModels}
    \cup {Indexer!Approved(i) : i \in Nat \ {0}} \cup {Indexer!Revoked(i) : i \in Nat \ {0}}
Log == [block : Nat, hash : Nat, index : Nat, event : Emitted]

Row == [id : Nat, approved : BOOLEAN, revoked : BOOLEAN, known : BOOLEAN]
Tables == [IndexedModels -> Row]

\* Finitely many logs, one at each place.
Ordered(S) ==
  /\ S \in SUBSET Log /\ IsFiniteSet(S)
  /\ \A x, y \in S : x.block = y.block /\ x.index = y.index => x = y

LEMMA OrderedPart ==
  ASSUME NEW S, Ordered(S), NEW T \in SUBSET S
  PROVE  Ordered(T)
BY FS_Subset DEF Ordered

LEMMA PrecedesOrders ==
  /\ \A x, y, z \in Log :
       Indexer!Precedes(x, y) /\ Indexer!Precedes(y, z) => Indexer!Precedes(x, z)
  /\ \A x, y \in Log : ~(Indexer!Precedes(x, y) /\ Indexer!Precedes(y, x))
BY DEF Indexer!Precedes, Log

LEMMA LatestExists ==
  ASSUME NEW S, Ordered(S), S # {}
  PROVE  /\ Indexer!Latest(S) \in S
         /\ \A y \in S \ {Indexer!Latest(S)} : Indexer!Precedes(y, Indexer!Latest(S))
<1> DEFINE Last(x, T) == x \in T /\ \A y \in T : ~Indexer!Precedes(x, y)
           F == {T \in SUBSET S : T = {} \/ \E x \in T : Last(x, T)}
<1>0. S \in SUBSET Log /\ IsFiniteSet(S)
  BY DEF Ordered
<1>1. ASSUME NEW T \in SUBSET S, \A x \in T : T \ {x} \in F
      PROVE  T \in F
  <2>1. SUFFICES ASSUME NEW z \in T PROVE \E x \in T : Last(x, T)
    OBVIOUS
  <2>2. ~Indexer!Precedes(z, z)
    BY <1>0, PrecedesOrders
  <2>3. CASE T \ {z} = {}
    BY <2>2, <2>3
  <2>4. CASE T \ {z} # {}
    <3>1. PICK x \in T \ {z} : Last(x, T \ {z})
      BY <1>1, <2>4
    <3>2. CASE Indexer!Precedes(x, z)
      <4>1. ASSUME NEW y \in T, Indexer!Precedes(z, y) PROVE FALSE
        <5>1. Indexer!Precedes(x, y)
          BY <1>0, <3>2, <4>1, PrecedesOrders
        <5> QED
          BY <2>2, <3>1, <4>1, <5>1
      <4> QED
        BY <4>1
    <3>3. CASE ~Indexer!Precedes(x, z)
      BY <3>1, <3>3
    <3> QED
      BY <3>2, <3>3
  <2> QED
    BY <2>3, <2>4
<1>2. S \in F
  <2> HIDE DEF F
  <2> QED
    BY <1>0, <1>1, FiniteInduction
<1>3. \E x \in S : \A y \in S : ~Indexer!Precedes(x, y)
  BY <1>2
<1>4. Indexer!Latest(S) \in S /\ \A y \in S : ~Indexer!Precedes(Indexer!Latest(S), y)
  BY <1>3 DEF Indexer!Latest
<1>5. ASSUME NEW x \in S, NEW y \in S, x # y, ~Indexer!Precedes(x, y)
      PROVE  Indexer!Precedes(y, x)
  BY <1>5 DEF Ordered, Log, Indexer!Precedes
<1> QED
  BY <1>4, <1>5

LEMMA LatestIs ==
  ASSUME NEW S, Ordered(S), NEW x \in S, \A y \in S \ {x} : Indexer!Precedes(y, x)
  PROVE  Indexer!Latest(S) = x
<1>1. S \in SUBSET Log
  BY DEF Ordered
<1> QED
  BY <1>1, LatestExists, PrecedesOrders

\* h replays every subset of S.
Replays(h, t, S) ==
  h = [s \in SUBSET S |-> IF s = {} THEN t
                          ELSE Indexer!Apply(h[s \ {Indexer!Latest(s)}], Indexer!Latest(s).event)]

LEMMA ReplayIs ==
  ASSUME NEW t, NEW S
  PROVE  Indexer!Replay(t, S) = (CHOOSE h : Replays(h, t, S))[S]
BY DEF Indexer!Replay, Indexer!MapThenFoldSet, Replays

\* h replays every subset of S of at most n logs.
ReplaysUpTo(n, h, t, S) ==
  /\ h = [s \in SUBSET S |-> h[s]]
  /\ \A s \in SUBSET S : Cardinality(s) <= n =>
       h[s] = IF s = {} THEN t
              ELSE Indexer!Apply(h[s \ {Indexer!Latest(s)}], Indexer!Latest(s).event)

LEMMA ReplaysExist ==
  ASSUME NEW t, NEW S, Ordered(S)
  PROVE  \E h : Replays(h, t, S)
<1> DEFINE F == {T \in SUBSET S : \E h : ReplaysUpTo(Cardinality(T), h, t, S)}
<1>0. /\ IsFiniteSet(S)
      /\ \A s \in SUBSET S : /\ IsFiniteSet(s) /\ Cardinality(s) \in Nat
                             /\ Cardinality(s) <= Cardinality(S) /\ (Cardinality(s) = 0 <=> s = {})
                             /\ (s # {} => Indexer!Latest(s) \in s)
  BY FS_Subset, FS_CardinalityType, FS_EmptySet, OrderedPart, LatestExists DEF Ordered
<1>1. {} \in F
  <2> DEFINE h == [s \in SUBSET S |-> t]
  <2>1. ReplaysUpTo(0, h, t, S)
    BY <1>0 DEF ReplaysUpTo
  <2> QED
    BY <2>1, FS_EmptySet
<1>2. ASSUME NEW T \in SUBSET S, NEW x \in T, T \ {x} \in F
      PROVE  T \in F
  <2>1. PICK h : ReplaysUpTo(Cardinality(T \ {x}), h, t, S)
    BY <1>2
  <2> DEFINE g == [s \in SUBSET S |->
                     IF s = {} THEN t
                     ELSE Indexer!Apply(h[s \ {Indexer!Latest(s)}], Indexer!Latest(s).event)]
  <2>2. Cardinality(T \ {x}) = Cardinality(T) - 1 /\ Cardinality(T) \in Nat
    BY <1>0, <1>2, FS_RemoveElement
  <2>3. ASSUME NEW s \in SUBSET S, Cardinality(s) <= Cardinality(T), s # {}
        PROVE  g[s] = Indexer!Apply(g[s \ {Indexer!Latest(s)}], Indexer!Latest(s).event)
    <3>1. Indexer!Latest(s) \in s
      BY <1>0, <2>3
    <3> DEFINE u == s \ {Indexer!Latest(s)}
    <3>2. u \in SUBSET S /\ Cardinality(u) <= Cardinality(T \ {x})
      BY <1>0, <2>2, <2>3, <3>1, FS_RemoveElement
    <3>3. h[u] = IF u = {} THEN t
                 ELSE Indexer!Apply(h[u \ {Indexer!Latest(u)}], Indexer!Latest(u).event)
      BY <2>1, <3>2 DEF ReplaysUpTo
    <3>4. g[u] = h[u]
      BY <3>2, <3>3
    <3>5. g[s] = Indexer!Apply(h[u], Indexer!Latest(s).event)
      BY <2>3
    <3> HIDE DEF g
    <3> QED
      BY <3>4, <3>5
  <2>4. ReplaysUpTo(Cardinality(T), g, t, S)
    BY <2>3 DEF ReplaysUpTo
  <2> HIDE DEF g
  <2> QED
    BY <2>4
<1>3. S \in F
  <2> HIDE DEF F
  <2>1. ASSUME NEW T \in SUBSET S, \A x \in T : T \ {x} \in F
        PROVE  T \in F
    <3>1. CASE T = {}
      BY <1>1, <3>1
    <3>2. CASE T # {}
      <4>1. PICK x : x \in T
        BY <3>2
      <4> QED
        BY <1>2, <2>1, <4>1
    <3> QED
      BY <3>1, <3>2
  <2> QED
    BY <1>0, <2>1, FiniteInduction
<1>4. PICK h : ReplaysUpTo(Cardinality(S), h, t, S)
  BY <1>3
<1>5. Replays(h, t, S)
  BY <1>0, <1>4 DEF ReplaysUpTo, Replays
<1> QED
  BY <1>5

\* A replay ends with its latest log.
LEMMA ReplayStep ==
  ASSUME NEW t, NEW S, Ordered(S)
  PROVE  Indexer!Replay(t, S) =
           IF S = {} THEN t
           ELSE Indexer!Apply(Indexer!Replay(t, S \ {Indexer!Latest(S)}), Indexer!Latest(S).event)
<1> DEFINE H(U) == CHOOSE h : Replays(h, t, U)
<1>1. \A U \in SUBSET S : Replays(H(U), t, U) /\ Indexer!Replay(t, U) = H(U)[U]
  BY OrderedPart, ReplaysExist, ReplayIs
<1> HIDE DEF H
<1>2. ASSUME NEW U \in SUBSET S
      PROVE  H(S)[U] = Indexer!Replay(t, U)
  <2> DEFINE F == {T \in SUBSET U : H(S)[T] = H(U)[T]}
  <2>1. ASSUME NEW T \in SUBSET U, \A x \in T : T \ {x} \in F
        PROVE  T \in F
    <3>1. CASE T = {}
      BY <1>1, <3>1 DEF Replays
    <3>2. CASE T # {}
      <4> DEFINE l == Indexer!Latest(T)
      <4>1. l \in T
        BY <3>2, OrderedPart, LatestExists
      <4> HIDE DEF l
      <4>2. H(S)[T \ {l}] = H(U)[T \ {l}]
        BY <2>1, <4>1
      <4>3. H(S)[T] = Indexer!Apply(H(S)[T \ {l}], l.event)
        BY <1>1, <3>2 DEF Replays, l
      <4>4. H(U)[T] = Indexer!Apply(H(U)[T \ {l}], l.event)
        BY <1>1, <3>2 DEF Replays, l
      <4> QED
        BY <4>2, <4>3, <4>4
    <3> QED
      BY <3>1, <3>2
  <2>2. IsFiniteSet(U)
    BY FS_Subset DEF Ordered
  <2>3. U \in F
    <3> HIDE DEF F
    <3> QED
      BY <2>1, <2>2, FiniteInduction
  <2> QED
    BY <1>1, <2>3
<1>3. H(S)[S] = IF S = {} THEN t
                ELSE Indexer!Apply(H(S)[S \ {Indexer!Latest(S)}], Indexer!Latest(S).event)
  BY <1>1 DEF Replays
<1>4. S \ {Indexer!Latest(S)} \in SUBSET S
  OBVIOUS
<1> QED
  BY <1>2, <1>3, <1>4

LEMMA ReplayNone == \A t : Indexer!Replay(t, {}) = t
<1>1. Ordered({})
  BY FS_EmptySet DEF Ordered
<1> QED
  BY <1>1, ReplayStep

\* What comes after can be replayed after.
LEMMA ReplaySplit ==
  ASSUME NEW t, NEW A, NEW B, Ordered(A \cup B), \A a \in A, b \in B : Indexer!Precedes(a, b)
  PROVE  Indexer!Replay(t, A \cup B) = Indexer!Replay(Indexer!Replay(t, A), B)
<1> DEFINE F == {T \in SUBSET B : Indexer!Replay(t, A \cup T) = Indexer!Replay(Indexer!Replay(t, A), T)}
<1>0. IsFiniteSet(B) /\ B \in SUBSET Log /\ A \in SUBSET Log
  BY FS_Subset DEF Ordered
<1>1. ASSUME NEW T \in SUBSET B, \A x \in T : T \ {x} \in F
      PROVE  T \in F
  <2>1. CASE T = {}
    BY <2>1, ReplayNone
  <2>2. CASE T # {}
    <3> DEFINE l == Indexer!Latest(T)
    <3>1. Ordered(T) /\ Ordered(A \cup T)
      BY OrderedPart
    <3>2. l \in T /\ \A y \in T \ {l} : Indexer!Precedes(y, l)
      BY <2>2, <3>1, LatestExists
    <3> HIDE DEF l
    <3>3. l \notin A
      BY <1>0, <3>2, PrecedesOrders
    <3>4. Indexer!Latest(A \cup T) = l
      BY <3>1, <3>2, LatestIs
    <3>5. (A \cup T) \ {l} = A \cup (T \ {l})
      BY <3>3
    <3>6. Indexer!Replay(t, A \cup T) = Indexer!Apply(Indexer!Replay(t, A \cup (T \ {l})), l.event)
      BY <2>2, <3>1, <3>4, <3>5, ReplayStep
    <3>7. Indexer!Replay(Indexer!Replay(t, A), T)
            = Indexer!Apply(Indexer!Replay(Indexer!Replay(t, A), T \ {l}), l.event)
      BY <2>2, <3>1, ReplayStep DEF l
    <3> QED
      BY <1>1, <3>2, <3>6, <3>7
  <2> QED
    BY <2>1, <2>2
<1>2. B \in F
  <2> HIDE DEF F
  <2> QED
    BY <1>0, <1>1, FiniteInduction
<1> QED
  BY <1>2

-----------------------------------------------------------------------------
(* The indexer: tables of models.                                           *)

\* A table of the registry itself: what it knows has a listing id.
Registered(table) ==
  /\ table \in Tables
  /\ \A m \in IndexedModels : table[m].known => table[m].id # 0

\* The database's table: a model that it does not know is not approved.
Kept(table) ==
  /\ table \in Tables
  /\ \A m \in IndexedModels : ~table[m].known => ~table[m].approved /\ table[m].id = 0

Unapproved(table) == \A m \in IndexedModels : ~table[m].approved

\* A table of the database that says what the registry's says; a model of an abandoned branch
\* is still known but approved no more, and no event finds it.
Agrees(table, truth) ==
  \A m \in IndexedModels :
    /\ truth[m].known => table[m] = truth[m]
    /\ ~truth[m].known => ~table[m].approved /\ ~truth[m].approved /\ table[m].id = 0

LEMMA EmittedFacts ==
  ASSUME NEW e \in Emitted
  PROVE  /\ e.id \in Nat \ {0} /\ e.type \in {"Listed", "Approved", "Revoked"}
         /\ e.type = "Listed" => e.model \in IndexedModels
BY DEF Emitted, Indexer!Listed, Indexer!Approved, Indexer!Revoked

\* What an event can make of a model's row.
Lists(e, m) == e.type = "Listed" /\ e.model = m
Concerns(e, r) == e.type # "Listed" /\ r.known = TRUE /\ r.id = e.id
Fresh(e) == [id |-> e.id, approved |-> FALSE, revoked |-> FALSE, known |-> TRUE]
Decided(e, r) == [r EXCEPT !.approved = e.type = "Approved", !.revoked = e.type = "Revoked"]

LEMMA ApplyIs ==
  ASSUME NEW table, NEW e \in Emitted, NEW m \in IndexedModels, table[m] \in Row
  PROVE  /\ Lists(e, m) => Indexer!Apply(table, e)[m] = Fresh(e)
         /\ ~Lists(e, m) /\ Concerns(e, table[m]) =>
              Indexer!Apply(table, e)[m] = Decided(e, table[m])
         /\ ~Lists(e, m) /\ ~Concerns(e, table[m]) => Indexer!Apply(table, e)[m] = table[m]
<1>1. ASSUME Lists(e, m)
      PROVE  Indexer!Apply(table, e)[m] = Fresh(e)
  BY <1>1 DEF Indexer!Apply, Lists, Fresh
<1>2. ASSUME ~Lists(e, m), Concerns(e, table[m])
      PROVE  Indexer!Apply(table, e)[m] = Decided(e, table[m])
  BY <1>2 DEF Indexer!Apply, Lists, Concerns, Decided
<1>3. ASSUME ~Lists(e, m), ~Concerns(e, table[m])
      PROVE  Indexer!Apply(table, e)[m] = table[m]
  BY <1>3 DEF Indexer!Apply, Lists, Concerns, Row
<1> QED
  BY <1>1, <1>2, <1>3

LEMMA RowFacts ==
  ASSUME NEW e \in Emitted
  PROVE  /\ Fresh(e) \in Row /\ Fresh(e).known /\ Fresh(e).id # 0 /\ ~Fresh(e).approved
         /\ \A r \in Row : /\ Decided(e, r) \in Row
                          /\ Decided(e, r).known = r.known /\ Decided(e, r).id = r.id
<1>1. Fresh(e) \in Row /\ Fresh(e).known /\ Fresh(e).id # 0 /\ ~Fresh(e).approved
  BY EmittedFacts DEF Fresh, Row
<1>2. ASSUME NEW r \in Row
      PROVE  /\ Decided(e, r) \in Row
             /\ Decided(e, r).known = r.known /\ Decided(e, r).id = r.id
  BY DEF Decided, Row
<1> QED
  BY <1>1, <1>2

LEMMA ApplyKeeps ==
  ASSUME NEW e \in Emitted
  PROVE  /\ \A table : Registered(table) => Registered(Indexer!Apply(table, e))
         /\ \A table : Kept(table) => Kept(Indexer!Apply(table, e))
         /\ \A table, truth : Agrees(table, truth) /\ Kept(table) /\ Registered(truth) =>
              Agrees(Indexer!Apply(table, e), Indexer!Apply(truth, e))
<1>1. e.id \in Nat \ {0}
  BY EmittedFacts
<1>2. \A table : Indexer!Apply(table, e) = [m \in IndexedModels |-> Indexer!Apply(table, e)[m]]
  BY DEF Indexer!Apply
<1>3. ASSUME NEW table \in Tables, NEW m \in IndexedModels
      PROVE  LET new == Indexer!Apply(table, e)[m]
             IN  /\ new \in Row
                 /\ new = table[m] \/ (new.known = TRUE /\ new.id # 0)
  <2> DEFINE new == Indexer!Apply(table, e)[m]
  <2>1. table[m] \in Row
    BY DEF Tables
  <2>2. CASE Lists(e, m)
    <3>1. new = Fresh(e)
      BY <2>1, <2>2, ApplyIs
    <3> QED
      BY <3>1, RowFacts DEF Row
  <2>3. CASE ~Lists(e, m) /\ Concerns(e, table[m])
    <3>1. new = Decided(e, table[m])
      BY <2>1, <2>3, ApplyIs
    <3>2. table[m].known = TRUE /\ table[m].id # 0
      BY <1>1, <2>3 DEF Concerns
    <3>3. new \in Row /\ new.known = TRUE /\ new.id # 0
      BY <2>1, <3>1, <3>2, RowFacts
    <3> QED
      BY <3>3
  <2>4. CASE ~Lists(e, m) /\ ~Concerns(e, table[m])
    BY <2>1, <2>4, ApplyIs
  <2> QED
    BY <2>2, <2>3, <2>4
<1>4. \A table : table \in Tables => Indexer!Apply(table, e) \in Tables
  BY <1>2, <1>3 DEF Tables
<1>5. \A table : Registered(table) => Registered(Indexer!Apply(table, e))
  BY <1>3, <1>4 DEF Registered
<1>6. \A table : Kept(table) => Kept(Indexer!Apply(table, e))
  BY <1>3, <1>4 DEF Kept
<1>7. ASSUME NEW table, NEW truth, Agrees(table, truth), Kept(table), Registered(truth),
             NEW m \in IndexedModels
      PROVE  LET new == Indexer!Apply(table, e)[m]
                 real == Indexer!Apply(truth, e)[m]
             IN  /\ real.known => new = real
                 /\ ~real.known => ~new.approved /\ ~real.approved /\ new.id = 0
  <2>0. table[m] \in Row /\ truth[m] \in Row
    BY <1>7 DEF Kept, Registered, Tables
  <2> DEFINE new == Indexer!Apply(table, e)[m]
             real == Indexer!Apply(truth, e)[m]
  <2>1. CASE Lists(e, m)
    <3>1. new = Fresh(e) /\ real = Fresh(e)
      BY <2>0, <2>1, ApplyIs
    <3> QED
      BY <3>1, RowFacts
  <2>2. CASE ~Lists(e, m) /\ truth[m].known
    <3>1. table[m] = truth[m]
      BY <1>7, <2>2 DEF Agrees
    <3>2. CASE Concerns(e, truth[m])
      <4>1. new = Decided(e, truth[m]) /\ real = Decided(e, truth[m])
        BY <2>0, <2>2, <3>1, <3>2, ApplyIs
      <4>2. real.known
        BY <2>0, <2>2, <4>1, RowFacts
      <4> QED
        BY <4>1, <4>2
    <3>3. CASE ~Concerns(e, truth[m])
      <4>1. new = truth[m] /\ real = truth[m]
        BY <2>0, <2>2, <3>1, <3>3, ApplyIs
      <4> QED
        BY <2>2, <4>1
    <3> QED
      BY <3>2, <3>3
  <2>3. CASE ~Lists(e, m) /\ ~truth[m].known
    <3>1. table[m].id = 0 /\ ~table[m].approved /\ ~truth[m].approved
      BY <1>7, <2>3 DEF Agrees
    <3>2. ~Concerns(e, truth[m]) /\ ~Concerns(e, table[m])
      BY <1>1, <2>3, <3>1 DEF Concerns
    <3>3. real = truth[m] /\ new = table[m]
      BY <2>0, <2>3, <3>2, ApplyIs
    <3> QED
      BY <2>3, <3>1, <3>3
  <2> QED
    BY <2>1, <2>2, <2>3
<1> QED
  BY <1>5, <1>6, <1>7 DEF Agrees

LEMMA ReplayKeeps ==
  ASSUME NEW S, Ordered(S), NEW table, NEW truth
  PROVE  /\ Registered(truth) => Registered(Indexer!Replay(truth, S))
         /\ Kept(table) => Kept(Indexer!Replay(table, S))
         /\ Kept(table) /\ Registered(truth) /\ Agrees(table, truth) =>
              Agrees(Indexer!Replay(table, S), Indexer!Replay(truth, S))
<1> DEFINE Good(T) ==
      /\ Registered(truth) => Registered(Indexer!Replay(truth, T))
      /\ Kept(table) => Kept(Indexer!Replay(table, T))
      /\ Kept(table) /\ Registered(truth) /\ Agrees(table, truth) =>
           Agrees(Indexer!Replay(table, T), Indexer!Replay(truth, T))
    F == {T \in SUBSET S : Good(T)}
<1>1. ASSUME NEW T \in SUBSET S, \A x \in T : T \ {x} \in F
      PROVE  T \in F
  <2>1. CASE T = {}
    BY <2>1, ReplayNone
  <2>2. CASE T # {}
    <3>1. PICK l \in T : l = Indexer!Latest(T)
      BY <2>2, OrderedPart, LatestExists
    <3>2. l.event \in Emitted
      BY <3>1 DEF Ordered, Log
    <3>3. Good(T \ {l})
      BY <1>1, <3>1
    <3>4. \A t : Indexer!Replay(t, T) = Indexer!Apply(Indexer!Replay(t, T \ {l}), l.event)
      BY <2>2, <3>1, OrderedPart, ReplayStep
    <3>5. Good(T)
      BY <3>2, <3>3, <3>4, ApplyKeeps DEF Kept
    <3> QED
      BY <3>5
  <2> QED
    BY <2>1, <2>2
<1>2. S \in F
  <2> HIDE DEF F
  <2> QED
    BY <1>1, FiniteInduction DEF Ordered
<1> QED
  BY <1>2

LEMMA QuarantineFacts ==
  ASSUME NEW table, Kept(table)
  PROVE  /\ Kept(Indexer!Quarantined(table)) /\ Unapproved(Indexer!Quarantined(table))
         /\ Kept(Indexer!Cleared(table)) /\ Agrees(Indexer!Cleared(table), Indexer!Unlisted)
<1>1. \A m \in IndexedModels :
        table[m] \in Row
  BY DEF Kept, Tables
<1>2. Kept(Indexer!Quarantined(table)) /\ Unapproved(Indexer!Quarantined(table))
  BY <1>1 DEF Kept, Unapproved, Indexer!Quarantined, Tables, Row
<1>3. \A m \in IndexedModels :
        LET new == Indexer!Cleared(table)[m]
        IN  /\ new \in Row
            /\ ~new.approved /\ new.id = 0
  BY <1>1 DEF Kept, Indexer!Cleared, Indexer!Quarantined, Row
<1>4. Indexer!Cleared(table) = [m \in IndexedModels |-> Indexer!Cleared(table)[m]]
  BY DEF Indexer!Cleared
<1>5. Kept(Indexer!Cleared(table))
  BY <1>3, <1>4 DEF Kept, Tables
<1>6. \A m \in IndexedModels : ~Indexer!Unlisted[m].known /\ ~Indexer!Unlisted[m].approved
  BY DEF Indexer!Unlisted
<1> QED
  BY <1>2, <1>3, <1>5, <1>6 DEF Agrees

LEMMA UnlistedFacts ==
  /\ Registered(Indexer!Unlisted) /\ Kept(Indexer!Unlisted) /\ Unapproved(Indexer!Unlisted)
  /\ Agrees(Indexer!Unlisted, Indexer!Unlisted)
BY DEF Registered, Kept, Unapproved, Agrees, Indexer!Unlisted, Tables, Row

\* A table that agrees with the registry's approves what it approves.
LEMMA AgreesApproves ==
  ASSUME NEW table \in Tables, NEW truth \in Tables, Agrees(table, truth)
  PROVE  \A m \in IndexedModels : table[m].approved = truth[m].approved
BY DEF Agrees, Tables, Row

-----------------------------------------------------------------------------
(* The indexer: the chain and its branches.                                 *)

Blocks == 1..Len(logs)

\* A branch ends with its block, and each of its blocks ends a part of it.
Rooted(b) ==
  /\ branch[b] \in Seq(Blocks) /\ branch[b] # <<>>
  /\ branch[b][Len(branch[b])] = b
  /\ \A n \in 1..Len(branch[b]) : branch[branch[b][n]] = SubSeq(branch[b], 1, n)

\* The logs of a block are at its height, each at an index of its own.
Located(b) ==
  /\ IsFiniteSet(logs[b])
  /\ \A s \in logs[b] : s.block = Len(branch[b])
  /\ \A x, y \in logs[b] : x.index = y.index => x = y

ChainInv ==
  /\ logs \in Seq(SUBSET Log) /\ branch \in Seq(Seq(Nat)) /\ Len(branch) = Len(logs)
  /\ \A b \in Blocks : Rooted(b) /\ Located(b)
  /\ chain # <<>> /\ \E b \in Blocks : chain = branch[b]

LEMMA Prefix ==
  ASSUME NEW S, NEW w \in Seq(S), NEW n \in 0..Len(w)
  PROVE  /\ SubSeq(w, 1, n) \in Seq(S) /\ Len(SubSeq(w, 1, n)) = n
         /\ \A k \in 1..n : SubSeq(w, 1, n)[k] = w[k]
OBVIOUS

LEMMA Part ==
  ASSUME NEW S, NEW w \in Seq(S), NEW m \in Nat \ {0}, NEW n \in 0..Len(w)
  PROVE  /\ SubSeq(w, m, n) \in Seq(S)
         /\ Len(SubSeq(w, m, n)) = IF m <= n THEN n - m + 1 ELSE 0
         /\ \A k \in 1..Len(SubSeq(w, m, n)) : SubSeq(w, m, n)[k] = w[m + k - 1]
OBVIOUS

LEMMA PartOfPrefix ==
  ASSUME NEW S, NEW w \in Seq(S), NEW t \in 0..Len(w), NEW m \in Nat \ {0}, NEW n \in 0..t
  PROVE  SubSeq(SubSeq(w, 1, t), m, n) = SubSeq(w, m, n)
<1>1. PICK p : p = SubSeq(w, 1, t)
  OBVIOUS
<1>2. p \in Seq(S) /\ Len(p) = t /\ \A k \in 1..t : p[k] = w[k]
  BY <1>1, Prefix
<1>3. PICK u, v : u = SubSeq(p, m, n) /\ v = SubSeq(w, m, n)
  OBVIOUS
<1>4. PICK size \in Nat : size = IF m <= n THEN n - m + 1 ELSE 0
  <2>1. (IF m <= n THEN n - m + 1 ELSE 0) \in Nat
    OBVIOUS
  <2> QED
    BY <2>1
<1>5. /\ u \in Seq(S) /\ Len(u) = size /\ \A k \in 1..size : u[k] = p[m + k - 1]
      /\ v \in Seq(S) /\ Len(v) = size /\ \A k \in 1..size : v[k] = w[m + k - 1]
  BY <1>2, <1>3, <1>4, Part
<1>6. \A k \in 1..size : m + k - 1 \in 1..t
  BY <1>4
<1>7. \A k \in 1..size : u[k] = v[k]
  BY <1>2, <1>5, <1>6
<1>8. u = v
  BY <1>5, <1>7
<1> QED
  BY <1>1, <1>3, <1>8

LEMMA Join ==
  ASSUME NEW S, NEW t \in Seq(S), NEW h \in Seq(S)
  PROVE  /\ t \o h \in Seq(S) /\ Len(t \o h) = Len(t) + Len(h)
         /\ \A l \in 1..Len(t) : (t \o h)[l] = t[l]
         /\ \A l \in Len(t) + 1..Len(t) + Len(h) : (t \o h)[l] = h[l - Len(t)]
OBVIOUS

LEMMA BranchBlocks ==
  ASSUME ChainInv, NEW b \in Blocks, NEW k \in 1..Len(branch[b])
  PROVE  /\ branch[b] \in Seq(Blocks)
         /\ branch[b][k] \in Blocks /\ Len(branch[branch[b][k]]) = k
<1>1. branch[b] \in Seq(Blocks) /\ branch[branch[b][k]] = SubSeq(branch[b], 1, k)
  BY DEF ChainInv, Rooted
<1> QED
  BY <1>1

LEMMA LogsOfIs ==
  ASSUME NEW w
  PROVE  \A s : s \in Indexer!LogsOf(w) <=> \E k \in DOMAIN w : s \in logs[w[k]]
BY DEF Indexer!LogsOf

\* The logs of a part of a branch are those between its heights.
LEMMA LogsWithin ==
  ASSUME ChainInv, NEW b \in Blocks, NEW m \in Nat \ {0}, NEW n \in 0..Len(branch[b])
  PROVE  Indexer!LogsOf(SubSeq(branch[b], m, n))
           = {s \in Indexer!LogsOf(branch[b]) : m <= s.block /\ s.block <= n}
<1> DEFINE w == branch[b]
           p == SubSeq(w, m, n)
<1>1. w \in Seq(Blocks)
  BY DEF ChainInv, Rooted
<1>2. p \in Seq(Blocks) /\ (Len(p) = IF m <= n THEN n - m + 1 ELSE 0)
      /\ \A k \in 1..Len(p) : p[k] = w[m + k - 1]
  BY <1>1, Part
<1>3. \A k \in 1..Len(w) : \A s \in logs[w[k]] : s.block = k
  <2> SUFFICES ASSUME NEW k \in 1..Len(w) PROVE \A s \in logs[w[k]] : s.block = k
    OBVIOUS
  <2>1. w[k] \in Blocks /\ Len(branch[w[k]]) = k
    BY BranchBlocks
  <2>2. Located(w[k])
    BY <2>1 DEF ChainInv
  <2> QED
    BY <2>1, <2>2 DEF Located
<1> HIDE DEF w, p
<1>4. DOMAIN w = 1..Len(w) /\ DOMAIN p = 1..Len(p)
  BY <1>1, <1>2
<1>5. ASSUME NEW s \in Indexer!LogsOf(p)
      PROVE  s \in Indexer!LogsOf(w) /\ m <= s.block /\ s.block <= n
  <2>1. PICK k \in 1..Len(p) : s \in logs[p[k]]
    BY <1>4, LogsOfIs
  <2>2. m + k - 1 \in 1..Len(w) /\ m <= m + k - 1 /\ m + k - 1 <= n /\ p[k] = w[m + k - 1]
    BY <1>1, <1>2 DEF w
  <2>3. s.block = m + k - 1
    BY <1>3, <2>1, <2>2
  <2>4. s \in Indexer!LogsOf(w)
    BY <1>4, <2>1, <2>2, LogsOfIs
  <2> QED
    BY <2>2, <2>3, <2>4
<1>6. ASSUME NEW s \in Indexer!LogsOf(w), m <= s.block, s.block <= n
      PROVE  s \in Indexer!LogsOf(p)
  <2>1. PICK k \in 1..Len(w) : s \in logs[w[k]]
    BY <1>4, LogsOfIs
  <2>2. s.block = k
    BY <1>3, <2>1
  <2>3. k - m + 1 \in 1..Len(p) /\ p[k - m + 1] = w[k]
    <3>1. k - m + 1 \in 1..Len(p) /\ m + (k - m + 1) - 1 = k
      BY <1>1, <1>2, <1>6, <2>2
    <3> QED
      BY <1>2, <3>1
  <2> QED
    BY <1>4, <2>1, <2>3, LogsOfIs
<1> QED
  BY <1>5, <1>6 DEF w, p

\* A branch has finitely many logs, each at a place of its own.
LEMMA OrderedBranch ==
  ASSUME ChainInv, NEW b \in Blocks
  PROVE  Ordered(Indexer!LogsOf(branch[b]))
<1> DEFINE w == branch[b]
<1>1. w \in Seq(Blocks) /\ DOMAIN w = 1..Len(w) /\ \A k \in 1..Len(w) : w[k] \in Blocks
  BY DEF ChainInv, Rooted
<1>2. \A k \in 1..Len(w) : /\ logs[w[k]] \in SUBSET Log /\ IsFiniteSet(logs[w[k]])
                           /\ \A s \in logs[w[k]] : s.block = k
                           /\ \A x, y \in logs[w[k]] : x.index = y.index => x = y
  <2> SUFFICES ASSUME NEW k \in 1..Len(w)
               PROVE  /\ logs[w[k]] \in SUBSET Log /\ IsFiniteSet(logs[w[k]])
                      /\ \A s \in logs[w[k]] : s.block = k
                      /\ \A x, y \in logs[w[k]] : x.index = y.index => x = y
    OBVIOUS
  <2>1. w[k] \in Blocks /\ Len(branch[w[k]]) = k
    BY BranchBlocks
  <2>2. logs[w[k]] \in SUBSET Log
    <3>1. logs \in Seq(SUBSET Log) /\ w[k] \in 1..Len(logs)
      BY <2>1 DEF ChainInv, Blocks
    <3> QED
      BY ONLY <3>1
  <2> QED
    BY <2>1, <2>2 DEF ChainInv, Located
<1> HIDE DEF w
<1>3. Indexer!LogsOf(w) \in SUBSET Log
  BY <1>1, <1>2, LogsOfIs
<1>4. IsFiniteSet(Indexer!LogsOf(w))
  <2> DEFINE sets == {logs[w[k]] : k \in 1..Len(w)}
  <2>1. IsFiniteSet(1..Len(w))
    BY <1>1, FS_Interval
  <2>2. IsFiniteSet(sets)
    <3> DEFINE f == [k \in 1..Len(w) |-> logs[w[k]]]
    <3>1. f \in Surjection(1..Len(w), sets)
      BY DEF Surjection
    <3> QED
      BY <2>1, <3>1, FS_Surjection
  <2>3. \A X \in sets : IsFiniteSet(X)
    BY <1>2
  <2>4. Indexer!LogsOf(w) = UNION sets
    BY <1>1 DEF Indexer!LogsOf
  <2> HIDE DEF sets
  <2> QED
    BY <2>2, <2>3, <2>4, FS_UNION
<1>5. ASSUME NEW x \in Indexer!LogsOf(w), NEW y \in Indexer!LogsOf(w),
             x.block = y.block, x.index = y.index
      PROVE  x = y
  <2>1. PICK k \in 1..Len(w) : x \in logs[w[k]]
    BY <1>1, LogsOfIs
  <2>2. PICK l \in 1..Len(w) : y \in logs[w[l]]
    BY <1>1, LogsOfIs
  <2>3. k = l
    BY <1>2, <1>5, <2>1, <2>2
  <2> QED
    BY <1>2, <1>5, <2>1, <2>2, <2>3
<1> QED
  BY <1>3, <1>4, <1>5 DEF Ordered, w

LEMMA ChainPrefix ==
  ASSUME ChainInv, NEW n \in 1..Len(chain)
  PROVE  chain[n] \in Blocks /\ SubSeq(chain, 1, n) = branch[chain[n]]
<1>1. PICK b \in Blocks : chain = branch[b]
  BY DEF ChainInv
<1> QED
  BY <1>1, BranchBlocks DEF ChainInv, Rooted

LEMMA RegistryRegistered ==
  ASSUME ChainInv, NEW b \in Blocks
  PROVE  Registered(Indexer!Registry(branch[b]))
BY OrderedBranch, ReplayKeeps, UnlistedFacts DEF Indexer!Registry

LEMMA EmissionsTyped ==
  ASSUME NEW table, Registered(table), NEW next \in Nat \ {0},
         NEW emitted \in Indexer!Emissions(table, next)
  PROVE  emitted \in Seq(Emitted)
<1>1. \A m \in IndexedModels : table[m].known => table[m].id \in Nat \ {0}
  BY DEF Registered, Tables, Row
<1>2. \A i \in Nat \ {0}, m \in IndexedModels :
        Indexer!Listed(i, m) \in Emitted /\ Indexer!Approved(i) \in Emitted /\ Indexer!Revoked(i) \in Emitted
  BY DEF Emitted
<1>3. /\ \A x \in Emitted : <<x>> \in Seq(Emitted)
      /\ \A x, y \in Emitted : <<x, y>> \in Seq(Emitted)
      /\ <<>> \in Seq(Emitted)
  OBVIOUS
<1>4. \/ emitted = <<>>
      \/ \E m \in IndexedModels : \/ emitted = <<Indexer!Listed(next, m)>>
                                  \/ emitted = <<Indexer!Listed(next, m), Indexer!Approved(next)>>
      \/ \E m \in IndexedModels : table[m].known /\ (\/ emitted = <<Indexer!Approved(table[m].id)>>
                                                     \/ emitted = <<Indexer!Revoked(table[m].id)>>)
  BY DEF Indexer!Emissions
<1> QED
  BY <1>1, <1>2, <1>3, <1>4

LEMMA NextListingNat ==
  ASSUME ChainInv, NEW b \in Blocks
  PROVE  Indexer!NextListing(branch[b]) \in Nat \ {0}
<1>1. IsFiniteSet({s \in Indexer!LogsOf(branch[b]) : s.event.type = "Listed"})
  BY OrderedBranch, FS_Subset DEF Ordered
<1>2. \A S : Indexer!Cardinality(S) = Cardinality(S)
  BY DEF Indexer!Cardinality, Cardinality
<1> QED
  BY <1>1, <1>2, FS_CardinalityType DEF Indexer!NextListing

LEMMA LoggedFacts ==
  ASSUME NEW n \in Nat, NEW b \in Nat, NEW emitted \in Seq(Emitted)
  PROVE  /\ Indexer!Logged(n, b, emitted) \in SUBSET Log /\ IsFiniteSet(Indexer!Logged(n, b, emitted))
         /\ \A s \in Indexer!Logged(n, b, emitted) : s.block = n
         /\ \A x, y \in Indexer!Logged(n, b, emitted) : x.index = y.index => x = y
<1> DEFINE L(j) == [block |-> n, hash |-> b, index |-> j, event |-> emitted[j]]
           f == [j \in 1..Len(emitted) |-> L(j)]
<1>1. DOMAIN emitted = 1..Len(emitted) /\ \A j \in 1..Len(emitted) : emitted[j] \in Emitted
  OBVIOUS
<1>2. Indexer!Logged(n, b, emitted) = {L(j) : j \in 1..Len(emitted)}
  BY <1>1 DEF Indexer!Logged
<1>3. \A j \in 1..Len(emitted) : L(j) \in Log /\ L(j).block = n /\ L(j).index = j
  BY <1>1 DEF Log
<1>4. f \in Surjection(1..Len(emitted), Indexer!Logged(n, b, emitted))
  BY <1>2 DEF Surjection
<1>5. IsFiniteSet(1..Len(emitted))
  BY FS_Interval
<1> HIDE DEF L, f
<1>6. IsFiniteSet(Indexer!Logged(n, b, emitted))
  BY <1>4, <1>5, FS_Surjection
<1>7. \A x, y \in Indexer!Logged(n, b, emitted) : x.index = y.index => x = y
  BY <1>2, <1>3
<1> QED
  BY <1>2, <1>3, <1>6, <1>7

\* A new block, on the first n.
Extends(n) ==
  LET new == Len(logs) + 1
  IN  /\ chain' = Append(SubSeq(chain, 1, n), new)
      /\ branch' = Append(branch, chain')
      /\ \E emitted \in Seq(Emitted) : logs' = Append(logs, Indexer!Logged(n + 1, new, emitted))
      /\ UNCHANGED <<index, rows, tick>>

LEMMA ProduceExtends ==
  ASSUME ChainInv, Indexer!Mine \/ Indexer!Fork
  PROVE  \E n \in 1..Len(chain) : Extends(n)
<1>1. PICK n \in 1..Len(chain) : Indexer!Produce(n)
  <2>1. chain # <<>> /\ Len(chain) \in Nat /\ (Len(chain) = 0 <=> chain = <<>>)
    BY DEF ChainInv, Rooted
  <2> QED
    BY <2>1 DEF Indexer!Mine, Indexer!Fork
<1>2. SubSeq(chain, 1, n) = branch[chain[n]] /\ chain[n] \in Blocks
  BY ChainPrefix
<1> DEFINE blocks == SubSeq(chain, 1, n)
<1>3. PICK emitted \in Indexer!Emissions(Indexer!Registry(blocks), Indexer!NextListing(blocks)) :
        logs' = Append(logs, Indexer!Logged(n + 1, Len(logs) + 1, emitted))
  BY <1>1 DEF Indexer!Produce, Indexer!Logged
<1>4. emitted \in Seq(Emitted)
  <2>1. Registered(Indexer!Registry(blocks)) /\ Indexer!NextListing(blocks) \in Nat \ {0}
    BY <1>2, RegistryRegistered, NextListingNat
  <2> QED
    BY <1>3, <2>1, EmissionsTyped
<1> QED
  BY <1>1, <1>3, <1>4 DEF Indexer!Produce, Extends

\* What was there is there still.
LEMMA ExtendsKeepsOld ==
  ASSUME ChainInv, NEW n \in 1..Len(chain), Extends(n)
  PROVE  /\ Len(logs') = Len(logs) + 1 /\ Blocks' = Blocks \cup {Len(logs) + 1}
         /\ Len(logs) + 1 \notin Blocks
         /\ \A b \in Blocks : logs'[b] = logs[b] /\ branch'[b] = branch[b]
         /\ \A w \in Seq(Blocks) : Indexer!LogsOf(w)' = Indexer!LogsOf(w)
<1>1. logs \in Seq(SUBSET Log) /\ branch \in Seq(Seq(Nat)) /\ Len(branch) = Len(logs)
  BY DEF ChainInv
<1>2. PICK X : logs' = Append(logs, X)
  BY DEF Extends
<1>3. branch' = Append(branch, chain')
  BY DEF Extends
<1>4. /\ Len(logs') = Len(logs) + 1 /\ Blocks' = Blocks \cup {Len(logs) + 1}
      /\ Len(logs) + 1 \notin Blocks
      /\ \A b \in Blocks : logs'[b] = logs[b] /\ branch'[b] = branch[b]
  BY <1>1, <1>2, <1>3 DEF Blocks
<1>5. \A w \in Seq(Blocks) : Indexer!LogsOf(w)' = Indexer!LogsOf(w)
  BY <1>4 DEF Indexer!LogsOf
<1> QED
  BY <1>4, <1>5

LEMMA ExtendsKeepsChain ==
  ASSUME ChainInv, NEW n \in 1..Len(chain), Extends(n)
  PROVE  ChainInv'
<1> DEFINE w == SubSeq(chain, 1, n)
<1> PICK new : new = Len(logs) + 1
  OBVIOUS
<1>0. logs \in Seq(SUBSET Log) /\ branch \in Seq(Seq(Nat)) /\ Len(branch) = Len(logs)
  BY DEF ChainInv
<1>1. /\ Len(logs') = new /\ Blocks' = Blocks \cup {new} /\ new \notin Blocks /\ new \in Nat
      /\ \A b \in Blocks : logs'[b] = logs[b] /\ branch'[b] = branch[b]
  BY <1>0, ExtendsKeepsOld
<1>2. /\ chain' = Append(w, new) /\ branch' = Append(branch, chain')
      /\ \E emitted \in Seq(Emitted) : logs' = Append(logs, Indexer!Logged(n + 1, new, emitted))
  BY DEF Extends
<1>3. chain \in Seq(Blocks) /\ n \in Nat
  BY DEF ChainInv, Rooted
<1>4. w \in Seq(Blocks) /\ Len(w) = n /\ \A k \in 1..n : w[k] = chain[k]
  BY <1>3, Prefix
<1>5. \A k \in 1..n : branch[w[k]] = SubSeq(w, 1, k) /\ w[k] \in Blocks
  <2> SUFFICES ASSUME NEW k \in 1..n PROVE branch[chain[k]] = SubSeq(w, 1, k) /\ chain[k] \in Blocks
    BY <1>4
  <2>1. branch[chain[k]] = SubSeq(chain, 1, k) /\ chain[k] \in Blocks
    BY <1>3, ChainPrefix
  <2>2. SubSeq(w, 1, k) = SubSeq(chain, 1, k)
    BY <1>3
  <2> QED
    BY <2>1, <2>2
<1> HIDE DEF w
<1>6. /\ chain' \in Seq(Blocks') /\ Len(chain') = n + 1 /\ chain'[n + 1] = new
      /\ \A k \in 1..n : chain'[k] = w[k] /\ SubSeq(chain', 1, k) = SubSeq(w, 1, k)
      /\ SubSeq(chain', 1, n + 1) = chain'
  <2>1. w \in Seq(Blocks') /\ new \in Blocks'
    BY <1>1, <1>4
  <2> QED
    BY <1>2, <1>3, <1>4, <2>1
<1>7. branch'[new] = chain' /\ branch' \in Seq(Seq(Nat)) /\ Len(branch') = new
      /\ new \in 1..Len(branch')
  <2>1. chain' \in Seq(Nat)
    BY <1>0, <1>1, <1>6 DEF Blocks
  <2> QED
    BY <1>0, <1>2, <2>1
<1>8. Rooted(new)'
  <2>1. \A k \in 1..n + 1 : branch'[chain'[k]] = SubSeq(chain', 1, k)
    <3>1. \A k \in 1..n : branch'[chain'[k]] = SubSeq(chain', 1, k)
      BY <1>1, <1>5, <1>6
    <3>2. branch'[chain'[n + 1]] = SubSeq(chain', 1, n + 1)
      BY <1>6, <1>7
    <3>3. \A k \in 1..n + 1 : k \in 1..n \/ k = n + 1
      BY <1>3
    <3> QED
      BY <3>1, <3>2, <3>3
  <2> QED
    BY <1>3, <1>6, <1>7, <2>1 DEF Rooted
<1>9. Located(new)'
  <2>1. PICK emitted \in Seq(Emitted) : logs' = Append(logs, Indexer!Logged(n + 1, new, emitted))
    BY <1>2
  <2>2. logs'[new] = Indexer!Logged(n + 1, new, emitted)
    BY <1>0, <2>1
  <2>3. n + 1 \in Nat /\ new \in Nat
    BY <1>1, <1>3
  <2>4. /\ IsFiniteSet(Indexer!Logged(n + 1, new, emitted))
        /\ \A s \in Indexer!Logged(n + 1, new, emitted) : s.block = n + 1
        /\ \A x, y \in Indexer!Logged(n + 1, new, emitted) : x.index = y.index => x = y
    BY <2>3, LoggedFacts
  <2>5. Len(branch'[new]) = n + 1
    BY <1>6, <1>7
  <2> QED
    BY <2>2, <2>4, <2>5 DEF Located
<1>10. logs' \in Seq(SUBSET Log)
  <2>1. PICK emitted \in Seq(Emitted) : logs' = Append(logs, Indexer!Logged(n + 1, new, emitted))
    BY <1>2
  <2>2. Indexer!Logged(n + 1, new, emitted) \in SUBSET Log
    BY <1>1, <1>3, LoggedFacts
  <2> QED
    BY <1>0, <2>1, <2>2
<1>11. \A b \in Blocks : Rooted(b)' /\ Located(b)'
  <2> SUFFICES ASSUME NEW b \in Blocks PROVE Rooted(b)' /\ Located(b)'
    OBVIOUS
  <2>1. Rooted(b) /\ Located(b) /\ \A k \in 1..Len(branch[b]) : branch[b][k] \in Blocks
    <3>1. Rooted(b) /\ Located(b)
      BY DEF ChainInv
    <3>2. branch[b] \in Seq(Blocks)
      BY <3>1 DEF Rooted
    <3>3. \A k \in 1..Len(branch[b]) : branch[b][k] \in Blocks
      BY ONLY <3>2
    <3> QED
      BY <3>1, <3>3
  <2>2. branch'[b] = branch[b] /\ logs'[b] = logs[b] /\ branch[b] \in Seq(Blocks')
    BY <1>1, <2>1 DEF Rooted
  <2>3. Rooted(b)'
    BY <1>1, <2>1, <2>2 DEF Rooted
  <2>4. Located(b)'
    BY <2>1, <2>2 DEF Located
  <2> QED
    BY <2>3, <2>4
<1>12. chain' # <<>> /\ chain' = branch'[new] /\ new \in Blocks'
  BY <1>1, <1>3, <1>6, <1>7
<1>13. Len(branch') = Len(logs')
  BY <1>1, <1>7
<1>14. \A b \in Blocks' : Rooted(b)' /\ Located(b)'
  BY <1>1, <1>8, <1>9, <1>11
<1> QED
  BY <1>7, <1>10, <1>12, <1>13, <1>14 DEF ChainInv

-----------------------------------------------------------------------------
(* The indexer: the index.                                                  *)

Statuses == {"none", "active", "catching_up", "rebuild_required"}
Indexes == [status : Statuses, cursor : Nat, checkpoints : Seq(Nat), stored : SUBSET Log,
            overlooked : Nat]

\* The branch that an index has followed.
Followed(i) == IF i.cursor = 0 THEN <<>> ELSE branch[i.checkpoints[Len(i.checkpoints)]]

\* The checkpoints are the last blocks of a branch as long as the cursor.
Follows(i, b) ==
  /\ Len(branch[b]) = i.cursor /\ Len(i.checkpoints) \in 1..i.cursor
  /\ \A k \in 1..Len(i.checkpoints) :
       i.checkpoints[k] = branch[b][i.cursor - Len(i.checkpoints) + k]

\* Above what gaps have hidden, an index has stored what the registry emitted on the branch that
\* it has followed; a batch that is no longer than the window leaves no gap.
IndexInv(i) ==
  /\ i \in Indexes
  /\ i.status = "none" => i.cursor = 0
  /\ i.cursor = 0 => i.checkpoints = <<>> /\ i.stored = {}
  /\ i.cursor # 0 => \E b \in Blocks : Follows(i, b)
  /\ Ordered(i.stored) /\ \A x \in i.stored : x.block <= i.cursor
  /\ Indexer!Above(i.stored, i.overlooked) = Indexer!Above(Indexer!LogsOf(Followed(i)), i.overlooked)
  /\ BatchSize <= Window => i.overlooked = 0

\* What the stored events make of the models.
Truth(i) == Indexer!Replay(Indexer!Unlisted, i.stored)

\* The table agrees with that, or approves nothing.
RowsInv(i, table) ==
  /\ Kept(table)
  /\ IF i.status \in {"none", "active"} THEN Agrees(table, Truth(i))
     ELSE Unapproved(table)

Ticks ==
  [at : {"search", "plan", "listed", "others", "after"}, confirmed : Nat, rebuild : BOOLEAN,
   index : Indexes, rows : Tables, to : Nat, before : Nat, listed : SUBSET Log, others : SUBSET Log]

\* The logs that the batch is about.
Fetched == Indexer!LogsOf(SubSeq(branch[tick.before], Indexer!From, tick.to))

\* What a batch has read is right if the block that it ends with is still canonical.
BatchInv ==
  /\ tick.to \in Indexer!From..Indexer!From + BatchSize - 1
  /\ tick.before \in Blocks /\ Len(branch[tick.before]) = tick.to
  /\ Indexer!Canonical(tick.to, tick.before) =>
       /\ tick.at # "listed" => tick.listed = {s \in Fetched : s.event.type = "Listed"}
       /\ tick.at = "after" => tick.others = {s \in Fetched : s.event.type # "Listed"}

TickInv ==
  \/ tick = Indexer!Idle
  \/ /\ tick \in Ticks
     /\ IndexInv(tick.index) /\ RowsInv(tick.index, tick.rows)
     /\ tick.index.status # "rebuild_required"
     /\ ~tick.rebuild => tick.index.status \in {"none", "active"}
     /\ tick.at = "search" => tick.index.cursor # 0
     /\ tick.at \in {"listed", "others", "after"} => BatchInv

IndexerInv == ChainInv /\ IndexInv(index) /\ RowsInv(index, rows) /\ TickInv

LEMMA FollowsLast ==
  ASSUME ChainInv, NEW i, i \in Indexes, i.cursor # 0, NEW b \in Blocks, Follows(i, b)
  PROVE  i.checkpoints # <<>> /\ i.checkpoints[Len(i.checkpoints)] = b /\ Followed(i) = branch[b]
<1>1. i.cursor \in Nat /\ i.checkpoints \in Seq(Nat)
  BY DEF Indexes
<1>2. branch[b] \in Seq(Blocks) /\ branch[b][Len(branch[b])] = b
  BY DEF ChainInv, Rooted
<1>3. Len(i.checkpoints) \in 1..i.cursor /\ Len(branch[b]) = i.cursor
  BY DEF Follows
<1>4. PICK l : l = Len(i.checkpoints)
  OBVIOUS
<1>5. i.checkpoints[l] = branch[b][i.cursor - l + l] /\ i.cursor - l + l = i.cursor
  <2>1. l \in 1..Len(i.checkpoints) /\ l \in Nat
    BY <1>1, <1>3, <1>4
  <2>2. i.cursor - l + l = i.cursor
    BY ONLY <1>1, <2>1
  <2> QED
    BY <1>4, <2>1, <2>2 DEF Follows
<1> QED
  BY <1>1, <1>2, <1>3, <1>4, <1>5 DEF Followed

LEMMA NothingFollowed ==
  /\ \A i : i.cursor = 0 => Followed(i) = <<>>
  /\ Indexer!LogsOf(<<>>) = {}
<1>1. Indexer!LogsOf(<<>>) = {}
  BY LogsOfIs
<1> QED
  BY <1>1 DEF Followed

\* The branch that an index has followed is one of the chain's, or nothing yet.
LEMMA FollowedFacts ==
  ASSUME ChainInv, NEW i, IndexInv(i)
  PROVE  Followed(i) \in Seq(Blocks) /\ Len(Followed(i)) = i.cursor
<1>1. CASE i.cursor = 0
  <2>1. Followed(i) = <<>>
    BY <1>1, NothingFollowed
  <2> QED
    BY <1>1, <2>1
<1>2. CASE i.cursor # 0
  <2>1. PICK b \in Blocks : Follows(i, b)
    BY <1>2 DEF IndexInv
  <2>2. Followed(i) = branch[b]
    BY <1>2, <2>1, FollowsLast DEF IndexInv
  <2>3. branch[b] \in Seq(Blocks) /\ Len(branch[b]) = i.cursor
    BY <2>1 DEF ChainInv, Rooted, Follows
  <2> QED
    BY <2>2, <2>3
<1> QED
  BY <1>1, <1>2

LEMMA TruthRegistered ==
  ASSUME NEW i, IndexInv(i)
  PROVE  Registered(Truth(i))
BY ReplayKeeps, UnlistedFacts DEF IndexInv, Truth

\* New blocks leave an index and its table as true as they were.
LEMMA ExtendsKeepsIndex ==
  ASSUME ChainInv, NEW n \in 1..Len(chain), Extends(n), NEW i, IndexInv(i)
  PROVE  /\ IndexInv(i)' /\ Followed(i)' = Followed(i)
         /\ \A table : RowsInv(i, table) => RowsInv(i, table)'
<1>1. /\ Blocks \subseteq Blocks' /\ \A b \in Blocks : branch'[b] = branch[b]
      /\ \A w \in Seq(Blocks) : Indexer!LogsOf(w)' = Indexer!LogsOf(w)
  BY ExtendsKeepsOld
<1>2. Followed(i)' = Followed(i) /\ (i.cursor # 0 => \E b \in Blocks' : Follows(i, b)')
  <2>1. CASE i.cursor = 0
    BY <2>1 DEF Followed
  <2>2. CASE i.cursor # 0
    <3>1. PICK b \in Blocks : Follows(i, b)
      BY <2>2 DEF IndexInv
    <3>2. i.checkpoints[Len(i.checkpoints)] = b
      BY <2>2, <3>1, FollowsLast DEF IndexInv
    <3>3. branch'[b] = branch[b] /\ b \in Blocks'
      BY <1>1
    <3>4. Follows(i, b)'
      BY <3>1, <3>3 DEF Follows
    <3> QED
      BY <2>2, <3>2, <3>3, <3>4 DEF Followed
  <2> QED
    BY <2>1, <2>2
<1>3. Indexer!LogsOf(Followed(i))' = Indexer!LogsOf(Followed(i))
  <2>1. PICK w \in Seq(Blocks) : w = Followed(i)
    BY FollowedFacts
  <2>2. Indexer!LogsOf(w)' = Indexer!LogsOf(w) /\ Followed(i)' = w
    BY <1>1, <1>2, <2>1
  <2>3. Indexer!LogsOf(Followed(i))' = Indexer!LogsOf(w)'
    BY <2>2 DEF Indexer!LogsOf
  <2> QED
    BY <2>1, <2>2, <2>3
<1> QED
  BY <1>2, <1>3 DEF IndexInv, RowsInv, Truth

\* A block that is canonical after new ones was canonical before them.
LEMMA ExtendsKeepsCanonical ==
  ASSUME ChainInv, NEW n \in 1..Len(chain), Extends(n), NEW h \in Nat \ {0}, NEW b \in Blocks,
         Indexer!Canonical(h, b)'
  PROVE  Indexer!Canonical(h, b)
<1>1. chain \in Seq(Blocks) /\ n \in Nat /\ n <= Len(chain)
  BY DEF ChainInv, Rooted
<1>2. PICK new : new = Len(logs) + 1 /\ new # b
  BY ExtendsKeepsOld
<1>3. chain' = Append(SubSeq(chain, 1, n), new)
  BY <1>2 DEF Extends
<1>4. Len(chain') = n + 1 /\ chain'[n + 1] = new /\ \A k \in 1..n : chain'[k] = chain[k]
  BY <1>1, <1>3
<1>5. h \in 1..n + 1 /\ chain'[h] = b
  BY <1>4 DEF Indexer!Canonical
<1>6. h \in 1..n
  BY <1>1, <1>2, <1>4, <1>5
<1> QED
  BY <1>1, <1>4, <1>5, <1>6 DEF Indexer!Canonical

LEMMA ExtendsKeepsBatch ==
  ASSUME ChainInv, NEW n \in 1..Len(chain), Extends(n), tick \in Ticks, BatchInv
  PROVE  BatchInv'
<1>0. tick' = tick /\ Indexer!From' = Indexer!From /\ Indexer!From \in Nat \ {0}
  BY DEF Extends, Indexer!From, Ticks, Indexes
<1>1. /\ tick.before \in Blocks /\ tick.to \in Nat /\ tick.to >= Indexer!From
      /\ Len(branch[tick.before]) = tick.to
  BY <1>0, IndexerAssumption DEF BatchInv, Ticks
<1>2. tick.before \in Blocks' /\ branch'[tick.before] = branch[tick.before]
  BY <1>1, ExtendsKeepsOld
<1>3. PICK w \in Seq(Blocks) : w = SubSeq(branch[tick.before], Indexer!From, tick.to)
  <2>1. branch[tick.before] \in Seq(Blocks)
    BY <1>1 DEF ChainInv, Rooted
  <2>2. SubSeq(branch[tick.before], Indexer!From, tick.to) \in Seq(Blocks)
    BY <1>0, <1>1, <2>1, Part
  <2> QED
    BY <2>2
<1>4. Fetched' = Fetched
  <2>1. Indexer!LogsOf(w)' = Indexer!LogsOf(w)
    BY ExtendsKeepsOld
  <2>2. SubSeq(branch[tick.before], Indexer!From, tick.to)' = w
    BY <1>0, <1>2, <1>3
  <2>3. Fetched' = Indexer!LogsOf(w)'
    BY <2>2 DEF Fetched, Indexer!LogsOf
  <2> QED
    BY <1>3, <2>1, <2>3 DEF Fetched
<1>5. Indexer!Canonical(tick.to, tick.before)' => Indexer!Canonical(tick.to, tick.before)
  <2>1. PICK h \in Nat \ {0}, b \in Blocks : h = tick.to /\ b = tick.before
    BY <1>0, <1>1
  <2>2. Indexer!Canonical(h, b)' => Indexer!Canonical(h, b)
    BY ExtendsKeepsCanonical
  <2>3. Indexer!Canonical(tick.to, tick.before)' <=> Indexer!Canonical(h, b)'
    BY <1>0, <2>1 DEF Indexer!Canonical
  <2> QED
    BY <2>1, <2>2, <2>3
<1> QED
  BY <1>0, <1>2, <1>4, <1>5 DEF BatchInv

LEMMA ExtendsKeepsInv ==
  ASSUME IndexerInv, NEW n \in 1..Len(chain), Extends(n)
  PROVE  IndexerInv'
<1>0. ChainInv /\ UNCHANGED <<index, rows, tick>>
  BY DEF IndexerInv, Extends
<1>1. ASSUME NEW i, NEW table, IndexInv(i), RowsInv(i, table)
      PROVE  IndexInv(i)' /\ RowsInv(i, table)'
  BY <1>0, <1>1, ExtendsKeepsIndex
<1>2. IndexInv(index)' /\ RowsInv(index, rows)'
  <2>1. PICK i, table : i = index /\ table = rows
    OBVIOUS
  <2>2. IndexInv(i)' /\ RowsInv(i, table)'
    BY <1>1, <2>1 DEF IndexerInv
  <2>3. index' = i /\ rows' = table
    BY <1>0, <2>1
  <2> QED
    BY <2>2, <2>3 DEF IndexInv, RowsInv, Truth, Follows, Followed, Indexer!LogsOf
<1>3. TickInv'
  <2>1. CASE tick = Indexer!Idle
    BY <1>0, <2>1 DEF TickInv, Indexer!Idle
  <2>2. CASE tick # Indexer!Idle
    <3>1. PICK i, table : i = tick.index /\ table = tick.rows
      OBVIOUS
    <3>2. IndexInv(i)' /\ RowsInv(i, table)'
      BY <1>1, <2>2, <3>1 DEF IndexerInv, TickInv
    <3>3. tick'.index = i /\ tick'.rows = table
      BY <1>0, <3>1
    <3>4. IndexInv(tick.index)' /\ RowsInv(tick.index, tick.rows)'
      BY <3>2, <3>3 DEF IndexInv, RowsInv, Truth, Follows, Followed, Indexer!LogsOf
    <3>5. tick.at \in {"listed", "others", "after"} => BatchInv'
      BY <1>0, <2>2, ExtendsKeepsBatch DEF IndexerInv, TickInv
    <3> QED
      BY <1>0, <2>2, <3>4, <3>5 DEF IndexerInv, TickInv
  <2> QED
    BY <2>1, <2>2
<1> QED
  BY <1>0, <1>2, <1>3, ExtendsKeepsChain DEF IndexerInv

LEMMA ExtendsOrTicks ==
  ASSUME UNCHANGED <<chain, branch, logs>>
  PROVE  /\ ChainInv => ChainInv'
         /\ \A i : IndexInv(i) => IndexInv(i)'
         /\ \A i, table : RowsInv(i, table) => RowsInv(i, table)'
<1>1. Blocks' = Blocks /\ \A b : branch'[b] = branch[b] /\ logs'[b] = logs[b]
  BY DEF Blocks
<1>2. \A i, b : Follows(i, b)' <=> Follows(i, b)
  BY DEF Follows
<1>3. ASSUME NEW i
      PROVE  /\ Followed(i)' = Followed(i)
             /\ Indexer!LogsOf(Followed(i))' = Indexer!LogsOf(Followed(i))
  <2>1. Followed(i)' = Followed(i)
    BY DEF Followed
  <2> QED
    BY <2>1 DEF Indexer!LogsOf
<1>4. ChainInv => ChainInv'
  <2>1. \A b : (Rooted(b) => Rooted(b)') /\ (Located(b) => Located(b)')
    BY <1>1 DEF Rooted, Located
  <2> QED
    BY <1>1, <2>1 DEF ChainInv
<1>5. \A i : IndexInv(i) => IndexInv(i)'
  BY <1>1, <1>2, <1>3 DEF IndexInv
<1>6. \A i, table : RowsInv(i, table) => RowsInv(i, table)'
  BY DEF RowsInv, Truth
<1> QED
  BY <1>4, <1>5, <1>6

\* A tick ends with what it commits.
LEMMA CommitsKeeps ==
  ASSUME ChainInv, UNCHANGED <<chain, branch, logs>>, NEW i, NEW table, IndexInv(i), RowsInv(i, table),
         Indexer!Commits(i, table)
  PROVE  IndexerInv'
<1>1. index' = i /\ rows' = table /\ tick' = Indexer!Idle
  BY DEF Indexer!Commits
<1>2. ChainInv' /\ IndexInv(i)' /\ RowsInv(i, table)'
  BY ExtendsOrTicks
<1>3. IndexInv(index)'
  BY ONLY <1>1, <1>2 DEF IndexInv, Follows, Followed, Indexer!LogsOf
<1>4. RowsInv(index, rows)'
  BY ONLY <1>1, <1>2 DEF RowsInv, Truth
<1> QED
  BY <1>1, <1>2, <1>3, <1>4 DEF IndexerInv, TickInv, Indexer!Idle

\* A tick that is in progress has changed nothing yet.
LEMMA TickingKeeps ==
  ASSUME IndexerInv, UNCHANGED <<chain, branch, logs, index, rows>>, tick' \in Ticks,
         IndexInv(tick'.index), RowsInv(tick'.index, tick'.rows),
         tick'.index.status # "rebuild_required",
         ~tick'.rebuild => tick'.index.status \in {"none", "active"},
         tick'.at = "search" => tick'.index.cursor # 0,
         tick'.at \in {"listed", "others", "after"} => BatchInv'
  PROVE  IndexerInv'
<1>1. PICK i, table : i = tick'.index /\ table = tick'.rows
  OBVIOUS
<1>2. IndexInv(i)' /\ RowsInv(i, table)' /\ ChainInv'
  <2>1. IndexInv(i) /\ RowsInv(i, table) /\ ChainInv
    BY <1>1 DEF IndexerInv
  <2> QED
    BY <2>1, ExtendsOrTicks
<1>3. IndexInv(tick.index)' /\ RowsInv(tick.index, tick.rows)'
  <2>1. Followed(tick.index)' = Followed(i)' /\ \A b : Follows(tick.index, b)' <=> Follows(i, b)'
    BY ONLY <1>1 DEF Followed, Follows
  <2>2. Indexer!LogsOf(Followed(tick.index))' = Indexer!LogsOf(Followed(i))'
    BY ONLY <2>1 DEF Indexer!LogsOf
  <2>3. IndexInv(tick.index)'
    BY ONLY <1>1, <1>2, <2>1, <2>2 DEF IndexInv
  <2> QED
    BY ONLY <1>1, <1>2, <2>3 DEF RowsInv, Truth
<1>4. PICK j, t : j = index /\ t = rows
  OBVIOUS
<1>5. IndexInv(j)' /\ RowsInv(j, t)' /\ index' = j /\ rows' = t
  <2>1. IndexInv(j) /\ RowsInv(j, t)
    BY <1>4 DEF IndexerInv
  <2>2. IndexInv(j)' /\ RowsInv(j, t)'
    BY <2>1, ExtendsOrTicks
  <2> QED
    BY <1>4, <2>2
<1>6. IndexInv(index)' /\ RowsInv(index, rows)'
  <2>1. Followed(index)' = Followed(j)' /\ \A b : Follows(index, b)' <=> Follows(j, b)'
    BY ONLY <1>5 DEF Followed, Follows
  <2>2. Indexer!LogsOf(Followed(index))' = Indexer!LogsOf(Followed(j))'
    BY ONLY <2>1 DEF Indexer!LogsOf
  <2>3. IndexInv(index)'
    BY ONLY <1>5, <2>1, <2>2 DEF IndexInv
  <2> QED
    BY ONLY <1>5, <2>3 DEF RowsInv, Truth
<1> QED
  BY <1>2, <1>3, <1>6 DEF IndexerInv, TickInv

LEMMA QuarantineKeeps ==
  ASSUME ChainInv, NEW i, NEW table, IndexInv(i), RowsInv(i, table),
         NEW s \in {"catching_up", "rebuild_required"}
  PROVE  /\ IndexInv([i EXCEPT !.status = s])
         /\ RowsInv([i EXCEPT !.status = s], Indexer!Quarantined(table))
<1> PICK j : j = [i EXCEPT !.status = s]
  OBVIOUS
<1>1. i \in Indexes
  BY DEF IndexInv
<1>2. /\ j \in Indexes /\ j.status = s /\ j.cursor = i.cursor /\ j.checkpoints = i.checkpoints
      /\ j.stored = i.stored /\ j.overlooked = i.overlooked
  BY <1>1 DEF Indexes, Statuses
<1>3. IndexInv(j)
  BY <1>2 DEF IndexInv, Follows, Followed
<1>4. RowsInv(j, Indexer!Quarantined(table))
  BY <1>2, QuarantineFacts DEF RowsInv
<1> QED
  BY <1>3, <1>4

\* An index rewound to one of its checkpoints.
LEMMA RewoundKeeps ==
  ASSUME ChainInv, NEW i, IndexInv(i), i.cursor # 0, NEW k \in 1..Len(i.checkpoints),
         NEW n, n = i.cursor - Len(i.checkpoints) + k
  PROVE  IndexInv(Indexer!Rewound(i, n, k)) /\ Indexer!Rewound(i, n, k).status = "catching_up"
<1> PICK j : j = Indexer!Rewound(i, n, k)
  OBVIOUS
<1> PICK size : size = Len(i.checkpoints)
  OBVIOUS
<1>0. i \in Indexes /\ i.cursor \in Nat /\ i.checkpoints \in Seq(Nat) /\ i.stored \in SUBSET Log
  BY DEF IndexInv, Indexes
<1>1. PICK b \in Blocks : Follows(i, b)
  BY DEF IndexInv
<1>2. /\ Len(branch[b]) = i.cursor /\ size \in 1..i.cursor /\ size \in Nat
      /\ k \in 1..size /\ n = i.cursor - size + k
      /\ \A l \in 1..size : i.checkpoints[l] = branch[b][i.cursor - size + l]
  BY <1>0, <1>1 DEF Follows
<1>3. /\ j.status = "catching_up" /\ j.cursor = n /\ j.checkpoints = SubSeq(i.checkpoints, 1, k)
      /\ j.stored = {s \in i.stored : s.block <= n} /\ j.overlooked = i.overlooked
  BY <1>0 DEF Indexer!Rewound, Indexes
<1>4. n \in 1..Len(branch[b]) /\ i.checkpoints[k] = branch[b][n] /\ k \in Nat /\ k <= n
  <2>1. i.checkpoints[k] = branch[b][n]
    BY ONLY <1>2
  <2>2. PICK cursor \in Nat : cursor = i.cursor
    BY <1>0
  <2>3. n \in 1..cursor /\ k \in Nat /\ k <= n
    BY ONLY <1>2, <2>2
  <2> QED
    BY ONLY <1>2, <2>1, <2>2, <2>3
<1>5. /\ j.checkpoints \in Seq(Nat) /\ Len(j.checkpoints) = k
      /\ \A l \in 1..k : j.checkpoints[l] = i.checkpoints[l]
  <2>1. k \in 0..Len(i.checkpoints)
    BY <1>0
  <2>2. /\ SubSeq(i.checkpoints, 1, k) \in Seq(Nat) /\ Len(SubSeq(i.checkpoints, 1, k)) = k
        /\ \A l \in 1..k : SubSeq(i.checkpoints, 1, k)[l] = i.checkpoints[l]
    BY ONLY <1>0, <2>1, Prefix
  <2> QED
    BY <1>3, <2>2
<1>6. PICK c \in Blocks : c = branch[b][n]
  BY <1>4, BranchBlocks
<1>7. branch[c] = SubSeq(branch[b], 1, n) /\ branch[b] \in Seq(Blocks)
  BY <1>4, <1>6 DEF ChainInv, Rooted
<1>8. Len(branch[c]) = n /\ \A l \in 1..n : branch[c][l] = branch[b][l]
  <2>1. n \in 0..Len(branch[b])
    BY <1>4
  <2> QED
    BY ONLY <1>7, <2>1, Prefix
<1>9. Follows(j, c)
  <2>1. ASSUME NEW l \in 1..k PROVE j.checkpoints[l] = branch[c][n - k + l]
    <3>1. j.checkpoints[l] = branch[b][i.cursor - size + l] /\ l \in Nat
      <4>1. l \in 1..k /\ l \in 1..size /\ l \in Nat
        BY <1>2, <1>4
      <4> QED
        BY ONLY <1>2, <1>5, <4>1
    <3>2. i.cursor - size + l = n - k + l /\ n - k + l \in 1..n
      <4>1. i.cursor \in Nat /\ size \in Nat /\ k \in Nat /\ l \in 1..k /\ k <= n /\ n = i.cursor - size + k
        BY <1>0, <1>2, <1>4
      <4> QED
        BY ONLY <4>1
    <3> QED
      BY <1>8, <3>1, <3>2
  <2>2. k \in 1..n
    BY <1>2, <1>4
  <2> QED
    BY <1>3, <1>5, <1>8, <2>1, <2>2 DEF Follows
<1>10. j \in Indexes
  <2>1. j.stored \in SUBSET Log /\ n \in Nat /\ j.overlooked \in Nat
    <3>1. i.stored \in SUBSET Log /\ i.overlooked \in Nat
      BY <1>0 DEF Indexes
    <3>2. n \in Nat
      BY <1>4
    <3> QED
      BY ONLY <1>3, <3>1, <3>2
  <2>2. j = [status |-> j.status, cursor |-> j.cursor, checkpoints |-> j.checkpoints,
             stored |-> j.stored, overlooked |-> j.overlooked]
    BY <1>0 DEF Indexer!Rewound, Indexes
  <2> QED
    BY ONLY <1>3, <1>5, <2>1, <2>2 DEF Indexes, Statuses
<1>11. n # 0 /\ Followed(j) = branch[c]
  BY <1>3, <1>4, <1>9, <1>10, FollowsLast
<1>12. Indexer!Above(j.stored, j.overlooked) = Indexer!Above(Indexer!LogsOf(Followed(j)), j.overlooked)
  <2>1. Indexer!Above(i.stored, i.overlooked) = Indexer!Above(Indexer!LogsOf(branch[b]), i.overlooked)
    BY <1>1, FollowsLast DEF IndexInv
  <2>2. Indexer!LogsOf(branch[c]) = {s \in Indexer!LogsOf(branch[b]) : 1 <= s.block /\ s.block <= n}
    BY <1>4, <1>7, LogsWithin
  <2>3. \A s \in Indexer!LogsOf(branch[b]) : s.block \in Nat
    BY OrderedBranch DEF Ordered, Log
  <2> QED
    BY <1>0, <1>3, <1>11, <2>1, <2>2, <2>3 DEF Indexer!Above, Indexes
<1>13. Ordered(j.stored) /\ \A s \in j.stored : s.block <= j.cursor
  BY <1>3, OrderedPart DEF IndexInv
<1>14. BatchSize <= Window => j.overlooked = 0
  BY <1>3 DEF IndexInv
<1> QED
  BY <1>3, <1>9, <1>10, <1>11, <1>12, <1>13, <1>14 DEF IndexInv

LEMMA GreatestExists ==
  ASSUME NEW n \in Nat, NEW S \in SUBSET (1..n), S # {}
  PROVE  \E x \in S : \A y \in S : y <= x
<1> DEFINE F == {T \in SUBSET S : T = {} \/ \E x \in T : \A y \in T : y <= x}
<1>1. IsFiniteSet(S)
  <2>1. IsFiniteSet(1..n)
    BY FS_Interval
  <2> QED
    BY <2>1, FS_Subset
<1>2. ASSUME NEW T \in SUBSET S, \A x \in T : T \ {x} \in F
      PROVE  T \in F
  <2>1. SUFFICES ASSUME NEW z \in T PROVE \E x \in T : \A y \in T : y <= x
    OBVIOUS
  <2>2. CASE T \ {z} = {}
    BY <2>2
  <2>3. CASE T \ {z} # {}
    <3>1. PICK x \in T \ {z} : \A y \in T \ {z} : y <= x
      BY <1>2, <2>3
    <3>2. CASE z <= x
      BY <3>1, <3>2
    <3>3. CASE ~(z <= x)
      BY <3>1, <3>3
    <3> QED
      BY <3>2, <3>3
  <2> QED
    BY <2>2, <2>3
<1>3. S \in F
  <2> HIDE DEF F
  <2>1. \A T \in SUBSET S : T \in F
    BY <1>1, <1>2, FiniteInduction, Zenon
  <2> QED
    BY <2>1
<1> QED
  BY <1>3

-----------------------------------------------------------------------------
(* The indexer: the steps of a tick.                                        *)

LEMMA TickIsOn ==
  ASSUME IndexerInv, tick.at # "idle"
  PROVE  /\ tick \in Ticks /\ ChainInv
         /\ IndexInv(tick.index) /\ RowsInv(tick.index, tick.rows)
         /\ tick.index.status # "rebuild_required"
         /\ ~tick.rebuild => tick.index.status \in {"none", "active"}
         /\ tick.at = "search" => tick.index.cursor # 0
         /\ tick.at \in {"listed", "others", "after"} => BatchInv
BY DEF IndexerInv, TickInv, Indexer!Idle

LEMMA BeginKeeps ==
  ASSUME IndexerInv, Indexer!BeginAtHead \/ Indexer!BeginBehind
  PROVE  IndexerInv'
<1>1. PICK latest \in Nat : Indexer!Begin(latest)
  <2>1. Len(chain) \in Nat
    BY DEF IndexerInv, ChainInv, Rooted
  <2> QED
    BY <2>1 DEF Indexer!BeginAtHead, Indexer!BeginBehind
<1>2. /\ tick' = [at |-> IF index.cursor > 0 THEN "search" ELSE "plan",
                  confirmed |-> Indexer!ConfirmedAt(latest), rebuild |-> index.status = "catching_up",
                  index |-> index, rows |-> rows,
                  to |-> 0, before |-> 0, listed |-> {}, others |-> {}]
      /\ UNCHANGED <<chain, branch, logs, index, rows>>
      /\ index.status # "rebuild_required"
  BY <1>1 DEF Indexer!Begin, Indexer!chainVars
<1>3. IndexInv(index) /\ RowsInv(index, rows) /\ index \in Indexes /\ rows \in Tables
  BY DEF IndexerInv, IndexInv, RowsInv, Kept
<1>4. index.cursor \in Nat /\ index.status \in Statuses /\ Indexer!ConfirmedAt(latest) \in Nat
  BY <1>3, IndexerAssumption DEF Indexes, Indexer!ConfirmedAt
<1>5. tick' \in Ticks
  BY <1>2, <1>3, <1>4 DEF Ticks
<1>6. tick'.index = index /\ tick'.rows = rows /\ (tick'.rebuild <=> index.status = "catching_up")
      /\ tick'.at = IF index.cursor > 0 THEN "search" ELSE "plan"
  BY <1>2
<1> QED
  BY <1>2, <1>3, <1>4, <1>5, <1>6, TickingKeeps DEF Statuses

LEMMA StagedKeeps ==
  ASSUME IndexerInv, tick.at # "idle", UNCHANGED <<chain, branch, logs>>,
         \/ Indexer!CommitsStaged
         \/ \E s \in {"catching_up", "rebuild_required"} : Indexer!CommitsQuarantine(s)
  PROVE  IndexerInv'
<1>1. ChainInv /\ IndexInv(tick.index) /\ RowsInv(tick.index, tick.rows)
  BY TickIsOn
<1>2. CASE Indexer!CommitsStaged
  BY <1>1, <1>2, CommitsKeeps DEF Indexer!CommitsStaged
<1>3. CASE \E s \in {"catching_up", "rebuild_required"} : Indexer!CommitsQuarantine(s)
  <2>1. PICK s \in {"catching_up", "rebuild_required"} :
          Indexer!Commits([tick.index EXCEPT !.status = s], Indexer!Quarantined(tick.rows))
    BY <1>3 DEF Indexer!CommitsQuarantine
  <2>2. /\ IndexInv([tick.index EXCEPT !.status = s])
        /\ RowsInv([tick.index EXCEPT !.status = s], Indexer!Quarantined(tick.rows))
    BY <1>1, QuarantineKeeps
  <2> QED
    BY <1>1, <2>1, <2>2, CommitsKeeps
<1> QED
  BY <1>2, <1>3

\* A tick that goes on with the index it has.
LEMMA GoesOnKeeps ==
  ASSUME IndexerInv, tick.at # "idle", UNCHANGED <<chain, branch, logs, index, rows>>,
         tick' \in Ticks, tick'.index = tick.index, tick'.rows = tick.rows,
         tick'.rebuild = tick.rebuild, tick'.at # "search",
         tick'.at \in {"listed", "others", "after"} => BatchInv'
  PROVE  IndexerInv'
<1>1. /\ IndexInv(tick.index) /\ RowsInv(tick.index, tick.rows)
      /\ tick.index.status # "rebuild_required"
      /\ ~tick.rebuild => tick.index.status \in {"none", "active"}
  BY TickIsOn
<1> QED
  BY <1>1, TickingKeeps

LEMMA SearchKeeps ==
  ASSUME IndexerInv, Indexer!Search
  PROVE  IndexerInv'
<1>0. tick.at = "search" /\ UNCHANGED <<chain, branch, logs>>
  BY DEF Indexer!Search, Indexer!chainVars
<1>1. /\ tick \in Ticks /\ ChainInv /\ IndexInv(tick.index) /\ RowsInv(tick.index, tick.rows)
      /\ tick.index.cursor # 0 /\ tick.index.status # "rebuild_required"
      /\ ~tick.rebuild => tick.index.status \in {"none", "active"}
  BY <1>0, TickIsOn
<1> DEFINE Missing == \E k \in Indexer!Sought : Indexer!Height(k) > Len(chain)
<1>2. CASE Missing \/ Indexer!Retained = {}
  BY <1>0, <1>2, StagedKeeps DEF Indexer!Search
<1>3. CASE ~Missing /\ Indexer!Retained # {}
  <2>1. PICK k, n :
          /\ k = (CHOOSE x \in Indexer!Retained : \A y \in Indexer!Retained : y <= x)
          /\ n = Indexer!Height(k)
          /\ tick' = IF n = tick.index.cursor THEN [tick EXCEPT !.at = "plan"]
                     ELSE [tick EXCEPT !.at = "plan", !.rebuild = TRUE,
                                       !.rows = Indexer!Quarantined(@),
                                       !.index = Indexer!Rewound(@, n, k)]
          /\ UNCHANGED <<index, rows>>
    BY <1>3 DEF Indexer!Search
  <2>2. k \in 1..Len(tick.index.checkpoints)
    <3>1. Indexer!Retained \in SUBSET (1..Len(tick.index.checkpoints))
      BY DEF Indexer!Retained, Indexer!Sought
    <3>2. Len(tick.index.checkpoints) \in Nat
      BY <1>1 DEF IndexInv, Indexes
    <3>3. \E x \in Indexer!Retained : \A y \in Indexer!Retained : y <= x
      BY <1>3, <3>1, <3>2, GreatestExists
    <3>4. k \in Indexer!Retained
      BY <2>1, <3>3
    <3> QED
      BY <3>1, <3>4
  <2>3. CASE n = tick.index.cursor
    <3>1. tick' = [tick EXCEPT !.at = "plan"]
      BY <2>1, <2>3
    <3>2. /\ tick' \in Ticks /\ tick'.index = tick.index /\ tick'.rows = tick.rows
          /\ tick'.rebuild = tick.rebuild /\ tick'.at = "plan"
      BY <1>1, <3>1 DEF Ticks
    <3> QED
      BY <1>0, <2>1, <3>2, GoesOnKeeps
  <2>4. CASE n # tick.index.cursor
    <3>1. tick' = [tick EXCEPT !.at = "plan", !.rebuild = TRUE,
                               !.rows = Indexer!Quarantined(tick.rows),
                               !.index = Indexer!Rewound(tick.index, n, k)]
      BY <2>1, <2>4
    <3>2. /\ IndexInv(Indexer!Rewound(tick.index, n, k))
          /\ Indexer!Rewound(tick.index, n, k).status = "catching_up"
      <4>1. n = tick.index.cursor - Len(tick.index.checkpoints) + k
        BY <2>1 DEF Indexer!Height
      <4> QED
        BY <1>1, <2>2, <4>1, RewoundKeeps
    <3>3. Kept(Indexer!Quarantined(tick.rows)) /\ Unapproved(Indexer!Quarantined(tick.rows))
      BY <1>1, QuarantineFacts DEF RowsInv
    <3>4. RowsInv(Indexer!Rewound(tick.index, n, k), Indexer!Quarantined(tick.rows))
      BY <3>2, <3>3 DEF RowsInv
    <3>5. /\ tick'.index = Indexer!Rewound(tick.index, n, k)
          /\ tick'.rows = Indexer!Quarantined(tick.rows)
          /\ tick'.rebuild = TRUE /\ tick'.at = "plan"
      BY <1>1, <3>1 DEF Ticks
    <3>6. Indexer!Rewound(tick.index, n, k) \in Indexes /\ Indexer!Quarantined(tick.rows) \in Tables
      BY <3>2, <3>3 DEF IndexInv, Kept
    <3>7. tick' \in Ticks
      BY <1>1, <3>1, <3>6 DEF Ticks
    <3> QED
      BY <1>0, <2>1, <3>2, <3>4, <3>5, <3>7, TickingKeeps
  <2> QED
    BY <2>3, <2>4
<1> QED
  BY <1>2, <1>3

\* The table of an index that is rebuilt.
LEMMA RebuiltAgrees ==
  ASSUME NEW i, IndexInv(i), NEW table, Kept(table)
  PROVE  /\ Kept(Indexer!Rebuilt(table, i.stored))
         /\ Agrees(Indexer!Rebuilt(table, i.stored), Truth(i))
<1>1. Kept(Indexer!Cleared(table)) /\ Agrees(Indexer!Cleared(table), Indexer!Unlisted)
  BY QuarantineFacts
<1> QED
  BY <1>1, ReplayKeeps, UnlistedFacts DEF IndexInv, Truth, Indexer!Rebuilt

LEMMA CaughtUpKeeps ==
  ASSUME IndexerInv, Indexer!CaughtUp
  PROVE  IndexerInv'
<1>0. tick.at = "plan" /\ UNCHANGED <<chain, branch, logs>>
  BY DEF Indexer!CaughtUp, Indexer!chainVars
<1>1. ChainInv /\ IndexInv(tick.index) /\ RowsInv(tick.index, tick.rows) /\ tick.index \in Indexes
  BY <1>0, TickIsOn DEF IndexInv
<1>2. CASE Indexer!CommitsStaged
  BY <1>0, <1>2, StagedKeeps
<1>3. CASE Indexer!Commits([tick.index EXCEPT !.status = "active"],
                           Indexer!Rebuilt(tick.rows, tick.index.stored))
  <2> PICK i : i = [tick.index EXCEPT !.status = "active"]
    OBVIOUS
  <2>1. /\ i \in Indexes /\ i.status = "active" /\ i.cursor = tick.index.cursor
        /\ i.checkpoints = tick.index.checkpoints /\ i.stored = tick.index.stored
        /\ i.overlooked = tick.index.overlooked
    BY <1>1 DEF Indexes, Statuses
  <2>2. IndexInv(i)
    BY <1>1, <2>1 DEF IndexInv, Follows, Followed
  <2>3. RowsInv(i, Indexer!Rebuilt(tick.rows, tick.index.stored))
    BY <1>1, <2>1, <2>2, RebuiltAgrees DEF RowsInv
  <2> QED
    BY <1>0, <1>1, <1>3, <2>2, <2>3, CommitsKeeps
<1> QED
  BY <1>2, <1>3 DEF Indexer!CaughtUp

LEMMA ReadBeforeKeeps ==
  ASSUME IndexerInv, Indexer!ReadBefore
  PROVE  IndexerInv'
<1>0. /\ tick.at = "plan" /\ Indexer!From <= tick.confirmed /\ UNCHANGED <<chain, branch, logs>>
      /\ Indexer!CommitsStaged
         \/ /\ Indexer!To <= Len(chain) /\ UNCHANGED <<index, rows>>
            /\ tick' = [tick EXCEPT !.at = "listed", !.to = Indexer!To, !.before = chain[Indexer!To]]
  <2>1. Len(chain) \in Nat
    BY DEF IndexerInv, ChainInv, Rooted
  <2>2. Indexer!To \in Int
    <3>1. tick \in Ticks
      BY TickIsOn DEF Indexer!ReadBefore
    <3> QED
      BY <3>1, IndexerAssumption DEF Ticks, Indexes, Indexer!To, Indexer!From
  <2> QED
    BY <2>1, <2>2 DEF Indexer!ReadBefore, Indexer!chainVars
<1>1. tick \in Ticks /\ ChainInv
  BY <1>0, TickIsOn
<1>2. CASE Indexer!CommitsStaged
  BY <1>0, <1>2, StagedKeeps
<1>3. CASE /\ Indexer!To <= Len(chain) /\ UNCHANGED <<index, rows>>
           /\ tick' = [tick EXCEPT !.at = "listed", !.to = Indexer!To, !.before = chain[Indexer!To]]
  <2>1. Indexer!From = tick.index.cursor + 1 /\ tick.index.cursor \in Nat /\ tick.confirmed \in Nat
    BY <1>1 DEF Indexer!From, Ticks, Indexes
  <2>2. Indexer!To \in Indexer!From..Indexer!From + BatchSize - 1 /\ Indexer!To \in 1..Len(chain)
    <3>1. PICK f, t, c : f = Indexer!From /\ t = Indexer!To /\ c = tick.confirmed
      OBVIOUS
    <3>2. t = (IF f + BatchSize - 1 < c THEN f + BatchSize - 1 ELSE c) /\ f <= c /\ f \in Nat \ {0}
          /\ c \in Nat /\ t <= Len(chain)
      BY <1>0, <1>3, <2>1, <3>1 DEF Indexer!To
    <3>3. t \in f..f + BatchSize - 1
      BY <3>2, IndexerAssumption
    <3>4. Len(chain) \in Nat
      BY <1>1 DEF ChainInv, Rooted
    <3> QED
      BY <3>1, <3>2, <3>3, <3>4, IndexerAssumption
  <2>3. chain[Indexer!To] \in Blocks /\ Len(branch[chain[Indexer!To]]) = Indexer!To
    <3>1. PICK b \in Blocks : chain = branch[b]
      BY <1>1 DEF ChainInv
    <3> QED
      BY <1>1, <2>2, <3>1, BranchBlocks
  <2>4. chain[Indexer!To] \in Nat /\ Indexer!To \in Nat
    BY <2>2, <2>3 DEF Blocks
  <2>5. /\ tick' \in Ticks /\ tick'.index = tick.index /\ tick'.rows = tick.rows
        /\ tick'.rebuild = tick.rebuild /\ tick'.at = "listed"
        /\ tick'.to = Indexer!To /\ tick'.before = chain[Indexer!To]
    BY <1>1, <1>3, <2>4 DEF Ticks
  <2>6. Indexer!From' = Indexer!From /\ Blocks' = Blocks /\ branch' = branch
    BY <1>0, <2>5 DEF Indexer!From, Blocks
  <2>7. BatchInv'
    BY <2>2, <2>3, <2>5, <2>6 DEF BatchInv
  <2> QED
    BY <1>0, <1>3, <2>5, <2>7, GoesOnKeeps
<1> QED
  BY <1>0, <1>2, <1>3

\* What is read from the chain is what the batch is about, while its last block is canonical.
LEMMA LogsInFetched ==
  ASSUME ChainInv, tick \in Ticks, BatchInv, Indexer!Canonical(tick.to, tick.before)
  PROVE  /\ Indexer!LogsIn(Indexer!From, tick.to) = Fetched
         /\ chain[tick.to] = tick.before /\ SubSeq(chain, 1, tick.to) = branch[tick.before]
<1>1. /\ tick.to \in Nat /\ Indexer!From \in Nat \ {0} /\ Indexer!From <= tick.to
      /\ tick.to <= Len(chain) /\ chain[tick.to] = tick.before
      /\ chain \in Seq(Blocks)
  <2>1. tick.to \in Nat /\ tick.index.cursor \in Nat
    BY DEF Ticks, Indexes
  <2>2. tick.to \in Indexer!From..Indexer!From + BatchSize - 1
    BY DEF BatchInv
  <2>3. Indexer!From \in Nat \ {0} /\ Indexer!From <= tick.to
    BY <2>1, <2>2, IndexerAssumption DEF Indexer!From
  <2>4. tick.to <= Len(chain) /\ chain[tick.to] = tick.before
    BY DEF Indexer!Canonical
  <2>5. chain \in Seq(Blocks)
    BY DEF ChainInv, Rooted
  <2> QED
    BY <2>1, <2>3, <2>4, <2>5
<1>2. SubSeq(chain, 1, tick.to) = branch[tick.before]
  BY <1>1, ChainPrefix
<1>3. PICK f, t \in Nat : f = Indexer!From /\ t = tick.to
  BY <1>1
<1>4. SubSeq(SubSeq(chain, 1, t), f, t) = SubSeq(chain, f, t)
  BY <1>1, <1>3
<1>5. Indexer!LogsIn(Indexer!From, tick.to) = Indexer!LogsOf(SubSeq(chain, f, t))
  <2>1. (IF t < Len(chain) THEN t ELSE Len(chain)) = t
    BY <1>1, <1>3
  <2> QED
    BY <1>3, <2>1 DEF Indexer!LogsIn
<1> QED
  BY <1>1, <1>2, <1>3, <1>4, <1>5 DEF Fetched

LEMMA FetchedLogs ==
  ASSUME ChainInv, tick \in Ticks, BatchInv
  PROVE  Fetched \in SUBSET Log /\ Ordered(Fetched)
         /\ Fetched = {s \in Indexer!LogsOf(branch[tick.before]) :
                         Indexer!From <= s.block /\ s.block <= tick.to}
<1>1. tick.before \in Blocks /\ tick.to \in 0..Len(branch[tick.before]) /\ Indexer!From \in Nat \ {0}
  BY IndexerAssumption DEF BatchInv, Ticks, Indexes, Indexer!From
<1>2. Fetched = {s \in Indexer!LogsOf(branch[tick.before]) :
                   Indexer!From <= s.block /\ s.block <= tick.to}
  BY <1>1, LogsWithin DEF Fetched
<1>3. Ordered(Indexer!LogsOf(branch[tick.before]))
  BY <1>1, OrderedBranch
<1>4. Fetched \in SUBSET Indexer!LogsOf(branch[tick.before])
  BY <1>2
<1>5. Ordered(Fetched)
  BY <1>3, <1>4, OrderedPart
<1> QED
  BY <1>2, <1>5 DEF Ordered

\* The logs that a step reads are logs, whatever the chain has become.
LEMMA LogsInTyped ==
  ASSUME ChainInv, tick \in Ticks, NEW from \in Nat \ {0}, NEW to \in Nat
  PROVE  Indexer!LogsIn(from, to) \in SUBSET Log
<1>1. chain \in Seq(Blocks) /\ \A b \in Blocks : logs[b] \in SUBSET Log
  <2>1. chain \in Seq(Blocks)
    BY DEF ChainInv, Rooted
  <2>2. logs \in Seq(SUBSET Log)
    BY DEF ChainInv
  <2>3. \A b \in Blocks : logs[b] \in SUBSET Log
    BY <2>2 DEF Blocks
  <2> QED
    BY <2>1, <2>3
<1>2. PICK n \in 0..Len(chain) : n = IF to < Len(chain) THEN to ELSE Len(chain)
  BY <1>1
<1>3. PICK w \in Seq(Blocks) : w = SubSeq(chain, from, n)
  BY <1>1, Part
<1>4. \A k \in DOMAIN w : w[k] \in Blocks
  BY <1>3
<1>5. Indexer!LogsOf(w) \in SUBSET Log
  BY <1>1, <1>4, LogsOfIs
<1> QED
  BY <1>2, <1>3, <1>5 DEF Indexer!LogsIn

LEMMA ReadLogsKeeps ==
  ASSUME IndexerInv, Indexer!ReadListed \/ Indexer!ReadOthers
  PROVE  IndexerInv'
<1>0. /\ tick.at \in {"listed", "others"} /\ UNCHANGED <<chain, branch, logs, index, rows>>
  BY DEF Indexer!ReadListed, Indexer!ReadOthers, Indexer!chainVars
<1>1. tick \in Ticks /\ ChainInv /\ BatchInv
  BY <1>0, TickIsOn
<1>2. PICK X \in SUBSET Log : X = Indexer!LogsIn(Indexer!From, tick.to)
  <2>1. Indexer!From \in Nat \ {0} /\ tick.to \in Nat
    BY <1>1 DEF Ticks, Indexes, Indexer!From
  <2> QED
    BY <1>1, <2>1, LogsInTyped
<1>3. Indexer!Canonical(tick.to, tick.before) => X = Fetched
  BY <1>1, <1>2, LogsInFetched
<1>4. \/ /\ tick.at = "listed"
         /\ tick' = [tick EXCEPT !.at = "others", !.listed = {s \in X : s.event.type = "Listed"}]
      \/ /\ tick.at = "others"
         /\ tick' = [tick EXCEPT !.at = "after", !.others = {s \in X : s.event.type # "Listed"}]
  BY <1>2 DEF Indexer!ReadListed, Indexer!ReadOthers
<1>5. /\ tick' \in Ticks /\ tick'.index = tick.index /\ tick'.rows = tick.rows
      /\ tick'.rebuild = tick.rebuild /\ tick'.to = tick.to /\ tick'.before = tick.before
      /\ \/ tick.at = "listed" /\ tick'.at = "others" /\ tick'.listed = {s \in X : s.event.type = "Listed"}
         \/ /\ tick.at = "others" /\ tick'.at = "after" /\ tick'.listed = tick.listed
            /\ tick'.others = {s \in X : s.event.type # "Listed"}
  <2> PICK x, y \in SUBSET Log : /\ x = {s \in X : s.event.type = "Listed"}
                                 /\ y = {s \in X : s.event.type # "Listed"}
    OBVIOUS
  <2>1. CASE tick.at = "listed"
    <3>1. tick' = [tick EXCEPT !.at = "others", !.listed = x]
      BY <1>4, <2>1
    <3> QED
      BY <1>1, <2>1, <3>1 DEF Ticks
  <2>2. CASE tick.at = "others"
    <3>1. tick' = [tick EXCEPT !.at = "after", !.others = y]
      BY <1>4, <2>2
    <3> QED
      BY <1>1, <2>2, <3>1 DEF Ticks
  <2> QED
    BY <1>4, <2>1, <2>2
<1>6. /\ Indexer!From' = Indexer!From /\ Blocks' = Blocks /\ branch' = branch
      /\ Fetched' = Fetched
      /\ Indexer!Canonical(tick.to, tick.before)' <=> Indexer!Canonical(tick.to, tick.before)
  BY <1>0, <1>5 DEF Indexer!From, Blocks, Fetched, Indexer!LogsOf, Indexer!Canonical
<1>7. BatchInv'
  BY <1>1, <1>3, <1>5, <1>6 DEF BatchInv
<1> QED
  BY <1>0, <1>5, <1>7, GoesOnKeeps

LEMMA StutterKeeps ==
  ASSUME IndexerInv, UNCHANGED <<chain, branch, logs, index, rows, tick>>
  PROVE  IndexerInv'
<1>1. CASE tick = Indexer!Idle
  BY <1>1, CommitsKeeps DEF IndexerInv, Indexer!Commits
<1>2. CASE tick # Indexer!Idle
  <2>1. BatchInv => BatchInv'
    <3>1. /\ Indexer!From' = Indexer!From /\ Blocks' = Blocks /\ Fetched' = Fetched
          /\ Indexer!Canonical(tick.to, tick.before)' <=> Indexer!Canonical(tick.to, tick.before)
      BY DEF Indexer!From, Blocks, Fetched, Indexer!LogsOf, Indexer!Canonical
    <3> QED
      BY <3>1 DEF BatchInv
  <2>2. /\ tick \in Ticks /\ IndexInv(tick.index) /\ RowsInv(tick.index, tick.rows)
        /\ tick.index.status # "rebuild_required"
        /\ ~tick.rebuild => tick.index.status \in {"none", "active"}
        /\ tick.at = "search" => tick.index.cursor # 0
        /\ tick.at \in {"listed", "others", "after"} => BatchInv
    BY <1>2 DEF IndexerInv, TickInv
  <2> QED
    BY <2>1, <2>2, TickingKeeps
<1> QED
  BY <1>1, <1>2

LEMMA FailureKeeps ==
  ASSUME IndexerInv,
         \/ Indexer!SearchFails \/ Indexer!ReadFails \/ Indexer!Crash \/ Indexer!Reset \/ Indexer!Refused
  PROVE  IndexerInv'
<1>1. CASE Indexer!SearchFails \/ Indexer!ReadFails
  BY <1>1, StagedKeeps DEF Indexer!SearchFails, Indexer!ReadFails, Indexer!chainVars
<1>2. CASE Indexer!Crash
  <2>1. UNCHANGED <<chain, branch, logs>> /\ Indexer!Commits(index, rows)
    BY <1>2 DEF Indexer!Crash, Indexer!chainVars, Indexer!Commits
  <2> QED
    BY <2>1, CommitsKeeps DEF IndexerInv
<1>3. CASE Indexer!Reset
  <2>1. /\ tick.at = "idle" /\ index' = Indexer!Emptied("catching_up")
        /\ rows' = Indexer!Quarantined(rows) /\ UNCHANGED <<chain, branch, logs, tick>>
    BY <1>3 DEF Indexer!Reset, Indexer!chainVars
  <2>2. tick = Indexer!Idle
    BY <2>1 DEF IndexerInv, TickInv, Ticks
  <2>3. IndexInv(Indexer!Emptied("catching_up"))
    <3>1. Ordered({})
      BY FS_EmptySet DEF Ordered
    <3> QED
      BY <3>1, NothingFollowed
         DEF IndexInv, Indexer!Emptied, Indexes, Statuses, Followed, Indexer!Above
  <2>4. RowsInv(Indexer!Emptied("catching_up"), Indexer!Quarantined(rows))
    BY QuarantineFacts DEF IndexerInv, RowsInv, Indexer!Emptied
  <2> QED
    BY <2>1, <2>2, <2>3, <2>4, CommitsKeeps DEF Indexer!Commits, IndexerInv
<1>4. CASE Indexer!Refused
  <2>1. UNCHANGED <<chain, branch, logs, index, rows, tick>>
    BY <1>4 DEF Indexer!Refused, Indexer!vars, Indexer!chainVars
  <2> QED
    BY <2>1, StutterKeeps
<1> QED
  BY <1>1, <1>2, <1>3, <1>4

\* Checkpoints that end a branch still do after the oldest are dropped.
Ends(t, w) ==
  /\ t \in Seq(Nat) /\ Len(t) \in 1..Len(w)
  /\ \A l \in 1..Len(t) : t[l] = w[Len(w) - Len(t) + l]

LEMMA TailEnds ==
  ASSUME NEW w \in Seq(Nat), NEW t, Ends(t, w), NEW n \in Nat \ {0}, Len(t) > n
  PROVE  Ends(SubSeq(t, Len(t) - n + 1, Len(t)), w)
<1>1. PICK size, last \in Nat : size = Len(t) /\ last = Len(w)
  BY DEF Ends
<1>2. /\ t \in Seq(Nat) /\ size \in 1..last
      /\ \A l \in 1..size : t[l] = w[last - size + l]
  BY <1>1 DEF Ends
<1>3. PICK tail : tail = SubSeq(t, size - n + 1, size)
  OBVIOUS
<1>4. /\ tail \in Seq(Nat) /\ Len(tail) = n
      /\ \A l \in 1..n : tail[l] = t[size - n + l]
  <2>1. PICK m \in Nat \ {0} : m = size - n + 1
    <3>1. size - n + 1 \in Nat \ {0}
      BY <1>1
    <3> QED
      BY <3>1
  <2>2. /\ tail \in Seq(Nat) /\ (Len(tail) = IF m <= size THEN size - m + 1 ELSE 0)
        /\ \A l \in 1..Len(tail) : tail[l] = t[m + l - 1]
    <3>1. size \in 0..Len(t)
      BY <1>1
    <3>2. /\ SubSeq(t, m, size) \in Seq(Nat)
          /\ (Len(SubSeq(t, m, size)) = IF m <= size THEN size - m + 1 ELSE 0)
          /\ \A l \in 1..Len(SubSeq(t, m, size)) : SubSeq(t, m, size)[l] = t[m + l - 1]
      BY ONLY <1>2, <2>1, <3>1, Part
    <3> QED
      BY <1>3, <2>1, <3>2
  <2>3. Len(tail) = n
    BY <1>1, <2>1, <2>2
  <2>4. \A l \in 1..n : m + l - 1 = size - n + l
    BY <1>1, <2>1
  <2> QED
    BY <2>2, <2>3, <2>4
<1>5. ASSUME NEW l \in 1..n PROVE tail[l] = w[last - n + l]
  <2>0. l \in 1..n /\ size \in Nat /\ last \in Nat
    OBVIOUS
  <2>1. n \in Nat /\ n < size
    BY <1>1
  <2>2. size - n + l \in 1..size /\ last - size + (size - n + l) = last - n + l
    BY ONLY <2>0, <2>1
  <2> QED
    BY ONLY <1>2, <1>4, <2>0, <2>2
<1>6. n \in 1..last
  BY <1>1, <1>2
<1>7. /\ tail \in Seq(Nat) /\ Len(tail) \in 1..Len(w)
      /\ \A l \in 1..Len(tail) : tail[l] = w[Len(w) - Len(tail) + l]
  BY ONLY <1>1, <1>4, <1>5, <1>6
<1>8. tail = SubSeq(t, Len(t) - n + 1, Len(t))
  BY <1>1, <1>3
<1> QED
  BY ONLY <1>7, <1>8 DEF Ends

\* and before the headers of the next blocks are added.
LEMMA HeadersEnd ==
  ASSUME NEW w \in Seq(Nat), NEW c \in 0..Len(w), c < Len(w), NEW t \in Seq(Nat),
         IF c = 0 THEN t = <<>> ELSE Ends(t, SubSeq(w, 1, c))
  PROVE  Ends(t \o SubSeq(w, c + 1, Len(w)), w)
<1>1. PICK size, last \in Nat : size = Len(t) /\ last = Len(w)
  OBVIOUS
<1>2. /\ size \in 0..c /\ \A l \in 1..size : t[l] = w[c - size + l]
  <2>1. CASE c = 0
    BY <1>1, <2>1
  <2>2. CASE c # 0
    <3>1. Len(SubSeq(w, 1, c)) = c /\ \A k \in 1..c : SubSeq(w, 1, c)[k] = w[k]
      BY Prefix
    <3>2. size \in 1..c /\ \A l \in 1..size : t[l] = SubSeq(w, 1, c)[c - size + l]
      BY <1>1, <2>2, <3>1 DEF Ends
    <3>3. \A l \in 1..size : c - size + l \in 1..c
      BY <3>2
    <3> QED
      BY <3>1, <3>2, <3>3
  <2> QED
    BY <2>1, <2>2
<1>3. PICK h : h = SubSeq(w, c + 1, Len(w))
  OBVIOUS
<1>4. h \in Seq(Nat) /\ Len(h) = last - c /\ \A k \in 1..last - c : h[k] = w[c + k]
  <2>1. PICK m \in Nat \ {0} : m = c + 1
    <3>1. c + 1 \in Nat \ {0}
      OBVIOUS
    <3> QED
      BY <3>1
  <2>2. w \in Seq(Nat) /\ last \in 0..Len(w) /\ c < last /\ c \in Nat /\ h = SubSeq(w, m, last)
    BY <1>1, <1>3, <2>1
  <2>3. /\ h \in Seq(Nat) /\ (Len(h) = IF m <= last THEN last - m + 1 ELSE 0)
        /\ \A l \in 1..Len(h) : h[l] = w[m + l - 1]
    BY ONLY <2>1, <2>2, Part
  <2> QED
    BY ONLY <1>1, <2>1, <2>2, <2>3
<1>5. PICK all : all = t \o h
  OBVIOUS
<1>6. PICK sum \in Nat : sum = size + (last - c)
  <2>1. size + (last - c) \in Nat
    BY <1>1
  <2> QED
    BY <2>1
<1>7. /\ all \in Seq(Nat) /\ Len(all) = sum
      /\ \A l \in 1..size : all[l] = t[l]
      /\ \A l \in size + 1..sum : all[l] = h[l - size]
  <2>1. /\ t \o h \in Seq(Nat) /\ Len(t \o h) = Len(t) + Len(h)
        /\ \A l \in 1..Len(t) : (t \o h)[l] = t[l]
        /\ \A l \in Len(t) + 1..Len(t) + Len(h) : (t \o h)[l] = h[l - Len(t)]
    BY <1>4, Join
  <2>2. Len(t) = size /\ Len(t) + Len(h) = sum
    BY <1>1, <1>4, <1>6
  <2> QED
    BY <1>5, <2>1, <2>2
<1>8. ASSUME NEW l \in 1..sum PROVE all[l] = w[last - sum + l]
  <2>1. last - sum + l = c - size + l
    BY <1>1, <1>2, <1>6
  <2>2. CASE l \in 1..size
    BY <1>2, <1>7, <2>1, <2>2
  <2>3. CASE l \in size + 1..sum
    <3>1. l - size \in 1..last - c /\ c + (l - size) = c - size + l
      BY <1>1, <1>2, <1>6, <2>3
    <3> QED
      BY <1>4, <1>7, <2>1, <2>3, <3>1
  <2> QED
    BY <1>1, <1>2, <1>6, <2>2, <2>3
<1>9. sum \in 1..last
  BY <1>1, <1>2, <1>6
<1> QED
  BY <1>1, <1>3, <1>5, <1>7, <1>8, <1>9 DEF Ends

\* and so do the headers that begin a new window.
LEMMA PartEnds ==
  ASSUME NEW w \in Seq(Nat), NEW f \in 1..Len(w)
  PROVE  Ends(<<>> \o SubSeq(w, f, Len(w)), w)
<1>1. PICK last \in Nat : last = Len(w)
  OBVIOUS
<1>2. PICK h : h = SubSeq(w, f, last)
  OBVIOUS
<1>3. f \in Nat \ {0} /\ f <= last
  BY <1>1
<1>4. h \in Seq(Nat) /\ Len(h) = last - f + 1 /\ \A k \in 1..last - f + 1 : h[k] = w[f + k - 1]
  <2>1. last \in 0..Len(w)
    BY <1>1
  <2>2. /\ h \in Seq(Nat) /\ (Len(h) = IF f <= last THEN last - f + 1 ELSE 0)
        /\ \A k \in 1..Len(h) : h[k] = w[f + k - 1]
    BY ONLY <1>2, <1>3, <2>1, w \in Seq(Nat), Part
  <2> QED
    BY ONLY <1>3, <2>2
<1>5. <<>> \o h = h
  BY <1>4
<1>6. Len(h) \in 1..last
  BY <1>1, <1>3, <1>4
<1>7. \A k \in 1..Len(h) : last - Len(h) + k = f + k - 1
  BY <1>1, <1>3, <1>4
<1> QED
  BY <1>1, <1>2, <1>4, <1>5, <1>6, <1>7 DEF Ends

\* A batch that is finished: it begins where the index stands, and ends on the branch of its last
\* block.
Completes ==
  /\ IndexerInv
  /\ tick.at = "after" /\ tick.to <= Len(chain) /\ Indexer!Snapshot /\ Indexer!Continues

LEMMA CompletesFacts ==
  ASSUME Completes
  PROVE  /\ tick \in Ticks /\ ChainInv /\ BatchInv /\ IndexInv(tick.index) /\ Indexer!Batch = Fetched
         /\ tick.index.cursor \in Nat /\ Indexer!From = tick.index.cursor + 1
         /\ tick.index.cursor < tick.to /\ tick.to \in Nat
         /\ tick.before \in Blocks /\ Len(branch[tick.before]) = tick.to
         /\ Indexer!First \in Nat /\ Indexer!From <= Indexer!First /\ Indexer!First <= tick.to
         /\ Indexer!First > Indexer!From => BatchSize > Window
         /\ SubSeq(chain, Indexer!First, tick.to)
              = SubSeq(branch[tick.before], Indexer!First, tick.to)
         /\ Indexer!Linked =>
              Followed(tick.index) = SubSeq(branch[tick.before], 1, tick.index.cursor)
<1>1. tick \in Ticks /\ ChainInv /\ BatchInv /\ IndexInv(tick.index)
  BY TickIsOn DEF Completes
<1>2. /\ tick.index.cursor \in Nat /\ Indexer!From = tick.index.cursor + 1 /\ tick.to \in Nat
      /\ tick.to \in Indexer!From..Indexer!From + BatchSize - 1
      /\ tick.before \in Blocks /\ Len(branch[tick.before]) = tick.to
  BY <1>1 DEF Ticks, Indexes, Indexer!From, BatchInv
<1>3. Indexer!Canonical(tick.to, tick.before)
  BY DEF Completes, Indexer!Snapshot
<1>4. Indexer!Batch = Fetched
  BY <1>1, <1>3 DEF Completes, BatchInv, Indexer!Batch
<1>5. /\ Indexer!First \in Nat /\ Indexer!From <= Indexer!First /\ Indexer!First <= tick.to
      /\ Indexer!First > Indexer!From => BatchSize > Window
  <2>1. PICK f, t : f = Indexer!From /\ t = tick.to
    OBVIOUS
  <2>2. f \in Nat \ {0} /\ t \in Nat /\ f <= t /\ t <= f + BatchSize - 1
    BY <1>2, <2>1, IndexerAssumption
  <2>3. Indexer!First = IF t - Window + 1 > f THEN t - Window + 1 ELSE f
    BY <2>1 DEF Indexer!First
  <2> QED
    BY <2>1, <2>2, <2>3, IndexerAssumption
<1>6. SubSeq(chain, 1, tick.to) = branch[tick.before]
  BY <1>1, <1>3, LogsInFetched
<1>7. PICK c, t \in Nat : c = tick.index.cursor /\ t = tick.to /\ c < t
  BY <1>2
<1>8. chain \in Seq(Blocks) /\ t <= Len(chain)
  BY <1>1, <1>7 DEF ChainInv, Rooted, Completes
<1>9. /\ SubSeq(SubSeq(chain, 1, t), Indexer!First, t) = SubSeq(chain, Indexer!First, t)
      /\ SubSeq(SubSeq(chain, 1, t), 1, c) = SubSeq(chain, 1, c)
  <2>1. t \in 0..Len(chain) /\ t \in 0..t /\ c \in 0..t /\ Indexer!First \in Nat \ {0}
    BY <1>2, <1>5, <1>7, <1>8
  <2> QED
    BY <1>8, <2>1, PartOfPrefix
<1>10. ASSUME Indexer!Linked
       PROVE  Followed(tick.index) = SubSeq(chain, 1, c)
  <2>1. CASE c = 0
    <3>1. SubSeq(chain, 1, 0) = <<>>
      BY <1>8
    <3> QED
      BY <1>7, <2>1, <3>1, NothingFollowed
  <2>2. CASE c # 0
    <3>1. PICK b \in Blocks : Follows(tick.index, b)
      BY <1>1, <1>7, <2>2 DEF IndexInv
    <3>2. /\ tick.index.checkpoints # <<>> /\ Followed(tick.index) = branch[b]
          /\ tick.index.checkpoints[Len(tick.index.checkpoints)] = b
      BY <1>1, <1>7, <2>2, <3>1, FollowsLast DEF IndexInv
    <3>3. chain[Indexer!From - 1] = b
      BY <1>10, <3>2 DEF Indexer!Linked
    <3>4. chain[c] = b /\ c \in 1..Len(chain)
      BY <1>2, <1>7, <1>8, <2>2, <3>3
    <3> QED
      BY <1>1, <3>2, <3>4, ChainPrefix
  <2> QED
    BY <2>1, <2>2
<1>11. SubSeq(chain, Indexer!First, tick.to) = SubSeq(branch[tick.before], Indexer!First, tick.to)
  BY <1>6, <1>7, <1>9
<1>12. Indexer!Linked => Followed(tick.index) = SubSeq(branch[tick.before], 1, c)
  BY <1>6, <1>7, <1>9, <1>10
<1> QED
  BY <1>1, <1>2, <1>4, <1>5, <1>7, <1>11, <1>12

\* The index after a batch.
Advanced(s) ==
  [status |-> s, cursor |-> tick.to, stored |-> tick.index.stored \cup Indexer!Batch,
   overlooked |-> Indexer!Overlooked,
   checkpoints |-> Indexer!CheckpointTail(tick.index.checkpoints, SubSeq(chain, Indexer!First, tick.to))]

LEMMA CheckpointsEnd ==
  ASSUME Completes
  PROVE  Ends(Advanced("active").checkpoints, branch[tick.before])
<1> DEFINE i == tick.index
           w == branch[tick.before]
           headers == SubSeq(chain, Indexer!First, tick.to)
           kept == IF Indexer!First > Indexer!From THEN <<>> ELSE i.checkpoints
           all == kept \o headers
<1>1. /\ ChainInv /\ IndexInv(i) /\ i.cursor \in Nat /\ i.cursor < tick.to /\ tick.to \in Nat
      /\ tick.before \in Blocks /\ Len(w) = tick.to
      /\ Indexer!First \in Nat /\ Indexer!From <= Indexer!First /\ Indexer!First <= tick.to
      /\ Indexer!From = i.cursor + 1
      /\ headers = SubSeq(w, Indexer!First, Len(w))
      /\ Indexer!Linked => Followed(i) = SubSeq(w, 1, i.cursor)
  <2>1. SubSeq(w, Indexer!First, Len(w)) = SubSeq(w, Indexer!First, tick.to)
    BY CompletesFacts
  <2>2. headers = SubSeq(w, Indexer!First, tick.to)
    BY CompletesFacts
  <2> QED
    BY <2>1, <2>2, CompletesFacts
<1>2. i.checkpoints \in Seq(Nat) /\ w \in Seq(Nat)
  <2>1. i \in Indexes
    BY <1>1 DEF IndexInv
  <2>2. branch \in Seq(Seq(Nat)) /\ tick.before \in 1..Len(branch)
    BY <1>1 DEF ChainInv, Blocks
  <2>3. w \in Seq(Nat)
    BY ONLY <2>2
  <2> QED
    BY <2>1, <2>3 DEF Indexes
<1>3. ASSUME Indexer!Linked
      PROVE  IF i.cursor = 0 THEN i.checkpoints = <<>> ELSE Ends(i.checkpoints, SubSeq(w, 1, i.cursor))
  <2>1. CASE i.cursor = 0
    BY <1>1, <2>1 DEF IndexInv
  <2>2. CASE i.cursor # 0
    <3>1. PICK b \in Blocks : Follows(i, b)
      BY <1>1, <2>2 DEF IndexInv
    <3>2. branch[b] = SubSeq(w, 1, i.cursor)
      BY <1>1, <1>3, <2>2, <3>1, FollowsLast DEF IndexInv
    <3>3. Ends(i.checkpoints, branch[b])
      BY <1>2, <3>1 DEF Follows, Ends
    <3> QED
      BY <2>2, <3>2, <3>3
  <2> QED
    BY <2>1, <2>2
<1>4. Ends(all, w)
  <2>1. CASE Indexer!First > Indexer!From
    <3>1. Indexer!First \in 1..Len(w)
      BY <1>1
    <3>2. Ends(<<>> \o SubSeq(w, Indexer!First, Len(w)), w)
      BY <1>2, <3>1, PartEnds
    <3>3. all = <<>> \o SubSeq(w, Indexer!First, Len(w))
      BY <1>1, <2>1
    <3> QED
      BY <3>2, <3>3
  <2>2. CASE ~(Indexer!First > Indexer!From)
    <3>1. Indexer!Linked
      BY <2>2 DEF Completes, Indexer!Continues
    <3>2. i.cursor \in 0..Len(w) /\ i.cursor < Len(w)
      BY <1>1
    <3>3. Ends(i.checkpoints \o SubSeq(w, i.cursor + 1, Len(w)), w)
      BY <1>2, <1>3, <3>1, <3>2, HeadersEnd
    <3>4. Indexer!First = i.cursor + 1
      BY <1>1, <2>2
    <3>5. all = i.checkpoints \o SubSeq(w, i.cursor + 1, Len(w))
      BY <1>1, <2>2, <3>4
    <3> QED
      BY <3>3, <3>5
  <2> QED
    BY <2>1, <2>2
<1>5. Advanced("active").checkpoints
        = IF Len(all) > Window THEN SubSeq(all, Len(all) - Window + 1, Len(all)) ELSE all
  BY DEF Advanced, Indexer!CheckpointTail
<1> HIDE DEF all, kept, w, headers, i
<1> QED
  BY <1>2, <1>4, <1>5, TailEnds, IndexerAssumption DEF w

LEMMA OrderedUnion ==
  ASSUME NEW S, Ordered(S), NEW T, Ordered(T), \A x \in S, y \in T : x.block # y.block
  PROVE  Ordered(S \cup T)
<1>1. IsFiniteSet(S \cup T)
  BY FS_Union DEF Ordered
<1> QED
  BY <1>1 DEF Ordered

LEMMA AdvancedInv ==
  ASSUME Completes, NEW s \in {"active", "catching_up"}
  PROVE  /\ IndexInv(Advanced(s)) /\ Advanced(s).status = s
         /\ Truth(Advanced(s)) = Indexer!Replay(Truth(tick.index), Indexer!Batch)
<1> PICK j : j = Advanced(s)
  OBVIOUS
<1> PICK i : i = tick.index
  OBVIOUS
<1> PICK c, t : c = i.cursor /\ t = tick.to
  OBVIOUS
<1> PICK b : b = tick.before
  OBVIOUS
<1> PICK all : all = Indexer!LogsOf(branch[b])
  OBVIOUS
<1>1. /\ ChainInv /\ IndexInv(i) /\ Indexer!Batch = Fetched /\ c \in Nat /\ Indexer!From = c + 1
      /\ tick \in Ticks /\ BatchInv
      /\ c < t /\ t \in Nat /\ b \in Blocks /\ Len(branch[b]) = t
      /\ Indexer!First > Indexer!From => BatchSize > Window
      /\ Indexer!Linked => Followed(i) = SubSeq(branch[b], 1, c)
  BY CompletesFacts
<1>2. /\ j.status = s /\ j.cursor = t /\ j.stored = i.stored \cup Fetched
      /\ j.overlooked = Indexer!Overlooked
      /\ Ends(j.checkpoints, branch[b])
  BY <1>1, CheckpointsEnd DEF Advanced
<1>3. Follows(j, b) /\ j.cursor # 0
  <2>1. j.cursor \in Nat /\ j.cursor = Len(branch[b]) /\ j.cursor # 0
    BY <1>1, <1>2
  <2>2. PICK size \in Nat : size = Len(j.checkpoints)
    BY <1>2 DEF Ends
  <2>3. size \in 1..t /\ \A k \in 1..size : j.checkpoints[k] = branch[b][t - size + k]
    BY <1>1, <1>2, <2>2 DEF Ends
  <2>4. b \in Blocks
    BY <1>1
  <2> QED
    BY ONLY <1>1, <1>2, <2>1, <2>2, <2>3, <2>4 DEF Follows
<1>4. i.overlooked \in Nat /\ i.stored \in SUBSET Log /\ j.overlooked \in Nat
  BY <1>1, <1>2 DEF IndexInv, Indexes, Indexer!Overlooked
<1>5. j \in Indexes
  <2>1. j.checkpoints \in Seq(Nat)
    BY <1>2 DEF Ends
  <2>2. j.stored \in SUBSET Log
    BY <1>1, <1>2, <1>4, FetchedLogs
  <2> QED
    BY <1>1, <1>2, <1>4, <2>1, <2>2 DEF Advanced, Indexes, Statuses
<1>6. Followed(j) = branch[b]
  BY <1>1, <1>3, <1>5, FollowsLast
<1>7. /\ Ordered(all) /\ all \in SUBSET Log
      /\ Ordered(Fetched) /\ Fetched = {x \in all : c + 1 <= x.block /\ x.block <= t}
      /\ Ordered(i.stored) /\ i.stored \in SUBSET Log /\ \A x \in i.stored : x.block <= c
  BY <1>1, <1>4, OrderedBranch, FetchedLogs DEF Ordered, IndexInv
<1>8. \A x \in Log : x.block \in Nat
  BY DEF Log
<1>9. \A n \in 0..t : Indexer!LogsOf(SubSeq(branch[b], 1, n))
                        = {x \in all : 1 <= x.block /\ x.block <= n}
  <2> TAKE n \in 0..t
  <2>1. n \in 0..Len(branch[b]) /\ 1 \in Nat \ {0} /\ b \in Blocks
    BY <1>1
  <2>2. ChainInv
    BY <1>1
  <2>3. Indexer!LogsOf(SubSeq(branch[b], 1, n))
          = {x \in Indexer!LogsOf(branch[b]) : 1 <= x.block /\ x.block <= n}
    BY ONLY <2>1, <2>2, LogsWithin
  <2> QED
    BY <2>3
<1>10. \A x \in all : x.block <= t
  <2>1. SubSeq(branch[b], 1, t) = branch[b] /\ t \in 0..t
    BY <1>1 DEF ChainInv, Rooted
  <2> QED
    BY <1>9, <2>1
<1>11. Ordered(j.stored) /\ \A x \in j.stored : x.block <= t
  <2>1. \A x \in i.stored, y \in Fetched : x.block # y.block
    BY <1>1, <1>7, <1>8
  <2>2. \A x \in j.stored : x.block <= t
    BY <1>1, <1>2, <1>7, <1>8
  <2> QED
    BY <1>2, <1>7, <2>1, <2>2, OrderedUnion
<1>12. Indexer!Above(j.stored, j.overlooked) = Indexer!Above(all, j.overlooked)
  <2>1. CASE Indexer!Linked
    <3>1. j.overlooked = i.overlooked
      BY <1>2, <2>1 DEF Indexer!Overlooked
    <3>2. Indexer!LogsOf(Followed(i)) = {x \in all : 1 <= x.block /\ x.block <= c}
      <4>1. c \in 0..t
        BY <1>1
      <4> QED
        BY <1>1, <1>9, <2>1, <4>1
    <3>3. Indexer!Above(i.stored, i.overlooked)
            = Indexer!Above({x \in all : 1 <= x.block /\ x.block <= c}, i.overlooked)
      BY <1>1, <3>2 DEF IndexInv
    <3> QED
      BY <1>1, <1>2, <1>4, <1>7, <1>8, <1>10, <3>1, <3>3 DEF Indexer!Above
  <2>2. CASE ~Indexer!Linked
    <3>1. j.overlooked = c
      BY <1>2, <2>2 DEF Indexer!Overlooked
    <3> QED
      BY <1>1, <1>2, <1>7, <1>8, <1>10, <3>1 DEF Indexer!Above
  <2> QED
    BY <2>1, <2>2
<1>13. BatchSize <= Window => j.overlooked = 0
  <2> SUFFICES ASSUME BatchSize <= Window PROVE j.overlooked = 0
    OBVIOUS
  <2>1. ~(Indexer!First > Indexer!From)
    BY <1>1, IndexerAssumption
  <2>2. Indexer!Linked
    BY <2>1 DEF Completes, Indexer!Continues
  <2> QED
    BY <1>1, <1>2, <2>2 DEF Indexer!Overlooked, IndexInv
<1>14. IndexInv(j)
  BY <1>1, <1>2, <1>3, <1>5, <1>6, <1>11, <1>12, <1>13 DEF IndexInv
<1>15. Indexer!Replay(Indexer!Unlisted, i.stored \cup Fetched)
         = Indexer!Replay(Indexer!Replay(Indexer!Unlisted, i.stored), Fetched)
  <2>1. \A x \in i.stored, y \in Fetched : Indexer!Precedes(x, y)
    BY <1>1, <1>7, <1>8 DEF Indexer!Precedes
  <2> QED
    BY <1>2, <1>11, <2>1, ReplaySplit
<1> QED
  BY <1>1, <1>2, <1>14, <1>15 DEF Truth

LEMMA FinishKeeps ==
  ASSUME IndexerInv, Indexer!Finish
  PROVE  IndexerInv'
<1>0. tick.at = "after" /\ UNCHANGED <<chain, branch, logs>>
  BY DEF Indexer!Finish, Indexer!chainVars
<1>1. CASE Indexer!CommitsStaged
  BY <1>0, <1>1, StagedKeeps
<1>2. CASE tick.to <= Len(chain) /\ Indexer!Snapshot /\ Indexer!Continues
  <2>1. Completes
    BY <1>0, <1>2 DEF Completes
  <2>2. /\ tick \in Ticks /\ ChainInv /\ IndexInv(tick.index) /\ RowsInv(tick.index, tick.rows)
        /\ ~tick.rebuild => tick.index.status \in {"none", "active"}
    BY <1>0, TickIsOn
  <2>3. Ordered(Indexer!Batch)
    BY <2>1, CompletesFacts, FetchedLogs
  <2>4. CASE tick.to < tick.confirmed
    <3>1. Indexer!Commits(Advanced("catching_up"), Indexer!CatchingUp(tick.rows))
      BY <1>2, <2>4 DEF Indexer!Finish, Advanced
    <3>2. Ordered({s \in Indexer!Batch : s.event.type = "Listed"})
      BY <2>3, OrderedPart
    <3>3. /\ Kept(Indexer!CatchingUp(tick.rows)) /\ Unapproved(Indexer!CatchingUp(tick.rows))
      BY <2>2, <3>2, ReplayKeeps, QuarantineFacts DEF RowsInv, Indexer!CatchingUp
    <3>4. IndexInv(Advanced("catching_up")) /\ Advanced("catching_up").status = "catching_up"
      BY <2>1, AdvancedInv
    <3>5. RowsInv(Advanced("catching_up"), Indexer!CatchingUp(tick.rows))
      BY <3>3, <3>4 DEF RowsInv
    <3> QED
      BY <1>0, <2>2, <3>1, <3>4, <3>5, CommitsKeeps
  <2>5. CASE ~(tick.to < tick.confirmed)
    <3> PICK table : table = IF tick.rebuild
                             THEN Indexer!Rebuilt(tick.rows, tick.index.stored \cup Indexer!Batch)
                             ELSE Indexer!Replay(tick.rows, Indexer!Batch)
      OBVIOUS
    <3>1. Indexer!Commits(Advanced("active"), table)
      BY <1>2, <2>5 DEF Indexer!Finish, Advanced
    <3>2. /\ IndexInv(Advanced("active")) /\ Advanced("active").status = "active"
          /\ Truth(Advanced("active")) = Indexer!Replay(Truth(tick.index), Indexer!Batch)
      BY <2>1, AdvancedInv
    <3>3. RowsInv(Advanced("active"), table)
      <4>1. CASE tick.rebuild
        <5>1. Advanced("active").stored = tick.index.stored \cup Indexer!Batch
          BY DEF Advanced
        <5>2. table = Indexer!Rebuilt(tick.rows, Advanced("active").stored)
          BY <4>1, <5>1
        <5> QED
          BY <2>2, <3>2, <5>2, RebuiltAgrees DEF RowsInv
      <4>2. CASE ~tick.rebuild
        <5>1. table = Indexer!Replay(tick.rows, Indexer!Batch)
          BY <4>2
        <5>2. Kept(tick.rows) /\ Agrees(tick.rows, Truth(tick.index))
          BY <2>2, <4>2 DEF RowsInv
        <5>3. Registered(Truth(tick.index))
          BY <2>2, TruthRegistered
        <5>4. /\ Kept(table)
              /\ Agrees(table, Indexer!Replay(Truth(tick.index), Indexer!Batch))
          BY <2>3, <5>1, <5>2, <5>3, ReplayKeeps
        <5> QED
          BY <3>2, <5>4 DEF RowsInv
      <4> QED
        BY <4>1, <4>2
    <3> QED
      BY <1>0, <2>2, <3>1, <3>2, <3>3, CommitsKeeps
  <2> QED
    BY <2>4, <2>5
<1> QED
  BY <1>1, <1>2 DEF Indexer!Finish

-----------------------------------------------------------------------------
(* The indexer: its promise.                                                *)

LEMMA IndexerInductive == IndexerInv /\ [WorkerNext]_workerVars => IndexerInv'
<1> SUFFICES ASSUME IndexerInv, [WorkerNext]_workerVars PROVE IndexerInv'
  OBVIOUS
<1>1. CASE Indexer!Mine \/ Indexer!Fork
  BY <1>1, ProduceExtends, ExtendsKeepsInv DEF IndexerInv
<1>2. CASE Indexer!Step
  BY <1>2, BeginKeeps, SearchKeeps, CaughtUpKeeps, ReadBeforeKeeps, ReadLogsKeeps, FinishKeeps
     DEF Indexer!Step
<1>3. CASE \/ Indexer!SearchFails \/ Indexer!ReadFails \/ Indexer!Crash \/ Indexer!Reset
           \/ Indexer!Refused
  BY <1>3, FailureKeeps
<1>4. CASE Indexer!BeginBehind
  BY <1>4, BeginKeeps
<1>5. CASE UNCHANGED <<chain, branch, logs, index, rows, tick>>
  BY <1>5, StutterKeeps
<1> QED
  BY <1>1, <1>2, <1>3, <1>4, <1>5 DEF WorkerNext, workerVars, indexerVars, Indexer!Next

\* The branches of the chain that the indexer starts beside.
LEMMA FirstBranches ==
  ASSUME chain = [n \in 1..Existing |-> n], branch = [n \in 1..Existing |-> SubSeq(chain, 1, n)],
         NEW b \in 1..Existing
  PROVE  /\ branch[b] \in Seq(1..Existing) /\ Len(branch[b]) = b
         /\ \A n \in 1..b : branch[b][n] = n /\ branch[n] = SubSeq(branch[b], 1, n)
<1>1. Existing \in Nat /\ b \in Nat
  BY IndexerAssumption
<1>2. chain \in Seq(1..Existing) /\ Len(chain) = Existing /\ \A n \in 1..Existing : chain[n] = n
  BY <1>1
<1>3. \A n \in 1..Existing : branch[n] = SubSeq(chain, 1, n)
  OBVIOUS
<1>4. b \in 0..Len(chain)
  BY <1>1, <1>2
<1>5. /\ branch[b] \in Seq(1..Existing) /\ Len(branch[b]) = b
      /\ \A n \in 1..b : branch[b][n] = chain[n]
  <2>1. /\ SubSeq(chain, 1, b) \in Seq(1..Existing) /\ Len(SubSeq(chain, 1, b)) = b
        /\ \A n \in 1..b : SubSeq(chain, 1, b)[n] = chain[n]
    BY ONLY <1>2, <1>4, Prefix
  <2> QED
    BY <1>3, <2>1
<1>6. ASSUME NEW n \in 1..b
      PROVE  branch[b][n] = n /\ branch[n] = SubSeq(branch[b], 1, n)
  <2>1. n \in 1..Existing /\ n \in 0..b /\ 1 \in Nat \ {0}
    BY <1>1
  <2>2. SubSeq(SubSeq(chain, 1, b), 1, n) = SubSeq(chain, 1, n)
    BY <1>2, <1>4, <2>1, PartOfPrefix
  <2> QED
    BY <1>2, <1>3, <1>5, <2>1, <2>2
<1> QED
  BY <1>5, <1>6

LEMMA IndexerInit == WorkerInit => IndexerInv
<1> SUFFICES ASSUME WorkerInit PROVE IndexerInv
  OBVIOUS
<1>0. Existing \in Nat \ {0} /\ IndexedModels # {}
  BY IndexerAssumption
<1>1. /\ chain = [n \in 1..Existing |-> n] /\ branch = [n \in 1..Existing |-> SubSeq(chain, 1, n)]
      /\ index = Indexer!Emptied("none") /\ rows = Indexer!Unlisted /\ tick = Indexer!Idle
  BY DEF WorkerInit, Indexer!Init
<1>2. PICK emitted \in Seq(Emitted) :
        logs = [n \in 1..Existing |-> IF n = 2 THEN Indexer!Logged(n, n, emitted) ELSE {}]
  <2>1. PICK m \in IndexedModels :
          \/ logs = [n \in 1..Existing |-> IF n = 2 THEN Indexer!Logged(n, n, <<Indexer!Listed(1, m)>>)
                                           ELSE {}]
          \/ logs = [n \in 1..Existing |->
                       IF n = 2 THEN Indexer!Logged(n, n, <<Indexer!Listed(1, m), Indexer!Approved(1)>>)
                       ELSE {}]
    <3>1. PICK m : m = CHOOSE x \in IndexedModels : TRUE
      OBVIOUS
    <3>2. m \in IndexedModels
      BY <1>0, <3>1
    <3>3. \E emitted \in {<<Indexer!Listed(1, m)>>, <<Indexer!Listed(1, m), Indexer!Approved(1)>>} :
            logs = [n \in 1..Existing |-> IF n = 2 THEN Indexer!Logged(n, n, emitted) ELSE {}]
      BY <3>1 DEF WorkerInit, Indexer!Init
    <3> QED
      BY <3>2, <3>3
  <2>2. Indexer!Listed(1, m) \in Emitted /\ Indexer!Approved(1) \in Emitted
    BY DEF Emitted
  <2>3. /\ <<Indexer!Listed(1, m)>> \in Seq(Emitted)
        /\ <<Indexer!Listed(1, m), Indexer!Approved(1)>> \in Seq(Emitted)
    BY <2>2
  <2> QED
    BY <2>1, <2>3
<1>3. ASSUME NEW n \in 1..Existing
      PROVE  /\ logs[n] \in SUBSET Log /\ IsFiniteSet(logs[n])
             /\ \A x \in logs[n] : x.block = n
             /\ \A x, y \in logs[n] : x.index = y.index => x = y
  <2>1. CASE n = 2
    <3>1. logs[n] = Indexer!Logged(2, 2, emitted) /\ emitted \in Seq(Emitted) /\ 2 \in Nat
      BY <1>2, <2>1
    <3> QED
      BY ONLY <2>1, <3>1, LoggedFacts
  <2>2. CASE n # 2
    BY <1>2, <2>2, FS_EmptySet
  <2> QED
    BY <2>1, <2>2
<1>4. logs \in Seq(SUBSET Log) /\ Len(logs) = Existing
  <2>1. logs = [n \in 1..Existing |-> logs[n]]
    BY <1>2
  <2>2. \A n \in 1..Existing : logs[n] \in SUBSET Log
    BY <1>3
  <2> QED
    BY ONLY <1>0, <2>1, <2>2
<1>5. Blocks = 1..Existing
  BY <1>4 DEF Blocks
<1>6. ASSUME NEW b \in 1..Existing
      PROVE  /\ branch[b] \in Seq(1..Existing) /\ Len(branch[b]) = b /\ b \in Nat \ {0}
             /\ \A n \in 1..b : branch[b][n] = n /\ branch[n] = SubSeq(branch[b], 1, n)
  BY <1>0, <1>1, FirstBranches
<1>7. ASSUME NEW b \in 1..Existing
      PROVE  Rooted(b) /\ Located(b)
  <2>1. branch[b] # <<>> /\ branch[b][Len(branch[b])] = b
    BY <1>6
  <2>2. \A n \in 1..Len(branch[b]) : branch[branch[b][n]] = SubSeq(branch[b], 1, n)
    BY <1>6
  <2>3. Rooted(b)
    BY <1>5, <1>6, <2>1, <2>2 DEF Rooted
  <2> QED
    BY <1>3, <1>6, <2>3 DEF Located
<1>8. branch \in Seq(Seq(Nat)) /\ Len(branch) = Existing
  <2>1. branch = [n \in 1..Existing |-> branch[n]]
    BY <1>1
  <2>2. ASSUME NEW n \in 1..Existing PROVE branch[n] \in Seq(Nat)
    <3>1. branch[n] \in Seq(1..Existing)
      BY <1>6
    <3> QED
      BY <1>0, <3>1
  <2> QED
    BY ONLY <1>0, <2>1, <2>2
<1>9. chain # <<>> /\ chain = branch[Existing] /\ Existing \in Blocks
  <2>1. Existing \in 1..Existing
    BY <1>0
  <2>2. chain \in Seq(Nat) /\ Len(chain) = Existing
    BY <1>0, <1>1
  <2>3. SubSeq(chain, 1, Existing) = chain
    BY <1>0, <2>2
  <2> QED
    BY <1>0, <1>1, <1>5, <2>1, <2>2, <2>3
<1>10. ChainInv
  BY <1>4, <1>5, <1>7, <1>8, <1>9 DEF ChainInv
<1>11. IndexInv(index) /\ index.cursor = 0 /\ index.status = "none"
  <2>1. Ordered({})
    BY FS_EmptySet DEF Ordered
  <2> QED
    BY <1>1, <2>1, NothingFollowed
       DEF IndexInv, Indexer!Emptied, Indexes, Statuses, Followed, Indexer!Above
<1>12. RowsInv(index, rows)
  <2>1. Truth(index) = Indexer!Unlisted
    BY <1>1, ReplayNone DEF Truth, Indexer!Emptied
  <2> QED
    BY <1>1, <1>11, <2>1, UnlistedFacts DEF RowsInv
<1> QED
  BY <1>1, <1>10, <1>11, <1>12 DEF IndexerInv, TickInv

LEMMA IndexerInvImplies ==
  ASSUME IndexerInv
  PROVE  IndexConsistent
<1>1. /\ IndexInv(index) /\ RowsInv(index, rows) /\ index.status \in Statuses
      /\ BatchSize <= Window => index.overlooked = 0
  BY DEF IndexerInv, IndexInv, Indexes
<1>2. Indexer!Indexed = Followed(index)
  BY DEF Indexer!Indexed, Followed
<1>3. CASE index.status \in {"none", "active"}
  <2>1. Agrees(rows, Truth(index)) /\ Kept(rows)
    BY <1>1, <1>3 DEF RowsInv
  <2>2. Registered(Truth(index))
    BY <1>1, TruthRegistered
  <2>3. \A m \in IndexedModels : rows[m].approved = Truth(index)[m].approved
    BY <2>1, <2>2, AgreesApproves DEF Kept, Registered
  <2>4. CASE index.status = "active"
    BY <1>1, <1>2, <2>3, <2>4 DEF IndexInv, Truth, IndexConsistent, Indexer!IndexConsistent
  <2>5. CASE index.status = "none"
    <3>1. Truth(index) = Indexer!Unlisted
      BY <1>1, <2>5, ReplayNone DEF IndexInv, Truth
    <3>2. Unapproved(rows)
      BY <2>1, <3>1, UnlistedFacts, <2>3 DEF Unapproved
    <3> QED
      BY <1>1, <2>5, <3>2 DEF Unapproved, IndexConsistent, Indexer!IndexConsistent
  <2> QED
    BY <1>3, <2>4, <2>5
<1>4. CASE index.status \notin {"none", "active"}
  BY <1>1, <1>4 DEF RowsInv, Unapproved, IndexConsistent, Indexer!IndexConsistent
<1> QED
  BY <1>3, <1>4

\* Whatever forks, however deep, lagging nodes, failed reads, crashes and resets an indexer meets,
\* an index that says it is active has stored, above the height that a gap between two windows has
\* hidden, what the registry emitted on one branch and nothing else, and the models table approves
\* exactly what its stored events approve; any other index serves no model (indexChainOnce,
\* indexer.ts:184-274, with findCommonAncestor, checkpointTail and rebuildRegistryPolicy). A batch
\* longer than the window leaves such a gap (reorg.ts:49), and what it hides is named exactly: the
\* old cursor, if its block was replaced during that tick. With batches no longer than the window
\* nothing is ever hidden, and the index is the replay of the whole branch.
THEOREM IndexStaysConsistent == WorkerSpec => []IndexConsistent
<1>1. IndexerInv => IndexConsistent
  BY IndexerInvImplies
<1> QED
  BY <1>1, IndexerInit, IndexerInductive, PTL DEF WorkerSpec
=============================================================================
