------------------------------ MODULE FeeVault ------------------------------
(***************************************************************************)
(* FeeVault.sol: what the meter collects is split 80/10/5/5; a part of the *)
(* treasury's share may be kept in the vault for buybacks.                 *)
(***************************************************************************)
EXTENDS Ledger

CONSTANTS Providers, Ecosystem, \* the accounts of the last two shares
          ReserveBps            \* buybackReserveBps that a run considers

ASSUME VaultAssumption ==
  /\ Providers \in Users /\ Ecosystem \in Users /\ ReserveBps \subseteq 0..1000

VARIABLES
  split,       \* setSplit was called: treasury is not zero
  routed,      \* configureBuyback was called
  reserveBps,  \* buybackReserveBps
  reserved     \* reservedBuyback

vaultVars == <<split, routed, reserveBps, reserved>>

VaultTypeOK ==
  /\ split \in BOOLEAN /\ routed \in BOOLEAN
  /\ reserveBps \in ReserveBps \cup {0} /\ reserved \in Nat

VaultInit == split = FALSE /\ routed = FALSE /\ reserveBps = 0 /\ reserved = 0

SetSplit ==
  /\ split' = TRUE /\ UNCHANGED <<routed, reserveBps, reserved, ledgerVars>>

ConfigureBuyback ==
  /\ routed' = TRUE /\ UNCHANGED <<split, reserveBps, reserved, ledgerVars>>

SetBuybackReserveBps(bps) ==
  /\ reserveBps' = bps /\ UNCHANGED <<split, routed, reserved, ledgerVars>>

\* (mutant) The reserve is distributed too.
DistributableAll == usdc[Vault]

\* What is there to distribute.
Distributable == usdc[Vault] - reserved

Share(bal, percent) == (bal * percent) \div 100
Reserve(bal) == (Share(bal, 80) * reserveBps) \div 10000
Remainder(bal) == bal - Share(bal, 80) - Share(bal, 10) - Share(bal, 5)

Distribute ==
  LET bal == Distributable IN
  /\ split /\ bal > 0
  /\ reserved' = reserved + Reserve(bal)
  /\ usdc[Vault] >= bal - Reserve(bal)
  /\ usdc' = Moved(Moved(Moved(Moved(usdc,
               Vault, Treasury, Share(bal, 80) - Reserve(bal)),
               Vault, Staking, Share(bal, 10)),
               Vault, Providers, Share(bal, 5)),
               Vault, Ecosystem, Remainder(bal))
  /\ UNCHANGED <<split, routed, reserveBps, encl, auth, now>>

\* The router takes exactly amountIn, or the call reverts.
ExecuteBuyback(amountIn) ==
  /\ routed /\ amountIn <= reserved
  /\ TransferUsdc(Vault, Market, amountIn)
  /\ reserved' = reserved - amountIn
  /\ UNCHANGED <<split, routed, reserveBps, encl, auth, now>>

VaultNext ==
  \/ SetSplit \/ ConfigureBuyback \/ Distribute
  \/ \E bps \in ReserveBps : SetBuybackReserveBps(bps)
  \/ \E amountIn \in 1..reserved : ExecuteBuyback(amountIn)

-----------------------------------------------------------------------------
\* The vault holds what it has reserved for buybacks, whatever is distributed,
\* bought or collected in between (distribute, executeBuyback).
ReserveBacked == reserved <= usdc[Vault]
=============================================================================
