---------------------------- MODULE ModelRegistry ----------------------------
(***************************************************************************)
(* ModelRegistry.sol: providers list a model by staking ENCL, the owner    *)
(* approves it after a timelock and may revoke it for good; only a local   *)
(* development chain approves at once and restores what was revoked. A     *)
(* pair (modelHash, codeHash), listed once, stands for its listing id.     *)
(***************************************************************************)
EXTENDS Ledger

CONSTANTS
  Models,        \* pairs of modelHash and codeHash
  Shares,        \* listingBps that a run considers
  ListingStake,  \* listingStake
  Timelock,      \* TIMELOCK, in timestamps
  Policies       \* policy commitments; "none" for list

ASSUME RegistryAssumption ==
  /\ \A share \in Shares : share \in Nat /\ share <= 10000
  /\ IsFiniteSet(Models) /\ ListingStake \in Nat /\ Timelock \in Nat

VARIABLES
  local,         \* block.chainid = 31337
  listing        \* listings, listingPolicy

registryVars == <<local, listing>>

NoListing == [listed |-> FALSE]
Listings ==
  [listed : {TRUE}, provider : Users, at : 0..MaxTime, bps : Shares,
   staked : {0, ListingStake}, approved : BOOLEAN, revoked : BOOLEAN,
   policy : Policies \cup {"none"}]

RegistryTypeOK == local \in BOOLEAN /\ listing \in [Models -> Listings \cup {NoListing}]

RegistryInit == local \in BOOLEAN /\ listing = [m \in Models |-> NoListing]

List(u, m, bps, policy) ==
  /\ ~listing[m].listed
  /\ TransferEncl(u, Registry, ListingStake)
  /\ listing' = [listing EXCEPT ![m] =
       [listed |-> TRUE, provider |-> u, at |-> now, bps |-> bps, staked |-> ListingStake,
        approved |-> FALSE, revoked |-> FALSE, policy |-> policy]]
  /\ UNCHANGED <<local, usdc, auth, now>>

Approvable(m) ==
  /\ listing[m].listed /\ ~listing[m].revoked
  /\ now >= listing[m].at + Timelock

Approve(m) ==
  /\ Approvable(m)
  /\ listing' = [listing EXCEPT ![m].approved = TRUE]
  /\ UNCHANGED <<local, ledgerVars>>

BootstrapApprove(m) ==
  /\ local /\ listing[m].listed /\ ~listing[m].revoked
  /\ listing' = [listing EXCEPT ![m].approved = TRUE]
  /\ UNCHANGED <<local, ledgerVars>>

\* The row after revoke: its stake, if any is left, went back to the provider.
RevokedRow(row) == [row EXCEPT !.approved = FALSE, !.revoked = TRUE, !.staked = 0]

Revoke(m) ==
  /\ listing[m].listed
  /\ TransferEncl(Registry, listing[m].provider, listing[m].staked)
  /\ listing' = [listing EXCEPT ![m] = RevokedRow(@)]
  /\ UNCHANGED <<local, usdc, auth, now>>

BootstrapRestore(m) ==
  /\ local /\ listing[m].listed
  /\ listing' = [listing EXCEPT ![m].revoked = FALSE, ![m].approved = TRUE]
  /\ UNCHANGED <<local, ledgerVars>>

RegistryNext ==
  \E m \in Models :
    \/ \E u \in Users, bps \in Shares, policy \in Policies \cup {"none"} : List(u, m, bps, policy)
    \/ Approve(m) \/ BootstrapApprove(m) \/ Revoke(m) \/ BootstrapRestore(m)

\* isApproved, and the condition of paymentTerms.
IsApproved(m) == listing[m].listed /\ listing[m].approved /\ ~listing[m].revoked

-----------------------------------------------------------------------------
Listed == {m \in Models : listing[m].listed}

\* The registry holds exactly the stakes it still owes: a provider's stake goes
\* back once, whatever sequence of revocations and restorations (_list, revoke).
ListingStakesHeld == encl[Registry] = Sum([m \in Listed |-> listing[m].staked], Listed)
=============================================================================
