-------------------------- MODULE InsuranceStaking --------------------------
(***************************************************************************)
(* InsuranceStaking.sol: ENCL stakes and the USDC rewards they earn, by a  *)
(* rewards-per-token accumulator whose divisions round down.               *)
(***************************************************************************)
EXTENDS Ledger

CONSTANT Precision     \* PRECISION

ASSUME StakingAssumption == Precision \in Nat \ {0}

VARIABLES
  rewarding,     \* configureRewards was called
  staked, total, \* staked, totalStaked
  perToken,      \* rewardPerTokenStored
  paidPerToken,  \* userRewardPerTokenPaid
  rewards,       \* rewards
  accounted,     \* accountedRewards
  unallocated    \* unallocatedRewards

rewardVars == <<perToken, accounted, unallocated>>
userVars == <<paidPerToken, rewards>>
stakingVars == <<rewarding, staked, total, rewardVars, userVars>>

StakingTypeOK ==
  /\ rewarding \in BOOLEAN
  /\ staked \in [Users -> Nat] /\ total \in Nat
  /\ paidPerToken \in [Users -> Nat] /\ rewards \in [Users -> Nat]
  /\ perToken \in Nat /\ accounted \in Nat /\ unallocated \in Nat

StakingInit ==
  /\ rewarding = FALSE
  /\ staked = [u \in Users |-> 0] /\ total = 0
  /\ paidPerToken = [u \in Users |-> 0] /\ rewards = [u \in Users |-> 0]
  /\ perToken = 0 /\ accounted = 0 /\ unallocated = 0

Received == IF rewarding THEN usdc[Staking] - accounted ELSE 0

\* _syncRewards, as the values it gives to its variables.
PerToken == perToken + IF total = 0 THEN 0 ELSE (Received * Precision) \div total
Unallocated == unallocated + IF total = 0 THEN Received ELSE 0

SyncWith(taken, unassigned) ==
  /\ perToken' = PerToken
  /\ accounted' = accounted + Received - taken
  /\ unallocated' = Unallocated - unassigned

\* (mutant) The division rounds up.
EarnedRoundedUp(u) ==
  rewards[u] + (staked[u] * (PerToken - paidPerToken[u]) + Precision - 1) \div Precision

\* The rewards of a staker once its account is brought up to date (_checkpoint,
\* pendingRewards).
Earned(u) == rewards[u] + (staked[u] * (PerToken - paidPerToken[u])) \div Precision

CheckpointWith(u, taken) ==
  /\ rewards' = [rewards EXCEPT ![u] = Earned(u) - taken]
  /\ paidPerToken' = [paidPerToken EXCEPT ![u] = PerToken]

Stake(u, amount) ==
  /\ TransferEncl(u, Staking, amount)
  /\ SyncWith(0, 0) /\ CheckpointWith(u, 0)
  /\ staked' = [staked EXCEPT ![u] = @ + amount]
  /\ total' = total + amount
  /\ UNCHANGED <<rewarding, usdc, auth, now>>

Unstake(u, amount) ==
  /\ staked[u] >= amount
  /\ TransferEncl(Staking, u, amount)
  /\ SyncWith(0, 0) /\ CheckpointWith(u, 0)
  /\ staked' = [staked EXCEPT ![u] = @ - amount]
  /\ total' = total - amount
  /\ UNCHANGED <<rewarding, usdc, auth, now>>

SyncRewards ==
  /\ SyncWith(0, 0)
  /\ UNCHANGED <<rewarding, staked, total, userVars, ledgerVars>>

ClaimRewards(u) ==
  /\ rewarding /\ Earned(u) > 0
  /\ TransferUsdc(Staking, u, Earned(u))
  /\ SyncWith(Earned(u), 0) /\ CheckpointWith(u, Earned(u))
  /\ UNCHANGED <<rewarding, staked, total, encl, auth, now>>

\* Rewards that arrived while nobody staked go back to the treasury.
RecoverUnallocated(amount) ==
  /\ rewarding /\ amount <= Unallocated
  /\ TransferUsdc(Staking, Treasury, amount)
  /\ SyncWith(amount, amount)
  /\ UNCHANGED <<rewarding, staked, total, userVars, encl, auth, now>>

ConfigureRewards ==
  /\ ~rewarding /\ rewarding' = TRUE
  /\ UNCHANGED <<staked, total, rewardVars, userVars, ledgerVars>>

StakingNext ==
  \/ SyncRewards \/ ConfigureRewards
  \/ \E u \in Users : ClaimRewards(u)
  \/ \E u \in Users : \E amount \in 1..encl[u] : Stake(u, amount)
  \/ \E u \in Users : \E amount \in 1..staked[u] : Unstake(u, amount)
  \/ \E amount \in 1..Unallocated : RecoverUnallocated(amount)

-----------------------------------------------------------------------------
\* Every staker can take its whole stake back (stake, unstake).
StakerStakesHeld == encl[Staking] = Sum(staked, Users) /\ total = Sum(staked, Users)

\* All stakers together can claim every reward they have been told of, in
\* whatever order they stake, claim and leave: rounding, late stakers and
\* recovered rewards never leave the last one short (_checkpoint, _syncRewards).
RewardsCovered ==
  rewarding =>
    /\ accounted <= usdc[Staking]
    /\ Sum([u \in Users |-> Earned(u)], Users) + Unallocated <= usdc[Staking]
=============================================================================
