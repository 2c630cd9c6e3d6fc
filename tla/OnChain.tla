------------------------------- MODULE OnChain -------------------------------
(***************************************************************************)
(* The contracts of a deployment on one chain: the meter reads the         *)
(* registry's terms, spends the mandates, pays the provider and the vault, *)
(* and the vault pays the stakers' rewards. Each call is a transaction.    *)
(* A scenario names the parts a behaviour calls; "clock" is time, and      *)
(* "deposits" the payers' transfers of the token to the recipient.        *)
(***************************************************************************)
EXTENDS UsageMeter, FeeVault, InsuranceStaking

CONSTANT Scenarios   \* sets of contracts that a behaviour calls: a bound

VARIABLE called      \* the contracts this behaviour calls

Parts == {"clock", "deposits", "registry", "mandate", "meter", "vault", "staking"}

ASSUME ScenarioAssumption == Scenarios \subseteq SUBSET Parts

allVars == <<ledgerVars, registryVars, mandateVars, meterVars, vaultVars, stakingVars, called>>

TypeOK ==
  /\ LedgerTypeOK /\ RegistryTypeOK /\ MandateTypeOK /\ MeterTypeOK
  /\ VaultTypeOK /\ StakingTypeOK /\ called \in Scenarios

Init ==
  /\ LedgerInit /\ RegistryInit /\ MandateInit /\ MeterInit /\ VaultInit /\ StakingInit
  /\ called \in Scenarios

CallTokens ==
  /\ \/ "clock" \in called /\ Tick
     \/ "deposits" \in called /\ Deposits
  /\ UNCHANGED <<registryVars, mandateVars, meterVars, vaultVars, stakingVars, called>>

CallRegistry ==
  /\ "registry" \in called /\ RegistryNext
  /\ UNCHANGED <<mandateVars, meterVars, vaultVars, stakingVars, called>>

CallMandate ==
  /\ "mandate" \in called /\ MandateNext
  /\ UNCHANGED <<registryVars, meterVars, vaultVars, stakingVars, called>>

CallMeter ==
  /\ "meter" \in called /\ MeterNext
  /\ UNCHANGED <<vaultVars, stakingVars, called>>

CallVault ==
  /\ "vault" \in called /\ VaultNext
  /\ UNCHANGED <<registryVars, mandateVars, meterVars, stakingVars, called>>

CallStaking ==
  /\ "staking" \in called /\ StakingNext
  /\ UNCHANGED <<registryVars, mandateVars, meterVars, vaultVars, called>>

Next ==
  \/ CallTokens \/ CallRegistry \/ CallMandate \/ CallMeter \/ CallVault \/ CallStaking

Spec == Init /\ [][Next]_allVars

-----------------------------------------------------------------------------
\* Each contract holds what it owes, after any calls of anyone: the registry the
\* deposits of the listings (ModelRegistry.list, approve), the staking contract
\* what is staked, the meter the deposits that no payment has claimed.
ObligationsHeld == ListingStakesHeld /\ StakerStakesHeld /\ DepositsBacked
=============================================================================
