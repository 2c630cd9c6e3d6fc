---------------------------- MODULE MCWalletSession --------------------------
(***************************************************************************)
(* WalletSession for TLC: what may happen is spread over the initial       *)
(* states, so that the cases of each budget meet without all of the others.*)
(***************************************************************************)
EXTENDS WalletSession
MCChallenges == (1 .. MaxLogins) \cup {Device}
Budget(l, ch, co, f, e, d) ==
    [logins |-> l, changes |-> ch, connects |-> co, faults |-> f, expiries |-> e, devices |-> d]
MCBudgets == {Budget(2, 1, 0, 0, 0, 0), Budget(1, 2, 1, 0, 0, 0), Budget(2, 0, 0, 1, 0, 0), Budget(1, 0, 0, 0, 1, 1)}
==============================================================================
