----------------------------- MODULE MCOnChain -----------------------------
(* The contracts for TLC: alice pays three times, any two of them covered   *)
(* by one authorization, once for a model that bob lists and once as an      *)
(* agent; bob has an authorization of its own for the same amount.           *)
EXTENDS OnChain, TLC

CONSTANTS alice, bob, m1, g1, a1, a2, p1, p2, p3

MCUsdc == alice :> 60 @@ bob :> 20
MCEncl == alice :> 1 @@ bob :> 2
MCAuthPayer == a1 :> alice @@ a2 :> bob
MCAuthAmount == a1 :> 20 @@ a2 :> 20
Term(agent, model) == [payer |-> alice, agent |-> agent, model |-> model, amount |-> 20]
MCTerms ==
  p1 :> Term(NoAgent, m1) @@ p2 :> Term(g1, NoModel) @@ p3 :> Term(NoAgent, NoModel)
=============================================================================
