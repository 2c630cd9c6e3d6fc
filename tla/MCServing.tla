------------------------------ MODULE MCServing ------------------------------
(* Serving for TLC: two payments for one body; a retry of p1 without its key, *)
(* p2 offered under the key of p1, and the same key reused for another body;  *)
(* p3 pays for a session opened under the next policy.                        *)
EXTENDS Serving, TLC

CONSTANTS p1, p2, p3, r1, r2, r3, r4, r5, k1, bodyA, bodyB, c1, c2, m1, m2, x1, x2

MCPaymentOf == r1 :> p1 @@ r2 :> p1 @@ r3 :> p2 @@ r4 :> p2 @@ r5 :> p3
MCKeyOf == r1 :> k1 @@ r2 :> NoKey @@ r3 :> k1 @@ r4 :> k1 @@ r5 :> NoKey
MCBodyOf == [r \in Requests |-> IF r \in {r4, r5} THEN bodyB ELSE bodyA]
MCBoundTo == [p \in Payments |-> IF p = p3 THEN bodyB ELSE bodyA]
MCSessionUnder == [r \in Requests |-> IF r = r5 THEN 2 ELSE 1]

\* Retries of payments; policies that change under them; a provider that fails.
MCScenes == {[requests |-> {r1, r2, r3, r4}, admins |-> {}, checks |-> {}],
             [requests |-> {r1, r2, r5}, admins |-> {m1, m2}, checks |-> {}],
             [requests |-> {r1}, admins |-> {m1}, checks |-> {x1, x2}]}
Interchangeable == Permutations(Callers) \cup Permutations(Admins) \cup Permutations(Checks)
==============================================================================
