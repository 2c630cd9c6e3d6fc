------------------------- MODULE MCPaymentGateway -------------------------
(* The composed gateway for TLC: one payment, two executions of settlement  *)
(* and two of inference, a request with an idempotency key and its retry    *)
(* without one.                                                             *)
EXTENDS PaymentGateway, TLC

CONSTANTS p1, r1, r2, k1, bodyA, c1, c2, h1, h2, alice

MCSubject == p1 :> alice
MCAmount == p1 :> 1
MCLimit == alice :> 1
MCPaymentOf == r1 :> p1 @@ r2 :> p1
MCKeyOf == r1 :> k1 @@ r2 :> NoKey
MCBodyOf == r1 :> bodyA @@ r2 :> bodyA
MCBoundTo == p1 :> bodyA
=============================================================================
