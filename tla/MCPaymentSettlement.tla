----------------------- MODULE MCPaymentSettlement -----------------------
(* Instances of PaymentSettlement for TLC. *)
EXTENDS PaymentSettlement, TLC

CONSTANTS p1, p2, p3, h1, h2, h3, alice

OneSubject == [p \in Payments |-> alice]
\* Unequal amounts: a refund of the larger one shows in the smaller one.
TwoOne == [p \in Payments |-> IF p = p1 THEN 2 ELSE 1]
Ones == [p \in Payments |-> 1]
LimitOne == alice :> 1
LimitTwo == alice :> 2
LimitThree == alice :> 3
HandlerSymmetry == Permutations(Handlers)
=============================================================================
