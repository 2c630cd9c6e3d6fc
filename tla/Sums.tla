-------------------------------- MODULE Sums --------------------------------
(***************************************************************************)
(* The sum of what a function gives the elements of a finite set. The      *)
(* books of the system are such sums: what payments reserve of a day, what *)
(* an agent's steps cost, what a contract owes.                            *)
(***************************************************************************)
EXTENDS FiniteSets, FiniteSetsExt

Sum(f, S) == MapThenSumSet(LAMBDA x : f[x], S)
=============================================================================
