-------------------------- MODULE MCSignerJournal --------------------------
(* Instances of SignerJournal for TLC.                                      *)
EXTENDS SignerJournal, TLC

CONSTANTS o1, o2, s1, s2, w  \* model values

\* Operations and senders are interchangeable.
Symmetry == Permutations(Ops) \cup Permutations(Senders)
=============================================================================
