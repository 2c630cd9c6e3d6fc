------------------------------ MODULE MCWorker ------------------------------
(* Two models and one indexer; one receipt, two workers, one recovery loop.  *)
EXTENDS Worker
CONSTANTS m1, m2, w1, w2, i1
=============================================================================
