------------------------------- MODULE Worker -------------------------------
(***************************************************************************)
(* The worker process (index.ts): the chain indexer and the anchoring of   *)
(* receipts beside its recovery loops. Each loop runs one tick at a time   *)
(* and survives its errors (polling.ts); which ones do anything depends on *)
(* the contracts that are configured. The indexer and the anchoring write  *)
(* different tables and none reads the other's, so a deployment with both  *)
(* behaves as one with the registry and one with the verifier, side by     *)
(* side: the specification takes them one at a time.                       *)
(***************************************************************************)
EXTENDS Integers

CONSTANTS IndexedModels,     \* Models of the indexer
          Confirmations, Window, BatchSize, Existing, MaxBlocks, MaxLogged,
          Workers, Instances, Attempts, MaxForks, MaxEvents,
          MaxIndexerEvents   \* MaxEvents of the indexer

ASSUME IndexerAssumption ==
  /\ IndexedModels # {} /\ Confirmations \in Nat /\ Window \in Nat \ {0, 1} /\ BatchSize \in Nat \ {0}
  /\ Existing \in Nat \ {0} /\ MaxBlocks \in Nat /\ MaxIndexerEvents \in Nat

ASSUME AnchoringAssumption ==
  Attempts \in Nat \ {0} /\ MaxForks \in Nat /\ MaxEvents \in Nat

VARIABLES
  deployed,   \* the contract whose address is configured
  chain, branch, logs, index, rows, tick,
  configured, approved, tx, row, job, run, recovery, listed,
  forks, events

Indexer == INSTANCE ChainIndexer WITH Models <- IndexedModels, MaxEvents <- MaxIndexerEvents
Anchoring == INSTANCE ReceiptAnchoring

indexerVars == <<chain, branch, logs, index, rows, tick, forks, events>>
anchoringVars == <<configured, approved, tx, row, job, run, recovery, listed, forks, events>>
workerVars == <<deployed, indexerVars, anchoringVars>>

\* addressReady, isConfiguredAddress
WorkerInit ==
  /\ deployed \in {"registry", "verifier"}
  /\ Indexer!Init /\ Anchoring!Init
  /\ configured => deployed = "verifier"

OfRegistry == deployed = "registry"
OfVerifier == deployed = "verifier"

WorkerNext ==
  /\ \/ OfRegistry /\ Indexer!Next
        /\ UNCHANGED <<configured, approved, tx, row, job, run, recovery, listed>>
     \/ OfVerifier /\ Anchoring!Next
        /\ UNCHANGED <<chain, branch, logs, index, rows, tick>>
  /\ UNCHANGED deployed

\* startPolling runs one tick after another for as long as the worker lives;
\* the queue's workers, the loops of recovery and the chain go on.
WorkerSpec ==
  /\ WorkerInit /\ [][WorkerNext]_workerVars
  /\ WF_indexerVars(OfRegistry /\ Indexer!Step)
  /\ WF_anchoringVars(OfVerifier /\ Anchoring!Mine)
  /\ WF_anchoringVars(OfVerifier /\ Anchoring!Deepen)
  /\ WF_anchoringVars(OfVerifier /\ Anchoring!Rebroadcast)
  /\ WF_anchoringVars(OfVerifier /\ Anchoring!Orphaned)
  /\ WF_anchoringVars(OfVerifier /\ Anchoring!Requeue)
  /\ \A w \in Workers : WF_anchoringVars(OfVerifier /\ Anchoring!Run(w))
  /\ \A i \in Instances : WF_anchoringVars(OfVerifier /\ Anchoring!Recover(i))

-----------------------------------------------------------------------------
\* Above the height that a gap between two batches has hidden, an active index
\* is one branch of the chain; it approves what its stored events say, and any
\* other index serves no model. Nothing is hidden when batches fit the window
\* (indexer.ts:187-271; _backend/README.md:162, "A deeper fork enters
\* INDEXER_REBUILD_REQUIRED and fails closed").
IndexConsistent == Indexer!IndexConsistent

\* Once the chain and the RPC node are quiet the index reaches the confirmed
\* head, or says that it has to be rebuilt (indexer.ts:205-270).
IndexConverges == OfRegistry => Indexer!IndexConverges

\* A receipt is left for review only after its transaction reverted on the
\* chain (anchorer.ts:74-85, receipt-recovery.ts:31-53).
FailedOnlyIfReverted == Anchoring!FailedOnlyIfReverted

\* A committed receipt does not stay in flight (jobs.ts:66-89).
ReceiptsSettle == OfVerifier => Anchoring!ReceiptsSettle
=============================================================================
