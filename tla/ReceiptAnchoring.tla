-------------------------- MODULE ReceiptAnchoring --------------------------
(***************************************************************************)
(* A committed receipt on its way to AttestationVerifier: the anchoring    *)
(* job (anchorer.ts) as the workers run it, with stalled runs that go on   *)
(* beside their replacement, the two loops that repair what a crash or a   *)
(* fork left behind (jobs.ts, receipt-recovery.ts), and the verifier.      *)
(*                                                                         *)
(* The signer's journal is the subject of SignerJournal: here an operation *)
(* key has one signed transaction, that sending and the recovery loop      *)
(* broadcast again while it is not in a block. The queue (BullMQ) and the  *)
(* chain are external.                                                     *)
(***************************************************************************)
EXTENDS Integers, FiniteSets

CONSTANTS
  Workers,      \* anchoring workers
  Instances,    \* processes running the recovery loop
  Attempts,     \* attempts of a job
  MaxForks,     \* bound on reorganizations
  MaxEvents     \* bound on crashes, stalls and failed calls

VARIABLES
  configured,   \* the verifier's address is configured
  approved,     \* the receipt's model is approved by the registry
  tx,           \* the receipt's transaction
  row,          \* the receipt's status, and whether it records the transaction
  job,          \* the anchoring job
  run,          \* Workers -> the run in progress
  recovery,     \* Instances -> reconciliation of the anchored receipt
  listed,       \* recoverReceiptJobs has read the receipt as unfinished
  forks, events

chainVars == <<approved, tx, forks>>
loopVars == <<recovery, listed>>
vars == <<configured, chainVars, row, job, run, loopVars, events>>

Event == events < MaxEvents /\ events' = events + 1

Unsigned == [state |-> "none", success |-> FALSE, everReverted |-> FALSE]
NoJob == [state |-> "absent", made |-> 0, owner |-> "none", stalled |-> FALSE]

TypeOK ==
  /\ configured \in BOOLEAN /\ approved \in BOOLEAN /\ listed \in BOOLEAN
  /\ tx.state \in {"none", "signed", "pool", "mined", "deep"}
  /\ row.status \in {"pending", "anchoring", "anchored", "anchored-sim", "anchor_failed"}
  /\ job.state \in {"absent", "waiting", "active", "completed", "failed"}
  /\ job.made \in 0..Attempts /\ job.owner \in Workers \cup {"none"}
  /\ run \in [Workers -> {"idle", "start", "send", "broadcast", "record", "confirm",
                          "verified", "reverted"}]
  /\ recovery \in [Instances -> {"idle", "read", "anchoring", "anchor_failed"}]

Init ==
  /\ configured \in BOOLEAN /\ approved = TRUE
  /\ tx = Unsigned
  /\ row = [status |-> "pending", recorded |-> FALSE]
  /\ job = NoJob
  /\ run = [w \in Workers |-> "idle"]
  /\ recovery = [i \in Instances |-> "idle"] /\ listed = FALSE
  /\ forks = 0 /\ events = 0

-----------------------------------------------------------------------------
(* The chain. A transaction is deep when it has its confirmations.          *)

\* AttestationVerifier.verifyReceipt: a receipt of a model that is not
\* approved reverts.
Mine ==
  /\ tx.state = "pool"
  /\ tx' = [state |-> "mined", success |-> approved,
            everReverted |-> tx.everReverted \/ ~approved]
  /\ UNCHANGED <<configured, approved, forks, row, job, run, loopVars, events>>

Deepen ==
  /\ tx.state = "mined" /\ tx' = [tx EXCEPT !.state = "deep"]
  /\ UNCHANGED <<configured, approved, forks, row, job, run, loopVars, events>>

\* The registry revokes the model's listing.
Revoke ==
  /\ approved /\ approved' = FALSE
  /\ UNCHANGED <<configured, tx, forks, row, job, run, loopVars, events>>

\* The block of the transaction is abandoned, however deep, and with it,
\* maybe, a revocation.
Fork ==
  /\ tx.state \in {"mined", "deep"} /\ forks < MaxForks /\ forks' = forks + 1
  /\ tx' = [tx EXCEPT !.state = "signed", !.success = FALSE]
  /\ approved' \in {approved, TRUE}
  /\ UNCHANGED <<configured, row, job, run, loopVars, events>>

\* startSignerRecovery
Rebroadcast ==
  /\ tx.state = "signed" /\ tx' = [tx EXCEPT !.state = "pool"]
  /\ UNCHANGED <<configured, approved, forks, row, job, run, loopVars, events>>

-----------------------------------------------------------------------------
(* The queue.                                                               *)

\* The gateway adds the job after the receipt's commit, or its process dies first.
Enqueue ==
  /\ job.state = "absent" /\ row.status = "pending"
  /\ job' = [job EXCEPT !.state = "waiting"]
  /\ UNCHANGED <<configured, chainVars, row, run, loopVars, events>>

Take(w) ==
  /\ job.state = "waiting" /\ run[w] = "idle"
  /\ job' = [job EXCEPT !.state = "active", !.owner = w]
  /\ run' = [run EXCEPT ![w] = "start"]
  /\ UNCHANGED <<configured, chainVars, row, loopVars, events>>

\* The run of w ends. A run that lost the job's lock ends for nobody.
Ends(w, ok) ==
  /\ run' = [run EXCEPT ![w] = "idle"]
  /\ LET made == IF job.made < Attempts THEN job.made + 1 ELSE Attempts IN
     job' = IF job.owner # w THEN job
            ELSE [job EXCEPT !.owner = "none", !.made = made,
                    !.state = IF ok THEN "completed"
                              ELSE IF made < Attempts THEN "waiting" ELSE "failed"]

\* The lock expires: the job is given to another run once, then it fails.
Lapses ==
  /\ job' = [job EXCEPT !.owner = "none", !.stalled = TRUE,
               !.state = IF job.stalled THEN "failed" ELSE "waiting"]
  /\ UNCHANGED <<configured, chainVars, row, run, loopVars>>

\* Its worker is gone, or only late: then it goes on beside the next run.
Orphaned == job.state = "active" /\ run[job.owner] = "idle" /\ Lapses /\ UNCHANGED events
Stalled == job.state = "active" /\ run[job.owner] # "idle" /\ Event /\ Lapses

-----------------------------------------------------------------------------
(* anchorReceipt.                                                           *)

Goes(w, to) == run' = [run EXCEPT ![w] = to] /\ UNCHANGED job

\* The row is read.
Start(w) ==
  /\ run[w] = "start"
  /\ \/ row.status = "anchored" /\ Ends(w, TRUE) /\ UNCHANGED row
     \/ row.status = "anchor_failed" /\ Ends(w, FALSE) /\ UNCHANGED row
     \/ /\ row.status \notin {"anchored", "anchor_failed"} /\ ~configured
        /\ row' = [status |-> "anchored-sim", recorded |-> FALSE] /\ Ends(w, TRUE)
     \/ /\ row.status \notin {"anchored", "anchor_failed"} /\ configured
        /\ Goes(w, IF row.status = "anchoring" /\ row.recorded THEN "confirm" ELSE "send")
        /\ UNCHANGED row
  /\ UNCHANGED <<configured, chainVars, loopVars, events>>

\* sendDurableTransaction: the journal's transaction, signed if there is none.
Send(w) ==
  /\ run[w] = "send"
  /\ tx' = IF tx.state = "none" THEN [tx EXCEPT !.state = "signed"] ELSE tx
  /\ Goes(w, IF tx.state # "deep" THEN "broadcast"
             ELSE IF tx.success THEN "record" ELSE "reverted")
  /\ UNCHANGED <<configured, approved, forks, row, loopVars, events>>

Broadcast(w) ==
  /\ run[w] = "broadcast"
  /\ tx' = IF tx.state = "signed" THEN [tx EXCEPT !.state = "pool"] ELSE tx
  /\ Goes(w, "record")
  /\ UNCHANGED <<configured, approved, forks, row, loopVars, events>>

\* Not guarded: another run may have gone further since the row was read.
Record(w) ==
  /\ run[w] = "record"
  /\ row' = [status |-> "anchoring", recorded |-> TRUE]
  /\ Goes(w, "confirm")
  /\ UNCHANGED <<configured, chainVars, loopVars, events>>

\* confirmDurableTransaction
Confirm(w) ==
  /\ run[w] = "confirm" /\ tx.state = "deep"
  /\ Goes(w, IF tx.success THEN "verified" ELSE "reverted")
  /\ UNCHANGED <<configured, chainVars, row, loopVars, events>>

WriteVerdict(w) ==
  /\ run[w] \in {"verified", "reverted"}
  /\ row' = [status |-> IF run[w] = "verified" THEN "anchored" ELSE "anchor_failed",
             recorded |-> TRUE]
  /\ Ends(w, run[w] = "verified")
  /\ UNCHANGED <<configured, chainVars, loopVars, events>>

\* An RPC or database call fails, or the confirmation times out.
Fails(w) ==
  /\ run[w] # "idle" /\ Event /\ Ends(w, FALSE)
  /\ UNCHANGED <<configured, chainVars, row, loopVars>>

Crash(w) ==
  /\ run[w] # "idle" /\ Event /\ run' = [run EXCEPT ![w] = "idle"]
  /\ UNCHANGED <<configured, chainVars, row, job, loopVars>>

Run(w) == \/ Take(w) \/ Start(w) \/ Send(w) \/ Broadcast(w) \/ Record(w)
          \/ Confirm(w) \/ WriteVerdict(w)

-----------------------------------------------------------------------------
(* startReceiptRecovery.                                                    *)

\* The workers are deployed again with a verifier.
Configure ==
  /\ ~configured /\ configured' = TRUE /\ \A w \in Workers : run[w] = "idle"
  /\ UNCHANGED <<chainVars, row, job, run, loopVars, events>>

\* reconcileAnchoredReceipts: the row,
ReadAnchored(i) ==
  /\ configured /\ recovery[i] = "idle" /\ row.status = "anchored"
  /\ recovery' = [recovery EXCEPT ![i] = "read"]
  /\ UNCHANGED <<configured, chainVars, row, job, run, listed, events>>

\* (mutant) A proof that is missing is taken for a proof of failure.
VerdictHasty == IF tx.state = "deep" /\ tx.success THEN "idle" ELSE "anchor_failed"

\* What the chain says of the anchored transaction.
Verdict == IF tx.state # "deep" THEN "anchoring"
           ELSE IF tx.success THEN "idle" ELSE "anchor_failed"

\* its proof,
Judge(i) ==
  /\ recovery[i] = "read" /\ recovery' = [recovery EXCEPT ![i] = Verdict]
  /\ UNCHANGED <<configured, chainVars, row, job, run, listed, events>>

\* and the write, unless somebody else has repaired the row.
Repair(i) ==
  /\ recovery[i] \in {"anchoring", "anchor_failed"}
  /\ row' = IF row.status = "anchored" THEN [row EXCEPT !.status = recovery[i]] ELSE row
  /\ recovery' = [recovery EXCEPT ![i] = "idle"]
  /\ UNCHANGED <<configured, chainVars, job, run, listed, events>>

JudgeFails(i) ==
  /\ recovery[i] = "read" /\ Event /\ recovery' = [recovery EXCEPT ![i] = "idle"]
  /\ UNCHANGED <<configured, chainVars, row, job, run, listed>>

\* recoverReceiptJobs: the rows that are not finished,
ListUnfinished ==
  /\ ~listed /\ row.status \in {"pending", "anchoring"} /\ listed' = TRUE
  /\ UNCHANGED <<configured, chainVars, row, job, run, recovery, events>>

\* (mutant) A completed job is left alone.
RecoveredOnce == IF job.state = "absent" THEN [job EXCEPT !.state = "waiting"] ELSE job

\* The job after recovery: added when it is lost, retried when it had completed.
Recovered == IF job.state \in {"absent", "completed"} THEN [job EXCEPT !.state = "waiting"] ELSE job

\* and their jobs.
RecoverJob ==
  /\ listed /\ listed' = FALSE /\ job' = Recovered
  /\ UNCHANGED <<configured, chainVars, row, run, recovery, events>>

Recover(i) == ReadAnchored(i) \/ Judge(i) \/ Repair(i)
Requeue == ListUnfinished \/ RecoverJob

-----------------------------------------------------------------------------
Next ==
  \/ Mine \/ Deepen \/ Revoke \/ Fork \/ Rebroadcast
  \/ Enqueue \/ Orphaned \/ Stalled \/ Configure \/ Requeue
  \/ \E w \in Workers : Run(w) \/ Fails(w) \/ Crash(w)
  \/ \E i \in Instances : Recover(i) \/ JudgeFails(i)

\* Forks, crashes, late runs and missing proofs never condemn a receipt: it is
\* left for review only after its transaction reverted on the chain
\* (anchorer.ts:74-85, receipt-recovery.ts:31-53).
FailedOnlyIfReverted == row.status = "anchor_failed" => tx.everReverted

\* A committed receipt does not stay in flight: it ends anchored by a canonical
\* transaction that has its confirmations, simulated, failed for review, or
\* with a failed job that an operator sees (jobs.ts:66-89).
ReceiptsSettle ==
  <>[](\/ row.status = "anchored" /\ tx.state = "deep" /\ tx.success
       \/ row.status \in {"anchored-sim", "anchor_failed"}
       \/ job.state = "failed")
=============================================================================
