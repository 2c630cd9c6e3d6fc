--------------------------- MODULE SignerJournal ---------------------------
(***************************************************************************)
(* The journal of signed transactions (packages/db/src/signer.ts): every   *)
(* operation of the relay is signed once, committed under a PostgreSQL     *)
(* lock of the signer, broadcast, confirmed at a depth, and after a fork   *)
(* replayed from the committed bytes before a higher nonce is given out.   *)
(*                                                                         *)
(* The lock does not stop the chain: each call to the node is a step of    *)
(* its own, on a chain that mines, forks and forgets pending transactions  *)
(* between them. A transaction of the database is visible when it commits: *)
(* until then its updates are in the draft of the lock's holder.           *)
(***************************************************************************)
EXTENDS Integers, Sequences, FiniteSets

CONSTANTS
  Ops,         \* operation keys
  Senders,     \* executions that send an operation and confirm it
  Workers,     \* executions of the worker's recovery
  Depth,       \* confirmationDepth: blocks above a confirmed one
  NoProc, NoOp,
  ForkDepth,   \* blocks a fork may replace
  MaxForks,    \* bound on forks
  MaxForeign,  \* bound on transactions of the signer that skip the journal
  MaxFaults    \* bound on crashes, failed calls, forgotten transactions

Procs == Senders \cup Workers

ASSUME SignerAssumption ==
  /\ Depth \in Nat /\ ForkDepth \in Nat /\ IsFiniteSet(Ops)
  /\ Senders \cap Workers = {}
  /\ NoProc \notin Procs /\ NoOp \notin Ops
  /\ MaxForks \in Nat /\ MaxForeign \in Nat /\ MaxFaults \in Nat

VARIABLES
  journal,   \* chain_transactions, one row per operation
  draft,     \* the journal as the transaction of the lock's holder sees it
  lock,      \* pg_advisory_xact_lock of the signer
  proc,      \* the executions
  chain,     \* canonical chain; count is the signer's nonce after the block
  pool,      \* signed transactions the node holds pending
  branch,    \* forks so far: a block's hash is its height and branch
  foreign,   \* transactions of the signer so far that skipped the journal
  faults

dbVars == <<journal, draft, lock>>
nodeVars == <<chain, pool, branch, foreign>>
vars == <<dbVars, proc, nodeVars, faults>>

NoTx == [op |-> NoOp, nonce |-> -1]
Txs == [op : Ops \cup {NoOp}, nonce : Nat]
Blocks == [branch : Nat, tx : Txs \cup {NoTx}, outcome : {"success", "reverted"}, count : Nat]
NoBlock == [height |-> 0, branch |-> 0]
NoRow == [nonce |-> 0, status |-> "none", block |-> NoBlock]
Rows == [nonce : Nat, block : [height : Nat, branch : Nat],
         status : {"none", "prepared", "broadcast", "success", "reverted"}]
Idle == [at |-> "idle", op |-> NoOp, nonce |-> 0,
         block |-> NoBlock, outcome |-> "success", todo |-> {}]
Procs0 == [at : {"idle", "checking", "missing", "sending", "marking",
                 "waiting", "seen", "proving"},
           op : Ops \cup {NoOp}, nonce : Nat,
           block : [height : Nat, branch : Nat],
           outcome : {"success", "reverted"}, todo : SUBSET Ops]

TypeOK ==
  /\ journal \in [Ops -> Rows] /\ draft \in [Ops -> Rows]
  /\ lock \in Procs \cup {NoProc}
  /\ proc \in [Procs -> Procs0]
  /\ \A p \in Procs : lock = p <=> proc[p].at \in {"checking", "missing", "proving"}
  /\ lock = NoProc => draft = journal
  /\ chain \in Seq(Blocks) /\ pool \subseteq Txs
  /\ branch \in 0..MaxForks /\ foreign \in 0..MaxForeign /\ faults \in 0..MaxFaults

Init ==
  /\ journal = [o \in Ops |-> NoRow] /\ draft = journal
  /\ lock = NoProc
  /\ proc = [p \in Procs |-> Idle]
  /\ chain = <<>> /\ pool = {}
  /\ branch = 0 /\ foreign = 0 /\ faults = 0

Fault == faults < MaxFaults /\ faults' = faults + 1
Offchain == UNCHANGED <<nodeVars, faults>>

-----------------------------------------------------------------------------
(* What the node answers.                                                   *)

Tx(o) == [op |-> o, nonce |-> journal[o].nonce]
Mined == IF chain = <<>> THEN 0 ELSE chain[Len(chain)].count
At(tx) == {i \in DOMAIN chain : chain[i].tx = tx}
\* The pending count: the first nonce that no mined or pending transaction has.
IsPending(n) ==
  /\ n >= Mined
  /\ \A k \in Mined..(n - 1) : \E tx \in pool : tx.nonce = k
  /\ \A tx \in pool : tx.nonce # n
NextNonces == {n \in Mined..(Mined + Cardinality(pool)) : IsPending(n)}
BlockAt(i) == [height |-> i, branch |-> chain[i].branch]
Canonical(block) ==
  block.height \in DOMAIN chain /\ chain[block.height].branch = block.branch

Recorded(row) == row.status \in {"success", "reverted"}
Written(j, o) == j[o].status # "none"

\* broadcast: the node takes the bytes, or knows them already.
Broadcast(tx) ==
  IF At(tx) = {} /\ tx.nonce >= Mined THEN pool \cup {tx} ELSE pool
Acceptable(tx) == At(tx) # {} \/ tx.nonce >= Mined

-----------------------------------------------------------------------------
(* The locked transactions: reconcileJournal, then send's own part.          *)

Begin(p, o) ==
  /\ proc[p].at = "idle" /\ lock = NoProc
  /\ lock' = p /\ draft' = journal
  /\ proc' = [proc EXCEPT ![p] = [Idle EXCEPT
       !.at = "checking", !.op = o,
       !.block = [height |-> Len(chain), branch |-> 0]]]
  /\ UNCHANGED journal /\ Offchain

Send(p, o) == p \in Senders /\ Begin(p, o)
Recover(p) == p \in Workers /\ Begin(p, NoOp)

\* The head read when reconciliation began.
HeadRead(p) == proc[p].block.height

Row(p, o) == Written(draft, o) /\ draft[o].nonce = proc[p].nonce
RowsLeft(p) == \E o \in Ops : Written(draft, o) /\ draft[o].nonce >= proc[p].nonce

\* (mutant) A confirmation that was deep enough once is permanent.
StillProvenForever(p, row) ==
  Recorded(row) /\ HeadRead(p) >= row.block.height + Depth

StillProven(p, row) ==
  /\ Recorded(row) /\ Canonical(row.block)
  /\ HeadRead(p) >= row.block.height + Depth

NextRow(p) == [proc[p] EXCEPT !.nonce = @ + 1, !.at = "checking"]

\* A row, in nonce order: still proven, found on the chain, or missing.
Check(p) ==
  /\ proc[p].at = "checking" /\ RowsLeft(p)
  /\ \/ /\ \A o \in Ops : ~Row(p, o)
        /\ proc' = [proc EXCEPT ![p] = NextRow(p)] /\ UNCHANGED draft
     \/ \E o \in Ops :
          /\ Row(p, o) /\ StillProven(p, draft[o])
          /\ proc' = [proc EXCEPT ![p] = NextRow(p)] /\ UNCHANGED draft
     \/ \E o \in Ops : \E i \in At(Tx(o)) :
          /\ Row(p, o) /\ ~StillProven(p, draft[o])
          /\ draft' = [draft EXCEPT ![o] =
               IF HeadRead(p) >= i + Depth
               THEN [@ EXCEPT !.status = chain[i].outcome, !.block = BlockAt(i)]
               ELSE [@ EXCEPT !.status = "broadcast", !.block = NoBlock]]
          /\ proc' = [proc EXCEPT ![p] = [NextRow(p) EXCEPT !.todo = @ \cup {o}]]
     \/ \E o \in Ops :
          /\ Row(p, o) /\ ~StillProven(p, draft[o]) /\ At(Tx(o)) = {}
          /\ proc' = [proc EXCEPT ![p].at = "missing", ![p].todo = @ \cup {o}]
          /\ UNCHANGED draft
  /\ UNCHANGED <<journal, lock>> /\ Offchain

\* An error rolls the transaction back; what was broadcast stays broadcast.
Leave(p) ==
  /\ proc' = [proc EXCEPT ![p] = Idle]
  /\ IF lock = p THEN lock' = NoProc /\ draft' = journal
                 ELSE UNCHANGED <<lock, draft>>
  /\ UNCHANGED journal

\* (mutant) An orphaned operation is signed again with the next nonce.
ReplayResigned(p) ==
  /\ proc[p].at = "missing"
  /\ \E o \in Ops, n \in NextNonces :
       /\ Row(p, o) /\ Mined <= draft[o].nonce
       /\ pool' = Broadcast([op |-> o, nonce |-> n])
       /\ draft' = [draft EXCEPT ![o] =
                      [nonce |-> n, status |-> "broadcast", block |-> NoBlock]]
       /\ proc' = [proc EXCEPT ![p] = NextRow(p)]
  /\ UNCHANGED <<journal, lock, chain, branch, foreign, faults>>

\* The nonce is not consumed yet: replay the committed bytes.
Replay(p) ==
  /\ proc[p].at = "missing"
  /\ \E o \in Ops :
       /\ Row(p, o) /\ Mined <= draft[o].nonce
       /\ pool' = Broadcast(Tx(o))
       /\ draft' = [draft EXCEPT ![o].status = "broadcast", ![o].block = NoBlock]
       /\ proc' = [proc EXCEPT ![p] = NextRow(p)]
  /\ UNCHANGED <<journal, lock, chain, branch, foreign, faults>>

\* SignerNonceConflictError: the nonce is consumed, the receipt was not found.
Conflict(p) ==
  /\ proc[p].at = "missing"
  /\ \E o \in Ops : Row(p, o) /\ Mined > draft[o].nonce
  /\ Leave(p) /\ Offchain

Checked(p) == proc[p].at = "checking" /\ ~RowsLeft(p)
Commit(p, j) == journal' = j /\ draft' = j /\ lock' = NoProc

\* The operation exists: its row decides.
Found(p) ==
  LET o == proc[p].op IN
  /\ Checked(p) /\ p \in Senders /\ Written(draft, o)
  /\ Commit(p, draft)
  /\ proc' = [proc EXCEPT ![p] =
       CASE draft[o].status = "reverted" -> Idle
         [] draft[o].status = "success" -> [Idle EXCEPT !.at = "waiting", !.op = o]
         [] OTHER -> [Idle EXCEPT !.at = "sending", !.op = o]]
  /\ Offchain

\* (mutant) The node knows every committed nonce.
NonceAlwaysFree(n) == n \in Nat

\* The node's next nonce is above every committed one.
NonceFree(n) == \A o \in Ops : Written(draft, o) => draft[o].nonce < n

Prepared(n) == [nonce |-> n, status |-> "prepared", block |-> NoBlock]

\* A new operation takes the node's next nonce, never below the journal.
Allocate(p) ==
  /\ Checked(p) /\ p \in Senders /\ ~Written(draft, proc[p].op)
  /\ \E n \in NextNonces :
       NonceFree(n) /\ Commit(p, [draft EXCEPT ![proc[p].op] = Prepared(n)])
  /\ proc' = [proc EXCEPT ![p] = [Idle EXCEPT !.at = "sending", !.op = proc[p].op]]
  /\ Offchain

NonceGap(p) ==
  /\ Checked(p) /\ p \in Senders /\ ~Written(draft, proc[p].op)
  /\ \E n \in NextNonces : ~NonceFree(n)
  /\ Leave(p) /\ Offchain

\* The recovered rows are confirmed in nonce order, once the lock is free again.
Confirming(p) ==
  \/ proc[p].todo = {} /\ proc' = [proc EXCEPT ![p] = Idle]
  \/ \E o \in proc[p].todo :
       /\ \A q \in proc[p].todo : draft[o].nonce <= draft[q].nonce
       /\ proc' = [proc EXCEPT ![p] = [Idle EXCEPT
            !.at = "waiting", !.op = o, !.todo = proc[p].todo \ {o}]]

Recovered(p) ==
  /\ Checked(p) /\ p \in Workers
  /\ Commit(p, draft)
  /\ Confirming(p) /\ Offchain

-----------------------------------------------------------------------------
(* After the commit: the first broadcast, and the proof of the outcome.      *)

BroadcastFirst(p) ==
  LET tx == Tx(proc[p].op) IN
  /\ proc[p].at = "sending" /\ Acceptable(tx)
  /\ pool' = Broadcast(tx)
  /\ proc' = [proc EXCEPT ![p].at = "marking"]
  /\ UNCHANGED <<dbVars, chain, branch, foreign, faults>>

\* The nonce was consumed meanwhile, and the node does not know the hash.
BroadcastRefused(p) ==
  /\ proc[p].at = "sending" /\ ~Acceptable(Tx(proc[p].op))
  /\ Leave(p) /\ Offchain

\* (mutant) The status is advanced whatever it is.
MarkedAlways(row) == [row EXCEPT !.status = "broadcast"]

Marked(row) == IF Recorded(row) THEN row ELSE [row EXCEPT !.status = "broadcast"]

\* The status is advanced unless a confirmer recorded the outcome already. The
\* row may be locked by an update that has not committed.
Mark(p) ==
  LET o == proc[p].op IN
  /\ proc[p].at = "marking" /\ draft[o] = journal[o]
  /\ journal' = [journal EXCEPT ![o] = Marked(@)]
  /\ draft' = [draft EXCEPT ![o] = Marked(@)]
  /\ proc' = [proc EXCEPT ![p].at = "waiting"]
  /\ UNCHANGED lock /\ Offchain

\* waitForTransactionReceipt keeps the first receipt it sees, fork or not.
See(p) ==
  /\ proc[p].at = "waiting"
  /\ \E i \in At(Tx(proc[p].op)) :
       proc' = [proc EXCEPT ![p].at = "seen", ![p].block = BlockAt(i)]
  /\ UNCHANGED dbVars /\ Offchain

\* Deep enough: the receipt is read again, under the lock.
Prove(p) ==
  /\ proc[p].at = "seen" /\ Len(chain) >= proc[p].block.height + Depth
  /\ lock = NoProc
  /\ \E i \in At(Tx(proc[p].op)) :
       proc' = [proc EXCEPT ![p].at = "proving", ![p].block = BlockAt(i),
                            ![p].outcome = chain[i].outcome]
  /\ lock' = p /\ UNCHANGED <<journal, draft>> /\ Offchain

\* (mutant) A mined transaction counts as successful.
OutcomeMined(p) == IF proc[p].at = "proving" THEN "success" ELSE "reverted"

Outcome(p) == proc[p].outcome

\* The head is read after the receipt; the row is written and committed.
Record(p) ==
  /\ proc[p].at = "proving" /\ Len(chain) >= proc[p].block.height + Depth
  /\ Commit(p, [draft EXCEPT ![proc[p].op] =
       [@ EXCEPT !.status = Outcome(p), !.block = proc[p].block]])
  /\ Confirming(p) /\ Offchain

\* A 60 s wait that times out, or a TransactionProofError.
GiveUp(p) ==
  /\ \/ proc[p].at \in {"waiting", "seen"}
     \/ proc[p].at = "proving" /\ Len(chain) < proc[p].block.height + Depth
  /\ Leave(p) /\ Offchain

\* A crash, or an RPC or database call that fails.
Crash(p) ==
  /\ proc[p].at # "idle" /\ Fault
  /\ Leave(p) /\ UNCHANGED nodeVars

-----------------------------------------------------------------------------
(* The chain.                                                                *)

Grow(tx, outcome) ==
  /\ chain' = Append(chain, [branch |-> branch, tx |-> tx, outcome |-> outcome,
                             count |-> IF tx = NoTx THEN Mined ELSE Mined + 1])
  /\ pool' = {other \in pool : other.nonce # Mined \/ tx = NoTx}
  /\ UNCHANGED <<dbVars, proc, branch, faults>>

Mine(tx, outcome) ==
  /\ tx \in pool /\ tx.nonce = Mined
  /\ Grow(tx, outcome) /\ UNCHANGED foreign

\* Blocks without the signer's transactions, as long as one is shallow.
Extend ==
  /\ \E i \in DOMAIN chain : chain[i].tx # NoTx /\ Len(chain) < i + Depth
  /\ Grow(NoTx, "success") /\ UNCHANGED foreign

\* The relay's key signs elsewhere: same signer, no row.
Foreign ==
  /\ foreign < MaxForeign /\ foreign' = foreign + 1
  /\ Grow([op |-> NoOp, nonce |-> Mined], "success")

\* A fork replaces the last n blocks; the transactions it orphans return to
\* the node's pool or are lost.
Fork(n) ==
  LET base == SubSeq(chain, 1, Len(chain) - n)
      count == IF base = <<>> THEN 0 ELSE base[Len(base)].count
      orphans == {chain[i].tx : i \in {i \in DOMAIN chain : i > Len(base) /\ chain[i].tx.op # NoOp}}
  IN /\ branch < MaxForks /\ n <= Len(chain)
     /\ branch' = branch + 1
     /\ chain' = base \o [i \in 1..n |-> [branch |-> branch + 1, tx |-> NoTx,
                                         outcome |-> "success", count |-> count]]
     /\ \E back \in {{}, orphans} : pool' = pool \cup back
     /\ UNCHANGED <<dbVars, proc, foreign, faults>>

\* The node forgets a pending transaction.
Forget(tx) ==
  /\ tx \in pool /\ Fault /\ pool' = pool \ {tx}
  /\ UNCHANGED <<dbVars, proc, chain, branch, foreign>>
-----------------------------------------------------------------------------
Reconcile(p) == Check(p) \/ Replay(p) \/ Conflict(p)
Decide(p) == Found(p) \/ Allocate(p) \/ NonceGap(p) \/ Recovered(p)
Submit(p) == BroadcastFirst(p) \/ BroadcastRefused(p) \/ Mark(p)
Confirm(p) == See(p) \/ Prove(p) \/ Record(p) \/ GiveUp(p)
Step(p) == Reconcile(p) \/ Decide(p) \/ Submit(p) \/ Confirm(p)

MineNext == \E tx \in pool, outcome \in {"success", "reverted"} : Mine(tx, outcome)

Next ==
  \/ \E p \in Procs : Step(p) \/ Crash(p) \/ Recover(p) \/ \E o \in Ops : Send(p, o)
  \/ MineNext \/ Extend \/ Foreign
  \/ \E n \in 1..ForkDepth : Fork(n)
  \/ \E tx \in pool : Forget(tx)

Spec == Init /\ [][Next]_vars

\* Every execution goes on, the chain mines what it can, and the recovery of a
\* worker, which runs every 15 s, gets its turn in the queue of the lock.
Fairness ==
  /\ \A p \in Procs : WF_vars(Step(p))
  /\ \A w \in Workers : SF_vars(Recover(w))
  /\ WF_vars(MineNext) /\ WF_vars(Extend)

FairSpec == Spec /\ Fairness
-----------------------------------------------------------------------------
\* One operation key has one effect: no chain holds two of its transactions,
\* whatever was retried, replayed or forked.
EffectOnce ==
  \A o \in Ops : \A i, j \in DOMAIN chain :
    chain[i].tx.op = o /\ chain[j].tx.op = o => i = j

\* Signed bytes are committed before the first broadcast: whatever the node
\* holds or mined for an operation is the transaction of its row.
CommittedFirst ==
  \A tx \in pool \cup {chain[i].tx : i \in DOMAIN chain} :
    tx.op \in Ops => Written(journal, tx.op) /\ tx = Tx(tx.op)

\* The committed nonces are 0, 1, 2, ... without a hole or a duplicate, whatever
\* the node forgot or a fork undid when the next one was given out: nothing
\* committed can wait behind a nonce nobody will fill (as long as only the
\* journal signs).
NoncesExact ==
  LET written == {o \in Ops : Written(journal, o)} IN
  foreign = 0 => {journal[o].nonce : o \in written} = 0..(Cardinality(written) - 1)

\* A recorded outcome is the outcome of that transaction in the block it names.
RecordMatchesBlock ==
  \A o \in Ops :
    Recorded(journal[o]) /\ Canonical(journal[o].block) =>
      LET block == chain[journal[o].block.height] IN
      block.tx = Tx(o) /\ block.outcome = journal[o].status

\* A recorded outcome is revised only after a fork orphaned its block, whatever
\* a slower execution of the same operation still writes.
RevisedOnlyByForks ==
  [][\A o \in Ops : Recorded(journal[o]) /\ journal'[o] # journal[o] =>
       ~Canonical(journal[o].block)]_vars

\* What was committed is confirmed in the end, the fork or crash between them
\* notwithstanding (as long as only the journal signs).
EventuallyRecorded ==
  \A o \in Ops :
    Written(journal, o) ~>
      foreign > 0 \/ (Recorded(journal[o]) /\ Canonical(journal[o].block))
=============================================================================
