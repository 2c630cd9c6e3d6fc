------------------------ MODULE SignerJournalProofs ------------------------
(***************************************************************************)
(* The safety of the journal: for any operations, executions, depth and    *)
(* number of forks, a transaction known to the node is a committed row's,  *)
(* no operation has two effects, the rows have the nonces 0, 1, 2 without  *)
(* a gap, a recorded outcome is that of the block it names, and it changes *)
(* only when that block is gone.                                           *)
(*                                                                         *)
(* What holds on the chain (CountsRise) gives distinct nonces to distinct  *)
(* blocks, and the rows (Coherent, KnownOps) give one nonce to an          *)
(* operation. The lock's holder reads the database once and the node many  *)
(* times: KnownOps is what is still right when it acts on its reading.     *)
(* NoncesExact needs both views of the rows to have the same nonces.       *)
(*                                                                         *)
(* The outcomes (PInv) rest on blocks that never come back: a fork puts    *)
(* blocks of a new branch where it removed some, so what a receipt said of *)
(* a canonical block stays true, and the lock's holder may use what it has *)
(* read of the chain before it took the lock or since.                     *)
(***************************************************************************)
EXTENDS SignerJournal, SequenceTheorems, FiniteSetTheorems, TLAPS

\* What the lock's holder sees has the nonces and the rows that are committed.
Coherent ==
  \A o \in Ops :
    /\ draft[o].nonce = journal[o].nonce
    /\ Written(draft, o) <=> Written(journal, o)

\* Past the lock an execution works on an operation whose row is committed.
KnownOps ==
  \A p \in Procs :
    /\ proc[p].at \in {"checking", "missing"} /\ p \in Senders => proc[p].op \in Ops
    /\ proc[p].at \in {"sending", "marking", "waiting", "seen", "proving"} =>
         proc[p].op \in Ops /\ Written(journal, proc[p].op)
    /\ \A o \in proc[p].todo : Written(journal, o)

\* A transaction of the signer takes the count of the blocks below it as its
\* nonce, and makes it one more.
CountsRise ==
  /\ \A i \in 1..Len(chain) : chain[i].tx # NoTx => chain[i].tx.nonce = chain[i].count - 1
  /\ \A i, j \in 1..Len(chain) : i < j =>
       /\ chain[i].count <= chain[j].count
       /\ chain[j].tx # NoTx => chain[i].count < chain[j].count
  /\ \A j \in 1..Len(chain) : chain[j].count > 0 =>
       \E i \in 1..j : chain[i].tx # NoTx /\ chain[i].count = chain[j].count

IInv == TypeOK /\ Coherent /\ KnownOps /\ CommittedFirst /\ CountsRise

\* What the type of the chain says of its blocks and of the counts below them.
LEMMA ChainTypes ==
  ASSUME TypeOK
  PROVE  /\ Len(chain) \in Nat /\ DOMAIN chain = 1..Len(chain)
         /\ \A i \in 1..Len(chain) :
              /\ chain[i] \in Blocks /\ chain[i].count \in Nat /\ chain[i].branch \in Nat
              /\ chain[i].outcome \in {"success", "reverted"}
              /\ chain[i].tx \in Txs \cup {NoTx}
              /\ BlockAt(i) \in [height : Nat, branch : Nat]
         /\ Mined \in Nat
<1>1. Len(chain) \in Nat /\ DOMAIN chain = 1..Len(chain)
  BY DEF TypeOK
<1>2. \A i \in 1..Len(chain) :
              /\ chain[i] \in Blocks /\ chain[i].count \in Nat /\ chain[i].branch \in Nat
              /\ chain[i].outcome \in {"success", "reverted"}
              /\ chain[i].tx \in Txs \cup {NoTx}
              /\ BlockAt(i) \in [height : Nat, branch : Nat]
  <2> TAKE i \in 1..Len(chain)
  <2>1. chain[i] \in Blocks
    BY <1>1 DEF TypeOK
  <2> QED BY <1>1, <2>1 DEF Blocks, BlockAt
<1>3. Mined \in Nat
  BY <1>1, <1>2 DEF Mined, TypeOK
<1> QED BY <1>1, <1>2, <1>3

\* The empty journal on the empty chain satisfies the invariant.
LEMMA InitInv == Init => IInv
<1> SUFFICES ASSUME Init PROVE IInv OBVIOUS
<1> USE SignerAssumption DEF Init
<1>1. TypeOK
  <2>1. NoRow \in Rows /\ NoRow.status = "none"
    BY DEF NoRow, Rows, NoBlock
  <2>2. Idle \in Procs0 /\ Idle.at = "idle"
    BY DEF Idle, Procs0, NoBlock
  <2> QED BY <2>1, <2>2 DEF TypeOK
<1>2. Coherent /\ KnownOps /\ CommittedFirst /\ CountsRise
  BY DEF Coherent, KnownOps, CommittedFirst, CountsRise, Idle, Written
<1> QED BY <1>1, <1>2 DEF IInv

\* The rows that exist, and their nonces.
SameRows(j, k) ==
  \A o \in Ops : j[o].nonce = k[o].nonce /\ (Written(j, o) <=> Written(k, o))

\* Where no row changes its nonce, the views still agree with each other and
\* with what the node knows.
LEMMA RowsKept ==
  ASSUME IInv, SameRows(journal, journal'), SameRows(journal', draft'), chain' = chain,
         \A tx \in pool' : tx \in pool \/ \E o \in Ops : Written(journal, o) /\ tx = Tx(o)
  PROVE  Coherent' /\ CommittedFirst' /\ CountsRise'
<1> USE DEF IInv
<1>1. Coherent'
  BY DEF Coherent, SameRows, Written
<1>2. CommittedFirst'
  <2> SUFFICES ASSUME NEW tx \in (pool \cup {chain[i].tx : i \in DOMAIN chain})', tx.op \in Ops
               PROVE  Written(journal, tx.op)' /\ tx = Tx(tx.op)'
    BY DEF CommittedFirst
  <2>1. Written(journal, tx.op) /\ tx = Tx(tx.op)
    <3>1. CASE tx \in pool \cup {chain[i].tx : i \in DOMAIN chain}
      BY <3>1 DEF CommittedFirst
    <3>2. CASE \E o \in Ops : Written(journal, o) /\ tx = Tx(o)
      BY <3>2 DEF Tx
    <3> QED BY <3>1, <3>2
  <2> QED BY <2>1 DEF SameRows, Written, Tx
<1>3. CountsRise'
  BY DEF CountsRise
<1> QED BY <1>1, <1>2, <1>3

\* An execution that ends rolls its transaction back and gives up the lock.
LEMMA LeaveTypes ==
  ASSUME IInv, NEW p \in Procs, Leave(p), UNCHANGED nodeVars,
         faults' \in 0..MaxFaults
  PROVE  IInv'
<1> USE SignerAssumption DEF IInv
<1>1. Idle \in Procs0 /\ Idle.at = "idle" /\ Idle.todo = {}
  BY DEF Idle, Procs0, NoBlock
<1>2. TypeOK'
  <2>1. CASE lock = p
    BY <1>1, <2>1 DEF TypeOK, Leave, nodeVars, Procs
  <2>2. CASE lock # p
    BY <1>1, <2>2 DEF TypeOK, Leave, nodeVars, Procs
  <2> QED BY <2>1, <2>2
<1>3. Coherent' /\ CommittedFirst' /\ CountsRise'
  BY RowsKept DEF Leave, nodeVars, Coherent, SameRows
<1>4. KnownOps'
  BY <1>1 DEF KnownOps, Leave, TypeOK, Written
<1> QED BY <1>2, <1>3, <1>4

\* A new execution takes the lock only when it is free.
LEMMA BeginInv ==
  ASSUME IInv, NEW p \in Procs, NEW o \in Ops \cup {NoOp}, Begin(p, o), p \in Senders => o \in Ops
  PROVE  IInv'
<1> USE SignerAssumption DEF IInv
<1> DEFINE r == [Idle EXCEPT !.at = "checking", !.op = o, !.block = [height |-> Len(chain), branch |-> 0]]
<1>1. r \in Procs0 /\ r.at = "checking" /\ r.todo = {} /\ r.op = o
  BY ChainTypes DEF Idle, Procs0, NoBlock
<1>2. proc' = [proc EXCEPT ![p] = r] /\ lock = NoProc /\ lock' = p /\ journal' = journal
      /\ draft' = journal /\ UNCHANGED <<nodeVars, faults>>
  BY DEF Begin, Offchain
<1> HIDE DEF r
<1>3. TypeOK'
  BY <1>1, <1>2 DEF TypeOK, nodeVars, Procs
<1>4. Coherent' /\ CommittedFirst' /\ CountsRise'
  BY <1>2, RowsKept DEF nodeVars, SameRows
<1>5. KnownOps'
  BY <1>1, <1>2 DEF KnownOps, TypeOK, Written
<1> QED BY <1>3, <1>4, <1>5

\* A step of reconcileJournal that moves on to the next row, after an update of
\* this one or not.
LEMMA RowInv ==
  ASSUME IInv, NEW p \in Procs, NEW r \in Procs0, NEW j \in [Ops -> Rows],
         proc[p].at \in {"checking", "missing"}, r.at \in {"checking", "missing"},
         r.op = proc[p].op, \A o \in r.todo : Written(draft, o),
         SameRows(draft, j), draft' = j, proc' = [proc EXCEPT ![p] = r],
         UNCHANGED <<journal, lock, chain, branch, foreign, faults>>, pool' \subseteq Txs,
         \A tx \in pool' : tx \in pool \/ \E o \in Ops : Written(journal, o) /\ tx = Tx(o),
         p \in Senders => proc[p].op \in Ops
  PROVE  IInv'
<1> USE SignerAssumption DEF IInv
<1>1. lock = p
  BY DEF TypeOK
<1>2. TypeOK'
  BY <1>1 DEF TypeOK, Procs
<1>3. SameRows(journal, journal') /\ SameRows(journal', draft')
  BY DEF SameRows, Coherent, Written
<1>4. Coherent' /\ CommittedFirst' /\ CountsRise'
  BY <1>3, RowsKept
<1>5. \A o \in r.todo : Written(journal, o)
  BY DEF Coherent, Procs0
<1>6. KnownOps'
  BY <1>5 DEF KnownOps, TypeOK, Written
<1> QED BY <1>2, <1>4, <1>6

\* Where a row sends its execution, and with which rows left to visit.
LEMMA NextRowTypes ==
  ASSUME IInv, NEW p \in Procs
  PROVE  /\ proc[p] \in Procs0
         /\ NextRow(p) \in Procs0 /\ NextRow(p).at = "checking"
         /\ NextRow(p).op = proc[p].op /\ NextRow(p).todo = proc[p].todo
         /\ proc[p].todo \subseteq Ops
         /\ \A o \in proc[p].todo : Written(draft, o)
<1>1. proc[p] \in Procs0
  BY DEF IInv, TypeOK
<1>2. NextRow(p) \in Procs0 /\ NextRow(p).at = "checking" /\ NextRow(p).op = proc[p].op
      /\ NextRow(p).todo = proc[p].todo /\ proc[p].todo \subseteq Ops
  <2>1. proc[p].nonce + 1 \in Nat /\ proc[p].todo \subseteq Ops
    BY <1>1 DEF Procs0
  <2>2. NextRow(p).at = "checking" /\ NextRow(p).op = proc[p].op /\ NextRow(p).todo = proc[p].todo
    BY <1>1 DEF NextRow, Procs0
  <2>3. NextRow(p) \in Procs0
    BY <1>1, <2>1 DEF NextRow, Procs0
  <2> QED BY <2>1, <2>2, <2>3
<1>3. \A o \in proc[p].todo : Written(draft, o)
  BY <1>2 DEF IInv, KnownOps, Coherent
<1> QED BY <1>1, <1>2, <1>3

\* Looking up the receipt of a row commits nothing.
LEMMA CheckInv ==
  ASSUME IInv, NEW p \in Procs, Check(p)
  PROVE  IInv'
<1> USE DEF IInv
<1>0. proc[p].at = "checking" /\ UNCHANGED <<journal, lock, nodeVars, faults>>
  BY DEF Check, Offchain
<1>1. p \in Senders => proc[p].op \in Ops
  BY <1>0 DEF KnownOps
<1>2. pool' = pool /\ pool' \subseteq Txs /\ UNCHANGED <<journal, lock, chain, branch, foreign, faults>>
  BY <1>0 DEF nodeVars, TypeOK
<1>3. SameRows(draft, draft) /\ draft \in [Ops -> Rows]
  BY DEF SameRows, TypeOK
<1>4. CASE proc' = [proc EXCEPT ![p] = NextRow(p)] /\ UNCHANGED draft
  BY <1>0, <1>1, <1>2, <1>3, <1>4, NextRowTypes, RowInv
<1>5. ASSUME NEW o \in Ops, NEW i \in At(Tx(o)), Row(p, o),
             draft' = [draft EXCEPT ![o] =
               IF HeadRead(p) >= i + Depth
               THEN [@ EXCEPT !.status = chain[i].outcome, !.block = BlockAt(i)]
               ELSE [@ EXCEPT !.status = "broadcast", !.block = NoBlock]],
             proc' = [proc EXCEPT ![p] = [NextRow(p) EXCEPT !.todo = @ \cup {o}]]
      PROVE  IInv'
  <2> DEFINE r == [NextRow(p) EXCEPT !.todo = @ \cup {o}]
  <2>1. r \in Procs0 /\ r.at = "checking" /\ r.op = proc[p].op /\ r.todo = proc[p].todo \cup {o}
    BY NextRowTypes DEF Procs0
  <2>2. \A q \in r.todo : Written(draft, q)
    BY <2>1, <1>5, NextRowTypes DEF Row
  <2>3. chain[i].outcome \in {"success", "reverted"} /\ BlockAt(i) \in [height : Nat, branch : Nat]
        /\ draft[o] \in Rows /\ NoBlock \in [height : Nat, branch : Nat]
    BY ChainTypes, <1>3 DEF At, NoBlock
  <2>4. draft' \in [Ops -> Rows] /\ SameRows(draft, draft')
    BY <2>3, <1>5, <1>3 DEF Rows, SameRows, Row, Written
  <2> QED BY <1>0, <1>1, <1>2, <1>5, <2>1, <2>2, <2>4, RowInv
<1>6. ASSUME NEW o \in Ops, Row(p, o),
             proc' = [proc EXCEPT ![p].at = "missing", ![p].todo = @ \cup {o}],
             UNCHANGED draft
      PROVE  IInv'
  <2> DEFINE r == [proc[p] EXCEPT !.at = "missing", !.todo = @ \cup {o}]
  <2>1. r \in Procs0 /\ r.at = "missing" /\ r.op = proc[p].op /\ r.todo = proc[p].todo \cup {o}
    BY NextRowTypes DEF Procs0
  <2>2. \A q \in r.todo : Written(draft, q)
    BY <2>1, <1>6, NextRowTypes DEF Row
  <2>3. proc' = [proc EXCEPT ![p] = r]
    BY <1>6 DEF TypeOK
  <2> HIDE DEF r
  <2> QED BY <1>0, <1>1, <1>2, <1>3, <1>6, <2>1, <2>2, <2>3, RowInv
<1> QED BY <1>4, <1>5, <1>6 DEF Check

\* A replay broadcasts a row of the draft, which is a committed one.
LEMMA ReplayInv ==
  ASSUME IInv, NEW p \in Procs, Replay(p)
  PROVE  IInv'
<1> USE DEF IInv
<1> PICK o \in Ops :
       /\ Row(p, o) /\ Mined <= draft[o].nonce
       /\ pool' = Broadcast(Tx(o))
       /\ draft' = [draft EXCEPT ![o].status = "broadcast", ![o].block = NoBlock]
       /\ proc' = [proc EXCEPT ![p] = NextRow(p)]
  BY DEF Replay
<1>1. Written(journal, o) /\ draft[o] \in Rows /\ draft \in [Ops -> Rows]
  BY DEF Coherent, Row, TypeOK
<1>2. Tx(o) \in Txs
  BY DEF Tx, Txs, Rows, TypeOK
<1>3. \A tx \in pool' : tx \in pool \/ tx = Tx(o)
  BY DEF Broadcast
<1>4. pool' \subseteq Txs
  BY <1>2, <1>3 DEF TypeOK
<1>5. draft' \in [Ops -> Rows] /\ SameRows(draft, draft')
  BY <1>1 DEF Rows, SameRows, Row, Written, NoBlock
<1>6. proc[p].at = "missing" /\ UNCHANGED <<journal, lock, chain, branch, foreign, faults>>
  BY DEF Replay
<1>7. p \in Senders => proc[p].op \in Ops
  BY <1>6 DEF KnownOps
<1> QED BY <1>7, <1>1, <1>3, <1>4, <1>5, <1>6, NextRowTypes, RowInv

\* A step that ends the transaction of the lock's holder: rows j are committed.
LEMMA CommitInv ==
  ASSUME IInv, NEW p \in Procs, NEW r \in Procs0, NEW j \in [Ops -> Rows],
         lock = p, Commit(p, j), SameRows(journal, j),
         r.at \in {"idle", "waiting", "sending"},
         r.at # "idle" => r.op \in Ops /\ Written(journal, r.op),
         \A o \in r.todo : Written(journal, o),
         proc' = [proc EXCEPT ![p] = r], UNCHANGED <<nodeVars, faults>>
  PROVE  IInv'
<1> USE SignerAssumption DEF IInv
<1>1. TypeOK'
  BY DEF TypeOK, Procs, Commit, nodeVars
<1>2. Coherent' /\ CommittedFirst' /\ CountsRise'
  <2>1. SameRows(journal, journal') /\ SameRows(journal', draft')
    BY DEF Commit, SameRows
  <2> QED BY <2>1, RowsKept DEF nodeVars
<1>3. KnownOps'
  <2> SUFFICES ASSUME NEW q \in Procs
               PROVE /\ proc'[q].at \in {"checking", "missing"} /\ q \in Senders => proc'[q].op \in Ops
                     /\ proc'[q].at \in {"sending", "marking", "waiting", "seen", "proving"} =>
                          proc'[q].op \in Ops /\ Written(journal', proc'[q].op)
                     /\ \A o \in proc'[q].todo : Written(journal', o)
    BY DEF KnownOps, Written
  <2>1. \A o \in Ops : Written(journal, o) => Written(journal', o)
    BY DEF Commit, SameRows
  <2>2. proc[q] \in Procs0 /\ proc'[q] = IF q = p THEN r ELSE proc[q]
    BY DEF TypeOK
  <2>3. proc[q].todo \subseteq Ops /\ r.todo \subseteq Ops
    BY <2>2 DEF Procs0
  <2> QED BY <2>1, <2>2, <2>3 DEF KnownOps
<1> QED BY <1>1, <1>2, <1>3

\* An execution that ended knows nothing.
LEMMA IdleTypes == Idle \in Procs0 /\ Idle.at = "idle" /\ Idle.todo = {}
BY DEF Idle, Procs0, NoBlock

\* The holder of the lock is one execution.
LEMMA LockHeld ==
  ASSUME IInv, NEW p \in Procs, proc[p].at \in {"checking", "missing", "proving"}
  PROVE  lock = p /\ SameRows(journal, draft) /\ draft \in [Ops -> Rows]
BY DEF IInv, TypeOK, SameRows, Coherent

\* An operation whose row is already committed is not signed again.
LEMMA FoundInv ==
  ASSUME IInv, NEW p \in Procs, Found(p)
  PROVE  IInv'
<1>1. /\ proc[p].at = "checking" /\ p \in Senders /\ Written(draft, proc[p].op)
      /\ Commit(p, draft) /\ UNCHANGED <<nodeVars, faults>>
  BY DEF Found, Checked, Offchain
<1>2. proc[p].op \in Ops /\ Written(journal, proc[p].op)
  BY <1>1 DEF IInv, KnownOps, Coherent
<1>3. PICK r : /\ proc' = [proc EXCEPT ![p] = r]
               /\ \/ r = Idle
                  \/ r = [Idle EXCEPT !.at = "waiting", !.op = proc[p].op]
                  \/ r = [Idle EXCEPT !.at = "sending", !.op = proc[p].op]
  BY DEF Found
<1>4. /\ r \in Procs0 /\ r.at \in {"idle", "waiting", "sending"} /\ r.todo = {}
      /\ r.at # "idle" => r.op = proc[p].op
  <2>1. CASE r = Idle
    BY <2>1, IdleTypes
  <2>2. ASSUME NEW s \in {"waiting", "sending"}, r = [Idle EXCEPT !.at = s, !.op = proc[p].op]
        PROVE  r \in Procs0 /\ r.at = s /\ r.op = proc[p].op /\ r.todo = {}
    BY <1>2, <2>2 DEF Idle, Procs0, NoBlock
  <2> QED BY <1>3, <2>1, <2>2
<1> QED BY <1>1, <1>2, <1>3, <1>4, LockHeld, CommitInv

\* An execution that leaves the lock to confirm commits rows with the nonces they had.
LEMMA ConfirmingInv ==
  ASSUME IInv, NEW p \in Procs, NEW j \in [Ops -> Rows], lock = p, Commit(p, j),
         SameRows(journal, j), Confirming(p), UNCHANGED <<nodeVars, faults>>
  PROVE  IInv'
<1>1. proc[p].todo \subseteq Ops /\ \A o \in proc[p].todo : Written(journal, o)
  BY DEF IInv, TypeOK, Procs0, KnownOps
<1>2. CASE proc' = [proc EXCEPT ![p] = Idle]
  BY <1>2, IdleTypes, CommitInv
<1>3. ASSUME NEW o \in proc[p].todo,
             proc' = [proc EXCEPT ![p] = [Idle EXCEPT
               !.at = "waiting", !.op = o, !.todo = proc[p].todo \ {o}]]
      PROVE  IInv'
  <2> DEFINE r == [Idle EXCEPT !.at = "waiting", !.op = o, !.todo = proc[p].todo \ {o}]
  <2>1. r \in Procs0 /\ r.at = "waiting" /\ r.op = o /\ r.todo = proc[p].todo \ {o}
    BY <1>1 DEF Idle, Procs0, NoBlock
  <2>2. proc' = [proc EXCEPT ![p] = r]
    BY <1>3
  <2> HIDE DEF r
  <2> QED BY <1>1, <2>1, <2>2, CommitInv
<1> QED BY <1>2, <1>3 DEF Confirming

\* The worker's recovery goes on to its next row.
LEMMA RecoveredInv ==
  ASSUME IInv, NEW p \in Procs, Recovered(p)
  PROVE  IInv'
<1>1. proc[p].at = "checking" /\ Commit(p, draft) /\ Confirming(p) /\ UNCHANGED <<nodeVars, faults>>
  BY DEF Recovered, Checked, Offchain
<1> QED BY <1>1, LockHeld, ConfirmingInv

\* The record of a confirmation changes no nonce.
LEMMA RecordInv ==
  ASSUME IInv, NEW p \in Procs, Record(p)
  PROVE  IInv'
<1> DEFINE o == proc[p].op
           j == [draft EXCEPT ![o] = [@ EXCEPT !.status = Outcome(p), !.block = proc[p].block]]
<1>1. proc[p].at = "proving" /\ Commit(p, j) /\ Confirming(p) /\ UNCHANGED <<nodeVars, faults>>
  BY DEF Record, Offchain
<1>2. o \in Ops /\ Written(journal, o)
  BY <1>1 DEF IInv, KnownOps
<1>3. lock = p /\ SameRows(journal, draft) /\ draft \in [Ops -> Rows]
  BY <1>1, LockHeld
<1>4. Outcome(p) \in {"success", "reverted"} /\ proc[p].block \in [height : Nat, branch : Nat]
  BY DEF IInv, TypeOK, Procs0, Outcome
<1>5. draft[o] \in Rows /\ [draft[o] EXCEPT !.status = Outcome(p), !.block = proc[p].block] \in Rows
  BY <1>2, <1>3, <1>4 DEF Rows
<1>6. j \in [Ops -> Rows]
  BY <1>2, <1>3, <1>5
<1>7. SameRows(journal, j)
  <2>1. j[o].nonce = draft[o].nonce /\ j[o].status = Outcome(p)
    BY <1>2, <1>3, <1>5 DEF Rows
  <2>2. \A q \in Ops \ {o} : j[q] = draft[q]
    BY <1>3
  <2> QED BY <1>2, <1>3, <1>4, <2>1, <2>2 DEF SameRows, Written
<1> HIDE DEF j
<1> QED BY <1>1, <1>3, <1>6, <1>7, ConfirmingInv

\* A row that takes the next nonce is committed before it is broadcast.
LEMMA AllocateInv ==
  ASSUME IInv, NEW p \in Procs, Allocate(p)
  PROVE  IInv'
<1> USE SignerAssumption DEF IInv
<1> DEFINE o == proc[p].op
           r == [Idle EXCEPT !.at = "sending", !.op = o]
<1>1. PICK n \in NextNonces : Commit(p, [draft EXCEPT ![o] = Prepared(n)])
  BY DEF Allocate
<1>2. /\ proc[p].at = "checking" /\ p \in Senders /\ ~Written(draft, o)
      /\ proc' = [proc EXCEPT ![p] = r] /\ UNCHANGED <<nodeVars, faults>>
  BY DEF Allocate, Checked, Offchain
<1>3. o \in Ops /\ ~Written(journal, o)
  BY <1>2 DEF KnownOps, Coherent
<1>4. n \in Nat /\ Prepared(n) \in Rows /\ Prepared(n).status = "prepared"
  <2>1. n \in Nat
    BY ChainTypes DEF NextNonces
  <2> QED BY <2>1 DEF Prepared, Rows, NoBlock
<1>5. r \in Procs0 /\ r.at = "sending" /\ r.op = o /\ r.todo = {}
  BY <1>3 DEF Idle, Procs0, NoBlock
<1>6. lock = p /\ draft \in [Ops -> Rows]
  BY <1>2, LockHeld
<1> DEFINE j == [draft EXCEPT ![o] = Prepared(n)]
<1>7. j \in [Ops -> Rows] /\ j[o] = Prepared(n) /\ \A q \in Ops \ {o} : j[q] = draft[q]
  BY <1>3, <1>4, <1>6
<1>8. journal' = j /\ draft' = j /\ lock' = NoProc
  BY <1>1 DEF Commit
<1> HIDE DEF j, r
<1>9. TypeOK'
  BY <1>2, <1>5, <1>6, <1>7, <1>8 DEF TypeOK, Procs, nodeVars
<1>10. Coherent'
  BY <1>8 DEF Coherent, Written
<1>11. \A q \in Ops : Written(journal, q) =>
          q # o /\ Written(journal', q) /\ journal'[q].nonce = journal[q].nonce
  BY <1>3, <1>7, <1>8 DEF Coherent, Written
<1>12. CommittedFirst'
  BY <1>2, <1>11 DEF CommittedFirst, Tx, nodeVars, Written
<1>13. CountsRise'
  BY <1>2 DEF CountsRise, nodeVars
<1>14. KnownOps'
  <2> SUFFICES ASSUME NEW q \in Procs
               PROVE /\ proc'[q].at \in {"checking", "missing"} /\ q \in Senders => proc'[q].op \in Ops
                     /\ proc'[q].at \in {"sending", "marking", "waiting", "seen", "proving"} =>
                          proc'[q].op \in Ops /\ Written(journal', proc'[q].op)
                     /\ \A k \in proc'[q].todo : Written(journal', k)
    BY DEF KnownOps, Written
  <2>1. proc[q] \in Procs0 /\ proc'[q] = IF q = p THEN r ELSE proc[q]
    BY <1>2 DEF TypeOK
  <2>2. proc[q].todo \subseteq Ops
    BY <2>1 DEF Procs0
  <2>3. Written(journal', o)
    BY <1>4, <1>7, <1>8 DEF Written
  <2> QED BY <1>3, <1>5, <1>11, <2>1, <2>2, <2>3 DEF KnownOps
<1> QED BY <1>9, <1>10, <1>12, <1>13, <1>14

\* A step past the lock that changes no row's nonce.
LEMMA MoveInv ==
  ASSUME IInv, NEW p \in Procs, NEW r \in Procs0,
         proc[p].at \in {"sending", "marking", "waiting", "seen"},
         r.at \in {"marking", "waiting", "seen"}, r.op = proc[p].op, r.todo = proc[p].todo,
         proc' = [proc EXCEPT ![p] = r], journal' \in [Ops -> Rows], draft' \in [Ops -> Rows],
         SameRows(journal, journal'), SameRows(journal', draft'),
         lock = NoProc => draft' = journal',
         UNCHANGED <<lock, chain, branch, foreign, faults>>, pool' \subseteq Txs,
         \A tx \in pool' : tx \in pool \/ \E o \in Ops : Written(journal, o) /\ tx = Tx(o)
  PROVE  IInv'
<1> USE SignerAssumption DEF IInv
<1>1. TypeOK'
  BY DEF TypeOK
<1>2. Coherent' /\ CommittedFirst' /\ CountsRise'
  BY RowsKept
<1>3. KnownOps'
  <2> SUFFICES ASSUME NEW q \in Procs
               PROVE /\ proc'[q].at \in {"checking", "missing"} /\ q \in Senders => proc'[q].op \in Ops
                     /\ proc'[q].at \in {"sending", "marking", "waiting", "seen", "proving"} =>
                          proc'[q].op \in Ops /\ Written(journal', proc'[q].op)
                     /\ \A o \in proc'[q].todo : Written(journal', o)
    BY DEF KnownOps, Written
  <2>1. proc[q] \in Procs0 /\ proc'[q] = IF q = p THEN r ELSE proc[q]
    BY DEF TypeOK
  <2>2. proc[q].todo \subseteq Ops
    BY <2>1 DEF Procs0
  <2> QED BY <2>1, <2>2 DEF KnownOps, SameRows
<1> QED BY <1>1, <1>2, <1>3

\* Only a committed row is broadcast.
LEMMA BroadcastInv ==
  ASSUME IInv, NEW p \in Procs, BroadcastFirst(p)
  PROVE  IInv'
<1> USE DEF IInv
<1> DEFINE r == [proc[p] EXCEPT !.at = "marking"]
<1>1. /\ proc[p].at = "sending" /\ pool' = Broadcast(Tx(proc[p].op))
      /\ proc' = [proc EXCEPT ![p] = r] /\ UNCHANGED <<dbVars, chain, branch, foreign, faults>>
  BY DEF BroadcastFirst, TypeOK
<1>2. r \in Procs0 /\ r.at = "marking" /\ r.op = proc[p].op /\ r.todo = proc[p].todo
  BY DEF TypeOK, Procs0
<1>3. proc[p].op \in Ops /\ Written(journal, proc[p].op)
  BY <1>1 DEF KnownOps
<1>4. Tx(proc[p].op) \in Txs
  BY <1>3 DEF TypeOK, Rows, Tx, Txs
<1>5. pool' \subseteq Txs /\ \A tx \in pool' : tx \in pool \/ tx = Tx(proc[p].op)
  BY <1>1, <1>4 DEF TypeOK, Broadcast
<1> HIDE DEF r
<1>6. /\ journal' \in [Ops -> Rows] /\ draft' \in [Ops -> Rows] /\ UNCHANGED lock
      /\ SameRows(journal, journal') /\ SameRows(journal', draft')
      /\ lock = NoProc => draft' = journal'
  BY <1>1 DEF TypeOK, Coherent, SameRows, dbVars
<1> QED BY <1>1, <1>2, <1>3, <1>5, <1>6, MoveInv

\* Marking a row as broadcast changes no nonce.
LEMMA MarkInv ==
  ASSUME IInv, NEW p \in Procs, Mark(p)
  PROVE  IInv'
<1> USE DEF IInv
<1> DEFINE o == proc[p].op
           r == [proc[p] EXCEPT !.at = "waiting"]
<1>1. /\ proc[p].at = "marking" /\ draft[o] = journal[o]
      /\ journal' = [journal EXCEPT ![o] = Marked(@)]
      /\ draft' = [draft EXCEPT ![o] = Marked(@)]
      /\ proc' = [proc EXCEPT ![p] = r] /\ UNCHANGED <<lock, nodeVars, faults>>
  BY DEF Mark, TypeOK, Offchain
<1>2. r \in Procs0 /\ r.at = "waiting" /\ r.op = o /\ r.todo = proc[p].todo
  BY DEF TypeOK, Procs0
<1>3. o \in Ops /\ Written(journal, o)
  BY <1>1 DEF KnownOps
<1>4. /\ Marked(journal[o]) \in Rows /\ Marked(journal[o]).nonce = journal[o].nonce
      /\ Marked(journal[o]).status # "none"
  <2>1. journal[o] \in Rows
    BY <1>3 DEF TypeOK
  <2> QED BY <2>1, <1>3 DEF Marked, Rows, Recorded, Written
<1>5. /\ journal' \in [Ops -> Rows] /\ draft' \in [Ops -> Rows]
      /\ journal'[o] = Marked(journal[o]) /\ draft'[o] = Marked(journal[o])
      /\ \A q \in Ops \ {o} : journal'[q] = journal[q] /\ draft'[q] = draft[q]
      /\ lock = NoProc => draft' = journal'
  BY <1>1, <1>3, <1>4 DEF TypeOK
<1>6. SameRows(journal, journal') /\ SameRows(journal', draft')
  BY <1>3, <1>4, <1>5 DEF SameRows, Coherent, Written
<1>7. pool' = pool /\ pool' \subseteq Txs /\ UNCHANGED <<lock, chain, branch, foreign, faults>>
  BY <1>1 DEF nodeVars, TypeOK
<1> HIDE DEF r
<1> QED BY <1>1, <1>2, <1>5, <1>6, <1>7, MoveInv

\* The receipt that an execution read says nothing new of the rows.
LEMMA SeeInv ==
  ASSUME IInv, NEW p \in Procs, See(p)
  PROVE  IInv'
<1> USE DEF IInv
<1>1. PICK i \in At(Tx(proc[p].op)) :
        proc' = [proc EXCEPT ![p].at = "seen", ![p].block = BlockAt(i)]
  BY DEF See
<1> DEFINE r == [proc[p] EXCEPT !.at = "seen", !.block = BlockAt(i)]
<1>2. proc' = [proc EXCEPT ![p] = r] /\ proc[p].at = "waiting" /\ UNCHANGED <<dbVars, nodeVars, faults>>
  BY <1>1 DEF See, TypeOK, Offchain
<1>3. BlockAt(i) \in [height : Nat, branch : Nat]
  BY ChainTypes DEF At
<1>4. r \in Procs0 /\ r.at = "seen" /\ r.op = proc[p].op /\ r.todo = proc[p].todo
  BY <1>3 DEF TypeOK, Procs0
<1>5. /\ journal' \in [Ops -> Rows] /\ draft' \in [Ops -> Rows]
      /\ SameRows(journal, journal') /\ SameRows(journal', draft')
      /\ lock = NoProc => draft' = journal'
  BY <1>2 DEF TypeOK, Coherent, SameRows, dbVars
<1>6. pool' = pool /\ pool' \subseteq Txs /\ UNCHANGED <<lock, chain, branch, foreign, faults>>
  BY <1>2 DEF dbVars, nodeVars, TypeOK
<1> HIDE DEF r
<1> QED BY <1>2, <1>4, <1>5, <1>6, MoveInv

\* The block that an execution read says nothing new of the rows.
LEMMA ProveInv ==
  ASSUME IInv, NEW p \in Procs, Prove(p)
  PROVE  IInv'
<1> USE SignerAssumption DEF IInv
<1>1. PICK i \in At(Tx(proc[p].op)) :
        proc' = [proc EXCEPT ![p].at = "proving", ![p].block = BlockAt(i),
                             ![p].outcome = chain[i].outcome]
  BY DEF Prove
<1> DEFINE r == [proc[p] EXCEPT !.at = "proving", !.block = BlockAt(i), !.outcome = chain[i].outcome]
<1>2. /\ proc' = [proc EXCEPT ![p] = r] /\ proc[p].at = "seen"
      /\ lock = NoProc /\ lock' = p /\ UNCHANGED <<journal, draft, nodeVars, faults>>
  BY <1>1 DEF Prove, TypeOK, Offchain
<1>3. BlockAt(i) \in [height : Nat, branch : Nat] /\ chain[i].outcome \in {"success", "reverted"}
  BY ChainTypes DEF At
<1>4. r \in Procs0 /\ r.at = "proving" /\ r.op = proc[p].op /\ r.todo = proc[p].todo
  <2>1. PICK b \in [height : Nat, branch : Nat] : b = BlockAt(i)
    BY <1>3
  <2>2. PICK o \in {"success", "reverted"} : o = chain[i].outcome
    BY <1>3
  <2>3. proc[p] \in Procs0
    BY DEF TypeOK, Procs0
  <2>4. r = [proc[p] EXCEPT !.at = "proving", !.block = b, !.outcome = o]
    BY <2>1, <2>2
  <2> HIDE DEF IInv, r
  <2> QED
    BY <2>3, <2>4 DEF Procs0
<1> HIDE DEF r
<1>5. TypeOK'
  BY <1>2, <1>4 DEF TypeOK, Procs, nodeVars
<1>6. Coherent' /\ CommittedFirst' /\ CountsRise'
  BY <1>2, RowsKept DEF nodeVars, SameRows, Coherent
<1>7. KnownOps'
  BY <1>2, <1>4 DEF KnownOps, TypeOK, Written
<1> QED BY <1>5, <1>6, <1>7

\* A step that keeps the first k blocks and puts n blocks after them: one with the signer's
\* transaction tx, which has the next nonce c, or any number without one.
ExtendsBy(k, n, tx, c) ==
  /\ chain' \in Seq(Blocks) /\ Len(chain') = k + n
  /\ \A i \in 1..k : chain'[i] = chain[i]
  /\ c = IF k = 0 THEN 0 ELSE chain[k].count
  /\ tx # NoTx => n = 1 /\ tx.nonce = c
  /\ \A i \in (k + 1)..(k + n) :
       chain'[i].tx = tx /\ chain'[i].count = IF tx = NoTx THEN c ELSE c + 1

\* A chain whose blocks up to k are those of before, and whose later blocks are
\* above them: enough for what the invariant says of the chain.
LEMMA ChainInv ==
  ASSUME IInv, NEW k \in 0..Len(chain), NEW n \in Nat, NEW tx \in Txs \cup {NoTx}, NEW c \in Nat,
         ExtendsBy(k, n, tx, c)
  PROVE  CountsRise'
<1> USE DEF IInv, ExtendsBy
<1>0. Len(chain) \in Nat /\ \A i \in 1..Len(chain) : chain[i].count \in Nat
  BY ChainTypes
<1>a. \A i \in 1..k : i \in 1..Len(chain) /\ chain[i].count <= c
  BY <1>0 DEF CountsRise
<1>1. \A i \in 1..Len(chain') : chain'[i].tx # NoTx => chain'[i].tx.nonce = chain'[i].count - 1
  BY <1>0, <1>a DEF CountsRise
<1>2. \A i, j \in 1..Len(chain') : i < j =>
       /\ chain'[i].count <= chain'[j].count
       /\ chain'[j].tx # NoTx => chain'[i].count < chain'[j].count
  <2> TAKE i, j \in 1..Len(chain')
  <2> HAVE i < j
  <2>1. CASE j <= k
    <3>1. i \in 1..Len(chain) /\ j \in 1..Len(chain) /\ chain'[i] = chain[i] /\ chain'[j] = chain[j]
      BY <1>0, <2>1
    <3> QED BY <3>1 DEF CountsRise
  <2>2. CASE i <= k /\ j > k
    BY <1>0, <1>a, <2>2
  <2>3. CASE i > k
    BY <1>0, <2>3
  <2> QED BY <1>0, <2>1, <2>2, <2>3
<1>3. \A j \in 1..Len(chain') : chain'[j].count > 0 =>
       \E i \in 1..j : chain'[i].tx # NoTx /\ chain'[i].count = chain'[j].count
  <2> TAKE j \in 1..Len(chain')
  <2> HAVE chain'[j].count > 0
  <2>1. CASE j <= k
    <3>0. j \in 1..Len(chain) /\ chain'[j] = chain[j]
      BY <1>0, <2>1
    <3>1. PICK i \in 1..j : chain[i].tx # NoTx /\ chain[i].count = chain[j].count
      BY <3>0 DEF CountsRise
    <3>2. chain'[i] = chain[i] /\ chain'[j] = chain[j]
      BY <1>0, <2>1, <3>1
    <3> QED BY <3>1, <3>2
  <2>2. CASE j > k /\ tx # NoTx
    BY <1>0, <2>2
  <2>3. CASE j > k /\ tx = NoTx
    <3>1. k \in 1..Len(chain) /\ chain'[j].count = chain[k].count /\ chain[k].count > 0
      BY <1>0, <2>3
    <3>2. PICK i \in 1..k : chain[i].tx # NoTx /\ chain[i].count = chain[k].count
      BY <3>1 DEF CountsRise
    <3> QED BY <1>0, <2>3, <3>1, <3>2
  <2> QED BY <1>0, <2>1, <2>2, <2>3
<1> QED BY <1>1, <1>2, <1>3 DEF CountsRise

\* A block with the next nonce of the signer, or without one, keeps the counts rising.
LEMMA GrowInv ==
  ASSUME IInv, NEW tx \in Txs \cup {NoTx}, NEW outcome \in {"success", "reverted"},
         Grow(tx, outcome), tx # NoTx => tx.nonce = Mined, tx.op \in Ops => tx \in pool,
         foreign' \in 0..MaxForeign
  PROVE  IInv'
<1> USE SignerAssumption DEF IInv
<1> DEFINE b == [branch |-> branch, tx |-> tx, outcome |-> outcome,
                 count |-> IF tx = NoTx THEN Mined ELSE Mined + 1]
<1>1. /\ chain' = Append(chain, b) /\ pool' \subseteq pool
      /\ UNCHANGED <<journal, draft, lock, proc, branch, faults>>
  BY DEF Grow, dbVars
<1>2. Mined \in Nat /\ Len(chain) \in Nat
  BY ChainTypes
<1>3. b \in Blocks
  BY <1>2 DEF Blocks, TypeOK
<1>4. /\ chain' \in Seq(Blocks) /\ Len(chain') = Len(chain) + 1
      /\ \A i \in 1..Len(chain) : chain'[i] = chain[i]
      /\ chain'[Len(chain) + 1] = b
  BY <1>1, <1>2, <1>3 DEF TypeOK
<1>5. b.tx = tx /\ b.count = IF tx = NoTx THEN Mined ELSE Mined + 1
  OBVIOUS
<1>6. Mined = IF Len(chain) = 0 THEN 0 ELSE chain[Len(chain)].count
  BY DEF Mined, TypeOK
<1> HIDE DEF b
<1>7. CountsRise'
  <2>1. ExtendsBy(Len(chain), 1, tx, Mined)
    BY <1>2, <1>4, <1>5, <1>6 DEF ExtendsBy
  <2>2. Len(chain) \in 0..Len(chain) /\ 1 \in Nat
    BY <1>2
  <2> QED BY <1>2, <2>1, <2>2, ChainInv
<1>8. TypeOK'
  BY <1>1, <1>4 DEF TypeOK
<1>9. Coherent' /\ KnownOps'
  BY <1>1 DEF Coherent, KnownOps, Written
<1>10. CommittedFirst'
  <2>1. DOMAIN chain = 1..Len(chain) /\ (DOMAIN chain)' = 1..(Len(chain) + 1)
    BY <1>4, ChainTypes DEF TypeOK
  <2>2. \A t \in (pool \cup {chain[i].tx : i \in DOMAIN chain})' :
          t \in pool \cup {chain[i].tx : i \in DOMAIN chain} \cup {tx}
    BY <1>1, <1>2, <1>4, <1>5, <2>1
  <2> QED BY <1>1, <2>2 DEF CommittedFirst, Written, Tx
<1> QED BY <1>7, <1>8, <1>9, <1>10

\* What a fork leaves: the blocks up to k, then n blocks without the signer.
LEMMA ForkChain ==
  ASSUME IInv, NEW n \in Nat, Fork(n)
  PROVE  \E k \in 0..Len(chain), c \in Nat :
           /\ c = IF k = 0 THEN 0 ELSE chain[k].count
           /\ chain' \in Seq(Blocks) /\ Len(chain') = k + n /\ k + n = Len(chain)
           /\ \A i \in 1..k : chain'[i] = chain[i]
           /\ \A i \in (k + 1)..(k + n) : chain'[i].tx = NoTx /\ chain'[i].count = c /\ chain'[i].branch = branch'
<1> USE SignerAssumption DEF IInv
<1> DEFINE k == Len(chain) - n
           base == SubSeq(chain, 1, k)
           c == IF base = <<>> THEN 0 ELSE base[Len(base)].count
           b == [branch |-> branch + 1, tx |-> NoTx, outcome |-> "success", count |-> c]
           new == [i \in 1..n |-> b]
<1>1. /\ branch < MaxForks /\ n <= Len(chain) /\ branch' = branch + 1
      /\ chain' = base \o new
  BY DEF Fork
<1>2. Len(chain) \in Nat /\ k \in 0..Len(chain) /\ DOMAIN chain = 1..Len(chain)
      /\ chain \in Seq(Blocks)
  BY <1>1, ChainTypes DEF TypeOK
<1>3. base \in Seq(Blocks) /\ Len(base) = k /\ \A i \in 1..k : base[i] = chain[i]
  <2>1. 1 \in Int /\ k \in Int /\ \A i \in 1..k : chain[i] \in Blocks
    BY <1>2, ChainTypes
  <2> HIDE DEF k
  <2>2. /\ base \in Seq(Blocks) /\ Len(base) = IF 1 <= k THEN k - 1 + 1 ELSE 0
        /\ \A i \in 1..(k - 1 + 1) : base[i] = chain[1 + i - 1]
    BY <2>1, SubSeqProperties
  <2>3. \A i \in 1..k : i \in 1..(k - 1 + 1) /\ 1 + i - 1 = i
    BY <2>1
  <2>4. k \in Nat
    BY <1>2, <2>1
  <2> QED BY <2>1, <2>2, <2>3, <2>4
<1>4. c \in Nat /\ c = IF k = 0 THEN 0 ELSE chain[k].count
  <2> HIDE DEF k, base
  <2>1. base = <<>> <=> k = 0
    BY <1>2, <1>3, EmptySeq
  <2>2. k # 0 => k \in 1..k /\ k \in 1..Len(chain)
    BY <1>2
  <2>3. k # 0 => base[Len(base)] = chain[k] /\ chain[k].count \in Nat
    BY <1>3, <2>2, ChainTypes
  <2> QED BY <2>1, <2>3
<1> HIDE DEF base, c
<1>5. b \in Blocks /\ b.tx = NoTx /\ b.count = c /\ b.branch = branch'
  BY <1>1, <1>4 DEF Blocks, TypeOK
<1> HIDE DEF b
<1>6. new \in Seq(Blocks) /\ Len(new) = n /\ \A i \in 1..n : new[i] = b
  BY <1>5
<1> HIDE DEF new
<1>7. /\ chain' \in Seq(Blocks) /\ Len(chain') = k + n
      /\ \A i \in 1..k : chain'[i] = chain[i]
      /\ \A i \in (k + 1)..(k + n) : chain'[i] = b
  <2>1. chain' \in Seq(Blocks)
    BY <1>1, <1>3, <1>6, ConcatProperties
  <2>2. Len(chain') = k + n
    BY <1>1, <1>3, <1>6, ConcatProperties
  <2>3. \A i \in 1..(k + n) : chain'[i] = IF i <= k THEN base[i] ELSE new[i - k]
    BY <1>1, <1>3, <1>6, ConcatProperties
  <2>4. \A i \in 1..k : chain'[i] = chain[i]
    BY <1>2, <1>3, <2>3
  <2>5. ASSUME NEW i \in (k + 1)..(k + n) PROVE chain'[i] = b
    <3>1. i \in 1..(k + n) /\ ~(i <= k) /\ i - k \in 1..n
      BY <1>2
    <3> QED BY <1>6, <2>3, <3>1
  <2> QED BY <2>1, <2>2, <2>4, <2>5
<1>8. k + n = Len(chain)
  BY <1>2
<1> HIDE DEF k
<1> QED BY <1>2, <1>4, <1>5, <1>7, <1>8

\* A fork takes transactions off the chain; what stays was committed.
LEMMA ForkInv ==
  ASSUME IInv, NEW n \in Nat, Fork(n)
  PROVE  IInv'
<1> USE SignerAssumption DEF IInv
<1>1. /\ branch < MaxForks /\ branch' = branch + 1
      /\ UNCHANGED <<journal, draft, lock, proc, foreign, faults>>
      /\ \A tx \in pool' : tx \in pool \/ \E i \in DOMAIN chain : tx = chain[i].tx /\ tx.op # NoOp
  BY DEF Fork, dbVars
<1>2. PICK k \in 0..Len(chain), c \in Nat :
           /\ c = IF k = 0 THEN 0 ELSE chain[k].count
           /\ chain' \in Seq(Blocks) /\ Len(chain') = k + n /\ k + n = Len(chain)
           /\ \A i \in 1..k : chain'[i] = chain[i]
           /\ \A i \in (k + 1)..(k + n) : chain'[i].tx = NoTx /\ chain'[i].count = c /\ chain'[i].branch = branch'
  BY ForkChain
<1>3. Len(chain) \in Nat /\ DOMAIN chain = 1..Len(chain)
  BY ChainTypes
<1>4. CountsRise'
  <2>1. ExtendsBy(k, n, NoTx, c)
    BY <1>2 DEF ExtendsBy
  <2>2. NoTx \in Txs \cup {NoTx}
    OBVIOUS
  <2> QED BY <2>1, <2>2, ChainInv
<1>5. pool' \subseteq Txs
  BY <1>1, <1>3, ChainTypes DEF TypeOK, NoTx
<1>6. TypeOK'
  BY <1>1, <1>2, <1>5 DEF TypeOK
<1>7. Coherent' /\ KnownOps'
  BY <1>1 DEF Coherent, KnownOps, Written
<1>8. CommittedFirst'
  <2>1. (DOMAIN chain)' = 1..(k + n)
    BY <1>2
  <2>2. \A t \in (pool \cup {chain[i].tx : i \in DOMAIN chain})' :
          t \in pool \cup {chain[i].tx : i \in DOMAIN chain} \cup {NoTx}
    <3>1. \A i \in 1..(k + n) : chain'[i].tx = NoTx \/ (i \in DOMAIN chain /\ chain'[i] = chain[i])
      BY <1>2, <1>3
    <3> QED BY <1>1, <2>1, <3>1
  <2>3. NoTx.op \notin Ops
    BY DEF NoTx
  <2> QED BY <1>1, <2>2, <2>3 DEF CommittedFirst, Written, Tx
<1> QED BY <1>4, <1>6, <1>7, <1>8

\* A transaction that the node forgot is still committed.
LEMMA ForgetInv ==
  ASSUME IInv, NEW tx \in pool, Forget(tx)
  PROVE  IInv'
<1> USE SignerAssumption DEF IInv
<1>1. /\ pool' \subseteq pool /\ faults' \in 0..MaxFaults
      /\ UNCHANGED <<journal, draft, lock, proc, chain, branch, foreign>>
  BY DEF Forget, Fault, dbVars, TypeOK
<1>2. TypeOK'
  BY <1>1 DEF TypeOK
<1>3. Coherent' /\ CommittedFirst' /\ CountsRise'
  BY <1>1, RowsKept DEF SameRows, Coherent
<1>4. KnownOps'
  BY <1>1 DEF KnownOps, Written
<1> QED BY <1>2, <1>3, <1>4

-----------------------------------------------------------------------------
\* Every step keeps what the rows and the chain agree on.
LEMMA InvNext == IInv /\ [Next]_vars => IInv'
<1> USE SignerAssumption
<1> SUFFICES ASSUME IInv, [Next]_vars PROVE IInv' OBVIOUS
<1>1. ASSUME NEW p \in Procs, Reconcile(p) PROVE IInv'
  <2>1. CASE Check(p)
    BY <2>1, CheckInv
  <2>2. CASE Replay(p)
    BY <2>2, ReplayInv
  <2>3. CASE Conflict(p)
    BY <2>3, LeaveTypes DEF Conflict, Offchain, IInv, TypeOK
  <2> QED BY <1>1, <2>1, <2>2, <2>3 DEF Reconcile
<1>2. ASSUME NEW p \in Procs, Decide(p) PROVE IInv'
  <2>1. CASE NonceGap(p)
    BY <2>1, LeaveTypes DEF NonceGap, Offchain, IInv, TypeOK
  <2> QED BY <1>2, <2>1, FoundInv, AllocateInv, RecoveredInv DEF Decide
<1>3. ASSUME NEW p \in Procs, Submit(p) PROVE IInv'
  <2>1. CASE BroadcastRefused(p)
    BY <2>1, LeaveTypes DEF BroadcastRefused, Offchain, IInv, TypeOK
  <2> QED BY <1>3, <2>1, BroadcastInv, MarkInv DEF Submit
<1>4. ASSUME NEW p \in Procs, Confirm(p) PROVE IInv'
  <2>1. CASE GiveUp(p)
    BY <2>1, LeaveTypes DEF GiveUp, Offchain, IInv, TypeOK
  <2> QED BY <1>4, <2>1, SeeInv, ProveInv, RecordInv DEF Confirm
<1>5. ASSUME NEW p \in Procs, Crash(p) PROVE IInv'
  <2>1. faults' \in 0..MaxFaults
    BY <1>5 DEF Crash, Fault, IInv, TypeOK
  <2> QED BY <1>5, <2>1, LeaveTypes DEF Crash
<1>6. ASSUME NEW p \in Procs, NEW o \in Ops, Send(p, o) PROVE IInv'
  BY <1>6, BeginInv DEF Send
<1>7. ASSUME NEW p \in Procs, Recover(p) PROVE IInv'
  BY <1>7, BeginInv DEF Recover
<1>8. ASSUME MineNext PROVE IInv'
  <2>1. PICK tx \in pool, outcome \in {"success", "reverted"} : Mine(tx, outcome)
    BY <1>8 DEF MineNext
  <2> QED BY <2>1, GrowInv DEF Mine, IInv, TypeOK
<1>9. ASSUME Extend PROVE IInv'
  BY <1>9, GrowInv DEF Extend, NoTx, IInv, TypeOK
<1>10. ASSUME Foreign PROVE IInv'
  <2> DEFINE tx == [op |-> NoOp, nonce |-> Mined]
  <2>1. tx \in Txs /\ tx.nonce = Mined /\ tx.op \notin Ops
    BY ChainTypes DEF IInv, Txs
  <2>2. Grow(tx, "success") /\ foreign' \in 0..MaxForeign
    BY <1>10 DEF Foreign, IInv, TypeOK
  <2> HIDE DEF tx
  <2> QED BY <2>1, <2>2, GrowInv
<1>11. ASSUME NEW n \in 1..ForkDepth, Fork(n) PROVE IInv'
  BY <1>11, ForkInv
<1>12. ASSUME NEW tx \in pool, Forget(tx) PROVE IInv'
  BY <1>12, ForgetInv
<1>13. CASE UNCHANGED vars
  <2>1. UNCHANGED <<journal, draft, lock, proc, chain, pool, branch, foreign, faults>>
    BY <1>13 DEF vars, dbVars, nodeVars
  <2> QED BY <2>1 DEF IInv, TypeOK, Coherent, KnownOps, CommittedFirst, CountsRise, Written, Tx
<1> QED BY <1>1, <1>2, <1>3, <1>4, <1>5, <1>6, <1>7, <1>8, <1>9, <1>10, <1>11, <1>12, <1>13
       DEF Next, Step

\* What the rows and the chain agree on, in every reachable state.
THEOREM Invariance == Spec => []IInv
BY InitInv, InvNext, PTL DEF Spec

\* Rows, executions, lock and chain have the types signer.ts gives them, and the
\* lock is held exactly between its acquisition and the end of the transaction.
THEOREM TypeCorrect == Spec => []TypeOK
<1>1. IInv => TypeOK
  BY DEF IInv
<1> QED BY <1>1, Invariance, PTL

\* Whatever the node holds or mined for an operation was committed before.
THEOREM CommitsFirst == Spec => []CommittedFirst
<1>1. IInv => CommittedFirst
  BY DEF IInv
<1> QED BY <1>1, Invariance, PTL

\* Distinct blocks of the signer have distinct nonces, and an operation has one.
LEMMA OneEffect == IInv => EffectOnce
<1> SUFFICES ASSUME IInv, NEW o \in Ops, NEW i \in 1..Len(chain), NEW j \in 1..Len(chain),
                    chain[i].tx.op = o, chain[j].tx.op = o, i < j
             PROVE  FALSE
  <2>1. DOMAIN chain = 1..Len(chain) /\ Len(chain) \in Nat
    BY ChainTypes DEF IInv
  <2> QED BY <2>1 DEF EffectOnce
<1>1. chain[i].tx = Tx(o) /\ chain[j].tx = Tx(o)
  BY ChainTypes DEF IInv, CommittedFirst
<1>2. chain[i].tx # NoTx /\ chain[j].tx # NoTx
  BY SignerAssumption DEF NoTx
<1>3. chain[i].count = chain[j].count
  <2>1. chain[i].tx.nonce = chain[i].count - 1 /\ chain[j].tx.nonce = chain[j].count - 1
    BY <1>2 DEF IInv, CountsRise
  <2> QED BY <1>1, <2>1, ChainTypes DEF IInv
<1>4. chain[i].count < chain[j].count
  BY <1>2 DEF IInv, CountsRise
<1> QED BY <1>3, <1>4, ChainTypes DEF IInv

\* No operation takes effect twice, with any number of forks of any depth.
THEOREM EffectsOnce == Spec => []EffectOnce
BY OneEffect, Invariance, PTL

-----------------------------------------------------------------------------
\* While nothing foreign was mined, whatever the node knows of the signer
\* belongs to an operation.
OnlyOps ==
  /\ \A tx \in pool : tx.op \in Ops
  /\ foreign = 0 => \A i \in 1..Len(chain) : chain[i].tx.op \in Ops \/ chain[i].tx = NoTx

NInv == IInv /\ OnlyOps /\ NoncesExact

WrittenOps == {o \in Ops : Written(journal, o)}

\* What a step may do to the rows' nonces: nothing, or write one row with the
\* next nonce.
LEMMA RowsStep ==
  ASSUME IInv, [Next]_vars
  PROVE  SameRows(journal, journal') \/ \E p \in Procs : Allocate(p)
<1>1. SameRows(journal, draft) /\ SameRows(journal, journal)
  BY DEF IInv, Coherent, SameRows
<1>2. ASSUME NEW p \in Procs, NEW j, Commit(p, j), SameRows(journal, j)
      PROVE  SameRows(journal, journal')
  BY <1>2 DEF Commit
<1>3. ASSUME journal' = journal PROVE SameRows(journal, journal')
  BY <1>1, <1>3
<1>4. ASSUME NEW p \in Procs, Record(p) PROVE SameRows(journal, journal')
  <2> DEFINE o == proc[p].op
  <2>1. o \in Ops /\ Written(journal, o) /\ draft \in [Ops -> Rows]
    BY <1>4 DEF Record, IInv, KnownOps, TypeOK
  <2>2. Outcome(p) # "none"
    BY DEF IInv, TypeOK, Procs0, Outcome
  <2>3. journal' = [draft EXCEPT ![o] = [@ EXCEPT !.status = Outcome(p), !.block = proc[p].block]]
    BY <1>4 DEF Record, Commit
  <2>4. draft[o] \in Rows
    BY <2>1
  <2>5. journal'[o].nonce = draft[o].nonce /\ journal'[o].status = Outcome(p)
    BY <2>1, <2>3, <2>4 DEF Rows
  <2>6. \A q \in Ops \ {o} : journal'[q] = draft[q]
    BY <2>1, <2>3
  <2> QED BY <1>1, <2>1, <2>2, <2>5, <2>6 DEF SameRows, Written
<1>5. ASSUME NEW p \in Procs, Mark(p) PROVE SameRows(journal, journal')
  <2> DEFINE o == proc[p].op
  <2>1. o \in Ops /\ Written(journal, o) /\ journal \in [Ops -> Rows] /\ journal[o] \in Rows
    BY <1>5 DEF Mark, IInv, KnownOps, TypeOK
  <2>2. journal' = [journal EXCEPT ![o] = Marked(@)]
    BY <1>5 DEF Mark
  <2>3. Marked(journal[o]).nonce = journal[o].nonce /\ Marked(journal[o]).status # "none"
    BY <2>1 DEF Marked, Rows, Recorded, Written
  <2>4. journal'[o] = Marked(journal[o]) /\ \A q \in Ops \ {o} : journal'[q] = journal[q]
    BY <2>1, <2>2
  <2> QED BY <2>1, <2>3, <2>4 DEF SameRows, Written
<1>6. ASSUME NEW p \in Procs, Reconcile(p) PROVE journal' = journal
  BY <1>6 DEF Reconcile, Check, Replay, Conflict, Leave
<1>7. ASSUME NEW p \in Procs, Decide(p), ~Allocate(p) PROVE SameRows(journal, journal')
  BY <1>7, <1>1, <1>3 DEF Decide, Found, NonceGap, Recovered, Commit, Leave
<1>8. ASSUME NEW p \in Procs, Submit(p) PROVE SameRows(journal, journal')
  BY <1>8, <1>3, <1>5 DEF Submit, BroadcastFirst, BroadcastRefused, Leave, dbVars
<1>9. ASSUME NEW p \in Procs, Confirm(p) PROVE SameRows(journal, journal')
  BY <1>9, <1>3, <1>4 DEF Confirm, See, Prove, GiveUp, Leave, dbVars
<1>10. ASSUME NEW p \in Procs, Crash(p) PROVE journal' = journal
  BY <1>10 DEF Crash, Leave
<1>11. ASSUME NEW p \in Procs, NEW o, Begin(p, o) PROVE journal' = journal
  BY <1>11 DEF Begin
<1>12. ASSUME MineNext \/ Extend \/ Foreign \/ (\E n \in 1..ForkDepth : Fork(n))
              \/ (\E tx \in pool : Forget(tx)) \/ UNCHANGED vars
       PROVE  journal' = journal
  BY <1>12 DEF MineNext, Mine, Extend, Foreign, Grow, Fork, Forget, dbVars, vars
<1> QED BY <1>3, <1>6, <1>7, <1>8, <1>9, <1>10, <1>11, <1>12 DEF Next, Step, Send, Recover

\* No step but a foreign transaction makes the node know of another's.
LEMMA OnlyOpsStep ==
  ASSUME IInv, OnlyOps, [Next]_vars
  PROVE  OnlyOps' /\ (foreign' = 0 => foreign = 0)
<1> USE DEF IInv
<1>0. Len(chain) \in Nat /\ DOMAIN chain = 1..Len(chain) /\ foreign \in Nat
  BY ChainTypes DEF TypeOK
<1>1. ASSUME UNCHANGED <<chain, foreign>>,
             \A tx \in pool' : tx \in pool \/ tx.op \in Ops
      PROVE  OnlyOps' /\ (foreign' = 0 => foreign = 0)
  BY <1>1 DEF OnlyOps
<1>2. ASSUME NEW p \in Procs, Step(p) \/ Crash(p) \/ Recover(p) \/ \E o \in Ops : Send(p, o)
      PROVE  UNCHANGED <<chain, foreign>> /\ \A tx \in pool' : tx \in pool \/ tx.op \in Ops
  <2>1. CASE Replay(p)
    BY <2>1 DEF Replay, Broadcast, Tx
  <2>2. CASE BroadcastFirst(p)
    <3>1. proc[p].op \in Ops
      BY <2>2 DEF BroadcastFirst, KnownOps
    <3> QED BY <2>2, <3>1 DEF BroadcastFirst, Broadcast, Tx
  <2>3. CASE Check(p) \/ Conflict(p) \/ Decide(p) \/ BroadcastRefused(p) \/ Mark(p) \/ Confirm(p)
             \/ Crash(p) \/ Recover(p) \/ \E o \in Ops : Send(p, o)
    <3>1. UNCHANGED nodeVars
      BY <2>3 DEF Check, Conflict, Decide, Found, Allocate, NonceGap, Recovered, BroadcastRefused, Mark,
                  Confirm, See, Prove, Record, GiveUp, Crash, Recover, Send, Begin, Offchain
    <3> QED BY <3>1 DEF nodeVars
  <2> QED BY <1>2, <2>1, <2>2, <2>3 DEF Step, Reconcile, Submit
<1>3. ASSUME NEW tx, NEW outcome, Grow(tx, outcome),
             foreign' = 0 => foreign = 0 /\ (tx.op \in Ops \/ tx = NoTx)
      PROVE  OnlyOps' /\ (foreign' = 0 => foreign = 0)
  <2>1. Len(chain') = Len(chain) + 1 /\ (\A i \in 1..Len(chain) : chain'[i] = chain[i])
        /\ chain'[Len(chain) + 1].tx = tx /\ pool' \subseteq pool
    BY <1>0, <1>3 DEF Grow, TypeOK
  <2>2. \A i \in 1..Len(chain') : i \in 1..Len(chain) \/ i = Len(chain) + 1
    BY <1>0, <2>1
  <2> QED BY <1>0, <1>3, <2>1, <2>2 DEF OnlyOps
<1>4. CASE MineNext
  <2>1. PICK tx \in pool, outcome \in {"success", "reverted"} : Mine(tx, outcome)
    BY <1>4 DEF MineNext
  <2> QED BY <1>3, <2>1 DEF Mine, OnlyOps
<1>5. CASE Extend
  BY <1>3, <1>5 DEF Extend
<1>6. CASE Foreign
  BY <1>0, <1>3, <1>6 DEF Foreign
<1>7. ASSUME NEW n \in 1..ForkDepth, Fork(n)
      PROVE  OnlyOps' /\ (foreign' = 0 => foreign = 0)
  <2>1. /\ foreign' = foreign
        /\ \A tx \in pool' : tx \in pool \/ \E i \in DOMAIN chain : tx = chain[i].tx /\ tx.op # NoOp
    BY <1>7 DEF Fork
  <2>2. \A i \in 1..Len(chain') : chain'[i].tx = NoTx \/ (i \in 1..Len(chain) /\ chain'[i] = chain[i])
    <3>1. n \in Nat
      BY SignerAssumption
    <3>2. PICK k \in 0..Len(chain), c \in Nat :
             /\ Len(chain') = k + n
             /\ \A i \in 1..k : chain'[i] = chain[i]
             /\ \A i \in (k + 1)..(k + n) : chain'[i].tx = NoTx /\ chain'[i].count = c
      BY <1>7, <3>1, ForkChain
    <3> QED BY <1>0, <3>1, <3>2
  <2>3. \A i \in DOMAIN chain : chain[i].tx.op # NoOp => chain[i].tx.op \in Ops
    <3> TAKE i \in DOMAIN chain
    <3>1. chain[i].tx \in Txs \cup {NoTx}
      BY <1>0, ChainTypes
    <3> QED BY <3>1 DEF Txs, NoTx
  <2> QED BY <2>1, <2>2, <2>3 DEF OnlyOps
<1>8. ASSUME NEW tx \in pool, Forget(tx) PROVE OnlyOps' /\ (foreign' = 0 => foreign = 0)
  BY <1>1, <1>8 DEF Forget
<1>9. CASE UNCHANGED vars
  BY <1>1, <1>9 DEF vars, nodeVars
<1> QED BY <1>1, <1>2, <1>4, <1>5, <1>6, <1>7, <1>8, <1>9 DEF Next

\* The nonce a new operation takes is the number of rows.
LEMMA NextNonce ==
  ASSUME NInv, foreign = 0, NEW n \in NextNonces, NonceFree(n)
  PROVE  n = Cardinality(WrittenOps)
<1> DEFINE card == Cardinality(WrittenOps)
<1>1. card \in Nat
  BY SignerAssumption, FS_Subset, FS_CardinalityType DEF WrittenOps
<1>2. \A k \in Nat : (\E o \in Ops : Written(journal, o) /\ journal[o].nonce = k) <=> k < card
  <2>1. {journal[o].nonce : o \in WrittenOps} = 0..(card - 1)
    BY DEF NInv, NoncesExact, WrittenOps
  <2> HIDE DEF card
  <2> QED BY <1>1, <2>1 DEF WrittenOps
<1> HIDE DEF card
<1>3. Mined \in Nat /\ n \in Nat /\ IsPending(n)
  BY ChainTypes DEF NInv, IInv, NextNonces
<1>4. card <= n
  <2> SUFFICES ASSUME n < card PROVE FALSE
    BY <1>1, <1>3
  <2>1. PICK o \in Ops : Written(journal, o) /\ journal[o].nonce = n
    BY <1>2, <1>3
  <2>2. Written(draft, o) /\ draft[o].nonce = n
    BY <2>1 DEF NInv, IInv, Coherent
  <2> QED BY <1>3, <2>2 DEF NonceFree
<1>5. \A tx \in pool \cup {chain[i].tx : i \in DOMAIN chain} :
        tx.op \in Ops /\ tx.nonce \in Nat => tx.nonce < card
  BY <1>2 DEF NInv, IInv, CommittedFirst, Tx
<1>6. Mined <= card
  <2> SUFFICES ASSUME Mined > card PROVE FALSE
    BY <1>1, <1>3
  <2> DEFINE L == Len(chain)
  <2>1. L \in Nat /\ DOMAIN chain = 1..L /\ chain # <<>> /\ L \in 1..L /\ Mined = chain[L].count
    <3>1. L \in Nat /\ DOMAIN chain = 1..L /\ chain \in Seq(Blocks)
      BY ChainTypes DEF NInv, IInv, TypeOK
    <3>2. chain # <<>> /\ Mined = chain[L].count
      BY <1>1 DEF Mined
    <3> QED BY <3>1, <3>2, EmptySeq
  <2>2. PICK i \in 1..L : chain[i].tx # NoTx /\ chain[i].count = Mined
    BY <1>1, <1>3, <2>1 DEF NInv, IInv, CountsRise
  <2>3. chain[i].tx.nonce = Mined - 1 /\ chain[i].tx.op \in Ops
    BY <2>2 DEF NInv, IInv, CountsRise, OnlyOps
  <2> QED BY <1>1, <1>3, <1>5, <2>1, <2>3
<1>7. n <= card
  <2> SUFFICES ASSUME n > card PROVE FALSE
    BY <1>1, <1>3
  <2>1. PICK tx \in pool : tx.nonce = card
    BY <1>1, <1>3, <1>6 DEF IsPending
  <2>2. tx.op \in Ops
    BY DEF NInv, OnlyOps
  <2> QED BY <1>1, <1>5, <2>1, <2>2
<1> QED BY <1>1, <1>3, <1>4, <1>7 DEF card

\* A step keeps the nonces of the rows consecutive.
LEMMA NoncesStep ==
  ASSUME NInv, [Next]_vars
  PROVE  NoncesExact'
<1> SUFFICES ASSUME foreign' = 0
             PROVE  {journal'[o].nonce : o \in WrittenOps'} = 0..(Cardinality(WrittenOps') - 1)
  BY DEF NoncesExact, WrittenOps
<1>0. foreign = 0
  BY OnlyOpsStep DEF NInv
<1>1. {journal[o].nonce : o \in WrittenOps} = 0..(Cardinality(WrittenOps) - 1)
  BY <1>0 DEF NInv, NoncesExact, WrittenOps
<1>2. CASE SameRows(journal, journal')
  <2>1. WrittenOps' = WrittenOps
    BY <1>2 DEF WrittenOps, SameRows, Written
  <2>2. \A o \in WrittenOps : journal'[o].nonce = journal[o].nonce
    BY <1>2 DEF WrittenOps, SameRows
  <2> QED BY <1>1, <2>1, <2>2
<1>3. ASSUME NEW p \in Procs, Allocate(p)
      PROVE  {journal'[o].nonce : o \in WrittenOps'} = 0..(Cardinality(WrittenOps') - 1)
  <2> DEFINE q == proc[p].op
  <2>1. PICK n \in NextNonces : NonceFree(n) /\ journal' = [draft EXCEPT ![q] = Prepared(n)]
    BY <1>3 DEF Allocate, Commit
  <2>2. q \in Ops /\ draft \in [Ops -> Rows] /\ ~Written(draft, q)
    BY <1>3 DEF Allocate, Checked, NInv, IInv, KnownOps, TypeOK
  <2>3. n = Cardinality(WrittenOps)
    BY <1>0, <2>1, NextNonce
  <2>4. q \notin WrittenOps /\ IsFiniteSet(WrittenOps) /\ Cardinality(WrittenOps) \in Nat
    BY <2>2, SignerAssumption, FS_Subset, FS_CardinalityType DEF WrittenOps, NInv, IInv, Coherent
  <2>5. journal'[q] = Prepared(n) /\ \A o \in Ops \ {q} : journal'[o] = draft[o]
    BY <2>1, <2>2
  <2>6. journal'[q].nonce = n /\ journal'[q].status = "prepared"
    BY <2>5 DEF Prepared
  <2>7. WrittenOps' = WrittenOps \cup {q}
    BY <2>2, <2>5, <2>6 DEF WrittenOps, Written, NInv, IInv, Coherent
  <2>8. Cardinality(WrittenOps') = n + 1
    BY <2>3, <2>4, <2>7, FS_AddElement
  <2>9. \A o \in WrittenOps : journal'[o].nonce = journal[o].nonce
    BY <2>4, <2>5 DEF WrittenOps, NInv, IInv, Coherent
  <2>10. {journal'[o].nonce : o \in WrittenOps'} = {journal[o].nonce : o \in WrittenOps} \cup {n}
    BY <2>6, <2>7, <2>9
  <2>11. 0..(n - 1) \cup {n} = 0..(n + 1 - 1)
    BY <2>3, <2>4
  <2> QED BY <1>1, <2>3, <2>8, <2>10, <2>11
<1> QED BY <1>2, <1>3, RowsStep DEF NInv

\* The committed nonces are consecutive from zero: none is skipped or given out
\* twice, whatever forks, crashes and forgotten transactions did to the node.
THEOREM NoncesConsecutive == Spec => []NoncesExact
<1>1. Init => NInv
  <2> SUFFICES ASSUME Init PROVE NInv OBVIOUS
  <2>1. OnlyOps
    BY DEF Init, OnlyOps
  <2>2. WrittenOps = {}
    BY DEF Init, WrittenOps, Written, NoRow
  <2>3. NoncesExact
    <3>1. Cardinality({}) = 0
      BY FS_EmptySet
    <3>2. {journal[o].nonce : o \in {}} = 0..(0 - 1)
      OBVIOUS
    <3> QED BY <2>2, <3>1, <3>2 DEF NoncesExact, WrittenOps
  <2> QED BY InitInv, <2>1, <2>3 DEF NInv
<1>2. IInv /\ IInv' /\ OnlyOps /\ NoncesExact /\ [Next]_vars => OnlyOps' /\ NoncesExact'
  BY OnlyOpsStep, NoncesStep DEF NInv
<1>3. NInv => IInv /\ OnlyOps /\ NoncesExact
  BY DEF NInv
<1>4. Init => OnlyOps /\ NoncesExact
  BY <1>1, <1>3
<1> QED BY <1>2, <1>4, Invariance, PTL DEF Spec

-----------------------------------------------------------------------------
\* What confirmations show: the rows and the chain they were read from.

\* A block that has been seen: as long as it is canonical, it holds the
\* transaction with the outcome.
Holds(b, tx, outcome) ==
  /\ b.height \in 1..Len(chain) /\ b.branch <= branch
  /\ Canonical(b) => chain[b.height].tx = tx /\ chain[b.height].outcome = outcome

\* A recorded row was deep enough, and names such a block.
Proven(row, tx) ==
  Recorded(row) => Holds(row.block, tx, row.status) /\ row.block.height + Depth <= Len(chain)

BranchesKnown == \A i \in 1..Len(chain) : chain[i].branch <= branch
NoncesDistinct ==
  \A o, q \in Ops : Written(journal, o) /\ Written(journal, q) /\ journal[o].nonce = journal[q].nonce
                      => o = q
RowsProven == \A o \in Ops : Proven(journal[o], Tx(o)) /\ Proven(draft[o], Tx(o))

\* The lock's holder has changed a committed outcome only if its block is gone.
DraftRevises ==
  \A o \in Ops : Recorded(journal[o]) /\ draft[o] # journal[o] => ~Canonical(journal[o].block)

\* The head that a reconciliation has read is above every confirmation it sees,
\* and a row it found missing is not on the chain any more.
Reconciling(p) ==
  /\ proc[p].at \in {"checking", "missing"} =>
       /\ HeadRead(p) <= Len(chain)
       /\ \A o \in Ops : Recorded(draft[o]) => draft[o].block.height + Depth <= HeadRead(p)
  /\ proc[p].at = "missing" =>
       \A o \in Ops : Row(p, o) /\ Recorded(draft[o]) => ~Canonical(draft[o].block)

\* A confirmer has read the outcome in a block, and the row does not name another
\* one that is canonical.
Confirms(p) ==
  LET o == proc[p].op IN
  proc[p].at = "proving" =>
    /\ draft = journal /\ Holds(proc[p].block, Tx(o), proc[p].outcome)
    /\ Recorded(journal[o]) /\ Canonical(journal[o].block) =>
         journal[o].block = proc[p].block /\ journal[o].status = proc[p].outcome

PInv == /\ BranchesKnown /\ NoncesDistinct /\ RowsProven /\ DraftRevises
        /\ \A p \in Procs : Reconciling(p) /\ Confirms(p)

-----------------------------------------------------------------------------
\* Blocks are never taken back into the chain: what a fork removes, it replaces
\* by blocks of its own branch.
ChainGoesOn ==
  /\ Len(chain) <= Len(chain') /\ branch <= branch'
  /\ \A i \in 1..Len(chain) : chain'[i] = chain[i] \/ chain'[i].branch > branch
  /\ BranchesKnown'

LEMMA GrowGoesOn ==
  ASSUME IInv, PInv, NEW tx \in Txs \cup {NoTx}, NEW outcome, Grow(tx, outcome)
  PROVE  ChainGoesOn /\ UNCHANGED <<journal, draft, lock, proc>>
<1>1. Len(chain) \in Nat /\ branch \in Nat /\ \A i \in 1..Len(chain) : chain[i].branch \in Nat
  BY ChainTypes, SignerAssumption DEF IInv, TypeOK
<1>2. PICK b : b = [branch |-> branch, tx |-> tx, outcome |-> outcome,
                    count |-> IF tx = NoTx THEN Mined ELSE Mined + 1]
  OBVIOUS
<1>3. chain' = Append(chain, b) /\ branch' = branch /\ b.branch = branch
      /\ UNCHANGED <<journal, draft, lock, proc>>
  BY <1>2 DEF Grow, dbVars
<1>4. chain \in Seq(Blocks)
  BY DEF IInv, TypeOK
<1>5. /\ Len(chain') = Len(chain) + 1 /\ chain'[Len(chain) + 1] = b
      /\ \A i \in 1..Len(chain) : chain'[i] = chain[i]
  BY <1>3, <1>4
<1>6. BranchesKnown'
  BY <1>1, <1>3, <1>5 DEF BranchesKnown, PInv
<1> QED
  BY <1>1, <1>3, <1>5, <1>6 DEF ChainGoesOn

LEMMA ForkGoesOn ==
  ASSUME IInv, PInv, NEW n \in Nat, Fork(n)
  PROVE  ChainGoesOn /\ UNCHANGED <<journal, draft, lock, proc>>
<1>1. Len(chain) \in Nat /\ branch \in Nat /\ \A i \in 1..Len(chain) : chain[i].branch \in Nat
  BY ChainTypes, SignerAssumption DEF IInv, TypeOK
<1>2. branch' = branch + 1 /\ UNCHANGED <<journal, draft, lock, proc>>
  BY DEF Fork, dbVars
<1>3. PICK k \in 0..Len(chain), c \in Nat :
           /\ c = IF k = 0 THEN 0 ELSE chain[k].count
           /\ chain' \in Seq(Blocks) /\ Len(chain') = k + n /\ k + n = Len(chain)
           /\ \A i \in 1..k : chain'[i] = chain[i]
           /\ \A i \in (k + 1)..(k + n) : chain'[i].tx = NoTx /\ chain'[i].count = c /\ chain'[i].branch = branch'
  BY ForkChain
<1>4. \A i \in 1..Len(chain) : chain'[i] = chain[i] \/ chain'[i].branch = branch'
  BY <1>1, <1>3
<1>5. BranchesKnown'
  BY <1>1, <1>2, <1>3, <1>4 DEF BranchesKnown, PInv
<1> QED
  BY <1>1, <1>2, <1>3, <1>4, <1>5 DEF ChainGoesOn

\* What was seen of the chain stays true while it goes on.
LEMMA HoldsStays ==
  ASSUME IInv, IInv', ChainGoesOn, NEW b \in [height : Nat, branch : Nat], NEW tx, NEW outcome,
         Holds(b, tx, outcome)
  PROVE  Holds(b, tx, outcome)' /\ (Canonical(b)' => Canonical(b))
<1>1. /\ Len(chain) \in Nat /\ DOMAIN chain = 1..Len(chain)
      /\ Len(chain') \in Nat /\ DOMAIN chain' = 1..Len(chain')
      /\ branch \in Nat /\ branch' \in Nat
  BY ChainTypes, SignerAssumption DEF IInv, TypeOK
<1>2. b.height \in 1..Len(chain) /\ b.branch <= branch /\ b.branch \in Nat
  BY DEF Holds
<1>3. b.height \in 1..Len(chain') /\ b.branch <= branch'
  BY <1>1, <1>2 DEF ChainGoesOn
<1>4. Canonical(b)' => chain'[b.height] = chain[b.height]
  BY <1>1, <1>2 DEF Canonical, ChainGoesOn
<1>5. Canonical(b)' => Canonical(b)
  BY <1>1, <1>2, <1>4 DEF Canonical
<1> QED
  BY <1>3, <1>4, <1>5 DEF Holds

LEMMA RowTypes ==
  ASSUME IInv, NEW o \in Ops
  PROVE  /\ journal[o] \in Rows /\ draft[o] \in Rows
         /\ journal[o].block \in [height : Nat, branch : Nat] /\ journal[o].block.height \in Nat
         /\ draft[o].block \in [height : Nat, branch : Nat] /\ draft[o].block.height \in Nat
         /\ draft[o].nonce = journal[o].nonce /\ journal[o].nonce \in Nat
         /\ Recorded(journal[o]) => Written(journal, o)
         /\ Recorded(draft[o]) => Written(draft, o)
         /\ Written(draft, o) <=> Written(journal, o)
<1>1. journal[o] \in Rows /\ draft[o] \in Rows
  BY DEF IInv, TypeOK
<1> QED
  BY <1>1 DEF Rows, IInv, Coherent, Recorded, Written

LEMMA ProcTypes ==
  ASSUME IInv, NEW p \in Procs
  PROVE  /\ proc[p] \in Procs0 /\ proc[p].block \in [height : Nat, branch : Nat]
         /\ proc[p].nonce \in Nat /\ HeadRead(p) = proc[p].block.height /\ HeadRead(p) \in Nat
         /\ proc[p].at = "proving" => proc[p].op \in Ops /\ Written(journal, proc[p].op)
         /\ proc[p].at \in {"checking", "missing", "proving"} => lock = p
         /\ \A q \in Procs : q # p /\ lock = p => proc[q].at \notin {"checking", "missing", "proving"}
         /\ lock = NoProc => proc[p].at \notin {"checking", "missing", "proving"}
<1>1. proc[p] \in Procs0
  BY DEF IInv, TypeOK
<1>2. \A q \in Procs : lock = q <=> proc[q].at \in {"checking", "missing", "proving"}
  BY DEF IInv, TypeOK
<1>3. NoProc \notin Procs
  BY SignerAssumption
<1>4. proc[p].block \in [height : Nat, branch : Nat] /\ proc[p].nonce \in Nat
      /\ HeadRead(p) = proc[p].block.height /\ HeadRead(p) \in Nat
  BY <1>1 DEF Procs0, HeadRead
<1>5. proc[p].at = "proving" => proc[p].op \in Ops /\ Written(journal, proc[p].op)
  BY DEF IInv, KnownOps
<1> QED
  BY <1>1, <1>2, <1>3, <1>4, <1>5

\* The chain goes on under the executions.
LEMMA NodeKeeps ==
  ASSUME IInv, IInv', PInv, ChainGoesOn, UNCHANGED <<journal, draft, lock, proc>>
  PROVE  PInv'
<1>1. /\ Len(chain) \in Nat /\ Len(chain') \in Nat /\ Len(chain) <= Len(chain') /\ Depth \in Nat
  BY ChainTypes, SignerAssumption DEF IInv, ChainGoesOn
<1>2. ASSUME NEW row \in Rows, NEW tx, Proven(row, tx)
      PROVE  Proven(row, tx)' /\ (Recorded(row) /\ Canonical(row.block)' => Canonical(row.block))
  <2>1. row.block \in [height : Nat, branch : Nat] /\ row.block.height \in Nat
    BY <1>2 DEF Rows
  <2> QED
    BY <1>1, <1>2, <2>1, HoldsStays DEF Proven
<1>3. \A o \in Ops : Tx(o)' = Tx(o)
  BY DEF Tx
<1>4. RowsProven'
  BY <1>2, <1>3, RowTypes DEF PInv, RowsProven
<1>5. \A o \in Ops : /\ Recorded(journal[o]) /\ Canonical(journal[o].block)' => Canonical(journal[o].block)
                     /\ Recorded(draft[o]) /\ Canonical(draft[o].block)' => Canonical(draft[o].block)
  BY <1>2, RowTypes DEF PInv, RowsProven
<1>6. DraftRevises'
  BY <1>5 DEF PInv, DraftRevises
<1>7. ASSUME NEW p \in Procs PROVE Reconciling(p)'
  <2>1. Reconciling(p) /\ HeadRead(p) \in Nat
    BY ProcTypes DEF PInv
  <2> QED
    BY <1>1, <1>5, <2>1 DEF Reconciling, HeadRead, Row
<1>8. ASSUME NEW p \in Procs PROVE Confirms(p)'
  <2> SUFFICES ASSUME proc[p].at = "proving" PROVE Confirms(p)'
    BY DEF Confirms
  <2>1. /\ proc[p].op \in Ops /\ proc[p].block \in [height : Nat, branch : Nat]
        /\ Confirms(p)
    BY ProcTypes DEF PInv
  <2>2. Holds(proc[p].block, Tx(proc[p].op), proc[p].outcome)'
    BY <1>3, <2>1, HoldsStays DEF Confirms
  <2> QED
    BY <1>5, <2>1, <2>2 DEF Confirms
<1>9. BranchesKnown' /\ NoncesDistinct'
  BY DEF PInv, ChainGoesOn, NoncesDistinct, Written
<1> QED
  BY <1>4, <1>6, <1>7, <1>8, <1>9 DEF PInv

\* The rows that are written name what they named.
LEMMA SameProofs ==
  ASSUME UNCHANGED <<chain, branch>>
  PROVE  /\ \A b : Canonical(b)' = Canonical(b)
         /\ \A b, tx, outcome : Holds(b, tx, outcome)' = Holds(b, tx, outcome)
         /\ \A row, tx : Proven(row, tx)' = Proven(row, tx)
         /\ BranchesKnown' = BranchesKnown
BY DEF Canonical, Holds, Proven, Recorded, BranchesKnown

\* A step of an execution that changes no row.
LEMMA RowsUnchangedKeep ==
  ASSUME IInv, PInv, UNCHANGED <<journal, draft, chain, branch>>,
         \A p \in Procs : Reconciling(p)' /\ Confirms(p)'
  PROVE  PInv'
<1>1. \A o \in Ops : Tx(o)' = Tx(o)
  BY DEF Tx
<1> QED
  BY <1>1, SameProofs DEF PInv, RowsProven, DraftRevises, NoncesDistinct, Written

\* The end of a transaction: rows j are committed.
LEMMA ReleaseKeeps ==
  ASSUME IInv, IInv', PInv, lock' = NoProc, UNCHANGED <<chain, branch>>, NoncesDistinct',
         \A o \in Ops : Proven(journal'[o], Tx(o)')
  PROVE  PInv'
<1>1. draft' = journal'
  BY DEF IInv, TypeOK
<1>2. RowsProven' /\ BranchesKnown'
  BY <1>1, SameProofs DEF RowsProven, PInv
<1>3. DraftRevises'
  BY <1>1 DEF DraftRevises
<1>4. \A p \in Procs : proc'[p].at \notin {"checking", "missing", "proving"}
  BY SignerAssumption DEF IInv, TypeOK
<1>5. \A p \in Procs : Reconciling(p)' /\ Confirms(p)'
  BY <1>4 DEF Reconciling, Confirms
<1> QED
  BY <1>2, <1>3, <1>5 DEF PInv

\* Committing the draft as it is, or rolling it back.
LEMMA EndKeeps ==
  ASSUME IInv, IInv', PInv, lock' = NoProc, journal' \in {journal, draft}, UNCHANGED <<chain, branch>>
  PROVE  PInv'
<1>1. \A o \in Ops : Tx(o)' = Tx(o) /\ (Written(journal, o)' <=> Written(journal, o)) /\ journal'[o].nonce = journal[o].nonce
  BY DEF IInv, Coherent, Tx, Written
<1>2. NoncesDistinct'
  BY <1>1 DEF PInv, NoncesDistinct
<1>3. \A o \in Ops : Proven(journal'[o], Tx(o)')
  BY <1>1 DEF PInv, RowsProven
<1> QED
  BY <1>2, <1>3, ReleaseKeeps

\* An execution that gives up.
LEMMA LeaveKeeps ==
  ASSUME IInv, IInv', PInv, NEW p \in Procs, Leave(p), UNCHANGED <<chain, branch>>
  PROVE  PInv'
<1>1. CASE lock = p
  BY <1>1, EndKeeps DEF Leave
<1>2. CASE lock # p
  <2>1. UNCHANGED <<journal, draft>> /\ proc' = [proc EXCEPT ![p] = Idle]
    BY <1>2 DEF Leave
  <2>2. ASSUME NEW q \in Procs PROVE Reconciling(q)' /\ Confirms(q)'
    <3>1. proc'[q] = IF q = p THEN Idle ELSE proc[q]
      BY <2>1 DEF IInv, TypeOK
    <3>2. CASE q = p
      BY <3>1, <3>2 DEF Idle, Reconciling, Confirms
    <3>3. CASE q # p
      <4>1. \A o \in Ops : Tx(o)' = Tx(o)
        BY <2>1 DEF Tx
      <4>2. proc[q].at = "proving" => proc[q].op \in Ops
        BY ProcTypes
      <4> QED
        BY <2>1, <3>1, <3>3, <4>1, <4>2, SameProofs DEF PInv, Reconciling, Confirms, HeadRead, Row, Written
    <3> QED
      BY <3>2, <3>3
  <2> QED
    BY <2>1, <2>2, RowsUnchangedKeep
<1> QED
  BY <1>1, <1>2

\* An execution whose rows and whose own state do not change.
LEMMA OthersKeep ==
  ASSUME IInv, PInv, UNCHANGED <<journal, draft, chain, branch>>, NEW q \in Procs, proc'[q] = proc[q]
  PROVE  Reconciling(q)' /\ Confirms(q)'
<1>1. \A o \in Ops : Tx(o)' = Tx(o)
  BY DEF Tx
<1>2. proc[q].at = "proving" => proc[q].op \in Ops
  BY ProcTypes
<1> QED
  BY <1>1, <1>2, SameProofs DEF PInv, Reconciling, Confirms, HeadRead, Row, Written

LEMMA BeginKeeps ==
  ASSUME IInv, IInv', PInv, NEW p \in Procs, NEW o, Begin(p, o)
  PROVE  PInv'
<1>1. PICK r : /\ r = [Idle EXCEPT !.at = "checking", !.op = o, !.block = [height |-> Len(chain), branch |-> 0]]
               /\ proc' = [proc EXCEPT ![p] = r]
  BY DEF Begin
<1>2. /\ r.at = "checking" /\ r.block.height = Len(chain) /\ Len(chain) \in Nat
  BY <1>1, ChainTypes DEF Idle, IInv
<1>3. draft = journal /\ UNCHANGED <<journal, draft, chain, branch>>
  BY DEF Begin, IInv, TypeOK, Offchain, nodeVars
<1>4. ASSUME NEW q \in Procs PROVE Reconciling(q)' /\ Confirms(q)'
  <2>1. proc'[q] = IF q = p THEN r ELSE proc[q]
    BY <1>1 DEF IInv, TypeOK
  <2>2. CASE q # p
    BY <1>3, <2>1, <2>2, OthersKeep
  <2>3. CASE q = p
    <3>1. HeadRead(q)' = Len(chain)
      BY <1>2, <2>1, <2>3 DEF HeadRead
    <3>2. \A u \in Ops : Recorded(draft[u]) => draft[u].block.height + Depth <= Len(chain)
      BY DEF PInv, RowsProven, Proven
    <3> QED
      BY <1>2, <1>3, <2>1, <2>3, <3>1, <3>2 DEF Reconciling, Confirms, Recorded
  <2> QED
    BY <2>2, <2>3
<1> QED
  BY <1>3, <1>4, RowsUnchangedKeep

\* Moves of an execution that holds no lock.
LEMMA MovesKeep ==
  ASSUME IInv, IInv', PInv, NEW p \in Procs, BroadcastFirst(p) \/ See(p)
  PROVE  PInv'
<1>1. UNCHANGED <<journal, draft, chain, branch>>
  BY DEF BroadcastFirst, See, dbVars, Offchain, nodeVars
<1>2. proc'[p].at \in {"marking", "seen"} /\ \A q \in Procs : q # p => proc'[q] = proc[q]
  BY DEF BroadcastFirst, See, IInv, TypeOK, Procs0
<1>3. Reconciling(p)' /\ Confirms(p)'
  BY <1>2 DEF Reconciling, Confirms
<1> QED
  BY <1>1, <1>2, <1>3, OthersKeep, RowsUnchangedKeep

\* The transaction of an operation is in one block.
LEMMA OneBlock ==
  ASSUME IInv, NEW o \in Ops, NEW i \in 1..Len(chain), NEW k \in 1..Len(chain),
         chain[i].tx = Tx(o), chain[k].tx = Tx(o)
  PROVE  i = k
<1>1. DOMAIN chain = 1..Len(chain) /\ Tx(o).op = o
  BY ChainTypes DEF IInv, Tx
<1> QED
  BY <1>1, OneEffect DEF EffectOnce

\* A block of the chain that holds the transaction.
LEMMA SeenBlock ==
  ASSUME IInv, PInv, NEW o \in Ops, NEW i \in At(Tx(o))
  PROVE  /\ i \in 1..Len(chain) /\ i \in Nat /\ chain[i].tx = Tx(o) /\ chain[i].outcome \in {"success", "reverted"}
         /\ BlockAt(i) \in [height : Nat, branch : Nat] /\ BlockAt(i).height = i
         /\ Canonical(BlockAt(i)) /\ Holds(BlockAt(i), Tx(o), chain[i].outcome)
<1>1. DOMAIN chain = 1..Len(chain) /\ Len(chain) \in Nat
  BY ChainTypes DEF IInv
<1>2. i \in 1..Len(chain) /\ i \in Nat /\ chain[i].tx = Tx(o)
  BY <1>1 DEF At
<1>3. chain[i].outcome \in {"success", "reverted"} /\ BlockAt(i) \in [height : Nat, branch : Nat]
  BY <1>2, ChainTypes DEF IInv
<1>4. BlockAt(i).height = i /\ BlockAt(i).branch = chain[i].branch /\ chain[i].branch <= branch
  BY <1>2 DEF BlockAt, PInv, BranchesKnown
<1> QED
  BY <1>1, <1>2, <1>3, <1>4 DEF Canonical, Holds

LEMMA ProveKeeps ==
  ASSUME IInv, IInv', PInv, NEW p \in Procs, Prove(p)
  PROVE  PInv'
<1>1. PICK o \in Ops : o = proc[p].op
  BY DEF Prove, IInv, KnownOps
<1>2. PICK i \in At(Tx(o)) :
        proc' = [proc EXCEPT ![p].at = "proving", ![p].block = BlockAt(i), ![p].outcome = chain[i].outcome]
  BY <1>1 DEF Prove
<1>3. /\ i \in 1..Len(chain) /\ i \in Nat /\ chain[i].tx = Tx(o)
      /\ BlockAt(i) \in [height : Nat, branch : Nat] /\ BlockAt(i).height = i
      /\ Canonical(BlockAt(i)) /\ Holds(BlockAt(i), Tx(o), chain[i].outcome)
  BY SeenBlock
<1>4. draft = journal /\ UNCHANGED <<journal, draft, chain, branch>>
  BY DEF Prove, IInv, TypeOK, Offchain, nodeVars
<1>5. /\ \A q \in Procs : q # p => proc'[q] = proc[q]
      /\ proc'[p].at = "proving" /\ proc'[p].op = o /\ proc'[p].block = BlockAt(i)
      /\ proc'[p].outcome = chain[i].outcome
  BY <1>1, <1>2 DEF IInv, TypeOK, Procs0
<1>6. ASSUME Recorded(journal[o]), Canonical(journal[o].block)
      PROVE  journal[o].block = BlockAt(i) /\ journal[o].status = chain[i].outcome
  <2>1. /\ journal[o].block.height \in 1..Len(chain) /\ journal[o].block \in [height : Nat, branch : Nat]
        /\ chain[journal[o].block.height].tx = Tx(o)
        /\ chain[journal[o].block.height].outcome = journal[o].status
        /\ chain[journal[o].block.height].branch = journal[o].block.branch
    BY <1>6, RowTypes DEF PInv, RowsProven, Proven, Holds, Canonical
  <2>2. journal[o].block.height = i
    BY <1>3, <2>1, OneBlock
  <2>3. journal[o].block = [height |-> i, branch |-> chain[i].branch]
    BY <2>1, <2>2
  <2> QED
    BY <2>1, <2>2, <2>3 DEF BlockAt
<1>7. Reconciling(p)' /\ Confirms(p)'
  <2>1. Tx(o)' = Tx(o) /\ (Recorded(journal[o])' <=> Recorded(journal[o]))
    BY <1>4 DEF Tx, Recorded
  <2> QED
    BY <1>3, <1>4, <1>5, <1>6, <2>1, SameProofs DEF Reconciling, Confirms
<1> QED
  BY <1>4, <1>5, <1>7, OthersKeep, RowsUnchangedKeep

\* The holder of the lock changes the draft of a row whose proof is gone, and goes on.
LEMMA DraftKeeps ==
  ASSUME IInv, IInv', PInv, NEW p \in Procs, proc[p].at \in {"checking", "missing"},
         NEW o \in Ops, NEW y \in Rows, draft' = [draft EXCEPT ![o] = y],
         UNCHANGED <<journal, chain, branch>>,
         proc'[p].at = "checking", proc'[p].block = proc[p].block, \A q \in Procs : q # p => proc'[q] = proc[q],
         Proven(y, Tx(o)), Recorded(y) => y.block.height + Depth <= HeadRead(p),
         Recorded(draft[o]) => ~Canonical(draft[o].block)
  PROVE  PInv'
<1>1. \A q \in Ops : draft'[q] = (IF q = o THEN y ELSE draft[q]) /\ Tx(q)' = Tx(q)
  BY DEF IInv, TypeOK, Tx
<1>2. RowsProven'
  BY <1>1, SameProofs DEF PInv, RowsProven
<1>3. DraftRevises'
  <2> SUFFICES ASSUME NEW q \in Ops, Recorded(journal[q]), draft'[q] # journal[q]
               PROVE  ~Canonical(journal[q].block)
    BY SameProofs DEF DraftRevises, Recorded
  <2> QED
    BY <1>1 DEF PInv, DraftRevises
<1>4. ASSUME NEW q \in Procs PROVE Reconciling(q)' /\ Confirms(q)'
  <2>1. CASE q = p
    BY <1>1, <2>1 DEF PInv, Reconciling, Confirms, HeadRead, Recorded
  <2>2. CASE q # p
    BY <2>2, ProcTypes DEF Reconciling, Confirms
  <2> QED
    BY <2>1, <2>2
<1>5. BranchesKnown' /\ NoncesDistinct'
  BY DEF PInv, BranchesKnown, NoncesDistinct, Written
<1> QED
  BY <1>2, <1>3, <1>4, <1>5 DEF PInv

\* Two rows of the same nonce are one.
LEMMA OneRow ==
  ASSUME IInv, PInv, NEW p \in Procs, NEW o \in Ops, NEW q \in Ops, Row(p, o), Row(p, q)
  PROVE  o = q
BY RowTypes DEF Row, PInv, NoncesDistinct

LEMMA CheckKeeps ==
  ASSUME IInv, IInv', PInv, NEW p \in Procs, Check(p)
  PROVE  PInv'
<1>1. proc[p].at = "checking" /\ UNCHANGED <<journal, lock, chain, branch>>
  BY DEF Check, Offchain, nodeVars
<1>2. proc[p] \in Procs0 /\ HeadRead(p) \in Nat /\ HeadRead(p) = proc[p].block.height
  BY ProcTypes
<1>3. NextRow(p).at = "checking" /\ NextRow(p).block = proc[p].block
  BY <1>2 DEF NextRow, Procs0
<1>4. Reconciling(p)
  BY DEF PInv
<1>5. CASE proc' = [proc EXCEPT ![p] = NextRow(p)] /\ UNCHANGED draft
  <2>1. proc'[p] = NextRow(p) /\ \A q \in Procs : q # p => proc'[q] = proc[q]
    BY <1>5 DEF IInv, TypeOK
  <2>2. Reconciling(p)' /\ Confirms(p)'
    BY <1>1, <1>3, <1>4, <1>5, <2>1 DEF Reconciling, Confirms, HeadRead, Recorded
  <2> QED
    BY <1>1, <1>5, <2>1, <2>2, OthersKeep, RowsUnchangedKeep
<1>6. ASSUME NEW o \in Ops, NEW i \in At(Tx(o)), ~StillProven(p, draft[o]),
             draft' = [draft EXCEPT ![o] =
               IF HeadRead(p) >= i + Depth
               THEN [@ EXCEPT !.status = chain[i].outcome, !.block = BlockAt(i)]
               ELSE [@ EXCEPT !.status = "broadcast", !.block = NoBlock]],
             proc' = [proc EXCEPT ![p] = [NextRow(p) EXCEPT !.todo = @ \cup {o}]]
      PROVE  PInv'
  <2>1. PICK y : y = IF HeadRead(p) >= i + Depth
                     THEN [draft[o] EXCEPT !.status = chain[i].outcome, !.block = BlockAt(i)]
                     ELSE [draft[o] EXCEPT !.status = "broadcast", !.block = NoBlock]
    OBVIOUS
  <2>2. draft' = [draft EXCEPT ![o] = y] /\ draft[o] \in Rows
    BY <1>6, <2>1 DEF IInv, TypeOK
  <2>3. /\ i \in Nat /\ BlockAt(i) \in [height : Nat, branch : Nat] /\ BlockAt(i).height = i
        /\ chain[i].outcome \in {"success", "reverted"} /\ Holds(BlockAt(i), Tx(o), chain[i].outcome)
    BY SeenBlock
  <2>4. NoBlock \in [height : Nat, branch : Nat] /\ Depth \in Nat /\ Len(chain) \in Nat
    BY SignerAssumption, ChainTypes DEF NoBlock, IInv
  <2>7. y \in Rows /\ Proven(y, Tx(o)) /\ (Recorded(y) => y.block.height + Depth <= HeadRead(p))
    <3>1. CASE HeadRead(p) >= i + Depth
      <4>1. y = [draft[o] EXCEPT !.status = chain[i].outcome, !.block = BlockAt(i)]
        BY <2>1, <3>1
      <4>2. y \in Rows /\ y.block = BlockAt(i) /\ y.status = chain[i].outcome
        BY <2>2, <2>3, <4>1 DEF Rows
      <4>3. y.block.height + Depth <= HeadRead(p) /\ y.block.height + Depth <= Len(chain)
        BY <1>1, <1>2, <1>4, <2>3, <2>4, <3>1, <4>2 DEF Reconciling
      <4> QED
        BY <2>3, <4>2, <4>3 DEF Proven
    <3>2. CASE ~(HeadRead(p) >= i + Depth)
      <4>1. y \in Rows /\ y.status = "broadcast"
        BY <2>1, <2>2, <2>4, <3>2 DEF Rows
      <4> QED
        BY <4>1 DEF Proven, Recorded
    <3> QED
      BY <3>1, <3>2
  <2>8. Recorded(draft[o]) => ~Canonical(draft[o].block)
    <3> SUFFICES ASSUME Recorded(draft[o]) PROVE ~Canonical(draft[o].block)
      OBVIOUS
    <3>1. draft[o].block.height + Depth <= HeadRead(p) /\ draft[o].block.height \in Nat
      BY <1>1, <1>4, RowTypes DEF Reconciling
    <3>2. HeadRead(p) >= draft[o].block.height + Depth
      BY <1>2, <2>4, <3>1
    <3> QED
      BY <1>6, <3>2 DEF StillProven
  <2>9. /\ proc'[p].at = "checking" /\ proc'[p].block = proc[p].block
        /\ \A q \in Procs : q # p => proc'[q] = proc[q]
    <3>1. PICK r : r = NextRow(p)
      OBVIOUS
    <3>2. r \in Procs0 /\ r.at = "checking" /\ r.block = proc[p].block
      BY <1>3, <3>1, NextRowTypes
    <3>3. proc' = [proc EXCEPT ![p] = [r EXCEPT !.todo = @ \cup {o}]]
      BY <1>6, <3>1
    <3> QED
      BY <3>2, <3>3 DEF IInv, TypeOK, Procs0
  <2> QED
    BY <1>1, <2>2, <2>7, <2>8, <2>9, DraftKeeps
<1>7. ASSUME NEW o \in Ops, Row(p, o), ~StillProven(p, draft[o]),
             proc' = [proc EXCEPT ![p].at = "missing", ![p].todo = @ \cup {o}], UNCHANGED draft
      PROVE  PInv'
  <2>1. /\ proc'[p].at = "missing" /\ proc'[p].block = proc[p].block /\ proc'[p].nonce = proc[p].nonce
        /\ \A q \in Procs : q # p => proc'[q] = proc[q]
    BY <1>2, <1>7 DEF IInv, TypeOK, Procs0
  <2>2. \A u \in Ops : Recorded(draft[u]) => draft[u].block.height + Depth <= HeadRead(p) /\ draft[u].block.height \in Nat
    BY <1>1, <1>4, RowTypes DEF Reconciling
  <2>3. Recorded(draft[o]) => ~Canonical(draft[o].block)
    BY <1>2, <1>7, <2>2, SignerAssumption DEF StillProven
  <2>4. \A u \in Ops : Row(p, u) /\ Recorded(draft[u]) => ~Canonical(draft[u].block)
    BY <1>7, <2>3, OneRow
  <2>5. Reconciling(p)' /\ Confirms(p)'
    BY <1>1, <1>4, <1>7, <2>1, <2>2, <2>4, SameProofs DEF Reconciling, Confirms, HeadRead, Recorded, Row, Written
  <2> QED
    BY <1>1, <1>7, <2>1, <2>5, OthersKeep, RowsUnchangedKeep
<1> QED
  BY <1>5, <1>6, <1>7 DEF Check

LEMMA ReplayKeeps ==
  ASSUME IInv, IInv', PInv, NEW p \in Procs, Replay(p)
  PROVE  PInv'
<1>1. PICK o \in Ops :
       /\ Row(p, o) /\ draft' = [draft EXCEPT ![o].status = "broadcast", ![o].block = NoBlock]
       /\ proc' = [proc EXCEPT ![p] = NextRow(p)]
  BY DEF Replay
<1>2. PICK y : y = [draft[o] EXCEPT !.status = "broadcast", !.block = NoBlock]
  OBVIOUS
<1>3. draft' = [draft EXCEPT ![o] = y] /\ draft[o] \in Rows
  BY <1>1, <1>2 DEF IInv, TypeOK
<1>4. y \in Rows /\ y.status = "broadcast"
  BY <1>2, <1>3 DEF Rows, NoBlock
<1>5. Proven(y, Tx(o)) /\ ~Recorded(y)
  BY <1>4 DEF Proven, Recorded
<1>6. Recorded(draft[o]) => ~Canonical(draft[o].block)
  BY <1>1 DEF PInv, Reconciling, Replay
<1>7. NextRow(p).at = "checking" /\ NextRow(p).block = proc[p].block
  BY ProcTypes DEF NextRow, Procs0
<1>8. /\ proc'[p].at = "checking" /\ proc'[p].block = proc[p].block
      /\ \A q \in Procs : q # p => proc'[q] = proc[q]
  BY <1>1, <1>7 DEF IInv, TypeOK
<1>9. proc[p].at = "missing" /\ UNCHANGED <<journal, chain, branch>>
  BY DEF Replay
<1> QED
  BY <1>3, <1>4, <1>5, <1>6, <1>8, <1>9, DraftKeeps

\* Marking a row as broadcast touches no recorded outcome.
LEMMA MarkKeeps ==
  ASSUME IInv, IInv', PInv, NEW p \in Procs, Mark(p)
  PROVE  PInv' /\ \A o \in Ops : Recorded(journal[o]) => journal'[o] = journal[o]
<1>1. PICK o \in Ops : o = proc[p].op
  BY DEF Mark, IInv, KnownOps
<1>2. /\ proc[p].at = "marking" /\ draft[o] = journal[o]
      /\ journal' = [journal EXCEPT ![o] = Marked(journal[o])]
      /\ draft' = [draft EXCEPT ![o] = Marked(draft[o])]
      /\ proc' = [proc EXCEPT ![p].at = "waiting"] /\ UNCHANGED <<lock, chain, branch>>
  BY <1>1 DEF Mark, IInv, TypeOK, Offchain, nodeVars
<1>3. PICK y : y = Marked(journal[o])
  OBVIOUS
<1>4. /\ Recorded(journal[o]) => y = journal[o]
      /\ Recorded(y) => Recorded(journal[o])
      /\ y.nonce = journal[o].nonce /\ (Recorded(y) => y = journal[o])
  BY <1>3, RowTypes DEF Marked, Recorded, Rows
<1>5. \A u \in Ops : /\ journal'[u] = IF u = o THEN y ELSE journal[u]
                     /\ draft'[u] = IF u = o THEN y ELSE draft[u]
  BY <1>2, <1>3 DEF IInv, TypeOK
<1>6. \A u \in Ops : /\ Recorded(journal[u]) => journal'[u] = journal[u]
                     /\ Recorded(draft[u]) => draft'[u] = draft[u]
                     /\ Recorded(journal'[u]) => journal'[u] = journal[u]
                     /\ Recorded(draft'[u]) => draft'[u] = draft[u]
                     /\ Tx(u)' = Tx(u)
  BY <1>2, <1>4, <1>5 DEF Tx
<1>7. RowsProven'
  <2> SUFFICES ASSUME NEW u \in Ops PROVE Proven(journal'[u], Tx(u)') /\ Proven(draft'[u], Tx(u)')
    BY <1>2, SameProofs DEF RowsProven
  <2>1. Proven(journal[u], Tx(u)) /\ Proven(draft[u], Tx(u))
    BY DEF PInv, RowsProven
  <2> QED
    BY <1>2, <1>6, <2>1, SameProofs DEF Proven
<1>8. DraftRevises'
  <2> SUFFICES ASSUME NEW u \in Ops, Recorded(journal'[u]), draft'[u] # journal'[u]
               PROVE  ~Canonical(journal'[u].block)
    BY <1>2, SameProofs DEF DraftRevises, Recorded
  <2>1. u # o /\ Recorded(journal[u]) /\ draft[u] # journal[u] /\ journal'[u] = journal[u]
    BY <1>5
  <2> QED
    BY <2>1 DEF PInv, DraftRevises
<1>9. NoncesDistinct' /\ BranchesKnown'
  <2>1. \A u \in Ops : (Written(journal, u)' <=> Written(journal, u)) /\ journal'[u].nonce = journal[u].nonce
    <3>1. Written(journal, o)
      BY <1>1, <1>2 DEF IInv, KnownOps
    <3>2. y.status # "none"
      BY <1>3, <3>1, RowTypes DEF Marked, Written, Rows
    <3> QED
      BY <1>4, <1>5, <3>1, <3>2 DEF Written
  <2> QED
    BY <1>2, <2>1 DEF PInv, NoncesDistinct, BranchesKnown
<1>10. ASSUME NEW q \in Procs PROVE Reconciling(q)' /\ Confirms(q)'
  <2>1. CASE q = p
    <3>1. proc'[q].at = "waiting"
      BY <1>2, <2>1 DEF IInv, TypeOK, Procs0
    <3> QED
      BY <3>1 DEF Reconciling, Confirms
  <2>2. CASE q # p
    <3>1. proc'[q] = proc[q] /\ Reconciling(q) /\ Confirms(q)
      BY <1>2, <2>2 DEF PInv, IInv, TypeOK
    <3>2. Reconciling(q)'
      <4>1. \A u \in Ops : Recorded(draft'[u]) => Recorded(draft[u]) /\ draft'[u] = draft[u]
        BY <1>6
      <4>2. \A u \in Ops : Recorded(draft'[u]) => (Row(q, u)' => Row(q, u))
        BY <3>1, <4>1 DEF Row, Written
      <4>3. HeadRead(q)' = HeadRead(q) /\ Len(chain)' = Len(chain)
        BY <1>2, <3>1 DEF HeadRead
      <4> QED
        BY <1>2, <3>1, <4>1, <4>2, <4>3, SameProofs DEF Reconciling, Recorded
    <3>3. Confirms(q)'
      <4> SUFFICES ASSUME proc[q].at = "proving" PROVE Confirms(q)'
        BY <3>1 DEF Confirms
      <4>1. proc[q].op \in Ops /\ draft = journal
        BY <3>1, ProcTypes DEF Confirms
      <4>2. draft' = journal'
        BY <1>2, <4>1
      <4>3. Holds(proc[q].block, Tx(proc[q].op), proc[q].outcome)'
        BY <1>2, <1>6, <3>1, <4>1, SameProofs DEF Confirms
      <4> QED
        BY <1>2, <1>6, <3>1, <4>1, <4>2, <4>3, SameProofs DEF Confirms, Recorded
    <3> QED
      BY <3>2, <3>3
  <2> QED
    BY <2>1, <2>2
<1> QED
  BY <1>6, <1>7, <1>8, <1>9, <1>10 DEF PInv

\* A new row has a nonce of its own.
LEMMA AllocateKeeps ==
  ASSUME IInv, IInv', PInv, NEW p \in Procs, Allocate(p)
  PROVE  PInv' /\ \A o \in Ops : Recorded(journal[o]) => journal'[o] = draft[o]
<1>1. PICK o \in Ops : o = proc[p].op
  BY DEF Allocate, Checked, IInv, KnownOps
<1>2. PICK n : /\ NonceFree(n) /\ journal' = [draft EXCEPT ![o] = Prepared(n)] /\ lock' = NoProc
               /\ ~Written(draft, o) /\ UNCHANGED <<chain, branch>>
  BY <1>1 DEF Allocate, Commit, Offchain, nodeVars
<1>3. \A u \in Ops : journal'[u] = IF u = o THEN Prepared(n) ELSE draft[u]
  BY <1>2 DEF IInv, TypeOK
<1>4. \A u \in Ops : Recorded(journal[u]) => u # o
  BY <1>2, RowTypes
<1>5. Prepared(n).status = "prepared" /\ Prepared(n).nonce = n
  BY DEF Prepared
<1>6. \A u \in Ops \ {o} : Tx(u)' = Tx(u) /\ journal'[u] = draft[u]
  BY <1>3, RowTypes DEF Tx
<1>7. \A u \in Ops : Proven(journal'[u], Tx(u)')
  BY <1>3, <1>5, <1>6 DEF Proven, Recorded, PInv, RowsProven
<1>8. NoncesDistinct'
  <2> SUFFICES ASSUME NEW u \in Ops, NEW v \in Ops, Written(journal, u)', Written(journal, v)',
                      journal'[u].nonce = journal'[v].nonce
               PROVE  u = v
    BY DEF NoncesDistinct
  <2>1. \A w \in Ops \ {o} : Written(journal, w)' =>
          Written(draft, w) /\ Written(journal, w) /\ journal'[w].nonce = journal[w].nonce /\ draft[w].nonce < n
                              /\ draft[w].nonce = journal[w].nonce /\ journal[w].nonce \in Nat
    BY <1>2, <1>6, RowTypes DEF NonceFree, Written
  <2>2. journal'[o].nonce = n
    BY <1>3, <1>5
  <2>3. \A w \in Ops \ {o} : Written(journal, w)' => journal'[w].nonce # n
    <3> SUFFICES ASSUME NEW w \in Ops \ {o}, Written(journal, w)' PROVE journal'[w].nonce # n
      OBVIOUS
    <3>1. journal'[w].nonce < n /\ journal'[w].nonce \in Nat
      BY <2>1
    <3>2. journal'[o] \in Rows
      BY DEF IInv, TypeOK
    <3>3. n \in Nat
      BY <2>2, <3>2 DEF Rows
    <3> QED
      BY <3>1, <3>3
  <2> QED
    BY <2>1, <2>2, <2>3 DEF PInv, NoncesDistinct
<1>9. PInv'
  BY <1>2, <1>7, <1>8, ReleaseKeeps
<1> QED
  BY <1>4, <1>6, <1>9

\* An outcome is recorded over another one only if the block of that one is gone.
LEMMA RecordKeeps ==
  ASSUME IInv, IInv', PInv, NEW p \in Procs, Record(p)
  PROVE  PInv' /\ \A o \in Ops : Recorded(journal[o]) /\ journal'[o] # journal[o] => ~Canonical(journal[o].block)
<1>1. proc[p].at = "proving"
  BY DEF Record
<1>2. PICK o \in Ops : o = proc[p].op
  BY <1>1, ProcTypes
<1>3. PICK y : y = [draft[o] EXCEPT !.status = proc[p].outcome, !.block = proc[p].block]
  OBVIOUS
<1>4. /\ draft = journal /\ Holds(proc[p].block, Tx(o), proc[p].outcome)
      /\ Recorded(journal[o]) /\ Canonical(journal[o].block) =>
           journal[o].block = proc[p].block /\ journal[o].status = proc[p].outcome
      /\ Written(journal, o)
  BY <1>1, <1>2, ProcTypes DEF PInv, Confirms
<1>5. /\ journal' = [draft EXCEPT ![o] = y] /\ lock' = NoProc /\ UNCHANGED <<chain, branch>>
      /\ Len(chain) >= proc[p].block.height + Depth
  BY <1>2, <1>3 DEF Record, Commit, Outcome, Offchain, nodeVars, IInv, TypeOK
<1>6. \A u \in Ops : journal'[u] = IF u = o THEN y ELSE journal[u]
  BY <1>4, <1>5 DEF IInv, TypeOK
<1>7. proc[p].outcome \in {"success", "reverted"} /\ proc[p].block \in [height : Nat, branch : Nat]
      /\ proc[p].block.height \in Nat /\ Len(chain) \in Nat /\ Depth \in Nat
  BY ProcTypes, ChainTypes, SignerAssumption DEF Procs0, IInv
<1>8. draft[o] \in Rows /\ journal[o] \in Rows
  BY RowTypes
<1>9. /\ y.status = proc[p].outcome /\ y.block = proc[p].block /\ y.nonce = journal[o].nonce
  BY <1>3, <1>4, <1>7, <1>8 DEF Rows
<1>10. \A u \in Ops : Tx(u)' = Tx(u) /\ (Written(journal, u)' <=> Written(journal, u))
                      /\ journal'[u].nonce = journal[u].nonce
  BY <1>4, <1>6, <1>7, <1>9 DEF Tx, Written
<1>11. Proven(y, Tx(o))
  BY <1>4, <1>5, <1>7, <1>9 DEF Proven
<1>12. \A u \in Ops : Proven(journal'[u], Tx(u)')
  BY <1>6, <1>10, <1>11 DEF PInv, RowsProven
<1>13. NoncesDistinct'
  BY <1>10 DEF PInv, NoncesDistinct
<1>14. PInv'
  BY <1>5, <1>12, <1>13, ReleaseKeeps
<1>15. ASSUME NEW u \in Ops, Recorded(journal[u]), journal'[u] # journal[u], Canonical(journal[u].block)
       PROVE  FALSE
  <2>1. u = o /\ journal'[u] = y
    BY <1>6, <1>15
  <2>2. y = journal[o]
    <3>1. journal[o].block = proc[p].block /\ journal[o].status = proc[p].outcome
      BY <1>4, <1>15, <2>1
    <3>2. y = [journal[o] EXCEPT !.status = journal[o].status, !.block = journal[o].block]
      BY <1>3, <1>4, <3>1
    <3> QED
      BY <1>8, <3>2 DEF Rows
  <2> QED
    BY <1>15, <2>1, <2>2
<1> QED
  BY <1>14, <1>15

-----------------------------------------------------------------------------
\* A recorded outcome is replaced only when its block is gone.
Revises == \A o \in Ops : Recorded(journal[o]) /\ journal'[o] # journal[o] => ~Canonical(journal[o].block)

LEMMA ProofsNext == IInv /\ IInv' /\ PInv /\ [Next]_vars => PInv' /\ Revises
<1> SUFFICES ASSUME IInv, IInv', PInv, [Next]_vars PROVE PInv' /\ Revises
  OBVIOUS
<1>1. ASSUME UNCHANGED journal PROVE Revises
  BY <1>1 DEF Revises
<1>2. ASSUME journal' = draft PROVE Revises
  BY <1>2 DEF Revises, PInv, DraftRevises
<1>3. ASSUME NEW p \in Procs, Leave(p), UNCHANGED <<chain, branch>> PROVE PInv' /\ Revises
  BY <1>1, <1>3, LeaveKeeps DEF Leave
<1>4. ASSUME NEW p \in Procs, Step(p) \/ Crash(p) PROVE PInv' /\ Revises
  <2>1. CASE Conflict(p) \/ NonceGap(p) \/ BroadcastRefused(p) \/ GiveUp(p) \/ Crash(p)
    <3>1. Leave(p) /\ UNCHANGED <<chain, branch>>
      BY <2>1 DEF Conflict, NonceGap, BroadcastRefused, GiveUp, Crash, Offchain, nodeVars
    <3> QED
      BY <1>3, <3>1
  <2>2. CASE Check(p) \/ Replay(p)
    <3>1. UNCHANGED journal
      BY <2>2 DEF Check, Replay
    <3> QED
      BY <1>1, <2>2, <3>1, CheckKeeps, ReplayKeeps
  <2>3. CASE Found(p) \/ Recovered(p)
    <3>1. journal' = draft /\ lock' = NoProc /\ UNCHANGED <<chain, branch>>
      BY <2>3 DEF Found, Recovered, Commit, Offchain, nodeVars
    <3> QED
      BY <1>2, <3>1, EndKeeps
  <2>4. CASE Allocate(p)
    <3>1. PInv' /\ \A o \in Ops : Recorded(journal[o]) => journal'[o] = draft[o]
      BY <2>4, AllocateKeeps
    <3> QED
      BY <3>1 DEF Revises, PInv, DraftRevises
  <2>5. CASE BroadcastFirst(p) \/ See(p)
    <3>1. UNCHANGED journal
      BY <2>5 DEF BroadcastFirst, See, dbVars
    <3> QED
      BY <1>1, <2>5, <3>1, MovesKeep
  <2>6. CASE Mark(p)
    BY <2>6, MarkKeeps DEF Revises
  <2>7. CASE Prove(p)
    BY <1>1, <2>7, ProveKeeps DEF Prove
  <2>8. CASE Record(p)
    BY <2>8, RecordKeeps DEF Revises
  <2> QED
    BY <1>4, <2>1, <2>2, <2>3, <2>4, <2>5, <2>6, <2>7, <2>8 DEF Step, Reconcile, Decide, Submit, Confirm
<1>5. ASSUME NEW p \in Procs, NEW o, Begin(p, o) PROVE PInv' /\ Revises
  BY <1>1, <1>5, BeginKeeps DEF Begin
<1>6. ASSUME ChainGoesOn, UNCHANGED <<journal, draft, lock, proc>> PROVE PInv' /\ Revises
  BY <1>1, <1>6, NodeKeeps
<1>7. ASSUME MineNext \/ Extend \/ Foreign PROVE PInv' /\ Revises
  <2>1. ASSUME NEW tx \in pool, NEW outcome, Mine(tx, outcome)
        PROVE  PInv' /\ Revises
    <3>1. tx \in Txs
      BY DEF IInv, TypeOK
    <3> QED
      BY <1>6, <2>1, <3>1, GrowGoesOn DEF Mine
  <2>2. CASE Extend
    BY <1>6, <2>2, GrowGoesOn DEF Extend
  <2>3. CASE Foreign
    <3>1. [op |-> NoOp, nonce |-> Mined] \in Txs
      BY ChainTypes DEF IInv, Txs
    <3> QED
      BY <1>6, <2>3, <3>1, GrowGoesOn DEF Foreign
  <2> QED
    BY <1>7, <2>1, <2>2, <2>3 DEF MineNext
<1>8. ASSUME NEW n \in 1..ForkDepth, Fork(n) PROVE PInv' /\ Revises
  BY <1>6, <1>8, ForkGoesOn, SignerAssumption
<1>9. ASSUME UNCHANGED <<journal, draft, proc, chain, branch>> PROVE PInv' /\ Revises
  BY <1>1, <1>9, OthersKeep, RowsUnchangedKeep
<1>10. CASE (\E tx \in pool : Forget(tx)) \/ UNCHANGED vars
  BY <1>9, <1>10 DEF Forget, vars, dbVars, nodeVars
<1> QED
  BY <1>4, <1>5, <1>7, <1>8, <1>10 DEF Next, Send, Recover

LEMMA ProofsInit == Init => PInv
<1> SUFFICES ASSUME Init PROVE PInv
  OBVIOUS
<1>1. Len(chain) = 0 /\ draft = journal
  BY DEF Init
<1>2. \A o \in Ops : journal[o].status = "none" /\ draft[o].status = "none"
  BY DEF Init, NoRow
<1>3. \A p \in Procs : proc[p].at = "idle"
  BY DEF Init, Idle
<1> QED
  BY <1>1, <1>2, <1>3 DEF PInv, BranchesKnown, NoncesDistinct, RowsProven, DraftRevises, Reconciling,
     Confirms, Proven, Recorded, Written

LEMMA ProofsInvariant == Spec => [](IInv /\ PInv)
<1>1. IInv /\ PInv /\ [Next]_vars => (IInv /\ PInv)'
  BY InvNext, ProofsNext
<1> QED
  BY <1>1, InitInv, ProofsInit, PTL DEF Spec

\* A recorded outcome is that of the operation's transaction in the block it
\* names, for any number of forks of any depth: the receipt is read again under
\* the lock, and what a transaction writes while the chain forks is what it read
\* (recordReceipt and reconcileJournal of signer.ts).
THEOREM RecordsMatchBlocks == Spec => []RecordMatchesBlock
<1>1. IInv /\ PInv => RecordMatchesBlock
  BY DEF PInv, RowsProven, Proven, Holds, RecordMatchesBlock
<1> QED
  BY <1>1, ProofsInvariant, PTL

\* A recorded outcome is revised only after a fork orphaned its block, whatever
\* a slower execution of the same operation still writes (the lock of the signer,
\* and the depth at which signer.ts takes a confirmation back).
THEOREM OnlyForksRevise == Spec => RevisedOnlyByForks
<1>1. IInv /\ PInv /\ [Next]_vars => [Revises]_vars
  BY InvNext, ProofsNext
<1>2. [Revises]_vars => [\A o \in Ops : Recorded(journal[o]) /\ journal'[o] # journal[o] => ~Canonical(journal[o].block)]_vars
  BY DEF Revises
<1> QED
  BY <1>1, <1>2, ProofsInvariant, PTL DEF Spec, RevisedOnlyByForks
=============================================================================
