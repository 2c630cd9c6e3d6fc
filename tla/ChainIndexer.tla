---------------------------- MODULE ChainIndexer ----------------------------
(***************************************************************************)
(* The worker's indexer (indexer.ts, reorg.ts, policy-sync.ts): it follows *)
(* the registry's events into chain_events, the flags of the models table  *)
(* and a cursor with a window of checkpoints, while the chain grows, forks *)
(* and is read through an RPC node that fails or lags. One PostgreSQL      *)
(* transaction, under an advisory lock, reads the chain and writes the     *)
(* three; what it has staged commits even when reading the batch fails.    *)
(*                                                                         *)
(* A block is a number of its own: a branch abandoned by a fork does not   *)
(* come back. The genesis block has height 1 and no events of the          *)
(* registry; a cursor of 0 is an empty index (-1 in the code).             *)
(***************************************************************************)
EXTENDS Integers, Sequences, FiniteSets, Folds

CONSTANTS
  Models,         \* pairs of modelHash and codeHash
  Confirmations,  \* confirmations
  Window,         \* reorgWindow
  BatchSize,      \* batchSize
  Existing,       \* the blocks of the chain when the indexer starts
  MaxBlocks,      \* bound on the blocks ever produced
  MaxLogged,      \* bound on those of them with events of the registry
  MaxForks,       \* bound on reorganizations
  MaxEvents       \* bound on failed or lagging reads, crashes and resets

VARIABLES
  chain,     \* the canonical blocks, by height
  branch,    \* block -> the branch it ends
  logs,      \* block -> the registry's logs in it
  forks,
  index,     \* index_cursors and chain_events of the scope; and, as history,
             \* the height up to which they were not checked (Overlooked)
  rows,      \* models
  tick,      \* indexChainOnce in progress
  events     \* what went wrong so far

chainVars == <<chain, branch, logs, forks>>
vars == <<chainVars, index, rows, tick, events>>

Event == events < MaxEvents /\ events' = events + 1

-----------------------------------------------------------------------------
(* The registry's events, and what they make of the models table.           *)

Listed(i, m) == [type |-> "Listed", id |-> i, model |-> m]
Approved(i)  == [type |-> "Approved", id |-> i]
Revoked(i)   == [type |-> "Revoked", id |-> i]

\* applyRegistrySync
Apply(table, e) ==
  [m \in Models |->
     CASE e.type = "Listed" /\ e.model = m ->
            [id |-> e.id, approved |-> FALSE, revoked |-> FALSE, known |-> TRUE]
       [] e.type # "Listed" /\ table[m].known /\ table[m].id = e.id ->
            [table[m] EXCEPT !.approved = e.type = "Approved", !.revoked = e.type = "Revoked"]
       [] OTHER -> table[m]]

\* The order of chain_events: by block and log index.
Precedes(x, y) == x.block < y.block \/ (x.block = y.block /\ x.index < y.index)

Latest(stored) == CHOOSE x \in stored : \A y \in stored : ~Precedes(x, y)

\* The events of a set of logs, applied in the order of block and log index.
Replay(table, stored) ==
  MapThenFoldSet(LAMBDA s, t : Apply(t, s.event), table, LAMBDA s : s, Latest, stored)

\* quarantineRegistryScope
Quarantined(table) ==
  [m \in Models |->
     IF table[m].known THEN [table[m] EXCEPT !.approved = FALSE, !.revoked = TRUE]
     ELSE table[m]]

\* (mutant) The listing ids of orphaned rows stay.
ClearedKeepingIds(table) == Quarantined(table)

\* rebuildRegistryPolicy, its first update.
Cleared(table) ==
  [m \in Models |->
     IF table[m].known THEN [Quarantined(table)[m] EXCEPT !.id = 0] ELSE table[m]]

\* rebuildRegistryPolicy
Rebuilt(table, stored) == Replay(Cleared(table), stored)

-----------------------------------------------------------------------------
(* The chain.                                                               *)

LogsOf(blocks) == UNION {logs[blocks[n]] : n \in DOMAIN blocks}

Unlisted == [m \in Models |-> [id |-> 0, approved |-> FALSE, revoked |-> FALSE, known |-> FALSE]]

\* What the registry has emitted by the end of these blocks.
Registry(blocks) == Replay(Unlisted, LogsOf(blocks))

\* The id of the registry's next listing.
NextListing(blocks) == Cardinality({s \in LogsOf(blocks) : s.event.type = "Listed"}) + 1

\* What one more block may emit: a listing under the next id, a listing and its
\* approval, an approval or a revocation.
Emissions(table, next) ==
  LET known == {m \in Models : table[m].known}
      live  == {m \in known : ~table[m].revoked}
  IN  {<<>>} \cup {<<Listed(next, m)>> : m \in Models \ known}
        \cup {<<Listed(next, m), Approved(next)>> : m \in Models \ known}
        \cup {<<Approved(table[m].id)>> : m \in {x \in live : ~table[x].approved}}
        \cup {<<Revoked(table[m].id)>> : m \in live}

\* The logs of the block b at height n.
Logged(n, b, emitted) ==
  {[block |-> n, hash |-> b, index |-> j, event |-> emitted[j]] : j \in DOMAIN emitted}

\* A block is produced on the first n canonical blocks.
Produce(n) ==
  LET b == Len(logs) + 1
      blocks == SubSeq(chain, 1, n)
      busy == {k \in DOMAIN logs : logs[k] # {}}
  IN  /\ b <= MaxBlocks
      /\ \E emitted \in Emissions(Registry(blocks), NextListing(blocks)) :
           /\ emitted # <<>> => Cardinality(busy) < MaxLogged
           /\ logs' = Append(logs, Logged(n + 1, b, emitted))
      /\ chain' = Append(blocks, b)
      /\ branch' = Append(branch, chain')
      /\ UNCHANGED <<index, rows, tick, events>>

Mine == Produce(Len(chain)) /\ UNCHANGED forks

Fork ==
  /\ forks < MaxForks /\ forks' = forks + 1
  /\ \E n \in 1..Len(chain) - 1 : Produce(n)

-----------------------------------------------------------------------------
(* A tick of the indexer.                                                   *)

Idle == [at |-> "idle"]
Emptied(status) ==
  [status |-> status, cursor |-> 0, checkpoints |-> <<>>, stored |-> {}, overlooked |-> 0]

\* The indexer starts beside a chain that runs: the registry has listed one of
\* the models in its second block, and may have approved it.
Init ==
  /\ chain = [n \in 1..Existing |-> n] /\ branch = [n \in 1..Existing |-> SubSeq(chain, 1, n)]
  /\ LET m == CHOOSE x \in Models : TRUE
     IN  \E emitted \in {<<Listed(1, m)>>, <<Listed(1, m), Approved(1)>>} :
           logs = [n \in 1..Existing |-> IF n = 2 THEN Logged(n, n, emitted) ELSE {}]
  /\ forks = 0
  /\ index = Emptied("none") /\ rows = Unlisted /\ tick = Idle /\ events = 0

\* The transaction commits these values and releases the lock.
Commits(newIndex, newRows) == index' = newIndex /\ rows' = newRows /\ tick' = Idle

\* What a failed read leaves behind: what was staged before it.
CommitsStaged == Commits(tick.index, tick.rows)
CommitsQuarantine(status) == Commits([tick.index EXCEPT !.status = status], Quarantined(tick.rows))

ConfirmedAt(latest) == IF latest > Confirmations THEN latest - Confirmations ELSE 0

\* An index that has to be rebuilt waits for the operator: its ticks fail.
Refused == tick.at = "idle" /\ index.status = "rebuild_required" /\ UNCHANGED vars

\* The lock is taken, the cursor and the head of the chain are read.
Begin(latest) ==
  /\ tick.at = "idle" /\ index.status # "rebuild_required"
  /\ tick' = [at |-> IF index.cursor > 0 THEN "search" ELSE "plan",
              confirmed |-> ConfirmedAt(latest), rebuild |-> index.status = "catching_up",
              index |-> index, rows |-> rows,
              to |-> 0, before |-> 0, listed |-> {}, others |-> {}]
  /\ UNCHANGED <<chainVars, index, rows>>

BeginAtHead == Begin(Len(chain)) /\ UNCHANGED events
\* The node that answers is behind the head.
BeginBehind == Event /\ \E latest \in 1..Len(chain) - 1 : Begin(latest)

\* The block that checkpoint k is about, the checkpoints that are looked up, from
\* the highest down, and those still canonical.
Height(k) == tick.index.cursor - Len(tick.index.checkpoints) + k
Canonical(n, b) == n <= Len(chain) /\ chain[n] = b
Sought == {k \in 1..Len(tick.index.checkpoints) : Height(k) <= tick.confirmed}
Retained == {k \in Sought : Canonical(Height(k), tick.index.checkpoints[k])}

\* The index rewound to its checkpoint k, the block n.
Rewound(i, n, k) ==
  [i EXCEPT !.status = "catching_up", !.cursor = n, !.checkpoints = SubSeq(@, 1, k),
            !.stored = {s \in @ : s.block <= n}]

\* findCommonAncestor, and the rewind to what it finds. A chain that has become
\* shorter than the highest one looked up has no such block: the search fails.
Search ==
  /\ tick.at = "search"
  /\ IF \E k \in Sought : Height(k) > Len(chain) THEN CommitsQuarantine("catching_up")
     ELSE IF Retained = {} THEN CommitsQuarantine("rebuild_required")
     ELSE LET k == CHOOSE x \in Retained : \A y \in Retained : y <= x
              n == Height(k)
          IN  /\ tick' = IF n = tick.index.cursor THEN [tick EXCEPT !.at = "plan"]
                ELSE [tick EXCEPT !.at = "plan", !.rebuild = TRUE,
                                  !.rows = Quarantined(@), !.index = Rewound(@, n, k)]
              /\ UNCHANGED <<index, rows>>
  /\ UNCHANGED <<chainVars, events>>

\* Canonical history cannot be checked: cached approvals stop being served.
SearchFails ==
  /\ tick.at = "search" /\ Event /\ CommitsQuarantine("catching_up")
  /\ UNCHANGED chainVars

From == tick.index.cursor + 1
To == IF From + BatchSize - 1 < tick.confirmed THEN From + BatchSize - 1 ELSE tick.confirmed

\* (mutant) A rewound index that has nothing to read stays as it is.
CaughtUpWithoutRebuild ==
  /\ tick.at = "plan" /\ From > tick.confirmed /\ CommitsStaged
  /\ UNCHANGED <<chainVars, events>>

\* Nothing to read: a rewound index that has reached the head is rebuilt.
CaughtUp ==
  /\ tick.at = "plan" /\ From > tick.confirmed
  /\ IF tick.rebuild /\ tick.index.cursor = tick.confirmed
     THEN Commits([tick.index EXCEPT !.status = "active"], Rebuilt(tick.rows, tick.index.stored))
     ELSE CommitsStaged
  /\ UNCHANGED <<chainVars, events>>

\* readBatch: the header of the batch's last block,
ReadBefore ==
  /\ tick.at = "plan" /\ From <= tick.confirmed
  /\ IF To > Len(chain) THEN CommitsStaged
     ELSE /\ tick' = [tick EXCEPT !.at = "listed", !.to = To, !.before = chain[To]]
          /\ UNCHANGED <<index, rows>>
  /\ UNCHANGED <<chainVars, events>>

LogsIn(from, to) == LogsOf(SubSeq(chain, from, IF to < Len(chain) THEN to ELSE Len(chain)))

\* its listings, by one call, then its approvals and revocations, by others,
ReadListed ==
  /\ tick.at = "listed"
  /\ tick' = [tick EXCEPT !.at = "others",
                          !.listed = {s \in LogsIn(From, tick.to) : s.event.type = "Listed"}]
  /\ UNCHANGED <<chainVars, index, rows, events>>

ReadOthers ==
  /\ tick.at = "others"
  /\ tick' = [tick EXCEPT !.at = "after",
                          !.others = {s \in LogsIn(From, tick.to) : s.event.type # "Listed"}]
  /\ UNCHANGED <<chainVars, index, rows, events>>

Batch == tick.listed \cup tick.others

\* The events are in canonical blocks and the last block has not changed.
Snapshot ==
  /\ \A s \in Batch : Canonical(s.block, s.hash)
  /\ Canonical(tick.to, tick.before)

\* The first header kept, and whether the headers continue the last checkpoint:
\* a batch longer than the window leaves a gap, and starts a new window.
First == IF tick.to - Window + 1 > From THEN tick.to - Window + 1 ELSE From
Linked == \/ tick.index.checkpoints = <<>>
          \/ chain[From - 1] = tick.index.checkpoints[Len(tick.index.checkpoints)]
Continues == First > From \/ Linked

\* (history) Over a gap nobody compares the batch with what came before it: if a
\* fork has replaced that, the index keeps what it stored up to its old cursor.
Overlooked == IF Linked THEN tick.index.overlooked ELSE tick.index.cursor

\* checkpointTail
CheckpointTail(checkpoints, headers) ==
  LET all == (IF First > From THEN <<>> ELSE checkpoints) \o headers
  IN  IF Len(all) > Window THEN SubSeq(all, Len(all) - Window + 1, Len(all)) ELSE all

\* The rows after a batch that does not reach the confirmed head.
CatchingUp(table) ==
  Quarantined(Replay(table, {s \in Batch : s.event.type = "Listed"}))

\* The headers are read, the snapshot checked, the batch stored and applied.
Finish ==
  /\ tick.at = "after"
  /\ IF tick.to <= Len(chain) /\ Snapshot /\ Continues
     THEN LET behind == tick.to < tick.confirmed
              stored == tick.index.stored \cup Batch
          IN  Commits([status |-> IF behind THEN "catching_up" ELSE "active",
                       cursor |-> tick.to, stored |-> stored, overlooked |-> Overlooked,
                       checkpoints |-> CheckpointTail(tick.index.checkpoints, SubSeq(chain, First, tick.to))],
                      IF behind THEN CatchingUp(tick.rows)
                      ELSE IF tick.rebuild THEN Rebuilt(tick.rows, stored)
                      ELSE Replay(tick.rows, Batch))
     ELSE CommitsStaged
  /\ UNCHANGED <<chainVars, events>>

ReadFails ==
  /\ tick.at \in {"plan", "listed", "others", "after"} /\ From <= tick.confirmed
  /\ Event /\ CommitsStaged
  /\ UNCHANGED chainVars

\* The process or its connection dies: the transaction is rolled back.
Crash ==
  /\ tick.at # "idle" /\ Event /\ tick' = Idle
  /\ UNCHANGED <<chainVars, index, rows>>

\* resetChainIndexer, the operator's recovery, under the same lock.
Reset ==
  /\ tick.at = "idle" /\ Event
  /\ index' = Emptied("catching_up") /\ rows' = Quarantined(rows)
  /\ UNCHANGED <<chainVars, tick>>

Step == BeginAtHead \/ Search \/ CaughtUp \/ ReadBefore \/ ReadListed \/ ReadOthers \/ Finish

Next == \/ Mine \/ Fork \/ Step \/ Refused
        \/ BeginBehind \/ SearchFails \/ ReadFails \/ Crash \/ Reset

-----------------------------------------------------------------------------
\* The branch the index has followed.
Indexed == IF index.cursor = 0 THEN <<>>
           ELSE branch[index.checkpoints[Len(index.checkpoints)]]

Above(stored, h) == {s \in stored : s.block > h}

\* Whatever forks, failures and restarts met it, an active index is the replay
\* of one branch: above the height that a gap has hidden its stored events are
\* those of the blocks up to its cursor, and a model is approved exactly if the
\* stored events say so. A batch no longer than the window hides nothing: then
\* they are all those of the branch. An index that is not active serves no model
\* (indexer.ts:187-271; _backend/README.md:162, "A deeper fork enters
\* INDEXER_REBUILD_REQUIRED and fails closed").
IndexConsistent ==
  /\ BatchSize <= Window => index.overlooked = 0
  /\ IF index.status = "active"
     THEN /\ Above(index.stored, index.overlooked) = Above(LogsOf(Indexed), index.overlooked)
          /\ \A m \in Models : rows[m].approved = Replay(Unlisted, index.stored)[m].approved
     ELSE \A m \in Models : ~rows[m].approved

\* Once the chain and the RPC node are quiet the index reaches the confirmed
\* head of the canonical chain, or says that it has to be rebuilt
\* (indexer.ts:205-270).
IndexConverges ==
  <>[](\/ index.status = "rebuild_required"
       \/ index.status = "active" /\ Indexed = SubSeq(chain, 1, ConfirmedAt(Len(chain))))
=============================================================================
