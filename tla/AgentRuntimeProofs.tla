-------------------------- MODULE AgentRuntimeProofs --------------------------
(***************************************************************************)
(* The safety of the agent runtime, proved for any runs, runners,          *)
(* requests, budgets, prices and number of faults.                         *)
(*                                                                         *)
(* A row's progress, its step and then its markers, never goes back. That  *)
(* needs both fences: a runner whose lease is the row's sees the row as it *)
(* is (tokens are versions, so no two runners share one), and a request    *)
(* that finds the version it read finds the row it read. A paid call is    *)
(* then made by the one runner that committed its marker, before which no  *)
(* call of the step was made.                                              *)
(*                                                                         *)
(* So every write moves the row to the next marker of its step, or to the  *)
(* next step (Progress), whoever makes it. What the row has spent is then  *)
(* the sum of the prices of the steps it counts, and no step is counted    *)
(* before its answer is there (AccountInv).                                *)
(***************************************************************************)
EXTENDS AgentRuntime, SumsProofs, TLAPS

ARows == [status : Statuses, step : Nat, spent : Nat, version : Nat, token : Nat,
          live : BOOLEAN, cancel : BOOLEAN, phase : Phases, amount : Nat]
AViews == [step : Nat, spent : Nat, cancel : BOOLEAN, phase : Phases, amount : Nat]
AGates == [payment : {"none", "open", "settled", "consumed"}, amount : Nat,
           answer : Decisions \cup {"none"}, settles : Nat, infers : Nat]

RunnerStates == [at : Stages, run : Runs \cup {NoRun}, token : Nat, seen : AViews,
                 todo : SUBSET [run : Runs, version : Nat]]
Requests == [at : {"idle", "cancelling", "resuming"}, run : Runs \cup {NoRun}, row : ARows]

Working(p) == runner[p].at \notin {"idle", "sweeping"}

Gates == [Runs -> [Steps -> AGates]]
GShape == gate \in Gates
AShape ==
  /\ row \in [Runs -> ARows]
  /\ runner \in [Runners -> RunnerStates]
  /\ client \in [Clients -> Requests]
  /\ \A p \in Runners : Working(p) => runner[p].run \in Runs
  /\ \A c \in Clients : client[c].at # "idle" => client[c].run \in Runs

\* A run that has not ended has a step to do; nobody cancels one that is not there.
RowsInRange ==
  \A r \in Runs : /\ row[r].status \notin Terminal => row[r].step < MaxSteps
                  /\ row[r].status = "none" => ~row[r].cancel

\* A runner prepares a step that is ready, and asks for the price of a prepared one.
StagesFollowPhases ==
  \A p \in Runners : /\ runner[p].at = "preparing" => runner[p].seen.phase = "ready"
                     /\ runner[p].at \in {"asking", "asked"} => runner[p].seen.phase = "challenge"

\* A token is the version its claim wrote: no other runner of the run has it.
TokensDistinct ==
  /\ \A p \in Runners : Working(p) => runner[p].token <= row[runner[p].run].version
  /\ \A p, q \in Runners :
       Working(p) /\ Working(q) /\ runner[p].run = runner[q].run /\ runner[p].token = runner[q].token
         => p = q

\* The same progress, and what it has cost.
UpToDate(x, y) == x.step = y.step /\ x.phase = y.phase /\ x.spent = y.spent /\ x.amount = y.amount

\* The runner whose token is the row's sees how far the run is.
Leases(p) == Working(p) /\ row[runner[p].run].status = "running" /\ row[runner[p].run].token = runner[p].token
HoldersUpToDate ==
  \A p \in Runners : Leases(p) => UpToDate(runner[p].seen, row[runner[p].run])

\* The same row: everything but the lease's life, which no version counts.
SameRow(x, y) == x.status = y.status /\ x.cancel = y.cancel /\ UpToDate(x, y)

\* A request whose version is the row's has read that row.
RequestsUpToDate ==
  \A c \in Clients : client[c].at # "idle" =>
    /\ client[c].row.status # "none"
    /\ client[c].row.version <= row[client[c].run].version
    /\ client[c].row.version = row[client[c].run].version => SameRow(client[c].row, row[client[c].run])

SettleMarked == {"settlement_dispatched", "paid", "inference_dispatched"}

\* The row says that the call may have been made.
MayHaveSettled(x, s) == s < x.step \/ (s = x.step /\ x.phase \in SettleMarked)
MayHaveInferred(x, s) == s < x.step \/ (s = x.step /\ x.phase = "inference_dispatched")

Settling(p) == runner[p].at = "calling" /\ runner[p].seen.phase = "settlement_dispatched"
Inferring(p) == runner[p].at = "calling" /\ runner[p].seen.phase # "settlement_dispatched"

SettledOnce ==
  /\ \A r \in Runs, s \in Steps :
       gate[r][s].settles <= 1 /\ (gate[r][s].settles > 0 => MayHaveSettled(row[r], s))
  /\ \A p \in Runners : Settling(p) =>
       /\ MayHaveSettled(row[runner[p].run], runner[p].seen.step)
       /\ runner[p].seen.step \in Steps => gate[runner[p].run][runner[p].seen.step].settles = 0
  /\ \A p, q \in Runners :
       Settling(p) /\ Settling(q) /\ runner[p].run = runner[q].run /\ runner[p].seen.step = runner[q].seen.step
         => p = q

InferredOnce ==
  /\ \A r \in Runs, s \in Steps :
       gate[r][s].infers <= 1 /\ (gate[r][s].infers > 0 => MayHaveInferred(row[r], s))
  /\ \A p \in Runners : Inferring(p) =>
       /\ MayHaveInferred(row[runner[p].run], runner[p].seen.step)
       /\ runner[p].seen.step \in Steps => gate[runner[p].run][runner[p].seen.step].infers = 0
  /\ \A p, q \in Runners :
       Inferring(p) /\ Inferring(q) /\ runner[p].run = runner[q].run /\ runner[p].seen.step = runner[q].seen.step
         => p = q

AInv == /\ AShape /\ GShape /\ TokensDistinct /\ HoldersUpToDate /\ RequestsUpToDate
        /\ SettledOnce /\ InferredOnce /\ CancelSticks /\ RowsInRange /\ StagesFollowPhases

\* The row y is as far as the row x, or further.
Onward(x, y) ==
  \/ y.step > x.step
  \/ /\ y.step = x.step
     /\ x.phase \in SettleMarked => y.phase \in SettleMarked
     /\ x.phase = "inference_dispatched" => y.phase = "inference_dispatched"

\* The gateway's counters do not change.
NoCalls ==
  /\ GShape'
  /\ \A r \in Runs, s \in Steps :
       gate'[r][s].settles = gate[r][s].settles /\ gate'[r][s].infers = gate[r][s].infers

-----------------------------------------------------------------------------
\* What a row says of past calls, a row further on says too.
LEMMA OnwardKeeps ==
  ASSUME NEW x \in ARows, NEW y \in ARows, Onward(x, y), NEW s \in Int
  PROVE  /\ MayHaveSettled(x, s) => MayHaveSettled(y, s)
         /\ MayHaveInferred(x, s) => MayHaveInferred(y, s)
  BY DEF Onward, ARows, MayHaveSettled, MayHaveInferred

LEMMA InitialRows == NoRow \in ARows /\ NoWork.seen \in AViews /\ NoStep \in AGates
  BY DEF NoRow, ARows, NoWork, Seen, AViews, NoStep, AGates, Statuses, Phases

LEMMA AInit == Init => AInv
  <1> SUFFICES ASSUME Init PROVE AInv
    OBVIOUS
  <1>1. AShape /\ GShape
    BY InitialRows DEF Init, AShape, GShape, Gates, NoWork, NoRequest, Working, Stages, RunnerStates, Requests
  <1>2. TokensDistinct /\ HoldersUpToDate /\ RequestsUpToDate
    BY DEF Init, TokensDistinct, HoldersUpToDate, UpToDate, RequestsUpToDate, Leases, Working, NoWork, NoRequest
  <1>3. SettledOnce /\ InferredOnce
    BY DEF Init, SettledOnce, InferredOnce, Settling, Inferring, NoWork, NoStep
  <1>4. CancelSticks /\ RowsInRange /\ StagesFollowPhases
    BY RuntimeAssumption DEF Init, CancelSticks, RowsInRange, StagesFollowPhases, NoRow, NoWork
  <1> QED
    BY <1>1, <1>2, <1>3, <1>4 DEF AInv

\* A row that goes on, with a new version or none for which a request could
\* take it: what was true of the calls stays true.
LEMMA CallsStay ==
  ASSUME AInv, AShape', NoCalls,
         \A r \in Runs : Onward(row[r], row'[r]),
         \A p \in Runners : runner'[p].at = "calling" =>
           runner[p].at = "calling" /\ runner'[p].run = runner[p].run /\ runner'[p].seen = runner[p].seen
  PROVE  SettledOnce' /\ InferredOnce'
  <1>1. \A r \in Runs : row[r] \in ARows /\ row'[r] \in ARows
    BY DEF AInv, AShape
  <1>2. \A r \in Runs, s \in Int :
          /\ MayHaveSettled(row[r], s) => MayHaveSettled(row'[r], s)
          /\ MayHaveInferred(row[r], s) => MayHaveInferred(row'[r], s)
    BY <1>1, OnwardKeeps
  <1>3. \A p \in Runners : runner[p].at = "calling" => runner[p].run \in Runs /\ runner[p].seen.step \in Int
    BY DEF AInv, AShape, Working, AViews, RunnerStates, Requests
  <1>4. Steps \subseteq Int
    BY DEF Steps
  <1>5. SettledOnce'
    <2>1. \A r \in Runs, s \in Steps :
            gate'[r][s].settles <= 1 /\ (gate'[r][s].settles > 0 => MayHaveSettled(row'[r], s))
      BY <1>2, <1>4 DEF AInv, SettledOnce, NoCalls
    <2>2. \A p \in Runners : Settling(p)' => Settling(p) /\ runner'[p].run = runner[p].run /\ runner'[p].seen = runner[p].seen
      BY DEF Settling
    <2>3. ASSUME NEW p \in Runners, Settling(p)'
          PROVE  /\ MayHaveSettled(row'[runner'[p].run], runner'[p].seen.step)
                 /\ runner'[p].seen.step \in Steps => gate'[runner'[p].run][runner'[p].seen.step].settles = 0
      <3>1. /\ Settling(p) /\ runner'[p].run = runner[p].run /\ runner'[p].seen = runner[p].seen
            /\ runner[p].run \in Runs /\ runner[p].seen.step \in Int
        BY <1>3, <2>2, <2>3 DEF Settling
      <3>2. /\ MayHaveSettled(row[runner[p].run], runner[p].seen.step)
            /\ runner[p].seen.step \in Steps => gate[runner[p].run][runner[p].seen.step].settles = 0
        BY <3>1 DEF AInv, SettledOnce
      <3> QED
        BY <1>2, <3>1, <3>2 DEF NoCalls
    <2>4. \A p, q \in Runners :
            Settling(p)' /\ Settling(q)' /\ runner'[p].run = runner'[q].run
              /\ runner'[p].seen.step = runner'[q].seen.step => p = q
      BY <2>2 DEF AInv, SettledOnce
    <2> QED
      BY <2>1, <2>3, <2>4 DEF SettledOnce
  <1>6. InferredOnce'
    <2>1. \A r \in Runs, s \in Steps :
            gate'[r][s].infers <= 1 /\ (gate'[r][s].infers > 0 => MayHaveInferred(row'[r], s))
      BY <1>2, <1>4 DEF AInv, InferredOnce, NoCalls
    <2>2. \A p \in Runners : Inferring(p)' => Inferring(p) /\ runner'[p].run = runner[p].run /\ runner'[p].seen = runner[p].seen
      BY DEF Inferring
    <2>3. ASSUME NEW p \in Runners, Inferring(p)'
          PROVE  /\ MayHaveInferred(row'[runner'[p].run], runner'[p].seen.step)
                 /\ runner'[p].seen.step \in Steps => gate'[runner'[p].run][runner'[p].seen.step].infers = 0
      <3>1. /\ Inferring(p) /\ runner'[p].run = runner[p].run /\ runner'[p].seen = runner[p].seen
            /\ runner[p].run \in Runs /\ runner[p].seen.step \in Int
        BY <1>3, <2>2, <2>3 DEF Inferring
      <3>2. /\ MayHaveInferred(row[runner[p].run], runner[p].seen.step)
            /\ runner[p].seen.step \in Steps => gate[runner[p].run][runner[p].seen.step].infers = 0
        BY <3>1 DEF AInv, InferredOnce
      <3> QED
        BY <1>2, <3>1, <3>2 DEF NoCalls
    <2>4. \A p, q \in Runners :
            Inferring(p)' /\ Inferring(q)' /\ runner'[p].run = runner'[q].run
              /\ runner'[p].seen.step = runner'[q].seen.step => p = q
      BY <2>2 DEF AInv, InferredOnce
    <2> QED
      BY <2>1, <2>3, <2>4 DEF InferredOnce
  <1> QED
    BY <1>5, <1>6

\* What every step has in common: a row that changes gets a new version (but
\* for its first, and for the end of a lease), a runner that holds the lease
\* sees the row as it is, and a request keeps what it read.
LEMMA PartsKeep ==
  ASSUME AInv, AShape', GShape', CancelSticks', RowsInRange', StagesFollowPhases', TokensDistinct',
         SettledOnce', InferredOnce',
         \A r \in Runs :
           \/ row'[r].version > row[r].version
           \/ row'[r].version = row[r].version /\ (SameRow(row[r], row'[r]) \/ row[r].status = "none"),
         \A p \in Runners : Leases(p)' =>
           UpToDate(runner'[p].seen, row'[runner'[p].run]),
         \A c \in Clients :
           \/ client'[c] = client[c] \/ client'[c].at = "idle"
           \/ /\ client'[c].run \in Runs /\ client'[c].row = row'[client'[c].run]
              /\ client'[c].row.status # "none"
  PROVE  AInv'
  <1>2. \A r \in Runs : row[r].version \in Nat /\ row'[r].version \in Nat /\ row[r].version <= row'[r].version
    BY DEF AInv, AShape, ARows
  <1>4. HoldersUpToDate'
    BY DEF HoldersUpToDate, UpToDate
  <1>5. RequestsUpToDate'
    <2> SUFFICES ASSUME NEW c \in Clients, client'[c].at # "idle"
                 PROVE  /\ client'[c].row.status # "none"
                        /\ client'[c].row.version <= row'[client'[c].run].version
                        /\ client'[c].row.version = row'[client'[c].run].version
                             => SameRow(client'[c].row, row'[client'[c].run])
      BY DEF RequestsUpToDate
    <2>1. CASE client'[c] = client[c]
      <3> DEFINE r == client[c].run
      <3>1. r \in Runs /\ client[c].row.version \in Nat
        BY <2>1 DEF AInv, AShape, ARows, RunnerStates, Requests
      <3>2. /\ client[c].row.status # "none" /\ client[c].row.version <= row[r].version
            /\ client[c].row.version = row[r].version => SameRow(client[c].row, row[r])
        BY <2>1 DEF AInv, RequestsUpToDate
      <3>3. client[c].row.version <= row'[r].version
        BY <1>2, <3>1, <3>2
      <3>4. ASSUME client[c].row.version = row'[r].version PROVE SameRow(client[c].row, row'[r])
        <4>1. row'[r].version = row[r].version /\ SameRow(client[c].row, row[r])
          BY <1>2, <3>1, <3>2, <3>4
        <4>2. row[r].status # "none"
          BY <3>2, <4>1 DEF SameRow, UpToDate
        <4>3. SameRow(row[r], row'[r])
          BY <1>2, <3>1, <4>1, <4>2
        <4> QED
          BY <4>1, <4>3 DEF SameRow, UpToDate
      <3> QED
        BY <2>1, <3>2, <3>3, <3>4
    <2>2. CASE client'[c] # client[c]
      BY <1>2, <2>2 DEF SameRow, UpToDate
    <2> QED
      BY <2>1, <2>2
  <1> QED
    BY <1>4, <1>5 DEF AInv

\* What most steps have in common: no runner begins to work or comes to a call,
\* and rows only go on.
LEMMA StepKeeps ==
  ASSUME AInv, AShape', NoCalls, CancelSticks', RowsInRange', StagesFollowPhases',
         \A r \in Runs : Onward(row[r], row'[r]),
         \A r \in Runs :
           \/ row'[r].version > row[r].version
           \/ row'[r].version = row[r].version /\ (SameRow(row[r], row'[r]) \/ row[r].status = "none"),
         \A p \in Runners : Working(p)' =>
           Working(p) /\ runner'[p].run = runner[p].run /\ runner'[p].token = runner[p].token,
         \A p \in Runners : Leases(p)' =>
           UpToDate(runner'[p].seen, row'[runner'[p].run]),
         \A p \in Runners : runner'[p].at = "calling" =>
           runner[p].at = "calling" /\ runner'[p].run = runner[p].run /\ runner'[p].seen = runner[p].seen,
         \A c \in Clients :
           \/ client'[c] = client[c] \/ client'[c].at = "idle"
           \/ /\ client'[c].run \in Runs /\ client'[c].row = row'[client'[c].run]
              /\ client'[c].row.status # "none"
  PROVE  AInv'
  <1>1. SettledOnce' /\ InferredOnce'
    BY CallsStay
  <1>2. \A r \in Runs : row[r].version \in Nat /\ row'[r].version \in Nat /\ row[r].version <= row'[r].version
    BY DEF AInv, AShape, ARows
  <1>3. TokensDistinct'
    <2>1. \A p \in Runners : Working(p)' => runner'[p].run \in Runs /\ runner'[p].token \in Nat
      BY DEF AShape, RunnerStates, Requests
    <2>2. \A p \in Runners : Working(p)' => runner'[p].token <= row'[runner'[p].run].version
      BY <1>2, <2>1 DEF AInv, TokensDistinct
    <2>3. \A p, q \in Runners :
            Working(p)' /\ Working(q)' /\ runner'[p].run = runner'[q].run /\ runner'[p].token = runner'[q].token
              => p = q
      BY DEF AInv, TokensDistinct
    <2> QED
      BY <2>2, <2>3 DEF TokensDistinct
  <1> QED
    BY <1>1, <1>3, PartsKeep DEF NoCalls

\* A write of a runner under its lease that goes on from the row as it is.
LEMMA SaveFacts ==
  ASSUME AInv, NEW p \in Runners, Working(p), NEW x \in ARows, NEW stage \in {"idle", "session", "checking", "calling"},
         Save(p, x, stage), Onward(row[runner[p].run], x), x.cancel = row[runner[p].run].cancel,
         x.status = "running" => x.token = row[runner[p].run].token,
         x.status \notin Terminal => x.step < MaxSteps, x.status # "none",
         UNCHANGED client
  PROVE  /\ AShape' /\ CancelSticks' /\ RowsInRange' /\ StagesFollowPhases'
         /\ \A q \in Runs : /\ Onward(row[q], row'[q])
                           /\ \/ row'[q].version > row[q].version
                              \/ row'[q].version = row[q].version /\ SameRow(row[q], row'[q])
         /\ \A q \in Runners : Working(q)' =>
              Working(q) /\ runner'[q].run = runner[q].run /\ runner'[q].token = runner[q].token
         /\ \A q \in Runners : Leases(q)' =>
              UpToDate(runner'[q].seen, row'[runner'[q].run])
         /\ \A q \in Runners \ {p} : runner'[q] = runner[q]
         /\ \A q \in Runs \ {runner[p].run} : row'[q] = row[q]
         /\ \/ runner'[p].at = "idle"
            \/ /\ runner'[p].at = stage /\ runner'[p].run = runner[p].run
               /\ runner'[p].seen.step = x.step /\ runner'[p].seen.phase = x.phase
         /\ row'[runner[p].run].step = x.step /\ row'[runner[p].run].phase = x.phase
  <1>0. PICK r \in Runs : r = runner[p].run
    BY DEF AInv, AShape
  <1>1. PICK y : y = [Honoured(r, x) EXCEPT !.version = row[r].version + 1]
    OBVIOUS
  <1>2. row[r] \in ARows
    BY DEF AInv, AShape
  <1>3. /\ y \in ARows /\ y.version = row[r].version + 1 /\ y.step = x.step /\ y.phase = x.phase
        /\ y.cancel = row[r].cancel /\ y.token = x.token
        /\ y.cancel => y.status \notin {"queued", "completed", "awaiting_payment"}
        /\ y.status \notin Terminal => y.step < MaxSteps
        /\ y.status # "none"
    BY <1>0, <1>1, <1>2 DEF Honoured, ARows, Statuses, Terminal
  <1>4. row' = [row EXCEPT ![r] = y]
    BY <1>0, <1>1 DEF Save
  <1>5. runner' = [runner EXCEPT ![p] =
          IF y.status = "running" THEN [@ EXCEPT !.at = stage, !.seen = Seen(y)] ELSE NoWork]
    BY <1>0, <1>1 DEF Save
  <1>6. Seen(y) \in AViews /\ UpToDate(Seen(y), y)
    BY <1>3 DEF Seen, ARows, AViews, UpToDate
  <1>7. \/ runner'[p].at = "idle" /\ runner'[p] = NoWork
        \/ runner'[p] = [runner[p] EXCEPT !.at = stage, !.seen = Seen(y)]
    BY <1>5 DEF AInv, AShape, NoWork
  <1>8. \A q \in Runners \ {p} : runner'[q] = runner[q]
    BY <1>5 DEF AInv, AShape
  <1>17. Working(p)' => runner'[p].run = r /\ runner'[p].token = runner[p].token
    <2>1. CASE runner'[p].at = "idle"
      BY <2>1 DEF Working
    <2>2. CASE runner'[p] = [runner[p] EXCEPT !.at = stage, !.seen = Seen(y)]
      BY <1>0, <2>2 DEF AInv, AShape
    <2> QED
      BY <1>7, <2>1, <2>2
  <1>18. \A q \in Runners \ {p} : Working(q)' = Working(q)
    BY <1>8 DEF Working
  <1>9. AShape'
    <2>1. row' \in [Runs -> ARows]
      BY <1>3, <1>4 DEF AInv, AShape
    <2>2. NoWork \in RunnerStates
      BY InitialRows DEF NoWork, Stages, RunnerStates
    <2>5. stage \in Stages
      BY DEF Stages
    <2>3. runner' \in [Runners -> RunnerStates]
      BY <1>5, <1>6, <2>2, <2>5 DEF AInv, AShape, RunnerStates
    <2>4. \A q \in Runners : Working(q)' => runner'[q].run \in Runs
      BY <1>8, <1>17, <1>18 DEF AInv, AShape
    <2> QED
      BY <2>1, <2>3, <2>4 DEF AInv, AShape
  <1>10. \A q \in Runs : row'[q] = IF q = r THEN y ELSE row[q]
    BY <1>4 DEF AInv, AShape
  <1>11. CancelSticks' /\ RowsInRange'
    BY <1>3, <1>10 DEF AInv, CancelSticks, RowsInRange
  <1>12. \A q \in Runs : Onward(row[q], row'[q])
    BY <1>0, <1>3, <1>10 DEF Onward
  <1>13. \A q \in Runs : row'[q].version > row[q].version
           \/ (row'[q].version = row[q].version /\ SameRow(row[q], row'[q]))
    BY <1>2, <1>3, <1>10 DEF SameRow, UpToDate, ARows
  <1>14. \A q \in Runners : Working(q)' =>
           Working(q) /\ runner'[q].run = runner[q].run /\ runner'[q].token = runner[q].token
    BY <1>0, <1>8, <1>17, <1>18
  <1>15. \/ runner'[p].at = "idle"
         \/ /\ runner'[p].at = stage /\ runner'[p].run = r
            /\ runner'[p].seen.step = x.step /\ runner'[p].seen.phase = x.phase
    <2>1. CASE runner'[p] = [runner[p] EXCEPT !.at = stage, !.seen = Seen(y)]
      <3>1. runner'[p].at = stage /\ runner'[p].run = r /\ runner'[p].seen = Seen(y)
        BY <1>0, <2>1 DEF AInv, AShape
      <3> QED
        BY <1>3, <1>6, <3>1 DEF UpToDate
    <2> QED
      BY <1>7, <2>1
  <1>19. StagesFollowPhases'
    BY <1>8, <1>15 DEF AInv, StagesFollowPhases
  <1>16. ASSUME NEW q \in Runners, Leases(q)'
         PROVE  UpToDate(runner'[q].seen, row'[runner'[q].run])
    <2>1. CASE q = p
      <3>1. runner'[p] = [runner[p] EXCEPT !.at = stage, !.seen = Seen(y)]
        BY <1>7, <1>16, <2>1 DEF Leases, Working
      <3>2. runner'[p].seen = Seen(y) /\ runner'[p].run = r
        BY <1>0, <3>1 DEF AInv, AShape
      <3> QED
        BY <2>1, <3>2, <1>6, <1>10
    <2>2. CASE q # p /\ runner[q].run = r
      <3>1. Working(q) /\ runner'[q] = runner[q] /\ y.token = runner[q].token /\ y.status = "running"
        BY <1>8, <1>10, <1>14, <1>16, <2>2 DEF Leases
      <3>2. x.status = "running"
        BY <1>1, <3>1 DEF Honoured, ARows
      <3>3. runner[p].token = runner[q].token
        BY <1>0, <1>3, <3>1, <3>2 DEF Save, Fenced
      <3> QED
        BY <1>0, <2>2, <3>1, <3>3 DEF AInv, TokensDistinct
    <2>3. CASE q # p /\ runner[q].run # r
      <3>1. runner'[q] = runner[q] /\ Working(q) /\ runner[q].run \in Runs
        BY <1>8, <1>14, <1>16, <2>3 DEF Leases, AInv, AShape
      <3>2. row'[runner[q].run] = row[runner[q].run]
        BY <1>10, <2>3, <3>1
      <3> QED
        BY <1>16, <3>1, <3>2 DEF Leases, AInv, HoldersUpToDate, UpToDate
    <2> QED
      BY <2>1, <2>2, <2>3
  <1>20. row'[r].step = x.step /\ row'[r].phase = x.phase
    BY <1>3, <1>10
  <1> QED
    BY <1>0, <1>8, <1>9, <1>10, <1>11, <1>12, <1>13, <1>14, <1>15, <1>16, <1>19, <1>20

\* The same, when the write leads to no call.
LEMMA SaveKeeps ==
  ASSUME AInv, NEW p \in Runners, Working(p), NEW x \in ARows, NEW stage \in {"idle", "session", "checking"},
         Save(p, x, stage), Onward(row[runner[p].run], x), x.cancel = row[runner[p].run].cancel,
         x.status = "running" => x.token = row[runner[p].run].token,
         x.status \notin Terminal => x.step < MaxSteps, x.status # "none",
         NoCalls, UNCHANGED client
  PROVE  AInv'
  <1>1. \A q \in Runners : runner'[q].at = "calling" =>
          runner[q].at = "calling" /\ runner'[q].run = runner[q].run /\ runner'[q].seen = runner[q].seen
    BY SaveFacts
  <1>2. /\ AShape' /\ CancelSticks' /\ RowsInRange' /\ StagesFollowPhases'
        /\ \A q \in Runs : /\ Onward(row[q], row'[q])
                          /\ \/ row'[q].version > row[q].version
                             \/ row'[q].version = row[q].version /\ SameRow(row[q], row'[q])
    BY SaveFacts
  <1>3. \A q \in Runners :
          /\ Working(q)' =>
               Working(q) /\ runner'[q].run = runner[q].run /\ runner'[q].token = runner[q].token
          /\ Leases(q)' =>
               UpToDate(runner'[q].seen, row'[runner'[q].run])
    BY SaveFacts
  <1> QED
    BY <1>1, <1>2, <1>3, StepKeeps

\* A write of a request that finds the version it read.
LEMMA SaveReadKeeps ==
  ASSUME AInv, NEW c \in Clients, client[c].at # "idle", NEW x \in ARows,
         SaveRead(c, x), Onward(row[client[c].run], x),
         x.status \notin Terminal => x.step < MaxSteps, x.status # "none",
         x.cancel => row[client[c].run].cancel \/ x.status \notin {"queued", "completed", "awaiting_payment"},
         x.status = "running" =>
           /\ row[client[c].run].status = "running" /\ x.token = row[client[c].run].token
           /\ UpToDate(x, row[client[c].run]),
         NoCalls, UNCHANGED runner
  PROVE  AInv'
  <1>0. PICK r \in Runs : r = client[c].run
    BY DEF AInv, AShape
  <1>1. PICK y : y = [Honoured(r, x) EXCEPT !.version = row[r].version + 1]
    OBVIOUS
  <1>2. row[r] \in ARows
    BY DEF AInv, AShape
  <1>3. /\ y \in ARows /\ y.version = row[r].version + 1 /\ UpToDate(y, x)
        /\ y.cancel = x.cancel /\ y.token = x.token
        /\ y.cancel => y.status \notin {"queued", "completed", "awaiting_payment"}
        /\ y.status \notin Terminal => y.step < MaxSteps
        /\ y.status # "none"
        /\ y.status = "running" => x.status = "running"
    BY <1>0, <1>1, <1>2 DEF Honoured, ARows, Statuses, Terminal, UpToDate
  <1>4. row' = [row EXCEPT ![r] = y]
    BY <1>0, <1>1 DEF SaveRead, Commit
  <1>5. \A q \in Runs : row'[q] = IF q = r THEN y ELSE row[q]
    BY <1>4 DEF AInv, AShape
  <1>6. client' = [client EXCEPT ![c] = NoRequest]
    BY DEF SaveRead
  <1>7. \A d \in Clients : client'[d] = client[d] \/ client'[d].at = "idle"
    BY <1>6 DEF NoRequest, AInv, AShape
  <1>8. AShape'
    <2>1. row' \in [Runs -> ARows]
      BY <1>3, <1>4 DEF AInv, AShape
    <2>2. NoRequest \in Requests
      BY InitialRows DEF NoRequest, Requests
    <2>3. client' \in [Clients -> Requests]
      BY <1>6, <2>2 DEF AInv, AShape
    <2> QED
      BY <2>1, <2>3, <1>7 DEF AInv, AShape, Working
  <1>9. CancelSticks' /\ RowsInRange' /\ StagesFollowPhases'
    BY <1>3, <1>5 DEF AInv, CancelSticks, RowsInRange, StagesFollowPhases
  <1>10. \A q \in Runs : Onward(row[q], row'[q])
    BY <1>0, <1>3, <1>5 DEF Onward, UpToDate
  <1>11. \A q \in Runs : row'[q].version > row[q].version
           \/ (row'[q].version = row[q].version /\ SameRow(row[q], row'[q]))
    BY <1>2, <1>3, <1>5 DEF SameRow, UpToDate, ARows
  <1>12. \A q \in Runners : Working(q)' = Working(q)
    BY DEF Working
  <1>13. ASSUME NEW q \in Runners, Leases(q)'
         PROVE  UpToDate(runner'[q].seen, row'[runner'[q].run])
    <2>1. CASE runner[q].run = r
      <3>1. Working(q) /\ y.status = "running" /\ y.token = runner[q].token
        BY <1>5, <1>12, <1>13, <2>1 DEF Leases
      <3>2. Leases(q) /\ UpToDate(y, row[r])
        BY <1>0, <1>3, <2>1, <3>1 DEF Leases, UpToDate
      <3> QED
        BY <1>5, <2>1, <3>2 DEF AInv, HoldersUpToDate, UpToDate
    <2>2. CASE runner[q].run # r
      <3>1. Working(q) /\ runner[q].run \in Runs
        BY <1>12, <1>13 DEF Leases, AInv, AShape
      <3>2. row'[runner[q].run] = row[runner[q].run]
        BY <1>5, <2>2, <3>1
      <3> QED
        BY <1>13, <3>1, <3>2 DEF Leases, AInv, HoldersUpToDate, UpToDate
    <2> QED
      BY <2>1, <2>2
  <1> QED
    BY <1>7, <1>8, <1>9, <1>10, <1>11, <1>12, <1>13, StepKeeps

-----------------------------------------------------------------------------
(* The steps.                                                               *)

\* A request that finds its version has read the row as it is.
LEMMA ReadIsRow ==
  ASSUME AInv, NEW c \in Clients, client[c].at # "idle",
         row[client[c].run].version = client[c].row.version
  PROVE  /\ client[c].run \in Runs /\ row[client[c].run] \in ARows /\ client[c].row \in ARows
         /\ SameRow(client[c].row, row[client[c].run])
         /\ Read(c) \in ARows /\ UpToDate(Read(c), row[client[c].run])
         /\ Read(c).status # "none" /\ Read(c).status = row[client[c].run].status
         /\ Read(c).cancel = row[client[c].run].cancel /\ Read(c).token = row[client[c].run].token
  <1>1. client[c].run \in Runs /\ row[client[c].run] \in ARows /\ client[c].row \in ARows
    BY DEF AInv, AShape, RunnerStates, Requests
  <1>2. SameRow(client[c].row, row[client[c].run]) /\ client[c].row.status # "none"
    BY DEF AInv, RequestsUpToDate
  <1>3. row[client[c].run].status # "none"
    BY <1>2 DEF SameRow, UpToDate
  <1> QED
    BY <1>1, <1>2, <1>3 DEF SameRow, UpToDate, Read, ARows

\* What is decided on an answer is a status, and only a step left to do is queued.
LEMMA DecidedStatus ==
  ASSUME NEW seen, seen.cancel \in BOOLEAN, NEW decision
  PROVE  /\ Decided(seen, decision) \in {"cancelled", "failed", "completed", "exhausted", "queued"}
         /\ Decided(seen, decision) = "queued" => ~(seen.step + 1 >= MaxSteps)
  BY DEF Decided

LEMMA CompletedRow ==
  ASSUME NEW x \in ARows, NEW seen, seen.cancel \in BOOLEAN, seen.step = x.step, NEW decision
  PROVE  /\ Completed(x, seen, decision) \in ARows /\ Completed(x, seen, decision).cancel = x.cancel
         /\ Completed(x, seen, decision).status \notin {"running", "none"}
         /\ Completed(x, seen, decision).status \notin Terminal => Completed(x, seen, decision).step < MaxSteps
         /\ Onward(x, Completed(x, seen, decision))
  <1> DEFINE status == Decided(seen, decision)
  <1> DEFINE y == Completed(x, seen, decision)
  <1>1. /\ status \in {"cancelled", "failed", "completed", "exhausted", "queued"}
        /\ status = "queued" => ~(x.step + 1 >= MaxSteps)
    BY DecidedStatus
  <1>2. PICK z : z = Released(x, status)
    OBVIOUS
  <1>3. y = [z EXCEPT !.phase = "ready", !.amount = 0, !.step = x.step + 1]
    BY <1>2 DEF Completed
  <1> HIDE DEF status, y
  <1>4. z \in ARows /\ z.cancel = x.cancel /\ z.status = status
    BY <1>1, <1>2 DEF Released, ARows, Statuses, Terminal
  <1>5. x.step \in Nat /\ x.step + 1 \in Nat
    BY DEF ARows
  <1>6. y \in ARows /\ y.cancel = x.cancel /\ y.status = status /\ y.step = x.step + 1
    BY <1>3, <1>4, <1>5 DEF ARows, Phases
  <1>7. y.status \notin Terminal => y.step < MaxSteps
    BY <1>1, <1>5, <1>6, RuntimeAssumption DEF Terminal
  <1>8. Onward(x, y)
    BY <1>5, <1>6 DEF Onward
  <1> QED
    BY <1>1, <1>6, <1>7, <1>8 DEF y

\* cancel, resume: the row goes on from what the request read.
LEMMA RequestsKeep ==
  ASSUME AInv, NEW c \in Clients, Cancel(c) \/ ResumeAnswered(c) \/ ResumeSettled(c)
           \/ ResumePreparation(c) \/ Authorize(c)
  PROVE  AInv'
  <1> DEFINE r == client[c].run
  <1>1. client[c].at # "idle" /\ row[r].version = client[c].row.version /\ UNCHANGED <<runner, gate>>
    BY DEF Cancel, ResumeAnswered, ResumeSettled, ResumePreparation, Authorize, Resuming, SaveRead
  <1>2. NoCalls
    BY <1>1 DEF AInv, GShape, NoCalls
  <1>8. row[r].status \notin Terminal => row[r].step < MaxSteps
    BY <1>1, ReadIsRow DEF AInv, RowsInRange
  <1>3. CASE Cancel(c)
    <2>1. PICK x : /\ SaveRead(c, x)
                   /\ x = IF client[c].row.status \in {"running", "outcome_unknown"}
                          THEN [Read(c) EXCEPT !.cancel = TRUE]
                          ELSE Released([Read(c) EXCEPT !.cancel = TRUE], "cancelled")
      BY <1>3 DEF Cancel
    <2>0. Read(c) \in ARows /\ UpToDate(Read(c), row[r])
      BY <1>1, ReadIsRow
    <2>2. x \in ARows /\ UpToDate(x, row[r])
      BY <2>1, <2>0 DEF Released, ARows, Statuses, Terminal, UpToDate
    <2>3. x.status \in {"running", "outcome_unknown", "cancelled"} /\ x.status # "none"
      BY <1>1, <2>1, ReadIsRow DEF Released, ARows, SameRow, UpToDate
    <2>4. x.status = "running" => row[r].status = "running" /\ x.token = row[r].token
      BY <1>1, <2>1, ReadIsRow DEF Released, ARows, SameRow, UpToDate
    <2>5. x.status \notin Terminal => x.status = row[r].status
      BY <1>1, <2>1, ReadIsRow DEF Released, ARows, SameRow, UpToDate, Terminal
    <2> QED
      BY <1>1, <1>2, <1>8, <2>1, <2>2, <2>3, <2>4, <2>5, SaveReadKeeps DEF Onward, UpToDate
  <1>4. CASE ResumeAnswered(c)
    <2>2. PICK x : SaveRead(c, x) /\ x = Completed(Read(c), client[c].row, Pending(c).answer)
      BY <1>4 DEF ResumeAnswered
    <2>3. client[c].row.cancel \in BOOLEAN /\ client[c].row.step = Read(c).step
      BY <1>1, ReadIsRow DEF ARows, SameRow, UpToDate
    <2>4. /\ x \in ARows /\ x.cancel = row[r].cancel /\ x.status \notin {"running", "none"} /\ Onward(Read(c), x)
          /\ x.status \notin Terminal => x.step < MaxSteps
      BY <1>1, <2>2, <2>3, ReadIsRow, CompletedRow
    <2>5. Onward(row[r], x)
      BY <1>1, <2>4, ReadIsRow DEF Onward, UpToDate
    <2> QED
      BY <1>1, <1>2, <2>2, <2>4, <2>5, SaveReadKeeps
  <1>5. CASE ResumeSettled(c)
    <2>1. PICK x : /\ SaveRead(c, x)
                   /\ x = [Read(c) EXCEPT !.phase = "paid", !.spent = client[c].row.spent + client[c].row.amount,
                                          !.status = Requeued(c)]
      BY <1>5 DEF ResumeSettled
    <2>2. row[r].phase = "settlement_dispatched" /\ row[r].status = "outcome_unknown"
      BY <1>1, <1>5, ReadIsRow DEF ResumeSettled, Resuming, SameRow, UpToDate
    <2>5. Requeued(c) \in {"cancelled", "queued"} /\ client[c].row.spent + client[c].row.amount \in Nat
      BY <1>1, ReadIsRow DEF ARows, Requeued
    <2>3. /\ x \in ARows /\ x.cancel = row[r].cancel /\ x.status \notin {"running", "none"}
          /\ x.step = row[r].step /\ x.phase = "paid"
      <3>1. Read(c) \in ARows /\ Read(c).cancel = row[r].cancel /\ Read(c).step = row[r].step
        BY <1>1, ReadIsRow DEF UpToDate
      <3>2. "paid" \in Phases /\ {"cancelled", "queued"} \subseteq Statuses
        BY DEF Phases, Statuses, Terminal
      <3> QED
        BY <2>1, <2>5, <3>1, <3>2 DEF ARows
    <2>4. Onward(row[r], x)
      BY <2>2, <2>3 DEF Onward, SettleMarked
    <2>6. x.cancel => row[r].cancel
      BY <2>3
    <2> QED
      BY <1>1, <1>2, <1>8, <2>1, <2>2, <2>3, <2>4, <2>6, SaveReadKeeps DEF Terminal
  <1>6. CASE ResumePreparation(c)
    <2>1. PICK x : SaveRead(c, x) /\ x = [Read(c) EXCEPT !.status = Requeued(c)]
      BY <1>6 DEF ResumePreparation
    <2>2. /\ x \in ARows /\ x.cancel = row[r].cancel /\ x.status \notin {"running", "none"}
          /\ x.step = row[r].step /\ x.phase = row[r].phase
      BY <1>1, <2>1, ReadIsRow DEF ARows, Requeued, Statuses, Terminal, UpToDate
    <2>3. row[r].status = "outcome_unknown"
      BY <1>1, <1>6, ReadIsRow DEF ResumePreparation, Resuming, SameRow, UpToDate
    <2> QED
      BY <1>1, <1>2, <1>8, <2>1, <2>2, <2>3, SaveReadKeeps DEF Onward, Terminal
  <1>7. CASE Authorize(c)
    <2>1. PICK x : SaveRead(c, x) /\ x = [Read(c) EXCEPT !.phase = "payment_ready", !.status = "queued"]
      BY <1>7 DEF Authorize
    <2>2. row[r].phase = "awaiting_payment" /\ row[r].status = "awaiting_payment"
      BY <1>1, <1>7, ReadIsRow DEF Authorize, Resuming, SameRow, UpToDate
    <2>3. /\ x \in ARows /\ x.cancel = row[r].cancel /\ x.status \notin {"running", "none"}
          /\ x.step = row[r].step
      BY <1>1, <2>1, ReadIsRow DEF ARows, Statuses, Phases, UpToDate
    <2>4. Onward(row[r], x)
      BY <2>2, <2>3 DEF Onward, SettleMarked
    <2> QED
      BY <1>1, <1>2, <1>8, <2>1, <2>2, <2>3, <2>4, SaveReadKeeps DEF Terminal
  <1> QED
    BY <1>3, <1>4, <1>5, <1>6, <1>7

\* The gateway, with the entry of one step replaced.
Updated(r, s, v) == gate' = [gate EXCEPT ![r] = [gate[r] EXCEPT ![s] = v]]

LEMMA GateUpdate ==
  ASSUME GShape, NEW r \in Runs, NEW s, NEW v, s \in Steps => v \in AGates,
         Updated(r, s, v)
  PROVE  /\ GShape'
         /\ \A q \in Runs, t \in Steps : q = r /\ t = s => gate'[q][t] = v
         /\ \A q \in Runs, t \in Steps : ~(q = r /\ t = s) => gate'[q][t] = gate[q][t]
  <1>1. CASE s \in Steps
    BY <1>1 DEF GShape, Gates, Updated
  <1>2. CASE s \notin Steps
    <2>1. [gate[r] EXCEPT ![s] = v] = gate[r]
      BY <1>2 DEF GShape, Gates
    <2>2. gate' = gate
      BY <2>1 DEF GShape, Gates, Updated
    <2> QED
      BY <1>2, <2>2 DEF GShape
  <1> QED
    BY <1>1, <1>2

LEMMA SameCounts ==
  ASSUME GShape, NEW r \in Runs, NEW s, NEW v,
         s \in Steps => v \in AGates /\ v.settles = gate[r][s].settles /\ v.infers = gate[r][s].infers,
         Updated(r, s, v)
  PROVE  NoCalls
  <1>1. /\ GShape'
        /\ \A q \in Runs, t \in Steps : q = r /\ t = s => gate'[q][t] = v
        /\ \A q \in Runs, t \in Steps : ~(q = r /\ t = s) => gate'[q][t] = gate[q][t]
    BY GateUpdate
  <1>2. ASSUME NEW q \in Runs, NEW t \in Steps
        PROVE  gate'[q][t].settles = gate[q][t].settles /\ gate'[q][t].infers = gate[q][t].infers
    BY <1>1
  <1> QED
    BY <1>1, <1>2 DEF NoCalls

\* A runner that moves without writing, whatever it sees, keeps its token; it
\* knows the phase it knew, and its step is its own or the row's.
LEMMA RunnerKeeps ==
  ASSUME AInv, NEW p \in Runners, NEW w \in RunnerStates, runner' = [runner EXCEPT ![p] = w],
         w.at # "calling",
         w.at \in {"idle", "sweeping"} \/
           /\ Working(p) /\ w.run = runner[p].run /\ w.token = runner[p].token
           /\ w.seen.phase = runner[p].seen.phase /\ w.seen.amount = runner[p].seen.amount
           /\ w.seen.step \in {runner[p].seen.step, row[runner[p].run].step}
           /\ w.seen.spent \in {runner[p].seen.spent, row[runner[p].run].spent},
         w.at = "preparing" => w.seen.phase = "ready",
         w.at \in {"asking", "asked"} => w.seen.phase = "challenge",
         UNCHANGED <<row, client>>, NoCalls \/ (GShape' /\ SettledOnce' /\ InferredOnce')
  PROVE  AInv'
  <1>1. runner'[p] = w /\ \A q \in Runners \ {p} : runner'[q] = runner[q]
    BY DEF AInv, AShape
  <1>2. \A q \in Runners : Working(q)' =>
          Working(q) /\ runner'[q].run = runner[q].run /\ runner'[q].token = runner[q].token
    BY <1>1 DEF Working
  <1>3. AShape'
    BY <1>2 DEF AInv, AShape, Working
  <1>4. CancelSticks' /\ RowsInRange' /\ StagesFollowPhases'
    BY <1>1 DEF AInv, CancelSticks, RowsInRange, StagesFollowPhases
  <1>5. \A r \in Runs : Onward(row[r], row'[r]) /\ SameRow(row[r], row'[r]) /\ row'[r].version = row[r].version
    BY DEF Onward, SameRow, UpToDate
  <1>6. \A q \in Runners : Leases(q)' =>
          UpToDate(runner'[q].seen, row'[runner'[q].run])
    <2> SUFFICES ASSUME NEW q \in Runners, Leases(q)'
                 PROVE  UpToDate(runner'[q].seen, row'[runner'[q].run])
      OBVIOUS
    <2>1. Leases(q)
      BY <1>2 DEF Leases
    <2>2. UpToDate(runner[q].seen, row[runner[q].run])
      BY <2>1 DEF AInv, HoldersUpToDate, UpToDate
    <2>3. CASE q = p
      BY <1>1, <2>2, <2>3 DEF Leases, Working, UpToDate
    <2> QED
      BY <1>1, <2>2, <2>3
  <1>7. \A q \in Runners : runner'[q].at = "calling" =>
          runner[q].at = "calling" /\ runner'[q].run = runner[q].run /\ runner'[q].seen = runner[q].seen
    BY <1>1
  <1>8. CASE NoCalls
    BY <1>2, <1>3, <1>4, <1>5, <1>6, <1>7, <1>8, StepKeeps
  <1>9. CASE GShape' /\ SettledOnce' /\ InferredOnce'
    <2>1. TokensDistinct'
      BY <1>2 DEF AInv, TokensDistinct
    <2> QED
      BY <1>3, <1>4, <1>5, <1>6, <1>9, <2>1, PartsKeep
  <1> QED
    BY <1>8, <1>9

\* Steps that change neither rows nor calls nor what runners know.
LEMMA RunnersMove ==
  ASSUME AInv, NEW p \in Runners,
         SweepRead(p) \/ NothingQueued(p) \/ StopRead(p) \/ SessionValid(p) \/ Ask(p)
           \/ InferReturns(p) \/ FencedOut(p) \/ Crash(p)
  PROVE  AInv'
  <1>1. runner[p] \in RunnerStates /\ NoWork \in RunnerStates /\ NoWork.at = "idle"
    BY InitialRows DEF AInv, AShape, NoWork, RunnerStates, Stages
  <1>2. Working(p) => runner[p].run \in Runs /\ row[runner[p].run] \in ARows
    BY DEF AInv, AShape
  <1>3. UNCHANGED <<row, client>>
    BY DEF SweepRead, NothingQueued, StopRead, SessionValid, Ask, InferReturns, FencedOut, Crash
  <1>4. NoCalls
    <2>1. CASE UNCHANGED gate
      BY <2>1 DEF AInv, GShape, NoCalls
    <2>2. CASE Ask(p)
      <3> DEFINE r == runner[p].run  s == runner[p].seen.step
      <3>1. Working(p)
        BY <2>2 DEF Ask, Working
      <3>2. CASE UNCHANGED gate
        BY <2>1, <3>2
      <3>3. ASSUME NEW a \in Amounts,
                   gate' = [gate EXCEPT ![r][s] = [@ EXCEPT !.payment = "open", !.amount = a]]
            PROVE  NoCalls
        <4>1. PICK v : v = [gate[r][s] EXCEPT !.payment = "open", !.amount = a]
          OBVIOUS
        <4>2. Updated(r, s, v)
          BY <3>3, <4>1 DEF Updated
        <4>3. a \in Nat /\ r \in Runs
          BY <1>2, <3>1, RuntimeAssumption
        <4>4. s \in Steps => gate[r][s] \in AGates
          BY <4>3 DEF AInv, GShape, Gates
        <4>5. s \in Steps => v \in AGates /\ v.settles = gate[r][s].settles /\ v.infers = gate[r][s].infers
          BY <4>1, <4>3, <4>4 DEF AGates
        <4> HIDE DEF r, s
        <4> QED
          BY <4>2, <4>3, <4>5, SameCounts DEF AInv
      <3> QED
        BY <2>2, <3>2, <3>3 DEF Ask
    <2> QED
      BY <2>1, <2>2 DEF SweepRead, NothingQueued, StopRead, SessionValid, InferReturns, FencedOut, Crash
  <1>5. ASSUME Working(p)
        PROVE  /\ Seen(Local(p)) \in AViews /\ Seen(Local(p)).phase = runner[p].seen.phase
               /\ Seen(Local(p)).amount = runner[p].seen.amount
               /\ Seen(Local(p)).step = row[runner[p].run].step
               /\ Seen(Local(p)).spent = row[runner[p].run].spent
    BY <1>1, <1>2, <1>5 DEF RunnerStates, Seen, Local, AViews, ARows
  <1>6. CASE SweepRead(p)
    <2>1. PICK T : T = {[run |-> r, version |-> row[r].version] : r \in {r \in Runs : Expired(r)}}
      OBVIOUS
    <2>2. \A r \in Runs : row[r].version \in Nat
      BY DEF AInv, AShape, ARows
    <2>4. T \subseteq [run : Runs, version : Nat]
      BY <2>1, <2>2
    <2>5. PICK w : runner' = [runner EXCEPT ![p] = w] /\ w = [runner[p] EXCEPT !.at = "sweeping", !.todo = T]
      BY <1>6, <2>1 DEF SweepRead, AInv, AShape
    <2>3. w \in RunnerStates /\ w.at = "sweeping"
      BY <1>1, <2>4, <2>5 DEF RunnerStates, Stages
    <2> QED
      BY <1>3, <1>4, <2>5, <2>3, RunnerKeeps
  <1>7. CASE NothingQueued(p) \/ FencedOut(p) \/ Crash(p)
    BY <1>1, <1>3, <1>4, <1>7, RunnerKeeps DEF NothingQueued, FencedOut, Crash, NoWork
  <1>8. CASE StopRead(p)
    <2>1. PICK w : /\ runner' = [runner EXCEPT ![p] = w]
                   /\ w = [runner[p] EXCEPT !.seen = Seen(Local(p)), !.at =
                             IF MustStop(row[runner[p].run], runner[p].run) THEN "stopping"
                             ELSE IF runner[p].at = "checking" THEN "dispatching"
                             ELSE IF runner[p].seen.phase = "ready" THEN "preparing" ELSE "session"]
      BY <1>8 DEF StopRead, AInv, AShape
    <2>2. Working(p)
      BY <1>8 DEF StopRead, Working
    <2>3. /\ w \in RunnerStates /\ w.run = runner[p].run /\ w.token = runner[p].token
          /\ w.seen = Seen(Local(p)) /\ w.at \in {"stopping", "dispatching", "preparing", "session"}
          /\ w.at = "preparing" => runner[p].seen.phase = "ready"
      BY <1>1, <1>5, <2>1, <2>2 DEF RunnerStates, Stages
    <2>4. /\ w.at \notin {"calling", "asking", "asked"} /\ (w.at = "preparing" => w.seen.phase = "ready")
          /\ w.seen.phase = runner[p].seen.phase /\ w.seen.amount = runner[p].seen.amount
          /\ w.seen.step = row[runner[p].run].step /\ w.seen.spent = row[runner[p].run].spent
      BY <1>5, <2>2, <2>3
    <2> QED
      BY <1>3, <1>4, <2>1, <2>2, <2>3, <2>4, RunnerKeeps
  <1>9. CASE SessionValid(p)
    <2>1. PICK w : /\ runner' = [runner EXCEPT ![p] = w]
                   /\ w = [runner[p] EXCEPT !.at =
                             IF runner[p].seen.phase = "challenge" THEN "asking" ELSE "checking"]
      BY <1>9 DEF SessionValid, Goto, AInv, AShape
    <2>2. Working(p)
      BY <1>9 DEF SessionValid, Working
    <2>3. /\ w \in RunnerStates /\ w.run = runner[p].run /\ w.token = runner[p].token
          /\ w.seen = runner[p].seen /\ w.at \in {"asking", "checking"}
          /\ w.at = "asking" => runner[p].seen.phase = "challenge"
      BY <1>1, <2>1 DEF RunnerStates, Stages
    <2> QED
      BY <1>3, <1>4, <2>1, <2>2, <2>3, RunnerKeeps
  <1>10. CASE Ask(p)
    <2>1. PICK w : runner' = [runner EXCEPT ![p] = w] /\ w = [runner[p] EXCEPT !.at = "asked"]
      BY <1>10 DEF Ask, Goto, AInv, AShape
    <2>2. Working(p) /\ runner[p].seen.phase = "challenge"
      BY <1>10 DEF Ask, Working, AInv, StagesFollowPhases
    <2>3. /\ w \in RunnerStates /\ w.run = runner[p].run /\ w.token = runner[p].token
          /\ w.seen = runner[p].seen /\ w.at = "asked"
      BY <1>1, <2>1 DEF RunnerStates, Stages
    <2> QED
      BY <1>3, <1>4, <2>1, <2>2, <2>3, RunnerKeeps
  <1>11. CASE InferReturns(p)
    <2>1. PICK w : /\ runner' = [runner EXCEPT ![p] = w]
                   /\ w = [runner[p] EXCEPT !.at = "completing", !.seen = Seen(Local(p))]
      BY <1>11 DEF InferReturns, AInv, AShape
    <2>2. Working(p)
      BY <1>11 DEF InferReturns, Working
    <2>3. /\ w \in RunnerStates /\ w.run = runner[p].run /\ w.token = runner[p].token
          /\ w.seen = Seen(Local(p)) /\ w.at = "completing"
      BY <1>1, <1>5, <2>1, <2>2 DEF RunnerStates, Stages
    <2> QED
      BY <1>3, <1>4, <1>5, <2>1, <2>2, <2>3, RunnerKeeps
  <1> QED
    BY <1>6, <1>7, <1>8, <1>9, <1>10, <1>11

\* What a runner that still has its lease knows of the row.
LEMMA FencedView ==
  ASSUME AInv, NEW p \in Runners, Working(p), Fenced(p), NEW r, r = runner[p].run
  PROVE  /\ r \in Runs /\ row[r] \in ARows /\ row[r].status = "running" /\ row[r].token = runner[p].token
         /\ row[r].step < MaxSteps /\ row[r].step \in Steps
         /\ runner[p].seen \in AViews /\ runner[p].seen.step = row[r].step /\ runner[p].seen.phase = row[r].phase
         /\ Local(p) \in ARows /\ Local(p).status = "running" /\ Local(p).token = row[r].token
         /\ Local(p).step = row[r].step /\ Local(p).phase = row[r].phase /\ Local(p).cancel = row[r].cancel
  <1>1. r \in Runs /\ row[r] \in ARows /\ runner[p].seen \in AViews
    BY DEF AInv, AShape, RunnerStates
  <1>2. row[r].status = "running" /\ row[r].token = runner[p].token
    BY DEF Fenced
  <1>3. runner[p].seen.step = row[r].step /\ runner[p].seen.phase = row[r].phase
    BY <1>2 DEF AInv, HoldersUpToDate, UpToDate, Leases
  <1>4. row[r].step < MaxSteps
    BY <1>1, <1>2 DEF AInv, RowsInRange, Terminal
  <1>5. row[r].step \in Steps
    BY <1>1, <1>4, RuntimeAssumption DEF Steps, ARows
  <1> QED
    BY <1>1, <1>2, <1>3, <1>4, <1>5 DEF Local, ARows, AViews

LEMMA ReleasedRow ==
  ASSUME NEW x \in ARows, NEW status \in Statuses
  PROVE  /\ Released(x, status) \in ARows /\ Released(x, status).status = status
         /\ Released(x, status).step = x.step /\ Released(x, status).phase = x.phase
         /\ Released(x, status).cancel = x.cancel
  BY DEF Released, ARows

\* A row with a phase of its own, and a price or what was paid.
Priced(x, a, phase) == [x EXCEPT !.amount = a, !.phase = phase]
PaidUp(x, a, phase) == [x EXCEPT !.phase = phase, !.spent = a]

LEMMA PricedRow ==
  ASSUME NEW x \in ARows, NEW a \in Nat, NEW phase \in Phases
  PROVE  \A y \in {Priced(x, a, phase), PaidUp(x, a, phase)} :
           /\ y \in ARows /\ y.status = x.status /\ y.token = x.token /\ y.step = x.step
           /\ y.cancel = x.cancel /\ y.phase = phase
  BY DEF ARows, Priced, PaidUp

\* A runner gives the run up, its progress as it is or further.
LEMMA ReleaseKeeps ==
  ASSUME AInv, NEW p \in Runners, Working(p), NEW x \in ARows, NEW status \in Statuses \ {"none", "running"},
         Save(p, Released(x, status), "idle"), Onward(row[runner[p].run], x),
         x.step = row[runner[p].run].step, x.cancel = row[runner[p].run].cancel,
         UNCHANGED <<client, gate>>
  PROVE  AInv'
  <1>1. Fenced(p)
    BY DEF Save
  <1>2. PICK y : y = Released(x, status)
    OBVIOUS
  <1>3. y \in ARows /\ y.status = status /\ y.step = x.step /\ y.phase = x.phase /\ y.cancel = x.cancel
    BY <1>2, ReleasedRow
  <1>4. row[runner[p].run].step < MaxSteps
    BY <1>1, FencedView
  <1>5. NoCalls
    BY DEF AInv, GShape, NoCalls
  <1>6. Onward(row[runner[p].run], y)
    BY <1>3 DEF Onward
  <1> QED
    BY <1>2, <1>3, <1>4, <1>5, <1>6, SaveKeeps

\* The writes of a runner that lead to no call.
LEMMA WritesKeep ==
  ASSUME AInv, NEW p \in Runners,
         StopWrite(p) \/ Prepare(p) \/ SessionExpired(p) \/ OverBudget(p) \/ RequirePayment(p)
           \/ SettleReturns(p) \/ Complete(p) \/ Fail(p)
  PROVE  AInv'
  <1> DEFINE r == runner[p].run
  <1>1. Working(p) /\ Fenced(p) /\ UNCHANGED <<client, gate>>
    BY DEF StopWrite, Prepare, SessionExpired, OverBudget, RequirePayment, SettleReturns, Complete, Fail,
           Save, Working
  <1>2. NoCalls
    BY <1>1 DEF AInv, GShape, NoCalls
  <1>3. Onward(row[r], Local(p)) /\ Onward(row[r], row[r])
    BY <1>1, FencedView DEF Onward
  <1>4. CASE StopWrite(p) \/ SessionExpired(p) \/ OverBudget(p)
    <2>1. PICK status \in {"cancelled", "exhausted", "failed"} : Save(p, Released(Local(p), status), "idle")
      BY <1>4 DEF StopWrite, SessionExpired, OverBudget
    <2>2. status \in Statuses \ {"none", "running"}
      BY DEF Statuses, Terminal
    <2> QED
      BY <1>1, <1>3, <2>1, <2>2, FencedView, ReleaseKeeps
  <1>5. CASE Prepare(p)
    <2>1. PICK x : x = [Local(p) EXCEPT !.phase = "challenge"] /\ Save(p, x, "session")
      BY <1>5 DEF Prepare
    <2>2. row[r].phase = "ready"
      BY <1>1, <1>5, FencedView DEF Prepare, AInv, StagesFollowPhases
    <2>3. /\ x \in ARows /\ x.status = "running" /\ x.token = row[r].token /\ x.step = row[r].step
          /\ x.cancel = row[r].cancel
      BY <1>1, <2>1, FencedView DEF ARows, Phases
    <2>4. Onward(row[r], x)
      BY <2>2, <2>3 DEF Onward, SettleMarked
    <2> QED
      BY <1>1, <1>2, <2>1, <2>3, <2>4, FencedView, SaveKeeps
  <1>6. CASE RequirePayment(p)
    <2>1. row[r].phase = "challenge"
      BY <1>1, <1>6, FencedView DEF RequirePayment, AInv, StagesFollowPhases
    <2>2. StepGate(p).amount \in Nat
      BY <1>1, FencedView DEF StepGate, AInv, GShape, Gates, AGates
    <2>5. "payment_ready" \in Phases /\ "awaiting_payment" \in Phases
      BY DEF Phases
    <2>6. /\ Local(p) \in ARows /\ Local(p).status = "running" /\ Local(p).token = row[r].token
          /\ Local(p).step = row[r].step /\ Local(p).cancel = row[r].cancel
      BY <1>1, FencedView
    <2>3. CASE Save(p, [Local(p) EXCEPT !.amount = StepGate(p).amount, !.phase = "payment_ready"], "checking")
      <3>1. PICK x : /\ x = Priced(Local(p), StepGate(p).amount, "payment_ready")
                     /\ Save(p, x, "checking")
        BY <2>3 DEF Priced
      <3>2. /\ x \in ARows /\ x.status = "running" /\ x.token = row[r].token /\ x.step = row[r].step
            /\ x.cancel = row[r].cancel
        BY <2>2, <2>5, <2>6, <3>1, PricedRow
      <3>3. Onward(row[r], x)
        BY <2>1, <3>2 DEF Onward, SettleMarked
      <3> QED
        BY <1>1, <1>2, <3>1, <3>2, <3>3, FencedView, SaveKeeps
    <2>4. CASE Save(p, Released([Local(p) EXCEPT !.amount = StepGate(p).amount, !.phase = "awaiting_payment"],
                                "awaiting_payment"), "idle")
      <3>1. PICK x : /\ x = Priced(Local(p), StepGate(p).amount, "awaiting_payment")
                     /\ Save(p, Released(x, "awaiting_payment"), "idle")
        BY <2>4 DEF Priced
      <3>2. x \in ARows /\ x.step = row[r].step /\ x.cancel = row[r].cancel
        BY <2>2, <2>5, <2>6, <3>1, PricedRow
      <3>3. Onward(row[r], x)
        BY <2>1, <3>2 DEF Onward, SettleMarked
      <3>4. "awaiting_payment" \in Statuses \ {"none", "running"}
        BY DEF Statuses
      <3> QED
        BY <1>1, <3>1, <3>2, <3>3, <3>4, ReleaseKeeps
    <2> QED
      BY <1>6, <2>3, <2>4 DEF RequirePayment
  <1>7. CASE SettleReturns(p)
    <2>1. PICK x : /\ x = PaidUp(Local(p), runner[p].seen.spent + runner[p].seen.amount, "paid")
                   /\ Save(p, x, "checking")
      BY <1>7 DEF SettleReturns, PaidUp
    <2>2. row[r].phase = "settlement_dispatched"
      BY <1>1, <1>7, FencedView DEF SettleReturns
    <2>3. runner[p].seen.spent + runner[p].seen.amount \in Nat
      BY <1>1, FencedView DEF AViews
    <2>4. /\ x \in ARows /\ x.status = "running" /\ x.token = row[r].token /\ x.step = row[r].step
          /\ x.cancel = row[r].cancel /\ x.phase = "paid"
      <3>1. "paid" \in Phases
        BY DEF Phases
      <3> QED
        BY <1>1, <2>1, <2>3, <3>1, FencedView, PricedRow
    <2>5. Onward(row[r], x)
      BY <2>2, <2>4 DEF Onward, SettleMarked
    <2> QED
      BY <1>1, <1>2, <2>1, <2>4, <2>5, FencedView, SaveKeeps
  <1>8. CASE Complete(p)
    <2>1. PICK x : x = Completed(Local(p), runner[p].seen, StepGate(p).answer) /\ Save(p, x, "idle")
      BY <1>8 DEF Complete
    <2>2. runner[p].seen.cancel \in BOOLEAN /\ runner[p].seen.step = Local(p).step /\ Local(p) \in ARows
      BY <1>1, FencedView DEF AViews
    <2>3. /\ x \in ARows /\ x.cancel = row[r].cancel /\ x.status \notin {"running", "none"} /\ Onward(Local(p), x)
          /\ x.status \notin Terminal => x.step < MaxSteps
      BY <1>1, <2>1, <2>2, FencedView, CompletedRow
    <2>4. Onward(row[r], x)
      BY <1>1, <2>3, FencedView DEF Onward
    <2> QED
      BY <1>1, <1>2, <2>1, <2>3, <2>4, SaveKeeps
  <1>9. CASE Fail(p)
    <2>1. PICK status \in {"outcome_unknown", "failed"} : Save(p, Released(row[r], status), "idle")
      BY <1>9 DEF Fail
    <2>2. status \in Statuses \ {"none", "running"}
      BY DEF Statuses, Terminal
    <2> QED
      BY <1>1, <1>3, <2>1, <2>2, FencedView, ReleaseKeeps
  <1> QED
    BY <1>4, <1>5, <1>6, <1>7, <1>8, <1>9

\* A row that changes, or none, while the runners stay where they are.
LEMMA RowKeeps ==
  ASSUME AInv, NEW r \in Runs, NEW y \in ARows, row' = [row EXCEPT ![r] = y], Onward(row[r], y),
         y.version > row[r].version \/
           (y.version = row[r].version /\ (SameRow(row[r], y) \/ row[r].status = "none")),
         y.cancel => y.status \notin {"completed", "queued", "awaiting_payment"},
         y.status \notin Terminal => y.step < MaxSteps, y.status = "none" => ~y.cancel,
         y.status = "running" =>
           row[r].status = "running" /\ y.token = row[r].token /\ UpToDate(y, row[r]),
         runner' \in [Runners -> RunnerStates],
         \A q \in Runners : /\ runner'[q].at = runner[q].at /\ runner'[q].run = runner[q].run
                            /\ runner'[q].token = runner[q].token /\ runner'[q].seen = runner[q].seen,
         UNCHANGED client, NoCalls
  PROVE  AInv'
  <1>1. \A q \in Runs : row'[q] = IF q = r THEN y ELSE row[q]
    BY DEF AInv, AShape
  <1>2. \A q \in Runners : Working(q)' = Working(q)
    BY DEF Working
  <1>3. AShape'
    <2>1. row' \in [Runs -> ARows]
      BY DEF AInv, AShape
    <2> QED
      BY <1>2, <2>1 DEF AInv, AShape
  <1>4. CancelSticks' /\ RowsInRange' /\ StagesFollowPhases'
    BY <1>1 DEF AInv, CancelSticks, RowsInRange, StagesFollowPhases
  <1>5. \A q \in Runs : Onward(row[q], row'[q])
    BY <1>1 DEF Onward
  <1>6. \A q \in Runs :
          \/ row'[q].version > row[q].version
          \/ row'[q].version = row[q].version /\ (SameRow(row[q], row'[q]) \/ row[q].status = "none")
    BY <1>1 DEF SameRow, UpToDate
  <1>7. ASSUME NEW q \in Runners, Leases(q)'
        PROVE  UpToDate(runner'[q].seen, row'[runner'[q].run])
    <2>1. Working(q) /\ runner[q].run \in Runs
      BY <1>2, <1>7 DEF Leases, AInv, AShape
    <2>2. Leases(q) /\ UpToDate(row'[runner[q].run], row[runner[q].run])
      BY <1>1, <1>7, <2>1 DEF Leases, UpToDate
    <2> QED
      BY <2>2 DEF AInv, HoldersUpToDate, UpToDate
  <1> QED
    BY <1>2, <1>3, <1>4, <1>5, <1>6, <1>7, StepKeeps

\* A row as it is keeps to what RowKeeps asks of it.
LEMMA RowAsItIs ==
  ASSUME AInv, NEW r \in Runs
  PROVE  /\ row[r] \in ARows /\ Onward(row[r], row[r]) /\ SameRow(row[r], row[r])
         /\ UpToDate(row[r], row[r])
         /\ row[r].cancel => row[r].status \notin {"completed", "queued", "awaiting_payment"}
         /\ row[r].status \notin Terminal => row[r].step < MaxSteps
         /\ row[r].status = "none" => ~row[r].cancel
         /\ row = [row EXCEPT ![r] = row[r]]
  BY DEF AInv, AShape, Onward, SameRow, UpToDate, CancelSticks, RowsInRange

\* Rows that start, are swept or lose their lease; time, and the gateway.
LEMMA SurroundingsKeep ==
  ASSUME AInv, NEW r \in Runs,
         Create(r) \/ Expire(r) \/ Deadline(r) \/ (\E p \in Runners : Sweep(p))
           \/ (\E s \in Steps : Settle(r, s) \/ \E d \in Decisions : Infer(r, s, d))
  PROVE  AInv'
  <1>1. runner \in [Runners -> RunnerStates] /\ row \in [Runs -> ARows]
    BY DEF AInv, AShape
  <1>2. CASE Create(r)
    <2>1. PICK y : y = [row[r] EXCEPT !.status = "queued"]
      OBVIOUS
    <2>2. row' = [row EXCEPT ![r] = y] /\ row[r].status = "none" /\ UNCHANGED <<runner, client, gate>>
      BY <1>2, <2>1 DEF Create
    <2>3. /\ y \in ARows /\ y.status = "queued" /\ y.step = row[r].step /\ y.phase = row[r].phase
          /\ y.cancel = row[r].cancel /\ y.version = row[r].version
      BY <1>1, <2>1 DEF ARows, Statuses
    <2>4. Onward(row[r], y) /\ ~y.cancel /\ row[r].step < MaxSteps
      BY <2>2, <2>3, RowAsItIs DEF Onward, Terminal
    <2>5. NoCalls
      BY <2>2 DEF AInv, GShape, NoCalls
    <2> QED
      BY <1>1, <2>2, <2>3, <2>4, <2>5, RowKeeps
  <1>3. CASE Expire(r)
    <2>1. PICK y : y = [row[r] EXCEPT !.live = FALSE]
      OBVIOUS
    <2>2. row' = [row EXCEPT ![r] = y] /\ row[r].status = "running" /\ UNCHANGED <<runner, client, gate>>
      BY <1>3, <2>1 DEF Expire
    <2>3. /\ y \in ARows /\ y.status = "running" /\ UpToDate(y, row[r])
          /\ y.cancel = row[r].cancel /\ y.version = row[r].version /\ y.token = row[r].token
      BY <1>1, <2>1, <2>2 DEF ARows, UpToDate
    <2>4. Onward(row[r], y) /\ SameRow(row[r], y) /\ row[r].step < MaxSteps
      BY <2>2, <2>3, RowAsItIs DEF Onward, SameRow, UpToDate, Terminal
    <2>5. NoCalls
      BY <2>2 DEF AInv, GShape, NoCalls
    <2>6. y.cancel => y.status \notin {"completed", "queued", "awaiting_payment"}
      BY <2>3
    <2>7. y.status \notin Terminal => y.step < MaxSteps
      BY <2>3, <2>4 DEF UpToDate
    <2> QED
      BY <1>1, <2>2, <2>3, <2>4, <2>5, <2>6, <2>7, RowKeeps
  <1>4. ASSUME UNCHANGED <<row, runner, client>>, NoCalls PROVE AInv'
    <2>1. row' = [row EXCEPT ![r] = row[r]]
      BY <1>4, RowAsItIs
    <2> QED
      BY <1>1, <1>4, <2>1, RowAsItIs, RowKeeps
  <1>5. CASE Deadline(r)
    <2>1. UNCHANGED <<row, runner, client>> /\ NoCalls
      BY <1>5 DEF Deadline, AInv, GShape, NoCalls
    <2> QED
      BY <1>4, <2>1
  <1>6. ASSUME NEW s \in Steps, Settle(r, s) \/ \E d \in Decisions : Infer(r, s, d) PROVE AInv'
    <2>1. gate[r][s] \in AGates
      BY DEF AInv, GShape, Gates
    <2>2. PICK v : /\ \/ v = [gate[r][s] EXCEPT !.payment = "settled"]
                      \/ \E d \in Decisions : v = [gate[r][s] EXCEPT !.payment = "consumed", !.answer = d]
                   /\ Updated(r, s, v)
      BY <1>6 DEF Settle, Infer, Updated
    <2>3. v \in AGates /\ v.settles = gate[r][s].settles /\ v.infers = gate[r][s].infers
      BY <2>1, <2>2 DEF AGates
    <2>4. NoCalls
      BY <2>2, <2>3, SameCounts DEF AInv
    <2>5. UNCHANGED <<row, runner, client>>
      BY <1>6 DEF Settle, Infer
    <2> QED
      BY <1>4, <2>4, <2>5
  <1>7. ASSUME NEW p \in Runners, Sweep(p) PROVE AInv'
    <2>1. PICK t \in runner[p].todo :
            /\ runner' = [runner EXCEPT ![p].todo = @ \ {t}]
            /\ IF Expired(t.run) /\ row[t.run].version = t.version
               THEN Commit(t.run, Released(row[t.run], "outcome_unknown"))
               ELSE UNCHANGED row
      BY <1>7 DEF Sweep
    <2>2. t.run \in Runs /\ runner[p] \in RunnerStates
      BY <1>1, <2>1 DEF RunnerStates
    <2>3. /\ runner' \in [Runners -> RunnerStates]
          /\ \A q \in Runners : /\ runner'[q].at = runner[q].at /\ runner'[q].run = runner[q].run
                                /\ runner'[q].token = runner[q].token /\ runner'[q].seen = runner[q].seen
      BY <1>1, <2>1, <2>2 DEF RunnerStates
    <2>4. NoCalls /\ UNCHANGED client
      BY <1>7 DEF Sweep, AInv, GShape, NoCalls
    <2>5. CASE UNCHANGED row
      <3>1. row' = [row EXCEPT ![t.run] = row[t.run]]
        BY <2>2, <2>5, RowAsItIs
      <3> QED
        BY <2>2, <2>3, <2>4, <3>1, RowAsItIs, RowKeeps
    <2>6. CASE Expired(t.run) /\ Commit(t.run, Released(row[t.run], "outcome_unknown"))
      <3>1. PICK x : x = Released(row[t.run], "outcome_unknown")
        OBVIOUS
      <3>2. /\ x \in ARows /\ x.status = "outcome_unknown" /\ x.step = row[t.run].step
            /\ x.phase = row[t.run].phase /\ x.cancel = row[t.run].cancel
        <4>1. "outcome_unknown" \in Statuses /\ row[t.run] \in ARows
          BY <1>1, <2>2 DEF Statuses
        <4> QED
          BY <3>1, <4>1, ReleasedRow
      <3>3. PICK y : y = [x EXCEPT !.version = row[t.run].version + 1]
        OBVIOUS
      <3>4. row' = [row EXCEPT ![t.run] = y]
        BY <2>6, <3>1, <3>3 DEF Commit
      <3>5. /\ y \in ARows /\ y.status = "outcome_unknown" /\ y.step = row[t.run].step
            /\ y.phase = row[t.run].phase /\ y.cancel = row[t.run].cancel
            /\ y.version > row[t.run].version
        <4>1. row[t.run].version \in Nat
          BY <1>1, <2>2 DEF ARows
        <4> QED
          BY <3>2, <3>3, <4>1 DEF ARows
      <3>6. Onward(row[t.run], y) /\ row[t.run].step < MaxSteps
        BY <2>2, <2>6, <3>5, RowAsItIs DEF Onward, Expired, Terminal
      <3> QED
        BY <2>2, <2>3, <2>4, <3>4, <3>5, <3>6, RowKeeps
    <2> QED
      BY <2>1, <2>5, <2>6
  <1> QED
    BY <1>2, <1>3, <1>5, <1>6, <1>7

\* A request that comes has read the row as it is.
LEMMA ClientsKeep ==
  ASSUME AInv, NEW c \in Clients, Refuse(c) \/ \E r \in Runs : Request(c, r)
  PROVE  AInv'
  <1>1. UNCHANGED <<row, runner, gate>>
    BY DEF Refuse, Request
  <1>2. row \in [Runs -> ARows] /\ client \in [Clients -> Requests] /\ NoRequest \in Requests
    BY InitialRows DEF AInv, AShape, NoRequest, Requests
  <1>3. PICK x \in Requests :
          /\ client' = [client EXCEPT ![c] = x]
          /\ x.at # "idle" => x.run \in Runs /\ x.row = row[x.run] /\ x.row.status # "none"
    <2>1. CASE Refuse(c)
      BY <1>2, <2>1 DEF Refuse, NoRequest
    <2>2. ASSUME NEW r \in Runs, Request(c, r)
          PROVE  \E x \in Requests :
                   /\ client' = [client EXCEPT ![c] = x]
                   /\ x.at # "idle" => x.run \in Runs /\ x.row = row[x.run] /\ x.row.status # "none"
      <3>1. PICK at \in {"cancelling", "resuming"} :
              /\ row[r].status # "none"
              /\ client' = [client EXCEPT ![c] = [at |-> at, run |-> r, row |-> row[r]]]
        BY <2>2 DEF Request
      <3>2. [at |-> at, run |-> r, row |-> row[r]] \in Requests
        BY <1>2 DEF Requests
      <3> QED
        BY <3>1, <3>2
    <2> QED
      BY <2>1, <2>2
  <1>4. client' \in [Clients -> Requests] /\ client'[c] = x /\ \A d \in Clients \ {c} : client'[d] = client[d]
    BY <1>2, <1>3
  <1>5. AShape'
    BY <1>1, <1>3, <1>4 DEF AInv, AShape, Working
  <1>6. CancelSticks' /\ RowsInRange' /\ StagesFollowPhases' /\ NoCalls
    BY <1>1 DEF AInv, CancelSticks, RowsInRange, StagesFollowPhases, GShape, NoCalls
  <1>7. \A r \in Runs : Onward(row[r], row'[r]) /\ SameRow(row[r], row'[r]) /\ row'[r].version = row[r].version
    BY <1>1 DEF Onward, SameRow, UpToDate
  <1>8. \A q \in Runners : Working(q)' = Working(q) /\ (Leases(q)' => Leases(q))
    BY <1>1 DEF Working, Leases
  <1>9. \A q \in Runners : Leases(q)' =>
          UpToDate(runner'[q].seen, row'[runner'[q].run])
    BY <1>1, <1>8 DEF AInv, HoldersUpToDate, UpToDate
  <1>10. \A d \in Clients :
           \/ client'[d] = client[d] \/ client'[d].at = "idle"
           \/ /\ client'[d].run \in Runs /\ client'[d].row = row'[client'[d].run]
              /\ client'[d].row.status # "none"
    BY <1>1, <1>3, <1>4
  <1> QED
    BY <1>1, <1>5, <1>6, <1>7, <1>8, <1>9, <1>10, StepKeeps

\* A runner claims a run that nobody executes: its token is new.
LEMMA ClaimKeeps ==
  ASSUME AInv, NEW p \in Runners, Claim(p)
  PROVE  AInv'
  <1>0. row \in [Runs -> ARows] /\ runner \in [Runners -> RunnerStates]
    BY DEF AInv, AShape
  <1>1. PICK r \in Runs :
          LET n == row[r].version + 1
              x == [row[r] EXCEPT !.status = "running", !.token = n, !.live = TRUE, !.version = n]
          IN /\ row[r].status = "queued" /\ row' = [row EXCEPT ![r] = x]
             /\ runner' = [runner EXCEPT ![p] =
                  [at |-> "starting", run |-> r, token |-> n, seen |-> Seen(x), todo |-> {}]]
    BY DEF Claim
  <1>2. PICK n : n = row[r].version + 1
    OBVIOUS
  <1>3. n \in Nat /\ n > row[r].version /\ row[r].version \in Nat
    BY <1>0, <1>2 DEF ARows
  <1>4. PICK x : x = [row[r] EXCEPT !.status = "running", !.token = n, !.live = TRUE, !.version = n]
    OBVIOUS
  <1>5. /\ x \in ARows /\ x.status = "running" /\ x.token = n /\ x.version = n /\ x.step = row[r].step
        /\ x.phase = row[r].phase /\ x.cancel = row[r].cancel
    BY <1>0, <1>3, <1>4 DEF ARows, Statuses
  <1>6. PICK w : w = [at |-> "starting", run |-> r, token |-> n, seen |-> Seen(x), todo |-> {}]
    OBVIOUS
  <1>7. Seen(x) \in AViews /\ UpToDate(Seen(x), x)
    BY <1>5 DEF Seen, AViews, ARows, UpToDate
  <1>8. /\ w \in RunnerStates /\ w.at = "starting" /\ w.run = r /\ w.token = n
        /\ UpToDate(w.seen, x)
    BY <1>3, <1>5, <1>6, <1>7 DEF RunnerStates, Stages
  <1>9. row[r].status = "queued" /\ row' = [row EXCEPT ![r] = x] /\ runner' = [runner EXCEPT ![p] = w]
    BY <1>1, <1>2, <1>4, <1>6
  <1>10. /\ \A q \in Runs : row'[q] = IF q = r THEN x ELSE row[q]
         /\ runner'[p] = w /\ \A q \in Runners \ {p} : runner'[q] = runner[q]
    BY <1>0, <1>9
  <1>11. UNCHANGED <<client, gate>>
    BY DEF Claim
  <1>12. AShape'
    <2>1. row' \in [Runs -> ARows] /\ runner' \in [Runners -> RunnerStates]
      BY <1>0, <1>5, <1>8, <1>9
    <2>2. \A q \in Runners : Working(q)' => runner'[q].run \in Runs
      BY <1>8, <1>10 DEF AInv, AShape, Working
    <2> QED
      BY <1>11, <2>1, <2>2 DEF AInv, AShape
  <1>13. CancelSticks' /\ RowsInRange' /\ StagesFollowPhases'
    <2>1. ~x.cancel /\ x.step < MaxSteps
      BY <1>5, <1>9 DEF AInv, CancelSticks, RowsInRange, Terminal
    <2> QED
      BY <1>5, <1>8, <1>10, <2>1 DEF AInv, CancelSticks, RowsInRange, StagesFollowPhases
  <1>14. \A q \in Runs : row'[q].version > row[q].version
           \/ (row'[q].version = row[q].version /\ SameRow(row[q], row'[q]))
    BY <1>3, <1>5, <1>10 DEF SameRow, UpToDate
  <1>15. TokensDistinct'
    <2>1. \A q \in Runners \ {p} : Working(q)' => Working(q) /\ runner[q].run \in Runs /\ runner[q].token \in Nat
      BY <1>0, <1>10 DEF Working, AInv, AShape, RunnerStates
    <2>2. \A q \in Runners \ {p} : Working(q)' =>
            runner'[q].token <= row[runner'[q].run].version /\ runner'[q].token <= row'[runner'[q].run].version
      BY <1>3, <1>5, <1>10, <2>1 DEF AInv, TokensDistinct
    <2>3. \A q \in Runners \ {p} : Working(q)' /\ runner'[q].run = r => runner'[q].token # n
      BY <1>3, <1>10, <2>1, <2>2
    <2>4. runner'[p].token <= row'[runner'[p].run].version
      BY <1>3, <1>5, <1>8, <1>10
    <2>5. \A q, t \in Runners :
            Working(q)' /\ Working(t)' /\ runner'[q].run = runner'[t].run /\ runner'[q].token = runner'[t].token
              => q = t
      <3> SUFFICES ASSUME NEW q \in Runners, NEW t \in Runners, Working(q)', Working(t)', q # t,
                          runner'[q].run = runner'[t].run, runner'[q].token = runner'[t].token
                   PROVE  FALSE
        OBVIOUS
      <3>1. CASE q = p
        BY <1>8, <1>10, <2>3, <3>1
      <3>2. CASE t = p
        BY <1>8, <1>10, <2>3, <3>2
      <3>3. CASE q # p /\ t # p
        BY <1>10, <2>1, <3>3 DEF AInv, TokensDistinct
      <3> QED
        BY <3>1, <3>2, <3>3
    <2> QED
      BY <2>2, <2>4, <2>5 DEF TokensDistinct
  <1>16. ASSUME NEW q \in Runners, Leases(q)'
         PROVE  UpToDate(runner'[q].seen, row'[runner'[q].run])
    <2>1. CASE q = p
      BY <1>5, <1>8, <1>10, <2>1
    <2>2. CASE q # p
      <3>1. Working(q) /\ runner[q].run \in Runs /\ runner'[q] = runner[q]
        BY <1>10, <1>16, <2>2 DEF Leases, Working, AInv, AShape
      <3>2. CASE runner[q].run = r
        <4>1. runner[q].token = n /\ runner[q].token <= row[r].version
          BY <1>5, <1>10, <1>16, <3>1, <3>2 DEF Leases, AInv, TokensDistinct
        <4> QED
          BY <1>3, <4>1
      <3>3. CASE runner[q].run # r
        <4>1. row'[runner[q].run] = row[runner[q].run]
          BY <1>10, <3>1, <3>3
        <4> QED
          BY <1>16, <3>1, <4>1 DEF Leases, AInv, HoldersUpToDate, UpToDate
      <3> QED
        BY <3>2, <3>3
    <2> QED
      BY <2>1, <2>2
  <1>17. SettledOnce' /\ InferredOnce' /\ GShape'
    <2>1. NoCalls
      BY <1>11 DEF AInv, GShape, NoCalls
    <2>2. \A q \in Runs : Onward(row[q], row'[q])
      BY <1>5, <1>10 DEF Onward
    <2>3. \A q \in Runners : runner'[q].at = "calling" =>
            runner[q].at = "calling" /\ runner'[q].run = runner[q].run /\ runner'[q].seen = runner[q].seen
      BY <1>8, <1>10
    <2> QED
      BY <1>12, <2>1, <2>2, <2>3, CallsStay DEF NoCalls
  <1> QED
    BY <1>11, <1>12, <1>13, <1>14, <1>15, <1>16, <1>17, PartsKeep

\* A marker is committed, before which no call of the step was made.
LEMMA DispatchKeeps ==
  ASSUME AInv, NEW p \in Runners, Dispatch(p)
  PROVE  AInv'
  <1> DEFINE r == runner[p].run
  <1>1. Working(p) /\ Fenced(p) /\ UNCHANGED <<client, gate>>
    BY DEF Dispatch, Save, Working
  <1>2. /\ r \in Runs /\ row[r] \in ARows /\ row[r].step < MaxSteps /\ row[r].step \in Steps
        /\ runner[p].seen.step = row[r].step /\ runner[p].seen.phase = row[r].phase
        /\ Local(p) \in ARows /\ Local(p).status = "running" /\ Local(p).token = row[r].token
        /\ Local(p).step = row[r].step /\ Local(p).cancel = row[r].cancel
    BY <1>1, FencedView
  <1>3. CASE \E status \in {"cancelled", "exhausted"} : Save(p, Released(row[r], status), "idle")
    <2>1. PICK status \in {"cancelled", "exhausted"} : Save(p, Released(row[r], status), "idle")
      BY <1>3
    <2>2. status \in Statuses \ {"none", "running"}
      BY DEF Statuses, Terminal
    <2> QED
      BY <1>1, <1>2, <2>1, <2>2, ReleaseKeeps DEF Onward
  <1>4. ASSUME NEW marker \in Phases, Due(p, marker), Save(p, [Local(p) EXCEPT !.phase = marker], "calling")
        PROVE  AInv'
    <2>1. PICK x : x = [Local(p) EXCEPT !.phase = marker] /\ Save(p, x, "calling")
      BY <1>4
    <2>2. /\ x \in ARows /\ x.status = "running" /\ x.token = row[r].token /\ x.step = row[r].step
          /\ x.cancel = row[r].cancel /\ x.phase = marker
      BY <1>2, <2>1 DEF ARows
    <2>3. \/ row[r].phase = "payment_ready" /\ marker = "settlement_dispatched"
          \/ row[r].phase = "paid" /\ marker = "inference_dispatched"
      BY <1>2, <1>4 DEF Due
    <2>4. Onward(row[r], x)
      BY <2>2, <2>3 DEF Onward, SettleMarked
    <2>5. /\ AShape' /\ CancelSticks' /\ RowsInRange' /\ StagesFollowPhases'
          /\ \A q \in Runs : /\ Onward(row[q], row'[q])
                            /\ \/ row'[q].version > row[q].version
                               \/ row'[q].version = row[q].version /\ SameRow(row[q], row'[q])
      BY <1>1, <1>2, <2>1, <2>2, <2>4, SaveFacts
    <2>6. \A q \in Runners :
            /\ Working(q)' =>
                 Working(q) /\ runner'[q].run = runner[q].run /\ runner'[q].token = runner[q].token
            /\ Leases(q)' =>
                 UpToDate(runner'[q].seen, row'[runner'[q].run])
      BY <1>1, <1>2, <2>1, <2>2, <2>4, SaveFacts
    <2>7. /\ \A q \in Runners \ {p} : runner'[q] = runner[q]
          /\ \/ runner'[p].at = "idle"
             \/ /\ runner'[p].at = "calling" /\ runner'[p].run = r
                /\ runner'[p].seen.step = x.step /\ runner'[p].seen.phase = x.phase
          /\ row'[r].step = x.step /\ row'[r].phase = x.phase
      BY <1>1, <1>2, <2>1, <2>2, <2>4, SaveFacts
    <2>8. \A q \in Runs, s \in Int :
            /\ MayHaveSettled(row[q], s) => MayHaveSettled(row'[q], s)
            /\ MayHaveInferred(row[q], s) => MayHaveInferred(row'[q], s)
      <3>1. \A q \in Runs : row[q] \in ARows /\ row'[q] \in ARows
        BY <2>5 DEF AInv, AShape
      <3> QED
        BY <2>5, <3>1, OnwardKeeps
    <2>9. /\ GShape' /\ Steps \subseteq Int
          /\ \A q \in Runners : runner[q].at = "calling" => runner[q].run \in Runs /\ runner[q].seen.step \in Int
      BY <1>1 DEF AInv, AShape, GShape, Steps, Working, AViews, RunnerStates
    <2>10. TokensDistinct'
      <3>1. \A q \in Runners : Working(q)' => runner'[q].run \in Runs /\ runner'[q].token \in Nat
        BY <2>5 DEF AShape, RunnerStates
      <3>2. \A q \in Runs : row[q].version \in Nat /\ row'[q].version \in Nat /\ row[q].version <= row'[q].version
        BY <2>5 DEF AInv, AShape, ARows
      <3>3. \A q \in Runners : Working(q)' => runner'[q].token <= row'[runner'[q].run].version
        BY <2>6, <3>1, <3>2 DEF AInv, TokensDistinct
      <3>4. \A q, t \in Runners :
              Working(q)' /\ Working(t)' /\ runner'[q].run = runner'[t].run /\ runner'[q].token = runner'[t].token
                => q = t
        BY <2>6 DEF AInv, TokensDistinct
      <3> QED
        BY <3>3, <3>4 DEF TokensDistinct
    <2>11. CASE marker = "settlement_dispatched"
      <3>1. ~MayHaveSettled(row[r], row[r].step) /\ MayHaveSettled(row'[r], row[r].step)
        BY <1>2, <2>2, <2>3, <2>7, <2>11 DEF MayHaveSettled, SettleMarked, ARows
      <3>2. gate[r][row[r].step].settles = 0
        BY <1>2, <3>1 DEF AInv, SettledOnce, GShape, Gates, AGates
      <3>3. \A q \in Runners : Settling(q) /\ runner[q].run = r => runner[q].seen.step # row[r].step
        BY <3>1 DEF AInv, SettledOnce
      <3>4. \A q \in Runners \ {p} : Settling(q)' = Settling(q) /\ Inferring(q)' = Inferring(q)
        BY <2>7 DEF Settling, Inferring
      <3>5. ~Inferring(p)' /\ (Settling(p)' => runner'[p].run = r /\ runner'[p].seen.step = row[r].step)
        BY <2>2, <2>7, <2>11 DEF Settling, Inferring
      <3>6. SettledOnce'
        <4>1. \A q \in Runs, s \in Steps :
                gate'[q][s].settles <= 1 /\ (gate'[q][s].settles > 0 => MayHaveSettled(row'[q], s))
          BY <1>1, <2>8, <2>9 DEF AInv, SettledOnce
        <4>2. ASSUME NEW q \in Runners, Settling(q)'
              PROVE  /\ MayHaveSettled(row'[runner'[q].run], runner'[q].seen.step)
                     /\ runner'[q].seen.step \in Steps => gate'[runner'[q].run][runner'[q].seen.step].settles = 0
          <5>1. CASE q = p
            BY <1>1, <3>1, <3>2, <3>5, <4>2, <5>1
          <5>2. CASE q # p
            BY <1>1, <2>7, <2>8, <2>9, <3>4, <4>2, <5>2 DEF AInv, SettledOnce, Settling
          <5> QED
            BY <5>1, <5>2
        <4>3. ASSUME NEW q \in Runners, NEW t \in Runners, Settling(q)', Settling(t)',
                     runner'[q].run = runner'[t].run, runner'[q].seen.step = runner'[t].seen.step
              PROVE  q = t
          BY <2>7, <3>3, <3>4, <3>5, <4>3 DEF AInv, SettledOnce
        <4> QED
          BY <4>1, <4>2, <4>3 DEF SettledOnce
      <3>7. InferredOnce'
        <4>1. \A q \in Runs, s \in Steps :
                gate'[q][s].infers <= 1 /\ (gate'[q][s].infers > 0 => MayHaveInferred(row'[q], s))
          BY <1>1, <2>8, <2>9 DEF AInv, InferredOnce
        <4>2. \A q \in Runners : Inferring(q)' =>
                /\ Inferring(q) /\ runner'[q] = runner[q]
                /\ runner[q].run \in Runs /\ runner[q].seen.step \in Int
          BY <2>7, <2>9, <3>4, <3>5 DEF Inferring
        <4>3. ASSUME NEW q \in Runners, Inferring(q)'
              PROVE  /\ MayHaveInferred(row'[runner'[q].run], runner'[q].seen.step)
                     /\ runner'[q].seen.step \in Steps => gate'[runner'[q].run][runner'[q].seen.step].infers = 0
          BY <1>1, <2>8, <4>2, <4>3 DEF AInv, InferredOnce
        <4>4. ASSUME NEW q \in Runners, NEW t \in Runners, Inferring(q)', Inferring(t)',
                     runner'[q].run = runner'[t].run, runner'[q].seen.step = runner'[t].seen.step
              PROVE  q = t
          BY <4>2, <4>4 DEF AInv, InferredOnce
        <4> QED
          BY <4>1, <4>3, <4>4 DEF InferredOnce
      <3> QED
        BY <1>1, <2>5, <2>6, <2>9, <2>10, <3>6, <3>7, PartsKeep
    <2>12. CASE marker = "inference_dispatched"
      <3>1. ~MayHaveInferred(row[r], row[r].step) /\ MayHaveInferred(row'[r], row[r].step)
        BY <1>2, <2>2, <2>3, <2>7, <2>12 DEF MayHaveInferred, ARows
      <3>2. gate[r][row[r].step].infers = 0
        BY <1>2, <3>1 DEF AInv, InferredOnce, GShape, Gates, AGates
      <3>3. \A q \in Runners : Inferring(q) /\ runner[q].run = r => runner[q].seen.step # row[r].step
        BY <3>1 DEF AInv, InferredOnce
      <3>4. \A q \in Runners \ {p} : Settling(q)' = Settling(q) /\ Inferring(q)' = Inferring(q)
        BY <2>7 DEF Settling, Inferring
      <3>5. ~Settling(p)' /\ (Inferring(p)' => runner'[p].run = r /\ runner'[p].seen.step = row[r].step)
        BY <2>2, <2>7, <2>12 DEF Settling, Inferring
      <3>6. InferredOnce'
        <4>1. \A q \in Runs, s \in Steps :
                gate'[q][s].infers <= 1 /\ (gate'[q][s].infers > 0 => MayHaveInferred(row'[q], s))
          BY <1>1, <2>8, <2>9 DEF AInv, InferredOnce
        <4>2. ASSUME NEW q \in Runners, Inferring(q)'
              PROVE  /\ MayHaveInferred(row'[runner'[q].run], runner'[q].seen.step)
                     /\ runner'[q].seen.step \in Steps => gate'[runner'[q].run][runner'[q].seen.step].infers = 0
          <5>1. CASE q = p
            BY <1>1, <3>1, <3>2, <3>5, <4>2, <5>1
          <5>2. CASE q # p
            BY <1>1, <2>7, <2>8, <2>9, <3>4, <4>2, <5>2 DEF AInv, InferredOnce, Inferring
          <5> QED
            BY <5>1, <5>2
        <4>3. ASSUME NEW q \in Runners, NEW t \in Runners, Inferring(q)', Inferring(t)',
                     runner'[q].run = runner'[t].run, runner'[q].seen.step = runner'[t].seen.step
              PROVE  q = t
          BY <2>7, <3>3, <3>4, <3>5, <4>3 DEF AInv, InferredOnce
        <4> QED
          BY <4>1, <4>2, <4>3 DEF InferredOnce
      <3>7. SettledOnce'
        <4>1. \A q \in Runs, s \in Steps :
                gate'[q][s].settles <= 1 /\ (gate'[q][s].settles > 0 => MayHaveSettled(row'[q], s))
          BY <1>1, <2>8, <2>9 DEF AInv, SettledOnce
        <4>2. \A q \in Runners : Settling(q)' =>
                /\ Settling(q) /\ runner'[q] = runner[q]
                /\ runner[q].run \in Runs /\ runner[q].seen.step \in Int
          BY <2>7, <2>9, <3>4, <3>5 DEF Settling
        <4>3. ASSUME NEW q \in Runners, Settling(q)'
              PROVE  /\ MayHaveSettled(row'[runner'[q].run], runner'[q].seen.step)
                     /\ runner'[q].seen.step \in Steps => gate'[runner'[q].run][runner'[q].seen.step].settles = 0
          BY <1>1, <2>8, <4>2, <4>3 DEF AInv, SettledOnce
        <4>4. ASSUME NEW q \in Runners, NEW t \in Runners, Settling(q)', Settling(t)',
                     runner'[q].run = runner'[t].run, runner'[q].seen.step = runner'[t].seen.step
              PROVE  q = t
          BY <4>2, <4>4 DEF AInv, SettledOnce
        <4> QED
          BY <4>1, <4>3, <4>4 DEF SettledOnce
      <3> QED
        BY <1>1, <2>5, <2>6, <2>9, <2>10, <3>6, <3>7, PartsKeep
    <2> QED
      BY <2>3, <2>11, <2>12
  <1> QED
    BY <1>3, <1>4 DEF Dispatch

\* The call is made, once.
LEMMA CallKeeps ==
  ASSUME AInv, NEW p \in Runners, Call(p)
  PROVE  AInv'
  <1>1. /\ Working(p) /\ runner[p].run \in Runs /\ runner[p] \in RunnerStates
        /\ runner[p].seen.step \in Nat /\ UNCHANGED <<row, client>>
    BY DEF Call, Working, AInv, AShape, RunnerStates, AViews
  <1>2. PICK r \in Runs : r = runner[p].run
    BY <1>1
  <1>3. PICK s \in Nat : s = runner[p].seen.step
    BY <1>1
  <1>4. PICK w : w = [runner[p] EXCEPT !.at = "waiting"]
    OBVIOUS
  <1>5. runner' = [runner EXCEPT ![p] = w]
    BY <1>4 DEF Call, Goto, AInv, AShape
  <1>6. /\ w \in RunnerStates /\ w.at = "waiting" /\ w.run = runner[p].run /\ w.token = runner[p].token
        /\ w.seen = runner[p].seen
    BY <1>1, <1>4 DEF RunnerStates, Stages
  <1>7. runner'[p] = w /\ \A q \in Runners \ {p} : runner'[q] = runner[q]
    BY <1>5 DEF AInv, AShape
  <1>8. \A q \in Runners : /\ Settling(q)' => Settling(q) /\ q # p /\ runner'[q] = runner[q]
                           /\ Inferring(q)' => Inferring(q) /\ q # p /\ runner'[q] = runner[q]
    BY <1>6, <1>7 DEF Settling, Inferring
  <1>9. s \in Steps => gate[r][s] \in AGates
    BY DEF AInv, GShape, Gates
  <1>10. CASE Settling(p)
    <2>1. PICK v : v = [gate[r][s] EXCEPT !.settles = gate[r][s].settles + 1]
      OBVIOUS
    <2>2. Updated(r, s, v)
      BY <1>2, <1>3, <1>10, <2>1 DEF Call, Settling, Updated
    <2>3. /\ MayHaveSettled(row[r], s)
          /\ s \in Steps => gate[r][s].settles = 0
          /\ \A q \in Runners : Settling(q) /\ runner[q].run = r /\ runner[q].seen.step = s => q = p
      BY <1>2, <1>3, <1>10 DEF AInv, SettledOnce
    <2>4. s \in Steps => v \in AGates /\ v.settles = 1 /\ v.infers = gate[r][s].infers
      BY <1>9, <2>1, <2>3 DEF AGates
    <2>5. /\ GShape'
          /\ \A q \in Runs, t \in Steps : q = r /\ t = s => gate'[q][t] = v
          /\ \A q \in Runs, t \in Steps : ~(q = r /\ t = s) => gate'[q][t] = gate[q][t]
      BY <2>2, <2>4, GateUpdate DEF AInv
    <2>6. \A q \in Runs, t \in Steps : gate'[q][t].infers = gate[q][t].infers
      BY <2>4, <2>5
    <2>7. \A q \in Runners : Working(q) => runner[q].run \in Runs
      BY DEF AInv, AShape
    <2>8. SettledOnce'
      <3>1. \A q \in Runs, t \in Steps :
              gate'[q][t].settles <= 1 /\ (gate'[q][t].settles > 0 => MayHaveSettled(row'[q], t))
        BY <1>1, <2>3, <2>4, <2>5 DEF AInv, SettledOnce
      <3>2. ASSUME NEW q \in Runners, Settling(q)'
            PROVE  /\ MayHaveSettled(row'[runner'[q].run], runner'[q].seen.step)
                   /\ runner'[q].seen.step \in Steps => gate'[runner'[q].run][runner'[q].seen.step].settles = 0
        <4>1. Settling(q) /\ q # p /\ runner'[q] = runner[q] /\ runner[q].run \in Runs
          BY <1>8, <2>7, <3>2 DEF Settling, Working
        <4>2. ~(runner[q].run = r /\ runner[q].seen.step = s)
          BY <2>3, <4>1
        <4> QED
          BY <1>1, <2>5, <4>1, <4>2 DEF AInv, SettledOnce
      <3>3. \A q, t \in Runners :
              Settling(q)' /\ Settling(t)' /\ runner'[q].run = runner'[t].run
                /\ runner'[q].seen.step = runner'[t].seen.step => q = t
        BY <1>8 DEF AInv, SettledOnce
      <3> QED
        BY <3>1, <3>2, <3>3 DEF SettledOnce
    <2>9. InferredOnce'
      BY <1>1, <1>8, <2>6, <2>7 DEF AInv, InferredOnce, Inferring, Working
    <2> QED
      BY <1>1, <1>5, <1>6, <2>5, <2>8, <2>9, RunnerKeeps
  <1>11. CASE Inferring(p)
    <2>1. PICK v : v = [gate[r][s] EXCEPT !.infers = gate[r][s].infers + 1]
      OBVIOUS
    <2>2. Updated(r, s, v)
      BY <1>2, <1>3, <1>11, <2>1 DEF Call, Inferring, Updated
    <2>3. /\ MayHaveInferred(row[r], s)
          /\ s \in Steps => gate[r][s].infers = 0
          /\ \A q \in Runners : Inferring(q) /\ runner[q].run = r /\ runner[q].seen.step = s => q = p
      BY <1>2, <1>3, <1>11 DEF AInv, InferredOnce
    <2>4. s \in Steps => v \in AGates /\ v.infers = 1 /\ v.settles = gate[r][s].settles
      BY <1>9, <2>1, <2>3 DEF AGates
    <2>5. /\ GShape'
          /\ \A q \in Runs, t \in Steps : q = r /\ t = s => gate'[q][t] = v
          /\ \A q \in Runs, t \in Steps : ~(q = r /\ t = s) => gate'[q][t] = gate[q][t]
      BY <2>2, <2>4, GateUpdate DEF AInv
    <2>6. \A q \in Runs, t \in Steps : gate'[q][t].settles = gate[q][t].settles
      BY <2>4, <2>5
    <2>7. \A q \in Runners : Working(q) => runner[q].run \in Runs
      BY DEF AInv, AShape
    <2>8. InferredOnce'
      <3>1. \A q \in Runs, t \in Steps :
              gate'[q][t].infers <= 1 /\ (gate'[q][t].infers > 0 => MayHaveInferred(row'[q], t))
        BY <1>1, <2>3, <2>4, <2>5 DEF AInv, InferredOnce
      <3>2. ASSUME NEW q \in Runners, Inferring(q)'
            PROVE  /\ MayHaveInferred(row'[runner'[q].run], runner'[q].seen.step)
                   /\ runner'[q].seen.step \in Steps => gate'[runner'[q].run][runner'[q].seen.step].infers = 0
        <4>1. Inferring(q) /\ q # p /\ runner'[q] = runner[q] /\ runner[q].run \in Runs
          BY <1>8, <2>7, <3>2 DEF Inferring, Working
        <4>2. ~(runner[q].run = r /\ runner[q].seen.step = s)
          BY <2>3, <4>1
        <4> QED
          BY <1>1, <2>5, <4>1, <4>2 DEF AInv, InferredOnce
      <3>3. \A q, t \in Runners :
              Inferring(q)' /\ Inferring(t)' /\ runner'[q].run = runner'[t].run
                /\ runner'[q].seen.step = runner'[t].seen.step => q = t
        BY <1>8 DEF AInv, InferredOnce
      <3> QED
        BY <3>1, <3>2, <3>3 DEF InferredOnce
    <2>9. SettledOnce'
      BY <1>1, <1>8, <2>6, <2>7 DEF AInv, SettledOnce, Settling, Working
    <2> QED
      BY <1>1, <1>5, <1>6, <2>5, <2>8, <2>9, RunnerKeeps
  <1> QED
    BY <1>10, <1>11 DEF Call, Settling, Inferring

LEMMA ANext == AInv /\ [Next]_vars => AInv'
  <1> SUFFICES ASSUME AInv, [Next]_vars PROVE AInv'
    OBVIOUS
  <1>1. ASSUME NEW c \in Clients, Owner(c) PROVE AInv'
    BY <1>1, RequestsKeep, ClientsKeep DEF Owner
  <1>2. ASSUME NEW p \in Runners, Tick(p) \/ Fail(p) \/ Crash(p) PROVE AInv'
    <2>1. CASE Sweep(p)
      <3>1. PICK r \in Runs : TRUE
        BY <2>1 DEF Sweep, AInv, AShape, RunnerStates
      <3> QED
        BY <2>1, <3>1, SurroundingsKeep
    <2> QED
      BY <1>2, <2>1, RunnersMove, WritesKeep, ClaimKeeps, DispatchKeeps, CallKeeps DEF Tick
  <1>3. ASSUME NEW r \in Runs, Create(r) \/ Expire(r) \/ Deadline(r) PROVE AInv'
    BY <1>3, SurroundingsKeep
  <1>4. ASSUME NEW r \in Runs, NEW s \in Steps, Settle(r, s) \/ \E d \in Decisions : Infer(r, s, d)
        PROVE  AInv'
    BY <1>4, SurroundingsKeep
  <1>5. CASE UNCHANGED vars
    BY <1>5 DEF vars, AInv, AShape, GShape, TokensDistinct, HoldersUpToDate, UpToDate, RequestsUpToDate, SettledOnce,
                InferredOnce, CancelSticks, RowsInRange, StagesFollowPhases, Working, Leases, Settling, Inferring
  <1> QED
    BY <1>1, <1>2, <1>3, <1>4, <1>5 DEF Next

LEMMA AInvariant == Spec => []AInv
  BY AInit, ANext, PTL DEF Spec

-----------------------------------------------------------------------------
(* The money and the answers: what a row has spent is what the steps it      *)
(* counts cost, and no row is ahead of the answers it has.                   *)

Counted == {"paid", "inference_dispatched"}

\* The steps a row counts as paid, and their prices.
Paid(x) == 0..(x.step - 1) \cup {s \in {x.step} : x.phase \in Counted}
Costs(g) == [s \in Steps |-> g[s].amount]

\* What a row says of the money: what it has spent is the price of the steps it
\* counts, each of them settled, and a dispatched settlement still fits the budget.
RowAccounted(x, g) ==
  /\ x.step <= MaxSteps /\ (x.phase # "ready" => x.step < MaxSteps)
  /\ x.phase \notin {"ready", "challenge"} =>
       g[x.step].payment # "none" /\ x.amount = g[x.step].amount
  /\ x.spent = Sum(Costs(g), Paid(x)) /\ x.spent <= Budget
  /\ x.phase = "settlement_dispatched" => x.spent + x.amount <= Budget
  /\ \A s \in Paid(x) : g[s].payment \in {"settled", "consumed"}

\* What a row says of the answers.
StepsAnswered(x, g) ==
  \A s \in Steps :
    /\ g[s].answer # "none" => g[s].payment = "consumed"
    /\ s < x.step => g[s].answer # "none"
    /\ s < x.step - 1 => g[s].answer = "continue"
    /\ s = x.step - 1 =>
         /\ x.status = "completed" => g[s].answer = "complete"
         /\ x.status \notin Terminal => g[s].answer = "continue"
    /\ s > x.step => g[s] = NoStep

\* A runner about to complete a step under its lease has the step's answer, and
\* none is further on than the row.
CompletersAnswered ==
  \A p \in Runners : Leases(p) /\ runner[p].at = "completing" =>
    /\ row[runner[p].run].phase = "inference_dispatched"
    /\ gate[runner[p].run][row[runner[p].run].step].answer # "none"
RunnersBehind == \A p \in Runners : Working(p) => runner[p].seen.step <= row[runner[p].run].step

RowsRight == \A r \in Runs : RowAccounted(row[r], gate[r]) /\ StepsAnswered(row[r], gate[r])

AccountInv == RowsRight /\ CompletersAnswered /\ RunnersBehind

\* How a row may go on: the next marker of its step, or the next step.
Marks(x, y, g) ==
  \/ /\ y.spent = x.spent
     /\ \/ x.phase = "ready" /\ y.phase = "challenge"
        \/ /\ x.phase = "challenge" /\ y.phase \in {"awaiting_payment", "payment_ready"}
           /\ y.amount = g[x.step].amount /\ g[x.step].payment # "none"
        \/ x.phase = "awaiting_payment" /\ y.phase = "payment_ready" /\ y.amount = x.amount
        \/ /\ x.phase = "payment_ready" /\ y.phase = "settlement_dispatched"
           /\ y.amount = x.amount /\ x.spent + x.amount <= Budget
        \/ x.phase = "paid" /\ y.phase = "inference_dispatched" /\ y.amount = x.amount
  \/ /\ x.phase = "settlement_dispatched" /\ y.phase = "paid"
     /\ y.amount = x.amount /\ y.spent = x.spent + x.amount /\ g[x.step].payment = "settled"

Completes(x, y, g) ==
  /\ x.phase = "inference_dispatched" /\ x.status \notin Terminal /\ g[x.step].answer # "none"
  /\ y.step = x.step + 1 /\ y.phase = "ready" /\ y.spent = x.spent
  /\ y.status = "completed" => g[x.step].answer = "complete"
  /\ y.status \notin Terminal => g[x.step].answer = "continue"

Progress(x, y, g) ==
  /\ y.status \notin Terminal => x.status \notin Terminal
  /\ \/ UpToDate(y, x) /\ (y.status = "completed" => x.status = "completed")
     \/ y.step = x.step /\ y.status # "completed" /\ x.step < MaxSteps /\ Marks(x, y, g)
     \/ Completes(x, y, g)

-----------------------------------------------------------------------------
LEMMA StepsFinite ==
  /\ \A S \in SUBSET Steps : IsFiniteSet(S)
  /\ \A g \in [Steps -> AGates] : \A s \in Steps : Costs(g)[s] = g[s].amount /\ Costs(g)[s] \in Nat
<1>1. IsFiniteSet(Steps)
  BY RuntimeAssumption, FS_Interval DEF Steps
<1> QED
  BY <1>1, FS_Subset DEF Costs, AGates

LEMMA PaidIn ==
  ASSUME NEW x \in ARows, x.step <= MaxSteps, x.phase # "ready" => x.step < MaxSteps
  PROVE  Paid(x) \in SUBSET Steps
BY RuntimeAssumption DEF ARows, Paid, Counted, Steps

\* A row that goes on stays right.
LEMMA ProgressKeeps ==
  ASSUME NEW x \in ARows, NEW y \in ARows, NEW g \in [Steps -> AGates],
         RowAccounted(x, g), StepsAnswered(x, g), Progress(x, y, g)
  PROVE  RowAccounted(y, g) /\ StepsAnswered(y, g)
<1>0. MaxSteps \in Nat \ {0} /\ Budget \in Nat \ {0}
  BY RuntimeAssumption
<1>1. /\ x.step \in Nat /\ x.spent \in Nat /\ x.amount \in Nat
      /\ y.step \in Nat /\ y.spent \in Nat /\ y.amount \in Nat
  BY DEF ARows
<1>2. Paid(x) \in SUBSET Steps
  BY PaidIn DEF RowAccounted
<1>3. CASE UpToDate(y, x) /\ (y.status = "completed" => x.status = "completed")
  <2>1. Paid(y) = Paid(x)
    BY <1>3 DEF UpToDate, Paid
  <2>2. RowAccounted(y, g)
    BY <1>3, <2>1 DEF UpToDate, RowAccounted
  <2>3. StepsAnswered(y, g)
    BY <1>3 DEF UpToDate, StepsAnswered, Progress
  <2> QED
    BY <2>2, <2>3
<1>4. CASE y.step = x.step /\ y.status # "completed" /\ x.step < MaxSteps /\ Marks(x, y, g)
  <2>1. StepsAnswered(y, g)
    BY <1>4 DEF StepsAnswered, Progress
  <2>2. CASE x.phase = "settlement_dispatched"
    <3>1. /\ y.phase = "paid" /\ y.amount = x.amount /\ y.spent = x.spent + x.amount
          /\ g[x.step].payment = "settled" /\ x.amount = g[x.step].amount
          /\ x.spent + x.amount <= Budget /\ x.spent = Sum(Costs(g), Paid(x))
      BY <1>4, <2>2 DEF Marks, RowAccounted
    <3>2. x.step \in Steps /\ x.step \notin Paid(x) /\ Paid(y) = Paid(x) \cup {x.step}
      <4>1. x.phase \notin Counted /\ y.phase \in Counted
        BY <2>2, <3>1 DEF Counted
      <4>2. x.step \in Steps
        BY <1>0, <1>1, <1>4 DEF Steps
      <4>3. Paid(x) = 0..(x.step - 1) /\ Paid(y) = 0..(x.step - 1) \cup {x.step}
        BY <1>4, <4>1 DEF Paid
      <4> QED
        BY <1>1, <4>2, <4>3
    <3>3. Sum(Costs(g), Paid(y)) = Costs(g)[x.step] + Sum(Costs(g), Paid(x))
      <4>1. IsFiniteSet(Paid(x)) /\ \A s \in Paid(x) \cup {x.step} : Costs(g)[s] \in Int
        BY <1>2, <3>2, StepsFinite
      <4> QED
        BY <3>2, <4>1, SumWith
    <3>4. Costs(g)[x.step] = x.amount
      BY <3>1, <3>2, StepsFinite
    <3>5. y.spent = Sum(Costs(g), Paid(y)) /\ y.spent <= Budget
      BY <1>1, <3>1, <3>3, <3>4
    <3>6. \A s \in Paid(y) : g[s].payment \in {"settled", "consumed"}
      BY <3>1, <3>2 DEF RowAccounted
    <3> QED
      BY <1>4, <2>1, <2>2, <3>1, <3>5, <3>6 DEF RowAccounted
  <2>3. CASE x.phase # "settlement_dispatched"
    <3>1. Paid(y) = Paid(x) /\ y.spent = x.spent
      BY <1>4, <2>3 DEF Paid, Counted, Marks
    <3>2. y.phase \notin {"ready", "challenge"} =>
            g[y.step].payment # "none" /\ y.amount = g[y.step].amount
      BY <1>4, <2>3 DEF Marks, RowAccounted
    <3>3. y.phase = "settlement_dispatched" => y.spent + y.amount <= Budget
      BY <1>4, <2>3 DEF Marks
    <3> QED
      BY <1>4, <2>1, <3>1, <3>2, <3>3 DEF RowAccounted
  <2> QED
    BY <2>2, <2>3
<1>5. CASE Completes(x, y, g)
  <2>1. /\ x.phase = "inference_dispatched" /\ x.status \notin Terminal /\ g[x.step].answer # "none"
        /\ y.step = x.step + 1 /\ y.phase = "ready" /\ y.spent = x.spent
    BY <1>5 DEF Completes
  <2>2. x.step < MaxSteps
    BY <2>1 DEF RowAccounted
  <2>3. Paid(y) = Paid(x)
    BY <1>1, <2>1 DEF Paid, Counted
  <2>4. y.step <= MaxSteps
    BY <1>0, <1>1, <2>1, <2>2
  <2>5. RowAccounted(y, g)
    BY <2>1, <2>3, <2>4 DEF RowAccounted
  <2>6. ASSUME NEW s \in Steps
        PROVE  /\ g[s].answer # "none" => g[s].payment = "consumed"
               /\ s < y.step => g[s].answer # "none"
               /\ s < y.step - 1 => g[s].answer = "continue"
               /\ s = y.step - 1 =>
                    /\ y.status = "completed" => g[s].answer = "complete"
                    /\ y.status \notin Terminal => g[s].answer = "continue"
               /\ s > y.step => g[s] = NoStep
    <3>1. s \in Nat
      BY <1>0 DEF Steps
    <3>2. CASE s < x.step
      BY <1>1, <2>1, <3>1, <3>2 DEF StepsAnswered
    <3>3. CASE s = x.step
      BY <1>1, <1>5, <2>1, <3>1, <3>3 DEF StepsAnswered, Completes
    <3>4. CASE s > x.step
      BY <1>1, <2>1, <3>1, <3>4 DEF StepsAnswered
    <3> QED
      BY <1>1, <3>1, <3>2, <3>3, <3>4
  <2> QED
    BY <2>5, <2>6 DEF StepsAnswered
<1> QED
  BY <1>3, <1>4, <1>5 DEF Progress

\* The entry of a step changes, without touching what the row counts on.
GateMoves(x, s, u, v) ==
  /\ s <= x.step
  /\ s < x.step => v.payment = u.payment /\ v.amount = u.amount /\ v.answer = u.answer
  /\ u.payment # "none" => v.payment # "none" /\ v.amount = u.amount
  /\ u.payment \in {"settled", "consumed"} => v.payment \in {"settled", "consumed"}
  /\ v.answer # "none" => v.payment = "consumed"
  /\ u.answer # "none" => v.answer = u.answer

LEMMA GateKeeps ==
  ASSUME NEW x \in ARows, NEW g \in [Steps -> AGates], NEW h \in [Steps -> AGates],
         RowAccounted(x, g), StepsAnswered(x, g), NEW s \in Steps,
         GateMoves(x, s, g[s], h[s]), \A t \in Steps : t # s => h[t] = g[t]
  PROVE  RowAccounted(x, h) /\ StepsAnswered(x, h)
<1>1. x.step \in Nat /\ x.step <= MaxSteps /\ (x.phase # "ready" => x.step < MaxSteps) /\ s \in Nat
  BY RuntimeAssumption DEF ARows, RowAccounted, Steps
<1>2. Paid(x) \in SUBSET Steps
  BY <1>1, PaidIn
<1>3. \A t \in Paid(x) : /\ g[t].payment \in {"settled", "consumed"}
                         /\ h[t].payment \in {"settled", "consumed"} /\ h[t].amount = g[t].amount
  BY <1>2 DEF RowAccounted, GateMoves
<1>4. Sum(Costs(h), Paid(x)) = Sum(Costs(g), Paid(x))
  <2>1. IsFiniteSet(Paid(x)) /\ \A t \in Paid(x) : Costs(h)[t] = Costs(g)[t]
    BY <1>2, <1>3, StepsFinite
  <2> QED
    BY <2>1, SumSame
<1>5. x.phase \notin {"ready", "challenge"} =>
        h[x.step].payment # "none" /\ x.amount = h[x.step].amount
  <2> SUFFICES ASSUME x.phase \notin {"ready", "challenge"}
               PROVE  h[x.step].payment # "none" /\ x.amount = h[x.step].amount
    OBVIOUS
  <2>1. x.step \in Steps
    BY <1>1, RuntimeAssumption DEF Steps
  <2> QED
    BY <2>1 DEF RowAccounted, GateMoves
<1>6. RowAccounted(x, h)
  BY <1>3, <1>4, <1>5 DEF RowAccounted
<1>7. ASSUME NEW t \in Steps
      PROVE  /\ h[t].answer # "none" => h[t].payment = "consumed"
             /\ t < x.step => h[t].answer # "none"
             /\ t < x.step - 1 => h[t].answer = "continue"
             /\ t = x.step - 1 =>
                  /\ x.status = "completed" => h[t].answer = "complete"
                  /\ x.status \notin Terminal => h[t].answer = "continue"
             /\ t > x.step => h[t] = NoStep
  <2>1. CASE t # s
    BY <2>1 DEF StepsAnswered
  <2>2. CASE t = s
    BY <1>1, <2>2 DEF StepsAnswered, GateMoves
  <2> QED
    BY <2>1, <2>2
<1> QED
  BY <1>6, <1>7 DEF StepsAnswered

-----------------------------------------------------------------------------
(* The rows and what their writers know.                                    *)

\* A write by the lease's holder or by a request, its row goes on as x does.
LEMMA WrittenRow ==
  ASSUME AInv, NEW r \in Runs, NEW x \in ARows, Progress(row[r], x, gate[r]),
         x.status = "running" => row[r].status = "running" /\ x.token = row[r].token,
         row' = [row EXCEPT ![r] = [Honoured(r, x) EXCEPT !.version = row[r].version + 1]]
  PROVE  \A q \in Runs : Progress(row[q], row'[q], gate[q])
                         /\ (row'[q].status = "running" =>
                               row[q].status = "running" /\ row'[q].token = row[q].token)
<1>1. row \in [Runs -> ARows]
  BY DEF AInv, AShape
<1>2. PICK z : z = Honoured(r, x)
  OBVIOUS
<1>3. /\ z \in ARows /\ UpToDate(z, x) /\ z.token = x.token
      /\ z.status = x.status \/ z.status = "cancelled"
  BY <1>2 DEF Honoured, ARows, UpToDate, Statuses, Terminal
<1>4. PICK y : y = [z EXCEPT !.version = row[r].version + 1]
  OBVIOUS
<1>5. UpToDate(y, x) /\ y.token = x.token /\ (y.status = x.status \/ y.status = "cancelled")
  BY <1>3, <1>4 DEF ARows, UpToDate
<1>6. \A q \in Runs : row'[q] = IF q = r THEN y ELSE row[q]
  BY <1>1, <1>2, <1>4
<1>7. Progress(row[r], y, gate[r])
  BY <1>5 DEF Progress, Marks, Completes, UpToDate, Terminal
<1>8. \A q \in Runs : Progress(row[q], row[q], gate[q])
  BY DEF Progress, UpToDate
<1> QED
  BY <1>5, <1>6, <1>7, <1>8

\* What a runner may write.
Writes(p) ==
  \E x \in ARows, stage \in {"idle", "session", "checking", "calling"} :
    /\ Save(p, x, stage) /\ Progress(row[runner[p].run], x, gate[runner[p].run])
    /\ x.status = "running" => x.token = row[runner[p].run].token

\* A runner that gives up has made no progress.
LEMMA ReleaseWrites ==
  ASSUME AInv, NEW p \in Runners, Working(p), NEW x \in ARows,
         NEW status \in Statuses \ {"none", "running", "completed"},
         Progress(row[runner[p].run], x, gate[runner[p].run]), x.step = row[runner[p].run].step,
         runner[p].run \in Runs, Save(p, Released(x, status), "idle")
  PROVE  Writes(p)
<1>1. PICK y : y = Released(x, status)
  OBVIOUS
<1>2. y \in ARows /\ y.status = status /\ UpToDate(y, x)
  BY <1>1 DEF Released, ARows, UpToDate
<1>3. row[runner[p].run].status \notin Terminal
  BY DEF Save, Fenced, Terminal
<1>4. ~Completes(row[runner[p].run], x, gate[runner[p].run])
  BY DEF Completes, AInv, AShape, ARows
<1>5. Progress(row[runner[p].run], y, gate[runner[p].run])
  BY <1>2, <1>3, <1>4 DEF Progress, Marks, UpToDate
<1> QED
  BY <1>1, <1>2, <1>5 DEF Writes

LEMMA HolderView ==
  ASSUME AInv, NEW p \in Runners, Working(p), Fenced(p), NEW r, r = runner[p].run
  PROVE  /\ r \in Runs /\ row[r] \in ARows /\ row[r].status = "running" /\ row[r].token = runner[p].token
         /\ row[r].step < MaxSteps /\ row[r].step \in Steps /\ Leases(p)
         /\ runner[p].seen \in AViews /\ UpToDate(runner[p].seen, row[r])
         /\ Local(p) \in ARows /\ Local(p).status = "running" /\ Local(p).token = row[r].token
         /\ UpToDate(Local(p), row[r]) /\ Progress(row[r], Local(p), gate[r])
         /\ Progress(row[r], row[r], gate[r])
<1>1. /\ r \in Runs /\ row[r] \in ARows /\ row[r].status = "running" /\ row[r].token = runner[p].token
      /\ row[r].step < MaxSteps /\ row[r].step \in Steps /\ runner[p].seen \in AViews
      /\ Local(p) \in ARows /\ Local(p).status = "running" /\ Local(p).token = row[r].token
  BY FencedView
<1>2. Leases(p) /\ UpToDate(runner[p].seen, row[r])
  BY <1>1 DEF AInv, HoldersUpToDate, Leases
<1>3. UpToDate(Local(p), row[r])
  BY <1>1, <1>2 DEF Local, UpToDate, ARows
<1> QED
  BY <1>1, <1>2, <1>3 DEF Progress, UpToDate

\* An answer that completes a step, by its runner or on a resume.
LEMMA CompletionProgress ==
  ASSUME NEW x \in ARows, NEW z \in ARows, UpToDate(z, x), x.status \notin Terminal,
         x.phase = "inference_dispatched", NEW g, NEW seen, seen.cancel \in BOOLEAN, seen.step = x.step,
         g[x.step].answer # "none"
  PROVE  LET y == Completed(z, seen, g[x.step].answer)
         IN  y \in ARows /\ y.status # "running" /\ Progress(x, y, g)
<1> DEFINE status == Decided(seen, g[x.step].answer)
           y == Completed(z, seen, g[x.step].answer)
<1>1. /\ status \in {"cancelled", "failed", "completed", "exhausted", "queued"}
      /\ status = "queued" => g[x.step].answer = "continue"
      /\ status = "completed" => g[x.step].answer = "complete"
  BY DEF Decided
<1>2. /\ y \in ARows /\ y.status # "running"
  BY CompletedRow DEF UpToDate
<1>3. PICK w : w = Released(z, status)
  OBVIOUS
<1>4. w \in ARows /\ w.status = status /\ w.spent = z.spent
  BY <1>1, <1>3 DEF Released, ARows, Statuses, Terminal
<1>5. y = [w EXCEPT !.phase = "ready", !.amount = 0, !.step = seen.step + 1]
  BY <1>3 DEF Completed
<1> HIDE DEF status, y
<1>6. y.status = status /\ y.step = x.step + 1 /\ y.phase = "ready" /\ y.spent = x.spent
  BY <1>4, <1>5 DEF ARows, UpToDate
<1>7. Completes(x, y, g)
  BY <1>1, <1>6 DEF Completes, Terminal
<1> QED
  BY <1>2, <1>7 DEF Progress, y

\* Every write of a runner is the next marker, the next step, or a release.
LEMMA RunnersWrite ==
  ASSUME AInv, AccountInv, NEW p \in Runners,
         StopWrite(p) \/ Prepare(p) \/ SessionExpired(p) \/ OverBudget(p) \/ RequirePayment(p)
           \/ SettleReturns(p) \/ Complete(p) \/ Fail(p) \/ Dispatch(p)
  PROVE  Working(p) /\ Writes(p) /\ UNCHANGED <<client, gate>>
<1>1. PICK r : r = runner[p].run
  OBVIOUS
<1>2. Working(p) /\ Fenced(p) /\ UNCHANGED <<client, gate>>
  BY DEF StopWrite, Prepare, SessionExpired, OverBudget, RequirePayment, SettleReturns, Complete, Fail,
         Dispatch, Save, Working
<1> SUFFICES Writes(p)
  BY <1>2
<1>3. /\ r \in Runs /\ row[r] \in ARows /\ row[r].status = "running" /\ row[r].token = runner[p].token
      /\ row[r].step < MaxSteps /\ row[r].step \in Steps /\ Leases(p)
      /\ runner[p].seen \in AViews /\ UpToDate(runner[p].seen, row[r])
      /\ Local(p) \in ARows /\ Local(p).status = "running" /\ Local(p).token = row[r].token
      /\ UpToDate(Local(p), row[r]) /\ Progress(row[r], Local(p), gate[r])
      /\ Progress(row[r], row[r], gate[r])
  BY <1>1, <1>2, HolderView
<1>4. gate[r][row[r].step] = StepGate(p) /\ gate[r][row[r].step] \in AGates
  BY <1>1, <1>3 DEF StepGate, UpToDate, AInv, GShape, Gates
<1>5. ASSUME NEW x, NEW status, NEW stage \in {"idle", "session", "checking", "calling"},
             Save(p, x, stage), x \in ARows, Marks(row[r], x, gate[r]), x.step = row[r].step,
             x.status = "running", x.token = row[r].token
      PROVE  Writes(p)
  <2>1. Progress(row[r], x, gate[r])
    BY <1>3, <1>5 DEF Progress, Terminal
  <2> QED
    BY <1>1, <1>5, <2>1 DEF Writes
<1>6. ASSUME NEW x \in {Local(p), row[r]}, NEW status \in {"cancelled", "exhausted", "failed", "outcome_unknown"},
             Save(p, Released(x, status), "idle")
      PROVE  Writes(p)
  <2>1. x \in ARows /\ Progress(row[r], x, gate[r]) /\ x.step = row[r].step
    BY <1>3 DEF UpToDate
  <2>2. status \in Statuses \ {"none", "running", "completed"}
    BY DEF Statuses, Terminal
  <2> QED
    BY <1>1, <1>2, <1>3, <1>6, <2>1, <2>2, ReleaseWrites
<1>7. CASE StopWrite(p)
  BY <1>6, <1>7 DEF StopWrite
<1>8. CASE SessionExpired(p) \/ OverBudget(p)
  BY <1>6, <1>8 DEF SessionExpired, OverBudget
<1>9. CASE Fail(p)
  BY <1>1, <1>6, <1>9 DEF Fail
<1>10. CASE Prepare(p)
  <2>1. PICK x : x = [Local(p) EXCEPT !.phase = "challenge"] /\ Save(p, x, "session")
    BY <1>10 DEF Prepare
  <2>2. row[r].phase = "ready"
    BY <1>3, <1>10 DEF Prepare, UpToDate, AInv, StagesFollowPhases
  <2>3. /\ x \in ARows /\ x.status = "running" /\ x.token = row[r].token
        /\ x.step = row[r].step /\ x.spent = row[r].spent /\ x.phase = "challenge"
    BY <1>3, <2>1 DEF ARows, Phases, UpToDate
  <2>4. Marks(row[r], x, gate[r])
    BY <2>2, <2>3 DEF Marks
  <2> QED
    BY <1>5, <2>1, <2>3, <2>4
<1>11. CASE RequirePayment(p)
  <2>1. row[r].phase = "challenge" /\ StepGate(p).payment = "open" /\ StepGate(p).amount \in Nat
    BY <1>3, <1>4, <1>11 DEF RequirePayment, UpToDate, AInv, StagesFollowPhases, AGates
  <2>2. ASSUME NEW x, NEW phase \in {"awaiting_payment", "payment_ready"},
               x = Priced(Local(p), StepGate(p).amount, phase)
        PROVE  /\ x \in ARows /\ x.status = "running" /\ x.token = row[r].token
               /\ x.step = row[r].step /\ Marks(row[r], x, gate[r])
    <3>1. phase \in Phases
      BY DEF Phases
    <3>2. /\ x \in ARows /\ x.status = "running" /\ x.token = row[r].token /\ x.step = row[r].step
          /\ x.spent = row[r].spent /\ x.phase = phase /\ x.amount = StepGate(p).amount
      BY <1>3, <2>1, <2>2, <3>1 DEF Priced, ARows, UpToDate
    <3> QED
      BY <1>4, <2>1, <3>2 DEF Marks
  <2>3. CASE Save(p, [Local(p) EXCEPT !.amount = StepGate(p).amount, !.phase = "payment_ready"], "checking")
    <3>1. PICK x : x = Priced(Local(p), StepGate(p).amount, "payment_ready") /\ Save(p, x, "checking")
      BY <2>3 DEF Priced
    <3> QED
      BY <1>5, <2>2, <3>1
  <2>4. CASE Save(p, Released([Local(p) EXCEPT !.amount = StepGate(p).amount, !.phase = "awaiting_payment"],
                              "awaiting_payment"), "idle")
    <3>1. PICK x : /\ x = Priced(Local(p), StepGate(p).amount, "awaiting_payment")
                   /\ Save(p, Released(x, "awaiting_payment"), "idle")
      BY <2>4 DEF Priced
    <3>2. /\ x \in ARows /\ x.status = "running" /\ x.step = row[r].step /\ Marks(row[r], x, gate[r])
      BY <2>2, <3>1
    <3>3. Progress(row[r], x, gate[r])
      BY <1>3, <3>2 DEF Progress, Terminal
    <3>4. "awaiting_payment" \in Statuses \ {"none", "running", "completed"}
      BY DEF Statuses
    <3> QED
      BY <1>1, <1>2, <1>3, <3>1, <3>2, <3>3, <3>4, ReleaseWrites
  <2> QED
    BY <1>11, <2>3, <2>4 DEF RequirePayment
<1>12. CASE SettleReturns(p)
  <2>1. PICK x : /\ x = PaidUp(Local(p), runner[p].seen.spent + runner[p].seen.amount, "paid")
                 /\ Save(p, x, "checking")
    BY <1>12 DEF SettleReturns, PaidUp
  <2>2. row[r].phase = "settlement_dispatched" /\ gate[r][row[r].step].payment = "settled"
    BY <1>3, <1>4, <1>12 DEF SettleReturns, UpToDate
  <2>3. runner[p].seen.spent + runner[p].seen.amount \in Nat /\ "paid" \in Phases
    BY <1>3 DEF AViews, Phases
  <2>4. /\ x \in ARows /\ x.status = "running" /\ x.token = row[r].token /\ x.step = row[r].step
        /\ x.phase = "paid" /\ x.amount = row[r].amount /\ x.spent = row[r].spent + row[r].amount
    BY <1>3, <2>1, <2>3 DEF PaidUp, ARows, UpToDate
  <2>5. Marks(row[r], x, gate[r])
    BY <2>2, <2>4 DEF Marks
  <2> QED
    BY <1>5, <2>1, <2>4, <2>5
<1>13. CASE Complete(p)
  <2>1. PICK x : x = Completed(Local(p), runner[p].seen, gate[r][row[r].step].answer) /\ Save(p, x, "idle")
    BY <1>4, <1>13 DEF Complete
  <2>2. row[r].phase = "inference_dispatched" /\ gate[r][row[r].step].answer # "none"
    BY <1>1, <1>3, <1>13 DEF Complete, AccountInv, CompletersAnswered
  <2>3. runner[p].seen.cancel \in BOOLEAN /\ runner[p].seen.step = row[r].step
    BY <1>3 DEF AViews, UpToDate
  <2>4. x \in ARows /\ x.status # "running" /\ Progress(row[r], x, gate[r])
    BY <1>3, <2>1, <2>2, <2>3, CompletionProgress DEF Terminal
  <2> QED
    BY <1>1, <2>1, <2>4 DEF Writes
<1>14. CASE Dispatch(p)
  <2>1. ASSUME NEW marker \in Phases, Due(p, marker),
               Save(p, [Local(p) EXCEPT !.phase = marker], "calling")
        PROVE  Writes(p)
    <3>1. PICK x : x = [Local(p) EXCEPT !.phase = marker] /\ Save(p, x, "calling")
      BY <2>1
    <3>2. /\ x \in ARows /\ x.status = "running" /\ x.token = row[r].token /\ x.step = row[r].step
          /\ x.phase = marker /\ x.amount = row[r].amount /\ x.spent = row[r].spent
      BY <1>3, <3>1 DEF ARows, UpToDate
    <3>3. \/ /\ row[r].phase = "payment_ready" /\ marker = "settlement_dispatched"
             /\ row[r].amount + row[r].spent <= Budget
          \/ row[r].phase = "paid" /\ marker = "inference_dispatched"
      BY <1>3, <2>1 DEF Due, Affordable, UpToDate
    <3>4. row[r].amount \in Nat /\ row[r].spent \in Nat /\ Budget \in Nat
      BY <1>3, RuntimeAssumption DEF ARows
    <3>5. Marks(row[r], x, gate[r])
      BY <3>2, <3>3, <3>4 DEF Marks
    <3> QED
      BY <1>5, <3>1, <3>2, <3>5
  <2> QED
    BY <1>1, <1>6, <1>14, <2>1 DEF Dispatch
<1> QED
  BY <1>2, <1>7, <1>8, <1>9, <1>10, <1>11, <1>12, <1>13, <1>14

\* What a request may write.
Asks(c) ==
  \E x \in ARows :
    /\ SaveRead(c, x) /\ client[c].run \in Runs
    /\ Progress(row[client[c].run], x, gate[client[c].run])
    /\ x.status = "running" =>
         row[client[c].run].status = "running" /\ x.token = row[client[c].run].token

\* Every write of a request is a cancellation, or goes on from a proof.
LEMMA RequestsWrite ==
  ASSUME AInv, NEW c \in Clients,
         Cancel(c) \/ ResumeAnswered(c) \/ ResumeSettled(c) \/ ResumePreparation(c) \/ Authorize(c)
  PROVE  Asks(c) /\ UNCHANGED <<runner, gate>>
<1>1. PICK r : r = client[c].run
  OBVIOUS
<1>2. client[c].at # "idle" /\ row[r].version = client[c].row.version /\ UNCHANGED <<runner, gate>>
  BY <1>1 DEF Cancel, ResumeAnswered, ResumeSettled, ResumePreparation, Authorize, Resuming, SaveRead
<1> SUFFICES Asks(c)
  BY <1>2
<1>3. /\ r \in Runs /\ row[r] \in ARows /\ client[c].row \in ARows /\ SameRow(client[c].row, row[r])
      /\ Read(c) \in ARows /\ UpToDate(Read(c), row[r]) /\ Read(c).status = row[r].status
      /\ Read(c).cancel = row[r].cancel /\ Read(c).token = row[r].token
  BY <1>1, <1>2, ReadIsRow
<1>4. row[r].status \notin Terminal => row[r].step < MaxSteps
  BY <1>3 DEF AInv, RowsInRange
<1>5. CASE Cancel(c)
  <2>1. PICK x : /\ SaveRead(c, x)
                 /\ x = IF client[c].row.status \in {"running", "outcome_unknown"}
                        THEN [Read(c) EXCEPT !.cancel = TRUE]
                        ELSE Released([Read(c) EXCEPT !.cancel = TRUE], "cancelled")
    BY <1>5 DEF Cancel
  <2>2. x \in ARows /\ UpToDate(x, row[r])
    BY <1>3, <2>1 DEF Released, ARows, Statuses, Terminal, UpToDate
  <2>3. /\ x.status = row[r].status \/ x.status = "cancelled"
        /\ x.status = "running" => row[r].status = "running" /\ x.token = row[r].token
    BY <1>3, <2>1 DEF Released, ARows, SameRow
  <2>4. Progress(row[r], x, gate[r])
    BY <2>2, <2>3 DEF Progress, Terminal
  <2> QED
    BY <1>1, <1>3, <2>1, <2>2, <2>3, <2>4 DEF Asks
<1>6. CASE ResumeAnswered(c)
  <2>1. client[c].row.cancel \in BOOLEAN /\ client[c].row.step = row[r].step
    BY <1>3 DEF ARows, SameRow, UpToDate
  <2>2. /\ row[r].status = "outcome_unknown" /\ row[r].phase = "inference_dispatched"
        /\ gate[r][row[r].step].answer # "none" /\ Pending(c).answer = gate[r][row[r].step].answer
    BY <1>1, <1>3, <1>6, <2>1 DEF ResumeAnswered, Resuming, Pending, SameRow, UpToDate
  <2>3. PICK x : SaveRead(c, x) /\ x = Completed(Read(c), client[c].row, gate[r][row[r].step].answer)
    BY <1>6, <2>2 DEF ResumeAnswered
  <2>4. x \in ARows /\ x.status # "running" /\ Progress(row[r], x, gate[r])
    BY <1>3, <2>1, <2>2, <2>3, CompletionProgress DEF Terminal
  <2> QED
    BY <1>1, <1>3, <2>3, <2>4 DEF Asks
<1>7. CASE ResumeSettled(c)
  <2>1. PICK x : /\ SaveRead(c, x)
                 /\ x = [Read(c) EXCEPT !.phase = "paid", !.spent = client[c].row.spent + client[c].row.amount,
                                        !.status = Requeued(c)]
    BY <1>7 DEF ResumeSettled
  <2>2. /\ row[r].phase = "settlement_dispatched" /\ row[r].status = "outcome_unknown"
        /\ gate[r][row[r].step].payment = "settled"
    BY <1>1, <1>3, <1>7 DEF ResumeSettled, Resuming, Pending, SameRow, UpToDate
  <2>3. /\ Requeued(c) \in {"cancelled", "queued"} /\ "paid" \in Phases /\ {"cancelled", "queued"} \subseteq Statuses
        /\ client[c].row.spent + client[c].row.amount = row[r].spent + row[r].amount
        /\ client[c].row.spent + client[c].row.amount \in Nat
    BY <1>3 DEF ARows, Requeued, SameRow, UpToDate, Phases, Statuses, Terminal
  <2>4. /\ x \in ARows /\ x.status \in {"cancelled", "queued"} /\ x.step = row[r].step
        /\ x.phase = "paid" /\ x.amount = row[r].amount /\ x.spent = row[r].spent + row[r].amount
    BY <1>3, <2>1, <2>3 DEF ARows, UpToDate
  <2>5. Marks(row[r], x, gate[r])
    BY <2>2, <2>4 DEF Marks
  <2>6. Progress(row[r], x, gate[r])
    BY <1>4, <2>2, <2>4, <2>5 DEF Progress, Terminal
  <2> QED
    BY <1>1, <1>3, <2>1, <2>4, <2>6 DEF Asks
<1>8. CASE ResumePreparation(c)
  <2>1. PICK x : SaveRead(c, x) /\ x = [Read(c) EXCEPT !.status = Requeued(c)]
    BY <1>8 DEF ResumePreparation
  <2>2. row[r].status = "outcome_unknown"
    BY <1>1, <1>3, <1>8 DEF ResumePreparation, Resuming, SameRow
  <2>3. x \in ARows /\ x.status \in {"cancelled", "queued"} /\ UpToDate(x, row[r])
    BY <1>3, <2>1 DEF ARows, Requeued, Statuses, Terminal, UpToDate
  <2>4. Progress(row[r], x, gate[r])
    BY <2>2, <2>3 DEF Progress, Terminal
  <2> QED
    BY <1>1, <1>3, <2>1, <2>3, <2>4 DEF Asks
<1>9. CASE Authorize(c)
  <2>1. PICK x : SaveRead(c, x) /\ x = [Read(c) EXCEPT !.phase = "payment_ready", !.status = "queued"]
    BY <1>9 DEF Authorize
  <2>2. row[r].phase = "awaiting_payment" /\ row[r].status = "awaiting_payment"
    BY <1>1, <1>3, <1>9 DEF Authorize, Resuming, SameRow, UpToDate
  <2>3. /\ x \in ARows /\ x.status = "queued" /\ x.step = row[r].step /\ x.phase = "payment_ready"
        /\ x.amount = row[r].amount /\ x.spent = row[r].spent
    BY <1>3, <2>1 DEF ARows, Statuses, Phases, UpToDate
  <2>4. Marks(row[r], x, gate[r])
    BY <2>2, <2>3 DEF Marks
  <2>5. Progress(row[r], x, gate[r])
    BY <1>4, <2>2, <2>3, <2>4 DEF Progress, Terminal
  <2> QED
    BY <1>1, <1>3, <2>1, <2>3, <2>5 DEF Asks
<1> QED
  BY <1>5, <1>6, <1>7, <1>8, <1>9

\* A row goes on, and is executed under the token it had or a new one.
RowMoves(r) ==
  /\ Progress(row[r], row'[r], gate[r])
  /\ row'[r].status = "running" =>
       \/ row[r].status = "running" /\ row'[r].token = row[r].token
       \/ row'[r].token > row[r].version

\* A runner stays at its step, or sees the row's; it completes what it was completing.
RunnerMoves(p) ==
  Working(p)' =>
    \/ /\ Working(p) /\ runner'[p].run = runner[p].run /\ runner'[p].token = runner[p].token
       /\ runner'[p].seen.step = runner[p].seen.step
       /\ runner'[p].at = "completing" => runner'[p] = runner[p]
    \/ runner'[p].seen.step = row'[runner'[p].run].step /\ runner'[p].at # "completing"
    \/ InferReturns(p)

LEMMA RowStays == \A r \in Runs : row'[r] = row[r] => RowMoves(r)
BY DEF RowMoves, Progress, UpToDate

LEMMA RunnerStays == \A p \in Runners : runner'[p] = runner[p] => RunnerMoves(p)
BY DEF RunnerMoves, Working

LEMMA WriteMoves ==
  ASSUME AInv, NEW p \in Runners, Working(p), Writes(p)
  PROVE  (\A r \in Runs : RowMoves(r)) /\ (\A q \in Runners : RunnerMoves(q))
<1>1. PICK x \in ARows, stage \in {"idle", "session", "checking", "calling"} :
        /\ Save(p, x, stage) /\ Progress(row[runner[p].run], x, gate[runner[p].run])
        /\ x.status = "running" => x.token = row[runner[p].run].token
  BY DEF Writes
<1>2. PICK r \in Runs : r = runner[p].run
  BY DEF AInv, AShape
<1>3. row[r].status = "running"
  BY <1>1, <1>2 DEF Save, Fenced
<1>4. PICK y : y = [Honoured(r, x) EXCEPT !.version = row[r].version + 1]
  OBVIOUS
<1>5. /\ row' = [row EXCEPT ![r] = y]
      /\ runner' = [runner EXCEPT ![p] =
           IF y.status = "running" THEN [@ EXCEPT !.at = stage, !.seen = Seen(y)] ELSE NoWork]
  BY <1>1, <1>2, <1>4 DEF Save
<1>6. \A q \in Runs : RowMoves(q)
  BY <1>1, <1>2, <1>3, <1>4, <1>5, WrittenRow DEF RowMoves
<1>7. ASSUME NEW q \in Runners PROVE RunnerMoves(q)
  <2>1. CASE q # p
    BY <1>5, <2>1, RunnerStays DEF AInv, AShape
  <2>2. CASE q = p /\ y.status # "running"
    BY <1>5, <2>2 DEF RunnerMoves, Working, NoWork, AInv, AShape
  <2>3. CASE q = p /\ y.status = "running"
    <3>1. runner'[q] = [runner[q] EXCEPT !.at = stage, !.seen = Seen(y)]
      BY <1>5, <2>3 DEF AInv, AShape
    <3>2. runner'[q].at = stage /\ runner'[q].seen = Seen(y) /\ runner'[q].run = r /\ row'[r] = y
      BY <1>2, <1>5, <2>3, <3>1 DEF AInv, AShape, RunnerStates
    <3> QED
      BY <3>2 DEF RunnerMoves, Seen
  <2> QED
    BY <2>1, <2>2, <2>3
<1> QED
  BY <1>6, <1>7

LEMMA AskMoves ==
  ASSUME AInv, NEW c \in Clients, Asks(c), UNCHANGED runner
  PROVE  (\A r \in Runs : RowMoves(r)) /\ (\A q \in Runners : RunnerMoves(q))
<1>1. PICK x \in ARows :
        /\ SaveRead(c, x) /\ client[c].run \in Runs
        /\ Progress(row[client[c].run], x, gate[client[c].run])
        /\ x.status = "running" =>
             row[client[c].run].status = "running" /\ x.token = row[client[c].run].token
  BY DEF Asks
<1>2. PICK r \in Runs : r = client[c].run
  BY <1>1
<1>3. row' = [row EXCEPT ![r] = [Honoured(r, x) EXCEPT !.version = row[r].version + 1]]
  BY <1>1, <1>2 DEF SaveRead, Commit
<1> QED
  BY <1>1, <1>2, <1>3, WrittenRow, RunnerStays DEF RowMoves

\* A claim, a start, a sweep and the end of a lease.
LEMMA SurroundingsMove ==
  ASSUME AInv, (\E p \in Runners : Claim(p) \/ Sweep(p)) \/ (\E r \in Runs : Create(r) \/ Expire(r))
  PROVE  (\A r \in Runs : RowMoves(r)) /\ (\A q \in Runners : RunnerMoves(q)) /\ UNCHANGED gate
<1>0. row \in [Runs -> ARows] /\ runner \in [Runners -> RunnerStates]
  BY DEF AInv, AShape
<1>1. ASSUME NEW r \in Runs, NEW y, row' = [row EXCEPT ![r] = y], UpToDate(y, row[r]), y.status # "completed",
             row[r].status \notin Terminal,
             y.status = "running" =>
               (row[r].status = "running" /\ y.token = row[r].token) \/ y.token > row[r].version
      PROVE  \A q \in Runs : RowMoves(q)
  <2>1. row'[r] = y /\ \A q \in Runs \ {r} : row'[q] = row[q]
    BY <1>0, <1>1
  <2> QED
    BY <1>1, <2>1, RowStays DEF RowMoves, Progress
<1>2. ASSUME NEW p \in Runners, Claim(p)
      PROVE  (\A r \in Runs : RowMoves(r)) /\ (\A q \in Runners : RunnerMoves(q)) /\ UNCHANGED gate
  <2>1. PICK r \in Runs :
          LET n == row[r].version + 1
              x == [row[r] EXCEPT !.status = "running", !.token = n, !.live = TRUE, !.version = n]
          IN /\ row[r].status = "queued" /\ row' = [row EXCEPT ![r] = x]
             /\ runner' = [runner EXCEPT ![p] =
                  [at |-> "starting", run |-> r, token |-> n, seen |-> Seen(x), todo |-> {}]]
    BY <1>2 DEF Claim
  <2>2. PICK n : n = row[r].version + 1
    OBVIOUS
  <2>3. PICK x : x = [row[r] EXCEPT !.status = "running", !.token = n, !.live = TRUE, !.version = n]
    OBVIOUS
  <2>4. /\ row[r].status = "queued" /\ row' = [row EXCEPT ![r] = x]
        /\ runner' = [runner EXCEPT ![p] =
             [at |-> "starting", run |-> r, token |-> n, seen |-> Seen(x), todo |-> {}]]
    BY <2>1, <2>2, <2>3
  <2>5. x.status = "running" /\ x.token = n /\ n > row[r].version /\ UpToDate(x, row[r])
    BY <1>0, <2>2, <2>3 DEF ARows, UpToDate
  <2>6. \A q \in Runs : RowMoves(q)
    BY <1>1, <2>4, <2>5 DEF Terminal
  <2>7. ASSUME NEW q \in Runners PROVE RunnerMoves(q)
    <3>1. CASE q # p
      BY <1>0, <2>4, <3>1, RunnerStays
    <3>2. CASE q = p
      <4>1. runner'[q].at = "starting" /\ runner'[q].run = r /\ runner'[q].seen = Seen(x) /\ row'[r] = x
        BY <1>0, <2>4, <3>2
      <4> QED
        BY <4>1 DEF RunnerMoves, Seen
    <3> QED
      BY <3>1, <3>2
  <2> QED
    BY <1>2, <2>6, <2>7 DEF Claim
<1>3. ASSUME NEW p \in Runners, Sweep(p)
      PROVE  (\A r \in Runs : RowMoves(r)) /\ (\A q \in Runners : RunnerMoves(q)) /\ UNCHANGED gate
  <2>1. PICK t \in runner[p].todo :
          /\ runner' = [runner EXCEPT ![p].todo = @ \ {t}]
          /\ IF Expired(t.run) /\ row[t.run].version = t.version
             THEN Commit(t.run, Released(row[t.run], "outcome_unknown"))
             ELSE UNCHANGED row
    BY <1>3 DEF Sweep
  <2>2. t.run \in Runs
    BY <1>0, <2>1 DEF RunnerStates
  <2>3. \A r \in Runs : RowMoves(r)
    <3>1. CASE UNCHANGED row
      BY <3>1, RowStays
    <3>2. CASE Expired(t.run) /\ Commit(t.run, Released(row[t.run], "outcome_unknown"))
      <4>1. PICK y : y = [Released(row[t.run], "outcome_unknown") EXCEPT !.version = row[t.run].version + 1]
        OBVIOUS
      <4>2. y.status = "outcome_unknown" /\ UpToDate(y, row[t.run])
        BY <1>0, <2>2, <4>1 DEF Released, ARows, UpToDate
      <4>3. row' = [row EXCEPT ![t.run] = y]
        BY <3>2, <4>1 DEF Commit
      <4> QED
        BY <1>1, <2>2, <3>2, <4>2, <4>3 DEF Expired, Terminal
    <3> QED
      BY <2>1, <3>1, <3>2
  <2>4. ASSUME NEW q \in Runners PROVE RunnerMoves(q)
    <3>1. /\ runner'[q].at = runner[q].at /\ runner'[q].run = runner[q].run
          /\ runner'[q].token = runner[q].token /\ runner'[q].seen = runner[q].seen
      BY <1>0, <2>1 DEF RunnerStates
    <3>2. runner'[q].at = "completing" => runner'[q] = runner[q]
      <4>1. CASE q # p
        BY <1>0, <2>1, <4>1
      <4>2. CASE q = p
        BY <1>3, <3>1, <4>2 DEF Sweep
      <4> QED
        BY <4>1, <4>2
    <3> QED
      BY <3>1, <3>2 DEF RunnerMoves, Working
  <2> QED
    BY <1>3, <2>3, <2>4 DEF Sweep
<1>4. ASSUME NEW r \in Runs, Create(r) \/ Expire(r)
      PROVE  (\A q \in Runs : RowMoves(q)) /\ (\A q \in Runners : RunnerMoves(q)) /\ UNCHANGED gate
  <2>1. UNCHANGED <<runner, gate>>
    BY <1>4 DEF Create, Expire
  <2>2. CASE Create(r)
    <3>1. PICK y : y = [row[r] EXCEPT !.status = "queued"]
      OBVIOUS
    <3>2. row' = [row EXCEPT ![r] = y] /\ row[r].status = "none"
      BY <2>2, <3>1 DEF Create
    <3>3. y.status = "queued" /\ UpToDate(y, row[r])
      BY <1>0, <3>1 DEF ARows, UpToDate
    <3> QED
      BY <1>1, <2>1, <3>2, <3>3, RunnerStays DEF Terminal
  <2>3. CASE Expire(r)
    <3>1. PICK y : y = [row[r] EXCEPT !.live = FALSE]
      OBVIOUS
    <3>2. row' = [row EXCEPT ![r] = y] /\ row[r].status = "running"
      BY <2>3, <3>1 DEF Expire
    <3>3. y.status = "running" /\ y.token = row[r].token /\ UpToDate(y, row[r])
      BY <1>0, <3>1, <3>2 DEF ARows, UpToDate
    <3> QED
      BY <1>1, <2>1, <3>2, <3>3, RunnerStays DEF Terminal
  <2> QED
    BY <1>4, <2>2, <2>3
<1> QED
  BY <1>2, <1>3, <1>4

\* The steps of a runner that writes no row.
LEMMA OthersMove ==
  ASSUME AInv, NEW p \in Runners,
         SweepRead(p) \/ NothingQueued(p) \/ StopRead(p) \/ SessionValid(p) \/ Ask(p) \/ Call(p)
           \/ InferReturns(p) \/ FencedOut(p) \/ Crash(p)
  PROVE  (\A r \in Runs : RowMoves(r)) /\ (\A q \in Runners : RunnerMoves(q)) /\ UNCHANGED row
<1>1. UNCHANGED row
  BY DEF SweepRead, NothingQueued, StopRead, SessionValid, Ask, Call, InferReturns, FencedOut, Crash
<1>2. runner \in [Runners -> RunnerStates]
  BY DEF AInv, AShape
<1>3. \A q \in Runners \ {p} : runner'[q] = runner[q]
  BY <1>2 DEF SweepRead, NothingQueued, StopRead, SessionValid, Ask, Call, InferReturns, FencedOut, Crash, Goto
<1>4. RunnerMoves(p)
  <2>1. CASE SweepRead(p) \/ NothingQueued(p) \/ FencedOut(p) \/ Crash(p)
    <3>1. runner'[p].at \in {"idle", "sweeping"}
      <4>1. CASE SweepRead(p)
        BY <1>2, <4>1 DEF SweepRead, RunnerStates
      <4>2. CASE NothingQueued(p) \/ FencedOut(p) \/ Crash(p)
        BY <1>2, <4>2 DEF NothingQueued, FencedOut, Crash, NoWork
      <4> QED
        BY <2>1, <4>1, <4>2
    <3> QED
      BY <3>1 DEF RunnerMoves, Working
  <2>2. CASE StopRead(p)
    <3>1. runner[p].run \in Runs /\ row[runner[p].run] \in ARows
      BY <2>2 DEF StopRead, AInv, AShape, Working
    <3>2. Seen(Local(p)).step = row[runner[p].run].step
      BY <3>1 DEF Seen, Local, ARows
    <3>3. /\ runner'[p].seen = Seen(Local(p)) /\ runner'[p].run = runner[p].run
          /\ runner'[p].at # "completing"
      BY <1>2, <2>2 DEF StopRead, RunnerStates
    <3> QED
      BY <1>1, <3>2, <3>3 DEF RunnerMoves
  <2>3. CASE SessionValid(p) \/ Ask(p) \/ Call(p)
    <3>1. PICK stage \in {"asking", "checking", "asked", "waiting"} : runner' = [runner EXCEPT ![p].at = stage]
      BY <2>3 DEF SessionValid, Ask, Call, Goto
    <3>2. /\ runner'[p].at = stage /\ runner'[p].run = runner[p].run
          /\ runner'[p].token = runner[p].token /\ runner'[p].seen = runner[p].seen
      BY <1>2, <3>1 DEF RunnerStates
    <3>3. Working(p)
      BY <2>3 DEF SessionValid, Ask, Call, Working
    <3> QED
      BY <3>2, <3>3 DEF RunnerMoves
  <2>4. CASE InferReturns(p)
    BY <2>4 DEF RunnerMoves
  <2> QED
    BY <2>1, <2>2, <2>3, <2>4
<1> QED
  BY <1>1, <1>3, <1>4, RowStays, RunnerStays

\* The gateway stands still, or an entry of it goes on.
EntryMoves(r, s) ==
  /\ UNCHANGED row /\ GateMoves(row[r], s, gate[r][s], gate'[r][s])
  /\ \A q \in Runs, t \in Steps : q # r \/ t # s => gate'[q][t] = gate[q][t]
GatewayMoves == UNCHANGED gate \/ \E r \in Runs, s \in Steps : EntryMoves(r, s)

LEMMA EntriesMove ==
  ASSUME AInv, AInv', NEW r \in Runs, NEW s, NEW v, Updated(r, s, v), UNCHANGED row,
         s \in Steps => v \in AGates /\ GateMoves(row[r], s, gate[r][s], v)
  PROVE  GatewayMoves
<1>1. CASE s \in Steps
  <2>1. gate'[r][s] = v /\ \A q \in Runs, t \in Steps : q # r \/ t # s => gate'[q][t] = gate[q][t]
    BY <1>1, GateUpdate DEF AInv
  <2> QED
    BY <1>1, <2>1 DEF GatewayMoves, EntryMoves
<1>2. CASE s \notin Steps
  <2>1. \A q \in Runs, t \in Steps : gate'[q][t] = gate[q][t]
    BY <1>2, GateUpdate DEF AInv
  <2>2. gate \in Gates /\ gate' \in Gates
    BY DEF AInv, GShape
  <2> QED
    BY <2>1, <2>2 DEF GatewayMoves, Gates
<1> QED
  BY <1>1, <1>2

\* What an entry of the gateway may say, by where the row is.
LEMMA EntryOfRow ==
  ASSUME AInv, AccountInv, NEW r \in Runs, NEW s \in Steps
  PROVE  /\ gate[r][s] \in AGates /\ row[r].step \in Nat /\ s \in Nat
         /\ gate[r][s].answer # "none" => gate[r][s].payment = "consumed"
         /\ s < row[r].step => gate[r][s].payment = "consumed"
         /\ s > row[r].step => gate[r][s].payment = "none"
<1>1. gate[r][s] \in AGates /\ row[r].step \in Nat /\ s \in Nat
  BY RuntimeAssumption DEF AInv, AShape, GShape, Gates, ARows, Steps
<1> QED
  BY <1>1 DEF AccountInv, RowsRight, StepsAnswered, NoStep

LEMMA AskGateway ==
  ASSUME AInv, AInv', AccountInv, NEW p \in Runners, Ask(p)
  PROVE  GatewayMoves
<1>1. PICK r \in Runs : r = runner[p].run
  BY DEF Ask, AInv, AShape, Working
<1>2. PICK s : s = runner[p].seen.step
  OBVIOUS
<1>3. s <= row[r].step
  BY <1>1, <1>2 DEF Ask, Working, AccountInv, RunnersBehind
<1>4. CASE UNCHANGED gate
  BY <1>4 DEF GatewayMoves
<1>5. ASSUME NEW a \in Amounts, gate[r][s].payment = "none",
             gate' = [gate EXCEPT ![r][s] = [@ EXCEPT !.payment = "open", !.amount = a]]
      PROVE  GatewayMoves
  <2>1. PICK v : v = [gate[r][s] EXCEPT !.payment = "open", !.amount = a]
    OBVIOUS
  <2>2. Updated(r, s, v)
    BY <1>5, <2>1 DEF Updated
  <2>3. ASSUME s \in Steps PROVE v \in AGates /\ GateMoves(row[r], s, gate[r][s], v)
    <3>1. /\ gate[r][s] \in AGates /\ row[r].step \in Nat /\ s \in Nat
          /\ gate[r][s].answer = "none" /\ ~(s < row[r].step)
      BY <1>5, <2>3, EntryOfRow
    <3>2. a \in Nat
      BY RuntimeAssumption
    <3>3. v \in AGates /\ v.answer = gate[r][s].answer /\ v.payment = "open"
      BY <2>1, <3>1, <3>2 DEF AGates
    <3> QED
      BY <1>3, <1>5, <3>1, <3>3 DEF GateMoves
  <2>4. UNCHANGED row
    BY DEF Ask
  <2> QED
    BY <2>2, <2>3, <2>4, EntriesMove
<1> QED
  BY <1>1, <1>2, <1>4, <1>5 DEF Ask

LEMMA CallGateway ==
  ASSUME AInv, AInv', AccountInv, NEW p \in Runners, Call(p)
  PROVE  GatewayMoves
<1>1. PICK r \in Runs : r = runner[p].run
  BY DEF Call, AInv, AShape, Working
<1>2. PICK s : s = runner[p].seen.step
  OBVIOUS
<1>3. s <= row[r].step
  BY <1>1, <1>2 DEF Call, Working, AccountInv, RunnersBehind
<1>4. PICK v : /\ Updated(r, s, v)
               /\ \/ v = [gate[r][s] EXCEPT !.settles = gate[r][s].settles + 1]
                  \/ v = [gate[r][s] EXCEPT !.infers = gate[r][s].infers + 1]
  BY <1>1, <1>2 DEF Call, Updated
<1>5. ASSUME s \in Steps PROVE v \in AGates /\ GateMoves(row[r], s, gate[r][s], v)
  <2>1. /\ gate[r][s] \in AGates /\ row[r].step \in Nat /\ s \in Nat
        /\ gate[r][s].answer # "none" => gate[r][s].payment = "consumed"
    BY <1>5, EntryOfRow
  <2>2. /\ v \in AGates /\ v.payment = gate[r][s].payment /\ v.amount = gate[r][s].amount
        /\ v.answer = gate[r][s].answer
    BY <1>4, <2>1 DEF AGates
  <2> QED
    BY <1>3, <2>1, <2>2 DEF GateMoves
<1>6. UNCHANGED row
  BY DEF Call
<1> QED
  BY <1>4, <1>5, <1>6, EntriesMove

LEMMA AnswerGateway ==
  ASSUME AInv, AInv', AccountInv, NEW r \in Runs, NEW s \in Steps,
         Settle(r, s) \/ \E d \in Decisions : Infer(r, s, d)
  PROVE  GatewayMoves /\ UNCHANGED <<row, runner>>
<1>1. UNCHANGED <<row, runner>>
  BY DEF Settle, Infer
<1>2. PICK u : u = gate[r][s]
  OBVIOUS
<1>3. /\ u \in AGates /\ row[r].step \in Nat /\ s \in Nat
      /\ u.answer # "none" => u.payment = "consumed"
      /\ s < row[r].step => u.payment = "consumed"
      /\ s > row[r].step => u.payment = "none"
  BY <1>2, EntryOfRow
<1>4. CASE Settle(r, s)
  <2>1. PICK v : v = [u EXCEPT !.payment = "settled"]
    OBVIOUS
  <2>2. Updated(r, s, v) /\ u.payment = "open"
    BY <1>2, <1>4, <2>1 DEF Updated, Settle
  <2>3. v \in AGates /\ v.payment = "settled" /\ v.amount = u.amount /\ v.answer = u.answer
    BY <1>3, <2>1 DEF AGates
  <2>4. GateMoves(row[r], s, u, v)
    BY <1>3, <2>2, <2>3 DEF GateMoves
  <2> QED
    BY <1>1, <1>2, <2>2, <2>3, <2>4, EntriesMove
<1>5. ASSUME NEW d \in Decisions, Infer(r, s, d) PROVE GatewayMoves
  <2>1. PICK v : v = [u EXCEPT !.payment = "consumed", !.answer = d]
    OBVIOUS
  <2>2. Updated(r, s, v) /\ u.payment = "settled"
    BY <1>2, <1>5, <2>1 DEF Updated, Infer
  <2>3. v \in AGates /\ v.payment = "consumed" /\ v.amount = u.amount
    BY <1>3, <2>1 DEF AGates
  <2>4. GateMoves(row[r], s, u, v)
    BY <1>3, <2>2, <2>3 DEF GateMoves
  <2> QED
    BY <1>1, <1>2, <2>2, <2>3, <2>4, EntriesMove
<1> QED
  BY <1>1, <1>4, <1>5

\* Every step of the runtime.
LEMMA AllMove ==
  ASSUME AInv, AInv', AccountInv, [Next]_vars
  PROVE  (\A r \in Runs : RowMoves(r)) /\ (\A q \in Runners : RunnerMoves(q)) /\ GatewayMoves
<1> DEFINE Moves == (\A r \in Runs : RowMoves(r)) /\ (\A q \in Runners : RunnerMoves(q)) /\ GatewayMoves
<1>1. ASSUME NEW c \in Clients, Owner(c) PROVE Moves
  <2>1. CASE Cancel(c) \/ ResumeAnswered(c) \/ ResumeSettled(c) \/ ResumePreparation(c) \/ Authorize(c)
    BY <2>1, RequestsWrite, AskMoves DEF GatewayMoves
  <2>2. CASE (\E r \in Runs : Request(c, r)) \/ Refuse(c)
    BY <2>2, RowStays, RunnerStays DEF Request, Refuse, GatewayMoves
  <2> QED
    BY <1>1, <2>1, <2>2 DEF Owner
<1>2. ASSUME NEW p \in Runners, Tick(p) \/ Fail(p) \/ Crash(p) PROVE Moves
  <2>1. CASE StopWrite(p) \/ Prepare(p) \/ SessionExpired(p) \/ OverBudget(p) \/ RequirePayment(p)
               \/ SettleReturns(p) \/ Complete(p) \/ Fail(p) \/ Dispatch(p)
    BY <2>1, RunnersWrite, WriteMoves DEF GatewayMoves
  <2>2. CASE SweepRead(p) \/ NothingQueued(p) \/ StopRead(p) \/ SessionValid(p) \/ InferReturns(p)
               \/ FencedOut(p) \/ Crash(p)
    <3>1. UNCHANGED gate
      BY <2>2 DEF SweepRead, NothingQueued, StopRead, SessionValid, InferReturns, FencedOut, Crash
    <3> QED
      BY <2>2, <3>1, OthersMove DEF GatewayMoves
  <2>3. CASE Ask(p) \/ Call(p)
    BY <2>3, OthersMove, AskGateway, CallGateway
  <2>4. CASE Claim(p) \/ Sweep(p)
    BY <2>4, SurroundingsMove DEF GatewayMoves
  <2> QED
    BY <1>2, <2>1, <2>2, <2>3, <2>4 DEF Tick
<1>3. ASSUME NEW r \in Runs, Create(r) \/ Expire(r) \/ Deadline(r) PROVE Moves
  <2>1. CASE Deadline(r)
    BY <2>1, RowStays, RunnerStays DEF Deadline, GatewayMoves
  <2> QED
    BY <1>3, <2>1, SurroundingsMove DEF GatewayMoves
<1>4. ASSUME NEW r \in Runs, NEW s \in Steps, Settle(r, s) \/ \E d \in Decisions : Infer(r, s, d)
      PROVE  Moves
  BY <1>4, AnswerGateway, RowStays, RunnerStays
<1>5. CASE UNCHANGED vars
  BY <1>5, RowStays, RunnerStays DEF vars, GatewayMoves
<1> QED
  BY <1>1, <1>2, <1>3, <1>4, <1>5 DEF Next

LEMMA RowsStayRight ==
  ASSUME AInv, AInv', AccountInv, \A r \in Runs : RowMoves(r), GatewayMoves
  PROVE  RowsRight'
<1>1. \A r \in Runs : /\ row[r] \in ARows /\ row'[r] \in ARows
                      /\ gate[r] \in [Steps -> AGates] /\ gate'[r] \in [Steps -> AGates]
  BY DEF AInv, AShape, GShape, Gates
<1>2. \A r \in Runs : RowAccounted(row[r], gate[r]) /\ StepsAnswered(row[r], gate[r])
  BY DEF AccountInv, RowsRight
<1> SUFFICES ASSUME NEW r \in Runs
             PROVE  RowAccounted(row'[r], gate'[r]) /\ StepsAnswered(row'[r], gate'[r])
  BY DEF RowsRight, RowAccounted, StepsAnswered, Costs, Paid
<1>3. RowAccounted(row'[r], gate[r]) /\ StepsAnswered(row'[r], gate[r])
  BY <1>1, <1>2, ProgressKeeps DEF RowMoves
<1>4. CASE UNCHANGED gate
  BY <1>3, <1>4
<1>5. ASSUME NEW q \in Runs, NEW s \in Steps, EntryMoves(q, s)
      PROVE  RowAccounted(row'[r], gate'[r]) /\ StepsAnswered(row'[r], gate'[r])
  <2>1. CASE q = r
    <3>1. row'[r] = row[r] /\ GateMoves(row[r], s, gate[r][s], gate'[r][s])
          /\ \A t \in Steps : t # s => gate'[r][t] = gate[r][t]
      BY <1>5, <2>1 DEF EntryMoves
    <3> QED
      BY <1>1, <1>2, <3>1, GateKeeps
  <2>2. CASE q # r
    <3>1. \A t \in Steps : gate'[r][t] = gate[r][t]
      BY <1>5, <2>2 DEF EntryMoves
    <3>2. gate'[r] = gate[r]
      BY <1>1, <3>1
    <3> QED
      BY <1>3, <3>2
  <2> QED
    BY <2>1, <2>2
<1> QED
  BY <1>4, <1>5 DEF GatewayMoves

LEMMA RunnersStayBehind ==
  ASSUME AInv, AInv', AccountInv, \A r \in Runs : RowMoves(r), \A p \in Runners : RunnerMoves(p)
  PROVE  RunnersBehind'
<1> SUFFICES ASSUME NEW p \in Runners, Working(p)'
             PROVE  runner'[p].seen.step <= row'[runner'[p].run].step
  BY DEF RunnersBehind
<1>1. PICK r \in Runs : r = runner'[p].run
  BY DEF AInv, AShape
<1>2. row[r] \in ARows /\ row'[r] \in ARows /\ row[r].step \in Nat /\ row'[r].step \in Nat
  BY DEF AInv, AShape, ARows
<1>3. CASE Working(p) /\ runner'[p].run = runner[p].run /\ runner'[p].seen.step = runner[p].seen.step
  <2>1. row[r].step <= row'[r].step
    BY <1>2 DEF RowMoves, Progress, UpToDate, Completes
  <2>2. runner[p].seen.step <= row[r].step /\ runner[p].seen.step \in Nat
    BY <1>1, <1>3 DEF AccountInv, RunnersBehind, AInv, AShape, RunnerStates, AViews
  <2> QED
    BY <1>1, <1>2, <1>3, <2>1, <2>2
<1>4. CASE runner'[p].seen.step = row'[runner'[p].run].step
  BY <1>1, <1>2, <1>4
<1>5. CASE InferReturns(p)
  <2>1. Working(p) /\ UNCHANGED row
    BY <1>5 DEF InferReturns, Working
  <2>2. runner'[p].run = runner[p].run /\ runner'[p].seen = Seen(Local(p))
    BY <1>5 DEF InferReturns, AInv, AShape, RunnerStates
  <2>3. Seen(Local(p)).step = row[r].step
    BY <1>1, <1>2, <2>2 DEF Seen, Local, ARows
  <2> QED
    BY <1>1, <1>2, <2>1, <2>2, <2>3
<1> QED
  BY <1>3, <1>4, <1>5 DEF RunnerMoves

LEMMA CompletersStayAnswered ==
  ASSUME AInv, AInv', AccountInv, \A r \in Runs : RowMoves(r), \A p \in Runners : RunnerMoves(p),
         GatewayMoves
  PROVE  CompletersAnswered'
<1> SUFFICES ASSUME NEW p \in Runners, Leases(p)', runner'[p].at = "completing"
             PROVE  /\ row'[runner'[p].run].phase = "inference_dispatched"
                    /\ gate'[runner'[p].run][row'[runner'[p].run].step].answer # "none"
  BY DEF CompletersAnswered
<1>1. PICK r \in Runs : r = runner'[p].run
  BY DEF AInv, AShape, Leases
<1>2. Working(p)' /\ row'[r].status = "running" /\ row'[r].token = runner'[p].token
  BY <1>1 DEF Leases
<1>3. UpToDate(runner'[p].seen, row'[r])
  BY <1>1 DEF AInv, HoldersUpToDate
<1>4. CASE Working(p) /\ runner'[p] = runner[p]
  <2>1. runner[p].run = r /\ runner[p].token <= row[r].version /\ row[r].version \in Nat
        /\ runner[p].token \in Nat
    BY <1>1, <1>4 DEF AInv, AShape, TokensDistinct, ARows, RunnerStates
  <2>2. row[r].status = "running" /\ row[r].token = runner[p].token
    BY <1>2, <1>4, <2>1 DEF RowMoves
  <2>3. Leases(p)
    BY <1>4, <2>1, <2>2 DEF Leases
  <2>4. UpToDate(runner[p].seen, row[r])
    BY <2>1, <2>3 DEF AInv, HoldersUpToDate
  <2>5. row[r].phase = "inference_dispatched" /\ gate[r][row[r].step].answer # "none"
    BY <1>4, <2>1, <2>3 DEF AccountInv, CompletersAnswered
  <2>6. row'[r].phase = row[r].phase /\ row'[r].step = row[r].step
    BY <1>3, <1>4, <2>4 DEF UpToDate
  <2>7. row[r].step \in Steps
    BY <2>2, RuntimeAssumption DEF AInv, AShape, ARows, RowsInRange, Steps, Terminal
  <2>8. gate'[r][row[r].step].answer # "none"
    BY <2>5, <2>7 DEF GatewayMoves, EntryMoves, GateMoves
  <2> QED
    BY <1>1, <2>5, <2>6, <2>8
<1>5. CASE InferReturns(p)
  <2>1. runner[p].run = r /\ runner'[p].token = runner[p].token
    BY <1>1, <1>5 DEF InferReturns, AInv, AShape, RunnerStates
  <2>2. Leases(p)
    BY <1>2, <1>5, <2>1 DEF Leases, Working, InferReturns
  <2>3. UpToDate(runner[p].seen, row[r])
    BY <2>1, <2>2 DEF AInv, HoldersUpToDate
  <2> QED
    BY <1>1, <1>5, <2>1, <2>3 DEF InferReturns, StepGate, UpToDate
<1> QED
  BY <1>2, <1>4, <1>5, <1>1, <1>3 DEF RunnerMoves

LEMMA AccountNext == AInv /\ AInv' /\ AccountInv /\ [Next]_vars => AccountInv'
BY AllMove, RowsStayRight, RunnersStayBehind, CompletersStayAnswered DEF AccountInv

LEMMA AccountInit == Init => AccountInv
<1> SUFFICES ASSUME Init PROVE AccountInv
  OBVIOUS
<1>1. CompletersAnswered /\ RunnersBehind
  BY DEF Init, CompletersAnswered, RunnersBehind, Leases, Working, NoWork
<1>2. ASSUME NEW r \in Runs PROVE RowAccounted(row[r], gate[r]) /\ StepsAnswered(row[r], gate[r])
  <2>1. row[r] = NoRow /\ gate[r] = [s \in Steps |-> NoStep]
    BY DEF Init
  <2>2. Paid(NoRow) = {}
    BY DEF Paid, NoRow, Counted
  <2>3. RowAccounted(row[r], gate[r])
    BY <2>1, <2>2, SumEmpty, RuntimeAssumption DEF RowAccounted, NoRow
  <2>4. StepsAnswered(row[r], gate[r])
    BY <2>1, RuntimeAssumption DEF StepsAnswered, NoRow, NoStep, Steps
  <2> QED
    BY <2>3, <2>4
<1> QED
  BY <1>1, <1>2 DEF AccountInv, RowsRight

LEMMA AccountInvariant == Spec => [](AInv /\ AccountInv)
<1>1. AInv /\ AccountInv /\ [Next]_vars => (AInv /\ AccountInv)'
  BY ANext, AccountNext
<1> QED
  BY <1>1, AInit, AccountInit, PTL DEF Spec

\* What the properties call paid, the row counts.
LEMMA PaidIsCounted ==
  ASSUME NEW r \in Runs
  PROVE  PaidSteps(r) = Paid(row[r]) /\ Prices(r) = Costs(gate[r])
BY DEF PaidSteps, Paid, Counted, Prices, Costs

\* A settlement asked for is counted, or it is the one that is dispatched.
LEMMA SettlesCounted ==
  ASSUME AInv, AccountInv, NEW r \in Runs, NEW s \in Steps, gate[r][s].settles > 0
  PROVE  s \in Paid(row[r]) \/ (s = row[r].step /\ row[r].phase = "settlement_dispatched")
<1>1. MayHaveSettled(row[r], s)
  BY DEF AInv, SettledOnce
<1>2. row[r].step \in Nat /\ s \in Nat
  BY RuntimeAssumption DEF AInv, AShape, ARows, Steps
<1> QED
  BY <1>1, <1>2 DEF MayHaveSettled, SettleMarked, Paid, Counted

\* Settlements asked for fit the budget.
LEMMA CostsFit ==
  ASSUME AInv, AccountInv, NEW r \in Runs
  PROVE  Sum(Costs(gate[r]), {s \in Steps : gate[r][s].settles > 0}) <= Budget
<1> DEFINE x == row[r]  g == gate[r]  T == {s \in Steps : gate[r][s].settles > 0}
<1>1. /\ x \in ARows /\ x.step \in Nat /\ x.spent \in Nat /\ x.amount \in Nat /\ Budget \in Nat
      /\ g \in [Steps -> AGates]
  BY RuntimeAssumption DEF AInv, AShape, GShape, Gates, ARows
<1>2. RowAccounted(x, g)
  BY DEF AccountInv, RowsRight
<1>3. Paid(x) \in SUBSET Steps
  BY <1>1, <1>2, PaidIn DEF RowAccounted
<1>4. \A s \in T : s \in Paid(x) \/ (s = x.step /\ x.phase = "settlement_dispatched")
  BY SettlesCounted
<1>5. /\ \A S \in SUBSET Steps : IsFiniteSet(S)
      /\ \A s \in Steps : Costs(g)[s] = g[s].amount /\ Costs(g)[s] \in Nat
  BY <1>1, StepsFinite
<1>6. T \in SUBSET Steps
  OBVIOUS
<1> HIDE DEF T, x, g
<1>7. CASE x.phase # "settlement_dispatched"
  <2>1. T \in SUBSET Paid(x)
    BY <1>4, <1>7
  <2>2. Sum(Costs(g), T) <= Sum(Costs(g), Paid(x))
    BY <1>3, <1>5, <2>1, SumPart
  <2>3. Sum(Costs(g), T) \in Int
    BY <1>5, <1>6, SumType
  <2> QED
    BY <1>1, <1>2, <2>2, <2>3 DEF RowAccounted, T, g
<1>8. CASE x.phase = "settlement_dispatched"
  <2>1. Paid(x) = 0..(x.step - 1) /\ x.step \in Steps
    BY <1>1, <1>2, <1>8, RuntimeAssumption DEF Paid, Counted, RowAccounted, Steps
  <2>2. x.step \notin Paid(x)
    BY <1>1, <2>1
  <2>3. Sum(Costs(g), Paid(x) \cup {x.step}) = Costs(g)[x.step] + Sum(Costs(g), Paid(x))
    <3>1. IsFiniteSet(Paid(x)) /\ \A s \in Paid(x) \cup {x.step} : Costs(g)[s] \in Int
      <4>1. \A s \in Steps : Costs(g)[s] \in Int
        BY <1>5
      <4>2. \A s \in Paid(x) \cup {x.step} : s \in Steps
        BY <1>3, <2>1
      <4>3. \A s \in Paid(x) \cup {x.step} : Costs(g)[s] \in Int
        BY <4>1, <4>2
      <4> QED
        BY <1>3, <1>5, <4>3
    <3> QED
      BY <2>2, <3>1, SumWith
  <2>4. Costs(g)[x.step] = x.amount /\ x.spent = Sum(Costs(g), Paid(x)) /\ x.spent + x.amount <= Budget
    BY <1>2, <1>5, <1>8, <2>1 DEF RowAccounted
  <2>5. T \in SUBSET (Paid(x) \cup {x.step}) /\ Paid(x) \cup {x.step} \in SUBSET Steps
    BY <1>3, <1>4, <2>1
  <2>6. Sum(Costs(g), T) <= Sum(Costs(g), Paid(x) \cup {x.step})
    BY <1>5, <2>5, SumPart
  <2>7. Sum(Costs(g), T) \in Int
    BY <1>5, <1>6, SumType
  <2> QED
    BY <1>1, <2>3, <2>4, <2>6, <2>7 DEF T, g
<1> QED
  BY <1>7, <1>8

-----------------------------------------------------------------------------
\* No paid call of a step is made twice, for any number of runners, crashes,
\* lost leases and resumes (the markers of agent-runtime.ts, and the fences of
\* its store).
THEOREM StepsPaidOnce == Spec => []PaidOnce
  <1>1. AInv => PaidOnce
    BY DEF AInv, SettledOnce, InferredOnce, PaidOnce
  <1> QED
    BY <1>1, AInvariant, PTL

\* A cancelled run is never completed, queued again or left waiting for a
\* payment, whoever writes the row next (write of agent-runtime-store.ts).
THEOREM CancellationSticks == Spec => []CancelSticks
  <1>1. AInv => CancelSticks
    BY DEF AInv
  <1> QED
    BY <1>1, AInvariant, PTL

\* The settlements a run has asked for never exceed its budget, those whose
\* outcome is unknown included (the affordability checks of agent-runtime.ts,
\* made on a copy of the row, and the markers of its store).
THEOREM BudgetStaysHeld == Spec => []BudgetHeld
<1>1. AInv /\ AccountInv => BudgetHeld
  BY CostsFit, PaidIsCounted DEF BudgetHeld
<1> QED
  BY <1>1, AccountInvariant, PTL

\* spentUnits is what the steps counted as paid cost, each of them was settled,
\* and a settlement asked for is counted or still marked as dispatched
\* (settle, resume and complete of agent-runtime.ts).
THEOREM SpendingStaysAccounted == Spec => []SpendingAccounted
<1>1. AInv /\ AccountInv => SpendingAccounted
  <2> SUFFICES ASSUME AInv, AccountInv, NEW r \in Runs
               PROVE  /\ row[r].spent = Sum(Costs(gate[r]), Paid(row[r]))
                      /\ \A s \in Paid(row[r]) : gate[r][s].payment \in {"settled", "consumed"}
                      /\ \A s \in Steps : gate[r][s].settles > 0 =>
                           \/ s \in Paid(row[r])
                           \/ s = row[r].step /\ row[r].phase = "settlement_dispatched"
    BY PaidIsCounted DEF SpendingAccounted
  <2> QED
    BY SettlesCounted DEF AccountInv, RowsRight, RowAccounted
<1> QED
  BY <1>1, AccountInvariant, PTL

\* A step is counted once its answer is there, and none is asked for ahead of
\* the row: the run goes on after "continue" only and completes with "complete"
\* only, whichever runner or resume processed the answer (complete of
\* agent-runtime.ts).
THEOREM StepsStayAnswered == Spec => []StepsFollowAnswers
<1>1. AInv /\ AccountInv => StepsFollowAnswers
  BY DEF AccountInv, RowsRight, StepsAnswered, StepsFollowAnswers
<1> QED
  BY <1>1, AccountInvariant, PTL
=============================================================================
