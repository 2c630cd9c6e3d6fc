-------------------------- MODULE AcceptanceProofs --------------------------
(***************************************************************************)
(* The evidence of a release acceptance, proved for any lifetimes of its   *)
(* tokens, sessions and authorizations and any number of runs, deaths,     *)
(* rearms and replays.                                                     *)
(*                                                                         *)
(* The inductive invariant has five parts beside the types: one run holds  *)
(* the lock; what was sent is what the journal tells (Story); a run knows  *)
(* the journal and awaits what it began (Informed); the gateway does only  *)
(* what was asked of it (Asked); and a proof of the operator, once taken,  *)
(* stays true (ProofStands), because an authorization that has ended in a  *)
(* block cannot be spent in a later one and no second one is ever signed.  *)
(***************************************************************************)
EXTENDS Acceptance, TLAPS

Journals ==
  [phase : Phases \cup {"none"}, token : Nat, session : Nat, payment : BOOLEAN, auth : Nat,
   settled : BOOLEAN, expected : BOOLEAN, result : BOOLEAN, posts : Nat]

Stops == {"load", "sign-in", "go", "opening", "checked", "asking", "settling", "completing",
          "verify", "owned", "review", "recorded", "done", "dead"}

Runs == [mode : Modes \cup {"none"}, at : Stops, mem : Journals, reply : BOOLEAN]

Late == {"completion-starting", "response-received", "completed"}

\* Clocks, files, runs and messages keep their types.
Typed ==
  /\ now \in 1..MaxTime /\ chainTime \in Nat \ {0} /\ chainTime <= now
  /\ journal \in Journals /\ recovery \in BOOLEAN /\ candidate \in BOOLEAN
  /\ lock \in [by : Nat, named : BOOLEAN] /\ unlocking \in Nat
  /\ run \in Seq(Runs)
  /\ gateway \in [payment : {"none", "open", "settling", "settled", "consumed", "failed"},
                  auth : Nat, caller : Nat, receipt : {"none", "pending", "anchored"}]
  /\ debited \in BOOLEAN
  /\ posted \in [auths : SUBSET Nat, first : Nat, paid : Nat]

\* The lock admits one run at a time, and is removed only from a dead one.
OneRun ==
  /\ lock.by \in 0..Len(run)
  /\ \A i \in Live : i = lock.by
  /\ unlocking # 0 => unlocking = lock.by /\ run[unlocking].at = "dead"

\* What the journal tells of what was sent.
Story ==
  /\ journal.phase = "none" => journal = NoJournal
  /\ journal.posts = posted.paid
  /\ journal.posts > 0 <=> journal.phase \in Late
  /\ journal.result => journal.phase \in Late
  /\ journal.phase \notin {"none", "new", "session-starting"} => journal.session # 0
  /\ journal.phase = "settlement-starting" => journal.auth # 0
  /\ posted.auths = IF journal.auth = 0 THEN {} ELSE {journal.auth}
  /\ posted.first \in {0, 1} /\ posted.first <= posted.paid

\* No authorization that was sent can be spent any more.
Unspendable == ~debited /\ \A a \in posted.auths : a <= chainTime

\* The request a run awaits at a stop is the one the journal says it began.
Awaits(at, phase) ==
  /\ at = "opening" => phase = "session-starting"
  /\ at = "asking" => phase = "challenge-starting"
  /\ at = "settling" => phase = "settlement-starting"
  /\ at = "completing" => phase = "completion-starting"

\* A run knows the journal it has read; one that has recorded to archive it
\* has read that what was sent cannot be spent.
Knows(r) ==
  r.at # "load" =>
    /\ r.mem = journal /\ journal.phase \notin {"none", "aborted-unspent"}
    /\ Awaits(r.at, journal.phase)
    /\ r.at = "recorded" => /\ journal.phase = "settlement-starting"
                            /\ r.mode = "archive" => Unspendable

Informed ==
  /\ \A i \in Live : Knows(run[i])
  /\ journal.phase = "aborted-unspent" => Unspendable

\* What the gateway has done was asked for.
Asked ==
  /\ \A m \in wire : m.by \in Nat /\ (m.kind = "settle" => m.auth \in posted.auths)
  /\ gateway.payment = "settling" => gateway.auth \in posted.auths
  /\ gateway.payment \in {"settled", "consumed"} => debited
  /\ gateway.payment = "consumed" => gateway.receipt # "none"
  /\ posted.paid > posted.first => gateway.receipt # "none"
  /\ candidate => gateway.payment = "consumed" /\ gateway.receipt = "anchored"

\* A proof is about an authorization that was sent, and stays true.
ProofStands ==
  proof # NoProof =>
    /\ proof.journal.auth \in posted.auths
    /\ proof.block \in Nat /\ proof.block <= chainTime
    /\ proof.journal.auth <= proof.block => ~debited

IInv == Typed /\ OneRun /\ Story /\ Informed /\ Asked /\ ProofStands

-----------------------------------------------------------------------------
(* What a step can do to the runs.                                          *)

\* The runs are numbered in the order they started.
LEMMA Members ==
  ASSUME Typed
  PROVE  /\ Len(run) \in Nat /\ DOMAIN run = 1..Len(run)
         /\ \A i \in DOMAIN run : run[i] \in Runs
  BY DEF Typed

\* A live run becomes r: it stays the only one that can be alive.
LEMMA RunBecomes ==
  ASSUME Typed, OneRun, NEW i \in Live, NEW r \in Runs, run' = [run EXCEPT ![i] = r]
  PROVE  /\ run' \in Seq(Runs) /\ Len(run') = Len(run) /\ i \in DOMAIN run /\ i = lock.by
         /\ run'[i] = r /\ \A j \in DOMAIN run \ {i} : run'[j] = run[j]
         /\ Live' = IF r.at \in {"done", "dead"} THEN {} ELSE {i}
         /\ unlocking = 0
  <1>1. i \in DOMAIN run /\ i = lock.by /\ Live = {i}
    BY DEF Live, OneRun
  <1>2. run' \in Seq(Runs) /\ Len(run') = Len(run) /\ DOMAIN run' = DOMAIN run
    BY <1>1, Members DEF Typed
  <1>3. run'[i] = r /\ \A j \in DOMAIN run \ {i} : run'[j] = run[j]
    BY <1>1, <1>2
  <1>4. Live' = IF r.at \in {"done", "dead"} THEN {} ELSE {i}
    BY <1>1, <1>2, <1>3 DEF Live
  <1>5. unlocking = 0
    BY <1>1 DEF OneRun, Live
  <1> QED
    BY <1>1, <1>2, <1>3, <1>4, <1>5

\* A run that goes on is one that becomes another.
LEMMA RunMoves ==
  ASSUME Typed, OneRun, NEW i \in Live, NEW at \in Stops, Moves(i, at)
  PROVE  \E r \in Runs : /\ run' = [run EXCEPT ![i] = r]
                         /\ r = [run[i] EXCEPT !.at = at, !.reply = FALSE]
  <1>1. i \in DOMAIN run /\ run[i] \in Runs
    BY Members DEF Live
  <1> QED
    BY <1>1 DEF Moves, Runs

\* So is one that saves the journal it then knows.
LEMMA RunSaves ==
  ASSUME Typed, OneRun, NEW i \in Live, NEW j \in Journals, NEW at \in Stops, Saves(i, j, at)
  PROVE  \E r \in Runs : /\ run' = [run EXCEPT ![i] = r] /\ journal' = j
                         /\ r = [run[i] EXCEPT !.at = at, !.mem = j, !.reply = FALSE]
  <1>1. i \in DOMAIN run /\ run[i] \in Runs
    BY Members DEF Live
  <1> QED
    BY <1>1 DEF Saves, Runs

\* What is left of a run that ended or was killed.
LEMMA EndedRun == Ended \in Runs /\ [Ended EXCEPT !.at = "dead"] \in Runs
  BY DEF Ended, Runs, Stops, NoJournal, New, Journals, Modes

-----------------------------------------------------------------------------
(* The steps of a script.                                                   *)

\* A step of a script leaves the clocks and the server alone: it keeps the
\* invariant when the journal keeps up with what is sent, and the run with it.
LEMMA ScriptKeeps ==
  ASSUME IInv, NEW i \in Live, NEW r \in Runs, run' = [run EXCEPT ![i] = r],
         UNCHANGED <<clocks, unlocking, server, proof>>,
         lock' \in [by : Nat, named : BOOLEAN],
         lock'.by = IF r.at = "done" THEN 0 ELSE lock.by,
         recovery' \in BOOLEAN, candidate' \in BOOLEAN,
         candidate' /\ ~candidate => gateway.payment = "consumed" /\ gateway.receipt = "anchored",
         journal' \in Journals, posted' \in [auths : SUBSET Nat, first : Nat, paid : Nat],
         posted.auths \subseteq posted'.auths,
         \A m \in wire' \ wire : m.by = i /\ (m.kind = "settle" => m.auth \in posted'.auths),
         posted'.paid > posted'.first /\ ~(posted.paid > posted.first) => gateway.receipt # "none",
         Story', r.at \notin {"done", "dead"} => Knows(r)',
         journal'.phase = "aborted-unspent" => Unspendable'
  PROVE  IInv'
  <1> USE DEF IInv, clocks, server
  <1>1. /\ run' \in Seq(Runs) /\ Len(run') = Len(run) /\ i \in DOMAIN run /\ i = lock.by
        /\ run'[i] = r /\ \A j \in DOMAIN run \ {i} : run'[j] = run[j]
        /\ Live' = IF r.at \in {"done", "dead"} THEN {} ELSE {i}
        /\ unlocking = 0
    BY RunBecomes
  <1>2. Typed'
    BY <1>1 DEF Typed
  <1>3. OneRun'
    BY <1>1, Members DEF OneRun
  <1>4. Informed'
    BY <1>1 DEF Informed
  <1>5. Asked'
    BY <1>1, Members DEF Asked
  <1>6. ProofStands'
    BY DEF ProofStands
  <1> QED
    BY <1>2, <1>3, <1>4, <1>5, <1>6

\* The stops of a run that has read the journal and has decided nothing final.
Going == Stops \ {"load", "recorded", "done", "dead"}

\* A step that only moves a run.
LEMMA MovesKeep ==
  ASSUME IInv, NEW i \in Live, NEW at \in Going, Moves(i, at), run[i].at # "load",
         UNCHANGED <<clocks, files, guards, wire, server, proof, posted>>,
         Awaits(at, journal.phase)
  PROVE  IInv'
  <1> USE DEF IInv, files, guards, Going
  <1>1. PICK r \in Runs : /\ run' = [run EXCEPT ![i] = r]
                          /\ r = [run[i] EXCEPT !.at = at, !.reply = FALSE]
    BY RunMoves
  <1>2. run[i] \in Runs /\ Knows(run[i])
    BY Members DEF Live, Informed
  <1>3. r.at = at /\ r.mem = journal /\ journal.phase \notin {"none", "aborted-unspent"}
    BY <1>1, <1>2 DEF Runs, Knows, Awaits
  <1>4. Knows(r)'
    BY <1>3 DEF Knows, Awaits
  <1>5. Story'
    BY DEF Story
  <1>6. r.at \notin {"done", "dead"} /\ journal'.phase # "aborted-unspent"
    BY <1>3
  <1> QED
    BY <1>1, <1>3, <1>4, <1>5, <1>6, ScriptKeeps DEF Typed

\* A step that replaces the journal, and may send what the journal says it begins.
LEMMA SavesKeep ==
  ASSUME IInv, NEW i \in Live, NEW at \in Going, NEW j \in Journals, Saves(i, j, at),
         UNCHANGED <<clocks, recovery, candidate, unlocking, server, proof>>,
         lock' \in [by : Nat, named : BOOLEAN], lock'.by = lock.by,
         j.phase \notin {"none", "aborted-unspent"}, Awaits(at, j.phase),
         posted' \in [auths : SUBSET Nat, first : Nat, paid : Nat],
         posted.auths \subseteq posted'.auths,
         \A m \in wire' \ wire : m.by = i /\ (m.kind = "settle" => m.auth \in posted'.auths),
         posted'.paid > posted'.first /\ ~(posted.paid > posted.first) => gateway.receipt # "none",
         Story'
  PROVE  IInv'
  <1> USE DEF IInv, Going
  <1>1. PICK r \in Runs : /\ run' = [run EXCEPT ![i] = r] /\ journal' = j
                          /\ r = [run[i] EXCEPT !.at = at, !.mem = j, !.reply = FALSE]
    BY RunSaves
  <1>2. run[i] \in Runs
    BY Members DEF Live
  <1>3. r.at = at /\ r.mem = j
    BY <1>1, <1>2 DEF Runs
  <1>4. Knows(r)'
    BY <1>1, <1>3 DEF Knows, Awaits
  <1>5. r.at \notin {"done", "dead"} /\ journal'.phase # "aborted-unspent"
    BY <1>1, <1>3
  <1> QED
    BY <1>1, <1>3, <1>4, <1>5, ScriptKeeps DEF Typed

\* The run ends and unlinks the lock.
LEMMA EndsKeep ==
  ASSUME IInv, NEW i \in Live, Ends(i),
         UNCHANGED <<clocks, recovery, unlocking, wire, server, proof, posted>>,
         candidate' \in BOOLEAN,
         candidate' /\ ~candidate => gateway.payment = "consumed" /\ gateway.receipt = "anchored",
         journal' \in Journals, Story', journal'.phase = "aborted-unspent" => Unspendable
  PROVE  IInv'
  <1> USE DEF IInv
  <1>1. Ended \in Runs /\ Ended.at = "done"
    BY EndedRun DEF Ended
  <1>2. lock' \in [by : Nat, named : BOOLEAN] /\ lock'.by = 0
    BY DEF Ends, Unlocked
  <1>3. journal'.phase = "aborted-unspent" => Unspendable'
    BY DEF Unspendable, clocks, server
  <1>4. wire' = wire /\ posted' = posted
    OBVIOUS
  <1>5. run' = [run EXCEPT ![i] = Ended]
    BY DEF Ends
  <1> QED
    BY <1>1, <1>2, <1>3, <1>4, <1>5, ScriptKeeps DEF Typed

\* A run that fails leaves the files as they are.
LEMMA FailKeeps ==
  ASSUME IInv, NEW i \in Live, Fail(i)
  PROVE  IInv'
  <1>1. journal' \in Journals /\ Story' /\ (journal'.phase = "aborted-unspent" => Unspendable)
    BY DEF Fail, files, IInv, Typed, Story, Informed
  <1> QED
    BY <1>1, EndsKeep DEF Fail, files, IInv, Typed

\* So does one that is killed, and it leaves the lock too.
LEMMA CrashKeeps ==
  ASSUME IInv, NEW i \in Live, Crash(i)
  PROVE  IInv'
  <1>1. run' = [run EXCEPT ![i] = [Ended EXCEPT !.at = "dead"]]
        /\ UNCHANGED <<clocks, files, guards, wire, server, proof, posted>>
    BY DEF Crash
  <1>2. [Ended EXCEPT !.at = "dead"] \in Runs /\ [Ended EXCEPT !.at = "dead"].at = "dead"
    BY EndedRun DEF Ended
  <1>3. journal' \in Journals /\ Story' /\ (journal'.phase = "aborted-unspent" => Unspendable')
    BY <1>1 DEF files, clocks, server, IInv, Typed, Story, Informed, Unspendable
  <1> QED
    BY <1>1, <1>2, <1>3, ScriptKeeps DEF IInv, Typed, files, guards

\* The pid is written; the journal is read, or an execution starts it.
LEMMA LoadKeeps ==
  ASSUME IInv, NEW i \in Live, Load(i)
  PROVE  IInv'
  <1> USE DEF IInv
  <1> DEFINE next == IF run[i].mode \in {"rearm", "archive"} THEN "review" ELSE "sign-in"
  <1>1. lock' \in [by : Nat, named : BOOLEAN] /\ lock'.by = lock.by
    BY DEF Load, Typed
  <1>2. run[i] \in Runs /\ next \in Going
    BY Members DEF Live, Going, Stops
  <1>3. CASE journal # NoJournal
    <2>0. PICK r : r = [run[i] EXCEPT !.at = next, !.mem = journal]
      OBVIOUS
    <2>1. run' = [run EXCEPT ![i] = r] /\ UNCHANGED journal
      BY <1>2, <1>3, <2>0 DEF Load
    <2>2. r \in Runs /\ r.at = next /\ r.mem = journal /\ journal \in Journals
      BY <1>2, <2>0 DEF Runs, Going, Typed
    <2>3. Story'
      BY <2>1 DEF Load, Story
    <2>4. journal.phase \notin {"none", "aborted-unspent"}
      BY <1>3 DEF Load, Story
    <2>5. Knows(r)'
      BY <1>2, <2>1, <2>2, <2>4 DEF Knows, Awaits
    <2>6. UNCHANGED <<clocks, recovery, candidate, unlocking, wire, server, proof, posted>>
      BY DEF Load
    <2>7. r.at \notin {"done", "dead"} /\ journal'.phase # "aborted-unspent"
      BY <1>2, <2>1, <2>2, <2>4 DEF Going
    <2> HIDE DEF next
    <2> QED
      BY <1>1, <2>1, <2>2, <2>3, <2>5, <2>6, <2>7, ScriptKeeps DEF Typed
  <1>4. CASE journal = NoJournal
    <2>1. Saves(i, New, next)
      BY <1>4 DEF Load
    <2>2. New \in Journals /\ New.phase = "new"
      BY DEF New, Journals, Phases
    <2>3. Story'
      BY <1>4, <2>1 DEF Load, Saves, Story, NoJournal, New, Late
    <2>4. Awaits(next, New.phase)
      BY DEF Awaits
    <2> HIDE DEF next
    <2> QED
      BY <1>1, <1>2, <2>1, <2>2, <2>3, <2>4, SavesKeep DEF Load, Typed
  <1> QED
    BY <1>3, <1>4

\* A run that is past its start knows the journal.
LEMMA Knowing ==
  ASSUME IInv, NEW i \in Live, run[i].at # "load"
  PROVE  /\ run[i].mem = journal /\ journal \in Journals
         /\ journal.phase \notin {"none", "aborted-unspent"} /\ Knows(run[i])
  BY DEF IInv, Informed, Knows, Awaits, Typed

\* A login changes nothing of the journal but its token.
LEMMA SignInKeeps ==
  ASSUME IInv, NEW i \in Live, SignIn(i)
  PROVE  IInv'
  <1>1. run[i].at = "sign-in"
    BY DEF SignIn
  <1>2. CASE run[i].mem.token > now
    <2>1. Moves(i, "go") /\ UNCHANGED <<clocks, files, guards, wire, server, proof, posted>>
      BY <1>2 DEF SignIn, files
    <2> QED
      BY <1>1, <2>1, MovesKeep DEF Awaits, Going, Stops
  <1>3. CASE ~(run[i].mem.token > now)
    <2> DEFINE j == [journal EXCEPT !.token = now + TokenTtl]
    <2>1. Saves(i, j, "go") /\ journal' = j
      BY <1>1, <1>3, Knowing DEF SignIn, Saves
    <2>2. j \in Journals /\ j.phase \notin {"none", "aborted-unspent"}
      <3>1. journal \in Journals /\ journal.phase \notin {"none", "aborted-unspent"}
        BY <1>1, Knowing
      <3>2. now + TokenTtl \in Nat
        BY AcceptanceAssumption DEF IInv, Typed
      <3> QED
        BY <3>1, <3>2 DEF Journals
    <2>3. Story'
      BY <1>1, <2>1, Knowing DEF SignIn, Story, IInv, Journals
    <2>4. UNCHANGED <<clocks, recovery, candidate, guards, wire, server, proof, posted>>
      BY DEF SignIn
    <2> HIDE DEF j
    <2> QED
      BY <2>1, <2>2, <2>3, <2>4, SavesKeep DEF Awaits, Going, Stops, IInv, Typed, guards
  <1> QED
    BY <1>2, <1>3

\* Steps that only look: before a request, before a proposal.
LEMMA CheckKeeps ==
  ASSUME IInv, NEW i \in Live, Check(i) \/ Prepare(i)
  PROVE  IInv'
  <1>1. run[i].at # "load" /\ UNCHANGED <<clocks, files, guards, wire, server, proof, posted>>
    BY DEF Check, Prepare, At
  <1>2. Moves(i, "verify") \/ Moves(i, "checked")
    BY DEF Check, Prepare
  <1> QED
    BY <1>1, <1>2, MovesKeep DEF Awaits, Going, Stops

\* A saved intention and its request.
LEMMA BeginKeeps ==
  ASSUME IInv, NEW i \in Live, OpenSession(i) \/ Ask(i) \/ Settle(i)
  PROVE  IInv'
  <1>1. run[i].at \in {"go", "checked"}
    BY DEF OpenSession, Ask, Settle, At
  <1>2. /\ run[i].mem = journal /\ journal \in Journals
        /\ journal.phase \notin {"none", "aborted-unspent"}
    BY <1>1, Knowing
  <1>3. UNCHANGED <<clocks, recovery, candidate, guards, server, proof>>
    BY DEF OpenSession, Ask, Settle
  <1>4. CASE OpenSession(i)
    <2> DEFINE j == [journal EXCEPT !.phase = "session-starting"]
    <2>1. /\ Saves(i, j, "opening") /\ journal' = j /\ journal.phase = "new" /\ posted' = posted
          /\ \A m \in wire' \ wire : m.by = i /\ m.kind = "session"
      BY <1>2, <1>4 DEF OpenSession, Begins, Saves, Post
    <2>2. j \in Journals /\ j.phase = "session-starting"
      BY <1>2 DEF Journals, Phases
    <2>3. Story'
      BY <1>2, <2>1 DEF Story, IInv, Journals, Late
    <2> HIDE DEF j
    <2> QED
      BY <1>3, <2>1, <2>2, <2>3, SavesKeep DEF Awaits, Going, Stops, IInv, Typed, guards
  <1>5. CASE Ask(i)
    <2> DEFINE j == [journal EXCEPT !.phase = "challenge-starting"]
    <2>1. /\ Saves(i, j, "asking") /\ journal' = j /\ journal.phase = "session" /\ posted' = posted
          /\ \A m \in wire' \ wire : m.by = i /\ m.kind = "challenge"
      BY <1>2, <1>5 DEF Ask, Begins, Saves, Post
    <2>2. j \in Journals /\ j.phase = "challenge-starting"
      BY <1>2 DEF Journals, Phases
    <2>3. Story'
      BY <1>2, <2>1 DEF Story, IInv, Journals, Late
    <2> HIDE DEF j
    <2> QED
      BY <1>3, <2>1, <2>2, <2>3, SavesKeep DEF Awaits, Going, Stops, IInv, Typed, guards
  <1>6. CASE Settle(i)
    <2> DEFINE auth == Signed(journal)
               j == [journal EXCEPT !.phase = "settlement-starting", !.auth = auth]
    <2>1. /\ Saves(i, j, "settling") /\ journal' = j /\ journal.phase = "challenge"
          /\ posted' = [posted EXCEPT !.auths = @ \cup {j.auth}]
          /\ \A m \in wire' \ wire : m.by = i /\ m.auth = j.auth
      BY <1>2, <1>6 DEF Settle, Begins, Saves, Post
    <2>2. auth \in Nat \ {0} /\ (journal.auth # 0 => auth = journal.auth)
      BY <1>2, <2>1, AcceptanceAssumption DEF Signed, IInv, Story, Typed, Journals
    <2>3. j \in Journals /\ j.phase = "settlement-starting" /\ j.auth = auth
      BY <1>2, <2>2 DEF Journals, Phases
    <2>4. /\ posted' \in [auths : SUBSET Nat, first : Nat, paid : Nat]
          /\ posted'.auths = posted.auths \cup {auth}
          /\ posted'.first = posted.first /\ posted'.paid = posted.paid
      BY <2>1, <2>2, <2>3 DEF IInv, Typed
    <2>5. Story'
      BY <1>2, <2>1, <2>2, <2>4 DEF Story, IInv, Journals, Late
    <2>6. /\ posted.auths \subseteq posted'.auths
          /\ \A m \in wire' \ wire : m.by = i /\ m.auth \in posted'.auths
          /\ ~(posted'.paid > posted'.first /\ ~(posted.paid > posted.first))
      BY <2>1, <2>3, <2>4
    <2>7. "settling" \in Going /\ Awaits("settling", j.phase)
      BY <2>3 DEF Awaits, Going, Stops
    <2> HIDE DEF j, auth
    <2>8. lock' \in [by : Nat, named : BOOLEAN] /\ lock'.by = lock.by
      BY <1>3 DEF IInv, Typed, guards
    <2> QED
      BY <1>3, <2>1, <2>3, <2>4, <2>5, <2>6, <2>7, <2>8, SavesKeep DEF guards
  <1> QED
    BY <1>4, <1>5, <1>6

\* An answer is saved, to the request the journal says was sent.
LEMMA AnswerKeeps ==
  ASSUME IInv, NEW i \in Live, SessionOpened(i) \/ Challenged(i) \/ Settled(i) \/ Completed(i)
  PROVE  IInv'
  <1>1. run[i].at \in {"opening", "asking", "settling", "completing"}
    BY DEF SessionOpened, Challenged, Settled, Completed, At
  <1>2. /\ run[i].mem = journal /\ journal \in Journals
        /\ journal.phase \notin {"none", "aborted-unspent"} /\ Knows(run[i])
    BY <1>1, Knowing
  <1>3. UNCHANGED <<clocks, recovery, candidate, guards, wire, server, proof, posted>>
    BY DEF SessionOpened, Challenged, Settled, Completed
  <1>4. ASSUME NEW j \in Journals, NEW at \in {"go", "checked", "verify"}, Saves(i, j, at), Story',
               j.phase \notin {"none", "aborted-unspent"}
        PROVE  IInv'
    BY <1>3, <1>4, SavesKeep DEF Awaits, Going, Stops, IInv, Typed, guards
  <1>5. CASE SessionOpened(i)
    <2> DEFINE j == [journal EXCEPT !.phase = "session", !.session = now + SessionTtl]
    <2>1. Saves(i, j, "go") /\ journal' = j /\ journal.phase = "session-starting"
      BY <1>2, <1>5 DEF SessionOpened, Saves, Knows, Awaits, At
    <2>2. now + SessionTtl \in Nat \ {0}
      BY AcceptanceAssumption DEF IInv, Typed
    <2>3. j \in Journals /\ j.phase = "session"
      BY <1>2, <2>2 DEF Journals, Phases
    <2>4. Story'
      BY <1>2, <1>3, <2>1, <2>2 DEF Story, IInv, Journals, Late
    <2> HIDE DEF j
    <2> QED
      BY <1>4, <2>1, <2>3, <2>4
  <1>6. CASE Challenged(i)
    <2> DEFINE j == [journal EXCEPT !.phase = "challenge", !.payment = TRUE]
    <2>1. Saves(i, j, "checked") /\ journal' = j /\ journal.phase = "challenge-starting"
      BY <1>2, <1>6 DEF Challenged, Saves, Knows, Awaits, At
    <2>2. j \in Journals /\ j.phase = "challenge"
      BY <1>2 DEF Journals, Phases
    <2>3. Story'
      BY <1>2, <1>3, <2>1 DEF Story, IInv, Journals, Late
    <2> HIDE DEF j
    <2> QED
      BY <1>4, <2>1, <2>2, <2>3
  <1>7. CASE Settled(i)
    <2> DEFINE j == [journal EXCEPT !.phase = "settled", !.settled = TRUE]
    <2>1. Saves(i, j, "checked") /\ journal' = j /\ journal.phase = "settlement-starting"
      BY <1>2, <1>7 DEF Settled, Saves, Knows, Awaits, At
    <2>2. j \in Journals /\ j.phase = "settled"
      BY <1>2 DEF Journals, Phases
    <2>3. Story'
      BY <1>2, <1>3, <2>1 DEF Story, IInv, Journals, Late
    <2> HIDE DEF j
    <2> QED
      BY <1>4, <2>1, <2>2, <2>3
  <1>8. CASE Completed(i)
    <2> DEFINE j == [journal EXCEPT !.phase = "response-received", !.result = TRUE]
    <2>1. Saves(i, j, "verify") /\ journal' = j /\ journal.phase = "completion-starting"
      BY <1>2, <1>8 DEF Completed, Saves, Knows, Awaits
    <2>2. j \in Journals /\ j.phase = "response-received"
      BY <1>2 DEF Journals, Phases
    <2>3. Story'
      BY <1>2, <1>3, <2>1 DEF Story, IInv, Journals, Late
    <2> HIDE DEF j
    <2> QED
      BY <1>4, <2>1, <2>2, <2>3
  <1> QED
    BY <1>5, <1>6, <1>7, <1>8

\* A completion, the first or a replay that the gateway has proved persisted.
LEMMA CompleteKeeps ==
  ASSUME IInv, NEW i \in Live, Complete(i) \/ RecoverCompleted(i)
  PROVE  IInv'
  <1>1. run[i].at \in {"go", "checked"}
    BY DEF Complete, RecoverCompleted, At
  <1>2. /\ run[i].mem = journal /\ journal \in Journals
        /\ journal.phase \notin {"none", "aborted-unspent"}
    BY <1>1, Knowing
  <1>0. /\ posted.first \in Nat /\ posted.paid \in Nat /\ journal.posts \in Nat
        /\ posted.first + 1 \in Nat /\ posted.paid + 1 \in Nat /\ journal.posts + 1 \in Nat
    BY <1>2 DEF IInv, Typed, Journals
  <1>3. ASSUME NEW j \in Journals, Saves(i, j, "completing"), j.phase = "completion-starting",
               j.posts = journal.posts + 1, j.auth = journal.auth, j.session = journal.session,
               \A m \in wire' \ wire : m.by = i /\ m.kind = "infer",
               UNCHANGED <<clocks, recovery, candidate, guards, server, proof>>,
               posted' \in [auths : SUBSET Nat, first : Nat, paid : Nat],
               posted'.auths = posted.auths, posted'.paid = posted.paid + 1,
               journal.session # 0,
               \/ posted'.first = posted.first + 1 /\ journal.posts = 0
               \/ posted'.first = posted.first /\ gateway.payment = "consumed"
        PROVE  IInv'
    <2>1. journal' = j
      BY <1>3 DEF Saves
    <2>2. posted'.first \in {0, 1} /\ posted'.first <= posted'.paid /\ journal'.posts = posted'.paid
      BY <1>0, <1>3, <2>1 DEF Story, IInv
    <2>3. Story'
      BY <1>0, <1>3, <2>1, <2>2 DEF Story, IInv, Late
    <2>4. posted'.paid > posted'.first /\ ~(posted.paid > posted.first) => gateway.receipt # "none"
      BY <1>0, <1>3 DEF IInv, Asked
    <2> QED
      BY <1>3, <2>3, <2>4, SavesKeep DEF Awaits, Going, Stops, IInv, Typed, guards
  <1>4. CASE Complete(i)
    <2> DEFINE j == [journal EXCEPT !.phase = "completion-starting", !.posts = @ + 1]
    <2>1. /\ Saves(i, j, "completing") /\ \A m \in wire' \ wire : m.by = i /\ m.kind = "infer"
          /\ journal.phase = "settled"
      BY <1>2, <1>4 DEF Complete, Begins, Saves, Post
    <2>2. /\ j \in Journals /\ j.phase = "completion-starting" /\ j.posts = journal.posts + 1
          /\ j.auth = journal.auth /\ j.session = journal.session
      BY <1>2, <1>0 DEF Journals, Phases
    <2>3. journal.session # 0 /\ journal.posts = 0
      BY <1>2, <2>1 DEF IInv, Story, Late, Journals
    <2>4. /\ UNCHANGED <<clocks, recovery, candidate, guards, server, proof>>
          /\ posted' = [posted EXCEPT !.first = @ + 1, !.paid = @ + 1]
      BY <1>4 DEF Complete
    <2>5. /\ posted' \in [auths : SUBSET Nat, first : Nat, paid : Nat]
          /\ posted'.auths = posted.auths /\ posted'.paid = posted.paid + 1
          /\ posted'.first = posted.first + 1
      BY <1>0, <2>4 DEF IInv, Typed
    <2> HIDE DEF j
    <2> QED
      BY <1>3, <2>1, <2>2, <2>3, <2>4, <2>5
  <1>5. CASE RecoverCompleted(i)
    <2> DEFINE j == [journal EXCEPT !.phase = "completion-starting", !.posts = @ + 1,
                                    !.expected = TRUE, !.settled = TRUE]
    <2>1. /\ Saves(i, j, "completing") /\ \A m \in wire' \ wire : m.by = i /\ m.kind = "infer"
          /\ journal.session > now /\ gateway.payment = "consumed"
      BY <1>2, <1>5 DEF RecoverCompleted, Begins, Saves, Post
    <2>2. /\ j \in Journals /\ j.phase = "completion-starting" /\ j.posts = journal.posts + 1
          /\ j.auth = journal.auth /\ j.session = journal.session
      BY <1>2, <1>0 DEF Journals, Phases
    <2>3. journal.session # 0
      BY <1>2, <2>1 DEF IInv, Typed, Journals
    <2>4. /\ UNCHANGED <<clocks, recovery, candidate, guards, server, proof>>
          /\ posted' = [posted EXCEPT !.paid = @ + 1]
      BY <1>5 DEF RecoverCompleted
    <2>5. /\ posted' \in [auths : SUBSET Nat, first : Nat, paid : Nat]
          /\ posted'.auths = posted.auths /\ posted'.paid = posted.paid + 1
          /\ posted'.first = posted.first
      BY <1>0, <2>4 DEF IInv, Typed
    <2> HIDE DEF j
    <2> QED
      BY <1>3, <2>1, <2>2, <2>3, <2>4, <2>5
  <1> QED
    BY <1>4, <1>5

\* The saved result is verified.
LEMMA VerifyKeeps ==
  ASSUME IInv, NEW i \in Live, Verify(i)
  PROVE  IInv'
  <1> DEFINE j == [journal EXCEPT !.phase = "completed"]
  <1>1. /\ run[i].mem = journal /\ journal \in Journals
        /\ journal.phase \notin {"none", "aborted-unspent"}
    BY Knowing DEF Verify
  <1>2. Saves(i, j, "owned") /\ journal' = j /\ journal.result
    BY <1>1 DEF Verify, Saves
  <1>3. j \in Journals /\ j.phase = "completed"
    BY <1>1 DEF Journals, Phases
  <1>4. UNCHANGED <<clocks, recovery, candidate, guards, wire, server, proof, posted>>
    BY DEF Verify
  <1>5. Story'
    BY <1>1, <1>2, <1>4 DEF Story, IInv, Journals, Late
  <1> HIDE DEF j
  <1> QED
    BY <1>2, <1>3, <1>4, <1>5, SavesKeep DEF Awaits, Going, Stops, IInv, Typed, guards

\* A proposal is made of a payment that is consumed and a receipt that is anchored.
LEMMA ProposeKeeps ==
  ASSUME IInv, NEW i \in Live, Propose(i)
  PROVE  IInv'
  <1>1. journal' \in Journals /\ Story' /\ (journal'.phase = "aborted-unspent" => Unspendable)
    BY DEF Propose, IInv, Typed, Story, Informed
  <1> QED
    BY <1>1, EndsKeep DEF Propose, IInv, Typed

\* The owner's records may tell of the settlement.
LEMMA RecoverKeeps ==
  ASSUME IInv, NEW i \in Live, Recover(i)
  PROVE  IInv'
  <1>1. /\ run[i].mem = journal /\ journal \in Journals
        /\ journal.phase \notin {"none", "aborted-unspent"}
    BY Knowing DEF Recover, At
  <1>2. \/ journal' = journal
        \/ /\ journal.phase = "settlement-starting"
           /\ journal' = [journal EXCEPT !.phase = "settled", !.settled = TRUE]
    BY <1>1 DEF Recover
  <1>3. journal' \in Journals /\ journal'.phase # "aborted-unspent"
    BY <1>1, <1>2 DEF Journals, Phases
  <1>4. Story'
    BY <1>1, <1>2 DEF Recover, Story, IInv, Journals, Late
  <1> QED
    BY <1>3, <1>4, EndsKeep DEF Recover, IInv, Typed

-----------------------------------------------------------------------------
(* The operator's decision.                                                 *)

\* The authorization of a settlement that is archived has expired in a block
\* the proof saw, before which it was not spent.
LEMMA RearmKeeps ==
  ASSUME IInv, NEW i \in Live, Rearm(i)
  PROVE  IInv'
  <1>1. /\ run[i].mem = journal /\ journal \in Journals
        /\ journal.phase \notin {"none", "aborted-unspent"}
    BY Knowing DEF Rearm
  <1>2. PICK r \in Runs : /\ run' = [run EXCEPT ![i] = r]
                          /\ r = [run[i] EXCEPT !.at = "recorded", !.reply = FALSE]
    BY RunMoves DEF Rearm, IInv, Stops
  <1>3. run[i] \in Runs
    BY Members DEF Live, IInv
  <1>4. r.at = "recorded" /\ r.mem = journal /\ r.mode = run[i].mode
    BY <1>1, <1>2, <1>3 DEF Runs
  <1>5. /\ UNCHANGED <<clocks, journal, candidate, guards, wire, server, proof, posted>>
        /\ recovery' = TRUE /\ journal.phase = "settlement-starting"
    BY <1>1 DEF Rearm
  <1>6. ASSUME r.mode = "archive" PROVE Unspendable
    <2>1. proof # NoProof /\ proof.journal = journal /\ journal.auth <= proof.block
      BY <1>1, <1>4, <1>6 DEF Rearm, Expired
    <2>2. ~debited /\ proof.block \in Nat /\ proof.block <= chainTime
      BY <2>1 DEF IInv, ProofStands
    <2>3. \A a \in posted.auths : a = journal.auth
      BY DEF IInv, Story
    <2> QED
      BY <1>1, <2>1, <2>2, <2>3 DEF Unspendable, IInv, Typed, Journals
  <1>7. Knows(r)'
    BY <1>4, <1>5, <1>6 DEF Knows, Awaits, Unspendable, clocks, server
  <1>8. Story' /\ journal'.phase # "aborted-unspent"
    BY <1>1, <1>5 DEF Story, IInv
  <1> QED
    BY <1>2, <1>4, <1>5, <1>7, <1>8, ScriptKeeps DEF IInv, Typed, guards

\* What was decided is recorded in the journal.
LEMMA SaveRearmedKeeps ==
  ASSUME IInv, NEW i \in Live, SaveRearmed(i)
  PROVE  IInv'
  <1>1. /\ run[i].at = "recorded" /\ journal \in Journals /\ Knows(run[i])
    BY Knowing DEF SaveRearmed
  <1>2. /\ journal.phase = "settlement-starting"
        /\ (run[i].mode = "archive" => Unspendable)
    BY <1>1 DEF Knows, Awaits
  <1>3. journal' = [journal EXCEPT !.phase = IF run[i].mode = "archive" THEN "aborted-unspent"
                                             ELSE "challenge"]
    BY DEF SaveRearmed
  <1>4. journal' \in Journals /\ (journal'.phase = "aborted-unspent" => Unspendable)
    BY <1>1, <1>2, <1>3 DEF Journals, Phases
  <1>5. Story'
    BY <1>1, <1>2, <1>3 DEF SaveRearmed, Story, IInv, Journals, Late
  <1> QED
    BY <1>4, <1>5, EndsKeep DEF SaveRearmed, IInv, Typed

\* Whatever a script does keeps the invariant.
LEMMA ScriptKeepsAll ==
  ASSUME IInv, NEW i \in Live, Script(i)
  PROVE  IInv'
  BY LoadKeeps, SignInKeeps, FailKeeps, CrashKeeps, BeginKeeps, AnswerKeeps, CheckKeeps,
     CompleteKeeps, RecoverKeeps, VerifyKeeps, ProposeKeeps, RearmKeeps, SaveRearmedKeeps
  DEF Script

-----------------------------------------------------------------------------
(* The operator, the gateway, the chain and the clock.                      *)

\* A run starts when nobody has the lock, and alone.
LEMMA StartKeeps ==
  ASSUME IInv, NEW mode \in Modes, Start(mode)
  PROVE  IInv'
  <1> USE DEF IInv
  <1> DEFINE r == [mode |-> mode, at |-> "load", mem |-> NoJournal, reply |-> FALSE]
             n == Len(run) + 1
  <1>1. r \in Runs
    BY EndedRun DEF Ended, Runs, Stops
  <1>2. /\ run' = Append(run, r) /\ lock = Unlocked /\ lock' = [by |-> n, named |-> FALSE]
        /\ UNCHANGED <<clocks, files, unlocking, wire, server, proof, posted>>
    BY DEF Start
  <1>3. /\ run' \in Seq(Runs) /\ Len(run') = n /\ run'[n] = r /\ DOMAIN run' = 1..n
        /\ \A k \in DOMAIN run : run'[k] = run[k]
    BY <1>1, <1>2, Members DEF Typed
  <1>4. Live = {} /\ unlocking = 0
    BY <1>2, Members DEF OneRun, Live, Unlocked
  <1>5. Live' = {n}
    BY <1>3, <1>4, Members DEF Live
  <1>6. Typed' /\ OneRun'
    BY <1>2, <1>3, <1>4, <1>5, Members DEF Typed, OneRun, clocks, files, server
  <1>7. Knows(r)'
    BY DEF Knows, Awaits
  <1>8. Informed'
    BY <1>2, <1>3, <1>5, <1>7 DEF Informed, files, clocks, server, Unspendable, Knows, Awaits
  <1>9. Story' /\ Asked' /\ ProofStands'
    BY <1>2 DEF Story, Asked, ProofStands, files, clocks, server
  <1> QED
    BY <1>6, <1>8, <1>9

\* The lock of a dead run is removed.
LEMMA UnlockKeeps ==
  ASSUME IInv, UnlockSees \/ UnlockRemoves
  PROVE  IInv'
  <1> USE DEF IInv
  <1>1. UNCHANGED <<clocks, files, run, wire, server, proof, posted>>
    BY DEF UnlockSees, UnlockRemoves
  <1>2. Typed'
    <2>1. lock \in [by : Nat, named : BOOLEAN] /\ lock.by \in Nat
      BY DEF Typed
    <2>2. lock' \in [by : Nat, named : BOOLEAN] /\ unlocking' \in Nat
      <3>1. CASE UnlockSees
        BY <2>1, <3>1 DEF UnlockSees
      <3>2. CASE UnlockRemoves
        BY <3>2 DEF UnlockRemoves, Unlocked
      <3> QED
        BY <3>1, <3>2
    <2> QED
      BY <1>1, <2>2 DEF Typed, clocks, files, server
  <1>3. OneRun'
    BY <1>1, Members DEF UnlockSees, UnlockRemoves, Unlocked, OneRun, Live, Typed
  <1>4. Informed'
    BY <1>1 DEF Informed, files, clocks, server, Unspendable, Knows, Awaits, Live
  <1>5. Story' /\ Asked' /\ ProofStands'
    BY <1>1 DEF Story, Asked, ProofStands, files, clocks, server
  <1> QED
    BY <1>2, <1>3, <1>4, <1>5

\* The proof is about the one authorization that was sent.
LEMMA ReviewKeeps ==
  ASSUME IInv, Review
  PROVE  IInv'
  <1> USE DEF IInv
  <1>1. UNCHANGED <<clocks, files, guards, run, wire, server, posted>>
    BY DEF Review
  <1>2. Typed' /\ OneRun'
    BY <1>1 DEF Typed, OneRun, Live, clocks, files, guards, server
  <1>3. Informed'
    BY <1>1 DEF Informed, files, clocks, server, Unspendable, Knows, Awaits, Live
  <1>4. Story' /\ Asked'
    BY <1>1 DEF Story, Asked, files, server
  <1>5. ProofStands'
    <2>1. proof'.journal = journal /\ proof'.block = chainTime /\ ~debited
          /\ journal.phase = "settlement-starting"
      BY DEF Review
    <2> QED
      BY <1>1, <2>1 DEF ProofStands, Story, Typed, clocks, server
  <1> QED
    BY <1>2, <1>3, <1>4, <1>5

\* An answer may reach its run: nothing else of the run changes.
LEMMA AnswersKeep ==
  ASSUME IInv, NEW i, Answers(i) \/ UNCHANGED run,
         UNCHANGED <<clocks, files, guards, proof, posted>>,
         wire' \subseteq wire,
         gateway' \in [payment : {"none", "open", "settling", "settled", "consumed", "failed"},
                       auth : Nat, caller : Nat, receipt : {"none", "pending", "anchored"}],
         debited' = debited, Asked'
  PROVE  IInv'
  <1> USE DEF IInv, clocks, files, guards
  <1>1. UNCHANGED run \/ (i \in Live /\ run' = [run EXCEPT ![i].reply = TRUE])
    BY DEF Answers
  <1>2. Unspendable' <=> Unspendable
    BY DEF Unspendable
  <1>3. Story' /\ ProofStands'
    BY DEF Story, ProofStands
  <1>4. CASE UNCHANGED run
    <2>1. Typed' /\ OneRun' /\ Informed'
      BY <1>2, <1>4 DEF Typed, OneRun, Informed, Knows, Awaits, Live
    <2> QED
      BY <1>3, <2>1
  <1>5. CASE i \in Live /\ run' = [run EXCEPT ![i].reply = TRUE]
    <2>0. run[i] \in Runs /\ i \in DOMAIN run
      BY <1>5, Members DEF Live
    <2>1. PICK r \in Runs : run' = [run EXCEPT ![i] = r] /\ r = [run[i] EXCEPT !.reply = TRUE]
      BY <1>5, <2>0 DEF Runs
    <2>2. r.at = run[i].at /\ r.mem = run[i].mem /\ r.mode = run[i].mode
      BY <2>0, <2>1 DEF Runs
    <2>3. r.at \notin {"done", "dead"}
      BY <1>5, <2>2 DEF Live
    <2>4. Knows(r)'
      BY <1>2, <1>5, <2>2 DEF Informed, Knows, Awaits
    <2>5. /\ run' \in Seq(Runs) /\ Len(run') = Len(run) /\ i = lock.by
          /\ run'[i] = r /\ Live' = {i} /\ unlocking = 0
      BY <1>5, <2>1, <2>3, RunBecomes
    <2>6. Typed' /\ OneRun' /\ Informed'
      BY <1>2, <2>4, <2>5 DEF Typed, OneRun, Informed
    <2> QED
      BY <1>3, <2>6
  <1> QED
    BY <1>1, <1>4, <1>5

\* The handlers of the gateway.
LEMMA HandleKeeps ==
  ASSUME IInv, NEW m \in wire, Handle(m)
  PROVE  IInv'
  <1> USE DEF IInv, server
  <1>1. CASE HandleSession(m)
    <2>1. Asked'
      BY <1>1 DEF HandleSession, Handled, Asked, files
    <2> QED
      BY <1>1, <2>1, AnswersKeep DEF HandleSession, Handled, Typed
  <1>2. CASE HandleChallenge(m)
    <2>1. Asked'
      BY <1>2 DEF HandleChallenge, Handled, Asked, files, Typed
    <2> QED
      BY <1>2, <2>1, AnswersKeep DEF HandleChallenge, Handled, Typed
  <1>3. CASE HandleSettle(m)
    <2>1. Asked'
      BY <1>3 DEF HandleSettle, Handled, Asked, files, Typed
    <2>2. gateway' \in [payment : {"none", "open", "settling", "settled", "consumed", "failed"},
                        auth : Nat, caller : Nat, receipt : {"none", "pending", "anchored"}]
      BY <1>3 DEF HandleSettle, Asked, Story, Typed
    <2> QED
      BY <1>3, <2>1, <2>2, AnswersKeep DEF HandleSettle, Handled
  <1>4. CASE HandleInfer(m)
    <2>1. Asked'
      BY <1>4 DEF HandleInfer, Handled, Asked, files, Typed
    <2> QED
      BY <1>4, <2>1, AnswersKeep DEF HandleInfer, Handled, Typed
  <1> QED
    BY <1>1, <1>2, <1>3, <1>4 DEF Handle

\* The chain settles or reverts, the gateway records, the worker anchors.
LEMMA RecordKeeps ==
  ASSUME IInv, Revert \/ RecordSettled \/ Anchor
  PROVE  IInv'
  <1> USE DEF IInv, server
  <1>1. Asked'
    BY DEF Revert, RecordSettled, Anchor, Asked, files, Typed
  <1>2. gateway' \in [payment : {"none", "open", "settling", "settled", "consumed", "failed"},
                      auth : Nat, caller : Nat, receipt : {"none", "pending", "anchored"}]
    BY DEF Revert, RecordSettled, Anchor, Typed
  <1>3. /\ Answers(gateway.caller) \/ UNCHANGED run
        /\ UNCHANGED <<clocks, files, guards, proof, posted, wire, debited>>
    BY DEF Revert, RecordSettled, Anchor
  <1> QED
    BY <1>1, <1>2, <1>3, AnswersKeep

\* A debit needs an authorization that has not ended in the chain's time: what
\* is unspendable stays so.
LEMMA DebitKeeps ==
  ASSUME IInv, Debit
  PROVE  IInv'
  <1> USE DEF IInv
  <1>1. /\ UNCHANGED <<clocks, files, guards, run, wire, gateway, proof, posted>>
        /\ debited' = TRUE /\ gateway.payment = "settling" /\ chainTime < gateway.auth
    BY DEF Debit
  <1>2. gateway.auth \in posted.auths /\ gateway.auth \in Nat /\ chainTime \in Nat
    BY <1>1 DEF Asked, Typed
  <1>3. ~Unspendable
    BY <1>1, <1>2 DEF Unspendable
  <1>4. Typed' /\ OneRun'
    BY <1>1 DEF Typed, OneRun, Live, clocks, files, guards
  <1>5. Informed'
    BY <1>1, <1>3 DEF Informed, files, Knows, Awaits, Live
  <1>6. Story' /\ Asked'
    BY <1>1 DEF Story, Asked, files
  <1>7. ProofStands'
    <2>1. proof # NoProof => proof.journal.auth = gateway.auth
      BY <1>2 DEF ProofStands, Story
    <2> QED
      BY <1>1, <1>2, <2>1 DEF ProofStands, clocks
  <1> QED
    BY <1>4, <1>5, <1>6, <1>7

\* Time only makes authorizations expire.
LEMMA TickKeeps ==
  ASSUME IInv, Tick
  PROVE  IInv'
  <1> USE DEF IInv
  <1>1. /\ UNCHANGED <<files, guards, run, wire, server, proof, posted>>
        /\ now' \in 1..MaxTime /\ chainTime' \in Nat \ {0} /\ chainTime' <= now'
        /\ chainTime <= chainTime' /\ chainTime \in Nat
    BY AcceptanceAssumption DEF Tick, Typed
  <1>2. Typed' /\ OneRun'
    BY <1>1 DEF Typed, OneRun, Live, files, guards, server
  <1>3. Unspendable => Unspendable'
    BY <1>1 DEF Unspendable, Typed, server
  <1>4. Informed'
    BY <1>1, <1>3 DEF Informed, files, Knows, Awaits, Live
  <1>5. Story' /\ Asked'
    BY <1>1 DEF Story, Asked, files, server
  <1>6. ProofStands'
    BY <1>1 DEF ProofStands, server
  <1> QED
    BY <1>2, <1>4, <1>5, <1>6

\* Nothing was sent before the first run.
LEMMA InitIInv == Init => IInv
  <1> SUFFICES ASSUME Init PROVE IInv
    OBVIOUS
  <1> USE DEF Init
  <1>1. NoJournal \in Journals /\ NoJournal.phase = "none" /\ NoJournal.auth = 0
        /\ NoJournal.posts = 0 /\ NoJournal.result = FALSE
    BY DEF NoJournal, New, Journals, Phases
  <1>2. run = <<>> /\ Live = {} /\ run \in Seq(Runs) /\ Len(run) = 0
    BY DEF Live
  <1>3. Typed
    <2>1. lock \in [by : Nat, named : BOOLEAN] /\ posted \in [auths : SUBSET Nat, first : Nat, paid : Nat]
      BY DEF Unlocked
    <2>2. gateway \in [payment : {"none", "open", "settling", "settled", "consumed", "failed"},
                       auth : Nat, caller : Nat, receipt : {"none", "pending", "anchored"}]
      OBVIOUS
    <2>3. now \in 1..MaxTime /\ chainTime \in Nat \ {0} /\ chainTime <= now /\ unlocking \in Nat
      BY AcceptanceAssumption
    <2> QED
      BY <1>1, <1>2, <2>1, <2>2, <2>3 DEF Typed
  <1>4. OneRun /\ Story /\ Informed /\ Asked /\ ProofStands
    BY <1>1, <1>2 DEF OneRun, Story, Informed, Asked, ProofStands, Unlocked, Late
  <1> QED
    BY <1>3, <1>4 DEF IInv

\* Every step keeps the invariant.
LEMMA NextIInv == IInv /\ [Next]_vars => IInv'
  <1> SUFFICES ASSUME IInv, [Next]_vars PROVE IInv'
    OBVIOUS
  <1>1. CASE UNCHANGED vars
    <2>1. Typed' /\ OneRun' /\ Informed'
      BY <1>1 DEF vars, clocks, files, guards, server, IInv, Typed, OneRun, Live, Informed,
                  Knows, Awaits, Unspendable
    <2>2. Story' /\ Asked' /\ ProofStands'
      BY <1>1 DEF vars, clocks, files, guards, server, IInv, Story, Asked, ProofStands
    <2> QED
      BY <2>1, <2>2 DEF IInv
  <1>2. CASE Next
    BY <1>2, ScriptKeepsAll, StartKeeps, UnlockKeeps, ReviewKeeps, HandleKeeps, DebitKeeps,
       RecordKeeps, TickKeeps DEF Next, Operator
  <1> QED
    BY <1>1, <1>2

-----------------------------------------------------------------------------
(* The theorems.                                                            *)

\* The invariant holds in every reachable state of the acceptance.
THEOREM Invariance == Spec => []IInv
  <1> QED
    BY InitIInv, NextIInv, PTL DEF Spec

\* The clocks, the files, the lock and the gateway keep their types.
THEOREM TypeCorrect == Spec => []TypeOK
  <1>1. IInv => TypeOK
    <2> SUFFICES ASSUME IInv PROVE TypeOK
      OBVIOUS
    <2>1. unlocking \in 0..Len(run)
      BY DEF IInv, OneRun, Typed
    <2> QED
      BY <2>1, AcceptanceAssumption DEF IInv, OneRun, Typed, Journals, TypeOK
  <1> QED
    BY <1>1, Invariance, PTL

\* rearm-near-arc-settlement.ts, accept-near-arc.ts: a journal archived as
\* unspent never becomes spent, whatever is still on its way; a candidate is only
\* proposed of a payment debited and consumed, with its receipt anchored.
THEOREM EvidenceStaysTrue == Spec => []EvidenceTrue
  <1>1. IInv => EvidenceTrue
    BY DEF IInv, Informed, Unspendable, Asked, EvidenceTrue
  <1> QED
    BY <1>1, Invariance, PTL

\* accept-near-arc.ts: one authorization and one paid completion are sent, whatever
\* fails, dies, is rearmed or repeated; a second one only once the gateway has
\* persisted the answer.
THEOREM OneAttemptSent == Spec => []OneAttempt
  <1>1. IInv => OneAttempt
    BY DEF IInv, Story, Asked, OneAttempt
  <1> QED
    BY <1>1, Invariance, PTL

\* accept-near-arc.ts: nothing reaches the wire that the journal does not tell of.
THEOREM JournalKnowsFirst == Spec => []JournalFirst
  <1>1. IInv => JournalFirst
    BY DEF IInv, Typed, Journals, Story, JournalFirst
  <1> QED
    BY <1>1, Invariance, PTL
=============================================================================
