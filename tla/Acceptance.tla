----------------------------- MODULE Acceptance -----------------------------
(***************************************************************************)
(* The release acceptance (accept-near-arc.ts, rearm-near-arc-settlement): *)
(* a script, run by hand and rerun after failures, buys one inference and  *)
(* prepares the evidence of it. A private journal is replaced before and   *)
(* after each request and a lock file guards it; requests and answers may  *)
(* be late or lost, the script may die anywhere. An operator may rearm or  *)
(* archive a settlement proven unspent. The gateway is what its handlers   *)
(* do to the one session, payment and receipt of the plan.                 *)
(*                                                                         *)
(* Time is counted in ticks of more than the 60 seconds a proof is good    *)
(* for; the chain's blocks carry an earlier time than the script's clock.  *)
(***************************************************************************)
EXTENDS Integers, Sequences

CONSTANTS
  TokenTtl,    \* lifetime of a wallet login, in ticks
  SessionTtl,  \* lifetime of an inference session
  AuthTtl,     \* lifetime of a payment authorization
  MaxTime,     \* bound on the clock
  MaxRuns,     \* bound on runs of the scripts
  MaxCrashes   \* bound on runs that are killed

ASSUME AcceptanceAssumption ==
  /\ TokenTtl \in Nat \ {0} /\ SessionTtl \in Nat \ {0} /\ AuthTtl \in Nat \ {0}
  /\ MaxTime \in Nat \ {0} /\ MaxRuns \in Nat /\ MaxCrashes \in Nat

VARIABLES
  now, chainTime,  \* the clock, and the time of the latest block
  journal,         \* state.json
  recovery,        \* settlement-recovery.json exists
  candidate,       \* release-manifest.candidate.json exists
  lock,            \* state.json.lock: the run that made it, its pid written or not
  unlocking,       \* the dead run whose lock unlock-stale is about to remove
  run,             \* the runs so far
  wire,            \* POSTs not yet answered
  gateway,         \* the payment, its receipt and the request being settled
  debited,         \* whether the payer was debited
  proof,           \* the operator's no-spend proof
  posted           \* (history) authorizations and paid completions sent

files == <<journal, recovery, candidate>>
guards == <<lock, unlocking>>
server == <<gateway, debited>>
clocks == <<now, chainTime>>
vars == <<clocks, files, guards, run, wire, server, proof, posted>>

Phases == {"new", "session-starting", "session", "challenge-starting", "challenge",
           "settlement-starting", "settled", "completion-starting", "response-received",
           "completed", "aborted-unspent"}

\* Times are absolute; 0 is a field the journal does not have yet.
New == [phase |-> "new", token |-> 0, session |-> 0, payment |-> FALSE, auth |-> 0,
        settled |-> FALSE, expected |-> FALSE, result |-> FALSE, posts |-> 0]
NoJournal == [New EXCEPT !.phase = "none"]

Unlocked == [by |-> 0, named |-> FALSE]
NoProof == [at |-> 0, block |-> 0, journal |-> NoJournal]

Modes == {"execute", "recover", "recover-completed", "prepare-manifest", "rearm", "archive"}
Live == {i \in DOMAIN run : run[i].at \notin {"done", "dead"}}

Init ==
  /\ now = 1 /\ chainTime = 1
  /\ journal = NoJournal /\ recovery = FALSE /\ candidate = FALSE
  /\ lock = Unlocked /\ unlocking = 0 /\ run = <<>> /\ wire = {}
  /\ gateway = [payment |-> "none", auth |-> 0, caller |-> 0, receipt |-> "none"]
  /\ debited = FALSE /\ proof = NoProof
  /\ posted = [auths |-> {}, first |-> 0, paid |-> 0]

-----------------------------------------------------------------------------
(* A run of a script.                                                       *)

At(i, mode, at) == i \in Live /\ run[i].mode = mode /\ run[i].at = at
Moves(i, at) == run' = [run EXCEPT ![i].at = at, ![i].reply = FALSE]
Ended == [mode |-> "none", at |-> "done", mem |-> NoJournal, reply |-> FALSE]

\* The journal's file is replaced at once.
Saves(i, j, at) ==
  /\ journal' = j
  /\ run' = [run EXCEPT ![i].at = at, ![i].mem = j, ![i].reply = FALSE]

\* The run ends, for whatever reason, and unlinks the lock.
Ends(i) == run' = [run EXCEPT ![i] = Ended] /\ lock' = Unlocked

\* main: only the run that creates the lock file goes on.
Start(mode) ==
  /\ Len(run) < MaxRuns /\ lock = Unlocked
  /\ lock' = [by |-> Len(run) + 1, named |-> FALSE]
  /\ run' = Append(run, [mode |-> mode, at |-> "load", mem |-> NoJournal, reply |-> FALSE])
  /\ UNCHANGED <<clocks, files, unlocking, wire, server, proof, posted>>

\* The pid is written and the journal read; an execution without one starts it.
Load(i) ==
  /\ i \in Live /\ run[i].at = "load"
  /\ journal.phase # "aborted-unspent"
  /\ lock' = IF lock.by = i THEN [lock EXCEPT !.named = TRUE] ELSE lock
  /\ LET next == IF run[i].mode \in {"rearm", "archive"} THEN "review" ELSE "sign-in" IN
     IF journal # NoJournal
     THEN run' = [run EXCEPT ![i].at = next, ![i].mem = journal] /\ UNCHANGED journal
     ELSE run[i].mode = "execute" /\ Saves(i, New, next)
  /\ UNCHANGED <<clocks, recovery, candidate, unlocking, wire, server, proof, posted>>

\* authenticateWallet: only an execution may log in anew.
SignIn(i) ==
  /\ i \in Live /\ run[i].at = "sign-in"
  /\ IF run[i].mem.token > now THEN Moves(i, "go") /\ UNCHANGED journal
     ELSE /\ run[i].mode \in {"execute", "recover-completed"}
          /\ Saves(i, [run[i].mem EXCEPT !.token = now + TokenTtl], "go")
  /\ UNCHANGED <<clocks, recovery, candidate, guards, wire, server, proof, posted>>

\* Any request, check or file operation may fail: the run says so and ends.
Fail(i) ==
  /\ i \in Live /\ Ends(i)
  /\ UNCHANGED <<clocks, files, unlocking, wire, server, proof, posted>>

\* Killed: the lock stays.
Crash(i) ==
  /\ i \in Live /\ Len(SelectSeq(run, LAMBDA r : r.at = "dead")) < MaxCrashes
  /\ run' = [run EXCEPT ![i] = [Ended EXCEPT !.at = "dead"]]
  /\ UNCHANGED <<clocks, files, guards, wire, server, proof, posted>>

\* unlockStaleAcceptanceLock, by one operator at a time: the pid in the lock is
\* absent and the lock has not changed,
UnlockSees ==
  /\ unlocking = 0 /\ lock.named /\ run[lock.by].at = "dead"
  /\ unlocking' = lock.by
  /\ UNCHANGED <<clocks, files, lock, run, wire, server, proof, posted>>

\* and the file is removed.
UnlockRemoves ==
  /\ unlocking # 0 /\ unlocking' = 0 /\ lock' = Unlocked
  /\ UNCHANGED <<clocks, files, run, wire, server, proof, posted>>

-----------------------------------------------------------------------------
(* runNearArcAcceptance: execute.                                           *)

Post(i, kind, auth) == wire' = wire \cup {[by |-> i, kind |-> kind, auth |-> auth]}

\* The intention is saved, then the request sent; what is not sent is lost.
Begins(i, j, kind, at) == Saves(i, j, at) /\ Post(i, kind, j.auth)

OpenSession(i) ==
  /\ At(i, "execute", "go") /\ run[i].mem.phase = "new"
  /\ Begins(i, [run[i].mem EXCEPT !.phase = "session-starting"], "session", "opening")
  /\ UNCHANGED <<clocks, recovery, candidate, guards, server, proof, posted>>

SessionOpened(i) ==
  /\ At(i, "execute", "opening") /\ run[i].reply
  /\ Saves(i, [run[i].mem EXCEPT !.phase = "session", !.session = now + SessionTtl], "go")
  /\ UNCHANGED <<clocks, recovery, candidate, guards, wire, server, proof, posted>>

\* A phase whose request may have been made is never repeated; before a new
\* request the session must still be open.
Check(i) ==
  /\ At(i, "execute", "go")
  /\ run[i].mem.phase \notin {"new", "session-starting", "challenge-starting",
                              "settlement-starting", "completion-starting"}
  /\ run[i].mem.phase \in {"session", "challenge", "settled"} => run[i].mem.session > now
  /\ Moves(i, IF run[i].mem.phase \in {"response-received", "completed"} THEN "verify" ELSE "checked")
  /\ UNCHANGED <<clocks, files, guards, wire, server, proof, posted>>

Ask(i) ==
  /\ At(i, "execute", "checked") /\ run[i].mem.phase = "session"
  /\ Begins(i, [run[i].mem EXCEPT !.phase = "challenge-starting"], "challenge", "asking")
  /\ UNCHANGED <<clocks, recovery, candidate, guards, server, proof, posted>>

Challenged(i) ==
  /\ At(i, "execute", "asking") /\ run[i].reply
  /\ Saves(i, [run[i].mem EXCEPT !.phase = "challenge", !.payment = TRUE], "checked")
  /\ UNCHANGED <<clocks, recovery, candidate, guards, wire, server, proof, posted>>

\* The authorization of the journal, or one signed now that ends with the session.
Signed(j) ==
  IF j.auth # 0 THEN j.auth
  ELSE IF now + AuthTtl < j.session THEN now + AuthTtl ELSE j.session

Settle(i) ==
  /\ At(i, "execute", "checked") /\ run[i].mem.phase = "challenge"
  /\ run[i].mem.auth # 0 => run[i].mem.auth > now
  /\ LET j == [run[i].mem EXCEPT !.phase = "settlement-starting", !.auth = Signed(run[i].mem)]
     IN  Begins(i, j, "settle", "settling") /\ posted' = [posted EXCEPT !.auths = @ \cup {j.auth}]
  /\ UNCHANGED <<clocks, recovery, candidate, guards, server, proof>>

Settled(i) ==
  /\ At(i, "execute", "settling") /\ run[i].reply
  /\ Saves(i, [run[i].mem EXCEPT !.phase = "settled", !.settled = TRUE], "checked")
  /\ UNCHANGED <<clocks, recovery, candidate, guards, wire, server, proof, posted>>

\* (mutant) The completion is sent before the journal says so.
CompleteUnsaved(i) ==
  /\ At(i, "execute", "checked") /\ run[i].mem.phase = "settled"
  /\ Post(i, "infer", 0) /\ Moves(i, "completing")
  /\ posted' = [posted EXCEPT !.first = @ + 1, !.paid = @ + 1]
  /\ UNCHANGED <<clocks, files, guards, server, proof>>

Complete(i) ==
  /\ At(i, "execute", "checked") /\ run[i].mem.phase = "settled"
  /\ Begins(i, [run[i].mem EXCEPT !.phase = "completion-starting", !.posts = @ + 1],
            "infer", "completing")
  /\ posted' = [posted EXCEPT !.first = @ + 1, !.paid = @ + 1]
  /\ UNCHANGED <<clocks, recovery, candidate, guards, server, proof>>

\* The answer, of a completion or of its replay, is kept.
Completed(i) ==
  /\ i \in Live /\ run[i].at = "completing" /\ run[i].reply
  /\ Saves(i, [run[i].mem EXCEPT !.phase = "response-received", !.result = TRUE], "verify")
  /\ UNCHANGED <<clocks, recovery, candidate, guards, wire, server, proof, posted>>

-----------------------------------------------------------------------------
(* The recovery modes.                                                      *)

\* recover reads the owner's records and may learn of the settlement.
Recover(i) ==
  /\ At(i, "recover", "go")
  /\ IF run[i].mem.phase = "settlement-starting" /\ gateway.payment = "settled"
     THEN journal' = [run[i].mem EXCEPT !.phase = "settled", !.settled = TRUE]
     ELSE UNCHANGED journal
  /\ Ends(i)
  /\ UNCHANGED <<clocks, recovery, candidate, unlocking, wire, server, proof, posted>>

\* (mutant) A replay does not ask whether the completion is persisted.
RecoverUnproven(i) ==
  /\ At(i, "recover-completed", "go")
  /\ run[i].mem.payment /\ run[i].mem.auth # 0 /\ run[i].mem.session > now
  /\ Begins(i, [run[i].mem EXCEPT !.phase = "completion-starting", !.posts = @ + 1,
                                  !.expected = TRUE, !.settled = TRUE], "infer", "completing")
  /\ posted' = [posted EXCEPT !.paid = @ + 1]
  /\ UNCHANGED <<clocks, recovery, candidate, guards, server, proof>>

\* recover-completed asks again for an answer that is proven to be persisted.
RecoverCompleted(i) ==
  /\ At(i, "recover-completed", "go")
  /\ run[i].mem.payment /\ run[i].mem.auth # 0 /\ run[i].mem.session > now
  /\ gateway.payment = "consumed"
  /\ Begins(i, [run[i].mem EXCEPT !.phase = "completion-starting", !.posts = @ + 1,
                                  !.expected = TRUE, !.settled = TRUE], "infer", "completing")
  /\ posted' = [posted EXCEPT !.paid = @ + 1]
  /\ UNCHANGED <<clocks, recovery, candidate, guards, server, proof>>

Prepare(i) ==
  /\ At(i, "prepare-manifest", "go") /\ Moves(i, "verify")
  /\ UNCHANGED <<clocks, files, guards, wire, server, proof, posted>>

\* The saved result is verified,
Verify(i) ==
  /\ i \in Live /\ run[i].at = "verify" /\ run[i].mem.result /\ run[i].mem.settled
  /\ Saves(i, [run[i].mem EXCEPT !.phase = "completed"], "owned")
  /\ UNCHANGED <<clocks, recovery, candidate, guards, wire, server, proof, posted>>

\* and, with the records and transactions that belong to it, proposed.
Propose(i) ==
  /\ i \in Live /\ run[i].at = "owned" /\ gateway.payment = "consumed"
  /\ candidate' = (candidate \/ gateway.receipt = "anchored") /\ Ends(i)
  /\ UNCHANGED <<clocks, journal, recovery, unlocking, wire, server, proof, posted>>

-----------------------------------------------------------------------------
(* rearmOriginalSettlement.                                                 *)

\* The operator reviews what the database and a confirmed block say.
Review ==
  /\ journal.phase = "settlement-starting"
  /\ gateway.payment = "open" /\ ~debited
  /\ proof' = [at |-> now, block |-> chainTime, journal |-> journal]
  /\ UNCHANGED <<clocks, files, guards, run, wire, server, posted>>

\* (mutant) Only the script's own clock says that the authorization expired.
ExpiredLocally(j) == j.auth <= now

\* By the script's clock and in the proven block.
Expired(j) == j.auth <= now /\ j.auth <= proof.block

StillValid(j) == j.session > now /\ j.token > now /\ j.auth > now

\* The journal is the one the proof is about, and its settlement the last thing
\* it began. What is decided is recorded first, and once.
Rearm(i) ==
  /\ i \in Live /\ run[i].at = "review"
  /\ proof # NoProof /\ proof.journal = run[i].mem /\ now - proof.at <= 1
  /\ LET j == run[i].mem IN
     /\ j.phase = "settlement-starting" /\ j.posts = 0 /\ ~j.settled /\ ~j.expected
     /\ IF run[i].mode = "archive" THEN Expired(j) ELSE StillValid(j)
  /\ ~recovery /\ recovery' = TRUE /\ Moves(i, "recorded")
  /\ UNCHANGED <<clocks, journal, candidate, guards, wire, server, proof, posted>>

SaveRearmed(i) ==
  /\ i \in Live /\ run[i].at = "recorded" /\ journal = run[i].mem
  /\ journal' = [journal EXCEPT !.phase =
       IF run[i].mode = "archive" THEN "aborted-unspent" ELSE "challenge"]
  /\ Ends(i)
  /\ UNCHANGED <<clocks, recovery, candidate, unlocking, wire, server, proof, posted>>

-----------------------------------------------------------------------------
(* The gateway, the chain and the clock.                                    *)

\* A request is handled; its run may or may not get the answer.
Handled(m) == wire' = wire \ {m}
Answers(i) ==
  \/ i \in Live /\ run' = [run EXCEPT ![i].reply = TRUE]
  \/ UNCHANGED run

HandleSession(m) ==
  /\ m.kind = "session" /\ Handled(m) /\ Answers(m.by)
  /\ UNCHANGED <<clocks, files, guards, server, proof, posted>>

\* infer without a payment: the intent of the idempotency key is opened, once.
HandleChallenge(m) ==
  /\ m.kind = "challenge" /\ Handled(m) /\ Answers(m.by)
  /\ gateway' = [gateway EXCEPT !.payment = IF @ = "none" THEN "open" ELSE @]
  /\ UNCHANGED <<clocks, files, guards, debited, proof, posted>>

\* performSettlement: an authorization found valid, up to a tick earlier, is
\* claimed; a settled payment answers at once.
HandleSettle(m) ==
  /\ m.kind = "settle" /\ Handled(m)
  /\ \/ /\ gateway.payment = "open" /\ m.auth >= now
        /\ gateway' = [gateway EXCEPT !.payment = "settling", !.auth = m.auth, !.caller = m.by]
        /\ UNCHANGED run
     \/ gateway.payment = "settled" /\ Answers(m.by) /\ UNCHANGED gateway
  /\ UNCHANGED <<clocks, files, guards, debited, proof, posted>>

\* infer with the payment: it is consumed once, and its answer kept for replays.
HandleInfer(m) ==
  /\ m.kind = "infer" /\ gateway.payment \in {"settled", "consumed"} /\ journal.session > now
  /\ Handled(m) /\ Answers(m.by)
  /\ gateway' = [gateway EXCEPT !.payment = "consumed",
                                !.receipt = IF @ = "none" THEN "pending" ELSE @]
  /\ UNCHANGED <<clocks, files, guards, debited, proof, posted>>

\* The token debits the payer in a block of before the authorization's end,
Debit ==
  /\ gateway.payment = "settling" /\ ~debited /\ chainTime < gateway.auth
  /\ debited' = TRUE
  /\ UNCHANGED <<clocks, files, guards, run, wire, gateway, proof, posted>>

\* or reverts,
Revert ==
  /\ gateway.payment = "settling" /\ ~debited /\ chainTime >= gateway.auth
  /\ gateway' = [gateway EXCEPT !.payment = "failed"]
  /\ UNCHANGED <<clocks, files, guards, run, wire, debited, proof, posted>>

\* and the gateway, or its reconciliation, records it.
RecordSettled ==
  /\ gateway.payment = "settling" /\ debited
  /\ gateway' = [gateway EXCEPT !.payment = "settled"] /\ Answers(gateway.caller)
  /\ UNCHANGED <<clocks, files, guards, wire, debited, proof, posted>>

\* The worker anchors the receipt.
Anchor ==
  /\ gateway.receipt = "pending" /\ gateway' = [gateway EXCEPT !.receipt = "anchored"]
  /\ UNCHANGED <<clocks, files, guards, run, wire, debited, proof, posted>>

Tick ==
  /\ \/ now < MaxTime /\ now' = now + 1 /\ UNCHANGED chainTime
     \/ chainTime < now /\ chainTime' = chainTime + 1 /\ UNCHANGED now
  /\ UNCHANGED <<files, guards, run, wire, server, proof, posted>>

Script(i) ==
  \/ Load(i) \/ SignIn(i) \/ Fail(i) \/ Crash(i)
  \/ OpenSession(i) \/ SessionOpened(i) \/ Check(i) \/ Ask(i) \/ Challenged(i)
  \/ Settle(i) \/ Settled(i) \/ Complete(i) \/ Completed(i)
  \/ Recover(i) \/ RecoverCompleted(i) \/ Prepare(i) \/ Verify(i) \/ Propose(i)
  \/ Rearm(i) \/ SaveRearmed(i)

Operator == \/ \E mode \in Modes : Start(mode)
            \/ UnlockSees \/ UnlockRemoves \/ Review

Handle(m) == HandleSession(m) \/ HandleChallenge(m) \/ HandleSettle(m) \/ HandleInfer(m)

Next == \/ \E i \in Live : Script(i)
        \/ Operator
        \/ \E m \in wire : Handle(m)
        \/ Debit \/ Revert \/ RecordSettled \/ Anchor \/ Tick

Spec == Init /\ [][Next]_vars

-----------------------------------------------------------------------------
TypeOK ==
  /\ now \in 1..MaxTime /\ chainTime \in 1..now
  /\ journal.phase \in Phases \cup {"none"} /\ journal.posts \in Nat
  /\ recovery \in BOOLEAN /\ candidate \in BOOLEAN /\ debited \in BOOLEAN
  /\ lock.by \in 0..Len(run) /\ unlocking \in 0..Len(run)
  /\ gateway.payment \in {"none", "open", "settling", "settled", "consumed", "failed"}

\* What the evidence says is right, and stays right. A journal archived as
\* unspent: no request sent before, or still on its way, debits the payer
\* (rearm-near-arc-settlement.ts:44-46). A release candidate: the payment was
\* debited and consumed, its receipt anchored (accept-near-arc.ts:389-393).
EvidenceTrue ==
  /\ journal.phase = "aborted-unspent" => ~debited
  /\ candidate => debited /\ gateway.payment = "consumed" /\ gateway.receipt = "anchored"

\* However often runs fail, die, are rearmed and repeated, the payer signs one
\* authorization and sends one paid completion, unless the gateway has proved to
\* have persisted the answer (accept-near-arc.ts:303, 332, 364).
OneAttempt ==
  /\ \A a, b \in posted.auths : a = b
  /\ posted.first <= 1
  /\ posted.paid > posted.first => gateway.receipt # "none"

\* The journal knows of everything that reached the wire: the authorization and
\* at least as many completions, whatever was lost (accept-near-arc.ts:343, 353).
JournalFirst ==
  /\ posted.auths # {} => posted.auths = {journal.auth}
  /\ posted.paid <= journal.posts
=============================================================================
