---------------------------- MODULE WalletSession ----------------------------
(***************************************************************************)
(* The wallet of a browser page and its login, over the login store of     *)
(* WalletLogin: the connection to a wallet whose events and answers arrive *)
(* late (wallet-session.ts, WalletConnectControl.tsx), the workspace that  *)
(* signs in, restores and signs out (dashboard.ts, wallet-auth.ts), and    *)
(* the cookie the responses set and delete.  What runs between two awaits  *)
(* is one step.                                                            *)
(*                                                                         *)
(* The page's fences (generation, version, activeLogin, the controller's   *)
(* signal) all end an attempt at once: here a continuation runs only while *)
(* its attempt is the active one.  A read of the wallet that a newer       *)
(* revision supersedes has no effect: one read is pending at most.         *)
(***************************************************************************)
EXTENDS WalletLogin, Sequences

CONSTANTS MaxLogins,    \* bound: clicks on the sign-in button
          Budgets,      \* bounds: how often each of the other things may happen
          Home,         \* the account selected when the page opens
          Asked,        \* a read of the wallet that is not answered yet
          Device        \* the challenge of another device of the same user

Logins == 1 .. MaxLogins
Restore == 0            \* the attempt that restores a login
Bounded == {"logins", "changes", "connects", "faults", "expiries", "devices"}
ASSUME BudgetsAssumption ==
    /\ MaxLogins \in Nat
    /\ Budgets \subseteq [Bounded -> Nat]
    /\ Home \in Addresses /\ \A b \in Budgets : b.logins <= MaxLogins
ASSUME ChallengesAssumption ==
    Challenges = Logins \cup {Device} /\ Copies = {1, 2} /\ Old \notin Verifications

VARIABLES selected,    \* what the wallet has selected: an address, on Arc or not
          conn,        \* the connection: the account the page knows, or None
          events,      \* the wallet's events the page has not handled yet
          reading,     \* the pending read of accounts and chain
          connecting,  \* a connection the user asked for is pending
          saved,       \* the address of a saved selection not restored yet
          page,        \* the dashboard: token, active attempt, its stage
          cookie,      \* the login cookie of the browser
          logouts,     \* logout requests in flight
          budget       \* what may still happen

walletVars == <<selected, conn, events, reading, connecting, saved>>
vars == <<loginVars, walletVars, page, cookie, logouts, budget>>

Identities == [address : Addresses, arc : BOOLEAN]
Locked == [address |-> None, arc |-> TRUE]
Connections == [address : Addresses, arc : BOOLEAN, browser : BOOLEAN, changing : BOOLEAN]
Stages == {"idle", "challenge", "signing", "stale", "verify", "resume", "loading"}

\* None and Asked are neither accounts, attempts, tokens nor what a wallet says.
ASSUME NamesAssumption ==
    /\ None \notin Addresses /\ None \notin Tokens /\ None \notin Logins \cup {Restore}
    /\ None \notin Connections
    /\ Asked \notin Identities \cup {Locked, None} /\ None \notin Identities \cup {Locked}

TypeOK ==
    /\ LoginTypeOK
    /\ selected \in Identities \cup {Locked}
    /\ conn \in Connections \cup {None}
    /\ events \in Seq(Identities \cup {Locked})
    /\ reading \in Identities \cup {Locked, Asked, None}
    /\ connecting \in BOOLEAN
    /\ saved \in Addresses \cup {None}
    /\ page \in [token : Tokens \cup {None}, active : Logins \cup {Restore, None}, stage : Stages,
                 asked : Tokens \cup {None}, restored : BOOLEAN, dropped : SUBSET Tokens]
    /\ cookie \in Tokens \cup {None}
    /\ logouts \subseteq [token : Tokens \cup {None}, stored : Tokens \cup {None}, done : BOOLEAN]

Init ==
    /\ \E owner \in Addresses \cup {None} : LoginInit(owner) /\ cookie = (IF owner = None THEN None ELSE Old)
    /\ selected = [address |-> Home, arc |-> TRUE] /\ saved \in Addresses \cup {None}
    /\ conn = None /\ events = <<>> /\ reading = None /\ connecting = FALSE
    /\ page = [token |-> None, active |-> None, stage |-> "idle", asked |-> None,
               restored |-> FALSE, dropped |-> {}]
    /\ logouts = {}
    /\ budget \in Budgets

(***************************************************************************)
(* The dashboard: operators from a page to the page that follows.          *)
(***************************************************************************)
Cancelled(p) == [p EXCEPT !.active = None, !.stage = "idle", !.asked = None]

\* clearWorkspace, and the token it gives up.
Cleared(p) ==
    [Cancelled(p) EXCEPT !.token = None, !.dropped = @ \cup ({p.token} \ {None})]

\* restoreLogin: once in a page; resumeWallet asks nothing off Arc.
Restoring(p, c) ==
    IF p.restored \/ p.token # None \/ c = None THEN p
    ELSE IF ~c.arc THEN [p EXCEPT !.restored = TRUE]
    ELSE [p EXCEPT !.restored = TRUE, !.active = Restore, !.stage = "resume", !.asked = cookie]

Belongs(p, c) == c = None \/ (c.arc /\ c.address = sessions[p.token].address)

\* The dashboard's listener, told that the connection is now c.
Notified(p, c, reason) ==
    LET q == IF p.active = None THEN p
             ELSE IF p.token = None THEN Cancelled(p) ELSE Cleared(p)
    IN IF q.token = None THEN Restoring(q, c)
       ELSE IF reason = "connection" /\ Belongs(q, c) THEN q
       ELSE Cleared(q)

\* The page becomes p; the tokens it gave up are logged out, with the cookie
\* the browser holds by then.
Shows(p, held) ==
    /\ page' = [p EXCEPT !.dropped = {}]
    /\ logouts' = logouts \cup {[token |-> t, stored |-> held, done |-> FALSE] : t \in p.dropped}

Spends(what) == budget[what] > 0 /\ budget' = [budget EXCEPT ![what] = @ - 1]

(***************************************************************************)
(* The wallet and the page's connection.                                   *)
(***************************************************************************)
\* The wallet selects another account, is locked, or changes chain.
Changes(to) ==
    /\ Spends("changes")
    /\ to # selected /\ (to.address = selected.address \/ to.arc = selected.arc)
    /\ selected' = to
    /\ events' = IF conn = None THEN events ELSE Append(events, to)
    /\ UNCHANGED <<loginVars, conn, reading, connecting, saved, page, cookie, logouts>>

\* The connection becomes c, and the listener learns of it.
Reconnected(c, reason) ==
    /\ conn' = c
    /\ events' = (IF c = None \/ conn = None THEN <<>> ELSE events)
    /\ Shows(Notified(page, c, reason), cookie)
    /\ UNCHANGED <<loginVars, selected, cookie>>

\* connect, and restoreWallet at the start of the page, which it ends.
Connect ==
    /\ conn = None /\ ~connecting
    /\ Spends("connects")
    /\ connecting' = TRUE /\ saved' = None
    /\ UNCHANGED <<loginVars, selected, conn, events, reading, page, cookie, logouts>>

Connected(browser) ==
    /\ connecting /\ selected # Locked /\ (browser \/ selected.arc)
    /\ Reconnected([address |-> selected.address, arc |-> selected.arc,
                    browser |-> browser, changing |-> FALSE], "connection")
    /\ connecting' = FALSE
    /\ UNCHANGED <<reading, saved, budget>>

ConnectFails ==
    /\ connecting /\ connecting' = FALSE
    /\ UNCHANGED <<loginVars, selected, conn, events, reading, saved, page, cookie, logouts, budget>>

RestoreWallet(browser) ==
    /\ saved # None /\ saved' = None
    /\ IF selected.address = saved /\ (browser \/ selected.arc)
       THEN Reconnected([address |-> saved, arc |-> selected.arc,
                         browser |-> browser, changing |-> FALSE], "connection")
       ELSE UNCHANGED <<loginVars, selected, conn, events, page, cookie, logouts>>
    /\ UNCHANGED <<reading, connecting, budget>>

\* drop of a browser wallet, invalidate of WalletConnect.
Dropped(reason) == Reconnected(None, reason) /\ reading' = None

\* refreshEvent: a signature that is awaited belongs to an older revision.
Superseded(p) == IF p.stage = "signing" THEN [p EXCEPT !.stage = "stale"] ELSE p

\* (mutant) a read whose answer is on its way is left to take effect
RestartedLate == IF reading \in Identities THEN reading ELSE Asked

Restarted == Asked

BrowserEvent(e) ==
    IF e = Locked THEN Dropped("connection")
    ELSE /\ reading' = Restarted
         /\ IF e.address = conn.address /\ e.arc = conn.arc
            THEN /\ page' = Superseded(page)
                 /\ UNCHANGED <<loginVars, selected, conn, cookie, logouts>>
                 /\ events' = Tail(events)
            ELSE /\ conn' = [conn EXCEPT !.address = e.address, !.arc = e.arc, !.changing = TRUE]
                 /\ events' = Tail(events)
                 /\ Shows(Notified(page, conn', "identity"), cookie)
                 /\ UNCHANGED <<loginVars, selected, cookie>>

\* WalletConnect: the approved account, or no connection.
PeerEvent(e) ==
    IF e.address = conn.address /\ e.arc = conn.arc
    THEN events' = Tail(events) /\ UNCHANGED <<loginVars, selected, conn, reading, page, cookie, logouts>>
    ELSE Dropped(IF e = Locked THEN "connection" ELSE "identity")

HandleEvent ==
    /\ conn # None /\ events # <<>>
    /\ IF conn.browser THEN BrowserEvent(Head(events)) ELSE PeerEvent(Head(events))
    /\ UNCHANGED <<connecting, saved, budget>>

\* refresh: eth_accounts and eth_chainId, then their answers.
Read ==
    /\ reading = Asked /\ reading' = selected
    /\ UNCHANGED <<loginVars, selected, conn, events, connecting, saved, page, cookie, logouts, budget>>

Refresh ==
    /\ conn # None /\ reading \in Identities \cup {Locked}
    /\ IF reading = Locked THEN Dropped(IF conn.changing THEN "identity" ELSE "connection")
       ELSE /\ Reconnected([conn EXCEPT !.address = reading.address, !.arc = reading.arc, !.changing = FALSE],
                           IF conn.changing \/ reading.address # conn.address \/ reading.arc # conn.arc
                           THEN "identity" ELSE "connection")
            /\ reading' = None
    /\ UNCHANGED <<connecting, saved, budget>>

RefreshFails ==
    /\ conn # None /\ reading # None
    /\ Dropped(IF conn.changing THEN "identity" ELSE "connection")
    /\ UNCHANGED <<connecting, saved, budget>>

\* The provider disconnects; the session of WalletConnect is deleted or ends.
SessionEnds ==
    /\ conn # None /\ Dropped("connection")
    /\ UNCHANGED <<connecting, saved, budget>>

ReconnectWithQr ==
    /\ conn # None /\ Spends("connects")
    /\ Dropped("connection")
    /\ connecting' = TRUE /\ saved' = None

\* The user's disconnect logs the cookie's session out, whichever it is.
Disconnect ==
    /\ conn # None /\ conn' = None /\ events' = <<>> /\ reading' = None
    /\ LET p == Notified(page, None, "disconnect")
       IN /\ page' = [p EXCEPT !.dropped = {}]
          /\ logouts' = logouts \cup {[token |-> t, stored |-> cookie, done |-> FALSE] : t \in p.dropped \cup {None}}
    /\ UNCHANGED <<loginVars, selected, connecting, saved, cookie, budget>>

Wallet ==
    \/ \E to \in Identities \cup {Locked} : Changes(to)
    \/ \E browser \in BOOLEAN : Connected(browser) \/ RestoreWallet(browser)
    \/ Connect \/ ConnectFails \/ HandleEvent \/ Read \/ Refresh \/ RefreshFails
    \/ SessionEnds \/ ReconnectWithQr \/ Disconnect

(***************************************************************************)
(* Signing in, restoring and signing out.                                  *)
(***************************************************************************)
PageOnly == UNCHANGED <<loginVars, walletVars, cookie>>

\* The next attempt: as many as remain come after it.
Attempt == MaxLogins - budget.logins + 1

\* The sign-in button; without a wallet on Arc the attempt ends at once.
SignIn ==
    /\ page.active = None
    /\ IF conn # None /\ conn.arc
       THEN /\ Spends("logins")
            /\ Shows([Cleared(page) EXCEPT !.active = Attempt, !.stage = "challenge"], cookie)
       ELSE page.token # None /\ Shows(Cleared(page), cookie) /\ UNCHANGED budget
    /\ PageOnly

RequestChallenge ==
    /\ page.stage = "challenge" /\ Put(page.active, conn.address)
    /\ page' = [page EXCEPT !.stage = "signing"]
    /\ UNCHANGED <<walletVars, cookie, logouts, budget>>

\* A browser wallet is asked for its selection before and after it signs.
Sign ==
    /\ page.stage = "signing"
    /\ conn.browser => selected.address = conn.address /\ selected.arc
    /\ page' = [page EXCEPT !.stage = "verify"]
    /\ Becomes(<<page.active, 1>>, "sent")
    /\ UNCHANGED <<challenges, sessions, walletVars, cookie, logouts, budget>>

\* An attempt fails: refused, limited, not signed, not loaded.
AttemptFails ==
    /\ page.stage \in {"challenge", "signing", "stale", "loading"}
    /\ Shows(Cleared(page), cookie)
    /\ PageOnly /\ UNCHANGED budget

\* The timer of 60 s; a browser wallet that does not sign is given up.
AttemptTimesOut ==
    /\ page.active # None
    /\ Shows(Cleared(page), cookie)
    /\ IF page.stage \in {"signing", "stale"} /\ conn.browser
       THEN conn' = None /\ events' = <<>> /\ reading' = None /\ UNCHANGED <<selected, connecting, saved>>
       ELSE UNCHANGED walletVars
    /\ UNCHANGED <<loginVars, cookie, budget>>

Awaits(v) == page.active = v[1] /\ page.stage = "verify"

\* (mutant) a token that arrives after its attempt was cancelled is forgotten
ReceivedUnrevoked(v) ==
    IF Awaits(v) THEN [page EXCEPT !.token = v, !.stage = "loading"] ELSE page

Received(v) ==
    IF Awaits(v) THEN [page EXCEPT !.token = v, !.stage = "loading"]
    ELSE [page EXCEPT !.dropped = {v}]

\* The response that reaches the page is that of the last copy of the request.
Delivered(v) == v[1] # Device /\ (v[2] = 1 => verifying[<<v[1], 2>>] = "none")

VerifyAnswered(v) ==
    /\ Delivered(v) /\ verifying[v] \in {"issued", "refused"} /\ Becomes(v, "over")
    /\ IF verifying[v] = "issued"
       THEN cookie' = v /\ Shows(Received(v), v)
       ELSE cookie' = cookie /\ Shows(IF Awaits(v) THEN Cleared(page) ELSE page, cookie)
    /\ UNCHANGED <<challenges, sessions, walletVars, budget>>

\* The response does not arrive within 15 s.
VerifyLost(v) ==
    /\ Delivered(v) /\ verifying[v] \in {"issued", "refused"} /\ Becomes(v, "over")
    /\ Spends("faults")
    /\ Shows(IF Awaits(v) THEN Cleared(page) ELSE page, cookie)
    /\ UNCHANGED <<challenges, sessions, walletVars, cookie>>

VerifyFails(v) == Spends("faults") /\ ConsumeFails(v) /\ UNCHANGED <<walletVars, page, cookie, logouts>>

VerifyRepeated(i) ==
    /\ Spends("faults")
    /\ verifying[<<i, 1>>] \notin {"none", "over"} /\ verifying[<<i, 2>>] = "none"
    /\ Becomes(<<i, 2>>, "sent")
    /\ UNCHANGED <<challenges, sessions, walletVars, page, cookie, logouts>>

Resume ==
    /\ page.stage = "resume"
    /\ \/ /\ Resumes(page.asked, conn.address)
          /\ page' = [page EXCEPT !.token = page.asked, !.asked = None, !.stage = "loading"]
       \/ page' = Cancelled(page)
    /\ PageOnly /\ UNCHANGED <<logouts, budget>>

Load ==
    /\ page.stage = "loading" /\ sessions[page.token].status = "active"
    /\ page' = Cancelled(page)
    /\ PageOnly /\ UNCHANGED <<logouts, budget>>

LoginExpires ==
    /\ page.token # None /\ page.active = None /\ sessions[page.token].status = "expired"
    /\ Shows(Cleared(page), cookie)
    /\ PageOnly /\ UNCHANGED budget

\* The workspace is disconnected, or an API key is used instead.
SignOut ==
    /\ page.token # None \/ page.active # None
    /\ Shows(Cleared(page), cookie)
    /\ PageOnly /\ UNCHANGED budget

Target(l) == IF l.token = None THEN l.stored ELSE l.token

ServeLogout(l) ==
    /\ l \in logouts /\ ~l.done
    /\ sessions' = Revoked(Target(l))
    /\ logouts' = (logouts \ {l}) \cup {[l EXCEPT !.done = TRUE]}
    /\ UNCHANGED <<challenges, verifying, walletVars, page, cookie, budget>>

\* The response deletes the cookie if the request's cookie was its own.
LogoutAnswered(l) ==
    /\ l \in logouts /\ l.done
    /\ logouts' = logouts \ {l}
    /\ cookie' = IF l.stored \in {None, Target(l)} THEN None ELSE cookie
    /\ UNCHANGED <<loginVars, walletVars, page, budget>>

LogoutLost(l) ==
    /\ l \in logouts /\ Spends("faults")
    /\ logouts' = logouts \ {l}
    /\ UNCHANGED <<loginVars, walletVars, page, cookie>>

Logout(l) == ServeLogout(l) \/ LogoutAnswered(l)

\* The user's other device signs in with its own challenge.
DeviceSignsIn(a) ==
    /\ \/ Put(Device, a) /\ Spends("devices")
       \/ /\ challenges[Device].status = "open" /\ challenges[Device].address = a
          /\ verifying[<<Device, 1>>] = "none" /\ Becomes(<<Device, 1>>, "sent")
          /\ UNCHANGED <<challenges, sessions, budget>>
    /\ UNCHANGED <<walletVars, page, cookie, logouts>>

Login ==
    \/ SignIn \/ RequestChallenge \/ Sign \/ AttemptFails \/ AttemptTimesOut \/ Resume \/ Load
    \/ LoginExpires \/ SignOut
    \/ \E i \in Logins : VerifyRepeated(i)
    \/ \E v \in Verifications :
         VerifyAnswered(v) \/ VerifyLost(v) \/ VerifyFails(v)
         \/ (Verify(v) /\ UNCHANGED <<walletVars, page, cookie, logouts, budget>>)
    \/ \E l \in logouts : Logout(l) \/ LogoutLost(l)
    \/ \E a \in Addresses : DeviceSignsIn(a)

Expiry ==
    /\ Spends("expiries")
    /\ (\E i \in Challenges : ExpireChallenge(i)) \/ (\E t \in Tokens : ExpireSession(t))
    /\ UNCHANGED <<walletVars, page, cookie, logouts>>

Next == Wallet \/ Login \/ Expiry

\* Requests are served and answered (or their failure is counted); a timer
\* ends every attempt.
Fairness ==
    /\ \A v \in Verifications : WF_vars(Verify(v) /\ UNCHANGED <<walletVars, page, cookie, logouts, budget>>)
                                /\ WF_vars(VerifyAnswered(v))
    /\ WF_vars(\E l \in logouts : Logout(l))
    /\ WF_vars(AttemptTimesOut)

Spec == Init /\ [][Next]_vars /\ Fairness

(***************************************************************************)
(* Properties.                                                             *)
(***************************************************************************)
\* Whatever verifications overlap, repeat or fail, an address never has more
\* sessions than the limit and a challenge gives one session at most
\* (wallet-auth.ts, consume).
SessionsLimited ==
    /\ \A a \in Addresses : Cardinality(SessionsOf(a)) <= SessionLimit
    /\ \A i \in Challenges : Cardinality({v \in Verifications : v[1] = i /\ sessions[v].status # "none"}) <= 1

\* A workspace is open only for the account the page is connected to, on Arc,
\* and once the wallet's events are handled that account is the wallet's own
\* selection (the listener of dashboard.ts, the revisions of wallet-session.ts).
TokenMatchesWallet ==
    conn # None =>
      /\ page.token # None => conn.arc /\ conn.address = sessions[page.token].address
      /\ events = <<>> /\ reading = None => selected.address = conn.address /\ selected.arc = conn.arc

\* If the network loses nothing, a session issued to the page ends as the
\* page's own or is revoked: no attempt that was cancelled, timed out or
\* superseded leaves one behind (authRequest and loginWallet of wallet-auth.ts).
Held(v) == sessions[v].status = "active" => page.token = v
NoSessionLeft ==
    budget.faults = 0 => []<>(\A v \in Logins \X Copies : Held(v))
==============================================================================
