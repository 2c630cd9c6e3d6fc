---------------------------- MODULE AgentMandate ----------------------------
(***************************************************************************)
(* AgentMandate.sol: a daily USDC limit per agent, spent by its owner or,  *)
(* in the transaction of a settlement, by the meter.                       *)
(***************************************************************************)
EXTENDS Ledger

CONSTANTS Agents, Limits, Spendings, NoOwner

ASSUME MandateAssumption ==
  Limits \subseteq Nat \ {0} /\ Spendings \subseteq Nat \ {0} /\ NoOwner \notin Users

Days == 0..(MaxTime \div DayLength)

VARIABLES
  mandate,     \* mandates
  spentOn      \* history: what an agent spent on each day

mandateVars == <<mandate, spentOn>>

MandateTypeOK ==
  /\ mandate \in [Agents -> [owner : Users \cup {NoOwner}, dailyLimit : Nat,
                             spentToday : Nat, dayKey : Nat]]
  /\ spentOn \in [Agents -> [Days -> Nat]]

MandateInit ==
  /\ mandate = [g \in Agents |-> [owner |-> NoOwner, dailyLimit |-> 0, spentToday |-> 0,
                                  dayKey |-> 0]]
  /\ spentOn = [g \in Agents |-> [d \in Days |-> 0]]

\* The first caller owns the agent's mandate; its owner may change the limit.
Open(u, g, limit) ==
  /\ mandate[g].owner \in {NoOwner, u}
  /\ mandate' = [mandate EXCEPT
       ![g] = [@ EXCEPT !.owner = u, !.dailyLimit = limit,
                        !.dayKey = IF mandate[g].owner = NoOwner THEN Today
                                   ELSE mandate[g].dayKey]]
  /\ UNCHANGED <<spentOn, ledgerVars>>

\* (mutant) The new day is not written.
RolledUndated(row) ==
  IF row.dayKey = Today THEN row ELSE [row EXCEPT !.spentToday = 0]

\* The row of today: a new day starts with nothing spent.
Rolled(row) ==
  IF row.dayKey = Today THEN row ELSE [row EXCEPT !.spentToday = 0, !.dayKey = Today]

\* _spend, the part of a transaction about the mandate.
Spends(g, payer, amount) ==
  LET row == Rolled(mandate[g]) IN
  /\ mandate[g].owner = payer
  /\ row.spentToday + amount <= row.dailyLimit
  /\ mandate' = [mandate EXCEPT ![g] = [row EXCEPT !.spentToday = @ + amount]]
  /\ spentOn' = [spentOn EXCEPT ![g][Today] = @ + amount]

\* spend: the owner counts an amount of its own.
Spend(u, g, amount) == Spends(g, u, amount) /\ UNCHANGED ledgerVars

MandateNext ==
  \E u \in Users, g \in Agents :
    \/ \E limit \in Limits : Open(u, g, limit)
    \/ \E amount \in Spendings : Spend(u, g, amount)

-----------------------------------------------------------------------------
\* What an agent spends on one UTC day stays within the limit in force when it
\* is spent, across midnight and changes of the limit (AgentMandate._spend).
MandateHeld ==
  [][\A g \in Agents : \A d \in Days :
       spentOn'[g][d] # spentOn[g][d] => spentOn'[g][d] <= mandate[g].dailyLimit]_mandateVars
=============================================================================
