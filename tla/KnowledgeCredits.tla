-------------------------- MODULE KnowledgeCredits --------------------------
(***************************************************************************)
(* The workspace's knowledge spend                                         *)
(* (packages/workspace-storage/src/knowledge-credits.ts): embedding        *)
(* attempts rounded as one aggregate, tf_knowledge_credit_group, that the  *)
(* gate funds.  Unlike a usage row, an attempt may cost more than it       *)
(* reserved; what the account cannot pay is carried as `unfunded`.         *)
(***************************************************************************)
EXTENDS CreditGate, FiniteSets

CONSTANTS
  KAttempts,  \* ids of knowledge attempts
  NoCost      \* the cost of an attempt whose outcome is not known

ASSUME KnowledgeAssumption == NoCost \notin Int /\ IsFiniteSet(KAttempts)

VARIABLES
  group,      \* [known, pending, unfunded], in credit units
  attempts    \* KAttempts -> row of tf_knowledge_credit_attempts

knowledgeVars == <<group, attempts>>

AttemptStates == {"none", "reserved", "dispatched", "unknown", "released", "known"}
\* `upper` and `observed` are provider costs; `observed` is the attempt's row
\* of tf_knowledge_credit_observations.
Attempt == [state : AttemptStates, upper : Nat, observed : Nat \cup {NoCost}]
NoAttempt == [state |-> "none", upper |-> 0, observed |-> NoCost]

Commitment(known, pending) == Round[known + pending]

KnowledgeInit ==
  /\ group = [known |-> 0, pending |-> 0, unfunded |-> 0]
  /\ attempts = [a \in KAttempts |-> NoAttempt]

-----------------------------------------------------------------------------
\* Mutant: the shortfall is taken the wrong way round.
WriteGroup_NegativeDebt(known, pending) ==
  LET delta == Commitment(known, pending) - Commitment(group.known, group.pending)
                 + group.unfunded
      debit == IF available # Unlimited /\ delta > available THEN available ELSE delta
  IN /\ known \in Units /\ pending \in Units /\ known + pending \in Units
     /\ Debit(debit)
     /\ group' = [known |-> known, pending |-> pending, unfunded |-> debit - delta]

\* Moves the aggregate to (known, pending) and has the gate fund the
\* difference, with what it failed to fund before.
WriteGroup(known, pending) ==
  LET delta == Commitment(known, pending) - Commitment(group.known, group.pending)
                 + group.unfunded
      short == available # Unlimited /\ delta > available
      debit == IF short THEN available ELSE delta
  IN /\ known \in Units /\ pending \in Units /\ known + pending \in Units
     /\ Debit(debit)
     /\ group' = [known |-> known, pending |-> pending, unfunded |-> delta - debit]

\* A replayed admission changes nothing.
ReserveKnowledge(a, upper) ==
  LET pending == group.pending + upper * Rate
      delta == Round[group.known + pending] - Commitment(group.known, group.pending)
  IN /\ attempts[a].state = "none"
     /\ group.known + pending \in Units
     /\ available = Unlimited \/ group.unfunded + delta <= available
     /\ WriteGroup(group.known, pending)
     /\ attempts' = [attempts EXCEPT ![a] =
          [state |-> "reserved", upper |-> upper, observed |-> NoCost]]

MarkDispatched(a) ==
  /\ attempts[a].state = "reserved"
  /\ attempts' = [attempts EXCEPT ![a].state = "dispatched"]
  /\ UNCHANGED <<available, group>>

\* Mutant: a reported attempt stays pending as well.
RecordKnown_StaysPending(a, cost) ==
  /\ attempts[a].state \in {"dispatched", "unknown"}
  /\ WriteGroup(group.known + cost * Rate, group.pending)
  /\ attempts' = [attempts EXCEPT ![a].state = "known", ![a].observed = cost]

\* The provider reported what the attempt cost, possibly after it was unknown.
RecordKnown(a, cost) ==
  /\ attempts[a].state \in {"dispatched", "unknown"}
  /\ WriteGroup(group.known + cost * Rate, group.pending - attempts[a].upper * Rate)
  /\ attempts' = [attempts EXCEPT ![a].state = "known", ![a].observed = cost]

\* The same report again: the aggregate stays, unfunded units are tried again.
ReplayKnown(a, cost) ==
  /\ attempts[a].state = "known"
  /\ attempts[a].observed = cost
  /\ WriteGroup(group.known, group.pending)
  /\ UNCHANGED attempts

RecordUnknown(a) ==
  /\ attempts[a].state = "dispatched"
  /\ attempts' = [attempts EXCEPT ![a].state = "unknown"]
  /\ UNCHANGED <<available, group>>

\* The call never left ("undispatched"), or a dispatched one is known not to
\* have been billed ("marked-undispatched"): its reservation is returned.
Release(a, from) ==
  /\ attempts[a].state \in from
  /\ WriteGroup(group.known, group.pending - attempts[a].upper * Rate)
  /\ attempts' = [attempts EXCEPT ![a].state = "released"]

RecordUndispatched(a) == Release(a, {"reserved"})
RecordMarkedUndispatched(a) == Release(a, {"dispatched", "unknown"})
=============================================================================
