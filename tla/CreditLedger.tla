---------------------------- MODULE CreditLedger ----------------------------
(***************************************************************************)
(* The two ledgers of a workspace on its one credit account.  The credit   *)
(* lock makes their operations exclude one another: while a reply's        *)
(* recovery transaction is open, nothing else moves the account.           *)
(***************************************************************************)
EXTENDS CreditUsage, KnowledgeCredits

CONSTANTS
  Quotes,     \* worst-case provider costs calls are admitted with
  Costs,      \* provider costs calls turn out to have
  Amounts,    \* unit amounts a reply asks to hold
  MaxCalls    \* the most calls a hold funds

ASSUME InputsAssumption ==
  /\ Quotes \subseteq Nat /\ Costs \subseteq Nat /\ Amounts \subseteq Nat
  /\ MaxCalls \in Nat

vars == <<available, rows, recovery, group, attempts>>

Init == available = Granted /\ UsageInit /\ KnowledgeInit

\* Reply attempts and flows, as the rows name them.
Replies == {ReplyOf[id] : id \in Ids} \ {NoReply}
Flows == {FlowOf[id] : id \in Ids}

ReserveCall == \E id \in Ids, quote \in Quotes : ReplyOf[id] = NoReply /\ Reserve(id, quote)

\* A call's cost is whatever the provider reports.
SettleCall == \E id \in Ids, cost \in Costs : ReplyOf[id] = NoReply /\ Settle(id, cost)

SettleUnknownCall == \E id \in Ids : ReplyOf[id] = NoReply /\ SettleAtReservation(id)

HoldReply == \E id \in Ids, minimum, preferred \in Amounts : Hold(id, minimum, preferred)

\* The calls of a reply: distinct rows of that reply, each with a cost.
SettleHold == \E hold \in Ids, n \in 0..MaxCalls :
  /\ ReplyOf[hold] # NoReply
  /\ \E ids \in [1..n -> {id \in Ids : ReplyOf[id] = ReplyOf[hold]}],
        costs \in [1..n -> Costs] :
       /\ \A i, j \in 1..n : ids[i] = ids[j] => i = j
       /\ LET running[i \in 0..n] ==
                IF i = 0 THEN FlowCost(FlowOf[hold]) ELSE running[i - 1] + costs[i]
          IN SettleReply(hold, n, ids, running)

BeginReplyRecovery == \E flow \in Flows, reply \in Replies : BeginRecovery(flow, reply)
RecoverNextHold == \E id \in Ids : RecoverHold(id)

UsageNext ==
  /\ \/ ReserveCall \/ SettleCall \/ SettleUnknownCall
     \/ HoldReply \/ SettleHold
     \/ BeginReplyRecovery \/ RecoverNextHold \/ CommitRecovery \/ AbortRecovery
  /\ UNCHANGED knowledgeVars

KnowledgeNext ==
  /\ Unlocked
  /\ \E a \in KAttempts :
       \/ \E upper \in Quotes : ReserveKnowledge(a, upper)
       \/ MarkDispatched(a)
       \/ \E cost \in Costs : RecordKnown(a, cost)
       \/ \E cost \in Costs : ReplayKnown(a, cost)
       \/ RecordUnknown(a)
       \/ RecordUndispatched(a)
       \/ RecordMarkedUndispatched(a)
  /\ UNCHANGED usageVars

Next == UsageNext \/ KnowledgeNext

Spec == Init /\ [][Next]_vars

-----------------------------------------------------------------------------
RecoveryTypeOK ==
  recovery = NotRecovering \/
    (recovery \in [active : {TRUE}, flow : Flows, reply : Replies,
                  rows : [Ids -> Row], available : Balance])

\* Types; in particular the account is never overdrawn.
TypeOK ==
  /\ available \in Balance
  /\ rows \in [Ids -> Row]
  /\ RecoveryTypeOK
  /\ group \in [known : Units, pending : Units, unfunded : Nat]
  /\ attempts \in [KAttempts -> Attempt]

\* What the ledgers have taken from the account: charges, open reservations
\* and the knowledge commitment, less what could not be funded.
Taken ==
  SumFunction([id \in Ids |-> IF rows[id].state = "open" THEN rows[id].reserved
                                                         ELSE rows[id].charged])
    + Commitment(group.known, group.pending) - group.unfunded

(* No unit is lost or made: whatever order reservations, settlements,      *)
(* crashes, recoveries and knowledge outcomes come in, the balance and     *)
(* what the two ledgers took add up to what was granted.                   *)
FundsConserved == available # Unlimited => available + Taken = Granted

(* However its calls were split over reservations, reply holds and         *)
(* recoveries, a flow has been charged the rounding of its whole provider  *)
(* cost ("exactly as one settlement per call would").                      *)
FlowsChargedAsOne == \A flow \in Flows : FlowCharged(flow) = UnitsFor(FlowCost(flow))

\* The rows other transactions see.
CommittedRows == IF recovery.active THEN recovery.rows ELSE rows

(* A settled row is final: a late settlement, a second settlement or a     *)
(* recovery that rolls back never charges it again or reopens it.          *)
ChargesFinal ==
  [][\A id \in Ids : CommittedRows[id].state = "settled"
                        => CommittedRows'[id] = CommittedRows[id]]_vars

(* Recovery settles only what other attempts of the flow left open: the    *)
(* live attempt's rows, calls of other kinds and other flows stay as they  *)
(* were when its transaction began.                                        *)
RecoverySparesOthers ==
  recovery.active =>
    \A id \in Ids :
      rows[id] # recovery.rows[id] =>
        /\ FlowOf[id] = recovery.flow
        /\ ReplyOf[id] \notin {NoReply, recovery.reply}
        /\ recovery.rows[id].state = "open"
        /\ rows[id].state = "settled"

(* The knowledge aggregate is the sum of its attempts: what is pending is  *)
(* the upper bound of every attempt still undecided, what is known the     *)
(* cost of every reported one, each counted once whatever was replayed.    *)
GroupMatchesAttempts ==
  /\ group.pending = Rate * SumFunction([a \in KAttempts |->
       IF attempts[a].state \in {"reserved", "dispatched", "unknown"} THEN attempts[a].upper ELSE 0])
  /\ group.known = Rate * SumFunction([a \in KAttempts |->
       IF attempts[a].state = "known" THEN attempts[a].observed ELSE 0])

\* The balance, and not what was asked, set what this hold reserves.
Capped(id) == ReplyOf[id] # NoReply /\ rows[id].reserved \notin Amounts

CoversItsCost(id) ==
  Priceable(FlowCost(FlowOf[id]) + CostAtReservation(id))
    => ChargeFor(FlowOf[id], CostAtReservation(id)) <= rows[id].reserved

(* An open reservation can be settled at its whole amount, whatever its    *)
(* flow was charged since it was made, so the recovery of a crashed reply  *)
(* is never refused.  A hold that the balance capped is left out: the next *)
(* property says what the code claims of it.                               *)
ReservationsSettle ==
  \A id \in Ids : rows[id].state = "open" /\ ~Capped(id) => CoversItsCost(id)

(* settleCreditsAtReservation (credits.ts:132-150) says so of every open   *)
(* reservation: it settles as though it cost all of it, at the largest     *)
(* provider cost that is charged no more.                                  *)
EveryReservationSettles ==
  \A id \in Ids : rows[id].state = "open" => CoversItsCost(id)
=============================================================================
