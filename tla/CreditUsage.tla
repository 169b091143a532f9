---------------------------- MODULE CreditUsage ----------------------------
(***************************************************************************)
(* tf_credit_usage: one row per metered model call or reply hold           *)
(* (packages/workspace-storage/src/credits.ts).  A row is opened with the  *)
(* units it may cost at most, taken from the gate, and settled once at     *)
(* what it did cost.  Charges round a flow's running provider cost, so the *)
(* charges of a flow add up to the rounding of its whole cost.             *)
(*                                                                         *)
(* A crashed reply leaves its hold open; the next attempt of the           *)
(* conversation settles it at its whole reservation.  That loop runs in    *)
(* one transaction under the credit lock: `recovery` is that transaction,  *)
(* with what it would roll back to.                                        *)
(***************************************************************************)
EXTENDS CreditGate, FiniteSetsExt

CONSTANTS
  Ids,       \* ids of usage rows
  FlowOf,    \* the flow (conversation or task) each id is billed to
  ReplyOf,   \* the reply attempt whose prefix an id carries, or NoReply
  NoReply    \* ids that no reply attempt owns

ASSUME UsageAssumption == IsFiniteSet(Ids)

VARIABLES
  rows,      \* Ids -> row of tf_credit_usage
  recovery   \* the open recovery transaction, or NotRecovering

usageVars == <<rows, recovery>>

NoRow == [state |-> "none", reserved |-> 0, charged |-> 0, cost |-> 0]
Row == [state : {"none", "open", "settled"},
        reserved : Nat, charged : Nat, cost : Nat]

NotRecovering == [active |-> FALSE]
Recovering(flow, reply) ==
  [active |-> TRUE, flow |-> flow, reply |-> reply,
   rows |-> rows, available |-> available]

Unlocked == ~recovery.active

FlowIds(flow) == {id \in Ids : FlowOf[id] = flow}
FlowCost(flow) == SumFunctionOnSet([id \in Ids |-> rows[id].cost], FlowIds(flow))
FlowCharged(flow) == SumFunctionOnSet([id \in Ids |-> rows[id].charged], FlowIds(flow))

\* Both totals are parsed as `units` before they are used.
TotalsParse(flow) == FlowCost(flow) \in Units /\ FlowCharged(flow) \in Units

\* Mutant: every call is rounded on its own.
ChargeFor_PerCall(flow, cost) == UnitsFor(cost)

\* What the next `cost` of a flow is charged.
ChargeFor(flow, cost) == UnitsFor(FlowCost(flow) + cost) - FlowCharged(flow)

-----------------------------------------------------------------------------
UsageInit == rows = [id \in Ids |-> NoRow] /\ recovery = NotRecovering

Opened(reserved) == [state |-> "open", reserved |-> reserved, charged |-> 0, cost |-> 0]
Settled(reserved, charged, cost) ==
  [state |-> "settled", reserved |-> reserved, charged |-> charged, cost |-> cost]

\* Mutant: the reservation is the metered cost, not its price.
Reserve_Unrounded(id, quote) ==
  /\ Unlocked
  /\ rows[id].state = "none"
  /\ Affords(available, quote * Rate)
  /\ Debit(quote * Rate)
  /\ rows' = [rows EXCEPT ![id] = Opened(quote * Rate)]
  /\ UNCHANGED recovery

\* A call is admitted with the price of its worst case.
Reserve(id, quote) ==
  /\ Unlocked
  /\ rows[id].state = "none"
  /\ Priceable(quote)
  /\ Affords(available, UnitsFor(quote))
  /\ Debit(UnitsFor(quote))
  /\ rows' = [rows EXCEPT ![id] = Opened(UnitsFor(quote))]
  /\ UNCHANGED recovery

\* Mutant: a settled row may be settled again.
SettleRow_Twice(id, cost) ==
  LET charge == ChargeFor(FlowOf[id], cost)
  IN /\ rows[id].state # "none"
     /\ Priceable(FlowCost(FlowOf[id]) + cost)
     /\ charge \in 0..rows[id].reserved
     /\ rows' = [rows EXCEPT ![id] = Settled(rows[id].reserved, charge, cost)]
     /\ Debit(charge - rows[id].reserved)

\* The body of settleCredits: the step is refused when it would charge more
\* than the row reserved.
SettleRow(id, cost) ==
  LET flow == FlowOf[id]
      charge == ChargeFor(flow, cost)
  IN /\ rows[id].state = "open"
     /\ TotalsParse(flow)
     /\ Priceable(FlowCost(flow) + cost)
     /\ charge \in 0..rows[id].reserved
     /\ rows' = [rows EXCEPT ![id] = Settled(rows[id].reserved, charge, cost)]
     /\ Debit(charge - rows[id].reserved)

Settle(id, cost) == Unlocked /\ SettleRow(id, cost) /\ UNCHANGED recovery

\* The provider cost a row of unknown usage is settled at.
CostAtReservation(id) == rows[id].reserved \div Rate

SettleAtReservation(id) ==
  Unlocked /\ SettleRow(id, CostAtReservation(id)) /\ UNCHANGED recovery

\* A reply holds up to `preferred` units, at least `minimum`, never more than
\* the gate has.
HoldFor(balance, minimum, preferred) ==
  LET wanted == IF preferred > minimum THEN preferred ELSE minimum
  IN IF balance = Unlimited \/ balance > wanted THEN wanted ELSE balance

Hold(id, minimum, preferred) ==
  /\ Unlocked
  /\ ReplyOf[id] # NoReply
  /\ rows[id].state = "none"
  /\ Affords(available, minimum)
  /\ LET reserved == HoldFor(available, minimum, preferred)
     IN /\ Debit(reserved)
        /\ rows' = [rows EXCEPT ![id] = Opened(reserved)]
  /\ UNCHANGED recovery

(***************************************************************************)
(* A reply settles its hold with the n calls it funded, in order.  ids[i]  *)
(* is the row of call i and running[i] the flow's provider cost after      *)
(* it, the value the loop keeps in `cost`.  The first call reuses the hold *)
(* row when it has its id; every other call gets a row of its own.         *)
(***************************************************************************)
SettleReply(hold, n, ids, running) ==
  LET flow == FlowOf[hold]
      calls == 1..n
      before(i) == IF i = 1 THEN FlowCost(flow) ELSE running[i - 1]
      paid(i) == IF i = 1 THEN FlowCharged(flow) ELSE UnitsFor(running[i - 1])
      cost(i) == running[i] - before(i)
      charge(i) == UnitsFor(running[i]) - paid(i)
      sum == IF n = 0 THEN 0 ELSE UnitsFor(running[n]) - FlowCharged(flow)
      reserved == rows[hold].reserved
      reused == n > 0 /\ ids[1] = hold
      callOf(id) == CHOOSE i \in calls : ids[i] = id
      made == {ids[i] : i \in calls} \ {hold}
      rowOf(i) == Settled(charge(i), charge(i), cost(i))
      holdRow == IF reused THEN Settled(reserved, charge(1), cost(1))
                           ELSE Settled(reserved, 0, 0)
  IN /\ Unlocked
     /\ rows[hold].state = "open"
     /\ TotalsParse(flow)
     /\ \A i \in calls : Priceable(running[i]) /\ cost(i) \in Nat /\ charge(i) \in Nat
     /\ sum <= reserved
     /\ \A i \in calls : ids[i] = hold => i = 1
     /\ \A id \in made : rows[id].state = "none" /\ FlowOf[id] = flow
     /\ rows' = [id \in Ids |->
          IF id \in made THEN rowOf(callOf(id))
          ELSE IF id = hold THEN holdRow
          ELSE rows[id]]
     /\ Debit(sum - reserved)
     /\ UNCHANGED recovery

-----------------------------------------------------------------------------
\* Mutant: the flow's calls of other kinds are taken for abandoned.
Abandoned_AnyCall(flow, reply) ==
  {id \in FlowIds(flow) : rows[id].state = "open" /\ ReplyOf[id] # reply}

\* Holds other attempts of the flow left open.
Abandoned(flow, reply) ==
  {id \in FlowIds(flow) : rows[id].state = "open" /\ ReplyOf[id] \notin {NoReply, reply}}

BeginRecovery(flow, reply) ==
  /\ Unlocked
  /\ Abandoned(flow, reply) # {}
  /\ recovery' = Recovering(flow, reply)
  /\ UNCHANGED <<rows, available>>

RecoverHold(id) ==
  /\ recovery.active
  /\ id \in Abandoned(recovery.flow, recovery.reply)
  /\ SettleRow(id, CostAtReservation(id))
  /\ UNCHANGED recovery

CommitRecovery ==
  /\ recovery.active
  /\ Abandoned(recovery.flow, recovery.reply) = {}
  /\ recovery' = NotRecovering
  /\ UNCHANGED <<rows, available>>

\* A refused settlement, or a failure later in the transaction, rolls it back.
AbortRecovery ==
  /\ recovery.active
  /\ rows' = recovery.rows
  /\ available' = recovery.available
  /\ recovery' = NotRecovering
=============================================================================
