------------------------- MODULE CreditLedgerProofs -------------------------
(***************************************************************************)
(* Type correctness of the ledgers (the account is never overdrawn), the   *)
(* isolation of a recovery, conservation, what flows and groups add up to, *)
(* and finality of settled rows, for every pricing that meets the contract *)
(* and every set of rows and attempts; and that reservations can be        *)
(* settled, for a pricing in whole credits.                                *)
(***************************************************************************)
EXTENDS CreditLedger, SumLemmas

USE DEF Balance, Units

\* Pricing yields natural amounts where it is defined.
LEMMA UnitsForNat == ASSUME NEW cost, Priceable(cost) PROVE UnitsFor(cost) \in Nat
  BY PricingAssumption, UnitsAssumption DEF Priceable, UnitsFor, PricingContract

LEMMA RoundNat == ASSUME NEW u \in Units PROVE Round[u] \in Nat
  BY PricingAssumption, UnitsAssumption DEF PricingContract

\* A debit the account accepts leaves a balance.
LEMMA DebitType ==
  ASSUME available \in Balance, NEW units \in Int, Debit(units)
  PROVE  available' \in Balance
  BY GateAssumption DEF Debit, Debited

LEMMA HoldForType ==
  ASSUME NEW balance \in Balance, NEW minimum \in Nat, NEW preferred \in Nat,
         Affords(balance, minimum)
  PROVE  HoldFor(balance, minimum, preferred) \in Nat
  BY GateAssumption DEF HoldFor, Affords

LEMMA CostAtReservationNat ==
  ASSUME rows \in [Ids -> Row], NEW id \in Ids
  PROVE  CostAtReservation(id) \in Nat
<1>1. rows[id].reserved \in Nat BY DEF Row
<1>2. QED BY <1>1, UnitsAssumption DEF CostAtReservation

\* What a settlement does to the rows and the account.
LEMMA SettleRowType ==
  ASSUME TypeOK, NEW id \in Ids, NEW cost \in Nat, SettleRow(id, cost)
  PROVE  /\ available' \in Balance
         /\ rows' \in [Ids -> Row]
         /\ rows[id].state = "open"
         /\ rows'[id].state = "settled"
         /\ \A other \in Ids \ {id} : rows'[other] = rows[other]
<1> DEFINE charge == ChargeFor(FlowOf[id], cost)
           reserved == rows[id].reserved
<1>1. reserved \in Nat /\ charge \in 0..reserved BY DEF SettleRow, TypeOK, Row
<1>2. Settled(reserved, charge, cost) \in Row BY <1>1 DEF Settled, Row
<1>3. rows' = [rows EXCEPT ![id] = Settled(reserved, charge, cost)] BY DEF SettleRow
<1>4. Debit(charge - reserved) /\ charge - reserved \in Int
  BY <1>1 DEF SettleRow
<1> HIDE DEF charge, reserved
<1>5. available' \in Balance BY <1>4, DebitType DEF TypeOK
<1>6. QED BY <1>2, <1>3, <1>5 DEF TypeOK, Settled, SettleRow

\* The aggregate the next delta is measured from can be rounded.
GroupFits == group.known + group.pending \in Units

\* The knowledge aggregate stays within its columns and the account funded.
LEMMA WriteGroupType ==
  ASSUME TypeOK, GroupFits, NEW known \in Int, NEW pending \in Int,
         WriteGroup(known, pending)
  PROVE  /\ available' \in Balance
         /\ group' \in [known : Units, pending : Units, unfunded : Nat]
         /\ GroupFits'
<1> DEFINE delta == Commitment(known, pending) - Commitment(group.known, group.pending)
                      + group.unfunded
           short == available # Unlimited /\ delta > available
           debit == IF short THEN available ELSE delta
<1>1. known \in Units /\ pending \in Units /\ known + pending \in Units
  BY DEF WriteGroup
<1>2. delta \in Int
  BY <1>1, RoundNat DEF TypeOK, GroupFits, Commitment
<1>3. /\ Debit(debit)
      /\ group' = [known |-> known, pending |-> pending, unfunded |-> delta - debit]
  BY DEF WriteGroup
<1> HIDE DEF delta
<1>4. debit \in Int /\ delta - debit \in Nat
  BY <1>2, GateAssumption DEF TypeOK
<1>5. available' \in Balance BY <1>3, <1>4, DebitType DEF TypeOK
<1>6. QED BY <1>1, <1>3, <1>4, <1>5 DEF GroupFits

-----------------------------------------------------------------------------
(* The inductive invariant: types, an aggregate that can be rounded, and   *)
(* what a recovery has touched so far.  Without the last, a rollback could *)
(* not be told from reopening a settled row.                               *)
IInv == TypeOK /\ GroupFits /\ RecoverySparesOthers

LEMMA InitIInv == Init => IInv
  BY GateAssumption, UnitsAssumption
     DEF Init, IInv, UsageInit, KnowledgeInit, TypeOK, GroupFits, RecoverySparesOthers,
         NoRow, Row, NotRecovering, RecoveryTypeOK, NoAttempt, Attempt, AttemptStates

\* Opening a row leaves types right and touches no recovery.
LEMMA OpenRow ==
  ASSUME IInv, Unlocked, NEW id \in Ids, NEW reserved \in Nat,
         Debit(reserved), rows' = [rows EXCEPT ![id] = Opened(reserved)],
         UNCHANGED <<recovery, group, attempts>>
  PROVE  IInv'
<1>1. available' \in Balance BY DebitType DEF IInv, TypeOK
<1>2. rows' \in [Ids -> Row] BY DEF IInv, TypeOK, Opened, Row
<1>3. TypeOK' BY <1>1, <1>2 DEF IInv, TypeOK, RecoveryTypeOK
<1>4. RecoverySparesOthers' BY DEF RecoverySparesOthers, Unlocked
<1>5. QED BY <1>3, <1>4 DEF IInv, GroupFits

LEMMA SettleOne ==
  ASSUME IInv, Unlocked, NEW id \in Ids, NEW cost \in Nat, SettleRow(id, cost),
         UNCHANGED <<recovery, group, attempts>>
  PROVE  IInv'
<1>1. available' \in Balance /\ rows' \in [Ids -> Row] BY SettleRowType DEF IInv
<1>2. TypeOK' BY <1>1 DEF IInv, TypeOK, RecoveryTypeOK
<1>3. RecoverySparesOthers' BY DEF RecoverySparesOthers, Unlocked
<1>4. QED BY <1>2, <1>3 DEF IInv, GroupFits

LEMMA ReserveStep ==
  ASSUME IInv, ReserveCall, UNCHANGED knowledgeVars PROVE IInv'
<1>1. PICK id \in Ids, quote \in Quotes : Reserve(id, quote) BY DEF ReserveCall
<1>2. UnitsFor(quote) \in Nat BY <1>1, UnitsForNat DEF Reserve
<1>3. QED BY <1>1, <1>2, OpenRow DEF Reserve, knowledgeVars

LEMMA HoldStep ==
  ASSUME IInv, HoldReply, UNCHANGED knowledgeVars PROVE IInv'
<1>1. PICK id \in Ids, minimum \in Amounts, preferred \in Amounts : Hold(id, minimum, preferred)
  BY DEF HoldReply
<1>2. HoldFor(available, minimum, preferred) \in Nat
  BY <1>1, HoldForType, InputsAssumption DEF Hold, IInv, TypeOK
<1>3. QED BY <1>1, <1>2, OpenRow DEF Hold, knowledgeVars

LEMMA SettleStep ==
  ASSUME IInv, SettleCall \/ SettleUnknownCall, UNCHANGED knowledgeVars PROVE IInv'
<1>1. CASE SettleCall
  BY <1>1, SettleOne, InputsAssumption DEF SettleCall, Settle, knowledgeVars
<1>2. CASE SettleUnknownCall
  BY <1>2, SettleOne, CostAtReservationNat
     DEF SettleUnknownCall, SettleAtReservation, knowledgeVars, IInv, TypeOK
<1>3. QED BY <1>1, <1>2

LEMMA SettleHoldStep ==
  ASSUME IInv, SettleHold, UNCHANGED knowledgeVars PROVE IInv'
<1>1. PICK hold \in Ids, n \in 0..MaxCalls :
        \E ids \in [1..n -> Ids] : \E running : SettleReply(hold, n, ids, running)
  BY DEF SettleHold
<1>2. n \in Nat BY <1>1, InputsAssumption
<1>3. PICK ids \in [1..n -> Ids] : \E running : SettleReply(hold, n, ids, running) BY <1>1
<1>4. PICK running : SettleReply(hold, n, ids, running) BY <1>3
<1> DEFINE flow == FlowOf[hold]
           before(i) == IF i = 1 THEN FlowCost(flow) ELSE running[i - 1]
           paid(i) == IF i = 1 THEN FlowCharged(flow) ELSE UnitsFor(running[i - 1])
           cost(i) == running[i] - before(i)
           charge(i) == UnitsFor(running[i]) - paid(i)
           sum == IF n = 0 THEN 0 ELSE UnitsFor(running[n]) - FlowCharged(flow)
           reserved == rows[hold].reserved
           reused == n > 0 /\ ids[1] = hold
           callOf(id) == CHOOSE i \in 1..n : ids[i] = id
           made == {ids[i] : i \in 1..n} \ {hold}
           rowOf(i) == Settled(charge(i), charge(i), cost(i))
           holdRow == IF reused THEN Settled(reserved, charge(1), cost(1))
                                ELSE Settled(reserved, 0, 0)
<1>5. /\ Unlocked /\ TotalsParse(flow)
      /\ \A i \in 1..n : Priceable(running[i]) /\ cost(i) \in Nat /\ charge(i) \in Nat
      /\ sum <= reserved
      /\ Debit(sum - reserved)
      /\ UNCHANGED recovery
  BY <1>4 DEF SettleReply
<1>6. rows' = [id \in Ids |->
          IF id \in made THEN rowOf(callOf(id)) ELSE IF id = hold THEN holdRow ELSE rows[id]]
  BY <1>4 DEF SettleReply
<1>7. reserved \in Nat BY DEF IInv, TypeOK, Row
<1>8. sum \in Int BY <1>2, <1>5, UnitsForNat, SMTT(60) DEF TotalsParse
<1>9. available' \in Balance BY <1>5, <1>7, <1>8, DebitType DEF IInv, TypeOK
<1>10. ASSUME NEW id \in Ids PROVE rows'[id] \in Row
  <2>1. CASE id \in made
    <3>1. callOf(id) \in 1..n BY <2>1
    <3> HIDE DEF charge, cost, callOf, made
    <3>2. rows'[id] = rowOf(callOf(id)) BY <1>6, <2>1
    <3>3. QED BY <1>5, <3>1, <3>2 DEF Settled, Row
  <2>2. CASE id \notin made /\ id = hold
    <3>1. reused => 1 \in 1..n BY <1>2
    <3>2. rows'[id] = holdRow BY <1>6, <2>2
    <3> HIDE DEF charge, cost, reserved, reused
    <3>3. QED BY <1>5, <1>7, <3>1, <3>2 DEF Settled, Row
  <2>3. CASE id \notin made /\ id # hold
    <3>1. rows'[id] = rows[id] BY <1>6, <2>3
    <3>2. QED BY <3>1 DEF IInv, TypeOK
  <2>4. QED BY <2>1, <2>2, <2>3
<1>11. rows' \in [Ids -> Row] BY <1>6, <1>10
<1>12. TypeOK' BY <1>5, <1>9, <1>11 DEF IInv, TypeOK, RecoveryTypeOK, knowledgeVars
<1>13. RecoverySparesOthers' BY <1>5 DEF RecoverySparesOthers, Unlocked
<1>14. QED BY <1>12, <1>13 DEF IInv, GroupFits, knowledgeVars

LEMMA BeginRecoveryStep ==
  ASSUME IInv, BeginReplyRecovery, UNCHANGED knowledgeVars PROVE IInv'
<1>1. PICK flow \in Flows, reply \in Replies : BeginRecovery(flow, reply)
  BY DEF BeginReplyRecovery
<1>2. TypeOK'
  BY <1>1 DEF BeginRecovery, Recovering, IInv, TypeOK, RecoveryTypeOK, knowledgeVars
<1>3. RecoverySparesOthers' BY <1>1 DEF BeginRecovery, Recovering, RecoverySparesOthers
<1>4. QED BY <1>1, <1>2, <1>3 DEF IInv, GroupFits, knowledgeVars

LEMMA RecoverHoldStep ==
  ASSUME IInv, RecoverNextHold, UNCHANGED knowledgeVars PROVE IInv'
<1>1. PICK id \in Ids : RecoverHold(id) BY DEF RecoverNextHold
<1>2. CostAtReservation(id) \in Nat BY CostAtReservationNat DEF IInv, TypeOK
<1>3. /\ available' \in Balance /\ rows' \in [Ids -> Row]
      /\ rows[id].state = "open" /\ rows'[id].state = "settled"
      /\ \A other \in Ids \ {id} : rows'[other] = rows[other]
  BY <1>1, <1>2, SettleRowType DEF RecoverHold, IInv
<1>4. TypeOK' BY <1>1, <1>3 DEF RecoverHold, IInv, TypeOK, RecoveryTypeOK, knowledgeVars
<1>5. RecoverySparesOthers'
  <2>1. SUFFICES ASSUME NEW other \in Ids, rows'[other] # recovery.rows[other]
                 PROVE  /\ FlowOf[other] = recovery.flow
                        /\ ReplyOf[other] \notin {NoReply, recovery.reply}
                        /\ recovery.rows[other].state = "open"
                        /\ rows'[other].state = "settled"
    BY <1>1 DEF RecoverHold, RecoverySparesOthers
  <2>2. CASE other # id
    BY <1>1, <1>3, <2>1, <2>2 DEF RecoverHold, IInv, RecoverySparesOthers
  <2>3. CASE other = id
    <3>1. rows[id] = recovery.rows[id]
      BY <1>1, <1>3 DEF RecoverHold, IInv, RecoverySparesOthers
    <3>2. QED BY <1>1, <1>3, <2>3, <3>1 DEF RecoverHold, Abandoned, FlowIds
  <2>4. QED BY <2>2, <2>3
<1>6. QED BY <1>4, <1>5 DEF IInv, GroupFits, knowledgeVars

LEMMA CommitStep ==
  ASSUME IInv, CommitRecovery, UNCHANGED knowledgeVars PROVE IInv'
  BY DEF CommitRecovery, NotRecovering, IInv, TypeOK, RecoveryTypeOK, GroupFits,
         RecoverySparesOthers, knowledgeVars

LEMMA AbortStep ==
  ASSUME IInv, AbortRecovery, UNCHANGED knowledgeVars PROVE IInv'
<1>1. recovery # NotRecovering BY DEF AbortRecovery, NotRecovering
<1>2. recovery \in [active : {TRUE}, flow : Flows, reply : Replies,
                   rows : [Ids -> Row], available : Balance]
  BY <1>1 DEF IInv, TypeOK, RecoveryTypeOK
<1>3. recovery.rows \in [Ids -> Row] /\ recovery.available \in Balance
  BY <1>2, Zenon
<1>4. QED
  BY <1>3 DEF AbortRecovery, NotRecovering, IInv, TypeOK, RecoveryTypeOK, GroupFits,
              RecoverySparesOthers, knowledgeVars

LEMMA UsageStep == ASSUME IInv, UsageNext PROVE IInv'
  BY ReserveStep, HoldStep, SettleStep, SettleHoldStep, BeginRecoveryStep,
     RecoverHoldStep, CommitStep, AbortStep DEF UsageNext

-----------------------------------------------------------------------------
LEMMA KnowledgeWrite ==
  ASSUME IInv, Unlocked, NEW known \in Int, NEW pending \in Int,
         WriteGroup(known, pending), UNCHANGED usageVars,
         attempts' \in [KAttempts -> Attempt]
  PROVE  IInv'
<1>1. /\ available' \in Balance
      /\ group' \in [known : Units, pending : Units, unfunded : Nat]
      /\ GroupFits'
  BY WriteGroupType DEF IInv
<1>2. TypeOK' BY <1>1 DEF IInv, TypeOK, RecoveryTypeOK, usageVars
<1>3. RecoverySparesOthers' BY DEF RecoverySparesOthers, Unlocked, usageVars
<1>4. QED BY <1>1, <1>2, <1>3 DEF IInv

LEMMA KnowledgeStep == ASSUME IInv, KnowledgeNext PROVE IInv'
<1>1. PICK a \in KAttempts :
        \/ \E upper \in Quotes : ReserveKnowledge(a, upper)
        \/ MarkDispatched(a)
        \/ \E cost \in Costs : RecordKnown(a, cost)
        \/ \E cost \in Costs : ReplayKnown(a, cost)
        \/ RecordUnknown(a)
        \/ RecordUndispatched(a)
        \/ RecordMarkedUndispatched(a)
  BY DEF KnowledgeNext
<1>2. Unlocked /\ UNCHANGED usageVars BY DEF KnowledgeNext
<1>3. group.known \in Int /\ group.pending \in Int /\ attempts[a] \in Attempt
  BY UnitsAssumption DEF IInv, TypeOK
<1>4. attempts[a].upper * Rate \in Int BY <1>3, UnitsAssumption DEF Attempt
<1>5. attempts \in [KAttempts -> Attempt] BY DEF IInv, TypeOK
<1>6. ASSUME NEW upper \in Quotes, ReserveKnowledge(a, upper) PROVE IInv'
  <2>1. upper \in Nat /\ upper * Rate \in Int BY InputsAssumption, UnitsAssumption
  <2>2. attempts' \in [KAttempts -> Attempt]
    BY <1>5, <1>6, <2>1 DEF ReserveKnowledge, Attempt, AttemptStates
  <2>3. QED BY <1>2, <1>3, <1>6, <2>1, <2>2, KnowledgeWrite DEF ReserveKnowledge
<1>7. CASE MarkDispatched(a) \/ RecordUnknown(a)
  <2>1. attempts' \in [KAttempts -> Attempt] /\ UNCHANGED <<available, group>>
    BY <1>5, <1>7 DEF MarkDispatched, RecordUnknown, Attempt, AttemptStates
  <2>2. QED
    BY <1>2, <2>1 DEF IInv, TypeOK, RecoveryTypeOK, GroupFits, RecoverySparesOthers,
                      Unlocked, usageVars
<1>8. ASSUME NEW cost \in Costs, RecordKnown(a, cost) PROVE IInv'
  <2>1. cost \in Nat /\ cost * Rate \in Int BY InputsAssumption, UnitsAssumption
  <2>2. attempts' \in [KAttempts -> Attempt]
    BY <1>5, <1>8, <2>1, ZenonT(60) DEF RecordKnown, Attempt, AttemptStates
  <2>3. group.known + cost * Rate \in Int /\ group.pending - attempts[a].upper * Rate \in Int
    BY <1>3, <1>4, <2>1
  <2>4. QED BY <1>2, <1>8, <2>2, <2>3, KnowledgeWrite DEF RecordKnown
<1>9. ASSUME NEW cost \in Costs, ReplayKnown(a, cost) PROVE IInv'
  BY <1>2, <1>3, <1>5, <1>9, KnowledgeWrite DEF ReplayKnown
<1>10. CASE RecordUndispatched(a) \/ RecordMarkedUndispatched(a)
  <2>1. PICK from : Release(a, from)
    BY <1>10 DEF RecordUndispatched, RecordMarkedUndispatched
  <2>2. attempts' \in [KAttempts -> Attempt]
    BY <1>5, <2>1 DEF Release, Attempt, AttemptStates
  <2>3. group.pending - attempts[a].upper * Rate \in Int BY <1>3, <1>4
  <2>4. QED BY <1>2, <1>3, <2>1, <2>2, <2>3, KnowledgeWrite DEF Release
<1>11. QED BY <1>1, <1>6, <1>7, <1>8, <1>9, <1>10

LEMMA StepIInv == IInv /\ [Next]_vars => IInv'
<1>1. ASSUME IInv, UNCHANGED vars PROVE IInv'
  BY <1>1 DEF vars, IInv, TypeOK, RecoveryTypeOK, GroupFits, RecoverySparesOthers
<1>2. QED BY <1>1, UsageStep, KnowledgeStep DEF Next

LEMMA Inductive == Spec => []IInv
  BY InitIInv, StepIInv, PTL DEF Spec

-----------------------------------------------------------------------------
(* The accounts.  They are stated of rows and a balance, because a         *)
(* recovery that rolls back restores those it began with.                  *)
CostsOf(r) == [id \in Ids |-> r[id].cost]
ChargesOf(r) == [id \in Ids |-> r[id].charged]
TakenOf(r) ==
  [id \in Ids |-> IF r[id].state = "open" THEN r[id].reserved ELSE r[id].charged]

\* What the account funds of the knowledge aggregate.
Committed == Commitment(group.known, group.pending) - group.unfunded

UnsettledFree(r) ==
  \A id \in Ids : r[id].state # "settled" => r[id].charged = 0 /\ r[id].cost = 0

FlowsRounded(r) ==
  \A flow \in Flows :
    /\ Priceable(SumFunctionOnSet(CostsOf(r), FlowIds(flow)))
    /\ SumFunctionOnSet(ChargesOf(r), FlowIds(flow))
         = UnitsFor(SumFunctionOnSet(CostsOf(r), FlowIds(flow)))

Conserved(r, balance) ==
  balance # Unlimited => balance + SumFunctionOnSet(TakenOf(r), Ids) + Committed = Granted

Accounts(r, balance) == UnsettledFree(r) /\ FlowsRounded(r) /\ Conserved(r, balance)

AccountsInv ==
  /\ Accounts(rows, available)
  /\ recovery.active => Accounts(recovery.rows, recovery.available)

-----------------------------------------------------------------------------
\* Sums over rows.

LEMMA FlowIdsFinite ==
  ASSUME NEW flow PROVE IsFiniteSet(FlowIds(flow)) /\ FlowIds(flow) \subseteq Ids
<1>1. FlowIds(flow) \subseteq Ids BY DEF FlowIds
<1>2. QED BY <1>1, UsageAssumption, FS_Subset

LEMMA RowNumbers ==
  ASSUME NEW r \in [Ids -> Row]
  PROVE  /\ \A id \in Ids : CostsOf(r)[id] \in Int
         /\ \A id \in Ids : ChargesOf(r)[id] \in Int
         /\ \A id \in Ids : TakenOf(r)[id] \in Int
<1>1. ASSUME NEW id \in Ids
      PROVE  r[id].cost \in Nat /\ r[id].charged \in Nat /\ r[id].reserved \in Nat
  BY DEF Row
<1>2. QED BY <1>1 DEF CostsOf, ChargesOf, TakenOf

LEMMA RowSums ==
  ASSUME NEW r \in [Ids -> Row], NEW flow
  PROVE  /\ SumFunctionOnSet(CostsOf(r), FlowIds(flow)) \in Int
         /\ SumFunctionOnSet(ChargesOf(r), FlowIds(flow)) \in Int
         /\ SumFunctionOnSet(TakenOf(r), Ids) \in Int
<1>1. IsFiniteSet(FlowIds(flow)) /\ FlowIds(flow) \subseteq Ids BY FlowIdsFinite
<1>2. SumFunctionOnSet(TakenOf(r), Ids) \in Int BY RowNumbers, UsageAssumption, SumInt
<1>3. SumFunctionOnSet(CostsOf(r), FlowIds(flow)) \in Int BY <1>1, RowNumbers, SumInt
<1>4. SumFunctionOnSet(ChargesOf(r), FlowIds(flow)) \in Int BY <1>1, RowNumbers, SumInt
<1>5. QED BY <1>2, <1>3, <1>4

RowDiffers(r, s, id) ==
  /\ r \in [Ids -> Row] /\ s \in [Ids -> Row] /\ id \in Ids
  /\ \A other \in Ids \ {id} : s[other] = r[other]

\* When one row changes, its flow's sums and the account's change with it.
LEMMA RowTaken ==
  ASSUME NEW r, NEW s, NEW id, RowDiffers(r, s, id)
  PROVE  SumFunctionOnSet(TakenOf(s), Ids)
           = SumFunctionOnSet(TakenOf(r), Ids) - TakenOf(r)[id] + TakenOf(s)[id]
<1>1. DifferAt(TakenOf(r), TakenOf(s), Ids, id)
  BY RowNumbers, UsageAssumption DEF DifferAt, RowDiffers, TakenOf
<1>2. QED BY <1>1, SumChanges

LEMMA RowOfFlow ==
  ASSUME NEW r, NEW s, NEW id, RowDiffers(r, s, id)
  PROVE  /\ SumFunctionOnSet(CostsOf(s), FlowIds(FlowOf[id]))
              = SumFunctionOnSet(CostsOf(r), FlowIds(FlowOf[id])) - r[id].cost + s[id].cost
         /\ SumFunctionOnSet(ChargesOf(s), FlowIds(FlowOf[id]))
              = SumFunctionOnSet(ChargesOf(r), FlowIds(FlowOf[id])) - r[id].charged + s[id].charged
<1> DEFINE S == FlowIds(FlowOf[id])
<1>1. IsFiniteSet(S) /\ S \subseteq Ids BY FlowIdsFinite
<1>2. id \in S BY DEF FlowIds, RowDiffers
<1>3. \A y \in S : /\ CostsOf(r)[y] \in Int /\ CostsOf(s)[y] \in Int
                   /\ ChargesOf(r)[y] \in Int /\ ChargesOf(s)[y] \in Int
  BY <1>1, RowNumbers DEF RowDiffers
<1>4. \A y \in S \ {id} : CostsOf(s)[y] = CostsOf(r)[y] /\ ChargesOf(s)[y] = ChargesOf(r)[y]
  BY <1>1 DEF RowDiffers, CostsOf, ChargesOf
<1>5. /\ CostsOf(r)[id] = r[id].cost /\ CostsOf(s)[id] = s[id].cost
      /\ ChargesOf(r)[id] = r[id].charged /\ ChargesOf(s)[id] = s[id].charged
  BY DEF RowDiffers, CostsOf, ChargesOf
<1> HIDE DEF S
<1>6. DifferAt(CostsOf(r), CostsOf(s), S, id) /\ DifferAt(ChargesOf(r), ChargesOf(s), S, id)
  BY <1>1, <1>2, <1>3, <1>4 DEF DifferAt
<1>7. QED BY <1>5, <1>6, SumChanges DEF S

LEMMA RowOffFlow ==
  ASSUME NEW r, NEW s, NEW id, RowDiffers(r, s, id), NEW flow, FlowOf[id] # flow
  PROVE  /\ SumFunctionOnSet(CostsOf(s), FlowIds(flow))
              = SumFunctionOnSet(CostsOf(r), FlowIds(flow))
         /\ SumFunctionOnSet(ChargesOf(s), FlowIds(flow))
              = SumFunctionOnSet(ChargesOf(r), FlowIds(flow))
<1> DEFINE S == FlowIds(flow)
<1>1. IsFiniteSet(S) /\ S \subseteq Ids BY FlowIdsFinite
<1>2. id \notin S BY DEF FlowIds
<1>3. \A y \in S : CostsOf(s)[y] \in Int /\ CostsOf(s)[y] = CostsOf(r)[y]
  BY <1>1, <1>2, RowNumbers DEF RowDiffers, CostsOf
<1>4. \A y \in S : ChargesOf(s)[y] \in Int /\ ChargesOf(s)[y] = ChargesOf(r)[y]
  BY <1>1, <1>2, RowNumbers DEF RowDiffers, ChargesOf
<1> HIDE DEF S
<1>5. SumFunctionOnSet(CostsOf(s), S) = SumFunctionOnSet(CostsOf(r), S)
  BY <1>1, <1>3, SumAgrees
<1>6. SumFunctionOnSet(ChargesOf(s), S) = SumFunctionOnSet(ChargesOf(r), S)
  BY <1>1, <1>4, SumAgrees
<1>7. QED BY <1>5, <1>6 DEF S

LEMMA CommittedInt == ASSUME TypeOK, GroupFits PROVE Committed \in Int
  BY RoundNat DEF TypeOK, GroupFits, Committed, Commitment

\* A balance that moves by what the rows took is conserved.
LEMMA DebitConserves ==
  ASSUME TypeOK, GroupFits, rows' \in [Ids -> Row], NEW units \in Int, Debit(units),
         Conserved(rows, available), UNCHANGED group,
         SumFunctionOnSet(TakenOf(rows'), Ids) = SumFunctionOnSet(TakenOf(rows), Ids) + units
  PROVE  Conserved(rows, available)'
<1>1. SUFFICES ASSUME available' # Unlimited
               PROVE  available' + SumFunctionOnSet(TakenOf(rows'), Ids) + Committed' = Granted
  BY DEF Conserved
<1>2. available # Unlimited /\ available' = available - units BY <1>1 DEF Debit, Debited
<1>3. available \in Int BY <1>2 DEF TypeOK
<1>4. SumFunctionOnSet(TakenOf(rows), Ids) \in Int BY RowSums DEF TypeOK
<1>5. Committed \in Int /\ Committed' = Committed BY CommittedInt DEF Committed
<1>6. available + SumFunctionOnSet(TakenOf(rows), Ids) + Committed = Granted
  BY <1>2 DEF Conserved
<1>7. QED BY <1>2, <1>3, <1>4, <1>5, <1>6

-----------------------------------------------------------------------------
\* One lemma per operation on rows: what it does to the accounts.

LEMMA OpenAccounts ==
  ASSUME TypeOK, GroupFits, Accounts(rows, available), NEW id \in Ids, NEW reserved \in Nat,
         rows[id].state = "none", Debit(reserved), rows' = [rows EXCEPT ![id] = Opened(reserved)],
         UNCHANGED group
  PROVE  Accounts(rows, available)'
<1>1. rows \in [Ids -> Row] /\ rows' \in [Ids -> Row] BY DEF TypeOK, Opened, Row
<1>2. /\ rows'[id] = Opened(reserved)
      /\ \A other \in Ids \ {id} : rows'[other] = rows[other]
      /\ RowDiffers(rows, rows', id)
  BY <1>1 DEF RowDiffers
<1>3. /\ rows[id].cost = 0 /\ rows[id].charged = 0
      /\ rows'[id].cost = 0 /\ rows'[id].charged = 0 /\ rows'[id].reserved = reserved
      /\ rows'[id].state = "open"
  BY <1>2 DEF Accounts, UnsettledFree, Opened
<1>4. UnsettledFree(rows)' BY <1>2, <1>3 DEF Accounts, UnsettledFree
<1>5. FlowsRounded(rows)'
  <2>1. SUFFICES ASSUME NEW flow \in Flows
                 PROVE  /\ SumFunctionOnSet(CostsOf(rows'), FlowIds(flow))
                             = SumFunctionOnSet(CostsOf(rows), FlowIds(flow))
                        /\ SumFunctionOnSet(ChargesOf(rows'), FlowIds(flow))
                             = SumFunctionOnSet(ChargesOf(rows), FlowIds(flow))
    BY DEF Accounts, FlowsRounded
  <2>2. /\ SumFunctionOnSet(CostsOf(rows), FlowIds(flow)) \in Int
        /\ SumFunctionOnSet(ChargesOf(rows), FlowIds(flow)) \in Int
    BY <1>1, RowSums
  <2>3. CASE FlowOf[id] # flow BY <1>2, <2>3, RowOffFlow
  <2>4. CASE FlowOf[id] = flow
    <3>1. /\ SumFunctionOnSet(CostsOf(rows'), FlowIds(flow))
               = SumFunctionOnSet(CostsOf(rows), FlowIds(flow)) - rows[id].cost + rows'[id].cost
          /\ SumFunctionOnSet(ChargesOf(rows'), FlowIds(flow))
               = SumFunctionOnSet(ChargesOf(rows), FlowIds(flow)) - rows[id].charged
                   + rows'[id].charged
      BY ONLY <1>2, <2>4, RowOfFlow
    <3>2. QED BY <1>3, <2>2, <3>1
  <2>5. QED BY <2>3, <2>4
<1>6. TakenOf(rows)[id] = 0 /\ TakenOf(rows')[id] = reserved BY <1>3 DEF TakenOf
<1>7. Conserved(rows, available)'
  <2>1. SumFunctionOnSet(TakenOf(rows'), Ids) = SumFunctionOnSet(TakenOf(rows), Ids) + reserved
    <3>1. SumFunctionOnSet(TakenOf(rows), Ids) \in Int BY <1>1, RowSums
    <3>2. SumFunctionOnSet(TakenOf(rows'), Ids)
            = SumFunctionOnSet(TakenOf(rows), Ids) - TakenOf(rows)[id] + TakenOf(rows')[id]
      BY <1>2, RowTaken
    <3>3. QED BY <1>6, <3>1, <3>2
  <2>2. reserved \in Int OBVIOUS
  <2>3. QED BY <1>1, <2>1, <2>2, DebitConserves DEF Accounts
<1>8. QED BY <1>4, <1>5, <1>7 DEF Accounts

LEMMA SettleRowAccounts ==
  ASSUME TypeOK, GroupFits, Accounts(rows, available), NEW id \in Ids, NEW cost \in Nat,
         SettleRow(id, cost), UNCHANGED group
  PROVE  Accounts(rows, available)'
<1> DEFINE billed == FlowOf[id]
           charge == ChargeFor(billed, cost)
           reserved == rows[id].reserved
<1>1. /\ rows \in [Ids -> Row] /\ rows' \in [Ids -> Row]
      /\ \A other \in Ids \ {id} : rows'[other] = rows[other]
      /\ RowDiffers(rows, rows', id)
  BY SettleRowType DEF TypeOK, RowDiffers
<1>2. /\ rows[id].state = "open" /\ rows'[id] = Settled(reserved, charge, cost)
      /\ charge \in Int /\ reserved \in Nat /\ Debit(charge - reserved)
      /\ Priceable(FlowCost(billed) + cost)
  BY DEF SettleRow, TypeOK, Row
<1>3. /\ rows[id].cost = 0 /\ rows[id].charged = 0
      /\ rows'[id].cost = cost /\ rows'[id].charged = charge /\ rows'[id].state = "settled"
  BY <1>2 DEF Accounts, UnsettledFree, Settled
<1>4. UnsettledFree(rows)' BY <1>1, <1>3 DEF Accounts, UnsettledFree
<1>5. ASSUME NEW flow \in Flows
      PROVE  /\ Priceable(SumFunctionOnSet(CostsOf(rows'), FlowIds(flow)))
             /\ SumFunctionOnSet(ChargesOf(rows'), FlowIds(flow))
                  = UnitsFor(SumFunctionOnSet(CostsOf(rows'), FlowIds(flow)))
  <2>1. CASE flow # billed
    <3>1. /\ SumFunctionOnSet(CostsOf(rows'), FlowIds(flow))
               = SumFunctionOnSet(CostsOf(rows), FlowIds(flow))
          /\ SumFunctionOnSet(ChargesOf(rows'), FlowIds(flow))
               = SumFunctionOnSet(ChargesOf(rows), FlowIds(flow))
      BY <1>1, <2>1, RowOffFlow
    <3>2. QED BY <3>1 DEF Accounts, FlowsRounded
  <2>2. CASE flow = billed
    <3>1. /\ FlowCost(billed) = SumFunctionOnSet(CostsOf(rows), FlowIds(flow))
          /\ FlowCharged(billed) = SumFunctionOnSet(ChargesOf(rows), FlowIds(flow))
      BY <2>2 DEF FlowCost, FlowCharged, CostsOf, ChargesOf
    <3>2. FlowCost(billed) \in Int /\ FlowCharged(billed) \in Int BY <1>1, <3>1, RowSums
    <3>3. /\ SumFunctionOnSet(CostsOf(rows'), FlowIds(flow)) = FlowCost(billed) + cost
          /\ SumFunctionOnSet(ChargesOf(rows'), FlowIds(flow)) = FlowCharged(billed) + charge
      <4>1. /\ SumFunctionOnSet(CostsOf(rows'), FlowIds(flow)) = FlowCost(billed) - 0 + cost
            /\ SumFunctionOnSet(ChargesOf(rows'), FlowIds(flow)) = FlowCharged(billed) - 0 + charge
        BY <1>1, <1>3, <2>2, <3>1, RowOfFlow
      <4>2. QED BY <1>2, <3>2, <4>1
    <3>4. charge = UnitsFor(FlowCost(billed) + cost) - FlowCharged(billed) BY DEF ChargeFor
    <3>5. UnitsFor(FlowCost(billed) + cost) \in Nat BY <1>2, UnitsForNat
    <3> HIDE DEF charge, billed
    <3>6. QED BY <1>2, <3>2, <3>3, <3>4, <3>5
  <2>3. QED BY <2>1, <2>2
<1>6. FlowsRounded(rows)' BY <1>5 DEF FlowsRounded
<1>7. TakenOf(rows)[id] = reserved /\ TakenOf(rows')[id] = charge BY <1>2, <1>3 DEF TakenOf
<1>8. Conserved(rows, available)'
  <2> HIDE DEF charge, reserved, billed
  <2>1. SumFunctionOnSet(TakenOf(rows'), Ids)
          = SumFunctionOnSet(TakenOf(rows), Ids) + (charge - reserved)
    <3>1. SumFunctionOnSet(TakenOf(rows), Ids) \in Int BY <1>1, RowSums
    <3>2. SumFunctionOnSet(TakenOf(rows'), Ids)
            = SumFunctionOnSet(TakenOf(rows), Ids) - TakenOf(rows)[id] + TakenOf(rows')[id]
      BY <1>1, RowTaken
    <3>3. QED BY <1>2, <1>7, <3>1, <3>2
  <2>2. charge - reserved \in Int BY <1>2
  <2>3. QED BY <1>1, <1>2, <2>1, <2>2, DebitConserves DEF Accounts
<1>9. QED BY <1>4, <1>6, <1>8 DEF Accounts

\* The calls of a reply are inserted into its flow one after the other.
LEMMA SettleReplyAccounts ==
  ASSUME TypeOK, GroupFits, Accounts(rows, available), rows' \in [Ids -> Row],
         NEW hold \in Ids, NEW n \in Nat, NEW ids \in [1..n -> Ids],
         \A i, j \in 1..n : ids[i] = ids[j] => i = j,
         NEW running, SettleReply(hold, n, ids, running), UNCHANGED group
  PROVE  Accounts(rows, available)'
<1> DEFINE billed == FlowOf[hold]
           S == FlowIds(billed)
           before(i) == IF i = 1 THEN FlowCost(billed) ELSE running[i - 1]
           paid(i) == IF i = 1 THEN FlowCharged(billed) ELSE UnitsFor(running[i - 1])
           cost(i) == running[i] - before(i)
           charge(i) == UnitsFor(running[i]) - paid(i)
           sum == IF n = 0 THEN 0 ELSE UnitsFor(running[n]) - FlowCharged(billed)
           reserved == rows[hold].reserved
           reused == n > 0 /\ ids[1] = hold
           callOf(id) == CHOOSE i \in 1..n : ids[i] = id
           made == {ids[i] : i \in 1..n} \ {hold}
           rowOf(i) == Settled(charge(i), charge(i), cost(i))
           holdRow == IF reused THEN Settled(reserved, charge(1), cost(1))
                                ELSE Settled(reserved, 0, 0)
           costAt == [i \in 0..n |-> IF i = 0 THEN FlowCost(billed) ELSE running[i]]
           chargeAt == [i \in 0..n |-> IF i = 0 THEN FlowCharged(billed) ELSE UnitsFor(running[i])]
<1>1. /\ rows[hold].state = "open"
      /\ \A i \in 1..n : Priceable(running[i])
      /\ \A i \in 1..n : ids[i] = hold => i = 1
      /\ \A id \in made : rows[id].state = "none" /\ FlowOf[id] = billed
      /\ Debit(sum - reserved)
  BY DEF SettleReply
<1>2. rows' = [id \in Ids |->
          IF id \in made THEN rowOf(callOf(id)) ELSE IF id = hold THEN holdRow ELSE rows[id]]
  BY DEF SettleReply
<1>3. rows \in [Ids -> Row] /\ reserved \in Nat BY DEF TypeOK, Row
<1>4. \A i \in 1..n : running[i] \in Nat /\ UnitsFor(running[i]) \in Nat
  BY <1>1, UnitsForNat DEF Priceable
<1>5. /\ FlowCost(billed) = SumFunctionOnSet(CostsOf(rows), S) /\ FlowCost(billed) \in Int
      /\ FlowCharged(billed) = SumFunctionOnSet(ChargesOf(rows), S) /\ FlowCharged(billed) \in Int
  <2>1. /\ FlowCost(billed) = SumFunctionOnSet(CostsOf(rows), S)
        /\ FlowCharged(billed) = SumFunctionOnSet(ChargesOf(rows), S)
    BY DEF FlowCost, FlowCharged, CostsOf, ChargesOf
  <2>2. QED BY <1>3, <2>1, RowSums
<1>6. /\ \A i \in 0..n : costAt[i] \in Int /\ chargeAt[i] \in Int
      /\ \A i \in 1..n : cost(i) = costAt[i] - costAt[i - 1]
      /\ \A i \in 1..n : charge(i) = chargeAt[i] - chargeAt[i - 1]
      /\ sum = chargeAt[n] - chargeAt[0]
  <2>1. \A i \in 1..n : i - 1 \in 0..n /\ i \in 0..n /\ i # 0 /\ (i - 1 = 0 <=> i = 1)
                         /\ (i # 1 => i - 1 \in 1..n)
    OBVIOUS
  <2>2. \A i \in 0..n : costAt[i] \in Int /\ chargeAt[i] \in Int BY <1>4, <1>5
  <2>3. \A i \in 1..n : cost(i) = costAt[i] - costAt[i - 1] BY <2>1
  <2>4. \A i \in 1..n : charge(i) = chargeAt[i] - chargeAt[i - 1] BY <2>1
  <2>5. sum = chargeAt[n] - chargeAt[0]
    <3>1. CASE n = 0 BY <1>5, <3>1
    <3>2. CASE n # 0 BY <3>2
    <3>3. QED BY <3>1, <3>2
  <2>6. QED BY <2>2, <2>3, <2>4, <2>5
<1>7. rows'[hold] = holdRow BY <1>2
<1>8. ASSUME NEW i \in 1..n
      PROVE  /\ ids[i] \in S
             /\ rows[ids[i]].state # "settled" /\ rows'[ids[i]].state = "settled"
             /\ rows'[ids[i]].cost = cost(i) /\ rows'[ids[i]].charged = charge(i)
  <2>1. CASE ids[i] = hold
    <3>1. i = 1 /\ reused BY <1>1, <2>1
    <3> HIDE DEF charge, cost, reused, reserved
    <3>2. rows'[ids[i]] = Settled(reserved, charge(i), cost(i)) BY <1>7, <2>1, <3>1
    <3>3. QED BY <1>1, <2>1, <3>2 DEF Settled, FlowIds
  <2>2. CASE ids[i] # hold
    <3>1. ids[i] \in made BY <2>2
    <3>2. callOf(ids[i]) = i
      <4>1. callOf(ids[i]) \in 1..n /\ ids[callOf(ids[i])] = ids[i] OBVIOUS
      <4>2. QED BY <4>1
    <3> HIDE DEF charge, cost, callOf, made
    <3>3. rows'[ids[i]] = Settled(charge(i), charge(i), cost(i)) BY <1>2, <3>1, <3>2
    <3>4. QED BY <1>1, <3>1, <3>3 DEF Settled, FlowIds
  <2>3. QED BY <2>1, <2>2
<1>9. \A id \in Ids : id # hold /\ (\A i \in 1..n : ids[i] # id) => rows'[id] = rows[id]
  BY <1>2
<1>10. /\ rows[hold].cost = 0 /\ rows[hold].charged = 0 /\ rows'[hold].state = "settled"
       /\ (\A i \in 1..n : ids[i] # hold) => rows'[hold].cost = 0 /\ rows'[hold].charged = 0
  BY <1>1, <1>7 DEF Accounts, UnsettledFree, Settled
<1>11. \A i \in 1..n : rows[ids[i]].cost = 0 /\ rows[ids[i]].charged = 0
  BY <1>8 DEF Accounts, UnsettledFree
<1> HIDE DEF cost, charge, costAt, chargeAt, sum, reserved, holdRow, made, callOf, S
<1>12. UnsettledFree(rows)'
  BY <1>8, <1>9, <1>10 DEF Accounts, UnsettledFree
<1>13. IsFiniteSet(S) /\ S \subseteq Ids BY FlowIdsFinite DEF S
<1>14. /\ \A id \in Ids : CostsOf(rows)[id] = rows[id].cost /\ CostsOf(rows')[id] = rows'[id].cost
       /\ \A id \in Ids : /\ ChargesOf(rows)[id] = rows[id].charged
                          /\ ChargesOf(rows')[id] = rows'[id].charged
  BY DEF CostsOf, ChargesOf
<1>15. Inserts(CostsOf(rows), CostsOf(rows'), S, n, ids, costAt)
  <2>1. \A y \in S : CostsOf(rows)[y] \in Int /\ CostsOf(rows')[y] \in Int
    BY <1>3, <1>13, RowNumbers
  <2>2. \A i \in 1..n : CostsOf(rows)[ids[i]] = 0
                          /\ CostsOf(rows')[ids[i]] = costAt[i] - costAt[i - 1]
    BY <1>6, <1>8, <1>11, <1>14, ZenonT(60)
  <2>3. \A y \in S : (\A i \in 1..n : ids[i] # y) => CostsOf(rows')[y] = CostsOf(rows)[y]
    BY <1>9, <1>10, <1>13, <1>14
  <2>4. QED BY <1>6, <1>8, <1>13, <2>1, <2>2, <2>3 DEF Inserts
<1>16. Inserts(ChargesOf(rows), ChargesOf(rows'), S, n, ids, chargeAt)
  <2>1. \A y \in S : ChargesOf(rows)[y] \in Int /\ ChargesOf(rows')[y] \in Int
    BY <1>3, <1>13, RowNumbers
  <2>2. \A i \in 1..n : ChargesOf(rows)[ids[i]] = 0
                          /\ ChargesOf(rows')[ids[i]] = chargeAt[i] - chargeAt[i - 1]
    BY <1>6, <1>8, <1>11, <1>14, ZenonT(60)
  <2>3. \A y \in S : (\A i \in 1..n : ids[i] # y) => ChargesOf(rows')[y] = ChargesOf(rows)[y]
    BY <1>9, <1>10, <1>13, <1>14
  <2>4. QED BY <1>6, <1>8, <1>13, <2>1, <2>2, <2>3 DEF Inserts
<1>17. FlowsRounded(rows)'
  <2>1. SUFFICES ASSUME NEW flow \in Flows
                 PROVE  /\ Priceable(SumFunctionOnSet(CostsOf(rows'), FlowIds(flow)))
                        /\ SumFunctionOnSet(ChargesOf(rows'), FlowIds(flow))
                             = UnitsFor(SumFunctionOnSet(CostsOf(rows'), FlowIds(flow)))
    BY DEF FlowsRounded
  <2>2. CASE flow # billed
    <3> DEFINE T == FlowIds(flow)
    <3>1. IsFiniteSet(T) /\ T \subseteq Ids BY FlowIdsFinite
    <3>2. \A y \in T : y # hold /\ \A i \in 1..n : ids[i] # y
      BY <1>8, <2>2 DEF FlowIds, S
    <3>3. \A y \in T : rows'[y] = rows[y] BY <1>9, <3>1, <3>2
    <3>4. \A y \in T : CostsOf(rows')[y] \in Int /\ CostsOf(rows')[y] = CostsOf(rows)[y]
      BY <1>14, <3>1, <3>3, RowNumbers
    <3>5. \A y \in T : ChargesOf(rows')[y] \in Int /\ ChargesOf(rows')[y] = ChargesOf(rows)[y]
      BY <1>14, <3>1, <3>3, RowNumbers
    <3> HIDE DEF T
    <3>6. SumFunctionOnSet(CostsOf(rows'), T) = SumFunctionOnSet(CostsOf(rows), T)
      BY ONLY <3>1, <3>4, SumAgrees
    <3>7. SumFunctionOnSet(ChargesOf(rows'), T) = SumFunctionOnSet(ChargesOf(rows), T)
      BY ONLY <3>1, <3>5, SumAgrees
    <3>8. QED BY <3>6, <3>7 DEF T, Accounts, FlowsRounded
  <2>3. CASE flow = billed
    <3>1. /\ SumFunctionOnSet(CostsOf(rows'), S) = FlowCost(billed) + (costAt[n] - costAt[0])
          /\ SumFunctionOnSet(ChargesOf(rows'), S) = FlowCharged(billed) + (chargeAt[n] - chargeAt[0])
      BY <1>5, <1>15, <1>16, SumInserts
    <3>2. costAt[0] = FlowCost(billed) /\ chargeAt[0] = FlowCharged(billed)
      BY DEF costAt, chargeAt
    <3>3. n \in 0..n /\ costAt[n] \in Int /\ chargeAt[n] \in Int BY <1>6
    <3>4. /\ SumFunctionOnSet(CostsOf(rows'), S) = costAt[n]
          /\ SumFunctionOnSet(ChargesOf(rows'), S) = chargeAt[n]
      BY <1>5, <3>1, <3>2, <3>3
    <3>5. CASE n = 0
      <4>1. Priceable(FlowCost(billed)) /\ FlowCharged(billed) = UnitsFor(FlowCost(billed))
        BY <1>5 DEF Accounts, FlowsRounded, Flows, S
      <4>2. QED BY <2>3, <3>2, <3>4, <3>5, <4>1 DEF S
    <3>6. CASE n # 0
      <4>1. Priceable(costAt[n]) /\ chargeAt[n] = UnitsFor(costAt[n])
        BY <1>1, <3>6 DEF costAt, chargeAt
      <4>2. QED BY <2>3, <3>4, <4>1 DEF S
    <3>7. QED BY <3>5, <3>6
  <2>4. QED BY <2>2, <2>3
<1>18. SumFunctionOnSet(TakenOf(rows'), Ids)
         = SumFunctionOnSet(TakenOf(rows), Ids) + (sum - reserved)
  <2> DEFINE freed == [id \in Ids |-> IF id = hold THEN 0 ELSE TakenOf(rows)[id]]
  <2>1. \A id \in Ids : TakenOf(rows)[id] \in Int /\ TakenOf(rows')[id] \in Int
    BY <1>3, RowNumbers
  <2>2. TakenOf(rows)[hold] = reserved BY <1>1 DEF TakenOf, reserved
  <2>3. /\ \A i \in 1..n : TakenOf(rows')[ids[i]] = charge(i)
        /\ \A i \in 1..n : freed[ids[i]] = 0
    <3>1. \A i \in 1..n : ids[i] \in Ids OBVIOUS
    <3>2. \A i \in 1..n : TakenOf(rows')[ids[i]] = charge(i) BY <1>8, <3>1 DEF TakenOf
    <3>3. ASSUME NEW i \in 1..n, ids[i] # hold PROVE TakenOf(rows)[ids[i]] = 0
      <4>1. rows[ids[i]].state = "none" BY <1>1, <3>3 DEF made
      <4>2. QED BY <1>11, <3>1, <4>1 DEF TakenOf
    <3>4. QED BY <3>1, <3>2, <3>3
  <2>4. \A y \in Ids : (\A i \in 1..n : ids[i] # y) => TakenOf(rows')[y] = freed[y]
    <3>1. (\A i \in 1..n : ids[i] # hold) => TakenOf(rows')[hold] = 0 BY <1>10 DEF TakenOf
    <3>2. \A y \in Ids : y # hold /\ (\A i \in 1..n : ids[i] # y)
                           => TakenOf(rows')[y] = TakenOf(rows)[y]
      BY <1>9 DEF TakenOf
    <3>3. QED BY <3>1, <3>2
  <2>5. \A y \in Ids : freed[y] \in Int BY <2>1
  <2>6. DifferAt(TakenOf(rows), freed, Ids, hold)
    BY <2>1, <2>5, UsageAssumption DEF DifferAt
  <2>7. freed[hold] = 0 OBVIOUS
  <2> HIDE DEF freed
  <2>8. Inserts(freed, TakenOf(rows'), Ids, n, ids, chargeAt)
    <3>1. \A i \in 1..n : ids[i] \in Ids OBVIOUS
    <3>2. \A i \in 1..n : freed[ids[i]] = 0
                            /\ TakenOf(rows')[ids[i]] = chargeAt[i] - chargeAt[i - 1]
      BY <1>6, <2>3
    <3>3. QED BY <1>6, <2>1, <2>4, <2>5, <3>1, <3>2, UsageAssumption DEF Inserts
  <2>9. SumFunctionOnSet(freed, Ids) = SumFunctionOnSet(TakenOf(rows), Ids) - reserved + 0
    BY <2>2, <2>6, <2>7, SumChanges
  <2>10. SumFunctionOnSet(TakenOf(rows'), Ids)
           = SumFunctionOnSet(freed, Ids) + (chargeAt[n] - chargeAt[0])
    BY <2>8, SumInserts
  <2>11. SumFunctionOnSet(TakenOf(rows), Ids) \in Int BY <1>3, RowSums
  <2>12. sum \in Int /\ sum = chargeAt[n] - chargeAt[0]
    <3>1. n \in 0..n /\ 0 \in 0..n OBVIOUS
    <3>2. QED BY <1>6, <3>1
  <2>13. QED BY <1>3, <2>9, <2>10, <2>11, <2>12
<1>19. sum - reserved \in Int
  <2>1. n \in 0..n /\ 0 \in 0..n OBVIOUS
  <2>2. QED BY <1>3, <1>6, <2>1
<1>20. Conserved(rows, available)'
  BY <1>1, <1>18, <1>19, DebitConserves DEF Accounts
<1>21. QED BY <1>12, <1>17, <1>20 DEF Accounts

-----------------------------------------------------------------------------
\* The accounts through every step.

LEMMA InitAccounts == Init => AccountsInv
<1> SUFFICES ASSUME Init PROVE AccountsInv OBVIOUS
<1>1. rows = [id \in Ids |-> NoRow] /\ ~recovery.active /\ available = Granted
      /\ group = [known |-> 0, pending |-> 0, unfunded |-> 0]
  BY DEF Init, UsageInit, KnowledgeInit, NotRecovering
<1>2. /\ \A id \in Ids : /\ rows[id].charged = 0 /\ rows[id].cost = 0
                         /\ CostsOf(rows)[id] = 0 /\ ChargesOf(rows)[id] = 0
                         /\ TakenOf(rows)[id] = 0
  BY <1>1 DEF NoRow, CostsOf, ChargesOf, TakenOf
<1>3. 0 * Rate = 0 /\ Round[0] = 0 /\ 0 \in Units
  BY UnitsAssumption, PricingAssumption DEF PricingContract
<1>4. FlowsRounded(rows)
  <2>1. SUFFICES ASSUME NEW flow \in Flows
                 PROVE  /\ SumFunctionOnSet(CostsOf(rows), FlowIds(flow)) = 0
                        /\ SumFunctionOnSet(ChargesOf(rows), FlowIds(flow)) = 0
    BY <1>3 DEF FlowsRounded, Priceable, UnitsFor
  <2>2. IsFiniteSet(FlowIds(flow)) /\ FlowIds(flow) \subseteq Ids BY FlowIdsFinite
  <2>3. /\ \A y \in FlowIds(flow) : CostsOf(rows)[y] = 0
        /\ \A y \in FlowIds(flow) : ChargesOf(rows)[y] = 0
    BY <1>2, <2>2
  <2>4. QED BY <2>2, <2>3, SumZero
<1>5. SumFunctionOnSet(TakenOf(rows), Ids) = 0 BY <1>2, UsageAssumption, SumZero
<1>6. Committed = 0 BY <1>1, <1>3 DEF Committed, Commitment
<1>7. Conserved(rows, available) BY <1>1, <1>5, <1>6, GateAssumption DEF Conserved
<1>8. QED BY <1>1, <1>2, <1>4, <1>7 DEF AccountsInv, Accounts, UnsettledFree

\* Outside a recovery only the accounts at hand matter.
LEMMA UnlockedAccounts ==
  ASSUME Unlocked, UNCHANGED recovery, Accounts(rows, available)' PROVE AccountsInv'
  BY DEF Unlocked, AccountsInv

LEMMA CallAccounts ==
  ASSUME IInv, AccountsInv, ReserveCall \/ SettleCall \/ SettleUnknownCall \/ HoldReply,
         UNCHANGED knowledgeVars
  PROVE  AccountsInv'
<1>1. TypeOK /\ GroupFits /\ Accounts(rows, available) BY DEF IInv, AccountsInv
<1>2. UNCHANGED group BY DEF knowledgeVars
<1>3. ASSUME NEW id \in Ids, NEW reserved \in Nat, rows[id].state = "none", Debit(reserved),
             rows' = [rows EXCEPT ![id] = Opened(reserved)], Unlocked, UNCHANGED recovery
      PROVE  AccountsInv'
  <2>1. Accounts(rows, available)' BY <1>1, <1>2, <1>3, OpenAccounts
  <2>2. QED BY <1>3, <2>1, UnlockedAccounts
<1>4. ASSUME NEW id \in Ids, NEW cost \in Nat, SettleRow(id, cost), Unlocked, UNCHANGED recovery
      PROVE  AccountsInv'
  <2>1. Accounts(rows, available)' BY <1>1, <1>2, <1>4, SettleRowAccounts
  <2>2. QED BY <1>4, <2>1, UnlockedAccounts
<1>5. CASE ReserveCall
  <2>1. PICK id \in Ids, quote \in Quotes : Reserve(id, quote) BY <1>5 DEF ReserveCall
  <2>2. UnitsFor(quote) \in Nat BY <2>1, UnitsForNat DEF Reserve
  <2>3. QED BY <1>3, <2>1, <2>2 DEF Reserve
<1>6. CASE SettleCall
  <2>1. PICK id \in Ids, cost \in Costs : Settle(id, cost) BY <1>6 DEF SettleCall
  <2>2. QED BY <1>4, <2>1, InputsAssumption DEF Settle
<1>7. CASE SettleUnknownCall
  <2>1. PICK id \in Ids : SettleAtReservation(id) BY <1>7 DEF SettleUnknownCall
  <2>2. CostAtReservation(id) \in Nat BY <1>1, CostAtReservationNat DEF TypeOK
  <2>3. QED BY <1>4, <2>1, <2>2 DEF SettleAtReservation
<1>8. CASE HoldReply
  <2>1. PICK id \in Ids, minimum \in Amounts, preferred \in Amounts : Hold(id, minimum, preferred)
    BY <1>8 DEF HoldReply
  <2>2. HoldFor(available, minimum, preferred) \in Nat
    BY <1>1, <2>1, HoldForType, InputsAssumption DEF Hold, TypeOK
  <2>3. QED BY <1>3, <2>1, <2>2 DEF Hold
<1>9. QED BY <1>5, <1>6, <1>7, <1>8

LEMMA HoldAccounts ==
  ASSUME IInv, AccountsInv, SettleHold, UNCHANGED knowledgeVars PROVE AccountsInv'
<1>1. PICK hold \in Ids, n \in 0..MaxCalls :
        \E ids \in [1..n -> Ids] :
          /\ \A i, j \in 1..n : ids[i] = ids[j] => i = j
          /\ \E running : SettleReply(hold, n, ids, running)
  BY DEF SettleHold
<1>2. n \in Nat BY InputsAssumption
<1>3. PICK ids \in [1..n -> Ids] :
        /\ \A i, j \in 1..n : ids[i] = ids[j] => i = j
        /\ \E running : SettleReply(hold, n, ids, running)
  BY <1>1
<1>4. PICK running : SettleReply(hold, n, ids, running) BY <1>3
<1>5. rows' \in [Ids -> Row] BY SettleHoldStep DEF IInv, TypeOK
<1>6. TypeOK /\ GroupFits /\ Accounts(rows, available) BY DEF IInv, AccountsInv
<1>7. UNCHANGED group BY DEF knowledgeVars
<1>8. Accounts(rows, available)'
  BY <1>2, <1>3, <1>4, <1>5, <1>6, <1>7, SettleReplyAccounts
<1>9. Unlocked /\ UNCHANGED recovery BY <1>4 DEF SettleReply
<1>10. QED BY <1>8, <1>9, UnlockedAccounts

LEMMA RecoveryAccounts ==
  ASSUME IInv, AccountsInv, UNCHANGED knowledgeVars,
         BeginReplyRecovery \/ RecoverNextHold \/ CommitRecovery \/ AbortRecovery
  PROVE  AccountsInv'
<1>1. TypeOK /\ GroupFits /\ Accounts(rows, available) BY DEF IInv, AccountsInv
<1>2. UNCHANGED group /\ Committed' = Committed BY DEF knowledgeVars, Committed
<1>3. CASE BeginReplyRecovery
  <2>1. PICK flow \in Flows, reply \in Replies : BeginRecovery(flow, reply)
    BY <1>3 DEF BeginReplyRecovery
  <2>2. /\ rows' = rows /\ available' = available
        /\ recovery'.rows = rows /\ recovery'.available = available
    BY <2>1 DEF BeginRecovery, Recovering
  <2>3. QED BY <1>1, <1>2, <2>2
            DEF AccountsInv, Accounts, UnsettledFree, FlowsRounded, Conserved
<1>4. CASE RecoverNextHold
  <2>1. PICK id \in Ids : RecoverHold(id) BY <1>4 DEF RecoverNextHold
  <2>2. CostAtReservation(id) \in Nat BY <1>1, CostAtReservationNat DEF TypeOK
  <2>3. Accounts(rows, available)' BY <1>1, <1>2, <2>1, <2>2, SettleRowAccounts DEF RecoverHold
  <2>4. UNCHANGED recovery BY <2>1 DEF RecoverHold
  <2>5. QED BY <1>2, <2>3, <2>4
            DEF AccountsInv, Accounts, UnsettledFree, FlowsRounded, Conserved
<1>5. CASE CommitRecovery
  BY <1>1, <1>2, <1>5 DEF CommitRecovery, NotRecovering, AccountsInv, Accounts, UnsettledFree,
                          FlowsRounded, Conserved
<1>6. CASE AbortRecovery
  BY <1>2, <1>6 DEF AbortRecovery, NotRecovering, AccountsInv, Accounts, UnsettledFree,
                    FlowsRounded, Conserved
<1>7. QED BY <1>3, <1>4, <1>5, <1>6

\* What moves from the account to the knowledge aggregate, or back.
LEMMA WriteGroupConserves ==
  ASSUME TypeOK, GroupFits, NEW known \in Int, NEW pending \in Int, WriteGroup(known, pending),
         Conserved(rows, available), UNCHANGED rows
  PROVE  Conserved(rows, available)'
<1> DEFINE before == Commitment(group.known, group.pending)
           after == Commitment(known, pending)
           delta == after - before + group.unfunded
           debit == IF available # Unlimited /\ delta > available THEN available ELSE delta
<1>1. known \in Units /\ pending \in Units /\ known + pending \in Units BY DEF WriteGroup
<1>2. before \in Int /\ after \in Int /\ group.unfunded \in Int
  BY <1>1, RoundNat DEF TypeOK, GroupFits, Commitment
<1>3. /\ Debit(debit)
      /\ group' = [known |-> known, pending |-> pending, unfunded |-> delta - debit]
  BY DEF WriteGroup
<1>4. Committed = before - group.unfunded /\ Committed' = after - (delta - debit)
  BY <1>3 DEF Committed
<1> HIDE DEF before, after
<1>5. SUFFICES ASSUME available' # Unlimited
               PROVE  available' + SumFunctionOnSet(TakenOf(rows'), Ids) + Committed' = Granted
  BY DEF Conserved
<1>6. available # Unlimited /\ available' = available - debit
  BY <1>3, <1>5 DEF Debit, Debited
<1>7. available \in Int BY <1>6 DEF TypeOK
<1>8. delta \in Int /\ debit \in Int BY <1>2, <1>7
<1>9. SumFunctionOnSet(TakenOf(rows), Ids) \in Int /\ rows' = rows BY RowSums DEF TypeOK
<1>10. available + SumFunctionOnSet(TakenOf(rows), Ids) + Committed = Granted
  BY <1>6 DEF Conserved
<1>11. delta = after - before + group.unfunded OBVIOUS
<1> HIDE DEF delta, debit
<1>12. QED BY <1>2, <1>4, <1>6, <1>7, <1>8, <1>9, <1>10, <1>11

\* A knowledge step moves the aggregate or leaves it and the account alone.
LEMMA KnowledgeMoves ==
  ASSUME IInv, KnowledgeNext
  PROVE  \/ \E known, pending \in Int : WriteGroup(known, pending)
         \/ UNCHANGED <<available, group>>
<1>1. PICK a \in KAttempts :
        \/ \E upper \in Quotes : ReserveKnowledge(a, upper)
        \/ MarkDispatched(a)
        \/ \E cost \in Costs : RecordKnown(a, cost)
        \/ \E cost \in Costs : ReplayKnown(a, cost)
        \/ RecordUnknown(a)
        \/ RecordUndispatched(a)
        \/ RecordMarkedUndispatched(a)
  BY DEF KnowledgeNext
<1>2. group.known \in Int /\ group.pending \in Int /\ attempts[a].upper * Rate \in Int
  BY UnitsAssumption DEF IInv, TypeOK, Attempt
<1>3. ASSUME NEW upper \in Quotes, ReserveKnowledge(a, upper)
      PROVE  \E known, pending \in Int : WriteGroup(known, pending)
  <2>1. group.pending + upper * Rate \in Int BY <1>2, InputsAssumption, UnitsAssumption
  <2>2. WriteGroup(group.known, group.pending + upper * Rate) BY <1>3 DEF ReserveKnowledge
  <2>3. QED BY <1>2, <2>1, <2>2
<1>4. ASSUME NEW cost \in Costs, RecordKnown(a, cost)
      PROVE  \E known, pending \in Int : WriteGroup(known, pending)
  <2>1. group.known + cost * Rate \in Int BY <1>2, InputsAssumption, UnitsAssumption
  <2>2. group.pending - attempts[a].upper * Rate \in Int BY <1>2
  <2>3. WriteGroup(group.known + cost * Rate, group.pending - attempts[a].upper * Rate)
    BY <1>4 DEF RecordKnown
  <2>4. QED BY <2>1, <2>2, <2>3
<1>5. ASSUME NEW cost \in Costs, ReplayKnown(a, cost)
      PROVE  \E known, pending \in Int : WriteGroup(known, pending)
  BY <1>2, <1>5 DEF ReplayKnown
<1>6. CASE RecordUndispatched(a) \/ RecordMarkedUndispatched(a)
  <2>1. group.pending - attempts[a].upper * Rate \in Int BY <1>2
  <2>2. WriteGroup(group.known, group.pending - attempts[a].upper * Rate)
    BY <1>6 DEF RecordUndispatched, RecordMarkedUndispatched, Release
  <2>3. QED BY <1>2, <2>1, <2>2
<1>7. CASE MarkDispatched(a) \/ RecordUnknown(a) BY <1>7 DEF MarkDispatched, RecordUnknown
<1>8. QED BY <1>1, <1>3, <1>4, <1>5, <1>6, <1>7

LEMMA KnowledgeAccounts == ASSUME IInv, AccountsInv, KnowledgeNext PROVE AccountsInv'
<1>1. TypeOK /\ GroupFits /\ Accounts(rows, available) BY DEF IInv, AccountsInv
<1>2. Unlocked /\ rows' = rows /\ UNCHANGED recovery BY DEF KnowledgeNext, usageVars
<1>3. Conserved(rows, available)'
  <2>1. ASSUME NEW known \in Int, NEW pending \in Int, WriteGroup(known, pending)
        PROVE  Conserved(rows, available)'
    BY <1>1, <1>2, <2>1, WriteGroupConserves DEF Accounts
  <2>2. CASE UNCHANGED <<available, group>>
    BY <1>1, <1>2, <2>2 DEF Accounts, Conserved, Committed
  <2>3. QED BY <2>1, <2>2, KnowledgeMoves
<1>4. Accounts(rows, available)'
  BY <1>1, <1>2, <1>3 DEF Accounts, UnsettledFree, FlowsRounded
<1>5. QED BY <1>2, <1>4, UnlockedAccounts

LEMMA StepAccounts == IInv /\ AccountsInv /\ [Next]_vars => AccountsInv'
<1>1. ASSUME IInv, AccountsInv, UsageNext PROVE AccountsInv'
  BY <1>1, CallAccounts, HoldAccounts, RecoveryAccounts DEF UsageNext
<1>2. ASSUME AccountsInv, UNCHANGED vars PROVE AccountsInv'
  BY <1>2 DEF vars, AccountsInv, Accounts, UnsettledFree, FlowsRounded, Conserved, Committed
<1>3. QED BY <1>1, <1>2, KnowledgeAccounts DEF Next

LEMMA AccountsInductive == Spec => []AccountsInv
  BY Inductive, InitAccounts, StepAccounts, PTL DEF Spec

-----------------------------------------------------------------------------
\* The knowledge aggregate.
Undecided == {"reserved", "dispatched", "unknown"}
PendingOf(at) == [a \in KAttempts |-> IF at[a].state \in Undecided THEN at[a].upper ELSE 0]
KnownOf(at) == [a \in KAttempts |-> IF at[a].state = "known" THEN at[a].observed ELSE 0]

AttemptsOK(at) ==
  /\ at \in [KAttempts -> Attempt]
  /\ \A a \in KAttempts : at[a].state = "known" => at[a].observed \in Nat

GroupInv ==
  /\ AttemptsOK(attempts)
  /\ group.pending = Rate * SumFunctionOnSet(PendingOf(attempts), KAttempts)
  /\ group.known = Rate * SumFunctionOnSet(KnownOf(attempts), KAttempts)

AttemptDiffers(at, bt, a) ==
  /\ AttemptsOK(at) /\ AttemptsOK(bt) /\ a \in KAttempts
  /\ \A other \in KAttempts \ {a} : bt[other] = at[other]

LEMMA AttemptNumbers ==
  ASSUME NEW at, AttemptsOK(at), NEW a \in KAttempts
  PROVE  PendingOf(at)[a] \in Nat /\ KnownOf(at)[a] \in Nat
<1>1. at[a].upper \in Nat BY DEF AttemptsOK, Attempt
<1>2. QED BY <1>1 DEF AttemptsOK, PendingOf, KnownOf

LEMMA AttemptChanges ==
  ASSUME NEW at, NEW bt, NEW a, AttemptDiffers(at, bt, a)
  PROVE  /\ SumFunctionOnSet(PendingOf(at), KAttempts) \in Int
         /\ SumFunctionOnSet(KnownOf(at), KAttempts) \in Int
         /\ SumFunctionOnSet(PendingOf(bt), KAttempts)
              = SumFunctionOnSet(PendingOf(at), KAttempts) - PendingOf(at)[a] + PendingOf(bt)[a]
         /\ SumFunctionOnSet(KnownOf(bt), KAttempts)
              = SumFunctionOnSet(KnownOf(at), KAttempts) - KnownOf(at)[a] + KnownOf(bt)[a]
<1>1. AttemptsOK(at) /\ AttemptsOK(bt) BY DEF AttemptDiffers
<1>2. IsFiniteSet(KAttempts) BY KnowledgeAssumption
<1>3. /\ \A x \in KAttempts : PendingOf(at)[x] \in Int /\ PendingOf(bt)[x] \in Int
      /\ \A x \in KAttempts : KnownOf(at)[x] \in Int /\ KnownOf(bt)[x] \in Int
  BY <1>1, AttemptNumbers
<1>4. DifferAt(PendingOf(at), PendingOf(bt), KAttempts, a)
  BY <1>2, <1>3 DEF DifferAt, AttemptDiffers, PendingOf
<1>5. DifferAt(KnownOf(at), KnownOf(bt), KAttempts, a)
  BY <1>2, <1>3 DEF DifferAt, AttemptDiffers, KnownOf
<1>6. /\ SumFunctionOnSet(PendingOf(at), KAttempts) \in Int
      /\ SumFunctionOnSet(KnownOf(at), KAttempts) \in Int
  BY <1>2, <1>3, SumInt
<1>7. QED BY <1>4, <1>5, <1>6, SumChanges

LEMMA RateDistributes ==
  ASSUME NEW sum \in Int, NEW old \in Int, NEW new \in Int
  PROVE  Rate * (sum - old + new) = Rate * sum - old * Rate + new * Rate
  BY UnitsAssumption

\* The aggregate moves by what the attempt's row moves.
LEMMA GroupMoves ==
  ASSUME GroupInv, NEW a, AttemptDiffers(attempts, attempts', a),
         group'.pending = group.pending - PendingOf(attempts)[a] * Rate
                                        + PendingOf(attempts')[a] * Rate,
         group'.known = group.known - KnownOf(attempts)[a] * Rate + KnownOf(attempts')[a] * Rate
  PROVE  GroupInv'
<1>1. AttemptsOK(attempts)' /\ AttemptsOK(attempts') /\ a \in KAttempts BY DEF AttemptDiffers
<1>2. /\ PendingOf(attempts)[a] \in Int /\ PendingOf(attempts')[a] \in Int
      /\ KnownOf(attempts)[a] \in Int /\ KnownOf(attempts')[a] \in Int
  BY <1>1, AttemptNumbers DEF AttemptDiffers
<1>3. /\ SumFunctionOnSet(PendingOf(attempts), KAttempts) \in Int
      /\ SumFunctionOnSet(KnownOf(attempts), KAttempts) \in Int
      /\ SumFunctionOnSet(PendingOf(attempts'), KAttempts)
           = SumFunctionOnSet(PendingOf(attempts), KAttempts)
               - PendingOf(attempts)[a] + PendingOf(attempts')[a]
      /\ SumFunctionOnSet(KnownOf(attempts'), KAttempts)
           = SumFunctionOnSet(KnownOf(attempts), KAttempts)
               - KnownOf(attempts)[a] + KnownOf(attempts')[a]
  BY AttemptChanges
<1>4. group'.pending = Rate * SumFunctionOnSet(PendingOf(attempts'), KAttempts)
  <2>1. ASSUME NEW sum \in Int, NEW old \in Int, NEW new \in Int, NEW moved,
               group.pending = Rate * sum, group'.pending = group.pending - old * Rate + new * Rate,
               moved = sum - old + new
        PROVE  group'.pending = Rate * moved
    BY ONLY <2>1, RateDistributes
  <2>2. group.pending = Rate * SumFunctionOnSet(PendingOf(attempts), KAttempts) BY DEF GroupInv
  <2>3. QED BY <1>2, <1>3, <2>1, <2>2
<1>5. group'.known = Rate * SumFunctionOnSet(KnownOf(attempts'), KAttempts)
  <2>1. ASSUME NEW sum \in Int, NEW old \in Int, NEW new \in Int, NEW moved,
               group.known = Rate * sum, group'.known = group.known - old * Rate + new * Rate,
               moved = sum - old + new
        PROVE  group'.known = Rate * moved
    BY ONLY <2>1, RateDistributes
  <2>2. group.known = Rate * SumFunctionOnSet(KnownOf(attempts), KAttempts) BY DEF GroupInv
  <2>3. QED BY <1>2, <1>3, <2>1, <2>2
<1>6. QED BY <1>1, <1>4, <1>5 DEF GroupInv

LEMMA InitGroup == Init => GroupInv
<1> SUFFICES ASSUME Init PROVE GroupInv OBVIOUS
<1>1. /\ attempts = [a \in KAttempts |-> NoAttempt]
      /\ group = [known |-> 0, pending |-> 0, unfunded |-> 0]
  BY DEF Init, KnowledgeInit
<1>2. AttemptsOK(attempts) BY <1>1 DEF AttemptsOK, NoAttempt, Attempt, AttemptStates
<1>3. \A a \in KAttempts : PendingOf(attempts)[a] = 0 /\ KnownOf(attempts)[a] = 0
  BY <1>1 DEF NoAttempt, PendingOf, KnownOf, Undecided
<1>4. /\ SumFunctionOnSet(PendingOf(attempts), KAttempts) = 0
      /\ SumFunctionOnSet(KnownOf(attempts), KAttempts) = 0
  BY <1>3, KnowledgeAssumption, SumZero
<1>5. Rate * 0 = 0 BY UnitsAssumption
<1>6. QED BY <1>1, <1>2, <1>4, <1>5 DEF GroupInv

LEMMA WriteGroupSets ==
  ASSUME NEW known, NEW pending, WriteGroup(known, pending)
  PROVE  group'.known = known /\ group'.pending = pending
  BY DEF WriteGroup

LEMMA KnowledgeGroup == ASSUME IInv, GroupInv, KnowledgeNext PROVE GroupInv'
<1>1. PICK a \in KAttempts :
        \/ \E upper \in Quotes : ReserveKnowledge(a, upper)
        \/ MarkDispatched(a)
        \/ \E cost \in Costs : RecordKnown(a, cost)
        \/ \E cost \in Costs : ReplayKnown(a, cost)
        \/ RecordUnknown(a)
        \/ RecordUndispatched(a)
        \/ RecordMarkedUndispatched(a)
  BY DEF KnowledgeNext
<1>2. /\ AttemptsOK(attempts) /\ attempts[a] \in Attempt /\ attempts \in [KAttempts -> Attempt]
      /\ group.known \in Int /\ group.pending \in Int
  BY UnitsAssumption DEF GroupInv, AttemptsOK, IInv, TypeOK
<1>3. attempts[a].upper \in Nat /\ attempts[a].upper * Rate \in Int
  BY <1>2, UnitsAssumption DEF Attempt
<1>4. \A n \in Int : n - 0 * Rate + 0 * Rate = n BY UnitsAssumption
<1>5. /\ PendingOf(attempts)[a] = IF attempts[a].state \in Undecided THEN attempts[a].upper ELSE 0
      /\ KnownOf(attempts)[a] = IF attempts[a].state = "known" THEN attempts[a].observed ELSE 0
      /\ PendingOf(attempts')[a]
           = IF attempts'[a].state \in Undecided THEN attempts'[a].upper ELSE 0
      /\ KnownOf(attempts')[a]
           = IF attempts'[a].state = "known" THEN attempts'[a].observed ELSE 0
  BY DEF PendingOf, KnownOf
<1>6. ASSUME NEW upper \in Quotes, ReserveKnowledge(a, upper) PROVE GroupInv'
  <2>1. upper \in Nat /\ upper * Rate \in Int BY InputsAssumption, UnitsAssumption
  <2>2. attempts'[a] = [state |-> "reserved", upper |-> upper, observed |-> NoCost]
    BY <1>2, <1>6 DEF ReserveKnowledge
  <2>3. AttemptDiffers(attempts, attempts', a)
    BY <1>2, <1>6, <2>1, <2>2
       DEF AttemptDiffers, AttemptsOK, ReserveKnowledge, Attempt, AttemptStates
  <2>4. group'.known = group.known /\ group'.pending = group.pending + upper * Rate
    BY <1>6, WriteGroupSets DEF ReserveKnowledge
  <2>5. attempts[a].state = "none" BY <1>6 DEF ReserveKnowledge
  <2>6. /\ PendingOf(attempts)[a] = 0 /\ KnownOf(attempts)[a] = 0
        /\ PendingOf(attempts')[a] = upper /\ KnownOf(attempts')[a] = 0
    BY <1>5, <2>2, <2>5 DEF Undecided
  <2>7. group'.pending = group.pending - 0 * Rate + upper * Rate
    BY <1>2, <2>1, <2>4, UnitsAssumption
  <2>8. group'.known = group.known - 0 * Rate + 0 * Rate BY <1>2, <1>4, <2>4
  <2>9. QED BY <2>3, <2>6, <2>7, <2>8, GroupMoves
<1>7. CASE MarkDispatched(a) \/ RecordUnknown(a)
  <2>1. /\ attempts'[a].state \in {"dispatched", "unknown"}
        /\ attempts'[a].upper = attempts[a].upper /\ attempts'[a].observed = attempts[a].observed
        /\ attempts[a].state \in {"reserved", "dispatched"}
        /\ attempts' \in [KAttempts -> Attempt]
        /\ \A other \in KAttempts \ {a} : attempts'[other] = attempts[other]
        /\ group' = group
    BY <1>2, <1>7 DEF MarkDispatched, RecordUnknown, Attempt, AttemptStates
  <2>2. AttemptDiffers(attempts, attempts', a) BY <1>2, <2>1 DEF AttemptDiffers, AttemptsOK
  <2>3. /\ PendingOf(attempts)[a] = attempts[a].upper /\ KnownOf(attempts)[a] = 0
        /\ PendingOf(attempts')[a] = attempts[a].upper /\ KnownOf(attempts')[a] = 0
    BY <1>5, <2>1 DEF Undecided
  <2>4. group'.pending = group.pending - attempts[a].upper * Rate + attempts[a].upper * Rate
    BY <1>2, <1>3, <2>1
  <2>5. group'.known = group.known - 0 * Rate + 0 * Rate BY <1>2, <1>4, <2>1
  <2>6. QED BY <2>2, <2>3, <2>4, <2>5, GroupMoves
<1>8. ASSUME NEW cost \in Costs, RecordKnown(a, cost) PROVE GroupInv'
  <2>1. cost \in Nat /\ cost * Rate \in Int BY InputsAssumption, UnitsAssumption
  <2>2. /\ attempts'[a].state = "known" /\ attempts'[a].observed = cost
        /\ attempts[a].state \in {"dispatched", "unknown"}
        /\ attempts' \in [KAttempts -> Attempt]
        /\ \A other \in KAttempts \ {a} : attempts'[other] = attempts[other]
    BY <1>2, <1>8, <2>1 DEF RecordKnown, Attempt, AttemptStates
  <2>3. AttemptDiffers(attempts, attempts', a) BY <1>2, <2>1, <2>2 DEF AttemptDiffers, AttemptsOK
  <2>4. /\ PendingOf(attempts)[a] = attempts[a].upper /\ KnownOf(attempts)[a] = 0
        /\ PendingOf(attempts')[a] = 0 /\ KnownOf(attempts')[a] = cost
    BY <1>5, <2>2 DEF Undecided
  <2>5. /\ group'.known = group.known + cost * Rate
        /\ group'.pending = group.pending - attempts[a].upper * Rate
    BY <1>8, WriteGroupSets DEF RecordKnown
  <2>6. group'.pending = group.pending - attempts[a].upper * Rate + 0 * Rate
    BY <1>2, <1>3, <2>5, UnitsAssumption
  <2>7. group'.known = group.known - 0 * Rate + cost * Rate
    BY <1>2, <2>1, <2>5, UnitsAssumption
  <2>8. QED BY <2>3, <2>4, <2>6, <2>7, GroupMoves
<1>9. ASSUME NEW cost \in Costs, ReplayKnown(a, cost) PROVE GroupInv'
  <2>1. group'.known = group.known /\ group'.pending = group.pending /\ attempts' = attempts
    BY <1>9, WriteGroupSets DEF ReplayKnown
  <2>2. QED BY <2>1 DEF GroupInv
<1>10. CASE RecordUndispatched(a) \/ RecordMarkedUndispatched(a)
  <2>1. PICK from \in {{"reserved"}, {"dispatched", "unknown"}} : Release(a, from)
    BY <1>10 DEF RecordUndispatched, RecordMarkedUndispatched
  <2>2. /\ attempts'[a].state = "released"
        /\ attempts[a].state \in Undecided
        /\ attempts' \in [KAttempts -> Attempt]
        /\ \A other \in KAttempts \ {a} : attempts'[other] = attempts[other]
    BY <1>2, <2>1 DEF Release, Attempt, AttemptStates, Undecided
  <2>3. AttemptDiffers(attempts, attempts', a) BY <1>2, <2>2 DEF AttemptDiffers, AttemptsOK
  <2>4. /\ PendingOf(attempts)[a] = attempts[a].upper /\ KnownOf(attempts)[a] = 0
        /\ PendingOf(attempts')[a] = 0 /\ KnownOf(attempts')[a] = 0
    BY <1>5, <2>2 DEF Undecided
  <2>5. /\ group'.known = group.known
        /\ group'.pending = group.pending - attempts[a].upper * Rate
    BY <2>1, WriteGroupSets DEF Release
  <2>6. group'.pending = group.pending - attempts[a].upper * Rate + 0 * Rate
    BY <1>2, <1>3, <2>5, UnitsAssumption
  <2>7. group'.known = group.known - 0 * Rate + 0 * Rate BY <1>2, <1>4, <2>5
  <2>8. QED BY <2>3, <2>4, <2>6, <2>7, GroupMoves
<1>11. QED BY <1>1, <1>6, <1>7, <1>8, <1>9, <1>10

LEMMA StepGroup == IInv /\ GroupInv /\ [Next]_vars => GroupInv'
<1>1. ASSUME GroupInv, UNCHANGED <<group, attempts>> PROVE GroupInv'
  BY <1>1 DEF GroupInv, AttemptsOK
<1>2. QED BY <1>1, KnowledgeGroup DEF Next, UsageNext, vars, knowledgeVars

LEMMA GroupInductive == Spec => []GroupInv
  BY Inductive, InitGroup, StepGroup, PTL DEF Spec

-----------------------------------------------------------------------------
\* Settled rows.

Final(before, after) ==
  \A id \in Ids : before[id].state = "settled" => after[id] = before[id]

LEMMA UsageFinal == ASSUME IInv, UsageNext PROVE Final(CommittedRows, CommittedRows')
<1>1. rows \in [Ids -> Row] BY DEF IInv, TypeOK
<1>2. CASE Unlocked /\ UNCHANGED recovery /\ Final(rows, rows')
  BY <1>2 DEF Unlocked, CommittedRows, Final
<1>3. ASSUME NEW id \in Ids, NEW row, rows[id].state # "settled",
             rows' = [rows EXCEPT ![id] = row]
      PROVE  Final(rows, rows')
  BY <1>1, <1>3 DEF Final
<1>4. CASE ReserveCall \/ HoldReply \/ SettleCall \/ SettleUnknownCall
  <2>1. PICK id \in Ids :
          /\ Unlocked /\ UNCHANGED recovery /\ rows[id].state # "settled"
          /\ \E row : rows' = [rows EXCEPT ![id] = row]
    BY <1>4 DEF ReserveCall, HoldReply, SettleCall, SettleUnknownCall, Reserve, Hold, Settle,
                SettleAtReservation, SettleRow
  <2>2. QED BY <1>2, <1>3, <2>1
<1>5. CASE SettleHold
  <2>1. PICK hold \in Ids, n \in 0..MaxCalls :
          \E ids \in [1..n -> Ids] : \E running : SettleReply(hold, n, ids, running)
    BY <1>5 DEF SettleHold
  <2>2. PICK ids \in [1..n -> Ids] : \E running : SettleReply(hold, n, ids, running) BY <2>1
  <2>3. PICK running : SettleReply(hold, n, ids, running) BY <2>2
  <2> DEFINE made == {ids[i] : i \in 1..n} \ {hold}
  <2>4. /\ Unlocked /\ UNCHANGED recovery /\ rows[hold].state = "open"
        /\ \A id \in made : rows[id].state = "none"
        /\ \A id \in Ids : id \notin made /\ id # hold => rows'[id] = rows[id]
    BY <2>3 DEF SettleReply
  <2>5. Final(rows, rows') BY <2>4 DEF Final
  <2>6. QED BY <1>2, <2>4, <2>5
<1>6. CASE BeginReplyRecovery
  BY <1>6 DEF BeginReplyRecovery, BeginRecovery, Recovering, Unlocked, CommittedRows, Final
<1>7. CASE RecoverNextHold
  BY <1>7 DEF RecoverNextHold, RecoverHold, CommittedRows, Final
<1>8. CASE CommitRecovery
  <2>1. /\ CommittedRows = recovery.rows /\ CommittedRows' = rows /\ recovery.active
    BY <1>8 DEF CommitRecovery, NotRecovering, CommittedRows
  <2>2. \A id \in Ids : rows[id] # recovery.rows[id] => recovery.rows[id].state = "open"
    BY <2>1 DEF IInv, RecoverySparesOthers
  <2>3. QED BY <2>1, <2>2 DEF Final
<1>9. CASE AbortRecovery
  BY <1>9 DEF AbortRecovery, NotRecovering, CommittedRows, Final
<1>10. QED BY <1>4, <1>5, <1>6, <1>7, <1>8, <1>9 DEF UsageNext

LEMMA StepFinal == IInv /\ [Next]_vars => Final(CommittedRows, CommittedRows')
<1>1. ASSUME UNCHANGED usageVars PROVE Final(CommittedRows, CommittedRows')
  BY <1>1 DEF usageVars, CommittedRows, Final
<1>2. QED BY <1>1, UsageFinal DEF Next, KnowledgeNext, vars, usageVars

-----------------------------------------------------------------------------
(* The pricing may round as it likes as long as it keeps its contract;     *)
(* what follows needs that it rounds up to the next of some amounts that   *)
(* can be added and subtracted, and that holds are asked for in those.     *)
(* Nothing is said of the balance, which may cap a hold at any amount.     *)
PricesUpTo(Whole) ==
  /\ Whole \subseteq Int
  /\ \A v, w \in Whole : v + w \in Whole /\ v - w \in Whole
  /\ \A u \in Units : Round[u] \in Whole
  /\ \A u \in Units, w \in Whole : u <= w => Round[u] <= w
  /\ Amounts \subseteq Whole

\* For example the pricing that rounds up to multiples of a credit,
LEMMA CreditsRoundUp ==
  ASSUME NEW credit \in Nat \ {0}, NEW Whole, Whole = {k * credit : k \in Int},
         \A u \in Units : Round[u] = ((u + credit - 1) \div credit) * credit,
         Amounts \subseteq Whole
  PROVE  PricesUpTo(Whole)
<1>1. Whole \subseteq Int OBVIOUS
<1>2. ASSUME NEW v \in Whole, NEW w \in Whole PROVE v + w \in Whole /\ v - w \in Whole
  <2>1. PICK i \in Int, j \in Int : v = i * credit /\ w = j * credit OBVIOUS
  <2>2. v + w = (i + j) * credit /\ v - w = (i - j) * credit BY <2>1
  <2>3. \A k \in Int : k * credit \in Whole OBVIOUS
  <2>4. i + j \in Int /\ i - j \in Int OBVIOUS
  <2>5. (i + j) * credit \in Whole BY ONLY <2>3, <2>4, Zenon
  <2>6. (i - j) * credit \in Whole BY ONLY <2>3, <2>4, Zenon
  <2>7. QED BY ONLY <2>2, <2>5, <2>6, Zenon
<1>3. ASSUME NEW u \in Units PROVE Round[u] \in Whole
  <2>1. (u + credit - 1) \div credit \in Int BY UnitsAssumption
  <2>2. QED BY <2>1
<1>4. ASSUME NEW u \in Units, NEW w \in Whole, u <= w PROVE Round[u] <= w
  <2>1. PICK k \in Int : w = k * credit OBVIOUS
  <2> DEFINE q == (u + credit - 1) \div credit
  <2>2. u \in Int /\ q \in Int /\ q * credit <= u + credit - 1 BY UnitsAssumption
  <2>3. q * credit < (k + 1) * credit
    <3>1. (k + 1) * credit = k * credit + credit BY <2>1
    <3>2. k * credit \in Int /\ q * credit \in Int BY <2>1, <2>2
    <3> HIDE DEF q
    <3>3. QED BY <1>4, <2>1, <2>2, <3>1, <3>2
  <2> HIDE DEF q
  <2>4. q < k + 1 BY <2>1, <2>2, <2>3
  <2>5. q <= k BY <2>1, <2>2, <2>4
  <2>6. q * credit <= k * credit BY <2>1, <2>2, <2>5
  <2>7. QED BY <2>1, <2>6 DEF q
<1>5. QED BY <1>1, <1>2, <1>3, <1>4 DEF PricesUpTo

\* and the default of registry.ts, which rounds nothing.
Unrounded == \A u \in Units : Round[u] = u

LEMMA UnroundedPrices == ASSUME Unrounded PROVE PricesUpTo(Int)
BY InputsAssumption, UnitsAssumption DEF Unrounded, PricesUpTo, Units

LEMMA WholePrice ==
  ASSUME NEW Whole, PricesUpTo(Whole), NEW cost, Priceable(cost)
  PROVE  UnitsFor(cost) \in Whole
  BY DEF PricesUpTo, Priceable, UnitsFor

\* What a flow has been charged is a price.
LEMMA FlowIsPriced ==
  ASSUME AccountsInv, NEW flow \in Flows
  PROVE  /\ Priceable(FlowCost(flow))
         /\ FlowCharged(flow) = UnitsFor(FlowCost(flow))
  BY DEF AccountsInv, Accounts, FlowsRounded, FlowCost, FlowCharged, CostsOf, ChargesOf

-----------------------------------------------------------------------------
\* What is still reserved is a whole amount, unless the balance capped it.
WholeOrCapped(Whole, id, row) ==
  row.state = "open" =>
    row.reserved \in Whole \/ (ReplyOf[id] # NoReply /\ row.reserved \notin Amounts)

WholeRows(Whole, r) == \A id \in Ids : WholeOrCapped(Whole, id, r[id])

WholeInv(Whole) ==
  /\ WholeRows(Whole, rows)
  /\ recovery.active => WholeRows(Whole, recovery.rows)

LEMMA InitWhole ==
  ASSUME NEW Whole, Init PROVE WholeInv(Whole)
BY DEF Init, UsageInit, NoRow, NotRecovering, WholeInv, WholeRows, WholeOrCapped

\* A settlement reserves nothing.
LEMMA SettlesWhole ==
  ASSUME NEW Whole, WholeRows(Whole, rows),
         \A id \in Ids : rows'[id] = rows[id] \/ rows'[id].state = "settled"
  PROVE  WholeRows(Whole, rows)'
BY DEF WholeRows, WholeOrCapped

LEMMA SettleRowWhole ==
  ASSUME NEW Whole, rows \in [Ids -> Row], WholeRows(Whole, rows),
         NEW id \in Ids, NEW cost, SettleRow(id, cost)
  PROVE  WholeRows(Whole, rows)'
<1> DEFINE row == Settled(rows[id].reserved, ChargeFor(FlowOf[id], cost), cost)
<1>1. rows' = [rows EXCEPT ![id] = row] BY DEF SettleRow
<1>2. row.state = "settled" BY DEF Settled
<1> HIDE DEF row
<1>3. QED BY <1>1, <1>2, SettlesWhole

LEMMA SettleReplyWhole ==
  ASSUME NEW Whole, WholeRows(Whole, rows),
         NEW hold \in Ids, NEW n \in Nat, NEW ids, NEW running,
         SettleReply(hold, n, ids, running)
  PROVE  WholeRows(Whole, rows)'
<1> DEFINE made == {ids[i] : i \in 1 .. n} \ {hold}
<1>1. \A id \in Ids : id \notin made /\ id # hold => rows'[id] = rows[id]
  BY DEF SettleReply
<1>2. rows'[hold].state = "settled"
  <2>1. hold \notin made OBVIOUS
  <2>2. \E charge, cost : rows'[hold] = Settled(rows[hold].reserved, charge, cost)
    BY <2>1 DEF SettleReply
  <2>3. QED BY <2>2 DEF Settled
<1>3. ASSUME NEW id \in Ids, id \in made PROVE rows'[id].state = "settled"
  <2>1. \E reserved, charge, cost : rows'[id] = Settled(reserved, charge, cost)
    BY <1>3 DEF SettleReply
  <2>2. QED BY <2>1 DEF Settled
<1>4. QED BY <1>1, <1>2, <1>3, SettlesWhole

LEMMA CallWhole ==
  ASSUME NEW Whole, PricesUpTo(Whole), IInv, WholeInv(Whole),
         ReserveCall \/ SettleCall \/ SettleUnknownCall \/ HoldReply \/ SettleHold
  PROVE  WholeInv(Whole)'
<1>1. WholeRows(Whole, rows) /\ rows \in [Ids -> Row] BY DEF WholeInv, IInv, TypeOK
<1>2. SUFFICES WholeRows(Whole, rows)' /\ Unlocked /\ UNCHANGED recovery
  BY DEF WholeInv, Unlocked
<1>3. ASSUME NEW id \in Ids, NEW reserved, rows' = [rows EXCEPT ![id] = Opened(reserved)],
             reserved \in Whole \/ (ReplyOf[id] # NoReply /\ reserved \notin Amounts)
      PROVE  WholeRows(Whole, rows)'
  BY <1>1, <1>3 DEF WholeRows, WholeOrCapped, Opened
<1>4. CASE ReserveCall
  <2>1. PICK id \in Ids, quote \in Quotes : Reserve(id, quote) BY <1>4 DEF ReserveCall
  <2>2. UnitsFor(quote) \in Whole BY <2>1, WholePrice DEF Reserve
  <2>3. QED BY <1>3, <2>1, <2>2 DEF Reserve
<1>5. CASE SettleCall \/ SettleUnknownCall
  <2>1. PICK id \in Ids : \E cost : SettleRow(id, cost) /\ Unlocked /\ UNCHANGED recovery
    BY <1>5 DEF SettleCall, Settle, SettleUnknownCall, SettleAtReservation
  <2>2. QED BY <1>1, <2>1, SettleRowWhole
<1>6. CASE HoldReply
  <2>1. PICK id \in Ids, minimum \in Amounts, preferred \in Amounts : Hold(id, minimum, preferred)
    BY <1>6 DEF HoldReply
  <2>2. /\ ReplyOf[id] # NoReply /\ Unlocked /\ UNCHANGED recovery
        /\ rows' = [rows EXCEPT ![id] = Opened(HoldFor(available, minimum, preferred))]
    BY <2>1 DEF Hold
  <2>3. HoldFor(available, minimum, preferred) \in Amounts
          => HoldFor(available, minimum, preferred) \in Whole
    BY DEF PricesUpTo
  <2>4. QED BY <1>3, <2>2, <2>3
<1>7. CASE SettleHold
  <2>1. PICK hold \in Ids, n \in 0..MaxCalls :
          \E ids \in [1..n -> Ids] : \E running : SettleReply(hold, n, ids, running)
    BY <1>7 DEF SettleHold
  <2>2. PICK ids \in [1..n -> Ids] : \E running : SettleReply(hold, n, ids, running) BY <2>1
  <2>3. PICK running : SettleReply(hold, n, ids, running) BY <2>2
  <2>4. n \in Nat BY InputsAssumption
  <2>5. WholeRows(Whole, rows)' BY <1>1, <2>3, <2>4, SettleReplyWhole
  <2>6. Unlocked /\ UNCHANGED recovery BY <2>3 DEF SettleReply
  <2>7. QED BY <2>5, <2>6
<1>8. QED BY <1>4, <1>5, <1>6, <1>7

LEMMA RecoveryWhole ==
  ASSUME NEW Whole, IInv, WholeInv(Whole),
         BeginReplyRecovery \/ RecoverNextHold \/ CommitRecovery \/ AbortRecovery
  PROVE  WholeInv(Whole)'
<1>1. WholeRows(Whole, rows) /\ rows \in [Ids -> Row] BY DEF WholeInv, IInv, TypeOK
<1>2. CASE BeginReplyRecovery
  BY <1>2 DEF BeginReplyRecovery, BeginRecovery, Recovering, WholeInv, WholeRows
<1>3. CASE RecoverNextHold
  <2>1. PICK id \in Ids : RecoverHold(id) BY <1>3 DEF RecoverNextHold
  <2>2. SettleRow(id, CostAtReservation(id)) /\ UNCHANGED recovery BY <2>1 DEF RecoverHold
  <2>3. WholeRows(Whole, rows)' BY <1>1, <2>2, SettleRowWhole
  <2>4. QED BY <2>2, <2>3 DEF WholeInv, WholeRows
<1>4. CASE CommitRecovery
  BY <1>4 DEF CommitRecovery, NotRecovering, WholeInv, WholeRows
<1>5. CASE AbortRecovery
  BY <1>5 DEF AbortRecovery, NotRecovering, WholeInv, WholeRows
<1>6. QED BY <1>2, <1>3, <1>4, <1>5

LEMMA StepWhole ==
  ASSUME NEW Whole, PricesUpTo(Whole)
  PROVE  IInv /\ WholeInv(Whole) /\ [Next]_vars => WholeInv(Whole)'
<1>1. ASSUME WholeInv(Whole), UNCHANGED usageVars PROVE WholeInv(Whole)'
  BY <1>1 DEF usageVars, WholeInv, WholeRows
<1>2. ASSUME IInv, WholeInv(Whole), UsageNext PROVE WholeInv(Whole)'
  BY <1>2, CallWhole, RecoveryWhole DEF UsageNext
<1>3. QED BY <1>1, <1>2 DEF Next, KnowledgeNext, vars, usageVars

LEMMA WholeInductive ==
  ASSUME NEW Whole, PricesUpTo(Whole) PROVE Spec => []WholeInv(Whole)
<1>1. Init => WholeInv(Whole) BY InitWhole
<1>2. IInv /\ WholeInv(Whole) /\ [Next]_vars => WholeInv(Whole)' BY StepWhole
<1>3. QED BY <1>1, <1>2, Inductive, PTL DEF Spec

\* A whole reservation covers the price of the cost it stands for.
LEMMA WholeCovers ==
  ASSUME NEW Whole, PricesUpTo(Whole), IInv, AccountsInv,
         NEW id \in Ids, rows[id].reserved \in Whole
  PROVE  CoversItsCost(id)
<1>1. SUFFICES ASSUME Priceable(FlowCost(FlowOf[id]) + CostAtReservation(id))
               PROVE  ChargeFor(FlowOf[id], CostAtReservation(id)) <= rows[id].reserved
  BY DEF CoversItsCost
<1> DEFINE flow == FlowOf[id]
           before == FlowCost(flow)
           cost == CostAtReservation(id)
           reserved == rows[id].reserved
           paid == UnitsFor(before)
<1>2. Priceable(before) /\ FlowCharged(flow) = paid BY FlowIsPriced DEF Flows
<1>3. reserved \in Nat /\ reserved \in Whole /\ paid \in Whole
  BY <1>2, WholePrice DEF IInv, TypeOK, Row
<1>4. cost \in Nat /\ cost * Rate <= reserved
  <2>1. cost = reserved \div Rate BY DEF CostAtReservation
  <2>2. QED BY <1>3, <2>1, UnitsAssumption
<1>5. before \in Nat /\ before * Rate <= paid
  BY <1>2, PricingAssumption DEF Priceable, UnitsFor, PricingContract
<1>6. (before + cost) * Rate \in Units BY <1>1 DEF Priceable
<1>7. (before + cost) * Rate = before * Rate + cost * Rate
  BY <1>4, <1>5, UnitsAssumption
<1>8. paid + reserved \in Whole /\ paid \in Int BY <1>3 DEF PricesUpTo
<1>9. (before + cost) * Rate <= paid + reserved
  <2>1. before * Rate \in Int /\ cost * Rate \in Int BY <1>4, <1>5, UnitsAssumption
  <2>2. QED BY <1>3, <1>4, <1>5, <1>7, <1>8, <2>1
<1>10. UnitsFor(before + cost) <= paid + reserved
  BY <1>6, <1>8, <1>9 DEF PricesUpTo, UnitsFor
<1>11. UnitsFor(before + cost) \in Nat BY <1>1, UnitsForNat
<1>12. ChargeFor(flow, cost) = UnitsFor(before + cost) - paid BY <1>2 DEF ChargeFor
<1> HIDE DEF before, cost, reserved, paid, flow
<1>13. ChargeFor(flow, cost) <= reserved BY <1>3, <1>8, <1>10, <1>11, <1>12
<1>14. QED BY <1>13 DEF flow, cost, reserved

-----------------------------------------------------------------------------
(* Every state of the ledgers has its types: no charge or reservation is   *)
(* negative and the account is never overdrawn.                            *)
THEOREM LedgerTypeOK == Spec => []TypeOK
<1>1. IInv => TypeOK BY DEF IInv
<1>2. QED BY <1>1, Inductive, PTL

(* A recovery only ever settles holds other attempts of its flow left open. *)
THEOREM RecoveryIsolated == Spec => []RecoverySparesOthers
<1>1. IInv => RecoverySparesOthers BY DEF IInv
<1>2. QED BY <1>1, Inductive, PTL

(* The balance and what the two ledgers took always add up to the grant:   *)
(* reservations, settlements of several calls at once, recoveries that     *)
(* commit or roll back and the knowledge spend neither lose nor make units. *)
THEOREM LedgerConserves == Spec => []FundsConserved
<1>1. IInv /\ AccountsInv => FundsConserved
  <2>1. SUFFICES ASSUME IInv, AccountsInv, available # Unlimited
                 PROVE  available + Taken = Granted
    BY DEF FundsConserved
  <2>2. Taken = SumFunctionOnSet(TakenOf(rows), Ids)
                  + Commitment(group.known, group.pending) - group.unfunded
    BY DEF Taken, TakenOf, SumFunction
  <2>3. available + SumFunctionOnSet(TakenOf(rows), Ids) + Committed = Granted
    BY <2>1 DEF AccountsInv, Accounts, Conserved
  <2>4. /\ SumFunctionOnSet(TakenOf(rows), Ids) \in Int /\ available \in Int
        /\ Commitment(group.known, group.pending) \in Int /\ group.unfunded \in Int
    BY <2>1, RowSums, RoundNat DEF IInv, TypeOK, GroupFits, Commitment
  <2>5. QED BY <2>2, <2>3, <2>4 DEF Committed
<1>2. QED BY <1>1, Inductive, AccountsInductive, PTL

(* However a flow's calls were split over reservations, holds and          *)
(* recoveries, it has been charged the rounding of its whole cost.         *)
THEOREM LedgerChargesAsOne == Spec => []FlowsChargedAsOne
<1>1. AccountsInv => FlowsChargedAsOne BY FlowIsPriced DEF FlowsChargedAsOne
<1>2. QED BY <1>1, AccountsInductive, PTL

(* The knowledge aggregate is the sum of its attempts, each counted once.  *)
THEOREM LedgerGroupMatches == Spec => []GroupMatchesAttempts
<1>1. GroupInv => GroupMatchesAttempts
  BY DEF GroupInv, GroupMatchesAttempts, SumFunction, PendingOf, KnownOf, Undecided
<1>2. QED BY <1>1, GroupInductive, PTL

(* A row that other transactions saw settled never changes again: neither  *)
(* a late settlement nor a recovery, committed or rolled back, touches it. *)
THEOREM SettledRowsFinal == Spec => ChargesFinal
<1>1. IInv /\ [Next]_vars
        => [\A id \in Ids : CommittedRows[id].state = "settled"
                               => CommittedRows'[id] = CommittedRows[id]]_vars
  BY StepFinal DEF Final
<1>2. QED BY <1>1, Inductive, PTL DEF Spec, ChargesFinal

(* Under a pricing that rounds up to whole credits, an open reservation    *)
(* can be settled at its whole amount, whatever the balance; only a hold   *)
(* that the balance capped may be one that recovery has to refuse.         *)
THEOREM LedgerReservationsSettle ==
  ASSUME NEW Whole, PricesUpTo(Whole)
  PROVE  Spec => []ReservationsSettle
<1>1. IInv /\ AccountsInv /\ WholeInv(Whole) => ReservationsSettle
  <2>1. SUFFICES ASSUME IInv, AccountsInv, WholeInv(Whole),
                        NEW id \in Ids, rows[id].state = "open", ~Capped(id)
                 PROVE  CoversItsCost(id)
    BY DEF ReservationsSettle
  <2>2. rows[id].reserved \in Whole
    BY <2>1 DEF WholeInv, WholeRows, WholeOrCapped, Capped
  <2>3. QED BY <2>1, <2>2, WholeCovers
<1>2. QED BY <1>1, Inductive, AccountsInductive, WholeInductive, PTL

(* Under the default pricing, which rounds nothing, a capped hold settles  *)
(* as well.                                                                *)
THEOREM UnroundedReservationsSettle ==
  ASSUME Unrounded PROVE Spec => []EveryReservationSettles
<1>1. IInv /\ AccountsInv => EveryReservationSettles
  <2>1. SUFFICES ASSUME IInv, AccountsInv, NEW id \in Ids PROVE CoversItsCost(id)
    BY DEF EveryReservationSettles
  <2>2. rows[id].reserved \in Int BY <2>1 DEF IInv, TypeOK, Row
  <2>3. QED BY <2>1, <2>2, UnroundedPrices, WholeCovers
<1>2. QED BY <1>1, Inductive, AccountsInductive, PTL
=============================================================================
