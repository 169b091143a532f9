------------------------- MODULE ReplySessionProofs -------------------------
(***************************************************************************)
(* Every step of the sessions is a step of the ledgers or leaves them      *)
(* alone (SessionSpec => Spec), for every number of attempts, calls and    *)
(* sub-agents: so what holds of CreditLedger's behaviours holds of theirs. *)
(* Then what relates the two: the rows of an attempt are what it has in    *)
(* memory, up to what a later attempt recovered (RecordsInv), and the      *)
(* calls of a hold stay within it (PriceInv, BoundsInv).                   *)
(***************************************************************************)
EXTENDS ReplySession, CreditLedgerProofs, FiniteSetTheorems

Phases == {"none", "starting", "recovering", "opening", "ready", "tools", "saving",
           "failing", "ended", "refused", "crashed"}

Prices == {UnitsFor(quote) : quote \in Quotes}

Calls == [step : Nat, worst : Prices, cost : Usages \cup {NoCost}, running : BOOLEAN]

Sessions ==
  [phase : Phases, hold : Ids \cup {NoHold}, held : Nat, calls : Seq(Calls), past : SUBSET Nat,
   holds : Nat, next : Nat, asked : {NoCall} \cup [step : Nat, need : Prices], locked : BOOLEAN]

\* The step is a sub-agent's, or one of the chat's that has had its turn.
Begun(r, s, step) ==
  \/ step \in Helpers[r]
  \/ step \in 0 .. ChatSteps[r] - 1 /\ step < s.next

\* The id of the next hold, from what is in memory.
nextId(r, s, step) ==
  IF s.calls = <<>> /\ s.hold = chatId(r, step) THEN <<r, step, s.holds>> ELSE chatId(r, step)

(* What a process has in memory: its hold is its own, it has none before   *)
(* it opened one, its calls and the call that asks are of different steps, *)
(* and a transaction that settled a hold opens a hold the instance names.  *)
SessionOK(r, s) ==
  /\ s.hold # NoHold => ReplyOf[s.hold] = r
  /\ s.phase \in {"none", "starting", "recovering", "opening"} =>
       s.hold = NoHold /\ ~s.locked
  /\ \A i \in DOMAIN s.calls : Begun(r, s, s.calls[i].step)
  /\ \A i, j \in DOMAIN s.calls : s.calls[i].step = s.calls[j].step => i = j
  /\ s.asked # NoCall =>
       /\ s.phase \in {"ready", "tools"}
       /\ Begun(r, s, s.asked.step)
       /\ \A i \in DOMAIN s.calls : s.calls[i].step # s.asked.step
  /\ s.locked => \/ s.asked # NoCall /\ nextId(r, s, s.asked.step) \in Ids
                 \/ s.phase = "saving" /\ nextId(r, s, s.next) \in Ids

SessionInv ==
  /\ current \in Nat
  /\ session \in [Replies -> Sessions]
  /\ \A r \in Replies : SessionOK(r, session[r])
  /\ \A r \in Replies : r > current => session[r].phase = "none"

-----------------------------------------------------------------------------
\* Constants.

LEMMA RepliesNat == ASSUME NEW r \in Replies PROVE r \in Nat \ {0} /\ r # NoReply
<1>1. Cardinality(Replies) \in Nat BY SessionAssumption, FS_CardinalityType
<1>2. r \in 1 .. Cardinality(Replies) BY SessionAssumption
<1>3. r # NoReply BY DEF Replies
<1>4. QED BY <1>1, <1>2, <1>3

LEMMA HelpersNat == ASSUME NEW r \in Replies PROVE Helpers[r] \subseteq Nat
  BY StepsAssumption

\* Every call of a session has a row of its attempt.
LEMMA ChatIdRow ==
  ASSUME NEW r \in Replies, NEW step \in StepsOf(r)
  PROVE  chatId(r, step) \in Ids /\ ReplyOf[chatId(r, step)] = r
  BY SessionAssumption DEF chatId

\* A hold with a suffix belongs to the same attempt.
LEMMA SuffixRow ==
  ASSUME NEW r \in Replies, NEW step, NEW k, <<r, step, k>> \in Ids,
         ReplyOf[<<r, step, k>>] # NoReply
  PROVE  ReplyOf[<<r, step, k>>] = r
  BY SessionAssumption

LEMMA BegunStep ==
  ASSUME NEW r \in Replies, NEW s, NEW step, Begun(r, s, step) PROVE step \in StepsOf(r)
  BY DEF Begun, StepsOf

LEMMA ReplyFlow ==
  ASSUME NEW id \in Ids, ReplyOf[id] # NoReply
  PROVE  FlowOf[id] = Conversation /\ ReplyOf[id] \in Replies
  BY SessionAssumption DEF Replies

LEMMA ConversationFlow == ASSUME NEW r \in Replies PROVE Conversation \in Flows
<1>1. PICK id \in Ids : ReplyOf[id] = r /\ r # NoReply BY DEF Replies
<1>2. QED BY <1>1, ReplyFlow DEF Flows

-----------------------------------------------------------------------------
\* The ledger operations sessions use are operations of CreditLedger.

LEMMA HoldRefines ==
  ASSUME NEW id \in Ids, NEW need \in Prices \cup {Minimum}, Hold(id, need, Preferred)
  PROVE  HoldReply
  BY AmountsAssumption DEF HoldReply, Prices

LEMMA CostsKnown ==
  ASSUME NEW call \in Calls PROVE costOf(call) \in Costs
  BY AmountsAssumption DEF costOf, Calls, Prices

\* The calls of a hold are of different steps, so a hold funds at most MaxCalls.
LEMMA CallsBounded ==
  ASSUME SessionInv, NEW r \in Replies
  PROVE  Len(session[r].calls) \in 0 .. MaxCalls
<1> DEFINE calls == session[r].calls
           steps == [i \in 1 .. Len(calls) |-> calls[i].step]
<1>1. calls \in Seq(Calls) BY DEF SessionInv, Sessions
<1>2. Len(calls) \in Nat /\ DOMAIN calls = 1 .. Len(calls) BY <1>1
<1>3. \A i \in 1 .. Len(calls) : steps[i] \in StepsOf(r)
  BY <1>2, BegunStep DEF SessionInv, SessionOK
<1>4. \A i, j \in 1 .. Len(calls) : steps[i] = steps[j] => i = j
  BY <1>2 DEF SessionInv, SessionOK
<1>5. steps \in Injection(1 .. Len(calls), StepsOf(r))
  BY <1>3, <1>4 DEF Injection, IsInjective
<1>6. IsFiniteSet(StepsOf(r)) /\ Cardinality(StepsOf(r)) <= MaxCalls BY StepsAssumption
<1>7. Cardinality(1 .. Len(calls)) <= Cardinality(StepsOf(r)) BY <1>5, <1>6, FS_Injection
<1>8. Cardinality(1 .. Len(calls)) = Len(calls) BY <1>2, FS_Interval
<1>9. Cardinality(StepsOf(r)) \in Nat /\ MaxCalls \in Nat
  BY <1>6, FS_CardinalityType, InputsAssumption
<1>10. QED BY <1>2, <1>6, <1>7, <1>8, <1>9

LEMMA SettleRefines ==
  ASSUME SessionInv, NEW r \in Replies, settleHold(r)
  PROVE  SettleHold \/ UNCHANGED <<rows, available, recovery>>
<1>1. CASE ~HoldOpen(r) BY <1>1 DEF settleHold
<1>2. CASE HoldOpen(r)
  <2> DEFINE hold == session[r].hold
             calls == session[r].calls
             n == Len(calls)
             own == {id \in Ids : ReplyOf[id] = ReplyOf[hold]}
  <2>1. hold \in Ids /\ ReplyOf[hold] = r /\ r # NoReply
    BY <1>2, RepliesNat DEF SessionInv, SessionOK, Sessions, HoldOpen
  <2>2. FlowOf[hold] = Conversation BY <2>1, ReplyFlow
  <2>3. calls \in Seq(Calls) /\ DOMAIN calls = 1 .. n /\ n \in 0 .. MaxCalls
    BY CallsBounded DEF SessionInv, Sessions
  <2>4. callIds(r) \in [1 .. n -> own]
    <3>1. \A i \in 1 .. n : chatId(r, calls[i].step) \in own
      BY <2>1, <2>3, BegunStep, ChatIdRow DEF SessionInv, SessionOK
    <3>2. QED BY <2>3, <3>1 DEF callIds
  <2>5. callCosts(r) \in [1 .. n -> Costs] BY <2>3, CostsKnown DEF callCosts
  <2>6. \A i, j \in 1 .. n : callIds(r)[i] = callIds(r)[j] => i = j
    BY <2>3 DEF callIds, chatId, SessionInv, SessionOK
  <2>7. SettleReply(hold, n, callIds(r), costAfter(r)) BY <1>2 DEF settleHold
  <2>8. costAfter(r) =
          LET running[i \in 0 .. n] ==
                IF i = 0 THEN FlowCost(FlowOf[hold]) ELSE running[i - 1] + callCosts(r)[i]
          IN running
    BY <2>2 DEF costAfter
  <2> HIDE DEF hold, calls, n, own
  <2>9. \E ids \in [1 .. n -> {id \in Ids : ReplyOf[id] = ReplyOf[hold]}],
           costs \in [1 .. n -> Costs] :
          /\ \A i, j \in 1 .. n : ids[i] = ids[j] => i = j
          /\ LET running[i \in 0 .. n] ==
                   IF i = 0 THEN FlowCost(FlowOf[hold]) ELSE running[i - 1] + costs[i]
             IN SettleReply(hold, n, ids, running)
    <3>1. callIds(r) \in [1 .. n -> {id \in Ids : ReplyOf[id] = ReplyOf[hold]}]
      BY <2>4 DEF own
    <3>2. WITNESS callIds(r) \in [1 .. n -> {id \in Ids : ReplyOf[id] = ReplyOf[hold]}],
                  callCosts(r) \in [1 .. n -> Costs]
    <3>3. QED BY <2>6, <2>7, <2>8
  <2>10. QED BY <2>1, <2>3, <2>9, ZenonT(60) DEF SettleHold
<1>3. QED BY <1>1, <1>2

-----------------------------------------------------------------------------
\* Every step is one of the ledgers, or leaves them alone.

ledgerVars == <<rows, available, recovery>>

LEMMA OpenRefines ==
  ASSUME NEW r \in Replies, NEW step, NEW need \in Prices \cup {Minimum}, NEW phase, NEW calls,
         nextId(r, session[r], step) \in Ids, openHold(r, step, need, phase, calls)
  PROVE  HoldReply
<1>1. holdId(r, step) \in Ids BY DEF holdId, nextId
<1>2. QED BY <1>1, HoldRefines DEF openHold

LEMMA StepRefines ==
  ASSUME SessionInv, NEW r \in Replies, SessionStep(r)
  PROVE  \/ HoldReply \/ SettleHold
         \/ BeginReplyRecovery \/ RecoverNextHold \/ CommitRecovery \/ AbortRecovery
         \/ UNCHANGED ledgerVars
<1> DEFINE s == session[r]
<1>0. s \in Sessions /\ SessionOK(r, s) BY DEF SessionInv
<1>1. CASE Claim(r) BY <1>1 DEF Claim, ledgerVars
<1>2. CASE StartRecovers(r)
  BY <1>2, ConversationFlow DEF StartRecovers, BeginReplyRecovery
<1>3. CASE RecoverNext(r) BY <1>3 DEF RecoverNext
<1>4. CASE StartRecovered(r) BY <1>4 DEF StartRecovered
<1>5. CASE StartOpens(r)
  <2>1. s.hold = NoHold BY <1>0, <1>5 DEF StartOpens, SessionOK, In
  <2>2. 0 \in StepsOf(r)
    <3>1. ChatSteps[r] \in Nat \ {0} BY StepsAssumption
    <3>2. QED BY <3>1 DEF StepsOf
  <2>3. chatId(r, 0) \in Ids /\ NoHold \notin Ids BY <2>2, ChatIdRow, SessionAssumption
  <2>4. nextId(r, s, 0) \in Ids BY <2>1, <2>3 DEF nextId
  <2>5. QED BY <1>5, <2>4, OpenRefines DEF StartOpens
<1>6. CASE StartFails(r) BY <1>6 DEF StartFails, ledgerVars
<1>7. CASE Asks(r) \/ HelperAsks(r) BY <1>7 DEF Asks, HelperAsks, Asking, ledgerVars
<1>8. CASE Reserves(r) \/ TopUpRefused(r) \/ Answered(r)
  BY <1>8 DEF Reserves, TopUpRefused, Answered, ledgerVars
<1>9. CASE TopUpSettles(r) BY <1>9, SettleRefines DEF TopUpSettles, ledgerVars
<1>10. CASE TopUpOpens(r)
  <2>1. s.asked # NoCall /\ s.locked BY <1>10 DEF TopUpOpens
  <2>2. s.asked.need \in Prices BY <1>0, <2>1 DEF Sessions
  <2>3. nextId(r, s, s.asked.step) \in Ids BY <1>0, <2>1 DEF SessionOK
  <2>4. QED BY <1>10, <2>2, <2>3, OpenRefines DEF TopUpOpens
<1>11. CASE RunsTools(r) \/ ToolsDone(r) BY <1>11 DEF RunsTools, ToolsDone, ledgerVars
<1>12. CASE CheckpointSettles(r)
  BY <1>12, SettleRefines DEF CheckpointSettles, ledgerVars
<1>13. CASE CheckpointOpens(r)
  <2>1. s.phase = "saving" /\ s.locked BY <1>13 DEF CheckpointOpens, In
  <2>2. nextId(r, s, s.next) \in Ids BY <1>0, <2>1 DEF SessionOK
  <2>3. QED BY <1>13, <2>2, OpenRefines DEF CheckpointOpens
<1>14. CASE CheckpointRefused(r) BY <1>14 DEF CheckpointRefused, ledgerVars
<1>15. CASE Ends(r) BY <1>15, SettleRefines DEF Ends, ledgerVars
<1>16. CASE EndRefused(r) \/ Crash(r) BY <1>16 DEF EndRefused, Crash, ledgerVars
<1>17. QED
  BY <1>1, <1>2, <1>3, <1>4, <1>5, <1>6, <1>7, <1>8, <1>9, <1>10, <1>11, <1>12, <1>13,
     <1>14, <1>15, <1>16 DEF SessionStep

LEMMA NextRefines == ASSUME SessionInv, SessionNext PROVE [Next]_vars
<1>1. CASE \E r \in Replies : SessionStep(r) /\ UNCHANGED knowledgeVars
  <2>1. PICK r \in Replies : SessionStep(r) /\ UNCHANGED knowledgeVars BY <1>1
  <2>2. CASE UNCHANGED ledgerVars BY <2>1, <2>2 DEF ledgerVars, knowledgeVars, vars
  <2>3. QED BY <2>1, <2>2, StepRefines DEF Next, UsageNext
<1>2. CASE CallStep BY <1>2 DEF CallStep, Next, UsageNext
<1>3. CASE KnowledgeNext BY <1>3 DEF Next
<1>4. QED BY <1>1, <1>2, <1>3 DEF SessionNext

-----------------------------------------------------------------------------
\* What is in memory stays in order.

LEMMA IdleType == Idle \in Sessions
  BY DEF Idle, Sessions, Phases

LEMMA InitSession == SessionInit => SessionInv
<1>1. Idle \in Sessions BY IdleType
<1>2. ASSUME NEW r \in Replies PROVE SessionOK(r, Idle)
  BY DEF Idle, SessionOK
<1>3. Idle.phase = "none" BY DEF Idle
<1>4. QED BY <1>1, <1>2, <1>3 DEF SessionInit, SessionInv

\* A step changes one attempt's memory.
LEMMA OneSession ==
  ASSUME SessionInv, NEW r \in Replies, NEW s \in Sessions, SessionOK(r, s),
         session' = [session EXCEPT ![r] = s],
         \/ UNCHANGED current /\ (r > current => s.phase = "none")
         \/ current' = r /\ r = current + 1
  PROVE  SessionInv'
<1>1. \A q \in Replies : q \in Nat BY RepliesNat
<1>2. session' \in [Replies -> Sessions] BY DEF SessionInv
<1>3. \A q \in Replies : SessionOK(q, session'[q]) BY DEF SessionInv
<1>4. current' \in Nat BY <1>1 DEF SessionInv
<1>5. \A q \in Replies : q > current' => session'[q].phase = "none" BY <1>1 DEF SessionInv
<1>6. QED BY <1>2, <1>3, <1>4, <1>5 DEF SessionInv

\* What memory holds once a hold is open.
Renewed(s, id, held, steps, calls, phase) ==
  [s EXCEPT !.hold = id, !.held = held, !.past = @ \cup steps, !.calls = calls,
            !.holds = @ + 1, !.phase = phase, !.asked = NoCall, !.locked = FALSE]

LEMMA RenewedType ==
  ASSUME NEW s \in Sessions, NEW id \in Ids, NEW held \in Nat, NEW steps \in SUBSET Nat,
         NEW calls \in Seq(Calls), NEW phase \in {"ready", "tools"}
  PROVE  Renewed(s, id, held, steps, calls, phase) \in Sessions
<1>1. phase \in Phases BY DEF Phases
<1>2. s.past \cup steps \in SUBSET Nat BY DEF Sessions
<1>3. s.holds + 1 \in Nat BY DEF Sessions
<1>4. QED BY <1>1, <1>2, <1>3 DEF Renewed, Sessions

LEMMA RenewedOK ==
  ASSUME NEW r \in Replies, NEW s \in Sessions, SessionOK(r, s), NEW id \in Ids,
         ReplyOf[id] = r, NEW held, NEW steps, NEW calls, NEW phase \in {"ready", "tools"},
         \A i \in DOMAIN calls : Begun(r, s, calls[i].step),
         \A i, j \in DOMAIN calls : calls[i].step = calls[j].step => i = j
  PROVE  SessionOK(r, Renewed(s, id, held, steps, calls, phase))
<1> DEFINE t == Renewed(s, id, held, steps, calls, phase)
<1>1. /\ t.hold = id /\ t.phase = phase /\ t.calls = calls /\ t.asked = NoCall
      /\ t.locked = FALSE /\ t.next = s.next
  BY DEF Renewed, Sessions
<1>2. \A i \in DOMAIN calls : Begun(r, t, calls[i].step) BY <1>1 DEF Begun
<1> HIDE DEF t
<1>3. SessionOK(r, t) BY <1>1, <1>2 DEF SessionOK
<1>4. QED BY <1>3 DEF t

\* The hold just opened: its id is the one the instance named.
LEMMA OpenSession ==
  ASSUME IInv, SessionInv, NEW r \in Replies, NEW step, NEW need \in Prices \cup {Minimum},
         NEW phase \in {"ready", "tools"}, NEW calls \in Seq(Calls),
         nextId(r, session[r], step) \in Ids, r <= current, UNCHANGED current,
         openHold(r, step, need, phase, calls),
         \A i \in DOMAIN calls : Begun(r, session[r], calls[i].step),
         \A i, j \in DOMAIN calls : calls[i].step = calls[j].step => i = j
  PROVE  SessionInv'
<1>1. session[r] \in Sessions /\ SessionOK(r, session[r]) BY DEF SessionInv
<1>2. PICK held : held = HoldFor(available, need, Preferred) OBVIOUS
<1>3. held \in Nat
  BY <1>2, HoldForType, AmountsAssumption, InputsAssumption
     DEF openHold, Hold, IInv, TypeOK, Prices
<1>4. PICK id : id = holdId(r, step) OBVIOUS
<1>5. id \in Ids /\ ReplyOf[id] = r
  <2>1. id \in Ids BY <1>4 DEF holdId, nextId
  <2>2. ReplyOf[id] # NoReply BY <1>4 DEF openHold, Hold
  <2>3. id[1] = r BY <1>4 DEF holdId, chatId
  <2>4. QED BY <2>1, <2>2, <2>3, SessionAssumption
<1>6. PICK steps : steps = {session[r].calls[i].step : i \in DOMAIN session[r].calls} OBVIOUS
<1>7. steps \in SUBSET Nat
  <2>1. \A i \in DOMAIN session[r].calls : session[r].calls[i] \in Calls BY <1>1 DEF Sessions
  <2>2. QED BY <1>6, <2>1 DEF Calls
<1>8. PICK t : t = Renewed(session[r], id, held, steps, calls, phase) OBVIOUS
<1>9. session' = [session EXCEPT ![r] = t]
  BY <1>2, <1>4, <1>6, <1>8, ZenonT(60) DEF openHold, Renewed, SessionInv
<1>10. t \in Sessions
  BY <1>1, <1>3, <1>5, <1>7, <1>8, RenewedType
<1>11. SessionOK(r, t) BY <1>1, <1>5, <1>8, RenewedOK
<1>12. ~(r > current) BY RepliesNat DEF SessionInv
<1>13. QED BY <1>9, <1>10, <1>11, <1>12, OneSession

Early == {"none", "starting", "recovering", "opening"}

LEMMA Begins == ASSUME SessionInv, NEW r \in Replies, session[r].phase # "none" PROVE r <= current
  BY RepliesNat DEF SessionInv

\* A step that ends a reservation, if there was one, and goes on to a phase.
LEMMA Rests ==
  ASSUME SessionInv, NEW r \in Replies, NEW phase \in Phases, ~session[r].locked,
         phase \in Early => session[r].hold = NoHold,
         session' = [session EXCEPT ![r].phase = phase, ![r].asked = NoCall],
         \/ UNCHANGED current /\ r <= current
         \/ current' = r /\ r = current + 1
  PROVE  SessionInv'
<1>1. session[r] \in Sessions /\ SessionOK(r, session[r]) BY DEF SessionInv
<1>2. PICK t : t = [session[r] EXCEPT !.phase = phase, !.asked = NoCall] OBVIOUS
<1>3. t \in Sessions BY <1>1, <1>2 DEF Sessions
<1>4. session' = [session EXCEPT ![r] = t] BY <1>2 DEF SessionInv
<1>5. /\ t.hold = session[r].hold /\ t.calls = session[r].calls /\ t.next = session[r].next
      /\ t.phase = phase /\ t.asked = NoCall /\ t.locked = session[r].locked
  BY <1>1, <1>2 DEF Sessions
<1>6. \A i \in DOMAIN t.calls : Begun(r, t, t.calls[i].step)
  BY <1>1, <1>5 DEF SessionOK, Begun
<1>7. SessionOK(r, t) BY <1>1, <1>5, <1>6 DEF SessionOK, Early
<1>8. QED BY <1>3, <1>4, <1>7, OneSession, RepliesNat DEF SessionInv

LEMMA Moves ==
  ASSUME SessionInv, NEW r \in Replies, NEW phase \in Phases, ~session[r].locked,
         phase \in Early => session[r].hold = NoHold, session[r].asked = NoCall,
         session' = [session EXCEPT ![r].phase = phase],
         \/ UNCHANGED current /\ r <= current
         \/ current' = r /\ r = current + 1
  PROVE  SessionInv'
<1>1. session[r] \in Sessions BY DEF SessionInv
<1>2. [session[r] EXCEPT !.phase = phase] = [session[r] EXCEPT !.phase = phase, !.asked = NoCall]
  BY <1>1 DEF Sessions
<1>3. session' = [session EXCEPT ![r].phase = phase, ![r].asked = NoCall]
  BY <1>2 DEF SessionInv
<1>4. QED BY <1>3, Rests

LEMMA EarlyIdle ==
  ASSUME SessionInv, NEW r \in Replies, session[r].phase \in Early
  PROVE  session[r].hold = NoHold /\ session[r].asked = NoCall /\ ~session[r].locked
  BY DEF SessionInv, SessionOK, Early

LEMMA StartKeeps ==
  ASSUME SessionInv, NEW r \in Replies,
         Claim(r) \/ StartRecovers(r) \/ RecoverNext(r) \/ StartRecovered(r) \/ StartFails(r)
  PROVE  SessionInv'
<1>1. CASE Claim(r)
  <2>1. session[r].phase = "none" BY <1>1, RepliesNat DEF Claim, SessionInv
  <2>2. QED BY <1>1, <2>1, EarlyIdle, Moves DEF Claim, Early, Phases
<1>2. CASE StartRecovers(r)
  BY <1>2, EarlyIdle, Begins, Moves DEF StartRecovers, In, Early, Phases
<1>3. CASE RecoverNext(r) BY <1>3 DEF RecoverNext, sessionVars, SessionInv
<1>4. CASE StartRecovered(r)
  BY <1>4, EarlyIdle, Begins, Moves DEF StartRecovered, In, Early, Phases
<1>5. CASE StartFails(r)
  BY <1>5, EarlyIdle, Begins, Moves DEF StartFails, In, Early, Phases
<1>6. QED BY <1>1, <1>2, <1>3, <1>4, <1>5

LEMMA RoundKeeps ==
  ASSUME SessionInv, NEW r \in Replies,
         \/ TopUpRefused(r) \/ RunsTools(r) \/ ToolsDone(r) \/ CheckpointRefused(r)
         \/ Ends(r) \/ EndRefused(r)
  PROVE  SessionInv'
<1>0. session[r] \in Sessions /\ SessionOK(r, session[r]) BY DEF SessionInv
<1>1. CASE TopUpRefused(r)
  <2>1. session[r].phase \in {"ready", "tools"} /\ ~session[r].locked
    BY <1>0, <1>1 DEF TopUpRefused, TopUp, SessionOK
  <2>2. PICK phase : phase = IF session[r].asked.step \in Helpers[r] THEN session[r].phase
                                                                   ELSE "failing"
    OBVIOUS
  <2>3. session' = [session EXCEPT ![r].phase = phase, ![r].asked = NoCall]
    BY <1>1, <2>2 DEF TopUpRefused, SessionInv
  <2>4. phase \in Phases /\ phase \notin Early BY <2>1, <2>2 DEF Phases, Early
  <2>5. QED BY <1>1, <2>1, <2>3, <2>4, Begins, Rests DEF TopUpRefused
<1>2. CASE RunsTools(r)
  <2>1. session[r].phase = "ready" /\ session[r].asked = NoCall
    BY <1>2 DEF RunsTools, In, Between
  <2>2. ~session[r].locked BY <1>0, <2>1 DEF SessionOK
  <2>3. QED BY <1>2, <2>1, <2>2, Begins, Moves DEF RunsTools, Phases, Early
<1>3. CASE ToolsDone(r)
  <2>1. session[r].phase = "tools" /\ session[r].asked = NoCall
    BY <1>3 DEF ToolsDone, In, Between
  <2>2. ~session[r].locked BY <1>0, <2>1 DEF SessionOK
  <2>3. QED BY <1>3, <2>1, <2>2, Begins, Moves DEF ToolsDone, Phases, Early
<1>4. CASE CheckpointRefused(r)
  <2>1. session[r].phase = "saving" /\ ~session[r].locked
    BY <1>4 DEF CheckpointRefused, Checkpoint, In
  <2>2. session[r].asked = NoCall BY <1>0, <2>1 DEF SessionOK
  <2>3. QED BY <1>4, <2>1, <2>2, Begins, Moves DEF CheckpointRefused, Phases, Early
<1>5. CASE Ends(r)
  <2>1. session[r].phase # "none" /\ ~session[r].locked
    BY <1>5 DEF Ends, Finished, Metering, In
  <2>2. QED BY <1>5, <2>1, Begins, Rests DEF Ends, Phases, Early
<1>6. CASE EndRefused(r)
  <2>1. session[r].phase # "none" /\ ~session[r].locked
    BY <1>6 DEF EndRefused, Finished, Metering, In
  <2>2. QED BY <1>6, <2>1, Begins, Rests DEF EndRefused, Phases, Early
<1>7. QED BY <1>1, <1>2, <1>3, <1>4, <1>5, <1>6

\* Metering.

LEMMA BegunLater ==
  ASSUME NEW r \in Replies, NEW s, NEW t, NEW step, s.next \in Nat, t.next \in Nat,
         s.next <= t.next, Begun(r, s, step)
  PROVE  Begun(r, t, step)
<1>1. ChatSteps[r] \in Nat BY StepsAssumption
<1>2. QED BY <1>1 DEF Begun

LEMMA AskingKeeps ==
  ASSUME SessionInv, NEW r \in Replies, Asks(r) \/ HelperAsks(r)
  PROVE  SessionInv'
<1>0. session[r] \in Sessions /\ SessionOK(r, session[r]) BY DEF SessionInv
<1> DEFINE Asked(step, quote) ==
             /\ Asking(r, step, quote)
             /\ \/ step = session[r].next /\ step < ChatSteps[r]
                \/ step \in Helpers[r] \ Metered(r)
             /\ session[r].phase \in {"ready", "tools"}
<1>a. \E step : \E quote \in Quotes : Asked(step, quote)
  <2>1. CASE Asks(r)
    <3>1. PICK quote \in Quotes : Asking(r, session[r].next, quote) BY <2>1 DEF Asks
    <3>2. Asked(session[r].next, quote) BY <2>1, <3>1 DEF Asks, In
    <3>3. QED BY <3>2
  <2>2. CASE HelperAsks(r)
    <3>1. PICK step \in Helpers[r] \ Metered(r), quote \in Quotes : Asking(r, step, quote)
      BY <2>2 DEF HelperAsks
    <3>2. Asked(step, quote) BY <2>2, <3>1 DEF HelperAsks, In
    <3>3. QED BY <3>2
  <2>3. QED BY <2>1, <2>2
<1>b. PICK step : \E quote \in Quotes : Asked(step, quote) BY <1>a
<1>1. PICK quote \in Quotes : Asked(step, quote) BY <1>b
<1>2. /\ ChatSteps[r] \in Nat \ {0}
      /\ Helpers[r] \subseteq Nat \ (0 .. ChatSteps[r] - 1)
  BY StepsAssumption
<1>3. PICK asked : asked = [step |-> step, need |-> UnitsFor(quote)] OBVIOUS
<1>4. PICK next : next = IF step \in Helpers[r] THEN session[r].next ELSE step + 1 OBVIOUS
<1>5. PICK t : t = [session[r] EXCEPT !.asked = asked, !.next = next] OBVIOUS
<1>6. session' = [session EXCEPT ![r] = t]
  BY <1>1, <1>3, <1>4, <1>5 DEF Asking, SessionInv
<1>7. session[r].next \in Nat BY <1>0 DEF Sessions
<1>8. step \in Nat /\ next \in Nat /\ session[r].next <= next BY <1>1, <1>2, <1>4, <1>7
<1>9. asked \in [step : Nat, need : Prices] BY <1>3, <1>8 DEF Prices
<1>10. t \in Sessions BY <1>0, <1>5, <1>8, <1>9 DEF Sessions
<1>11. /\ t.hold = session[r].hold /\ t.calls = session[r].calls /\ t.next = next
       /\ t.phase = session[r].phase /\ t.asked = asked /\ t.locked = session[r].locked
  BY <1>0, <1>5 DEF Sessions
<1>12. asked.step = step BY <1>3
<1>13. Begun(r, t, step)
  <2>1. CASE step \in Helpers[r] BY <2>1 DEF Begun
  <2>2. CASE step \notin Helpers[r]
    <3>1. step < ChatSteps[r] BY <1>1, <2>2
    <3>2. step \in 0 .. ChatSteps[r] - 1 BY <1>2, <1>8, <3>1
    <3>3. step < t.next BY <1>4, <1>8, <1>11, <2>2
    <3>4. QED BY <3>2, <3>3 DEF Begun
  <2>3. QED BY <2>1, <2>2
<1>14. \A i \in DOMAIN t.calls : Begun(r, t, t.calls[i].step)
  BY <1>0, <1>7, <1>8, <1>11, BegunLater DEF SessionOK
<1>15. \A i \in DOMAIN t.calls : t.calls[i].step # step
  <2>1. CASE step \in Helpers[r] \ Metered(r) BY <1>11, <2>1 DEF Metered
  <2>2. CASE step = session[r].next /\ step < ChatSteps[r]
    <3>1. step \notin Helpers[r] BY <1>2, <1>7, <2>2
    <3>2. QED BY <1>0, <1>7, <1>11, <2>2, <3>1 DEF SessionOK, Begun
  <2>3. QED BY <1>1, <2>1, <2>2
<1>16. ~t.locked BY <1>0, <1>1, <1>11 DEF SessionOK, Asking
<1>17. SessionOK(r, t)
  BY <1>0, <1>1, <1>11, <1>12, <1>13, <1>14, <1>15, <1>16 DEF SessionOK
<1>18. UNCHANGED current /\ r <= current BY <1>1, Begins DEF Asking
<1>19. QED BY <1>6, <1>10, <1>17, <1>18, OneSession, RepliesNat DEF SessionInv

LEMMA AskedCall ==
  ASSUME SessionInv, NEW r \in Replies, session[r].asked # NoCall
  PROVE  /\ NewCall(session[r].asked.step, session[r].asked.need) \in Calls
         /\ session[r].asked.need \in Prices
         /\ NewCall(session[r].asked.step, session[r].asked.need).step = session[r].asked.step
<1>1. session[r].asked \in [step : Nat, need : Prices] BY DEF SessionInv, Sessions
<1>2. QED BY <1>1 DEF NewCall, Calls

LEMMA ReservesKeeps ==
  ASSUME SessionInv, NEW r \in Replies, Reserves(r)
  PROVE  SessionInv'
<1>0. session[r] \in Sessions /\ SessionOK(r, session[r]) BY DEF SessionInv
<1>1. session[r].asked # NoCall /\ ~session[r].locked BY DEF Reserves
<1>2. PICK call : call = NewCall(session[r].asked.step, session[r].asked.need) OBVIOUS
<1>3. call \in Calls /\ call.step = session[r].asked.step BY <1>1, <1>2, AskedCall
<1>4. PICK calls : calls = Append(session[r].calls, call) OBVIOUS
<1>5. session[r].calls \in Seq(Calls) BY <1>0 DEF Sessions
<1>6. /\ calls \in Seq(Calls) /\ DOMAIN calls = DOMAIN session[r].calls \cup {Len(calls)}
      /\ Len(calls) \notin DOMAIN session[r].calls
      /\ \A i \in DOMAIN session[r].calls : calls[i] = session[r].calls[i]
      /\ calls[Len(calls)] = call
  BY <1>3, <1>4, <1>5, SMTT(60)
<1>7. PICK t : t = [session[r] EXCEPT !.calls = calls, !.asked = NoCall] OBVIOUS
<1>8. session' = [session EXCEPT ![r] = t]
  BY <1>2, <1>4, <1>7 DEF Reserves, SessionInv
<1>9. t \in Sessions BY <1>0, <1>6, <1>7 DEF Sessions
<1>10. /\ t.hold = session[r].hold /\ t.calls = calls /\ t.next = session[r].next
       /\ t.phase = session[r].phase /\ t.asked = NoCall /\ t.locked = session[r].locked
  BY <1>0, <1>7 DEF Sessions
<1>11. \A i \in DOMAIN calls : Begun(r, session[r], calls[i].step)
  BY <1>0, <1>1, <1>3, <1>6 DEF SessionOK
<1>12. \A i \in DOMAIN t.calls : Begun(r, t, t.calls[i].step) BY <1>10, <1>11 DEF Begun
<1>13. \A i, j \in DOMAIN calls : calls[i].step = calls[j].step => i = j
  BY <1>0, <1>1, <1>3, <1>6, ZenonT(60) DEF SessionOK
<1>14. SessionOK(r, t) BY <1>0, <1>1, <1>10, <1>12, <1>13 DEF SessionOK
<1>15. UNCHANGED current /\ r <= current
  <2>1. session[r].phase # "none" BY <1>0, <1>1 DEF SessionOK
  <2>2. QED BY <2>1, Begins DEF Reserves
<1>16. QED BY <1>8, <1>9, <1>14, <1>15, OneSession, RepliesNat DEF SessionInv

\* An answer changes nothing but what its call cost.
LEMMA AnsweredKeeps ==
  ASSUME SessionInv, NEW r \in Replies, Answered(r)
  PROVE  SessionInv'
<1>0. session[r] \in Sessions /\ SessionOK(r, session[r]) BY DEF SessionInv
<1>1. PICK i \in DOMAIN session[r].calls, cost \in Usages \cup {NoCost} :
        session' = [session EXCEPT ![r].calls[i] = [@ EXCEPT !.cost = cost, !.running = FALSE]]
  BY DEF Answered, Running
<1>2. PICK call : call = [session[r].calls[i] EXCEPT !.cost = cost, !.running = FALSE] OBVIOUS
<1>3. session[r].calls \in Seq(Calls) BY <1>0 DEF Sessions
<1>4. session[r].calls[i] \in Calls BY <1>3
<1>5. call \in Calls /\ call.step = session[r].calls[i].step BY <1>2, <1>4 DEF Calls
<1>6. PICK calls : calls = [session[r].calls EXCEPT ![i] = call] OBVIOUS
<1>7. /\ calls \in Seq(Calls) /\ DOMAIN calls = DOMAIN session[r].calls
      /\ calls = <<>> <=> session[r].calls = <<>>
  BY <1>3, <1>5, <1>6
<1>8. \A j \in DOMAIN calls : calls[j].step = session[r].calls[j].step
  BY <1>3, <1>5, <1>6
<1>9. PICK t : t = [session[r] EXCEPT !.calls = calls] OBVIOUS
<1>10. session' = [session EXCEPT ![r] = t]
  BY <1>0, <1>1, <1>2, <1>6, <1>9 DEF SessionInv, Sessions
<1>11. t \in Sessions BY <1>0, <1>7, <1>9 DEF Sessions
<1>12. /\ t.hold = session[r].hold /\ t.calls = calls /\ t.next = session[r].next
       /\ t.phase = session[r].phase /\ t.asked = session[r].asked
       /\ t.locked = session[r].locked /\ t.holds = session[r].holds
  BY <1>0, <1>9 DEF Sessions
<1>13. \A j \in DOMAIN calls : Begun(r, t, calls[j].step)
  BY <1>0, <1>7, <1>8, <1>12 DEF SessionOK, Begun
<1>14. \A step : nextId(r, t, step) = nextId(r, session[r], step) BY <1>7, <1>12 DEF nextId
<1>15. SessionOK(r, t)
  <2>1. \A j \in DOMAIN t.calls : t.calls[j].step = session[r].calls[j].step BY <1>8, <1>12
  <2>2. DOMAIN t.calls = DOMAIN session[r].calls BY <1>7, <1>12
  <2>3. \A j, k \in DOMAIN t.calls : t.calls[j].step = t.calls[k].step => j = k
    BY <1>0, <2>1, <2>2 DEF SessionOK
  <2>4. t.asked # NoCall =>
          /\ t.phase \in {"ready", "tools"}
          /\ Begun(r, t, t.asked.step)
          /\ \A j \in DOMAIN t.calls : t.calls[j].step # t.asked.step
    BY <1>0, <1>12, <2>1, <2>2 DEF SessionOK, Begun
  <2>5. t.locked => \/ t.asked # NoCall /\ nextId(r, t, t.asked.step) \in Ids
                    \/ t.phase = "saving" /\ nextId(r, t, t.next) \in Ids
    BY <1>0, <1>12, <1>14 DEF SessionOK
  <2>6. \A j \in DOMAIN t.calls : Begun(r, t, t.calls[j].step) BY <1>12, <1>13
  <2>7. /\ t.hold # NoHold => ReplyOf[t.hold] = r
        /\ t.phase \in {"none", "starting", "recovering", "opening"} =>
             t.hold = NoHold /\ ~t.locked
    BY <1>0, <1>12 DEF SessionOK
  <2>8. QED BY <2>3, <2>4, <2>5, <2>6, <2>7 DEF SessionOK
<1>16. UNCHANGED current /\ r <= current
  BY Begins DEF Answered, Metering, In
<1>17. QED BY <1>10, <1>11, <1>15, <1>16, OneSession, RepliesNat DEF SessionInv

-----------------------------------------------------------------------------
\* Transactions that replace the hold, and crashes.

LEMMA SettlesKeeps ==
  ASSUME SessionInv, NEW r \in Replies, TopUpSettles(r) \/ CheckpointSettles(r)
  PROVE  SessionInv'
<1>0. session[r] \in Sessions /\ SessionOK(r, session[r]) BY DEF SessionInv
<1>1. session' = [session EXCEPT ![r].locked = TRUE] /\ UNCHANGED current
  BY DEF TopUpSettles, CheckpointSettles
<1>2. PICK t : t = [session[r] EXCEPT !.locked = TRUE] OBVIOUS
<1>3. t \in Sessions /\ session' = [session EXCEPT ![r] = t]
  BY <1>0, <1>1, <1>2 DEF Sessions, SessionInv
<1>4. /\ t.hold = session[r].hold /\ t.calls = session[r].calls /\ t.next = session[r].next
      /\ t.phase = session[r].phase /\ t.asked = session[r].asked
      /\ t.holds = session[r].holds /\ t.locked
  BY <1>0, <1>2 DEF Sessions
<1>5. \/ session[r].asked # NoCall /\ holdId(r, session[r].asked.step) \in Ids
      \/ session[r].phase = "saving" /\ holdId(r, session[r].next) \in Ids
  BY DEF TopUpSettles, TopUp, CheckpointSettles, Checkpoint, Named, In
<1>6. \A step : nextId(r, t, step) = holdId(r, step) BY <1>4 DEF nextId, holdId
<1>7. session[r].phase \notin Early BY <1>0, <1>5 DEF SessionOK, Early
<1>8. \A i \in DOMAIN t.calls : Begun(r, t, t.calls[i].step)
  BY <1>0, <1>4 DEF SessionOK, Begun
<1>9. t.asked # NoCall => Begun(r, t, t.asked.step) BY <1>0, <1>4 DEF SessionOK, Begun
<1>10. SessionOK(r, t) BY <1>0, <1>4, <1>5, <1>6, <1>7, <1>8, <1>9 DEF SessionOK, Early
<1>11. ~(r > current) BY <1>7, Begins, RepliesNat DEF Early, SessionInv
<1>12. QED BY <1>1, <1>3, <1>10, <1>11, OneSession

LEMMA OpensKeeps ==
  ASSUME IInv, SessionInv, NEW r \in Replies,
         StartOpens(r) \/ TopUpOpens(r) \/ CheckpointOpens(r)
  PROVE  SessionInv'
<1> DEFINE s == session[r]
<1>0. s \in Sessions /\ SessionOK(r, s) BY DEF SessionInv
<1>1. <<>> \in Seq(Calls) /\ DOMAIN <<>> = {} OBVIOUS
<1>2. CASE StartOpens(r)
  <2>1. s.phase \in {"starting", "opening"} BY <1>2 DEF StartOpens, In
  <2>2. s.hold = NoHold BY <1>0, <2>1 DEF SessionOK
  <2>3. ChatSteps[r] \in Nat \ {0} BY StepsAssumption
  <2>4. 0 \in StepsOf(r) BY <2>3 DEF StepsOf
  <2>5. chatId(r, 0) \in Ids /\ NoHold \notin Ids BY <2>4, ChatIdRow, SessionAssumption
  <2>6. nextId(r, s, 0) \in Ids BY <2>2, <2>5 DEF nextId
  <2>7. r <= current BY <2>1, Begins
  <2>8. openHold(r, 0, Minimum, "ready", <<>>) /\ UNCHANGED current BY <1>2 DEF StartOpens
  <2>9. QED BY <1>1, <2>6, <2>7, <2>8, OpenSession
<1>3. CASE TopUpOpens(r)
  <2>1. s.asked # NoCall /\ s.locked BY <1>3 DEF TopUpOpens
  <2>2. s.phase \in {"ready", "tools"} /\ Begun(r, s, s.asked.step) BY <1>0, <2>1 DEF SessionOK
  <2>3. nextId(r, s, s.asked.step) \in Ids BY <1>0, <2>1, <2>2 DEF SessionOK
  <2>4. PICK call : call = NewCall(s.asked.step, s.asked.need) OBVIOUS
  <2>5. call \in Calls /\ call.step = s.asked.step /\ s.asked.need \in Prices
    BY <2>1, <2>4, AskedCall
  <2>6. PICK calls, step, need, phase :
          calls = <<call>> /\ step = s.asked.step /\ need = s.asked.need /\ phase = s.phase
    OBVIOUS
  <2>7. calls \in Seq(Calls) /\ DOMAIN calls = {1} /\ calls[1] = call BY <2>5, <2>6
  <2>8. openHold(r, step, need, phase, calls) /\ UNCHANGED current
    BY <1>3, <2>4, <2>6 DEF TopUpOpens
  <2>9. r <= current BY <2>2, Begins
  <2>10. \A i \in DOMAIN calls : Begun(r, s, calls[i].step) BY <2>2, <2>5, <2>7
  <2>11. \A i, j \in DOMAIN calls : calls[i].step = calls[j].step => i = j BY <2>7
  <2>12. /\ need \in Prices \cup {Minimum} /\ phase \in {"ready", "tools"}
         /\ nextId(r, s, step) \in Ids
    BY <2>2, <2>3, <2>5, <2>6
  <2>13. QED BY <2>7, <2>8, <2>9, <2>10, <2>11, <2>12, OpenSession
<1>4. CASE CheckpointOpens(r)
  <2>1. s.phase = "saving" /\ s.locked BY <1>4 DEF CheckpointOpens, In
  <2>2. nextId(r, s, s.next) \in Ids BY <1>0, <2>1 DEF SessionOK
  <2>3. r <= current BY <2>1, Begins
  <2>4. openHold(r, s.next, Minimum, "ready", <<>>) /\ UNCHANGED current
    BY <1>4 DEF CheckpointOpens
  <2>5. QED BY <1>1, <2>2, <2>3, <2>4, OpenSession
<1>5. QED BY <1>2, <1>3, <1>4

LEMMA CrashKeeps ==
  ASSUME SessionInv, NEW r \in Replies, Crash(r)
  PROVE  SessionInv'
<1>1. PICK t : t = [Idle EXCEPT !.phase = "crashed"] OBVIOUS
<1>2. t \in Sessions BY <1>1, IdleType DEF Sessions, Phases
<1>3. /\ t.hold = NoHold /\ t.calls = <<>> /\ t.asked = NoCall /\ t.locked = FALSE
      /\ t.phase = "crashed"
  BY <1>1 DEF Idle
<1>4. SessionOK(r, t) BY <1>3 DEF SessionOK
<1>5. session' = [session EXCEPT ![r] = t] /\ UNCHANGED current BY <1>1 DEF Crash
<1>6. r <= current BY Begins DEF Crash, Metering, In
<1>7. QED BY <1>2, <1>4, <1>5, <1>6, OneSession, RepliesNat DEF SessionInv

-----------------------------------------------------------------------------
LEMMA SessionKeeps ==
  ASSUME IInv, SessionInv, [SessionNext]_<<vars, sessionVars>>
  PROVE  SessionInv'
<1>1. CASE UNCHANGED sessionVars BY <1>1 DEF sessionVars, SessionInv
<1>2. CASE \E r \in Replies : SessionStep(r)
  <2>1. PICK r \in Replies : SessionStep(r) BY <1>2
  <2>2. QED
    BY <2>1, StartKeeps, RoundKeeps, AskingKeeps, ReservesKeeps, AnsweredKeeps, SettlesKeeps,
       OpensKeeps, CrashKeeps
       DEF SessionStep
<1>3. QED BY <1>1, <1>2 DEF SessionNext

LEMMA SessionStepRefines ==
  ASSUME SessionInv, [SessionNext]_<<vars, sessionVars>> PROVE [Next]_vars
<1>1. CASE UNCHANGED <<vars, sessionVars>> BY <1>1
<1>2. QED BY <1>1, NextRefines

LEMMA SessionInductive == SessionSpec => [](IInv /\ SessionInv)
<1>1. SessionInit => IInv /\ SessionInv
  BY InitIInv, InitSession DEF SessionInit
<1>2. IInv /\ SessionInv /\ [SessionNext]_<<vars, sessionVars>> => (IInv /\ SessionInv)'
  BY SessionKeeps, SessionStepRefines, StepIInv
<1>3. QED BY <1>1, <1>2, PTL DEF SessionSpec

-----------------------------------------------------------------------------
\* What an attempt has in memory and what its rows say of each other.

\* The phases in which an attempt has a hold.
Active == {"ready", "tools", "saving", "failing"}

\* The rows that carry the attempt's prefix.
Own(r) == {id \in Ids : ReplyOf[id] = r}

\* The rows of the calls its earlier holds, and its hold, funded.
PastIds(r, s) == {chatId(r, step) : step \in s.past}
CallRows(r, s) == {chatId(r, s.calls[i].step) : i \in DOMAIN s.calls}

\* A later attempt has got past its claim.
Overtaken(r) == \E later \in Replies : later > r /\ session[later].phase \notin {"none", "starting"}

(* What a process has in memory, again: the steps it metered, asks for and *)
(* has settled are all different, and its hold is named for its first call *)
(* or, until there is one, for the chat's next; a hold with a suffix has   *)
(* the call it was opened for.                                             *)
MemoryOK(r, s) ==
  /\ \A step \in s.past : Begun(r, s, step)
  /\ s.phase \in Early \cup {"crashed"} => s.calls = <<>> /\ s.past = {} /\ s.next = 0
  /\ s.phase \in Active =>
       /\ s.hold = <<r, s.hold[2], s.hold[3]>> /\ s.hold[3] \in Nat
       /\ s.hold \in Ids /\ s.holds > 0
       /\ \A i \in DOMAIN s.calls : s.calls[i].step \notin s.past
       /\ s.asked # NoCall => s.asked.step \notin s.past
       /\ s.calls # <<>> => s.hold[2] = s.calls[1].step
       /\ s.calls = <<>> =>
            /\ s.phase \in {"ready", "failing"} /\ s.hold[3] = 0
            /\ s.phase = "ready" => s.hold[2] = IF s.asked = NoCall THEN s.next ELSE s.asked.step
       /\ s.locked => s.hold[3] = 0
       /\ s.phase = "ready" /\ s.asked # NoCall => s.asked.step \notin Helpers[r]

(* What the attempt's rows say, by what it has in memory. `late' is that a *)
(* later attempt may have settled its hold.                                *)
RowOK(r, s, id, row, late) ==
  /\ s.phase \in Early => row.state = "none"
  /\ s.phase \in Active \cup {"ended", "refused"} /\ id \in PastIds(r, s) => row.state = "settled"
  /\ s.phase = "ended" => row.state # "open"
  /\ s.phase \in Active =>
       /\ row.state = "open" => id = s.hold /\ row.reserved = s.held /\ ~s.locked
       /\ id = s.hold => row.state = "open" \/ (row.state = "settled" /\ (late \/ s.locked))
       /\ s.locked /\ id \in CallRows(r, s) => row.state = "settled"
       /\ IF s.hold[3] > 0
          THEN id = chatId(r, s.hold[2]) => row.state = "settled"
          ELSE row.state # "none" =>
                 id = s.hold \/ id \in PastIds(r, s) \/ (s.locked /\ id \in CallRows(r, s))

RowsOK(r, s, R, late) == \A id \in Own(r) : RowOK(r, s, id, R[id], late)

\* An attempt that ended has paid for its last calls, or left that to a later one.
EndOK(r, s, R, late) ==
  s.phase = "ended" =>
    \/ \A i \in DOMAIN s.calls :
         LET row == R[chatId(r, s.calls[i].step)]
         IN row.state = "settled" /\ row.cost = costOf(s.calls[i])
    \/ /\ late /\ s.hold # NoHold
       /\ \/ s.hold[3] > 0
          \/ \A i \in DOMAIN s.calls : 
               LET id == chatId(r, s.calls[i].step) IN id = s.hold \/ R[id].state = "none"

\* At most one start recovers, and only attempts before it have rows.
RecoveryInv ==
  /\ \A r \in Replies : session[r].phase = "recovering" <=> recovery.active /\ recovery.reply = r
  /\ recovery.active =>
       /\ \A r \in Replies : ~session[r].locked
       /\ \A r \in Replies : r > recovery.reply =>
            /\ session[r].phase \in {"none", "starting", "crashed"}
            /\ \A id \in Own(r) : rows[id].state = "none"

RecordsInv ==
  /\ RecoveryInv
  /\ \A r \in Replies :
       /\ MemoryOK(r, session[r])
       /\ RowsOK(r, session[r], rows, Overtaken(r))
       /\ EndOK(r, session[r], rows, Overtaken(r))
       /\ recovery.active =>
            /\ RowsOK(r, session[r], recovery.rows, Overtaken(r))
            /\ EndOK(r, session[r], recovery.rows, Overtaken(r))

\* RecordsInv, of one attempt.
AttemptOK(r, s, late) ==
  /\ MemoryOK(r, s)
  /\ RowsOK(r, s, rows, late) /\ EndOK(r, s, rows, late)
  /\ recovery.active => RowsOK(r, s, recovery.rows, late) /\ EndOK(r, s, recovery.rows, late)

-----------------------------------------------------------------------------
\* What other attempts do not disturb.

LEMMA CallsOwn ==
  ASSUME SessionInv, NEW r \in Replies
  PROVE  CallRows(r, session[r]) \subseteq Own(r)
<1>1. \A i \in DOMAIN session[r].calls : session[r].calls[i].step \in StepsOf(r)
  BY BegunStep DEF SessionInv, SessionOK
<1>2. QED BY <1>1, ChatIdRow DEF CallRows, Own

LEMMA RowLater ==
  ASSUME NEW r, NEW s, NEW id, NEW row, NEW late \in BOOLEAN, NEW after \in BOOLEAN,
         late => after, RowOK(r, s, id, row, late)
  PROVE  RowOK(r, s, id, row, after)
BY DEF RowOK

\* The hold of an attempt that was overtaken is settled.
LEMMA RowRecovers ==
  ASSUME NEW r, NEW s, NEW id, NEW row, NEW new, NEW late \in BOOLEAN,
         RowOK(r, s, id, row, late), row.state = "open", new.state = "settled"
  PROVE  RowOK(r, s, id, new, TRUE)
BY DEF RowOK, Early, Active

LEMMA RowsKept ==
  ASSUME SessionInv, NEW r \in Replies, NEW R, NEW S, NEW late \in BOOLEAN, NEW after \in BOOLEAN,
         late => after, \A id \in Own(r) : S[id] = R[id],
         RowsOK(r, session[r], R, late), EndOK(r, session[r], R, late)
  PROVE  RowsOK(r, session[r], S, after) /\ EndOK(r, session[r], S, after)
<1>1. RowsOK(r, session[r], S, after) BY RowLater DEF RowsOK
<1>2. \A i \in DOMAIN session[r].calls : chatId(r, session[r].calls[i].step) \in Own(r)
  BY CallsOwn DEF CallRows
<1>3. EndOK(r, session[r], S, after) BY <1>2 DEF EndOK
<1>4. QED BY <1>1, <1>3

\* Attempts that got past their claim stay there.
Onward(s, t) == s.phase \notin {"none", "starting"} => t.phase \notin {"none", "starting"}

LEMMA OvertakenStays ==
  ASSUME SessionInv, NEW r \in Replies, NEW t, session' = [session EXCEPT ![r] = t],
         Onward(session[r], t), NEW q \in Replies
  PROVE  Overtaken(q) => Overtaken(q)'
BY DEF Overtaken, Onward, SessionInv

LEMMA OvertakenBehind ==
  ASSUME SessionInv, NEW r \in Replies, Overtaken(r) PROVE ~Fence(r)
<1>1. PICK later \in Replies : later > r /\ session[later].phase # "none" BY DEF Overtaken
<1>2. later <= current BY <1>1, Begins
<1>3. QED BY <1>1, <1>2, RepliesNat DEF Fence, SessionInv

LEMMA Assemble ==
  ASSUME SessionInv, RecordsInv, NEW r \in Replies, NEW t, session' = [session EXCEPT ![r] = t],
         UNCHANGED recovery, Onward(session[r], t),
         \A q \in Replies \ {r} : \A id \in Own(q) : rows'[id] = rows[id],
         t.phase = "recovering" <=> session[r].phase = "recovering",
         recovery.active =>
           /\ ~t.locked /\ UNCHANGED rows
           /\ r > recovery.reply => t.phase \in {"none", "starting", "crashed"},
         MemoryOK(r, t), RowsOK(r, t, rows', Overtaken(r)), EndOK(r, t, rows', Overtaken(r)),
         recovery.active => /\ RowsOK(r, t, recovery.rows, Overtaken(r))
                            /\ EndOK(r, t, recovery.rows, Overtaken(r))
  PROVE  RecordsInv'
<1>1. \A q \in Replies : Overtaken(q) \in BOOLEAN /\ Overtaken(q)' \in BOOLEAN BY DEF Overtaken
<1>2. \A q \in Replies : Overtaken(q) => Overtaken(q)' BY OvertakenStays
<1>3. session'[r] = t /\ \A q \in Replies \ {r} : session'[q] = session[q] BY DEF SessionInv
<1>4. RecoveryInv' BY <1>3 DEF RecordsInv, RecoveryInv
<1>5. ASSUME NEW q \in Replies \ {r}
      PROVE  AttemptOK(q, session[q], Overtaken(q))'
  <2>1. RowsOK(q, session[q], rows', Overtaken(q)') /\ EndOK(q, session[q], rows', Overtaken(q)')
    BY <1>1, <1>2, RowsKept DEF RecordsInv
  <2>2. recovery.active => /\ RowsOK(q, session[q], recovery.rows, Overtaken(q)')
                           /\ EndOK(q, session[q], recovery.rows, Overtaken(q)')
    BY <1>1, <1>2, RowsKept, SMTT(60) DEF RecordsInv
  <2>3. MemoryOK(q, session[q]) BY DEF RecordsInv
  <2>4. QED BY <1>3, <2>1, <2>2, <2>3 DEF AttemptOK
<1>6. AttemptOK(r, session[r], Overtaken(r))'
  <2>1. RowsOK(r, t, rows', Overtaken(r)') /\ EndOK(r, t, rows', Overtaken(r)')
    BY <1>1, <1>2, RowLater DEF RowsOK, EndOK
  <2>2. recovery.active => /\ RowsOK(r, t, recovery.rows, Overtaken(r)')
                           /\ EndOK(r, t, recovery.rows, Overtaken(r)')
    BY <1>1, <1>2, RowLater DEF RowsOK, EndOK
  <2>3. QED BY <1>3, <2>1, <2>2 DEF AttemptOK
<1>7. QED BY <1>4, <1>5, <1>6 DEF RecordsInv, AttemptOK

-----------------------------------------------------------------------------
\* Steps in memory.

LEMMA RowUnmoved ==
  ASSUME NEW r, NEW s, NEW t, NEW id, NEW row, NEW late \in BOOLEAN, RowOK(r, s, id, row, late),
         s.phase \in Active, t.phase \in Active, t.past = s.past, t.hold = s.hold,
         t.held = s.held, t.locked = s.locked,
         s.locked => CallRows(r, t) = CallRows(r, s)
  PROVE  RowOK(r, t, id, row, late)
<1>1. PastIds(r, t) = PastIds(r, s) BY DEF PastIds
<1>2. QED BY <1>1 DEF RowOK, Active, Early

LEMMA MemoryStep ==
  ASSUME SessionInv, RecordsInv, NEW r \in Replies, NEW t, session' = [session EXCEPT ![r] = t],
         UNCHANGED <<rows, recovery>>, session[r].phase \in Active, t.phase \in Active,
         t.past = session[r].past, t.hold = session[r].hold, t.held = session[r].held,
         t.locked = session[r].locked,
         session[r].locked => CallRows(r, t) = CallRows(r, session[r]),
         MemoryOK(r, t)
  PROVE  RecordsInv'
<1> DEFINE s == session[r]
<1>0. Overtaken(r) \in BOOLEAN BY DEF Overtaken
<1>1. RowsOK(r, t, rows, Overtaken(r)) /\ EndOK(r, t, rows, Overtaken(r))
  BY <1>0, RowUnmoved DEF RecordsInv, RowsOK, EndOK, Active
<1>2. recovery.active => /\ RowsOK(r, t, recovery.rows, Overtaken(r))
                         /\ EndOK(r, t, recovery.rows, Overtaken(r))
  BY <1>0, RowUnmoved DEF RecordsInv, RowsOK, EndOK, Active
<1>3. Onward(s, t) BY DEF Onward, Active
<1>4. t.phase # "recovering" /\ s.phase # "recovering" BY DEF Active
<1>5. recovery.active => ~t.locked /\ ~(r > recovery.reply)
  BY DEF RecordsInv, RecoveryInv, Active
<1>6. UNCHANGED recovery /\ rows' = rows OBVIOUS
<1>7. QED BY <1>1, <1>2, <1>3, <1>4, <1>5, <1>6, Assemble

LEMMA SeqStarts ==
  ASSUME NEW S, NEW q \in Seq(S), q # <<>>
  PROVE  1 \in DOMAIN q
<1>1. Len(q) \in Nat /\ DOMAIN q = 1 .. Len(q) OBVIOUS
<1>2. Len(q) # 0
  <2> SUFFICES ASSUME Len(q) = 0 PROVE FALSE OBVIOUS
  <2>1. q = [i \in 1 .. 0 |-> q[i]] OBVIOUS
  <2>2. QED BY <2>1
<1>3. QED BY <1>1, <1>2

\* The phase changes, and the call that asks, if there is one, is refused.
LEMMA PhaseStep ==
  ASSUME SessionInv, RecordsInv, NEW r \in Replies, NEW phase \in Active,
         session' = [session EXCEPT ![r].phase = phase, ![r].asked = NoCall],
         UNCHANGED <<rows, recovery>>, session[r].phase \in Active, ~session[r].locked,
         session[r].calls = <<>> => phase = "failing"
  PROVE  RecordsInv'
<1> DEFINE s == session[r]
           t == [s EXCEPT !.phase = phase, !.asked = NoCall]
<1>0. s \in Sessions /\ SessionOK(r, s) /\ MemoryOK(r, s) BY DEF SessionInv, RecordsInv
<1>1. session' = [session EXCEPT ![r] = t] BY DEF SessionInv
<1>2. /\ t.phase = phase /\ t.asked = NoCall /\ t.past = s.past /\ t.hold = s.hold
      /\ t.held = s.held /\ t.locked = s.locked /\ t.calls = s.calls /\ t.holds = s.holds
      /\ t.next = s.next
  BY <1>0 DEF Sessions
<1> HIDE DEF t
<1>3. MemoryOK(r, t) BY <1>0, <1>2 DEF MemoryOK, Begun, Active, Early
<1>4. QED BY <1>0, <1>1, <1>2, <1>3, MemoryStep

LEMMA PhaseRecords ==
  ASSUME SessionInv, RecordsInv, NEW r \in Replies,
         RunsTools(r) \/ ToolsDone(r) \/ TopUpRefused(r) \/ CheckpointRefused(r)
  PROVE  RecordsInv'
<1> DEFINE s == session[r]
<1>0. s \in Sessions /\ SessionOK(r, s) /\ MemoryOK(r, s) BY DEF SessionInv, RecordsInv
<1>1. CASE RunsTools(r)
  <2>1. session' = [session EXCEPT ![r].phase = "tools", ![r].asked = NoCall]
    BY <1>0, <1>1 DEF RunsTools, Between, SessionInv, Sessions
  <2>2. ~s.locked BY <1>0, <1>1 DEF RunsTools, Between, SessionOK, In
  <2>3. QED BY <1>1, <2>1, <2>2, PhaseStep DEF RunsTools, In, Active
<1>2. CASE ToolsDone(r)
  <2>1. session' = [session EXCEPT ![r].phase = "saving", ![r].asked = NoCall]
    BY <1>0, <1>2 DEF ToolsDone, Between, SessionInv, Sessions
  <2>2. ~s.locked BY <1>0, <1>2 DEF ToolsDone, Between, SessionOK, In
  <2>3. s.calls # <<>> BY <1>0, <1>2 DEF ToolsDone, In, MemoryOK, Active
  <2>4. QED BY <1>2, <2>1, <2>2, <2>3, PhaseStep DEF ToolsDone, In, Active
<1>3. CASE CheckpointRefused(r)
  <2>1. s.asked = NoCall BY <1>0, <1>3 DEF CheckpointRefused, Checkpoint, In, SessionOK
  <2>2. session' = [session EXCEPT ![r].phase = "failing", ![r].asked = NoCall]
    BY <1>0, <1>3, <2>1 DEF CheckpointRefused, SessionInv, Sessions
  <2>3. QED BY <1>3, <2>2, PhaseStep DEF CheckpointRefused, Checkpoint, In, Active
<1>4. CASE TopUpRefused(r)
  <2> DEFINE phase == IF s.asked.step \in Helpers[r] THEN s.phase ELSE "failing"
  <2>1. session' = [session EXCEPT ![r].phase = phase, ![r].asked = NoCall]
    BY <1>4 DEF TopUpRefused
  <2>2. s.phase \in {"ready", "tools"} /\ s.asked # NoCall
    BY <1>0, <1>4 DEF TopUpRefused, TopUp, SessionOK
  <2>3. s.calls = <<>> => phase = "failing" BY <1>0, <2>2 DEF MemoryOK, Active
  <2>4. phase \in Active BY <2>2 DEF Active
  <2> HIDE DEF phase
  <2>5. QED BY <1>4, <2>1, <2>2, <2>3, <2>4, PhaseStep DEF TopUpRefused, TopUp, Active
<1>5. QED BY <1>1, <1>2, <1>3, <1>4

LEMMA QuoteNeeds == ASSUME NEW quote \in Quotes PROVE UnitsFor(quote) \in Nat
  BY AmountsAssumption, InputsAssumption

LEMMA AskingRecords ==
  ASSUME SessionInv, RecordsInv, NEW r \in Replies, NEW step, NEW quote \in Quotes,
         Asking(r, step, quote),
         \/ session[r].phase = "ready" /\ step = session[r].next /\ step < ChatSteps[r]
         \/ session[r].phase = "tools" /\ step \in Helpers[r] \ Metered(r)
  PROVE  RecordsInv'
<1> DEFINE s == session[r]
           asked == [step |-> step, need |-> UnitsFor(quote)]
           next == IF step \in Helpers[r] THEN s.next ELSE step + 1
           t == [s EXCEPT !.asked = asked, !.next = next]
<1>0. s \in Sessions /\ SessionOK(r, s) /\ MemoryOK(r, s) BY DEF SessionInv, RecordsInv
<1>1. session' = [session EXCEPT ![r] = t] /\ UNCHANGED <<rows, recovery>>
  BY DEF Asking, SessionInv
<1>2. /\ t.phase = s.phase /\ t.asked = asked /\ t.past = s.past /\ t.hold = s.hold
      /\ t.held = s.held /\ t.locked = s.locked /\ t.calls = s.calls /\ t.holds = s.holds
      /\ t.next = next
  BY <1>0 DEF Sessions
<1>3. /\ ChatSteps[r] \in Nat \ {0} /\ Helpers[r] \subseteq Nat \ (0 .. ChatSteps[r] - 1)
      /\ s.next \in Nat
  BY <1>0, StepsAssumption DEF Sessions
<1>4. step = s.next /\ step < ChatSteps[r] => step \notin Helpers[r] BY <1>3
<1>5. next \in Nat /\ s.next <= next BY <1>3, <1>4
<1>6. s.asked = NoCall /\ asked.step = step BY DEF Asking
<1> HIDE DEF t, asked, next
<1>7. \A p \in s.past : Begun(r, s, p) /\ Begun(r, t, p)
  <2>1. \A p \in s.past : Begun(r, s, p) BY <1>0 DEF MemoryOK, Active
  <2>2. t.next \in Nat /\ s.next <= t.next BY <1>2, <1>5
  <2>3. QED BY <1>3, <2>1, <2>2, BegunLater
<1>8. step \notin s.past
  <2>1. CASE step \in Helpers[r] \ Metered(r) BY <2>1 DEF Metered
  <2>2. CASE step = s.next /\ step < ChatSteps[r]
    <3>1. ~Begun(r, s, step) BY <1>3, <1>4, <2>2 DEF Begun
    <3>2. QED BY <1>7, <3>1
  <2>3. QED BY <2>1, <2>2
<1>9. MemoryOK(r, t)
  <2>0. asked # NoCall BY <1>3, <1>4, SessionAssumption, QuoteNeeds DEF asked
  <2>1. t.asked = asked /\ asked.step \notin t.past BY <1>2, <1>6, <1>8
  <2>2. t.phase = "ready" => s.next = asked.step /\ asked.step \notin Helpers[r]
    BY <1>2, <1>4, <1>6
  <2>3. t.calls = <<>> /\ t.phase = "ready" => t.hold[2] = asked.step
    BY <1>0, <1>2, <1>6, <2>2 DEF MemoryOK, Active
  <2>5. t.phase \in {"ready", "tools"} BY <1>2
  <2>6. t.calls = <<>> /\ t.phase = "ready" =>
          t.hold[2] = IF t.asked = NoCall THEN t.next ELSE t.asked.step
    BY <2>0, <2>1, <2>3
  <2>7. QED BY <1>0, <1>2, <1>7, <2>1, <2>2, <2>5, <2>6 DEF MemoryOK, Active, Early
<1>10. s.phase \in Active BY DEF Active
<1>11. CallRows(r, t) = CallRows(r, s) BY <1>2 DEF CallRows
<1>12. QED BY <1>1, <1>2, <1>9, <1>10, <1>11, MemoryStep

LEMMA ReservesRecords ==
  ASSUME SessionInv, RecordsInv, NEW r \in Replies, Reserves(r)
  PROVE  RecordsInv'
<1> DEFINE s == session[r]
           call == NewCall(s.asked.step, s.asked.need)
           t == [s EXCEPT !.calls = Append(@, call), !.asked = NoCall]
<1>0. s \in Sessions /\ SessionOK(r, s) /\ MemoryOK(r, s) BY DEF SessionInv, RecordsInv
<1>1. session' = [session EXCEPT ![r] = t] /\ UNCHANGED <<rows, recovery>> /\ s.asked # NoCall
      /\ ~s.locked
  BY DEF Reserves, SessionInv
<1>2. /\ t.phase = s.phase /\ t.asked = NoCall /\ t.past = s.past /\ t.hold = s.hold
      /\ t.held = s.held /\ t.locked = s.locked /\ t.calls = Append(s.calls, call)
      /\ t.holds = s.holds /\ t.next = s.next
  BY <1>0 DEF Sessions
<1>3. s.phase \in {"ready", "tools"} BY <1>0, <1>1 DEF SessionOK
<1>4. s.calls \in Seq(Calls) /\ call \in Calls /\ call.step = s.asked.step
  BY <1>0, <1>1, AskedCall DEF Sessions
<1> HIDE DEF call
<1>5. /\ DOMAIN t.calls = DOMAIN s.calls \cup {Len(s.calls) + 1}
      /\ \A i \in DOMAIN s.calls : t.calls[i] = s.calls[i]
      /\ t.calls[Len(s.calls) + 1] = call
      /\ t.calls # <<>>
      /\ s.calls = <<>> => t.calls[1] = call
      /\ s.calls # <<>> => t.calls[1] = s.calls[1]
  BY <1>2, <1>4
<1> HIDE DEF t
<1>6. \A i \in DOMAIN t.calls : t.calls[i].step \notin t.past
  BY <1>0, <1>1, <1>2, <1>3, <1>4, <1>5, ZenonT(60) DEF MemoryOK, Active
<1>7. t.hold[2] = t.calls[1].step
  BY <1>0, <1>1, <1>2, <1>3, <1>4, <1>5 DEF MemoryOK, Active
<1>8. MemoryOK(r, t)
  BY <1>0, <1>2, <1>3, <1>5, <1>6, <1>7 DEF MemoryOK, Active, Early, Begun
<1>9. s.phase \in Active BY <1>3 DEF Active
<1>10. QED BY <1>1, <1>2, <1>8, <1>9, MemoryStep

LEMMA AnsweredRecords ==
  ASSUME SessionInv, RecordsInv, NEW r \in Replies, Answered(r)
  PROVE  RecordsInv'
<1> DEFINE s == session[r]
<1>0. s \in Sessions /\ SessionOK(r, s) /\ MemoryOK(r, s) BY DEF SessionInv, RecordsInv
<1>1. PICK i \in DOMAIN s.calls, cost \in Usages \cup {NoCost} :
        session' = [session EXCEPT ![r].calls[i] = [@ EXCEPT !.cost = cost, !.running = FALSE]]
  BY DEF Answered, Running
<1> DEFINE call == [s.calls[i] EXCEPT !.cost = cost, !.running = FALSE]
           t == [s EXCEPT !.calls = [s.calls EXCEPT ![i] = call]]
<1>2. s.calls \in Seq(Calls) /\ s.calls[i] \in Calls BY <1>0 DEF Sessions
<1>3. call.step = s.calls[i].step BY <1>2 DEF Calls
<1>4. session' = [session EXCEPT ![r] = t] /\ UNCHANGED <<rows, recovery>>
  BY <1>0, <1>1 DEF Answered, SessionInv, Sessions
<1>5. /\ t.phase = s.phase /\ t.asked = s.asked /\ t.past = s.past /\ t.hold = s.hold
      /\ t.held = s.held /\ t.locked = s.locked /\ t.calls = [s.calls EXCEPT ![i] = call]
      /\ t.holds = s.holds /\ t.next = s.next
  BY <1>0 DEF Sessions
<1> HIDE DEF call
<1>6. /\ DOMAIN t.calls = DOMAIN s.calls
      /\ t.calls = <<>> <=> s.calls = <<>>
      /\ \A j \in DOMAIN t.calls : t.calls[j].step = s.calls[j].step
  BY <1>2, <1>3, <1>5
<1>7. s.calls # <<>> => 1 \in DOMAIN s.calls BY <1>2, SeqStarts
<1> HIDE DEF t
<1>8. MemoryOK(r, t) BY <1>0, <1>5, <1>6, <1>7 DEF MemoryOK, Begun
<1>9. CallRows(r, t) = CallRows(r, s) BY <1>6 DEF CallRows
<1>10. s.phase \in Active BY DEF Answered, Metering, In, Active
<1>11. QED BY <1>4, <1>5, <1>8, <1>9, <1>10, MemoryStep

-----------------------------------------------------------------------------
\* What the flow has cost after each call.
LEMMA CostsRun ==
  ASSUME IInv, SessionInv, NEW r \in Replies
  PROVE  /\ IsRun(costAfter(r), Len(session[r].calls), FlowCost(Conversation), callCosts(r))
         /\ FlowCost(Conversation) \in Int
         /\ Len(session[r].calls) \in Nat
         /\ \A i \in 1 .. Len(session[r].calls) : callCosts(r)[i] \in Nat
<1> DEFINE n == Len(session[r].calls)
           c == FlowCost(Conversation)
           f == callCosts(r)
<1>1. session[r].calls \in Seq(Calls) BY DEF SessionInv, Sessions
<1>2. n \in Nat /\ DOMAIN session[r].calls = 1 .. n /\ \A i \in 1 .. n : session[r].calls[i] \in Calls
  BY <1>1
<1>3. \A i \in 1 .. n : f[i] \in Nat
  <2>1. \A i \in 1 .. n : f[i] = costOf(session[r].calls[i]) BY <1>2 DEF callCosts
  <2>2. \A i \in 1 .. n : costOf(session[r].calls[i]) \in Costs BY <1>2, CostsKnown
  <2>3. QED BY <2>1, <2>2, InputsAssumption
<1>4. c \in Int
  BY RowSums DEF IInv, TypeOK, FlowCost, CostsOf
<1> HIDE DEF n, c, f
<1>5. \E g : IsRun(g, n, c, f)
  <2>1. \A i \in 1 .. n : f[i] \in Int BY <1>3
  <2>2. QED BY <1>2, <1>4, <2>1, RunExists
<1>6. costAfter(r) = CHOOSE g : IsRun(g, n, c, f) BY Zenon DEF costAfter, IsRun, n, c, f
<1>7. IsRun(costAfter(r), n, c, f) BY <1>5, <1>6
<1>8. QED BY <1>2, <1>3, <1>4, <1>7 DEF n, c, f

\* Steps name rows apart.
LEMMA IdsApart ==
  ASSUME NEW r, NEW step, NEW other, chatId(r, step) = chatId(r, other)
  PROVE  step = other
  BY DEF chatId

(* The settlement of an open hold writes the rows of its calls, each at    *)
(* its cost, and closes the hold; no other row moves.                      *)
SettledFor(r) ==
  LET calls == session[r].calls
      hold == session[r].hold
  IN /\ \A id \in Ids : id # hold /\ id \notin CallRows(r, session[r]) => rows'[id] = rows[id]
     /\ rows'[hold].state = "settled"
     /\ \A i \in DOMAIN calls :
          /\ rows'[chatId(r, calls[i].step)].state = "settled"
          /\ rows'[chatId(r, calls[i].step)].cost = costOf(calls[i])
          /\ chatId(r, calls[i].step) = hold \/ rows[chatId(r, calls[i].step)].state = "none"

LEMMA SettleWrites ==
  ASSUME IInv, SessionInv, NEW r \in Replies, HoldOpen(r), settleHold(r)
  PROVE  SettledFor(r)
<1> DEFINE s == session[r]
           calls == s.calls
           n == Len(calls)
           hold == s.hold
           ids == callIds(r)
           running == costAfter(r)
           flow == FlowOf[hold]
           before(i) == IF i = 1 THEN FlowCost(flow) ELSE running[i - 1]
           paid(i) == IF i = 1 THEN FlowCharged(flow) ELSE UnitsFor(running[i - 1])
           cost(i) == running[i] - before(i)
           chargeOf(i) == UnitsFor(running[i]) - paid(i)
           reserved == rows[hold].reserved
           reused == n > 0 /\ ids[1] = hold
           callOf(id) == CHOOSE i \in 1 .. n : ids[i] = id
           made == {ids[i] : i \in 1 .. n} \ {hold}
           rowOf(i) == Settled(chargeOf(i), chargeOf(i), cost(i))
           holdRow == IF reused THEN Settled(reserved, chargeOf(1), cost(1))
                                ELSE Settled(reserved, 0, 0)
<1>1. SettleReply(hold, n, ids, running) BY DEF settleHold
<1>2. /\ hold \in Ids /\ flow = Conversation
      /\ calls \in Seq(Calls) /\ n \in Nat /\ DOMAIN calls = 1 .. n
  <2>1. hold \in Ids /\ hold # NoHold BY SessionAssumption DEF HoldOpen, SessionInv, Sessions
  <2>2. ReplyOf[hold] = r /\ r # NoReply BY <2>1, RepliesNat DEF SessionInv, SessionOK
  <2>3. QED BY <2>1, <2>2, ReplyFlow DEF SessionInv, Sessions
<1>3. \A i \in 1 .. n : ids[i] = chatId(r, calls[i].step) /\ ids[i] \in Ids
  <2>1. \A i \in 1 .. n : ids[i] = chatId(r, calls[i].step) BY <1>2 DEF callIds
  <2>2. \A i \in 1 .. n : calls[i].step \in StepsOf(r)
    BY <1>2, BegunStep DEF SessionInv, SessionOK
  <2>3. QED BY <2>1, <2>2, ChatIdRow
<1>4. \A i, j \in 1 .. n : ids[i] = ids[j] => i = j
  BY <1>2, <1>3, IdsApart DEF SessionInv, SessionOK
<1>5. /\ TotalsParse(flow)
      /\ \A i \in 1 .. n : Priceable(running[i])
      /\ \A i \in 1 .. n : ids[i] = hold => i = 1
      /\ \A id \in made : rows[id].state = "none"
  BY <1>1 DEF SettleReply
<1>6. rows' = [id \in Ids |->
          IF id \in made THEN rowOf(callOf(id)) ELSE IF id = hold THEN holdRow ELSE rows[id]]
  BY <1>1 DEF SettleReply
<1>7. \A i \in 1 .. n : cost(i) = costOf(calls[i])
  <2>1. SUFFICES ASSUME NEW i \in 1 .. n PROVE cost(i) = costOf(calls[i]) OBVIOUS
  <2>2. running[0] = FlowCost(flow) /\ running[i] = running[i - 1] + callCosts(r)[i]
    <3>1. IsRun(running, n, FlowCost(flow), callCosts(r)) BY <1>2, CostsRun
    <3> HIDE DEF running, n, flow
    <3>2. 0 \in 0 .. n /\ i \in 0 .. n /\ i # 0 BY <1>2
    <3>3. QED BY <3>1, <3>2 DEF IsRun
  <2>3. callCosts(r)[i] \in Nat BY CostsRun
  <2>4. callCosts(r)[i] = costOf(calls[i]) BY <1>2 DEF callCosts
  <2>5. before(i) = running[i - 1] /\ running[i - 1] \in Int
    <3>1. CASE i = 1
      <4>1. FlowCost(flow) \in Int BY <1>2, CostsRun
      <4> HIDE DEF running, flow
      <4>2. i - 1 = 0 BY <3>1
      <4>3. QED BY <2>2, <3>1, <4>1, <4>2
    <3>2. CASE i # 1
      <4>1. i - 1 \in 1 .. n BY <1>2, <3>2
      <4>2. QED BY <1>5, <3>2, <4>1 DEF Priceable
    <3>3. QED BY <3>1, <3>2
  <2> HIDE DEF running, before, calls
  <2>6. QED BY <2>2, <2>3, <2>4, <2>5
<1>8. \A i \in 1 .. n : ids[i] # hold => ids[i] \in made /\ callOf(ids[i]) = i
  BY <1>4
<1>9. \A id \in Ids : id # hold /\ id \notin CallRows(r, s) => rows'[id] = rows[id]
  <2>1. \A id \in made : id \in CallRows(r, s) BY <1>2, <1>3 DEF CallRows
  <2> HIDE DEF made, rowOf, callOf, holdRow
  <2>2. QED BY <1>6, <2>1
<1>10. rows'[hold].state = "settled" /\ (reused => rows'[hold].cost = cost(1))
  <2>1. hold \notin made OBVIOUS
  <2>2. rows'[hold] = holdRow
    <3> HIDE DEF made, rowOf, callOf, holdRow, hold
    <3>1. QED BY <1>2, <1>6, <2>1
  <2> HIDE DEF cost, chargeOf, reused, reserved
  <2>3. QED BY <2>2 DEF Settled
<1>11. ASSUME NEW i \in 1 .. n
       PROVE  /\ rows'[ids[i]].state = "settled"
              /\ rows'[ids[i]].cost = cost(i)
              /\ ids[i] = hold \/ rows[ids[i]].state = "none"
  <2>1. CASE ids[i] # hold
    <3>1. ids[i] \in made /\ callOf(ids[i]) = i /\ ids[i] \in Ids BY <1>3, <1>8, <2>1
    <3>2. rows'[ids[i]] = rowOf(i)
      <4> HIDE DEF made, rowOf, callOf, holdRow, hold, ids
      <4>1. QED BY <1>6, <3>1
    <3>3. rows[ids[i]].state = "none" BY <1>5, <3>1
    <3> HIDE DEF cost, chargeOf, ids
    <3>4. QED BY <3>2, <3>3 DEF Settled
  <2>2. CASE ids[i] = hold
    <3>1. i = 1 /\ reused BY <1>2, <1>5, <2>2
    <3> HIDE DEF cost, reused, ids, hold
    <3>2. QED BY <1>10, <2>2, <3>1
  <2>3. QED BY <2>1, <2>2
<1> HIDE DEF cost
<1>12. QED BY <1>2, <1>3, <1>7, <1>9, <1>10, <1>11 DEF SettledFor

LEMMA OwnHold ==
  ASSUME SessionInv, RecordsInv, NEW r \in Replies, session[r].phase \in Active
  PROVE  session[r].hold \in Own(r) /\ session[r].hold # NoHold
<1>1. session[r].hold \in Ids BY DEF RecordsInv, MemoryOK
<1>2. QED BY <1>1, SessionAssumption DEF SessionInv, SessionOK, Own

\* The attempt with the lease has its hold.
LEMMA FencedHold ==
  ASSUME SessionInv, RecordsInv, NEW r \in Replies, session[r].phase \in Active,
         ~session[r].locked, Fence(r)
  PROVE  HoldOpen(r) /\ ~Overtaken(r)
<1>1. ~Overtaken(r) BY OvertakenBehind
<1>2. session[r].hold \in Own(r) /\ session[r].hold # NoHold BY OwnHold
<1>3. RowOK(r, session[r], session[r].hold, rows[session[r].hold], Overtaken(r))
  BY <1>2 DEF RecordsInv, RowsOK
<1>4. QED BY <1>1, <1>2, <1>3 DEF RowOK, HoldOpen

\* A settlement leaves other attempts' rows alone.
LEMMA SettledApart ==
  ASSUME SessionInv, RecordsInv, NEW r \in Replies, session[r].phase \in Active, SettledFor(r),
         NEW q \in Replies \ {r}, NEW id \in Own(q)
  PROVE  rows'[id] = rows[id]
<1>1. id \in Ids /\ id \notin Own(r) BY DEF Own
<1>2. QED BY <1>1, OwnHold, CallsOwn DEF SettledFor

\* The rows of steps settled before are not those a settlement writes.
LEMMA SettledPast ==
  ASSUME SessionInv, RecordsInv, NEW r \in Replies, session[r].phase \in Active, SettledFor(r),
         NEW id \in Own(r) \cap PastIds(r, session[r])
  PROVE  rows'[id].state = "settled"
<1>1. rows[id].state = "settled" BY DEF RecordsInv, RowsOK, RowOK
<1>2. CASE id \in CallRows(r, session[r])
  BY <1>2 DEF CallRows, SettledFor
<1>3. CASE id = session[r].hold BY <1>3 DEF SettledFor
<1>4. CASE id # session[r].hold /\ id \notin CallRows(r, session[r])
  BY <1>1, <1>4 DEF SettledFor, Own
<1>5. QED BY <1>2, <1>3, <1>4

\* An attempt is over: it has nothing in memory that matters, or nothing open.
LEMMA OverStep ==
  ASSUME SessionInv, RecordsInv, NEW r \in Replies, NEW t, session' = [session EXCEPT ![r] = t],
         UNCHANGED recovery, session[r].phase # "recovering", ~t.locked,
         t.phase \in {"crashed", "ended", "refused"},
         \A step \in t.past : Begun(r, t, step),
         t.phase = "crashed" => t.calls = <<>> /\ t.past = {} /\ t.next = 0,
         \A q \in Replies \ {r} : \A id \in Own(q) : rows'[id] = rows[id],
         recovery.active => UNCHANGED rows /\ (r > recovery.reply => t.phase = "crashed"),
         RowsOK(r, t, rows', Overtaken(r)), EndOK(r, t, rows', Overtaken(r)),
         recovery.active => /\ RowsOK(r, t, recovery.rows, Overtaken(r))
                            /\ EndOK(r, t, recovery.rows, Overtaken(r))
  PROVE  RecordsInv'
<1>1. MemoryOK(r, t) BY DEF MemoryOK, Early, Active
<1>2. Onward(session[r], t) BY DEF Onward
<1>3. t.phase \notin {"recovering", "none", "starting"} OBVIOUS
<1>4. QED BY <1>1, <1>2, <1>3, Assemble

LEMMA CrashRecords ==
  ASSUME SessionInv, RecordsInv, NEW r \in Replies, Crash(r)
  PROVE  RecordsInv'
<1>1. PICK t : t = [Idle EXCEPT !.phase = "crashed"] OBVIOUS
<1>2. /\ t.phase = "crashed" /\ t.locked = FALSE
      /\ t.calls = <<>> /\ t.past = {} /\ t.next = 0
  BY <1>1 DEF Idle
<1>3. session' = [session EXCEPT ![r] = t] /\ UNCHANGED <<rows, recovery>> BY <1>1 DEF Crash
<1>4. \A R, late : RowsOK(r, t, R, late) /\ EndOK(r, t, R, late)
  BY <1>2 DEF RowsOK, RowOK, EndOK, Early, Active
<1>5. session[r].phase \in Active \cup {"starting"} BY DEF Crash, Metering, In, Active
<1>6. recovery.active /\ r > recovery.reply => t.phase = "crashed" BY <1>2
<1>7. session[r].phase # "recovering" BY <1>5 DEF Active
<1>8. UNCHANGED recovery /\ UNCHANGED rows BY <1>3
<1> HIDE DEF RowsOK, EndOK
<1>9. RowsOK(r, t, rows', Overtaken(r)) /\ EndOK(r, t, rows', Overtaken(r)) BY <1>4
<1>10. RowsOK(r, t, recovery.rows, Overtaken(r)) /\ EndOK(r, t, recovery.rows, Overtaken(r))
  BY <1>4
<1>11. QED BY <1>2, <1>3, <1>6, <1>7, <1>8, <1>9, <1>10, OverStep

LEMMA EndRefusedRecords ==
  ASSUME SessionInv, RecordsInv, NEW r \in Replies, EndRefused(r)
  PROVE  RecordsInv'
<1> DEFINE s == session[r]
           t == [s EXCEPT !.phase = "refused", !.asked = NoCall]
<1>0. s \in Sessions /\ SessionOK(r, s) BY DEF SessionInv
<1>1. session' = [session EXCEPT ![r] = t] /\ UNCHANGED <<rows, recovery>>
  BY DEF EndRefused, SessionInv
<1>2. /\ t.phase = "refused" /\ t.past = s.past /\ t.locked = s.locked /\ t.next = s.next
  BY <1>0 DEF Sessions
<1> HIDE DEF t
<1>a. \A step \in t.past : Begun(r, t, step) BY <1>2 DEF RecordsInv, MemoryOK, Begun
<1>3. s.phase \in Active /\ ~s.locked /\ Unlocked
  BY DEF EndRefused, Finished, Metering, In, Active, Free
<1>4. ASSUME NEW id \in Own(r) PROVE RowOK(r, t, id, rows[id], Overtaken(r))
  <2>1. RowOK(r, s, id, rows[id], Overtaken(r)) BY DEF RecordsInv, RowsOK
  <2>2. PastIds(r, t) = PastIds(r, s) BY <1>2 DEF PastIds
  <2>3. QED BY <1>2, <1>3, <2>1, <2>2 DEF RowOK, Early, Active
<1>5. RowsOK(r, t, rows', Overtaken(r)) /\ EndOK(r, t, rows', Overtaken(r))
  BY <1>1, <1>2, <1>4 DEF RowsOK, EndOK
<1>6. s.phase # "recovering" BY <1>3 DEF Active
<1>7. ~recovery.active BY <1>3 DEF Unlocked
<1>8. UNCHANGED recovery /\ rows' = rows BY <1>1
<1>9. QED BY <1>1, <1>2, <1>3, <1>5, <1>6, <1>7, <1>8, <1>a, OverStep

\* The end of an attempt whose hold somebody else settled.
LEMMA EndsLate ==
  ASSUME SessionInv, RecordsInv, NEW r \in Replies, NEW t, session[r].phase \in Active,
         ~session[r].locked, ~HoldOpen(r), t.phase = "ended", t.past = session[r].past,
         t.calls = session[r].calls, t.hold = session[r].hold
  PROVE  RowsOK(r, t, rows, Overtaken(r)) /\ EndOK(r, t, rows, Overtaken(r))
<1> DEFINE s == session[r]
<1>0. MemoryOK(r, s) /\ s.hold \in Own(r) /\ s.hold # NoHold BY OwnHold DEF RecordsInv
<1>1. \A id \in Own(r) : RowOK(r, s, id, rows[id], Overtaken(r)) BY DEF RecordsInv, RowsOK
<1>2. PastIds(r, t) = PastIds(r, s) BY DEF PastIds
<1>3. Overtaken(r) BY <1>0, <1>1 DEF RowOK, HoldOpen
<1>4. \A id \in Own(r) : rows[id].state # "open" BY <1>0, <1>1 DEF RowOK, HoldOpen
<1>5. RowsOK(r, t, rows, Overtaken(r)) BY <1>1, <1>2, <1>4 DEF RowsOK, RowOK, Early, Active
<1>6. ASSUME s.hold[3] = 0, NEW i \in DOMAIN s.calls
      PROVE  LET id == chatId(r, s.calls[i].step) IN id = s.hold \/ rows[id].state = "none"
  <2> DEFINE id == chatId(r, s.calls[i].step)
  <2>1. id \in Own(r) BY CallsOwn DEF CallRows
  <2>2. s.calls[i].step \notin s.past BY <1>0 DEF MemoryOK
  <2>3. id \notin PastIds(r, s) BY <2>2, IdsApart DEF PastIds
  <2> HIDE DEF id
  <2>4. id = s.hold \/ rows[id].state = "none" BY <1>1, <1>6, <2>1, <2>3 DEF RowOK
  <2>5. QED BY <2>4 DEF id
<1>7. s.hold[3] \in Nat BY <1>0 DEF MemoryOK
<1>8. s.hold[3] > 0 \/ s.hold[3] = 0 BY <1>7
<1>9. EndOK(r, t, rows, Overtaken(r)) BY <1>0, <1>3, <1>6, <1>8 DEF EndOK
<1>10. QED BY <1>5, <1>9

LEMMA EndsRecords ==
  ASSUME IInv, SessionInv, RecordsInv, NEW r \in Replies, Ends(r)
  PROVE  RecordsInv'
<1> DEFINE s == session[r]
           t == [s EXCEPT !.phase = "ended", !.asked = NoCall]
<1>0. s \in Sessions /\ SessionOK(r, s) BY DEF SessionInv
<1>1. session' = [session EXCEPT ![r] = t] BY DEF Ends, SessionInv
<1>2. /\ t.phase = "ended" /\ t.past = s.past /\ t.locked = s.locked
      /\ t.calls = s.calls /\ t.hold = s.hold /\ t.next = s.next
  BY <1>0 DEF Sessions
<1> HIDE DEF t
<1>a. \A step \in t.past : Begun(r, t, step) BY <1>2 DEF RecordsInv, MemoryOK, Begun
<1>3. s.phase \in Active /\ ~s.locked /\ ~recovery.active
  BY DEF Ends, Finished, Metering, In, Active, Free, Unlocked
<1>4. s.phase # "recovering" BY <1>3 DEF Active
<1>5. CASE ~HoldOpen(r)
  <2>1. UNCHANGED recovery /\ rows' = rows BY <1>5 DEF Ends, settleHold
  <2>2. RowsOK(r, t, rows', Overtaken(r)) /\ EndOK(r, t, rows', Overtaken(r))
    BY <1>2, <1>3, <1>5, <2>1, EndsLate
  <2>3. QED BY <1>1, <1>2, <1>3, <1>4, <1>a, <2>1, <2>2, OverStep
<1>6. CASE HoldOpen(r)
  <2>1. SettledFor(r) /\ UNCHANGED recovery
    BY <1>6, SettleWrites DEF Ends, settleHold, SettleReply
  <2>2. \A q \in Replies \ {r} : \A id \in Own(q) : rows'[id] = rows[id]
    BY <1>3, <2>1, SettledApart
  <2>3. ASSUME NEW id \in Own(r) PROVE RowOK(r, t, id, rows'[id], Overtaken(r))
    <3>1. RowOK(r, s, id, rows[id], Overtaken(r)) BY DEF RecordsInv, RowsOK
    <3>2. PastIds(r, t) = PastIds(r, s) BY <1>2 DEF PastIds
    <3>3. id \in PastIds(r, t) => rows'[id].state = "settled"
      BY <1>3, <2>1, <3>2, SettledPast
    <3>4. rows'[id].state # "open"
      <4>1. CASE id = s.hold \/ id \in CallRows(r, s) BY <2>1, <4>1 DEF SettledFor, CallRows
      <4>2. CASE id # s.hold /\ id \notin CallRows(r, s)
        BY <1>3, <2>1, <3>1, <4>2 DEF SettledFor, Own, RowOK
      <4>3. QED BY <4>1, <4>2
    <3>5. QED BY <1>2, <3>3, <3>4 DEF RowOK, Early, Active
  <2>4. EndOK(r, t, rows', Overtaken(r)) BY <1>2, <2>1 DEF EndOK, SettledFor
  <2>5. RowsOK(r, t, rows', Overtaken(r)) BY <2>3 DEF RowsOK
  <2>6. QED BY <1>1, <1>2, <1>3, <1>4, <1>a, <2>1, <2>2, <2>4, <2>5, OverStep
<1>7. QED BY <1>5, <1>6

-----------------------------------------------------------------------------
\* The start.

LEMMA ClaimRecords ==
  ASSUME SessionInv, RecordsInv, NEW r \in Replies, Claim(r)
  PROVE  RecordsInv'
<1> DEFINE s == session[r]
           t == [s EXCEPT !.phase = "starting"]
<1>0. s \in Sessions /\ MemoryOK(r, s) /\ s.phase = "none"
  BY RepliesNat DEF SessionInv, RecordsInv, Claim
<1>1. session' = [session EXCEPT ![r] = t] /\ UNCHANGED <<rows, recovery>>
  BY DEF Claim, SessionInv
<1>2. /\ t.phase = "starting" /\ t.past = s.past /\ t.locked = s.locked
      /\ t.calls = s.calls /\ t.next = s.next
  BY <1>0 DEF Sessions
<1> HIDE DEF t
<1>3. MemoryOK(r, t) BY <1>0, <1>2 DEF MemoryOK, Early, Active
<1>4. ASSUME NEW R, RowsOK(r, s, R, Overtaken(r))
      PROVE  RowsOK(r, t, R, Overtaken(r)) /\ EndOK(r, t, R, Overtaken(r))
  BY <1>0, <1>2, <1>4 DEF RowsOK, RowOK, EndOK, Early, Active
<1>5. RowsOK(r, t, rows', Overtaken(r)) /\ EndOK(r, t, rows', Overtaken(r))
  BY <1>1, <1>4 DEF RecordsInv
<1>6. recovery.active => /\ RowsOK(r, t, recovery.rows, Overtaken(r))
                         /\ EndOK(r, t, recovery.rows, Overtaken(r))
  BY <1>4 DEF RecordsInv
<1>7. Onward(s, t) BY <1>0 DEF Onward
<1>8. recovery.active => ~t.locked BY <1>2 DEF RecordsInv, RecoveryInv
<1>9. t.phase = "recovering" <=> s.phase = "recovering" BY <1>0, <1>2
<1>10. UNCHANGED recovery /\ rows' = rows BY <1>1
<1>11. QED BY <1>1, <1>2, <1>3, <1>5, <1>6, <1>7, <1>8, <1>9, <1>10, Assemble

\* A start that ends has settled nothing and holds nothing.
LEMMA StartOver ==
  ASSUME SessionInv, RecordsInv, NEW r \in Replies, NEW t, session[r].phase \in Early,
         t.phase = "ended", t.past = session[r].past, t.calls = session[r].calls,
         NEW R, RowsOK(r, session[r], R, Overtaken(r)), NEW late
  PROVE  RowsOK(r, t, R, late) /\ EndOK(r, t, R, late)
<1> DEFINE s == session[r]
<1>1. s.calls = <<>> /\ s.past = {} BY DEF RecordsInv, MemoryOK
<1>2. PastIds(r, t) = {} BY <1>1 DEF PastIds
<1>3. \A id \in Own(r) : R[id].state = "none" BY DEF RowsOK, RowOK
<1>4. DOMAIN t.calls = {} BY <1>1
<1>5. EndOK(r, t, R, late) BY <1>4 DEF EndOK
<1>6. QED BY <1>2, <1>3, <1>5 DEF RowsOK, RowOK, Early, Active

LEMMA StartFailsRecords ==
  ASSUME SessionInv, RecordsInv, NEW r \in Replies, StartFails(r)
  PROVE  RecordsInv'
<1> DEFINE s == session[r]
           t == [s EXCEPT !.phase = "ended"]
<1>0. s \in Sessions /\ s.phase \in Early /\ ~s.locked
  BY DEF SessionInv, SessionOK, StartFails, In, Early
<1>1. session' = [session EXCEPT ![r] = t] BY DEF StartFails, SessionInv
<1>2. /\ t.phase = "ended" /\ t.past = s.past /\ t.locked = s.locked /\ t.calls = s.calls
      /\ t.next = s.next
  BY <1>0 DEF Sessions
<1> HIDE DEF t
<1>a. \A step \in t.past : Begun(r, t, step) BY <1>2 DEF RecordsInv, MemoryOK, Begun
<1>3. CASE s.phase = "starting" /\ Free /\ UNCHANGED <<rows, available, recovery>>
  <2>1. RowsOK(r, t, rows', Overtaken(r)) /\ EndOK(r, t, rows', Overtaken(r))
    <3>1. rows' = rows BY <1>3
    <3>2. RowsOK(r, t, rows, Overtaken(r)) /\ EndOK(r, t, rows, Overtaken(r))
      BY <1>0, <1>2, StartOver DEF RecordsInv
    <3>3. QED BY <3>1, <3>2
  <2>2. ~recovery.active BY <1>3 DEF Free, Unlocked
  <2>3. UNCHANGED recovery /\ rows' = rows BY <1>3
  <2>4. s.phase # "recovering" BY <1>3
  <2>5. QED BY <1>0, <1>1, <1>2, <1>a, <2>1, <2>2, <2>3, <2>4, OverStep
<1>4. CASE s.phase = "recovering" /\ AbortRecovery
  <2>1. recovery.active /\ recovery.reply = r /\ rows' = recovery.rows /\ recovery' = NotRecovering
    BY <1>4 DEF AbortRecovery, RecordsInv, RecoveryInv
  <2>2. ~recovery'.active BY <2>1 DEF NotRecovering
  <2>3. session'[r] = t /\ \A q \in Replies \ {r} : session'[q] = session[q]
    BY <1>1 DEF SessionInv
  <2>4. \A q \in Replies : session'[q].phase # "recovering"
    BY <1>2, <2>1, <2>3 DEF RecordsInv, RecoveryInv
  <2>5. RecoveryInv' BY <2>2, <2>4 DEF RecoveryInv
  <2>6. \A q \in Replies : Overtaken(q) \in BOOLEAN /\ Overtaken(q)' \in BOOLEAN BY DEF Overtaken
  <2>7. \A q \in Replies : Overtaken(q) => Overtaken(q)'
    <3>1. Onward(s, t) BY <1>2 DEF Onward
    <3>2. QED BY <1>1, <3>1, OvertakenStays
  <2>8. ASSUME NEW q \in Replies \ {r}
        PROVE  MemoryOK(q, session[q]) /\ RowsOK(q, session[q], rows', Overtaken(q)')
               /\ EndOK(q, session[q], rows', Overtaken(q)')
    <3>1. RowsOK(q, session[q], recovery.rows, Overtaken(q))
          /\ EndOK(q, session[q], recovery.rows, Overtaken(q))
      BY <2>1 DEF RecordsInv
    <3>2. QED BY <2>1, <2>6, <2>7, <3>1, RowsKept, SMTT(60) DEF RecordsInv
  <2>9. MemoryOK(r, t) /\ RowsOK(r, t, rows', Overtaken(r)') /\ EndOK(r, t, rows', Overtaken(r)')
    <3>1. MemoryOK(r, t) BY <1>2, <1>a DEF MemoryOK, Early, Active
    <3>2. RowsOK(r, s, recovery.rows, Overtaken(r)) BY <2>1 DEF RecordsInv
    <3>3. QED BY <1>0, <1>2, <2>1, <3>1, <3>2, StartOver
  <2>10. QED BY <2>2, <2>3, <2>5, <2>8, <2>9 DEF RecordsInv
<1>5. QED BY <1>3, <1>4 DEF StartFails, In

\* A start goes on to recover, or to open its hold: the rows stay.
LEMMA StartStep ==
  ASSUME SessionInv, RecordsInv, NEW r \in Replies, NEW phase \in Early \ {"none"},
         session[r].phase \in Early \ {"none"},
         session' = [session EXCEPT ![r].phase = phase], UNCHANGED rows,
         recovery'.active => recovery'.rows = rows,
         RecoveryInv', phase = "starting" => session[r].phase = "starting"
  PROVE  RecordsInv'
<1> DEFINE s == session[r]
           t == [s EXCEPT !.phase = phase]
<1>0. s \in Sessions /\ MemoryOK(r, s) BY DEF SessionInv, RecordsInv
<1>1. session' = [session EXCEPT ![r] = t] BY DEF SessionInv
<1>2. /\ t.phase = phase /\ t.past = s.past /\ t.locked = s.locked
      /\ t.calls = s.calls /\ t.next = s.next
  BY <1>0 DEF Sessions
<1> HIDE DEF t
<1>3. session'[r] = t /\ \A q \in Replies \ {r} : session'[q] = session[q]
  BY <1>1 DEF SessionInv
<1>4. Onward(s, t) BY <1>2 DEF Onward, Early
<1>5. \A q \in Replies : Overtaken(q) \in BOOLEAN /\ Overtaken(q)' \in BOOLEAN BY DEF Overtaken
<1>6. \A q \in Replies : Overtaken(q) => Overtaken(q)' BY <1>1, <1>4, OvertakenStays
<1>7. ASSUME NEW q \in Replies \ {r}
      PROVE  MemoryOK(q, session[q]) /\ RowsOK(q, session[q], rows, Overtaken(q)')
             /\ EndOK(q, session[q], rows, Overtaken(q)')
  BY <1>5, <1>6, RowsKept DEF RecordsInv
<1>8. MemoryOK(r, t) BY <1>0, <1>2 DEF MemoryOK, Early, Active
<1>9. RowsOK(r, t, rows, Overtaken(r)') /\ EndOK(r, t, rows, Overtaken(r)')
  <2>1. \A id \in Own(r) : rows[id].state = "none" BY DEF RecordsInv, RowsOK, RowOK
  <2>2. EndOK(r, t, rows, Overtaken(r)') BY <1>2 DEF EndOK, Early
  <2>3. RowsOK(r, t, rows, Overtaken(r)') BY <1>2, <2>1 DEF RowsOK, RowOK, Early, Active
  <2>4. QED BY <2>2, <2>3
<1>10. \A q \in Replies : MemoryOK(q, session'[q]) /\ RowsOK(q, session'[q], rows, Overtaken(q)')
                          /\ EndOK(q, session'[q], rows, Overtaken(q)')
  BY <1>3, <1>7, <1>8, <1>9
<1>11. QED BY <1>10 DEF RecordsInv

LEMMA StartRecoversRecords ==
  ASSUME SessionInv, RecordsInv, NEW r \in Replies, StartRecovers(r)
  PROVE  RecordsInv'
<1>1. /\ session[r].phase = "starting" /\ r = current /\ ~recovery.active
      /\ session' = [session EXCEPT ![r].phase = "recovering"] /\ UNCHANGED rows
      /\ \A q \in Replies : ~session[q].locked
  BY DEF StartRecovers, In, Fence, Free, Unlocked, BeginRecovery
<1>2. recovery'.active /\ recovery'.reply = r /\ recovery'.rows = rows
  BY DEF StartRecovers, BeginRecovery, Recovering
<1>3. session[r] \in Sessions BY DEF SessionInv
<1>4. /\ session'[r].phase = "recovering" /\ session'[r].locked = session[r].locked
      /\ \A q \in Replies \ {r} : session'[q] = session[q]
  BY <1>1, <1>3 DEF SessionInv, Sessions
<1>5. \A q \in Replies : session[q].phase # "recovering" BY <1>1 DEF RecordsInv, RecoveryInv
<1>6. ASSUME NEW q \in Replies, q > r
      PROVE  session[q].phase = "none" /\ \A id \in Own(q) : rows[id].state = "none"
  <2>1. session[q].phase = "none" BY <1>1, <1>6 DEF SessionInv
  <2>2. QED BY <2>1 DEF RecordsInv, RowsOK, RowOK, Early
<1>7. ASSUME NEW q \in Replies, q > r
      PROVE  session'[q].phase = "none" /\ \A id \in Own(q) : rows'[id].state = "none"
  <2>1. q # r BY <1>7, RepliesNat
  <2>2. QED BY <1>1, <1>4, <1>6, <1>7, <2>1
<1>8. RecoveryInv'
  <2>1. \A q \in Replies : ~session'[q].locked BY <1>1, <1>4
  <2>2. \A q \in Replies : session'[q].phase = "recovering"
                             <=> recovery'.active /\ recovery'.reply = q
    BY <1>2, <1>4, <1>5
  <2>3. \A q \in Replies : q > recovery'.reply =>
            /\ session'[q].phase \in {"none", "starting", "crashed"}
            /\ \A id \in Own(q) : rows'[id].state = "none"
    BY <1>2, <1>7
  <2>4. QED BY <2>1, <2>2, <2>3 DEF RecoveryInv, Own
<1>9. QED BY <1>1, <1>2, <1>8, StartStep DEF Early

LEMMA StartRecoveredRecords ==
  ASSUME SessionInv, RecordsInv, NEW r \in Replies, StartRecovered(r)
  PROVE  RecordsInv'
<1>1. /\ session[r].phase = "recovering" /\ recovery.active
      /\ session' = [session EXCEPT ![r].phase = "opening"] /\ UNCHANGED rows
      /\ recovery' = NotRecovering
  BY DEF StartRecovered, In, CommitRecovery
<1>2. ~recovery'.active BY <1>1 DEF NotRecovering
<1>3. session[r] \in Sessions BY DEF SessionInv
<1>4. /\ session'[r].phase = "opening"
      /\ \A q \in Replies \ {r} : session'[q] = session[q]
  BY <1>1, <1>3 DEF SessionInv, Sessions
<1>5. \A q \in Replies : session'[q].phase # "recovering"
  BY <1>1, <1>4 DEF RecordsInv, RecoveryInv
<1>6. RecoveryInv' BY <1>2, <1>5 DEF RecoveryInv
<1>7. QED BY <1>1, <1>2, <1>6, StartStep DEF Early

\* Recovery settles an open row of an attempt before the one that starts.
LEMMA RecoverNextRecords ==
  ASSUME IInv, SessionInv, RecordsInv, NEW r \in Replies, RecoverNext(r)
  PROVE  RecordsInv'
<1>1. PICK id \in Ids : RecoverHold(id) BY DEF RecoverNext, RecoverNextHold
<1>2. /\ session' = session /\ recovery' = recovery /\ recovery.active
      /\ rows[id].state = "open" /\ rows'[id].state = "settled"
      /\ \A other \in Ids \ {id} : rows'[other] = rows[other]
      /\ ReplyOf[id] \notin {NoReply, recovery.reply}
  <2>1. CostAtReservation(id) \in Nat BY CostAtReservationNat DEF IInv, TypeOK
  <2>2. QED
    BY <1>1, <2>1, SettleRowType DEF RecoverNext, sessionVars, RecoverHold, Abandoned, IInv
<1>3. \A q : Overtaken(q)' = Overtaken(q) BY <1>2 DEF Overtaken
<1>4. PICK late : late = recovery.reply OBVIOUS
<1>5. r = late /\ session[r].phase = "recovering"
  BY <1>4 DEF RecoverNext, In, RecordsInv, RecoveryInv
<1>6. ASSUME NEW q \in Replies
      PROVE  RowsOK(q, session[q], rows', Overtaken(q)) /\ EndOK(q, session[q], rows', Overtaken(q))
  <2>0. Overtaken(q) \in BOOLEAN BY DEF Overtaken
  <2>1. CASE id \notin Own(q)
    <3>1. \A other \in Own(q) : rows'[other] = rows[other] BY <1>2, <2>1 DEF Own
    <3>2. QED BY <2>0, <3>1, RowsKept DEF RecordsInv
  <2>2. CASE id \in Own(q)
    <3>1. q # r BY <1>2, <1>4, <1>5, <2>2 DEF Own
    <3>2. ~(q > r) BY <1>2, <1>4, <1>5, <2>2 DEF RecordsInv, RecoveryInv
    <3>3. r > q BY <3>1, <3>2, RepliesNat
    <3>4. Overtaken(q) BY <1>5, <3>3 DEF Overtaken
    <3>5. RowOK(q, session[q], id, rows[id], Overtaken(q)) BY <2>2 DEF RecordsInv, RowsOK
    <3>6. RowOK(q, session[q], id, rows'[id], Overtaken(q))
      BY <1>2, <2>0, <3>4, <3>5, RowRecovers
    <3>7. session[q].phase # "ended" BY <1>2, <3>5 DEF RowOK
    <3>8. EndOK(q, session[q], rows', Overtaken(q)) BY <3>7 DEF EndOK
    <3>9. \A other \in Own(q) : RowOK(q, session[q], other, rows'[other], Overtaken(q))
      BY <1>2, <3>6 DEF RecordsInv, RowsOK, Own
    <3>10. QED BY <3>8, <3>9 DEF RowsOK
  <2>3. QED BY <2>1, <2>2
<1>7. RecoveryInv' BY <1>2 DEF RecordsInv, RecoveryInv, Own
<1>8. QED BY <1>2, <1>3, <1>6, <1>7 DEF RecordsInv

-----------------------------------------------------------------------------
\* The transactions that replace the hold: its settlement, then the next hold.

LEMMA SettlesRecords ==
  ASSUME IInv, SessionInv, RecordsInv, NEW r \in Replies, TopUpSettles(r) \/ CheckpointSettles(r)
  PROVE  RecordsInv'
<1> DEFINE s == session[r]
           t == [s EXCEPT !.locked = TRUE]
<1>0. s \in Sessions /\ SessionOK(r, s) /\ MemoryOK(r, s) BY DEF SessionInv, RecordsInv
<1>1. /\ session' = [session EXCEPT ![r] = t]
      /\ ~s.locked /\ Fence(r) /\ settleHold(r) /\ ~recovery.active
      /\ s.phase \in Active
  <2>1. CASE TopUpSettles(r)
    <3>1. s.phase \in {"ready", "tools"} BY <1>0, <2>1 DEF TopUpSettles, TopUp, SessionOK
    <3>2. QED
      BY <2>1, <3>1 DEF TopUpSettles, TopUp, Replaceable, Free, Unlocked, SessionInv, Active
  <2>2. CASE CheckpointSettles(r)
    BY <2>2 DEF CheckpointSettles, Checkpoint, Replaceable, Free, Unlocked, In, SessionInv, Active
  <2>3. QED BY <2>1, <2>2
<1>2. /\ t.phase = s.phase /\ t.asked = s.asked /\ t.past = s.past /\ t.hold = s.hold
      /\ t.held = s.held /\ t.locked = TRUE /\ t.calls = s.calls /\ t.holds = s.holds
      /\ t.next = s.next
  BY <1>0 DEF Sessions
<1> HIDE DEF t
<1>3. HoldOpen(r) /\ ~Overtaken(r) BY <1>1, FencedHold
<1>4. SettledFor(r) /\ UNCHANGED recovery
  BY <1>1, <1>3, SettleWrites DEF settleHold, SettleReply
<1>5. s.hold \in Own(r) BY <1>1, OwnHold
<1>6. \A id \in Own(r) : RowOK(r, s, id, rows[id], Overtaken(r)) BY DEF RecordsInv, RowsOK
<1>7. s.hold[3] = 0
  <2>1. SUFFICES ASSUME s.hold[3] > 0 PROVE FALSE BY <1>0, <1>1 DEF MemoryOK
  <2>2. s.calls # <<>> BY <1>0, <1>1, <2>1 DEF MemoryOK
  <2>3. 1 \in DOMAIN s.calls BY <1>0, <2>2, SeqStarts DEF Sessions
  <2>4. PICK id : id = chatId(r, s.calls[1].step) OBVIOUS
  <2>5. id \in Own(r) BY <2>3, <2>4, CallsOwn DEF CallRows
  <2>6. id = chatId(r, s.hold[2]) BY <1>0, <1>1, <2>2, <2>4 DEF MemoryOK
  <2>7. rows[id].state = "settled" BY <1>1, <1>6, <2>1, <2>5, <2>6 DEF RowOK
  <2>8. id # s.hold BY <2>1, <2>4 DEF chatId
  <2>9. rows[id].state = "none" BY <1>4, <2>3, <2>4, <2>8 DEF SettledFor
  <2>10. QED BY <2>7, <2>9
<1>8. MemoryOK(r, t) BY <1>0, <1>1, <1>2, <1>7 DEF MemoryOK, Begun
<1>9. ASSUME NEW id \in Own(r) PROVE RowOK(r, t, id, rows'[id], Overtaken(r))
  <2>1. RowOK(r, s, id, rows[id], Overtaken(r)) BY <1>6
  <2>2. PastIds(r, t) = PastIds(r, s) /\ CallRows(r, t) = CallRows(r, s)
    BY <1>2 DEF PastIds, CallRows
  <2>3. id \in PastIds(r, t) => rows'[id].state = "settled"
    BY <1>1, <1>4, <2>2, SettledPast
  <2>4. id = s.hold \/ id \in CallRows(r, s) => rows'[id].state = "settled"
    BY <1>4 DEF SettledFor, CallRows
  <2>5. id # s.hold /\ id \notin CallRows(r, s) => rows'[id] = rows[id]
    BY <1>4 DEF SettledFor, Own
  <2>6. rows'[id].state # "open" BY <1>1, <2>1, <2>4, <2>5 DEF RowOK
  <2>7. rows'[id].state # "none" =>
           id = s.hold \/ id \in PastIds(r, s) \/ id \in CallRows(r, s)
    BY <1>1, <1>7, <2>1, <2>5 DEF RowOK
  <2>8. t.phase \in Active /\ t.phase \notin Early /\ t.phase # "ended" /\ t.locked
        /\ t.hold = s.hold /\ ~(t.hold[3] > 0)
    BY <1>1, <1>2, <1>7 DEF Active, Early
  <2>9. QED BY <2>2, <2>3, <2>4, <2>6, <2>7, <2>8 DEF RowOK
<1>10. RowsOK(r, t, rows', Overtaken(r)) BY <1>9 DEF RowsOK
<1>11. EndOK(r, t, rows', Overtaken(r)) BY <1>1, <1>2 DEF EndOK, Active
<1>12. Onward(s, t) BY <1>1, <1>2 DEF Onward, Active
<1>13. t.phase # "recovering" /\ s.phase # "recovering" BY <1>1, <1>2 DEF Active
<1>14. \A q \in Replies \ {r} : \A id \in Own(q) : rows'[id] = rows[id]
  BY <1>1, <1>4, SettledApart
<1>15. QED BY <1>1, <1>4, <1>8, <1>10, <1>11, <1>12, <1>13, <1>14, Assemble

\* The step a hold is opened for is not one of those it was opened after.
LEMMA OpensRecords ==
  ASSUME IInv, SessionInv, RecordsInv, NEW r \in Replies, NEW step, NEW need, NEW phase,
         NEW calls, openHold(r, step, need, phase, calls),
         session[r].phase \in Active, session[r].locked,
         holdId(r, step) \in Ids, phase \in {"ready", "tools"},
         session[r].calls = <<>> => session[r].hold[2] = step,
         \/ calls = <<>> /\ session[r].calls # <<>> /\ phase = "ready" /\ step = session[r].next
         \/ /\ calls # <<>> /\ calls[1].step = step
            /\ \A i \in DOMAIN calls : calls[i].step = step
            /\ step \notin session[r].past
            /\ \A i \in DOMAIN session[r].calls : session[r].calls[i].step # step
  PROVE  RecordsInv'
<1> DEFINE s == session[r]
           id == holdId(r, step)
           held == HoldFor(available, need, Preferred)
           steps == {s.calls[i].step : i \in DOMAIN s.calls}
           t == Renewed(s, id, held, steps, calls, phase)
<1>0. s \in Sessions /\ SessionOK(r, s) /\ MemoryOK(r, s) BY DEF SessionInv, RecordsInv
<1>1. session' = [session EXCEPT ![r] = t] BY ZenonT(60) DEF openHold, Renewed, SessionInv
<1>2. /\ t.phase = phase /\ t.asked = NoCall /\ t.past = s.past \cup steps /\ t.hold = id
      /\ t.held = held /\ t.locked = FALSE /\ t.calls = calls /\ t.holds = s.holds + 1
      /\ t.next = s.next
  BY <1>0 DEF Sessions, Renewed
<1>3. /\ rows[id].state = "none" /\ rows' = [rows EXCEPT ![id] = Opened(held)]
      /\ UNCHANGED recovery /\ ~recovery.active
  BY DEF openHold, Hold, Unlocked
<1>4. id = <<r, id[2], id[3]>> /\ id[2] = step /\ id[3] \in Nat
      /\ (id[3] = 0 => id = chatId(r, step))
      /\ (id[3] > 0 => s.calls = <<>> /\ s.hold = chatId(r, step))
  <2>1. s.holds \in Nat BY <1>0 DEF Sessions
  <2>2. CASE s.calls = <<>> /\ s.hold = chatId(r, step)
    <3>1. id = <<r, step, s.holds>> BY <2>2 DEF holdId
    <3> HIDE DEF id
    <3>2. QED BY <2>1, <2>2, <3>1 DEF chatId
  <2>3. CASE ~(s.calls = <<>> /\ s.hold = chatId(r, step))
    <3>1. id = <<r, step, 0>> BY <2>3 DEF holdId, chatId
    <3> HIDE DEF id
    <3>2. QED BY <3>1 DEF chatId
  <2>4. QED BY <2>2, <2>3
<1>5. rows \in [Ids -> Row] BY DEF IInv, TypeOK
<1>6. rows'[id] = Opened(held) /\ \A other \in Ids \ {id} : rows'[other] = rows[other]
  BY <1>3, <1>5
<1>7. ReplyOf[id] = r
  <2>1. ReplyOf[id] # NoReply BY DEF openHold, Hold
  <2>2. id[1] = r BY <1>4
  <2>3. QED BY <2>1, <2>2, SessionAssumption
<1> HIDE DEF t, id, held
<1>8. MemoryOK(r, t)
  <2>1. \A p \in t.past : Begun(r, t, p)
    <3>1. \A p \in s.past \cup steps : Begun(r, s, p) BY <1>0 DEF MemoryOK, SessionOK
    <3>2. QED BY <1>2, <3>1 DEF Begun
  <2>2. t.holds > 0 BY <1>0, <1>2 DEF Sessions
  <2>3. \A i \in DOMAIN t.calls : t.calls[i].step \notin t.past
    <3>1. CASE calls = <<>> BY <1>2, <3>1
    <3>2. CASE calls # <<>> BY <1>2, <3>2
    <3>3. QED BY <3>1, <3>2
  <2>4. t.calls # <<>> => t.hold[2] = t.calls[1].step BY <1>2, <1>4
  <2>5. t.calls = <<>> => t.phase = "ready" /\ t.hold[3] = 0 /\ t.hold[2] = t.next
    BY <1>2, <1>4
  <2>6. t.phase \in Active /\ t.phase \notin Early BY <1>2 DEF Active, Early
  <2>7. t.hold = <<r, t.hold[2], t.hold[3]>> /\ t.hold[3] \in Nat /\ t.hold \in Ids
    BY <1>2, <1>4 DEF id
  <2>8. QED BY <1>2, <2>1, <2>2, <2>3, <2>4, <2>5, <2>6, <2>7 DEF MemoryOK
<1>9. PastIds(r, t) = PastIds(r, s) \cup CallRows(r, s)
  BY <1>2 DEF PastIds, CallRows
<1>10. s.hold[3] = 0 /\ s.hold = <<r, s.hold[2], s.hold[3]>> /\ s.hold \in Own(r)
  BY <1>0, OwnHold DEF MemoryOK
<1>11. s.calls # <<>> => s.hold \in CallRows(r, s)
  <2>1. s.calls # <<>> => 1 \in DOMAIN s.calls BY <1>0, SeqStarts DEF Sessions
  <2>2. s.calls # <<>> => s.hold = chatId(r, s.calls[1].step)
    BY <1>0, <1>10 DEF MemoryOK, chatId
  <2>3. QED BY <2>1, <2>2 DEF CallRows
<1>12. ASSUME NEW o \in Own(r) PROVE RowOK(r, t, o, rows'[o], Overtaken(r))
  <2>1. RowOK(r, s, o, rows[o], Overtaken(r)) /\ o \in Ids BY DEF RecordsInv, RowsOK, Own
  <2>2. o \in PastIds(r, t) => rows[o].state = "settled" BY <1>9, <2>1 DEF RowOK
  <2>3. rows[o].state # "open" BY <2>1 DEF RowOK
  <2>4. rows'[id].state = "open" /\ rows'[id].reserved = held BY <1>6 DEF Opened
  <2>5. o # id => rows'[o] = rows[o] BY <1>6, <2>1
  <2>6. id[3] > 0 /\ o = chatId(r, id[2]) => o # id /\ rows[o].state = "settled"
    <3>1. SUFFICES ASSUME id[3] > 0, o = chatId(r, id[2]) PROVE o # id /\ rows[o].state = "settled"
      OBVIOUS
    <3>2. o = s.hold /\ o[3] = 0 BY <1>4, <1>10, <3>1 DEF chatId
    <3>3. rows[o].state = "settled" BY <2>1, <2>3, <3>2 DEF RowOK
    <3>4. QED BY <3>1, <3>2, <3>3
  <2>7. ~(id[3] > 0) /\ rows[o].state # "none" => o \in PastIds(r, t)
    <3>1. SUFFICES ASSUME ~(id[3] > 0), rows[o].state # "none" PROVE o \in PastIds(r, t)
      OBVIOUS
    <3>2. o = s.hold \/ o \in PastIds(r, s) \/ o \in CallRows(r, s)
      BY <1>10, <2>1, <3>1 DEF RowOK
    <3>3. s.calls # <<>>
      <4>1. SUFFICES ASSUME s.calls = <<>> PROVE FALSE OBVIOUS
      <4>2. s.hold = chatId(r, step) BY <1>10, <4>1 DEF chatId
      <4>3. id = <<r, step, s.holds>> BY <4>1, <4>2 DEF id, holdId
      <4>4. s.holds > 0 BY <1>0 DEF MemoryOK
      <4>5. QED BY <3>1, <4>3, <4>4
    <3>4. QED BY <1>9, <1>11, <3>2, <3>3
  <2>8. t.phase \in Active /\ t.phase \notin Early /\ t.phase # "ended" /\ ~t.locked
        /\ t.hold = id /\ t.held = held
    BY <1>2 DEF Active, Early
  <2>9. o \in PastIds(r, t) => o # id BY <1>3, <2>2
  <2>10. QED BY <2>2, <2>3, <2>4, <2>5, <2>6, <2>7, <2>8, <2>9 DEF RowOK
<1>13. RowsOK(r, t, rows', Overtaken(r)) BY <1>12 DEF RowsOK
<1>14. EndOK(r, t, rows', Overtaken(r)) BY <1>2 DEF EndOK
<1>15. Onward(s, t) BY <1>2 DEF Onward
<1>16. t.phase # "recovering" /\ s.phase # "recovering" BY <1>2 DEF Active
<1>17. \A q \in Replies \ {r} : \A o \in Own(q) : rows'[o] = rows[o] BY <1>6, <1>7 DEF Own
<1>18. QED BY <1>1, <1>3, <1>8, <1>13, <1>14, <1>15, <1>16, <1>17, Assemble

LEMMA ReopensRecords ==
  ASSUME IInv, SessionInv, RecordsInv, NEW r \in Replies, TopUpOpens(r) \/ CheckpointOpens(r)
  PROVE  RecordsInv'
<1> DEFINE s == session[r]
<1>0. s \in Sessions /\ SessionOK(r, s) /\ MemoryOK(r, s) BY DEF SessionInv, RecordsInv
<1>1. \A step : nextId(r, s, step) = holdId(r, step) BY DEF nextId, holdId
<1>2. CASE TopUpOpens(r)
  <2>1. s.asked # NoCall /\ s.locked BY <1>2 DEF TopUpOpens
  <2>2. s.phase \in {"ready", "tools"} BY <1>0, <2>1 DEF SessionOK
  <2>3. PICK step, need, phase, calls :
          /\ step = s.asked.step /\ need = s.asked.need /\ phase = s.phase
          /\ calls = <<NewCall(step, need)>>
    OBVIOUS
  <2>4. openHold(r, step, need, phase, calls) BY <1>2, <2>3 DEF TopUpOpens
  <2>5. calls # <<>> /\ DOMAIN calls = {1} /\ calls[1] = NewCall(step, need) BY <2>3
  <2>6. calls[1].step = step BY <2>5 DEF NewCall
  <2>7. holdId(r, step) \in Ids BY <1>0, <1>1, <2>1, <2>2, <2>3 DEF SessionOK
  <2>8. s.calls = <<>> => s.hold[2] = step BY <1>0, <2>1, <2>2, <2>3 DEF MemoryOK, Active
  <2>9. step \notin s.past /\ \A i \in DOMAIN s.calls : s.calls[i].step # step
    BY <1>0, <2>1, <2>2, <2>3 DEF MemoryOK, SessionOK, Active
  <2>10. s.phase \in Active /\ phase \in {"ready", "tools"} BY <2>2, <2>3 DEF Active
  <2>11. \A i \in DOMAIN calls : calls[i].step = step BY <2>5, <2>6
  <2>12. QED BY <2>1, <2>4, <2>5, <2>6, <2>7, <2>8, <2>9, <2>10, <2>11, OpensRecords
<1>3. CASE CheckpointOpens(r)
  <2>1. s.phase = "saving" /\ s.locked BY <1>3 DEF CheckpointOpens, In
  <2>2. s.calls # <<>> /\ s.phase \in Active BY <1>0, <2>1 DEF MemoryOK, Active
  <2>3. openHold(r, s.next, Minimum, "ready", <<>>) BY <1>3 DEF CheckpointOpens
  <2>4. holdId(r, s.next) \in Ids BY <1>0, <1>1, <2>1 DEF SessionOK
  <2>5. QED BY <2>1, <2>2, <2>3, <2>4, OpensRecords
<1>4. QED BY <1>2, <1>3

LEMMA StartOpensRecords ==
  ASSUME IInv, SessionInv, RecordsInv, NEW r \in Replies, StartOpens(r)
  PROVE  RecordsInv'
<1> DEFINE s == session[r]
           id == chatId(r, 0)
           held == HoldFor(available, Minimum, Preferred)
           t == Renewed(s, id, held, {}, <<>>, "ready")
<1>0. s \in Sessions /\ SessionOK(r, s) /\ MemoryOK(r, s) BY DEF SessionInv, RecordsInv
<1>1. s.phase \in {"opening", "starting"} /\ openHold(r, 0, Minimum, "ready", <<>>)
  BY DEF StartOpens, In
<1>2. s.calls = <<>> /\ s.past = {} /\ s.next = 0 /\ s.hold = NoHold
  BY <1>0, <1>1 DEF MemoryOK, SessionOK, Early
<1>3. id \in Own(r)
  <2>1. ChatSteps[r] \in Nat \ {0} BY StepsAssumption
  <2>2. 0 \in StepsOf(r) BY <2>1 DEF StepsOf
  <2>3. QED BY <2>2, ChatIdRow DEF Own
<1>4. holdId(r, 0) = id BY <1>2, <1>3, SessionAssumption DEF holdId, Own
<1>5. session' = [session EXCEPT ![r] = t]
  <2>1. {s.calls[i].step : i \in DOMAIN s.calls} = {} BY <1>2
  <2>2. QED BY <1>1, <1>4, <2>1, ZenonT(60) DEF openHold, Renewed, SessionInv
<1>6. /\ t.phase = "ready" /\ t.asked = NoCall /\ t.past = {} /\ t.hold = id
      /\ t.held = held /\ t.locked = FALSE /\ t.calls = <<>> /\ t.holds = s.holds + 1
      /\ t.next = 0
  BY <1>0, <1>2 DEF Sessions, Renewed
<1>7. /\ rows' = [rows EXCEPT ![id] = Opened(held)] /\ UNCHANGED recovery /\ ~recovery.active
  BY <1>1, <1>4 DEF openHold, Hold, Unlocked
<1>8. rows \in [Ids -> Row] BY DEF IInv, TypeOK
<1>9. id \in Ids /\ ReplyOf[id] = r BY <1>3 DEF Own
<1>10. rows'[id] = Opened(held) /\ \A other \in Ids \ {id} : rows'[other] = rows[other]
  BY <1>7, <1>8, <1>9
<1>11. id[2] = 0 /\ id[3] = 0 /\ id = <<r, id[2], id[3]>> BY DEF chatId
<1> HIDE DEF t, id, held
<1>12. MemoryOK(r, t)
  <2>1. t.holds > 0 BY <1>0, <1>6 DEF Sessions
  <2>2. t.phase \in Active /\ t.phase \notin Early BY <1>6 DEF Active, Early
  <2>3. QED BY <1>6, <1>9, <1>11, <2>1, <2>2 DEF MemoryOK
<1>13. ASSUME NEW o \in Own(r) PROVE RowOK(r, t, o, rows'[o], Overtaken(r))
  <2>1. rows[o].state = "none" /\ o \in Ids
    BY <1>1 DEF RecordsInv, RowsOK, RowOK, Own, Early
  <2>2. PastIds(r, t) = {} BY <1>6 DEF PastIds
  <2>3. CASE o = id
    <3>1. rows'[o].state = "open" /\ rows'[o].reserved = held BY <1>10, <2>3 DEF Opened
    <3>2. QED BY <1>6, <1>11, <2>2, <2>3, <3>1 DEF RowOK, Early, Active
  <2>4. CASE o # id
    <3>1. rows'[o].state = "none" BY <1>10, <2>1, <2>4
    <3>2. QED BY <1>6, <1>11, <2>2, <2>4, <3>1 DEF RowOK, Early, Active
  <2>5. QED BY <2>3, <2>4
<1>14. RowsOK(r, t, rows', Overtaken(r)) BY <1>13 DEF RowsOK
<1>15. EndOK(r, t, rows', Overtaken(r)) BY <1>6 DEF EndOK
<1>16. Onward(s, t) BY <1>6 DEF Onward
<1>17. t.phase # "recovering" /\ s.phase # "recovering" BY <1>1, <1>6
<1>18. \A q \in Replies \ {r} : \A o \in Own(q) : rows'[o] = rows[o] BY <1>9, <1>10 DEF Own
<1>19. QED BY <1>5, <1>7, <1>12, <1>14, <1>15, <1>16, <1>17, <1>18, Assemble

-----------------------------------------------------------------------------
\* Everything else.

\* Nothing of the sessions moves, or a row no attempt owns.
LEMMA RowsApart ==
  ASSUME SessionInv, RecordsInv, UNCHANGED session, UNCHANGED recovery,
         \A q \in Replies : \A id \in Own(q) : rows'[id] = rows[id]
  PROVE  RecordsInv'
<1>1. \A q : Overtaken(q)' = Overtaken(q) BY DEF Overtaken
<1>2. ASSUME NEW q \in Replies
      PROVE  RowsOK(q, session[q], rows', Overtaken(q)) /\ EndOK(q, session[q], rows', Overtaken(q))
  <2>1. Overtaken(q) \in BOOLEAN BY DEF Overtaken
  <2>2. QED BY <2>1, RowsKept DEF RecordsInv
<1>3. RecoveryInv' BY DEF RecordsInv, RecoveryInv, Own
<1>4. QED BY <1>1, <1>2, <1>3 DEF RecordsInv

LEMMA CallRecords ==
  ASSUME IInv, SessionInv, RecordsInv, Free, CallStep, UNCHANGED sessionVars
  PROVE  RecordsInv'
<1>1. UNCHANGED session /\ UNCHANGED recovery
  BY DEF CallStep, sessionVars, ReserveCall, SettleCall, SettleUnknownCall, Reserve, Settle,
         SettleAtReservation
<1>2. PICK id \in Ids : ReplyOf[id] = NoReply /\ \A o \in Ids \ {id} : rows'[o] = rows[o]
  <2>1. CASE ReserveCall
    BY <2>1 DEF ReserveCall, Reserve, IInv, TypeOK
  <2>2. CASE SettleCall
    BY <2>2 DEF SettleCall, Settle, SettleRow, IInv, TypeOK
  <2>3. CASE SettleUnknownCall
    BY <2>3 DEF SettleUnknownCall, SettleAtReservation, SettleRow, IInv, TypeOK
  <2>4. QED BY <2>1, <2>2, <2>3 DEF CallStep
<1>3. \A q \in Replies : \A o \in Own(q) : rows'[o] = rows[o] BY <1>2, RepliesNat DEF Own
<1>4. QED BY <1>1, <1>3, RowsApart

LEMMA InitRecords == ASSUME SessionInit PROVE RecordsInv
<1>1. \A r \in Replies : session[r] = Idle BY DEF SessionInit
<1>2. rows = [id \in Ids |-> NoRow] /\ recovery = NotRecovering
  BY DEF SessionInit, Init, UsageInit
<1>3. ~recovery.active BY <1>2 DEF NotRecovering
<1>4. Idle.phase = "none" /\ Idle.calls = <<>> /\ Idle.past = {} /\ Idle.next = 0 BY DEF Idle
<1>5. \A id \in Ids : rows[id].state = "none" BY <1>2 DEF NoRow
<1>6. ASSUME NEW r \in Replies
      PROVE  /\ MemoryOK(r, Idle) /\ RowsOK(r, Idle, rows, Overtaken(r))
             /\ EndOK(r, Idle, rows, Overtaken(r))
  <2>1. MemoryOK(r, Idle) BY <1>4 DEF MemoryOK, Early, Active
  <2>2. RowsOK(r, Idle, rows, Overtaken(r)) BY <1>4, <1>5 DEF RowsOK, RowOK, Own, Early, Active
  <2>3. EndOK(r, Idle, rows, Overtaken(r)) BY <1>4 DEF EndOK
  <2>4. QED BY <2>1, <2>2, <2>3
<1>7. RecoveryInv BY <1>1, <1>3, <1>4 DEF RecoveryInv
<1>8. QED BY <1>1, <1>3, <1>6, <1>7 DEF RecordsInv

LEMMA StepRecords ==
  ASSUME IInv, SessionInv, RecordsInv, [SessionNext]_<<vars, sessionVars>>
  PROVE  RecordsInv'
<1>1. CASE UNCHANGED <<vars, sessionVars>>
  <2>1. UNCHANGED session /\ UNCHANGED recovery /\ UNCHANGED rows
    BY <1>1 DEF vars, sessionVars
  <2>2. QED BY <2>1, RowsApart
<1>2. CASE Free /\ (CallStep \/ KnowledgeNext) /\ UNCHANGED sessionVars
  <2>1. CASE CallStep BY <1>2, <2>1, CallRecords
  <2>2. CASE KnowledgeNext
    <3>1. UNCHANGED session /\ UNCHANGED recovery /\ UNCHANGED rows
      BY <1>2, <2>2 DEF KnowledgeNext, usageVars, sessionVars
    <3>2. QED BY <3>1, RowsApart
  <2>3. QED BY <1>2, <2>1, <2>2
<1>3. CASE \E r \in Replies : SessionStep(r)
  <2>1. PICK r \in Replies : SessionStep(r) BY <1>3
  <2>2. CASE Asks(r)
    <3>1. PICK quote \in Quotes : Asking(r, session[r].next, quote) BY <2>2 DEF Asks
    <3>2. session[r].phase = "ready" /\ session[r].next < ChatSteps[r] BY <2>2 DEF Asks, In
    <3>3. QED BY <3>1, <3>2, AskingRecords
  <2>3. CASE HelperAsks(r)
    <3>1. PICK step \in Helpers[r] \ Metered(r), quote \in Quotes : Asking(r, step, quote)
      BY <2>3 DEF HelperAsks
    <3>2. session[r].phase = "tools" BY <2>3 DEF HelperAsks, In
    <3>3. QED BY <3>1, <3>2, AskingRecords
  <2>4. QED
    BY <2>1, <2>2, <2>3, ClaimRecords, StartRecoversRecords, RecoverNextRecords,
       StartRecoveredRecords, StartOpensRecords, StartFailsRecords, ReservesRecords,
       SettlesRecords, ReopensRecords, PhaseRecords, AnsweredRecords, EndsRecords,
       EndRefusedRecords, CrashRecords
       DEF SessionStep
<1>4. QED BY <1>1, <1>2, <1>3 DEF SessionNext

LEMMA RecordsInductive == SessionSpec => [](IInv /\ SessionInv /\ RecordsInv)
<1>1. SessionInit => IInv /\ SessionInv /\ RecordsInv
  BY InitIInv, InitSession, InitRecords DEF SessionInit
<1>2. IInv /\ SessionInv /\ RecordsInv /\ [SessionNext]_<<vars, sessionVars>>
        => (IInv /\ SessionInv /\ RecordsInv)'
  BY SessionKeeps, SessionStepRefines, StepIInv, StepRecords
<1>3. QED BY <1>1, <1>2, PTL DEF SessionSpec

LEMMA RecordsImply ==
  ASSUME SessionInv, RecordsInv
  PROVE  CallsRecorded
<1> DEFINE row(r, i) == rows[callIds(r)[i]]
           unwritten(r) == \A i \in DOMAIN session[r].calls :
                             callIds(r)[i] = session[r].hold \/ row(r, i).state = "none"
<1>1. SUFFICES ASSUME NEW r \in Replies
      PROVE  /\ \A step \in session[r].past : rows[chatId(r, step)].state = "settled"
             /\ Metering(r) /\ ~session[r].locked => unwritten(r) \/ Renamed(r)
             /\ session[r].phase = "ended" =>
                  /\ \A id \in Ids : ReplyOf[id] = r => rows[id].state # "open"
                  /\ \/ \A i \in DOMAIN session[r].calls :
                          row(r, i).state = "settled"
                            /\ row(r, i).cost = costOf(session[r].calls[i])
                     \/ /\ unwritten(r) \/ Renamed(r)
                        /\ \E later \in Replies : later > r /\ ~In(later, {"none", "starting"})
  BY DEF CallsRecorded
<1> DEFINE s == session[r]
<1>2. \A i \in DOMAIN s.calls : callIds(r)[i] = chatId(r, s.calls[i].step) BY DEF callIds
<1>3. \A id \in Own(r) : RowOK(r, s, id, rows[id], Overtaken(r)) BY DEF RecordsInv, RowsOK
<1>4. MemoryOK(r, s) /\ EndOK(r, s, rows, Overtaken(r)) BY DEF RecordsInv
<1>5. ASSUME NEW step \in s.past PROVE rows[chatId(r, step)].state = "settled"
  <2>1. chatId(r, step) \in Own(r) /\ chatId(r, step) \in PastIds(r, s)
    BY <1>4, BegunStep, ChatIdRow DEF MemoryOK, Own, PastIds
  <2>2. s.phase \in Active \cup {"ended", "refused"}
    BY <1>4 DEF MemoryOK, SessionInv, Sessions, Phases, Early, Active
  <2>3. QED BY <1>3, <2>1, <2>2 DEF RowOK
<1>6. ASSUME Metering(r), ~s.locked PROVE unwritten(r) \/ Renamed(r)
  <2>1. s.phase \in Active BY <1>6 DEF Metering, In, Active
  <2>2. s.hold # NoHold /\ s.hold[3] \in Nat BY <1>4, <2>1, OwnHold DEF MemoryOK
  <2>3. SUFFICES ASSUME s.hold[3] = 0, NEW i \in DOMAIN s.calls
        PROVE  callIds(r)[i] = s.hold \/ row(r, i).state = "none"
    BY <2>2 DEF Renamed
  <2>4. callIds(r)[i] \in Own(r) BY <1>2, CallsOwn DEF CallRows
  <2>5. callIds(r)[i] \notin PastIds(r, s)
    BY <1>2, <1>4, <2>1, IdsApart DEF MemoryOK, PastIds
  <2>6. QED BY <1>3, <1>6, <2>1, <2>3, <2>4, <2>5 DEF RowOK
<1>7. ASSUME s.phase = "ended"
      PROVE  /\ \A id \in Ids : ReplyOf[id] = r => rows[id].state # "open"
             /\ \/ \A i \in DOMAIN s.calls :
                     row(r, i).state = "settled" /\ row(r, i).cost = costOf(s.calls[i])
                \/ /\ unwritten(r) \/ Renamed(r)
                   /\ \E later \in Replies : later > r /\ ~In(later, {"none", "starting"})
  <2>1. \A id \in Ids : ReplyOf[id] = r => rows[id].state # "open"
    BY <1>3, <1>7 DEF RowOK, Own
  <2>2. QED BY <1>2, <1>4, <1>7, <2>1 DEF EndOK, Overtaken, Renamed, In
<1>8. QED BY <1>5, <1>6, <1>7

-----------------------------------------------------------------------------
\* What the rows cost, and so what is due, stays below some bound.

\* No cost or amount the ledgers meet is above `largest' units.
Largest(largest) ==
  /\ largest \in Nat
  /\ \A cost \in Costs : cost * Rate <= largest
  /\ \A amount \in Amounts : amount <= largest

\* A row costs at most so much, and reserves at most so much while it is open.
BoundedRow(largest, row) ==
  row.cost * Rate <= largest /\ (row.state = "open" => row.reserved <= largest)

BoundedRows(largest, R) == \A id \in Ids : BoundedRow(largest, R[id])

BoundsInv(largest) ==
  /\ BoundedRows(largest, rows)
  /\ recovery.active => BoundedRows(largest, recovery.rows)

LEMMA OpenBounded ==
  ASSUME NEW largest, Largest(largest), BoundedRows(largest, rows), rows \in [Ids -> Row],
         NEW id \in Ids, NEW reserved \in Nat, reserved <= largest,
         rows' = [rows EXCEPT ![id] = Opened(reserved)]
  PROVE  BoundedRows(largest, rows')
<1>1. 0 * Rate = 0 BY UnitsAssumption
<1>2. BoundedRow(largest, Opened(reserved)) BY <1>1 DEF Opened, BoundedRow, Largest
<1>3. QED BY <1>2 DEF BoundedRows

LEMMA SettleBounded ==
  ASSUME NEW largest, BoundedRows(largest, rows), rows \in [Ids -> Row],
         NEW id \in Ids, NEW cost, cost * Rate <= largest, SettleRow(id, cost)
  PROVE  BoundedRows(largest, rows')
<1> DEFINE row == Settled(rows[id].reserved, ChargeFor(FlowOf[id], cost), cost)
<1>1. rows' = [rows EXCEPT ![id] = row] /\ row.cost = cost /\ row.state = "settled"
  BY DEF SettleRow, Settled
<1> HIDE DEF row
<1>2. BoundedRow(largest, row) BY <1>1 DEF BoundedRow
<1>3. QED BY <1>1, <1>2 DEF BoundedRows

LEMMA ReservedBounded ==
  ASSUME NEW largest, Largest(largest), BoundedRows(largest, rows), rows \in [Ids -> Row],
         NEW id \in Ids, rows[id].state = "open"
  PROVE  CostAtReservation(id) * Rate <= largest
<1>1. rows[id].reserved \in Nat /\ rows[id].reserved <= largest
  BY DEF BoundedRows, BoundedRow, Row
<1>2. (rows[id].reserved \div Rate) * Rate <= rows[id].reserved BY <1>1, UnitsAssumption
<1>3. (rows[id].reserved \div Rate) * Rate \in Int BY <1>1, UnitsAssumption
<1>4. QED BY <1>1, <1>2, <1>3 DEF CostAtReservation, Largest

\* The rows of a hold's calls: their costs are the calls', and the hold's is
\* one of them or nothing.
LEMMA SettleReplyBounded ==
  ASSUME NEW largest, Largest(largest), BoundedRows(largest, rows), TypeOK,
         NEW hold \in Ids, NEW n \in Nat, NEW ids \in [1..n -> Ids], NEW costs \in [1..n -> Costs],
         NEW running, IsRun(running, n, FlowCost(FlowOf[hold]), costs),
         SettleReply(hold, n, ids, running)
  PROVE  BoundedRows(largest, rows')
<1> DEFINE flow == FlowOf[hold]
           before(i) == IF i = 1 THEN FlowCost(flow) ELSE running[i - 1]
           paid(i) == IF i = 1 THEN FlowCharged(flow) ELSE UnitsFor(running[i - 1])
           cost(i) == running[i] - before(i)
           owed(i) == UnitsFor(running[i]) - paid(i)
           reserved == rows[hold].reserved
           reused == n > 0 /\ ids[1] = hold
           callOf(id) == CHOOSE i \in 1..n : ids[i] = id
           made == {ids[i] : i \in 1..n} \ {hold}
           rowOf(i) == Settled(owed(i), owed(i), cost(i))
           holdRow == IF reused THEN Settled(reserved, owed(1), cost(1))
                                ELSE Settled(reserved, 0, 0)
<1>1. rows' = [id \in Ids |->
          IF id \in made THEN rowOf(callOf(id)) ELSE IF id = hold THEN holdRow ELSE rows[id]]
  BY DEF SettleReply
<1>2. \A i \in 1..n : Priceable(running[i]) BY DEF SettleReply
<1>3. ASSUME NEW i \in 1..n PROVE cost(i) * Rate <= largest
  <2>1. i \in 0..n /\ i # 0 /\ 0 \in 0..n OBVIOUS
  <2>2. running[0] = FlowCost(flow) /\ running[i] = running[i - 1] + costs[i]
    <3> HIDE DEF flow
    <3>1. IsRun(running, n, FlowCost(flow), costs) BY DEF flow
    <3>2. QED BY <2>1, <3>1 DEF IsRun
  <2>3. costs[i] \in Costs /\ costs[i] \in Nat BY InputsAssumption
  <2>4. before(i) = running[i - 1] /\ running[i - 1] \in Int
    <3>1. CASE i = 1
      <4>1. FlowCost(flow) \in Int BY RowSums DEF TypeOK, FlowCost, CostsOf
      <4> HIDE DEF flow
      <4>2. i - 1 = 0 BY <3>1
      <4>3. QED BY <2>2, <3>1, <4>1, <4>2
    <3>2. CASE i # 1
      <4>1. i - 1 \in 1..n BY <3>2
      <4>2. QED BY <1>2, <3>2, <4>1 DEF Priceable
    <3>3. QED BY <3>1, <3>2
  <2> HIDE DEF before
  <2>5. cost(i) = costs[i] BY <2>2, <2>3, <2>4
  <2> HIDE DEF cost
  <2>6. QED BY <2>3, <2>5 DEF Largest
<1>4. ASSUME NEW i \in 1..n, NEW row, row.cost = cost(i), row.state = "settled"
      PROVE  BoundedRow(largest, row)
  <2> HIDE DEF cost
  <2>1. QED BY <1>3, <1>4 DEF BoundedRow
<1>5. BoundedRow(largest, holdRow)
  <2>1. CASE reused
    <3>1. 1 \in 1..n BY <2>1
    <3> HIDE DEF cost, owed, reused, reserved
    <3>2. holdRow.cost = cost(1) /\ holdRow.state = "settled" BY <2>1 DEF Settled
    <3> HIDE DEF holdRow
    <3>3. QED BY <1>4, <3>1, <3>2
  <2>2. CASE ~reused
    <3> HIDE DEF cost, owed, reused, reserved
    <3>1. holdRow.cost = 0 /\ holdRow.state = "settled" BY <2>2 DEF Settled
    <3>2. 0 * Rate = 0 BY UnitsAssumption
    <3> HIDE DEF holdRow
    <3>3. QED BY <3>1, <3>2 DEF BoundedRow, Largest
  <2>3. QED BY <2>1, <2>2
<1>6. ASSUME NEW id \in made PROVE BoundedRow(largest, rowOf(callOf(id)))
  <2>1. callOf(id) \in 1..n OBVIOUS
  <2> HIDE DEF callOf, cost, owed
  <2>2. rowOf(callOf(id)).cost = cost(callOf(id)) /\ rowOf(callOf(id)).state = "settled"
    BY DEF Settled
  <2> HIDE DEF rowOf
  <2>3. QED BY <1>4, <2>1, <2>2
<1> HIDE DEF made, rowOf, callOf, holdRow
<1>7. QED BY <1>1, <1>5, <1>6 DEF BoundedRows

LEMMA StepBounded ==
  ASSUME NEW largest, Largest(largest), IInv, BoundsInv(largest), [Next]_vars
  PROVE  BoundsInv(largest)'
<1>1. rows \in [Ids -> Row] /\ TypeOK /\ BoundedRows(largest, rows)
  BY DEF IInv, TypeOK, BoundsInv
<1>2. CASE UNCHANGED usageVars BY <1>2 DEF usageVars, BoundsInv
<1>3. CASE BoundedRows(largest, rows') /\ UNCHANGED recovery BY <1>3 DEF BoundsInv
<1>4. CASE ReserveCall
  <2>1. PICK id \in Ids, quote \in Quotes : Reserve(id, quote) BY <1>4 DEF ReserveCall
  <2>2. UnitsFor(quote) \in Amounts BY AmountsAssumption
  <2>3. UnitsFor(quote) \in Nat /\ UnitsFor(quote) <= largest
    BY <2>2, InputsAssumption DEF Largest
  <2>4. BoundedRows(largest, rows') BY <1>1, <2>1, <2>3, OpenBounded DEF Reserve
  <2>5. QED BY <1>3, <2>1, <2>4 DEF Reserve
<1>5. CASE HoldReply
  <2>1. PICK id \in Ids, minimum \in Amounts, preferred \in Amounts : Hold(id, minimum, preferred)
    BY <1>5 DEF HoldReply
  <2>2. PICK reserved : reserved = HoldFor(available, minimum, preferred) OBVIOUS
  <2>3. reserved \in Nat /\ reserved <= largest
    <3>1. minimum \in Nat /\ preferred \in Nat /\ minimum <= largest /\ preferred <= largest
      BY InputsAssumption DEF Largest
    <3>2. available \in Balance /\ Affords(available, minimum)
      BY <2>1 DEF Hold, IInv, TypeOK
    <3>3. reserved \in Nat BY <2>2, <3>1, <3>2, HoldForType
    <3>4. QED BY <2>2, <3>1, <3>2, <3>3, GateAssumption DEF HoldFor, Largest
  <2>4. rows' = [rows EXCEPT ![id] = Opened(reserved)] /\ UNCHANGED recovery
    BY <2>1, <2>2 DEF Hold
  <2>5. QED BY <1>1, <1>3, <2>3, <2>4, OpenBounded
<1>6. CASE SettleCall
  <2>1. PICK id \in Ids, cost \in Costs : Settle(id, cost) BY <1>6 DEF SettleCall
  <2>2. BoundedRows(largest, rows') BY <1>1, <2>1, SettleBounded DEF Settle, Largest
  <2>3. QED BY <1>3, <2>1, <2>2 DEF Settle
<1>7. CASE SettleUnknownCall \/ RecoverNextHold
  <2>1. PICK id \in Ids : SettleRow(id, CostAtReservation(id)) /\ UNCHANGED recovery
    BY <1>7 DEF SettleUnknownCall, RecoverNextHold, SettleAtReservation, RecoverHold
  <2>2. rows[id].state = "open" BY <2>1 DEF SettleRow
  <2>3. CostAtReservation(id) * Rate <= largest BY <1>1, <2>2, ReservedBounded
  <2>4. BoundedRows(largest, rows') BY <1>1, <2>1, <2>3, SettleBounded
  <2>5. QED BY <1>3, <2>1, <2>4
<1>8. CASE SettleHold
  <2>1. PICK hold \in Ids, n \in 0..MaxCalls :
          /\ ReplyOf[hold] # NoReply
          /\ \E ids \in [1..n -> {id \in Ids : ReplyOf[id] = ReplyOf[hold]}],
                costs \in [1..n -> Costs] :
               /\ \A i, j \in 1..n : ids[i] = ids[j] => i = j
               /\ LET running[i \in 0..n] ==
                        IF i = 0 THEN FlowCost(FlowOf[hold]) ELSE running[i - 1] + costs[i]
                  IN SettleReply(hold, n, ids, running)
    BY <1>8 DEF SettleHold
  <2>2. n \in Nat BY InputsAssumption
  <2>3. PICK ids \in [1..n -> {id \in Ids : ReplyOf[id] = ReplyOf[hold]}],
             costs \in [1..n -> Costs] :
          LET running[i \in 0..n] ==
                IF i = 0 THEN FlowCost(FlowOf[hold]) ELSE running[i - 1] + costs[i]
          IN SettleReply(hold, n, ids, running)
    BY <2>1
  <2>4. ids \in [1..n -> Ids] OBVIOUS
  <2> DEFINE total == LET running[i \in 0..n] ==
                           IF i = 0 THEN FlowCost(FlowOf[hold]) ELSE running[i - 1] + costs[i]
                     IN running
  <2>5. total = CHOOSE g : IsRun(g, n, FlowCost(FlowOf[hold]), costs) BY Zenon DEF IsRun
  <2>6. SettleReply(hold, n, ids, total) BY <2>3
  <2> HIDE DEF total
  <2>7. IsRun(total, n, FlowCost(FlowOf[hold]), costs)
    <3>1. FlowCost(FlowOf[hold]) \in Int BY <1>1, RowSums DEF FlowCost, CostsOf
    <3>2. \A i \in 1..n : costs[i] \in Int
      <4>1. \A i \in 1..n : costs[i] \in Costs BY Zenon
      <4>2. \A c \in Costs : c \in Int BY InputsAssumption
      <4>3. QED BY ONLY <4>1, <4>2
    <3>3. \E g : IsRun(g, n, FlowCost(FlowOf[hold]), costs) BY <2>2, <3>1, <3>2, RunExists
    <3>4. QED BY <2>5, <3>3
  <2>8. BoundedRows(largest, rows') BY <1>1, <2>2, <2>4, <2>6, <2>7, SettleReplyBounded
  <2>9. UNCHANGED recovery BY <2>6 DEF SettleReply
  <2>10. QED BY <1>3, <2>8, <2>9
<1>9. CASE BeginReplyRecovery
  BY <1>1, <1>9 DEF BeginReplyRecovery, BeginRecovery, Recovering, BoundsInv, BoundedRows
<1>10. CASE CommitRecovery
  BY <1>1, <1>10 DEF CommitRecovery, NotRecovering, BoundsInv, BoundedRows
<1>11. CASE AbortRecovery
  BY <1>11 DEF AbortRecovery, NotRecovering, BoundsInv, BoundedRows
<1>12. QED
  BY <1>2, <1>4, <1>5, <1>6, <1>7, <1>8, <1>9, <1>10, <1>11
     DEF Next, UsageNext, KnowledgeNext, vars, usageVars

LEMMA InitBounded == ASSUME NEW largest, Largest(largest), Init PROVE BoundsInv(largest)
<1>1. 0 * Rate = 0 BY UnitsAssumption
<1>2. QED
  BY <1>1 DEF Init, UsageInit, NoRow, NotRecovering, BoundsInv, BoundedRows, BoundedRow, Largest

LEMMA BoundsInductive ==
  ASSUME NEW largest, Largest(largest) PROVE Spec => []BoundsInv(largest)
<1>1. Init => BoundsInv(largest) BY InitBounded
<1>2. IInv /\ BoundsInv(largest) /\ [Next]_vars => BoundsInv(largest)' BY StepBounded
<1>3. QED BY <1>1, <1>2, Inductive, PTL DEF Spec

-----------------------------------------------------------------------------
\* What the calls of a hold may be charged stays within it.

\* What a call may be charged at most, without the unit kept for rounding.
price(call) == IF call.cost = NoCost THEN call.worst ELSE UnitsFor(call.cost)

\* What the calls may be charged together.
spent(calls) == SumFunctionOnSet([i \in DOMAIN calls |-> price(calls[i])], DOMAIN calls)

\* The calls of a hold are within it; one that runs has reported no cost.
PriceOK(s) ==
  s.phase \in Active =>
    /\ \A i \in DOMAIN s.calls : s.calls[i].running => s.calls[i].cost = NoCost
    /\ spent(s.calls) <= s.held

PriceInv == \A r \in Replies : PriceOK(session[r])

\* Every cost can be priced.
CostsPriced == \A cost \in Costs : Priceable(cost)

LEMMA PriceNat ==
  ASSUME CostsPriced, NEW call \in Calls PROVE price(call) \in Nat
<1>1. call.cost # NoCost => Priceable(call.cost) BY AmountsAssumption DEF Calls, CostsPriced
<1>2. Prices \subseteq Nat BY AmountsAssumption, InputsAssumption DEF Prices
<1>3. QED BY <1>1, <1>2, UnitsForNat DEF price, Calls

LEMMA SpentInt ==
  ASSUME CostsPriced, NEW calls \in Seq(Calls)
  PROVE  /\ IsFiniteSet(DOMAIN calls) /\ spent(calls) \in Int
         /\ \A i \in DOMAIN calls : calls[i] \in Calls /\ price(calls[i]) \in Nat
<1>1. DOMAIN calls = 1 .. Len(calls) /\ Len(calls) \in Nat OBVIOUS
<1>2. IsFiniteSet(DOMAIN calls) BY <1>1, FS_Interval
<1>3. \A i \in DOMAIN calls : calls[i] \in Calls BY <1>1
<1>4. \A i \in DOMAIN calls : price(calls[i]) \in Nat BY <1>3, PriceNat
<1>5. QED BY <1>2, <1>3, <1>4, SumInt DEF spent

\* Calls and hold are as they were, or the attempt no longer meters.
LEMMA PriceRests ==
  ASSUME SessionInv, PriceInv, NEW r \in Replies,
         \A q \in Replies \ {r} : session'[q] = session[q],
         \/ session'[r].phase \notin Active
         \/ /\ session[r].phase \in Active
            /\ session'[r].calls = session[r].calls /\ session'[r].held = session[r].held
  PROVE  PriceInv'
<1>1. PriceOK(session'[r]) BY DEF PriceInv, PriceOK
<1>2. QED BY <1>1 DEF PriceInv

LEMMA PriceMoves ==
  ASSUME SessionInv, PriceInv, NEW r \in Replies, NEW t, session' = [session EXCEPT ![r] = t],
         PriceOK(t)
  PROVE  PriceInv'
BY DEF PriceInv, SessionInv

LEMMA ReservesPrices ==
  ASSUME CostsPriced, SessionInv, PriceInv, NEW r \in Replies, Reserves(r)
  PROVE  PriceInv'
<1> DEFINE s == session[r]
           call == NewCall(s.asked.step, s.asked.need)
           t == [s EXCEPT !.calls = Append(@, call), !.asked = NoCall]
<1>0. s \in Sessions /\ SessionOK(r, s) /\ PriceOK(s) BY DEF SessionInv, PriceInv
<1>1. session' = [session EXCEPT ![r] = t] /\ s.asked # NoCall /\ Fits(r)
  BY DEF Reserves, SessionInv
<1>2. t.phase = s.phase /\ t.held = s.held /\ t.calls = Append(s.calls, call)
  BY <1>0 DEF Sessions
<1>3. s.phase \in Active BY <1>0, <1>1 DEF SessionOK, Active
<1>4. /\ s.calls \in Seq(Calls) /\ call \in Calls /\ price(call) = s.asked.need
      /\ call.cost = NoCost /\ s.asked.need \in Nat /\ s.held \in Nat
  <2>1. s.asked \in [step : Nat, need : Prices] BY <1>0, <1>1 DEF Sessions
  <2>2. call.cost = NoCost /\ call.worst = s.asked.need BY DEF NewCall
  <2>3. Prices \subseteq Nat BY AmountsAssumption, InputsAssumption DEF Prices
  <2>4. QED BY <1>0, <1>1, <2>1, <2>2, <2>3, AskedCall DEF Sessions, price
<1>5. PICK n \in Nat : n = Len(s.calls) /\ DOMAIN s.calls = 1 .. n BY <1>4
<1> HIDE DEF call
<1>6. /\ DOMAIN t.calls = 1 .. (n + 1) /\ t.calls[n + 1] = call
      /\ \A i \in 1 .. n : t.calls[i] = s.calls[i]
      /\ t.calls \in Seq(Calls)
  BY <1>2, <1>4, <1>5
<1> HIDE DEF t
<1> DEFINE f == [i \in 1 .. n |-> price(s.calls[i])]
           g == [i \in 1 .. (n + 1) |-> price(t.calls[i])]
           h == [i \in 1 .. n |-> charge(s.calls[i])]
<1>7. IsFiniteSet(1 .. n) /\ \A i \in 1 .. n : price(s.calls[i]) \in Nat
  BY <1>4, <1>5, SpentInt
<1>8. \A i \in 1 .. (n + 1) : price(t.calls[i]) \in Nat BY <1>6, SpentInt
<1>9. spent(s.calls) = SumFunctionOnSet(f, 1 .. n) BY <1>5 DEF spent
<1>10. spent(t.calls) = SumFunctionOnSet(g, 1 .. (n + 1)) BY <1>6 DEF spent
<1>11. consumed(r) = SumFunctionOnSet(h, 1 .. n) BY <1>5 DEF consumed
<1>12. /\ \A i \in 1 .. n : f[i] \in Int /\ g[i] \in Int /\ f[i] = g[i]
       /\ \A i \in 1 .. n : h[i] \in Int /\ f[i] <= h[i]
       /\ g[n + 1] = s.asked.need
       /\ \A i \in 1 .. (n + 1) : g[i] \in Int
  <2>1. \A i \in 1 .. n : charge(s.calls[i]) = price(s.calls[i]) + 1 BY DEF charge, price
  <2>2. \A i \in 1 .. n : f[i] = price(s.calls[i]) /\ h[i] = price(s.calls[i]) + 1 BY <2>1
  <2>3. \A i \in 1 .. n : i \in 1 .. (n + 1) OBVIOUS
  <2>4. n + 1 \in 1 .. (n + 1) OBVIOUS
  <2>5. \A i \in 1 .. (n + 1) : g[i] = price(t.calls[i]) OBVIOUS
  <2>6. call = t.calls[n + 1] /\ price(call) = s.asked.need BY <1>4, <1>6
  <2>7. \A i \in 1 .. n : price(t.calls[i]) = price(s.calls[i]) BY <1>6
  <2> HIDE DEF f, g, h
  <2>8. g[n + 1] = s.asked.need BY <2>4, <2>5, <2>6
  <2>9. \A i \in 1 .. (n + 1) : g[i] \in Int BY <1>8, <2>5
  <2>10. \A i \in 1 .. n : f[i] \in Int /\ g[i] \in Int /\ f[i] = g[i]
    BY <1>7, <2>2, <2>3, <2>5, <2>7
  <2>11. \A i \in 1 .. n : h[i] \in Int /\ f[i] <= h[i] BY <1>7, <2>2
  <2>12. QED BY <2>8, <2>9, <2>10, <2>11
<1> HIDE DEF f, g, h
<1>13. SumFunctionOnSet(f, 1 .. n) \in Int /\ SumFunctionOnSet(h, 1 .. n) \in Int
  BY <1>7, <1>12, SumInt
<1>14. SumFunctionOnSet(f, 1 .. n) <= SumFunctionOnSet(h, 1 .. n) BY <1>7, <1>12, SumOrdered
<1>15. SumFunctionOnSet(f, 1 .. n) = SumFunctionOnSet(g, 1 .. n)
  BY <1>7, <1>12, SumAgrees
<1>16. SumFunctionOnSet(g, 1 .. (n + 1)) = g[n + 1] + SumFunctionOnSet(g, 1 .. n)
  <2>1. PICK m \in Nat : m = n + 1 /\ m \in 1 .. m /\ m - 1 = n OBVIOUS
  <2>2. \A i \in 1 .. m : g[i] \in Int BY <1>12, <2>1
  <2>3. SumFunctionOnSet(g, 1 .. m) = g[m] + SumFunctionOnSet(g, 1 .. (m - 1))
    BY ONLY <2>1, <2>2, m \in Nat, RunAdds
  <2>4. QED BY <2>1, <2>3
<1>17. s.held - SumFunctionOnSet(h, 1 .. n) >= s.asked.need + 1 BY <1>1, <1>11 DEF Fits
<1>18. spent(t.calls) <= t.held
  BY <1>2, <1>4, <1>10, <1>12, <1>13, <1>14, <1>15, <1>16, <1>17, SMTT(60)
<1>19. \A i \in DOMAIN t.calls : t.calls[i].running => t.calls[i].cost = NoCost
  BY <1>0, <1>3, <1>4, <1>5, <1>6 DEF PriceOK
<1>20. PriceOK(t) BY <1>18, <1>19 DEF PriceOK
<1>21. QED BY <1>1, <1>20, PriceMoves

LEMMA AnsweredPrices ==
  ASSUME CostsPriced, SessionInv, PriceInv, NEW r \in Replies, Answered(r)
  PROVE  PriceInv'
<1> DEFINE s == session[r]
<1>0. s \in Sessions /\ PriceOK(s) /\ s.phase \in Active
  BY DEF SessionInv, PriceInv, Answered, Metering, In, Active
<1>1. PICK i \in Running(r), cost \in Usages \cup {NoCost} :
        /\ cost # NoCost => UnitsFor(cost) <= s.calls[i].worst
        /\ session' = [session EXCEPT ![r].calls[i] = [@ EXCEPT !.cost = cost, !.running = FALSE]]
  BY DEF Answered
<1> DEFINE call == [s.calls[i] EXCEPT !.cost = cost, !.running = FALSE]
           t == [s EXCEPT !.calls = [s.calls EXCEPT ![i] = call]]
<1>2. /\ i \in DOMAIN s.calls /\ s.calls \in Seq(Calls) /\ s.calls[i] \in Calls
      /\ s.calls[i].cost = NoCost /\ s.held \in Nat
  BY <1>0, <1>1 DEF Running, PriceOK, Sessions
<1>3. session' = [session EXCEPT ![r] = t] BY <1>0, <1>1 DEF SessionInv, Sessions
<1>4. t.phase = s.phase /\ t.held = s.held /\ t.calls = [s.calls EXCEPT ![i] = call]
  BY <1>0 DEF Sessions
<1>5. /\ call \in Calls /\ call.cost = cost /\ call.worst = s.calls[i].worst /\ ~call.running
  BY <1>1, <1>2 DEF Calls
<1>6. price(call) <= price(s.calls[i])
  <2>1. price(s.calls[i]) = s.calls[i].worst BY <1>2 DEF price
  <2>2. s.calls[i].worst \in Int BY <1>2, <2>1, PriceNat
  <2>3. price(call) = IF cost = NoCost THEN s.calls[i].worst ELSE UnitsFor(cost)
    BY <1>5 DEF price
  <2> HIDE DEF call
  <2>4. QED BY <1>1, <2>1, <2>2, <2>3
<1> HIDE DEF call
<1>7. /\ t.calls \in Seq(Calls) /\ DOMAIN t.calls = DOMAIN s.calls /\ t.calls[i] = call
      /\ \A j \in DOMAIN s.calls : j # i => t.calls[j] = s.calls[j]
  BY <1>2, <1>4, <1>5
<1> HIDE DEF t
<1>8. spent(t.calls) <= spent(s.calls)
  <2> DEFINE D == DOMAIN s.calls
             f == [j \in D |-> price(s.calls[j])]
             g == [j \in D |-> price(t.calls[j])]
  <2>1. IsFiniteSet(D) /\ \A j \in D : price(s.calls[j]) \in Nat BY <1>2, SpentInt
  <2>2. \A j \in D : price(t.calls[j]) \in Nat BY <1>7, SpentInt
  <2>3. \A j \in D : price(t.calls[j]) <= price(s.calls[j]) BY <1>6, <1>7, <2>1
  <2>4. \A j \in D : f[j] = price(s.calls[j]) /\ g[j] = price(t.calls[j]) OBVIOUS
  <2>5. spent(s.calls) = SumFunctionOnSet(f, D) /\ spent(t.calls) = SumFunctionOnSet(g, D)
    BY <1>7 DEF spent
  <2> HIDE DEF D, f, g
  <2>6. \A j \in D : g[j] \in Int /\ f[j] \in Int /\ g[j] <= f[j] BY <2>1, <2>2, <2>3, <2>4
  <2>7. QED BY <2>1, <2>5, <2>6, SumOrdered
<1>9. spent(t.calls) <= t.held
  <2>1. spent(t.calls) \in Int /\ spent(s.calls) \in Int BY <1>2, <1>7, SpentInt
  <2>2. QED BY <1>0, <1>2, <1>4, <1>8, <2>1 DEF PriceOK
<1>10. \A j \in DOMAIN t.calls : t.calls[j].running => t.calls[j].cost = NoCost
  BY <1>0, <1>5, <1>7 DEF PriceOK
<1>11. PriceOK(t) BY <1>9, <1>10 DEF PriceOK
<1>12. QED BY <1>3, <1>11, PriceMoves

\* A hold is opened for no call, or for one it can pay.
LEMMA OpensPrices ==
  ASSUME IInv, SessionInv, PriceInv, NEW r \in Replies, NEW step, NEW need \in Nat, NEW phase,
         NEW calls, calls = <<>> \/ calls = <<NewCall(step, need)>>,
         openHold(r, step, need, phase, calls)
  PROVE  PriceInv'
<1> DEFINE s == session[r]
           held == HoldFor(available, need, Preferred)
           t == Renewed(s, holdId(r, step), held, {s.calls[i].step : i \in DOMAIN s.calls}, calls, phase)
<1>0. s \in Sessions BY DEF SessionInv
<1>1. session' = [session EXCEPT ![r] = t] BY ZenonT(60) DEF openHold, Renewed, SessionInv
<1>2. t.held = held /\ t.calls = calls BY <1>0 DEF Renewed, Sessions
<1>3. Affords(available, need) /\ available \in Balance BY DEF openHold, Hold, IInv, TypeOK
<1>4. held \in Nat /\ need <= held
  <2>1. Preferred \in Nat BY AmountsAssumption, InputsAssumption
  <2>2. held \in Nat BY <1>3, <2>1, HoldForType
  <2>3. QED BY <1>3, <2>1, <2>2, GateAssumption DEF HoldFor, Affords
<1> HIDE DEF t, held
<1>5. spent(calls) <= held /\ \A i \in DOMAIN calls : calls[i].running => calls[i].cost = NoCost
  <2>1. CASE calls = <<>>
    <3>1. DOMAIN calls = {} BY <2>1
    <3>2. spent(calls) = 0 BY <3>1, SumEmpty DEF spent
    <3>3. QED BY <1>4, <3>1, <3>2
  <2>2. CASE calls = <<NewCall(step, need)>>
    <3>1. DOMAIN calls = {1} /\ calls[1] = NewCall(step, need) BY <2>2
    <3>2. calls[1].cost = NoCost /\ price(calls[1]) = need BY <3>1 DEF NewCall, price
    <3> DEFINE f == [i \in DOMAIN calls |-> price(calls[i])]
    <3>3. f[1] = need /\ \A i \in {1} : f[i] \in Int BY <3>1, <3>2
    <3>4. IsFiniteSet({1}) BY FS_Singleton
    <3>5. {1} \ {1} = {} OBVIOUS
    <3> HIDE DEF f
    <3>6. SumFunctionOnSet(f, {1}) = f[1] + SumFunctionOnSet(f, {1} \ {1})
      BY <3>3, <3>4, SumRemoves
    <3>7. SumFunctionOnSet(f, {1} \ {1}) = 0 BY <3>5, SumEmpty
    <3>8. SumFunctionOnSet(f, {1}) = need BY <3>3, <3>6, <3>7
    <3>9. spent(calls) = need BY <3>1, <3>8 DEF spent, f
    <3>10. QED BY <1>4, <3>1, <3>2, <3>9
  <2>3. QED BY <2>1, <2>2
<1>6. PriceOK(t) BY <1>2, <1>5 DEF PriceOK
<1>7. QED BY <1>1, <1>6, PriceMoves

LEMMA StepPrices ==
  ASSUME CostsPriced, IInv, SessionInv, PriceInv, [SessionNext]_<<vars, sessionVars>>
  PROVE  PriceInv'
<1>1. CASE UNCHANGED sessionVars BY <1>1 DEF sessionVars, PriceInv
<1>2. ASSUME NEW r \in Replies, SessionStep(r) PROVE PriceInv'
  <2> DEFINE s == session[r]
  <2>0. s \in Sessions /\ SessionOK(r, s) /\ session \in [Replies -> Sessions]
    BY DEF SessionInv
  <2>1. CASE RecoverNext(r) BY <1>1, <2>1 DEF RecoverNext
  <2>2. CASE \/ Claim(r) \/ StartRecovers(r) \/ StartRecovered(r) \/ StartFails(r)
             \/ Ends(r) \/ EndRefused(r) \/ Crash(r)
    <3>1. /\ \A q \in Replies \ {r} : session'[q] = session[q]
          /\ session'[r].phase \in {"starting", "recovering", "opening", "ended", "refused", "crashed"}
      <4>1. CASE Claim(r) \/ StartRecovers(r) BY <2>0, <4>1 DEF Claim, StartRecovers, Sessions
      <4>2. CASE StartRecovered(r) \/ StartFails(r)
        BY <2>0, <4>2 DEF StartRecovered, StartFails, Sessions
      <4>3. CASE Ends(r) BY <2>0, <4>3 DEF Ends, Sessions
      <4>4. CASE EndRefused(r) BY <2>0, <4>4 DEF EndRefused, Sessions
      <4>5. CASE Crash(r) BY <2>0, <4>5 DEF Crash, Idle
      <4>6. QED BY <2>2, <4>1, <4>2, <4>3, <4>4, <4>5
    <3>2. QED BY <3>1, PriceRests DEF Active
  <2>3. CASE \/ Asks(r) \/ HelperAsks(r) \/ TopUpSettles(r) \/ TopUpRefused(r)
             \/ RunsTools(r) \/ ToolsDone(r) \/ CheckpointSettles(r) \/ CheckpointRefused(r)
    <3>1. s.phase \in Active
      BY <2>0, <2>3
         DEF Asks, HelperAsks, TopUpSettles, TopUpRefused, TopUp, RunsTools, ToolsDone,
             CheckpointSettles, CheckpointRefused, Checkpoint, In, SessionOK, Active
    <3>2. /\ \A q \in Replies \ {r} : session'[q] = session[q]
          /\ session'[r].calls = s.calls /\ session'[r].held = s.held
      <4>1. CASE Asks(r) \/ HelperAsks(r)
        <5>1. PICK step, quote : Asking(r, step, quote) BY <4>1 DEF Asks, HelperAsks
        <5>2. QED BY <2>0, <5>1 DEF Asking, Sessions
      <4>2. CASE TopUpSettles(r) \/ CheckpointSettles(r)
        BY <2>0, <4>2 DEF TopUpSettles, CheckpointSettles, Sessions
      <4>3. CASE TopUpRefused(r) BY <2>0, <4>3 DEF TopUpRefused, Sessions
      <4>4. CASE RunsTools(r) \/ ToolsDone(r) \/ CheckpointRefused(r)
        BY <2>0, <4>4 DEF RunsTools, ToolsDone, CheckpointRefused, Sessions
      <4>5. QED BY <2>3, <4>1, <4>2, <4>3, <4>4
    <3>3. QED BY <3>1, <3>2, PriceRests
  <2>4. Minimum \in Nat BY AmountsAssumption, InputsAssumption
  <2>5. CASE StartOpens(r)
    <3>1. openHold(r, 0, Minimum, "ready", <<>>) BY <2>5 DEF StartOpens
    <3>2. QED BY <2>4, <3>1, OpensPrices
  <2>6. CASE CheckpointOpens(r)
    <3>1. openHold(r, s.next, Minimum, "ready", <<>>) BY <2>6 DEF CheckpointOpens
    <3>2. QED BY <2>4, <3>1, OpensPrices
  <2>7. CASE TopUpOpens(r)
    <3>1. s.asked # NoCall BY <2>7 DEF TopUpOpens
    <3>2. PICK step, need, calls :
            step = s.asked.step /\ need = s.asked.need /\ calls = <<NewCall(step, need)>>
      OBVIOUS
    <3>3. need \in Nat
      BY <3>1, <3>2, AskedCall, AmountsAssumption, InputsAssumption DEF Prices
    <3>4. openHold(r, step, need, s.phase, calls) BY <2>7, <3>2 DEF TopUpOpens
    <3>5. QED BY <3>2, <3>3, <3>4, OpensPrices
  <2>8. QED
    BY <1>2, <2>1, <2>2, <2>3, <2>5, <2>6, <2>7, ReservesPrices, AnsweredPrices DEF SessionStep
<1>3. QED BY <1>1, <1>2 DEF SessionNext, vars, sessionVars

LEMMA InitPrices == SessionInit => PriceInv
  BY DEF SessionInit, PriceInv, PriceOK, Idle, Active

-----------------------------------------------------------------------------
\* There is room in the columns for what is due.

(* All rows of a workspace can be summed up: with the costs and amounts the *)
(* ledgers meet at most `largest' units each, what any flow has cost and one *)
(* more hold stay below some whole amount that a column takes.             *)
RoomFor(Whole, largest, top) ==
  /\ Largest(largest)
  /\ top \in Whole
  /\ (Cardinality(Ids) + 1) * largest <= top
  /\ top <= MaxUnits

RoomForAll(Whole) == \E largest, top : RoomFor(Whole, largest, top)

LEMMA RoomPrices ==
  ASSUME NEW Whole, NEW largest, NEW top, RoomFor(Whole, largest, top), Whole \subseteq Int
  PROVE  /\ CostsPriced
         /\ Cardinality(Ids) \in Nat /\ Cardinality(Ids) * largest \in Nat
         /\ (Cardinality(Ids) + 1) * largest = Cardinality(Ids) * largest + largest
<1>1. PICK count \in Nat : count = Cardinality(Ids) BY UsageAssumption, FS_CardinalityType
<1>2. (count + 1) * largest = count * largest + 1 * largest BY Distributes DEF RoomFor, Largest
<1>3. 1 * largest = largest /\ count * largest \in Nat BY DEF RoomFor, Largest
<1>4. largest <= MaxUnits
  BY <1>1, <1>2, <1>3, UnitsAssumption DEF RoomFor, Largest
<1>5. ASSUME NEW cost \in Costs PROVE Priceable(cost)
  <2>1. cost \in Nat /\ cost * Rate \in Nat BY InputsAssumption, UnitsAssumption
  <2>2. cost * Rate <= largest BY DEF RoomFor, Largest
  <2>3. PICK p \in Nat : p = cost * Rate BY <2>1
  <2>4. p \in Units
    <3>1. p <= largest /\ largest \in Nat BY <2>2, <2>3 DEF RoomFor, Largest
    <3>2. QED BY ONLY <1>4, <3>1, p \in Nat, UnitsAssumption DEF Units
  <2>5. QED BY <2>1, <2>3, <2>4 DEF Priceable
<1>6. QED BY <1>1, <1>2, <1>3, <1>5 DEF CostsPriced

\* What a flow has cost is at most what all rows may.
LEMMA FlowBounded ==
  ASSUME NEW largest, Largest(largest), rows \in [Ids -> Row], BoundedRows(largest, rows), NEW flow
  PROVE  /\ FlowCost(flow) \in Nat
         /\ FlowCost(flow) * Rate <= Cardinality(Ids) * largest
<1> DEFINE S == FlowIds(flow)
           f == CostsOf(rows)
           g == [id \in S |-> largest]
<1>1. IsFiniteSet(S) /\ S \subseteq Ids BY FlowIdsFinite
<1>2. \A id \in S : f[id] \in Nat /\ f[id] * Rate <= largest
  <2>1. \A id \in S : f[id] = rows[id].cost BY <1>1 DEF CostsOf
  <2>2. QED BY <1>1, <2>1 DEF Row, BoundedRows, BoundedRow
<1>3. largest \in Nat /\ \A id \in S : g[id] = largest BY DEF Largest
<1>4. FlowCost(flow) = SumFunctionOnSet(f, S) BY DEF FlowCost, CostsOf
<1>5. SumFunctionOnSet(g, S) = Cardinality(S) * largest
  <2>1. largest \in Int BY <1>3
  <2> HIDE DEF S
  <2>2. QED BY <1>1, <2>1, SumConstant
<1> HIDE DEF S, f, g
<1>6. SumFunctionOnSet(f, S) \in Nat BY <1>1, <1>2, SumNat
<1>7. Scaled(f, g, Rate, S)
  BY <1>1, <1>2, <1>3, UnitsAssumption DEF Scaled
<1>8. SumFunctionOnSet(f, S) * Rate <= SumFunctionOnSet(g, S) BY <1>7, SumScaled
<1>9. Cardinality(S) * largest <= Cardinality(Ids) * largest
  <2>1. Cardinality(S) <= Cardinality(Ids) /\ Cardinality(S) \in Nat /\ Cardinality(Ids) \in Nat
    BY <1>1, UsageAssumption, FS_Subset, FS_CardinalityType
  <2>2. PICK m, n \in Nat : m = Cardinality(S) /\ n = Cardinality(Ids) BY <2>1
  <2>3. m * largest <= n * largest BY <1>3, <2>1, <2>2, Ordered
  <2>4. QED BY <2>2, <2>3
<1>10. QED
  <2>1. PICK a, b, c : /\ a = FlowCost(flow) * Rate /\ b = Cardinality(S) * largest
                       /\ c = Cardinality(Ids) * largest
    OBVIOUS
  <2>2. a \in Int BY <1>4, <1>6, <2>1, UnitsAssumption
  <2>3. b \in Int /\ c \in Int
    BY <1>1, <1>3, <2>1, UsageAssumption, FS_CardinalityType
  <2>4. a <= b /\ b <= c BY <1>4, <1>5, <1>8, <1>9, <2>1
  <2>5. a <= c BY <2>2, <2>3, <2>4
  <2>6. QED BY <1>4, <1>6, <2>1, <2>5

\* The calls of a hold cost no more than they may be charged.
LEMMA CallsWithin ==
  ASSUME CostsPriced, SessionInv, PriceInv, NEW r \in Replies, session[r].phase \in Active
  PROVE  LET n == Len(session[r].calls)
             k(i) == SumFunctionOnSet(callCosts(r), 1 .. i)
         IN /\ \A i \in 0 .. n : k(i) \in Nat /\ k(i) <= k(n)
            /\ k(n) * Rate <= spent(session[r].calls)
            /\ spent(session[r].calls) <= session[r].held
<1> DEFINE s == session[r]
           f == callCosts(r)
           g == [i \in DOMAIN s.calls |-> price(s.calls[i])]
<1>0. s \in Sessions /\ PriceOK(s) BY DEF SessionInv, PriceInv
<1>1. s.calls \in Seq(Calls) /\ s.held \in Nat BY <1>0 DEF Sessions
<1>2. PICK n \in Nat : n = Len(s.calls) /\ DOMAIN s.calls = 1 .. n BY <1>1
<1>3. \A i \in 1 .. n : s.calls[i] \in Calls /\ price(s.calls[i]) \in Nat BY <1>1, <1>2, SpentInt
<1>4. ASSUME NEW call \in Calls
      PROVE  costOf(call) \in Nat /\ costOf(call) * Rate <= price(call)
  <2>1. costOf(call) \in Nat BY CostsKnown, InputsAssumption
  <2>2. CASE call.cost = NoCost
    <3>1. call.worst \in Nat BY AmountsAssumption, InputsAssumption DEF Calls, Prices
    <3>2. (call.worst \div Rate) * Rate <= call.worst BY <3>1, UnitsAssumption
    <3>3. QED BY <2>1, <2>2, <3>2 DEF costOf, price
  <2>3. CASE call.cost # NoCost
    <3>1. call.cost * Rate \in Units BY <2>3, AmountsAssumption DEF Calls, CostsPriced, Priceable
    <3>2. call.cost * Rate <= Round[call.cost * Rate] BY <3>1, PricingAssumption DEF PricingContract
    <3>3. QED BY <2>1, <2>3, <3>2 DEF costOf, price, UnitsFor
  <2>4. QED BY <2>2, <2>3
<1>5. \A i \in 1 .. n : f[i] = costOf(s.calls[i]) /\ g[i] = price(s.calls[i])
  BY <1>2 DEF callCosts
<1>6. spent(s.calls) = SumFunctionOnSet(g, 1 .. n) /\ spent(s.calls) <= s.held
  BY <1>0, <1>2 DEF PriceOK, spent
<1> HIDE DEF f, g
<1>7. \A i \in 1 .. n : f[i] \in Nat /\ g[i] \in Nat /\ f[i] * Rate <= g[i] BY <1>3, <1>4, <1>5
<1>8. IsFiniteSet(1 .. n) BY FS_Interval
<1>9. Scaled(f, g, Rate, 1 .. n) BY <1>7, <1>8, UnitsAssumption DEF Scaled
<1>10. SumFunctionOnSet(f, 1 .. n) * Rate <= SumFunctionOnSet(g, 1 .. n) BY <1>9, SumScaled
<1>11. ASSUME NEW i \in 0 .. n
       PROVE  /\ SumFunctionOnSet(f, 1 .. i) \in Nat
              /\ SumFunctionOnSet(f, 1 .. i) <= SumFunctionOnSet(f, 1 .. n)
  <2>1. 1 .. i \in SUBSET (1 .. n) OBVIOUS
  <2>2. IsFiniteSet(1 .. i) BY FS_Interval
  <2>3. \A j \in 1 .. n : f[j] \in Nat BY <1>7
  <2>4. \A j \in 1 .. i : f[j] \in Nat BY <2>1, <2>3
  <2>5. SumFunctionOnSet(f, 1 .. i) \in Nat BY <2>2, <2>4, SumNat
  <2>6. SumFunctionOnSet(f, 1 .. i) <= SumFunctionOnSet(f, 1 .. n)
    BY <1>8, <2>1, <2>3, SumSubset
  <2>7. QED BY <2>5, <2>6
<1>12. QED BY <1>2, <1>6, <1>10, <1>11 DEF f

\* Calls are charged whole amounts.
LEMMA SpentWhole ==
  ASSUME NEW Whole, PricesUpTo(Whole), CostsPriced, NEW calls \in Seq(Calls)
  PROVE  spent(calls) \in Whole
<1> DEFINE f == [i \in DOMAIN calls |-> price(calls[i])]
<1>1. IsFiniteSet(DOMAIN calls) /\ \A i \in DOMAIN calls : calls[i] \in Calls BY SpentInt
<1>2. ASSUME NEW call \in Calls PROVE price(call) \in Whole
  <2>1. CASE call.cost = NoCost
    <3>1. call.worst \in Amounts BY AmountsAssumption DEF Calls, Prices
    <3>2. QED BY <2>1, <3>1 DEF price, PricesUpTo
  <2>2. CASE call.cost # NoCost
    <3>1. Priceable(call.cost) BY <2>2, AmountsAssumption DEF Calls, CostsPriced
    <3>2. QED BY <2>2, <3>1, WholePrice DEF price
  <2>3. QED BY <2>1, <2>2
<1>3. Whole \subseteq Int /\ \A v, w \in Whole : v + w \in Whole BY DEF PricesUpTo
<1>4. 0 \in Whole
  <2>1. 0 \in Units /\ Round[0] = 0 BY PricingAssumption, UnitsAssumption DEF PricingContract, Units
  <2>2. QED BY <2>1 DEF PricesUpTo
<1>5. \A i \in DOMAIN calls : f[i] \in Whole BY <1>1, <1>2
<1> HIDE DEF f
<1>6. SumFunctionOnSet(f, DOMAIN calls) \in Whole BY <1>1, <1>3, <1>4, <1>5, SumClosed
<1>7. QED BY <1>6 DEF f, spent

LEMMA Accepts ==
  ASSUME NEW Whole, PricesUpTo(Whole), NEW largest, NEW top, RoomFor(Whole, largest, top),
         IInv, AccountsInv, BoundsInv(largest), SessionInv, RecordsInv, PriceInv,
         NEW r \in Replies, Metering(r), ~session[r].locked, HoldOpen(r), ~Renamed(r)
  PROVE  Accepted(r)
<1> DEFINE s == session[r]
           n == Len(s.calls)
           F == FlowCost(Conversation)
           K(i) == SumFunctionOnSet(callCosts(r), 1 .. i)
           paid == FlowCharged(Conversation)
           due == spent(s.calls)
           count == Cardinality(Ids)
<1>0. s \in Sessions /\ SessionOK(r, s) /\ MemoryOK(r, s) /\ s.phase \in Active
  BY DEF SessionInv, RecordsInv, Metering, In, Active
<1>1. /\ s.hold \in Own(r) /\ s.hold # NoHold /\ s.hold[3] = 0
      /\ rows[s.hold].reserved = s.held /\ rows[s.hold].state = "open"
  <2>1. s.hold \in Own(r) /\ s.hold # NoHold BY <1>0, OwnHold
  <2>2. rows[s.hold].state = "open" BY DEF HoldOpen
  <2>3. s.hold[3] = 0 BY <1>0, <2>1 DEF MemoryOK, Renamed
  <2>4. RowOK(r, s, s.hold, rows[s.hold], Overtaken(r)) BY <2>1 DEF RecordsInv, RowsOK
  <2>5. QED BY <1>0, <2>1, <2>2, <2>3, <2>4 DEF RowOK
<1>2. \A i \in DOMAIN s.calls :
        LET id == callIds(r)[i]
        IN IF id = s.hold THEN i = 1 ELSE rows[id].state = "none"
  <2>1. SUFFICES ASSUME NEW i \in DOMAIN s.calls
                 PROVE  IF callIds(r)[i] = s.hold THEN i = 1 ELSE rows[callIds(r)[i]].state = "none"
    OBVIOUS
  <2>2. PICK id : id = callIds(r)[i] /\ id = chatId(r, s.calls[i].step) BY DEF callIds
  <2>3. CASE id = s.hold
    <3>1. s.calls # <<>> BY DEF Sessions
    <3>2. 1 \in DOMAIN s.calls BY <1>0, <3>1, SeqStarts DEF Sessions
    <3>3. s.hold[2] = s.calls[1].step BY <1>0, <3>1 DEF MemoryOK
    <3>4. s.calls[i].step = s.calls[1].step BY <2>2, <2>3, <3>3 DEF chatId
    <3>5. i = 1 BY <1>0, <3>2, <3>4 DEF SessionOK
    <3>6. QED BY <2>2, <2>3, <3>5
  <2>4. CASE id # s.hold
    <3>1. id \in Own(r) BY <2>2, CallsOwn DEF CallRows
    <3>2. id \notin PastIds(r, s) BY <1>0, <2>2, IdsApart DEF MemoryOK, PastIds
    <3>3. RowOK(r, s, id, rows[id], Overtaken(r)) BY <3>1 DEF RecordsInv, RowsOK
    <3>4. rows[id].state = "none" BY <1>0, <1>1, <2>4, <3>2, <3>3 DEF RowOK
    <3>5. QED BY <2>2, <2>4, <3>4
  <2>5. QED BY <2>3, <2>4
<1>3. n \in Nat /\ DOMAIN s.calls = 1 .. n /\ s.held \in Nat BY <1>0 DEF Sessions
<1>4. /\ IsRun(costAfter(r), n, F, callCosts(r))
      /\ \A i \in 1 .. n : callCosts(r)[i] \in Nat
  BY CostsRun
<1>5. Largest(largest) /\ largest \in Nat /\ top \in Whole /\ top \in Int /\ top <= MaxUnits
      /\ CostsPriced /\ count \in Nat /\ count * largest \in Nat
      /\ count * largest + largest <= top
  <2>1. Whole \subseteq Int BY DEF PricesUpTo
  <2>2. QED BY <2>1, RoomPrices DEF RoomFor, Largest
<1>6. F \in Nat /\ F * Rate <= count * largest
  BY <1>5, FlowBounded DEF BoundsInv, IInv, TypeOK
<1>7. \A i \in 0 .. n : K(i) \in Nat /\ K(i) <= K(n)
  BY <1>0, <1>5, CallsWithin
<1>8. /\ K(n) * Rate <= due /\ due <= s.held
      /\ due \in Whole /\ due \in Int
  BY <1>0, <1>5, CallsWithin, SpentWhole DEF PricesUpTo, Sessions
<1>9. s.held <= largest BY <1>1 DEF BoundsInv, BoundedRows, BoundedRow, Own
<1>10. paid = UnitsFor(F) /\ Priceable(F) /\ paid \in Whole
  BY ConversationFlow, FlowIsPriced, WholePrice
<1>11. \A i \in 0 .. n : costAfter(r)[i] = F + K(i)
  <2>1. PICK f, g, c, m : f = callCosts(r) /\ g = costAfter(r) /\ c = F /\ m = n OBVIOUS
  <2>2. m \in Nat /\ c \in Int /\ \A i \in 1 .. m : f[i] \in Int BY <1>3, <1>4, <1>6, <2>1
  <2>3. IsRun(g, m, c, f) BY <1>4, <2>1
  <2>4. \A i \in 0 .. m : g[i] = c + SumFunctionOnSet(f, 1 .. i) BY ONLY <2>2, <2>3, RunSums
  <2>5. QED BY <2>1, <2>4
<1> HIDE DEF n, F, K, paid, due, count
<1>12. ASSUME NEW i \in 0 .. n
       PROVE  /\ (F + K(i)) \in Nat /\ (F + K(i)) * Rate \in Nat
              /\ (F + K(i)) * Rate <= F * Rate + due
              /\ (F + K(i)) * Rate <= top
  <2>1. PICK f, k, all \in Nat : f = F /\ k = K(i) /\ all = K(n) /\ k <= all
    <3>1. n \in 0 .. n BY <1>3
    <3>2. QED BY <1>6, <1>7, <3>1
  <2>2. (f + k) * Rate = f * Rate + k * Rate BY UnitsAssumption, Distributes
  <2>3. k * Rate <= all * Rate BY <2>1, UnitsAssumption, Ordered
  <2>4. f * Rate \in Nat /\ k * Rate \in Nat /\ all * Rate \in Nat /\ (f + k) * Rate \in Nat
    BY UnitsAssumption
  <2>5. PICK a, b, c, d \in Nat : a = f * Rate /\ b = k * Rate /\ c = all * Rate
                                  /\ d = (f + k) * Rate
    BY <2>4
  <2>6. d = a + b /\ b <= c /\ c <= due /\ a <= count * largest
    BY <1>6, <1>8, <2>1, <2>2, <2>3, <2>5
  <2>7. d <= a + due BY <1>8, <2>6
  <2>8. d <= top BY <1>3, <1>5, <1>6, <1>8, <1>9, <2>6
  <2>9. QED BY <2>1, <2>5, <2>7, <2>8
<1>13. ASSUME NEW i \in 0 .. n PROVE Priceable(costAfter(r)[i])
  <2>1. (F + K(i)) * Rate \in Units
    BY ONLY <1>5, <1>12, UnitsAssumption, i \in 0 .. n DEF Units
  <2>2. QED BY <1>11, <1>12, <2>1 DEF Priceable
<1>14. TotalsParse(Conversation)
  <2>1. PICK u : u = F * Rate OBVIOUS
  <2>2. u \in Units /\ F <= u
    <3>1. u \in Units BY <1>10, <2>1 DEF Priceable
    <3>2. 1 \in Int /\ 1 <= Rate BY UnitsAssumption
    <3>3. 1 * F <= Rate * F BY <1>6, <3>2, UnitsAssumption, Ordered
    <3>4. 1 * F = F /\ Rate * F = F * Rate BY <1>6, UnitsAssumption
    <3>5. QED BY <2>1, <3>1, <3>3, <3>4
  <2>3. F \in Units BY <1>6, <2>2, UnitsAssumption DEF Units
  <2>4. u <= top BY <1>5, <1>6, <2>1, <2>2, UnitsAssumption DEF Units
  <2>5. Round[u] <= top /\ Round[u] \in Nat BY <1>5, <2>2, <2>4, RoundNat DEF PricesUpTo
  <2>6. paid \in Units BY <1>5, <1>10, <2>1, <2>5, UnitsAssumption DEF UnitsFor, Units
  <2>7. QED BY <2>3, <2>6 DEF TotalsParse, F, paid
<1>15. Due(r) <= s.held
  <2>1. CASE s.calls = <<>> BY <1>3, <2>1 DEF Due
  <2>2. CASE s.calls # <<>>
    <3>1. n \in 0 .. n BY <1>3
    <3>2. Due(r) = UnitsFor(F + K(n)) - paid BY <1>11, <2>2, <3>1 DEF Due, n, paid
    <3>3. PICK u : u = (F + K(n)) * Rate OBVIOUS
    <3>4. u \in Units BY <1>11, <1>13, <3>1, <3>3 DEF Priceable
    <3>5. F * Rate \in Units /\ F * Rate <= paid /\ paid \in Nat
      BY <1>10, PricingAssumption DEF Priceable, UnitsFor, PricingContract
    <3>6. paid + due \in Whole BY <1>8, <1>10 DEF PricesUpTo
    <3>7. u <= paid + due
      <4>1. PICK a \in Int : a = F * Rate BY <1>6, UnitsAssumption
      <4>2. u <= a + due /\ a <= paid BY <1>12, <3>1, <3>3, <3>5, <4>1
      <4>3. u \in Int BY <3>4, UnitsAssumption DEF Units
      <4>4. QED BY ONLY <1>8, <3>5, <4>2, <4>3, a \in Int
    <3>8. Round[u] <= paid + due BY <3>4, <3>6, <3>7 DEF PricesUpTo
    <3>9. Round[u] \in Nat BY <3>4, RoundNat
    <3>10. Due(r) = Round[u] - paid BY <3>2, <3>3 DEF UnitsFor
    <3>11. QED BY <1>3, <1>8, <3>5, <3>8, <3>9, <3>10
  <2>3. QED BY <2>1, <2>2
<1>16. \A i \in DOMAIN s.calls : Priceable(costAfter(r)[i]) BY <1>3, <1>13
<1>17. QED BY <1>1, <1>2, <1>14, <1>15, <1>16 DEF Accepted

LEMMA PricesInductive ==
  ASSUME CostsPriced PROVE SessionSpec => []PriceInv
<1>1. SessionInit => PriceInv BY InitPrices
<1>2. IInv /\ SessionInv /\ PriceInv /\ [SessionNext]_<<vars, sessionVars>> => PriceInv'
  BY StepPrices
<1>3. QED BY <1>1, <1>2, SessionInductive, PTL DEF SessionSpec

-----------------------------------------------------------------------------
(* The sessions use the ledgers as CreditLedger says: every transaction of *)
(* reply-session.ts is one of the ledger's operations, on rows that belong *)
(* to its attempt, however calls, top-ups, crashes and late attempts meet. *)
THEOREM SessionsKeepLedger == SessionSpec => LedgerKept
<1>1. SessionInit => Init BY DEF SessionInit
<1>2. SessionInv /\ [SessionNext]_<<vars, sessionVars>> => [Next]_vars BY SessionStepRefines
<1>3. QED BY <1>1, <1>2, SessionInductive, PTL DEF SessionSpec, LedgerKept, Spec

(* The start of an attempt settles only holds that other attempts of its   *)
(* conversation left open, also while those attempts still run.            *)
THEOREM SessionsRecoverOthers == SessionSpec => []RecoverySparesOthers
  BY SessionsKeepLedger, RecoveryIsolated, PTL DEF LedgerKept

(* No reply overdraws the account, and every charge is an amount.          *)
THEOREM SessionsTypeOK == SessionSpec => []TypeOK
  BY SessionsKeepLedger, LedgerTypeOK, PTL DEF LedgerKept

(* However attempts of the turn overlap, crash and recover each other's    *)
(* holds, what left the account is what the rows reserve and charge.       *)
THEOREM SessionsConserve == SessionSpec => []FundsConserved
  BY SessionsKeepLedger, LedgerConserves, PTL DEF LedgerKept

(* Attempts that overlap charge the reply as one account of its costs.     *)
THEOREM SessionsChargeAsOne == SessionSpec => []FlowsChargedAsOne
  BY SessionsKeepLedger, LedgerChargesAsOne, PTL DEF LedgerKept

(* Each call is paid for once, however calls, top-ups, crashes and later   *)
(* attempts meet: a call in memory has no row but its hold's, the calls of *)
(* earlier holds have theirs, and an attempt that ended left no hold open  *)
(* and all its last calls in the ledger at what they cost, unless a later  *)
(* attempt got past its claim and settled the hold for them.               *)
THEOREM CallsAreRecorded == SessionSpec => []CallsRecorded
<1>1. IInv /\ SessionInv /\ RecordsInv => CallsRecorded BY RecordsImply
<1>2. QED BY <1>1, RecordsInductive, PTL

(* Nothing an attempt metered can make its settlement fail: what its calls *)
(* would be charged now parses, is within its open hold, and their rows    *)
(* can be written, also when the balance capped the hold.  For prices and  *)
(* amounts asked for in whole credits (PricesUpTo), and as long as the sum *)
(* of all rows fits the column of one amount.                              *)
THEOREM SettlementsAreAccepted ==
  ASSUME NEW Whole, PricesUpTo(Whole), RoomForAll(Whole)
  PROVE  SessionSpec => []SettlementsAccepted
<1>1. PICK largest, top : RoomFor(Whole, largest, top) BY DEF RoomForAll
<1>2. CostsPriced /\ Largest(largest)
  <2>1. Whole \subseteq Int BY DEF PricesUpTo
  <2>2. QED BY <1>1, <2>1, RoomPrices DEF RoomFor
<1>3. Spec => [](ReservationsSettle /\ IInv /\ AccountsInv /\ BoundsInv(largest))
  <2>1. Spec => []BoundsInv(largest) BY <1>2, BoundsInductive
  <2>2. Spec => []ReservationsSettle BY LedgerReservationsSettle
  <2>3. QED BY <2>1, <2>2, Inductive, AccountsInductive, PTL
<1>4. SessionSpec => []PriceInv BY <1>2, PricesInductive
<1>5. ReservationsSettle /\ IInv /\ AccountsInv /\ BoundsInv(largest)
        /\ SessionInv /\ RecordsInv /\ PriceInv => SettlementsAccepted
  BY <1>1, Accepts DEF SettlementsAccepted
<1>6. QED BY <1>3, <1>4, <1>5, RecordsInductive, SessionsKeepLedger, PTL DEF LedgerKept
=============================================================================
