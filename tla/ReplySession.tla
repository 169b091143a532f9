---------------------------- MODULE ReplySession ----------------------------
(***************************************************************************)
(* The attempts that write one conversation's replies, as they meter their *)
(* model calls (apps/worker/src/reply-session.ts), on the workspace's      *)
(* ledgers.  A session holds credits for the whole reply, counts calls     *)
(* against the hold in memory while models run, and settles the hold with  *)
(* the calls it funded: when a call does not fit, after a round of tools,  *)
(* and at the end.  Sub-agents meter from the same hold at once.           *)
(*                                                                         *)
(* Attempts are numbered as they claim the turn.  `current` holds its      *)
(* lease; an earlier one may go on, not knowing, until a transaction       *)
(* refuses it.  A top-up and a checkpoint settle one hold and open the     *)
(* next in one transaction: `locked` is the credit lock in between, where  *)
(* nothing else moves the account, and what would be refused in the second *)
(* half is refused before the first.                                       *)
(***************************************************************************)
EXTENDS CreditLedger, Sequences

CONSTANTS
  Conversation,   \* the flow of every reply here
  ChatSteps,      \* how many model calls a reply makes itself, by attempt
  Helpers,        \* the steps of its sub-agents' calls, by attempt
  Usages,         \* what providers report a call cost; 0 when they refuse it
  Minimum,        \* the units a reply and a round begin with at least
  Preferred,      \* the units a hold asks for
  NoHold, NoCall

StepsOf(r) == (0 .. ChatSteps[r] - 1) \cup Helpers[r]

chatId(r, step) == <<r, step, 0>>

\* Sub-agents have a step range of their own.
ASSUME StepsAssumption ==
  \A r \in Replies :
    /\ ChatSteps[r] \in Nat \ {0}
    /\ Helpers[r] \subseteq Nat \ (0 .. ChatSteps[r] - 1)
    /\ IsFiniteSet(StepsOf(r)) /\ Cardinality(StepsOf(r)) <= MaxCalls

ASSUME SessionAssumption ==
  /\ IsFiniteSet(Replies) /\ Replies = 1 .. Cardinality(Replies)
  /\ \A r \in Replies : \A step \in StepsOf(r) :
       chatId(r, step) \in Ids /\ ReplyOf[chatId(r, step)] # NoReply
  /\ \A id \in Ids : ReplyOf[id] # NoReply => ReplyOf[id] = id[1] /\ FlowOf[id] = Conversation
  /\ NoHold \notin Ids /\ NoCall \notin [step : Nat, need : Nat]

ASSUME AmountsAssumption ==
  /\ {Minimum, Preferred} \cup {UnitsFor(quote) : quote \in Quotes} \subseteq Amounts
  /\ Usages \cup {UnitsFor(quote) \div Rate : quote \in Quotes} \subseteq Costs

VARIABLES
  current,    \* the attempt that holds the turn's lease, 0 before the first
  session     \* attempt -> what its process has in memory, and where it is

sessionVars == <<current, session>>

\* `asked` waits for its reservation; `past` are the steps of settledCalls.
Idle ==
  [phase |-> "none", hold |-> NoHold, held |-> 0, calls |-> <<>>, past |-> {},
   holds |-> 0, next |-> 0, asked |-> NoCall, locked |-> FALSE]

SessionInit == Init /\ current = 0 /\ session = [r \in Replies |-> Idle]

In(r, phases) == session[r].phase \in phases
Metering(r) == In(r, {"ready", "tools", "saving", "failing"})
Fence(r) == current = r

\* Nobody is between the two halves of a transaction on the account.
Free == Unlocked /\ \A r \in Replies : ~session[r].locked /\ ~In(r, {"opening"})

NewCall(step, worst) == [step |-> step, worst |-> worst, cost |-> NoCost, running |-> TRUE]
Running(r) == {i \in DOMAIN session[r].calls : session[r].calls[i].running}

\* Mutant: a call counts once its usage is known.
charge_WhenKnown(call) == IF call.cost = NoCost THEN 1 ELSE UnitsFor(call.cost) + 1

\* What a call will be charged at most.
charge(call) == (IF call.cost = NoCost THEN call.worst ELSE UnitsFor(call.cost)) + 1

consumed(r) ==
  LET calls == session[r].calls
  IN SumFunctionOnSet([i \in DOMAIN calls |-> charge(calls[i])], DOMAIN calls)

Fits(r) == session[r].held - consumed(r) >= session[r].asked.need + 1

-----------------------------------------------------------------------------
\* The settlement of a hold with its calls.

\* A call of unknown usage costs what its reservation is the price of.
costOf(call) == IF call.cost = NoCost THEN call.worst \div Rate ELSE call.cost

callIds(r) == [i \in DOMAIN session[r].calls |-> chatId(r, session[r].calls[i].step)]

callCosts(r) == [i \in DOMAIN session[r].calls |-> costOf(session[r].calls[i])]

costAfter(r) ==
  LET run[i \in 0 .. Len(session[r].calls)] ==
        IF i = 0 THEN FlowCost(Conversation) ELSE run[i - 1] + callCosts(r)[i]
  IN run

HoldOpen(r) == session[r].hold # NoHold /\ rows[session[r].hold].state = "open"

Due(r) ==
  IF session[r].calls = <<>> THEN 0
  ELSE UnitsFor(costAfter(r)[Len(session[r].calls)]) - FlowCharged(Conversation)

\* The settlement's amounts parse, it is within the reservation, and the
\* database takes the rows of these calls.
Accepted(r) ==
  /\ TotalsParse(Conversation)
  /\ \A i \in DOMAIN session[r].calls : Priceable(costAfter(r)[i])
  /\ Due(r) <= rows[session[r].hold].reserved
  /\ \A i \in DOMAIN session[r].calls :
       LET id == callIds(r)[i]
       IN IF id = session[r].hold THEN i = 1 ELSE rows[id].state = "none"

\* A hold that recovery or an earlier settlement closed is left alone.
settleHold(r) ==
  IF HoldOpen(r)
  THEN SettleReply(session[r].hold, Len(session[r].calls), callIds(r), costAfter(r))
  ELSE UNCHANGED <<rows, available, recovery>>

Refund(r) == IF HoldOpen(r) THEN rows[session[r].hold].reserved - Due(r) ELSE 0

\* A hold that funded no call keeps its row.
holdId(r, step) ==
  IF session[r].calls = <<>> /\ session[r].hold = chatId(r, step)
  THEN <<r, step, session[r].holds>>
  ELSE chatId(r, step)

\* The hold can be settled and the next one opened.
Replaceable(r, step, need) ==
  /\ Fence(r)
  /\ HoldOpen(r) => Accepted(r)
  /\ rows[holdId(r, step)].state = "none"
  /\ Affords(Debited(available, -Refund(r)), need)

\* The ids an instance names bound how many holds of one step there are.
Named(r, step) == holdId(r, step) \in Ids

openHold(r, step, need, phase, calls) ==
  /\ Hold(holdId(r, step), need, Preferred)
  /\ session' = [session EXCEPT
       ![r].hold = holdId(r, step), ![r].held = HoldFor(available, need, Preferred),
       ![r].past = @ \cup {session[r].calls[i].step : i \in DOMAIN session[r].calls},
       ![r].calls = calls, ![r].holds = @ + 1,
       ![r].phase = phase, ![r].asked = NoCall, ![r].locked = FALSE]

-----------------------------------------------------------------------------
\* The start transaction.

Claim(r) ==
  /\ r = current + 1
  /\ current' = r
  /\ session' = [session EXCEPT ![r].phase = "starting"]
  /\ UNCHANGED <<rows, available, recovery>>

StartRecovers(r) ==
  /\ In(r, {"starting"}) /\ Fence(r) /\ Free
  /\ BeginRecovery(Conversation, r)
  /\ session' = [session EXCEPT ![r].phase = "recovering"]
  /\ UNCHANGED current

RecoverNext(r) == In(r, {"recovering"}) /\ RecoverNextHold /\ UNCHANGED sessionVars

StartRecovered(r) ==
  /\ In(r, {"recovering"})
  /\ CommitRecovery
  /\ Affords(available, Minimum)
  /\ session' = [session EXCEPT ![r].phase = "opening"]
  /\ UNCHANGED current

StartOpens(r) ==
  /\ \/ In(r, {"opening"})
     \/ In(r, {"starting"}) /\ Fence(r) /\ Free /\ Abandoned(Conversation, r) = {}
  /\ openHold(r, 0, Minimum, "ready", <<>>)
  /\ UNCHANGED current

\* Whatever fails in it rolls it back.
StartFails(r) ==
  /\ \/ In(r, {"recovering"}) /\ AbortRecovery
     \/ /\ In(r, {"starting"}) /\ Free
        /\ ~Fence(r) \/ ~Affords(available, Minimum)
        /\ UNCHANGED <<rows, available, recovery>>
  /\ session' = [session EXCEPT ![r].phase = "ended"]
  /\ UNCHANGED current

-----------------------------------------------------------------------------
\* Metering: one reservation at a time, calls at once.

Asking(r, step, quote) ==
  /\ session[r].asked = NoCall
  /\ session' = [session EXCEPT ![r].asked = [step |-> step, need |-> UnitsFor(quote)],
                                ![r].next = IF step \in Helpers[r] THEN @ ELSE step + 1]
  /\ UNCHANGED <<current, rows, available, recovery>>

Asks(r) ==
  /\ In(r, {"ready"}) /\ Running(r) = {} /\ session[r].next < ChatSteps[r]
  /\ \E quote \in Quotes : Asking(r, session[r].next, quote)

Metered(r) == session[r].past \cup {session[r].calls[i].step : i \in DOMAIN session[r].calls}

HelperAsks(r) ==
  /\ In(r, {"tools"})
  /\ \E step \in Helpers[r] \ Metered(r), quote \in Quotes : Asking(r, step, quote)

Reserves(r) ==
  /\ session[r].asked # NoCall /\ ~session[r].locked /\ Fits(r)
  /\ session' = [session EXCEPT
       ![r].calls = Append(@, NewCall(session[r].asked.step, session[r].asked.need)),
       ![r].asked = NoCall]
  /\ UNCHANGED <<current, rows, available, recovery>>

TopUp(r) ==
  /\ session[r].asked # NoCall /\ ~session[r].locked /\ ~Fits(r)
  /\ Free /\ Named(r, session[r].asked.step)

TopUpSettles(r) ==
  /\ TopUp(r) /\ Replaceable(r, session[r].asked.step, session[r].asked.need)
  /\ settleHold(r)
  /\ session' = [session EXCEPT ![r].locked = TRUE]
  /\ UNCHANGED current

TopUpOpens(r) ==
  /\ session[r].locked /\ session[r].asked # NoCall
  /\ LET asked == session[r].asked
     IN openHold(r, asked.step, asked.need, session[r].phase, <<NewCall(asked.step, asked.need)>>)
  /\ UNCHANGED current

\* Mutant: the next hold is in memory before its transaction has committed.
TopUpRefused_Forgets(r) ==
  /\ TopUp(r) /\ ~Replaceable(r, session[r].asked.step, session[r].asked.need)
  /\ session' = [session EXCEPT ![r].asked = NoCall, ![r].calls = <<>>,
       ![r].past = Metered(r),
       ![r].phase = IF session[r].asked.step \in Helpers[r] THEN @ ELSE "failing"]
  /\ UNCHANGED <<current, rows, available, recovery>>

\* The caller fails, a sub-agent alone, the chat with its reply; the hold
\* stays for the settlement.
TopUpRefused(r) ==
  /\ TopUp(r) /\ ~Replaceable(r, session[r].asked.step, session[r].asked.need)
  /\ session' = [session EXCEPT ![r].asked = NoCall,
       ![r].phase = IF session[r].asked.step \in Helpers[r] THEN @ ELSE "failing"]
  /\ UNCHANGED <<current, rows, available, recovery>>

\* Usage within the reservation, a refusal, or nothing that can be priced.
Answered(r) ==
  /\ Metering(r)
  /\ \E i \in Running(r) :
       \E cost \in {u \in Usages : UnitsFor(u) <= session[r].calls[i].worst} \cup {NoCost} :
         session' = [session EXCEPT ![r].calls[i] = [@ EXCEPT !.cost = cost, !.running = FALSE]]
  /\ UNCHANGED <<current, rows, available, recovery>>

-----------------------------------------------------------------------------
\* A round of tools, saved in a checkpoint.

Between(r) == session[r].asked = NoCall /\ Running(r) = {}

\* A model call of the chat asks for the tools, and the hold has paid for it.
RunsTools(r) ==
  /\ In(r, {"ready"}) /\ Between(r) /\ session[r].next \in 1 .. ChatSteps[r] - 1
  /\ session[r].calls # <<>>
  /\ session' = [session EXCEPT ![r].phase = "tools"]
  /\ UNCHANGED <<current, rows, available, recovery>>

ToolsDone(r) ==
  /\ In(r, {"tools"}) /\ Between(r)
  /\ session' = [session EXCEPT ![r].phase = "saving"]
  /\ UNCHANGED <<current, rows, available, recovery>>

Checkpoint(r) ==
  In(r, {"saving"}) /\ ~session[r].locked /\ Free /\ Named(r, session[r].next)

CheckpointSettles(r) ==
  /\ Checkpoint(r) /\ Replaceable(r, session[r].next, Minimum)
  /\ settleHold(r)
  /\ session' = [session EXCEPT ![r].locked = TRUE]
  /\ UNCHANGED current

CheckpointOpens(r) ==
  /\ In(r, {"saving"}) /\ session[r].locked
  /\ openHold(r, session[r].next, Minimum, "ready", <<>>)
  /\ UNCHANGED current

CheckpointRefused(r) ==
  /\ Checkpoint(r) /\ ~Replaceable(r, session[r].next, Minimum)
  /\ session' = [session EXCEPT ![r].phase = "failing"]
  /\ UNCHANGED <<current, rows, available, recovery>>

-----------------------------------------------------------------------------
\* The end of an attempt.

\* Its reply is written or failed, or its lease is gone.  The last is
\* settled too, with no look at the lease (settleUnfinished).
Finished(r) ==
  /\ Metering(r) /\ ~session[r].locked /\ Free
  /\ \/ In(r, {"ready"}) /\ Between(r) /\ session[r].next > 0
     \/ In(r, {"failing"})
     \/ ~Fence(r)

Ends(r) ==
  /\ Finished(r)
  /\ HoldOpen(r) => Accepted(r)
  /\ settleHold(r)
  /\ session' = [session EXCEPT ![r].phase = "ended", ![r].asked = NoCall]
  /\ UNCHANGED current

\* The write that ends the attempt fails with its settlement.
EndRefused(r) ==
  /\ Finished(r)
  /\ HoldOpen(r) /\ ~Accepted(r)
  /\ session' = [session EXCEPT ![r].phase = "refused", ![r].asked = NoCall]
  /\ UNCHANGED <<current, rows, available, recovery>>

\* The process stops; a transaction it had open is rolled back.
Crash(r) ==
  /\ Metering(r) \/ In(r, {"starting"})
  /\ ~session[r].locked
  /\ session' = [session EXCEPT ![r] = [Idle EXCEPT !.phase = "crashed"]]
  /\ UNCHANGED <<current, rows, available, recovery>>

SessionStep(r) ==
  \/ Claim(r) \/ StartRecovers(r) \/ RecoverNext(r) \/ StartRecovered(r) \/ StartOpens(r)
  \/ StartFails(r)
  \/ Asks(r) \/ HelperAsks(r) \/ Reserves(r) \/ TopUpSettles(r) \/ TopUpOpens(r)
  \/ TopUpRefused(r) \/ Answered(r)
  \/ RunsTools(r) \/ ToolsDone(r)
  \/ CheckpointSettles(r) \/ CheckpointOpens(r) \/ CheckpointRefused(r)
  \/ Ends(r) \/ EndRefused(r) \/ Crash(r)

\* Calls of the conversation that no reply makes, such as its title.
CallStep == (ReserveCall \/ SettleCall \/ SettleUnknownCall) /\ UNCHANGED knowledgeVars

\* Knowledge calls meet replies on the account only.
SessionNext ==
  \/ \E r \in Replies : SessionStep(r) /\ UNCHANGED knowledgeVars
  \/ Free /\ (CallStep \/ KnowledgeNext) /\ UNCHANGED sessionVars

SessionSpec == SessionInit /\ [][SessionNext]_<<vars, sessionVars>>

-----------------------------------------------------------------------------
\* The hold replaced one that funded no call, whose row has the id of the
\* call: the call's own row cannot be written any more, and the end of the attempt
\* is refused (reply-session.ts:285 and 411; README, section 6).
Renamed(r) == session[r].hold # NoHold /\ session[r].hold[3] > 0

(* Nothing an attempt metered can make its settlement fail: whenever a     *)
(* hold is open, what its calls would be charged now, those in flight at   *)
(* their worst case, is within it, also when the balance capped it, and    *)
(* their rows can be written; only a renamed hold's cannot.  An open row   *)
(* that the balance did not cap can be settled at its whole reservation as *)
(* well, so the next attempt recovers even a renamed one.                  *)
SettlementsAccepted ==
  /\ ReservationsSettle
  /\ \A r \in Replies :
       Metering(r) /\ ~session[r].locked /\ HoldOpen(r) => Accepted(r) \/ Renamed(r)

(* Each call is paid for once.  Calls in memory have no row but their      *)
(* hold's; calls of earlier holds have theirs; an attempt that ended has   *)
(* left no hold open, and either each of its last calls has its row, at    *)
(* what it cost, or a later attempt settled the hold for all of them.      *)
CallsRecorded ==
  \A r \in Replies :
    LET s == session[r]
        row(i) == rows[callIds(r)[i]]
        unwritten == \A i \in DOMAIN s.calls : callIds(r)[i] = s.hold \/ row(i).state = "none"
    IN /\ \A step \in s.past : rows[chatId(r, step)].state = "settled"
       /\ Metering(r) /\ ~s.locked => unwritten \/ Renamed(r)
       /\ s.phase = "ended" =>
            /\ \A id \in Ids : ReplyOf[id] = r => rows[id].state # "open"
            /\ \/ \A i \in DOMAIN s.calls :
                    row(i).state = "settled" /\ row(i).cost = costOf(s.calls[i])
               \/ /\ unwritten \/ Renamed(r)
                  /\ \E later \in Replies : later > r /\ ~In(later, {"none", "starting"})

(* The sessions use the ledgers as CreditLedger says, so what holds of its *)
(* behaviours holds of theirs.                                             *)
LedgerKept == Spec
=============================================================================
