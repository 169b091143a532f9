# TulipFarm verification project

TLA+ models of the parts of TulipFarm whose correctness rests on the order of
steps: the credit ledgers that fund every model call, the runtime that resumes
agent tasks, the publisher that carries an approved social post through the
steps of its platform, the turns of a private chat, the changes an agent asks
of outside services, and the runs of workflows. Each definition is translated
from the TypeScript and SQL that the `map` of PROJECT.json names for it. TLC
checks small instances, TLAPS proves the theorems listed below for every value
of the constants.

    tlc -config CreditLedger_calls.cfg MCCreditLedger.tla    # one run
    tlapm CreditLedgerProofs.tla                             # the proofs of a module

## 1. Inventory

TulipFarm is an API, a Temporal worker and a PostgreSQL database with one schema
for each workspace. Nearly all state is rows. A handler is a sequence of short
transactions with calls to models and providers between them, so what can go
wrong lives in the gaps: another worker acts, the process stops, a lease ends, a
late answer comes back. The transactions are serialised by row locks, by
advisory locks (one for each task, one for the credits of a workspace) and by
the authorization lock, which writers of memberships and grants take alone and
everyone else shares.

| Component | State | Operations | Hard behaviour | Correct when | Status |
| --- | --- | --- | --- | --- | --- |
| Credit ledger (`workspace-storage/credits.ts`) | the account gate; `tf_credit_usage` rows | reserve, settle, hold for a reply, settle a reply, recover | a crash leaves holds; rounding over several calls; recovery inside another transaction | no unit is lost; a flow pays the rounding of its whole cost; recovery touches only abandoned holds and can finish | partly |
| Knowledge credits (`knowledge-credits.ts`) | a group's known, pending and unfunded units; observations | reserve, mark dispatched, record an outcome | outcomes replayed or unknown, costs above the reservation | the group is the sum of its attempts | partly |
| Social posts and publisher (`social/`) | posts, revisions, variants, receipts, decisions | revise, decide, expire, check, claim, send, settle, poll, reconcile, resume, cancel, settle by hand | several workers, lost answers, decisions over three transactions, grants that change | a step takes effect once; outcomes are true; one approved revision per channel | partly |
| Agent task runtime (`agents/task-runtime.ts` and what it calls) | task, steps, generations, attempts, activity, proposals | prepare, dispatch, observe, settle, recover, admit and run a call, pause, continue, reopen, decide | retried activities overlap; aborted requests answer late; time and spending corrected in stages | time and spending are counted once; a stopped task is quiet; the winner decides; accounting ends | partly |
| Conversation turns (`conversations/runtime.ts`, `requests.ts`, `api/conversation-dispatch.ts`) | turns with epoch, generation, lease; receipts of tool calls; outbox; questions | send, dispatch, poll, claim, prepare, call tools, ask, deliver, fail, continue, stop, expire | lease takeover, retries after tools ran, polls that outlive their timeout | one reply per turn, in order, by the last claimer; no retry over an unknown outcome; a turn settles | partly |
| Reply session (`worker/reply-session.ts`) | a hold and its calls in memory | meter, top up, checkpoint, settle | concurrent sub-agents, rolled back top-ups, lost lease | every call is charged once, to a hold that covers it | partly |
| Chat plans (`agents/plan-runtime.ts`) | plans, attempts with leases and allowances | start, renew, report, retry, pause, edit | a lapsed specialist reports late | one attempt counts for a task; budgets hold | planned |
| Workflows (`workflows/service.ts`, `temporal.ts`, `api/workflow-dispatch.ts`) | runs, step receipts, the sponsorship; one Temporal workflow per run | admit, advance, respond, cancel, disable, share, sweep, wake | lost wake signals, attempts beside each other, answers against expiry and lost authority | steps complete in order and keep their own results; an ended run is final; every run ends | partly |
| API calls (`api-calls/`) | `tf_api_calls`, decisions | propose, decide, poll, claim, send, settle, read | a lost or late sender, crossing decisions, a secret that changes | a change is sent at most once, as it was approved, and what is said of it is true | modelled |
| Google operations, GitHub batches | proposals, decisions, receipts | propose, decide, claim, send, reconcile | a lost sender, unknown outcomes | sent at most once, only what was approved | planned |
| Tables, secrets, email, files, knowledge, Slack, Atlassian, recommendations, workspaces | see PROJECT.json | | mostly one transaction for a command | | not modelled (section 8) |

How they interact. A reply or a task step reserves credits before a model is
asked and settles them after (`tf_credit_usage` is shared). Task calls, workflow
steps and chat turns propose outside actions that people approve; the owner of
the work is woken when the action ends. Every component reads grants under the
authorization lock, and each must check again whatever it checked before a call.

## 2. The modules

| Module | What it models |
| --- | --- |
| `CreditGate` | prices, balances and the debit of the account gate |
| `CreditUsage` | usage rows, reply holds and the recovery transaction |
| `KnowledgeCredits` | the knowledge group and its attempts |
| `CreditLedger` | the two ledgers on one account; the properties |
| `CreditLedgerProofs` | theorems about `CreditLedger` |
| `SumLemmas` | sums over finite sets: their order, and what changing, adding or dropping an element makes of them |
| `ReplySession` | the attempts at one conversation's replies, as they meter calls in memory, over `CreditLedger`; the properties |
| `ReplySessionProofs` | theorems about `ReplySession` |
| `SocialVariant` | variant and receipt rows, the table of transitions, the trigger |
| `SocialPosts` | revise and decide, transaction by transaction |
| `SocialPublisher` | the sweep, the platform, the commands; the properties |
| `SocialPublisherProofs` | theorems about `SocialPublisher` |
| `ModelAttempt` | one model attempt's rows and what each statement makes of them |
| `TaskRuntime` | workers, time and owner over one task; the properties |
| `TaskPromise` | what the runtime promises the owner: the abstract specification |
| `TaskRuntimeProofs` | theorems about `TaskRuntime` |
| `ConversationTurns` | one chat: person, dispatcher, workers, outside actions; the properties |
| `ChatPromise` | what a chat promises its reader: the abstract specification |
| `ConversationTurnsProofs` | theorems about `ConversationTurns` |
| `ApiCalls` | calls, decisions, slots and workers; the properties |
| `OnceCall` | what a member is promised of one outside change: the abstract specification |
| `ApiCallsProofs` | theorems about `ApiCalls` |
| `WorkflowRuns` | the runs of one workflow: transactions, Temporal loop, activities, sweep; the properties |
| `RunPromise` | what a run promises whoever started it: the abstract specification |
| `WorkflowRunsProofs` | theorems about `WorkflowRuns` |
| `MC...` | the instances for TLC |

### Credits

The variable `available` is the gate's balance (`Unlimited` without a gate),
`rows` the usage rows, `group` and `attempts` the knowledge side. Every action is
one transaction under the workspace's credit lock, except the recovery of reply
holds: `recoverReplyHolds` is a loop of settlements inside the start transaction
of a reply, each of which may be refused. It is modelled as `BeginRecovery`,
`RecoverHold` for each row, and `CommitRecovery` or `AbortRecovery`; `recovery`
holds what a rollback restores and, like the lock, excludes everything else.
Pricing is the function `Round`, of which only the contract is assumed
(`extensions/src/slots.ts`): it is monotone and never rounds down. The default
pricing (`registry.ts:32-36`) rounds nothing; an extension may register one that
does, and the runs use one that rounds up to a grid. `Capped(id)` says that the
balance, and not what was asked, set what a hold reserves.

### Reply sessions

`session[r]` is what the process of attempt `r` has in memory: its hold, the calls
it has metered against it, how many holds it opened, the next step of the chat, and
the reservation that waits (`reserving` lets one at a time through). `current` is
the attempt with the turn's lease; an earlier one goes on until one of its
transactions looks at the lease. A top-up and a checkpoint settle one hold and open
the next in one transaction: they are two steps with `locked` between them, during
which nothing else moves the account, and what the second would be refused for is
checked before the first, as a rollback would do. `Ends` is the final transaction
and `settleUnfinished`, which does not look at the lease. The ids of rows are
`<<attempt, step, suffix>>`; the set `Ids` bounds the suffixes. Knowledge calls
meet replies on the account alone and stand still here.

### Social publishing

`variant`, `receipts` and `decision` are the tables, for the variants
`Revisions \X Channels`. A worker carries `seen` rows from one transaction to
the next (`worker[w]`), as the publisher carries `expected` in its arguments.
Checks, claim, call, settlement and each half of a poll or a reconciliation are
separate actions. `calls` and `post` are the platform: a sent request is in
flight until it lands or is refused, also after its worker stopped. `Locked`
stands for the row lock of a claim that has counted and not yet written; the
sweep skips locked rows. Leases and times are the flag `due`: `TimeComes` sets it.
The constant `Plan` is the list of steps the platform's adapter returns.

### Agent tasks

`task`, `steps` (each with its generation), `attempts` (each with its credit and
accounting rows) and `works` are the tables; `worker` is what `process()` carries
between transactions. The actions follow `process()` in order: `Recover`,
`Prepare...` (one for each way preparation ends), `Dispatch`, `Answer`,
`Observe`, `Settle...` (one for each way a settlement ends), then `Tool...`.
`LateObserve` and `LateRecover` are the callback of an aborted request that
answers after its worker went on. `Crash` loses what a worker carries, `LateLost`
the callback. The database refuses a settlement after which a generation would
have spent less than nothing (`SettlementFits`); whoever settles has then lost it.
Costs are two amounts, reserved and known, and time is counted in a few units;
what the provider answers, which files are read, and what the model says are
choices.

A tool call has a `route`. On the route `inside` its effect and its receipt are one
transaction, `ToolRun`. On the others `executor.ts` works in three parts, after the
admission (`ToolAdmit`, a transaction of its own): `ToolBegin` writes the call as
`waiting` and commits, under `work.live` (`MayRun`); then the worker acts outside the
database, in phase `acting`, where it may be lost, take as long as it likes, or be
overtaken by another worker of the task; then `ToolComplete` writes the outcome if
the call still waits. What the last transaction looks at depends on the route, and
is `MayRecord`:

| Route | Completion | What it looks at |
| --- | --- | --- |
| `knowledge`, `mcp`, `api` | `executor.ts:1458-1472`, `1142-1157`, `1201-1211` | `taskOutputAllowed`: that the task is not stopped and its access stands, not `work.live` |
| `images` | `executor.ts:1313-1327` | `work.live`, not the task's status |
| `skills` | `executor.ts:1329-1400` | both |
| `slack` | `executor.ts:1503-1530` | neither, only that the call waits |

A refusal on the way is `ToolRefused`, which blocks the call in a transaction of its
own (`ToolBlock`); `ToolSettle` is the `finally` that settles the work. What an act
brings about outside is a choice of its answer.

`TaskPromise` has three variables: the status the owner sees, the generation,
and whether a call may still publish. `TaskRuntime` instantiates it with
`open <- Calling`, an attempt that still holds its lease, and `PromiseKept` is its
specification: whatever workers overlap, the owner sees a call open at most once
at a time, a decision only from an open call and only while the task is pending,
a continuation or reopening only when no call is open.

### Conversation turns

`turn` is the row of each turn: its status, the `generation` that a new request
of a person or an automatic retry raises, the `epoch` that a claim raises, its
attempts, and `live`, a lease that has not lapsed. `calls` are the receipts of
tool calls with their execution steps: `running`, `kept` (the output is stored
for a replay) and `done` (the outside action has settled). `box` is the outbox,
`runs` the Temporal runs nobody has taken yet, `pending` the questions to the
person, each at the fence it was asked at. A worker carries its claim and the
index of its current call in `worker[w]`; every transaction of an attempt
compares that claim with the row (`Fence`, `FenceLive`). `native` tells a chat
that replays receipts from a Slack chat, which never runs its model twice.
`PollRead` and `PollWrite` are two transactions with a request to the outside
service between them. `Refused` is the check of access with which every
transaction begins. `ChatPromise` knows only what a reader sees of each message.

### API calls

`call` is `tf_api_calls`. The age of a row stands for its two clocks: `expired`
for a change nobody decided in time, `late` and `overdue` for the deadline of a
claimed one and the grace after it. `deciding` is a decision that was checked and
is not inserted yet: the confirmation role cannot lock the row it checks. A poll
(`resumeApiCall`) is `Look`, then `Settle` or `Claim`, `Prepare`, `Reaches`,
`Answered`, `Finish`, each of its own, so that polls overlap anywhere. `arrived`
is the service: how often a change reached it and with which version of the
secret. `answers` is what turns and runs were told. `OnceCall` is the promise:
reached at most once, a report is true when made and stays true.

### Workflow runs

`run` and `receipt` are the run and its steps, `flow` and `granted` what the
authority of a run is read from. `Advance(r, a)` is one transaction of the
activity `advance`: the run is read under its lock and one case applies, for the
kind of the next step. Steps that work outside return a request, `Calling` does
it, and a second transaction takes the answer. `loop[r]` is the Temporal workflow
(`advancing`, `sleeping` or `closed`, with its flag `woken`); `act[r]` its
activities: the attempt it waits for and one it gave up, which goes on. `wakes`
are signals due after a commit, each sent once and possibly lost. `StartRun` and
`WakeRun` are the sweep. `RunPromise` is the order of steps and the finality of
the end.

## 3. Runs

All passing runs explore their whole state space, without state constraints.

| Run | Question | Bounds |
| --- | --- | --- |
| `credit_caps` | Can a hold that the balance capped be settled as though it cost all of it? (no) | the ledgers alone: one flow with one plain call, two holds of one reply and one of another; grid 2, balance 5, holds of 2 and 4 |
| `credit_replies` | Is the account kept, can what an attempt metered be settled, and is each call paid for once? | one attempt with two calls of its own and two of sub-agents, one after it with one, one other call of the flow, two knowledge attempts; grid 3, balance 10 |
| `social_steps` | Does each step take effect once, and is every outcome true? | two workers, container-await-publish, three attempts |
| `social_edits` | Can an edit or a second decision send two revisions, and does `sending` end? | two revisions, two deciders, two attempts, a cap of one post |
| `task_calls` | Is spending corrected once, and does the task come to rest, when workers are lost and answers and settlements are late? | one worker, one step of seven routes, two attempts, one crash, no command |
| `task_workers` | Is anything decided or carried out twice when two workers overlap? | two workers (symmetric), one step of three routes (inside, API, images), two attempts, two commands; decisions that call tools, propose or answer; calls that time out or mismatch |
| `task_late` | Is a late settlement corrected once in every generation? (no) | one worker, one step, two attempts, no crash |
| `turn_calls` | Does one attempt hold a turn, and do replies come once and in order? | two turns, two workers, one call each, one attempt, one command |
| `turn_settles` | Does a retry ever run over a call of unknown outcome, and does a turn settle? | one turn, two workers, one call, two attempts |
| `turn_questions` | Can every unanswered question expire? (no) | one turn, two workers, two calls, two attempts |
| `api_calls` | Is a change sent once, as approved, and truly reported, and does it end? | a change and a read of one turn, two workers, one slot, one change of the secret |
| `workflow_runs` | Do steps keep their own results in order, is the end final, is an answer acted on, and does every run end? | one run of one of four definitions, one loss of authority, one fault |

Why the bounds are enough for the questions. The credit rows interact only
through the flow's sums and the account, so an attempt with up to four calls, one that
recovers what it left, a call outside any reply and two knowledge attempts have every
kind of neighbour. With a grid of 3 and costs of 1 and 3, splitting a cost differs from
rounding it once. A call of the flow is quoted 2, which is priced at 3. A hold wants 9,
what three calls cost, so one that the balance has left smaller must be topped up; a
balance of 10 refuses some top-ups and some starts, and caps holds at 7, 4 and 1, off the
grid; a knowledge attempt that turns out to cost 3 where it reserved 2 may find nothing
left and be carried as unfunded. A hold of 3, as is left when
such an attempt took the balance to 0 before a settlement gave 3 back, funds no call at
all, because a call needs one unit more than its price. A
duplicated social step needs two attempts of one step, and the third attempt
shows the retry after a definite failure. A race of a task needs two workers, a
wrong second correction two attempts, and a stale publication one command of
the owner; a pause and a continuation are two commands, which `task_workers` has.
There `RaiseBy = 0`, so that a continuation never raises the limits: one that does
is covered by the theorems only. Both runs have `MaxSteps = 1`: all that a batch, an
answer or a proposal does to the task is done in one step, and what a step leaves to
the next (spending by generation, the number of calls, the time used) is covered for
every number of steps by the theorems. `task_calls` has no command, so that what
brings the task to rest is never the owner. Slack, MCP, knowledge and skills meet one
worker there; two workers meet on one route of each kind of completion (inside, by
the task's status, by the reservation). `MaxUnits`, `MaxAttempts`, `MaxCommands` and `MaxCrashes` bound the
counters and are in the guards. `MaxUnits` is 72 in `credit_replies`, what seven rows
and one more hold of 9 can add up to.

The order of replies needs two turns; the takeover of a turn needs two workers,
and a lease lapses and is claimed again however few attempts are allowed. A
retry over a recorded call needs a second attempt, which `turn_settles` has. In
`api_calls` the read and the change compete for the only slot, which lets a poll
lose time between its look and its claim; two polls are enough for a late
sender beside the one that gives it up. The four definitions of `workflow_runs`
hold each kind of step, both branches of a condition, and calls of one address
and of two; one fault is enough for a late attempt beside its replacement, and
one change for the loss of authority. Several runs of a workflow meet only in
`flow` and `granted`, whose changes the one run already suffers in any order.
`CHECK_DEADLOCK FALSE` is set where the system may stop for good: everything is
settled, ended, or the bounds are used up.

Every property has a mutant in PROJECT.json: a plausible slip in a modelled
definition under which TLC finds the property violated in the same run. Some
guards are protected twice in the code. That a task never runs a call while
its model is asked rests both on the check of live attempts and on the time
each side reserves, so removing one alone breaks nothing.

## 4. Fairness

* `SocialPublisher.FairSpec`: weak fairness of `TimeComes` (a clock), of
  `ExpireLease` (the sweep runs every 15 seconds in some process), and of
  `DecideApply` (a process that goes on takes its next step). Nothing is
  assumed of people, of the platform, or of any one worker.
* `TaskRuntime.FairSpec`: weak fairness of `process(w)`, because Temporal
  retries an activity and a recovery workflow wakes every task that `pending()`
  lists; of the late callbacks, because an aborted request settles; and of the
  ends of leases, deadlines, backoffs and reservations, because time passes. No
  command of the owner and no crash is owed. Under it `AccountingEnds` and
  `TaskRests` hold, but for the fault of section 6 (`Forgetful`): pending accounting is settled, and the task again and again
  is not `pending` or waits for a decision of its owner.
* `ConversationTurns.FairSpec`: weak fairness of the dispatcher's sweep, of the
  ends of leases, of outside services and of the expiry of questions, and of a
  worker that took a run; strong fairness of the steps that a poll or a claim
  begins with, because other workers may disable them for a moment and Temporal
  tries again. No person acts, and crashes may repeat, which is why the number of
  attempts is what ends a turn.
* `ApiCalls.FairSpec`: weak fairness of the clocks of changes and of a worker's
  own next step; strong fairness of some poll of each change (the turn or run that
  waits for it is polled again) and of that poll's look and settlement. A slot is
  never owed to anyone.
* `WorkflowRuns.FairSpec`: weak fairness of activities, of the Temporal loop and
  of the start of live runs by the sweep; strong fairness of its wake, because a
  sweep that keeps trying reaches Temporal. No clock is fair, so that
  `AnswerTaken` cannot be saved by a timer that is days away. `RunEnds` takes the
  clocks and the ends of agent tasks as its premise (`ClocksMove`).

## 5. What is proved

`CreditLedgerProofs` assumes the pricing contract and types of the constants (the
named assumptions of `CreditGate`, `CreditUsage` and `CreditLedger`). The inductive
invariant is `TypeOK /\ GroupFits /\ RecoverySparesOthers`, and each further theorem
adds a layer to it.

* `LedgerTypeOK`: `Spec => []TypeOK`, in particular a limited account is never
  overdrawn and no charge is negative. `GroupFits`, that the knowledge group's
  sum can be priced, is needed because the next commitment is measured from it.
  The step that needs work is `SettleReply`, which rewrites several rows at once.
* `RecoveryIsolated`: `Spec => []RecoverySparesOthers`: what differs from the rows
  the open transaction would restore is a hold of another attempt of its flow,
  open then and settled now.
* `LedgerConserves`, `LedgerChargesAsOne`: `Spec => []FundsConserved` and
  `[]FlowsChargedAsOne`: the balance and what the rows took from it are what was
  granted, and what a flow was charged is the price of the sum of its costs, not the
  sum of the prices. `AccountsInv` says both of the rows as they are and as a rollback
  would restore them.
* `LedgerGroupMatches`: `Spec => []GroupMatchesAttempts`: the three sums a knowledge
  group keeps are those of its attempts, whatever order outcomes arrive in.
* `SettledRowsFinal`: `Spec => ChargesFinal`, an action property: a committed
  settlement is never charged again, and no row returns to an earlier state.
* `LedgerReservationsSettle`: `[]ReservationsSettle`: an open row that the balance did
  not cap can be settled at its whole reservation, whatever the balance is. Its
  hypothesis `PricesUpTo(Whole)` is about the pricing and about what is asked for: prices
  round up to the next of some amounts closed under addition and subtraction, and holds
  ask for such amounts (a reply asks for prices and their multiples; a plan's remaining
  allowance, which may lower that, is not modelled). The contract of `slots.ts` allows
  other pricings: `CreditsRoundUp` shows that rounding up to a unit meets the
  hypothesis, `UnroundedPrices` that the default pricing does, with all integers. A
  hold the balance capped may fail (run `credit_caps`); `WholeInv` follows which open
  rows those are, through recoveries and what they roll back to.
* `UnroundedReservationsSettle`: under the default pricing, which rounds nothing,
  `[]EveryReservationSettles`: capped holds settle as well.

`SumLemmas` has what these need of sums. A sum over a set is a fold whose recursion
takes elements in an order nobody chose; that it has one value, and what changing,
adding or dropping one element makes of it, is shown by an induction over finite sets
that is stated with sets of subsets in the place of predicates.

`SocialPublisherProofs` holds for every set of channels and workers, every plan
and every bound.

* `TriggerMatchesTable`: the database trigger and the application's table of
  transitions allow the same changes. This is a fact about two definitions that
  the code keeps in two languages.
* `PublisherTypeOK`, `StepsOnce`, `ReceiptsAgree`: `Spec => []TypeOK`,
  `[]StepTakesEffectOnce` and `[]ReceiptsMatchState`, all from one inductive
  invariant. `StepTakesEffectOnce` alone is not inductive. `RowsFit` adds that
  receipts follow the plan's order, that a step is attempted again only if every
  earlier attempt of it is marked failed, that what is marked failed was refused by
  the platform, and that only the last receipt is executing, and then only in
  `sending`. `HoldsFit` says what a worker knows between its transactions: the row
  it is claiming is its own, and an answer that it may mark as failed was a refusal.
  `EditFits` keeps rows of later revisions unwritten. The invariant was checked with
  TLC before it was proved; the proof has a lemma for each group of actions.
* `OutcomesAreTrue`, `OneRevisionPerChannel`: `Spec => []OutcomesTrue` and
  `[]OneRevisionSent`, from a second layer (`SInv`) over the first: what a receipt or
  a final state says happened is what the platform did, and a revision is scheduled
  only when its channel has no other that was sent or may still be.
* `SentOnlyWhileGranted`: `Spec => SentWhileGranted`, an action property: a step is
  claimed for sending only while the grant holds in that transaction.

`TaskRuntimeProofs` holds for any number of workers and any limits. It has four layers.

* The types, and what the ids a worker carries refer to (`TInv`): `TypesHold`. A lemma
  for each action says what it does to the rows (`Moves`), and later layers read it.
* Leases, work and winners (`KInv`): a running attempt belongs to a running generation
  and is its only one, at most one attempt holds a lease and at most one reservation of
  work is live, never both, at most one step is open and none of a completed task
  (`CompletedClosed`), an attempt on its lease and a call that waits outside are of the
  task's present run (`LiveNow`, `WaitingNow`: a reopening finds neither), and a
  generation that is decided has a winner that was paid. `CallsCountedOnce` is a part of
  it that no run checks; what `task_calls` checks of the count is its bound, in `TypeOK`. Most steps are `Quiet`: they
  publish nothing, begin and admit nothing, and end what they end. The proof shows the
  invariant once for those, and apart for the few others. This gives `CallsCount`,
  `WinnersDecide`, `EffectsUnderReservation`, `OutcomesAreFinal` and `StoppedStaysQuiet`
  (`[]CallsCountedOnce`, `[]WinnerDecides`, `EffectsReserved`, `OutcomesStay`,
  `StoppedIsQuiet`), and `RuntimeKeepsPromise`: `Spec => PromiseKept`, the
  implementation of `TaskPromise`, where each step of the runtime is one of the promise
  or leaves its variables alone.
* `ActiveTimeAddsUp`: `Spec => []TimeAccounted`: what a generation has used of its time
  is the sum over its works, counted or reserved. The code never lets the time left of a
  reservation fall below zero; the invariant shows that this floor never changes a sum.
* `SpendingAddsUp`: `Spec => []SpentOnce`, with no hypothesis: settlements may begin
  within their lease or after it. Spending is corrected by whoever settles an
  attempt's usage first, and each correction asks the row whether it was made
  (`Correctable`). `RowsTell` says that the row answers truly, and `SpendInv` adds that
  the sums agree, until an attempt is `forgotten`: until a note of a correction made
  after the lease was overwritten. `SpentOnce` says nothing of a generation with such
  an attempt, of which it is false (run `task_late`). That each statement corrects its
  generation by what it changes in the row is a lemma of its own (`Corrects`).

`ApiCallsProofs` holds for every set of calls, origins and workers and all limits.

* `CallsTypeOK`, `ApprovedOnly`, `AnswersStayTrue`: `Spec => []TypeOK`,
  `[]SentAsApproved` and `[]AnswersTrue`; `PromiseHolds`: `Spec => PromiseKept`,
  the implementation of `OnceCall`. The inductive invariant follows a change to the
  one worker that may send it (`SenderOK`, `OneSender`): a row that awaits its
  approval has no sender, a claimed row has at most one, what that worker knows
  agrees with what arrived, and once a row is settled behind a sender's back it is
  of unknown outcome (`CallOK`, `PollOK`, `RowOK`). The slots of the workspace
  (`Limited`) need the cardinality of a set that grows by one.

`WorkflowRunsProofs` holds for any number of runs and all definitions.

* `Inductive`, `OutputsOwn`: `Spec => []IInv` and `Spec => []OwnOutput`;
  `PromiseHolds`: `Spec => PromiseKept`, the implementation of `RunPromise`. The
  invariant adds to the types that a run not started has no steps, that a branch
  is chosen only by a completed step, that a receipt that waits is of the next step
  (`RunOK`), which is why an answer completes steps in order, and that what an
  activity asked was an HTTP step of a started run when it asks for one (`AskOK`).
  Each step of the system has one of a few effects on the rows (`Begins`, `Done`,
  `Notes`, `Finishes`, `Stops`); that a case has its effect and that the effect
  keeps the invariant are separate lemmas.

`ReplySessionProofs` holds for any number of attempts and all amounts.

* `SessionsKeepLedger`: `SessionSpec => LedgerKept`, that is, the sessions implement
  `CreditLedger`: what a session keeps in memory always meets what the ledger's
  operation asks. With the theorems above it gives `SessionsTypeOK` and
  `SessionsRecoverOthers`. The invariant says of each attempt that its hold is one
  of its own rows and that the calls in memory and the one that waits are distinct
  steps it began, which bounds them by `MaxCalls` (`SessionOK`); a step changes the
  memory of one attempt (`OneSession`). `SessionsConserve` and `SessionsChargeAsOne`
  carry the sums of the ledgers over.
* `CallsAreRecorded`: `SessionSpec => []CallsRecorded`. `CallsRecorded` is not
  inductive: that a call has no row yet follows only from what all rows with the
  attempt's prefix say. `RecordsInv` relates them to memory: the steps metered, asked
  for and settled earlier are all different, and the hold is named for its first call
  (`MemoryOK`); a row is open only if it is the hold, settled if an earlier hold funded
  it, and absent otherwise (`RowOK`); a hold of an attempt that still runs is settled
  only where a later attempt got past its claim (`Overtaken`). All of it holds of the
  rows a recovery's rollback would restore too, and while one recovers no attempt after
  it has rows (`RecoveryInv`). `Assemble` reduces a step to the attempt it moves.
* `SettlementsAreAccepted`: `SessionSpec => []SettlementsAccepted`. Two more
  invariants carry the amounts. `PriceInv`: the prices of a hold's calls, those in
  flight at their worst case, are together within what the hold reserved. What
  is due is the rounding of the flow's sum, less what was charged before; since that
  and the prices of the calls are whole amounts, rounding the sum cannot take it past
  their sum, which is within the hold, whether the balance capped the hold or not.
  `BoundsInv(largest)`: no row costs, and no open row reserves, more than the largest
  amount a step may ask for. The theorem has two hypotheses. `PricesUpTo(Whole)` is the
  one of `LedgerReservationsSettle`. `RoomForAll(Whole)` says that all rows at their
  largest, and one more hold, fit one `numeric(30, 0)`, which the code takes for
  granted: it sums the rows of a flow with no check but the parser's. The instance of
  `credit_replies` meets both (multiples of 3, `largest = 9`, and 72 for its seven rows
  and one hold), and TLC checked the three invariants on it.

`ConversationTurnsProofs` holds for every set of turns and workers and all limits.

* `TurnsTypeOK`, `OneAttemptHolds`, `NoBlindRerunHolds`: `Spec => []TypeOK`,
  `[]OneAttempt` and `[]NoBlindRerun`; `PromiseHolds`: `Spec => PromiseKept`, the
  implementation of `ChatPromise`. The inductive invariant says of claims that the
  epoch of one is never above its turn's and that no two of a turn share one
  (`EpochsPast`, `OneEach`), that messages are sent in order (`InOrder`), and that
  the worker that holds a turn has seen every recorded call: kept, its own, or
  waived when the turn was continued (`AllSeen`). A step is either `Calm`, which
  claims nothing, starts no model and records no call, or one of the few that do
  (`ClaimTurn`, `Prepare`, a call of the worker's own, a lapsing lease); the
  proof shows the invariant once for all calm steps.

Only model-checked: liveness (`SendingEnds`, `AccountingEnds`, `TaskRests`,
`TurnSettles`, `ChangesEnd`, `AnswerTaken`, `RunEnds`), which the prover does not
reach, as it does not reach ENABLED. Every other property of a passing run is a
theorem.

## 6. Findings

Each of the first three is a run that TLC ends with a counterexample; the quoted
promises are in PROJECT.json.

* `turn_questions`: the write that resumes a turn after an outside action checks
  that the turn waits, not what it waits for. An activity that read the settled
  action and outlived its timeout resumes the turn again after the model asked the
  person a question. The question then has a fence that no turn has, and the one
  transaction that expires the workspace's questions aborts on it from then on.
* `credit_caps`: under a pricing that rounds up, a hold that the balance capped between
  two prices cannot be settled at its reservation, as `settleCreditsAtReservation`
  says: the charge of the cost it stands for is more than it reserves. After a crash,
  every later start of a reply of that conversation runs into the same row. The default
  pricing rounds nothing and has no such hold (`UnroundedReservationsSettle`).
* `task_late`: a settlement of a model call that begins after its lease notes its charge
  in the attempt's outcome and leaves the attempt running; abandoning the attempt
  replaces that outcome, and the late callback or the recovery lowers the spending of the
  generation a second time. `SpentOnce` excepts a generation with such an attempt
  (`Forgets`). If the attempt is the only one of its generation, the second correction
  would take the spending below zero: the database refuses it, and so every recovery of
  the task from then on. Its accounting stays pending and its workers never get past
  `Recover`, which `task_calls` reaches and `AccountingEnds` and `TaskRests` except by
  name (`Forgetful`).

Faults and disagreements that a property excepts by name. The passing runs reach each
of them; the property without its exception is violated.

* A hold that the balance capped may be too small for the first call. If the balance has
  returned by then, the top-up settles the hold at 0 and opens the next one with the id
  of the step and a suffix (`reply-session.ts:286`), but the call keeps the id of the
  step (`:411`), whose row the first hold has. The settlement of the new hold inserts
  that id again, and the primary key of `tf_credit_usage` refuses it: every settlement of
  the attempt fails, the final write with it, until the next attempt recovers the hold at
  its whole reservation. `SettlementsAccepted` and `CallsRecorded` except such a hold
  (`Renamed`), and `EndRefused` is the refusal.
* Pausing a task leaves its activity running, and the completion of an image looks at the
  activity alone, so an image that is being made completes its call while the task is
  paused, against the comment at `executor.ts:1278`. A Slack message is recorded without
  a look at either. `StoppedIsQuiet` excepts these two routes.
* The answer of an HTTP step is matched by its address alone (`service.ts:2582`). With
  two steps of one address, the answer of an attempt that outlived the 30 seconds of its
  activity completes the wrong step. The request itself stops at 10 seconds, so this
  needs storage that is slow for the rest. `OwnOutput` speaks of definitions that call no
  address twice (`Apart`).

Observations that no property speaks of, each seen in a model with a changed bound or
constant or read off an action:

* Recovery of a call whose usage was recorded before its worker was lost passes a failure
  without status, which is charged nothing (`task-model-accounting.ts:97`; the test at
  `task-accounting.integration.mjs:719` expects the charge). `SpentOnce` relates the
  spending to that charge of nothing.
* Two processes that claim variants of one channel or platform both count before
  either inserts its receipt, and the daily cap is exceeded (`publisher.ts:341`).
  With one sweeping process the cap holds.
* An approval of a post is recorded in one transaction and applied in a later one;
  if the process stops between them, no sweep applies it.
* While a call of a task acts outside, a second worker of the task may try it again, be
  refused and block it. The first worker's completion then finds no call that waits and
  writes nothing, but is reported as completed: what was done outside has no receipt
  but the block. `OutcomesStay` shows that the recorded outcome stands.
* A worker that reports a call as waiting (`task-runtime.ts:886-896`) turns the task to
  `waiting-approval` also when another worker has completed the call meanwhile.
* The failure of an agent step is matched by what was asked, a start or a poll, and
  not by its step (`service.ts:2500`): it fails the run that would have gone on.
* An attempt that ends a delay late leaves the run `waiting` until its timer fires,
  which is then due; `Ready` leaves that case out.
* Disabling a workflow automatically and changing its sponsorship do not block its
  runs at once, so a run started by hand survives when the workflow is enabled
  again before the run's next transaction.

## 7. Plan

1. Credits, social publishing, agent tasks, conversation turns, API calls and
   workflow runs: done as above.
2. Google operations and the actions of a GitHub batch, each shown to implement
   `OnceCall`, whose machine is the one `ApiCalls` has.
3. `PlanAttempts`: specialists' leases, late reports, allowances of a chat plan
   (`agents/plan-runtime.ts`).
4. Theorems about those, as for `ApiCalls`; and an abstract account of one reply
   (what its caller may rely on) that `ReplySession` implements.

Where a new component needs a run, runs that ask related questions of one module
are merged, so that the list stays short.

## 8. What is not modelled, and why

* Within tasks: several calls in one parallel batch, GitHub handoffs and requests for
  secrets, approvals held by outside services (Slack, MCP, API requests) and superseded
  proposals, delegation and retry commands. What a call does outside is a choice: that
  it happened and what came back, not how often the service was asked.
* Within credits and social publishing: the summaries of usage and what a plan's
  allowance leaves for a hold; the refresh of social accounts (a grant is one variable that
  changes at any time); the 24 hour window of the cap, which is longer than any
  behaviour; the compensation of a cancelled post that is left on a platform.
* Within reply sessions: plan time and allowances, the checks of sources, the
  catalog and the inventory, the timer that renews the lease (a lapsed lease is a
  claim of the next attempt), and a sub-agent that was given up at its timeout and
  goes on beside a checkpoint.
* Within turns: plan mode, skills, files, compaction, titles and linked requests;
  a call of an outside tool that throws before its action exists. A transaction
  that the database itself fails is a crash of the worker.
* Within workflows: Slack messages as steps, which are turns of another chat;
  schedules, record changes and deliveries of webhooks that lead to an admission,
  and the limits on runs; editing and archiving a definition, since a run keeps the
  revision it was started with; the renewal of a Temporal workflow after 500
  iterations, which changes no row.
* Within API calls: the request, its policy and its response are data. A request that
  the network delays past the moment its sender stops waiting (`NoAnswer`) has reached
  the service or not by then; one that arrives later still is not modelled.
* Content: prompts, schemas, validation, templates, queries, documents, media and
  retrieval are pure functions of data without an order of steps to get wrong.
* External systems: models, OAuth and provider APIs, object storage and Temporal
  appear as choices and fairness, never as code.
* Memberships, invitations, secrets, email and files are commands of one
  transaction guarded by a row lock; tables' execution is a candidate for later.
* The web client, HTTP routes, configuration, telemetry, migrations and releases.
