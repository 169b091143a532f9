------------------------- MODULE ConversationTurns -------------------------
(***************************************************************************)
(* The turns of one private chat, from the send of a message to its reply. *)
(* A dispatcher leases due turns and starts runs; workers claim a turn for *)
(* a lease, run the model and its tools between short transactions, and    *)
(* publish the reply under the fence (generation, epoch) of their claim.   *)
(* A transaction that the database itself fails is a worker's crash here.  *)
(***************************************************************************)
EXTENDS Naturals, Sequences, FiniteSets

CONSTANTS
  Turns,         \* the turns of the chat, numbered in the order of their messages
  Workers,       \* activities of the worker processes
  MaxCalls,      \* bound: tool calls recorded for one turn
  AttemptLimit,  \* claims of a turn before it fails
  BusyLimit,     \* the same while the provider is busy
  MaxCommands    \* bound: Continue, Stop and Delete commands, and losses of access

ASSUME TurnsAssumption == Turns \subseteq Nat \ {0} /\ IsFiniteSet(Turns)
ASSUME LimitsAssumption ==
  /\ AttemptLimit \in Nat \ {0}
  /\ BusyLimit \in Nat \ {0}
  /\ AttemptLimit <= BusyLimit
ASSUME BoundsAssumption == MaxCalls \in Nat /\ MaxCommands \in Nat

VARIABLES
  turn,      \* tf_conversation_turns
  calls,     \* tf_conversation_tool_calls with their execution steps, by turn
  box,       \* a turn's current generation has an outbox row
  runs,      \* runs started and not yet taken by a worker
  pending,   \* fences of the questions a person has not answered
  worker,    \* what each worker is doing, in its own memory
  access,    \* what the chat's owner may still read
  native,    \* the chat stores its receipts for replay (not a Slack chat)
  commands   \* commands given, for the bound

vars == <<turn, calls, box, runs, pending, worker, access, native, commands>>

Closed == {"completed", "cancelled", "blocked"}
Statuses == Closed \cup {"none", "queued", "processing", "waiting", "failed"}
Kinds == {"call", "action"}
Failures == {"transient", "busy", "terminal"}

\* Open: a message was sent and its turn has no final status.
Open(t) == turn[t].status \notin Closed \cup {"none"}

\* The head of the chat: its oldest turn with no final status.
IsHead_PastWaiting(t) ==
  Open(t) /\ \A u \in Turns : u < t => ~Open(u) \/ turn[u].status = "waiting"

IsHead(t) == Open(t) /\ \A u \in Turns : u < t => ~Open(u)

attemptLimit(code) == IF code = "busy" THEN BusyLimit ELSE AttemptLimit

\* The receipts of t that are still running end (as failed or blocked).
Interrupted(t) == [i \in DOMAIN calls[t] |-> [calls[t][i] EXCEPT !.running = FALSE]]

Idle == [stage |-> "idle", turn |-> 0, gen |-> 0, epoch |-> 0,
         call |-> 0, own |-> {}]

At(w, stage) == worker[w].stage = stage
Goes(w, stage) == worker' = [worker EXCEPT ![w].stage = stage]
Resumes(w, stage) == worker' = [worker EXCEPT ![w].stage = stage, ![w].call = 0]
Rests(w) == worker' = [worker EXCEPT ![w] = Idle]

\* The turn as the transaction of a step leaves it, its lease dropped.
Ended_KeepsLease(t, status, code) ==
  [turn EXCEPT ![t].status = status, ![t].code = code]

Ended(t, status, code) ==
  [turn EXCEPT ![t].status = status, ![t].live = FALSE, ![t].code = code]

\* A new generation of the turn, wanted again from nothing.
Requeued(t) ==
  [turn EXCEPT ![t].status = "queued", ![t].gen = @ + 1, ![t].epoch = @ + 1,
               ![t].attempts = 0, ![t].live = FALSE, ![t].code = "none"]

\* The outbox has a row for the chat's next turn, and none for turn t.
NextIsDue(t, after) ==
  LET open == {u \in Turns : after[u].status \notin Closed \cup {"none"}}
  IN [u \in Turns |-> (u # t /\ box[u]) \/ (u \in open /\ \A v \in open : u <= v)]

\* The chat's owner is a member still and has not deleted the chat.
MayCommand == access \in {"ok", "unreadable"}

Init ==
  /\ turn = [t \in Turns |-> [status |-> "none", gen |-> 0, epoch |-> 0, attempts |-> 0,
                              live |-> FALSE, code |-> "none", waived |-> 0,
                              started |-> FALSE]]
  /\ calls = [t \in Turns |-> <<>>]
  /\ box = [t \in Turns |-> FALSE]
  /\ runs = {}
  /\ pending = {}
  /\ worker = [w \in Workers |-> Idle]
  /\ access = "ok"
  /\ native \in BOOLEAN
  /\ commands = 0

-----------------------------------------------------------------------------
\* The person

Send(t) ==
  /\ MayCommand
  /\ turn[t].status = "none"
  /\ \A u \in Turns : u < t => turn[u].status # "none"
  /\ turn' = [turn EXCEPT ![t].status = "queued"]
  /\ box' = [box EXCEPT ![t] = TRUE]
  /\ UNCHANGED <<calls, runs, pending, worker, access, native, commands>>

\* Continue after a failure. The receipts recorded so far are the model's
\* instructions not to repeat them, whatever they returned.
Retry(t) ==
  /\ commands < MaxCommands
  /\ MayCommand
  /\ turn[t].status = "failed"
  /\ turn' = [Requeued(t) EXCEPT ![t].waived = Len(calls[t])]
  /\ calls' = [calls EXCEPT ![t] = Interrupted(t)]
  /\ box' = [box EXCEPT ![t] = TRUE]
  /\ commands' = commands + 1
  /\ UNCHANGED <<runs, pending, worker, access, native>>

Cancel(t) ==
  /\ commands < MaxCommands
  /\ MayCommand
  /\ turn[t].status \in {"queued", "processing", "failed"}
  /\ turn' = [Ended(t, "cancelled", "none") EXCEPT ![t].gen = @ + 1, ![t].epoch = @ + 1]
  /\ calls' = [calls EXCEPT ![t] = Interrupted(t)]
  /\ box' = NextIsDue(t, turn')
  /\ commands' = commands + 1
  /\ UNCHANGED <<runs, pending, worker, access, native>>

\* The chat is deleted. A turn that failed stays failed.
Remove ==
  LET S == {t \in Turns : turn[t].status \in {"queued", "processing", "waiting"}}
  IN /\ commands < MaxCommands
     /\ MayCommand
     /\ turn' = [t \in Turns |->
          IF t \in S THEN [turn[t] EXCEPT !.status = "cancelled", !.gen = @ + 1,
                                          !.epoch = @ + 1, !.live = FALSE, !.code = "none"]
                     ELSE turn[t]]
     /\ calls' = [t \in Turns |-> IF t \in S THEN Interrupted(t) ELSE calls[t]]
     /\ box' = [t \in Turns |-> box[t] /\ t \notin S]
     /\ access' = "deleted"
     /\ commands' = commands + 1
     /\ UNCHANGED <<runs, pending, worker, native>>

\* A source the chat depends on is no longer readable, or the owner leaves.
LoseAccess ==
  /\ commands < MaxCommands
  /\ access = "ok"
  /\ access' \in {"unreadable", "departed"}
  /\ commands' = commands + 1
  /\ UNCHANGED <<turn, calls, box, runs, pending, worker, native>>

-----------------------------------------------------------------------------
\* Questions to the person

\* The turn still waits where the question p = <<turn, gen, epoch>> was asked.
Asks(p) ==
  /\ turn[p[1]].status = "waiting"
  /\ turn[p[1]].gen = p[2]
  /\ turn[p[1]].epoch = p[3]

\* Answer or cancel. A command outlives the bound on commands: it is one
\* per question.
Resolve(p) ==
  /\ MayCommand
  /\ p \in pending
  /\ Asks(p)
  /\ turn' = Requeued(p[1])
  /\ box' = [box EXCEPT ![p[1]] = TRUE]
  /\ pending' = pending \ {p}
  /\ UNCHANGED <<calls, runs, worker, access, native, commands>>

\* One transaction settles every question past its time; a question that
\* matches neither a waiting nor an ended turn aborts it for all of them.
Expire ==
  LET answered == {p \in pending : Asks(p)}
      turnsOf == {p[1] : p \in answered}
  IN /\ pending # {}
     /\ \A p \in pending \ answered : turn[p[1]].status \in {"blocked", "cancelled"}
     /\ turn' = [t \in Turns |-> IF t \in turnsOf THEN Requeued(t)[t] ELSE turn[t]]
     /\ box' = [t \in Turns |-> box[t] \/ t \in turnsOf]
     /\ pending' = {}
     /\ UNCHANGED <<calls, runs, worker, access, native, commands>>

-----------------------------------------------------------------------------
\* The dispatcher

Due_NotLapsed(t) ==
  /\ box[t]
  /\ IsHead(t)
  /\ \/ turn[t].status = "queued"
     \/ turn[t].status = "waiting" /\ turn[t].code = "action"

Due(t) ==
  /\ box[t]
  /\ IsHead(t)
  /\ \/ turn[t].status = "queued"
     \/ turn[t].status = "processing" /\ ~turn[t].live
     \/ turn[t].status = "waiting" /\ turn[t].code = "action"

\* Lease the outbox row, start the run, acknowledge. The row is due again
\* after the claim grace, the backoff of a retry or the poll interval; those
\* times are not modelled: a run not yet taken is not started again. A start
\* that fails gives the row back: nothing changes. A run of an older
\* generation that no worker took would find nothing to do and is left out.
Dispatch(t) ==
  /\ Due(t)
  /\ <<t, turn[t].gen>> \notin runs
  /\ runs' = {r \in runs : r[1] # t} \cup {<<t, turn[t].gen>>}
  /\ UNCHANGED <<turn, calls, box, pending, worker, access, native, commands>>

LeaseLapses(t) ==
  /\ turn[t].live
  /\ turn' = [turn EXCEPT ![t].live = FALSE]
  /\ UNCHANGED <<calls, box, runs, pending, worker, access, native, commands>>

\* The outside service, or the person who must approve, settles an action
\* that the chat may still ask for.
ActionSettles(t) ==
  /\ \E i \in DOMAIN calls[t] :
       /\ calls[t][i].kind = "action"
       /\ native => calls[t][i].running
       /\ ~calls[t][i].done
       /\ calls' = [calls EXCEPT ![t][i].done = TRUE]
  /\ UNCHANGED <<turn, box, runs, pending, worker, access, native, commands>>

-----------------------------------------------------------------------------
\* A worker

Crash(w) ==
  /\ ~At(w, "idle")
  /\ Rests(w)
  /\ UNCHANGED <<turn, calls, box, runs, pending, access, native, commands>>

Take(w) ==
  /\ At(w, "idle")
  /\ \E r \in runs :
       /\ worker' = [worker EXCEPT ![w] = [Idle EXCEPT !.stage = "run", !.turn = r[1],
                                                      !.gen = r[2]]]
       /\ runs' = runs \ {r}
  /\ UNCHANGED <<turn, calls, box, pending, access, native, commands>>

\* Every transaction starts by reading who may still be answered; one that
\* finds the owner gone blocks every turn of the chat, one that finds the
\* sources of this turn unreadable blocks this turn, and the worker stops.
Refused(w) ==
  LET S == {t \in Turns : Open(t) /\ (access = "unreadable" => t = worker[w].turn)}
  IN /\ ~At(w, "idle")
     /\ access \in {"unreadable", "departed"}
     /\ turn' = [t \in Turns |->
          IF t \in S THEN [turn[t] EXCEPT !.status = "blocked", !.epoch = @ + 1,
                                          !.live = FALSE, !.code = "none"]
                     ELSE turn[t]]
     /\ calls' = [t \in Turns |->
          IF t \in S THEN Interrupted(t) ELSE calls[t]]
     /\ Rests(w)
     /\ UNCHANGED <<box, runs, pending, access, native, commands>>

Readable == access \in {"ok", "deleted"}

\* The turn the worker's run was started for waits.
Waits(w) ==
  LET t == worker[w].turn
  IN IsHead(t) /\ turn[t].gen = worker[w].gen /\ turn[t].status = "waiting"

\* The outside actions it waits for.
Polled(w) ==
  LET t == worker[w].turn
  IN {i \in DOMAIN calls[t] :
       /\ Waits(w)
       /\ calls[t][i].kind = "action"
       /\ IF native THEN calls[t][i].running ELSE turn[t].code = "action"}

\* Read which action the turn waits for, then ask the service outside any
\* transaction: an open action ends the run, a settled one is written next.
PollRead(w) ==
  /\ At(w, "run")
  /\ Readable
  /\ \E i \in Polled(w) :
       worker' = [worker EXCEPT ![w] =
         IF calls[@.turn][i].done THEN [@ EXCEPT !.stage = "settled", !.call = i] ELSE Idle]
  /\ UNCHANGED <<turn, calls, box, runs, pending, access, native, commands>>

\* The settled action's receipt: a chat that replays continues its turn in
\* the same generation, any other ends with a fixed reply.
PollWrite(w) ==
  LET t == worker[w].turn
      i == worker[w].call
  IN /\ At(w, "settled")
     /\ Readable
     /\ IF Waits(w)
        THEN /\ calls' = [calls EXCEPT
                  ![t][i].running = FALSE,
                  ![t][i].kept = native \/ @]
             /\ IF native
                THEN /\ turn' = [Ended(t, "queued", "none") EXCEPT ![t].attempts = 0]
                     /\ Resumes(w, "run")
                     /\ UNCHANGED box
                ELSE /\ turn' = Ended(t, "completed", "none")
                     /\ box' = NextIsDue(t, turn')
                     /\ Rests(w)
        ELSE /\ Rests(w)
             /\ UNCHANGED <<turn, calls, box>>
     /\ UNCHANGED <<runs, pending, access, native, commands>>

-----------------------------------------------------------------------------
\* The claim, which follows when there is nothing to poll: it checks again
\* all that the poll read.

Claimable(w) ==
  LET t == worker[w].turn
  IN /\ IsHead(t)
     /\ turn[t].gen = worker[w].gen
     /\ turn[t].status \in {"queued", "processing"}
     /\ ~turn[t].live

ClaimNothing(w) ==
  /\ At(w, "run")
  /\ Readable
  /\ ~Claimable(w)
  /\ Rests(w)
  /\ UNCHANGED <<turn, calls, box, runs, pending, access, native, commands>>

\* An action of the turn is not settled: the turn waits for it.
Awaited(t) ==
  \E i \in DOMAIN calls[t] :
    calls[t][i].kind = "action" /\ (native => calls[t][i].running)

ClaimAwaits(w) ==
  LET t == worker[w].turn
  IN /\ At(w, "run")
     /\ Readable
     /\ Claimable(w)
     /\ Awaited(t)
     /\ turn' = Ended(t, "waiting", "action")
     /\ Rests(w)
     /\ UNCHANGED <<calls, box, runs, pending, access, native, commands>>

\* A Slack turn whose model ran before is never run again.
ClaimBlocks(w) ==
  LET t == worker[w].turn
  IN /\ At(w, "run")
     /\ Readable
     /\ Claimable(w)
     /\ ~Awaited(t)
     /\ ~native /\ turn[t].started
     /\ turn' = Ended(t, "blocked", "none")
     /\ Rests(w)
     /\ UNCHANGED <<calls, box, runs, pending, access, native, commands>>

\* The last attempts are spent, or the workspace has no credits.
ClaimFails(w) ==
  LET t == worker[w].turn
  IN /\ At(w, "run")
     /\ Readable
     /\ Claimable(w)
     /\ ~Awaited(t)
     /\ native \/ ~turn[t].started
     /\ turn' = Ended(t, "failed", "none")
     /\ calls' = [calls EXCEPT ![t] = Interrupted(t)]
     /\ Rests(w)
     /\ UNCHANGED <<box, runs, pending, access, native, commands>>

\* The turn under a new claim.
Claimed_SameEpoch(t) ==
  [turn EXCEPT ![t].status = "processing", ![t].attempts = @ + 1, ![t].live = TRUE,
               ![t].code = "none"]

Claimed(t) ==
  [turn EXCEPT ![t].status = "processing", ![t].epoch = @ + 1, ![t].attempts = @ + 1,
               ![t].live = TRUE, ![t].code = "none"]

ClaimTurn(w) ==
  LET t == worker[w].turn
  IN /\ At(w, "run")
     /\ Readable
     /\ Claimable(w)
     /\ ~Awaited(t)
     /\ native \/ ~turn[t].started
     /\ turn[t].attempts < attemptLimit(turn[t].code)
     /\ turn' = Claimed(t)
     /\ calls' = [calls EXCEPT ![t] = Interrupted(t)]
     /\ worker' = [worker EXCEPT ![w].stage = "claimed", ![w].epoch = Claimed(t)[t].epoch]
     /\ UNCHANGED <<box, runs, pending, access, native, commands>>

-----------------------------------------------------------------------------
\* The attempt

\* The claim the worker made is the turn's current one.
Fence(w) ==
  LET t == worker[w].turn
  IN /\ worker[w].stage \notin {"idle", "run", "settled"}
     /\ turn[t].status = "processing"
     /\ turn[t].gen = worker[w].gen
     /\ turn[t].epoch = worker[w].epoch
     /\ IsHead(t)

FenceLive(w) == Fence(w) /\ turn[worker[w].turn].live

\* A person chose Continue after every call recorded for the turn.
Continued(t) == native /\ calls[t] # <<>> /\ turn[t].waived = Len(calls[t])

\* The attempt may start from the receipts: it has the output of each call,
\* or a person chose Continue after them.
Resumable_NoOutputs(t) ==
  calls[t] = <<>> \/ Continued(t) \/ native

Resumable(t) ==
  \/ calls[t] = <<>>
  \/ Continued(t)
  \/ native /\ \A i \in DOMAIN calls[t] : calls[t][i].kept

Prepare(w) ==
  LET t == worker[w].turn
  IN /\ At(w, "claimed")
     /\ Readable
     /\ FenceLive(w)
     /\ IF Resumable(t)
        THEN /\ IF \E p \in pending : p[1] = t
                THEN Goes(w, "denied")
                ELSE Goes(w, "model")
             /\ turn' = [turn EXCEPT ![t].started = ~native \/ @]
        ELSE turn' = Ended(t, "failed", "none") /\ Rests(w)
     /\ UNCHANGED <<calls, box, runs, pending, access, native, commands>>

\* The start or the delivery of an attempt that lost its claim.
Stale(w) ==
  /\ worker[w].stage \in {"claimed", "ready"}
  /\ Readable
  /\ ~FenceLive(w)
  /\ Rests(w)
  /\ UNCHANGED <<turn, calls, box, runs, pending, access, native, commands>>

\* A tool or a model step finds the claim lost: the attempt is denied.
LoseFence(w) ==
  /\ worker[w].stage \in {"model", "tool"}
  /\ Readable
  /\ ~FenceLive(w)
  /\ Resumes(w, "denied")
  /\ UNCHANGED <<turn, calls, box, runs, pending, access, native, commands>>

\* The model calls a tool: its running receipt is written before the tool
\* runs, outside this transaction.
BeginCall(w) ==
  LET t == worker[w].turn
  IN /\ At(w, "model")
     /\ Readable
     /\ FenceLive(w)
     /\ Len(calls[t]) < MaxCalls
     /\ \E kind \in {"call", "action"} :
          calls' = [calls EXCEPT ![t] = Append(@,
            [kind |-> kind, running |-> TRUE, kept |-> FALSE, done |-> FALSE])]
     /\ worker' = [worker EXCEPT ![w].stage = "tool", ![w].call = Len(calls[t]) + 1,
                                 ![w].own = @ \cup {Len(calls[t]) + 1}]
     /\ UNCHANGED <<turn, box, runs, pending, access, native, commands>>

\* The tool's receipt ends with its output, if the chat keeps outputs.
CallDone(w) ==
  LET t == worker[w].turn
      i == worker[w].call
  IN /\ At(w, "tool")
     /\ Readable
     /\ FenceLive(w)
     /\ calls[t][i].kind = "call" \/ calls[t][i].done
     /\ calls' = [calls EXCEPT ![t][i].running = FALSE, ![t][i].kept = native]
     /\ Resumes(w, "model")
     /\ UNCHANGED <<turn, box, runs, pending, access, native, commands>>

\* A failed tool's receipt and the error told to the model are written by
\* two transactions; of a denied tool only the receipt is. A worker that
\* stops between the two leaves what a denied tool leaves.
CallFails(w) ==
  LET t == worker[w].turn
      i == worker[w].call
  IN /\ At(w, "tool")
     /\ Readable
     /\ FenceLive(w)
     /\ calls[t][i].kind = "call"
     /\ \E saved \in {FALSE, native} :
          calls' = [calls EXCEPT ![t][i].running = FALSE, ![t][i].kept = saved]
     /\ Resumes(w, "model")
     /\ UNCHANGED <<turn, box, runs, pending, access, native, commands>>

\* The outside action is not settled: the turn waits, its receipt running.
ActionWaits(w) ==
  LET t == worker[w].turn
  IN /\ At(w, "tool")
     /\ Readable
     /\ FenceLive(w)
     /\ calls[t][worker[w].call].kind = "action"
     /\ turn' = Ended(t, "waiting", "action")
     /\ Rests(w)
     /\ UNCHANGED <<calls, box, runs, pending, access, native, commands>>

\* The model asks the person: the question, its receipt and the wait are one
\* transaction.
AskPerson(w) ==
  LET t == worker[w].turn
  IN /\ At(w, "model")
     /\ Readable
     /\ FenceLive(w)
     /\ native
     /\ Len(calls[t]) < MaxCalls
     /\ calls' = [calls EXCEPT ![t] = Append(@,
          [kind |-> "call", running |-> FALSE, kept |-> TRUE, done |-> FALSE])]
     /\ pending' = pending \cup {<<t, turn[t].gen, turn[t].epoch>>}
     /\ turn' = Ended(t, "waiting", "none")
     /\ Rests(w)
     /\ UNCHANGED <<box, runs, access, native, commands>>

ModelAnswers(w) ==
  /\ At(w, "model")
  /\ Goes(w, "ready")
  /\ UNCHANGED <<turn, calls, box, runs, pending, access, native, commands>>

ModelFails(w) ==
  /\ At(w, "model")
  /\ Goes(w, "failing")
  /\ UNCHANGED <<turn, calls, box, runs, pending, access, native, commands>>

\* The final transaction: the reply, the completed turn, the next turn due.
Deliver(w) ==
  LET t == worker[w].turn
  IN /\ At(w, "ready")
     /\ Readable
     /\ FenceLive(w)
     /\ turn' = Ended(t, "completed", "none")
     /\ calls' = [calls EXCEPT ![t] = Interrupted(t)]
     /\ box' = NextIsDue(t, turn')
     /\ Rests(w)
     /\ UNCHANGED <<runs, pending, access, native, commands>>

\* The failed attempt's final transaction. It interrupts the receipts even
\* when only the lease has lapsed.
Fail(w) ==
  LET t == worker[w].turn
  IN /\ worker[w].stage \in {"failing", "denied"}
     /\ Readable
     /\ calls' = IF Fence(w) THEN [calls EXCEPT ![t] = Interrupted(t)] ELSE calls
     /\ IF FenceLive(w)
        THEN \E why \in IF At(w, "denied") THEN {"terminal"} ELSE Failures :
               LET spent == why = "terminal" \/ turn[t].attempts >= attemptLimit(why)
               IN /\ turn' = [Ended(t, IF spent THEN "failed" ELSE "queued",
                                     IF spent \/ why # "busy" THEN "none" ELSE "busy")
                               EXCEPT ![t].gen = @ + 1]
                  /\ box' = [box EXCEPT ![t] = ~spent]
        ELSE UNCHANGED <<turn, box>>
     /\ Rests(w)
     /\ UNCHANGED <<runs, pending, access, native, commands>>

-----------------------------------------------------------------------------
Works(w) ==
  \/ Prepare(w) \/ Stale(w) \/ LoseFence(w) \/ BeginCall(w) \/ CallDone(w)
  \/ CallFails(w) \/ ActionWaits(w) \/ AskPerson(w)
  \/ ModelAnswers(w) \/ ModelFails(w) \/ Deliver(w) \/ Fail(w)

Claims(w) ==
  ClaimNothing(w) \/ ClaimAwaits(w) \/ ClaimBlocks(w) \/ ClaimFails(w) \/ ClaimTurn(w)

Next ==
  \/ \E t \in Turns :
       \/ Send(t) \/ Retry(t) \/ Cancel(t)
       \/ Dispatch(t) \/ LeaseLapses(t) \/ ActionSettles(t)
  \/ Remove \/ LoseAccess \/ Expire
  \/ \E p \in pending : Resolve(p)
  \/ \E w \in Workers :
       \/ Crash(w) \/ Take(w) \/ Refused(w) \/ PollRead(w) \/ PollWrite(w)
       \/ Claims(w) \/ Works(w)

Spec == Init /\ [][Next]_vars

\* The sweep, the clock, the outside services and the expiry of questions
\* keep going; a worker that took a run goes on with it, and does not crash
\* at the same point for ever.
Fairness ==
  /\ \A t \in Turns :
       /\ WF_vars(Dispatch(t))
       /\ WF_vars(LeaseLapses(t)) /\ WF_vars(ActionSettles(t))
  /\ WF_vars(Expire)
  /\ \A w \in Workers :
       /\ WF_vars(Take(w)) /\ WF_vars(Works(w))
       /\ SF_vars(Refused(w)) /\ SF_vars(PollRead(w)) /\ SF_vars(PollWrite(w))
       /\ SF_vars(Claims(w))

FairSpec == Spec /\ Fairness

-----------------------------------------------------------------------------
CallType == [kind : Kinds, running : BOOLEAN, kept : BOOLEAN, done : BOOLEAN]

\* TypeOK: the values each variable takes; an attempt is under way exactly
\* when it may hold a lease, and a live lease belongs to one.
TypeOK ==
  /\ turn \in [Turns -> [status : Statuses, gen : Nat, epoch : Nat, attempts : 0..BusyLimit,
                         live : BOOLEAN, code : {"none", "busy", "action"},
                         waived : Nat, started : BOOLEAN]]
  /\ calls \in [Turns -> Seq(CallType)]
  /\ box \in [Turns -> BOOLEAN]
  /\ runs \subseteq Turns \X Nat
  /\ pending \subseteq Turns \X Nat \X Nat
  /\ worker \in [Workers ->
       [stage : {"idle", "run", "settled", "claimed", "model", "tool", "ready", "failing",
                 "denied"},
        turn : Turns \cup {0}, gen : Nat, epoch : Nat, call : Nat, own : SUBSET Nat]]
  /\ access \in {"ok", "unreadable", "departed", "deleted"}
  /\ native \in BOOLEAN
  /\ commands \in 0..MaxCommands
  /\ \A t \in Turns : turn[t].live => turn[t].status = "processing"

\* OneAttempt: however leases lapse and runs repeat, at most one worker holds
\* a claim that a transaction of the chat would still accept (claim raises
\* the epoch that head and guarded compare).
OneAttempt ==
  \A v, w \in Workers : Fence(v) /\ Fence(w) => v = w

\* NoBlindRerun: the model of an attempt that may still publish has seen what
\* every recorded call of its turn returned, made the call itself, or was
\* started by a person's Continue after the call. A retry never runs over a
\* call whose outcome nobody knows (README: an automatic retry never reruns
\* the model after tools have run).
NoBlindRerun ==
  \A w \in Workers :
    Fence(w) /\ worker[w].stage \in {"model", "tool", "ready"} =>
      \A i \in DOMAIN calls[worker[w].turn] :
        \/ calls[worker[w].turn][i].kept
        \/ i \in worker[w].own
        \/ i <= turn[worker[w].turn].waived

\* QuestionsCanExpire: a question nobody answered belongs to a turn that
\* waits where it was asked or that ended, so that the expiry of the
\* workspace's questions, one transaction for all of them, never aborts on it.
QuestionsCanExpire ==
  \A p \in pending : Asks(p) \/ turn[p[1]].status \in {"blocked", "cancelled"}

\* PromiseKept: replies come in the order of the messages, one each, and an
\* ended turn stays as it ended, whatever workers, people and expiry do.
Seen ==
  [t \in Turns |->
    CASE turn[t].status = "none" -> "unsent"
      [] turn[t].status = "completed" -> "answered"
      [] turn[t].status \in {"cancelled", "blocked"} -> "stopped"
      [] OTHER -> "open"]

Promise == INSTANCE ChatPromise WITH seen <- Seen

PromiseKept == Promise!Spec

\* TurnSettles: the chat's next turn is not left queued, processing or
\* waiting for ever: it ends, or fails where a person may continue it.
TurnSettles ==
  \A t \in Turns :
    IsHead(t) ~> (IsHead(t) => turn[t].status = "failed")
=============================================================================
