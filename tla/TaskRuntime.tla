----------------------------- MODULE TaskRuntime -----------------------------
(***************************************************************************)
(* One agent task as the workers that resume it see it: the steps of its   *)
(* runs, the model generation and the attempts of each step, the active    *)
(* time it is charged, and the owner's commands. Every action is one       *)
(* transaction under the task's advisory lock; what a worker carries from  *)
(* one transaction to the next is in worker. Two workers may process the   *)
(* same task, because a Temporal activity that timed out is retried while  *)
(* its first run may still be going on.                                    *)
(***************************************************************************)
EXTENDS Integers, FiniteSets, Sequences, Functions, ModelAttempt

CONSTANTS
    Workers,     \* the workers that process the task
    TimeLimit,   \* limits.activeMilliseconds
    RaiseBy,     \* by how much a continuation may raise it
    ToolLimit,   \* limits.toolCalls
    CallTimeout, \* modelCallTimeoutMs and its margin
    Headroom,    \* the active time a model call needs to be worth making
    WorkTimes,   \* how long file or tool work can take
    Budget,      \* budget_pico_usd of every generation
    MaxSteps,    \* the step limit of a run
    MaxAttempts, \* attempts of a generation: 3, or 2 without a fallback
    MaxCommands, \* bound on the owner's commands
    MaxCrashes,  \* bound on the workers' crashes
    Decisions,   \* the kinds of decision the model may take
    Failures,    \* the results other than an answer that a call may have
    Files,       \* whether the history refers to files
    Revocable,   \* the values a check of access or policy may have
    Routes       \* the ways in which the calls of the task's tools are carried out

ASSUME ConstantsFit ==
    /\ {TimeLimit, RaiseBy, ToolLimit, Headroom, Budget} \subseteq Nat
    /\ {MaxCommands, MaxCrashes} \subseteq Nat
    /\ {MaxSteps, MaxAttempts, CallTimeout} \subseteq Nat \ {0}
    /\ WorkTimes \subseteq Nat
    /\ Decisions \subseteq {"tools", "propose", "clarify", "answer"}
    /\ Failures \subseteq Results
    /\ Revocable \subseteq BOOLEAN /\ TRUE \in Revocable
    /\ Files \in BOOLEAN
    /\ Routes \subseteq {"inside", "knowledge", "mcp", "api", "images", "skills", "slack"}

VARIABLES
    task,     \* tf_agent_tasks: status, generation, active time and its limit, tool calls
    steps,    \* tf_agent_task_steps, each with its tf_model_generations row
    attempts, \* tf_model_attempts, each with its accounting rows
    works,    \* tf_agent_task_activity
    worker,   \* what each worker carries between its transactions
    used      \* how many commands the owner gave and how often a worker crashed

vars == <<task, steps, attempts, works, worker, used>>

ActiveStatuses == {"pending", "waiting-approval"}

-----------------------------------------------------------------------------
(* Rows. *)

NewStep ==
    [run |-> task.generation, done |-> FALSE, decision |-> "none",
     call |-> "none", route |-> "inside", admitted |-> FALSE, approval |-> "none",
     model |-> "pending", due |-> TRUE, open |-> TRUE, spent |-> 0, winner |-> 0]

Idle == [phase |-> "idle", step |-> 0, attempt |-> 0, work |-> 0,
         generation |-> 0, result |-> "none", elapsed |-> 0]

\* The step of the current run that is not completed; 0 if there is none.
OpenStep ==
    LET open == {n \in DOMAIN steps : steps[n].run = task.generation /\ ~steps[n].done}
    IN IF open = {} THEN 0 ELSE Max(open)

StepsOfRun == {n \in DOMAIN steps : steps[n].run = task.generation}

AttemptsOf(n) == {a \in DOMAIN attempts : attempts[a].step = n}

\* The call of step n ended: it is completed, or failed or blocked.
Over(n) == steps[n].call \in {"completed", "failed"}

\* The attempt still holds its lease: what settleAttempt, prepare and
\* recoverableTaskModels mean by a live attempt.
LiveAttempt(a) ==
    /\ attempts[a].status = "running"
    /\ attempts[a].live
    /\ steps[attempts[a].step].model = "running"

Calling == \E a \in DOMAIN attempts : LiveAttempt(a)

LiveWork(i) == works[i].status = "running" /\ works[i].live

Working == \E i \in DOMAIN works : LiveWork(i)

\* activeTaskWork: a reservation that expired is abandoned and stays charged.
\* Mutant: expired work is settled at nothing instead.
SweptSettled ==
    [i \in DOMAIN works |->
        IF works[i].status = "running" /\ ~works[i].live
        THEN [works[i] EXCEPT !.status = "settled", !.settled = 0] ELSE works[i]]

Swept ==
    [i \in DOMAIN works |->
        IF works[i].status = "running" /\ ~works[i].live
        THEN [works[i] EXCEPT !.status = "abandoned"] ELSE works[i]]

\* The rows of step n after failGeneration: its running attempt is abandoned
\* and its generation fails unless it is committed.
\* Mutant: a generation that waits for its next attempt does not fail.
FailedStepRunning(st) ==
    [st EXCEPT !.model = IF @ = "running" THEN "failed" ELSE @]

FailedStep(st) ==
    [st EXCEPT !.model = IF @ = "committed" THEN @ ELSE "failed"]

AbandonedOf(n) ==
    [a \in DOMAIN attempts |->
        IF attempts[a].step = n THEN Abandoned(attempts[a]) ELSE attempts[a]]

Go(w, phase) == worker' = [worker EXCEPT ![w].phase = phase]
Finish(w) == worker' = [worker EXCEPT ![w] = Idle]

-----------------------------------------------------------------------------
(* Active time. *)

\* settleTaskWork charges the time of a reservation that is still running,
\* whether or not it expired, and pauses the task at its limit.
WorkSettled(i, t) ==
    IF works[i].status # "running" THEN works
    ELSE [works EXCEPT ![i].status = "settled", ![i].settled = t]

TaskAfterWork(i, t) ==
    LET active == Max({0, task.active - works[i].reserved + t})
    IN IF works[i].status # "running" THEN task
       ELSE [task EXCEPT !.active = active,
                         !.status = IF @ \in ActiveStatuses /\ active >= task.limit
                                    THEN "paused" ELSE @]

\* reserveTaskWork reserves all the time that is left.
Reservation(active) ==
    [status |-> "running", live |-> TRUE,
     reserved |-> task.limit - active, settled |-> Open]

-----------------------------------------------------------------------------
(* Recovery of usage that was observed and not settled. *)

Recoverable == {a \in DOMAIN attempts : attempts[a].pending /\ ~LiveAttempt(a)}

SpentAfterRecovery(n) ==
    steps[n].spent
      + SumFunctionOnSet([a \in DOMAIN attempts |-> RecoveryCorrection(attempts[a])],
                         Recoverable \cap AttemptsOf(n))

\* The database refuses to let a generation's spending become negative; the
\* whole transaction is rolled back then.
RecoveryFits == \A n \in DOMAIN steps : SpentAfterRecovery(n) >= 0

recoverTaskModelUsage(rows) ==
    /\ RecoveryFits
    /\ attempts' = [a \in DOMAIN attempts |->
                       IF a \in Recoverable THEN Recovered(rows[a]) ELSE rows[a]]
    /\ steps' = [n \in DOMAIN steps |-> [steps[n] EXCEPT !.spent = SpentAfterRecovery(n)]]
    /\ task' = [task EXCEPT !.active =
                    Max({0, @ + SumFunctionOnSet([a \in DOMAIN attempts |-> TimeCorrection(attempts[a])],
                                                 Recoverable)})]

\* A worker takes the task up: pending() lists it while it is active or has
\* accounting to do, and process first recovers what it can.
Recover(w) ==
    /\ worker[w].phase = "idle"
    /\ Recoverable # {}
    /\ recoverTaskModelUsage(attempts)
    /\ UNCHANGED <<works, worker, used>>

Poll(w) ==
    /\ worker[w].phase = "idle"
    /\ Recoverable = {}
    /\ \/ task.status \in ActiveStatuses
       \/ \E a \in DOMAIN attempts : attempts[a].pending
    /\ Go(w, "prepare")
    /\ UNCHANGED <<task, steps, attempts, works, used>>

-----------------------------------------------------------------------------
(***************************************************************************)
(* prepare is one transaction. It goes on with no file or tool work under  *)
(* way, or, after reading the files, with the reservation of that work     *)
(* settled in the same transaction. An entry is what the rest of it sees:  *)
(* whether the files were read, the task's active time, and the works.     *)
(***************************************************************************)
Entries(w) ==
    IF task.status \notin ActiveStatuses THEN {}
    ELSE IF worker[w].phase = "prepare" /\ ~Working
    THEN {[files |-> FALSE, active |-> task.active, works |-> Swept]}
    ELSE IF worker[w].phase = "files" /\ LiveWork(worker[w].work)
    THEN {[files |-> TRUE,
           active |-> TaskAfterWork(worker[w].work, t).active,
           works |-> WorkSettled(worker[w].work, t)] :
             t \in {t \in WorkTimes :
                      TaskAfterWork(worker[w].work, t).status \in ActiveStatuses}}
    ELSE {}

\* The open step still waits for the model, or there is none.
AtModel == OpenStep # 0 => steps[OpenStep].decision \in {"none", "clarify"}

\* The step a call is made for, and the steps after it was inserted.
CallStep == IF OpenStep = 0 THEN Len(steps) + 1 ELSE OpenStep
CallSteps == IF OpenStep = 0 THEN Append(steps, NewStep) ELSE steps

\* What the limits leave room for.
Affords(active) ==
    /\ active + Headroom < task.limit
    /\ task.calls < ToolLimit
    /\ OpenStep = 0 => Cardinality(StepsOfRun) < MaxSteps

\* The checks before a generation may go on with a call.
Callable(e) ==
    /\ ~Calling
    /\ AtModel
    /\ Affords(e.active)
    /\ CallSteps[CallStep].model \in {"pending", "running"}

PrepareNothing(w) ==
    /\ worker[w].phase = "prepare"
    /\ \/ task.status \notin ActiveStatuses
       \/ Working
       \/ Calling
       \/ /\ task.active < task.limit
          /\ OpenStep # 0
          /\ LET st == steps[OpenStep]
             IN \/ st.decision = "propose" /\ st.approval = "none"
                \/ st.decision = "propose" /\ st.approval = "approve" /\ st.call = "failed"
                \/ AtModel /\ Affords(task.active) /\ st.model = "committed"
                \/ AtModel /\ Affords(task.active) /\ st.model # "failed" /\ st.open /\ ~st.due
    /\ works' = Swept
    /\ Finish(w)
    /\ UNCHANGED <<task, steps, attempts, used>>

\* A limit is reached, or the generation failed: the task pauses.
PreparePause(w) ==
    /\ ~Calling
    /\ \E e \in Entries(w) :
         /\ \/ e.active >= task.limit
            \/ AtModel /\ ~Affords(e.active)
            \/ OpenStep # 0 /\ AtModel /\ steps[OpenStep].model = "failed"
         /\ task' = [task EXCEPT !.status = "paused", !.active = e.active]
         /\ works' = e.works
    /\ Finish(w)
    /\ UNCHANGED <<steps, attempts, used>>

\* The step has a call to execute: a read, or an approved change.
PrepareTool(w) ==
    /\ ~Calling
    /\ OpenStep # 0
    /\ ~Over(OpenStep)
    /\ steps[OpenStep].call # "none"
    /\ \/ steps[OpenStep].decision = "tools"
       \/ steps[OpenStep].decision = "propose" /\ steps[OpenStep].approval = "approve"
    /\ \E e \in Entries(w) :
         /\ e.active < task.limit
         /\ task' = [task EXCEPT !.active = e.active]
         /\ works' = e.works
    /\ worker' = [worker EXCEPT ![w] = [Idle EXCEPT !.phase = "tool", !.step = OpenStep]]
    /\ UNCHANGED <<steps, attempts, used>>

\* Nothing is left to do for the step: its calls ended, or its batch was
\* rejected or carried out.
PrepareClose(w) ==
    /\ ~Calling
    /\ OpenStep # 0
    /\ LET st == steps[OpenStep]
       IN \/ st.decision = "tools" /\ Over(OpenStep)
          \/ st.decision = "propose" /\ st.approval = "reject"
          \/ st.decision = "propose" /\ st.approval = "approve" /\ st.call = "completed"
    /\ \E e \in Entries(w) :
         /\ e.active < task.limit
         /\ task' = [task EXCEPT !.active = e.active,
                                 !.status = IF steps[OpenStep].decision = "propose"
                                            THEN "pending" ELSE @]
         /\ works' = e.works
    /\ steps' = [steps EXCEPT ![OpenStep].done = TRUE]
    /\ Finish(w)
    /\ UNCHANGED <<attempts, used>>

\* The step is inserted, if there is none, even when the transaction then ends
\* without a call.
PrepareDeadline(w) ==
    /\ \E e \in Entries(w) :
         /\ Callable(e)
         /\ ~CallSteps[CallStep].open
         /\ task' = [task EXCEPT !.active = e.active]
         /\ works' = e.works
    /\ steps' = [CallSteps EXCEPT ![CallStep] = FailedStep(@)]
    /\ attempts' = AbandonedOf(CallStep)
    /\ Finish(w)
    /\ UNCHANGED used

\* The history refers to files: the remaining time is reserved to read them.
PrepareFiles(w) ==
    /\ Files
    /\ \E e \in Entries(w) :
         /\ ~e.files
         /\ Callable(e)
         /\ CallSteps[CallStep].open /\ CallSteps[CallStep].due
         /\ works' = Append(e.works, Reservation(e.active))
         /\ worker' = [worker EXCEPT ![w] = [Idle EXCEPT !.phase = "files",
                                                        !.work = Len(e.works) + 1]]
    /\ steps' = CallSteps
    /\ task' = [task EXCEPT !.active = task.limit]
    /\ UNCHANGED <<attempts, used>>

\* What claimAttempt refuses, an unreadable file, or a context that is too large:
\* the generation fails, and but for the refused claim the task pauses too.
PrepareRejects(w) ==
    /\ \E e \in Entries(w), stopped \in BOOLEAN :
         /\ Files => e.files
         /\ Callable(e)
         /\ CallSteps[CallStep].open /\ CallSteps[CallStep].due
         /\ stopped => FALSE \in Revocable
         /\ ~stopped => \/ Cardinality(AttemptsOf(CallStep)) = MaxAttempts
                        \/ FALSE \in Revocable
                        \/ CallSteps[CallStep].spent + ReservedCost > Budget
         /\ task' = [task EXCEPT !.active = e.active,
                                 !.status = IF stopped THEN "paused" ELSE @]
         /\ works' = e.works
    /\ steps' = [CallSteps EXCEPT ![CallStep] = FailedStep(@)]
    /\ attempts' = AbandonedOf(CallStep)
    /\ Finish(w)
    /\ UNCHANGED used

\* After failures the route is refused for a while. The attempt whose lease
\* ended is abandoned all the same.
PrepareHeld(w) ==
    /\ Failures \cap transient # {}
    /\ \E e \in Entries(w) :
         /\ Files => e.files
         /\ Callable(e)
         /\ CallSteps[CallStep].open /\ CallSteps[CallStep].due
         /\ Cardinality(AttemptsOf(CallStep)) < MaxAttempts
         /\ CallSteps[CallStep].spent + ReservedCost <= Budget
         /\ task' = [task EXCEPT !.active = e.active]
         /\ works' = e.works
    /\ steps' = CallSteps
    /\ attempts' = AbandonedOf(CallStep)
    /\ Finish(w)
    /\ UNCHANGED used

\* claimAttempt: an attempt whose lease ended is abandoned, the next one takes
\* the lease, and its cost and its time are reserved.
PrepareCall(w) ==
    /\ \E e \in Entries(w) :
         /\ Files => e.files
         /\ Callable(e)
         /\ CallSteps[CallStep].open /\ CallSteps[CallStep].due
         /\ Cardinality(AttemptsOf(CallStep)) < MaxAttempts
         /\ CallSteps[CallStep].spent + ReservedCost <= Budget
         /\ LET milliseconds == Min({CallTimeout, task.limit - e.active})
            IN /\ attempts' = Append(AbandonedOf(CallStep), NewAttempt(CallStep, milliseconds))
               /\ task' = [task EXCEPT !.active = e.active + milliseconds]
         /\ works' = e.works
    /\ steps' = [CallSteps EXCEPT ![CallStep].model = "running",
                                  ![CallStep].spent = @ + ReservedCost]
    /\ worker' = [worker EXCEPT ![w] =
                     [Idle EXCEPT !.phase = "model", !.step = CallStep,
                                  !.attempt = Len(attempts) + 1,
                                  !.generation = task.generation]]
    /\ UNCHANGED used

\* The files cannot be read any more, their reservation ended, or it used up
\* the time: the work is settled and nothing else happens.
FilesEnd(w) ==
    /\ worker[w].phase = "files"
    /\ \E t \in WorkTimes :
         /\ works' = WorkSettled(worker[w].work, t)
         /\ task' = TaskAfterWork(worker[w].work, t)
    /\ Finish(w)
    /\ UNCHANGED <<steps, attempts, used>>

\* Access or the model was refused: the transaction is rolled back, the files'
\* work is settled, and a second transaction stops the task.
PrepareDenied(w) ==
    /\ FALSE \in Revocable
    /\ task.status \in ActiveStatuses
    /\ \/ /\ worker[w].phase = "prepare"
          /\ ~Working
          /\ UNCHANGED <<task, works>>
       \/ /\ worker[w].phase = "files"
          /\ \E t \in WorkTimes :
               /\ works' = WorkSettled(worker[w].work, t)
               /\ task' = TaskAfterWork(worker[w].work, t)
    /\ worker' = [worker EXCEPT ![w] = [Idle EXCEPT !.phase = "denied"]]
    /\ UNCHANGED <<steps, attempts, used>>

Deny(w) ==
    /\ worker[w].phase = "denied"
    /\ \E stopped \in {"failed", "paused"} :
         task' = [task EXCEPT !.status = IF @ \in ActiveStatuses THEN stopped ELSE @]
    /\ Finish(w)
    /\ UNCHANGED <<steps, attempts, works, used>>

-----------------------------------------------------------------------------
(* The call to the model. *)

\* The worker has its result and will record it.
Ended(w, result, elapsed) ==
    worker' = [worker EXCEPT ![w].phase = "answered", ![w].result = result,
                             ![w].elapsed = elapsed]

Dispatchable(w) ==
    /\ task.status = "pending"
    /\ task.generation = worker[w].generation
    /\ attempts[worker[w].attempt].status = "running"
    /\ attempts[worker[w].attempt].live

Dispatch(w) ==
    /\ worker[w].phase = "model"
    /\ Dispatchable(w)
    /\ TRUE \in Revocable
    /\ Go(w, "asking")
    /\ UNCHANGED <<task, steps, attempts, works, used>>

\* A task that is not active, or an owner whose access is gone, fails the
\* access check, and the exception ends the call as a client error. A memory
\* that grew since the claim makes the route unavailable for the call.
DispatchRefused(w) ==
    /\ worker[w].phase = "model"
    /\ \/ /\ task.status \notin ActiveStatuses \/ FALSE \in Revocable
          /\ Ended(w, "provider-error", 0)
       \/ /\ task.status \in ActiveStatuses
          /\ ~Dispatchable(w) \/ FALSE \in Revocable
          /\ Ended(w, "not-started", 0)
       \/ /\ Dispatchable(w)
          /\ "unavailable" \in Failures
          /\ Ended(w, "unavailable", 0)
    /\ UNCHANGED <<task, steps, attempts, works, used>>

\* The provider answers, or the request is aborted when its time is over.
Answer(w) ==
    /\ worker[w].phase = "asking"
    /\ LET reserved == attempts[worker[w].attempt].reserved
       IN \/ \E result \in ({"answer"} \cup Failures) \ {"timeout", "not-started"} :
               \E elapsed \in {1, reserved} : Ended(w, result, elapsed)
          \/ "timeout" \in Failures /\ Ended(w, "timeout", reserved)
    /\ UNCHANGED <<task, steps, attempts, works, used>>

Observe(w) ==
    /\ worker[w].phase = "answered"
    /\ attempts' = [attempts EXCEPT ![worker[w].attempt] =
                       Observed(@, worker[w].result = "answer", worker[w].elapsed)]
    /\ Go(w, "observed")
    /\ UNCHANGED <<task, steps, works, used>>

-----------------------------------------------------------------------------
(***************************************************************************)
(* The settlement of a call: one transaction that settles the attempt and  *)
(* its time and, if the attempt is still live and answered, publishes the  *)
(* decision or withdraws it.                                               *)
(***************************************************************************)
\* What settling leaves of the attempt row; an aborted request may still be
\* answered, and then its callback observes that.
SettledRow(w, at) ==
    [TimeSettled(at) EXCEPT !.late = IF worker[w].result = "timeout" THEN "armed" ELSE @]

ActiveAfter(w) ==
    Max({0, task.active + TimeCorrection(attempts[worker[w].attempt])})

\* What the settlement leaves of the generation's spending. The database refuses
\* a transaction that would make it negative.
SpentAfter(w) ==
    LET at == attempts[worker[w].attempt]
        result == worker[w].result
    IN steps[worker[w].step].spent
         + IF LiveAttempt(worker[w].attempt) THEN LiveCorrection(result)
           ELSE LateCorrection(at, result, result = "answer")

SettlementFits(w) == SpentAfter(w) >= 0

SettleLate(w) ==
    LET result == worker[w].result
    IN /\ worker[w].phase = "observed"
       /\ ~LiveAttempt(worker[w].attempt)
       /\ SettlementFits(w)
       /\ attempts' = [attempts EXCEPT ![worker[w].attempt] =
                          SettledRow(w, SettledLate(@, result, result = "answer"))]
       /\ steps' = [steps EXCEPT ![worker[w].step].spent = SpentAfter(w)]
       /\ task' = [task EXCEPT !.active = ActiveAfter(w)]
       /\ Finish(w)
       /\ UNCHANGED <<works, used>>

\* What every settlement of a live attempt writes to its attempt.
SettlesLive(w) ==
    /\ worker[w].phase = "observed"
    /\ LiveAttempt(worker[w].attempt)
    /\ SettlementFits(w)
    /\ attempts' = [attempts EXCEPT ![worker[w].attempt] =
                       SettledRow(w, SettledLive(@, worker[w].result))]
    /\ Finish(w)
    /\ UNCHANGED <<works, used>>

\* The step with the attempt's charge in place of its reservation.
Charged(w) ==
    [steps[worker[w].step] EXCEPT !.spent = SpentAfter(w)]

\* The call failed, or another model answered: a transient failure is retried
\* after a delay while attempts and time are left, any other fails the
\* generation. The next preparation pauses the task for it.
SettleFailure(w) ==
    /\ SettlesLive(w)
    /\ ~Decisive(worker[w].result)
    /\ \E late \in BOOLEAN :
         LET retried == /\ worker[w].result \in transient
                        /\ Cardinality(AttemptsOf(worker[w].step)) < MaxAttempts
                        /\ ~late
         IN /\ late => worker[w].result \in transient
            /\ steps' = [steps EXCEPT ![worker[w].step] =
                           IF retried THEN [Charged(w) EXCEPT !.model = "pending", !.due = FALSE]
                           ELSE FailedStep(Charged(w))]
    /\ task' = [task EXCEPT !.active = ActiveAfter(w)]

\* The task was interrupted since the call was made, or may not do this any
\* more.
\* Mutant: the settlement does not look at the task's status.
InterruptedByReopen(w) == task.generation # worker[w].generation

Interrupted(w) ==
    \/ task.status # "pending"
    \/ task.generation # worker[w].generation

\* A batch that is not rejected and whose change is not carried out.
OpenProposal ==
    \E n \in DOMAIN steps : /\ steps[n].decision = "propose"
                            /\ steps[n].approval # "reject"
                            /\ steps[n].call # "completed"

\* The savepoint is rolled back: the generation fails and the task with it,
\* whatever its status was.
SettleWithdrawn(w) ==
    /\ SettlesLive(w)
    /\ Decisive(worker[w].result)
    /\ \/ Interrupted(w)
       \/ FALSE \in Revocable
       \/ Charged(w).spent > Budget
       \/ OpenProposal /\ {"propose", "answer"} \cap Decisions # {}
    /\ steps' = [steps EXCEPT ![worker[w].step] = FailedStep(Charged(w))]
    /\ task' = [task EXCEPT !.active = ActiveAfter(w), !.status = "failed"]

\* The decision exceeds a limit: the generation fails and the task pauses.
SettleLimited(w) ==
    /\ SettlesLive(w)
    /\ Decisive(worker[w].result)
    /\ ~Interrupted(w)
    /\ Charged(w).spent <= Budget
    /\ \/ ActiveAfter(w) >= task.limit
       \/ {"tools", "propose"} \cap Decisions # {} /\ task.calls + 1 > ToolLimit
    /\ steps' = [steps EXCEPT ![worker[w].step] = FailedStep(Charged(w))]
    /\ task' = [task EXCEPT !.active = ActiveAfter(w), !.status = "paused"]

\* The status that each decision leads to.
StatusAfter(decision) ==
    [tools |-> "pending", propose |-> "waiting-approval",
     clarify |-> "waiting-clarification", answer |-> "completed",
     conflict |-> "pending"][decision]

SettlePublished(w) ==
    /\ SettlesLive(w)
    /\ Decisive(worker[w].result)
    /\ ~Interrupted(w)
    /\ Charged(w).spent <= Budget
    /\ ActiveAfter(w) < task.limit
    /\ \E decision \in Decisions \cup (IF "propose" \in Decisions THEN {"conflict"} ELSE {}),
          route \in Routes :
         /\ decision # "tools" => route = "inside"
         /\ decision \in {"propose", "conflict"} => task.calls + 1 <= ToolLimit
         /\ decision \in {"propose", "answer", "conflict"} => ~OpenProposal
         /\ steps' = [steps EXCEPT ![worker[w].step] =
                        [Charged(w) EXCEPT !.model = "committed",
                                           !.winner = worker[w].attempt,
                                           !.decision = decision,
                                           !.call = IF decision \in {"tools", "propose"}
                                                    THEN "pending" ELSE "none",
                                           !.route = route,
                                           !.done = decision \in {"answer", "conflict"}]]
         /\ task' = [task EXCEPT !.active = ActiveAfter(w), !.status = StatusAfter(decision)]

\* The transaction fails, or the database refuses it: nothing is written, and
\* the callback of an aborted request is attached all the same.
SettleLost(w) ==
    /\ worker[w].phase = "observed"
    /\ \/ used.crashes < MaxCrashes /\ used' = [used EXCEPT !.crashes = @ + 1]
       \/ ~SettlementFits(w) /\ UNCHANGED used
    /\ attempts' = [attempts EXCEPT ![worker[w].attempt].late =
                       IF worker[w].result = "timeout" THEN "armed" ELSE @]
    /\ Finish(w)
    /\ UNCHANGED <<task, steps, works>>

\* The aborted request answers after all.
LateObserve(a) ==
    /\ attempts[a].late = "armed"
    /\ \E reported \in BOOLEAN :
         attempts' = [attempts EXCEPT ![a] =
             [Observed(@, reported, @.reserved + 1) EXCEPT !.late = "observed"]]
    /\ UNCHANGED <<task, steps, works, worker, used>>

LateRecover(a) ==
    /\ attempts[a].late = "observed"
    /\ LET rows == [attempts EXCEPT ![a].late = "none"]
       IN \/ recoverTaskModelUsage(rows)
          \/ ~RecoveryFits /\ attempts' = rows /\ UNCHANGED <<task, steps>>
    /\ UNCHANGED <<works, worker, used>>

-----------------------------------------------------------------------------
(***************************************************************************)
(* The execution of a step's call. The executor admits the call in one     *)
(* transaction and begins it in a second, which carries it out at once     *)
(* ("inside": tables, rows, schemas, files, the web) or commits "waiting". *)
(* Then the call is made outside, and a third transaction records what     *)
(* came of it. Each transaction checks for itself, and what the second and *)
(* the third check differs from tool to tool.                              *)
(***************************************************************************)
\* The routes whose outcome is recorded under the reservation, those for which
\* the task is looked at then, and those whose outcome may be to wait longer:
\* for an approval, an answer or another attempt. "mcp" also stands for
\* GitHub's personal tools, and "api" for the requests for secrets.
CompletesLive == {"skills", "images"}
CompletesAllowed == {"knowledge", "mcp", "api", "skills"}
MayWait == {"mcp", "api", "slack"}

\* taskOutputAllowed: may a call of step n still be executed?
Allowed(n) == task.status \in ActiveStatuses /\ task.generation = steps[n].run

Executable(n) == ~Over(n) /\ Allowed(n)

Reports(w, result) ==
    worker' = [worker EXCEPT ![w].phase = "report", ![w].result = result]

\* The call ended already.
ToolEnded(w) ==
    /\ worker[w].phase = "tool"
    /\ Over(worker[w].step)
    /\ Reports(w, "ended")
    /\ UNCHANGED <<task, steps, attempts, works, used>>

\* The outside has not decided yet, other work of the task is under way, or a
\* limit is reached, which pauses it.
ToolWaits(w) ==
    LET n == worker[w].step
    IN /\ worker[w].phase = "tool"
       /\ ~Over(n)
       /\ \/ /\ steps[n].call = "waiting"
             /\ \/ steps[n].route = "mcp"
                \/ steps[n].route = "slack" /\ Allowed(n)
             /\ UNCHANGED <<task, works>>
          \/ Allowed(n) /\ Calling /\ UNCHANGED <<task, works>>
          \/ Allowed(n) /\ ~Calling /\ Working /\ works' = Swept /\ UNCHANGED task
          \/ /\ Allowed(n) /\ ~Calling /\ ~Working
             /\ \/ ~steps[n].admitted /\ task.calls >= ToolLimit
                \/ task.active >= task.limit
             /\ works' = Swept
             /\ task' = [task EXCEPT !.status = "paused"]
       /\ Reports(w, "waiting")
       /\ UNCHANGED <<steps, attempts, used>>

\* admitTaskCall counts the call once; reserveTaskWork takes the time left.
\* Mutant: a call is counted whenever it is tried.
AdmissionsAgain(n) == task.calls + 1

Admissions(n) == task.calls + (IF steps[n].admitted THEN 0 ELSE 1)

ToolAdmit(w) ==
    LET n == worker[w].step
    IN /\ worker[w].phase = "tool"
       /\ Executable(n)
       /\ ~Calling
       /\ ~Working
       /\ task.active < task.limit
       /\ steps[n].admitted \/ task.calls < ToolLimit
       /\ task' = [task EXCEPT !.calls = Admissions(n), !.active = task.limit]
       /\ steps' = [steps EXCEPT ![n].admitted = TRUE]
       /\ works' = Append(Swept, Reservation(task.active))
       /\ worker' = [worker EXCEPT ![w].phase = "working", ![w].work = Len(works) + 1]
       /\ UNCHANGED <<attempts, used>>

\* The transaction that begins the call looks at its reservation first.
\* Mutant: the reservation is not looked at.
MayRunAlways(w) == TRUE

MayRun(w) == LiveWork(worker[w].work)

ToolTooLate(w) ==
    /\ worker[w].phase = "working"
    /\ ~MayRun(w)
    /\ worker' = [worker EXCEPT ![w].phase = "ran", ![w].result = "waiting"]
    /\ UNCHANGED <<task, steps, attempts, works, used>>

\* A call that is carried out inside, or ended meanwhile, is settled with it.
ToolRun(w) ==
    LET n == worker[w].step
    IN /\ worker[w].phase = "working"
       /\ MayRun(w)
       /\ \/ Over(n) /\ UNCHANGED steps
          \/ /\ Executable(n)
             /\ steps[n].route = "inside"
             /\ steps' = [steps EXCEPT ![n].call = "completed"]
       /\ \E t \in WorkTimes :
            /\ works' = WorkSettled(worker[w].work, t)
            /\ task' = TaskAfterWork(worker[w].work, t)
       /\ Reports(w, "ended")
       /\ UNCHANGED <<attempts, used>>

ToolBegin(w) ==
    LET n == worker[w].step
    IN /\ worker[w].phase = "working"
       /\ MayRun(w)
       /\ Executable(n)
       /\ steps[n].route # "inside"
       /\ steps' = [steps EXCEPT ![n].call = "waiting"]
       /\ Go(w, "acting")
       /\ UNCHANGED <<task, attempts, works, used>>

\* The outcome is written to a call that still waits, whoever carried it out.
\* Mutant: it is written to a call that ended.
RecordedAnyway(call, outcome) == outcome

Recorded(call, outcome) == IF call = "waiting" THEN outcome ELSE call

\* Does the transaction that records the outcome accept it?
\* Mutant: no route looks at the reservation again.
MayRecordAllowed(w) ==
    steps[worker[w].step].route \in CompletesAllowed => Allowed(worker[w].step)

MayRecord(w) ==
    LET n == worker[w].step
    IN /\ steps[n].route \in CompletesAllowed => Allowed(n)
       /\ steps[n].route \in CompletesLive => LiveWork(worker[w].work)
       /\ steps[n].route = "skills" => steps[n].call = "waiting"

ToolComplete(w) ==
    LET n == worker[w].step
        outcomes == {"completed"}
                      \cup (IF steps[n].route \in MayWait THEN {"waiting"} ELSE {})
                      \cup (IF steps[n].route = "slack" THEN {"failed"} ELSE {})
    IN /\ worker[w].phase = "acting"
       /\ MayRecord(w)
       /\ \E outcome \in outcomes :
            /\ steps' = [steps EXCEPT ![n].call = Recorded(@, outcome)]
            /\ worker' = [worker EXCEPT ![w].phase = "ran",
                                       ![w].result = IF outcome = "waiting" THEN "waiting"
                                                     ELSE "ended"]
       /\ UNCHANGED <<task, attempts, works, used>>

\* A transaction refuses, or the tool fails: what happened so far stands, and a
\* transaction of its own blocks the call.
ToolRefused(w) ==
    LET n == worker[w].step
    IN /\ \/ /\ worker[w].phase = "tool"
             /\ ~Over(n)
             /\ ~Allowed(n) \/ FALSE \in Revocable
          \/ worker[w].phase = "working" /\ MayRun(w) /\ steps[n].call # "completed"
          \/ worker[w].phase = "acting"
       /\ Go(w, "refusing")
       /\ UNCHANGED <<task, steps, attempts, works, used>>

\* Nothing but a completed call is spared, not even one that another worker is
\* carrying out.
ToolBlock(w) ==
    /\ worker[w].phase = "refusing"
    /\ steps' = [steps EXCEPT ![worker[w].step].call =
                     IF @ = "completed" THEN @ ELSE "failed"]
    /\ worker' = [worker EXCEPT ![w].phase = IF worker[w].work = 0 THEN "report" ELSE "ran",
                               ![w].result = "ended"]
    /\ UNCHANGED <<task, attempts, works, used>>

\* The reservation is settled last, unless the call settled it.
ToolSettle(w) ==
    /\ worker[w].phase = "ran"
    /\ \E t \in WorkTimes :
         /\ works' = WorkSettled(worker[w].work, t)
         /\ task' = TaskAfterWork(worker[w].work, t)
    /\ Go(w, "report")
    /\ UNCHANGED <<steps, attempts, used>>

\* An exception that is none of the tools' own blocks nothing: the reservation
\* is settled and the activity fails.
ToolThrows(w) ==
    /\ used.crashes < MaxCrashes
    /\ worker[w].phase \in {"working", "acting"}
    /\ \E t \in WorkTimes :
         /\ works' = WorkSettled(worker[w].work, t)
         /\ task' = TaskAfterWork(worker[w].work, t)
    /\ Finish(w)
    /\ used' = [used EXCEPT !.crashes = @ + 1]
    /\ UNCHANGED <<steps, attempts>>

\* process records the outcome of a step's own call; an approved change is left
\* to the next preparation. A task whose call waits for the outside waits too.
ToolReport(w) ==
    LET n == worker[w].step
        own == steps[n].decision = "tools"
        waits == worker[w].result = "waiting" /\ steps[n].route \in MayWait
    IN /\ worker[w].phase = "report"
       /\ steps' = [steps EXCEPT ![n].done = @ \/ (own /\ worker[w].result = "ended")]
       /\ task' = [task EXCEPT !.status = IF own /\ @ \in ActiveStatuses
                                         THEN IF waits THEN "waiting-approval" ELSE "pending"
                                         ELSE @]
       /\ Finish(w)
       /\ UNCHANGED <<attempts, works, used>>

-----------------------------------------------------------------------------
(* The owner. *)

Commanded == used.commands < MaxCommands /\ used' = [used EXCEPT !.commands = @ + 1]

pause ==
    /\ Commanded
    /\ task.status \notin {"completed", "paused"}
    /\ task' = [task EXCEPT !.status = "paused"]
    /\ UNCHANGED <<steps, attempts, works, worker>>

\* What a continuation waits for.
NothingRunning ==
    /\ ~Working
    /\ \A a \in DOMAIN attempts : attempts[a].status = "running" => ~attempts[a].live

continueTask ==
    /\ Commanded
    /\ task.status \in {"waiting-clarification", "paused", "failed"}
    /\ NothingRunning
    /\ \E raise \in {0, RaiseBy} :
         task' = [task EXCEPT !.status = "pending", !.limit = @ + raise]
    /\ steps' = [n \in DOMAIN steps |->
                    IF /\ steps[n].run = task.generation
                       /\ steps[n].decision = "clarify" \/ steps[n].model = "failed"
                    THEN [steps[n] EXCEPT !.done = TRUE] ELSE steps[n]]
    /\ UNCHANGED <<attempts, works, worker>>

reopen ==
    /\ Commanded
    /\ task.status = "completed"
    /\ task' = [task EXCEPT !.status = "pending", !.generation = @ + 1]
    /\ UNCHANGED <<steps, attempts, works, worker>>

\* An approval needs an active task; a rejection does not.
decide ==
    /\ Commanded
    /\ \E n \in DOMAIN steps, decision \in {"approve", "reject"} :
         /\ steps[n].decision = "propose"
         /\ steps[n].approval = "none"
         /\ steps[n].run = task.generation
         /\ decision = "approve" => task.status \in ActiveStatuses
         /\ steps' = [steps EXCEPT ![n].approval = decision]
    /\ UNCHANGED <<task, attempts, works, worker>>

-----------------------------------------------------------------------------
(* Time, and the loss of workers. *)

\* A lease covers the request and two seconds to settle it, which a slow worker
\* exceeds.
LeaseEnds(a) ==
    /\ attempts[a].status = "running"
    /\ attempts[a].live
    /\ attempts' = [attempts EXCEPT ![a].live = FALSE]
    /\ UNCHANGED <<task, steps, works, worker, used>>

\* A lease never outlasts the deadline of its generation.
DeadlinePasses(n) ==
    /\ steps[n].open
    /\ steps[n].model \in {"pending", "running"}
    /\ \A a \in AttemptsOf(n) : attempts[a].status = "running" => ~attempts[a].live
    /\ steps' = [steps EXCEPT ![n].open = FALSE]
    /\ UNCHANGED <<task, attempts, works, worker, used>>

BackoffEnds(n) ==
    /\ ~steps[n].due
    /\ steps' = [steps EXCEPT ![n].due = TRUE]
    /\ UNCHANGED <<task, attempts, works, worker, used>>

WorkExpires(i) ==
    /\ LiveWork(i)
    /\ works' = [works EXCEPT ![i].live = FALSE]
    /\ UNCHANGED <<task, steps, attempts, worker, used>>

Crash(w) ==
    /\ used.crashes < MaxCrashes
    /\ worker[w].phase # "idle"
    /\ Finish(w)
    /\ used' = [used EXCEPT !.crashes = @ + 1]
    /\ UNCHANGED <<task, steps, attempts, works>>

LateLost(a) ==
    /\ used.crashes < MaxCrashes
    /\ attempts[a].late # "none"
    /\ attempts' = [attempts EXCEPT ![a].late = "none"]
    /\ used' = [used EXCEPT !.crashes = @ + 1]
    /\ UNCHANGED <<task, steps, works, worker>>

-----------------------------------------------------------------------------
Init ==
    /\ task = [status |-> "pending", generation |-> 0, active |-> 0,
               limit |-> TimeLimit, calls |-> 0]
    /\ steps = <<>>
    /\ attempts = <<>>
    /\ works = <<>>
    /\ worker = [w \in Workers |-> Idle]
    /\ used = [commands |-> 0, crashes |-> 0]

Prepare(w) ==
    \/ PrepareNothing(w) \/ PreparePause(w) \/ PrepareTool(w) \/ PrepareClose(w)
    \/ PrepareDeadline(w) \/ PrepareFiles(w) \/ PrepareRejects(w) \/ PrepareHeld(w)
    \/ PrepareCall(w)
    \/ FilesEnd(w) \/ PrepareDenied(w) \/ Deny(w)

Model(w) == Dispatch(w) \/ DispatchRefused(w) \/ Answer(w) \/ Observe(w)

Settle(w) ==
    \/ SettleLate(w) \/ SettleFailure(w) \/ SettleWithdrawn(w) \/ SettleLimited(w)
    \/ SettlePublished(w) \/ SettleLost(w)

Tool(w) ==
    \/ ToolEnded(w) \/ ToolWaits(w) \/ ToolAdmit(w)
    \/ ToolTooLate(w) \/ ToolRun(w) \/ ToolBegin(w) \/ ToolComplete(w)
    \/ ToolRefused(w) \/ ToolBlock(w)
    \/ ToolSettle(w) \/ ToolReport(w)

process(w) == Recover(w) \/ Poll(w) \/ Prepare(w) \/ Model(w) \/ Settle(w) \/ Tool(w)

Late(a) == LateObserve(a) \/ LateRecover(a)

Owner == pause \/ continueTask \/ reopen \/ decide

Time ==
    \/ \E a \in DOMAIN attempts : LeaseEnds(a)
    \/ \E n \in DOMAIN steps : DeadlinePasses(n) \/ BackoffEnds(n)
    \/ \E i \in DOMAIN works : WorkExpires(i)

Next ==
    \/ \E w \in Workers : process(w) \/ ToolThrows(w) \/ Crash(w)
    \/ \E a \in DOMAIN attempts : Late(a) \/ LateLost(a)
    \/ Owner
    \/ Time

Spec == Init /\ [][Next]_vars

(***************************************************************************)
(* Fairness: Temporal runs an activity until it ends and retries it, the   *)
(* recovery workflow wakes every task that pending() lists, an aborted     *)
(* request settles, and time passes. Nobody owes a command or a crash.     *)
(***************************************************************************)
AttemptBound == 1 .. MaxAttempts * MaxSteps * (MaxCommands + 1)
StepBound == 1 .. MaxSteps * (MaxCommands + 1)
WorkBound == 1 .. TimeLimit + RaiseBy * MaxCommands \* each takes a unit of time or more

Fairness ==
    /\ \A w \in Workers : WF_vars(process(w))
    /\ \A a \in AttemptBound :
         /\ WF_vars(a \in DOMAIN attempts /\ Late(a))
         /\ WF_vars(a \in DOMAIN attempts /\ LeaseEnds(a))
    /\ \A n \in StepBound :
         /\ WF_vars(n \in DOMAIN steps /\ BackoffEnds(n))
         /\ WF_vars(n \in DOMAIN steps /\ DeadlinePasses(n))
    /\ \A i \in WorkBound : WF_vars(i \in DOMAIN works /\ WorkExpires(i))

FairSpec == Spec /\ Fairness

-----------------------------------------------------------------------------
(* Properties. *)

\* The shape of every row and of what the workers carry.
TypeOK ==
    /\ task \in [status: {"pending", "waiting-approval", "waiting-clarification",
                          "completed", "paused", "failed"},
                 generation: 0 .. MaxCommands, active: Nat, limit: Nat, calls: 0 .. ToolLimit]
    /\ steps \in Seq([run: Nat, done: BOOLEAN,
                     decision: {"none", "tools", "propose", "conflict", "clarify", "answer"},
                     call: {"none", "pending", "waiting", "completed", "failed"},
                     route: Routes \cup {"inside"}, admitted: BOOLEAN,
                     approval: {"none", "approve", "reject"},
                     model: {"pending", "running", "failed", "committed"},
                     due: BOOLEAN, open: BOOLEAN, spent: 0 .. Budget, winner: Nat])
    /\ attempts \in Seq(AttemptRows)
    /\ works \in Seq([status: {"running", "settled", "abandoned"}, live: BOOLEAN,
                     reserved: Nat, settled: Nat \cup {Open}])
    /\ worker \in [Workers -> [phase: {"idle", "prepare", "denied", "files", "model",
                                      "asking", "answered", "observed", "tool", "working",
                                      "acting", "refusing", "ran", "report"},
                               step: Nat, attempt: Nat, work: Nat, generation: Nat,
                               result: Results \cup {"none", "ended", "waiting"},
                               elapsed: Nat]]
    /\ used \in [commands: 0 .. MaxCommands, crashes: 0 .. MaxCrashes]

\* A call begins only under a reservation of time that still runs, and no outcome
\* of it is recorded while the model is asked. What is carried out inside, and
\* what images and skills bring back, is recorded only under a reservation too; the
\* other outside calls may record late what they began in time.
EffectsReserved ==
    [][/\ \A n \in DOMAIN steps :
            steps'[n].call = "completed" /\ steps[n].call # "completed" =>
               /\ ~Calling
               /\ steps[n].route \in CompletesLive \cup {"inside"} => Working
       /\ \A w \in Workers :
            worker'[w].phase = "acting" /\ worker[w].phase # "acting" =>
               Working /\ ~Calling]_vars

\* A call that ended keeps its outcome, although a worker that lost its reservation
\* comes back with another one, or is refused and blocks the call.
OutcomesStay ==
    [][\A n \in DOMAIN steps : Over(n) => steps'[n].call = steps[n].call]_vars

\* What a reservation of work is counted for, and what a generation owes for
\* an attempt.
WorkCounted(work) == IF work.status = "settled" THEN work.settled ELSE work.reserved
Owed(at) == IF at.charged = Open THEN ReservedCost ELSE at.charged

\* The task's active time is what its model calls and its work were counted
\* for, each exactly once: the time they took when that was settled, and the
\* reservation otherwise, also after the worker was lost.
TimeAccounted ==
    task.active =
        SumFunctionOnSet([a \in DOMAIN attempts |-> Counted(attempts[a])], DOMAIN attempts)
          + SumFunctionOnSet([i \in DOMAIN works |-> WorkCounted(works[i])], DOMAIN works)

\* A generation's spending is the charge of every attempt whose credits are
\* settled and the reservation of every other: each attempt is corrected once,
\* by its answer, its late settlement, its recovery or its late callback. This
\* leaves out the generations of which an attempt was settled after its lease,
\* without usage, and then abandoned with what it noted (Forgets).
SpendingAgrees(n) ==
    steps[n].spent =
        SumFunctionOnSet([a \in DOMAIN attempts |-> Owed(attempts[a])], AttemptsOf(n))

Forgets(n) == \E a \in AttemptsOf(n) : attempts[a].forgotten

SpentOnce == \A n \in DOMAIN steps : ~Forgets(n) => SpendingAgrees(n)

\* The same of every generation: task-accounting.integration.mjs expects that a
\* late settlement corrects both ledgers once.
LateSpentOnce == \A n \in DOMAIN steps : SpendingAgrees(n)

\* A call counts against the tool limit once, however often it is tried.
CallsCountedOnce ==
    task.calls = Cardinality({n \in DOMAIN steps : steps[n].admitted})

\* A generation with a decision has one winner: an attempt of its own that
\* succeeded with known usage and was charged for it.
WinnerDecides ==
    \A n \in DOMAIN steps :
        /\ steps[n].decision # "none" <=> steps[n].model = "committed"
        /\ steps[n].model = "committed" =>
             /\ steps[n].winner \in AttemptsOf(n)
             /\ attempts[steps[n].winner].status = "succeeded"
             /\ attempts[steps[n].winner].charged = KnownCost

\* While a task is stopped nothing is decided for it, no call begins, and no call
\* is completed, whichever workers are still busy with it. Images and Slack
\* messages are the exception: their outcome is recorded without a look at the
\* task, so what began before the stop is completed after it.
StoppedIsQuiet ==
    [][task.status \notin ActiveStatuses =>
        /\ \A n \in DOMAIN steps :
             /\ steps'[n].decision = steps[n].decision
             /\ steps'[n].call = "completed" /\ steps[n].call # "completed"
                  => steps[n].route \in {"images", "slack"}
        /\ \A w \in Workers : worker'[w].phase = "acting" => worker[w].phase = "acting"]_vars

\* A settlement after the lease noted, without usage, what the attempt costs; the
\* row goes on as running, and abandoning it forgets the note.
Forgetful(at) == at.forgotten \/ (at.status = "running" /\ at.noted /\ ~at.known)

\* Accounting that is pending is settled in the end, unless such a note was
\* forgotten or is about to be: the correction is then made a second time, and one
\* that lowers the spending below zero is refused for ever.
AccountingEnds ==
    \A a \in AttemptBound :
        (a \in DOMAIN attempts /\ attempts[a].pending)
          ~> \/ a \in DOMAIN attempts /\ ~attempts[a].pending
             \/ \E b \in DOMAIN attempts : Forgetful(attempts[b])

\* A task whose workers go on does not stay pending for ever: it completes,
\* stops, or waits for its owner; unless recovery is refused for a forgotten note,
\* which keeps its workers from everything else.
AwaitsOwner ==
    /\ OpenStep # 0
    /\ steps[OpenStep].decision = "propose"
    /\ \/ steps[OpenStep].approval = "none"
       \/ steps[OpenStep].approval = "approve" /\ steps[OpenStep].call = "failed"

TaskRests ==
    []<>(\/ task.status # "pending"
         \/ AwaitsOwner
         \/ \E a \in DOMAIN attempts : Forgetful(attempts[a]))

\* The runtime keeps its promise to the owner.
Promise == INSTANCE TaskPromise
    WITH status <- task.status, generation <- task.generation, open <- Calling

PromiseKept == Promise!PSpec
=============================================================================
