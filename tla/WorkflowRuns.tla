---------------------------- MODULE WorkflowRuns ----------------------------
(***************************************************************************)
(* The runs of one workflow.  Every change of a run is one transaction     *)
(* under the workspace's authorization lock; between two of them a Temporal*)
(* workflow per run calls the activity `advance', sleeps on a timer, and is*)
(* woken by signals that may be lost.  An activity that outlives its time  *)
(* limit goes on beside the attempt that replaced it.                      *)
(***************************************************************************)
EXTENDS Naturals, Sequences, FiniteSets

CONSTANTS
  Runs,
  Plans,       \* the definitions a run may be started with
  MaxChanges,  \* bound: times the workflow is disabled, or its sponsor or grant lost
  MaxFaults    \* bound: activities lost, timed out or cut off from storage

Branches == {"none", "ifMet", "otherwise"}
Outside == {"http", "agent", "code"}
Kinds == Outside \cup {"condition", "table", "human", "timer"}

StepType == [kind : Kinds, url : Nat, gates : SUBSET [step : Nat, branch : Branches \ {"none"}]]

\* A condition gates later steps only.
PlanOK(p) ==
  /\ p \in Seq(StepType)
  /\ \A i \in DOMAIN p : \A gate \in p[i].gates : gate.step < i /\ gate.step > 0

ASSUME PlansAssumption == \A p \in Plans : PlanOK(p)

VARIABLES
  flow,     \* tf_workflows: enabled, and its accepted sponsorship
  granted,  \* the run's member holds its grants and may read its sources
  run,      \* tf_workflow_runs with the revision each was started with
  receipt,  \* tf_workflow_steps
  task,     \* the agent tasks started for steps
  loop,     \* the Temporal workflow of each run
  act,      \* its activities: the attempt it waits for and one it gave up
  wakes,    \* runs to be signalled by a process whose transaction committed
  changes, faults

vars == <<flow, granted, run, receipt, task, loop, act, wakes, changes, faults>>
data == <<flow, granted, run, receipt>>
bounds == <<changes, faults>>

Live == {"queued", "running", "waiting"}
Slots == {1, 2}

Idle == [at |-> "idle", step |-> 0, ask |-> "none", answer |-> "none", progress |-> "none"]
Starting == [Idle EXCEPT !.at = "begin"]
NoReceipt == [status |-> "none", due |-> "none", task |-> "none", from |-> 0, branch |-> "none"]

IsLive(r) == run[r].status \in Live
Steps(r) == DOMAIN run[r].plan
Kind(r, i) == run[r].plan[i].kind

-----------------------------------------------------------------------------
(* The next step, and whether the run may still act.                       *)

Completed(r) == {i \in Steps(r) : receipt[r][i].status = "completed"}

Chosen(r, i) ==
  \A gate \in run[r].plan[i].gates : receipt[r][gate.step].branch = gate.branch

Left(r) == {i \in Steps(r) \ Completed(r) : Chosen(r, i)}

nextStep(r, i) == i \in Left(r) /\ \A j \in Left(r) : i <= j

\* A person's own run needs the grants, an unattended one its sponsorship too.
SponsorHolds(r) == run[r].sponsor # 0 => run[r].sponsor = flow.sponsor
Allowed(r) == flow.enabled /\ granted /\ SponsorHolds(r)

-----------------------------------------------------------------------------
(* Effects of a transaction of advance.                                    *)

Becomes(r, status) == run' = [run EXCEPT ![r].status = status]

Answers(r, a, progress) ==
  act' = [act EXCEPT ![r][a] = [Idle EXCEPT !.at = "done", !.progress = progress]]

Completes(r, i, from, branch) ==
  receipt' = [receipt EXCEPT ![r][i].status = "completed", ![r][i].from = from,
                             ![r][i].branch = branch]

\* (What a failed run leaves in its receipts is not told apart.)
Ends(r, a, status) == Becomes(r, status) /\ Answers(r, a, "done") /\ UNCHANGED receipt

\* The first transaction returns work to do outside; after the second one the
\* activity gives its place to the next iteration.
Calls(r, a, i, ask) ==
  IF act[r][a].at = "begin"
  THEN act' = [act EXCEPT ![r][a] = [Idle EXCEPT !.at = "call", !.step = i, !.ask = ask]]
  ELSE Answers(r, a, IF act[r][a].ask \in {"start", "poll"} THEN "wait" ELSE "continue")

\* Mutant: a receipt is made without its time limit.
Waits_Forever(r, i, due) ==
  IF receipt[r][i].status = "none"
  THEN /\ receipt' = [receipt EXCEPT ![r][i].status = "waiting"]
       /\ Becomes(r, "waiting")
  ELSE UNCHANGED <<receipt, run>>

Waits(r, i, due) ==
  IF receipt[r][i].status = "none"
  THEN /\ receipt' = [receipt EXCEPT ![r][i].status = "waiting", ![r][i].due = due]
       /\ Becomes(r, "waiting")
  ELSE UNCHANGED <<receipt, run>>

-----------------------------------------------------------------------------
(* advanceTransaction: the run is read under lock, then one case applies.  *)

InTransaction(r, a) == act[r][a].at \in {"begin", "back"}

\* Mutant: an ended run is not told from a live one.
Runnable_Always(r) == run[r].status # "none"

Runnable(r) == IsLive(r)

AdvanceOver(r, a) ==
  /\ ~Runnable(r)
  /\ Answers(r, a, "done")
  /\ UNCHANGED <<run, receipt>>

AdvanceBlocked(r, a) == Runnable(r) /\ ~Allowed(r) /\ Ends(r, a, "blocked")

AdvanceEnds(r, a) == Runnable(r) /\ Allowed(r) /\ Left(r) = {} /\ Ends(r, a, "completed")

\* A condition, a transform or a table step is done in the transaction itself.
AdvanceWithin(r, a, i) ==
  /\ Kind(r, i) \in {"condition", "table"}
  /\ \/ /\ \E branch \in IF Kind(r, i) = "condition" THEN Branches \ {"none"} ELSE {"none"} :
             Completes(r, i, i, branch)
        /\ Becomes(r, "running")
        /\ Answers(r, a, "continue")
     \/ Ends(r, a, "failed")
     \/ Kind(r, i) = "table" /\ Ends(r, a, "blocked")

\* A person or a clock: the receipt is made once, and its time limit with it.
AdvanceTimed(r, a, i) ==
  /\ Kind(r, i) \in {"human", "timer"}
  /\ \/ /\ receipt[r][i].due \in {"none", "ahead"}
        /\ Waits(r, i, "ahead")
        /\ Answers(r, a, "wait")
     \/ /\ Kind(r, i) = "timer"
        /\ receipt[r][i].due = "past"
        /\ Completes(r, i, i, "none")
        /\ Answers(r, a, "continue")
        /\ UNCHANGED run
     \/ /\ Kind(r, i) = "timer"
        /\ receipt[r][i].due = "none"          \* wait-until an instant already past
        /\ Completes(r, i, i, "none")
        /\ Becomes(r, "waiting")
        /\ Answers(r, a, "continue")
     \/ Kind(r, i) = "human" /\ receipt[r][i].due = "past" /\ Ends(r, a, "failed")
     \/ Kind(r, i) = "timer" /\ receipt[r][i].due = "none" /\ Ends(r, a, "failed")

\* An answer is taken for the step whose address it came from.
\* Mutant: any answer of an HTTP request is taken.
Matches_Any(r, a, i) == act[r][a].ask = "request"

Matches(r, a, i) ==
  act[r][a].ask = "request" /\ run[r].plan[act[r][a].step].url = run[r].plan[i].url

AdvanceHttp(r, a, i) ==
  /\ Kind(r, i) = "http"
  /\ \/ /\ Matches(r, a, i) /\ act[r][a].answer = "completed"
        /\ Completes(r, i, act[r][a].step, "none")
        /\ Becomes(r, "running")
        /\ Answers(r, a, "continue")
     \/ /\ ~Matches(r, a, i)
        /\ Waits(r, i, "none")
        /\ Calls(r, a, i, "request")
     \/ Ends(r, a, "failed")   \* an error was answered, or the request cannot be built

AdvanceCode(r, a, i) ==
  LET mine == act[r][a].ask = "job" /\ act[r][a].step = i IN
  /\ Kind(r, i) = "code"
  /\ \/ /\ receipt[r][i].due # "past"
        /\ mine /\ act[r][a].answer = "completed"
        /\ Completes(r, i, act[r][a].step, "none")
        /\ Becomes(r, "running")
        /\ Answers(r, a, "continue")
     \/ /\ receipt[r][i].due # "past"
        /\ mine /\ act[r][a].answer = "pending"
        /\ Answers(r, a, "wait")
        /\ UNCHANGED <<run, receipt>>
     \/ /\ receipt[r][i].due # "past"
        /\ ~mine
        /\ Waits(r, i, "ahead")
        /\ Calls(r, a, i, "job")
     \/ (~mine \/ act[r][a].answer = "failed") /\ Ends(r, a, "failed")  \* or its input is invalid
     \/ receipt[r][i].due = "past" /\ Ends(r, a, "failed")

\* A failure is matched by what was asked, a start or a poll, not by its step.
AdvanceAgent(r, a, i) ==
  LET asks == IF receipt[r][i].task = "known" THEN "poll" ELSE "start"
      mine == act[r][a].ask = asks /\ act[r][a].step = i
      failed == act[r][a].ask = asks /\ act[r][a].answer = "failed"
  IN
  /\ Kind(r, i) = "agent"
  /\ \/ failed /\ Ends(r, a, "failed")
     \/ /\ mine /\ act[r][a].answer = "started"
        /\ receipt' = [receipt EXCEPT ![r][i].task = "known"]
        /\ Answers(r, a, "wait")
        /\ UNCHANGED run
     \/ /\ mine /\ act[r][a].answer = "completed"
        /\ Completes(r, i, act[r][a].step, "none")
        /\ Becomes(r, "running")
        /\ Answers(r, a, "continue")
     \/ mine /\ act[r][a].answer = "task-failed" /\ Ends(r, a, "failed")
     \/ /\ mine /\ act[r][a].answer = "pending"
        /\ Answers(r, a, "wait")
        /\ UNCHANGED <<run, receipt>>
     \/ /\ ~mine /\ ~failed
        /\ Waits(r, i, "none")
        /\ Calls(r, a, i, asks)
     \/ receipt[r][i].task = "none" /\ Ends(r, a, "failed")  \* no runner, prompt or activation

AdvanceStep(r, a) ==
  /\ Runnable(r) /\ Allowed(r)
  /\ \E i \in Steps(r) :
       /\ nextStep(r, i)
       /\ \/ AdvanceWithin(r, a, i) \/ AdvanceTimed(r, a, i)
          \/ AdvanceHttp(r, a, i) \/ AdvanceCode(r, a, i) \/ AdvanceAgent(r, a, i)

Advance(r, a) ==
  /\ InTransaction(r, a)
  /\ AdvanceOver(r, a) \/ AdvanceBlocked(r, a) \/ AdvanceEnds(r, a) \/ AdvanceStep(r, a)
  /\ UNCHANGED <<flow, granted, task, loop, wakes, bounds>>

-----------------------------------------------------------------------------
(* Between the two transactions: the work outside.                         *)

Back(r, a, answer) == act' = [act EXCEPT ![r][a].at = "back", ![r][a].answer = answer]

Requests(r, a) ==
  /\ act[r][a].ask = "request"
  /\ \E answer \in {"completed", "failed"} : Back(r, a, answer)
  /\ UNCHANGED task

\* The runner keeps one job per step; a submission that fails is tried again
\* on the next iteration.
Submits(r, a) ==
  /\ act[r][a].ask = "job"
  /\ \/ \E answer \in {"completed", "failed", "pending"} : Back(r, a, answer)
     \/ Answers(r, a, "wait")
  /\ UNCHANGED task

\* A start repeated for a step finds its task; it may fail before or after.
StartsTask(r, a) ==
  /\ act[r][a].ask = "start"
  /\ \/ /\ task' = [task EXCEPT ![r][act[r][a].step] = IF @ = "none" THEN "open" ELSE @]
        /\ \E answer \in {"started", "failed"} : Back(r, a, answer)
     \/ Back(r, a, "failed") /\ UNCHANGED task

PollsTask(r, a) ==
  /\ act[r][a].ask = "poll"
  /\ \/ Back(r, a, CASE task[r][act[r][a].step] = "completed" -> "completed"
                     [] task[r][act[r][a].step] = "failed" -> "task-failed"
                     [] OTHER -> "pending")
     \/ Back(r, a, "failed")
  /\ UNCHANGED task

Calling(r, a) ==
  /\ act[r][a].at = "call"
  /\ Requests(r, a) \/ Submits(r, a) \/ StartsTask(r, a) \/ PollsTask(r, a)
  /\ UNCHANGED <<data, loop, wakes, bounds>>

TaskEnds(r, i) ==
  /\ task[r][i] = "open"
  /\ \E status \in {"completed", "failed"} : task' = [task EXCEPT ![r][i] = status]
  /\ UNCHANGED <<data, loop, act, wakes, bounds>>

-----------------------------------------------------------------------------
(* businessWorkflowV1: one activity at a time, then a sleep or its end.    *)

Iterates(r, a) ==
  /\ loop' = [loop EXCEPT ![r] = [pc |-> "advancing", woken |-> FALSE, act |-> a]]
  /\ act' = [act EXCEPT ![r][a] = Starting]

Awaited(r, a) == loop[r].pc = "advancing" /\ loop[r].act = a

Reports(r, a) ==
  /\ act[r][a].at = "done"
  /\ IF ~Awaited(r, a)
     THEN act' = [act EXCEPT ![r][a] = Idle] /\ UNCHANGED loop
     ELSE \/ /\ act[r][a].progress = "done"
             /\ loop' = [loop EXCEPT ![r].pc = "closed"]
             /\ act' = [act EXCEPT ![r][a] = Idle]
          \/ /\ act[r][a].progress = "wait" /\ ~loop[r].woken
             /\ loop' = [loop EXCEPT ![r].pc = "sleeping"]
             /\ act' = [act EXCEPT ![r][a] = Idle]
          \/ /\ act[r][a].progress = "continue" \/ (act[r][a].progress = "wait" /\ loop[r].woken)
             /\ Iterates(r, a)
  /\ UNCHANGED <<data, task, wakes, bounds>>

Resumes(r) ==
  /\ loop[r].pc = "sleeping" /\ loop[r].woken
  /\ Iterates(r, loop[r].act)
  /\ UNCHANGED <<data, task, wakes, bounds>>

TimerFires(r) ==
  /\ loop[r].pc = "sleeping" /\ ~loop[r].woken
  /\ Iterates(r, loop[r].act)
  /\ UNCHANGED <<data, task, wakes, bounds>>

DuePasses(r, i) ==
  /\ receipt[r][i].status = "waiting" /\ receipt[r][i].due = "ahead"
  /\ receipt' = [receipt EXCEPT ![r][i].due = "past"]
  /\ UNCHANGED <<flow, granted, run, task, loop, act, wakes, bounds>>

-----------------------------------------------------------------------------
(* Faults of an activity.                                                  *)

\* Its worker stops, or its transaction throws: Temporal tries it again.
Lost(r, a) ==
  /\ act[r][a].at # "idle" /\ faults < MaxFaults
  /\ act' = [act EXCEPT ![r][a] = IF Awaited(r, a) THEN Starting ELSE Idle]
  /\ faults' = faults + 1
  /\ UNCHANGED <<data, task, loop, wakes, changes>>

\* Its time is over: another attempt begins while it goes on.
TimesOut(r, a, b) ==
  /\ Awaited(r, a) /\ act[r][b] = Idle /\ a # b /\ faults < MaxFaults
  /\ loop' = [loop EXCEPT ![r].act = b]
  /\ act' = [act EXCEPT ![r][b] = Starting]
  /\ faults' = faults + 1
  /\ UNCHANGED <<data, task, wakes, changes>>

\* The answer of an agent call could not be written: it counts as a failure,
\* and when that cannot be written either the activity waits.
CutOff(r, a) ==
  /\ act[r][a].at = "back" /\ act[r][a].ask \in {"start", "poll"} /\ faults < MaxFaults
  /\ \/ act[r][a].answer # "failed" /\ Back(r, a, "failed")
     \/ Answers(r, a, "wait")
  /\ faults' = faults + 1
  /\ UNCHANGED <<data, task, loop, wakes, changes>>

-----------------------------------------------------------------------------
(* The dispatch sweep, and the signals sent after a commit.                *)

\* due lists live runs and the sweep starts them, unless their workflow is
\* there; a run may have ended since it was listed.
StartRun(r) ==
  /\ run[r].status # "none"
  /\ loop[r].pc \in {"none", "closed"}
  /\ Iterates(r, loop[r].act)
  /\ UNCHANGED <<data, task, wakes, bounds>>

Woken(r) ==
  /\ loop[r].pc \in {"advancing", "sleeping"}
  /\ loop' = [loop EXCEPT ![r].woken = TRUE]

\* A run marked running should not be asleep: the sweep wakes it, every time
\* it finds one. (A wake that comes late is no more than a timer's.)
Resumable(r) == run[r].status = "running"

WakeRun(r) ==
  /\ Resumable(r)
  /\ Woken(r)
  /\ UNCHANGED <<data, task, act, wakes, bounds>>

\* wakeAfter signals once, and nobody repeats a signal that is lost.
Signal(r) ==
  /\ r \in wakes
  /\ wakes' = wakes \ {r}
  /\ Woken(r) \/ UNCHANGED loop
  /\ UNCHANGED <<data, task, act, bounds>>

-----------------------------------------------------------------------------
(* What people and services ask of the workflow and its runs.              *)

\* admit: by hand, or by a webhook, a schedule or an event for the sponsor.
Admit(r) ==
  /\ run[r].status = "none" /\ flow.enabled /\ granted
  /\ \E p \in Plans, sponsor \in {0, flow.sponsor} :
       /\ run' = [run EXCEPT ![r] = [status |-> "queued", plan |-> p, sponsor |-> sponsor]]
       /\ receipt' = [receipt EXCEPT ![r] = [i \in DOMAIN p |-> NoReceipt]]
       /\ task' = [task EXCEPT ![r] = [i \in DOMAIN p |-> "none"]]
  /\ UNCHANGED <<flow, granted, loop, act, wakes, bounds>>

MayMutate(r) == granted /\ SponsorHolds(r)

\* Mutant: an answer leaves the run waiting.
Respond_Quietly(r) ==
  /\ IsLive(r) /\ MayMutate(r) /\ flow.enabled
  /\ \E i \in Steps(r) :
       /\ Kind(r, i) = "human"
       /\ receipt[r][i].status = "waiting" /\ receipt[r][i].due = "ahead"
       /\ Completes(r, i, i, "none")
  /\ wakes' = wakes \cup {r}
  /\ UNCHANGED <<flow, granted, run, task, loop, act, bounds>>

Respond(r) ==
  /\ run[r].status \in {"waiting", "running"} /\ MayMutate(r) /\ flow.enabled
  /\ \E i \in Steps(r) :
       /\ Kind(r, i) = "human"
       /\ receipt[r][i].status = "waiting" /\ receipt[r][i].due = "ahead"
       /\ Completes(r, i, i, "none")
  /\ Becomes(r, "running")
  /\ wakes' = wakes \cup {r}
  /\ UNCHANGED <<flow, granted, task, loop, act, bounds>>

Cancel(r) ==
  /\ IsLive(r) /\ MayMutate(r)
  /\ Becomes(r, "cancelled")
  /\ wakes' = wakes \cup {r}
  /\ UNCHANGED <<flow, granted, receipt, task, loop, act, bounds>>

LiveRuns == {r \in Runs : IsLive(r)}

\* (Counted, and left out when there is no run they could stop.)
Changes == LiveRuns # {} /\ changes < MaxChanges /\ changes' = changes + 1
Untouched == UNCHANGED <<receipt, task, loop, act, faults>>

Enable ==
  /\ ~flow.enabled
  /\ flow' = [flow EXCEPT !.enabled = TRUE]
  /\ Untouched /\ UNCHANGED <<granted, run, wakes, changes>>

\* A person disables or archives the workflow: its runs are blocked with it.
Disable ==
  /\ flow.enabled
  /\ flow' = [flow EXCEPT !.enabled = FALSE]
  /\ run' = [r \in Runs |-> IF IsLive(r) THEN [run[r] EXCEPT !.status = "blocked"] ELSE run[r]]
  /\ wakes' = wakes \cup LiveRuns
  /\ Changes /\ Untouched /\ UNCHANGED granted

\* The sweep disables a workflow whose sponsor lost access; it wakes nobody.
disableAutomatically ==
  /\ flow.enabled
  /\ flow' = [flow EXCEPT !.enabled = FALSE]
  /\ Changes /\ Untouched /\ UNCHANGED <<granted, run, wakes>>

\* Another sponsor, or another audience of its history: enabled anew later.
Sponsorship ==
  /\ flow' = [enabled |-> FALSE, sponsor |-> flow.sponsor + 1]
  /\ wakes' = wakes \cup LiveRuns
  /\ Changes /\ Untouched /\ UNCHANGED <<granted, run>>

\* share: a grant is taken or given back.
Share ==
  /\ granted' = ~granted
  /\ wakes' = wakes \cup LiveRuns
  /\ IF granted THEN Changes ELSE UNCHANGED changes
  /\ Untouched /\ UNCHANGED <<flow, run>>

-----------------------------------------------------------------------------
Init ==
  /\ flow = [enabled |-> TRUE, sponsor |-> 1]
  /\ granted = TRUE
  /\ run = [r \in Runs |-> [status |-> "none", plan |-> <<>>, sponsor |-> 0]]
  /\ receipt = [r \in Runs |-> <<>>]
  /\ task = [r \in Runs |-> <<>>]
  /\ loop = [r \in Runs |-> [pc |-> "none", woken |-> FALSE, act |-> 1]]
  /\ act = [r \in Runs |-> [a \in Slots |-> Idle]]
  /\ wakes = {}
  /\ changes = 0
  /\ faults = 0

Next ==
  \/ \E r \in Runs :
       \/ Admit(r) \/ Respond(r) \/ Cancel(r)
       \/ StartRun(r) \/ WakeRun(r) \/ Signal(r)
       \/ Resumes(r) \/ TimerFires(r)
       \/ \E a \in Slots : Advance(r, a) \/ Calling(r, a) \/ Reports(r, a)
       \/ \E a, b \in Slots : TimesOut(r, a, b)
       \/ \E a \in Slots : Lost(r, a) \/ CutOff(r, a)
       \/ \E i \in Steps(r) : TaskEnds(r, i) \/ DuePasses(r, i)
  \/ Enable \/ Disable \/ disableAutomatically \/ Sponsorship \/ Share

Spec == Init /\ [][Next]_vars

\* Activities go on, the sweep visits every run again and again, and a sweep
\* that tries for ever reaches Temporal.  No clock is fair here.
Fairness ==
  \A r \in Runs :
    /\ \A a \in Slots :
         WF_vars(Advance(r, a)) /\ WF_vars(Calling(r, a)) /\ WF_vars(Reports(r, a))
    /\ WF_vars(Resumes(r))
    /\ WF_vars(IsLive(r) /\ StartRun(r)) /\ SF_vars(WakeRun(r))

FairSpec == Spec /\ Fairness

-----------------------------------------------------------------------------
\* OwnOutput: in a definition that calls no address twice, what a completed
\* step keeps came from the call made for it, not from one a late attempt made
\* for another step of the run. An answer is matched by its address alone
\* (service.ts:2582), so with one address twice a late answer may complete the
\* wrong step: what Apart leaves out is known to fail (README, section 6).
Apart(p) ==
  \A i, j \in DOMAIN p : p[i].kind = "http" /\ p[j].kind = "http" /\ p[i].url = p[j].url => i = j

OwnOutput ==
  \A r \in Runs : Apart(run[r].plan) => \A i \in Completed(r) : receipt[r][i].from = i

\* PromiseKept: completed steps follow the definition the run was started
\* with, once each and in order, and an ended run never changes, whatever
\* late attempts, answers, cancellations and lost authority do.
Phase ==
  [r \in Runs |->
    CASE run[r].status \in Live -> "open"
      [] run[r].status \in {"failed", "blocked", "cancelled"} -> "stopped"
      [] OTHER -> run[r].status]

Given == [r \in Runs |-> run[r].plan]
Kept == [r \in Runs |-> [i \in Completed(r) |-> receipt[r][i].branch]]

Promise == INSTANCE RunPromise WITH phase <- Phase, plan <- Given, kept <- Kept

PromiseKept == Promise!Spec

\* AnswerTaken: a run whose next step waits for nothing does not sleep until
\* its timer, which may be days away: after an answer, its wake or the sweep
\* gets through. (Clocks are not fair here; a run that a delay just ended may
\* sleep, for its timer is due.)
Ready(r) ==
  /\ IsLive(r)
  /\ Left(r) = {} \/ \E i \in Steps(r) : nextStep(r, i) /\ receipt[r][i].status = "none"
  /\ \A i \in Completed(r) : Kind(r, i) = "timer" => \E j \in Completed(r) : i < j

AnswerTaken == \A r \in Runs : Ready(r) ~> ~Ready(r)

\* RunEnds: every run started ends, when clocks move and agent tasks end,
\* however its wakes are lost and its authority comes and goes.
ClocksMove ==
  \A r \in Runs :
    /\ WF_vars(TimerFires(r))
    /\ WF_vars(\E i \in Steps(r) : DuePasses(r, i))
    /\ WF_vars(\E i \in Steps(r) : TaskEnds(r, i))

RunEnds == ClocksMove => \A r \in Runs : IsLive(r) ~> ~IsLive(r)
=============================================================================
