------------------------------ MODULE ApiCalls ------------------------------
(***************************************************************************)
(* The api.request tool. A read is sent at once; a change is recorded, its *)
(* member decides it, and the workers that poll it claim it, send it and   *)
(* record its outcome in separate transactions. The rows in `sending'      *)
(* whose deadline has not passed are the slots of the workspace.           *)
(***************************************************************************)
EXTENDS Naturals, FiniteSets

CONSTANTS
  Calls,       \* call ids
  Reads,       \* those of GET and HEAD requests; the others are changes
  Origins,     \* the turns and task runs that make calls
  Workers,     \* polls of the worker processes
  ScopeLimit,  \* callsPerScope
  SlotLimit,   \* inFlightPerWorkspace
  MaxChanges   \* bound: changes of the secret the calls use

ASSUME CallsAssumption == IsFiniteSet(Calls) /\ Reads \subseteq Calls
ASSUME OriginsAssumption == Origins # {}
ASSUME LimitsAssumption == ScopeLimit \in Nat \ {0} /\ SlotLimit \in Nat \ {0}

VARIABLES
  call,      \* tf_api_calls
  decision,  \* tf_api_call_decisions
  deciding,  \* decisions checked and not yet inserted
  live,      \* the origins that still wait for their calls
  secret,    \* version of the secret the calls are made with
  worker,    \* what each worker is doing, in its own memory
  arrived,   \* the services: changes that reached them, and the secret they bore
  answers    \* what the workers answered to the turns and runs about changes

vars == <<call, decision, deciding, live, secret, worker, arrived, answers>>

Unsent == {"failed", "rejected", "expired", "conflict"}
Final == Unsent \cup {"sent", "outcome-unknown"}
Decisions == {"approve", "reject"}

Idle == [stage |-> "idle", call |-> "none", from |-> "none", outcome |-> "none",
         version |-> 0]

At(w, stage) == worker[w].stage = stage
Rests(w) == worker' = [worker EXCEPT ![w] = Idle]
Goes(w, stage) == worker' = [worker EXCEPT ![w].stage = stage]
Ends(w, outcome) ==
  worker' = [worker EXCEPT ![w].stage = "finish", ![w].outcome = outcome]
Answers(c, status) ==
  answers' = IF c \in Reads THEN answers ELSE [answers EXCEPT ![c] = @ \cup {status}]

Made(c) == call[c].status # "none"
Change(c) == Made(c) /\ c \notin Reads

\* The calls an origin has made, of the limit of one turn or run.
originCalls(o) == {c \in Calls : Made(c) /\ call[c].origin = o}

inFlight == {c \in Calls : call[c].status = "sending" /\ call[c].age = "fresh"}
SlotFree_OneMore == Cardinality(inFlight) <= SlotLimit

SlotFree == Cardinality(inFlight) < SlotLimit

Init ==
  /\ call = [c \in Calls |->
       [status |-> "none", origin |-> CHOOSE o \in Origins : TRUE,
        version |-> 0, age |-> "fresh"]]
  /\ decision = [c \in Calls |-> "none"]
  /\ deciding = {}
  /\ live = Origins
  /\ secret = 0
  /\ worker = [w \in Workers |-> Idle]
  /\ arrived = [c \in Calls |-> [times |-> 0, version |-> 0]]
  /\ answers = [c \in Calls |-> {}]

-----------------------------------------------------------------------------
\* The turn or run that makes the call

\* A change waits for its member. A repeated proposal finds the row, and a
\* call over the limit makes none: neither changes anything.
proposeApiCall(c, o) ==
  /\ c \notin Reads
  /\ o \in live
  /\ ~Made(c)
  /\ Cardinality(originCalls(o)) < ScopeLimit
  /\ call' = [call EXCEPT ![c].status = "awaiting-approval", ![c].origin = o,
                          ![c].version = secret]
  /\ UNCHANGED <<decision, deciding, live, secret, worker, arrived, answers>>

\* A read has its row once a slot is free, and is sent by the same worker.
StartRead(w, c, o) ==
  /\ At(w, "idle")
  /\ c \in Reads
  /\ o \in live
  /\ ~Made(c)
  /\ SlotFree
  /\ Cardinality(originCalls(o)) < ScopeLimit
  /\ call' = [call EXCEPT ![c].status = "sending", ![c].origin = o]
  /\ worker' = [worker EXCEPT ![w] =
       [Idle EXCEPT !.stage = "send", !.call = c]]
  /\ UNCHANGED <<decision, deciding, live, secret, arrived, answers>>

\* The turn is cancelled, its chat deleted, or the task stops.
OriginEnds(o) ==
  /\ o \in live
  /\ live' = live \ {o}
  /\ UNCHANGED <<call, decision, deciding, secret, worker, arrived, answers>>

SecretChanges ==
  /\ secret < MaxChanges
  /\ secret' = secret + 1
  /\ UNCHANGED <<call, decision, deciding, live, worker, arrived, answers>>

-----------------------------------------------------------------------------
\* The clock

Expires(c) ==
  /\ call[c].status = "awaiting-approval"
  /\ call[c].age = "fresh"
  /\ call' = [call EXCEPT ![c].age = "expired"]
  /\ UNCHANGED <<decision, deciding, live, secret, worker, arrived, answers>>

\* The deadline of a claimed call passes, and then the grace after it. Its
\* sender may be slow and go on after both.
DeadlinePasses(c) ==
  /\ call[c].status = "sending"
  /\ call[c].age # "overdue"
  /\ call' = [call EXCEPT ![c].age = IF @ = "fresh" THEN "late" ELSE "overdue"]
  /\ UNCHANGED <<decision, deciding, live, secret, worker, arrived, answers>>

-----------------------------------------------------------------------------
\* The member

\* The confirmation role cannot lock the row it checks: the decision is
\* inserted after the check, unless the call has one by then.
decideApiCall(c, d) ==
  /\ Change(c)
  /\ decision[c] = "none"
  /\ call[c].status = "awaiting-approval"
  /\ call[c].age # "expired"
  /\ call[c].origin \in live
  /\ deciding' = deciding \cup {<<c, d>>}
  /\ UNCHANGED <<call, decision, live, secret, worker, arrived, answers>>

Decided_Last(c, d) == [decision EXCEPT ![c] = d]

\* One decision per call, by the primary key.
Decided(c, d) == [decision EXCEPT ![c] = IF @ = "none" THEN d ELSE @]

RecordDecision(c, d) ==
  /\ <<c, d>> \in deciding
  /\ decision' = Decided(c, d)
  /\ deciding' = deciding \ {<<c, d>>}
  /\ UNCHANGED <<call, live, secret, worker, arrived, answers>>

-----------------------------------------------------------------------------
\* A worker polls a change its origin waits for (resumeApiCall)

Poll(w, c) ==
  /\ At(w, "idle")
  /\ Change(c)
  /\ call[c].origin \in live
  /\ worker' = [worker EXCEPT ![w] = [Idle EXCEPT !.stage = "look", !.call = c]]
  /\ UNCHANGED <<call, decision, deciding, live, secret, arrived, answers>>

\* The sender of a claimed change is given up.
Overdue_Awaiting(c) == call[c].status = "awaiting-approval" /\ call[c].age = "overdue"

Overdue(c) == call[c].status = "sending" /\ call[c].age = "overdue"

\* What a poll makes of the row it reads: the status to settle it with, or
\* what it does next.
Verdict(c) ==
  IF call[c].status = "sending" THEN IF Overdue(c) THEN "outcome-unknown" ELSE "waiting"
  ELSE IF call[c].status \in Final THEN "done"
  ELSE IF decision[c] = "reject" THEN "rejected"
  ELSE IF call[c].age = "expired" THEN "expired"
  ELSE IF decision[c] = "approve" THEN "approved" ELSE "waiting"

Look(w) ==
  LET c == worker[w].call
      v == Verdict(c)
  IN /\ At(w, "look")
     /\ \/ v = "waiting" /\ Rests(w) /\ UNCHANGED answers
        \/ v = "done" /\ Rests(w) /\ Answers(c, call[c].status)
        \/ v = "approved" /\ Goes(w, "slot") /\ UNCHANGED answers
        \/ /\ v \in {"outcome-unknown", "rejected", "expired"}
           /\ worker' = [worker EXCEPT ![w].stage = "settle", ![w].outcome = v,
                                       ![w].from = call[c].status]
           /\ UNCHANGED answers
     /\ UNCHANGED <<call, decision, deciding, live, secret, arrived>>

\* The row ends unless it has moved on since; the answer is what it says now.
Settled(w) ==
  [call EXCEPT ![worker[w].call].status =
     IF @ = worker[w].from THEN worker[w].outcome ELSE @]

Settle(w) ==
  /\ At(w, "settle")
  /\ call' = Settled(w)
  /\ Answers(worker[w].call, call'[worker[w].call].status)
  /\ Rests(w)
  /\ UNCHANGED <<decision, deciding, live, secret, arrived>>

\* Under the lock of the workspace: the row is read again.
Claimable_Unchecked(c) == call[c].age # "expired"

Claimable(c) == call[c].status = "awaiting-approval" /\ call[c].age # "expired"

Claim(w) ==
  LET c == worker[w].call
  IN /\ At(w, "slot")
     /\ SlotFree
     /\ IF Claimable(c)
        THEN /\ call' = [call EXCEPT ![c].status = "sending", ![c].age = "fresh"]
             /\ Goes(w, "prepare")
        ELSE UNCHANGED call /\ Goes(w, "look")
     /\ UNCHANGED <<decision, deciding, live, secret, arrived, answers>>

\* No slot becomes free within the call's time: it waits for a later poll.
NoSlot(w) ==
  /\ At(w, "slot")
  /\ ~SlotFree
  /\ Rests(w)
  /\ UNCHANGED <<call, decision, deciding, live, secret, arrived, answers>>

\* The secrets are resolved again, outside the transaction of the claim.
Approved(c) == secret = call[c].version

Prepare(w) ==
  /\ At(w, "prepare")
  /\ \/ /\ Approved(worker[w].call)
        /\ worker' = [worker EXCEPT ![w].stage = "send", ![w].version = secret]
     \/ ~Approved(worker[w].call) /\ Ends(w, "conflict")
     \/ Ends(w, "failed")
  /\ UNCHANGED <<call, decision, deciding, live, secret, arrived, answers>>

Reaches(w) ==
  LET c == worker[w].call
  IN /\ At(w, "send")
     /\ arrived' = IF c \in Reads THEN arrived ELSE
          [arrived EXCEPT ![c] = [times |-> @.times + 1, version |-> worker[w].version]]
     /\ Goes(w, "reached")
     /\ UNCHANGED <<call, decision, deciding, live, secret, answers>>

NotSent(w) ==
  /\ At(w, "send")
  /\ Ends(w, "failed")
  /\ UNCHANGED <<call, decision, deciding, live, secret, arrived, answers>>

Answered(w) ==
  /\ At(w, "reached")
  /\ Ends(w, "sent")
  /\ UNCHANGED <<call, decision, deciding, live, secret, arrived, answers>>

\* The connection fails after the request may have left, or keeping the
\* response fails.
LostOutcome_Failed(c) == "failed"

LostOutcome(c) == IF c \in Reads THEN "failed" ELSE "outcome-unknown"

NoAnswer(w) ==
  /\ worker[w].stage \in {"send", "reached"}
  /\ Ends(w, LostOutcome(worker[w].call))
  /\ UNCHANGED <<call, decision, deciding, live, secret, arrived, answers>>

\* The outcome is recorded unless the row was settled meanwhile or the
\* database fails; it is answered in any case.
Finish(w) ==
  LET c == worker[w].call
  IN /\ At(w, "finish")
     /\ \/ call' = [call EXCEPT ![c].status = IF @ = "sending" THEN worker[w].outcome ELSE @]
        \/ UNCHANGED call
     /\ Answers(c, worker[w].outcome)
     /\ Rests(w)
     /\ UNCHANGED <<decision, deciding, live, secret, arrived>>

Crash(w) ==
  /\ ~At(w, "idle")
  /\ Rests(w)
  /\ UNCHANGED <<call, decision, deciding, live, secret, arrived, answers>>

-----------------------------------------------------------------------------
Works(w) ==
  \/ Look(w) \/ Settle(w) \/ Claim(w) \/ NoSlot(w) \/ Prepare(w)
  \/ Reaches(w) \/ NotSent(w) \/ Answered(w) \/ NoAnswer(w) \/ Finish(w)

Next ==
  \/ \E c \in Calls :
       \/ \E o \in Origins : proposeApiCall(c, o)
       \/ Expires(c) \/ DeadlinePasses(c)
       \/ \E d \in Decisions : decideApiCall(c, d) \/ RecordDecision(c, d)
  \/ \E o \in Origins : OriginEnds(o)
  \/ SecretChanges
  \/ \E w \in Workers :
       \/ \E c \in Calls : Poll(w, c) \/ \E o \in Origins : StartRead(w, c, o)
       \/ Works(w) \/ Crash(w)

Spec == Init /\ [][Next]_vars

\* The clock and the sweep go on, and no poll fails at the same step for
\* ever.
Fairness ==
  /\ \A c \in Calls \ Reads :
       WF_vars(Expires(c) \/ DeadlinePasses(c)) /\ SF_vars(\E w \in Workers : Poll(w, c))
  /\ \A w \in Workers : SF_vars(Look(w)) /\ SF_vars(Settle(w)) /\ WF_vars(Works(w))

FairSpec == Spec /\ Fairness

-----------------------------------------------------------------------------
CallRow ==
  [status : Final \cup {"none", "awaiting-approval", "sending"}, origin : Origins,
   version : Nat, age : {"fresh", "expired", "late", "overdue"}]

WorkerState ==
  [stage : {"idle", "look", "settle", "slot", "prepare", "send", "reached", "finish"},
   call : Calls \cup {"none"}, from : {"none", "awaiting-approval", "sending"},
   outcome : Final \cup {"none"}, version : Nat]

Typed ==
  /\ call \in [Calls -> CallRow]
  /\ decision \in [Calls -> Decisions \cup {"none"}]
  /\ deciding \subseteq Calls \X Decisions
  /\ live \subseteq Origins
  /\ secret \in Nat
  /\ worker \in [Workers -> WorkerState]
  /\ arrived \in [Calls -> [times : Nat, version : Nat]]
  /\ answers \in [Calls -> SUBSET Final]

Limited ==
  /\ Cardinality(inFlight) <= SlotLimit
  /\ \A o \in Origins : Cardinality(originCalls(o)) <= ScopeLimit

\* TypeOK: the values each variable takes; an answer is one of an ended call;
\* the calls in flight and the calls of one origin stay within their limits.
TypeOK == Typed /\ Limited

\* PromiseKept: a change reaches its service at most once, and what its row
\* says of it is and stays true, whatever polls overlap, crash or run late.
Report ==
  [c \in Calls |->
    CASE ~Change(c) -> "unmade"
      [] call[c].status \in {"awaiting-approval", "sending"} /\ Change(c) -> "open"
      [] call[c].status \in Unsent /\ Change(c) -> "nothing"
      [] call[c].status = "outcome-unknown" /\ Change(c) -> "unknown"
      [] OTHER -> "sent"]

Reached == [c \in Calls |-> IF Change(c) THEN arrived[c].times ELSE 0]

Promise == INSTANCE OnceCall WITH report <- Report, reached <- Reached

PromiseKept == Promise!Spec

\* SentAsApproved: a change that reached the service was approved by its
\* member, and bore the version of the secret that the approval was for,
\* however the secret changed and the decisions crossed meanwhile.
SentAsApproved ==
  \A c \in Calls :
    Change(c) /\ arrived[c].times > 0 =>
      decision[c] = "approve" /\ arrived[c].version = call[c].version

\* AnswersTrue: no turn or run is told that a change was not sent when it
\* was, or may yet be; nor that it was sent when it was not. Answers that
\* come from a sender and from the row do not contradict each other.
AnswersTrue ==
  \A c \in Calls :
    Change(c) =>
      /\ answers[c] \cap Unsent # {} => arrived[c].times = 0
      /\ "sent" \in answers[c] => arrived[c].times = 1

\* ChangesEnd: a change whose origin keeps waiting is decided by its member,
\* the expiry or the grace of a lost sender; it does not stay open.
ChangesEnd ==
  \A c \in Calls :
    Change(c) ~> (call[c].status \in Final \/ call[c].origin \notin live)
=============================================================================
