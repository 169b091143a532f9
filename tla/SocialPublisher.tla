--------------------------- MODULE SocialPublisher ---------------------------
(* Publishing approved variants (packages/social/src/publisher.ts): the step *)
(* sweep of several worker processes, the commands of people on a variant,   *)
(* and the platform the steps change.                                        *)
(*                                                                           *)
(* A changing step spans three transactions with calls between them: every   *)
(* check; the claim, which checks again, writes a receipt and the `sending'  *)
(* state under a lease; the call; the settlement. A process may stop between *)
(* any two of them and another one may act meanwhile. A variant's row lock   *)
(* is taken with SKIP LOCKED by the sweep and is waited for by a settlement. *)
EXTENDS SocialPosts

CONSTANTS Workers,        \* worker processes that sweep
          FailureLimit,   \* beforeSendAttemptLimit
          CapLimit        \* the platform's limit of its capped step in 24 hours

ASSUME PublisherAssumption == FailureLimit \in Nat \ {0} /\ CapLimit \in Nat

VARIABLES worker,     \* [Workers -> what the process holds between transactions]
          calls,      \* [Variants -> Seq(what the platform did with each attempt)]
          post,       \* [Variants -> the post on the platform]
          byPerson    \* the variants a person settled

vars == <<storageVars, postVars, worker, calls, post, byPerson>>

Idle == [pc |-> "idle"]
Go(w, state) == worker' = [worker EXCEPT ![w] = state]

\* The plan's last changing step creates the post. The adapters that have a
\* daily cap have it on this step.
Publishes(i) == Plan[i] = "mutate" /\ \A j \in i + 1 .. Len(Plan) : Plan[j] = "await"

\* The rows locked by a claim that has read and not yet written.
Locked == {worker[w].v : w \in {x \in Workers : worker[x].pc = "claiming"}}

Waited(v, states) == In(v, states) /\ variant[v].due /\ v \notin Locked

\* The row still is at the step, and the attempt of it, that was read before.
sameStep(v, seen) ==
  /\ variant[v].state = seen.state
  /\ variant[v].attempt = seen.attempt
  /\ variant[v].step = seen.step

\* Receipts of the capped step that may have reached the platform. (24 hours
\* are longer than a behaviour of the model.)
Counted == {p \in Variants \X (1 .. MaxAttempts) :
              /\ p[2] =< Len(receipts[p[1]])
              /\ Publishes(receipts[p[1]][p[2]].step)
              /\ receipts[p[1]][p[2]].status # "failed"}

\* databaseChecks: what the database answers just before a changing step. Every
\* permanent reason stands for the sponsor's grant on the channel.
databaseChecks(v) ==
  IF decision[v[1]] # "approve" \/ ~granted[v[2]] THEN "permanent"
  ELSE IF Cardinality(Counted) >= CapLimit THEN "temporary" ELSE "pass"

\* mutate, first transaction and the platform's checks after it. A transient
\* failure of a check leaves everything as it is.
CheckStep(w, v) ==
  /\ worker[w] = Idle
  /\ Waited(v, {"scheduled", "processing"})
  /\ Plan[At(v)] = "mutate"
  /\ IF databaseChecks(v) = "pass"
     THEN /\ \E ready \in {"pass", "temporary", "permanent"} :
               Go(w, [pc |-> "checked", v |-> v, seen |-> variant[v], ready |-> ready])
          /\ UNCHANGED variant
     ELSE /\ Block(v, databaseChecks(v) = "temporary")
          /\ UNCHANGED worker
  /\ UNCHANGED <<receipts, decision, postVars, calls, post, byPerson>>

\* Mutant: the claim trusts the checks of the first transaction.
ClaimPasses_Unchecked(v) == TRUE

ClaimPasses(v) == databaseChecks(v) = "pass"

\* mutate, the claim's reads: nothing changed since the checks, and they are run
\* again. A variant that fails one is blocked, and one whose stored step is no
\* longer in its adapter's plan is unknown.
ClaimStep(w) ==
  LET v == worker[w].v
      seen == worker[w].seen
  IN  /\ worker[w].pc = "checked"
      /\ Waited(v, {"scheduled", "processing"})
      /\ sameStep(v, seen)
      /\ \/ /\ In(v, {"processing"})
            /\ Move(v, "outcome-unknown", FALSE)
            /\ Go(w, Idle)
         \/ /\ worker[w].ready # "pass"
            /\ Block(v, worker[w].ready = "temporary")
            /\ Go(w, Idle)
         \/ /\ worker[w].ready = "pass"
            /\ ~ClaimPasses(v)
            /\ Block(v, databaseChecks(v) = "temporary")
            /\ Go(w, Idle)
         \/ /\ worker[w].ready = "pass"
            /\ ClaimPasses(v)
            /\ Len(receipts[v]) < MaxAttempts
            /\ Go(w, [pc |-> "claiming", v |-> v])
            /\ UNCHANGED variant
      /\ UNCHANGED <<receipts, decision, postVars, calls, post, byPerson>>

\* mutate, the claim's writes: the receipt of a new attempt, the step, the lease;
\* then the call is on its way.
SendStep(w) ==
  LET v == worker[w].v
      a == Len(receipts[v]) + 1
      i == At(v)
  IN  /\ worker[w].pc = "claiming"
      /\ Writable(v, "sending")
      /\ receipts' = [receipts EXCEPT ![v] =
                        Append(@, [step |-> i, status |-> "executing", class |-> "none"])]
      /\ variant' = [variant EXCEPT ![v] =
                       [state |-> "sending", step |-> i, attempt |-> a,
                        due |-> FALSE, recheck |-> FALSE]]
      /\ calls' = [calls EXCEPT ![v] = Append(@, "flight")]
      /\ Go(w, [pc |-> "calling", v |-> v, attempt |-> a, step |-> i])
      /\ UNCHANGED <<decision, postVars, post, byPerson>>

-----------------------------------------------------------------------------
(* The platform: a call takes effect, or the platform refuses it or it is     *)
(* never sent. The post of the last changing step exists at once, or is       *)
(* processed first when an await step follows.                                *)

Land(v, a) ==
  /\ calls[v][a] = "flight"
  /\ calls' = [calls EXCEPT ![v][a] = "landed"]
  /\ post' = IF Publishes(receipts[v][a].step)
             THEN [post EXCEPT ![v] = IF receipts[v][a].step = Len(Plan) THEN "live" ELSE "processing"]
             ELSE post
  /\ UNCHANGED <<storageVars, postVars, worker, byPerson>>

Refuse(v, a) ==
  /\ calls[v][a] = "flight"
  /\ calls' = [calls EXCEPT ![v][a] = "refused"]
  /\ UNCHANGED <<storageVars, postVars, worker, post, byPerson>>

PlatformProcesses(v) ==
  /\ post[v] = "processing"
  /\ \E end \in {"live", "rejected"} : post' = [post EXCEPT ![v] = end]
  /\ UNCHANGED <<storageVars, postVars, worker, calls, byPerson>>

\* What adapter.mutate may return or throw. Only `after' (an error after the
\* request was sent, or an answer that cannot be used) says nothing.
Answers(v, a, i) ==
  {"after"} \cup
  (IF calls[v][a] = "landed"
   THEN IF i = Len(Plan) THEN {"published", "done"} ELSE {"done"}
   ELSE IF calls[v][a] = "refused"
        THEN {"rejected", "rate-limited", "reconnect", "media-unavailable", "before"}
        ELSE {})

Answer(w) ==
  LET call == worker[w]
  IN  /\ call.pc = "calling"
      /\ \E answer \in Answers(call.v, call.attempt, call.step) :
           Go(w, [pc |-> "answered", v |-> call.v, attempt |-> call.attempt,
                  step |-> call.step, answer |-> answer])
      /\ UNCHANGED <<storageVars, postVars, calls, post, byPerson>>

-----------------------------------------------------------------------------
(* mutate, the settlement: one transaction, by the answer.                    *)

\* The variant still is at the attempt that was sent.
Settling(w, answers) ==
  /\ worker[w].pc = "answered"
  /\ worker[w].answer \in answers
  /\ worker[w].v \notin Locked
  /\ In(worker[w].v, {"sending"})
  /\ variant[worker[w].v].attempt = worker[w].attempt
  /\ Go(w, Idle)
  /\ UNCHANGED <<decision, postVars, calls, post, byPerson>>

\* Mutant: the step after the last one is started too.
SettleDone_PastTheEnd(w) ==
  LET v == worker[w].v
  IN  /\ Settling(w, {"done"})
      /\ receipts' = Settled(v, worker[w].attempt, "succeeded", "none")
      /\ Writable(v, "processing")
      /\ variant' = [variant EXCEPT ![v] = Moved(@, "processing", @.step + 1, TRUE, FALSE)]

SettleDone(w) ==
  LET v == worker[w].v
      i == variant[v].step
  IN  /\ Settling(w, {"done"})
      /\ receipts' = Settled(v, worker[w].attempt, "succeeded", "none")
      /\ IF i < Len(Plan)
         THEN /\ Writable(v, "processing")
              /\ variant' = [variant EXCEPT ![v] = Moved(@, "processing", i + 1, TRUE, FALSE)]
         ELSE Move(v, "outcome-unknown", FALSE)

SettlePublished(w) ==
  /\ Settling(w, {"published"})
  /\ receipts' = Settled(worker[w].v, worker[w].attempt, "succeeded", "none")
  /\ Move(worker[w].v, "published", FALSE)

SettleRejected(w) ==
  /\ Settling(w, {"rejected"})
  /\ receipts' = Settled(worker[w].v, worker[w].attempt, "failed", "none")
  /\ Move(worker[w].v, "failed", FALSE)

\* The platform refused the request, or it had no media: through `processing' to
\* `blocked' in one transaction. Only a rate limit sets recheck_at.
SettleRefused(w) ==
  LET limited == worker[w].answer = "rate-limited"
      v == worker[w].v
  IN  /\ Settling(w, {"rate-limited", "reconnect", "media-unavailable"})
      /\ receipts' = Settled(v, worker[w].attempt, "failed",
                             IF limited THEN "rate-limited" ELSE "retry")
      /\ TriggerAllows("processing", "blocked", TRUE)
      /\ Writable(v, "processing")
      /\ variant' = [variant EXCEPT ![v] = Moved(@, "blocked", @.step, FALSE, limited)]

\* Failed attempts of the step, rate limits aside.
Failures(v, i) == {a \in 1 .. Len(receipts[v]) :
  /\ receipts[v][a].step = i
  /\ receipts[v][a].status = "failed"
  /\ receipts[v][a].class # "rate-limited"}

\* A failure before the request was sent is retried, FailureLimit times in all.
SettleBefore(w) ==
  LET v == worker[w].v
  IN  /\ Settling(w, {"before"})
      /\ receipts' = Settled(v, worker[w].attempt, "failed", "retry")
      /\ Move(v, IF Cardinality(Failures(v, worker[w].step)) + 1 >= FailureLimit
                 THEN "failed" ELSE "processing", FALSE)

\* Mutant: an error after the request was sent is retried like one before it.
SettleAfter_Retries(w) ==
  /\ Settling(w, {"after"})
  /\ receipts' = Settled(worker[w].v, worker[w].attempt, "failed", "retry")
  /\ Move(worker[w].v, "processing", FALSE)

SettleAfter(w) ==
  /\ Settling(w, {"after"})
  /\ receipts' = Settled(worker[w].v, worker[w].attempt, "outcome-unknown", "none")
  /\ Move(worker[w].v, "outcome-unknown", FALSE)

\* An answer after the lease expired: only a confirmed post settles the variant,
\* and the receipt stays as it is. In any other state the answer is dropped.
SettleLate(w) ==
  LET v == worker[w].v
  IN  /\ worker[w].pc = "answered"
      /\ v \notin Locked
      /\ ~In(v, {"sending"}) \/ variant[v].attempt # worker[w].attempt
      /\ IF /\ In(v, {"outcome-unknown"})
            /\ variant[v].attempt = worker[w].attempt
            /\ worker[w].answer = "published"
         THEN Move(v, "published", FALSE) ELSE UNCHANGED variant
      /\ Go(w, Idle)
      /\ UNCHANGED <<receipts, decision, postVars, calls, post, byPerson>>

-----------------------------------------------------------------------------
(* poll: an await step only reads the platform.                               *)

PollLease(w, v) ==
  /\ worker[w] = Idle
  /\ Waited(v, {"processing"})
  /\ Plan[At(v)] = "await"
  /\ \/ Move(v, "outcome-unknown", FALSE) /\ UNCHANGED worker   \* too long, or not in the plan
     \/ /\ Move(v, "processing", FALSE)
        /\ Go(w, [pc |-> "polling", v |-> v, seen |-> variant[v]])
  /\ UNCHANGED <<receipts, decision, postVars, calls, post, byPerson>>

Statuses(v, i) ==
  {"pending", "reconnect"} \cup
  (IF \E j \in i + 1 .. Len(Plan) : Plan[j] = "mutate" THEN {"ready", "failed"}
   ELSE IF post[v] = "live" THEN {"published", "ready"}
        ELSE IF post[v] = "rejected" THEN {"failed"} ELSE {})

\* A status that cannot be read leaves the variant to its next poll (WorkerStops).
PollRead(w) ==
  LET v == worker[w].v
  IN  /\ worker[w].pc = "polling"
      /\ \E status \in Statuses(v, worker[w].seen.step) :
           Go(w, [pc |-> "polled", v |-> v, seen |-> worker[w].seen, status |-> status])
      /\ UNCHANGED <<storageVars, postVars, calls, post, byPerson>>

PollIsCurrent(v, seen) == In(v, {"processing"}) /\ variant[v].step = seen.step

PollSettle(w) ==
  LET v == worker[w].v
      i == variant[v].step
      status == worker[w].status
  IN  /\ worker[w].pc = "polled"
      /\ v \notin Locked
      /\ PollIsCurrent(v, worker[w].seen)
      /\ \/ status = "pending" /\ Move(v, "processing", FALSE)
         \/ /\ status = "ready" /\ i < Len(Plan)
            /\ variant' = [variant EXCEPT ![v] = Moved(@, @.state, i + 1, TRUE, FALSE)]
         \/ status = "ready" /\ i = Len(Plan) /\ Move(v, "outcome-unknown", FALSE)
         \/ status = "published" /\ Move(v, "published", FALSE)
         \/ status = "failed" /\ Move(v, "failed", FALSE)
         \/ status = "reconnect" /\ Block(v, FALSE)
      /\ Go(w, Idle)
      /\ UNCHANGED <<receipts, decision, postVars, calls, post, byPerson>>

-----------------------------------------------------------------------------
(* reconcile: an unknown outcome, read from the platform.                     *)

ReconcileLease(w, v) ==
  /\ worker[w] = Idle
  /\ Waited(v, {"outcome-unknown"})
  /\ Move(v, "outcome-unknown", FALSE)
  /\ Go(w, [pc |-> "reconciling", v |-> v, seen |-> variant[v]])
  /\ UNCHANGED <<receipts, decision, postVars, calls, post, byPerson>>

\* Evidence tied to the attempt: the post itself, or that the attempt cannot
\* create one any more. Anything less settles nothing (WorkerStops).
Evidence(v) ==
  IF post[v] = "live" THEN {"found"}
  ELSE IF /\ post[v] # "processing"
          /\ \A a \in 1 .. Len(calls[v]) : calls[v][a] # "flight"
       THEN {"absent"} ELSE {}

ReconcileRead(w) ==
  /\ worker[w].pc = "reconciling"
  /\ \E result \in Evidence(worker[w].v) :
       Go(w, [pc |-> "reconciled", v |-> worker[w].v, seen |-> worker[w].seen, result |-> result])
  /\ UNCHANGED <<storageVars, postVars, calls, post, byPerson>>

ReconcileSettle(w) ==
  LET v == worker[w].v
  IN  /\ worker[w].pc = "reconciled"
      /\ v \notin Locked
      /\ In(v, {"outcome-unknown"})
      /\ variant[v].attempt = worker[w].seen.attempt
      /\ Move(v, IF worker[w].result = "found" THEN "published" ELSE "not-published", FALSE)
      /\ Go(w, Idle)
      /\ UNCHANGED <<receipts, decision, postVars, calls, post, byPerson>>

\* The process stops, a check or a read fails, or what was read is out of date.
WorkerStops(w) ==
  /\ worker[w] # Idle
  /\ Go(w, Idle)
  /\ UNCHANGED <<storageVars, postVars, calls, post, byPerson>>

-----------------------------------------------------------------------------
(* The rest of the sweep; each variant in a transaction of its own.           *)

Swept == UNCHANGED <<decision, postVars, worker, calls, post, byPerson>>

\* Blocked for seven days after it was due.
CancelBlocked(v) ==
  /\ v \notin Locked
  /\ In(v, {"blocked"})
  /\ Move(v, "cancelled", FALSE)
  /\ UNCHANGED receipts
  /\ Swept

\* Where a blocked variant continues.
Resumed(v) == IF Attempted(v) THEN "processing" ELSE "scheduled"

Recheck(v) ==
  /\ Waited(v, {"blocked"})
  /\ variant[v].recheck
  /\ Move(v, Resumed(v), TRUE)
  /\ UNCHANGED receipts
  /\ Swept

\* Mutant: a claim whose lease has expired is taken to have done nothing.
ExpireLease_Retries(v) ==
  /\ Waited(v, {"sending"})
  /\ receipts' = Settled(v, variant[v].attempt, "failed", "retry")
  /\ Move(v, "processing", FALSE)
  /\ Swept

\* Mutant: the receipt of an expired lease stays executing.
ExpireLease_KeepsReceipt(v) ==
  /\ Waited(v, {"sending"})
  /\ UNCHANGED receipts
  /\ Move(v, "outcome-unknown", FALSE)
  /\ Swept

\* Mutant: leases never expire.
ExpireLease_Never(v) == FALSE /\ UNCHANGED vars

ExpireLease(v) ==
  /\ Waited(v, {"sending"})
  /\ receipts' = Settled(v, variant[v].attempt, "outcome-unknown", "none")
  /\ Move(v, "outcome-unknown", FALSE)
  /\ Swept

-----------------------------------------------------------------------------
(* Commands of people on a variant, and changes around it.                    *)

\* resume, its last transaction: the checks of the database and of the platform.
Resume(v) ==
  /\ v \notin Locked
  /\ In(v, {"blocked"})
  /\ \/ \E temporary \in BOOLEAN : Block(v, temporary)
     \/ databaseChecks(v) = "pass" /\ Move(v, Resumed(v), TRUE)
  /\ UNCHANGED receipts
  /\ Swept

\* cancel, by a person who may publish on the channel.
Cancel(v) ==
  /\ v \notin Locked
  /\ In(v, {"blocked"})
  /\ Move(v, "cancelled", FALSE)
  /\ UNCHANGED receipts
  /\ Swept

\* settle: a person confirms a candidate or rejects every one.
Settle(v) ==
  /\ v \notin Locked
  /\ In(v, {"outcome-unknown"})
  /\ \E to \in {"published", "not-published"} : Move(v, to, FALSE)
  /\ byPerson' = byPerson \cup {v}
  /\ UNCHANGED <<receipts, decision, postVars, worker, calls, post>>

\* A grant, an account or a source changes, under the authorization lock that
\* every transaction above shares.
ChangeGrant(c) ==
  /\ Locked = {}
  /\ editor.pc # "locked"
  /\ \A d \in Deciders : decider[d].pc # "confirming"
  /\ granted' = [granted EXCEPT ![c] = ~@]
  /\ UNCHANGED <<storageVars, current, editor, decider, worker, calls, post, byPerson>>

\* The time a variant waits for comes: due_at, a lease, a retry or a recheck.
TimeComes(v) ==
  /\ In(v, {"scheduled", "sending", "processing", "outcome-unknown", "blocked"})
  /\ In(v, {"blocked"}) => variant[v].recheck
  /\ ~variant[v].due
  /\ variant' = [variant EXCEPT ![v] = Moved(@, @.state, @.step, TRUE, @.recheck)]
  /\ UNCHANGED <<receipts, decision, postVars, worker, calls, post, byPerson>>

-----------------------------------------------------------------------------
Init ==
  /\ PostInit
  /\ worker = [w \in Workers |-> Idle]
  /\ calls = [v \in Variants |-> << >>]
  /\ post = [v \in Variants |-> "none"]
  /\ byPerson = {}

Edits ==
  /\ \/ ReviseRead \/ ReviseRecheck \/ ReviseFails
     \/ \E valid \in BOOLEAN : ReviseWrite(Locked, valid)
  /\ UNCHANGED <<worker, calls, post, byPerson>>

Decides ==
  /\ \E d \in Deciders :
       \/ \E choice \in {"approve", "reject"} : DecideCheck(d, choice)
       \/ DecideConfirm(d) \/ DecideInsert(d) \/ DecideApply(d) \/ DecideStops(d)
  /\ UNCHANGED <<worker, calls, post, byPerson>>

Steps(w) ==
  \/ \E v \in Variants : CheckStep(w, v) \/ PollLease(w, v) \/ ReconcileLease(w, v)
  \/ ClaimStep(w) \/ SendStep(w) \/ Answer(w)
  \/ SettleDone(w) \/ SettlePublished(w) \/ SettleRejected(w) \/ SettleRefused(w)
  \/ SettleBefore(w) \/ SettleAfter(w) \/ SettleLate(w)
  \/ PollRead(w) \/ PollSettle(w) \/ ReconcileRead(w) \/ ReconcileSettle(w)
  \/ WorkerStops(w)

Sweeps(v) ==
  \/ ExpireUndecided(v) /\ UNCHANGED <<worker, calls, post, byPerson>>
  \/ CancelBlocked(v) \/ Recheck(v) \/ ExpireLease(v)

Platform(v) ==
  \/ \E a \in 1 .. Len(calls[v]) : Land(v, a) \/ Refuse(v, a)
  \/ PlatformProcesses(v)

Next ==
  \/ Edits
  \/ Decides
  \/ \E w \in Workers : Steps(w)
  \/ \E v \in Variants : Sweeps(v) \/ Platform(v) \/ Resume(v) \/ Cancel(v) \/ Settle(v) \/ TimeComes(v)
  \/ \E c \in Channels : ChangeGrant(c)

Spec == Init /\ [][Next]_vars

\* The sweep runs every 15 seconds in some process, and time passes.
FairSpec == /\ Spec
            /\ \A v \in Variants : WF_vars(TimeComes(v)) /\ WF_vars(ExpireLease(v))
            /\ \A d \in Deciders : WF_vars(DecideApply(d) /\ UNCHANGED <<worker, calls, post, byPerson>>)

-----------------------------------------------------------------------------
(* Properties.                                                               *)

WorkerStates ==
  {Idle} \cup
  [pc : {"checked"}, v : Variants, seen : Row, ready : {"pass", "temporary", "permanent"}] \cup
  [pc : {"claiming"}, v : Variants] \cup
  [pc : {"calling"}, v : Variants, attempt : 1 .. MaxAttempts, step : 1 .. Len(Plan)] \cup
  [pc : {"answered"}, v : Variants, attempt : 1 .. MaxAttempts, step : 1 .. Len(Plan),
   answer : {"done", "published", "rejected", "rate-limited", "reconnect",
             "media-unavailable", "before", "after"}] \cup
  [pc : {"polling"}, v : Variants, seen : Row] \cup
  [pc : {"polled"}, v : Variants, seen : Row,
   status : {"pending", "ready", "published", "failed", "reconnect"}] \cup
  [pc : {"reconciling"}, v : Variants, seen : Row] \cup
  [pc : {"reconciled"}, v : Variants, seen : Row, result : {"found", "absent"}]

\* Every variable has its type, and the platform knows of every attempt.
TypeOK ==
  /\ PostTypeOK
  /\ worker \in [Workers -> WorkerStates]
  /\ calls \in [Variants -> Seq({"flight", "landed", "refused"})]
  /\ post \in [Variants -> {"none", "processing", "live", "rejected"}]
  /\ byPerson \subseteq Variants

\* A changing step takes effect at most once, whatever workers sweep at the same
\* time, stop, answer late or retry.
StepTakesEffectOnce ==
  \A v \in Variants : \A a, b \in 1 .. Len(calls[v]) :
    /\ a # b
    /\ receipts[v][a].step = receipts[v][b].step
    /\ calls[v][a] = "landed"
    => calls[v][b] # "landed"

\* The publishing step was confirmed: the platform has the post, or still
\* processes it. A variant blocked while it polls may be cancelled after that.
HandedOver(v) == \E a \in 1 .. Len(receipts[v]) :
  Publishes(receipts[v][a].step) /\ receipts[v][a].status = "succeeded"

\* What a variant ends as is what happened on the platform: a published one has
\* its post; a failed, superseded or not-published one, or one cancelled before
\* its publishing step was confirmed, never gets a post. (A person may settle an
\* unknown outcome wrongly.)
OutcomesTrue ==
  \A v \in Variants \ byPerson :
    /\ In(v, {"published"}) => post[v] = "live"
    /\ \/ In(v, {"failed", "superseded", "not-published"})
       \/ In(v, {"cancelled"}) /\ ~HandedOver(v)
       => /\ post[v] \in {"none", "rejected"}
          /\ \A a \in 1 .. Len(calls[v]) :
               Publishes(receipts[v][a].step) => calls[v][a] # "flight"

\* A row is `sending' exactly while its last receipt is executing, earlier ones
\* are settled, and a variant is back in the queue before any attempt or after
\* one, never the wrong way round.
ReceiptsMatchState ==
  \A v \in Variants :
    /\ \A a \in 1 .. Len(receipts[v]) :
         receipts[v][a].status = "executing" <=> In(v, {"sending"}) /\ a = Len(receipts[v])
    /\ variant[v].attempt = Len(receipts[v])
    /\ In(v, {"scheduled", "draft", "awaiting-approval", "superseded"}) => ~Attempted(v)
    /\ In(v, {"processing", "sending", "outcome-unknown"}) => Attempted(v)

\* Each channel gets at most one revision of the post, an approved one: an edit
\* never replaces what was already sent, nor sends beside it.
OneRevisionSent ==
  \A v, u \in Variants :
    Attempted(v) => /\ decision[v[1]] = "approve"
                    /\ Attempted(u) /\ u[2] = v[2] => u = v

\* A step is sent only while the sponsor holds the grant: what was checked before
\* the calls to the platform is not relied on after them.
SentWhileGranted ==
  [][\A v \in Variants : Len(receipts'[v]) > Len(receipts[v]) => granted[v[2]]]_vars

\* A step whose worker stopped does not stay `sending': the sweep ends its lease.
SendingEnds == \A v \in Variants : In(v, {"sending"}) ~> ~In(v, {"sending"})
=============================================================================
