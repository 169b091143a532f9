---------------------------- MODULE ModelAttempt ----------------------------
(***************************************************************************)
(* One model attempt of a task step as the database keeps it: the row of   *)
(* tf_model_attempts, its row of tf_credit_usage and its row of            *)
(* tf_agent_task_model_accounting, which one transaction inserts together, *)
(* and what each statement of continuity.ts and task-model-accounting.ts   *)
(* makes of them. The functions are pure: TaskRuntime says when they run.  *)
(*                                                                         *)
(* Costs are abstract amounts: every attempt reserves ReservedCost, and a  *)
(* call whose usage the provider reported costs KnownCost. Open stands for *)
(* SQL's NULL: not charged, not observed, not settled.                     *)
(***************************************************************************)
EXTENDS Integers, FiniteSetsExt

CONSTANTS ReservedCost, KnownCost

ASSUME CostsFit == /\ ReservedCost \in Nat
                   /\ KnownCost \in 1 .. ReservedCost

Open == -1

Statuses == {"running", "succeeded", "failed", "abandoned"}

(***************************************************************************)
(* What a call ends with. "answer" reports usage for the model that was    *)
(* asked; "mismatch" answers for another model, so its usage is invalid;   *)
(* "rate-limit" and "refused" are HTTP failures. The provider never        *)
(* answered the others: a timeout, a route that is unavailable, an error   *)
(* of the client (which has no status), and a call that was never made.    *)
(***************************************************************************)
Successes == {"answer", "mismatch"}

\* Only usage of the model that was asked can be priced, and decides.
\* Mutant: any answer decides.
DecisiveAnyModel(result) == result \in Successes

Decisive(result) == result = "answer"

Unanswered == {"timeout", "unavailable", "provider-error", "not-started"}
Results == Successes \cup {"rate-limit", "refused"} \cup Unanswered

\* The failures that are retried.
transient == {"rate-limit", "timeout", "unavailable"}

NewAttempt(n, milliseconds) ==
    [step |-> n, status |-> "running", live |-> TRUE,
     noted |-> FALSE, known |-> FALSE, charged |-> Open,
     reserved |-> milliseconds, observed |-> Open, reported |-> FALSE,
     pending |-> FALSE, settled |-> Open, late |-> "none", forgotten |-> FALSE]

AttemptRows ==
    [step: Nat, status: Statuses, live: BOOLEAN,
     noted: BOOLEAN, known: BOOLEAN, charged: Nat \cup {Open},
     reserved: Nat, observed: Nat \cup {Open}, reported: BOOLEAN,
     pending: BOOLEAN, settled: Nat \cup {Open}, late: {"none", "armed", "observed"},
     forgotten: BOOLEAN]

(***************************************************************************)
(* Ending a running attempt without a result replaces its outcome, so a    *)
(* charge that a late settlement noted there without usage leaves no trace *)
(* in the row. forgotten is history, which no step reads: it says that     *)
(* this happened.                                                          *)
(***************************************************************************)
Abandoned(at) ==
    IF at.status = "running"
    THEN [at EXCEPT !.status = "abandoned", !.noted = FALSE,
                    !.forgotten = @ \/ (at.noted /\ ~at.known)]
    ELSE at

\* The cost a settlement is certain of: nothing for a call the provider never
\* answered, the price of its usage if that is known, otherwise undecided.
definitiveCharge(result, known) ==
    IF result \in Unanswered THEN 0 ELSE IF known THEN KnownCost ELSE Open

\* The hold is settled once; later settlements of it change nothing.
settleCredits(at, charge) ==
    IF at.charged = Open /\ charge # Open THEN charge ELSE at.charged

(***************************************************************************)
(* settleAttempt on an attempt that is still live.                         *)
(***************************************************************************)
SettledLive(at, result) ==
    LET known == result = "answer"
        charge == definitiveCharge(result, known)
    IN [at EXCEPT !.status = IF result \in Successes THEN "succeeded" ELSE "failed",
                  !.noted = (charge # Open),
                  !.known = known,
                  !.charged = settleCredits(at, charge)]

\* How the generation's spending changes: the reservation is replaced by the
\* charge, or kept when the charge is undecided.
LiveCorrection(result) ==
    LET charge == definitiveCharge(result, result = "answer")
    IN IF charge = Open THEN 0 ELSE charge - ReservedCost

(***************************************************************************)
(* settleAttempt on an attempt that is no longer live: the row takes the   *)
(* charge and the usage unless it already carries one of them.             *)
(***************************************************************************)
\* Mutant: a charge already noted does not stop another correction.
CorrectableNoted(at) == ~at.known

Correctable(at) == ~at.known /\ ~at.noted

SettledLate(at, result, known) ==
    LET charge == definitiveCharge(result, known)
    IN [at EXCEPT !.charged = settleCredits(at, charge),
                  !.noted = IF Correctable(at) THEN charge # Open ELSE @,
                  !.known = IF Correctable(at) THEN known ELSE @]

LateCorrection(at, result, known) ==
    LET charge == definitiveCharge(result, known)
    IN IF Correctable(at) /\ charge # Open THEN charge - ReservedCost ELSE 0

(***************************************************************************)
(* observeTaskModel: the first observation is kept, a longer one or one    *)
(* that brings the usage replaces it, and each leaves accounting to do.    *)
(***************************************************************************)
Observed(at, reported, milliseconds) ==
    IF \/ at.observed = Open
       \/ at.observed < milliseconds
       \/ ~at.reported /\ reported
    THEN [at EXCEPT !.observed = Max({@, milliseconds}),
                    !.reported = @ \/ reported,
                    !.pending = TRUE]
    ELSE at

(***************************************************************************)
(* settleTaskModelTime: the task's active time is corrected by what is     *)
(* observed, from what was counted before.                                 *)
(***************************************************************************)
TimeCorrection(at) ==
    at.observed - (IF at.settled = Open THEN at.reserved ELSE at.settled)

TimeSettled(at) == [at EXCEPT !.settled = at.observed, !.pending = FALSE]

\* What the attempt has added to its task's active time.
Counted(at) == IF at.settled = Open THEN at.reserved ELSE at.settled

(***************************************************************************)
(* recoverTaskModelUsage on one row: it is ended if it was running and     *)
(* settled as a timeout that carries the observation.                      *)
(***************************************************************************)
Recovered(at) ==
    TimeSettled(SettledLate(Abandoned(at), "timeout", at.reported))

RecoveryCorrection(at) == LateCorrection(Abandoned(at), "timeout", at.reported)
=============================================================================
