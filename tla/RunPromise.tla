----------------------------- MODULE RunPromise -----------------------------
(***************************************************************************)
(* What a workflow run promises whoever started it: its steps complete one *)
(* at a time, once each, in the order of its definition, a step behind a   *)
(* condition only on the branch the condition chose; a run that ended, by  *)
(* itself or by a person, never changes.  WorkflowRuns implements it.      *)
(***************************************************************************)
EXTENDS Naturals, Sequences

CONSTANTS
  Runs,
  Plans  \* the definitions: sequences of steps, each with its gates

VARIABLES
  phase,  \* how far a reader sees each run
  plan,   \* the definition each run was started with
  kept    \* the branch each completed step of a run chose

Init ==
  /\ phase = [r \in Runs |-> "none"]
  /\ plan = [r \in Runs |-> <<>>]
  /\ kept = [r \in Runs |-> [i \in {} |-> "none"]]

Chosen(r, i) ==
  \A gate \in plan[r][i].gates : gate.step \in DOMAIN kept[r] /\ kept[r][gate.step] = gate.branch

\* The steps the run still has to take.
Left(r) == {i \in DOMAIN plan[r] \ DOMAIN kept[r] : Chosen(r, i)}

Begin(r) ==
  /\ phase[r] = "none"
  /\ phase' = [phase EXCEPT ![r] = "open"]
  /\ \E p \in Plans : plan' = [plan EXCEPT ![r] = p]
  /\ UNCHANGED kept

Complete(r) ==
  /\ phase[r] = "open"
  /\ \E i \in Left(r), branch \in {"none", "ifMet", "otherwise"} :
       /\ \A j \in Left(r) : i <= j
       /\ kept' = [kept EXCEPT ![r] = [j \in DOMAIN @ \cup {i} |-> IF j = i THEN branch ELSE @[j]]]
  /\ UNCHANGED <<phase, plan>>

Finish(r) ==
  /\ phase[r] = "open"
  /\ Left(r) = {}
  /\ phase' = [phase EXCEPT ![r] = "completed"]
  /\ UNCHANGED <<plan, kept>>

\* A failure, a person or a lost authority ends runs before their last step.
Stop(S) ==
  /\ S # {}
  /\ \A r \in S : phase[r] = "open"
  /\ phase' = [r \in Runs |-> IF r \in S THEN "stopped" ELSE phase[r]]
  /\ UNCHANGED <<plan, kept>>

Next ==
  \/ \E r \in Runs : Begin(r) \/ Complete(r) \/ Finish(r)
  \/ \E S \in SUBSET Runs : Stop(S)

Spec == Init /\ [][Next]_<<phase, plan, kept>>
=============================================================================
