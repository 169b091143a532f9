---------------------------- MODULE SocialVariant ----------------------------
(* The stored part of social publishing: the variants of one post (a variant *)
(* is one revision's content for one channel), the receipts of its changing  *)
(* steps, the decision on each revision, and the database triggers that      *)
(* refuse an illegal write (0004_social.sql).                                *)
(*                                                                           *)
(* Clocks are abstract: `due' says that the moment the variant waits for has *)
(* passed (due_at, next_attempt_at or recheck_at, by its state).             *)
EXTENDS Naturals, Sequences, FiniteSets

CONSTANTS Channels,      \* the channels the post is prepared for
          MaxRevision,   \* bound: revisions of the post
          Plan,          \* the adapter's steps, each "mutate" or "await"
          MaxAttempts    \* bound: receipts of one variant

ASSUME VariantAssumption ==
  /\ MaxRevision \in Nat \ {0}
  /\ MaxAttempts \in Nat
  /\ Plan \in Seq({"mutate", "await"})
  /\ Plan # << >>
  /\ Plan[1] = "mutate"

Revisions == 1 .. MaxRevision
Variants == Revisions \X Channels

FinalStates == {"published", "failed", "not-published", "superseded", "cancelled"}
OpenStates == {"draft", "awaiting-approval", "scheduled", "sending", "processing",
               "blocked", "outcome-unknown"}
Supersedable == {"draft", "awaiting-approval", "scheduled", "blocked"}
\* "unwritten": the revision has no variant for the channel.
States == FinalStates \cup OpenStates \cup {"unwritten"}

\* The application's table: whether the code may move a variant.
canTransition(from, to, hasReceipt) ==
  \/ <<from, to>> \in
       {<<"draft", "awaiting-approval">>, <<"awaiting-approval", "scheduled">>,
        <<"awaiting-approval", "cancelled">>, <<"scheduled", "sending">>,
        <<"scheduled", "blocked">>, <<"sending", "processing">>,
        <<"processing", "sending">>, <<"processing", "blocked">>,
        <<"sending", "published">>, <<"processing", "published">>,
        <<"sending", "failed">>, <<"processing", "failed">>,
        <<"sending", "outcome-unknown">>, <<"processing", "outcome-unknown">>,
        <<"outcome-unknown", "published">>, <<"outcome-unknown", "not-published">>,
        <<"blocked", "cancelled">>}
  \/ ~hasReceipt /\ from = "blocked" /\ to = "scheduled"
  \/ hasReceipt /\ from = "blocked" /\ to = "processing"
  \/ ~hasReceipt /\ from \in Supersedable /\ to = "superseded"
  \/ ~hasReceipt /\ from \in OpenStates /\ to = "cancelled"

VARIABLES variant,    \* [Variants -> the row: state, step, attempt, due, recheck]
          receipts,   \* [Variants -> Seq(receipt)]; an attempt is an index of it
          decision    \* [Revisions -> {"none", "approve", "reject"}]

storageVars == <<variant, receipts, decision>>

\* step is 0 (null) until the first claim, then the index in the plan.
Row == [state : States, step : 0 .. Len(Plan), attempt : 0 .. MaxAttempts,
        due : BOOLEAN, recheck : BOOLEAN]
Receipt == [step : 1 .. Len(Plan),
            status : {"executing", "succeeded", "failed", "outcome-unknown"},
            class : {"none", "retry", "rate-limited"}]

NewRow(state) == [state |-> state, step |-> 0, attempt |-> 0, due |-> FALSE, recheck |-> FALSE]

\* The row after an UPDATE of its state, its step and its times.
Moved(row, to, step, due, recheck) ==
  [state |-> to, step |-> step, attempt |-> row.attempt, due |-> due, recheck |-> recheck]

Attempted(v) == receipts[v] # << >>
At(v) == IF variant[v].step = 0 THEN 1 ELSE variant[v].step
In(v, states) == variant[v].state \in states

\* tf_social_variant_transition, a change of state of a row that is not final.
TriggerAllows(from, to, attempted) ==
  /\ ~ /\ attempted
       /\ \/ to = "superseded"
          \/ to = "cancelled" /\ from \notin {"awaiting-approval", "blocked"}
          \/ from = "blocked" /\ to = "scheduled"
  /\ ~ (~attempted /\ from = "blocked" /\ to = "processing")
  /\ \/ <<from, to>> \in
          {<<"draft", "awaiting-approval">>, <<"awaiting-approval", "scheduled">>,
           <<"awaiting-approval", "cancelled">>, <<"scheduled", "sending">>,
           <<"scheduled", "blocked">>, <<"sending", "processing">>,
           <<"processing", "sending">>, <<"processing", "blocked">>,
           <<"sending", "published">>, <<"processing", "published">>,
           <<"sending", "failed">>, <<"processing", "failed">>,
           <<"sending", "outcome-unknown">>, <<"processing", "outcome-unknown">>,
           <<"outcome-unknown", "published">>, <<"outcome-unknown", "not-published">>,
           <<"blocked", "scheduled">>, <<"blocked", "processing">>, <<"blocked", "cancelled">>}
     \/ to = "superseded" /\ from \in Supersedable
     \/ to = "cancelled"

\* The trigger as a whole: what it lets an UPDATE of v write as the state.
Writable(v, to) ==
  /\ variant[v].state \in OpenStates
  /\ to \notin {"draft", "awaiting-approval", "superseded", "cancelled"}
       => decision[v[1]] = "approve"
  /\ to # variant[v].state => TriggerAllows(variant[v].state, to, Attempted(v))

\* An UPDATE of the row that moves it to `to'; a refused write aborts its transaction.
Move(v, to, due) ==
  /\ Writable(v, to)
  /\ variant' = [variant EXCEPT ![v] = Moved(@, to, @.step, due, FALSE)]

\* The block of a waiting variant: a temporary reason sets recheck_at.
Block(v, temporary) ==
  /\ Writable(v, "blocked")
  /\ variant' = [variant EXCEPT ![v] = Moved(@, "blocked", @.step, FALSE, temporary)]

\* settleReceipt: the terminal status of an executing receipt.
Settled(v, a, status, class) ==
  [receipts EXCEPT ![v][a] =
     IF @.status = "executing" THEN [step |-> @.step, status |-> status, class |-> class] ELSE @]

StorageTypeOK ==
  /\ variant \in [Variants -> Row]
  /\ receipts \in [Variants -> Seq(Receipt)]
  /\ \A v \in Variants : Len(receipts[v]) =< MaxAttempts
  /\ decision \in [Revisions -> {"none", "approve", "reject"}]
=============================================================================
