----------------------------- MODULE SocialPosts -----------------------------
(* Preparing, revising and deciding one post (packages/social/src/posts.ts). *)
(* An edit and a decision each span several transactions, READ COMMITTED, so *)
(* what one read may have changed when a later one writes: an edit reads the *)
(* variants it may replace, reads them again under the post's row lock and   *)
(* then supersedes them; a decision is checked, confirmed by another         *)
(* database role and then applied.                                           *)
EXTENDS SocialVariant

CONSTANT Deciders    \* the people who may decide the post

VARIABLES current,   \* the post's current_revision
          editor,    \* the edit in progress
          decider,   \* [Deciders -> the decision in progress]
          granted    \* [Channels -> BOOLEAN]: the sponsor may publish on the channel

postVars == <<current, editor, decider, granted>>

NoEdit == [pc |-> "idle"]
NoDecision == [pc |-> "idle"]

RowsOf(r) == {v \in Variants : v[1] = r /\ variant[v].state # "unwritten"}

\* The rows of the current revision that an edit may replace, with their states.
Editable == {v \in RowsOf(current) : In(v, Supersedable) /\ ~Attempted(v)}
Seen(rows) == {<<v, variant[v].state>> : v \in rows}

PostInit ==
  /\ current = 1
  /\ editor = NoEdit
  /\ decider = [d \in Deciders |-> NoDecision]
  /\ granted = [c \in Channels |-> TRUE]
  /\ decision = [r \in Revisions |-> "none"]
  /\ receipts = [v \in Variants |-> << >>]
  /\ \E state \in {"draft", "awaiting-approval"} :
       variant = [v \in Variants |-> NewRow(IF v[1] = 1 THEN state ELSE "unwritten")]

\* revise, before its transaction: the rows are read and the content is checked.
ReviseRead ==
  /\ editor = NoEdit
  /\ current < MaxRevision
  /\ Editable # {}
  /\ editor' = [pc |-> "read", revision |-> current, rows |-> Seen(Editable)]
  /\ UNCHANGED <<storageVars, current, decider, granted>>

\* revise, under the post's row lock: the same revision, and the same rows in the
\* same states.
ReviseRecheck ==
  /\ editor.pc = "read"
  /\ editor.revision = current
  /\ Seen(Editable) = editor.rows
  /\ \A row \in editor.rows : granted[row[1][2]]
  /\ editor' = [editor EXCEPT !.pc = "locked"]
  /\ UNCHANGED <<storageVars, current, decider, granted>>

\* revise, the writes: revision n + 1 with its variants, and the replaced ones
\* superseded. A variant of revision n that was attempted meanwhile makes the
\* trigger refuse, and the whole edit fails.
ReviseWrite(locked, valid) ==
  LET rows == {row[1] : row \in editor.rows}
      copies == {<<current + 1, v[2]>> : v \in rows}
  IN  /\ editor.pc = "locked"
      /\ rows \cap locked = {}
      /\ \A v \in rows : Writable(v, "superseded")
      /\ variant' = [v \in Variants |->
           IF v \in rows THEN Moved(variant[v], "superseded", variant[v].step, FALSE, FALSE)
           ELSE IF v \in copies
                THEN NewRow(IF valid THEN "awaiting-approval" ELSE "draft")
                ELSE variant[v]]
      /\ current' = current + 1
      /\ editor' = NoEdit
      /\ UNCHANGED <<receipts, decision, decider, granted>>

\* revise, refused at any point, or its process gone: nothing it wrote stays.
ReviseFails ==
  /\ editor # NoEdit
  /\ editor' = NoEdit
  /\ UNCHANGED <<storageVars, current, decider, granted>>

\* decide, the checks of the exact current revision. A decision already recorded
\* may be repeated, which applies it again.
DecideCheck(d, choice) ==
  /\ decider[d] = NoDecision
  /\ decision[current] \in {"none", choice}
  /\ \A v \in RowsOf(current) : granted[v[2]]
  /\ decision[current] = "none" /\ choice = "approve"
       => \A v \in RowsOf(current) : In(v, {"awaiting-approval"})
  /\ decider' = [decider EXCEPT ![d] =
       [pc |-> IF decision[current] = "none" THEN "checked" ELSE "decided",
        revision |-> current, choice |-> choice]]
  /\ UNCHANGED <<storageVars, current, editor, granted>>

\* decide, in the confirmation role: the revision is read and must still be the
\* current one.
DecideConfirm(d) ==
  /\ decider[d].pc = "checked"
  /\ decider[d].revision = current
  /\ decider' = [decider EXCEPT ![d].pc =
       IF decision[current] = "none" THEN "confirming" ELSE "decided"]
  /\ UNCHANGED <<storageVars, current, editor, granted>>

\* Mutant: a second decision replaces the first one.
DecideInsert_Replaces(d) ==
  /\ decider[d].pc = "confirming"
  /\ decision' = [decision EXCEPT ![decider[d].revision] = decider[d].choice]
  /\ decider' = [decider EXCEPT ![d].pc = "decided"]
  /\ UNCHANGED <<variant, receipts, current, editor, granted>>

\* decide, the insert: one decision per revision, whoever comes first.
DecideInsert(d) ==
  /\ decider[d].pc = "confirming"
  /\ decision' = [decision EXCEPT ![decider[d].revision] =
                    IF @ = "none" THEN decider[d].choice ELSE @]
  /\ decider' = [decider EXCEPT ![d].pc = "decided"]
  /\ UNCHANGED <<variant, receipts, current, editor, granted>>

\* The state applyDecision leaves a variant of revision r in.
Applied(r, choice, v) ==
  IF v[1] # r THEN variant[v].state
  ELSE IF choice = "approve" /\ In(v, {"awaiting-approval"}) THEN "scheduled"
       ELSE IF choice = "reject" /\ In(v, OpenStates) THEN "cancelled"
            ELSE variant[v].state

\* decide, the last transaction: the recorded decision, if it is this one, is
\* applied under the post's row lock.
DecideApply(d) ==
  LET r == decider[d].revision
  IN  /\ decider[d].pc = "decided"
      /\ editor.pc # "locked"
      /\ IF decision[r] = decider[d].choice
         THEN /\ \A v \in Variants : LET to == Applied(r, decision[r], v)
                                    IN  to # variant[v].state => Writable(v, to)
              /\ variant' = [v \in Variants |->
                   Moved(variant[v], Applied(r, decision[r], v), variant[v].step,
                         variant[v].due, variant[v].recheck)]
         ELSE UNCHANGED variant
      /\ decider' = [decider EXCEPT ![d] = NoDecision]
      /\ UNCHANGED <<receipts, decision, current, editor, granted>>

\* decide, refused, or its process gone between two of its transactions.
DecideStops(d) ==
  /\ decider[d] # NoDecision
  /\ decider' = [decider EXCEPT ![d] = NoDecision]
  /\ UNCHANGED <<storageVars, current, editor, granted>>

\* The sweep cancels an undecided variant whose revision has expired.
ExpireUndecided(v) ==
  /\ In(v, {"draft", "awaiting-approval"})
  /\ decision[v[1]] = "none"
  /\ Move(v, "cancelled", FALSE)
  /\ UNCHANGED <<receipts, decision, postVars>>

PostTypeOK ==
  /\ StorageTypeOK
  /\ current \in Revisions
  /\ editor \in {NoEdit} \cup [pc : {"read", "locked"}, revision : Revisions,
                               rows : SUBSET (Variants \X Supersedable)]
  /\ decider \in [Deciders -> {NoDecision} \cup
       [pc : {"checked", "confirming", "decided"}, revision : Revisions,
        choice : {"approve", "reject"}]]
  /\ granted \in [Channels -> BOOLEAN]
=============================================================================
