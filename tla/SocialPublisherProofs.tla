------------------------ MODULE SocialPublisherProofs ------------------------
(* Proofs about social publishing: its type invariant, that a changing step  *)
(* takes effect at most once, that receipts and states agree, that outcomes  *)
(* are what happened on the platform, that one revision reaches a channel,   *)
(* that a step is sent only under a grant, and that the database trigger and *)
(* the application's transition table are the same.                          *)
EXTENDS SocialPublisher, TLAPS

(* The database trigger and the application's transition table agree: from a *)
(* state that is not final, they allow the same other states for a variant   *)
(* with and without a receipt (0004_social.sql:228-257, variant-states.ts).  *)
THEOREM TriggerMatchesTable ==
  ASSUME NEW from \in OpenStates, NEW to \in OpenStates \cup FinalStates, to # from,
         NEW attempted \in BOOLEAN
  PROVE  TriggerAllows(from, to, attempted) <=> canTransition(from, to, attempted)
  BY DEF TriggerAllows, canTransition, OpenStates, FinalStates, Supersedable

-----------------------------------------------------------------------------
(* The inductive invariant. A row, its receipts, what the platform did with   *)
(* its attempts and the decision on its revision fit together: receipts are   *)
(* in the order of the plan's steps, and a step is repeated only after        *)
(* attempts that failed, which the platform did not carry out.                *)

Waiting == {"scheduled", "processing", "blocked"}
AtRow(row) == IF row.step = 0 THEN 1 ELSE row.step

InPlanOrder(rs) ==
  \A a, b \in 1 .. Len(rs) : a < b =>
    /\ rs[a].step =< rs[b].step
    /\ rs[a].status # "failed" => rs[a].step < rs[b].step

\* The row is at a step that only failed attempts have been made for.
StepIsNext(row, rs) ==
  \A a \in 1 .. Len(rs) :
    /\ rs[a].step =< AtRow(row)
    /\ rs[a].status # "failed" => rs[a].step < AtRow(row)

Fits(row, rs, cs, choice) ==
  /\ Len(cs) = Len(rs)
  /\ row.attempt = Len(rs)
  /\ \A a \in 1 .. Len(rs) :
       /\ rs[a].status = "executing" <=> row.state = "sending" /\ a = Len(rs)
       /\ rs[a].status = "failed" => cs[a] = "refused"
  /\ InPlanOrder(rs)
  /\ row.state \in Waiting => StepIsNext(row, rs)
  /\ row.state = "sending" => Len(rs) > 0 /\ rs[Len(rs)].step = row.step
  /\ row.state \in {"unwritten", "draft", "awaiting-approval", "scheduled", "superseded"}
       => Len(rs) = 0 /\ row.step = 0
  /\ row.state \in {"processing", "outcome-unknown"} => Len(rs) > 0 /\ row.step > 0
  /\ row.state = "blocked" => (Len(rs) = 0 <=> row.step = 0)
  /\ row.state \in Waiting \cup {"sending", "outcome-unknown"} => choice = "approve"

RowsFit == \A v \in Variants : Fits(variant[v], receipts[v], calls[v], decision[v[1]])

Refusals == {"rejected", "rate-limited", "reconnect", "media-unavailable", "before"}

\* What a worker holds: a claim's row cannot change under it, and an answer is
\* what the platform did.
HoldFits(hold) ==
  /\ hold.pc = "claiming" =>
       /\ variant[hold.v].state \in {"scheduled", "processing"}
       /\ Len(receipts[hold.v]) < MaxAttempts
  /\ hold.pc \in {"calling", "answered"} =>
       /\ hold.attempt =< Len(receipts[hold.v])
       /\ hold.step = receipts[hold.v][hold.attempt].step
  /\ hold.pc = "answered" /\ hold.answer \in Refusals =>
       calls[hold.v][hold.attempt] = "refused"

HoldsFit ==
  /\ \A w \in Workers : HoldFits(worker[w])
  /\ \A w, x \in Workers :
       /\ w # x
       /\ worker[w].pc = "claiming"
       /\ worker[x].pc = "claiming"
       => worker[w].v # worker[x].v

EditFits ==
  /\ \A v \in Variants : v[1] > current => variant[v].state = "unwritten"
  /\ editor # NoEdit => editor.revision = current /\ current < MaxRevision

IInv == TypeOK /\ RowsFit /\ HoldsFit /\ EditFits

-----------------------------------------------------------------------------
(* Lemmas about one row and its receipts.                                     *)

LEMMA PlanFacts == /\ Plan \in Seq({"mutate", "await"})
                   /\ Len(Plan) \in Nat \ {0}
                   /\ MaxAttempts \in Nat
                   /\ MaxRevision \in Nat \ {0}
  BY VariantAssumption

LEMMA MovedType ==
  ASSUME NEW row \in Row, NEW to \in States, NEW step \in 0 .. Len(Plan),
         NEW due \in BOOLEAN, NEW recheck \in BOOLEAN
  PROVE  /\ Moved(row, to, step, due, recheck) \in Row
         /\ Moved(row, to, step, due, recheck).state = to
         /\ Moved(row, to, step, due, recheck).step = step
         /\ Moved(row, to, step, due, recheck).attempt = row.attempt
  BY PlanFacts DEF Moved, Row

\* A row that is not `sending' moves; its receipts and its step stay.
LEMMA MoveFits ==
  ASSUME NEW row \in Row, NEW rs \in Seq(Receipt), NEW cs, NEW choice,
         Fits(row, rs, cs, choice),
         NEW to \in States \ {"sending", "unwritten"},
         NEW due \in BOOLEAN, NEW recheck \in BOOLEAN,
         row.state \in OpenStates \ {"sending"},
         to # row.state => TriggerAllows(row.state, to, rs # << >>),
         to \notin {"draft", "awaiting-approval", "superseded", "cancelled"}
           => choice = "approve"
  PROVE  Fits(Moved(row, to, row.step, due, recheck), rs, cs, choice)
<1> DEFINE row2 == Moved(row, to, row.step, due, recheck)
<1>1. row.step \in 0 .. Len(Plan) /\ row.state \in States
  BY DEF Row
<1>2. /\ row2.state = to /\ row2.step = row.step /\ row2.attempt = row.attempt
  BY <1>1, MovedType
<1>3. rs # << >> <=> Len(rs) > 0
  OBVIOUS
<1>4. Len(rs) \in Nat /\ Len(Plan) \in Nat
  BY PlanFacts
<1> HIDE DEF row2
<1>5. to \in Waiting => StepIsNext(row2, rs)
  <2>1. StepIsNext(row2, rs) <=> StepIsNext(row, rs)
    BY <1>2 DEF StepIsNext, AtRow
  <2>2. SUFFICES ASSUME to \in Waiting, row.state \notin Waiting PROVE Len(rs) = 0
    BY <2>1 DEF StepIsNext, Fits
  <2> QED
    BY <2>2, <1>3 DEF Fits, Waiting, TriggerAllows, OpenStates, Supersedable
<1>6. /\ to \in {"draft", "awaiting-approval", "scheduled", "superseded"}
            => Len(rs) = 0 /\ row.step = 0
      /\ to \in {"processing", "outcome-unknown"} => Len(rs) > 0 /\ row.step > 0
      /\ to = "blocked" => (Len(rs) = 0 <=> row.step = 0)
  BY <1>1, <1>3, <1>4 DEF Fits, TriggerAllows, OpenStates, Supersedable
<1>7. to \in Waiting \cup {"sending", "outcome-unknown"} => choice = "approve"
  BY DEF Waiting
<1>8. Fits(row2, rs, cs, choice)
  BY <1>2, <1>5, <1>6, <1>7 DEF Fits
<1> QED
  BY <1>8 DEF row2

\* An await step is ready: the row goes to the next step.
LEMMA AdvanceFits ==
  ASSUME NEW row \in Row, NEW rs \in Seq(Receipt), NEW cs, NEW choice,
         Fits(row, rs, cs, choice), row.state = "processing", row.step < Len(Plan)
  PROVE  Fits(Moved(row, row.state, row.step + 1, TRUE, FALSE), rs, cs, choice)
<1> DEFINE row2 == Moved(row, row.state, row.step + 1, TRUE, FALSE)
<1>1. row.step \in 0 .. Len(Plan) /\ row.state \in States /\ row.step > 0
  BY DEF Row, Fits
<1>2. /\ row2.state = "processing" /\ row2.step = row.step + 1 /\ row2.attempt = row.attempt
  BY DEF Moved
<1> HIDE DEF row2
<1>3. StepIsNext(row2, rs)
  <2>1. \A a \in 1 .. Len(rs) : rs[a].step \in Nat
    <3>1. \A a \in 1 .. Len(rs) : rs[a] \in Receipt
      OBVIOUS
    <3> QED
      BY <3>1, PlanFacts DEF Receipt
  <2>2. StepIsNext(row, rs)
    BY DEF Fits, Waiting
  <2> QED
    BY <1>1, <1>2, <2>1, <2>2 DEF StepIsNext, AtRow
<1>4. Fits(row2, rs, cs, choice)
  BY <1>1, <1>2, <1>3 DEF Fits, Waiting
<1> QED
  BY <1>4 DEF row2

\* The decision on a revision is recorded.
LEMMA ChoiceFits ==
  ASSUME NEW row, NEW rs, NEW cs, NEW choice, Fits(row, rs, cs, "none")
  PROVE  Fits(row, rs, cs, choice)
  BY DEF Fits

\* A call ends on the platform.
LEMMA CallFits ==
  ASSUME NEW row, NEW rs, NEW cs \in Seq({"flight", "landed", "refused"}), NEW choice,
         Fits(row, rs, cs, choice),
         NEW a \in 1 .. Len(cs), cs[a] = "flight", NEW end
  PROVE  Fits(row, rs, [cs EXCEPT ![a] = end], choice)
<1>1. Len([cs EXCEPT ![a] = end]) = Len(cs)
  OBVIOUS
<1> QED
  BY <1>1 DEF Fits

\* A receipt that ends an attempt.
Closed(rs, status, class) ==
  [rs EXCEPT ![Len(rs)] = [step |-> rs[Len(rs)].step, status |-> status, class |-> class]]

LEMMA SettleFits ==
  ASSUME NEW row \in Row, NEW rs \in Seq(Receipt), NEW cs, NEW choice,
         Fits(row, rs, cs, choice), row.state = "sending",
         NEW status \in {"succeeded", "failed", "outcome-unknown"},
         NEW class \in {"none", "retry", "rate-limited"},
         status = "failed" => cs[Len(rs)] = "refused",
         NEW row2,
         row2.state \in {"processing", "blocked", "published", "failed", "outcome-unknown"},
         row2.attempt = row.attempt,
         row2.step = row.step \/ row2.step = row.step + 1,
         row2.state \in Waiting => status = "failed" \/ row2.step = row.step + 1,
         status = "outcome-unknown" => row2.state \notin Waiting
  PROVE  /\ Closed(rs, status, class) \in Seq(Receipt)
         /\ Len(Closed(rs, status, class)) = Len(rs)
         /\ \A a \in 1 .. Len(rs) : Closed(rs, status, class)[a].step = rs[a].step
         /\ Fits(row2, Closed(rs, status, class), cs, choice)
<1> DEFINE last == [step |-> rs[Len(rs)].step, status |-> status, class |-> class]
           rs2 == Closed(rs, status, class)
<1>1. row.step \in 0 .. Len(Plan) /\ Len(rs) \in Nat /\ Len(rs) > 0 /\ row.step = rs[Len(rs)].step
  BY DEF Row, Fits
<1>2. \A a \in 1 .. Len(rs) : rs[a] \in Receipt
  OBVIOUS
<1>3. last \in Receipt /\ last.step = row.step /\ last.status = status /\ row.step \in 1 .. Len(Plan)
  BY <1>1, <1>2 DEF Receipt
<1>5. /\ rs2 \in Seq(Receipt) /\ Len(rs2) = Len(rs)
      /\ rs2[Len(rs)] = last
      /\ \A a \in 1 .. Len(rs) : a # Len(rs) => rs2[a] = rs[a]
  BY <1>1, <1>3 DEF Closed
<1> HIDE DEF rs2, last
<1>6. \A a \in 1 .. Len(rs) : rs2[a].step = rs[a].step
  BY <1>1, <1>3, <1>5
<1>7. \A a \in 1 .. Len(rs) :
        /\ rs2[a].status # "executing"
        /\ rs2[a].status = "failed" => cs[a] = "refused"
  BY <1>1, <1>3, <1>5 DEF Fits
<1>8. InPlanOrder(rs2)
  BY <1>1, <1>3, <1>5, <1>6 DEF Fits, InPlanOrder
<1>9. row2.state \in Waiting => StepIsNext(row2, rs2)
  BY <1>1, <1>2, <1>3, <1>5, <1>6, SMTT(60) DEF Fits, InPlanOrder, StepIsNext, AtRow, Receipt
<1>10. Fits(row2, rs2, cs, choice)
  <2>1. choice = "approve"
    BY DEF Fits
  <2>2. row2.step > 0
    BY <1>3, PlanFacts
  <2> QED
    BY <1>1, <1>5, <1>7, <1>8, <1>9, <2>1, <2>2 DEF Fits
<1> QED
  BY <1>5, <1>6, <1>10 DEF rs2

\* The claim: a new attempt of the step the row is at.
LEMMA SendFits ==
  ASSUME NEW row \in Row, NEW rs \in Seq(Receipt),
         NEW cs \in Seq({"flight", "landed", "refused"}),
         Fits(row, rs, cs, "approve"), row.state \in {"scheduled", "processing"},
         NEW row2, row2 = [state |-> "sending", step |-> AtRow(row), attempt |-> Len(rs) + 1,
                           due |-> FALSE, recheck |-> FALSE],
         NEW receipt, receipt = [step |-> AtRow(row), status |-> "executing", class |-> "none"]
  PROVE  /\ receipt \in Receipt
         /\ Append(rs, receipt) \in Seq(Receipt)
         /\ Append(cs, "flight") \in Seq({"flight", "landed", "refused"})
         /\ Fits(row2, Append(rs, receipt), Append(cs, "flight"), "approve")
<1>1. AtRow(row) \in 1 .. Len(Plan)
  BY PlanFacts DEF Row, AtRow
<1>2. receipt \in Receipt /\ receipt.step = AtRow(row) /\ receipt.status = "executing"
  BY <1>1 DEF Receipt
<1>3. Len(rs) \in Nat /\ Len(cs) = Len(rs) /\ StepIsNext(row, rs)
  BY DEF Fits, Waiting
<1> DEFINE rs2 == Append(rs, receipt)
           cs2 == Append(cs, "flight")
           n == Len(rs) + 1
<1>4. /\ rs2 \in Seq(Receipt) /\ Len(rs2) = n /\ rs2[n] = receipt
      /\ \A a \in 1 .. Len(rs) : rs2[a] = rs[a]
      /\ cs2 \in Seq({"flight", "landed", "refused"}) /\ Len(cs2) = n
      /\ \A a \in 1 .. Len(rs) : cs2[a] = cs[a]
  BY <1>2, <1>3
<1>5. row2.state = "sending" /\ row2.step = AtRow(row) /\ row2.attempt = n
  OBVIOUS
<1> HIDE DEF rs2, cs2
<1>6. InPlanOrder(rs2)
  <2>1. SUFFICES ASSUME NEW a \in 1 .. n, NEW b \in 1 .. n, a < b
                 PROVE  /\ rs2[a].step =< rs2[b].step
                        /\ rs2[a].status # "failed" => rs2[a].step < rs2[b].step
    BY <1>4 DEF InPlanOrder
  <2>2. CASE b = n
    <3>1. a \in 1 .. Len(rs) /\ rs2[a] = rs[a] /\ rs2[b].step = AtRow(row)
      BY <1>2, <1>3, <1>4, <2>1, <2>2
    <3> QED
      BY <1>3, <3>1 DEF StepIsNext
  <2>3. CASE b # n
    <3>1. a \in 1 .. Len(rs) /\ b \in 1 .. Len(rs)
      BY <1>3, <2>1, <2>3
    <3>2. rs2[a] = rs[a] /\ rs2[b] = rs[b]
      BY <1>4, <3>1
    <3> QED
      BY <2>1, <3>1, <3>2 DEF Fits, InPlanOrder
  <2> QED
    BY <2>2, <2>3
<1>7. Fits(row2, rs2, cs2, "approve")
  BY <1>1, <1>2, <1>3, <1>4, <1>5, <1>6, SMTT(60) DEF Fits, Waiting
<1> QED
  BY <1>2, <1>4, <1>7 DEF rs2, cs2

-----------------------------------------------------------------------------
(* Lemmas about one step of the specification.                                *)

\* What a worker may hold, by its place.
LEMMA HoldTypes ==
  ASSUME NEW h \in WorkerStates
  PROVE  /\ h.pc # "idle" => h.v \in Variants
         /\ h.pc \in {"checked", "polling", "polled", "reconciling", "reconciled"}
              => h.seen \in Row
         /\ h.pc = "checked" => h.ready \in {"pass", "temporary", "permanent"}
         /\ h.pc \in {"calling", "answered"}
              => h.attempt \in 1 .. MaxAttempts /\ h.step \in 1 .. Len(Plan)
  BY DEF WorkerStates, Idle

LEMMA VariantTypes ==
  ASSUME TypeOK, NEW v \in Variants
  PROVE  /\ v[1] \in Revisions /\ v[2] \in Channels
         /\ variant[v] \in Row /\ variant[v].state \in States
         /\ variant[v].step \in 0 .. Len(Plan) /\ variant[v].attempt \in 0 .. MaxAttempts
         /\ receipts[v] \in Seq(Receipt) /\ Len(receipts[v]) \in Nat
         /\ \A a \in 1 .. Len(receipts[v]) : receipts[v][a] \in Receipt
         /\ calls[v] \in Seq({"flight", "landed", "refused"})
         /\ decision[v[1]] \in {"none", "approve", "reject"}
         /\ current \in Nat /\ v[1] \in Nat
<1>1. variant[v] \in Row /\ receipts[v] \in Seq(Receipt)
  BY DEF TypeOK, PostTypeOK, StorageTypeOK
<1>2. v[1] \in Revisions /\ v[2] \in Channels
  BY DEF Variants
<1> QED
  BY <1>1, <1>2, PlanFacts DEF TypeOK, PostTypeOK, StorageTypeOK, Row, Revisions

\* One variant changes: what the other variants and the holds rely on stays.
LEMMA OneVariant ==
  ASSUME IInv, TypeOK', NEW v \in Variants, variant[v].state # "unwritten",
         decision' = decision, current' = current, editor' = editor,
         \A u \in Variants \ {v} : /\ variant'[u] = variant[u]
                                   /\ receipts'[u] = receipts[u]
                                   /\ calls'[u] = calls[u],
         Fits(variant'[v], receipts'[v], calls'[v], decision[v[1]]),
         Len(receipts'[v]) >= Len(receipts[v]),
         \A a \in 1 .. Len(receipts[v]) :
           /\ receipts'[v][a].step = receipts[v][a].step
           /\ calls[v][a] = "refused" => calls'[v][a] = "refused",
         \A w \in Workers : worker[w].pc = "claiming" /\ worker[w].v = v =>
           \/ worker'[w].pc # "claiming"
           \/ variant'[v].state = variant[v].state /\ receipts'[v] = receipts[v],
         \A w \in Workers : \/ worker'[w] = worker[w]
                            \/ worker'[w].pc # "claiming" /\ HoldFits(worker[w])'
  PROVE  IInv'
<1>1. RowsFit'
  <2>1. SUFFICES ASSUME NEW u \in Variants
                 PROVE  Fits(variant'[u], receipts'[u], calls'[u], decision'[u[1]])
    BY DEF RowsFit
  <2>2. CASE u = v
    BY <2>2
  <2>3. CASE u # v
    BY <2>3 DEF IInv, RowsFit
  <2> QED
    BY <2>2, <2>3
<1>2. \A w \in Workers : HoldFits(worker[w])'
  <2>1. SUFFICES ASSUME NEW w \in Workers, worker'[w] = worker[w] PROVE HoldFits(worker[w])'
    OBVIOUS
  <2>2. HoldFits(worker[w]) /\ worker[w] \in WorkerStates
    BY DEF IInv, HoldsFit, TypeOK
  <2>3. worker[w].pc # "idle" => worker[w].v \in Variants
    BY <2>2, HoldTypes
  <2>4. worker[w].pc = "claiming" => worker[w].v \in Variants /\
          variant'[worker[w].v].state = variant[worker[w].v].state /\
          receipts'[worker[w].v] = receipts[worker[w].v]
    BY <2>1, <2>3
  <2>5. worker[w].pc \in {"calling", "answered"} =>
          /\ worker[w].v \in Variants
          /\ worker[w].attempt \in 1 .. Len(receipts[worker[w].v])
          /\ worker[w].attempt \in 1 .. Len(receipts'[worker[w].v])
          /\ receipts'[worker[w].v][worker[w].attempt].step
               = receipts[worker[w].v][worker[w].attempt].step
          /\ calls[worker[w].v][worker[w].attempt] = "refused"
               => calls'[worker[w].v][worker[w].attempt] = "refused"
    <3>1. SUFFICES ASSUME worker[w].pc \in {"calling", "answered"}
                   PROVE  /\ worker[w].v \in Variants
                          /\ worker[w].attempt \in 1 .. Len(receipts[worker[w].v])
                          /\ worker[w].attempt \in 1 .. Len(receipts'[worker[w].v])
                          /\ receipts'[worker[w].v][worker[w].attempt].step
                               = receipts[worker[w].v][worker[w].attempt].step
                          /\ calls[worker[w].v][worker[w].attempt] = "refused"
                               => calls'[worker[w].v][worker[w].attempt] = "refused"
      OBVIOUS
    <3>2. worker[w].v \in Variants /\ worker[w].attempt \in 1 .. MaxAttempts
      BY <2>2, <2>3, <3>1, HoldTypes
    <3>3. worker[w].attempt =< Len(receipts[worker[w].v])
      BY <2>2, <3>1 DEF HoldFits
    <3>4. Len(receipts[worker[w].v]) \in Nat /\ Len(receipts'[worker[w].v]) \in Nat
      BY <3>2 DEF IInv, TypeOK, PostTypeOK, StorageTypeOK
    <3>5. worker[w].attempt \in 1 .. Len(receipts[worker[w].v])
      BY <3>2, <3>3, <3>4, PlanFacts
    <3>6. CASE worker[w].v = v
      BY <3>2, <3>4, <3>5, <3>6, SMTT(60)
    <3>7. CASE worker[w].v # v
      BY <3>2, <3>5, <3>7
    <3> QED
      BY <3>6, <3>7
  <2> QED
    BY <2>1, <2>2, <2>4, <2>5 DEF HoldFits
<1>3. \A w, x \in Workers :
        w # x /\ worker'[w].pc = "claiming" /\ worker'[x].pc = "claiming"
          => worker'[w].v # worker'[x].v
  BY DEF IInv, HoldsFit
<1>4. EditFits'
  <2>1. current \in Nat /\ v[1] \in Nat /\ ~ (v[1] > current)
    BY VariantTypes DEF IInv, EditFits
  <2> QED
    BY <2>1 DEF IInv, EditFits
<1> QED
  BY <1>1, <1>2, <1>3, <1>4 DEF IInv, HoldsFit

\* What a worker goes to that is not a claim or a call.
Elsewhere == {"idle", "checked", "polling", "polled", "reconciling", "reconciled"}

LEMMA ElsewhereFits ==
  ASSUME NEW w \in Workers, worker'[w].pc \in Elsewhere
  PROVE  worker'[w].pc # "claiming" /\ HoldFits(worker[w])'
  BY DEF Elsewhere, HoldFits

\* The workers stay where they are, or go where nothing depends on the rows.
WorkersRest ==
  /\ worker' \in [Workers -> WorkerStates]
  /\ \A w \in Workers : worker'[w] = worker[w] \/ worker'[w].pc \in Elsewhere

LEMMA RestTypes ==
  ASSUME IInv
  PROVE  /\ worker' = worker => WorkersRest
         /\ \A w \in Workers, h \in WorkerStates :
              Go(w, h) /\ h.pc \in Elsewhere => WorkersRest
         /\ \A w \in Workers : Go(w, Idle) => WorkersRest
<1>1. Idle \in WorkerStates /\ Idle.pc \in Elsewhere
  BY DEF Idle, WorkerStates, Elsewhere
<1> QED
  BY <1>1 DEF IInv, TypeOK, Go, WorkersRest

\* One row that is not `sending' moves, and a worker may go elsewhere.
LEMMA OneMove ==
  ASSUME IInv, NEW v \in Variants,
         NEW to \in States \ {"sending", "unwritten"},
         NEW due \in BOOLEAN, NEW recheck \in BOOLEAN,
         Writable(v, to), variant[v].state # "sending",
         variant' = [variant EXCEPT ![v] = Moved(@, to, @.step, due, recheck)],
         UNCHANGED <<receipts, decision, postVars, calls, post>>,
         byPerson' \subseteq Variants,
         v \notin Locked,
         worker' \in [Workers -> WorkerStates],
         \A w \in Workers : worker'[w] = worker[w] \/ worker'[w].pc \in Elsewhere
  PROVE  IInv'
<1>1. /\ variant[v] \in Row /\ variant[v].step \in 0 .. Len(Plan)
      /\ variant[v].state \in OpenStates \ {"sending"}
      /\ receipts[v] \in Seq(Receipt)
      /\ Fits(variant[v], receipts[v], calls[v], decision[v[1]])
  BY VariantTypes DEF IInv, RowsFit, Writable
<1>2. variant'[v] = Moved(variant[v], to, variant[v].step, due, recheck)
  BY DEF IInv, TypeOK, PostTypeOK, StorageTypeOK
<1>3. variant'[v] \in Row
  BY <1>1, <1>2, MovedType
<1>4. variant' \in [Variants -> Row] /\ \A u \in Variants \ {v} : variant'[u] = variant[u]
  BY <1>3 DEF IInv, TypeOK, PostTypeOK, StorageTypeOK
<1>5. Fits(variant'[v], receipts[v], calls[v], decision[v[1]])
  <2>1. /\ to # variant[v].state => TriggerAllows(variant[v].state, to, receipts[v] # << >>)
        /\ to \notin {"draft", "awaiting-approval", "superseded", "cancelled"}
             => decision[v[1]] = "approve"
    BY DEF Writable, Attempted
  <2> QED
    BY <1>1, <1>2, <2>1, MoveFits
<1>6. TypeOK'
  BY <1>4 DEF IInv, TypeOK, PostTypeOK, StorageTypeOK, postVars
<1>7. \A w \in Workers : worker[w].pc = "claiming" /\ worker[w].v = v => FALSE
  BY DEF Locked
<1>8. \A w \in Workers : \/ worker'[w] = worker[w]
                         \/ worker'[w].pc # "claiming" /\ HoldFits(worker[w])'
  BY ElsewhereFits
<1>9. variant[v].state # "unwritten" /\ Len(receipts[v]) \in Nat
  BY <1>1 DEF OpenStates
<1>10. receipts' = receipts /\ calls' = calls /\ decision' = decision
       /\ current' = current /\ editor' = editor
  BY DEF postVars
<1> QED
  BY <1>4, <1>5, <1>6, <1>7, <1>8, <1>9, <1>10, OneVariant

\* Only what one worker holds changes.
LEMMA HoldOnly ==
  ASSUME IInv, NEW w \in Workers, NEW h \in WorkerStates,
         worker' = [worker EXCEPT ![w] = h],
         HoldFits(h),
         h.pc = "claiming" => h.v \notin Locked,
         UNCHANGED <<storageVars, postVars, calls, post, byPerson>>
  PROVE  IInv'
<1>1. /\ worker' \in [Workers -> WorkerStates]
      /\ worker'[w] = h
      /\ \A x \in Workers \ {w} : worker'[x] = worker[x]
  BY DEF IInv, TypeOK
<1>2. TypeOK'
  BY <1>1 DEF IInv, TypeOK, PostTypeOK, StorageTypeOK, storageVars, postVars
<1>3. RowsFit' /\ EditFits'
  BY DEF IInv, RowsFit, EditFits, storageVars, postVars
<1>4. \A x \in Workers : HoldFits(worker[x])'
  <2>1. SUFFICES ASSUME NEW x \in Workers PROVE HoldFits(worker[x])'
    OBVIOUS
  <2>2. CASE x = w
    BY <1>1, <2>2 DEF HoldFits, storageVars
  <2>3. CASE x # w
    <3>1. HoldFits(worker[x]) /\ worker'[x] = worker[x]
      BY <1>1, <2>3 DEF IInv, HoldsFit
    <3> QED
      BY <3>1 DEF HoldFits, storageVars
  <2> QED
    BY <2>2, <2>3
<1>5. \A x, y \in Workers :
        x # y /\ worker'[x].pc = "claiming" /\ worker'[y].pc = "claiming"
          => worker'[x].v # worker'[y].v
  <2>1. \A x \in Workers \ {w} : worker[x].pc = "claiming" => worker[x].v \in Locked
    BY DEF Locked
  <2> QED
    BY <1>1, <2>1 DEF IInv, HoldsFit
<1> QED
  BY <1>2, <1>3, <1>4, <1>5 DEF IInv, HoldsFit

\* A worker goes elsewhere.
LEMMA GoElsewhere ==
  ASSUME IInv, NEW w \in Workers, NEW h \in WorkerStates, Go(w, h), h.pc \in Elsewhere,
         UNCHANGED <<storageVars, postVars, calls, post, byPerson>>
  PROVE  IInv'
<1>1. HoldFits(h) /\ h.pc # "claiming"
  BY DEF HoldFits, Elsewhere
<1> QED
  BY <1>1, HoldOnly DEF Go

\* An attempt ends: its receipt closes and its row leaves `sending'.
LEMMA OneSettled ==
  ASSUME IInv, NEW v \in Variants, variant[v].state = "sending",
         NEW status \in {"succeeded", "failed", "outcome-unknown"},
         NEW class \in {"none", "retry", "rate-limited"},
         status = "failed" => calls[v][Len(receipts[v])] = "refused",
         NEW row2 \in Row,
         row2.state \in {"processing", "blocked", "published", "failed", "outcome-unknown"},
         row2.attempt = variant[v].attempt,
         row2.step = variant[v].step \/ row2.step = variant[v].step + 1,
         row2.state \in Waiting => status = "failed" \/ row2.step = variant[v].step + 1,
         status = "outcome-unknown" => row2.state \notin Waiting,
         receipts' = Settled(v, variant[v].attempt, status, class),
         variant' = [variant EXCEPT ![v] = row2],
         UNCHANGED <<decision, postVars, calls, post, byPerson>>,
         v \notin Locked, WorkersRest
  PROVE  IInv'
<1> DEFINE rs == receipts[v]
<1>1. /\ variant[v] \in Row /\ rs \in Seq(Receipt) /\ Len(rs) \in Nat
      /\ Fits(variant[v], rs, calls[v], decision[v[1]])
      /\ variant \in [Variants -> Row] /\ receipts \in [Variants -> Seq(Receipt)]
  BY VariantTypes DEF IInv, RowsFit, TypeOK, PostTypeOK, StorageTypeOK
<1>2. /\ variant[v].attempt = Len(rs) /\ Len(rs) > 0 /\ rs[Len(rs)].status = "executing"
  BY <1>1 DEF Fits
<1>3. receipts' = [receipts EXCEPT ![v] = Closed(rs, status, class)]
  BY <1>1, <1>2 DEF Settled, Closed
<1>4. variant'[v] = row2
  BY <1>1
<1>5. /\ Closed(rs, status, class) \in Seq(Receipt)
      /\ Len(Closed(rs, status, class)) = Len(rs)
      /\ \A a \in 1 .. Len(rs) : Closed(rs, status, class)[a].step = rs[a].step
      /\ Fits(row2, Closed(rs, status, class), calls[v], decision[v[1]])
  <2> DEFINE row == variant[v]
             cs == calls[v]
             choice == decision[v[1]]
  <2>1. /\ row \in Row /\ rs \in Seq(Receipt) /\ Fits(row, rs, cs, choice) /\ row.state = "sending"
        /\ status = "failed" => cs[Len(rs)] = "refused"
        /\ row2.attempt = row.attempt
        /\ row2.step = row.step \/ row2.step = row.step + 1
        /\ row2.state \in Waiting => status = "failed" \/ row2.step = row.step + 1
    BY <1>1
  <2> HIDE DEF row, cs, choice, rs
  <2>2. /\ Closed(rs, status, class) \in Seq(Receipt)
        /\ Len(Closed(rs, status, class)) = Len(rs)
        /\ \A a \in 1 .. Len(rs) : Closed(rs, status, class)[a].step = rs[a].step
        /\ Fits(row2, Closed(rs, status, class), cs, choice)
    BY <2>1, SettleFits, SMTT(60)
  <2> QED
    BY <2>2 DEF row, cs, choice
<1>6. receipts'[v] = Closed(rs, status, class) /\ receipts' \in [Variants -> Seq(Receipt)]
  BY <1>1, <1>3, <1>5
<1>7. variant'[v] \in Row
  BY <1>4
<1>8. variant' \in [Variants -> Row]
  BY <1>1, <1>7
<1>9. TypeOK'
  <2>1. \A u \in Variants : Len(receipts'[u]) = Len(receipts[u])
    BY <1>1, <1>3, <1>5, <1>6
  <2> QED
    BY <1>6, <1>8, <2>1 DEF IInv, TypeOK, PostTypeOK, StorageTypeOK, postVars, WorkersRest
<1>10. \A w \in Workers : worker[w].pc = "claiming" /\ worker[w].v = v => FALSE
  BY DEF Locked
<1>11. \A w \in Workers : \/ worker'[w] = worker[w]
                          \/ worker'[w].pc # "claiming" /\ HoldFits(worker[w])'
  BY ElsewhereFits DEF WorkersRest
<1>12. \A u \in Variants \ {v} : /\ variant'[u] = variant[u]
                                 /\ receipts'[u] = receipts[u]
                                 /\ calls'[u] = calls[u]
  BY <1>1, <1>3
<1>13. decision' = decision /\ current' = current /\ editor' = editor /\ calls' = calls
  BY DEF postVars
<1> HIDE DEF rs
<1>14. Len(receipts'[v]) >= Len(receipts[v])
  BY <1>1, <1>5, <1>6 DEF rs
<1>15. \A a \in 1 .. Len(receipts[v]) : receipts'[v][a].step = receipts[v][a].step
  BY <1>5, <1>6 DEF rs
<1>16. Fits(variant'[v], receipts'[v], calls'[v], decision[v[1]])
  BY <1>4, <1>5, <1>6, <1>13
<1> QED
  BY <1>9, <1>10, <1>11, <1>12, <1>13, <1>14, <1>15, <1>16, OneVariant

\* The moves of a row that is not being sent.
LEMMA MoveStep ==
  ASSUME IInv, NEW v \in Variants, NEW to \in States \ {"sending", "unwritten"},
         NEW due \in BOOLEAN, Move(v, to, due),
         variant[v].state # "sending", v \notin Locked, WorkersRest,
         UNCHANGED <<receipts, decision, postVars, calls, post>>, byPerson' \subseteq Variants
  PROVE  IInv'
  BY OneMove DEF Move, WorkersRest

LEMMA BlockStep ==
  ASSUME IInv, NEW v \in Variants, NEW temporary \in BOOLEAN, Block(v, temporary),
         variant[v].state # "sending", v \notin Locked, WorkersRest,
         UNCHANGED <<receipts, decision, postVars, calls, post>>, byPerson' \subseteq Variants
  PROVE  IInv'
<1>1. "blocked" \in States \ {"sending", "unwritten"}
  BY DEF States, OpenStates
<1> QED
  BY <1>1, OneMove DEF Block, WorkersRest

LEMMA StateTypes ==
  /\ {"published", "not-published", "failed", "cancelled", "scheduled", "processing",
      "blocked", "outcome-unknown"} \subseteq States \ {"sending", "unwritten"}
  /\ Idle \in WorkerStates
  BY DEF States, OpenStates, FinalStates, WorkerStates

-----------------------------------------------------------------------------
(* One lemma per group of actions: each preserves the inductive invariant.    *)

LEMMA CheckKeeps ==
  ASSUME IInv, NEW w \in Workers, NEW v \in Variants, CheckStep(w, v)
  PROVE  IInv'
<1>1. /\ UNCHANGED <<receipts, decision, postVars, calls, post, byPerson>>
      /\ v \notin Locked /\ variant[v].state \in {"scheduled", "processing"}
      /\ variant[v] \in Row /\ byPerson' \subseteq Variants
  BY VariantTypes DEF CheckStep, Waited, In, IInv, TypeOK
<1>2. CASE databaseChecks(v) = "pass"
  <2>1. PICK ready \in {"pass", "temporary", "permanent"} :
          Go(w, [pc |-> "checked", v |-> v, seen |-> variant[v], ready |-> ready])
    BY <1>2 DEF CheckStep
  <2>2. [pc |-> "checked", v |-> v, seen |-> variant[v], ready |-> ready] \in WorkerStates
    BY <1>1 DEF WorkerStates
  <2>3. UNCHANGED <<storageVars, postVars, calls, post, byPerson>>
    BY <1>1, <1>2 DEF CheckStep, storageVars
  <2> QED
    BY <2>1, <2>2, <2>3, GoElsewhere DEF Elsewhere
<1>3. CASE databaseChecks(v) # "pass"
  <2>1. worker' = worker /\ Block(v, databaseChecks(v) = "temporary")
    BY <1>3 DEF CheckStep
  <2>2. WorkersRest
    BY <2>1, RestTypes
  <2>3. (databaseChecks(v) = "temporary") \in BOOLEAN
    OBVIOUS
  <2> QED
    BY <1>1, <2>1, <2>2, <2>3, BlockStep
<1> QED
  BY <1>2, <1>3

LEMMA ClaimKeeps ==
  ASSUME IInv, NEW w \in Workers, ClaimStep(w)
  PROVE  IInv'
<1> DEFINE v == worker[w].v
<1>1. v \in Variants
  BY HoldTypes DEF ClaimStep, IInv, TypeOK
<1>2. /\ UNCHANGED <<receipts, decision, postVars, calls, post, byPerson>>
      /\ v \notin Locked /\ variant[v].state \in {"scheduled", "processing"}
      /\ byPerson' \subseteq Variants
  BY DEF ClaimStep, Waited, In, IInv, TypeOK
<1>3. CASE Move(v, "outcome-unknown", FALSE) /\ Go(w, Idle)
  BY <1>1, <1>2, <1>3, RestTypes, StateTypes, MoveStep
<1>4. CASE Block(v, worker[w].ready = "temporary") /\ Go(w, Idle)
  <2>1. (worker[w].ready = "temporary") \in BOOLEAN
    OBVIOUS
  <2> QED
    BY <1>1, <1>2, <1>4, <2>1, RestTypes, BlockStep
<1>5. CASE Block(v, databaseChecks(v) = "temporary") /\ Go(w, Idle)
  <2>1. (databaseChecks(v) = "temporary") \in BOOLEAN
    OBVIOUS
  <2> QED
    BY <1>1, <1>2, <1>5, <2>1, RestTypes, BlockStep
<1>6. CASE /\ Len(receipts[v]) < MaxAttempts
           /\ Go(w, [pc |-> "claiming", v |-> v])
           /\ UNCHANGED variant
  <2> DEFINE h == [pc |-> "claiming", v |-> v]
  <2>1. h \in WorkerStates
    BY <1>1 DEF WorkerStates
  <2>2. HoldFits(h) /\ h.v \notin Locked
    BY <1>2, <1>6 DEF HoldFits
  <2>3. UNCHANGED <<storageVars, postVars, calls, post, byPerson>>
    BY <1>2, <1>6 DEF storageVars
  <2>4. worker' = [worker EXCEPT ![w] = h]
    BY <1>6 DEF Go
  <2> HIDE DEF h
  <2> QED
    BY <2>1, <2>2, <2>3, <2>4, HoldOnly
<1> QED
  BY <1>3, <1>4, <1>5, <1>6 DEF ClaimStep

LEMMA SendKeeps ==
  ASSUME IInv, NEW w \in Workers, SendStep(w)
  PROVE  IInv'
<1> DEFINE v == worker[w].v
           rs == receipts[v]
           i == AtRow(variant[v])
           receipt == [step |-> i, status |-> "executing", class |-> "none"]
           row == [state |-> "sending", step |-> i, attempt |-> Len(rs) + 1,
                   due |-> FALSE, recheck |-> FALSE]
           h == [pc |-> "calling", v |-> v, attempt |-> Len(rs) + 1, step |-> i]
<1>1. /\ v \in Variants
      /\ worker[w].pc = "claiming"
      /\ variant[v].state \in {"scheduled", "processing"} /\ Len(rs) < MaxAttempts
  BY HoldTypes DEF SendStep, IInv, TypeOK, HoldsFit, HoldFits
<1>2. i = At(v)
  BY DEF At, AtRow
<1>3. /\ receipts' = [receipts EXCEPT ![v] = Append(rs, receipt)]
      /\ variant' = [variant EXCEPT ![v] = row]
      /\ calls' = [calls EXCEPT ![v] = Append(calls[v], "flight")]
      /\ worker' = [worker EXCEPT ![w] = h]
      /\ UNCHANGED <<decision, postVars, post, byPerson>>
  BY <1>1, <1>2 DEF SendStep, Go, IInv, TypeOK, PostTypeOK, StorageTypeOK
<1>4. /\ variant[v] \in Row /\ rs \in Seq(Receipt) /\ Len(rs) \in Nat
      /\ calls[v] \in Seq({"flight", "landed", "refused"})
      /\ Fits(variant[v], rs, calls[v], decision[v[1]])
  BY <1>1, VariantTypes DEF IInv, RowsFit
<1>5. decision[v[1]] = "approve"
  BY <1>1, <1>4 DEF Fits, Waiting
<1>6. /\ receipt \in Receipt
      /\ Append(rs, receipt) \in Seq(Receipt)
      /\ Append(calls[v], "flight") \in Seq({"flight", "landed", "refused"})
      /\ Fits(row, Append(rs, receipt), Append(calls[v], "flight"), "approve")
  BY <1>1, <1>4, <1>5, SendFits
<1>7. i \in 1 .. Len(Plan) /\ Len(rs) + 1 \in 1 .. MaxAttempts
  BY <1>1, <1>4, PlanFacts DEF AtRow, Row
<1>8. row \in Row /\ h \in WorkerStates
  BY <1>1, <1>7 DEF Row, States, OpenStates, WorkerStates
<1>9. /\ Len(Append(rs, receipt)) = Len(rs) + 1
      /\ Append(rs, receipt)[Len(rs) + 1] = receipt
      /\ \A a \in 1 .. Len(rs) : Append(rs, receipt)[a] = rs[a]
      /\ \A a \in 1 .. Len(rs) : Append(calls[v], "flight")[a] = calls[v][a]
  BY <1>4 DEF Fits
<1>10. /\ variant'[v] = row /\ receipts'[v] = Append(rs, receipt)
       /\ calls'[v] = Append(calls[v], "flight")
       /\ worker'[w] = h
       /\ \A x \in Workers \ {w} : worker'[x] = worker[x]
       /\ \A u \in Variants \ {v} : /\ variant'[u] = variant[u]
                                    /\ receipts'[u] = receipts[u]
                                    /\ calls'[u] = calls[u]
  BY <1>1, <1>3, ZenonT(60) DEF IInv, TypeOK, PostTypeOK, StorageTypeOK
<1>11. TypeOK'
  <2>1. variant' \in [Variants -> Row] /\ receipts' \in [Variants -> Seq(Receipt)]
        /\ calls' \in [Variants -> Seq({"flight", "landed", "refused"})]
        /\ worker' \in [Workers -> WorkerStates]
    BY <1>1, <1>3, <1>6, <1>8 DEF IInv, TypeOK, PostTypeOK, StorageTypeOK
  <2>2. \A u \in Variants : Len(receipts[u]) =< MaxAttempts
    BY DEF IInv, TypeOK, PostTypeOK, StorageTypeOK
  <2>3. Len(receipts'[v]) =< MaxAttempts
    BY <1>7, <1>9, <1>10
  <2>4. \A u \in Variants : Len(receipts'[u]) =< MaxAttempts
    BY <1>10, <2>2, <2>3
  <2> QED
    BY <1>3, <2>1, <2>4 DEF IInv, TypeOK, PostTypeOK, StorageTypeOK, postVars
<1>12. worker'[w].pc # "claiming" /\ HoldFits(worker[w])'
  <2>1. worker'[w].pc = "calling" /\ worker'[w].v = v /\ worker'[w].attempt = Len(rs) + 1
        /\ worker'[w].step = i
    BY <1>10
  <2>2. Len(receipts'[v]) = Len(rs) + 1 /\ receipts'[v][Len(rs) + 1].step = i
    BY <1>9, <1>10
  <2> QED
    BY <1>4, <2>1, <2>2 DEF HoldFits
<1>13. \A x \in Workers : worker[x].pc = "claiming" /\ worker[x].v = v =>
         worker'[x].pc # "claiming"
  BY <1>1, <1>12 DEF IInv, HoldsFit
<1>14. Fits(variant'[v], receipts'[v], calls'[v], decision[v[1]])
  BY <1>5, <1>6, <1>10
<1>15. /\ Len(receipts'[v]) >= Len(receipts[v])
       /\ \A a \in 1 .. Len(receipts[v]) :
            /\ receipts'[v][a].step = receipts[v][a].step
            /\ calls[v][a] = "refused" => calls'[v][a] = "refused"
  <2>1. Len(receipts'[v]) = Len(rs) + 1
    BY <1>9, <1>10
  <2>2. \A a \in 1 .. Len(rs) : receipts'[v][a] = rs[a] /\ calls'[v][a] = calls[v][a]
    BY <1>9, <1>10
  <2>3. Len(rs) \in Nat
    BY <1>4
  <2> HIDE DEF v, i, receipt, row, h
  <2> QED
    BY <2>1, <2>2, <2>3, SMTT(60)
<1>16. variant[v].state # "unwritten" /\ decision' = decision /\ current' = current
       /\ editor' = editor
  BY <1>1, <1>3 DEF postVars
<1>17. \A x \in Workers : \/ worker'[x] = worker[x]
                          \/ worker'[x].pc # "claiming" /\ HoldFits(worker[x])'
  BY <1>10, <1>12
<1> HIDE DEF v, rs, row, h, receipt, i
<1> QED
  BY <1>1, <1>10, <1>11, <1>13, <1>14, <1>15, <1>16, <1>17, OneVariant, ZenonT(60)

LEMMA AnswerKeeps ==
  ASSUME IInv, NEW w \in Workers, Answer(w)
  PROVE  IInv'
<1> DEFINE c == worker[w]
<1>1. PICK answer \in Answers(c.v, c.attempt, c.step) :
        Go(w, [pc |-> "answered", v |-> c.v, attempt |-> c.attempt, step |-> c.step,
               answer |-> answer])
  BY DEF Answer
<1> DEFINE h == [pc |-> "answered", v |-> c.v, attempt |-> c.attempt, step |-> c.step,
                 answer |-> answer]
<1>2. /\ c.pc = "calling" /\ c.v \in Variants
      /\ c.attempt \in 1 .. MaxAttempts /\ c.step \in 1 .. Len(Plan)
      /\ HoldFits(c)
  BY HoldTypes DEF Answer, IInv, TypeOK, HoldsFit
<1>3. h \in WorkerStates
  BY <1>1, <1>2 DEF Answers, WorkerStates
<1>4. answer \in Refusals => calls[c.v][c.attempt] = "refused"
  BY <1>1 DEF Answers, Refusals
<1>5. HoldFits(h) /\ h.pc # "claiming"
  BY <1>2, <1>4 DEF HoldFits
<1>6. UNCHANGED <<storageVars, postVars, calls, post, byPerson>>
      /\ worker' = [worker EXCEPT ![w] = h]
  BY <1>1 DEF Answer, Go
<1> HIDE DEF h
<1> QED
  BY <1>3, <1>5, <1>6, HoldOnly

\* What every settlement knows: the answer is about the attempt being sent.
LEMMA SettlingFacts ==
  ASSUME IInv, NEW w \in Workers, NEW answers, Settling(w, answers)
  PROVE  /\ worker[w].v \in Variants /\ worker[w].v \notin Locked
         /\ variant[worker[w].v].state = "sending"
         /\ worker[w].attempt = variant[worker[w].v].attempt
         /\ variant[worker[w].v].step \in 1 .. Len(Plan)
         /\ worker[w].answer \in answers \cap Refusals
              => calls[worker[w].v][Len(receipts[worker[w].v])] = "refused"
         /\ worker[w].answer \in answers
         /\ WorkersRest
         /\ UNCHANGED <<decision, postVars, calls, post, byPerson>>
<1>1. /\ worker[w].v \in Variants
      /\ variant[worker[w].v].state = "sending"
      /\ worker[w].attempt = variant[worker[w].v].attempt
  BY HoldTypes DEF Settling, In, IInv, TypeOK
<1>2. /\ Fits(variant[worker[w].v], receipts[worker[w].v], calls[worker[w].v],
              decision[worker[w].v[1]])
      /\ receipts[worker[w].v] \in Seq(Receipt)
      /\ Len(receipts[worker[w].v]) \in Nat
  BY <1>1, VariantTypes DEF IInv, RowsFit
<1>3. /\ variant[worker[w].v].attempt = Len(receipts[worker[w].v])
      /\ Len(receipts[worker[w].v]) > 0
      /\ variant[worker[w].v].step = receipts[worker[w].v][Len(receipts[worker[w].v])].step
  BY <1>1, <1>2 DEF Fits
<1>4. receipts[worker[w].v][Len(receipts[worker[w].v])] \in Receipt
  BY <1>2, <1>3
<1>5. variant[worker[w].v].step \in 1 .. Len(Plan)
  BY <1>3, <1>4 DEF Receipt
<1>6. WorkersRest
  BY RestTypes DEF Settling
<1>7. worker[w].answer \in Refusals => calls[worker[w].v][worker[w].attempt] = "refused"
  BY DEF Settling, IInv, HoldsFit, HoldFits
<1> QED
  BY <1>1, <1>3, <1>5, <1>6, <1>7 DEF Settling

\* Every settlement is one receipt closed and one row moved.
LEMMA SettledBy ==
  ASSUME IInv, NEW w \in Workers, NEW answers, Settling(w, answers),
         NEW status \in {"succeeded", "failed", "outcome-unknown"},
         NEW class \in {"none", "retry", "rate-limited"},
         status = "failed" => worker[w].answer \in Refusals,
         NEW to \in {"processing", "blocked", "published", "failed", "outcome-unknown"},
         NEW step \in 0 .. Len(Plan), NEW due \in BOOLEAN, NEW recheck \in BOOLEAN,
         step = variant[worker[w].v].step \/ step = variant[worker[w].v].step + 1,
         to \in Waiting => status = "failed" \/ step = variant[worker[w].v].step + 1,
         status = "outcome-unknown" => to \notin Waiting,
         receipts' = Settled(worker[w].v, worker[w].attempt, status, class),
         variant' = [variant EXCEPT ![worker[w].v] = Moved(@, to, step, due, recheck)]
  PROVE  IInv'
<1> DEFINE v == worker[w].v
<1>1. /\ v \in Variants /\ v \notin Locked /\ variant[v].state = "sending"
      /\ status = "failed" => calls[v][Len(receipts[v])] = "refused"
      /\ WorkersRest
      /\ UNCHANGED <<decision, postVars, calls, post, byPerson>>
  BY SettlingFacts
<1>2. receipts' = Settled(v, variant[v].attempt, status, class)
  BY SettlingFacts
<1> DEFINE row2 == Moved(variant[v], to, step, due, recheck)
<1>3. /\ variant[v] \in Row /\ to \in States
      /\ variant \in [Variants -> Row]
  BY <1>1 DEF IInv, TypeOK, PostTypeOK, StorageTypeOK, States, OpenStates, FinalStates
<1>4. /\ row2 \in Row /\ row2.state = to /\ row2.step = step
      /\ row2.attempt = variant[v].attempt
  BY <1>3, MovedType
<1>5. variant' = [variant EXCEPT ![v] = row2]
  BY <1>3
<1>6. /\ step = variant[v].step \/ step = variant[v].step + 1
      /\ to \in Waiting => status = "failed" \/ step = variant[v].step + 1
  OBVIOUS
<1> HIDE DEF v, row2
<1> QED
  BY <1>1, <1>2, <1>4, <1>5, <1>6, OneSettled, ZenonT(60)

LEMMA SettleDoneKeeps ==
  ASSUME IInv, NEW w \in Workers, SettleDone(w)
  PROVE  IInv'
<1> DEFINE v == worker[w].v
           i == variant[v].step
<1>1. Settling(w, {"done"}) /\ receipts' = Settled(v, worker[w].attempt, "succeeded", "none")
  BY DEF SettleDone
<1>2. i \in 1 .. Len(Plan)
  BY <1>1, SettlingFacts
<1>3. CASE i < Len(Plan)
  <2>1. variant' = [variant EXCEPT ![v] = Moved(@, "processing", i + 1, TRUE, FALSE)]
    BY <1>3 DEF SettleDone
  <2>2. i + 1 \in 0 .. Len(Plan)
    BY <1>2, <1>3, PlanFacts
  <2> QED
    BY <1>1, <2>1, <2>2, SettledBy
<1>4. CASE ~ (i < Len(Plan))
  <2>1. variant' = [variant EXCEPT ![v] = Moved(@, "outcome-unknown", i, FALSE, FALSE)]
    BY <1>4 DEF SettleDone, Move
  <2>2. i \in 0 .. Len(Plan)
    BY <1>2
  <2>3. "outcome-unknown" \notin Waiting
    BY DEF Waiting
  <2> QED
    BY <1>1, <2>1, <2>2, <2>3, SettledBy
<1> QED
  BY <1>3, <1>4

LEMMA SettleKeeps ==
  ASSUME IInv, NEW w \in Workers,
         SettlePublished(w) \/ SettleRejected(w) \/ SettleRefused(w) \/ SettleBefore(w)
           \/ SettleAfter(w)
  PROVE  IInv'
<1> DEFINE v == worker[w].v
           i == variant[v].step
           M(to, recheck) == variant' = [variant EXCEPT ![v] = Moved(@, to, i, FALSE, recheck)]
           S(status, class) == receipts' = Settled(v, worker[w].attempt, status, class)
<1>1. \A answers : Settling(w, answers) => i \in 0 .. Len(Plan) /\ worker[w].answer \in answers
  BY SettlingFacts
<1>2. /\ {"published", "failed", "outcome-unknown"} \cap Waiting = {}
      /\ {"rejected", "rate-limited", "reconnect", "media-unavailable", "before"} = Refusals
  BY DEF Waiting, Refusals
<1>3. CASE SettlePublished(w)
  <2>1. Settling(w, {"published"}) /\ S("succeeded", "none") /\ M("published", FALSE)
    BY <1>3 DEF SettlePublished, Move
  <2> QED
    BY <1>1, <1>2, <2>1, SettledBy, ZenonT(60)
<1>4. CASE SettleRejected(w)
  <2>1. Settling(w, {"rejected"}) /\ S("failed", "none") /\ M("failed", FALSE)
    BY <1>4 DEF SettleRejected, Move
  <2>2. i \in 0 .. Len(Plan) /\ worker[w].answer \in Refusals
    BY <1>1, <1>2, <2>1
  <2> QED
    BY <1>2, <2>1, <2>2, SettledBy, ZenonT(60)
<1>5. CASE SettleRefused(w)
  <2>1. Settling(w, {"rate-limited", "reconnect", "media-unavailable"})
    BY <1>5 DEF SettleRefused
  <2>2. i \in 0 .. Len(Plan) /\ worker[w].answer \in Refusals
    BY <1>1, <1>2, <2>1
  <2>3. CASE worker[w].answer = "rate-limited"
    <3>1. S("failed", "rate-limited") /\ M("blocked", TRUE)
      BY <1>5, <2>3 DEF SettleRefused
    <3> QED
      BY <2>1, <2>2, <3>1, SettledBy
  <2>4. CASE worker[w].answer # "rate-limited"
    <3>1. S("failed", "retry") /\ M("blocked", FALSE)
      BY <1>5, <2>4 DEF SettleRefused
    <3> QED
      BY <2>1, <2>2, <3>1, SettledBy
  <2> QED
    BY <2>3, <2>4
<1>6. CASE SettleBefore(w)
  <2>1. PICK to \in {"failed", "processing"} :
          /\ Settling(w, {"before"})
          /\ S("failed", "retry")
          /\ M(to, FALSE)
    BY <1>6 DEF SettleBefore, Move
  <2>2. i \in 0 .. Len(Plan) /\ worker[w].answer \in Refusals
    BY <1>1, <1>2, <2>1
  <2> QED
    BY <1>2, <2>1, <2>2, SettledBy, ZenonT(60)
<1>7. CASE SettleAfter(w)
  <2>1. Settling(w, {"after"}) /\ S("outcome-unknown", "none") /\ M("outcome-unknown", FALSE)
    BY <1>7 DEF SettleAfter, Move
  <2>2. i \in 0 .. Len(Plan)
    BY <1>1, <1>2, <2>1
  <2> QED
    BY <1>2, <2>1, <2>2, SettledBy
<1> QED
  BY <1>3, <1>4, <1>5, <1>6, <1>7

LEMMA SettleLateKeeps ==
  ASSUME IInv, NEW w \in Workers, SettleLate(w)
  PROVE  IInv'
<1> DEFINE v == worker[w].v
<1>1. /\ v \in Variants /\ v \notin Locked /\ Go(w, Idle)
      /\ UNCHANGED <<receipts, decision, postVars, calls, post, byPerson>>
      /\ byPerson' \subseteq Variants /\ WorkersRest
  BY HoldTypes, RestTypes DEF SettleLate, IInv, TypeOK
<1>2. CASE In(v, {"outcome-unknown"}) /\ Move(v, "published", FALSE)
  BY <1>1, <1>2, StateTypes, MoveStep DEF In
<1>3. CASE UNCHANGED variant
  BY <1>1, <1>3, StateTypes, GoElsewhere DEF storageVars, Idle, Elsewhere
<1> QED
  BY <1>2, <1>3 DEF SettleLate

LEMMA PollKeeps ==
  ASSUME IInv, NEW w \in Workers,
         (\E v \in Variants : PollLease(w, v)) \/ PollRead(w) \/ PollSettle(w)
  PROVE  IInv'
<1>1. CASE \E v \in Variants : PollLease(w, v)
  <2>1. PICK v \in Variants : PollLease(w, v)
    BY <1>1
  <2>2. /\ v \notin Locked /\ variant[v].state = "processing" /\ variant[v] \in Row
        /\ UNCHANGED <<receipts, decision, postVars, calls, post>>
        /\ byPerson' \subseteq Variants
    BY <2>1, VariantTypes DEF PollLease, Waited, In, IInv, TypeOK
  <2>3. CASE Move(v, "outcome-unknown", FALSE) /\ UNCHANGED worker
    BY <2>2, <2>3, StateTypes, RestTypes, MoveStep
  <2>4. CASE /\ Move(v, "processing", FALSE)
             /\ Go(w, [pc |-> "polling", v |-> v, seen |-> variant[v]])
    <3>1. [pc |-> "polling", v |-> v, seen |-> variant[v]] \in WorkerStates
      BY <2>2 DEF WorkerStates
    <3>2. WorkersRest
      BY <2>4, <3>1, RestTypes DEF Elsewhere
    <3> QED
      BY <2>2, <2>4, <3>2, StateTypes, MoveStep
  <2> QED
    BY <2>1, <2>3, <2>4 DEF PollLease
<1>2. CASE PollRead(w)
  <2>1. PICK status : /\ status \in Statuses(worker[w].v, worker[w].seen.step)
                      /\ Go(w, [pc |-> "polled", v |-> worker[w].v, seen |-> worker[w].seen,
                                status |-> status])
    BY <1>2 DEF PollRead
  <2>2. worker[w].v \in Variants /\ worker[w].seen \in Row
    BY <1>2, HoldTypes DEF PollRead, IInv, TypeOK
  <2>3. [pc |-> "polled", v |-> worker[w].v, seen |-> worker[w].seen, status |-> status]
          \in WorkerStates
    BY <2>1, <2>2 DEF Statuses, WorkerStates
  <2>4. UNCHANGED <<storageVars, postVars, calls, post, byPerson>>
    BY <1>2 DEF PollRead
  <2> QED
    BY <2>1, <2>3, <2>4, GoElsewhere DEF Elsewhere
<1>3. CASE PollSettle(w)
  <2> DEFINE v == worker[w].v
             i == variant[v].step
  <2>1. /\ v \in Variants /\ v \notin Locked /\ variant[v].state = "processing"
        /\ UNCHANGED <<receipts, decision, postVars, calls, post, byPerson>>
        /\ byPerson' \subseteq Variants /\ WorkersRest
    BY <1>3, HoldTypes, RestTypes DEF PollSettle, PollIsCurrent, In, IInv, TypeOK
  <2>2. CASE \E to \in {"processing", "outcome-unknown", "published", "failed"} : Move(v, to, FALSE)
    BY <2>1, <2>2, StateTypes, MoveStep
  <2>3. CASE Block(v, FALSE)
    BY <2>1, <2>3, BlockStep
  <2>4. CASE /\ i < Len(Plan)
             /\ variant' = [variant EXCEPT ![v] = Moved(@, @.state, i + 1, TRUE, FALSE)]
    <3> DEFINE row2 == Moved(variant[v], variant[v].state, i + 1, TRUE, FALSE)
    <3>1. /\ variant[v] \in Row /\ i \in 0 .. Len(Plan) /\ variant[v].state \in States
          /\ receipts[v] \in Seq(Receipt) /\ Len(receipts[v]) \in Nat
          /\ Fits(variant[v], receipts[v], calls[v], decision[v[1]])
          /\ variant \in [Variants -> Row]
      BY <2>1, VariantTypes DEF IInv, RowsFit, TypeOK, PostTypeOK, StorageTypeOK
    <3>2. /\ variant' = [variant EXCEPT ![v] = row2] /\ variant'[v] = row2
          /\ \A u \in Variants \ {v} : variant'[u] = variant[u]
      BY <2>1, <2>4, <3>1
    <3>3. row2 \in Row
      <4>1. i + 1 \in 0 .. Len(Plan) /\ TRUE \in BOOLEAN /\ FALSE \in BOOLEAN
        BY <2>4, <3>1, PlanFacts, SMTT(60)
      <4> QED
        BY <3>1, <4>1, MovedType
    <3>4. Fits(row2, receipts[v], calls[v], decision[v[1]])
      BY <2>1, <2>4, <3>1, AdvanceFits
    <3>5. TypeOK'
      BY <2>1, <3>1, <3>2, <3>3
         DEF IInv, TypeOK, PostTypeOK, StorageTypeOK, postVars, WorkersRest
    <3>6. \A x \in Workers : \/ worker'[x] = worker[x]
                             \/ worker'[x].pc # "claiming" /\ HoldFits(worker[x])'
      BY <2>1, ElsewhereFits DEF WorkersRest
    <3>7. \A x \in Workers : worker[x].pc = "claiming" /\ worker[x].v = v => FALSE
      BY <2>1 DEF Locked
    <3>8. receipts' = receipts /\ calls' = calls /\ decision' = decision
          /\ current' = current /\ editor' = editor
      BY <2>1 DEF postVars
    <3> HIDE DEF v, i, row2
    <3> QED
      BY <2>1, <3>1, <3>2, <3>4, <3>5, <3>6, <3>7, <3>8, OneVariant
  <2> QED
    BY <1>3, <2>2, <2>3, <2>4 DEF PollSettle
<1> QED
  BY <1>1, <1>2, <1>3

LEMMA ReconcileKeeps ==
  ASSUME IInv, NEW w \in Workers,
         (\E v \in Variants : ReconcileLease(w, v)) \/ ReconcileRead(w) \/ ReconcileSettle(w)
  PROVE  IInv'
<1>1. CASE \E v \in Variants : ReconcileLease(w, v)
  <2>1. PICK v \in Variants : ReconcileLease(w, v)
    BY <1>1
  <2>2. /\ v \notin Locked /\ variant[v].state = "outcome-unknown" /\ variant[v] \in Row
        /\ UNCHANGED <<receipts, decision, postVars, calls, post>>
        /\ byPerson' \subseteq Variants
        /\ Move(v, "outcome-unknown", FALSE)
        /\ Go(w, [pc |-> "reconciling", v |-> v, seen |-> variant[v]])
    BY <2>1, VariantTypes DEF ReconcileLease, Waited, In, IInv, TypeOK
  <2>3. [pc |-> "reconciling", v |-> v, seen |-> variant[v]] \in WorkerStates
    BY <2>2 DEF WorkerStates
  <2>4. WorkersRest
    BY <2>2, <2>3, RestTypes DEF Elsewhere
  <2> QED
    BY <2>2, <2>4, StateTypes, MoveStep
<1>2. CASE ReconcileRead(w)
  <2>1. PICK result : /\ result \in Evidence(worker[w].v)
                      /\ Go(w, [pc |-> "reconciled", v |-> worker[w].v,
                                seen |-> worker[w].seen, result |-> result])
    BY <1>2 DEF ReconcileRead
  <2>2. worker[w].v \in Variants /\ worker[w].seen \in Row
    BY <1>2, HoldTypes DEF ReconcileRead, IInv, TypeOK
  <2>3. [pc |-> "reconciled", v |-> worker[w].v, seen |-> worker[w].seen, result |-> result]
          \in WorkerStates
    BY <2>1, <2>2 DEF Evidence, WorkerStates
  <2>4. UNCHANGED <<storageVars, postVars, calls, post, byPerson>>
    BY <1>2 DEF ReconcileRead
  <2> QED
    BY <2>1, <2>3, <2>4, GoElsewhere DEF Elsewhere
<1>3. CASE ReconcileSettle(w)
  <2> DEFINE v == worker[w].v
  <2>1. /\ v \in Variants /\ v \notin Locked /\ variant[v].state = "outcome-unknown"
        /\ UNCHANGED <<receipts, decision, postVars, calls, post, byPerson>>
        /\ byPerson' \subseteq Variants /\ WorkersRest
    BY <1>3, HoldTypes, RestTypes DEF ReconcileSettle, In, IInv, TypeOK
  <2>2. PICK to \in {"published", "not-published"} : Move(v, to, FALSE)
    BY <1>3 DEF ReconcileSettle
  <2> QED
    BY <2>1, <2>2, StateTypes, MoveStep
<1> QED
  BY <1>1, <1>2, <1>3

LEMMA StopKeeps ==
  ASSUME IInv, NEW w \in Workers, WorkerStops(w)
  PROVE  IInv'
<1>1. Idle.pc \in Elsewhere
  BY DEF Idle, Elsewhere
<1> QED
  BY <1>1, StateTypes, GoElsewhere DEF WorkerStops

LEMMA SweepKeeps ==
  ASSUME IInv, NEW v \in Variants, Sweeps(v)
  PROVE  IInv'
<1>0. byPerson' \subseteq Variants /\ WorkersRest
  BY RestTypes DEF Sweeps, Swept, CancelBlocked, Recheck, ExpireLease, IInv, TypeOK
<1>1. CASE ExpireUndecided(v)
  <2>1. v \notin Locked
    <3>1. variant[v].state \notin {"scheduled", "processing"}
      BY <1>1 DEF ExpireUndecided, In
    <3> QED
      BY <3>1 DEF Locked, IInv, HoldsFit, HoldFits
  <2>2. UNCHANGED <<receipts, decision, postVars, calls, post>> /\ variant[v].state # "sending"
        /\ Move(v, "cancelled", FALSE)
    BY <1>1 DEF Sweeps, ExpireUndecided, In, CancelBlocked, Recheck, ExpireLease, Swept
  <2> QED
    BY <1>0, <2>1, <2>2, StateTypes, MoveStep
<1>2. CASE CancelBlocked(v)
  BY <1>0, <1>2, StateTypes, MoveStep DEF CancelBlocked, In, Swept
<1>3. CASE Recheck(v)
  BY <1>0, <1>3, StateTypes, MoveStep DEF Recheck, Waited, In, Swept, Resumed
<1>4. CASE ExpireLease(v)
  <2> DEFINE row2 == Moved(variant[v], "outcome-unknown", variant[v].step, FALSE, FALSE)
  <2>1. /\ variant[v].state = "sending" /\ v \notin Locked
        /\ receipts' = Settled(v, variant[v].attempt, "outcome-unknown", "none")
        /\ variant' = [variant EXCEPT ![v] = Moved(@, "outcome-unknown", @.step, FALSE, FALSE)]
        /\ UNCHANGED <<decision, postVars, calls, post, byPerson>>
    BY <1>4 DEF ExpireLease, Waited, In, Swept, Move
  <2>2. /\ variant[v] \in Row /\ variant[v].step \in 0 .. Len(Plan)
        /\ variant \in [Variants -> Row]
    BY VariantTypes DEF IInv, TypeOK, PostTypeOK, StorageTypeOK
  <2>3. /\ row2 \in Row /\ row2.state = "outcome-unknown" /\ row2.step = variant[v].step
        /\ row2.attempt = variant[v].attempt
    <3>1. "outcome-unknown" \in States
      BY StateTypes
    <3>2. variant[v].attempt \in 0 .. MaxAttempts
      BY <2>2 DEF Row
    <3> QED
      BY <2>2, <3>1, <3>2 DEF Moved, Row
  <2>4. variant' = [variant EXCEPT ![v] = row2]
    BY <2>1, <2>2
  <2>5. "outcome-unknown" \notin Waiting
    BY DEF Waiting
  <2> HIDE DEF row2
  <2> QED
    BY <1>0, <2>1, <2>3, <2>4, <2>5, OneSettled
<1> QED
  BY <1>1, <1>2, <1>3, <1>4 DEF Sweeps

LEMMA CommandKeeps ==
  ASSUME IInv, NEW v \in Variants, Resume(v) \/ Cancel(v) \/ Settle(v)
  PROVE  IInv'
<1>1. /\ byPerson' \subseteq Variants /\ WorkersRest /\ v \notin Locked
      /\ variant[v].state # "sending"
      /\ UNCHANGED <<receipts, decision, postVars, calls, post>>
  BY RestTypes DEF Resume, Cancel, Settle, Swept, In, IInv, TypeOK
<1>2. CASE Resume(v)
  BY <1>1, <1>2, StateTypes, MoveStep, BlockStep DEF Resume, Resumed
<1>3. CASE Cancel(v)
  BY <1>1, <1>3, StateTypes, MoveStep DEF Cancel
<1>4. CASE Settle(v)
  BY <1>1, <1>4, StateTypes, MoveStep DEF Settle
<1> QED
  BY <1>2, <1>3, <1>4

LEMMA TimeKeeps ==
  ASSUME IInv, NEW v \in Variants, TimeComes(v)
  PROVE  IInv'
<1> DEFINE row2 == Moved(variant[v], variant[v].state, variant[v].step, TRUE, variant[v].recheck)
<1>1. /\ variant[v] \in Row /\ variant \in [Variants -> Row]
      /\ receipts[v] \in Seq(Receipt) /\ Len(receipts[v]) \in Nat
      /\ Fits(variant[v], receipts[v], calls[v], decision[v[1]])
  BY VariantTypes DEF IInv, RowsFit, TypeOK, PostTypeOK, StorageTypeOK
<1>2. row2 \in Row /\ row2.state = variant[v].state /\ row2.step = variant[v].step
      /\ row2.attempt = variant[v].attempt
  BY <1>1 DEF Moved, Row
<1>3. Fits(row2, receipts[v], calls[v], decision[v[1]])
  <2>1. StepIsNext(variant[v], receipts[v]) => StepIsNext(row2, receipts[v])
    BY <1>2 DEF StepIsNext, AtRow
  <2> QED
    BY <1>1, <1>2, <2>1 DEF Fits
<1>4. /\ variant' = [variant EXCEPT ![v] = row2] /\ variant'[v] = row2
      /\ \A u \in Variants \ {v} : variant'[u] = variant[u]
      /\ UNCHANGED <<receipts, decision, postVars, worker, calls, post, byPerson>>
  BY <1>1 DEF TimeComes
<1>5. TypeOK'
  BY <1>1, <1>2, <1>4 DEF IInv, TypeOK, PostTypeOK, StorageTypeOK, postVars
<1>6. variant[v].state # "unwritten" /\ receipts' = receipts /\ calls' = calls
      /\ decision' = decision /\ current' = current /\ editor' = editor /\ worker' = worker
  BY <1>4 DEF TimeComes, In, postVars
<1> HIDE DEF row2
<1> QED
  BY <1>1, <1>2, <1>3, <1>4, <1>5, <1>6, OneVariant

LEMMA GrantKeeps ==
  ASSUME IInv, NEW c \in Channels, ChangeGrant(c)
  PROVE  IInv'
<1>1. granted' \in [Channels -> BOOLEAN]
  BY DEF ChangeGrant, IInv, TypeOK, PostTypeOK
<1>2. UNCHANGED <<storageVars, current, editor, decider, worker, calls, post, byPerson>>
  BY DEF ChangeGrant
<1>3. TypeOK'
  BY <1>1, <1>2 DEF IInv, TypeOK, PostTypeOK, StorageTypeOK, storageVars
<1>4. RowsFit' /\ HoldsFit' /\ EditFits'
  BY <1>2 DEF IInv, RowsFit, HoldsFit, HoldFits, EditFits, storageVars
<1> QED
  BY <1>3, <1>4 DEF IInv

LEMMA PlatformKeeps ==
  ASSUME IInv, NEW v \in Variants, Platform(v)
  PROVE  IInv'
<1>1. CASE PlatformProcesses(v)
  <2>1. post' \in [Variants -> {"none", "processing", "live", "rejected"}]
    BY <1>1 DEF PlatformProcesses, IInv, TypeOK
  <2>2. UNCHANGED <<storageVars, postVars, worker, calls, byPerson>>
    BY <1>1 DEF PlatformProcesses
  <2>3. TypeOK'
    BY <2>1, <2>2 DEF IInv, TypeOK, PostTypeOK, StorageTypeOK, storageVars, postVars
  <2>4. RowsFit' /\ HoldsFit' /\ EditFits'
    BY <2>2 DEF IInv, RowsFit, HoldsFit, HoldFits, EditFits, storageVars, postVars
  <2> QED
    BY <2>3, <2>4 DEF IInv
<1>2. ASSUME NEW a \in 1 .. Len(calls[v]), Land(v, a) \/ Refuse(v, a) PROVE IInv'
  <2>1. PICK end \in {"landed", "refused"} :
          /\ calls[v][a] = "flight"
          /\ calls' = [calls EXCEPT ![v] = [calls[v] EXCEPT ![a] = end]]
    BY <1>2 DEF Land, Refuse, IInv, TypeOK
  <2>2. /\ UNCHANGED <<storageVars, postVars, worker, byPerson>>
        /\ post' \in [Variants -> {"none", "processing", "live", "rejected"}]
    BY <1>2 DEF Land, Refuse, IInv, TypeOK
  <2>3. /\ calls[v] \in Seq({"flight", "landed", "refused"})
        /\ variant[v] \in Row /\ Len(receipts[v]) \in Nat
        /\ Fits(variant[v], receipts[v], calls[v], decision[v[1]])
    BY VariantTypes DEF IInv, RowsFit
  <2>4. Fits(variant[v], receipts[v], [calls[v] EXCEPT ![a] = end], decision[v[1]])
    BY <1>2, <2>1, <2>3, CallFits
  <2>5. [calls[v] EXCEPT ![a] = end] \in Seq({"flight", "landed", "refused"})
    BY <1>2, <2>1, <2>3
  <2>6. /\ calls'[v] = [calls[v] EXCEPT ![a] = end]
        /\ calls' \in [Variants -> Seq({"flight", "landed", "refused"})]
        /\ \A u \in Variants \ {v} : calls'[u] = calls[u]
    BY <2>1, <2>5 DEF IInv, TypeOK
  <2>7. \A b \in 1 .. Len(receipts[v]) : calls[v][b] = "refused" => calls'[v][b] = "refused"
    BY <2>1, <2>3, <2>6 DEF Fits
  <2>8. variant[v].state # "unwritten"
    <3>1. Len(calls[v]) = Len(receipts[v]) /\ Len(calls[v]) > 0
      BY <1>2, <2>3 DEF Fits
    <3> QED
      BY <2>3, <3>1 DEF Fits
  <2>9. TypeOK'
    BY <2>2, <2>6 DEF IInv, TypeOK, PostTypeOK, StorageTypeOK, storageVars, postVars
  <2>10. /\ variant' = variant /\ receipts' = receipts /\ decision' = decision
         /\ current' = current /\ editor' = editor /\ worker' = worker
    BY <2>2 DEF storageVars, postVars
  <2>11. Fits(variant'[v], receipts'[v], calls'[v], decision[v[1]])
    BY <2>4, <2>6, <2>10
  <2>12. /\ Len(receipts'[v]) >= Len(receipts[v])
         /\ \A b \in 1 .. Len(receipts[v]) : receipts'[v][b].step = receipts[v][b].step
         /\ \A u \in Variants \ {v} : /\ variant'[u] = variant[u]
                                      /\ receipts'[u] = receipts[u]
                                      /\ calls'[u] = calls[u]
    BY <2>3, <2>6, <2>10
  <2> QED
    BY <2>7, <2>8, <2>9, <2>10, <2>11, <2>12, OneVariant
<1> QED
  BY <1>1, <1>2 DEF Platform

\* Several rows change at once, none that a claim holds; receipts and calls stay.
LEMMA RowsMove ==
  ASSUME IInv,
         \A v \in Variants : Fits(variant'[v], receipts[v], calls[v], decision'[v[1]]),
         \A v \in Locked : variant'[v].state = variant[v].state,
         receipts' = receipts, calls' = calls, worker' = worker
  PROVE  RowsFit' /\ HoldsFit'
<1>1. RowsFit'
  BY DEF RowsFit
<1>2. \A w \in Workers : worker[w].pc = "claiming" => worker[w].v \in Locked
  BY DEF Locked
<1>3. HoldsFit'
  BY <1>2 DEF IInv, HoldsFit, HoldFits
<1> QED
  BY <1>1, <1>3

\* A claimed row is one of the rows the sweep may claim, approved.
LEMMA LockedRow ==
  ASSUME IInv, NEW v \in Locked
  PROVE  /\ v \in Variants
         /\ variant[v].state \in {"scheduled", "processing"}
         /\ decision[v[1]] = "approve"
<1>1. PICK w \in Workers : worker[w].pc = "claiming" /\ worker[w].v = v
  BY DEF Locked
<1>2. v \in Variants
  BY <1>1, HoldTypes DEF IInv, TypeOK
<1>3. variant[v].state \in {"scheduled", "processing"}
  BY <1>1 DEF IInv, HoldsFit, HoldFits
<1> QED
  BY <1>2, <1>3 DEF IInv, RowsFit, Fits, Waiting

LEMMA ReviseWriteKeeps ==
  ASSUME IInv, NEW valid \in BOOLEAN, ReviseWrite(Locked, valid),
         UNCHANGED <<worker, calls, post, byPerson>>
  PROVE  IInv'
<1> DEFINE rows == {row[1] : row \in editor.rows}
           copies == {<<current + 1, v[2]>> : v \in rows}
           moved(v) == Moved(variant[v], "superseded", variant[v].step, FALSE, FALSE)
           new == NewRow(IF valid THEN "awaiting-approval" ELSE "draft")
<1>1. /\ editor # NoEdit /\ editor.revision = current /\ current < MaxRevision
      /\ editor.rows \subseteq Variants \X Supersedable
  BY DEF ReviseWrite, NoEdit, IInv, EditFits, TypeOK, PostTypeOK
<1>2. rows \subseteq Variants
  BY <1>1
<1>3. current \in Nat /\ current + 1 \in Revisions /\ current + 1 > current
  BY <1>1, PlanFacts DEF IInv, TypeOK, PostTypeOK, Revisions
<1>4. \A v \in rows : v[2] \in Channels
  BY <1>2 DEF Variants
<1>5. copies \subseteq Variants /\ \A v \in copies : v[1] = current + 1
  BY <1>3, <1>4 DEF Variants
<1>6. \A v \in copies : variant[v].state = "unwritten"
  BY <1>3, <1>5 DEF IInv, EditFits
<1>7. \A v \in rows : Writable(v, "superseded") /\ v \notin Locked
  BY DEF ReviseWrite
<1>8. /\ variant' = [v \in Variants |-> IF v \in rows THEN moved(v)
                                        ELSE IF v \in copies THEN new ELSE variant[v]]
      /\ current' = current + 1 /\ editor' = NoEdit
      /\ UNCHANGED <<receipts, decision, decider, granted>>
  BY DEF ReviseWrite
<1> HIDE DEF rows, copies
<1>9. \A v \in Variants :
        /\ v \in rows => variant'[v] = moved(v)
        /\ v \in copies \ rows => variant'[v] = new
        /\ v \notin rows \cup copies => variant'[v] = variant[v]
  BY <1>8
<1>10. \A v \in rows :
         /\ moved(v) \in Row
         /\ Fits(moved(v), receipts[v], calls[v], decision[v[1]])
  <2>1. SUFFICES ASSUME NEW v \in rows
                 PROVE  moved(v) \in Row /\ Fits(moved(v), receipts[v], calls[v], decision[v[1]])
    OBVIOUS
  <2>2. /\ v \in Variants /\ variant[v] \in Row /\ variant[v].step \in 0 .. Len(Plan)
        /\ receipts[v] \in Seq(Receipt)
        /\ Fits(variant[v], receipts[v], calls[v], decision[v[1]])
    BY <1>2, <2>1, VariantTypes DEF IInv, RowsFit
  <2>3. "superseded" \in States \ {"sending", "unwritten"} /\ FALSE \in BOOLEAN
    BY DEF States, FinalStates
  <2>4. /\ variant[v].state \in OpenStates
        /\ "superseded" # variant[v].state
             => TriggerAllows(variant[v].state, "superseded", receipts[v] # << >>)
    BY <1>7, <2>1 DEF Writable, Attempted
  <2>5. variant[v].state # "sending"
    BY <2>4 DEF TriggerAllows, Supersedable
  <2>6. moved(v) \in Row
    BY <2>2, <2>3, MovedType
  <2>7. Fits(moved(v), receipts[v], calls[v], decision[v[1]])
    BY <2>2, <2>3, <2>4, <2>5, MoveFits
  <2> QED
    BY <2>6, <2>7
<1>11. new \in Row /\ new.state \in {"awaiting-approval", "draft"} /\ new.step = 0 /\ new.attempt = 0
  BY PlanFacts DEF NewRow, Row, States, OpenStates
<1> HIDE DEF moved, new
<1>12. \A v \in copies : Fits(new, receipts[v], calls[v], decision[v[1]])
  <2>1. SUFFICES ASSUME NEW v \in copies PROVE Fits(new, receipts[v], calls[v], decision[v[1]])
    OBVIOUS
  <2>2. /\ Fits(variant[v], receipts[v], calls[v], decision[v[1]])
        /\ variant[v].state = "unwritten" /\ Len(receipts[v]) \in Nat
    BY <1>5, <1>6, VariantTypes DEF IInv, RowsFit
  <2>3. Len(receipts[v]) = 0 /\ Len(calls[v]) = 0 /\ InPlanOrder(receipts[v])
    BY <2>2 DEF Fits
  <2> QED
    BY <1>11, <2>3 DEF Fits, Waiting
<1>13. \A v \in Variants : Fits(variant'[v], receipts[v], calls[v], decision'[v[1]])
  <2>1. decision' = decision
    BY <1>8
  <2> QED
    BY <1>9, <1>10, <1>12, <2>1 DEF IInv, RowsFit
<1>14. \A v \in Locked : variant'[v].state = variant[v].state
  BY <1>6, <1>7, <1>9, LockedRow
<1>15. RowsFit' /\ HoldsFit'
  BY <1>8, <1>13, <1>14, RowsMove
<1>16. EditFits'
  <2>1. \A v \in Variants : v[1] > current + 1 => variant'[v].state = "unwritten"
    <3>1. SUFFICES ASSUME NEW v \in Variants, v[1] > current + 1
                   PROVE  variant'[v].state = "unwritten"
      OBVIOUS
    <3>2. v[1] \in Nat /\ v[1] > current
      BY <1>3, <3>1, VariantTypes DEF IInv
    <3>3. variant[v].state = "unwritten" /\ v \notin copies
      BY <1>3, <1>5, <3>1, <3>2 DEF IInv, EditFits
    <3>4. v \notin rows
      BY <1>7, <3>3 DEF Writable, OpenStates
    <3> QED
      BY <1>9, <3>3, <3>4
  <2> QED
    BY <1>8, <2>1 DEF EditFits
<1>17. TypeOK'
  <2>1. variant' \in [Variants -> Row]
    <3>1. \A v \in Variants : variant[v] \in Row
      BY DEF IInv, TypeOK, PostTypeOK, StorageTypeOK
    <3>2. \A v \in Variants : variant'[v] \in Row
      BY <1>9, <1>10, <1>11, <3>1
    <3> QED
      BY <1>8, <3>2
  <2> QED
    BY <1>3, <1>8, <2>1 DEF IInv, TypeOK, PostTypeOK, StorageTypeOK
<1> QED
  BY <1>15, <1>16, <1>17 DEF IInv

LEMMA EditKeeps ==
  ASSUME IInv, Edits
  PROVE  IInv'
<1>1. CASE ReviseRead \/ ReviseRecheck \/ ReviseFails
  <2>1. UNCHANGED <<storageVars, current, decider, granted, worker, calls, post, byPerson>>
    BY <1>1 DEF Edits, ReviseRead, ReviseRecheck, ReviseFails, ReviseWrite
  <2>2. /\ editor' \in {NoEdit} \cup [pc : {"read", "locked"}, revision : Revisions,
                                      rows : SUBSET (Variants \X Supersedable)]
        /\ editor' # NoEdit => editor'.revision = current /\ current < MaxRevision
    <3>1. CASE ReviseRead
      <4>1. Seen(Editable) \in SUBSET (Variants \X Supersedable)
        BY DEF Seen, Editable, RowsOf, In
      <4>2. current \in Revisions
        BY DEF IInv, TypeOK, PostTypeOK
      <4> QED
        BY <3>1, <4>1, <4>2 DEF ReviseRead, NoEdit
    <3>2. CASE ReviseRecheck
      <4>1. editor # NoEdit
        BY <3>2 DEF ReviseRecheck, NoEdit
      <4> QED
        BY <3>2, <4>1 DEF ReviseRecheck, IInv, TypeOK, PostTypeOK, EditFits
    <3>3. CASE ReviseFails
      BY <3>3 DEF ReviseFails
    <3> QED
      BY <1>1, <3>1, <3>2, <3>3
  <2>3. TypeOK'
    BY <2>1, <2>2 DEF IInv, TypeOK, PostTypeOK, StorageTypeOK, storageVars
  <2>4. EditFits'
    BY <2>1, <2>2 DEF IInv, EditFits, storageVars
  <2>5. RowsFit' /\ HoldsFit'
    BY <2>1 DEF IInv, RowsFit, HoldsFit, HoldFits, storageVars
  <2> QED
    BY <2>3, <2>4, <2>5 DEF IInv
<1>2. CASE \E valid \in BOOLEAN : ReviseWrite(Locked, valid)
  BY <1>2, ReviseWriteKeeps DEF Edits
<1> QED
  BY <1>1, <1>2 DEF Edits

\* A decision in progress has its type.
Deciding == {NoDecision} \cup
  [pc : {"checked", "confirming", "decided"}, revision : Revisions, choice : {"approve", "reject"}]

LEMMA ApplyKeeps ==
  ASSUME IInv, NEW d \in Deciders, DecideApply(d),
         UNCHANGED <<worker, calls, post, byPerson>>
  PROVE  IInv'
<1> DEFINE r == decider[d].revision
           to(v) == Applied(r, decision[r], v)
           moved(v) == Moved(variant[v], to(v), variant[v].step, variant[v].due, variant[v].recheck)
<1>1. /\ UNCHANGED <<receipts, decision, current, editor, granted>>
      /\ decider' = [decider EXCEPT ![d] = NoDecision]
  BY DEF DecideApply
<1>2. CASE UNCHANGED variant
  <2>1. TypeOK'
    BY <1>1, <1>2 DEF IInv, TypeOK, PostTypeOK, StorageTypeOK
  <2>2. RowsFit' /\ HoldsFit' /\ EditFits'
    BY <1>1, <1>2 DEF IInv, RowsFit, HoldsFit, HoldFits, EditFits
  <2> QED
    BY <2>1, <2>2 DEF IInv
<1>3. CASE /\ \A v \in Variants : to(v) # variant[v].state => Writable(v, to(v))
           /\ variant' = [v \in Variants |-> moved(v)]
  <2>1. \A v \in Variants : /\ variant[v] \in Row /\ variant[v].state \in States
                            /\ variant[v].step \in 0 .. Len(Plan)
                            /\ variant[v].due \in BOOLEAN /\ variant[v].recheck \in BOOLEAN
                            /\ receipts[v] \in Seq(Receipt)
                            /\ Fits(variant[v], receipts[v], calls[v], decision[v[1]])
    BY VariantTypes DEF IInv, RowsFit, Row
  <2>2. \A v \in Variants :
          \/ to(v) = variant[v].state
          \/ /\ to(v) \in {"scheduled", "cancelled"}
             /\ variant[v].state \in OpenStates
    BY DEF Applied, In, OpenStates
  <2>3. ASSUME NEW v \in Variants
        PROVE  /\ moved(v) \in Row /\ moved(v).state = to(v)
               /\ Fits(moved(v), receipts[v], calls[v], decision[v[1]])
    <3>1. to(v) \in States
      BY <2>1, <2>2, StateTypes
    <3>2. /\ moved(v) \in Row /\ moved(v).state = to(v)
          /\ moved(v).step = variant[v].step /\ moved(v).attempt = variant[v].attempt
      BY <2>1, <3>1, MovedType
    <3>3. CASE to(v) = variant[v].state
      <4>1. StepIsNext(variant[v], receipts[v]) => StepIsNext(moved(v), receipts[v])
        BY <3>2 DEF StepIsNext, AtRow
      <4> HIDE DEF moved, to
      <4> QED
        BY <2>1, <3>2, <3>3, <4>1 DEF Fits
    <3>4. CASE to(v) # variant[v].state
      <4>1. /\ to(v) \in {"scheduled", "cancelled"}
            /\ variant[v].state \in OpenStates /\ Writable(v, to(v))
        BY <1>3, <2>2, <3>4
      <4>2. /\ TriggerAllows(variant[v].state, to(v), receipts[v] # << >>)
            /\ to(v) \notin {"draft", "awaiting-approval", "superseded", "cancelled"}
                 => decision[v[1]] = "approve"
        BY <3>4, <4>1 DEF Writable, Attempted
      <4>3. variant[v].state # "sending"
        <5>1. variant[v].state = "sending" => Len(receipts[v]) > 0
          BY <2>1 DEF Fits
        <5>2. variant[v].state = "sending" => receipts[v] # << >>
          BY <2>1, <5>1
        <5> QED
          BY <4>1, <4>2, <5>2 DEF TriggerAllows
      <4>4. to(v) \in States \ {"sending", "unwritten"}
        BY <4>1, StateTypes
      <4> HIDE DEF to
      <4> QED
        BY <2>1, <3>2, <3>4, <4>1, <4>2, <4>3, <4>4, MoveFits
    <3> QED
      BY <3>2, <3>3, <3>4
  <2>4. \A v \in Variants : variant'[v] = moved(v)
    BY <1>3
  <2>5. \A v \in Locked : variant'[v].state = variant[v].state
    <3>1. SUFFICES ASSUME NEW v \in Locked PROVE to(v) = variant[v].state
      BY <2>3, <2>4, LockedRow
    <3> QED
      BY LockedRow DEF Applied, In
  <2> HIDE DEF moved, to
  <2>6. \A v \in Variants : Fits(variant'[v], receipts[v], calls[v], decision'[v[1]])
    BY <1>1, <2>3, <2>4
  <2>7. RowsFit' /\ HoldsFit'
    BY <1>1, <2>5, <2>6, RowsMove
  <2>8. EditFits'
    <3>1. \A v \in Variants : variant[v].state = "unwritten" => variant'[v].state = "unwritten"
      BY <2>2, <2>3, <2>4 DEF OpenStates
    <3> QED
      BY <1>1, <3>1 DEF IInv, EditFits
  <2>9. TypeOK'
    <3>1. variant' \in [Variants -> Row]
      BY <1>3, <2>3
    <3> QED
      BY <1>1, <3>1 DEF IInv, TypeOK, PostTypeOK, StorageTypeOK
  <2> QED
    BY <2>7, <2>8, <2>9 DEF IInv
<1> QED
  BY <1>2, <1>3 DEF DecideApply

LEMMA DecideKeeps ==
  ASSUME IInv, Decides
  PROVE  IInv'
<1>1. UNCHANGED <<worker, calls, post, byPerson>>
  BY DEF Decides
<1>2. PICK d \in Deciders :
        \/ \E choice \in {"approve", "reject"} : DecideCheck(d, choice)
        \/ DecideConfirm(d) \/ DecideInsert(d) \/ DecideApply(d) \/ DecideStops(d)
  BY DEF Decides
<1>3. decider \in [Deciders -> Deciding] /\ current \in Revisions
  BY DEF IInv, TypeOK, PostTypeOK, Deciding
<1>4. CASE \/ \E choice \in {"approve", "reject"} : DecideCheck(d, choice)
           \/ DecideConfirm(d) \/ DecideStops(d)
  <2>1. UNCHANGED <<storageVars, current, editor, granted>>
    BY <1>4 DEF DecideCheck, DecideConfirm, DecideStops
  <2>2. decider' \in [Deciders -> Deciding]
    <3>1. CASE \E choice \in {"approve", "reject"} : DecideCheck(d, choice)
      BY <1>3, <3>1 DEF DecideCheck, Deciding
    <3>2. CASE DecideConfirm(d)
      <4>1. decider[d] \in Deciding /\ decider[d] # NoDecision
        BY <1>3, <3>2 DEF DecideConfirm, NoDecision
      <4>2. PICK pc \in {"confirming", "decided"} :
              decider' = [decider EXCEPT ![d] = [decider[d] EXCEPT !.pc = pc]]
        BY <1>3, <3>2 DEF DecideConfirm
      <4>3. [decider[d] EXCEPT !.pc = pc] \in Deciding
        BY <4>1, <4>2 DEF Deciding
      <4> QED
        BY <1>3, <4>2, <4>3
    <3>3. CASE DecideStops(d)
      BY <1>3, <3>3 DEF DecideStops, Deciding
    <3> QED
      BY <1>4, <3>1, <3>2, <3>3
  <2>3. TypeOK'
    BY <1>1, <2>1, <2>2 DEF IInv, TypeOK, PostTypeOK, StorageTypeOK, storageVars, Deciding
  <2>4. RowsFit' /\ HoldsFit' /\ EditFits'
    BY <1>1, <2>1 DEF IInv, RowsFit, HoldsFit, HoldFits, EditFits, storageVars
  <2> QED
    BY <2>3, <2>4 DEF IInv
<1>5. CASE DecideInsert(d)
  <2> DEFINE r == decider[d].revision
             choice == decider[d].choice
  <2>1. /\ UNCHANGED <<variant, receipts, current, editor, granted>>
        /\ decision' = [decision EXCEPT ![r] = IF @ = "none" THEN choice ELSE @]
        /\ decider' = [decider EXCEPT ![d] = [decider[d] EXCEPT !.pc = "decided"]]
    BY <1>3, <1>5 DEF DecideInsert
  <2>2. decider[d] \in Deciding /\ decider[d] # NoDecision
    BY <1>3, <1>5 DEF DecideInsert, NoDecision
  <2>3. [decider[d] EXCEPT !.pc = "decided"] \in Deciding /\ choice \in {"approve", "reject"}
    BY <2>2 DEF Deciding
  <2>4. decider' \in [Deciders -> Deciding]
    BY <1>3, <2>1, <2>3
  <2>5. decision' \in [Revisions -> {"none", "approve", "reject"}]
    BY <2>1, <2>3 DEF IInv, TypeOK, PostTypeOK, StorageTypeOK
  <2>6. TypeOK'
    BY <1>1, <2>1, <2>4, <2>5 DEF IInv, TypeOK, PostTypeOK, StorageTypeOK, Deciding
  <2>7. \A x \in Revisions : decision[x] # "none" => decision'[x] = decision[x]
    BY <2>1 DEF IInv, TypeOK, PostTypeOK, StorageTypeOK
  <2>8. \A v \in Variants : Fits(variant[v], receipts[v], calls[v], decision'[v[1]])
    <3>1. SUFFICES ASSUME NEW v \in Variants
                   PROVE  Fits(variant[v], receipts[v], calls[v], decision'[v[1]])
      OBVIOUS
    <3>2. v[1] \in Revisions /\ Fits(variant[v], receipts[v], calls[v], decision[v[1]])
      BY VariantTypes DEF IInv, RowsFit
    <3>3. CASE decision[v[1]] = "none"
      BY <3>2, <3>3, ChoiceFits
    <3>4. CASE decision[v[1]] # "none"
      BY <2>7, <3>2, <3>4
    <3> QED
      BY <3>3, <3>4
  <2>9. RowsFit' /\ HoldsFit' /\ EditFits'
    BY <1>1, <2>1, <2>8 DEF IInv, RowsFit, HoldsFit, HoldFits, EditFits
  <2> QED
    BY <2>6, <2>9 DEF IInv
<1>6. CASE DecideApply(d)
  BY <1>1, <1>6, ApplyKeeps
<1> QED
  BY <1>2, <1>4, <1>5, <1>6

-----------------------------------------------------------------------------
(* The theorems of the specification.                                         *)

LEMMA InitIInv == Init => IInv
<1> SUFFICES ASSUME Init PROVE IInv
  OBVIOUS
<1>1. PICK state \in {"draft", "awaiting-approval"} :
        variant = [v \in Variants |-> NewRow(IF v[1] = 1 THEN state ELSE "unwritten")]
  BY DEF Init, PostInit
<1>2. \A v \in Variants : /\ variant[v] \in Row
                          /\ variant[v].state \in {"draft", "awaiting-approval", "unwritten"}
                          /\ variant[v].step = 0 /\ variant[v].attempt = 0
                          /\ v[1] > 1 => variant[v].state = "unwritten"
  BY <1>1, PlanFacts DEF NewRow, Row, States, OpenStates
<1>3. /\ receipts = [v \in Variants |-> << >>] /\ calls = [v \in Variants |-> << >>]
      /\ current = 1 /\ editor = NoEdit
      /\ decider = [d \in Deciders |-> NoDecision]
      /\ granted = [c \in Channels |-> TRUE]
      /\ decision = [r \in Revisions |-> "none"]
      /\ worker = [w \in Workers |-> Idle]
      /\ post = [v \in Variants |-> "none"] /\ byPerson = {}
  BY DEF Init, PostInit
<1>4. TypeOK
  <2>1. variant \in [Variants -> Row]
    BY <1>1, <1>2
  <2>2. /\ << >> \in Seq(Receipt) /\ Len(<< >>) = 0
        /\ << >> \in Seq({"flight", "landed", "refused"}) /\ 1 \in Revisions
    BY PlanFacts DEF Revisions
  <2> QED
    BY <1>3, <2>1, <2>2, PlanFacts, StateTypes DEF TypeOK, PostTypeOK, StorageTypeOK
<1>5. RowsFit
  BY <1>2, <1>3 DEF RowsFit, Fits, InPlanOrder, StepIsNext, Waiting
<1>6. HoldsFit
  BY <1>3 DEF HoldsFit, HoldFits, Idle
<1>7. EditFits
  BY <1>2, <1>3 DEF EditFits
<1> QED
  BY <1>4, <1>5, <1>6, <1>7 DEF IInv

LEMMA NextKeeps == IInv /\ [Next]_vars => IInv'
<1> SUFFICES ASSUME IInv, [Next]_vars PROVE IInv'
  OBVIOUS
<1>1. CASE Edits
  BY <1>1, EditKeeps
<1>2. CASE Decides
  BY <1>2, DecideKeeps
<1>3. CASE \E w \in Workers : Steps(w)
  BY <1>3, CheckKeeps, ClaimKeeps, SendKeeps, AnswerKeeps, SettleDoneKeeps, SettleKeeps,
     SettleLateKeeps, PollKeeps, ReconcileKeeps, StopKeeps DEF Steps
<1>4. CASE \E v \in Variants : \/ Sweeps(v) \/ Platform(v) \/ Resume(v) \/ Cancel(v)
                               \/ Settle(v) \/ TimeComes(v)
  BY <1>4, SweepKeeps, PlatformKeeps, CommandKeeps, TimeKeeps
<1>5. CASE \E c \in Channels : ChangeGrant(c)
  BY <1>5, GrantKeeps
<1>6. CASE UNCHANGED vars
  <2>1. UNCHANGED <<storageVars, postVars, worker, calls, post, byPerson>>
    BY <1>6 DEF vars
  <2>2. TypeOK'
    BY <2>1 DEF IInv, TypeOK, PostTypeOK, StorageTypeOK, storageVars, postVars
  <2>3. RowsFit' /\ HoldsFit' /\ EditFits'
    BY <2>1 DEF IInv, RowsFit, HoldsFit, HoldFits, EditFits, storageVars, postVars
  <2> QED
    BY <2>2, <2>3 DEF IInv
<1> QED
  BY <1>1, <1>2, <1>3, <1>4, <1>5, <1>6 DEF Next

\* The inductive invariant holds in every behaviour.
THEOREM Inductive == Spec => []IInv
  BY InitIInv, NextKeeps, PTL DEF Spec

\* Every variable of social publishing keeps its type, whatever the channels,
\* workers, plan and bounds are (publisher.ts, posts.ts).
THEOREM PublisherTypeOK == Spec => []TypeOK
<1>1. IInv => TypeOK
  BY DEF IInv
<1> QED
  BY <1>1, Inductive, PTL

\* A changing step takes effect on the platform at most once: an attempt is made
\* only after attempts of the same step that failed, and a receipt is failed only
\* when the platform did not carry the call out (publisher.ts:522-701).
THEOREM StepsOnce == Spec => []StepTakesEffectOnce
<1>1. IInv => StepTakesEffectOnce
  <2> SUFFICES ASSUME IInv, NEW v \in Variants,
                      NEW a \in 1 .. Len(calls[v]), NEW b \in 1 .. Len(calls[v]),
                      a # b, receipts[v][a].step = receipts[v][b].step,
                      calls[v][a] = "landed", calls[v][b] = "landed"
               PROVE  FALSE
    BY DEF StepTakesEffectOnce
  <2>1. /\ Fits(variant[v], receipts[v], calls[v], decision[v[1]])
        /\ Len(receipts[v]) \in Nat
        /\ receipts[v][a] \in Receipt /\ receipts[v][b] \in Receipt
    BY VariantTypes DEF IInv, RowsFit, Fits
  <2>2. /\ Len(calls[v]) = Len(receipts[v]) /\ InPlanOrder(receipts[v])
        /\ receipts[v][a].status # "failed" /\ receipts[v][b].status # "failed"
    BY <2>1 DEF Fits
  <2>3. receipts[v][a].step \in Nat
    BY <2>1, PlanFacts DEF Receipt
  <2> QED
    BY <2>1, <2>2, <2>3 DEF InPlanOrder
<1> QED
  BY <1>1, Inductive, PTL

\* A row is `sending' exactly while its last receipt is executing, and is queued
\* anew only without attempts (0004_social.sql:213-259, publisher.ts:489-508).
THEOREM ReceiptsAgree == Spec => []ReceiptsMatchState
<1>1. IInv => ReceiptsMatchState
  <2> SUFFICES ASSUME IInv, NEW v \in Variants
               PROVE  /\ \A a \in 1 .. Len(receipts[v]) :
                           receipts[v][a].status = "executing"
                             <=> In(v, {"sending"}) /\ a = Len(receipts[v])
                      /\ variant[v].attempt = Len(receipts[v])
                      /\ In(v, {"scheduled", "draft", "awaiting-approval", "superseded"})
                           => ~Attempted(v)
                      /\ In(v, {"processing", "sending", "outcome-unknown"}) => Attempted(v)
    BY DEF ReceiptsMatchState
  <2>1. /\ Fits(variant[v], receipts[v], calls[v], decision[v[1]])
        /\ receipts[v] \in Seq(Receipt)
    BY VariantTypes DEF IInv, RowsFit
  <2>2. Attempted(v) <=> Len(receipts[v]) > 0
    BY <2>1 DEF Attempted
  <2> QED
    BY <2>1, <2>2 DEF Fits, In
<1> QED
  BY <1>1, Inductive, PTL

-----------------------------------------------------------------------------
(* What the outcome of a variant says of its post. The platform has a post    *)
(* once a publishing call landed; a final state is reached on evidence, and   *)
(* what a worker read before it is still true when it settles.                *)

Landed(rs, cs) == \E a \in 1 .. Len(rs) : Publishes(rs[a].step) /\ cs[a] = "landed"

\* No post, and no call on its way that may create one.
NoPost(rs, cs, p) ==
  /\ p \in {"none", "rejected"}
  /\ \A a \in 1 .. Len(rs) : Publishes(rs[a].step) => cs[a] # "flight"

Confirmed(rs) ==
  \E a \in 1 .. Len(rs) : Publishes(rs[a].step) /\ rs[a].status = "succeeded"

\* The variant ended without a post.
Gone(state, rs) ==
  \/ state \in {"failed", "superseded", "not-published"}
  \/ state = "cancelled" /\ ~Confirmed(rs)

Outcome(state, rs, cs, p, settled, choice) ==
  /\ \A a \in 1 .. Len(rs) :
       /\ Plan[rs[a].step] = "mutate"
       /\ rs[a].status = "outcome-unknown" =>
            state \in {"outcome-unknown", "published", "not-published"}
  /\ p = "none" <=> ~Landed(rs, cs)
  /\ Plan[Len(Plan)] = "mutate" => p \in {"none", "live"}
  /\ state = "published" => settled \/ p = "live"
  /\ Gone(state, rs) => settled \/ NoPost(rs, cs, p)
  /\ Len(rs) > 0 => choice = "approve"

OutcomesFit ==
  \A v \in Variants :
    Outcome(variant[v].state, receipts[v], calls[v], post[v], v \in byPerson, decision[v[1]])

\* An attempt whose outcome is unknown is never made again.
Ended == {"outcome-unknown"} \cup FinalStates

\* What a worker read stays true until it uses it.
HoldTrue(hold) ==
  /\ hold.pc = "checked" => Plan[AtRow(hold.seen)] = "mutate"
  /\ hold.pc = "claiming" => Plan[AtRow(variant[hold.v])] = "mutate" /\ granted[hold.v[2]]
  /\ hold.pc = "answered" /\ hold.answer = "published" =>
       hold.step = Len(Plan) /\ calls[hold.v][hold.attempt] = "landed"
  /\ hold.pc = "polled" /\ hold.status = "published" => post[hold.v] = "live"
  /\ hold.pc = "polled" /\ hold.status = "failed" =>
       \/ \E j \in hold.seen.step + 1 .. Len(Plan) : Plan[j] = "mutate"
       \/ post[hold.v] = "rejected"
  /\ hold.pc \in {"reconciling", "reconciled"} => variant[hold.v].state \in Ended
  /\ hold.pc = "reconciled" =>
       IF hold.result = "found" THEN post[hold.v] = "live"
       ELSE NoPost(receipts[hold.v], calls[hold.v], post[hold.v])

HoldsTrue == \A w \in Workers : HoldTrue(worker[w])

\* Of the revisions written for a channel, all but the last are superseded, and
\* an edit replaces rows of the current revision.
OneRevision ==
  /\ \A v, u \in Variants :
       v[2] = u[2] /\ v[1] < u[1] /\ variant[u].state # "unwritten"
         => variant[v].state = "superseded"
  /\ editor # NoEdit => \A row \in editor.rows : row[1][1] = current

\* Only one step of the plan publishes.
LEMMA PublishingStep ==
  ASSUME NEW i \in 1 .. Len(Plan), NEW j \in 1 .. Len(Plan), Publishes(i), Plan[j] = "mutate"
  PROVE  j =< i /\ (Publishes(j) => j = i)
<1>1. i \in Nat /\ j \in Nat /\ Len(Plan) \in Nat
  BY PlanFacts
<1>2. j > i => FALSE
  BY <1>1 DEF Publishes
<1>3. Publishes(j) /\ i > j => FALSE
  BY <1>1 DEF Publishes
<1> QED
  BY <1>1, <1>2, <1>3

\* The receipts and the calls of a row, with their types.
RowTyped(row, rs, cs, choice) ==
  /\ row \in Row /\ rs \in Seq(Receipt) /\ cs \in Seq({"flight", "landed", "refused"})
  /\ Fits(row, rs, cs, choice)

LEMMA ReceiptFacts ==
  ASSUME NEW row, NEW rs, NEW cs, NEW choice, RowTyped(row, rs, cs, choice)
  PROVE  /\ Len(rs) \in Nat /\ Len(cs) = Len(rs)
         /\ rs # << >> <=> Len(rs) > 0
         /\ \A a \in 1 .. Len(rs) :
              /\ rs[a] \in Receipt /\ rs[a].step \in 1 .. Len(Plan)
              /\ rs[a].status \in {"executing", "succeeded", "failed", "outcome-unknown"}
              /\ cs[a] \in {"flight", "landed", "refused"}
              /\ rs[a].status = "failed" => cs[a] = "refused"
              /\ rs[a].status = "executing" <=> row.state = "sending" /\ a = Len(rs)
         /\ InPlanOrder(rs)
<1>1. \A a \in 1 .. Len(rs) : rs[a] \in Receipt
  BY DEF RowTyped
<1>2. Len(cs) = Len(rs) /\ Len(rs) \in Nat
  BY DEF RowTyped, Fits
<1>3. \A a \in 1 .. Len(rs) : cs[a] \in {"flight", "landed", "refused"}
  BY <1>2 DEF RowTyped
<1> QED
  BY <1>1, <1>2, <1>3 DEF RowTyped, Fits, Receipt

\* Of the attempts to publish, only one was not refused.
LEMMA OnePublishes ==
  ASSUME NEW row, NEW rs, NEW cs, NEW choice, RowTyped(row, rs, cs, choice),
         NEW a \in 1 .. Len(rs), NEW b \in 1 .. Len(rs),
         Publishes(rs[a].step), Publishes(rs[b].step), cs[a] # "refused", cs[b] # "refused"
  PROVE  a = b
<1>1. /\ Len(rs) \in Nat /\ InPlanOrder(rs)
      /\ rs[a].step \in 1 .. Len(Plan) /\ rs[b].step \in 1 .. Len(Plan)
      /\ rs[a].status # "failed" /\ rs[b].status # "failed"
  BY ReceiptFacts
<1>2. rs[a].step = rs[b].step
  BY <1>1, PublishingStep DEF Publishes
<1>3. rs[a].step \in Nat
  BY <1>1
<1>4. a < b => FALSE
  BY <1>1, <1>2, <1>3 DEF InPlanOrder
<1>5. b < a => FALSE
  BY <1>1, <1>2, <1>3 DEF InPlanOrder
<1> QED
  BY <1>1, <1>4, <1>5

\* Once the platform has the post, no call that could create it is on its way.
LEMMA PostOnce ==
  ASSUME NEW row, NEW rs, NEW cs, NEW choice, RowTyped(row, rs, cs, choice),
         Landed(rs, cs), NEW a \in 1 .. Len(rs), Publishes(rs[a].step)
  PROVE  cs[a] # "flight"
<1>1. PICK b \in 1 .. Len(rs) : Publishes(rs[b].step) /\ cs[b] = "landed"
  BY DEF Landed
<1>2. cs[a] = "flight" => a = b
  BY <1>1, OnePublishes
<1> QED
  BY <1>1, <1>2

\* Every attempt to publish that a blocked row has had confirmed or refused.
LEMMA BlockedGone ==
  ASSUME NEW row, NEW rs, NEW cs, NEW choice, RowTyped(row, rs, cs, choice),
         NEW p, NEW settled, Outcome(row.state, rs, cs, p, settled, choice),
         row.state = "blocked", ~Confirmed(rs), p \in {"none", "processing", "live", "rejected"}
  PROVE  NoPost(rs, cs, p)
<1>1. ASSUME NEW a \in 1 .. Len(rs), Publishes(rs[a].step) PROVE cs[a] = "refused"
  <2>1. rs[a].status \notin {"succeeded", "outcome-unknown", "executing"}
    BY <1>1, ReceiptFacts DEF Confirmed, Outcome
  <2> QED
    BY <2>1, ReceiptFacts
<1>2. ~Landed(rs, cs)
  BY <1>1 DEF Landed
<1> QED
  BY <1>1, <1>2 DEF NoPost, Outcome

LEMMA UnsentGone ==
  ASSUME NEW rs \in Seq(Receipt), NEW cs, NEW p, NEW state, NEW settled, NEW choice,
         Outcome(state, rs, cs, p, settled, choice), rs = << >>
  PROVE  NoPost(rs, cs, p)
<1>1. 1 .. Len(rs) = {}
  OBVIOUS
<1> QED
  BY <1>1 DEF NoPost, Outcome, Landed

\* A row that is not `sending' moves; a final state needs its evidence.
LEMMA MoveOutcome ==
  ASSUME NEW row, NEW rs, NEW cs, NEW choice, RowTyped(row, rs, cs, choice),
         NEW p \in {"none", "processing", "live", "rejected"},
         NEW settled \in BOOLEAN, NEW settled2 \in BOOLEAN, settled => settled2,
         Outcome(row.state, rs, cs, p, settled, choice),
         row.state \in OpenStates \ {"sending"},
         NEW to \in States \ {"sending", "unwritten"},
         to # row.state => TriggerAllows(row.state, to, rs # << >>),
         to = "published" => settled2 \/ p = "live",
         to \in {"failed", "not-published"} => settled2 \/ NoPost(rs, cs, p)
  PROVE  Outcome(to, rs, cs, p, settled2, choice)
<1>1. ASSUME NEW a \in 1 .. Len(rs), rs[a].status = "outcome-unknown"
      PROVE  to \in {"outcome-unknown", "published", "not-published"}
  <2>1. row.state = "outcome-unknown"
    BY <1>1 DEF Outcome, OpenStates
  <2>2. rs # << >>
    BY ReceiptFacts
  <2> QED
    BY <2>1, <2>2 DEF TriggerAllows, Supersedable
<1>2. ASSUME Gone(to, rs), ~settled2 PROVE NoPost(rs, cs, p)
  <2>1. CASE to = "failed" \/ to = "not-published"
    BY <1>2, <2>1
  <2>2. CASE to = "superseded" \/ (to = "cancelled" /\ rs = << >>)
    <3>1. to = "superseded" => rs = << >>
      BY DEF TriggerAllows, OpenStates
    <3>2. rs = << >>
      BY <2>2, <3>1
    <3> QED
      BY <3>2, UnsentGone DEF RowTyped
  <2>3. CASE to = "cancelled" /\ rs # << >>
    <3>1. row.state \in {"awaiting-approval", "blocked"}
      BY <2>3 DEF TriggerAllows, OpenStates
    <3>2. row.state # "awaiting-approval"
      BY <2>3, ReceiptFacts DEF RowTyped, Fits
    <3> QED
      BY <1>2, <2>3, <3>1, <3>2, BlockedGone DEF Gone
  <2>4. to = "failed" \/ to = "not-published" \/ to = "superseded" \/ to = "cancelled"
    BY <1>2 DEF Gone
  <2> QED
    BY <2>1, <2>2, <2>3, <2>4
<1> QED
  BY <1>1, <1>2 DEF Outcome

\* An attempt ends: the row leaves `sending' for what its answer says.
LEMMA SettleOutcome ==
  ASSUME NEW row, NEW rs, NEW cs, NEW choice, RowTyped(row, rs, cs, choice),
         NEW p \in {"none", "processing", "live", "rejected"}, NEW settled,
         Outcome(row.state, rs, cs, p, settled, choice), row.state = "sending",
         NEW status \in {"succeeded", "failed", "outcome-unknown"},
         NEW class \in {"none", "retry", "rate-limited"},
         NEW to \in {"processing", "blocked", "published", "failed", "outcome-unknown"},
         status = "failed" => cs[Len(rs)] = "refused",
         status = "outcome-unknown" => to = "outcome-unknown",
         to = "failed" => status = "failed",
         to = "published" => p = "live"
  PROVE  Outcome(to, Closed(rs, status, class), cs, p, settled, choice)
<1> DEFINE rs2 == Closed(rs, status, class)
<1>1. Len(rs) \in Nat /\ Len(rs) > 0
  BY ReceiptFacts DEF RowTyped, Fits
<1>2. /\ Len(rs2) = Len(rs)
      /\ \A a \in 1 .. Len(rs) : rs2[a].step = rs[a].step
      /\ \A a \in 1 .. Len(rs) : a # Len(rs) => rs2[a] = rs[a]
      /\ rs2[Len(rs)].status = status
  BY <1>1 DEF Closed, RowTyped
<1> HIDE DEF rs2
<1>3. ASSUME NEW a \in 1 .. Len(rs), rs2[a].status = "outcome-unknown"
      PROVE  to \in {"outcome-unknown", "published", "not-published"}
  <2>1. CASE a = Len(rs)
    BY <1>2, <1>3, <2>1
  <2>2. CASE a # Len(rs)
    BY <1>2, <1>3, <2>2 DEF Outcome
  <2> QED
    BY <2>1, <2>2
<1>4. Landed(rs2, cs) <=> Landed(rs, cs)
  BY <1>2 DEF Landed
<1>5. ASSUME to = "failed" PROVE NoPost(rs2, cs, p)
  <2>1. ASSUME NEW a \in 1 .. Len(rs), Publishes(rs[a].step) PROVE cs[a] = "refused"
    <3>1. cs[Len(rs)] = "refused" /\ Len(rs) \in 1 .. Len(rs)
      BY <1>1, <1>5
    <3>2. CASE a = Len(rs)
      BY <3>1, <3>2
    <3>3. CASE a # Len(rs)
      <4>1. a < Len(rs) /\ InPlanOrder(rs)
        BY <1>1, <3>3, ReceiptFacts
      <4>2. /\ rs[a].step \in 1 .. Len(Plan) /\ rs[Len(rs)].step \in 1 .. Len(Plan)
            /\ Plan[rs[Len(rs)].step] = "mutate"
        BY <3>1, ReceiptFacts DEF Outcome
      <4>3. rs[Len(rs)].step =< rs[a].step
        BY <2>1, <4>2, PublishingStep
      <4>4. rs[a].status # "failed" => rs[a].step < rs[Len(rs)].step
        BY <3>1, <4>1 DEF InPlanOrder
      <4>5. rs[a].status = "failed"
        BY <4>2, <4>3, <4>4
      <4> QED
        BY <4>5, ReceiptFacts
    <3> QED
      BY <3>2, <3>3
  <2>2. p = "none"
    BY <2>1 DEF Outcome, Landed
  <2> QED
    BY <1>2, <2>1, <2>2 DEF NoPost
<1>6. Gone(to, rs2) => NoPost(rs2, cs, p)
  BY <1>5 DEF Gone
<1>7. \A a \in 1 .. Len(rs2) : Plan[rs2[a].step] = "mutate"
  BY <1>2 DEF Outcome
<1>8. Outcome(to, rs2, cs, p, settled, choice)
  BY <1>1, <1>2, <1>3, <1>4, <1>6, <1>7 DEF Outcome
<1> QED
  BY <1>8 DEF rs2

\* The claim: a call of a changing step is on its way.
LEMMA SendOutcome ==
  ASSUME NEW row, NEW rs, NEW cs, NEW choice, RowTyped(row, rs, cs, choice),
         NEW p \in {"none", "processing", "live", "rejected"}, NEW settled,
         Outcome(row.state, rs, cs, p, settled, choice),
         row.state \in {"scheduled", "processing"}, choice = "approve",
         NEW receipt \in Receipt, receipt.status = "executing", Plan[receipt.step] = "mutate"
  PROVE  Outcome("sending", Append(rs, receipt), Append(cs, "flight"), p, settled, choice)
<1> DEFINE rs2 == Append(rs, receipt)
           cs2 == Append(cs, "flight")
           n == Len(rs) + 1
<1>1. Len(rs) \in Nat /\ Len(cs) = Len(rs)
  BY ReceiptFacts
<1>2. /\ Len(rs2) = n /\ rs2[n] = receipt /\ cs2[n] = "flight"
      /\ \A a \in 1 .. Len(rs) : rs2[a] = rs[a] /\ cs2[a] = cs[a]
  BY <1>1 DEF RowTyped
<1>3. \A a \in 1 .. n : a = n \/ a \in 1 .. Len(rs)
  BY <1>1
<1>4. n \in 1 .. n /\ \A a \in 1 .. Len(rs) : a \in 1 .. n
  BY <1>1
<1> HIDE DEF rs2, cs2, n
<1>5. \A a \in 1 .. n : Plan[rs2[a].step] = "mutate" /\ rs2[a].status # "outcome-unknown"
  <2>1. \A a \in 1 .. Len(rs) : Plan[rs[a].step] = "mutate" /\ rs[a].status # "outcome-unknown"
    BY DEF Outcome
  <2> QED
    BY <1>2, <1>3, <2>1
<1>6. Landed(rs2, cs2) <=> Landed(rs, cs)
  BY <1>2, <1>3, <1>4 DEF Landed
<1>7. Outcome("sending", rs2, cs2, p, settled, choice)
  BY <1>2, <1>5, <1>6 DEF Outcome, Gone
<1> QED
  BY <1>7 DEF rs2, cs2

\* A call of a row ends on the platform.
After(p, step, end) ==
  IF end = "landed" /\ Publishes(step) THEN IF step = Len(Plan) THEN "live" ELSE "processing"
  ELSE p

InFlight(row, rs, cs, p, settled, choice, a, end) ==
  /\ RowTyped(row, rs, cs, choice)
  /\ p \in {"none", "processing", "live", "rejected"}
  /\ Outcome(row.state, rs, cs, p, settled, choice)
  /\ a \in 1 .. Len(rs) /\ cs[a] = "flight" /\ end \in {"landed", "refused"}

LEMMA CallOutcome ==
  ASSUME NEW row, NEW rs, NEW cs, NEW choice, NEW p, NEW settled, NEW a, NEW end,
         InFlight(row, rs, cs, p, settled, choice, a, end)
  PROVE  /\ Outcome(row.state, rs, [cs EXCEPT ![a] = end], After(p, rs[a].step, end), settled, choice)
         /\ p \in {"live", "rejected"} => After(p, rs[a].step, end) = p
         /\ NoPost(rs, cs, p) => NoPost(rs, [cs EXCEPT ![a] = end], After(p, rs[a].step, end))
<1>0. /\ RowTyped(row, rs, cs, choice)
      /\ p \in {"none", "processing", "live", "rejected"}
      /\ Outcome(row.state, rs, cs, p, settled, choice)
      /\ a \in 1 .. Len(rs) /\ cs[a] = "flight" /\ end \in {"landed", "refused"}
  BY DEF InFlight
<1> USE <1>0
<1> DEFINE cs2 == [cs EXCEPT ![a] = end]
           p2 == After(p, rs[a].step, end)
<1>1. /\ Len(rs) \in Nat /\ Len(cs) = Len(rs)
      /\ rs[a].step \in 1 .. Len(Plan) /\ Plan[rs[a].step] = "mutate"
  BY ReceiptFacts DEF Outcome
<1>2. cs2[a] = end /\ \A b \in 1 .. Len(rs) : b # a => cs2[b] = cs[b]
  BY <1>1 DEF RowTyped
<1> HIDE DEF cs2
<1>3. CASE end = "landed" /\ Publishes(rs[a].step)
  <2>1. ~Landed(rs, cs) /\ p = "none"
    BY <1>3, PostOnce DEF Outcome
  <2>2. Landed(rs, cs2)
    BY <1>2, <1>3 DEF Landed
  <2>3. p2 \in {"live", "processing"} /\ (p2 = "processing" => rs[a].step # Len(Plan))
    BY <1>3 DEF After
  <2>4. Plan[Len(Plan)] = "mutate" => p2 = "live"
    <3>1. Plan[Len(Plan)] = "mutate" => Len(Plan) =< rs[a].step
      BY <1>1, <1>3, PublishingStep, PlanFacts
    <3> QED
      BY <1>1, <2>3, <3>1, PlanFacts
  <2>5. ~NoPost(rs, cs, p)
    BY <1>3 DEF NoPost
  <2>6. Outcome(row.state, rs, cs2, p2, settled, choice)
    <3> HIDE DEF p2
    <3> QED
      BY <2>1, <2>2, <2>3, <2>4, <2>5 DEF Outcome
  <2> QED
    BY <2>1, <2>5, <2>6 DEF cs2
<1>4. CASE ~(end = "landed" /\ Publishes(rs[a].step))
  <2>1. p2 = p
    BY <1>4 DEF After
  <2>2. Landed(rs, cs2) <=> Landed(rs, cs)
    BY <1>2, <1>4 DEF Landed
  <2>3. NoPost(rs, cs, p) => NoPost(rs, cs2, p)
    BY <1>2 DEF NoPost
  <2>4. Outcome(row.state, rs, cs2, p, settled, choice)
    BY <2>2, <2>3 DEF Outcome
  <2> QED
    BY <2>1, <2>3, <2>4 DEF cs2
<1> QED
  BY <1>3, <1>4

\* The platform ends its processing.
LEMMA ProcessOutcome ==
  ASSUME NEW state, NEW rs, NEW cs, NEW choice, NEW settled,
         Outcome(state, rs, cs, "processing", settled, choice), NEW end \in {"live", "rejected"}
  PROVE  Outcome(state, rs, cs, end, settled, choice)
<1>1. ~NoPost(rs, cs, "processing") /\ Plan[Len(Plan)] # "mutate"
  BY DEF NoPost, Outcome
<1> QED
  BY <1>1 DEF Outcome

-----------------------------------------------------------------------------
(* One step: what it keeps of each variant, and of what workers read.         *)

SInv == IInv /\ OutcomesFit /\ HoldsTrue /\ OneRevision

\* What every step keeps of a variant a worker may have read.
Lasting(v) ==
  /\ \A a \in 1 .. Len(receipts[v]) : calls[v][a] = "landed" => calls'[v][a] = "landed"
  /\ post[v] \in {"live", "rejected"} => post'[v] = post[v]
  /\ variant[v].state \in Ended =>
       /\ variant'[v].state \in Ended
       /\ NoPost(receipts[v], calls[v], post[v]) => NoPost(receipts'[v], calls'[v], post'[v])

\* What every step keeps of a variant, but an edit that writes it.
Steady(v) ==
  /\ Lasting(v)
  /\ variant'[v].state = "unwritten" <=> variant[v].state = "unwritten"
  /\ variant[v].state = "superseded" => variant'[v].state = "superseded"

OutcomeOf(v) ==
  Outcome(variant[v].state, receipts[v], calls[v], post[v], v \in byPerson, decision[v[1]])

\* Nothing that matters to an outcome changes of a variant.
Same(v) ==
  /\ variant'[v].state = variant[v].state
  /\ receipts'[v] = receipts[v] /\ calls'[v] = calls[v] /\ post'[v] = post[v]
  /\ v \in byPerson' <=> v \in byPerson

Recorded == \A r \in Revisions : decision[r] # "none" => decision'[r] = decision[r]

LEMMA VariantOf ==
  ASSUME SInv, NEW v \in Variants
  PROVE  /\ RowTyped(variant[v], receipts[v], calls[v], decision[v[1]])
         /\ OutcomeOf(v)
         /\ post[v] \in {"none", "processing", "live", "rejected"}
         /\ variant[v].state \in States /\ v[1] \in Revisions /\ v[2] \in Channels
<1>1. variant[v] \in Row /\ receipts[v] \in Seq(Receipt) /\ v[1] \in Revisions
      /\ calls[v] \in Seq({"flight", "landed", "refused"}) /\ variant[v].state \in States
      /\ v[2] \in Channels
  BY VariantTypes DEF SInv, IInv
<1>2. Fits(variant[v], receipts[v], calls[v], decision[v[1]])
  BY DEF SInv, IInv, RowsFit
<1>3. post[v] \in {"none", "processing", "live", "rejected"}
  BY DEF SInv, IInv, TypeOK
<1> QED
  BY <1>1, <1>2, <1>3 DEF SInv, OutcomesFit, OutcomeOf, RowTyped

LEMMA OutcomeLater ==
  ASSUME NEW state, NEW rs, NEW cs, NEW p, NEW settled, NEW choice, NEW choice2,
         Outcome(state, rs, cs, p, settled, choice), choice # "none" => choice2 = choice
  PROVE  Outcome(state, rs, cs, p, settled, choice2)
  BY DEF Outcome

LEMMA SameOutcome ==
  ASSUME SInv, Recorded, NEW v \in Variants, Same(v)
  PROVE  OutcomeOf(v)' /\ Steady(v)
<1>1. OutcomeOf(v) /\ v[1] \in Revisions
  BY VariantOf
<1>2. decision[v[1]] # "none" => decision'[v[1]] = decision[v[1]]
  BY <1>1 DEF Recorded
<1>3. Outcome(variant'[v].state, receipts'[v], calls'[v], post'[v], v \in byPerson', decision[v[1]])
  BY <1>1 DEF Same, OutcomeOf
<1>4. OutcomeOf(v)'
  BY <1>2, <1>3, OutcomeLater DEF OutcomeOf
<1> QED
  BY <1>4 DEF Same, Steady, Lasting

\* What a worker holds still is true after a step.
LEMMA StillTrue ==
  ASSUME SInv, \A v \in Variants : Lasting(v), NEW w \in Workers, worker'[w] = worker[w],
         worker[w].pc = "claiming" =>
           /\ variant'[worker[w].v].step = variant[worker[w].v].step
           /\ granted'[worker[w].v[2]] = granted[worker[w].v[2]]
  PROVE  HoldTrue(worker[w])'
<1> DEFINE h == worker[w]
           v == worker[w].v
<1>1. HoldTrue(h) /\ HoldFits(h) /\ h \in WorkerStates
  BY DEF SInv, HoldsTrue, IInv, HoldsFit, TypeOK
<1>2. h.pc # "idle" => v \in Variants /\ Lasting(v) /\ Len(receipts[v]) \in Nat
  BY <1>1, HoldTypes, VariantTypes DEF SInv, IInv
<1>3. worker'[w] = h
  OBVIOUS
<1> HIDE DEF h
<1>4. h.v = v
  BY DEF h
<1> HIDE DEF v
<1>5. h.pc = "claiming" => Plan[AtRow(variant'[v])] = "mutate" /\ granted'[v[2]]
  BY <1>1, <1>4 DEF HoldTrue, AtRow, h
<1>6. h.pc = "answered" /\ h.answer = "published" =>
        h.step = Len(Plan) /\ calls'[v][h.attempt] = "landed"
  <2>1. SUFFICES ASSUME h.pc = "answered", h.answer = "published"
                 PROVE  h.step = Len(Plan) /\ calls'[v][h.attempt] = "landed"
    OBVIOUS
  <2>2. h.step = Len(Plan) /\ calls[v][h.attempt] = "landed"
    BY <1>1, <1>4, <2>1 DEF HoldTrue
  <2>3. h.attempt \in 1 .. Len(receipts[v])
    <3>1. h.attempt \in 1 .. MaxAttempts /\ h.attempt =< Len(receipts[v])
      BY <1>1, <1>4, <2>1, HoldTypes DEF HoldFits
    <3> QED
      BY <1>2, <2>1, <3>1, PlanFacts
  <2> QED
    BY <1>2, <2>1, <2>2, <2>3 DEF Steady, Lasting
<1>7. h.pc = "polled" => /\ h.status = "published" => post'[v] = "live"
                         /\ h.status = "failed" =>
                              \/ \E j \in h.seen.step + 1 .. Len(Plan) : Plan[j] = "mutate"
                              \/ post'[v] = "rejected"
  BY <1>1, <1>2, <1>4 DEF HoldTrue, Steady, Lasting
<1>8. h.pc \in {"reconciling", "reconciled"} => variant'[v].state \in Ended
  BY <1>1, <1>2, <1>4 DEF HoldTrue, Steady, Lasting
<1>9. h.pc = "reconciled" =>
        IF h.result = "found" THEN post'[v] = "live"
        ELSE NoPost(receipts'[v], calls'[v], post'[v])
  BY <1>1, <1>2, <1>4 DEF HoldTrue, Steady, Lasting
<1>10. h.pc = "checked" => Plan[AtRow(h.seen)] = "mutate"
  BY <1>1 DEF HoldTrue
<1> QED
  BY <1>3, <1>4, <1>5, <1>6, <1>7, <1>8, <1>9, <1>10 DEF HoldTrue

\* Unless an edit writes a revision, the rows of each channel keep their order.
LEMMA StillOne ==
  ASSUME SInv, \A v \in Variants : Steady(v), current' = current, editor' = editor
  PROVE  OneRevision'
  BY DEF SInv, OneRevision, Steady, Lasting

\* A step that changes rows, none of them claimed but by the worker that moves on.
LEMMA StepOutcome ==
  ASSUME SInv, Recorded, current' = current, editor' = editor, granted' = granted,
         \A v \in Variants : Same(v) \/ (OutcomeOf(v)' /\ Steady(v)),
         \A w \in Workers :
           \/ HoldTrue(worker[w])'
           \/ /\ worker'[w] = worker[w]
              /\ worker[w].pc = "claiming"
                   => variant'[worker[w].v].step = variant[worker[w].v].step
  PROVE  (OutcomesFit /\ HoldsTrue /\ OneRevision)'
<1>1. \A v \in Variants : OutcomeOf(v)' /\ Steady(v)
  BY SameOutcome
<1>2. \A w \in Workers : HoldTrue(worker[w])'
  BY <1>1, StillTrue DEF Steady
<1>3. OneRevision'
  BY <1>1, StillOne
<1> QED
  BY <1>1, <1>2, <1>3 DEF OutcomesFit, OutcomeOf, HoldsTrue

\* The call of the plan's last step created the post.
LEMMA PublishedLive ==
  ASSUME SInv, NEW v \in Variants, NEW a \in 1 .. Len(receipts[v]),
         receipts[v][a].step = Len(Plan), calls[v][a] = "landed"
  PROVE  post[v] = "live"
<1>1. OutcomeOf(v) /\ RowTyped(variant[v], receipts[v], calls[v], decision[v[1]])
  BY VariantOf
<1>2. Plan[Len(Plan)] = "mutate"
  BY <1>1 DEF OutcomeOf, Outcome
<1>3. Publishes(Len(Plan))
  BY <1>2, PlanFacts DEF Publishes
<1>4. Landed(receipts[v], calls[v])
  BY <1>3 DEF Landed
<1> QED
  BY <1>1, <1>2, <1>4 DEF OutcomeOf, Outcome

\* A poll that reads a failure: the step that publishes was not tried, or the
\* platform rejected the post.
LEMMA PolledGone ==
  ASSUME SInv, NEW v \in Variants, variant[v].state = "processing",
         \/ \E j \in variant[v].step + 1 .. Len(Plan) : Plan[j] = "mutate"
         \/ post[v] = "rejected"
  PROVE  NoPost(receipts[v], calls[v], post[v])
<1>1. /\ RowTyped(variant[v], receipts[v], calls[v], decision[v[1]]) /\ OutcomeOf(v)
      /\ post[v] \in {"none", "processing", "live", "rejected"}
  BY VariantOf
<1>2. CASE \E j \in variant[v].step + 1 .. Len(Plan) : Plan[j] = "mutate"
  <2>1. PICK j \in variant[v].step + 1 .. Len(Plan) : Plan[j] = "mutate"
    BY <1>2
  <2>2. /\ variant[v].step \in 0 .. Len(Plan) /\ variant[v].step > 0
        /\ StepIsNext(variant[v], receipts[v])
    BY <1>1 DEF RowTyped, Row, Fits, Waiting
  <2>3. ASSUME NEW a \in 1 .. Len(receipts[v]), Publishes(receipts[v][a].step) PROVE FALSE
    <3>1. /\ receipts[v][a].step \in 1 .. Len(Plan)
          /\ receipts[v][a].step =< variant[v].step
      BY <1>1, <2>2, ReceiptFacts, SMTT(60) DEF StepIsNext, AtRow
    <3>2. j \in 1 .. Len(Plan) /\ j > receipts[v][a].step
      BY <2>1, <2>2, <3>1, PlanFacts
    <3> QED
      BY <2>1, <2>3, <3>1, <3>2, PublishingStep, PlanFacts
  <2>4. post[v] = "none"
    BY <1>1, <2>3 DEF OutcomeOf, Outcome, Landed
  <2> QED
    BY <2>3, <2>4 DEF NoPost
<1>3. CASE post[v] = "rejected"
  <2>1. Landed(receipts[v], calls[v])
    BY <1>1, <1>3 DEF OutcomeOf, Outcome
  <2>2. \A a \in 1 .. Len(receipts[v]) : Publishes(receipts[v][a].step) => calls[v][a] # "flight"
    BY <1>1, <2>1, PostOnce
  <2> QED
    BY <1>3, <2>2 DEF NoPost
<1> QED
  BY <1>2, <1>3

\* What a worker goes to that claims nothing about the rows.
Loose == {"idle", "calling", "polling"}

LEMMA LooseTrue ==
  ASSUME NEW w \in Workers, worker'[w].pc \in Loose
  PROVE  HoldTrue(worker[w])'
  BY DEF Loose, HoldTrue

\* One worker holds something else.
LEMMA GoesTo ==
  ASSUME SInv, NEW w \in Workers, NEW h, Go(w, h)
  PROVE  worker'[w] = h /\ \A x \in Workers \ {w} : worker'[x] = worker[x]
  BY DEF Go, SInv, IInv, TypeOK

\* A row that is not `sending' moves.
Moving(v, to) ==
  /\ Writable(v, to)
  /\ variant'[v].state = to
  /\ \A u \in Variants \ {v} : variant'[u] = variant[u]

LEMMA MovingRow ==
  ASSUME SInv, NEW v \in Variants
  PROVE  /\ \A to, due : Move(v, to, due) => Moving(v, to)
         /\ \A temporary : Block(v, temporary) => Moving(v, "blocked")
<1>1. variant \in [Variants -> Row]
  BY DEF SInv, IInv, TypeOK, PostTypeOK, StorageTypeOK
<1> QED
  BY <1>1 DEF Move, Block, Moving, Moved

LEMMA RowMoves ==
  ASSUME SInv, NEW v \in Variants, NEW to \in States \ {"sending", "unwritten"},
         Writable(v, to), variant[v].state # "sending", variant'[v].state = to,
         receipts'[v] = receipts[v], calls'[v] = calls[v], post'[v] = post[v],
         decision'[v[1]] = decision[v[1]], v \in byPerson => v \in byPerson',
         to = "published" => v \in byPerson' \/ post[v] = "live",
         to \in {"failed", "not-published"} =>
           v \in byPerson' \/ NoPost(receipts[v], calls[v], post[v])
  PROVE  OutcomeOf(v)' /\ Steady(v)
<1>1. /\ RowTyped(variant[v], receipts[v], calls[v], decision[v[1]]) /\ OutcomeOf(v)
      /\ post[v] \in {"none", "processing", "live", "rejected"}
  BY VariantOf
<1>2. /\ variant[v].state \in OpenStates \ {"sending"}
      /\ to # variant[v].state => TriggerAllows(variant[v].state, to, receipts[v] # << >>)
  BY DEF Writable, Attempted
<1>a. PICK settled : settled = (v \in byPerson) OBVIOUS
<1>b. PICK settled2 : settled2 = (v \in byPerson') OBVIOUS
<1>3. settled \in BOOLEAN /\ settled2 \in BOOLEAN
  BY <1>a, <1>b
<1>4. Outcome(to, receipts[v], calls[v], post[v], settled2, decision[v[1]])
  <2>1. PICK row, rs, cs, p, choice :
          /\ row = variant[v] /\ rs = receipts[v] /\ cs = calls[v] /\ p = post[v]
          /\ choice = decision[v[1]]
    OBVIOUS
  <2>2. /\ RowTyped(row, rs, cs, choice) /\ Outcome(row.state, rs, cs, p, settled, choice)
        /\ p \in {"none", "processing", "live", "rejected"}
        /\ row.state \in OpenStates \ {"sending"}
        /\ to # row.state => TriggerAllows(row.state, to, rs # << >>)
    BY <1>1, <1>2, <1>a, <2>1 DEF OutcomeOf
  <2>3. /\ settled => settled2
        /\ to = "published" => settled2 \/ p = "live"
        /\ to \in {"failed", "not-published"} => settled2 \/ NoPost(rs, cs, p)
    BY <1>a, <1>b, <1>3, <2>1
  <2> QED
    BY <1>3, <2>1, <2>2, <2>3, MoveOutcome
<1>5. OutcomeOf(v)'
  BY <1>a, <1>b, <1>3, <1>4 DEF OutcomeOf
<1>6. Steady(v)
  <2>1. variant[v].state \in Ended => to \in Ended
    <3>1. variant[v].state \in Ended => variant[v].state = "outcome-unknown"
      BY <1>2 DEF Ended, OpenStates, FinalStates
    <3> QED
      BY <1>2, <3>1 DEF TriggerAllows, Ended, FinalStates, Supersedable
  <2> QED
    BY <1>2, <2>1 DEF Steady, Lasting, OpenStates
<1> QED
  BY <1>5, <1>6

LEMMA OneMoves ==
  ASSUME SInv, NEW v \in Variants, NEW to \in States \ {"sending", "unwritten"}, Moving(v, to),
         variant[v].state # "sending", v \notin Locked,
         UNCHANGED <<receipts, decision, postVars, calls, post>>,
         \A u \in Variants : u \in byPerson => u \in byPerson',
         \A u \in Variants \ {v} : u \in byPerson' => u \in byPerson,
         to = "published" => v \in byPerson' \/ post[v] = "live",
         to \in {"failed", "not-published"} =>
           v \in byPerson' \/ NoPost(receipts[v], calls[v], post[v]),
         \A w \in Workers : worker'[w] = worker[w] \/ HoldTrue(worker[w])'
  PROVE  (OutcomesFit /\ HoldsTrue /\ OneRevision)'
<1>1. OutcomeOf(v)' /\ Steady(v)
  BY RowMoves DEF Moving, Variants
<1>7. \A u \in Variants : Same(u) \/ (OutcomeOf(u)' /\ Steady(u))
  BY <1>1 DEF Same, Moving
<1>8. \A w \in Workers :
        \/ HoldTrue(worker[w])'
        \/ /\ worker'[w] = worker[w]
           /\ worker[w].pc = "claiming" => variant'[worker[w].v].step = variant[worker[w].v].step
  <2>1. SUFFICES ASSUME NEW w \in Workers, worker'[w] = worker[w], worker[w].pc = "claiming"
                 PROVE  variant'[worker[w].v].step = variant[worker[w].v].step
    OBVIOUS
  <2>2. worker[w].v \in Locked
    BY <2>1 DEF Locked
  <2>3. worker[w].v \in Variants \ {v}
    BY <2>2, LockedRow DEF SInv
  <2> QED
    BY <2>3 DEF Moving
<1>9. Recorded /\ current' = current /\ editor' = editor /\ granted' = granted
  BY DEF Recorded, postVars
<1> QED
  BY <1>7, <1>8, <1>9, StepOutcome

\* Only what one worker holds changes.
LEMMA HoldOutcome ==
  ASSUME SInv, NEW w \in Workers, NEW h, Go(w, h), HoldTrue(worker[w])',
         UNCHANGED <<storageVars, postVars, calls, post, byPerson>>
  PROVE  (OutcomesFit /\ HoldsTrue /\ OneRevision)'
<1>1. \A x \in Workers \ {w} : worker'[x] = worker[x]
  BY GoesTo
<1>2. \A u \in Variants : Same(u)
  BY DEF Same, storageVars
<1>3. Recorded /\ current' = current /\ editor' = editor /\ granted' = granted /\ variant' = variant
  BY DEF Recorded, postVars, storageVars
<1> QED
  BY <1>1, <1>2, <1>3, StepOutcome

-----------------------------------------------------------------------------
(* One lemma per group of actions: outcomes stay true.                        *)

LEMMA CheckTrue ==
  ASSUME SInv, NEW w \in Workers, NEW v \in Variants, CheckStep(w, v)
  PROVE  (OutcomesFit /\ HoldsTrue /\ OneRevision)'
<1>1. /\ UNCHANGED <<receipts, decision, postVars, calls, post, byPerson>>
      /\ v \notin Locked /\ variant[v].state \in {"scheduled", "processing"}
      /\ Plan[AtRow(variant[v])] = "mutate"
  BY DEF CheckStep, Waited, In, At, AtRow
<1>2. CASE databaseChecks(v) = "pass"
  <2>1. PICK h : /\ Go(w, h) /\ h.pc = "checked" /\ h.seen = variant[v]
    BY <1>2 DEF CheckStep
  <2>2. worker'[w] = h
    BY <2>1, GoesTo
  <2>3. HoldTrue(worker[w])'
    BY <1>1, <2>1, <2>2 DEF HoldTrue
  <2>4. UNCHANGED <<storageVars, postVars, calls, post, byPerson>>
    BY <1>1, <1>2 DEF CheckStep, storageVars
  <2> QED
    BY <2>1, <2>3, <2>4, HoldOutcome
<1>3. CASE databaseChecks(v) # "pass"
  <2>1. worker' = worker /\ Moving(v, "blocked")
    BY <1>3, MovingRow DEF CheckStep
  <2> QED
    BY <1>1, <2>1, StateTypes, OneMoves
<1> QED
  BY <1>2, <1>3

LEMMA ClaimTrue ==
  ASSUME SInv, NEW w \in Workers, ClaimStep(w)
  PROVE  (OutcomesFit /\ HoldsTrue /\ OneRevision)'
<1> DEFINE v == worker[w].v
<1>1. /\ v \in Variants /\ worker[w].pc = "checked"
  BY HoldTypes DEF ClaimStep, SInv, IInv, TypeOK
<1>2. /\ UNCHANGED <<receipts, decision, postVars, calls, post, byPerson>>
      /\ v \notin Locked /\ variant[v].state \in {"scheduled", "processing"}
      /\ variant[v].step = worker[w].seen.step
  BY DEF ClaimStep, Waited, In, sameStep
<1>3. CASE (Moving(v, "outcome-unknown") \/ Moving(v, "blocked")) /\ Go(w, Idle)
  <2>1. \A x \in Workers : worker'[x] = worker[x] \/ worker'[x].pc \in Loose
    BY <1>3, GoesTo DEF Idle, Loose
  <2> HIDE DEF v
  <2> QED
    BY <1>1, <1>2, <1>3, <2>1, LooseTrue, StateTypes, OneMoves
<1>4. CASE /\ ClaimPasses(v) /\ Go(w, [pc |-> "claiming", v |-> v]) /\ UNCHANGED variant
  <2>1. worker'[w] = [pc |-> "claiming", v |-> v]
    BY <1>4, GoesTo
  <2>2. granted'[v[2]]
    BY <1>2, <1>4 DEF ClaimPasses, databaseChecks, postVars
  <2>3. Plan[AtRow(variant'[v])] = "mutate"
    BY <1>1, <1>2, <1>4 DEF SInv, HoldsTrue, HoldTrue, AtRow
  <2>4. HoldTrue(worker[w])'
    BY <2>1, <2>2, <2>3 DEF HoldTrue
  <2>5. UNCHANGED <<storageVars, postVars, calls, post, byPerson>>
    BY <1>2, <1>4 DEF storageVars
  <2> QED
    BY <1>4, <2>4, <2>5, HoldOutcome
<1>5. CASE \/ Move(v, "outcome-unknown", FALSE) /\ Go(w, Idle)
           \/ Block(v, worker[w].ready = "temporary") /\ Go(w, Idle)
           \/ Block(v, databaseChecks(v) = "temporary") /\ Go(w, Idle)
  BY <1>1, <1>3, <1>5, MovingRow
<1> QED
  BY <1>4, <1>5 DEF ClaimStep

LEMMA SendTrue ==
  ASSUME SInv, NEW w \in Workers, SendStep(w)
  PROVE  (OutcomesFit /\ HoldsTrue /\ OneRevision)'
<1>v. PICK v : v = worker[w].v OBVIOUS
<1>r. PICK rs : rs = receipts[v] OBVIOUS
<1>i. PICK i : i = AtRow(variant[v]) OBVIOUS
<1>c. PICK receipt : receipt = [step |-> i, status |-> "executing", class |-> "none"] OBVIOUS
<1>1. /\ v \in Variants /\ worker[w].pc = "claiming" /\ v \in Locked
      /\ variant[v].state \in {"scheduled", "processing"} /\ decision[v[1]] = "approve"
  <2>1. worker[w].pc = "claiming"
    BY DEF SendStep
  <2>2. v \in Locked
    BY <1>v, <2>1 DEF Locked
  <2> QED
    BY <2>1, <2>2, LockedRow DEF SInv
<1>2. /\ RowTyped(variant[v], rs, calls[v], decision[v[1]]) /\ OutcomeOf(v)
      /\ post[v] \in {"none", "processing", "live", "rejected"}
  BY <1>1, <1>r, VariantOf
<1>3. /\ receipts' = [receipts EXCEPT ![v] = Append(rs, receipt)]
      /\ variant'[v].state = "sending"
      /\ \A u \in Variants \ {v} : variant'[u] = variant[u]
      /\ calls' = [calls EXCEPT ![v] = Append(calls[v], "flight")]
      /\ UNCHANGED <<decision, postVars, post, byPerson>>
  BY <1>1, <1>v, <1>r, <1>i, <1>c DEF SendStep, At, AtRow, SInv, IInv, TypeOK, PostTypeOK, StorageTypeOK
<1>k. /\ variant'[v].state = "sending" /\ post' = post /\ byPerson' = byPerson
      /\ decision' = decision /\ \A u \in Variants \ {v} : variant'[u] = variant[u]
  BY <1>3
<1>4. /\ receipts'[v] = Append(rs, receipt) /\ calls'[v] = Append(calls[v], "flight")
      /\ \A u \in Variants \ {v} : receipts'[u] = receipts[u] /\ calls'[u] = calls[u]
  BY <1>1, <1>3 DEF SInv, IInv, TypeOK, PostTypeOK, StorageTypeOK
<1>5. Plan[i] = "mutate"
  BY <1>1, <1>v, <1>i DEF SInv, HoldsTrue, HoldTrue
<1>6. receipt \in Receipt /\ receipt.status = "executing" /\ Plan[receipt.step] = "mutate"
  <2>1. i \in 1 .. Len(Plan)
    BY <1>2, <1>i, PlanFacts DEF RowTyped, Row, AtRow
  <2> QED
    BY <1>5, <1>c, <2>1 DEF Receipt
<1>7. worker'[w].pc = "calling" /\ \A x \in Workers \ {w} : worker'[x] = worker[x]
  BY GoesTo DEF SendStep
<1>8. OutcomeOf(v)'
  <2>1. PICK settled : settled = (v \in byPerson) OBVIOUS
  <2>2. Outcome(variant[v].state, rs, calls[v], post[v], settled, decision[v[1]])
    BY <1>2, <1>r, <2>1 DEF OutcomeOf
  <2>3. Outcome("sending", Append(rs, receipt), Append(calls[v], "flight"), post[v], settled,
                decision[v[1]])
    <3>1. PICK row, rs0, cs, p, choice :
            /\ row = variant[v] /\ rs0 = rs /\ cs = calls[v] /\ p = post[v]
            /\ choice = decision[v[1]]
      OBVIOUS
    <3>2. /\ RowTyped(row, rs0, cs, choice) /\ Outcome(row.state, rs0, cs, p, settled, choice)
          /\ row.state \in {"scheduled", "processing"} /\ choice = "approve"
          /\ p \in {"none", "processing", "live", "rejected"}
      BY <1>1, <1>2, <2>2, <3>1
    <3>3. Outcome("sending", Append(rs0, receipt), Append(cs, "flight"), p, settled, choice)
      BY <1>6, <3>2, SendOutcome
    <3> QED
      BY <3>1, <3>3
  <2> QED
    BY <1>k, <1>4, <2>1, <2>3 DEF OutcomeOf
<1>9. Steady(v)
  <2>1. \A a \in 1 .. Len(rs) : calls'[v][a] = calls[v][a]
    <3>1. Len(rs) \in Nat /\ Len(calls[v]) = Len(rs) /\ calls[v] \in Seq({"flight", "landed", "refused"})
      BY <1>2, ReceiptFacts DEF RowTyped
    <3> QED
      BY <1>4, <3>1
  <2>2. variant[v].state \notin Ended
    BY <1>1 DEF Ended, FinalStates
  <2> QED
    BY <1>1, <1>k, <1>r, <2>1, <2>2 DEF Steady, Lasting
<1>10. \A u \in Variants : Same(u) \/ (OutcomeOf(u)' /\ Steady(u))
  BY <1>k, <1>4, <1>8, <1>9 DEF Same
<1>11. \A x \in Workers :
         \/ HoldTrue(worker[x])'
         \/ /\ worker'[x] = worker[x]
            /\ worker[x].pc = "claiming" => variant'[worker[x].v].step = variant[worker[x].v].step
  <2>1. HoldTrue(worker[w])'
    BY <1>7, LooseTrue DEF Loose
  <2>2. ASSUME NEW x \in Workers \ {w}, worker[x].pc = "claiming"
        PROVE  variant'[worker[x].v].step = variant[worker[x].v].step
    <3>1. worker[x].v # v
      BY <1>1, <1>v, <2>2 DEF SInv, IInv, HoldsFit
    <3>2. worker[x].v \in Variants
      BY <2>2, HoldTypes DEF SInv, IInv, TypeOK
    <3> QED
      BY <1>3, <3>1, <3>2
  <2> QED
    BY <1>7, <2>1, <2>2
<1>12. Recorded /\ current' = current /\ editor' = editor /\ granted' = granted
  BY <1>3 DEF Recorded, postVars
<1> QED
  BY <1>10, <1>11, <1>12, StepOutcome

LEMMA PlatformTrue ==
  ASSUME SInv, NEW v \in Variants, Platform(v)
  PROVE  (OutcomesFit /\ HoldsTrue /\ OneRevision)'
<1>1. /\ RowTyped(variant[v], receipts[v], calls[v], decision[v[1]]) /\ OutcomeOf(v)
      /\ post[v] \in {"none", "processing", "live", "rejected"}
  BY VariantOf
<1>2. /\ UNCHANGED <<storageVars, postVars, worker, byPerson>>
      /\ \A u \in Variants \ {v} : post'[u] = post[u] /\ calls'[u] = calls[u]
  BY DEF Platform, Land, Refuse, PlatformProcesses, SInv, IInv, TypeOK
<1>3. PICK settled : settled = (v \in byPerson) OBVIOUS
<1>4. PICK row, rs, cs, p, choice :
        row = variant[v] /\ rs = receipts[v] /\ cs = calls[v] /\ p = post[v]
        /\ choice = decision[v[1]]
  OBVIOUS
<1>5. /\ RowTyped(row, rs, cs, choice) /\ Outcome(row.state, rs, cs, p, settled, choice)
      /\ p \in {"none", "processing", "live", "rejected"}
  BY <1>1, <1>3, <1>4 DEF OutcomeOf
<1>6. OutcomeOf(v)' /\ Steady(v)
  <2>1. CASE PlatformProcesses(v)
    <3>1. PICK end \in {"live", "rejected"} : post'[v] = end /\ calls' = calls /\ p = "processing"
      BY <1>4, <2>1 DEF PlatformProcesses, SInv, IInv, TypeOK
    <3>2. Outcome(row.state, rs, cs, end, settled, choice)
      BY <1>5, <3>1, ProcessOutcome
    <3>3. ~NoPost(rs, cs, p)
      BY <3>1 DEF NoPost
    <3> QED
      BY <1>2, <1>3, <1>4, <3>1, <3>2, <3>3 DEF OutcomeOf, Steady, Lasting, storageVars
  <2>2. ASSUME NEW a \in 1 .. Len(calls[v]), Land(v, a) \/ Refuse(v, a)
        PROVE  OutcomeOf(v)' /\ Steady(v)
    <3>1. a \in 1 .. Len(rs) /\ cs \in Seq({"flight", "landed", "refused"}) /\ Len(cs) = Len(rs)
      BY <1>4, <1>5, ReceiptFacts DEF RowTyped
    <3>2. PICK end \in {"landed", "refused"} :
            /\ cs[a] = "flight"
            /\ calls'[v] = [cs EXCEPT ![a] = end]
            /\ post'[v] = After(p, rs[a].step, end)
      <4>1. CASE Land(v, a)
        BY <1>4, <4>1 DEF Land, After, SInv, IInv, TypeOK
      <4>2. CASE Refuse(v, a)
        BY <1>4, <4>2 DEF Refuse, After, SInv, IInv, TypeOK
      <4> QED
        BY <2>2, <4>1, <4>2
    <3>3. /\ Outcome(row.state, rs, [cs EXCEPT ![a] = end], After(p, rs[a].step, end), settled, choice)
          /\ p \in {"live", "rejected"} => After(p, rs[a].step, end) = p
          /\ NoPost(rs, cs, p) => NoPost(rs, [cs EXCEPT ![a] = end], After(p, rs[a].step, end))
      <4>2. InFlight(row, rs, cs, p, settled, choice, a, end)
        BY <1>5, <3>1, <3>2 DEF InFlight
      <4> QED
        BY <4>2, CallOutcome
    <3>4. \A b \in 1 .. Len(rs) : cs[b] = "landed" => [cs EXCEPT ![a] = end][b] = "landed"
      BY <3>1, <3>2
    <3> QED
      BY <1>2, <1>3, <1>4, <3>2, <3>3, <3>4 DEF OutcomeOf, Steady, Lasting, storageVars
  <2> QED
    BY <2>1, <2>2 DEF Platform
<1>7. \A u \in Variants : Same(u) \/ (OutcomeOf(u)' /\ Steady(u))
  BY <1>2, <1>6 DEF Same, storageVars
<1>8. /\ Recorded /\ current' = current /\ editor' = editor /\ granted' = granted
      /\ worker' = worker /\ variant' = variant
  BY <1>2 DEF Recorded, postVars, storageVars
<1> QED
  BY <1>7, <1>8, StepOutcome

LEMMA AnswerTrue ==
  ASSUME SInv, NEW w \in Workers, Answer(w)
  PROVE  (OutcomesFit /\ HoldsTrue /\ OneRevision)'
<1> DEFINE c == worker[w]
<1>1. PICK answer \in Answers(c.v, c.attempt, c.step) :
        Go(w, [pc |-> "answered", v |-> c.v, attempt |-> c.attempt, step |-> c.step,
               answer |-> answer])
  BY DEF Answer
<1>2. worker'[w] = [pc |-> "answered", v |-> c.v, attempt |-> c.attempt, step |-> c.step,
                    answer |-> answer]
  BY <1>1, GoesTo
<1>3. answer = "published" => c.step = Len(Plan) /\ calls[c.v][c.attempt] = "landed"
  BY <1>1 DEF Answers
<1>4. calls' = calls /\ UNCHANGED <<storageVars, postVars, calls, post, byPerson>>
  BY DEF Answer
<1>5. HoldTrue(worker[w])'
  BY <1>2, <1>3, <1>4 DEF HoldTrue
<1> QED
  BY <1>1, <1>4, <1>5, HoldOutcome

\* An attempt ends: its receipt closes and its row leaves `sending'.
LEMMA OneEnds ==
  ASSUME SInv, NEW v \in Variants, variant[v].state = "sending", v \notin Locked,
         NEW status \in {"succeeded", "failed", "outcome-unknown"},
         NEW class \in {"none", "retry", "rate-limited"},
         NEW to \in {"processing", "blocked", "published", "failed", "outcome-unknown"},
         status = "failed" => calls[v][Len(receipts[v])] = "refused",
         status = "outcome-unknown" => to = "outcome-unknown",
         to = "failed" => status = "failed",
         to = "published" => post[v] = "live",
         receipts' = Settled(v, variant[v].attempt, status, class),
         variant'[v].state = to, \A u \in Variants \ {v} : variant'[u] = variant[u],
         UNCHANGED <<decision, postVars, calls, post, byPerson>>,
         \A w \in Workers : worker'[w] = worker[w] \/ HoldTrue(worker[w])'
  PROVE  (OutcomesFit /\ HoldsTrue /\ OneRevision)'
<1>1. /\ RowTyped(variant[v], receipts[v], calls[v], decision[v[1]]) /\ OutcomeOf(v)
      /\ post[v] \in {"none", "processing", "live", "rejected"}
  BY VariantOf
<1>2. /\ variant[v].attempt = Len(receipts[v]) /\ Len(receipts[v]) > 0
      /\ receipts[v][Len(receipts[v])].status = "executing"
      /\ receipts \in [Variants -> Seq(Receipt)] /\ receipts[v] \in Seq(Receipt)
  BY <1>1, ReceiptFacts DEF RowTyped, Fits, SInv, IInv, TypeOK, PostTypeOK, StorageTypeOK
<1>3. receipts' = [receipts EXCEPT ![v] = Closed(receipts[v], status, class)]
  BY <1>2 DEF Settled, Closed
<1>4. /\ receipts'[v] = Closed(receipts[v], status, class)
      /\ \A u \in Variants \ {v} : receipts'[u] = receipts[u]
  BY <1>2, <1>3
<1>5. /\ post' = post /\ calls' = calls /\ byPerson' = byPerson /\ decision' = decision
      /\ current' = current /\ editor' = editor /\ granted' = granted
  BY DEF postVars
<1>6. OutcomeOf(v)'
  <2>1. PICK settled : settled = (v \in byPerson) OBVIOUS
  <2>2. PICK row, rs, cs, p, choice :
          row = variant[v] /\ rs = receipts[v] /\ cs = calls[v] /\ p = post[v]
          /\ choice = decision[v[1]]
    OBVIOUS
  <2>3. /\ RowTyped(row, rs, cs, choice) /\ Outcome(row.state, rs, cs, p, settled, choice)
        /\ p \in {"none", "processing", "live", "rejected"} /\ row.state = "sending"
        /\ status = "failed" => cs[Len(rs)] = "refused"
        /\ to = "published" => p = "live"
    BY <1>1, <2>1, <2>2 DEF OutcomeOf
  <2>4. Outcome(to, Closed(rs, status, class), cs, p, settled, choice)
    BY <2>3, SettleOutcome
  <2> QED
    BY <1>4, <1>5, <2>1, <2>2, <2>4 DEF OutcomeOf
<1>7. Steady(v)
  BY <1>5 DEF Steady, Lasting, Ended, FinalStates
<1>8. \A u \in Variants : Same(u) \/ (OutcomeOf(u)' /\ Steady(u))
  BY <1>4, <1>5, <1>6, <1>7 DEF Same
<1>9. \A w \in Workers :
        \/ HoldTrue(worker[w])'
        \/ /\ worker'[w] = worker[w]
           /\ worker[w].pc = "claiming" => variant'[worker[w].v].step = variant[worker[w].v].step
  <2>1. SUFFICES ASSUME NEW w \in Workers, worker'[w] = worker[w], worker[w].pc = "claiming"
                 PROVE  variant'[worker[w].v].step = variant[worker[w].v].step
    OBVIOUS
  <2>2. worker[w].v \in Locked
    BY <2>1 DEF Locked
  <2>3. worker[w].v \in Variants \ {v}
    BY <2>2, LockedRow DEF SInv
  <2> QED
    BY <2>3
<1>10. Recorded
  BY <1>5 DEF Recorded
<1> QED
  BY <1>5, <1>8, <1>9, <1>10, StepOutcome

LEMMA SettlingTrue ==
  ASSUME SInv, NEW w \in Workers, NEW answers, Settling(w, answers),
         NEW status \in {"succeeded", "failed", "outcome-unknown"},
         NEW class \in {"none", "retry", "rate-limited"},
         NEW to \in {"processing", "blocked", "published", "failed", "outcome-unknown"},
         status = "failed" => worker[w].answer \in Refusals,
         status = "outcome-unknown" => to = "outcome-unknown",
         to = "failed" => status = "failed",
         to = "published" => worker[w].answer = "published",
         receipts' = Settled(worker[w].v, worker[w].attempt, status, class),
         NEW step, NEW due, NEW recheck,
         variant' = [variant EXCEPT ![worker[w].v] = Moved(@, to, step, due, recheck)]
  PROVE  (OutcomesFit /\ HoldsTrue /\ OneRevision)'
<1>0. PICK v : v = worker[w].v OBVIOUS
<1>1. /\ v \in Variants /\ v \notin Locked /\ variant[v].state = "sending"
      /\ status = "failed" => calls[v][Len(receipts[v])] = "refused"
      /\ worker[w].attempt = variant[v].attempt
      /\ UNCHANGED <<decision, postVars, calls, post, byPerson>>
  BY <1>0, SettlingFacts DEF SInv
<1>2. /\ variant'[v].state = to
      /\ \A u \in Variants \ {v} : variant'[u] = variant[u]
  BY <1>0, <1>1 DEF SInv, IInv, TypeOK, PostTypeOK, StorageTypeOK, Moved
<1>3. receipts' = Settled(v, variant[v].attempt, status, class)
  BY <1>0, <1>1
<1>4. \A x \in Workers : worker'[x] = worker[x] \/ HoldTrue(worker[x])'
  <2>1. Go(w, Idle)
    BY DEF Settling
  <2>2. worker'[w].pc \in Loose /\ \A x \in Workers \ {w} : worker'[x] = worker[x]
    BY <2>1, GoesTo DEF Idle, Loose
  <2> QED
    BY <2>2, LooseTrue
<1>5. to = "published" => post[v] = "live"
  <2>1. SUFFICES ASSUME to = "published" PROVE post[v] = "live"
    OBVIOUS
  <2>2. /\ worker[w].pc = "answered" /\ worker[w].answer = "published"
        /\ HoldTrue(worker[w]) /\ HoldFits(worker[w])
    BY <2>1 DEF Settling, SInv, HoldsTrue, IInv, HoldsFit
  <2>3. worker[w].step = Len(Plan) /\ calls[v][worker[w].attempt] = "landed"
    BY <1>0, <2>2 DEF HoldTrue
  <2>4. /\ worker[w].attempt =< Len(receipts[v])
        /\ worker[w].step = receipts[v][worker[w].attempt].step
    BY <1>0, <2>2 DEF HoldFits
  <2>5. worker[w].attempt \in 1 .. MaxAttempts
    BY <2>2, HoldTypes DEF SInv, IInv, TypeOK
  <2>6. PICK a \in 1 .. Len(receipts[v]) : a = worker[w].attempt
    BY <1>1, <2>4, <2>5, VariantTypes, PlanFacts DEF SInv, IInv
  <2> QED
    BY <1>1, <2>3, <2>4, <2>6, PublishedLive, VariantOf
<1> QED
  BY <1>1, <1>2, <1>3, <1>4, <1>5, OneEnds, ZenonT(60)

LEMMA SettleTrue ==
  ASSUME SInv, NEW w \in Workers,
         \/ SettleDone(w) \/ SettlePublished(w) \/ SettleRejected(w) \/ SettleRefused(w)
         \/ SettleBefore(w) \/ SettleAfter(w)
  PROVE  (OutcomesFit /\ HoldsTrue /\ OneRevision)'
<1> DEFINE v == worker[w].v
           i == variant[v].step
           M(to, step, due, recheck) ==
             variant' = [variant EXCEPT ![v] = Moved(@, to, step, due, recheck)]
           S(status, class) == receipts' = Settled(v, worker[w].attempt, status, class)
<1>1. \A answers : Settling(w, answers) => worker[w].answer \in answers
  BY DEF Settling
<1>2. {"rejected", "rate-limited", "reconnect", "media-unavailable", "before"} = Refusals
  BY DEF Refusals
<1>3. CASE SettleDone(w)
  <2>1. CASE i < Len(Plan)
    <3>1. Settling(w, {"done"}) /\ S("succeeded", "none") /\ M("processing", i + 1, TRUE, FALSE)
      BY <1>3, <2>1 DEF SettleDone
    <3> QED
      BY <3>1, SettlingTrue
  <2>2. CASE ~(i < Len(Plan))
    <3>1. /\ Settling(w, {"done"}) /\ S("succeeded", "none")
          /\ M("outcome-unknown", i, FALSE, FALSE)
      BY <1>3, <2>2 DEF SettleDone, Move
    <3> QED
      BY <3>1, SettlingTrue
  <2> QED
    BY <2>1, <2>2
<1>4. CASE SettlePublished(w)
  <2>1. Settling(w, {"published"}) /\ S("succeeded", "none") /\ M("published", i, FALSE, FALSE)
    BY <1>4 DEF SettlePublished, Move
  <2> QED
    BY <1>1, <2>1, SettlingTrue
<1>5. CASE SettleRejected(w)
  <2>1. Settling(w, {"rejected"}) /\ S("failed", "none") /\ M("failed", i, FALSE, FALSE)
    BY <1>5 DEF SettleRejected, Move
  <2> QED
    BY <1>1, <1>2, <2>1, SettlingTrue
<1>6. CASE SettleRefused(w)
  <2>1. PICK class \in {"rate-limited", "retry"}, recheck \in BOOLEAN :
          /\ Settling(w, {"rate-limited", "reconnect", "media-unavailable"})
          /\ S("failed", class) /\ M("blocked", i, FALSE, recheck)
    BY <1>6 DEF SettleRefused
  <2>2. worker[w].answer \in Refusals
    BY <1>1, <1>2, <2>1
  <2> QED
    BY <2>1, <2>2, SettlingTrue
<1>7. CASE SettleBefore(w)
  <2>1. PICK to \in {"failed", "processing"} :
          Settling(w, {"before"}) /\ S("failed", "retry") /\ M(to, i, FALSE, FALSE)
    BY <1>7 DEF SettleBefore, Move
  <2>2. worker[w].answer \in Refusals
    BY <1>1, <1>2, <2>1
  <2> QED
    BY <2>1, <2>2, SettlingTrue
<1>8. CASE SettleAfter(w)
  <2>1. /\ Settling(w, {"after"}) /\ S("outcome-unknown", "none")
        /\ M("outcome-unknown", i, FALSE, FALSE)
    BY <1>8 DEF SettleAfter, Move
  <2> QED
    BY <2>1, SettlingTrue
<1> QED
  BY <1>3, <1>4, <1>5, <1>6, <1>7, <1>8

LEMMA LateTrue ==
  ASSUME SInv, NEW w \in Workers, SettleLate(w)
  PROVE  (OutcomesFit /\ HoldsTrue /\ OneRevision)'
<1>0. PICK v : v = worker[w].v OBVIOUS
<1>1. /\ v \in Variants /\ v \notin Locked /\ Go(w, Idle) /\ worker[w].pc = "answered"
      /\ UNCHANGED <<receipts, decision, postVars, calls, post, byPerson>>
  BY <1>0, HoldTypes DEF SettleLate, SInv, IInv, TypeOK
<1>2. worker'[w].pc \in Loose /\ \A x \in Workers \ {w} : worker'[x] = worker[x]
  BY <1>1, GoesTo DEF Idle, Loose
<1>3. CASE /\ variant[v].state = "outcome-unknown" /\ worker[w].answer = "published"
           /\ Move(v, "published", FALSE)
  <2>1. HoldTrue(worker[w]) /\ HoldFits(worker[w]) /\ worker[w] \in WorkerStates
    BY DEF SInv, HoldsTrue, IInv, HoldsFit, TypeOK
  <2>2. worker[w].attempt \in 1 .. MaxAttempts /\ worker[w].attempt =< Len(receipts[v])
    BY <1>0, <1>1, <2>1, HoldTypes DEF HoldFits
  <2>3. PICK a \in 1 .. Len(receipts[v]) : a = worker[w].attempt
    BY <1>1, <2>2, VariantTypes, PlanFacts DEF SInv, IInv
  <2>4. receipts[v][a].step = Len(Plan) /\ calls[v][a] = "landed"
    BY <1>0, <1>1, <1>3, <2>1, <2>3 DEF HoldTrue, HoldFits
  <2>5. post[v] = "live"
    BY <1>1, <2>4, PublishedLive
  <2>6. Moving(v, "published")
    BY <1>1, <1>3, MovingRow
  <2>7. \A x \in Workers : worker'[x] = worker[x] \/ HoldTrue(worker[x])'
    BY <1>2, LooseTrue
  <2> QED
    BY <1>1, <1>3, <2>5, <2>6, <2>7, StateTypes, OneMoves
<1>4. CASE UNCHANGED variant
  <2>1. UNCHANGED <<storageVars, postVars, calls, post, byPerson>>
    BY <1>1, <1>4 DEF storageVars
  <2> QED
    BY <1>1, <1>2, <2>1, LooseTrue, HoldOutcome
<1> QED
  BY <1>0, <1>3, <1>4 DEF SettleLate, In

LEMMA PollTrue ==
  ASSUME SInv, NEW w \in Workers,
         (\E v \in Variants : PollLease(w, v)) \/ PollRead(w) \/ PollSettle(w)
  PROVE  (OutcomesFit /\ HoldsTrue /\ OneRevision)'
<1>1. CASE \E v \in Variants : PollLease(w, v)
  <2>1. PICK v \in Variants : PollLease(w, v)
    BY <1>1
  <2>2. /\ v \notin Locked /\ variant[v].state = "processing"
        /\ UNCHANGED <<receipts, decision, postVars, calls, post, byPerson>>
    BY <2>1 DEF PollLease, Waited, In
  <2>3. PICK to \in {"outcome-unknown", "processing"} : Moving(v, to)
    BY <2>1, MovingRow DEF PollLease
  <2>4. \A x \in Workers : worker'[x] = worker[x] \/ worker'[x].pc \in Loose
    <3>1. CASE UNCHANGED worker
      BY <3>1
    <3>2. CASE Go(w, [pc |-> "polling", v |-> v, seen |-> variant[v]])
      BY <3>2, GoesTo DEF Loose
    <3> QED
      BY <2>1, <3>1, <3>2 DEF PollLease
  <2> QED
    BY <2>2, <2>3, <2>4, LooseTrue, StateTypes, OneMoves
<1>2. CASE PollRead(w)
  <2>1. PICK status \in Statuses(worker[w].v, worker[w].seen.step) :
          Go(w, [pc |-> "polled", v |-> worker[w].v, seen |-> worker[w].seen,
                 status |-> status])
    BY <1>2 DEF PollRead
  <2>2. worker'[w] = [pc |-> "polled", v |-> worker[w].v, seen |-> worker[w].seen,
                      status |-> status]
    BY <2>1, GoesTo
  <2>3. /\ status = "published" => post[worker[w].v] = "live"
        /\ status = "failed" =>
             \/ \E j \in worker[w].seen.step + 1 .. Len(Plan) : Plan[j] = "mutate"
             \/ post[worker[w].v] = "rejected"
    BY <2>1 DEF Statuses
  <2>4. UNCHANGED <<storageVars, postVars, calls, post, byPerson>>
    BY <1>2 DEF PollRead
  <2>5. HoldTrue(worker[w])'
    BY <2>2, <2>3, <2>4 DEF HoldTrue
  <2> QED
    BY <2>1, <2>4, <2>5, HoldOutcome
<1>3. CASE PollSettle(w)
  <2>0. PICK v : v = worker[w].v OBVIOUS
  <2>1. /\ v \in Variants /\ v \notin Locked /\ variant[v].state = "processing"
        /\ variant[v].step = worker[w].seen.step /\ worker[w].pc = "polled"
        /\ UNCHANGED <<receipts, decision, postVars, calls, post, byPerson>>
        /\ Go(w, Idle)
    BY <1>3, <2>0, HoldTypes DEF PollSettle, PollIsCurrent, In, SInv, IInv, TypeOK
  <2>2. \A x \in Workers : worker'[x] = worker[x] \/ HoldTrue(worker[x])'
    <3>1. worker'[w].pc \in Loose /\ \A x \in Workers \ {w} : worker'[x] = worker[x]
      BY <2>1, GoesTo DEF Idle, Loose
    <3> QED
      BY <3>1, LooseTrue
  <2>3. HoldTrue(worker[w])
    BY DEF SInv, HoldsTrue
  <2>4. CASE Moving(v, "processing") \/ Moving(v, "outcome-unknown") \/ Moving(v, "blocked")
    BY <2>1, <2>2, <2>4, StateTypes, OneMoves
  <2>5. CASE worker[w].status = "published" /\ Moving(v, "published")
    <3>1. post[v] = "live"
      BY <2>0, <2>1, <2>3, <2>5 DEF HoldTrue
    <3> QED
      BY <2>1, <2>2, <2>5, <3>1, StateTypes, OneMoves
  <2>6. CASE worker[w].status = "failed" /\ Moving(v, "failed")
    <3>1. \/ \E j \in variant[v].step + 1 .. Len(Plan) : Plan[j] = "mutate"
          \/ post[v] = "rejected"
      BY <2>0, <2>1, <2>3, <2>6 DEF HoldTrue
    <3>2. NoPost(receipts[v], calls[v], post[v])
      BY <2>1, <3>1, PolledGone
    <3> QED
      BY <2>1, <2>2, <2>6, <3>2, StateTypes, OneMoves
  <2>7. CASE variant' = [variant EXCEPT ![v] = Moved(@, @.state, variant[v].step + 1, TRUE, FALSE)]
    <3>1. /\ variant'[v].state = variant[v].state
          /\ \A u \in Variants \ {v} : variant'[u] = variant[u]
      BY <2>1, <2>7 DEF SInv, IInv, TypeOK, PostTypeOK, StorageTypeOK, Moved
    <3>2. decision[v[1]] = "approve"
      BY <2>1 DEF SInv, IInv, RowsFit, Fits, Waiting
    <3>3. Moving(v, "processing")
      BY <2>1, <3>1, <3>2 DEF Moving, Writable, OpenStates
    <3> QED
      BY <2>4, <3>3
  <2> QED
    BY <1>3, <2>0, <2>1, <2>4, <2>5, <2>6, <2>7, MovingRow DEF PollSettle
<1> QED
  BY <1>1, <1>2, <1>3

LEMMA ReconcileTrue ==
  ASSUME SInv, NEW w \in Workers,
         (\E v \in Variants : ReconcileLease(w, v)) \/ ReconcileRead(w) \/ ReconcileSettle(w)
  PROVE  (OutcomesFit /\ HoldsTrue /\ OneRevision)'
<1>1. CASE \E v \in Variants : ReconcileLease(w, v)
  <2>1. PICK v \in Variants : ReconcileLease(w, v)
    BY <1>1
  <2>2. /\ v \notin Locked /\ variant[v].state = "outcome-unknown"
        /\ UNCHANGED <<receipts, decision, postVars, calls, post, byPerson>>
        /\ Moving(v, "outcome-unknown")
    BY <2>1, MovingRow DEF ReconcileLease, Waited, In
  <2>3. /\ worker'[w].pc = "reconciling" /\ worker'[w].v = v
        /\ \A x \in Workers \ {w} : worker'[x] = worker[x]
    BY <2>1, GoesTo DEF ReconcileLease
  <2>4. HoldTrue(worker[w])'
    BY <2>2, <2>3 DEF HoldTrue, Moving, Ended
  <2> QED
    BY <2>2, <2>3, <2>4, StateTypes, OneMoves
<1>2. CASE ReconcileRead(w)
  <2>0. PICK v : v = worker[w].v OBVIOUS
  <2>1. PICK result \in Evidence(v) :
          Go(w, [pc |-> "reconciled", v |-> v, seen |-> worker[w].seen, result |-> result])
    BY <1>2, <2>0 DEF ReconcileRead
  <2>2. worker'[w] = [pc |-> "reconciled", v |-> v, seen |-> worker[w].seen, result |-> result]
    BY <2>1, GoesTo
  <2>3. UNCHANGED <<storageVars, postVars, calls, post, byPerson>>
    BY <1>2 DEF ReconcileRead
  <2>4. v \in Variants /\ variant[v].state \in Ended
    BY <1>2, <2>0, HoldTypes DEF ReconcileRead, SInv, HoldsTrue, HoldTrue, IInv, TypeOK
  <2>5. IF result = "found" THEN post[v] = "live" ELSE NoPost(receipts[v], calls[v], post[v])
    <3>1. CASE post[v] = "live"
      BY <2>1, <3>1 DEF Evidence
    <3>2. CASE post[v] # "live"
      <4>1. /\ result = "absent" /\ post[v] # "processing"
            /\ \A a \in 1 .. Len(calls[v]) : calls[v][a] # "flight"
        BY <2>1, <3>2 DEF Evidence
      <4>2. Len(calls[v]) = Len(receipts[v]) /\ post[v] \in {"none", "processing", "live", "rejected"}
        BY <2>4, VariantOf, ReceiptFacts
      <4> QED
        BY <3>2, <4>1, <4>2 DEF NoPost
    <3> QED
      BY <3>1, <3>2
  <2>6. HoldTrue(worker[w])'
    BY <2>2, <2>3, <2>4, <2>5 DEF HoldTrue, storageVars
  <2> QED
    BY <2>1, <2>3, <2>6, HoldOutcome
<1>3. CASE ReconcileSettle(w)
  <2>0. PICK v : v = worker[w].v OBVIOUS
  <2>1. /\ v \in Variants /\ v \notin Locked /\ variant[v].state = "outcome-unknown"
        /\ worker[w].pc = "reconciled"
        /\ UNCHANGED <<receipts, decision, postVars, calls, post, byPerson>>
        /\ Go(w, Idle)
    BY <1>3, <2>0, HoldTypes DEF ReconcileSettle, In, SInv, IInv, TypeOK
  <2>2. PICK to \in {"published", "not-published"} :
          Moving(v, to) /\ (to = "published" <=> worker[w].result = "found")
    BY <1>3, <2>0, <2>1, MovingRow DEF ReconcileSettle
  <2>3. /\ to = "published" => post[v] = "live"
        /\ to = "not-published" => NoPost(receipts[v], calls[v], post[v])
    BY <2>0, <2>1, <2>2 DEF SInv, HoldsTrue, HoldTrue
  <2>4. \A x \in Workers : worker'[x] = worker[x] \/ HoldTrue(worker[x])'
    <3>1. worker'[w].pc \in Loose /\ \A x \in Workers \ {w} : worker'[x] = worker[x]
      BY <2>1, GoesTo DEF Idle, Loose
    <3> QED
      BY <3>1, LooseTrue
  <2> QED
    BY <2>1, <2>2, <2>3, <2>4, StateTypes, OneMoves
<1> QED
  BY <1>1, <1>2, <1>3


LEMMA StopTrue ==
  ASSUME SInv, NEW w \in Workers, WorkerStops(w)
  PROVE  (OutcomesFit /\ HoldsTrue /\ OneRevision)'
<1>1. Go(w, Idle) /\ UNCHANGED <<storageVars, postVars, calls, post, byPerson>>
  BY DEF WorkerStops
<1>2. HoldTrue(worker[w])'
  BY <1>1, GoesTo, LooseTrue DEF Idle, Loose
<1> QED
  BY <1>1, <1>2, HoldOutcome

LEMMA SweepTrue ==
  ASSUME SInv, NEW v \in Variants, Sweeps(v)
  PROVE  (OutcomesFit /\ HoldsTrue /\ OneRevision)'
<1>0. UNCHANGED <<decision, postVars, worker, calls, post, byPerson>>
  BY DEF Sweeps, ExpireUndecided, CancelBlocked, Recheck, ExpireLease, Swept
<1>1. CASE ExpireUndecided(v)
  <2>1. /\ variant[v].state \in {"draft", "awaiting-approval"} /\ receipts' = receipts
        /\ Moving(v, "cancelled")
    BY <1>1, MovingRow DEF ExpireUndecided, In
  <2>2. v \notin Locked
    BY <2>1, LockedRow DEF SInv
  <2> QED
    BY <1>0, <2>1, <2>2, StateTypes, OneMoves
<1>2. CASE CancelBlocked(v)
  <2>1. /\ variant[v].state = "blocked" /\ receipts' = receipts /\ v \notin Locked
        /\ Moving(v, "cancelled")
    BY <1>2, MovingRow DEF CancelBlocked, In
  <2> QED
    BY <1>0, <2>1, StateTypes, OneMoves
<1>3. CASE Recheck(v)
  <2>1. /\ variant[v].state = "blocked" /\ receipts' = receipts /\ v \notin Locked
        /\ Moving(v, "processing") \/ Moving(v, "scheduled")
    BY <1>3, MovingRow DEF Recheck, Waited, In, Resumed
  <2> QED
    BY <1>0, <2>1, StateTypes, OneMoves
<1>4. CASE ExpireLease(v)
  <2>1. /\ variant[v].state = "sending" /\ v \notin Locked
        /\ receipts' = Settled(v, variant[v].attempt, "outcome-unknown", "none")
        /\ Moving(v, "outcome-unknown")
    BY <1>4, MovingRow DEF ExpireLease, Waited, In
  <2> QED
    BY <1>0, <2>1, OneEnds DEF Moving
<1> QED
  BY <1>1, <1>2, <1>3, <1>4 DEF Sweeps

LEMMA CommandTrue ==
  ASSUME SInv, NEW v \in Variants, Resume(v) \/ Cancel(v) \/ Settle(v)
  PROVE  (OutcomesFit /\ HoldsTrue /\ OneRevision)'
<1>0. /\ UNCHANGED <<receipts, decision, postVars, worker, calls, post>> /\ v \notin Locked
      /\ variant[v].state # "sending"
  BY DEF Resume, Cancel, Settle, Swept, In
<1>1. CASE Resume(v)
  <2>1. byPerson' = byPerson
    BY <1>1 DEF Resume, Swept
  <2>2. Moving(v, "blocked") \/ Moving(v, "processing") \/ Moving(v, "scheduled")
    BY <1>1, MovingRow DEF Resume, Resumed
  <2> QED
    BY <1>0, <2>1, <2>2, StateTypes, OneMoves
<1>2. CASE Cancel(v)
  <2>1. byPerson' = byPerson /\ Moving(v, "cancelled")
    BY <1>2, MovingRow DEF Cancel, Swept
  <2> QED
    BY <1>0, <2>1, StateTypes, OneMoves
<1>3. CASE Settle(v)
  <2>1. byPerson' = byPerson \cup {v} /\ (Moving(v, "published") \/ Moving(v, "not-published"))
    BY <1>3, MovingRow DEF Settle
  <2> QED
    BY <1>0, <2>1, StateTypes, OneMoves
<1> QED
  BY <1>1, <1>2, <1>3

LEMMA TimeTrue ==
  ASSUME SInv, NEW v \in Variants, TimeComes(v)
  PROVE  (OutcomesFit /\ HoldsTrue /\ OneRevision)'
<1>1. /\ variant'[v].state = variant[v].state /\ variant'[v].step = variant[v].step
      /\ \A u \in Variants \ {v} : variant'[u] = variant[u]
      /\ UNCHANGED <<receipts, decision, postVars, worker, calls, post, byPerson>>
  BY DEF TimeComes, Moved, SInv, IInv, TypeOK, PostTypeOK, StorageTypeOK
<1>2. \A u \in Variants : Same(u)
  BY <1>1 DEF Same
<1>3. \A w \in Workers : worker[w].pc = "claiming" => worker[w].v \in Variants
  BY HoldTypes DEF SInv, IInv, TypeOK
<1>4. \A u \in Variants : variant'[u].step = variant[u].step
  BY <1>1
<1>5. Recorded /\ current' = current /\ editor' = editor /\ granted' = granted
  BY <1>1 DEF Recorded, postVars
<1> QED
  BY <1>1, <1>2, <1>3, <1>4, <1>5, StepOutcome

\* The grant changes while no claim is between its checks and its writes.
LEMMA GrantTrue ==
  ASSUME SInv, NEW c \in Channels, ChangeGrant(c)
  PROVE  (OutcomesFit /\ HoldsTrue /\ OneRevision)'
<1>1. /\ Locked = {}
      /\ UNCHANGED <<storageVars, current, editor, decider, worker, calls, post, byPerson>>
  BY DEF ChangeGrant
<1>2. Recorded /\ \A u \in Variants : Same(u)
  BY <1>1 DEF Recorded, Same, storageVars
<1>3. \A u \in Variants : OutcomeOf(u)' /\ Steady(u)
  BY <1>2, SameOutcome
<1>4. \A w \in Workers : worker[w].pc # "claiming"
  BY <1>1 DEF Locked
<1>5. \A w \in Workers : HoldTrue(worker[w])'
  BY <1>1, <1>3, <1>4, StillTrue DEF Steady
<1>6. OneRevision'
  BY <1>1, <1>3, StillOne
<1> QED
  BY <1>3, <1>5, <1>6 DEF OutcomesFit, OutcomeOf, HoldsTrue

LEMMA WriteTrue ==
  ASSUME SInv, NEW valid \in BOOLEAN, ReviseWrite(Locked, valid),
         UNCHANGED <<worker, calls, post, byPerson>>
  PROVE  (OutcomesFit /\ HoldsTrue /\ OneRevision)'
<1> DEFINE rows == {row[1] : row \in editor.rows}
           copies == {<<current + 1, v[2]>> : v \in rows}
<1>1. /\ editor # NoEdit /\ editor.revision = current /\ current < MaxRevision
      /\ editor.rows \subseteq Variants \X Supersedable
      /\ \A row \in editor.rows : row[1][1] = current
  BY DEF ReviseWrite, NoEdit, SInv, OneRevision, IInv, EditFits, TypeOK, PostTypeOK
<1>2. rows \subseteq Variants /\ \A v \in rows : v[1] = current
  BY <1>1
<1>3. current \in Nat /\ current + 1 \in Revisions /\ current + 1 > current
  BY <1>1, PlanFacts DEF SInv, IInv, TypeOK, PostTypeOK, Revisions
<1>4. copies \subseteq Variants /\ \A u \in copies : u[1] = current + 1
  BY <1>2, <1>3 DEF Variants
<1>5. \A u \in copies : \E v \in rows : v[2] = u[2]
  OBVIOUS
<1>6. \A u \in copies : variant[u].state = "unwritten"
  BY <1>3, <1>4 DEF SInv, IInv, EditFits
<1>7. \A v \in rows : Writable(v, "superseded") /\ v \notin Locked
  BY DEF ReviseWrite
<1>8. /\ \A v \in Variants :
           /\ v \in rows => variant'[v].state = "superseded"
           /\ v \in copies \ rows => variant'[v].state \in {"draft", "awaiting-approval"}
           /\ v \notin rows \cup copies => variant'[v] = variant[v]
      /\ current' = current + 1 /\ editor' = NoEdit
      /\ UNCHANGED <<receipts, decision, decider, granted>>
  BY DEF ReviseWrite, Moved, NewRow
<1> HIDE DEF rows, copies
<1>9. \A v \in rows : /\ variant[v].state \in Supersedable
                      /\ OutcomeOf(v)' /\ Steady(v)
  <2>1. SUFFICES ASSUME NEW v \in rows
                 PROVE  variant[v].state \in Supersedable /\ OutcomeOf(v)' /\ Steady(v)
    OBVIOUS
  <2>2. variant[v].state \in Supersedable /\ v \in Variants
    BY <1>2, <1>7, <2>1 DEF Writable, TriggerAllows, OpenStates
  <2>3. variant[v].state # "sending"
    BY <2>2 DEF Supersedable
  <2>4. "superseded" \in States \ {"sending", "unwritten"}
    BY DEF States, FinalStates
  <2> QED
    BY <1>7, <1>8, <2>1, <2>2, <2>3, <2>4, RowMoves
<1>10. ASSUME NEW u \in copies PROVE u \notin rows /\ OutcomeOf(u)'
  <2>1. u \in Variants /\ variant[u].state = "unwritten" /\ u \notin rows
    BY <1>4, <1>6, <1>9, <1>10 DEF Supersedable
  <2>2. /\ RowTyped(variant[u], receipts[u], calls[u], decision[u[1]]) /\ OutcomeOf(u)
        /\ variant'[u].state \in {"draft", "awaiting-approval"}
    BY <1>8, <1>10, <2>1, VariantOf
  <2>3. Len(receipts[u]) = 0
    BY <2>1, <2>2 DEF RowTyped, Fits
  <2> QED
    BY <1>8, <2>1, <2>2, <2>3 DEF OutcomeOf, Outcome, Gone
<1>11. \A v \in Variants \ (rows \cup copies) : Same(v)
  BY <1>8 DEF Same
<1>12. Recorded
  BY <1>8 DEF Recorded
<1>13. \A v \in Variants \ copies : OutcomeOf(v)' /\ Steady(v)
  BY <1>9, <1>11, <1>12, SameOutcome
<1>14. \A v \in Variants : Lasting(v)
  <2>1. \A u \in copies : Lasting(u)
    BY <1>6, <1>8 DEF Lasting, Ended, FinalStates
  <2> QED
    BY <1>13, <2>1 DEF Steady
<1>15. \A w \in Workers : HoldTrue(worker[w])'
  <2>1. SUFFICES ASSUME NEW w \in Workers PROVE HoldTrue(worker[w])'
    OBVIOUS
  <2>2. worker[w].pc = "claiming" => variant'[worker[w].v].step = variant[worker[w].v].step
    <3>1. SUFFICES ASSUME worker[w].pc = "claiming"
                   PROVE  variant'[worker[w].v].step = variant[worker[w].v].step
      OBVIOUS
    <3>2. worker[w].v \in Locked
      BY <3>1 DEF Locked
    <3>3. worker[w].v \in Variants /\ worker[w].v \notin rows \cup copies
      BY <1>6, <1>7, <3>2, LockedRow DEF SInv
    <3> QED
      BY <1>8, <3>3
  <2> QED
    BY <1>8, <1>14, <2>2, StillTrue
<1>16. OneRevision'
  <2>1. SUFFICES ASSUME NEW v \in Variants, NEW u \in Variants, v[2] = u[2], v[1] < u[1],
                        variant'[u].state # "unwritten"
                 PROVE  variant'[v].state = "superseded"
    BY <1>8 DEF OneRevision
  <2>2. v[1] \in Nat /\ u[1] \in Nat
    BY VariantTypes DEF SInv, IInv
  <2>3. \A x \in Variants : variant[x].state = "superseded" => variant'[x].state = "superseded"
    BY <1>6, <1>8
  <2>4. CASE u \notin copies
    <3>1. variant[u].state # "unwritten"
      BY <1>8, <1>9, <2>1, <2>4 DEF Supersedable
    <3> QED
      BY <2>1, <2>3, <3>1 DEF SInv, OneRevision
  <2>5. CASE u \in copies
    <3>1. PICK x \in rows : x[2] = u[2]
      BY <1>5, <2>5
    <3>2. x \in Variants /\ x[1] = current /\ variant[x].state # "unwritten"
      BY <1>2, <1>9, <3>1 DEF Supersedable
    <3>3. u[1] = current + 1
      BY <1>4, <2>5
    <3>4. CASE v[1] = current
      <4>1. v = x
        BY <2>1, <3>1, <3>2, <3>4 DEF Variants
      <4> QED
        BY <1>8, <3>1, <4>1
    <3>5. CASE v[1] # current
      <4>1. v[1] < x[1] /\ v[2] = x[2]
        BY <1>3, <2>1, <2>2, <3>1, <3>2, <3>3, <3>5
      <4> QED
        BY <2>3, <3>2, <4>1 DEF SInv, OneRevision
    <3> QED
      BY <3>4, <3>5
  <2> QED
    BY <2>4, <2>5
<1> QED
  BY <1>10, <1>13, <1>15, <1>16 DEF OutcomesFit, OutcomeOf, HoldsTrue

LEMMA EditTrue ==
  ASSUME SInv, Edits
  PROVE  (OutcomesFit /\ HoldsTrue /\ OneRevision)'
<1>1. CASE ReviseRead \/ ReviseRecheck \/ ReviseFails
  <2>1. UNCHANGED <<storageVars, current, decider, granted, worker, calls, post, byPerson>>
    BY <1>1 DEF Edits, ReviseRead, ReviseRecheck, ReviseFails, ReviseWrite
  <2>2. Recorded /\ \A u \in Variants : Same(u)
    BY <2>1 DEF Recorded, Same, storageVars
  <2>3. \A u \in Variants : OutcomeOf(u)' /\ Steady(u)
    BY <2>2, SameOutcome
  <2>4. \A w \in Workers : HoldTrue(worker[w])'
    BY <2>1, <2>3, StillTrue DEF Steady, storageVars
  <2>5. editor' # NoEdit => \A row \in editor'.rows : row[1][1] = current
    <3>1. CASE ReviseRead
      <4>1. \A row \in Seen(Editable) : row[1][1] = current
        BY DEF Seen, Editable, RowsOf
      <4> QED
        BY <3>1, <4>1 DEF ReviseRead
    <3>2. CASE ReviseRecheck
      <4>1. editor # NoEdit /\ editor' = [editor EXCEPT !.pc = "locked"]
        BY <3>2 DEF ReviseRecheck, NoEdit
      <4>2. editor'.rows = editor.rows
        BY <4>1 DEF SInv, IInv, TypeOK, PostTypeOK
      <4> QED
        BY <4>1, <4>2 DEF SInv, OneRevision
    <3>3. CASE ReviseFails
      BY <3>3 DEF ReviseFails
    <3> QED
      BY <1>1, <3>1, <3>2, <3>3
  <2>6. OneRevision'
    BY <2>1, <2>5 DEF SInv, OneRevision, storageVars
  <2> QED
    BY <2>3, <2>4, <2>6 DEF OutcomesFit, OutcomeOf, HoldsTrue
<1>2. CASE \E valid \in BOOLEAN : ReviseWrite(Locked, valid)
  BY <1>2, WriteTrue DEF Edits
<1> QED
  BY <1>1, <1>2 DEF Edits

LEMMA DecideTrue ==
  ASSUME SInv, Decides
  PROVE  (OutcomesFit /\ HoldsTrue /\ OneRevision)'
<1>1. /\ UNCHANGED <<worker, calls, post, byPerson>>
      /\ UNCHANGED <<receipts, current, editor, granted>>
  BY DEF Decides, DecideCheck, DecideConfirm, DecideInsert, DecideApply, DecideStops, storageVars
<1>2. Recorded
  BY DEF Decides, DecideCheck, DecideConfirm, DecideInsert, DecideApply, DecideStops, storageVars,
     Recorded, SInv, IInv, TypeOK, PostTypeOK, StorageTypeOK
<1>3. PICK d \in Deciders :
        \/ \E choice \in {"approve", "reject"} : DecideCheck(d, choice)
        \/ DecideConfirm(d) \/ DecideInsert(d) \/ DecideApply(d) \/ DecideStops(d)
  BY DEF Decides
<1>4. CASE variant' = variant
  BY <1>1, <1>2, <1>4, StepOutcome DEF Same
<1>5. CASE DecideApply(d) /\ variant' # variant
  <2> DEFINE r == decider[d].revision
             to(v) == Applied(r, decision[r], v)
  <2>1. /\ \A v \in Variants : to(v) # variant[v].state => Writable(v, to(v))
        /\ \A v \in Variants : variant'[v].state = to(v) /\ variant'[v].step = variant[v].step
        /\ decision' = decision
    BY <1>5 DEF DecideApply, Moved
  <2>2. \A v \in Variants :
          to(v) = variant[v].state \/ to(v) \in {"scheduled", "cancelled"}
    BY DEF Applied
  <2>3. \A v \in Variants : variant[v].state = "sending" => to(v) = variant[v].state
    <3>1. SUFFICES ASSUME NEW v \in Variants, variant[v].state = "sending",
                          to(v) # variant[v].state
                   PROVE  FALSE
      OBVIOUS
    <3>2. to(v) \in {"scheduled", "cancelled"} /\ Writable(v, to(v))
      BY <2>1, <2>2, <3>1
    <3>3. receipts[v] # << >>
      BY <3>1, VariantOf, ReceiptFacts DEF RowTyped, Fits
    <3> HIDE DEF to
    <3> QED
      BY <3>1, <3>2, <3>3 DEF Writable, TriggerAllows, Attempted
  <2> HIDE DEF to
  <2>4. ASSUME NEW v \in Variants PROVE Same(v) \/ (OutcomeOf(v)' /\ Steady(v))
    <3>1. CASE to(v) = variant[v].state
      BY <1>1, <2>1, <3>1 DEF Same
    <3>2. CASE to(v) # variant[v].state
      <4>1. /\ to(v) \in {"scheduled", "cancelled"} /\ Writable(v, to(v))
            /\ variant[v].state # "sending"
        BY <2>1, <2>2, <2>3, <3>2
      <4>2. to(v) \in States \ {"sending", "unwritten"}
        BY <4>1, StateTypes
      <4> QED
        BY <1>1, <2>1, <4>1, <4>2, RowMoves
    <3> QED
      BY <3>1, <3>2
  <2>5. \A w \in Workers : worker[w].pc = "claiming" => worker[w].v \in Variants
    BY HoldTypes DEF SInv, IInv, TypeOK
  <2> QED
    BY <1>1, <1>2, <2>1, <2>4, <2>5, StepOutcome
<1> QED
  BY <1>3, <1>4, <1>5 DEF DecideCheck, DecideConfirm, DecideInsert, DecideStops, storageVars

-----------------------------------------------------------------------------
(* The theorems about outcomes.                                               *)

LEMMA InitTrue == Init => OutcomesFit /\ HoldsTrue /\ OneRevision
<1> SUFFICES ASSUME Init PROVE OutcomesFit /\ HoldsTrue /\ OneRevision
  OBVIOUS
<1>1. PICK state \in {"draft", "awaiting-approval"} :
        variant = [v \in Variants |-> NewRow(IF v[1] = 1 THEN state ELSE "unwritten")]
  BY DEF Init, PostInit
<1>2. \A v \in Variants : /\ variant[v].state \in {"draft", "awaiting-approval", "unwritten"}
                          /\ v[1] # 1 => variant[v].state = "unwritten"
  BY <1>1 DEF NewRow
<1>3. /\ receipts = [v \in Variants |-> << >>] /\ calls = [v \in Variants |-> << >>]
      /\ editor = NoEdit /\ worker = [w \in Workers |-> Idle]
      /\ post = [v \in Variants |-> "none"] /\ byPerson = {}
  BY DEF Init, PostInit
<1>4. OutcomesFit
  BY <1>2, <1>3 DEF OutcomesFit, Outcome, Gone, Landed
<1>5. HoldsTrue
  BY <1>3 DEF HoldsTrue, HoldTrue, Idle
<1>6. OneRevision
  <2>1. \A v, u \in Variants : v[1] < u[1] => u[1] # 1
    BY PlanFacts DEF Variants, Revisions
  <2> QED
    BY <1>2, <1>3, <2>1 DEF OneRevision
<1> QED
  BY <1>4, <1>5, <1>6

LEMMA NextTrue == SInv /\ [Next]_vars => SInv'
<1>1. SInv /\ Next => (OutcomesFit /\ HoldsTrue /\ OneRevision)'
  <2> SUFFICES ASSUME SInv, Next PROVE (OutcomesFit /\ HoldsTrue /\ OneRevision)'
    OBVIOUS
  <2>1. CASE Edits
    BY <2>1, EditTrue
  <2>2. CASE Decides
    BY <2>2, DecideTrue
  <2>3. CASE \E w \in Workers : Steps(w)
    BY <2>3, CheckTrue, ClaimTrue, SendTrue, AnswerTrue, SettleTrue, LateTrue, PollTrue,
       ReconcileTrue, StopTrue DEF Steps
  <2>4. CASE \E v \in Variants : \/ Sweeps(v) \/ Platform(v) \/ Resume(v) \/ Cancel(v)
                                 \/ Settle(v) \/ TimeComes(v)
    BY <2>4, SweepTrue, PlatformTrue, CommandTrue, TimeTrue
  <2>5. CASE \E c \in Channels : ChangeGrant(c)
    BY <2>5, GrantTrue
  <2> QED
    BY <2>1, <2>2, <2>3, <2>4, <2>5 DEF Next
<1>2. SInv /\ UNCHANGED vars => (OutcomesFit /\ HoldsTrue /\ OneRevision)'
  BY DEF vars, storageVars, postVars, SInv, OutcomesFit, HoldsTrue, HoldTrue, OneRevision
<1> QED
  BY <1>1, <1>2, NextKeeps DEF SInv

LEMMA OutcomesInductive == Spec => []SInv
<1>1. Init => SInv
  BY InitIInv, InitTrue DEF SInv
<1> QED
  BY <1>1, NextTrue, PTL DEF Spec

(* What a variant ends as is what happened on the platform: a published one  *)
(* has its post, and one that ended without a post never gets one, unless a  *)
(* person settled it (publisher.ts, mutate, poll and reconcile).             *)
THEOREM OutcomesAreTrue == Spec => []OutcomesTrue
<1>1. SInv => OutcomesTrue
  <2>1. SUFFICES ASSUME SInv, NEW v \in Variants \ byPerson
                 PROVE  /\ In(v, {"published"}) => post[v] = "live"
                        /\ \/ In(v, {"failed", "superseded", "not-published"})
                           \/ In(v, {"cancelled"}) /\ ~HandedOver(v)
                           => /\ post[v] \in {"none", "rejected"}
                              /\ \A a \in 1 .. Len(calls[v]) :
                                   Publishes(receipts[v][a].step) => calls[v][a] # "flight"
    BY DEF OutcomesTrue
  <2>2. OutcomeOf(v) /\ Len(calls[v]) = Len(receipts[v])
    BY <2>1, VariantOf, ReceiptFacts
  <2>3. HandedOver(v) <=> Confirmed(receipts[v])
    BY DEF HandedOver, Confirmed
  <2> QED
    BY <2>1, <2>2, <2>3 DEF OutcomeOf, Outcome, Gone, NoPost, In
<1> QED
  BY <1>1, OutcomesInductive, PTL

(* Each channel gets at most one revision of the post, an approved one: an   *)
(* edit never replaces what was sent, nor sends beside it (posts.ts, revise). *)
THEOREM OneRevisionPerChannel == Spec => []OneRevisionSent
<1>1. SInv => OneRevisionSent
  <2>1. SUFFICES ASSUME SInv, NEW v \in Variants, NEW u \in Variants, Attempted(v)
                 PROVE  /\ decision[v[1]] = "approve"
                        /\ Attempted(u) /\ u[2] = v[2] => u = v
    BY DEF OneRevisionSent
  <2>2. ASSUME NEW x \in Variants, Attempted(x)
        PROVE  /\ decision[x[1]] = "approve"
               /\ variant[x].state \notin {"superseded", "unwritten"}
    <3>1. Len(receipts[x]) > 0 /\ OutcomeOf(x)
      BY <2>1, <2>2, VariantOf, ReceiptFacts DEF Attempted
    <3> QED
      BY <2>1, <3>1, VariantOf DEF RowTyped, Fits, OutcomeOf, Outcome
  <2>3. ASSUME Attempted(u), u[2] = v[2], u # v PROVE FALSE
    <3>1. u[1] \in Nat /\ v[1] \in Nat /\ u[1] # v[1]
      BY <2>1, <2>3, VariantTypes DEF SInv, IInv, Variants
    <3> QED
      BY <2>1, <2>2, <2>3, <3>1 DEF SInv, OneRevision
  <2> QED
    BY <2>1, <2>2, <2>3
<1> QED
  BY <1>1, OutcomesInductive, PTL

(* A step is sent only while the sponsor holds the grant on the channel: the *)
(* claim checks again what was checked before the calls to the platform      *)
(* (publisher.ts, mutate).                                                   *)
THEOREM SentOnlyWhileGranted == Spec => SentWhileGranted
<1>1. SInv /\ [Next]_vars =>
        [\A v \in Variants : Len(receipts'[v]) > Len(receipts[v]) => granted[v[2]]]_vars
  <2>1. SUFFICES ASSUME SInv, Next, NEW v \in Variants, Len(receipts'[v]) > Len(receipts[v])
                 PROVE  granted[v[2]]
    OBVIOUS
  <2>2. Len(receipts[v]) \in Nat /\ receipts \in [Variants -> Seq(Receipt)]
    BY <2>1, VariantTypes DEF SInv, IInv, TypeOK, PostTypeOK, StorageTypeOK
  <2>3. receipts'[v] # receipts[v]
    BY <2>1, <2>2
  <2>4. \A x, a, status, class :
          receipts' = Settled(x, a, status, class) => Len(receipts'[v]) = Len(receipts[v])
    BY <2>2 DEF Settled
  <2>5. PICK w \in Workers : SendStep(w)
    <3>1. CASE Edits \/ Decides
      BY <2>3, <3>1 DEF Edits, ReviseRead, ReviseRecheck, ReviseFails, ReviseWrite, Decides,
         DecideCheck, DecideConfirm, DecideInsert, DecideApply, DecideStops, storageVars
    <3>2. CASE \E w \in Workers : Steps(w)
      <4>1. PICK w \in Workers : Steps(w)
        BY <3>2
      <4>2. CASE \/ \E x \in Variants : CheckStep(w, x) \/ PollLease(w, x) \/ ReconcileLease(w, x)
                 \/ ClaimStep(w) \/ Answer(w) \/ SettleLate(w) \/ PollRead(w) \/ PollSettle(w)
                 \/ ReconcileRead(w) \/ ReconcileSettle(w) \/ WorkerStops(w)
        BY <2>3, <4>2 DEF CheckStep, PollLease, ReconcileLease, ClaimStep, Answer, SettleLate,
           PollRead, PollSettle, ReconcileRead, ReconcileSettle, WorkerStops, storageVars
      <4>3. CASE \/ SettleDone(w) \/ SettlePublished(w) \/ SettleRejected(w)
                 \/ SettleRefused(w) \/ SettleBefore(w) \/ SettleAfter(w)
        <5>1. \E status, class : receipts' = Settled(worker[w].v, worker[w].attempt, status, class)
          <6>1. CASE SettleDone(w)
            BY <6>1 DEF SettleDone
          <6>2. CASE SettlePublished(w)
            BY <6>2 DEF SettlePublished
          <6>3. CASE SettleRejected(w)
            BY <6>3 DEF SettleRejected
          <6>4. CASE SettleRefused(w)
            BY <6>4 DEF SettleRefused
          <6>5. CASE SettleBefore(w)
            BY <6>5 DEF SettleBefore
          <6>6. CASE SettleAfter(w)
            BY <6>6 DEF SettleAfter
          <6> QED
            BY <4>3, <6>1, <6>2, <6>3, <6>4, <6>5, <6>6
        <5> QED
          BY <2>1, <2>2, <2>4, <5>1
      <4> QED
        BY <4>1, <4>2, <4>3 DEF Steps
    <3>3. CASE \E x \in Variants : \/ Sweeps(x) \/ Platform(x) \/ Resume(x) \/ Cancel(x)
                                   \/ Settle(x) \/ TimeComes(x)
      <4>1. PICK x \in Variants : \/ Sweeps(x) \/ Platform(x) \/ Resume(x) \/ Cancel(x)
                                  \/ Settle(x) \/ TimeComes(x)
        BY <3>3
      <4>2. CASE ExpireLease(x)
        BY <2>1, <2>2, <2>4, <4>2 DEF ExpireLease
      <4>3. CASE ~ExpireLease(x)
        BY <2>3, <4>1, <4>3 DEF Sweeps, ExpireUndecided, CancelBlocked, Recheck, Platform, Land,
           Refuse, PlatformProcesses, Resume, Cancel, Settle, TimeComes, storageVars
      <4> QED
        BY <4>2, <4>3
    <3>4. CASE \E c \in Channels : ChangeGrant(c)
      BY <2>3, <3>4 DEF ChangeGrant, storageVars
    <3> QED
      BY <2>1, <3>1, <3>2, <3>3, <3>4 DEF Next
  <2>6. worker[w].pc = "claiming" /\ HoldTrue(worker[w])
    BY <2>1, <2>5 DEF SendStep, SInv, HoldsTrue
  <2>7. worker[w].v = v
    BY <2>2, <2>3, <2>5 DEF SendStep
  <2> QED
    BY <2>6, <2>7 DEF HoldTrue
<1> QED
  BY <1>1, OutcomesInductive, PTL DEF Spec, SentWhileGranted
=============================================================================
