------------------------- MODULE WorkflowRunsProofs -------------------------
(***************************************************************************)
(* For every set of runs, every set of definitions and any number of lost  *)
(* activities: the types of WorkflowRuns, that a step keeps the output of  *)
(* the call made for it, and that every step of the runs is one RunPromise *)
(* allows.                                                                 *)
(***************************************************************************)
EXTENDS WorkflowRuns, TLAPS

Ended == {"completed", "failed", "blocked", "cancelled"}
RunRow == [status : Live \cup Ended \cup {"none"}, plan : Plans \cup {<<>>}, sponsor : Nat]
ReceiptRow ==
  [status : {"none", "waiting", "completed"}, due : {"none", "ahead", "past"},
   task : {"none", "known"}, from : Nat, branch : Branches]
Attempt ==
  [at : {"idle", "begin", "call", "back", "done"}, step : Nat,
   ask : {"none", "request", "job", "start", "poll"},
   answer : {"none", "completed", "failed", "pending", "started", "task-failed"},
   progress : {"none", "continue", "wait", "done"}]
Receipts == UNION {[DOMAIN p -> ReceiptRow] : p \in Plans \cup {<<>>}}

Typed ==
  /\ flow \in [enabled : BOOLEAN, sponsor : Nat]
  /\ run \in [Runs -> RunRow]
  /\ receipt \in [Runs -> Receipts]
  /\ \A r \in Runs : receipt[r] \in [Steps(r) -> ReceiptRow]
  /\ act \in [Runs -> [Slots -> Attempt]]

\* A run that was not started has no steps; a step has chosen a branch only
\* once it is completed; and a step that waits is the next one of its run, so
\* that an answer completes it in its order.
RunOK(r) ==
  /\ run[r].status = "none" => run[r].plan = <<>>
  /\ \A i \in Steps(r) :
       /\ receipt[r][i].status # "completed" => receipt[r][i].branch = "none"
       /\ receipt[r][i].status = "waiting" => nextStep(r, i)

\* A request an activity made, however long ago, was of an HTTP step of its run.
AskOK(r, a) ==
  act[r][a].ask = "request" =>
    /\ run[r].status # "none"
    /\ act[r][a].step \in Steps(r)
    /\ Kind(r, act[r][a].step) = "http"

IInv ==
  /\ Typed
  /\ \A r \in Runs : RunOK(r) /\ \A a \in Slots : AskOK(r, a)
  /\ OwnOutput

USE DEF Live, Branches, Outside, Kinds, Slots, IsLive

-----------------------------------------------------------------------------
\* What a step may do to a run and its receipts, and to an activity.

Stays(r) == UNCHANGED run \/ (IsLive(r) /\ \E s \in Live : Becomes(r, s))
Puts(r, i, row) == receipt' = [receipt EXCEPT ![r][i] = row]

Begins(r) ==
  /\ run[r].status = "none"
  /\ \E p \in Plans, sponsor \in Nat :
       /\ run' = [run EXCEPT ![r] = [status |-> "queued", plan |-> p, sponsor |-> sponsor]]
       /\ receipt' = [receipt EXCEPT ![r] = [i \in DOMAIN p |-> NoReceipt]]

Done(r) ==
  /\ IsLive(r) /\ Stays(r)
  /\ \E i \in Steps(r), row \in ReceiptRow :
       /\ nextStep(r, i) /\ row.status = "completed"
       /\ Apart(run[r].plan) => row.from = i
       /\ Puts(r, i, row)

Notes(r) ==
  /\ Stays(r)
  /\ \E i \in Steps(r), row \in ReceiptRow :
       /\ nextStep(r, i) /\ row.status # "completed" /\ row.branch = "none"
       /\ Puts(r, i, row)

Finishes(r) == IsLive(r) /\ Left(r) = {} /\ Becomes(r, "completed") /\ UNCHANGED receipt

Stops(S) ==
  /\ S # {} /\ \A r \in S : IsLive(r)
  /\ run' \in [Runs -> RunRow]
  /\ \A r \in Runs \ S : run'[r] = run[r]
  /\ \A r \in S : run'[r].status \in Ended \ {"completed"} /\ run'[r].plan = run[r].plan
  /\ UNCHANGED receipt

RunEffect ==
  \/ UNCHANGED receipt /\ (UNCHANGED run \/ \E r \in Runs : Stays(r))
  \/ \E r \in Runs : Begins(r) \/ Done(r) \/ Notes(r) \/ Finishes(r)
  \/ \E S \in SUBSET Runs : Stops(S)

ActEffect ==
  /\ act' \in [Runs -> [Slots -> Attempt]]
  /\ \A r \in Runs, a \in Slots :
       \/ act'[r][a].ask # "request"
       \/ act'[r][a].ask = act[r][a].ask /\ act'[r][a].step = act[r][a].step
       \/ /\ run[r].status # "none"
          /\ act'[r][a].step \in Steps(r) /\ Kind(r, act'[r][a].step) = "http"

-----------------------------------------------------------------------------
\* Definitions and the steps left

LEMMA PlanIs ==
  ASSUME Typed, NEW r \in Runs
  PROVE  /\ run[r].plan \in Seq(StepType)
         /\ Steps(r) \subseteq Nat \ {0}
         /\ \A i \in Steps(r) : \A gate \in run[r].plan[i].gates :
              gate.step \in Steps(r) /\ gate.step < i /\ gate.branch \in {"ifMet", "otherwise"}
<1>1. run[r] \in RunRow BY DEF Typed
<1>2. run[r].plan \in Plans \cup {<<>>} BY <1>1 DEF RunRow
<1>3. CASE run[r].plan = <<>>
  <2>1. Steps(r) = {} BY <1>3 DEF Steps
  <2>2. run[r].plan \in Seq(StepType) BY <1>3
  <2>3. QED BY <2>1, <2>2
<1>4. CASE run[r].plan \in Plans
  <2>1. PlanOK(run[r].plan) BY <1>4, PlansAssumption
  <2>2. run[r].plan \in Seq(StepType) BY <2>1 DEF PlanOK
  <2>3. PICK n \in Nat : Steps(r) = 1 .. n BY <2>2 DEF Steps
  <2>4. \A i \in Steps(r) : run[r].plan[i] \in StepType BY <2>2 DEF Steps
  <2>5. ASSUME NEW i \in Steps(r), NEW gate \in run[r].plan[i].gates
        PROVE  gate.step \in Steps(r) /\ gate.step < i /\ gate.branch \in {"ifMet", "otherwise"}
    <3>1. gate \in [step : Nat, branch : Branches \ {"none"}] BY <2>4, <2>5 DEF StepType
    <3>2. gate.step < i /\ gate.step > 0 BY <2>1, <2>5 DEF PlanOK, Steps
    <3>3. QED BY <2>3, <2>5, <3>1, <3>2
  <2>6. QED BY <2>2, <2>3, <2>5
<1>5. QED BY <1>2, <1>3, <1>4

LEMMA RowIs ==
  ASSUME Typed, NEW r \in Runs, NEW i \in Steps(r)
  PROVE  receipt[r][i] \in ReceiptRow
BY DEF Typed

\* A receipt put in its place.
LEMMA Put ==
  ASSUME Typed, NEW r \in Runs, NEW i \in Steps(r), NEW row \in ReceiptRow, Puts(r, i, row)
  PROVE  /\ receipt' \in [Runs -> Receipts]
         /\ receipt'[r] \in [Steps(r) -> ReceiptRow]
         /\ receipt'[r][i] = row
         /\ \A j \in Steps(r) \ {i} : receipt'[r][j] = receipt[r][j]
         /\ \A q \in Runs \ {r} : receipt'[q] = receipt[q]
<1>1. receipt \in [Runs -> Receipts] /\ receipt[r] \in [Steps(r) -> ReceiptRow] BY DEF Typed
<1>2. receipt' = [receipt EXCEPT ![r] = [receipt[r] EXCEPT ![i] = row]] BY DEF Puts
<1>3. [receipt[r] EXCEPT ![i] = row] \in [Steps(r) -> ReceiptRow] BY <1>1
<1>4. run[r].plan \in Plans \cup {<<>>}
  <2>1. run[r] \in RunRow BY DEF Typed
  <2>2. QED BY <2>1 DEF RunRow
<1>5. [Steps(r) -> ReceiptRow] \subseteq Receipts BY <1>4 DEF Receipts, Steps
<1>6. QED BY <1>1, <1>2, <1>3, <1>5

\* A status given to a run.
LEMMA Status ==
  ASSUME Typed, NEW r \in Runs, NEW s \in Live \cup Ended, Becomes(r, s)
  PROVE  /\ run' \in [Runs -> RunRow]
         /\ run'[r].status = s /\ run'[r].plan = run[r].plan
         /\ \A q \in Runs \ {r} : run'[q] = run[q]
<1>1. run \in [Runs -> RunRow] BY DEF Typed
<1>2. run[r] \in RunRow BY <1>1
<1>3. run' = [run EXCEPT ![r] = [run[r] EXCEPT !.status = s]] BY DEF Becomes
<1>4. /\ [run[r] EXCEPT !.status = s] \in RunRow
      /\ [run[r] EXCEPT !.status = s].status = s
      /\ [run[r] EXCEPT !.status = s].plan = run[r].plan
  BY <1>2 DEF RunRow
<1>5. QED BY <1>1, <1>3, <1>4

LEMMA Stayed ==
  ASSUME Typed, NEW r \in Runs, Stays(r)
  PROVE  /\ run' \in [Runs -> RunRow]
         /\ run'[r].plan = run[r].plan
         /\ run'[r].status = run[r].status \/ {run[r].status, run'[r].status} \subseteq Live
         /\ \A q \in Runs \ {r} : run'[q] = run[q]
<1>1. CASE UNCHANGED run BY <1>1 DEF Typed
<1>2. ASSUME IsLive(r), NEW s \in Live, Becomes(r, s)
      PROVE  /\ run' \in [Runs -> RunRow]
             /\ run'[r].plan = run[r].plan
             /\ {run[r].status, run'[r].status} \subseteq Live
             /\ \A q \in Runs \ {r} : run'[q] = run[q]
  BY <1>2, Status
<1>3. QED BY <1>1, <1>2 DEF Stays

-----------------------------------------------------------------------------
\* What the effects keep of a run.

\* A run whose definition and receipts stay has the same steps left.
LEMMA Frame ==
  ASSUME NEW r \in Runs, receipt'[r] = receipt[r], run'[r].plan = run[r].plan
  PROVE  /\ Left(r)' = Left(r) /\ Completed(r)' = Completed(r)
         /\ \A i : nextStep(r, i)' <=> nextStep(r, i)
         /\ (run'[r].status = "none" => run[r].status = "none") /\ RunOK(r) => RunOK(r)'
<1>1. Completed(r)' = Completed(r) BY DEF Completed, Steps
<1>2. \A i : Chosen(r, i)' <=> Chosen(r, i) BY DEF Chosen
<1>3. Left(r)' = Left(r) BY <1>1, <1>2 DEF Left, Steps
<1>4. \A i : nextStep(r, i)' <=> nextStep(r, i) BY <1>3 DEF nextStep
<1>5. QED BY <1>1, <1>3, <1>4 DEF RunOK, Steps

\* When the next step is completed no receipt waits any more.
LEMMA DoneRun ==
  ASSUME Typed, Typed', NEW r \in Runs, RunOK(r), Done(r)
  PROVE  RunOK(r)'
<1>1. PICK i \in Steps(r), row \in ReceiptRow :
        nextStep(r, i) /\ row.status = "completed" /\ Puts(r, i, row)
  BY DEF Done
<1>2. receipt'[r][i] = row /\ \A j \in Steps(r) \ {i} : receipt'[r][j] = receipt[r][j]
  BY <1>1, Put
<1>3. Stays(r) /\ IsLive(r) BY DEF Done
<1>4. run'[r].plan = run[r].plan /\ run'[r].status # "none" BY <1>3, Stayed
<1>5. Steps(r)' = Steps(r) BY <1>4 DEF Steps
<1>6. \A j \in Steps(r) : receipt[r][j].status = "waiting" => j = i
  <2> SUFFICES ASSUME NEW j \in Steps(r), receipt[r][j].status = "waiting" PROVE j = i
    OBVIOUS
  <2>1. nextStep(r, j) BY DEF RunOK
  <2>2. i \in Nat /\ j \in Nat BY PlanIs
  <2>3. i <= j /\ j <= i BY <1>1, <2>1 DEF nextStep
  <2>4. QED BY <2>2, <2>3
<1>7. \A j \in Steps(r) : receipt'[r][j].status # "waiting" BY <1>1, <1>2, <1>6
<1>8. \A j \in Steps(r) : receipt'[r][j].status # "completed" => receipt'[r][j].branch = "none"
  BY <1>1, <1>2 DEF RunOK
<1>9. QED BY <1>4, <1>5, <1>7, <1>8 DEF RunOK

\* A receipt made or changed before its step is completed leaves the same
\* steps to take.
LEMMA NoteRun ==
  ASSUME Typed, Typed', NEW r \in Runs, RunOK(r), Notes(r)
  PROVE  RunOK(r)' /\ Completed(r)' = Completed(r)
         /\ \A j \in Completed(r) : receipt'[r][j] = receipt[r][j]
<1>1. PICK i \in Steps(r), row \in ReceiptRow :
        nextStep(r, i) /\ row.status # "completed" /\ row.branch = "none" /\ Puts(r, i, row)
  BY DEF Notes
<1>2. receipt'[r][i] = row /\ \A j \in Steps(r) \ {i} : receipt'[r][j] = receipt[r][j]
  BY <1>1, Put
<1>3. run'[r].plan = run[r].plan /\ (run'[r].status = "none" => run[r].status = "none")
  <2>1. Stays(r) BY DEF Notes
  <2>2. QED BY <2>1, Stayed
<1>4. Steps(r)' = Steps(r) BY <1>3 DEF Steps
<1>5. receipt[r][i].status # "completed" BY <1>1 DEF nextStep, Left, Completed
<1>6. Completed(r)' = Completed(r) BY <1>1, <1>2, <1>4, <1>5 DEF Completed
<1>7. \A j \in Steps(r) : receipt'[r][j].branch = receipt[r][j].branch
  BY <1>1, <1>2, <1>5 DEF RunOK
<1>8. \A j \in Steps(r) : Chosen(r, j)' <=> Chosen(r, j)
  BY <1>3, <1>7, PlanIs DEF Chosen
<1>9. Left(r)' = Left(r) BY <1>4, <1>6, <1>8 DEF Left
<1>10. \A j : nextStep(r, j)' <=> nextStep(r, j) BY <1>9 DEF nextStep
<1>11. \A j \in Steps(r) : receipt'[r][j].status = "waiting" => nextStep(r, j)
  BY <1>1, <1>2 DEF RunOK
<1>12. \A j \in Steps(r) : receipt'[r][j].status # "completed" => receipt'[r][j].branch = "none"
  BY <1>1, <1>2 DEF RunOK
<1>13. run'[r].status = "none" => run'[r].plan = <<>> BY <1>3 DEF RunOK
<1>14. RunOK(r)' BY <1>4, <1>10, <1>11, <1>12, <1>13 DEF RunOK
<1>15. \A j \in Completed(r) : receipt'[r][j] = receipt[r][j]
  BY <1>2, <1>5 DEF Completed
<1>16. QED BY <1>6, <1>14, <1>15

\* A run that begins has nothing completed and nothing waiting.
LEMMA BeginRun ==
  ASSUME Typed, NEW r \in Runs, Begins(r)
  PROVE  /\ run' \in [Runs -> RunRow] /\ receipt' \in [Runs -> Receipts]
         /\ run'[r].status = "queued" /\ run'[r].plan \in Plans
         /\ receipt'[r] = [i \in Steps(r)' |-> NoReceipt]
         /\ receipt'[r] \in [Steps(r)' -> ReceiptRow]
         /\ \A q \in Runs \ {r} : run'[q] = run[q] /\ receipt'[q] = receipt[q]
<1>1. PICK p \in Plans, sponsor \in Nat :
        /\ run' = [run EXCEPT ![r] = [status |-> "queued", plan |-> p, sponsor |-> sponsor]]
        /\ receipt' = [receipt EXCEPT ![r] = [i \in DOMAIN p |-> NoReceipt]]
  BY DEF Begins
<1>2. NoReceipt \in ReceiptRow BY DEF NoReceipt, ReceiptRow
<1>3. [i \in DOMAIN p |-> NoReceipt] \in [DOMAIN p -> ReceiptRow] BY <1>2
<1>4. [i \in DOMAIN p |-> NoReceipt] \in Receipts BY <1>3 DEF Receipts
<1>5. [status |-> "queued", plan |-> p, sponsor |-> sponsor] \in RunRow BY DEF RunRow
<1>6. run \in [Runs -> RunRow] /\ receipt \in [Runs -> Receipts] BY DEF Typed
<1>7. /\ run' \in [Runs -> RunRow] /\ receipt' \in [Runs -> Receipts]
      /\ run'[r] = [status |-> "queued", plan |-> p, sponsor |-> sponsor]
      /\ receipt'[r] = [i \in DOMAIN p |-> NoReceipt]
      /\ \A q \in Runs \ {r} : run'[q] = run[q] /\ receipt'[q] = receipt[q]
  BY <1>1, <1>4, <1>5, <1>6
<1>8. Steps(r)' = DOMAIN p BY <1>7 DEF Steps
<1>9. receipt'[r] \in [Steps(r)' -> ReceiptRow] BY <1>3, <1>7, <1>8
<1>10. QED BY <1>7, <1>8, <1>9

LEMMA EffectTyped ==
  ASSUME Typed, RunEffect, ActEffect, flow' \in [enabled : BOOLEAN, sponsor : Nat]
  PROVE  Typed'
<1> DEFINE RowsTyped == /\ run' \in [Runs -> RunRow]
                       /\ receipt' \in [Runs -> Receipts]
                       /\ \A q \in Runs : receipt'[q] \in [Steps(q)' -> ReceiptRow]
<1> SUFFICES RowsTyped BY DEF Typed, ActEffect
<1>1. \A q \in Runs : receipt[q] \in [Steps(q) -> ReceiptRow] BY DEF Typed
<1>2. run \in [Runs -> RunRow] /\ receipt \in [Runs -> Receipts] BY DEF Typed
<1>3. ASSUME NEW r \in Runs, Begins(r) PROVE RowsTyped
  <2>1. receipt'[r] \in [Steps(r)' -> ReceiptRow] BY <1>3, BeginRun
  <2>2. \A q \in Runs \ {r} : receipt'[q] \in [Steps(q)' -> ReceiptRow]
    BY <1>1, <1>3, BeginRun DEF Steps
  <2>3. QED BY <1>3, <2>1, <2>2, BeginRun
<1>4. ASSUME NEW r \in Runs, Stays(r), NEW i \in Steps(r), NEW row \in ReceiptRow, Puts(r, i, row)
      PROVE  RowsTyped
  <2>1. \A q \in Runs : Steps(q)' = Steps(q) BY <1>4, Stayed DEF Steps
  <2>2. \A q \in Runs : receipt'[q] \in [Steps(q) -> ReceiptRow] BY <1>1, <1>4, Put
  <2>3. QED BY <1>4, <2>1, <2>2, Put, Stayed
<1>5. ASSUME UNCHANGED receipt, run' \in [Runs -> RunRow],
             \A q \in Runs : run'[q].plan = run[q].plan
      PROVE  RowsTyped
  BY <1>1, <1>2, <1>5 DEF Steps
<1> HIDE DEF RowsTyped
<1>6. CASE \E r \in Runs : Done(r) \/ Notes(r) BY <1>4, <1>6 DEF Done, Notes
<1>7. CASE UNCHANGED receipt /\ (UNCHANGED run \/ \E r \in Runs : Stays(r))
  <2>1. run' \in [Runs -> RunRow] /\ \A q \in Runs : run'[q].plan = run[q].plan
    BY <1>2, <1>7, Stayed
  <2>2. QED BY <1>5, <1>7, <2>1
<1>8. CASE \E r \in Runs : Finishes(r)
  <2>1. PICK r \in Runs : Becomes(r, "completed") /\ UNCHANGED receipt BY <1>8 DEF Finishes
  <2>2. run' \in [Runs -> RunRow] /\ \A q \in Runs : run'[q].plan = run[q].plan
    BY <2>1, Status DEF Ended
  <2>3. QED BY <1>5, <2>1, <2>2
<1>9. CASE \E S \in SUBSET Runs : Stops(S)
  <2>1. /\ UNCHANGED receipt /\ run' \in [Runs -> RunRow]
        /\ \A q \in Runs : run'[q].plan = run[q].plan
    BY <1>9 DEF Stops
  <2>2. QED BY <1>5, <2>1
<1>10. QED BY <1>3, <1>6, <1>7, <1>8, <1>9 DEF RunEffect

\* A step that keeps definitions and receipts keeps what is said of the runs.
LEMMA EffectRuns ==
  ASSUME Typed, Typed', \A r \in Runs : RunOK(r), OwnOutput, RunEffect
  PROVE  (\A r \in Runs : RunOK(r)') /\ OwnOutput'
<1> DEFINE Own(r) == Apart(run[r].plan) => \A i \in Completed(r) : receipt[r][i].from = i
<1>1. \A r \in Runs : Own(r) BY DEF OwnOutput
<1>2. ASSUME NEW q \in Runs, receipt'[q] = receipt[q], run'[q].plan = run[q].plan,
             run'[q].status = "none" => run[q].status = "none"
      PROVE  RunOK(q)' /\ Own(q)'
  BY <1>1, <1>2, Frame
<1>3. ASSUME NEW r \in Runs, Begins(r) PROVE RunOK(r)' /\ Own(r)'
  <2>1. run'[r].status = "queued" /\ receipt'[r] = [i \in Steps(r)' |-> NoReceipt]
    BY <1>3, BeginRun
  <2>2. \A i \in Steps(r)' : receipt'[r][i].status = "none" /\ receipt'[r][i].branch = "none"
    BY <2>1 DEF NoReceipt
  <2>3. RunOK(r)' BY <2>1, <2>2 DEF RunOK
  <2>4. Completed(r)' = {} BY <2>2 DEF Completed
  <2>5. QED BY <2>3, <2>4
<1>4. ASSUME NEW r \in Runs, Done(r) PROVE RunOK(r)' /\ Own(r)'
  <2>1. PICK i \in Steps(r), row \in ReceiptRow :
          /\ Apart(run[r].plan) => row.from = i
          /\ Puts(r, i, row)
    BY <1>4 DEF Done
  <2>2. receipt'[r][i] = row /\ \A j \in Steps(r) \ {i} : receipt'[r][j] = receipt[r][j]
    BY <2>1, Put
  <2>3. run'[r].plan = run[r].plan BY <1>4, Stayed DEF Done
  <2>4. Completed(r)' \subseteq Completed(r) \cup {i}
    BY <2>2, <2>3 DEF Completed, Steps
  <2>5. Completed(r) \subseteq Steps(r) BY DEF Completed
  <2>6. Own(r)' BY <1>1, <2>1, <2>2, <2>3, <2>4, <2>5
  <2>7. QED BY <1>4, <2>6, DoneRun
<1>5. ASSUME NEW r \in Runs, Notes(r) PROVE RunOK(r)' /\ Own(r)'
  <2>1. run'[r].plan = run[r].plan BY <1>5, Stayed DEF Notes
  <2>2. QED BY <1>1, <1>5, <2>1, NoteRun
<1>6. ASSUME NEW r \in Runs, Done(r) \/ Notes(r), NEW q \in Runs \ {r}
      PROVE  receipt'[q] = receipt[q] /\ run'[q] = run[q]
  <2>1. Stays(r) /\ \E i \in Steps(r), row \in ReceiptRow : Puts(r, i, row)
    BY <1>6 DEF Done, Notes
  <2>2. QED BY <2>1, Put, Stayed
<1>7. CASE \E r \in Runs : Begins(r) \/ Done(r) \/ Notes(r)
  <2>1. PICK r \in Runs : Begins(r) \/ Done(r) \/ Notes(r) BY <1>7
  <2>2. RunOK(r)' /\ Own(r)' BY <1>3, <1>4, <1>5, <2>1
  <2>3. \A q \in Runs \ {r} : receipt'[q] = receipt[q] /\ run'[q] = run[q]
    BY <1>6, <2>1, BeginRun
  <2>4. \A q \in Runs : RunOK(q)' /\ Own(q)' BY <1>2, <2>2, <2>3
  <2>5. QED BY <2>4 DEF OwnOutput
<1>8. CASE /\ UNCHANGED receipt
           /\ \A q \in Runs : run'[q].plan = run[q].plan
                               /\ (run'[q].status = "none" => run[q].status = "none")
  <2>1. \A q \in Runs : RunOK(q)' /\ Own(q)' BY <1>2, <1>8
  <2>2. QED BY <2>1 DEF OwnOutput
<1>9. CASE UNCHANGED receipt /\ (UNCHANGED run \/ \E r \in Runs : Stays(r))
  <2>1. \A q \in Runs : run'[q].plan = run[q].plan
                        /\ (run'[q].status = "none" => run[q].status = "none")
    BY <1>9, Stayed
  <2>2. QED BY <1>8, <1>9, <2>1
<1>10. CASE \E r \in Runs : Finishes(r)
  <2>1. PICK r \in Runs : Becomes(r, "completed") /\ UNCHANGED receipt BY <1>10 DEF Finishes
  <2>2. \A q \in Runs : run'[q].plan = run[q].plan
                        /\ (run'[q].status = "none" => run[q].status = "none")
    BY <2>1, Status DEF Ended
  <2>3. QED BY <1>8, <2>1, <2>2
<1>11. CASE \E S \in SUBSET Runs : Stops(S)
  <2>1. \A q \in Runs : run'[q].plan = run[q].plan
                        /\ (run'[q].status = "none" => run[q].status = "none")
    BY <1>11 DEF Stops, Ended
  <2>2. QED BY <1>8, <1>11, <2>1 DEF Stops
<1>12. QED BY <1>7, <1>9, <1>10, <1>11 DEF RunEffect

\* A definition is given to a run once.
LEMMA PlansStay ==
  ASSUME Typed, RunEffect, NEW q \in Runs, run[q].status # "none"
  PROVE  run'[q].status # "none" /\ run'[q].plan = run[q].plan
<1>1. CASE UNCHANGED receipt /\ (UNCHANGED run \/ \E r \in Runs : Stays(r))
  BY <1>1, Stayed
<1>2. CASE \E r \in Runs : Done(r) \/ Notes(r)
  <2>1. \E r \in Runs : Stays(r) BY <1>2 DEF Done, Notes
  <2>2. QED BY <2>1, Stayed
<1>3. CASE \E r \in Runs : Begins(r)
  <2>1. PICK r \in Runs : Begins(r) BY <1>3
  <2>2. run[r].status = "none" BY <2>1 DEF Begins
  <2>3. QED BY <2>1, <2>2, BeginRun
<1>4. CASE \E r \in Runs : Finishes(r)
  <2>1. PICK r \in Runs : Becomes(r, "completed") BY <1>4 DEF Finishes
  <2>2. QED BY <2>1, Status DEF Ended
<1>5. CASE \E S \in SUBSET Runs : Stops(S) BY <1>5 DEF Stops, Ended
<1>6. QED BY <1>1, <1>2, <1>3, <1>4, <1>5 DEF RunEffect

LEMMA EffectAsks ==
  ASSUME Typed, RunEffect, ActEffect, \A r \in Runs, a \in Slots : AskOK(r, a)
  PROVE  \A r \in Runs, a \in Slots : AskOK(r, a)'
<1> SUFFICES ASSUME NEW r \in Runs, NEW a \in Slots, act'[r][a].ask = "request"
             PROVE  /\ run'[r].status # "none"
                    /\ act'[r][a].step \in DOMAIN run'[r].plan
                    /\ run'[r].plan[act'[r][a].step].kind = "http"
  BY DEF AskOK, Kind, Steps
<1>1. /\ run[r].status # "none"
      /\ act'[r][a].step \in Steps(r) /\ Kind(r, act'[r][a].step) = "http"
  BY DEF ActEffect, AskOK
<1>2. run'[r].status # "none" /\ run'[r].plan = run[r].plan BY <1>1, PlansStay
<1>3. QED BY <1>1, <1>2 DEF Steps, Kind

-----------------------------------------------------------------------------
\* The effects of each part of Advance.

LEMMA ActSet ==
  ASSUME Typed, NEW r \in Runs, NEW a, NEW x \in Attempt, act' = [act EXCEPT ![r][a] = x],
         a \in Slots =>
           \/ x.ask # "request"
           \/ x.ask = act[r][a].ask /\ x.step = act[r][a].step
           \/ run[r].status # "none" /\ x.step \in Steps(r) /\ Kind(r, x.step) = "http"
  PROVE  ActEffect
<1>1. act \in [Runs -> [Slots -> Attempt]] BY DEF Typed
<1>2. act' = [act EXCEPT ![r] = [act[r] EXCEPT ![a] = x]] OBVIOUS
<1>3. [act[r] EXCEPT ![a] = x] \in [Slots -> Attempt] BY <1>1
<1>4. act' \in [Runs -> [Slots -> Attempt]] BY <1>1, <1>2, <1>3
<1>5. ASSUME NEW q \in Runs, NEW b \in Slots
      PROVE  act'[q][b] = act[q][b] \/ (q = r /\ b = a /\ act'[q][b] = x)
  BY <1>1, <1>2
<1>6. QED BY <1>4, <1>5 DEF ActEffect

LEMMA IdleIs ==
  /\ Idle \in Attempt /\ Idle.ask = "none"
  /\ Starting \in Attempt /\ Starting.ask = "none"
  /\ \A progress \in {"continue", "wait", "done"} :
       /\ [Idle EXCEPT !.at = "done", !.progress = progress] \in Attempt
       /\ [Idle EXCEPT !.at = "done", !.progress = progress].ask = "none"
BY DEF Idle, Starting, Attempt

LEMMA AnswerEffect ==
  ASSUME Typed, NEW r \in Runs, NEW a, NEW progress \in {"continue", "wait", "done"},
         Answers(r, a, progress)
  PROVE  ActEffect
<1> DEFINE x == [Idle EXCEPT !.at = "done", !.progress = progress]
<1>1. x \in Attempt /\ x.ask = "none" BY IdleIs
<1>2. act' = [act EXCEPT ![r][a] = x] BY DEF Answers
<1> HIDE DEF x
<1>3. QED BY <1>1, <1>2, ActSet

LEMMA CallEffect ==
  ASSUME Typed, NEW r \in Runs, NEW a \in Slots, NEW i \in Steps(r), IsLive(r),
         NEW ask \in {"request", "job", "start", "poll"},
         ask = "request" => Kind(r, i) = "http", Calls(r, a, i, ask)
  PROVE  ActEffect
<1>1. CASE act[r][a].at = "begin"
  <2> DEFINE x == [Idle EXCEPT !.at = "call", !.step = i, !.ask = ask]
  <2>1. i \in Nat BY PlanIs
  <2>2. x \in Attempt /\ x.ask = ask /\ x.step = i BY <2>1 DEF Idle, Attempt
  <2>3. act' = [act EXCEPT ![r][a] = x] BY <1>1 DEF Calls
  <2> HIDE DEF x
  <2>4. QED BY <2>2, <2>3, ActSet
<1>2. CASE act[r][a].at # "begin" BY <1>2, AnswerEffect DEF Calls
<1>3. QED BY <1>1, <1>2

LEMMA BackEffect ==
  ASSUME Typed, NEW r \in Runs, NEW a \in Slots,
         NEW answer \in {"completed", "failed", "pending", "started", "task-failed"},
         Back(r, a, answer)
  PROVE  ActEffect
<1> DEFINE x == [act[r][a] EXCEPT !.at = "back", !.answer = answer]
<1>1. act \in [Runs -> [Slots -> Attempt]] BY DEF Typed
<1>2. act[r][a] \in Attempt BY <1>1
<1>3. x \in Attempt /\ x.ask = act[r][a].ask /\ x.step = act[r][a].step
  BY <1>2 DEF Attempt
<1>4. act' = [act EXCEPT ![r][a] = x] BY <1>1 DEF Back
<1> HIDE DEF x
<1>5. QED BY <1>3, <1>4, ActSet

LEMMA IterateEffect ==
  ASSUME Typed, NEW r \in Runs, NEW a, act' = [act EXCEPT ![r][a] = Starting]
  PROVE  ActEffect
BY IdleIs, ActSet

LEMMA IdleEffect ==
  ASSUME Typed, NEW r \in Runs, NEW a, act' = [act EXCEPT ![r][a] = Idle]
  PROVE  ActEffect
BY IdleIs, ActSet

LEMMA CompleteEffect ==
  ASSUME Typed, NEW r \in Runs, NEW i \in Steps(r), NEW from \in Nat, NEW branch \in Branches,
         IsLive(r), Stays(r), nextStep(r, i), Apart(run[r].plan) => from = i,
         Completes(r, i, from, branch)
  PROVE  Done(r)
<1> DEFINE row == [receipt[r][i] EXCEPT !.status = "completed", !.from = from, !.branch = branch]
<1>1. receipt \in [Runs -> Receipts] /\ receipt[r] \in [Steps(r) -> ReceiptRow] BY DEF Typed
<1>2. receipt[r][i] \in ReceiptRow BY <1>1
<1>3. row \in ReceiptRow /\ row.status = "completed" /\ row.from = from
  BY <1>2 DEF ReceiptRow
<1>4. Puts(r, i, row) BY <1>1, <1>2 DEF Completes, Puts, ReceiptRow
<1> HIDE DEF row
<1>5. QED BY <1>3, <1>4 DEF Done

LEMMA WaitEffect ==
  ASSUME Typed, NEW r \in Runs, RunOK(r), NEW i \in Steps(r), NEW due \in {"none", "ahead"},
         IsLive(r), nextStep(r, i), Waits(r, i, due)
  PROVE  Notes(r) \/ UNCHANGED <<run, receipt>>
<1>1. CASE receipt[r][i].status = "none"
  <2> DEFINE row == [receipt[r][i] EXCEPT !.status = "waiting", !.due = due]
  <2>1. receipt \in [Runs -> Receipts] /\ receipt[r] \in [Steps(r) -> ReceiptRow] BY DEF Typed
  <2>2. receipt[r][i] \in ReceiptRow BY <2>1
  <2>3. receipt[r][i].branch = "none" BY <1>1 DEF RunOK
  <2>4. row \in ReceiptRow /\ row.status = "waiting" /\ row.branch = "none"
    BY <2>2, <2>3 DEF ReceiptRow
  <2>5. Puts(r, i, row) /\ Becomes(r, "waiting")
    BY <1>1, <2>1, <2>2, ZenonT(60) DEF Waits, Puts, ReceiptRow
  <2>6. Stays(r) BY <2>5 DEF Stays
  <2> HIDE DEF row
  <2>7. QED BY <2>4, <2>5, <2>6 DEF Notes
<1>2. CASE receipt[r][i].status # "none" BY <1>2 DEF Waits
<1>3. QED BY <1>1, <1>2

LEMMA EndEffect ==
  ASSUME Typed, NEW r \in Runs, NEW a, IsLive(r), NEW s \in {"failed", "blocked"}, Ends(r, a, s)
  PROVE  RunEffect /\ ActEffect
<1>1. Becomes(r, s) /\ Answers(r, a, "done") /\ UNCHANGED receipt BY DEF Ends
<1>2. Stops({r}) BY <1>1, Status DEF Stops, Ended
<1>3. QED BY <1>1, <1>2, AnswerEffect DEF RunEffect

\* What the transaction of advance does for the next step of a live run.
LEMMA WithinEffect ==
  ASSUME IInv, NEW r \in Runs, NEW a \in Slots, NEW i \in Steps(r), IsLive(r), nextStep(r, i),
         AdvanceWithin(r, a, i)
  PROVE  RunEffect /\ ActEffect
<1>1. Typed /\ i \in Nat BY PlanIs DEF IInv
<1>2. CASE \E s \in {"failed", "blocked"} : Ends(r, a, s) BY <1>1, <1>2, EndEffect
<1>3. CASE /\ \E branch \in Branches : Completes(r, i, i, branch)
           /\ Becomes(r, "running") /\ Answers(r, a, "continue")
  <2>1. Stays(r) BY <1>3 DEF Stays
  <2>2. Done(r) BY <1>1, <1>3, <2>1, CompleteEffect
  <2>3. QED BY <1>1, <1>3, <2>2, AnswerEffect DEF RunEffect
<1>4. QED BY <1>2, <1>3 DEF AdvanceWithin

LEMMA TimedEffect ==
  ASSUME IInv, NEW r \in Runs, NEW a \in Slots, NEW i \in Steps(r), IsLive(r), nextStep(r, i),
         AdvanceTimed(r, a, i)
  PROVE  RunEffect /\ ActEffect
<1>1. Typed /\ RunOK(r) /\ i \in Nat BY PlanIs DEF IInv
<1>2. CASE Ends(r, a, "failed") BY <1>1, <1>2, EndEffect
<1>3. CASE Waits(r, i, "ahead") /\ Answers(r, a, "wait")
  <2>1. Notes(r) \/ UNCHANGED <<run, receipt>> BY <1>1, <1>3, WaitEffect
  <2>2. QED BY <1>1, <1>3, <2>1, AnswerEffect DEF RunEffect
<1>4. CASE /\ Completes(r, i, i, "none") /\ Answers(r, a, "continue")
           /\ UNCHANGED run \/ Becomes(r, "waiting")
  <2>1. Stays(r) BY <1>4 DEF Stays
  <2>2. Done(r) BY <1>1, <1>4, <2>1, CompleteEffect
  <2>3. QED BY <1>1, <1>4, <2>2, AnswerEffect DEF RunEffect
<1>5. QED BY <1>2, <1>3, <1>4 DEF AdvanceTimed

\* An output taken from a call is that of the step the call was made for.
LEMMA OutputTaken ==
  ASSUME Typed, NEW r \in Runs, NEW a \in Slots, NEW i \in Steps(r), IsLive(r), nextStep(r, i),
         Apart(run[r].plan) => act[r][a].step = i,
         Completes(r, i, act[r][a].step, "none"), Becomes(r, "running"), Answers(r, a, "continue")
  PROVE  RunEffect /\ ActEffect
<1>1. act \in [Runs -> [Slots -> Attempt]] BY DEF Typed
<1>2. act[r][a] \in Attempt BY <1>1
<1>3. act[r][a].step \in Nat BY <1>2 DEF Attempt
<1>4. Stays(r) BY DEF Stays
<1>5. Done(r) BY <1>3, <1>4, CompleteEffect
<1>6. QED BY <1>5, AnswerEffect DEF RunEffect

LEMMA CallMade ==
  ASSUME Typed, NEW r \in Runs, RunOK(r), NEW a \in Slots, NEW i \in Steps(r), IsLive(r),
         nextStep(r, i), NEW due \in {"none", "ahead"},
         NEW ask \in {"request", "job", "start", "poll"},
         ask = "request" => Kind(r, i) = "http",
         Waits(r, i, due), Calls(r, a, i, ask)
  PROVE  RunEffect /\ ActEffect
<1>1. Notes(r) \/ UNCHANGED <<run, receipt>> BY WaitEffect
<1>2. QED BY <1>1, CallEffect DEF RunEffect

LEMMA HttpEffect ==
  ASSUME IInv, NEW r \in Runs, NEW a \in Slots, NEW i \in Steps(r), IsLive(r), nextStep(r, i),
         AdvanceHttp(r, a, i)
  PROVE  RunEffect /\ ActEffect
<1>1. Typed /\ RunOK(r) /\ AskOK(r, a) BY DEF IInv
<1>2. Kind(r, i) = "http" BY DEF AdvanceHttp
<1>3. CASE Ends(r, a, "failed") BY <1>1, <1>3, EndEffect
<1>4. CASE Waits(r, i, "none") /\ Calls(r, a, i, "request") BY <1>1, <1>2, <1>4, CallMade
<1>5. CASE /\ Matches(r, a, i) /\ Completes(r, i, act[r][a].step, "none")
           /\ Becomes(r, "running") /\ Answers(r, a, "continue")
  <2>1. /\ act[r][a].step \in Steps(r) /\ Kind(r, act[r][a].step) = "http"
        /\ run[r].plan[act[r][a].step].url = run[r].plan[i].url
    BY <1>1, <1>5 DEF Matches, AskOK
  <2>2. Apart(run[r].plan) => act[r][a].step = i BY <1>2, <2>1 DEF Apart, Kind, Steps
  <2>3. QED BY <1>1, <1>5, <2>2, OutputTaken
<1>6. QED BY <1>3, <1>4, <1>5 DEF AdvanceHttp

LEMMA CodeEffect ==
  ASSUME IInv, NEW r \in Runs, NEW a \in Slots, NEW i \in Steps(r), IsLive(r), nextStep(r, i),
         AdvanceCode(r, a, i)
  PROVE  RunEffect /\ ActEffect
<1>1. Typed /\ RunOK(r) BY DEF IInv
<1>2. CASE Ends(r, a, "failed") BY <1>1, <1>2, EndEffect
<1>3. CASE Waits(r, i, "ahead") /\ Calls(r, a, i, "job") BY <1>1, <1>3, CallMade
<1>4. CASE /\ act[r][a].step = i /\ Completes(r, i, act[r][a].step, "none")
           /\ Becomes(r, "running") /\ Answers(r, a, "continue")
  BY <1>1, <1>4, OutputTaken
<1>5. CASE Answers(r, a, "wait") /\ UNCHANGED <<run, receipt>>
  BY <1>1, <1>5, AnswerEffect DEF RunEffect
<1>6. QED BY <1>2, <1>3, <1>4, <1>5 DEF AdvanceCode

LEMMA AgentEffect ==
  ASSUME IInv, NEW r \in Runs, NEW a \in Slots, NEW i \in Steps(r), IsLive(r), nextStep(r, i),
         AdvanceAgent(r, a, i)
  PROVE  RunEffect /\ ActEffect
<1>1. Typed /\ RunOK(r) BY DEF IInv
<1>2. CASE Ends(r, a, "failed") BY <1>1, <1>2, EndEffect
<1>3. CASE \E ask \in {"start", "poll"} : Waits(r, i, "none") /\ Calls(r, a, i, ask)
  BY <1>1, <1>3, CallMade
<1>4. CASE /\ act[r][a].step = i /\ Completes(r, i, act[r][a].step, "none")
           /\ Becomes(r, "running") /\ Answers(r, a, "continue")
  BY <1>1, <1>4, OutputTaken
<1>5. CASE Answers(r, a, "wait") /\ UNCHANGED <<run, receipt>>
  BY <1>1, <1>5, AnswerEffect DEF RunEffect
<1>6. CASE /\ receipt' = [receipt EXCEPT ![r][i].task = "known"]
           /\ Answers(r, a, "wait") /\ UNCHANGED run
  <2> DEFINE row == [receipt[r][i] EXCEPT !.task = "known"]
  <2>1. receipt \in [Runs -> Receipts] /\ receipt[r] \in [Steps(r) -> ReceiptRow]
    BY <1>1 DEF Typed
  <2>2. receipt[r][i] \in ReceiptRow BY <2>1
  <2>3. receipt[r][i].status # "completed" BY DEF nextStep, Left, Completed
  <2>4. receipt[r][i].branch = "none" BY <1>1, <2>3 DEF RunOK
  <2>5. row \in ReceiptRow /\ row.status # "completed" /\ row.branch = "none"
    BY <2>2, <2>3, <2>4 DEF ReceiptRow
  <2>6. Puts(r, i, row) BY <1>6, <2>1, <2>2 DEF Puts, ReceiptRow
  <2> HIDE DEF row
  <2>7. Notes(r) BY <1>6, <2>5, <2>6 DEF Notes, Stays
  <2>8. QED BY <1>1, <1>6, <2>7, AnswerEffect DEF RunEffect
<1>7. QED BY <1>2, <1>3, <1>4, <1>5, <1>6 DEF AdvanceAgent

LEMMA AdvanceEffect ==
  ASSUME IInv, NEW r \in Runs, NEW a \in Slots, Advance(r, a)
  PROVE  RunEffect /\ ActEffect
<1>1. Typed BY DEF IInv
<1>2. CASE AdvanceOver(r, a) BY <1>1, <1>2, AnswerEffect DEF AdvanceOver, RunEffect
<1>3. CASE AdvanceBlocked(r, a) BY <1>1, <1>3, EndEffect DEF AdvanceBlocked, Runnable
<1>4. CASE AdvanceEnds(r, a)
  <2>1. Finishes(r) /\ Answers(r, a, "done") BY <1>4 DEF AdvanceEnds, Runnable, Ends, Finishes
  <2>2. QED BY <1>1, <2>1, AnswerEffect DEF RunEffect
<1>5. CASE AdvanceStep(r, a)
  <2>1. PICK i \in Steps(r) :
          /\ nextStep(r, i) /\ IsLive(r)
          /\ \/ AdvanceWithin(r, a, i) \/ AdvanceTimed(r, a, i)
             \/ AdvanceHttp(r, a, i) \/ AdvanceCode(r, a, i) \/ AdvanceAgent(r, a, i)
    BY <1>5 DEF AdvanceStep, Runnable
  <2>2. QED BY <2>1, WithinEffect, TimedEffect, HttpEffect, CodeEffect, AgentEffect
<1>6. QED BY <1>2, <1>3, <1>4, <1>5 DEF Advance

-----------------------------------------------------------------------------
\* The effects of the other steps.

LEMMA CallingEffect ==
  ASSUME Typed, NEW r \in Runs, NEW a \in Slots, Calling(r, a)
  PROVE  UNCHANGED <<flow, run, receipt>> /\ ActEffect
<1>1. UNCHANGED <<flow, run, receipt>> BY DEF Calling, data
<1>2. CASE Requests(r, a) BY <1>1, <1>2, BackEffect DEF Requests
<1>3. CASE Submits(r, a) BY <1>1, <1>3, BackEffect, AnswerEffect DEF Submits
<1>4. CASE StartsTask(r, a) BY <1>1, <1>4, BackEffect DEF StartsTask
<1>5. CASE PollsTask(r, a)
  <2>1. \E answer \in {"completed", "failed", "pending", "task-failed"} : Back(r, a, answer)
    BY <1>5 DEF PollsTask
  <2>2. QED BY <1>1, <2>1, BackEffect
<1>6. QED BY <1>1, <1>2, <1>3, <1>4, <1>5 DEF Calling

LEMMA LoopEffect ==
  ASSUME Typed, NEW r \in Runs,
         \/ \E a \in Slots : Reports(r, a) \/ Lost(r, a) \/ CutOff(r, a)
         \/ \E a, b \in Slots : TimesOut(r, a, b)
         \/ Resumes(r) \/ TimerFires(r) \/ StartRun(r)
  PROVE  UNCHANGED <<flow, run, receipt>> /\ ActEffect
<1>1. ASSUME NEW a, act' = [act EXCEPT ![r][a] = Idle] \/ act' = [act EXCEPT ![r][a] = Starting]
      PROVE  ActEffect
  BY <1>1, IdleEffect, IterateEffect
<1>2. CASE \E a \in Slots : Reports(r, a)
  <2>1. PICK a \in Slots : Reports(r, a) BY <1>2
  <2>2. act' = [act EXCEPT ![r][a] = Idle] \/ act' = [act EXCEPT ![r][a] = Starting]
    BY <2>1 DEF Reports, Iterates
  <2>3. QED BY <1>1, <2>1, <2>2 DEF Reports, data
<1>3. CASE \E a \in Slots : Lost(r, a)
  <2>1. PICK a \in Slots : Lost(r, a) BY <1>3
  <2>2. act' = [act EXCEPT ![r][a] = Idle] \/ act' = [act EXCEPT ![r][a] = Starting]
    BY <2>1 DEF Lost
  <2>3. QED BY <1>1, <2>1, <2>2 DEF Lost, data
<1>4. CASE \E a \in Slots : CutOff(r, a) BY <1>4, BackEffect, AnswerEffect DEF CutOff, data
<1>5. CASE \E a, b \in Slots : TimesOut(r, a, b) BY <1>1, <1>5 DEF TimesOut, data
<1>6. CASE Resumes(r) \/ TimerFires(r) \/ StartRun(r)
  <2>1. act' = [act EXCEPT ![r][loop[r].act] = Starting]
    BY <1>6 DEF Resumes, TimerFires, StartRun, Iterates
  <2>2. QED BY <1>1, <1>6, <2>1 DEF Resumes, TimerFires, StartRun, data
<1>7. QED BY <1>2, <1>3, <1>4, <1>5, <1>6

LEMMA SameActs == ASSUME Typed, UNCHANGED act PROVE ActEffect
  BY DEF Typed, ActEffect

LEMMA AdmitEffect ==
  ASSUME Typed, NEW r \in Runs, Admit(r)
  PROVE  UNCHANGED <<flow, act>> /\ RunEffect
<1>1. flow.sponsor \in Nat BY DEF Typed
<1>2. Begins(r) BY <1>1 DEF Admit, Begins
<1>3. QED BY <1>2 DEF Admit, RunEffect

\* An answer completes the step that waits for it, the next one of its run.
LEMMA RespondEffect ==
  ASSUME IInv, NEW r \in Runs, Respond(r)
  PROVE  UNCHANGED <<flow, act>> /\ RunEffect
<1>1. Typed /\ RunOK(r) BY DEF IInv
<1>2. PICK i \in Steps(r) : receipt[r][i].status = "waiting" /\ Completes(r, i, i, "none")
  BY DEF Respond
<1>3. nextStep(r, i) /\ i \in Nat BY <1>1, <1>2, PlanIs DEF RunOK
<1>4. IsLive(r) /\ Stays(r) BY DEF Respond, Stays
<1>5. Done(r) BY <1>1, <1>2, <1>3, <1>4, CompleteEffect
<1>6. QED BY <1>5 DEF Respond, RunEffect

LEMMA CancelEffect ==
  ASSUME Typed, NEW r \in Runs, Cancel(r)
  PROVE  UNCHANGED <<flow, act>> /\ RunEffect
<1>1. Becomes(r, "cancelled") /\ IsLive(r) BY DEF Cancel
<1>2. UNCHANGED <<flow, act, receipt>> BY DEF Cancel
<1>3. Stops({r}) BY <1>1, <1>2, Status DEF Stops, Ended
<1>4. QED BY <1>2, <1>3 DEF RunEffect

LEMMA DueEffect ==
  ASSUME IInv, NEW r \in Runs, NEW i \in Steps(r), DuePasses(r, i)
  PROVE  UNCHANGED <<flow, act>> /\ RunEffect
<1> DEFINE row == [receipt[r][i] EXCEPT !.due = "past"]
<1>1. /\ UNCHANGED <<flow, act, run>> /\ receipt[r][i].status = "waiting"
      /\ receipt' = [receipt EXCEPT ![r][i].due = "past"]
  BY DEF DuePasses
<1>2. Typed /\ RunOK(r) BY DEF IInv
<1>3. receipt \in [Runs -> Receipts] /\ receipt[r] \in [Steps(r) -> ReceiptRow]
  BY <1>2 DEF Typed
<1>4. receipt[r][i] \in ReceiptRow BY <1>3
<1>5. nextStep(r, i) /\ receipt[r][i].branch = "none" BY <1>1, <1>2 DEF RunOK
<1>6. row \in ReceiptRow /\ row.status # "completed" /\ row.branch = "none"
  BY <1>1, <1>4, <1>5 DEF ReceiptRow
<1>7. Puts(r, i, row) BY <1>1, <1>3, <1>4 DEF Puts, ReceiptRow
<1> HIDE DEF row
<1>8. Notes(r) BY <1>1, <1>5, <1>6, <1>7 DEF Notes, Stays
<1>9. QED BY <1>1, <1>8 DEF RunEffect

LEMMA DisableEffect ==
  ASSUME Typed, Disable
  PROVE  UNCHANGED act /\ RunEffect
<1>1. run \in [Runs -> RunRow] BY DEF Typed
<1>2. /\ run' = [r \in Runs |-> IF IsLive(r) THEN [run[r] EXCEPT !.status = "blocked"] ELSE run[r]]
      /\ LiveRuns # {} /\ UNCHANGED <<act, receipt>>
  BY DEF Disable, Changes, Untouched
<1>3. ASSUME NEW r \in Runs
      PROVE  /\ [run[r] EXCEPT !.status = "blocked"] \in RunRow
             /\ [run[r] EXCEPT !.status = "blocked"].status = "blocked"
             /\ [run[r] EXCEPT !.status = "blocked"].plan = run[r].plan
  <2>1. run[r] \in RunRow BY <1>1
  <2>2. QED BY <2>1 DEF RunRow, Ended
<1>4. run' \in [Runs -> RunRow] BY <1>1, <1>2, <1>3
<1>5. \A r \in LiveRuns : run'[r].status = "blocked" /\ run'[r].plan = run[r].plan
  BY <1>2, <1>3 DEF LiveRuns
<1>6. \A r \in Runs \ LiveRuns : run'[r] = run[r] BY <1>2 DEF LiveRuns
<1>7. Stops(LiveRuns) BY <1>2, <1>4, <1>5, <1>6 DEF Stops, LiveRuns, Ended
<1>8. LiveRuns \in SUBSET Runs BY DEF LiveRuns
<1>9. QED BY <1>2, <1>7, <1>8 DEF RunEffect

LEMMA FlowEffect ==
  ASSUME Typed, Enable \/ Disable \/ disableAutomatically \/ Sponsorship \/ Share
  PROVE  flow' \in [enabled : BOOLEAN, sponsor : Nat]
<1>1. flow \in [enabled : BOOLEAN, sponsor : Nat] BY DEF Typed
<1>2. CASE Enable BY <1>1, <1>2 DEF Enable
<1>3. CASE Disable BY <1>1, <1>3 DEF Disable
<1>4. CASE disableAutomatically BY <1>1, <1>4 DEF disableAutomatically
<1>5. CASE Sponsorship BY <1>1, <1>5 DEF Sponsorship
<1>6. CASE Share BY <1>1, <1>6 DEF Share
<1>7. QED BY <1>2, <1>3, <1>4, <1>5, <1>6

LEMMA StepEffect ==
  ASSUME IInv, [Next]_vars
  PROVE  RunEffect /\ ActEffect /\ flow' \in [enabled : BOOLEAN, sponsor : Nat]
<1>1. Typed /\ flow \in [enabled : BOOLEAN, sponsor : Nat] BY DEF IInv, Typed
<1>2. ASSUME UNCHANGED <<flow, act>>, RunEffect
      PROVE  RunEffect /\ ActEffect /\ flow' \in [enabled : BOOLEAN, sponsor : Nat]
  BY <1>1, <1>2, SameActs
<1>3. ASSUME UNCHANGED <<flow, run, receipt>>, ActEffect
      PROVE  RunEffect /\ ActEffect /\ flow' \in [enabled : BOOLEAN, sponsor : Nat]
  BY <1>1, <1>3 DEF RunEffect
<1>4. ASSUME UNCHANGED <<run, receipt>> PROVE RunEffect BY <1>4 DEF RunEffect
<1>5. CASE UNCHANGED vars
  <2>1. UNCHANGED <<flow, act, run, receipt>> BY <1>5 DEF vars
  <2>2. QED BY <1>2, <1>4, <2>1
<1>6. ASSUME NEW r \in Runs, NEW a \in Slots, Advance(r, a)
      PROVE  RunEffect /\ ActEffect /\ flow' \in [enabled : BOOLEAN, sponsor : Nat]
  <2>1. UNCHANGED flow BY <1>6 DEF Advance
  <2>2. QED BY <1>1, <1>6, <2>1, AdvanceEffect
<1>7. ASSUME NEW r \in Runs, \/ \E a \in Slots : Calling(r, a) \/ Reports(r, a)
                             \/ \E a, b \in Slots : TimesOut(r, a, b)
                             \/ \E a \in Slots : Lost(r, a) \/ CutOff(r, a)
                             \/ Resumes(r) \/ TimerFires(r) \/ StartRun(r)
      PROVE  RunEffect /\ ActEffect /\ flow' \in [enabled : BOOLEAN, sponsor : Nat]
  <2>1. UNCHANGED <<flow, run, receipt>> /\ ActEffect BY <1>1, <1>7, CallingEffect, LoopEffect
  <2>2. QED BY <1>3, <2>1
<1>8. ASSUME NEW r \in Runs, \/ Admit(r) \/ Respond(r) \/ Cancel(r)
                             \/ \E i \in Steps(r) : DuePasses(r, i)
      PROVE  RunEffect /\ ActEffect /\ flow' \in [enabled : BOOLEAN, sponsor : Nat]
  <2>1. UNCHANGED <<flow, act>> /\ RunEffect
    BY <1>1, <1>8, AdmitEffect, RespondEffect, CancelEffect, DueEffect
  <2>2. QED BY <1>2, <2>1
<1>9. ASSUME NEW r \in Runs, \/ WakeRun(r) \/ Signal(r) \/ \E i \in Steps(r) : TaskEnds(r, i)
      PROVE  RunEffect /\ ActEffect /\ flow' \in [enabled : BOOLEAN, sponsor : Nat]
  <2>1. UNCHANGED <<flow, act, run, receipt>>
    BY <1>9 DEF WakeRun, Signal, TaskEnds, TaskEnds, data
  <2>2. QED BY <1>2, <1>4, <2>1
<1>10. CASE Enable \/ Disable \/ disableAutomatically \/ Sponsorship \/ Share
  <2>1. flow' \in [enabled : BOOLEAN, sponsor : Nat] BY <1>1, <1>10, FlowEffect
  <2>2. CASE Disable BY <1>1, <2>1, <2>2, DisableEffect, SameActs
  <2>3. CASE Enable \/ disableAutomatically \/ Sponsorship \/ Share
    <3>1. UNCHANGED <<act, run, receipt>>
      BY <2>3 DEF Enable, disableAutomatically, Sponsorship, Share, Untouched
    <3>2. QED BY <1>1, <1>4, <2>1, <3>1, SameActs
  <2>4. QED BY <1>10, <2>2, <2>3
<1>11. QED BY <1>5, <1>6, <1>7, <1>8, <1>9, <1>10 DEF Next

-----------------------------------------------------------------------------
\* The invariant

LEMMA InitOK == Init => IInv
<1> SUFFICES ASSUME Init PROVE IInv OBVIOUS
<1>1. \A r \in Runs : run[r].plan = <<>> /\ receipt[r] = <<>> /\ Steps(r) = {}
  BY DEF Init, Steps
<1>2. Idle \in Attempt /\ Idle.ask = "none" BY IdleIs
<1>3. <<>> \in Receipts
  <2>1. <<>> \in [DOMAIN <<>> -> ReceiptRow] OBVIOUS
  <2>2. QED BY <2>1 DEF Receipts
<1>4. Typed
  <2>1. flow \in [enabled : BOOLEAN, sponsor : Nat] BY DEF Init
  <2>2. run \in [Runs -> RunRow] BY DEF Init, RunRow
  <2>3. receipt \in [Runs -> Receipts] BY <1>3 DEF Init
  <2>4. \A r \in Runs : receipt[r] \in [Steps(r) -> ReceiptRow]
    <3>1. <<>> \in [{} -> ReceiptRow] OBVIOUS
    <3>2. QED BY <1>1, <3>1
  <2>5. act \in [Runs -> [Slots -> Attempt]] BY <1>2 DEF Init
  <2>6. QED BY <2>1, <2>2, <2>3, <2>4, <2>5 DEF Typed
<1>5. \A r \in Runs : RunOK(r) BY <1>1 DEF RunOK
<1>6. \A r \in Runs, a \in Slots : AskOK(r, a) BY <1>2 DEF Init, AskOK
<1>7. OwnOutput BY <1>1 DEF OwnOutput, Completed
<1>8. QED BY <1>4, <1>5, <1>6, <1>7 DEF IInv

LEMMA StepOK == IInv /\ [Next]_vars => IInv'
<1> SUFFICES ASSUME IInv, [Next]_vars PROVE IInv' OBVIOUS
<1>1. RunEffect /\ ActEffect /\ flow' \in [enabled : BOOLEAN, sponsor : Nat] BY StepEffect
<1>2. /\ Typed /\ OwnOutput /\ (\A r \in Runs : RunOK(r))
      /\ \A r \in Runs, a \in Slots : AskOK(r, a)
  BY DEF IInv
<1>3. Typed' BY <1>1, <1>2, EffectTyped
<1>4. (\A r \in Runs : RunOK(r)') /\ OwnOutput' BY <1>1, <1>2, <1>3, EffectRuns
<1>5. \A r \in Runs, a \in Slots : AskOK(r, a)' BY <1>1, <1>2, EffectAsks
<1>6. QED BY <1>3, <1>4, <1>5 DEF IInv

THEOREM Inductive == Spec => []IInv
BY InitOK, StepOK, PTL DEF Spec

\* Every completed step of a run whose definition calls no address twice keeps
\* what the call made for it answered, whatever late attempts bring.
THEOREM OutputsOwn == Spec => []OwnOutput
<1>1. IInv => OwnOutput BY DEF IInv
<1>2. QED BY <1>1, Inductive, PTL

-----------------------------------------------------------------------------
\* The promise

KeptOf(r) == [i \in Completed(r) |-> receipt[r][i].branch]
PhaseOf(r) ==
  CASE run[r].status \in Live -> "open"
    [] run[r].status \in {"failed", "blocked", "cancelled"} -> "stopped"
    [] OTHER -> run[r].status

LEMMA ViewIs ==
  /\ Phase = [r \in Runs |-> PhaseOf(r)]
  /\ Given = [r \in Runs |-> run[r].plan]
  /\ Kept = [r \in Runs |-> KeptOf(r)]
BY DEF Phase, PhaseOf, Given, Kept, KeptOf

LEMMA ViewIsNext ==
  /\ Phase' = [r \in Runs |-> PhaseOf(r)']
  /\ Given' = [r \in Runs |-> run'[r].plan]
  /\ Kept' = [r \in Runs |-> KeptOf(r)']
BY DEF Phase, PhaseOf, Given, Kept, KeptOf

\* A reader who knows the completed steps finds the same steps left.
LEMMA LeftIs ==
  ASSUME Typed, NEW r \in Runs, RunOK(r)
  PROVE  Promise!Left(r) = Left(r)
<1>1. Given[r] = run[r].plan /\ Kept[r] = KeptOf(r) BY ViewIs
<1>2. DOMAIN KeptOf(r) = Completed(r)
      /\ \A i \in Completed(r) : KeptOf(r)[i] = receipt[r][i].branch
  BY DEF KeptOf
<1>3. ASSUME NEW i \in Steps(r), NEW gate \in run[r].plan[i].gates
      PROVE  receipt[r][gate.step].branch = gate.branch
               <=> gate.step \in Completed(r) /\ receipt[r][gate.step].branch = gate.branch
  <2>1. gate.step \in Steps(r) /\ gate.branch # "none" BY <1>3, PlanIs
  <2>2. gate.step \notin Completed(r) => receipt[r][gate.step].branch = "none"
    BY <2>1 DEF RunOK, Completed
  <2>3. QED BY <2>1, <2>2
<1>4. \A i \in Steps(r) : Promise!Chosen(r, i) <=> Chosen(r, i)
  <2> SUFFICES ASSUME NEW i \in Steps(r) PROVE Promise!Chosen(r, i) <=> Chosen(r, i)
    OBVIOUS
  <2>1. Promise!Chosen(r, i) <=>
          \A gate \in run[r].plan[i].gates :
            gate.step \in Completed(r) /\ receipt[r][gate.step].branch = gate.branch
    BY <1>1, <1>2 DEF Promise!Chosen
  <2>2. QED BY <1>3, <2>1 DEF Chosen
<1>5. QED BY <1>1, <1>2, <1>4 DEF Promise!Left, Left, Steps

LEMMA StepDone ==
  ASSUME Typed, NEW r \in Runs, RunOK(r), Done(r)
  PROVE  Promise!Next
<1>1. PICK i \in Steps(r), row \in ReceiptRow :
        nextStep(r, i) /\ row.status = "completed" /\ Puts(r, i, row)
  BY DEF Done
<1>2. /\ receipt'[r][i] = row
      /\ \A j \in Steps(r) \ {i} : receipt'[r][j] = receipt[r][j]
      /\ \A q \in Runs \ {r} : receipt'[q] = receipt[q]
  BY <1>1, Put
<1>3. IsLive(r) /\ Stays(r) BY DEF Done
<1>4. /\ run'[r].plan = run[r].plan /\ run'[r].status \in Live
      /\ \A q \in Runs \ {r} : run'[q] = run[q]
  BY <1>3, Stayed
<1>5. Phase[r] = "open" BY <1>3, ViewIs DEF PhaseOf
<1>6. i \in Promise!Left(r) /\ \A j \in Promise!Left(r) : i <= j
  BY <1>1, LeftIs DEF nextStep
<1>7. row.branch \in {"none", "ifMet", "otherwise"} BY <1>1 DEF ReceiptRow
<1>8. Completed(r)' = Completed(r) \cup {i}
  BY <1>1, <1>2, <1>4 DEF Completed, Steps
<1>9. KeptOf(r)' = [j \in Completed(r) \cup {i} |-> IF j = i THEN row.branch ELSE KeptOf(r)[j]]
  <2>1. \A j \in Completed(r) \ {i} : receipt'[r][j].branch = KeptOf(r)[j]
    BY <1>2 DEF KeptOf, Completed
  <2>2. KeptOf(r)' = [j \in Completed(r) \cup {i} |-> receipt'[r][j].branch]
    BY <1>8 DEF KeptOf
  <2>3. QED BY <1>2, <2>1, <2>2
<1>10. DOMAIN Kept[r] = Completed(r) /\ Kept[r] = KeptOf(r) BY ViewIs DEF KeptOf
<1>11. \A q \in Runs \ {r} : KeptOf(q)' = KeptOf(q) /\ PhaseOf(q)' = PhaseOf(q)
  BY <1>2, <1>4 DEF KeptOf, Completed, Steps, PhaseOf
<1>12. Kept' = [Kept EXCEPT ![r] =
                 [j \in DOMAIN Kept[r] \cup {i} |-> IF j = i THEN row.branch ELSE Kept[r][j]]]
  BY <1>9, <1>10, <1>11, ViewIs, ViewIsNext
<1>13. PhaseOf(r)' = PhaseOf(r) BY <1>3, <1>4 DEF PhaseOf
<1>14. Phase' = Phase BY <1>11, <1>13, ViewIs, ViewIsNext
<1>15. Given' = Given BY <1>4, ViewIs, ViewIsNext
<1>16. Promise!Complete(r) BY <1>5, <1>6, <1>7, <1>12, <1>14, <1>15 DEF Promise!Complete
<1>17. QED BY <1>16 DEF Promise!Next

\* Steps that leave every run's phase, definition and completed steps.
LEMMA Silent ==
  ASSUME \A q \in Runs : /\ PhaseOf(q)' = PhaseOf(q) /\ run'[q].plan = run[q].plan
                         /\ KeptOf(q)' = KeptOf(q)
  PROVE  UNCHANGED <<Phase, Given, Kept>>
BY ViewIs, ViewIsNext

LEMMA StepNoted ==
  ASSUME Typed, Typed', NEW r \in Runs, RunOK(r), Notes(r)
  PROVE  UNCHANGED <<Phase, Given, Kept>>
<1>1. Stays(r) /\ \E i \in Steps(r), row \in ReceiptRow : Puts(r, i, row) BY DEF Notes
<1>2. \A q \in Runs \ {r} : receipt'[q] = receipt[q] /\ run'[q] = run[q] BY <1>1, Put, Stayed
<1>3. /\ run'[r].plan = run[r].plan
      /\ run'[r].status = run[r].status \/ {run[r].status, run'[r].status} \subseteq Live
  BY <1>1, Stayed
<1>4. PhaseOf(r)' = PhaseOf(r) BY <1>3 DEF PhaseOf
<1>5. KeptOf(r)' = KeptOf(r) BY NoteRun DEF KeptOf
<1>6. \A q \in Runs \ {r} : PhaseOf(q)' = PhaseOf(q) /\ KeptOf(q)' = KeptOf(q)
  BY <1>2 DEF KeptOf, Completed, Steps, PhaseOf
<1>7. QED BY <1>2, <1>3, <1>4, <1>5, <1>6, Silent

LEMMA StepBegun ==
  ASSUME Typed, NEW r \in Runs, RunOK(r), Begins(r)
  PROVE  Promise!Next
<1>1. /\ run'[r].status = "queued" /\ run'[r].plan \in Plans
      /\ receipt'[r] = [i \in Steps(r)' |-> NoReceipt]
      /\ \A q \in Runs \ {r} : run'[q] = run[q] /\ receipt'[q] = receipt[q]
  BY BeginRun
<1>2. run[r].status = "none" /\ run[r].plan = <<>> BY DEF Begins, RunOK
<1>3. Completed(r) = {} BY <1>2 DEF Completed, Steps
<1>4. Completed(r)' = {} BY <1>1 DEF Completed, NoReceipt
<1>5. KeptOf(r)' = KeptOf(r) BY <1>3, <1>4 DEF KeptOf
<1>6. \A q \in Runs \ {r} : PhaseOf(q)' = PhaseOf(q) /\ KeptOf(q)' = KeptOf(q)
  BY <1>1 DEF KeptOf, Completed, Steps, PhaseOf
<1>7. PhaseOf(r) = "none" /\ PhaseOf(r)' = "open" BY <1>1, <1>2 DEF PhaseOf
<1>8. Phase[r] = "none" /\ Phase' = [Phase EXCEPT ![r] = "open"]
  BY <1>6, <1>7, ViewIs, ViewIsNext
<1>9. Given' = [Given EXCEPT ![r] = run'[r].plan] BY <1>1, ViewIs, ViewIsNext
<1>10. Kept' = Kept BY <1>5, <1>6, ViewIs, ViewIsNext
<1>11. Promise!Begin(r) BY <1>1, <1>8, <1>9, <1>10 DEF Promise!Begin
<1>12. QED BY <1>11 DEF Promise!Next

LEMMA StepFinished ==
  ASSUME Typed, NEW r \in Runs, RunOK(r), Finishes(r)
  PROVE  Promise!Next
<1>1. IsLive(r) /\ Left(r) = {} /\ Becomes(r, "completed") /\ UNCHANGED receipt BY DEF Finishes
<1>2. /\ run'[r].status = "completed" /\ run'[r].plan = run[r].plan
      /\ \A q \in Runs \ {r} : run'[q] = run[q]
  BY <1>1, Status DEF Ended
<1>3. \A q \in Runs : KeptOf(q)' = KeptOf(q)
  BY <1>1, <1>2 DEF KeptOf, Completed, Steps
<1>4. \A q \in Runs \ {r} : PhaseOf(q)' = PhaseOf(q) BY <1>2 DEF PhaseOf
<1>5. PhaseOf(r) = "open" /\ PhaseOf(r)' = "completed" BY <1>1, <1>2 DEF PhaseOf
<1>6. Phase[r] = "open" /\ Phase' = [Phase EXCEPT ![r] = "completed"]
  BY <1>4, <1>5, ViewIs, ViewIsNext
<1>7. Given' = Given /\ Kept' = Kept BY <1>2, <1>3, ViewIs, ViewIsNext
<1>8. Promise!Finish(r) BY <1>1, <1>6, <1>7, LeftIs DEF Promise!Finish
<1>9. QED BY <1>8 DEF Promise!Next

LEMMA StepStopped ==
  ASSUME Typed, NEW S \in SUBSET Runs, Stops(S)
  PROVE  Promise!Next
<1>1. /\ S # {} /\ \A r \in S : IsLive(r)
      /\ \A r \in S : run'[r].status \in {"failed", "blocked", "cancelled"}
                      /\ run'[r].plan = run[r].plan
      /\ \A r \in Runs \ S : run'[r] = run[r]
      /\ UNCHANGED receipt
  BY DEF Stops, Ended
<1>2. \A r \in S : PhaseOf(r) = "open" /\ PhaseOf(r)' = "stopped" BY <1>1 DEF PhaseOf
<1>3. \A r \in Runs \ S : PhaseOf(r)' = PhaseOf(r) BY <1>1 DEF PhaseOf
<1>4. \A q \in Runs : KeptOf(q)' = KeptOf(q) BY <1>1 DEF KeptOf, Completed, Steps
<1>5. /\ \A r \in S : Phase[r] = "open"
      /\ Phase' = [r \in Runs |-> IF r \in S THEN "stopped" ELSE Phase[r]]
  BY <1>2, <1>3, ViewIs, ViewIsNext
<1>6. Given' = Given /\ Kept' = Kept BY <1>1, <1>4, ViewIs, ViewIsNext
<1>7. Promise!Stop(S) BY <1>1, <1>5, <1>6 DEF Promise!Stop
<1>8. QED BY <1>7 DEF Promise!Next

LEMMA StepPromised ==
  ASSUME IInv, IInv', [Next]_vars
  PROVE  Promise!Next \/ UNCHANGED <<Phase, Given, Kept>>
<1>1. RunEffect BY StepEffect
<1>2. Typed /\ Typed' /\ \A r \in Runs : RunOK(r) BY DEF IInv
<1>3. CASE UNCHANGED receipt /\ (UNCHANGED run \/ \E r \in Runs : Stays(r))
  <2>1. \A q \in Runs :
          /\ run'[q].plan = run[q].plan
          /\ run'[q].status = run[q].status \/ {run[q].status, run'[q].status} \subseteq Live
    BY <1>2, <1>3, Stayed
  <2>2. \A q \in Runs : PhaseOf(q)' = PhaseOf(q) /\ KeptOf(q)' = KeptOf(q)
    BY <1>3, <2>1 DEF PhaseOf, KeptOf, Completed, Steps
  <2>3. QED BY <2>1, <2>2, Silent
<1>4. CASE \E r \in Runs : Begins(r) \/ Done(r) \/ Notes(r) \/ Finishes(r)
  BY <1>2, <1>4, StepBegun, StepDone, StepNoted, StepFinished
<1>5. CASE \E S \in SUBSET Runs : Stops(S) BY <1>2, <1>5, StepStopped
<1>6. QED BY <1>1, <1>3, <1>4, <1>5 DEF RunEffect

\* Every behaviour of the runs is one of RunPromise: steps complete once each
\* and in the order of the definition, and a run that ended never changes.
THEOREM PromiseHolds == Spec => PromiseKept
<1>1. Init => Promise!Init
  <2> SUFFICES ASSUME Init PROVE Promise!Init OBVIOUS
  <2>1. \A r \in Runs : run[r].status = "none" /\ run[r].plan = <<>> BY DEF Init
  <2>2. \A r \in Runs : PhaseOf(r) = "none" BY <2>1 DEF PhaseOf
  <2>3. \A r \in Runs : Completed(r) = {} BY <2>1 DEF Completed, Steps
  <2>4. \A r \in Runs : KeptOf(r) = [i \in {} |-> "none"] BY <2>3 DEF KeptOf
  <2>5. QED BY <2>1, <2>2, <2>4, ViewIs DEF Promise!Init
<1>2. IInv /\ IInv' /\ [Next]_vars => [Promise!Next]_<<Phase, Given, Kept>>
  BY StepPromised
<1>3. QED BY <1>1, <1>2, Inductive, PTL DEF Spec, PromiseKept, Promise!Spec
=============================================================================
