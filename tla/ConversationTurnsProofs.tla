---------------------- MODULE ConversationTurnsProofs ----------------------
(***************************************************************************)
(* For every set of turns and workers and all limits: the types of         *)
(* ConversationTurns, that one attempt holds a turn, that no retry runs    *)
(* over a call of unknown outcome, and that every step of the chat is one  *)
(* ChatPromise allows.                                                     *)
(***************************************************************************)
EXTENDS ConversationTurns, TLAPS

TurnRow ==
  [status : Statuses, gen : Nat, epoch : Nat, attempts : 0..BusyLimit,
   live : BOOLEAN, code : {"none", "busy", "action"}, waived : Nat, started : BOOLEAN]

Doing ==
  [stage : {"idle", "run", "settled", "claimed", "model", "tool", "ready", "failing",
            "denied"},
   turn : Turns \cup {0}, gen : Nat, epoch : Nat, call : Nat, own : SUBSET Nat]

\* A worker that is not idle took the run of a turn of the chat.
Busy == \A w \in Workers : ~At(w, "idle") => worker[w].turn \in Turns

\* The worker made a claim, and has not left its attempt.
Attempting(w) == worker[w].stage \notin {"idle", "run", "settled"}

\* A claim was made at an epoch its turn has reached, and no other claim of
\* the turn was made at that epoch.
EpochsPast ==
  \A w \in Workers : Attempting(w) => worker[w].epoch <= turn[worker[w].turn].epoch

OneEach ==
  \A v, w \in Workers :
    /\ Attempting(v) /\ Attempting(w)
    /\ worker[v].turn = worker[w].turn /\ worker[v].epoch = worker[w].epoch
    => v = w

\* Messages are sent in the order of their turns.
InOrder ==
  \A t, u \in Turns : u < t /\ turn[t].status # "none" => turn[u].status # "none"

\* A worker waits for a tool it called itself.
OwnTool == \A w \in Workers : At(w, "tool") => worker[w].call \in worker[w].own

\* The attempt is the turn's current one, whatever its lease.
Holds(w) ==
  /\ Attempting(w)
  /\ turn[worker[w].turn].status = "processing"
  /\ turn[worker[w].turn].epoch = worker[w].epoch

Running(w) == worker[w].stage \in {"model", "tool", "ready"}

Sees(w) ==
  \A i \in DOMAIN calls[worker[w].turn] :
    \/ calls[worker[w].turn][i].kept
    \/ i \in worker[w].own
    \/ i <= turn[worker[w].turn].waived

AllSeen == \A w \in Workers : Holds(w) /\ Running(w) => Sees(w)

IInv ==
  TypeOK /\ Busy /\ EpochsPast /\ OneEach /\ InOrder /\ OwnTool /\ AllSeen

USE DEF Closed, Statuses, Kinds, At

-----------------------------------------------------------------------------
\* Types.

TurnsTyped ==
  /\ turn \in [Turns -> TurnRow]
  /\ \A t \in Turns : turn[t].live => turn[t].status = "processing"

CallsTyped == calls \in [Turns -> Seq(CallType)]
WorkersTyped == worker \in [Workers -> Doing]

LEMMA Parts ==
  TypeOK <=>
    /\ TurnsTyped /\ CallsTyped /\ WorkersTyped
    /\ box \in [Turns -> BOOLEAN]
    /\ runs \subseteq Turns \X Nat
    /\ pending \subseteq Turns \X Nat \X Nat
    /\ access \in {"ok", "unreadable", "departed", "deleted"}
    /\ native \in BOOLEAN
    /\ commands \in 0..MaxCommands
BY DEF TypeOK, TurnsTyped, CallsTyped, WorkersTyped, TurnRow, Doing

\* A turn that ends, with its lease dropped, has its types.
LEMMA EndedTyped ==
  ASSUME TurnsTyped, NEW t \in Turns, NEW s \in Statuses, NEW c \in {"none", "busy", "action"}
  PROVE  /\ Ended(t, s, c) \in [Turns -> TurnRow]
         /\ \A u \in Turns : Ended(t, s, c)[u].live => Ended(t, s, c)[u].status = "processing"
         /\ Ended(t, s, c)[t].status = s /\ ~Ended(t, s, c)[t].live
         /\ Ended(t, s, c)[t].epoch = turn[t].epoch
         /\ \A u \in Turns : u # t => Ended(t, s, c)[u] = turn[u]
<1> DEFINE row == [turn[t] EXCEPT !.status = s, !.live = FALSE, !.code = c]
<1>1. turn[t] \in TurnRow
  BY DEF TurnsTyped
<1>2. row \in TurnRow
  BY <1>1 DEF TurnRow
<1>3. row.live => row.status = "processing"
  BY <1>1 DEF TurnRow
<1>4. Ended(t, s, c) = [turn EXCEPT ![t] = row]
  BY DEF Ended, TurnsTyped
<1> QED BY <1>1, <1>2, <1>3, <1>4 DEF TurnsTyped, TurnRow

LEMMA RequeuedTyped ==
  ASSUME TurnsTyped, NEW t \in Turns
  PROVE  /\ Requeued(t) \in [Turns -> TurnRow]
         /\ \A u \in Turns : Requeued(t)[u].live => Requeued(t)[u].status = "processing"
         /\ Requeued(t)[t].status = "queued" /\ ~Requeued(t)[t].live
         /\ Requeued(t)[t].epoch = turn[t].epoch + 1
         /\ \A u \in Turns : u # t => Requeued(t)[u] = turn[u]
<1> DEFINE row == [turn[t] EXCEPT !.status = "queued", !.gen = @ + 1, !.epoch = @ + 1,
               !.attempts = 0, !.live = FALSE, !.code = "none"]
<1>1. turn[t] \in TurnRow
  BY DEF TurnsTyped
<1>a. 0 \in 0..BusyLimit /\ turn[t].gen + 1 \in Nat /\ turn[t].epoch + 1 \in Nat
  BY <1>1, LimitsAssumption DEF TurnRow
<1>2. row \in TurnRow
  BY <1>1, <1>a DEF TurnRow
<1>3. row.live => row.status = "processing"
  BY <1>1 DEF TurnRow
<1>4. Requeued(t) = [turn EXCEPT ![t] = row]
  BY DEF Requeued, TurnsTyped
<1> QED BY <1>1, <1>2, <1>3, <1>4 DEF TurnsTyped, TurnRow

LEMMA ClaimedTyped ==
  ASSUME TurnsTyped, NEW t \in Turns, turn[t].attempts < attemptLimit(turn[t].code)
  PROVE  /\ Claimed(t) \in [Turns -> TurnRow]
         /\ \A u \in Turns : Claimed(t)[u].live => Claimed(t)[u].status = "processing"
         /\ Claimed(t)[t].epoch = turn[t].epoch + 1
         /\ \A u \in Turns : u # t => Claimed(t)[u] = turn[u]
<1> DEFINE row == [turn[t] EXCEPT !.status = "processing", !.epoch = @ + 1,
               !.attempts = @ + 1, !.live = TRUE, !.code = "none"]
<1>1. turn[t] \in TurnRow
  BY DEF TurnsTyped
<1>a. /\ turn[t].attempts + 1 \in 0..BusyLimit /\ turn[t].epoch + 1 \in Nat
  <2>1. turn[t].attempts \in Nat /\ turn[t].epoch \in Nat
    BY <1>1 DEF TurnRow
  <2> QED BY <2>1, LimitsAssumption DEF attemptLimit
<1>2. row \in TurnRow
  BY <1>1, <1>a DEF TurnRow
<1>3. row.live => row.status = "processing"
  BY <1>1 DEF TurnRow
<1>4. Claimed(t) = [turn EXCEPT ![t] = row]
  BY DEF Claimed, TurnsTyped
<1> QED BY <1>1, <1>2, <1>3, <1>4 DEF TurnsTyped, TurnRow

LEMMA InterruptedTyped ==
  ASSUME CallsTyped, NEW t \in Turns
  PROVE  /\ Interrupted(t) \in Seq(CallType)
         /\ DOMAIN Interrupted(t) = DOMAIN calls[t]
         /\ \A i \in DOMAIN calls[t] : Interrupted(t)[i].kept = calls[t][i].kept
<1>1. calls[t] \in Seq(CallType)
  BY DEF CallsTyped
<1>2. \A i \in DOMAIN calls[t] : calls[t][i] \in CallType
  BY <1>1
<1>3. \A i \in DOMAIN calls[t] : [calls[t][i] EXCEPT !.running = FALSE] \in CallType
  BY <1>2 DEF CallType
<1>4. DOMAIN calls[t] = 1..Len(calls[t]) /\ Len(calls[t]) \in Nat
  BY <1>1
<1>5. Interrupted(t) \in Seq(CallType)
  BY <1>3, <1>4 DEF Interrupted
<1>6. \A i \in DOMAIN calls[t] : [calls[t][i] EXCEPT !.running = FALSE].kept = calls[t][i].kept
  BY <1>2 DEF CallType
<1> QED BY <1>5, <1>6 DEF Interrupted

LEMMA NextIsDueTyped ==
  ASSUME NEW t, NEW after PROVE NextIsDue(t, after) \in [Turns -> BOOLEAN]
BY DEF NextIsDue

LEMMA RestsTyped ==
  ASSUME WorkersTyped, NEW w \in Workers
  PROVE  /\ Rests(w) => WorkersTyped'
         /\ \A s \in {"idle", "run", "settled", "claimed", "model", "tool", "ready", "failing",
                       "denied"} :
              Goes(w, s) \/ Resumes(w, s) => WorkersTyped'
<1>1. Idle \in Doing
  BY DEF Idle, Doing
<1> QED BY <1>1, SMTT(60) DEF WorkersTyped, Rests, Goes, Resumes, Doing

-----------------------------------------------------------------------------
\* What a step may do to the turns, to the calls and to the workers.

\* The turns of S leave any claim they had.
Leaves(S) ==
  /\ turn' \in [Turns -> TurnRow]
  /\ \A t \in S :
       /\ turn[t].epoch <= turn'[t].epoch
       /\ ~turn'[t].live
       /\ turn'[t].status \notin {"none", "processing"}
       /\ turn[t].status # "none"
  /\ \A t \in Turns \ S : turn'[t] = turn[t]

\* No turn is claimed anew.
TurnStep ==
  \A t \in Turns :
    /\ turn[t].epoch <= turn'[t].epoch
    /\ turn'[t].status = "processing" =>
         /\ turn[t].status = "processing"
         /\ turn'[t].epoch = turn[t].epoch
         /\ turn'[t].waived = turn[t].waived

\* A turn under a claim keeps its calls and what they returned.
CallsStay ==
  \A t \in Turns :
    turn'[t].status = "processing" =>
      /\ DOMAIN calls'[t] = DOMAIN calls[t]
      /\ \A i \in DOMAIN calls[t] : calls[t][i].kept => calls'[t][i].kept

\* A worker leaves its attempt or goes on with it; none starts a model.
WorkerStep ==
  \A w \in Workers :
    Attempting(w)' =>
      /\ Attempting(w)
      /\ worker'[w].turn = worker[w].turn
      /\ worker'[w].epoch = worker[w].epoch
      /\ worker'[w].own = worker[w].own
      /\ Running(w)' => Running(w)
      /\ At(w, "tool")' => At(w, "tool") /\ worker'[w].call = worker[w].call

Quiet == TurnStep /\ CallsStay /\ WorkerStep

LEMMA LeavesQuiet ==
  ASSUME TurnsTyped, NEW S \in SUBSET Turns, Leaves(S)
  PROVE  TurnsTyped' /\ TurnStep /\ (InOrder => InOrder')
<1>1. TurnsTyped'
  BY DEF TurnsTyped, Leaves
<1>2. \A t \in Turns : turn[t].epoch \in Nat
  BY DEF TurnsTyped, TurnRow
<1>3. TurnStep
  BY <1>2 DEF TurnStep, Leaves
<1>4. \A t \in Turns : turn'[t].status = "none" <=> turn[t].status = "none"
  BY DEF Leaves
<1>5. InOrder => InOrder'
  BY <1>4 DEF InOrder
<1> QED BY <1>1, <1>3, <1>5

LEMMA Still ==
  ASSUME TurnsTyped, UNCHANGED turn
  PROVE  TurnsTyped' /\ TurnStep /\ (InOrder => InOrder')
<1>1. \A t \in Turns : turn[t].epoch \in Nat
  BY DEF TurnsTyped, TurnRow
<1> QED BY <1>1 DEF TurnsTyped, TurnStep, InOrder

\* The invariant's facts about attempts survive a quiet step.
LEMMA QuietKeeps ==
  ASSUME TypeOK, TypeOK', Busy, EpochsPast, OneEach, OwnTool, AllSeen, Quiet
  PROVE  EpochsPast' /\ OneEach' /\ OwnTool' /\ AllSeen'
<1>1. \A w \in Workers : Attempting(w)' => worker[w].turn \in Turns
  BY DEF Quiet, WorkerStep, Busy, Attempting
<1>2. \A w \in Workers : worker[w].epoch \in Nat
  BY DEF TypeOK
<1>3. \A t \in Turns : turn[t].epoch \in Nat /\ turn'[t].epoch \in Nat
  BY DEF TypeOK
<1>4. EpochsPast'
  BY <1>1, <1>2, <1>3 DEF EpochsPast, Quiet, WorkerStep, TurnStep
<1>5. OneEach'
  BY DEF OneEach, Quiet, WorkerStep
<1>6. OwnTool'
  <2>1. \A w \in Workers : At(w, "tool")' => Attempting(w)'
    BY DEF Attempting
  <2> QED BY <2>1 DEF OwnTool, Quiet, WorkerStep
<1>7. AllSeen'
  <2> SUFFICES ASSUME NEW w \in Workers, Holds(w)', Running(w)' PROVE Sees(w)'
    BY DEF AllSeen
  <2> DEFINE t == worker[w].turn
  <2>1. /\ Attempting(w) /\ Attempting(w)' /\ Running(w) /\ t \in Turns
        /\ worker'[w].turn = t
        /\ worker'[w].epoch = worker[w].epoch
        /\ worker'[w].own = worker[w].own
    BY <1>1 DEF Holds, Quiet, WorkerStep
  <2>2. turn'[t].status = "processing" /\ turn'[t].epoch = worker[w].epoch
    BY <2>1 DEF Holds
  <2>3. /\ turn[t].status = "processing"
        /\ turn[t].epoch = worker[w].epoch
        /\ turn'[t].waived = turn[t].waived
    BY <2>1, <2>2 DEF Quiet, TurnStep
  <2>4. Sees(w)
    BY <2>1, <2>3 DEF AllSeen, Holds
  <2>5. /\ DOMAIN calls'[t] = DOMAIN calls[t]
        /\ \A i \in DOMAIN calls[t] : calls[t][i].kept => calls'[t][i].kept
    BY <2>1, <2>2 DEF Quiet, CallsStay
  <2> QED BY <2>1, <2>3, <2>4, <2>5 DEF Sees
<1> QED BY <1>4, <1>5, <1>6, <1>7

-----------------------------------------------------------------------------
\* What a reader sees of a step.

\* Turns that were open change and stay open.
Reopens(S) == Leaves(S) /\ \A t \in S : Open(t) /\ Open(t)'

\* Open turns end without a reply.
Halts(S) ==
  Leaves(S) /\ \A t \in S : Open(t) /\ turn'[t].status \in {"cancelled", "blocked"}

\* The head of the chat is answered.
Replies(t) == Leaves({t}) /\ IsHead(t) /\ turn'[t].status = "completed"

TurnEffect ==
  \/ UNCHANGED turn
  \/ \E S \in SUBSET Turns : Reopens(S) \/ Halts(S)
  \/ \E t \in Turns : Replies(t)

LEMMA EffectQuiet ==
  ASSUME TurnsTyped, TurnEffect
  PROVE  TurnsTyped' /\ TurnStep /\ (InOrder => InOrder')
<1>1. CASE UNCHANGED turn
  BY <1>1, Still
<1>2. ASSUME NEW S \in SUBSET Turns, Leaves(S)
      PROVE  TurnsTyped' /\ TurnStep /\ (InOrder => InOrder')
  BY <1>2, LeavesQuiet
<1>3. \A t \in Turns : {t} \in SUBSET Turns
  OBVIOUS
<1> QED BY <1>1, <1>2, <1>3 DEF TurnEffect, Reopens, Halts, Replies

OthersTyped ==
  /\ box \in [Turns -> BOOLEAN]
  /\ runs \subseteq Turns \X Nat
  /\ pending \subseteq Turns \X Nat \X Nat
  /\ access \in {"ok", "unreadable", "departed", "deleted"}
  /\ native \in BOOLEAN
  /\ commands \in 0..MaxCommands

\* A step that claims nothing, starts no model and records no call.
Calm ==
  /\ TurnEffect
  /\ CallsTyped' /\ WorkersTyped' /\ OthersTyped'
  /\ Busy' /\ CallsStay /\ WorkerStep

LEMMA CallsUnchanged ==
  ASSUME CallsTyped, UNCHANGED calls PROVE CallsTyped' /\ CallsStay
BY DEF CallsTyped, CallsStay

LEMMA WorkersUnchanged ==
  ASSUME WorkersTyped, Busy, UNCHANGED worker PROVE WorkersTyped' /\ Busy' /\ WorkerStep
BY DEF WorkersTyped, Busy, WorkerStep, Attempting, Running

\* One turn's running calls are interrupted.
LEMMA OneInterrupted ==
  ASSUME CallsTyped, NEW t \in Turns, calls' = [calls EXCEPT ![t] = Interrupted(t)]
  PROVE  CallsTyped' /\ CallsStay
<1>1. /\ Interrupted(t) \in Seq(CallType)
      /\ DOMAIN Interrupted(t) = DOMAIN calls[t]
      /\ \A i \in DOMAIN calls[t] : Interrupted(t)[i].kept = calls[t][i].kept
  BY InterruptedTyped
<1>2. calls'[t] = Interrupted(t) /\ \A u \in Turns \ {t} : calls'[u] = calls[u]
  BY DEF CallsTyped
<1>3. CallsTyped'
  BY <1>1 DEF CallsTyped
<1> QED BY <1>1, <1>2, <1>3 DEF CallsStay

LEMMA ManyInterrupted ==
  ASSUME CallsTyped, NEW S,
         calls' = [t \in Turns |-> IF t \in S THEN Interrupted(t) ELSE calls[t]]
  PROVE  CallsTyped' /\ CallsStay
<1>1. \A t \in Turns :
        /\ Interrupted(t) \in Seq(CallType)
        /\ DOMAIN Interrupted(t) = DOMAIN calls[t]
        /\ \A i \in DOMAIN calls[t] : Interrupted(t)[i].kept = calls[t][i].kept
  BY InterruptedTyped
<1>2. CallsTyped'
  BY <1>1 DEF CallsTyped
<1> QED BY <1>1, <1>2 DEF CallsStay

\* A worker ends, or goes on without the start of a model.
LEMMA Resting ==
  ASSUME WorkersTyped, Busy, NEW w \in Workers, Rests(w)
  PROVE  WorkersTyped' /\ Busy' /\ WorkerStep
<1>1. WorkersTyped'
  BY RestsTyped
<1>2. worker'[w] = Idle /\ \A v \in Workers \ {w} : worker'[v] = worker[v]
  BY DEF Rests, WorkersTyped
<1> QED BY <1>1, <1>2 DEF Busy, WorkerStep, Attempting, Running, Idle

LEMMA Going ==
  ASSUME WorkersTyped, Busy, NEW w \in Workers,
         NEW s \in {"run", "ready", "failing", "denied"},
         Goes(w, s) \/ Resumes(w, s),
         ~At(w, "idle"),
         s # "run" => Attempting(w),
         s = "ready" => Running(w)
  PROVE  WorkersTyped' /\ Busy' /\ WorkerStep
<1>1. WorkersTyped'
  BY RestsTyped
<1>2. /\ worker'[w].stage = s
      /\ worker'[w].turn = worker[w].turn
      /\ worker'[w].epoch = worker[w].epoch
      /\ worker'[w].own = worker[w].own
      /\ \A v \in Workers \ {w} : worker'[v] = worker[v]
  BY DEF Goes, Resumes, WorkersTyped, Doing
<1>3. Busy'
  BY <1>2 DEF Busy
<1>4. WorkerStep
  BY <1>2 DEF WorkerStep, Attempting, Running
<1> QED BY <1>1, <1>3, <1>4

\* An open turn takes another row without a claim.
LEMMA OneLeaves ==
  ASSUME TurnsTyped, NEW t \in Turns, Open(t),
         turn' \in [Turns -> TurnRow],
         \A u \in Turns : u # t => turn'[u] = turn[u],
         turn[t].epoch <= turn'[t].epoch, ~turn'[t].live,
         turn'[t].status \notin {"none", "processing"}
  PROVE  /\ Leaves({t})
         /\ turn'[t].status \in {"queued", "waiting", "failed"} => Reopens({t})
         /\ turn'[t].status \in {"cancelled", "blocked"} => Halts({t})
         /\ IsHead(t) /\ turn'[t].status = "completed" => Replies(t)
BY DEF Leaves, Reopens, Halts, Replies, Open

\* An open turn ends, or waits for something.
LEMMA Ending ==
  ASSUME TurnsTyped, NEW t \in Turns, Open(t),
         NEW s \in {"queued", "waiting", "failed", "cancelled", "blocked"},
         NEW c \in {"none", "busy", "action"},
         turn' = Ended(t, s, c)
  PROVE  TurnEffect /\ turn'[t].status = s
<1>1. /\ turn' \in [Turns -> TurnRow]
      /\ turn'[t].status = s /\ ~turn'[t].live /\ turn'[t].epoch = turn[t].epoch
      /\ \A u \in Turns : u # t => turn'[u] = turn[u]
  <2>1. s \in Statuses
    OBVIOUS
  <2>2. /\ Ended(t, s, c) \in [Turns -> TurnRow]
        /\ Ended(t, s, c)[t].status = s /\ ~Ended(t, s, c)[t].live
        /\ Ended(t, s, c)[t].epoch = turn[t].epoch
        /\ \A u \in Turns : u # t => Ended(t, s, c)[u] = turn[u]
    <3> HIDE DEF Statuses
    <3> QED BY <2>1, EndedTyped
  <2> QED BY <2>2
<1>2. turn[t] \in TurnRow
  BY DEF TurnsTyped
<1>3. turn'[t].status = s /\ ~turn'[t].live /\ turn'[t].epoch = turn[t].epoch /\ turn[t].epoch \in Nat
  BY <1>1, <1>2 DEF TurnRow
<1>a. turn[t].epoch <= turn'[t].epoch /\ turn'[t].status \notin {"none", "processing"}
  BY <1>3
<1>4. Reopens({t}) \/ Halts({t})
  BY <1>1, <1>3, <1>a, OneLeaves
<1> QED BY <1>3, <1>4 DEF TurnEffect

LEMMA Requeueing ==
  ASSUME TurnsTyped, NEW t \in Turns, Open(t),
         turn' \in [Turns -> TurnRow],
         \A u \in Turns : u # t => turn'[u] = turn[u],
         turn'[t].status = "queued", ~turn'[t].live, turn[t].epoch <= turn'[t].epoch
  PROVE  TurnEffect
<1>1. Reopens({t})
  BY OneLeaves
<1> QED BY <1>1 DEF TurnEffect

LEMMA InvParts ==
  ASSUME IInv
  PROVE  /\ TurnsTyped /\ CallsTyped /\ WorkersTyped /\ OthersTyped
         /\ Busy /\ TypeOK
BY Parts DEF IInv, OthersTyped

-----------------------------------------------------------------------------
\* The person, the dispatcher, the services and the clock.

LEMMA RetryCalm ==
  ASSUME IInv, NEW t \in Turns, Retry(t) PROVE Calm
<1>0. TurnsTyped /\ CallsTyped /\ WorkersTyped /\ OthersTyped /\ Busy
  BY InvParts
<1> DEFINE row == [Requeued(t)[t] EXCEPT !.waived = Len(calls[t])]
<1>1. Len(calls[t]) \in Nat
  BY <1>0 DEF CallsTyped
<1>2. /\ Requeued(t) \in [Turns -> TurnRow]
      /\ Requeued(t)[t].status = "queued" /\ ~Requeued(t)[t].live
      /\ Requeued(t)[t].epoch = turn[t].epoch + 1
      /\ \A u \in Turns : u # t => Requeued(t)[u] = turn[u]
  BY <1>0, RequeuedTyped
<1>3. turn' = [Requeued(t) EXCEPT ![t] = row]
  BY <1>0, <1>2 DEF Retry
<1>4. row \in TurnRow
  <2>1. Requeued(t)[t] \in TurnRow
    BY <1>2
  <2> QED BY <1>1, <2>1 DEF TurnRow
<1>5. turn[t] \in TurnRow
  BY <1>0 DEF TurnsTyped
<1>6. row.status = "queued" /\ ~row.live /\ row.epoch = turn[t].epoch + 1 /\ turn[t].epoch \in Nat
  BY <1>0, <1>2, <1>5 DEF TurnRow
<1>7. /\ turn' \in [Turns -> TurnRow] /\ turn'[t] = row
      /\ \A u \in Turns : u # t => turn'[u] = turn[u]
  BY <1>0, <1>2, <1>3, <1>4
<1>8. Open(t)
  BY <1>0 DEF Retry, Open
<1>9. TurnEffect
  <2>1. turn'[t].status = "queued" /\ ~turn'[t].live /\ turn[t].epoch <= turn'[t].epoch
    BY <1>6, <1>7
  <2> QED BY <1>7, <1>8, <2>1, <1>0, Requeueing
<1>10. CallsTyped' /\ CallsStay
  BY <1>0, OneInterrupted DEF Retry
<1>11. WorkersTyped' /\ Busy' /\ WorkerStep
  BY <1>0, WorkersUnchanged DEF Retry
<1>12. OthersTyped'
  BY <1>0, BoundsAssumption DEF OthersTyped, Retry
<1> QED BY <1>9, <1>10, <1>11, <1>12 DEF Calm

LEMMA CancelCalm ==
  ASSUME IInv, NEW t \in Turns, Cancel(t) PROVE Calm
<1>0. TurnsTyped /\ CallsTyped /\ WorkersTyped /\ OthersTyped /\ Busy
  BY InvParts
<1> DEFINE E == Ended(t, "cancelled", "none")
<1> DEFINE row == [E[t] EXCEPT !.gen = @ + 1, !.epoch = @ + 1]
<1>2. /\ E \in [Turns -> TurnRow]
      /\ E[t].status = "cancelled" /\ ~E[t].live /\ E[t].epoch = turn[t].epoch
      /\ \A u \in Turns : u # t => E[u] = turn[u]
  <2>1. "cancelled" \in Statuses /\ "none" \in {"none", "busy", "action"}
    OBVIOUS
  <2> HIDE DEF Statuses
  <2> QED BY <1>0, <2>1, EndedTyped
<1>3. turn' = [E EXCEPT ![t] = row]
  BY <1>0, <1>2 DEF Cancel
<1>4. row \in TurnRow
  <2>1. E[t] \in TurnRow
    BY <1>2
  <2>2. E[t].gen + 1 \in Nat /\ E[t].epoch + 1 \in Nat
    BY <2>1 DEF TurnRow
  <2> HIDE DEF E
  <2> QED BY <2>1, <2>2 DEF TurnRow
<1>5. turn[t] \in TurnRow
  BY <1>0 DEF TurnsTyped
<1>6. row.status = "cancelled" /\ ~row.live /\ row.epoch = turn[t].epoch + 1 /\ turn[t].epoch \in Nat
  BY <1>0, <1>2, <1>5 DEF TurnRow
<1>7. /\ turn' \in [Turns -> TurnRow] /\ turn'[t] = row
      /\ \A u \in Turns : u # t => turn'[u] = turn[u]
  BY <1>0, <1>2, <1>3, <1>4
<1>8. Open(t)
  BY <1>0 DEF Cancel, Open
<1>9. Halts({t})
  <2>1. /\ turn[t].epoch <= turn'[t].epoch /\ ~turn'[t].live
        /\ turn'[t].status = "cancelled"
    BY <1>6, <1>7
  <2> HIDE DEF row
  <2> QED BY <1>0, <2>1, <1>7, <1>8, OneLeaves
<1>10. CallsTyped' /\ CallsStay
  BY <1>0, OneInterrupted DEF Cancel
<1>11. WorkersTyped' /\ Busy' /\ WorkerStep
  BY <1>0, WorkersUnchanged DEF Cancel
<1>12. OthersTyped'
  BY <1>0, NextIsDueTyped, BoundsAssumption DEF OthersTyped, Cancel
<1> QED BY <1>9, <1>10, <1>11, <1>12 DEF Calm, TurnEffect

LEMMA RemoveCalm ==
  ASSUME IInv, Remove PROVE Calm
<1>0. TurnsTyped /\ CallsTyped /\ WorkersTyped /\ OthersTyped /\ Busy
  BY InvParts
<1> DEFINE S == {t \in Turns : turn[t].status \in {"queued", "processing", "waiting"}}
<1> DEFINE row(t) == [turn[t] EXCEPT !.status = "cancelled", !.gen = @ + 1, !.epoch = @ + 1,
                                     !.live = FALSE, !.code = "none"]
<1>1. turn' = [t \in Turns |-> IF t \in S THEN row(t) ELSE turn[t]]
  BY <1>0 DEF Remove
<1>2. \A t \in Turns : turn[t] \in TurnRow
  BY <1>0 DEF TurnsTyped
<1>3. \A t \in Turns : row(t) \in TurnRow /\ ~row(t).live /\ row(t).status = "cancelled"
                       /\ row(t).epoch = turn[t].epoch + 1 /\ turn[t].epoch \in Nat
  <2> SUFFICES ASSUME NEW t \in Turns
               PROVE  row(t) \in TurnRow /\ ~row(t).live /\ row(t).status = "cancelled"
                      /\ row(t).epoch = turn[t].epoch + 1 /\ turn[t].epoch \in Nat
    OBVIOUS
  <2>1. turn[t].gen + 1 \in Nat /\ turn[t].epoch + 1 \in Nat /\ turn[t].epoch \in Nat
    BY <1>2 DEF TurnRow
  <2>2. row(t) \in TurnRow
    BY <1>2, <2>1 DEF TurnRow
  <2> QED BY <1>2, <2>1, <2>2 DEF TurnRow
<1> HIDE DEF row
<1>4. Leaves(S)
  BY <1>0, <1>1, <1>2, <1>3 DEF Leaves
<1>5. Halts(S)
  BY <1>0, <1>1, <1>3, <1>4 DEF Halts, Open
<1>6. CallsTyped' /\ CallsStay
  BY <1>0, ManyInterrupted DEF Remove
<1>7. WorkersTyped' /\ Busy' /\ WorkerStep
  BY <1>0, WorkersUnchanged DEF Remove
<1>8. OthersTyped'
  <2>1. box' \in [Turns -> BOOLEAN]
    BY DEF Remove
  <2>2. commands' \in 0..MaxCommands
    <3>1. commands \in 0..MaxCommands /\ commands < MaxCommands /\ commands' = commands + 1
      BY <1>0 DEF OthersTyped, Remove
    <3> QED BY <3>1, BoundsAssumption
  <2> QED BY <1>0, <2>1, <2>2 DEF OthersTyped, Remove
<1> QED BY <1>5, <1>6, <1>7, <1>8 DEF Calm, TurnEffect

LEMMA ResolveCalm ==
  ASSUME IInv, NEW p \in pending, Resolve(p) PROVE Calm
<1>0. TurnsTyped /\ CallsTyped /\ WorkersTyped /\ OthersTyped /\ Busy
  BY InvParts
<1>1. p[1] \in Turns
  BY <1>0 DEF OthersTyped
<1>2. /\ turn' \in [Turns -> TurnRow]
      /\ turn'[p[1]].status = "queued" /\ ~turn'[p[1]].live
      /\ turn'[p[1]].epoch = turn[p[1]].epoch + 1
      /\ \A u \in Turns : u # p[1] => turn'[u] = turn[u]
  BY <1>0, <1>1, RequeuedTyped DEF Resolve
<1>3. turn[p[1]] \in TurnRow
  BY <1>0, <1>1 DEF TurnsTyped
<1>4. /\ turn'[p[1]].status = "queued" /\ ~turn'[p[1]].live
      /\ turn'[p[1]].epoch = turn[p[1]].epoch + 1 /\ turn[p[1]].epoch \in Nat
  BY <1>0, <1>2, <1>3 DEF TurnRow
<1>5. Open(p[1])
  BY <1>0 DEF Resolve, Asks, Open
<1>6. TurnEffect
  <2>1. turn[p[1]].epoch <= turn'[p[1]].epoch
    BY <1>4
  <2> QED BY <1>0, <1>1, <1>2, <1>4, <1>5, <2>1, Requeueing
<1>7. CallsTyped' /\ CallsStay
  BY <1>0, CallsUnchanged DEF Resolve
<1>8. WorkersTyped' /\ Busy' /\ WorkerStep
  BY <1>0, WorkersUnchanged DEF Resolve
<1>9. OthersTyped'
  BY <1>0, <1>1 DEF OthersTyped, Resolve
<1> QED BY <1>6, <1>7, <1>8, <1>9 DEF Calm

LEMMA ExpireCalm ==
  ASSUME IInv, Expire PROVE Calm
<1>0. TurnsTyped /\ CallsTyped /\ WorkersTyped /\ OthersTyped /\ Busy
  BY InvParts
<1> DEFINE S == {p[1] : p \in {q \in pending : Asks(q)}}
<1>1. S \subseteq Turns /\ \A t \in S : turn[t].status = "waiting"
  BY <1>0 DEF OthersTyped, Asks
<1>2. turn' = [t \in Turns |-> IF t \in S THEN Requeued(t)[t] ELSE turn[t]]
  BY <1>0 DEF Expire
<1>3. \A t \in Turns : turn[t] \in TurnRow
  BY <1>0 DEF TurnsTyped
<1>4. \A t \in Turns :
        /\ Requeued(t)[t].status = "queued" /\ ~Requeued(t)[t].live
        /\ Requeued(t)[t].epoch = turn[t].epoch + 1
        /\ Requeued(t) \in [Turns -> TurnRow]
  BY <1>0, RequeuedTyped
<1>5. \A t \in Turns :
        /\ Requeued(t)[t] \in TurnRow
        /\ ~Requeued(t)[t].live /\ Requeued(t)[t].status = "queued"
        /\ Requeued(t)[t].epoch = turn[t].epoch + 1 /\ turn[t].epoch \in Nat
  <2> SUFFICES ASSUME NEW t \in Turns
               PROVE  /\ Requeued(t)[t] \in TurnRow
                      /\ ~Requeued(t)[t].live /\ Requeued(t)[t].status = "queued"
                      /\ Requeued(t)[t].epoch = turn[t].epoch + 1 /\ turn[t].epoch \in Nat
    OBVIOUS
  <2>1. Requeued(t)[t] \in TurnRow
    BY <1>4
  <2>2. turn[t].epoch \in Nat
    BY <1>3 DEF TurnRow
  <2>3. /\ Requeued(t)[t].status = "queued" /\ ~Requeued(t)[t].live
        /\ Requeued(t)[t].epoch = turn[t].epoch + 1
    BY <1>3, <1>4 DEF TurnRow
  <2> QED BY <2>1, <2>2, <2>3
<1>6. Leaves(S)
  BY <1>0, <1>1, <1>2, <1>3, <1>5 DEF Leaves
<1>7. Reopens(S)
  BY <1>0, <1>1, <1>2, <1>5, <1>6 DEF Reopens, Open
<1>8. CallsTyped' /\ CallsStay
  BY <1>0, CallsUnchanged DEF Expire
<1>9. WorkersTyped' /\ Busy' /\ WorkerStep
  BY <1>0, WorkersUnchanged DEF Expire
<1>10. OthersTyped'
  BY <1>0 DEF OthersTyped, Expire
<1> QED BY <1>1, <1>7, <1>8, <1>9, <1>10 DEF Calm, TurnEffect

LEMMA LoseAccessCalm ==
  ASSUME IInv, LoseAccess PROVE Calm
<1>0. TurnsTyped /\ CallsTyped /\ WorkersTyped /\ OthersTyped /\ Busy
  BY InvParts
<1>1. UNCHANGED <<turn, calls, worker>>
  BY DEF LoseAccess
<1>2. commands' \in 0..MaxCommands
  <2>1. commands \in 0..MaxCommands /\ commands < MaxCommands /\ commands' = commands + 1
    BY <1>0 DEF OthersTyped, LoseAccess
  <2> QED BY <2>1, BoundsAssumption
<1>3. OthersTyped'
  BY <1>0, <1>2 DEF OthersTyped, LoseAccess
<1> QED BY <1>0, <1>1, <1>3, CallsUnchanged, WorkersUnchanged DEF Calm, TurnEffect

LEMMA DispatchCalm ==
  ASSUME IInv, NEW t \in Turns, Dispatch(t) PROVE Calm
<1>0. TurnsTyped /\ CallsTyped /\ WorkersTyped /\ OthersTyped /\ Busy
  BY InvParts
<1>1. UNCHANGED <<turn, calls, worker>>
  BY DEF Dispatch
<1>2. turn[t].gen \in Nat
  BY <1>0 DEF TurnsTyped, TurnRow
<1>3. OthersTyped'
  BY <1>0, <1>2 DEF OthersTyped, Dispatch
<1> QED BY <1>0, <1>1, <1>3, CallsUnchanged, WorkersUnchanged DEF Calm, TurnEffect

\* A call of a turn is written again, with what it returned kept.
\* An update of a call that is not there changes nothing.
LEMMA PollsNothing ==
  ASSUME NEW old \in [Turns -> Seq(CallType)], NEW new, NEW t \in Turns, NEW i, NEW shown,
         i \notin DOMAIN old[t],
         new = [old EXCEPT ![t][i].running = FALSE, ![t][i].kept = shown \/ @]
  PROVE  new = old
BY SMT

LEMMA EndsNothing ==
  ASSUME NEW old \in [Turns -> Seq(CallType)], NEW new, NEW t \in Turns, NEW i, NEW saved,
         i \notin DOMAIN old[t],
         new = [old EXCEPT ![t][i].running = FALSE, ![t][i].kept = saved]
  PROVE  new = old
BY SMT

LEMMA CallWritten ==
  ASSUME CallsTyped, NEW t \in Turns, NEW i \in DOMAIN calls[t], NEW c \in CallType,
         calls' = [calls EXCEPT ![t][i] = c], calls[t][i].kept => c.kept
  PROVE  CallsTyped' /\ CallsStay
<1>1. calls[t] \in Seq(CallType)
  BY DEF CallsTyped
<1> DEFINE s == [calls[t] EXCEPT ![i] = c]
<1>2. s \in Seq(CallType) /\ DOMAIN s = DOMAIN calls[t] /\ s[i] = c
      /\ \A j \in DOMAIN calls[t] : j # i => s[j] = calls[t][j]
  BY <1>1
<1>3. calls' = [calls EXCEPT ![t] = s]
  BY DEF CallsTyped
<1> HIDE DEF s
<1>4. calls'[t] = s /\ \A u \in Turns : u # t => calls'[u] = calls[u]
  BY <1>3 DEF CallsTyped
<1>5. CallsTyped'
  BY <1>2, <1>3 DEF CallsTyped
<1>6. CallsStay
  BY <1>2, <1>4 DEF CallsStay
<1> QED BY <1>5, <1>6

LEMMA ActionSettlesCalm ==
  ASSUME IInv, NEW t \in Turns, ActionSettles(t) PROVE Calm
<1>0. TurnsTyped /\ CallsTyped /\ WorkersTyped /\ OthersTyped /\ Busy
  BY InvParts
<1>1. UNCHANGED <<turn, worker, box, runs, pending, access, native, commands>>
  BY DEF ActionSettles
<1>2. PICK i \in DOMAIN calls[t] : calls' = [calls EXCEPT ![t][i].done = TRUE]
  BY DEF ActionSettles
<1> DEFINE c == [calls[t][i] EXCEPT !.done = TRUE]
<1>3. calls[t][i] \in CallType
  BY <1>0 DEF CallsTyped
<1>4. c \in CallType /\ c.kept = calls[t][i].kept
  BY <1>3 DEF CallType
<1>5. calls' = [calls EXCEPT ![t][i] = c]
  BY <1>2
<1> HIDE DEF c
<1>6. CallsTyped' /\ CallsStay
  BY <1>0, <1>4, <1>5, CallWritten
<1>7. OthersTyped'
  BY <1>0, <1>1 DEF OthersTyped
<1> QED BY <1>0, <1>1, <1>6, <1>7, WorkersUnchanged DEF Calm, TurnEffect

-----------------------------------------------------------------------------
\* The steps of a worker that claim nothing.

LEMMA CrashCalm ==
  ASSUME IInv, NEW w \in Workers, Crash(w) PROVE Calm
<1>0. TurnsTyped /\ CallsTyped /\ WorkersTyped /\ OthersTyped /\ Busy
  BY InvParts
<1>1. UNCHANGED <<turn, calls, box, runs, pending, access, native, commands>> /\ Rests(w)
  BY DEF Crash
<1>2. OthersTyped'
  BY <1>0, <1>1 DEF OthersTyped
<1> QED BY <1>0, <1>1, <1>2, CallsUnchanged, Resting DEF Calm, TurnEffect

LEMMA TakeCalm ==
  ASSUME IInv, NEW w \in Workers, Take(w) PROVE Calm
<1>0. TurnsTyped /\ CallsTyped /\ WorkersTyped /\ OthersTyped /\ Busy
  BY InvParts
<1>1. UNCHANGED <<turn, calls, box, pending, access, native, commands>>
  BY DEF Take
<1>2. PICK r \in runs :
        /\ worker' = [worker EXCEPT ![w] = [Idle EXCEPT !.stage = "run", !.turn = r[1],
                                                        !.gen = r[2]]]
        /\ runs' = runs \ {r}
  BY DEF Take
<1>3. r[1] \in Turns /\ r[2] \in Nat
  BY <1>0 DEF OthersTyped
<1> DEFINE x == [Idle EXCEPT !.stage = "run", !.turn = r[1], !.gen = r[2]]
<1>4. x \in Doing /\ x.stage = "run" /\ x.turn = r[1]
  BY <1>3 DEF Idle, Doing
<1>5. worker'[w] = x /\ \A v \in Workers : v # w => worker'[v] = worker[v]
  BY <1>0, <1>2 DEF WorkersTyped
<1> HIDE DEF x
<1>6. WorkersTyped'
  BY <1>0, <1>2, <1>4 DEF WorkersTyped, x
<1>7. Busy'
  BY <1>0, <1>3, <1>4, <1>5 DEF Busy
<1>8. WorkerStep
  BY <1>4, <1>5 DEF WorkerStep, Attempting, Running
<1>9. OthersTyped'
  BY <1>0, <1>1, <1>2 DEF OthersTyped
<1> QED BY <1>0, <1>1, <1>6, <1>7, <1>8, <1>9, CallsUnchanged DEF Calm, TurnEffect

LEMMA RefusedCalm ==
  ASSUME IInv, NEW w \in Workers, Refused(w) PROVE Calm
<1>0. TurnsTyped /\ CallsTyped /\ WorkersTyped /\ OthersTyped /\ Busy
  BY InvParts
<1> DEFINE S == {t \in Turns : Open(t) /\ (access = "unreadable" => t = worker[w].turn)}
<1> DEFINE row(t) == [turn[t] EXCEPT !.status = "blocked", !.epoch = @ + 1,
                                     !.live = FALSE, !.code = "none"]
<1>1. turn' = [t \in Turns |-> IF t \in S THEN row(t) ELSE turn[t]]
  BY DEF Refused
<1>2. \A t \in Turns : turn[t] \in TurnRow
  BY <1>0 DEF TurnsTyped
<1>3. \A t \in Turns : row(t) \in TurnRow /\ ~row(t).live /\ row(t).status = "blocked"
                       /\ row(t).epoch = turn[t].epoch + 1 /\ turn[t].epoch \in Nat
  <2> SUFFICES ASSUME NEW t \in Turns
               PROVE  row(t) \in TurnRow /\ ~row(t).live /\ row(t).status = "blocked"
                      /\ row(t).epoch = turn[t].epoch + 1 /\ turn[t].epoch \in Nat
    OBVIOUS
  <2>1. turn[t].epoch + 1 \in Nat /\ turn[t].epoch \in Nat
    BY <1>2 DEF TurnRow
  <2>2. row(t) \in TurnRow
    BY <1>2, <2>1 DEF TurnRow
  <2> QED BY <1>2, <2>1, <2>2 DEF TurnRow
<1> HIDE DEF row
<1>4. \A t \in S : Open(t)
  OBVIOUS
<1>5. Leaves(S)
  BY <1>1, <1>2, <1>3, <1>4 DEF Leaves, Open
<1>6. Halts(S)
  BY <1>1, <1>3, <1>4, <1>5 DEF Halts
<1>7. CallsTyped' /\ CallsStay
  BY <1>0, ManyInterrupted DEF Refused
<1>8. WorkersTyped' /\ Busy' /\ WorkerStep
  BY <1>0, Resting DEF Refused
<1>9. OthersTyped'
  BY <1>0 DEF OthersTyped, Refused
<1> QED BY <1>6, <1>7, <1>8, <1>9 DEF Calm, TurnEffect

LEMMA PollReadCalm ==
  ASSUME IInv, NEW w \in Workers, PollRead(w) PROVE Calm
<1>0. TurnsTyped /\ CallsTyped /\ WorkersTyped /\ OthersTyped /\ Busy
  BY InvParts
<1>1. UNCHANGED <<turn, calls, box, runs, pending, access, native, commands>>
  BY DEF PollRead
<1>2. PICK i \in Polled(w) :
        \/ worker' = [worker EXCEPT ![w] = [@ EXCEPT !.stage = "settled", !.call = i]]
        \/ worker' = [worker EXCEPT ![w] = Idle]
  BY DEF PollRead
<1>3. worker[w].turn \in Turns /\ i \in Nat
  <2>1. worker[w].turn \in Turns
    BY <1>0 DEF Busy, PollRead
  <2>2. i \in DOMAIN calls[worker[w].turn] /\ calls[worker[w].turn] \in Seq(CallType)
    BY <1>0, <2>1 DEF Polled, CallsTyped
  <2> QED BY <2>1, <2>2
<1>4. ASSUME worker' = [worker EXCEPT ![w] = Idle]
      PROVE  WorkersTyped' /\ Busy' /\ WorkerStep
  BY <1>0, <1>4, Resting DEF Rests
<1>5. ASSUME worker' = [worker EXCEPT ![w] = [@ EXCEPT !.stage = "settled", !.call = i]]
      PROVE  WorkersTyped' /\ Busy' /\ WorkerStep
  <2> DEFINE x == [worker[w] EXCEPT !.stage = "settled", !.call = i]
  <2>1. worker[w] \in Doing
    BY <1>0 DEF WorkersTyped
  <2>2. x \in Doing /\ x.stage = "settled" /\ x.turn = worker[w].turn
    BY <1>3, <2>1 DEF Doing
  <2>3. worker' = [worker EXCEPT ![w] = x]
    BY <1>5
  <2> HIDE DEF x
  <2>4. worker'[w] = x /\ \A v \in Workers : v # w => worker'[v] = worker[v]
    BY <1>0, <2>3 DEF WorkersTyped
  <2>5. WorkersTyped'
    BY <1>0, <2>2, <2>3 DEF WorkersTyped
  <2>6. Busy'
    BY <1>0, <1>3, <2>2, <2>4 DEF Busy
  <2>7. WorkerStep
    BY <2>2, <2>4 DEF WorkerStep, Attempting, Running
  <2> QED BY <2>5, <2>6, <2>7
<1>6. OthersTyped'
  BY <1>0, <1>1 DEF OthersTyped
<1> QED BY <1>0, <1>1, <1>2, <1>4, <1>5, <1>6, CallsUnchanged DEF Calm, TurnEffect

LEMMA PollWriteCalm ==
  ASSUME IInv, NEW w \in Workers, PollWrite(w) PROVE Calm
<1>0. TurnsTyped /\ CallsTyped /\ WorkersTyped /\ OthersTyped /\ Busy
  BY InvParts
<1> DEFINE t == worker[w].turn
           i == worker[w].call
<1>1. t \in Turns /\ ~At(w, "idle")
  BY <1>0 DEF Busy, PollWrite
<1>2. ASSUME ~Waits(w) PROVE Calm
  <2>1. Rests(w) /\ UNCHANGED <<turn, calls, box, runs, pending, access, native, commands>>
    BY <1>2 DEF PollWrite
  <2>2. OthersTyped'
    BY <1>0, <2>1 DEF OthersTyped
  <2> QED BY <1>0, <2>1, <2>2, CallsUnchanged, Resting DEF Calm, TurnEffect
<1>3. ASSUME Waits(w) PROVE CallsTyped' /\ CallsStay
  <2>1. calls' = [calls EXCEPT ![t][i].running = FALSE, ![t][i].kept = native \/ @]
    BY <1>3 DEF PollWrite
  <2>2. CASE i \in DOMAIN calls[t]
    <3> DEFINE c == [calls[t][i] EXCEPT !.running = FALSE, !.kept = native \/ @]
    <3>1. calls[t][i] \in CallType
      BY <1>0, <1>1, <2>2 DEF CallsTyped
    <3>2. c \in CallType /\ (calls[t][i].kept => c.kept)
      BY <3>1 DEF CallType
    <3>3. calls' = [calls EXCEPT ![t][i] = c]
      BY <2>1, <1>0, <1>1, <2>2, ZenonT(60) DEF CallsTyped
    <3> HIDE DEF c
    <3> QED BY <1>0, <1>1, <2>2, <3>2, <3>3, CallWritten
  <2>3. CASE i \notin DOMAIN calls[t]
    <3>1. calls' = calls
      BY <2>1, <2>3, <1>0, <1>1, PollsNothing, ZenonT(60) DEF CallsTyped
    <3> QED BY <1>0, <3>1, CallsUnchanged
  <2> QED BY <2>2, <2>3
<1>4. ASSUME Waits(w), native PROVE Calm
  <2> DEFINE E == Ended(t, "queued", "none")
  <2> DEFINE row == [E[t] EXCEPT !.attempts = 0]
  <2>1. /\ turn' = [E EXCEPT ![t].attempts = 0] /\ Resumes(w, "run")
        /\ UNCHANGED <<box, runs, pending, access, native, commands>>
    BY <1>4 DEF PollWrite
  <2>2. /\ E \in [Turns -> TurnRow]
        /\ E[t].status = "queued" /\ ~E[t].live /\ E[t].epoch = turn[t].epoch
        /\ \A u \in Turns : u # t => E[u] = turn[u]
    <3>1. "queued" \in Statuses /\ "none" \in {"none", "busy", "action"}
      OBVIOUS
    <3> HIDE DEF Statuses
    <3> QED BY <1>0, <1>1, <3>1, EndedTyped
  <2>3. 0 \in 0..BusyLimit
    BY LimitsAssumption
  <2>4. E[t] \in TurnRow
    BY <1>1, <2>2
  <2> HIDE DEF E
  <2>5. row \in TurnRow /\ row.status = "queued" /\ ~row.live /\ row.epoch = turn[t].epoch
    BY <2>2, <2>3, <2>4 DEF TurnRow
  <2>6. turn' = [E EXCEPT ![t] = row]
    BY <2>1
  <2> HIDE DEF row
  <2>7. /\ turn' \in [Turns -> TurnRow] /\ turn'[t] = row
        /\ \A u \in Turns : u # t => turn'[u] = turn[u]
    BY <1>1, <2>2, <2>5, <2>6
  <2>8. turn[t].epoch <= turn'[t].epoch
    <3>1. turn[t].epoch \in Nat
      BY <1>0, <1>1 DEF TurnsTyped, TurnRow
    <3> QED BY <3>1, <2>5, <2>7
  <2>9. Open(t)
    BY <1>4 DEF Waits, IsHead
  <2>10. TurnEffect
    BY <1>0, <1>1, <2>5, <2>7, <2>8, <2>9, Requeueing
  <2>11. WorkersTyped' /\ Busy' /\ WorkerStep
    BY <1>0, <1>1, <2>1, Going
  <2>12. OthersTyped'
    BY <1>0, <2>1 DEF OthersTyped
  <2> QED BY <1>3, <1>4, <2>10, <2>11, <2>12 DEF Calm
<1>5. ASSUME Waits(w), ~native PROVE Calm
  <2>1. /\ turn' = Ended(t, "completed", "none") /\ Rests(w)
        /\ box' = NextIsDue(t, turn')
        /\ UNCHANGED <<runs, pending, access, native, commands>>
    BY <1>5 DEF PollWrite
  <2>2. /\ turn' \in [Turns -> TurnRow]
        /\ turn'[t].status = "completed" /\ ~turn'[t].live /\ turn'[t].epoch = turn[t].epoch
        /\ \A u \in Turns : u # t => turn'[u] = turn[u]
    <3>1. "completed" \in Statuses /\ "none" \in {"none", "busy", "action"}
      OBVIOUS
    <3> HIDE DEF Statuses
    <3> QED BY <1>0, <1>1, <2>1, <3>1, EndedTyped
  <2>3. turn[t].epoch <= turn'[t].epoch
    <3>1. turn[t].epoch \in Nat
      BY <1>0, <1>1 DEF TurnsTyped, TurnRow
    <3> QED BY <3>1, <2>2
  <2>4. IsHead(t) /\ Open(t)
    BY <1>5 DEF Waits, IsHead
  <2>5. Replies(t)
    BY <1>0, <1>1, <2>2, <2>3, <2>4, OneLeaves
  <2>6. OthersTyped'
    BY <1>0, <2>1, NextIsDueTyped DEF OthersTyped
  <2> QED BY <1>0, <1>1, <1>3, <1>5, <2>1, <2>5, <2>6, Resting DEF Calm, TurnEffect
<1> QED BY <1>2, <1>4, <1>5

LEMMA ClaimCalm ==
  ASSUME IInv, NEW w \in Workers,
         ClaimNothing(w) \/ ClaimAwaits(w) \/ ClaimBlocks(w) \/ ClaimFails(w)
  PROVE  Calm
<1>0. TurnsTyped /\ CallsTyped /\ WorkersTyped /\ OthersTyped /\ Busy
  BY InvParts
<1> DEFINE t == worker[w].turn
<1>1. t \in Turns
  BY <1>0 DEF Busy, ClaimNothing, ClaimAwaits, ClaimBlocks, ClaimFails
<1>2. Rests(w) /\ OthersTyped'
  BY <1>0 DEF OthersTyped, ClaimNothing, ClaimAwaits, ClaimBlocks, ClaimFails
<1>3. CallsTyped' /\ CallsStay
  <2>1. UNCHANGED calls \/ calls' = [calls EXCEPT ![t] = Interrupted(t)]
    BY DEF ClaimNothing, ClaimAwaits, ClaimBlocks, ClaimFails
  <2> QED BY <1>0, <1>1, <2>1, CallsUnchanged, OneInterrupted
<1>4. TurnEffect
  <2>1. CASE UNCHANGED turn
    BY <2>1 DEF TurnEffect
  <2>2. CASE Claimable(w) /\ \E s \in {"waiting", "blocked", "failed"}, c \in {"none", "action"} :
               turn' = Ended(t, s, c)
    <3>1. Open(t)
      BY <2>2 DEF Claimable, IsHead
    <3>2. PICK s \in {"waiting", "blocked", "failed"}, c \in {"none", "action"} :
            turn' = Ended(t, s, c)
      BY <2>2
    <3> QED BY <1>0, <1>1, <3>1, <3>2, Ending
  <2> QED BY <2>1, <2>2 DEF ClaimNothing, ClaimAwaits, ClaimBlocks, ClaimFails
<1> QED BY <1>0, <1>2, <1>3, <1>4, Resting DEF Calm

LEMMA AttemptCalm ==
  ASSUME IInv, NEW w \in Workers,
         Stale(w) \/ LoseFence(w) \/ ModelAnswers(w) \/ ModelFails(w)
  PROVE  Calm
<1>0. TurnsTyped /\ CallsTyped /\ WorkersTyped /\ OthersTyped /\ Busy
  BY InvParts
<1>1. UNCHANGED <<turn, calls>> /\ OthersTyped'
  BY <1>0 DEF OthersTyped, Stale, LoseFence, ModelAnswers, ModelFails
<1>2. WorkersTyped' /\ Busy' /\ WorkerStep
  <2>1. CASE Stale(w)
    BY <1>0, <2>1, Resting DEF Stale
  <2>2. CASE LoseFence(w)
    <3>1. Resumes(w, "denied") /\ ~At(w, "idle") /\ Attempting(w)
      BY <2>2 DEF LoseFence, Attempting
    <3> QED BY <1>0, <3>1, Going
  <2>3. CASE ModelAnswers(w)
    <3>1. Goes(w, "ready") /\ ~At(w, "idle") /\ Attempting(w) /\ Running(w)
      BY <2>3 DEF ModelAnswers, Attempting, Running
    <3> QED BY <1>0, <3>1, Going
  <2>4. CASE ModelFails(w)
    <3>1. Goes(w, "failing") /\ ~At(w, "idle") /\ Attempting(w)
      BY <2>4 DEF ModelFails, Attempting
    <3> QED BY <1>0, <3>1, Going
  <2> QED BY <2>1, <2>2, <2>3, <2>4
<1> QED BY <1>0, <1>1, <1>2, CallsUnchanged DEF Calm, TurnEffect

LEMMA ActionWaitsCalm ==
  ASSUME IInv, NEW w \in Workers, ActionWaits(w) PROVE Calm
<1>0. TurnsTyped /\ CallsTyped /\ WorkersTyped /\ OthersTyped /\ Busy
  BY InvParts
<1> DEFINE t == worker[w].turn
<1>1. t \in Turns /\ Rests(w) /\ OthersTyped'
  BY <1>0 DEF Busy, ActionWaits, OthersTyped
<1>2. Open(t) /\ turn' = Ended(t, "waiting", "action")
  BY DEF ActionWaits, FenceLive, Fence, IsHead
<1>3. TurnEffect
  BY <1>0, <1>1, <1>2, Ending
<1>4. UNCHANGED calls
  BY DEF ActionWaits
<1> QED BY <1>0, <1>1, <1>3, <1>4, CallsUnchanged, Resting DEF Calm

LEMMA AskPersonCalm ==
  ASSUME IInv, NEW w \in Workers, AskPerson(w) PROVE Calm
<1>0. TurnsTyped /\ CallsTyped /\ WorkersTyped /\ OthersTyped /\ Busy
  BY InvParts
<1> DEFINE t == worker[w].turn
           c == [kind |-> "call", running |-> FALSE, kept |-> TRUE, done |-> FALSE]
<1>1. t \in Turns /\ Rests(w)
  BY <1>0 DEF Busy, AskPerson
<1>2. Open(t) /\ turn' = Ended(t, "waiting", "none")
  BY DEF AskPerson, FenceLive, Fence, IsHead
<1>3. TurnEffect /\ turn'[t].status = "waiting"
  BY <1>0, <1>1, <1>2, Ending
<1>4. \A u \in Turns : calls'[u] = IF u = t THEN Append(calls[t], c) ELSE calls[u]
  BY <1>0 DEF CallsTyped, AskPerson
<1>5. c \in CallType
  BY DEF CallType
<1>6. CallsTyped'
  <2>1. Append(calls[t], c) \in Seq(CallType)
    BY <1>0, <1>1, <1>5 DEF CallsTyped
  <2>2. calls' = [calls EXCEPT ![t] = Append(calls[t], c)]
    BY DEF AskPerson
  <2> QED BY <1>0, <2>1, <2>2 DEF CallsTyped
<1>7. CallsStay
  BY <1>3, <1>4 DEF CallsStay
<1>8. OthersTyped'
  <2>1. turn[t].gen \in Nat /\ turn[t].epoch \in Nat
    BY <1>0, <1>1 DEF TurnsTyped, TurnRow
  <2>2. pending' \subseteq Turns \X Nat \X Nat
    BY <1>0, <1>1, <2>1 DEF OthersTyped, AskPerson
  <2> QED BY <1>0, <2>2 DEF OthersTyped, AskPerson
<1> QED BY <1>0, <1>1, <1>3, <1>6, <1>7, <1>8, Resting DEF Calm

LEMMA DeliverCalm ==
  ASSUME IInv, NEW w \in Workers, Deliver(w) PROVE Calm
<1>0. TurnsTyped /\ CallsTyped /\ WorkersTyped /\ OthersTyped /\ Busy
  BY InvParts
<1> DEFINE t == worker[w].turn
<1>1. t \in Turns /\ Rests(w)
  BY <1>0 DEF Busy, Deliver
<1>2. IsHead(t) /\ Open(t) /\ turn' = Ended(t, "completed", "none")
  BY DEF Deliver, FenceLive, Fence, IsHead
<1>3. /\ turn' \in [Turns -> TurnRow]
      /\ turn'[t].status = "completed" /\ ~turn'[t].live /\ turn'[t].epoch = turn[t].epoch
      /\ \A u \in Turns : u # t => turn'[u] = turn[u]
  <2>1. "completed" \in Statuses /\ "none" \in {"none", "busy", "action"}
    OBVIOUS
  <2> HIDE DEF Statuses
  <2> QED BY <1>0, <1>1, <1>2, <2>1, EndedTyped
<1>4. turn[t].epoch <= turn'[t].epoch
  <2>1. turn[t].epoch \in Nat
    BY <1>0, <1>1 DEF TurnsTyped, TurnRow
  <2> QED BY <2>1, <1>3
<1>5. Replies(t)
  BY <1>0, <1>1, <1>2, <1>3, <1>4, OneLeaves
<1>6. CallsTyped' /\ CallsStay
  BY <1>0, <1>1, OneInterrupted DEF Deliver
<1>7. OthersTyped'
  BY <1>0, NextIsDueTyped DEF OthersTyped, Deliver
<1> QED BY <1>0, <1>1, <1>5, <1>6, <1>7, Resting DEF Calm, TurnEffect

LEMMA FailCalm ==
  ASSUME IInv, NEW w \in Workers, Fail(w) PROVE Calm
<1>0. TurnsTyped /\ CallsTyped /\ WorkersTyped /\ OthersTyped /\ Busy
  BY InvParts
<1> DEFINE t == worker[w].turn
<1>1. t \in Turns /\ Rests(w)
  BY <1>0 DEF Busy, Fail
<1>2. CallsTyped' /\ CallsStay
  <2>1. UNCHANGED calls \/ calls' = [calls EXCEPT ![t] = Interrupted(t)]
    BY DEF Fail
  <2> QED BY <1>0, <1>1, <2>1, CallsUnchanged, OneInterrupted
<1>3. CASE ~FenceLive(w)
  <2>1. UNCHANGED <<turn, box, runs, pending, access, native, commands>>
    BY <1>3 DEF Fail
  <2>2. OthersTyped'
    BY <1>0, <2>1 DEF OthersTyped
  <2> QED BY <1>0, <1>1, <1>2, <2>1, <2>2, Resting DEF Calm, TurnEffect
<1>4. CASE FenceLive(w)
  <2>1. \E s \in {"queued", "failed"}, c \in {"none", "busy"} :
          turn' = [Ended(t, s, c) EXCEPT ![t].gen = @ + 1]
    BY <1>4, ZenonT(60) DEF Fail
  <2>2. PICK s \in {"queued", "failed"}, c \in {"none", "busy"} :
          turn' = [Ended(t, s, c) EXCEPT ![t].gen = @ + 1]
    BY <2>1
  <2> DEFINE E == Ended(t, s, c)
             row == [E[t] EXCEPT !.gen = @ + 1]
  <2>3. /\ E \in [Turns -> TurnRow]
        /\ E[t].status = s /\ ~E[t].live /\ E[t].epoch = turn[t].epoch
        /\ \A u \in Turns : u # t => E[u] = turn[u]
    <3>1. s \in Statuses /\ c \in {"none", "busy", "action"}
      OBVIOUS
    <3> HIDE DEF Statuses
    <3> QED BY <1>0, <1>1, <3>1, EndedTyped
  <2>4. E[t] \in TurnRow
    BY <1>1, <2>3
  <2>5. turn' = [E EXCEPT ![t] = row]
    BY <2>2
  <2> HIDE DEF E
  <2>6. E[t].gen + 1 \in Nat
    BY <2>4 DEF TurnRow
  <2>7. row \in TurnRow /\ row.status = s /\ ~row.live /\ row.epoch = turn[t].epoch
    BY <2>3, <2>4, <2>6 DEF TurnRow
  <2> HIDE DEF row
  <2>8. /\ turn' \in [Turns -> TurnRow] /\ turn'[t] = row
        /\ \A u \in Turns : u # t => turn'[u] = turn[u]
    BY <1>1, <2>3, <2>5, <2>7
  <2>9. turn[t].epoch <= turn'[t].epoch
    <3>1. turn[t].epoch \in Nat
      BY <1>0, <1>1 DEF TurnsTyped, TurnRow
    <3> QED BY <3>1, <2>7, <2>8
  <2>10. Open(t)
    BY <1>4 DEF FenceLive, Fence, IsHead
  <2>11. turn'[t].status \in {"queued", "failed"} /\ ~turn'[t].live
    BY <2>7, <2>8
  <2>12. Reopens({t})
    BY <1>0, <1>1, <2>8, <2>9, <2>10, <2>11, OneLeaves
  <2>13. OthersTyped'
    <3>1. box' \in [Turns -> BOOLEAN]
      BY <1>0, <1>4 DEF OthersTyped, Fail
    <3> QED BY <1>0, <3>1 DEF OthersTyped, Fail
  <2> QED BY <1>0, <1>1, <1>2, <2>12, <2>13, Resting DEF Calm, TurnEffect
<1> QED BY <1>3, <1>4

-----------------------------------------------------------------------------
\* The invariant after a step that is quiet.

LEMMA TypesAgain ==
  ASSUME TurnsTyped', CallsTyped', WorkersTyped', OthersTyped'
  PROVE  TypeOK'
BY DEF TypeOK, TurnsTyped, CallsTyped, WorkersTyped, OthersTyped, TurnRow, Doing

LEMMA QuietInv ==
  ASSUME IInv, TypeOK', Busy', InOrder', Quiet
  PROVE  IInv'
<1>1. EpochsPast' /\ OneEach' /\ OwnTool' /\ AllSeen'
  BY QuietKeeps DEF IInv
<1> QED BY <1>1 DEF IInv

LEMMA CalmInv ==
  ASSUME IInv, Calm
  PROVE  IInv'
<1>1. TurnsTyped' /\ TurnStep /\ InOrder'
  BY EffectQuiet, InvParts DEF Calm, IInv
<1>2. TypeOK'
  BY <1>1, TypesAgain DEF Calm
<1> QED BY <1>1, <1>2, QuietInv DEF Calm, Quiet

\* Steps that keep every turn's status, epoch and waiver, and are not calls.
SameTurns ==
  /\ TurnsTyped'
  /\ \A t \in Turns :
       /\ turn'[t].status = turn[t].status
       /\ turn'[t].epoch = turn[t].epoch
       /\ turn'[t].waived = turn[t].waived

LEMMA SameTurnsStep ==
  ASSUME IInv, SameTurns
  PROVE  TurnStep /\ InOrder'
<1>1. \A t \in Turns : turn[t].epoch \in Nat
  BY InvParts DEF TurnsTyped, TurnRow
<1>2. TurnStep
  BY <1>1 DEF TurnStep, SameTurns
<1>3. InOrder'
  BY DEF IInv, InOrder, SameTurns
<1> QED BY <1>2, <1>3

LEMMA SendInv ==
  ASSUME IInv, NEW t \in Turns, Send(t) PROVE IInv'
<1>0. TurnsTyped /\ CallsTyped /\ WorkersTyped /\ OthersTyped /\ Busy
  BY InvParts
<1> DEFINE row == [turn[t] EXCEPT !.status = "queued"]
<1>1. turn[t] \in TurnRow
  BY <1>0 DEF TurnsTyped
<1>2. row \in TurnRow /\ row.status = "queued" /\ row.live = turn[t].live
      /\ row.epoch = turn[t].epoch /\ row.epoch \in Nat
  BY <1>1 DEF TurnRow
<1>3. turn' = [turn EXCEPT ![t] = row]
  BY DEF Send
<1> HIDE DEF row
<1>4. turn'[t] = row /\ \A u \in Turns : u # t => turn'[u] = turn[u]
  BY <1>0, <1>3 DEF TurnsTyped
<1>5. ~turn[t].live
  BY <1>0 DEF TurnsTyped, Send
<1>6. TurnsTyped'
  BY <1>0, <1>2, <1>3, <1>4, <1>5 DEF TurnsTyped
<1>7. TurnStep
  <2>1. \A u \in Turns : turn[u].epoch \in Nat
    BY <1>0 DEF TurnsTyped, TurnRow
  <2> QED BY <1>2, <1>4, <2>1 DEF TurnStep
<1>8. InOrder'
  <2>1. \A u \in Turns : u < t => turn[u].status # "none"
    BY DEF Send
  <2>2. \A u \in Turns : turn'[u].status # "none" <=> (turn[u].status # "none" \/ u = t)
    BY <1>2, <1>4
  <2> QED BY <2>1, <2>2 DEF InOrder, IInv
<1>9. UNCHANGED <<calls, worker>> /\ OthersTyped'
  BY <1>0 DEF OthersTyped, Send
<1>10. CallsTyped' /\ CallsStay /\ WorkersTyped' /\ Busy' /\ WorkerStep
  BY <1>0, <1>9, CallsUnchanged, WorkersUnchanged
<1>11. TypeOK'
  BY <1>6, <1>9, <1>10, TypesAgain
<1> QED BY <1>7, <1>8, <1>10, <1>11, QuietInv DEF Quiet

LEMMA LeaseLapsesInv ==
  ASSUME IInv, NEW t \in Turns, LeaseLapses(t) PROVE IInv' /\ SameTurns
<1>0. TurnsTyped /\ CallsTyped /\ WorkersTyped /\ OthersTyped /\ Busy
  BY InvParts
<1> DEFINE row == [turn[t] EXCEPT !.live = FALSE]
<1>1. turn[t] \in TurnRow
  BY <1>0 DEF TurnsTyped
<1>2. row \in TurnRow /\ ~row.live /\ row.status = turn[t].status
      /\ row.epoch = turn[t].epoch /\ row.waived = turn[t].waived
  BY <1>1 DEF TurnRow
<1>3. turn' = [turn EXCEPT ![t] = row]
  BY DEF LeaseLapses
<1> HIDE DEF row
<1>4. turn'[t] = row /\ \A u \in Turns : u # t => turn'[u] = turn[u]
  BY <1>0, <1>3 DEF TurnsTyped
<1>5. SameTurns
  BY <1>0, <1>2, <1>3, <1>4 DEF TurnsTyped, SameTurns
<1>6. UNCHANGED <<calls, worker>> /\ OthersTyped'
  BY <1>0 DEF OthersTyped, LeaseLapses
<1>7. CallsTyped' /\ CallsStay /\ WorkersTyped' /\ Busy' /\ WorkerStep
  BY <1>0, <1>6, CallsUnchanged, WorkersUnchanged
<1>8. TypeOK'
  BY <1>5, <1>6, <1>7, TypesAgain DEF SameTurns
<1> QED BY <1>5, <1>7, <1>8, SameTurnsStep, QuietInv DEF Quiet

-----------------------------------------------------------------------------
\* The claim, and the steps of the attempt that holds the turn.

LEMMA ClaimTurnInv ==
  ASSUME IInv, NEW w \in Workers, ClaimTurn(w)
  PROVE  /\ IInv'
         /\ Open(worker[w].turn) /\ turn'[worker[w].turn].status = "processing"
         /\ worker[w].turn \in Turns
         /\ \A u \in Turns : u # worker[w].turn => turn'[u] = turn[u]
<1>0. TurnsTyped /\ CallsTyped /\ WorkersTyped /\ OthersTyped /\ Busy
  BY InvParts
<1> DEFINE t == worker[w].turn
<1>1. t \in Turns
  BY <1>0 DEF Busy, ClaimTurn
<1>2. /\ turn' \in [Turns -> TurnRow]
      /\ \A u \in Turns : turn'[u].live => turn'[u].status = "processing"
      /\ turn'[t].epoch = turn[t].epoch + 1
      /\ \A u \in Turns : u # t => turn'[u] = turn[u]
  BY <1>0, <1>1, ClaimedTyped DEF ClaimTurn
<1>3. Claimed(t)[t].epoch = turn[t].epoch + 1 /\ turn[t].epoch \in Nat
  <2>1. turn' = Claimed(t)
    BY DEF ClaimTurn
  <2> QED BY <1>0, <1>1, <1>2, <2>1 DEF TurnsTyped, TurnRow
<1>4. turn'[t].status = "processing"
  <2>1. turn'[t] = [turn[t] EXCEPT !.status = "processing", !.epoch = @ + 1, !.attempts = @ + 1,
                                   !.live = TRUE, !.code = "none"]
    BY <1>0, <1>1 DEF ClaimTurn, Claimed, TurnsTyped
  <2>2. turn[t] \in TurnRow
    BY <1>0, <1>1 DEF TurnsTyped
  <2> QED BY <2>1, <2>2 DEF TurnRow
<1>5. Open(t)
  BY DEF ClaimTurn, Claimable, IsHead
<1>6. CallsTyped' /\ CallsStay
  BY <1>0, <1>1, OneInterrupted DEF ClaimTurn
<1>7. OthersTyped'
  BY <1>0 DEF OthersTyped, ClaimTurn
<1> DEFINE x == [worker[w] EXCEPT !.stage = "claimed", !.epoch = turn[t].epoch + 1]
<1>8. worker' = [worker EXCEPT ![w] = x]
  BY <1>3 DEF ClaimTurn
<1>9. x \in Doing /\ x.stage = "claimed" /\ x.turn = t /\ x.epoch = turn[t].epoch + 1
  <2>1. worker[w] \in Doing /\ turn[t].epoch + 1 \in Nat
    BY <1>0, <1>3 DEF WorkersTyped
  <2> QED BY <2>1 DEF Doing
<1> HIDE DEF x
<1>10. worker'[w] = x /\ \A v \in Workers : v # w => worker'[v] = worker[v]
  BY <1>0, <1>8 DEF WorkersTyped
<1>11. WorkersTyped' /\ Busy'
  BY <1>0, <1>1, <1>8, <1>9, <1>10 DEF WorkersTyped, Busy
<1>12. TypeOK'
  BY <1>2, <1>6, <1>7, <1>11, TypesAgain DEF TurnsTyped
<1>13. \A v \in Workers : Attempting(v) =>
         /\ worker[v].turn \in Turns
         /\ worker[v].epoch \in Nat
         /\ turn[worker[v].turn].epoch \in Nat
         /\ worker[v].epoch <= turn[worker[v].turn].epoch
  <2>1. \A v \in Workers : worker[v].epoch \in Nat
    BY <1>0 DEF WorkersTyped, Doing
  <2>2. \A u \in Turns : turn[u].epoch \in Nat
    BY <1>0 DEF TurnsTyped, TurnRow
  <2> QED BY <1>0, <2>1, <2>2 DEF Busy, IInv, EpochsPast, Attempting
<1>14. \A v \in Workers : v # w => (Attempting(v)' <=> Attempting(v))
  BY <1>10 DEF Attempting
<1>15. EpochsPast'
  <2> SUFFICES ASSUME NEW v \in Workers, Attempting(v)'
               PROVE  worker'[v].epoch <= turn'[worker'[v].turn].epoch
    BY DEF EpochsPast
  <2>1. CASE v = w
    BY <2>1, <1>2, <1>3, <1>9, <1>10
  <2>2. CASE v # w /\ worker[v].turn # t
    BY <2>2, <1>2, <1>10, <1>13, <1>14
  <2>3. CASE v # w /\ worker[v].turn = t
    BY <2>3, <1>2, <1>10, <1>13, <1>14
  <2> QED BY <2>1, <2>2, <2>3
<1>16. OneEach'
  <2> SUFFICES ASSUME NEW u \in Workers, NEW v \in Workers, Attempting(u)', Attempting(v)',
                      worker'[u].turn = worker'[v].turn, worker'[u].epoch = worker'[v].epoch
               PROVE  u = v
    BY DEF OneEach
  <2>1. CASE u # w /\ v # w
    BY <2>1, <1>10, <1>14 DEF IInv, OneEach
  <2>2. CASE u = w /\ v # w
    BY <2>2, <1>3, <1>9, <1>10, <1>13, <1>14
  <2>3. CASE u # w /\ v = w
    BY <2>3, <1>3, <1>9, <1>10, <1>13, <1>14
  <2> QED BY <2>1, <2>2, <2>3
<1>17. OwnTool'
  BY <1>9, <1>10 DEF IInv, OwnTool
<1>18. InOrder'
  <2>1. \A u \in Turns : turn'[u].status = "none" <=> turn[u].status = "none"
    BY <1>2, <1>4, <1>5 DEF Open
  <2> QED BY <2>1 DEF IInv, InOrder
<1>19. AllSeen'
  <2> SUFFICES ASSUME NEW v \in Workers, Holds(v)', Running(v)' PROVE Sees(v)'
    BY DEF AllSeen
  <2>1. v # w
    BY <1>9, <1>10 DEF Running
  <2>2. worker'[v] = worker[v] /\ Attempting(v) /\ Running(v)
    BY <2>1, <1>10, <1>14 DEF Holds, Running
  <2>3. worker[v].turn # t
    BY <2>2, <1>2, <1>3, <1>13 DEF Holds
  <2>4. turn'[worker[v].turn] = turn[worker[v].turn] /\ worker[v].turn \in Turns
    BY <2>2, <2>3, <1>2, <1>13
  <2>5. Sees(v) /\ turn'[worker[v].turn].status = "processing"
    BY <2>2, <2>4 DEF Holds, IInv, AllSeen
  <2> QED BY <2>2, <2>4, <2>5, <1>6 DEF Sees, CallsStay
<1> QED BY <1>1, <1>2, <1>4, <1>5, <1>12, <1>11, <1>15, <1>16, <1>17, <1>18, <1>19 DEF IInv

\* A start loses the turn, or runs the model over calls it has seen.
LEMMA PrepareInv ==
  ASSUME IInv, NEW w \in Workers, Prepare(w)
  PROVE  IInv' /\ (Calm \/ SameTurns)
<1>0. TurnsTyped /\ CallsTyped /\ WorkersTyped /\ OthersTyped /\ Busy
  BY InvParts
<1> DEFINE t == worker[w].turn
<1>1. t \in Turns /\ ~At(w, "idle") /\ Attempting(w)
  BY <1>0 DEF Busy, Prepare, Attempting
<1>2. UNCHANGED calls /\ OthersTyped'
  BY <1>0 DEF OthersTyped, Prepare
<1>3. CallsTyped' /\ CallsStay
  BY <1>0, <1>2, CallsUnchanged
<1>4. ASSUME ~Resumable(t) PROVE Calm
  <2>1. turn' = Ended(t, "failed", "none") /\ Rests(w)
    BY <1>4 DEF Prepare
  <2>2. Open(t)
    BY DEF Prepare, FenceLive, Fence, IsHead
  <2>3. TurnEffect
    BY <1>0, <1>1, <2>1, <2>2, Ending
  <2> QED BY <1>0, <1>2, <1>3, <2>1, <2>3, Resting DEF Calm
<1>5. ASSUME Resumable(t) PROVE SameTurns
  <2> DEFINE row == [turn[t] EXCEPT !.started = ~native \/ @]
  <2>1. turn' = [turn EXCEPT ![t] = row]
    BY <1>5 DEF Prepare
  <2>2. turn[t] \in TurnRow
    BY <1>0, <1>1 DEF TurnsTyped
  <2>3. row \in TurnRow /\ row.status = turn[t].status /\ row.epoch = turn[t].epoch
        /\ row.waived = turn[t].waived /\ row.live = turn[t].live
    BY <2>2 DEF TurnRow
  <2> HIDE DEF row
  <2>4. turn'[t] = row /\ \A u \in Turns : u # t => turn'[u] = turn[u]
    BY <1>0, <1>1, <2>1 DEF TurnsTyped
  <2> QED BY <1>0, <1>1, <2>1, <2>3, <2>4 DEF TurnsTyped, SameTurns
<1>6. ASSUME Resumable(t), Goes(w, "denied") PROVE IInv'
  <2>1. WorkersTyped' /\ Busy' /\ WorkerStep
    BY <1>0, <1>1, <1>6, Going
  <2>2. TurnStep /\ InOrder' /\ TurnsTyped'
    BY <1>5, <1>6, SameTurnsStep DEF SameTurns
  <2>3. TypeOK'
    BY <1>2, <1>3, <2>1, <2>2, TypesAgain
  <2> QED BY <1>3, <2>1, <2>2, <2>3, QuietInv DEF Quiet
<1>7. ASSUME Resumable(t), Goes(w, "model") PROVE IInv'
  <2>1. /\ worker'[w].stage = "model"
        /\ worker'[w].turn = t
        /\ worker'[w].epoch = worker[w].epoch
        /\ worker'[w].own = worker[w].own
        /\ \A v \in Workers \ {w} : worker'[v] = worker[v]
    BY <1>0, <1>7 DEF Goes, WorkersTyped, Doing
  <2>2. WorkersTyped' /\ Busy'
    BY <1>0, <1>1, <1>7, <2>1, RestsTyped DEF Busy
  <2>3. TurnsTyped' /\ InOrder' /\ SameTurns
    BY <1>5, <1>7, SameTurnsStep DEF SameTurns
  <2>4. TypeOK'
    BY <1>2, <1>3, <2>2, <2>3, TypesAgain
  <2>5. \A v \in Workers : Attempting(v)' <=> Attempting(v)
    BY <1>1, <2>1 DEF Attempting
  <2>6. \A v \in Workers : worker'[v].turn = worker[v].turn /\ worker'[v].epoch = worker[v].epoch
    BY <2>1
  <2>7. \A v \in Workers : Attempting(v) => worker[v].turn \in Turns
    BY <1>0 DEF Busy, Attempting
  <2>8. EpochsPast'
    BY <2>3, <2>5, <2>6, <2>7 DEF IInv, EpochsPast, SameTurns
  <2>9. OneEach'
    BY <2>5, <2>6 DEF IInv, OneEach
  <2>10. OwnTool'
    BY <2>1 DEF IInv, OwnTool
  <2>11. AllSeen'
    <3> SUFFICES ASSUME NEW v \in Workers, Holds(v)', Running(v)' PROVE Sees(v)'
      BY DEF AllSeen
    <3>1. Attempting(v) /\ worker[v].turn \in Turns
      BY <2>5, <2>7 DEF Holds
    <3>2. Sees(v)
      <4>1. CASE v = w
        <5>1. \A i \in DOMAIN calls[t] : calls[t][i].kept \/ i <= turn[t].waived
          <6>1. calls[t] \in Seq(CallType)
            BY <1>0, <1>1 DEF CallsTyped
          <6>2. DOMAIN calls[t] = 1..Len(calls[t])
            BY <6>1
          <6> QED BY <1>7, <6>1, <6>2 DEF Resumable, Continued
        <5> QED BY <4>1, <5>1 DEF Sees
      <4>2. CASE v # w
        BY <4>2, <2>1, <2>3, <3>1 DEF IInv, AllSeen, Holds, Running, SameTurns
      <4> QED BY <4>1, <4>2
    <3>3. turn'[worker[v].turn].waived = turn[worker[v].turn].waived
      BY <2>3, <3>1 DEF SameTurns
    <3>4. worker'[v].own = worker[v].own
      BY <2>1
    <3> QED BY <1>2, <2>6, <3>2, <3>3, <3>4 DEF Sees
  <2> QED BY <2>2, <2>3, <2>4, <2>8, <2>9, <2>10, <2>11 DEF IInv
<1>8. Resumable(t) => Goes(w, "denied") \/ Goes(w, "model")
  BY DEF Prepare
<1> QED BY <1>4, <1>5, <1>6, <1>7, <1>8, CalmInv

\* The worker that holds its turn calls a tool, or a tool it called is done.
OwnCall(w) ==
  LET t == worker[w].turn IN
  /\ Fence(w) /\ Running(w)
  /\ UNCHANGED turn
  /\ CallsTyped' /\ WorkersTyped' /\ OthersTyped'
  /\ \A u \in Turns : u # t => calls'[u] = calls[u]
  /\ \A i \in DOMAIN calls'[t] :
       \/ i \in worker'[w].own
       \/ i \in DOMAIN calls[t] /\ (calls[t][i].kept => calls'[t][i].kept)
  /\ \A v \in Workers : v # w => worker'[v] = worker[v]
  /\ worker'[w].stage \in {"model", "tool"}
  /\ worker'[w].turn = t
  /\ worker'[w].epoch = worker[w].epoch
  /\ worker[w].own \subseteq worker'[w].own
  /\ At(w, "tool")' => worker'[w].call \in worker'[w].own

LEMMA OwnCallInv ==
  ASSUME IInv, NEW w \in Workers, OwnCall(w) PROVE IInv'
<1>0. TurnsTyped /\ CallsTyped /\ WorkersTyped /\ OthersTyped /\ Busy
  BY InvParts
<1> DEFINE t == worker[w].turn
<1>1. t \in Turns /\ ~At(w, "idle") /\ Attempting(w)
  BY <1>0 DEF Busy, OwnCall, Attempting, Running
<1>2. TurnsTyped' /\ InOrder'
  BY <1>0, Still DEF OwnCall, IInv
<1>3. TypeOK'
  BY <1>2, TypesAgain DEF OwnCall
<1>4. \A v \in Workers : Attempting(v)' <=> Attempting(v)
  BY <1>1 DEF OwnCall, Attempting
<1>5. \A v \in Workers : worker'[v].turn = worker[v].turn /\ worker'[v].epoch = worker[v].epoch
  BY DEF OwnCall
<1>6. Busy'
  BY <1>0, <1>1, <1>5 DEF OwnCall, Busy
<1>7. EpochsPast'
  BY <1>4, <1>5 DEF IInv, EpochsPast, OwnCall
<1>8. OneEach'
  BY <1>4, <1>5 DEF IInv, OneEach
<1>9. OwnTool'
  BY DEF IInv, OwnTool, OwnCall
<1>10. AllSeen'
  <2> SUFFICES ASSUME NEW v \in Workers, Holds(v)', Running(v)' PROVE Sees(v)'
    BY DEF AllSeen
  <2>1. Holds(v)
    BY <1>4, <1>5 DEF Holds, OwnCall
  <2>2. Holds(w)
    BY <1>1 DEF Holds, OwnCall, Fence
  <2>3. Running(v)
    BY DEF OwnCall, Running
  <2>4. Sees(v)
    BY <2>1, <2>3 DEF IInv, AllSeen
  <2>5. CASE v = w
    BY <2>4, <2>5, <1>5 DEF Sees, OwnCall
  <2>6. CASE v # w
    <3>1. worker[v].turn # t
      BY <2>1, <2>2, <2>6 DEF IInv, OneEach, Holds
    <3>2. worker[v].turn \in Turns
      BY <1>0, <2>1 DEF Busy, Holds, Attempting
    <3>3. calls'[worker[v].turn] = calls[worker[v].turn] /\ worker'[v] = worker[v]
      BY <2>6, <3>1, <3>2 DEF OwnCall
    <3> QED BY <2>4, <3>3 DEF Sees, OwnCall
  <2> QED BY <2>5, <2>6
<1> QED BY <1>2, <1>3, <1>6, <1>7, <1>8, <1>9, <1>10 DEF IInv

LEMMA BeginCallIs ==
  ASSUME IInv, NEW w \in Workers, BeginCall(w) PROVE OwnCall(w)
<1>0. TurnsTyped /\ CallsTyped /\ WorkersTyped /\ OthersTyped /\ Busy
  BY InvParts
<1> DEFINE t == worker[w].turn
<1>1. t \in Turns /\ Fence(w) /\ Running(w) /\ UNCHANGED turn /\ OthersTyped'
  BY <1>0 DEF Busy, BeginCall, FenceLive, Running, OthersTyped
<1>2. calls[t] \in Seq(CallType)
  BY <1>0, <1>1 DEF CallsTyped
<1>3. PICK kind \in {"call", "action"} :
        calls' = [calls EXCEPT ![t] = Append(@,
          [kind |-> kind, running |-> TRUE, kept |-> FALSE, done |-> FALSE])]
  BY DEF BeginCall
<1> DEFINE c == [kind |-> kind, running |-> TRUE, kept |-> FALSE, done |-> FALSE]
           s == Append(calls[t], c)
           n == Len(calls[t]) + 1
<1>4. c \in CallType
  BY DEF CallType
<1>5. s \in Seq(CallType) /\ DOMAIN s = DOMAIN calls[t] \cup {n} /\ n \in Nat
      /\ \A i \in DOMAIN calls[t] : s[i] = calls[t][i]
  BY <1>2, <1>4
<1>6. calls' = [calls EXCEPT ![t] = s]
  BY <1>3
<1> HIDE DEF s, c
<1>7. CallsTyped' /\ calls'[t] = s /\ \A u \in Turns : u # t => calls'[u] = calls[u]
  BY <1>0, <1>1, <1>5, <1>6 DEF CallsTyped
<1>8. worker' = [worker EXCEPT ![w].stage = "tool", ![w].call = n, ![w].own = @ \cup {n}]
  BY DEF BeginCall
<1>9. /\ WorkersTyped'
      /\ worker'[w].stage = "tool" /\ worker'[w].turn = t /\ worker'[w].epoch = worker[w].epoch
      /\ worker'[w].own = worker[w].own \cup {n} /\ worker'[w].call = n
      /\ \A v \in Workers : v # w => worker'[v] = worker[v]
  <2> DEFINE x == [worker[w] EXCEPT !.stage = "tool", !.call = n, !.own = @ \cup {n}]
  <2>1. worker[w] \in Doing
    BY <1>0 DEF WorkersTyped
  <2> HIDE DEF n
  <2>2. worker[w].own \cup {n} \in SUBSET Nat
    BY <1>5, <2>1 DEF Doing
  <2>3. /\ x \in Doing /\ x.stage = "tool" /\ x.turn = t /\ x.epoch = worker[w].epoch
        /\ x.own = worker[w].own \cup {n} /\ x.call = n
    BY <1>5, <2>1, <2>2 DEF Doing
  <2>4. worker' = [worker EXCEPT ![w] = x]
    BY <1>8
  <2> HIDE DEF x
  <2> QED BY <1>0, <2>3, <2>4 DEF WorkersTyped
<1> QED BY <1>1, <1>5, <1>7, <1>9 DEF OwnCall

LEMMA CallEndsIs ==
  ASSUME IInv, NEW w \in Workers, CallDone(w) \/ CallFails(w) PROVE OwnCall(w)
<1>0. TurnsTyped /\ CallsTyped /\ WorkersTyped /\ OthersTyped /\ Busy
  BY InvParts
<1> DEFINE t == worker[w].turn
           i == worker[w].call
<1>1. t \in Turns /\ Fence(w) /\ Running(w) /\ UNCHANGED turn /\ OthersTyped'
  BY <1>0, ZenonT(60) DEF Busy, CallDone, CallFails, FenceLive, Running, OthersTyped
<1>2. i \in worker[w].own
  BY DEF IInv, OwnTool, CallDone, CallFails
<1>3. native \in BOOLEAN
  BY <1>0 DEF OthersTyped
<1>4. PICK saved \in BOOLEAN :
        calls' = [calls EXCEPT ![t][i].running = FALSE, ![t][i].kept = saved]
  <2>1. CASE CallDone(w)
    BY <2>1, <1>3, ZenonT(60) DEF CallDone
  <2>2. CASE CallFails(w)
    <3>1. \E saved \in {FALSE, native} :
            calls' = [calls EXCEPT ![t][i].running = FALSE, ![t][i].kept = saved]
      BY <2>2, ZenonT(60) DEF CallFails
    <3> QED BY <3>1, <1>3, ZenonT(60)
  <2> QED BY <2>1, <2>2
<1>5. calls[t] \in Seq(CallType)
  BY <1>0, <1>1 DEF CallsTyped
<1>6. /\ CallsTyped' /\ DOMAIN calls'[t] = DOMAIN calls[t]
      /\ \A j \in DOMAIN calls[t] : j # i => calls'[t][j] = calls[t][j]
      /\ \A u \in Turns : u # t => calls'[u] = calls[u]
  <2>1. CASE i \in DOMAIN calls[t]
    <3> DEFINE c == [calls[t][i] EXCEPT !.running = FALSE, !.kept = saved]
               s == [calls[t] EXCEPT ![i] = c]
    <3>1. calls[t][i] \in CallType
      BY <1>5, <2>1
    <3>2. c \in CallType
      BY <3>1 DEF CallType
    <3>3. calls' = [calls EXCEPT ![t] = s]
      BY <1>0, <1>1, <1>4, <2>1 DEF CallsTyped
    <3> HIDE DEF c
    <3>4. s \in Seq(CallType) /\ DOMAIN s = DOMAIN calls[t]
          /\ \A j \in DOMAIN calls[t] : j # i => s[j] = calls[t][j]
      BY <1>5, <2>1, <3>2
    <3> HIDE DEF s
    <3> QED BY <1>0, <1>1, <3>3, <3>4 DEF CallsTyped
  <2>2. CASE i \notin DOMAIN calls[t]
    <3>1. calls' = calls
      BY <1>0, <1>1, <1>4, <2>2, EndsNothing DEF CallsTyped
    <3> QED BY <1>0, <3>1 DEF CallsTyped
  <2> QED BY <2>1, <2>2
<1>7. Resumes(w, "model")
  BY ZenonT(60) DEF CallDone, CallFails
<1>8. /\ WorkersTyped'
      /\ worker'[w].stage = "model" /\ worker'[w].turn = t /\ worker'[w].epoch = worker[w].epoch
      /\ worker'[w].own = worker[w].own
      /\ \A v \in Workers : v # w => worker'[v] = worker[v]
  BY <1>0, <1>7, RestsTyped DEF WorkersTyped, Doing, Resumes
<1> QED BY <1>1, <1>2, <1>6, <1>8 DEF OwnCall

-----------------------------------------------------------------------------
\* Together.

LEMMA InitInv == Init => IInv
<1> SUFFICES ASSUME Init PROVE IInv
  OBVIOUS
<1>1. 0 \in 0..BusyLimit /\ 0 \in 0..MaxCommands
  BY LimitsAssumption, BoundsAssumption
<1>2. TypeOK
  <2>1. TurnsTyped
    BY <1>1 DEF Init, TurnsTyped, TurnRow
  <2>2. CallsTyped /\ WorkersTyped /\ OthersTyped
    BY <1>1 DEF Init, CallsTyped, WorkersTyped, OthersTyped, Idle, Doing
  <2> QED BY <2>1, <2>2, Parts DEF OthersTyped
<1>3. \A w \in Workers : ~Attempting(w) /\ At(w, "idle")
  BY DEF Init, Idle, Attempting
<1> QED BY <1>2, <1>3 DEF IInv, Busy, EpochsPast, OneEach, OwnTool, AllSeen, Holds, InOrder, Init

\* A step that no lemma above calls calm.
Acts(w) ==
  ClaimTurn(w) \/ Prepare(w) \/ BeginCall(w) \/ CallDone(w) \/ CallFails(w)

LEMMA Cases ==
  ASSUME IInv, Next
  PROVE  \/ Calm
         \/ \E t \in Turns : Send(t) \/ LeaseLapses(t)
         \/ \E w \in Workers : Acts(w)
<1>1. ASSUME NEW t \in Turns, Retry(t) \/ Cancel(t) \/ Dispatch(t) \/ ActionSettles(t)
      PROVE  Calm
  BY <1>1, RetryCalm, CancelCalm, DispatchCalm, ActionSettlesCalm
<1>2. ASSUME Remove \/ LoseAccess \/ Expire PROVE Calm
  BY <1>2, RemoveCalm, LoseAccessCalm, ExpireCalm
<1>3. ASSUME NEW p \in pending, Resolve(p) PROVE Calm
  BY <1>3, ResolveCalm
<1>4. ASSUME NEW w \in Workers,
             Crash(w) \/ Take(w) \/ Refused(w) \/ PollRead(w) \/ PollWrite(w)
      PROVE  Calm
  BY <1>4, CrashCalm, TakeCalm, RefusedCalm, PollReadCalm, PollWriteCalm
<1>5. ASSUME NEW w \in Workers, Claims(w) PROVE Calm \/ Acts(w)
  BY <1>5, ClaimCalm DEF Claims, Acts
<1>6. ASSUME NEW w \in Workers, Works(w) PROVE Calm \/ Acts(w)
  BY <1>6, AttemptCalm, ActionWaitsCalm, AskPersonCalm, DeliverCalm, FailCalm DEF Works, Acts
<1> QED BY <1>1, <1>2, <1>3, <1>4, <1>5, <1>6 DEF Next

LEMMA StepInv == IInv /\ [Next]_vars => IInv'
<1> SUFFICES ASSUME IInv, [Next]_vars PROVE IInv'
  OBVIOUS
<1>1. CASE UNCHANGED vars
  <2>1. Calm
    BY <1>1, InvParts, CallsUnchanged, WorkersUnchanged DEF vars, Calm, TurnEffect, OthersTyped
  <2> QED BY <2>1, CalmInv
<1>2. CASE Next
  <2>1. ASSUME NEW t \in Turns, Send(t) \/ LeaseLapses(t) PROVE IInv'
    BY <2>1, SendInv, LeaseLapsesInv
  <2>2. ASSUME NEW w \in Workers, Acts(w) PROVE IInv'
    BY <2>2, ClaimTurnInv, PrepareInv, BeginCallIs, CallEndsIs, OwnCallInv DEF Acts
  <2> QED BY <1>2, <2>1, <2>2, Cases, CalmInv
<1> QED BY <1>1, <1>2

\* Every reachable state of the chat satisfies the inductive invariant.
THEOREM Inductive == Spec => []IInv
<1>1. Init => IInv
  BY InitInv
<1>2. IInv /\ [Next]_vars => IInv'
  BY StepInv
<1> QED BY <1>1, <1>2, PTL DEF Spec

\* The variables keep their types, and a live lease belongs to a turn that is
\* being processed (the columns of tf_conversation_turns and of its calls).
THEOREM TurnsTypeOK == Spec => []TypeOK
<1>1. IInv => TypeOK
  BY DEF IInv
<1> QED BY <1>1, Inductive, PTL

\* However leases lapse and runs repeat, one worker at most holds a claim
\* that a transaction of the chat would accept (claim and guarded).
THEOREM OneAttemptHolds == Spec => []OneAttempt
<1>1. IInv => OneAttempt
  <2> SUFFICES ASSUME IInv, NEW v \in Workers, NEW w \in Workers, Fence(v), Fence(w)
               PROVE  v = w
    BY DEF OneAttempt
  <2>1. worker[v].turn \in Turns /\ worker[w].turn \in Turns
    BY DEF IInv, Busy, Fence
  <2>2. worker[v].turn = worker[w].turn
    <3>1. worker[v].turn \in Nat /\ worker[w].turn \in Nat
      BY <2>1, TurnsAssumption
    <3>2. ~(worker[v].turn < worker[w].turn) /\ ~(worker[w].turn < worker[v].turn)
      BY <2>1 DEF Fence, IsHead
    <3> QED BY <3>1, <3>2
  <2> QED BY <2>2 DEF IInv, OneEach, Fence, Attempting
<1> QED BY <1>1, Inductive, PTL

\* An attempt that may still publish has seen what every recorded call of its
\* turn returned, made the call, or was asked by a person to go on after it.
THEOREM NoBlindRerunHolds == Spec => []NoBlindRerun
<1>1. IInv => NoBlindRerun
  BY DEF IInv, AllSeen, NoBlindRerun, Fence, Holds, Running, Sees, Attempting
<1> QED BY <1>1, Inductive, PTL

-----------------------------------------------------------------------------
\* The chat keeps its promise: each step is one of ChatPromise or none.

LEMMA SameSeen ==
  ASSUME \A t \in Turns :
           \/ turn'[t] = turn[t]
           \/ Open(t) /\ turn'[t].status \notin Closed \cup {"none"}
           \/ turn'[t].status = turn[t].status
  PROVE  Seen' = Seen
BY DEF Seen, Open

LEMMA CalmPromise ==
  ASSUME IInv, Calm PROVE [Promise!Next]_Seen
<1>1. CASE UNCHANGED turn
  BY <1>1, SameSeen
<1>2. ASSUME NEW S \in SUBSET Turns, Reopens(S) PROVE Seen' = Seen
  BY <1>2, SameSeen DEF Reopens, Leaves, Open
<1>3. ASSUME NEW S \in SUBSET Turns, Halts(S) PROVE [Promise!Next]_Seen
  <2>1. CASE S = {}
    BY <1>3, <2>1, SameSeen DEF Halts, Leaves
  <2>2. CASE S # {}
    <3>1. \A t \in S : Seen[t] = "open" /\ Seen'[t] = "stopped"
      BY <1>3 DEF Halts, Open, Seen
    <3>2. \A t \in Turns \ S : Seen'[t] = Seen[t]
      BY <1>3 DEF Halts, Leaves, Seen
    <3>3. Seen' = [t \in Turns |-> IF t \in S THEN "stopped" ELSE Seen[t]]
      BY <3>1, <3>2, ZenonT(60) DEF Seen
    <3>4. Promise!Stop(S)
      BY <2>2, <3>1, <3>3 DEF Promise!Stop
    <3> QED BY <3>4 DEF Promise!Next
  <2> QED BY <2>1, <2>2
<1>4. ASSUME NEW t \in Turns, Replies(t) PROVE [Promise!Next]_Seen
  <2>1. Seen[t] = "open" /\ Seen'[t] = "answered"
    BY <1>4 DEF Replies, IsHead, Open, Seen
  <2>2. \A u \in Turns : u # t => Seen'[u] = Seen[u]
    BY <1>4 DEF Replies, Leaves, Seen
  <2>3. Seen' = [Seen EXCEPT ![t] = "answered"]
    BY <2>1, <2>2, ZenonT(60) DEF Seen
  <2>4. \A u \in Turns : u < t => Seen[u] \in {"answered", "stopped"}
    <3> SUFFICES ASSUME NEW u \in Turns, u < t PROVE Seen[u] \in {"answered", "stopped"}
      OBVIOUS
    <3>1. turn[u].status # "none"
      BY <1>4 DEF IInv, InOrder, Replies, IsHead, Open
    <3>2. turn[u].status \in {"completed", "cancelled", "blocked"}
      BY <1>4, <3>1 DEF Replies, IsHead, Open
    <3> QED BY <3>2 DEF Seen
  <2>5. Promise!Answer(t)
    BY <2>1, <2>3, <2>4 DEF Promise!Answer, Promise!Ends
  <2> QED BY <2>5 DEF Promise!Next
<1> QED BY <1>1, <1>2, <1>3, <1>4 DEF Calm, TurnEffect

LEMMA SendPromise ==
  ASSUME IInv, NEW t \in Turns, Send(t) PROVE [Promise!Next]_Seen
<1>1. turn'[t].status = "queued" /\ \A u \in Turns : u # t => turn'[u] = turn[u]
  <2>1. turn \in [Turns -> TurnRow]
    BY InvParts DEF TurnsTyped
  <2>2. turn[t] \in TurnRow
    BY <2>1
  <2> QED BY <2>1, <2>2 DEF Send, TurnRow
<1>2. Seen[t] = "unsent" /\ Seen'[t] = "open" /\ \A u \in Turns : u # t => Seen'[u] = Seen[u]
  BY <1>1 DEF Seen, Send
<1>3. Seen' = [Seen EXCEPT ![t] = "open"]
  BY <1>2, ZenonT(60) DEF Seen
<1>4. \A u \in Turns : u < t => Seen[u] # "unsent"
  BY DEF Send, Seen
<1>5. Promise!Ask(t)
  BY <1>2, <1>3, <1>4 DEF Promise!Ask
<1> QED BY <1>5 DEF Promise!Next

LEMMA StepPromise == IInv /\ [Next]_vars => [Promise!Next]_Seen
<1> SUFFICES ASSUME IInv, [Next]_vars PROVE [Promise!Next]_Seen
  OBVIOUS
<1>1. CASE UNCHANGED vars
  BY <1>1, SameSeen DEF vars
<1>2. CASE Next
  <2>1. ASSUME SameTurns PROVE Seen' = Seen
    BY <2>1, SameSeen DEF SameTurns
  <2>2. ASSUME NEW w \in Workers, ClaimTurn(w) PROVE Seen' = Seen
    BY <2>2, ClaimTurnInv, SameSeen
  <2>3. ASSUME NEW w \in Workers, Acts(w) PROVE [Promise!Next]_Seen
    <3>1. CASE ClaimTurn(w)
      BY <3>1, <2>2
    <3>2. CASE Prepare(w)
      BY <3>2, PrepareInv, CalmPromise, <2>1
    <3>3. CASE BeginCall(w) \/ CallDone(w) \/ CallFails(w)
      <4>1. UNCHANGED turn
        BY <3>3 DEF BeginCall, CallDone, CallFails
      <4> QED BY <4>1, SameSeen
    <3> QED BY <2>3, <3>1, <3>2, <3>3 DEF Acts
  <2>4. ASSUME NEW t \in Turns, Send(t) \/ LeaseLapses(t) PROVE [Promise!Next]_Seen
    BY <2>4, <2>1, SendPromise, LeaseLapsesInv
  <2> QED BY <1>2, <2>3, <2>4, Cases, CalmPromise
<1> QED BY <1>1, <1>2

\* Replies come in the order of the messages, one each, and an ended turn
\* stays as it ended, for every number of turns and workers.
THEOREM PromiseHolds == Spec => PromiseKept
<1>1. Init => Promise!Init
  BY DEF Init, Promise!Init, Seen
<1>2. IInv /\ [Next]_vars => [Promise!Next]_Seen
  BY StepPromise
<1> QED BY <1>1, <1>2, Inductive, PTL DEF Spec, PromiseKept, Promise!Spec
=============================================================================
