-------------------------- MODULE TaskRuntimeProofs --------------------------
(***************************************************************************)
(* Proofs about TaskRuntime, for any number of workers and any limits, in  *)
(* four layers: types and references; leases, work and winners, with the   *)
(* simulation of TaskPromise; active time; and spending.                   *)
(***************************************************************************)
EXTENDS TaskRuntime, SumLemmas, TLAPS

-----------------------------------------------------------------------------
(* Numbers and sequences. *)

LEMMA MaxOfTwo ==
  ASSUME NEW a \in Int, NEW b \in Int
  PROVE  Max({a, b}) = IF a >= b THEN a ELSE b
BY DEF Max

LEMMA MinOfTwo ==
  ASSUME NEW a \in Int, NEW b \in Int
  PROVE  Min({a, b}) = IF a <= b THEN a ELSE b
BY DEF Min

\* s is a sequence of members of T, seen as a function.
IsRows(s, T) ==
    /\ Len(s) \in Nat /\ DOMAIN s = 1 .. Len(s)
    /\ s = [i \in 1 .. Len(s) |-> s[i]]
    /\ \A i \in DOMAIN s : s[i] \in T

LEMMA SeqRows == ASSUME NEW T, NEW s \in Seq(T) PROVE IsRows(s, T)
BY DEF IsRows

\* A function over the indices of s whose values are members of T.
LEMMA RowsSeq ==
  ASSUME NEW T, NEW n \in Nat, NEW s, s = [i \in 1 .. n |-> s[i]],
         \A i \in 1 .. n : s[i] \in T
  PROVE  s \in Seq(T) /\ Len(s) = n /\ DOMAIN s = 1 .. n
<1>1. s \in [1 .. n -> T] OBVIOUS
<1>2. QED BY <1>1

LEMMA SeqReplace ==
  ASSUME NEW T, NEW s \in Seq(T), NEW k, NEW x, k \in DOMAIN s => x \in T
  PROVE  /\ [s EXCEPT ![k] = x] \in Seq(T)
         /\ DOMAIN [s EXCEPT ![k] = x] = DOMAIN s
         /\ Len([s EXCEPT ![k] = x]) = Len(s)
         /\ \A i \in DOMAIN s : [s EXCEPT ![k] = x][i] = IF i = k THEN x ELSE s[i]
<1> DEFINE r == [s EXCEPT ![k] = x]
<1>1. Len(s) \in Nat /\ DOMAIN s = 1 .. Len(s) OBVIOUS
<1>2. r = [i \in 1 .. Len(s) |-> r[i]] BY <1>1
<1>3. \A i \in 1 .. Len(s) : r[i] = IF i = k THEN x ELSE s[i] BY <1>1
<1>4. \A i \in 1 .. Len(s) : r[i] \in T BY <1>1, <1>3
<1> HIDE DEF r
<1>5. r \in Seq(T) /\ Len(r) = Len(s) /\ DOMAIN r = 1 .. Len(s) BY <1>1, <1>2, <1>4, RowsSeq
<1>6. QED BY <1>1, <1>3, <1>5 DEF r

LEMMA SeqAppend ==
  ASSUME NEW T, NEW s \in Seq(T), NEW x \in T
  PROVE  /\ Append(s, x) \in Seq(T)
         /\ Len(Append(s, x)) = Len(s) + 1
         /\ DOMAIN Append(s, x) = DOMAIN s \cup {Len(s) + 1}
         /\ Len(s) + 1 \notin DOMAIN s
         /\ \A i \in DOMAIN s : Append(s, x)[i] = s[i]
         /\ Append(s, x)[Len(s) + 1] = x
OBVIOUS

-----------------------------------------------------------------------------
(* The rows of an attempt. *)

\* What no statement does to an attempt: it keeps its step and its reserved
\* time, a lease that ended stays ended, an outcome and a settled charge stay,
\* and what was observed is not forgotten.
AttemptKept(at, new) ==
    /\ new \in AttemptRows
    /\ new.step = at.step /\ new.reserved = at.reserved
    /\ new.live => at.live
    /\ new.status # at.status => at.status = "running" /\ new.status # "running"
    /\ at.charged # Open => new.charged = at.charged
    /\ at.observed # Open => new.observed # Open
    /\ new.pending => at.pending \/ new.observed # Open

Lates == {"none", "armed", "observed"}

LEMMA AttemptFields ==
  ASSUME NEW at
  PROVE  at \in AttemptRows <=>
           /\ at = [step |-> at.step, status |-> at.status, live |-> at.live,
                    noted |-> at.noted, known |-> at.known, charged |-> at.charged,
                    reserved |-> at.reserved, observed |-> at.observed,
                    reported |-> at.reported, pending |-> at.pending,
                    settled |-> at.settled, late |-> at.late,
                    forgotten |-> at.forgotten]
           /\ at.step \in Nat /\ at.status \in Statuses /\ at.live \in BOOLEAN
           /\ at.noted \in BOOLEAN /\ at.known \in BOOLEAN /\ at.charged \in Nat \cup {Open}
           /\ at.reserved \in Nat /\ at.observed \in Nat \cup {Open}
           /\ at.reported \in BOOLEAN /\ at.pending \in BOOLEAN
           /\ at.settled \in Nat \cup {Open} /\ at.late \in Lates
           /\ at.forgotten \in BOOLEAN
BY DEF AttemptRows, Lates

LEMMA AttemptSame == ASSUME NEW at \in AttemptRows PROVE AttemptKept(at, at)
BY DEF AttemptKept

LEMMA KeptAgain ==
  ASSUME NEW at, NEW mid, NEW new, AttemptKept(at, mid), AttemptKept(mid, new)
  PROVE  AttemptKept(at, new)
BY DEF AttemptKept

LEMMA AbandonedRow ==
  ASSUME NEW at \in AttemptRows
  PROVE  /\ AttemptKept(at, Abandoned(at))
         /\ Abandoned(at).status # "running"
         /\ Abandoned(at).observed = at.observed /\ Abandoned(at).settled = at.settled
         /\ Abandoned(at).pending = at.pending /\ Abandoned(at).reported = at.reported
         /\ Abandoned(at).late = at.late /\ Abandoned(at).charged = at.charged
         /\ Abandoned(at).known = at.known
         /\ at.status = "running" => Abandoned(at).noted = FALSE
         /\ at.status # "running" => Abandoned(at) = at
<1>1. CASE at.status # "running"
  <2>1. Abandoned(at) = at BY <1>1 DEF Abandoned
  <2>2. QED BY <1>1, <2>1, AttemptSame
<1>2. CASE at.status = "running"
  <2>1. PICK forgets \in BOOLEAN : forgets = (at.forgotten \/ (at.noted /\ ~at.known))
    BY DEF AttemptRows
  <2>2. Abandoned(at) =
          [at EXCEPT !.status = "abandoned", !.noted = FALSE, !.forgotten = forgets]
    BY <1>2, <2>1 DEF Abandoned
  <2>3. QED BY <1>2, <2>2, ZenonT(60) DEF AttemptKept, AttemptRows, Statuses
<1>3. QED BY <1>1, <1>2

LEMMA LateRow ==
  ASSUME NEW at \in AttemptRows, NEW late \in Lates
  PROVE  AttemptKept(at, [at EXCEPT !.late = late])
BY DEF AttemptKept, AttemptRows, Lates

LEMMA LeaseRow ==
  ASSUME NEW at \in AttemptRows
  PROVE  AttemptKept(at, [at EXCEPT !.live = FALSE])
BY DEF AttemptKept, AttemptRows

LEMMA ObservedRow ==
  ASSUME NEW at \in AttemptRows, NEW reported \in BOOLEAN, NEW milliseconds \in Nat
  PROVE  /\ AttemptKept(at, Observed(at, reported, milliseconds))
         /\ Observed(at, reported, milliseconds).observed # Open
         /\ LET new == Observed(at, reported, milliseconds)
            IN /\ new.status = at.status /\ new.live = at.live /\ new.charged = at.charged
               /\ new.noted = at.noted /\ new.known = at.known
               /\ new.settled = at.settled /\ new.late = at.late
               /\ at.pending => new.pending
<1>1. at.observed \in Int /\ milliseconds \in Int BY DEF AttemptRows, Open
<1>2. PICK longer : longer = Max({at.observed, milliseconds}) OBVIOUS
<1>3. longer \in Nat /\ longer # Open BY <1>1, <1>2, MaxOfTwo DEF Open
<1>4. QED BY <1>2, <1>3, ZenonT(60) DEF Observed, AttemptKept, AttemptRows, Open

Charges == {0, KnownCost, Open}

LEMMA ChargeType ==
  ASSUME NEW result, NEW known \in BOOLEAN
  PROVE  /\ definitiveCharge(result, known) \in Charges
         /\ Charges \subseteq Nat \cup {Open}
         /\ Open \notin Nat
BY CostsFit DEF definitiveCharge, Charges, Open

LEMMA SettledLiveRow ==
  ASSUME NEW at \in AttemptRows, NEW result, at.status = "running"
  PROVE  /\ AttemptKept(at, SettledLive(at, result))
         /\ SettledLive(at, result).status # "running"
         /\ SettledLive(at, result).observed = at.observed
         /\ SettledLive(at, result).settled = at.settled
         /\ SettledLive(at, result).late = at.late
<1>1. PICK known \in BOOLEAN : known = (result = "answer") OBVIOUS
<1>2. PICK charge \in Nat \cup {Open} : charge = definitiveCharge(result, known)
  BY ChargeType
<1>3. PICK noted \in BOOLEAN : noted = (charge # Open) OBVIOUS
<1>4. PICK status \in Statuses \ {"running"} :
         status = IF result \in Successes THEN "succeeded" ELSE "failed"
  BY DEF Statuses
<1>5. PICK charged \in Nat \cup {Open} : charged = settleCredits(at, charge)
  BY DEF settleCredits, AttemptRows
<1>6. at.charged # Open => charged = at.charged BY <1>5 DEF settleCredits
<1>7. SettledLive(at, result) =
        [at EXCEPT !.status = status, !.noted = noted, !.known = known, !.charged = charged]
  BY <1>1, <1>2, <1>3, <1>4, <1>5 DEF SettledLive
<1>8. SettledLive(at, result) \in AttemptRows
  <2>1. status \in Statuses OBVIOUS
  <2>2. QED BY <1>7, <2>1, ZenonT(60) DEF AttemptRows
<1>9. /\ SettledLive(at, result).step = at.step
      /\ SettledLive(at, result).reserved = at.reserved
      /\ SettledLive(at, result).live = at.live
      /\ SettledLive(at, result).status = status
      /\ SettledLive(at, result).charged = charged
      /\ SettledLive(at, result).observed = at.observed
      /\ SettledLive(at, result).settled = at.settled
      /\ SettledLive(at, result).late = at.late
      /\ SettledLive(at, result).pending = at.pending
  BY <1>7 DEF AttemptRows
<1>10. status # "running" OBVIOUS
<1>11. QED BY <1>6, <1>8, <1>9, <1>10 DEF AttemptKept

LEMMA SettledLateRow ==
  ASSUME NEW at \in AttemptRows, NEW result, NEW known \in BOOLEAN
  PROVE  /\ AttemptKept(at, SettledLate(at, result, known))
         /\ SettledLate(at, result, known).status = at.status
         /\ SettledLate(at, result, known).live = at.live
         /\ SettledLate(at, result, known).observed = at.observed
         /\ SettledLate(at, result, known).settled = at.settled
         /\ SettledLate(at, result, known).pending = at.pending
         /\ SettledLate(at, result, known).late = at.late
<1>1. PICK charge \in Nat \cup {Open} : charge = definitiveCharge(result, known)
  BY ChargeType
<1>2. PICK noted \in BOOLEAN : noted = (charge # Open) OBVIOUS
<1>3. PICK charged \in Nat \cup {Open} : charged = settleCredits(at, charge)
  BY DEF settleCredits, AttemptRows
<1>4. at.charged # Open => charged = at.charged BY <1>3 DEF settleCredits
<1>5. PICK own \in BOOLEAN : own = IF Correctable(at) THEN noted ELSE at.noted
  BY DEF AttemptRows
<1>6. PICK usage \in BOOLEAN : usage = IF Correctable(at) THEN known ELSE at.known
  BY DEF AttemptRows
<1>7. SettledLate(at, result, known) =
        [at EXCEPT !.charged = charged, !.noted = own, !.known = usage]
  BY <1>1, <1>2, <1>3, <1>5, <1>6 DEF SettledLate
<1>8. QED BY <1>4, <1>7, ZenonT(60) DEF AttemptKept, AttemptRows

LEMMA TimeSettledRow ==
  ASSUME NEW at \in AttemptRows
  PROVE  /\ AttemptKept(at, TimeSettled(at))
         /\ TimeSettled(at).settled = at.observed /\ TimeSettled(at).status = at.status
         /\ TimeSettled(at).observed = at.observed
         /\ TimeSettled(at).live = at.live /\ TimeSettled(at).pending = FALSE
         /\ TimeSettled(at).late = at.late
BY DEF TimeSettled, AttemptKept, AttemptRows

LEMMA RecoveredRow ==
  ASSUME NEW at \in AttemptRows
  PROVE  /\ AttemptKept(at, Recovered(at))
         /\ Recovered(at).status # "running"
         /\ Recovered(at).settled = at.observed
         /\ Recovered(at).observed = at.observed
         /\ Recovered(at).pending = FALSE
         /\ Recovered(at).late = at.late
<1>1. PICK one : one = Abandoned(at) OBVIOUS
<1>2. PICK two : two = SettledLate(one, "timeout", at.reported) OBVIOUS
<1>3. Recovered(at) = TimeSettled(two) BY <1>1, <1>2 DEF Recovered
<1>4. AttemptKept(at, one) /\ one \in AttemptRows BY <1>1, AbandonedRow DEF AttemptKept
<1>5. at.reported \in BOOLEAN BY DEF AttemptRows
<1>6. AttemptKept(one, two) /\ two \in AttemptRows BY <1>2, <1>4, <1>5, SettledLateRow DEF AttemptKept
<1>7. AttemptKept(two, Recovered(at)) BY <1>3, <1>6, TimeSettledRow
<1>8. AttemptKept(at, Recovered(at)) BY <1>4, <1>6, <1>7, KeptAgain
<1>9. one.status # "running" /\ one.observed = at.observed /\ one.late = at.late BY <1>1, AbandonedRow
<1>10. two.status = one.status /\ two.observed = one.observed /\ two.late = one.late
  BY <1>2, <1>4, <1>5, SettledLateRow
<1>11. QED BY <1>3, <1>6, <1>8, <1>9, <1>10, TimeSettledRow

-----------------------------------------------------------------------------
(***************************************************************************)
(* The first layer: the shape of the rows, what holds of each row by       *)
(* itself, and that what a worker carries refers to rows that exist.       *)
(***************************************************************************)
TaskRows ==
    [status: {"pending", "waiting-approval", "waiting-clarification",
              "completed", "paused", "failed"},
     generation: 0 .. MaxCommands, active: Nat, limit: Nat, calls: 0 .. ToolLimit]

StepRows ==
    [run: Nat, done: BOOLEAN,
     decision: {"none", "tools", "propose", "conflict", "clarify", "answer"},
     call: {"none", "pending", "waiting", "completed", "failed"},
     route: Routes \cup {"inside"}, admitted: BOOLEAN,
     approval: {"none", "approve", "reject"},
     model: {"pending", "running", "failed", "committed"},
     due: BOOLEAN, open: BOOLEAN, spent: 0 .. Budget, winner: Nat]

WorkRows ==
    [status: {"running", "settled", "abandoned"}, live: BOOLEAN,
     reserved: Nat, settled: Nat \cup {Open}]

WorkerRows ==
    [phase: {"idle", "prepare", "denied", "files", "model", "asking", "answered",
             "observed", "tool", "working", "acting", "refusing", "ran", "report"},
     step: Nat, attempt: Nat, work: Nat, generation: Nat,
     result: Results \cup {"none", "ended", "waiting"}, elapsed: Nat]

UsedRows == [commands: 0 .. MaxCommands, crashes: 0 .. MaxCrashes]

CallEnds == {"completed", "failed"}

\* A step is decided exactly if its generation is committed, and only ends
\* after its generation and its call. Only calls that are made outside wait.
FitSteps ==
    {st \in StepRows : /\ st.decision # "none" <=> st.model = "committed"
                       /\ st.decision = "none" => st.call = "none"
                       /\ st.done => st.model \in {"committed", "failed"}
                       /\ st.done /\ st.decision = "tools" => st.call \in CallEnds
                       /\ st.route # "inside" => st.decision = "tools"
                       /\ st.call = "waiting" => st.route # "inside"}

\* Accounting is only pending for what was observed.
FitAttempts == {at \in AttemptRows : at.pending => at.observed # Open}

FitWorks == {work \in WorkRows : work.status = "settled" => work.settled # Open}

CallPhases == {"model", "asking", "answered", "observed"}
ToolPhases == {"tool", "working", "acting", "refusing", "ran", "report"}
WorkPhases == {"files", "working", "acting", "ran"}

\* What a worker carries refers to rows that exist; what it carries out was
\* begun, and what it reports as ended did end.
Carries(x) ==
    /\ x.phase \in CallPhases =>
         /\ x.attempt \in DOMAIN attempts
         /\ attempts[x.attempt].step = x.step
         /\ steps[x.step].run = x.generation
    /\ x.phase \in {"answered", "observed"} => x.result \in Results
    /\ x.phase = "observed" => attempts[x.attempt].observed # Open
    /\ x.phase \in ToolPhases => x.step \in DOMAIN steps /\ steps[x.step].decision # "none"
    /\ x.phase \in WorkPhases => x.work \in DOMAIN works
    /\ x.phase \in {"tool", "refusing"} => x.work = 0 \/ x.work \in DOMAIN works
    /\ x.phase \in {"ran", "report"} /\ x.result = "ended" => Over(x.step)
    /\ x.phase = "acting" => steps[x.step].call = "waiting" \/ Over(x.step)

TInv ==
    /\ task \in TaskRows
    /\ used \in UsedRows
    /\ task.generation <= used.commands
    /\ steps \in Seq(FitSteps)
    /\ attempts \in Seq(FitAttempts)
    /\ works \in Seq(FitWorks)
    /\ worker \in [Workers -> WorkerRows]
    /\ \A n \in DOMAIN steps : steps[n].run <= task.generation
    /\ \A a \in DOMAIN attempts : attempts[a].step \in DOMAIN steps
    /\ \A w \in Workers : Carries(worker[w])

(* What no step does to the rows. *)

\* A step keeps its run, its end and its decision, and stays admitted. A call
\* that waits goes on waiting or ends, and one that ended keeps its outcome.
StepKept(st, new) ==
    /\ new \in FitSteps
    /\ new.run = st.run
    /\ st.done => new.done
    /\ st.admitted => new.admitted
    /\ st.call = "waiting" => new.call = "waiting" \/ new.call \in CallEnds
    /\ st.call \in CallEnds => new.call = st.call
    /\ st.model = "committed" =>
         new.model = "committed" /\ new.decision = st.decision /\ new.winner = st.winner

\* A reservation that ended stays ended.
WorkKept(work, new) ==
    /\ new \in FitWorks
    /\ new.reserved = work.reserved
    /\ new.live => work.live
    /\ new.status # work.status => work.status = "running"

StepsMove(rows) ==
    /\ rows \in Seq(FitSteps) /\ Len(steps) <= Len(rows) /\ Len(rows) <= Len(steps) + 1
    /\ \A n \in DOMAIN steps : StepKept(steps[n], rows[n])
    /\ \A n \in DOMAIN rows \ DOMAIN steps : OpenStep = 0 /\ rows[n].run = task.generation

AttemptsMove(rows, ofSteps) ==
    /\ rows \in Seq(FitAttempts) /\ Len(attempts) <= Len(rows)
    /\ \A a \in DOMAIN attempts : AttemptKept(attempts[a], rows[a])
    /\ \A a \in DOMAIN rows : rows[a].step \in DOMAIN ofSteps

WorksMove(rows) ==
    /\ rows \in Seq(FitWorks) /\ Len(works) <= Len(rows)
    /\ \A i \in DOMAIN works : WorkKept(works[i], rows[i])

TaskMoves ==
    /\ task' \in TaskRows /\ used' \in UsedRows
    /\ task.generation <= task'.generation
    /\ task'.generation <= used'.commands

WorkerMoves ==
    \/ worker' = worker
    \/ \E w \in Workers, x \in WorkerRows : worker' = [worker EXCEPT ![w] = x] /\ Carries(x)'

Moves ==
    /\ StepsMove(steps') /\ AttemptsMove(attempts', steps') /\ WorksMove(works')
    /\ TaskMoves /\ WorkerMoves

LEMMA SeqIndices ==
  ASSUME NEW T, NEW s \in Seq(T)
  PROVE  Len(s) \in Nat /\ DOMAIN s = 1 .. Len(s) /\ \A i \in DOMAIN s : s[i] \in T
OBVIOUS

\* Rows that stay are found again.
LEMMA MovesDomains ==
  ASSUME TInv, Moves
  PROVE  /\ DOMAIN steps \subseteq DOMAIN steps'
         /\ DOMAIN attempts \subseteq DOMAIN attempts'
         /\ DOMAIN works \subseteq DOMAIN works'
<1>1. DOMAIN steps = 1 .. Len(steps) /\ DOMAIN steps' = 1 .. Len(steps')
      /\ Len(steps) \in Nat /\ Len(steps') \in Nat /\ Len(steps) <= Len(steps')
  BY SeqIndices DEF TInv, Moves, StepsMove
<1>2. DOMAIN attempts = 1 .. Len(attempts) /\ DOMAIN attempts' = 1 .. Len(attempts')
      /\ Len(attempts) \in Nat /\ Len(attempts') \in Nat /\ Len(attempts) <= Len(attempts')
  BY SeqIndices DEF TInv, Moves, AttemptsMove
<1>3. DOMAIN works = 1 .. Len(works) /\ DOMAIN works' = 1 .. Len(works')
      /\ Len(works) \in Nat /\ Len(works') \in Nat /\ Len(works) <= Len(works')
  BY SeqIndices DEF TInv, Moves, WorksMove
<1>4. QED BY <1>1, <1>2, <1>3

LEMMA CarriesKept ==
  ASSUME TInv, Moves, NEW x \in WorkerRows, Carries(x)
  PROVE  Carries(x)'
<1>1. /\ DOMAIN steps \subseteq DOMAIN steps'
      /\ DOMAIN attempts \subseteq DOMAIN attempts'
      /\ DOMAIN works \subseteq DOMAIN works'
  BY MovesDomains
<1>2. \A n \in DOMAIN steps : steps'[n].run = steps[n].run
  BY DEF Moves, StepsMove, StepKept
<1>3. \A a \in DOMAIN attempts :
         /\ attempts'[a].step = attempts[a].step
         /\ attempts[a].observed # Open => attempts'[a].observed # Open
  BY DEF Moves, AttemptsMove, AttemptKept
<1>4. \A a \in DOMAIN attempts : attempts[a].step \in DOMAIN steps BY DEF TInv
<1>5. x.phase \in CallPhases =>
        /\ x.attempt \in DOMAIN attempts'
        /\ attempts'[x.attempt].step = x.step
        /\ steps'[x.step].run = x.generation
  BY <1>1, <1>2, <1>3, <1>4 DEF Carries
<1>6. x.phase = "observed" => attempts'[x.attempt].observed # Open
  BY <1>3 DEF Carries, CallPhases
<1>7. x.phase \in ToolPhases => StepKept(steps[x.step], steps'[x.step])
  BY DEF Carries, Moves, StepsMove
<1>8. /\ x.phase \in {"ran", "report"} /\ x.result = "ended" => Over(x.step)'
      /\ x.phase = "acting" => steps'[x.step].call = "waiting" \/ Over(x.step)'
  BY <1>7 DEF Carries, ToolPhases, StepKept, CallEnds, Over
<1>9. x.phase \in ToolPhases => steps'[x.step].decision # "none"
  <2>1. x.phase \in ToolPhases => steps[x.step] \in FitSteps BY SeqIndices DEF TInv, Carries
  <2>2. QED BY <1>7, <2>1 DEF Carries, StepKept, FitSteps
<1>10. QED BY <1>1, <1>5, <1>6, <1>8, <1>9 DEF Carries

\* The first layer is kept by any step that moves the rows in this way.
LEMMA MovesKeep == ASSUME TInv, Moves PROVE TInv'
<1>1. \A x \in WorkerRows : Carries(x) => Carries(x)' BY CarriesKept
<1>2. worker' \in [Workers -> WorkerRows] /\ \A w \in Workers : Carries(worker[w])'
  <2>1. \A w \in Workers : worker[w] \in WorkerRows /\ Carries(worker[w]) BY DEF TInv
  <2>2. CASE worker' = worker
    <3>1. \A w \in Workers : worker'[w] \in WorkerRows /\ worker'[w] = worker[w]
      BY <2>1, <2>2
    <3>2. ASSUME NEW w \in Workers PROVE Carries(worker[w])'
      <4>1. PICK x \in WorkerRows : x = worker[w] BY <2>1
      <4>2. worker'[w] = x BY <4>1, <3>1
      <4>3. Carries(x) BY <4>1, <2>1
      <4>4. Carries(x)' BY <4>3, <1>1
      <4>5. QED BY <4>2, <4>4 DEF Carries
    <3>3. QED BY <2>2, <3>2 DEF TInv
  <2>3. ASSUME NEW v \in Workers, NEW x \in WorkerRows,
               worker' = [worker EXCEPT ![v] = x], Carries(x)'
        PROVE  worker' \in [Workers -> WorkerRows] /\ \A w \in Workers : Carries(worker[w])'
    <3>1. worker \in [Workers -> WorkerRows] BY DEF TInv
    <3>2. \A w \in Workers : worker'[w] = IF w = v THEN x ELSE worker[w] BY <2>3, <3>1
    <3>3. worker' \in [Workers -> WorkerRows] BY <2>3, <3>1
    <3>4. ASSUME NEW w \in Workers PROVE Carries(worker[w])'
      <4>1. PICK y \in WorkerRows : y = worker'[w] BY <3>3
      <4>2. Carries(y)'
        <5>1. CASE w = v BY <5>1, <2>3, <3>2, <4>1
        <5>2. CASE w # v
          <6>1. y = worker[w] BY <5>2, <3>2, <4>1
          <6>2. Carries(y) BY <6>1, <2>1
          <6>3. QED BY <6>2, <1>1
        <5>3. QED BY <5>1, <5>2
      <4>3. QED BY <4>1, <4>2 DEF Carries
    <3>5. QED BY <3>3, <3>4
  <2>4. QED BY <2>2, <2>3 DEF Moves, WorkerMoves
<1>3. \A n \in DOMAIN steps' : steps'[n].run <= task'.generation
  <2>1. /\ \A n \in DOMAIN steps : steps'[n].run = steps[n].run
        /\ \A n \in DOMAIN steps' \ DOMAIN steps : steps'[n].run = task.generation
    BY DEF Moves, StepsMove, StepKept
  <2>2. \A n \in DOMAIN steps' : steps'[n].run \in Nat
    BY SeqIndices DEF Moves, StepsMove, FitSteps, StepRows
  <2>3. task.generation \in Nat /\ task'.generation \in Nat
        /\ task.generation <= task'.generation
    BY DEF TInv, Moves, TaskMoves, TaskRows
  <2>4. QED BY <2>1, <2>2, <2>3, SMTT(60) DEF TInv
<1>4. QED BY <1>2, <1>3 DEF TInv, Moves, StepsMove, AttemptsMove, WorksMove, TaskMoves

-----------------------------------------------------------------------------
(* How the rows move. *)

LEMMA StepsMapped ==
  ASSUME TInv, NEW rows, rows = [n \in DOMAIN steps |-> rows[n]],
         \A n \in DOMAIN steps : StepKept(steps[n], rows[n])
  PROVE  StepsMove(rows) /\ DOMAIN rows = DOMAIN steps /\ Len(rows) = Len(steps)
<1>1. Len(steps) \in Nat /\ DOMAIN steps = 1 .. Len(steps) BY SeqIndices DEF TInv
<1>2. \A n \in DOMAIN steps : rows[n] \in FitSteps BY DEF StepKept
<1>3. rows \in Seq(FitSteps) /\ Len(rows) = Len(steps) /\ DOMAIN rows = DOMAIN steps
  BY <1>1, <1>2, RowsSeq
<1>4. QED BY <1>1, <1>3 DEF StepsMove

LEMMA StepSame == ASSUME NEW st \in FitSteps PROVE StepKept(st, st)
BY DEF StepKept

LEMMA StepReplaced ==
  ASSUME TInv, NEW k, NEW new, k \in DOMAIN steps => StepKept(steps[k], new)
  PROVE  StepsMove([steps EXCEPT ![k] = new]) /\ DOMAIN [steps EXCEPT ![k] = new] = DOMAIN steps
<1> DEFINE rows == [steps EXCEPT ![k] = new]
<1>1. rows = [n \in DOMAIN steps |-> rows[n]] OBVIOUS
<1>2. \A n \in DOMAIN steps : rows[n] = IF n = k THEN new ELSE steps[n] OBVIOUS
<1>3. \A n \in DOMAIN steps : steps[n] \in FitSteps BY SeqIndices DEF TInv
<1>4. \A n \in DOMAIN steps : StepKept(steps[n], rows[n]) BY <1>2, <1>3, StepSame
<1> HIDE DEF rows
<1>5. QED BY <1>1, <1>4, StepsMapped DEF rows

LEMMA StepsSame == ASSUME TInv PROVE StepsMove(steps)
<1>1. steps = [n \in DOMAIN steps |-> steps[n]] BY DEF TInv
<1>2. \A n \in DOMAIN steps : StepKept(steps[n], steps[n]) BY SeqIndices, StepSame DEF TInv
<1>3. QED BY <1>1, <1>2, StepsMapped

\* The step of a decided call and its decision stay as they are.
LEMMA AttemptsMapped ==
  ASSUME TInv, NEW ofSteps, StepsMove(ofSteps),
         NEW rows, rows = [a \in DOMAIN attempts |-> rows[a]],
         \A a \in DOMAIN attempts : AttemptKept(attempts[a], rows[a])
  PROVE  AttemptsMove(rows, ofSteps) /\ DOMAIN rows = DOMAIN attempts /\ Len(rows) = Len(attempts)
<1>1. Len(attempts) \in Nat /\ DOMAIN attempts = 1 .. Len(attempts)
      /\ \A a \in DOMAIN attempts : attempts[a] \in FitAttempts
  BY SeqIndices DEF TInv
<1>2. \A a \in DOMAIN attempts : rows[a] \in FitAttempts BY <1>1 DEF AttemptKept, FitAttempts
<1>3. rows \in Seq(FitAttempts) /\ Len(rows) = Len(attempts) /\ DOMAIN rows = DOMAIN attempts
  BY <1>1, <1>2, RowsSeq
<1>4. DOMAIN steps \subseteq DOMAIN ofSteps
  <2>1. /\ DOMAIN steps = 1 .. Len(steps) /\ Len(steps) \in Nat
        /\ DOMAIN ofSteps = 1 .. Len(ofSteps) /\ Len(ofSteps) \in Nat /\ Len(steps) <= Len(ofSteps)
    BY SeqIndices DEF TInv, StepsMove
  <2>2. QED BY <2>1
<1>5. \A a \in DOMAIN rows : rows[a].step \in DOMAIN ofSteps
  BY <1>3, <1>4 DEF AttemptKept, TInv
<1>6. QED BY <1>1, <1>3, <1>5 DEF AttemptsMove

LEMMA AttemptReplaced ==
  ASSUME TInv, NEW ofSteps, StepsMove(ofSteps),
         NEW k, NEW new, k \in DOMAIN attempts => AttemptKept(attempts[k], new)
  PROVE  /\ AttemptsMove([attempts EXCEPT ![k] = new], ofSteps)
         /\ DOMAIN [attempts EXCEPT ![k] = new] = DOMAIN attempts
<1> DEFINE rows == [attempts EXCEPT ![k] = new]
<1>1. rows = [a \in DOMAIN attempts |-> rows[a]] OBVIOUS
<1>2. \A a \in DOMAIN attempts : rows[a] = IF a = k THEN new ELSE attempts[a] OBVIOUS
<1>3. \A a \in DOMAIN attempts : attempts[a] \in AttemptRows BY SeqIndices DEF TInv, FitAttempts
<1>4. \A a \in DOMAIN attempts : AttemptKept(attempts[a], rows[a]) BY <1>2, <1>3, AttemptSame
<1> HIDE DEF rows
<1>5. QED BY <1>1, <1>4, AttemptsMapped DEF rows

LEMMA AttemptsSame ==
  ASSUME TInv, NEW ofSteps, StepsMove(ofSteps)
  PROVE  AttemptsMove(attempts, ofSteps)
<1>1. attempts = [a \in DOMAIN attempts |-> attempts[a]] BY DEF TInv
<1>2. \A a \in DOMAIN attempts : AttemptKept(attempts[a], attempts[a])
  BY SeqIndices, AttemptSame DEF TInv, FitAttempts
<1>3. QED BY <1>1, <1>2, AttemptsMapped

LEMMA WorksMapped ==
  ASSUME TInv, NEW rows, rows = [i \in DOMAIN works |-> rows[i]],
         \A i \in DOMAIN works : WorkKept(works[i], rows[i])
  PROVE  WorksMove(rows) /\ DOMAIN rows = DOMAIN works /\ Len(rows) = Len(works)
<1>1. Len(works) \in Nat /\ DOMAIN works = 1 .. Len(works) BY SeqIndices DEF TInv
<1>2. \A i \in DOMAIN works : rows[i] \in FitWorks BY DEF WorkKept
<1>3. rows \in Seq(FitWorks) /\ Len(rows) = Len(works) /\ DOMAIN rows = DOMAIN works
  BY <1>1, <1>2, RowsSeq
<1>4. QED BY <1>1, <1>3 DEF WorksMove

LEMMA WorkSame == ASSUME NEW work \in FitWorks PROVE WorkKept(work, work)
BY DEF WorkKept

LEMMA WorkReplaced ==
  ASSUME TInv, NEW k, NEW new, k \in DOMAIN works => WorkKept(works[k], new)
  PROVE  WorksMove([works EXCEPT ![k] = new]) /\ DOMAIN [works EXCEPT ![k] = new] = DOMAIN works
<1> DEFINE rows == [works EXCEPT ![k] = new]
<1>1. rows = [i \in DOMAIN works |-> rows[i]] OBVIOUS
<1>2. \A i \in DOMAIN works : rows[i] = IF i = k THEN new ELSE works[i] OBVIOUS
<1>3. \A i \in DOMAIN works : works[i] \in FitWorks BY SeqIndices DEF TInv
<1>4. \A i \in DOMAIN works : WorkKept(works[i], rows[i]) BY <1>2, <1>3, WorkSame
<1> HIDE DEF rows
<1>5. QED BY <1>1, <1>4, WorksMapped DEF rows

LEMMA WorksSame == ASSUME TInv PROVE WorksMove(works)
<1>1. works = [i \in DOMAIN works |-> works[i]] BY DEF TInv
<1>2. \A i \in DOMAIN works : WorkKept(works[i], works[i]) BY SeqIndices, WorkSame DEF TInv
<1>3. QED BY <1>1, <1>2, WorksMapped

\* Sweeping ends only what has expired.
SweptRow(work) ==
    IF work.status = "running" /\ ~work.live THEN [work EXCEPT !.status = "abandoned"] ELSE work

LEMMA SweptRowKept ==
  ASSUME NEW work \in FitWorks
  PROVE  /\ WorkKept(work, SweptRow(work))
         /\ SweptRow(work).live = work.live
         /\ SweptRow(work).status = "running" <=> work.status = "running" /\ work.live
         /\ WorkCounted(SweptRow(work)) = WorkCounted(work)
BY DEF SweptRow, WorkKept, FitWorks, WorkRows, WorkCounted

LEMMA SweptRows ==
  ASSUME TInv
  PROVE  /\ Swept = [i \in DOMAIN works |-> SweptRow(works[i])]
         /\ WorksMove(Swept) /\ DOMAIN Swept = DOMAIN works /\ Len(Swept) = Len(works)
<1>1. Swept = [i \in DOMAIN works |-> SweptRow(works[i])]
  BY DEF Swept, SweptRow, LiveWork
<1>2. \A i \in DOMAIN works : works[i] \in FitWorks BY SeqIndices DEF TInv
<1>3. \A i \in DOMAIN works : WorkKept(works[i], Swept[i]) BY <1>1, <1>2, SweptRowKept
<1>4. Swept = [i \in DOMAIN works |-> Swept[i]] BY <1>1
<1>5. QED BY <1>1, <1>3, <1>4, WorksMapped

\* The row that settleTaskWork leaves.
SettledWorkRow(work, t) ==
    IF work.status # "running" THEN work ELSE [work EXCEPT !.status = "settled", !.settled = t]

LEMMA SettledWorkKept ==
  ASSUME NEW work \in FitWorks, NEW t \in WorkTimes
  PROVE  /\ WorkKept(work, SettledWorkRow(work, t))
         /\ SettledWorkRow(work, t).status # "running"
         /\ WorkCounted(SettledWorkRow(work, t)) =
              IF work.status # "running" THEN WorkCounted(work) ELSE t
<1>1. t \in Nat /\ t # Open BY ConstantsFit DEF Open
<1>2. QED BY <1>1 DEF SettledWorkRow, WorkKept, FitWorks, WorkRows, WorkCounted

LEMMA SettledWork ==
  ASSUME TInv, NEW i \in DOMAIN works, NEW t \in WorkTimes
  PROVE  /\ WorkSettled(i, t) = [works EXCEPT ![i] = SettledWorkRow(works[i], t)]
         /\ WorksMove(WorkSettled(i, t)) /\ DOMAIN WorkSettled(i, t) = DOMAIN works
         /\ TaskAfterWork(i, t) \in TaskRows
         /\ TaskAfterWork(i, t).active \in Nat
         /\ TaskAfterWork(i, t).generation = task.generation
         /\ TaskAfterWork(i, t).calls = task.calls
         /\ TaskAfterWork(i, t).limit = task.limit
         /\ \/ TaskAfterWork(i, t).status = task.status
            \/ task.status \in ActiveStatuses /\ TaskAfterWork(i, t).status = "paused"
<1>1. works[i] \in FitWorks /\ works = [j \in DOMAIN works |-> works[j]]
  BY SeqIndices DEF TInv
<1>2. WorkSettled(i, t) = [works EXCEPT ![i] = SettledWorkRow(works[i], t)]
  <2>1. CASE works[i].status = "running" BY <2>1 DEF WorkSettled, SettledWorkRow
  <2>2. CASE works[i].status # "running" BY <1>1, <2>2 DEF WorkSettled, SettledWorkRow
  <2>3. QED BY <2>1, <2>2
<1>3. WorkKept(works[i], SettledWorkRow(works[i], t)) BY <1>1, SettledWorkKept
<1>4. WorksMove(WorkSettled(i, t)) /\ DOMAIN WorkSettled(i, t) = DOMAIN works
  <2>1. PICK new : new = SettledWorkRow(works[i], t) OBVIOUS
  <2>2. WorkKept(works[i], new) BY <1>3, <2>1
  <2>3. WorksMove([works EXCEPT ![i] = new]) /\ DOMAIN [works EXCEPT ![i] = new] = DOMAIN works
    BY <2>2, WorkReplaced
  <2>4. QED BY <1>2, <2>1, <2>3
<1>5. task \in TaskRows /\ works[i].reserved \in Nat /\ t \in Nat /\ task.active \in Nat
  BY <1>1, ConstantsFit DEF TInv, FitWorks, WorkRows, TaskRows
<1>6. PICK active : active = Max({0, task.active - works[i].reserved + t}) OBVIOUS
<1>7. active \in Nat
  <2>1. PICK x \in Int : x = task.active - works[i].reserved + t BY <1>5
  <2>2. QED BY <1>6, <2>1, MaxOfTwo
<1>8. QED BY <1>4, <1>2, <1>5, <1>6, <1>7 DEF TaskAfterWork, TaskRows, ActiveStatuses

LEMMA WorkAppended ==
  ASSUME TInv, NEW rows, WorksMove(rows), NEW work \in FitWorks
  PROVE  /\ WorksMove(Append(rows, work))
         /\ Len(rows) + 1 \in DOMAIN Append(rows, work)
<1>1. rows \in Seq(FitWorks) /\ Len(rows) \in Nat /\ Len(works) <= Len(rows)
      /\ DOMAIN rows = 1 .. Len(rows)
  BY SeqIndices DEF WorksMove
<1>2. Len(works) \in Nat /\ DOMAIN works = 1 .. Len(works) BY SeqIndices DEF TInv
<1>3. PICK new : new = Append(rows, work) OBVIOUS
<1>4. /\ new \in Seq(FitWorks) /\ Len(new) = Len(rows) + 1
      /\ DOMAIN new = DOMAIN rows \cup {Len(rows) + 1}
      /\ \A i \in DOMAIN rows : new[i] = rows[i]
  BY <1>1, <1>3, SeqAppend
<1>5. \A i \in DOMAIN works : i \in DOMAIN rows BY <1>1, <1>2
<1>6. \A i \in DOMAIN works : WorkKept(works[i], new[i]) BY <1>4, <1>5 DEF WorksMove
<1>7. WorksMove(new) BY <1>1, <1>2, <1>4, <1>6 DEF WorksMove
<1>8. QED BY <1>3, <1>4, <1>7

-----------------------------------------------------------------------------
(* The step a call is made for, and what prepare begins with. *)

LEMMA LargestExists ==
  ASSUME NEW n \in Nat, NEW S \in SUBSET (1 .. n), S # {}
  PROVE  Max(S) \in S
<1> DEFINE N == {k \in Nat : \A T \in SUBSET (1 .. k) :
                   T # {} => \E x \in T : \A y \in T : x >= y}
<1>1. 0 \in N
  <2>1. 1 .. 0 = {} OBVIOUS
  <2>2. QED BY <2>1
<1>2. ASSUME NEW k \in N PROVE k + 1 \in N
  <2>1. k \in Nat OBVIOUS
  <2>2. ASSUME NEW T \in SUBSET (1 .. k + 1), T # {}
        PROVE  \E x \in T : \A y \in T : x >= y
    <3>1. CASE k + 1 \in T BY <2>1, <3>1
    <3>2. CASE k + 1 \notin T
      <4>1. T \in SUBSET (1 .. k) BY <2>1, <3>2
      <4>2. QED BY <2>2, <4>1
    <3>3. QED BY <3>1, <3>2
  <2>3. QED BY <2>1, <2>2
<1>3. N \in SUBSET Nat OBVIOUS
<1> HIDE DEF N
<1>4. n \in N BY <1>1, <1>2, <1>3, NatSetInduction
<1>5. \E x \in S : \A y \in S : x >= y BY <1>4 DEF N
<1>6. QED BY <1>5 DEF Max

\* The open steps of the current run.
OpenSteps == {n \in DOMAIN steps : steps[n].run = task.generation /\ ~steps[n].done}

LEMMA OpenStepIsOpen ==
  ASSUME TInv
  PROVE  /\ OpenStep = 0 => OpenSteps = {}
         /\ OpenStep # 0 => OpenStep \in OpenSteps
<1>1. Len(steps) \in Nat /\ DOMAIN steps = 1 .. Len(steps) BY SeqIndices DEF TInv
<1>2. OpenStep = IF OpenSteps = {} THEN 0 ELSE Max(OpenSteps) BY DEF OpenStep, OpenSteps
<1>3. OpenSteps \in SUBSET (1 .. Len(steps)) BY <1>1 DEF OpenSteps
<1>4. OpenSteps # {} => Max(OpenSteps) \in OpenSteps BY <1>1, <1>3, LargestExists
<1>5. 0 \notin OpenSteps BY <1>1, <1>3
<1>6. QED BY <1>2, <1>4, <1>5

LEMMA NewStepFits ==
  ASSUME TInv
  PROVE  NewStep \in FitSteps
<1>1. task.generation \in Nat BY DEF TInv, TaskRows
<1>2. 0 \in 0 .. Budget BY ConstantsFit
<1>3. QED BY <1>1, <1>2 DEF NewStep, FitSteps, StepRows

\* The steps after the call's step was inserted, and after it was changed.
LEMMA CallStepMoves ==
  ASSUME TInv
  PROVE  /\ CallStep \in DOMAIN CallSteps /\ CallStep \in Nat
         /\ CallSteps[CallStep] \in FitSteps
         /\ CallSteps[CallStep].run = task.generation
         /\ ~CallSteps[CallStep].done
         /\ DOMAIN steps \subseteq DOMAIN CallSteps
         /\ DOMAIN CallSteps \subseteq DOMAIN steps \cup {CallStep}
         /\ \A n \in DOMAIN steps : CallSteps[n] = steps[n]
         /\ StepsMove(CallSteps)
         /\ CallStep \notin DOMAIN steps => OpenStep = 0 /\ CallSteps[CallStep] = NewStep
         /\ CallStep \in DOMAIN steps => CallStep \in OpenSteps
<1>1. /\ Len(steps) \in Nat /\ DOMAIN steps = 1 .. Len(steps)
      /\ steps \in Seq(FitSteps) /\ \A n \in DOMAIN steps : steps[n] \in FitSteps
  BY SeqIndices DEF TInv
<1>2. CASE OpenStep # 0
  <2>1. OpenStep \in OpenSteps BY <1>2, OpenStepIsOpen
  <2>2. CallStep = OpenStep /\ CallSteps = steps BY <1>2 DEF CallStep, CallSteps
  <2>3. QED BY <1>1, <2>1, <2>2, StepsSame DEF OpenSteps
<1>3. CASE OpenStep = 0
  <2>1. CallStep = Len(steps) + 1 /\ CallSteps = Append(steps, NewStep)
    BY <1>3 DEF CallStep, CallSteps
  <2>2. NewStep \in FitSteps BY NewStepFits
  <2>3. /\ CallSteps \in Seq(FitSteps) /\ Len(CallSteps) = Len(steps) + 1
        /\ DOMAIN CallSteps = DOMAIN steps \cup {Len(steps) + 1}
        /\ Len(steps) + 1 \notin DOMAIN steps
        /\ \A n \in DOMAIN steps : CallSteps[n] = steps[n]
        /\ CallSteps[Len(steps) + 1] = NewStep
    BY <1>1, <2>1, <2>2, SeqAppend
  <2>4. NewStep.run = task.generation /\ ~NewStep.done BY DEF NewStep
  <2>5. \A n \in DOMAIN steps : StepKept(steps[n], CallSteps[n]) BY <1>1, <2>3, StepSame
  <2>6. \A n \in DOMAIN CallSteps \ DOMAIN steps : CallSteps[n].run = task.generation
    BY <2>3, <2>4
  <2>7. StepsMove(CallSteps) BY <1>1, <1>3, <2>3, <2>5, <2>6 DEF StepsMove
  <2>8. /\ CallStep \in DOMAIN CallSteps /\ CallStep \in Nat /\ CallStep \notin DOMAIN steps
        /\ CallSteps[CallStep] = NewStep
        /\ DOMAIN CallSteps = DOMAIN steps \cup {CallStep}
    BY <1>1, <2>1, <2>3
  <2>9. QED BY <1>3, <2>2, <2>3, <2>4, <2>7, <2>8
<1>4. QED BY <1>2, <1>3

LEMMA CallStepReplaced ==
  ASSUME TInv, NEW new, StepKept(CallSteps[CallStep], new)
  PROVE  /\ StepsMove([CallSteps EXCEPT ![CallStep] = new])
         /\ DOMAIN [CallSteps EXCEPT ![CallStep] = new] = DOMAIN CallSteps
         /\ [CallSteps EXCEPT ![CallStep] = new][CallStep] = new
         /\ \A n \in DOMAIN steps \ {CallStep} :
              [CallSteps EXCEPT ![CallStep] = new][n] = steps[n]
<1>1. PICK k : k = CallStep OBVIOUS
<1>2. PICK before : before = CallSteps OBVIOUS
<1>3. /\ k \in DOMAIN before /\ before[k] \in FitSteps /\ before[k].run = task.generation
      /\ DOMAIN steps \subseteq DOMAIN before
      /\ \A n \in DOMAIN steps : before[n] = steps[n]
      /\ StepsMove(before)
  BY <1>1, <1>2, CallStepMoves
<1>4. StepKept(before[k], new) /\ new \in FitSteps BY <1>1, <1>2 DEF StepKept
<1>5. PICK rows : rows = [before EXCEPT ![k] = new] OBVIOUS
<1>6. before \in Seq(FitSteps) /\ Len(steps) <= Len(before) /\ Len(before) <= Len(steps) + 1
  BY <1>3 DEF StepsMove
<1>7. /\ rows \in Seq(FitSteps) /\ DOMAIN rows = DOMAIN before /\ Len(rows) = Len(before)
      /\ \A n \in DOMAIN before : rows[n] = IF n = k THEN new ELSE before[n]
  BY <1>4, <1>5, <1>6, SeqReplace
<1>8. \A n \in DOMAIN steps : StepKept(steps[n], rows[n])
  BY <1>3, <1>4, <1>7 DEF StepsMove
<1>9. new.run = task.generation BY <1>3, <1>4 DEF StepKept
<1>10. \A n \in DOMAIN rows \ DOMAIN steps : OpenStep = 0 /\ rows[n].run = task.generation
  BY <1>3, <1>7, <1>9 DEF StepsMove
<1>11. StepsMove(rows) BY <1>6, <1>7, <1>8, <1>10 DEF StepsMove
<1>12. QED BY <1>1, <1>2, <1>3, <1>5, <1>7, <1>11

\* A step whose generation may go on with a call is not decided.
LEMMA FailedStepKept ==
  ASSUME NEW st \in FitSteps
  PROVE  StepKept(st, FailedStep(st))
BY DEF FailedStep, StepKept, FitSteps, StepRows

LEMMA AbandonedRows ==
  ASSUME TInv, NEW n, NEW ofSteps, StepsMove(ofSteps)
  PROVE  /\ AttemptsMove(AbandonedOf(n), ofSteps)
         /\ DOMAIN AbandonedOf(n) = DOMAIN attempts
         /\ \A a \in DOMAIN attempts :
              AbandonedOf(n)[a] = IF attempts[a].step = n THEN Abandoned(attempts[a])
                                  ELSE attempts[a]
<1>1. PICK rows : rows = AbandonedOf(n) OBVIOUS
<1>2. /\ DOMAIN rows = DOMAIN attempts /\ rows = [a \in DOMAIN attempts |-> rows[a]]
      /\ \A a \in DOMAIN attempts :
           rows[a] = IF attempts[a].step = n THEN Abandoned(attempts[a]) ELSE attempts[a]
  BY <1>1 DEF AbandonedOf
<1>3. \A a \in DOMAIN attempts : attempts[a] \in AttemptRows BY SeqIndices DEF TInv, FitAttempts
<1>4. \A a \in DOMAIN attempts : AttemptKept(attempts[a], rows[a])
  BY <1>2, <1>3, AttemptSame, AbandonedRow
<1>5. AttemptsMove(rows, ofSteps) BY <1>2, <1>4, AttemptsMapped
<1>6. QED BY <1>1, <1>2, <1>5

LEMMA EntryFacts ==
  ASSUME TInv, NEW w \in Workers, NEW e \in Entries(w)
  PROVE  /\ task.status \in ActiveStatuses
         /\ e.active \in Nat
         /\ WorksMove(e.works)
<1>1. task.status \in ActiveStatuses BY DEF Entries
<1>2. CASE /\ worker[w].phase = "prepare" /\ ~Working
           /\ e = [files |-> FALSE, active |-> task.active, works |-> Swept]
  BY <1>1, <1>2, SweptRows DEF TInv, TaskRows
<1>3. ASSUME NEW t \in WorkTimes, worker[w].phase = "files",
             e = [files |-> TRUE,
                  active |-> TaskAfterWork(worker[w].work, t).active,
                  works |-> WorkSettled(worker[w].work, t)]
      PROVE  e.active \in Nat /\ WorksMove(e.works)
  <2>1. worker[w].work \in DOMAIN works BY <1>3 DEF TInv, Carries, WorkPhases
  <2>2. PICK i \in DOMAIN works : i = worker[w].work BY <2>1
  <2>3. QED BY <1>3, <2>2, SettledWork
<1>4. QED BY <1>1, <1>2, <1>3 DEF Entries

-----------------------------------------------------------------------------
(* The first layer, action by action. *)

LEMMA RowsSame ==
  ASSUME TInv, UNCHANGED <<steps, attempts, works>>
  PROVE  StepsMove(steps') /\ AttemptsMove(attempts', steps') /\ WorksMove(works')
BY StepsSame, AttemptsSame, WorksSame

LEMMA TaskStays ==
  ASSUME TInv, used' = used, task' \in TaskRows, task'.generation = task.generation
  PROVE  TaskMoves
BY DEF TInv, TaskMoves, TaskRows

LEMMA IdleCarries ==
  ASSUME TInv, NEW w \in Workers, Finish(w)
  PROVE  WorkerMoves
<1>1. Idle \in WorkerRows BY DEF Idle, WorkerRows
<1>2. Carries(Idle)' BY DEF Idle, Carries, CallPhases, ToolPhases, WorkPhases
<1>3. QED BY <1>1, <1>2 DEF Finish, WorkerMoves

\* The rows a worker's phases may have.
LEMMA WorkerTo ==
  ASSUME NEW w \in Workers, NEW x \in WorkerRows, worker' = [worker EXCEPT ![w] = x], Carries(x)'
  PROVE  WorkerMoves
BY DEF WorkerMoves

LEMMA StatusTypes ==
  ASSUME TInv
  PROVE  /\ task.status \in {"pending", "waiting-approval", "waiting-clarification",
                             "completed", "paused", "failed"}
         /\ task.generation \in 0 .. MaxCommands /\ task.active \in Nat /\ task.limit \in Nat
         /\ task.calls \in 0 .. ToolLimit
BY DEF TInv, TaskRows

\* The task with another status and active time.
LEMMA TaskSet ==
  ASSUME TInv, used' = used, NEW active \in Nat,
         NEW status \in {"pending", "waiting-approval", "waiting-clarification",
                         "completed", "paused", "failed"},
         task' = [task EXCEPT !.active = active, !.status = status]
  PROVE  TaskMoves
<1>1. task' \in TaskRows /\ task'.generation = task.generation BY DEF TInv, TaskRows
<1>2. QED BY <1>1, TaskStays

LEMMA TaskActive ==
  ASSUME TInv, used' = used, NEW active \in Nat, task' = [task EXCEPT !.active = active]
  PROVE  TaskMoves
<1>1. task' \in TaskRows /\ task'.generation = task.generation BY DEF TInv, TaskRows
<1>2. QED BY <1>1, TaskStays

LEMMA PollMoves ==
  ASSUME TInv, NEW w \in Workers, Poll(w) PROVE Moves
<1> USE DEF Poll
<1>1. StepsMove(steps') /\ AttemptsMove(attempts', steps') /\ WorksMove(works') BY RowsSame
<1>2. TaskMoves BY TaskStays DEF TInv
<1>3. WorkerMoves
  <2>1. PICK x : x = [worker[w] EXCEPT !.phase = "prepare"] OBVIOUS
  <2>2. worker' = [worker EXCEPT ![w] = x] BY <2>1 DEF Go
  <2>3. worker[w] \in WorkerRows BY DEF TInv
  <2>4. x \in WorkerRows /\ x.phase = "prepare" BY <2>1, <2>3 DEF WorkerRows
  <2>5. Carries(x)' BY <2>4 DEF Carries, CallPhases, ToolPhases, WorkPhases
  <2>6. QED BY <2>2, <2>4, <2>5, WorkerTo
<1>4. QED BY <1>1, <1>2, <1>3 DEF Moves

LEMMA PrepareNothingMoves ==
  ASSUME TInv, NEW w \in Workers, PrepareNothing(w) PROVE Moves
<1>1. works' = Swept /\ Finish(w) /\ UNCHANGED <<task, steps, attempts, used>>
  BY DEF PrepareNothing
<1>2. WorksMove(works') BY <1>1, SweptRows
<1>3. StepsMove(steps') BY <1>1, StepsSame
<1>4. AttemptsMove(attempts', steps') BY <1>1, StepsSame, AttemptsSame
<1>5. TaskMoves BY <1>1, TaskStays DEF TInv
<1>6. QED BY <1>1, <1>2, <1>3, <1>4, <1>5, IdleCarries DEF Moves

LEMMA PreparePauseMoves ==
  ASSUME TInv, NEW w \in Workers, PreparePause(w) PROVE Moves
<1>1. PICK e \in Entries(w) : /\ task' = [task EXCEPT !.status = "paused", !.active = e.active]
                              /\ works' = e.works
  BY DEF PreparePause
<1>2. Finish(w) /\ UNCHANGED <<steps, attempts, used>> BY DEF PreparePause
<1>3. e.active \in Nat /\ WorksMove(works') BY <1>1, EntryFacts
<1>4. StepsMove(steps') BY <1>2, StepsSame
<1>5. AttemptsMove(attempts', steps') BY <1>2, StepsSame, AttemptsSame
<1>6. TaskMoves
  <2>1. task' = [task EXCEPT !.active = e.active, !.status = "paused"] BY <1>1
  <2>2. QED BY <1>2, <1>3, <2>1, TaskSet
<1>7. QED BY <1>2, <1>3, <1>4, <1>5, <1>6, IdleCarries DEF Moves

LEMMA PrepareToolMoves ==
  ASSUME TInv, NEW w \in Workers, PrepareTool(w) PROVE Moves
<1>1. PICK e \in Entries(w) : task' = [task EXCEPT !.active = e.active] /\ works' = e.works
  BY DEF PrepareTool
<1>2. /\ OpenStep # 0 /\ UNCHANGED <<steps, attempts, used>>
      /\ worker' = [worker EXCEPT ![w] = [Idle EXCEPT !.phase = "tool", !.step = OpenStep]]
  BY DEF PrepareTool
<1>3. e.active \in Nat /\ WorksMove(works') BY <1>1, EntryFacts
<1>4. StepsMove(steps') BY <1>2, StepsSame
<1>5. AttemptsMove(attempts', steps') BY <1>2, StepsSame, AttemptsSame
<1>6. TaskMoves BY <1>1, <1>2, <1>3, TaskActive
<1>7. WorkerMoves
  <2>1. PICK x : x = [Idle EXCEPT !.phase = "tool", !.step = OpenStep] OBVIOUS
  <2>2. OpenStep \in DOMAIN steps BY <1>2, OpenStepIsOpen DEF OpenSteps
  <2>3. OpenStep \in Nat BY <2>2, SeqIndices DEF TInv
  <2>4. x \in WorkerRows /\ x.phase = "tool" /\ x.step = OpenStep /\ x.work = 0
    BY <2>1, <2>3 DEF Idle, WorkerRows
  <2>5. Carries(x)'
    <3>1. x.step \in DOMAIN steps' BY <1>2, <2>2, <2>4
    <3>3. steps'[x.step].decision # "none" BY <1>2, <2>4 DEF PrepareTool
    <3>2. QED BY <2>4, <3>1, <3>3 DEF Carries, CallPhases, ToolPhases, WorkPhases
  <2>6. QED BY <1>2, <2>1, <2>4, <2>5, WorkerTo
<1>8. QED BY <1>3, <1>4, <1>5, <1>6, <1>7 DEF Moves

LEMMA PrepareCloseMoves ==
  ASSUME TInv, NEW w \in Workers, PrepareClose(w) PROVE Moves
<1>1. PICK e \in Entries(w) :
        /\ task' = [task EXCEPT !.active = e.active,
                                !.status = IF steps[OpenStep].decision = "propose"
                                           THEN "pending" ELSE @]
        /\ works' = e.works
  BY DEF PrepareClose
<1>2. /\ OpenStep # 0 /\ Finish(w) /\ UNCHANGED <<attempts, used>>
      /\ steps[OpenStep].decision \in {"tools", "propose"}
      /\ steps[OpenStep].decision = "tools" => steps[OpenStep].call \in CallEnds
      /\ steps' = [steps EXCEPT ![OpenStep].done = TRUE]
  BY DEF PrepareClose, Over, CallEnds
<1>3. e.active \in Nat /\ WorksMove(works') BY <1>1, EntryFacts
<1>4. StepsMove(steps')
  <2>1. PICK n : n = OpenStep OBVIOUS
  <2>2. n \in DOMAIN steps /\ steps[n] \in FitSteps
    BY <1>2, <2>1, OpenStepIsOpen, SeqIndices DEF OpenSteps, TInv
  <2>3. PICK new : new = [steps[n] EXCEPT !.done = TRUE] OBVIOUS
  <2>4. steps' = [steps EXCEPT ![n] = new] BY <1>2, <2>1, <2>3
  <2>5. StepKept(steps[n], new)
    BY <1>2, <2>1, <2>2, <2>3 DEF StepKept, FitSteps, StepRows
  <2>6. QED BY <2>4, <2>5, StepReplaced
<1>5. AttemptsMove(attempts', steps') BY <1>2, <1>4, AttemptsSame
<1>6. TaskMoves
  <2>1. PICK status : status = IF steps[OpenStep].decision = "propose" THEN "pending" ELSE task.status
    OBVIOUS
  <2>2. status \in {"pending", "waiting-approval", "waiting-clarification",
                    "completed", "paused", "failed"}
    BY <2>1, StatusTypes
  <2>3. task' = [task EXCEPT !.active = e.active, !.status = status] BY <1>1, <2>1
  <2>4. QED BY <1>2, <1>3, <2>2, <2>3, TaskSet
<1>7. QED BY <1>2, <1>3, <1>4, <1>5, <1>6, IdleCarries DEF Moves

\* Ending a call's step without a call.
LEMMA CallStepFails ==
  ASSUME TInv, steps' = [CallSteps EXCEPT ![CallStep] = FailedStep(@)],
         attempts' = AbandonedOf(CallStep)
  PROVE  StepsMove(steps') /\ AttemptsMove(attempts', steps')
<1>1. CallSteps[CallStep] \in FitSteps BY CallStepMoves
<1>2. PICK new : new = FailedStep(CallSteps[CallStep]) OBVIOUS
<1>3. StepKept(CallSteps[CallStep], new) BY <1>1, <1>2, FailedStepKept
<1>4. steps' = [CallSteps EXCEPT ![CallStep] = new] BY <1>2
<1>5. StepsMove(steps') BY <1>3, <1>4, CallStepReplaced
<1>6. PICK rows : rows = steps' OBVIOUS
<1>7. StepsMove(rows) BY <1>5, <1>6
<1>8. AttemptsMove(AbandonedOf(CallStep), rows) BY <1>7, AbandonedRows
<1>9. QED BY <1>5, <1>6, <1>8

LEMMA PrepareDeadlineMoves ==
  ASSUME TInv, NEW w \in Workers, PrepareDeadline(w) PROVE Moves
<1>1. PICK e \in Entries(w) : task' = [task EXCEPT !.active = e.active] /\ works' = e.works
  BY DEF PrepareDeadline
<1>2. /\ steps' = [CallSteps EXCEPT ![CallStep] = FailedStep(@)]
      /\ attempts' = AbandonedOf(CallStep) /\ Finish(w) /\ used' = used
  BY DEF PrepareDeadline
<1>3. e.active \in Nat /\ WorksMove(works') BY <1>1, EntryFacts
<1>4. StepsMove(steps') /\ AttemptsMove(attempts', steps') BY <1>2, CallStepFails
<1>5. TaskMoves BY <1>1, <1>2, <1>3, TaskActive
<1>6. QED BY <1>2, <1>3, <1>4, <1>5, IdleCarries DEF Moves

LEMMA PrepareRejectsMoves ==
  ASSUME TInv, NEW w \in Workers, PrepareRejects(w) PROVE Moves
<1>1. PICK e \in Entries(w), stopped \in BOOLEAN :
        /\ task' = [task EXCEPT !.active = e.active,
                                !.status = IF stopped THEN "paused" ELSE @]
        /\ works' = e.works
  BY DEF PrepareRejects
<1>2. /\ steps' = [CallSteps EXCEPT ![CallStep] = FailedStep(@)]
      /\ attempts' = AbandonedOf(CallStep) /\ Finish(w) /\ used' = used
  BY DEF PrepareRejects
<1>3. e.active \in Nat /\ WorksMove(works') BY <1>1, EntryFacts
<1>4. StepsMove(steps') /\ AttemptsMove(attempts', steps') BY <1>2, CallStepFails
<1>5. TaskMoves
  <2>1. PICK status : status = IF stopped THEN "paused" ELSE task.status OBVIOUS
  <2>2. status \in {"pending", "waiting-approval", "waiting-clarification",
                    "completed", "paused", "failed"}
    BY <2>1, StatusTypes
  <2>3. task' = [task EXCEPT !.active = e.active, !.status = status] BY <1>1, <2>1
  <2>4. QED BY <1>2, <1>3, <2>2, <2>3, TaskSet
<1>6. QED BY <1>2, <1>3, <1>4, <1>5, IdleCarries DEF Moves

LEMMA PrepareHeldMoves ==
  ASSUME TInv, NEW w \in Workers, PrepareHeld(w) PROVE Moves
<1>1. PICK e \in Entries(w) : task' = [task EXCEPT !.active = e.active] /\ works' = e.works
  BY DEF PrepareHeld
<1>2. /\ steps' = CallSteps /\ attempts' = AbandonedOf(CallStep) /\ Finish(w) /\ used' = used
  BY DEF PrepareHeld
<1>3. e.active \in Nat /\ WorksMove(works') BY <1>1, EntryFacts
<1>4. StepsMove(steps') BY <1>2, CallStepMoves
<1>5. AttemptsMove(attempts', steps')
  <2>1. PICK rows : rows = steps' OBVIOUS
  <2>2. StepsMove(rows) BY <1>4, <2>1
  <2>3. AttemptsMove(AbandonedOf(CallStep), rows) BY <2>2, AbandonedRows
  <2>4. QED BY <1>2, <2>1, <2>3
<1>6. TaskMoves BY <1>1, <1>2, <1>3, TaskActive
<1>7. QED BY <1>2, <1>3, <1>4, <1>5, <1>6, IdleCarries DEF Moves

LEMMA ReservationFits ==
  ASSUME TInv, NEW active \in Nat, active < task.limit
  PROVE  Reservation(active) \in FitWorks
<1>1. task.limit \in Nat BY StatusTypes
<1>2. task.limit - active \in Nat BY <1>1
<1>3. QED BY <1>2 DEF Reservation, FitWorks, WorkRows, Open

\* What allows a call leaves time for it.
LEMMA CallableTime ==
  ASSUME TInv, NEW e, e.active \in Nat, Callable(e)
  PROVE  e.active < task.limit
<1>1. task.limit \in Nat /\ Headroom \in Nat BY StatusTypes, ConstantsFit
<1>2. QED BY <1>1 DEF Callable, Affords

LEMMA PrepareFilesMoves ==
  ASSUME TInv, NEW w \in Workers, PrepareFiles(w) PROVE Moves
<1>1. PICK e \in Entries(w) :
        /\ Callable(e)
        /\ works' = Append(e.works, Reservation(e.active))
        /\ worker' = [worker EXCEPT ![w] = [Idle EXCEPT !.phase = "files",
                                                       !.work = Len(e.works) + 1]]
  BY DEF PrepareFiles
<1>2. /\ steps' = CallSteps /\ task' = [task EXCEPT !.active = task.limit]
      /\ UNCHANGED <<attempts, used>>
  BY DEF PrepareFiles
<1>3. e.active \in Nat /\ WorksMove(e.works) BY EntryFacts
<1>4. WorksMove(works') /\ Len(e.works) + 1 \in DOMAIN works'
  <2>1. e.active < task.limit BY <1>1, <1>3, CallableTime
  <2>2. Reservation(e.active) \in FitWorks BY <1>3, <2>1, ReservationFits
  <2>3. PICK work \in FitWorks : work = Reservation(e.active) BY <2>2
  <2>4. PICK rows : rows = e.works OBVIOUS
  <2>5. WorksMove(Append(rows, work)) /\ Len(rows) + 1 \in DOMAIN Append(rows, work)
    BY <1>3, <2>4, WorkAppended
  <2>6. QED BY <1>1, <2>3, <2>4, <2>5
<1>5. StepsMove(steps') BY <1>2, CallStepMoves
<1>6. AttemptsMove(attempts', steps') BY <1>2, <1>5, AttemptsSame
<1>7. TaskMoves BY <1>2, StatusTypes, TaskActive
<1>8. WorkerMoves
  <2>1. PICK x : x = [Idle EXCEPT !.phase = "files", !.work = Len(e.works) + 1] OBVIOUS
  <2>2. Len(e.works) + 1 \in Nat
    BY <1>4, SeqIndices DEF WorksMove
  <2>3. x \in WorkerRows /\ x.phase = "files" /\ x.work = Len(e.works) + 1
    BY <2>1, <2>2 DEF Idle, WorkerRows
  <2>4. x.work \in DOMAIN works' BY <1>4, <2>3
  <2>5. Carries(x)' BY <2>3, <2>4 DEF Carries, CallPhases, ToolPhases, WorkPhases
  <2>6. QED BY <1>1, <2>1, <2>3, <2>5, WorkerTo
<1>9. QED BY <1>4, <1>5, <1>6, <1>7, <1>8 DEF Moves

LEMMA AttemptAppended ==
  ASSUME TInv, NEW ofSteps, NEW rows, AttemptsMove(rows, ofSteps),
         NEW new \in FitAttempts, new.step \in DOMAIN ofSteps
  PROVE  /\ AttemptsMove(Append(rows, new), ofSteps)
         /\ Len(rows) + 1 \in DOMAIN Append(rows, new)
         /\ Append(rows, new)[Len(rows) + 1] = new
         /\ \A a \in DOMAIN rows : Append(rows, new)[a] = rows[a]
         /\ DOMAIN Append(rows, new) = DOMAIN rows \cup {Len(rows) + 1}
<1>1. rows \in Seq(FitAttempts) /\ Len(rows) \in Nat /\ Len(attempts) <= Len(rows)
      /\ DOMAIN rows = 1 .. Len(rows)
  BY SeqIndices DEF AttemptsMove
<1>2. Len(attempts) \in Nat /\ DOMAIN attempts = 1 .. Len(attempts) BY SeqIndices DEF TInv
<1>3. PICK all : all = Append(rows, new) OBVIOUS
<1>4. /\ all \in Seq(FitAttempts) /\ Len(all) = Len(rows) + 1
      /\ DOMAIN all = DOMAIN rows \cup {Len(rows) + 1}
      /\ \A a \in DOMAIN rows : all[a] = rows[a]
      /\ all[Len(rows) + 1] = new
  BY <1>1, <1>3, SeqAppend
<1>5. \A a \in DOMAIN attempts : a \in DOMAIN rows BY <1>1, <1>2
<1>6. \A a \in DOMAIN attempts : AttemptKept(attempts[a], all[a]) BY <1>4, <1>5 DEF AttemptsMove
<1>7. \A a \in DOMAIN all : all[a].step \in DOMAIN ofSteps BY <1>4 DEF AttemptsMove
<1>8. AttemptsMove(all, ofSteps) BY <1>1, <1>2, <1>4, <1>6, <1>7 DEF AttemptsMove
<1>9. QED BY <1>3, <1>4, <1>8

LEMMA NewAttemptFits ==
  ASSUME NEW n \in Nat, NEW milliseconds \in Nat
  PROVE  NewAttempt(n, milliseconds) \in FitAttempts /\ NewAttempt(n, milliseconds).step = n
BY DEF NewAttempt, FitAttempts, AttemptRows, Statuses, Open

\* The rows of a call that was claimed.
CalledStep(st) == [st EXCEPT !.model = "running", !.spent = @ + ReservedCost]

NewIndex == Len(attempts) + 1

Called(e, milliseconds) ==
    /\ Callable(e) /\ e.active \in Nat /\ milliseconds \in Nat
    /\ CallSteps[CallStep].spent + ReservedCost <= Budget
    /\ works' = e.works
    /\ task' = [task EXCEPT !.active = e.active + milliseconds]
    /\ used' = used
    /\ steps' = [CallSteps EXCEPT ![CallStep] = CalledStep(CallSteps[CallStep])]
    /\ attempts' = Append(AbandonedOf(CallStep), NewAttempt(CallStep, milliseconds))

LEMMA PrepareCallRows ==
  ASSUME TInv, NEW w \in Workers, PrepareCall(w)
  PROVE  \E e \in Entries(w), milliseconds \in Nat : Called(e, milliseconds)
<1>1. PICK e \in Entries(w) :
        /\ Callable(e)
        /\ CallSteps[CallStep].spent + ReservedCost <= Budget
        /\ LET milliseconds == Min({CallTimeout, task.limit - e.active})
           IN /\ attempts' = Append(AbandonedOf(CallStep), NewAttempt(CallStep, milliseconds))
              /\ task' = [task EXCEPT !.active = e.active + milliseconds]
        /\ works' = e.works
  BY DEF PrepareCall
<1>2. PICK milliseconds : milliseconds = Min({CallTimeout, task.limit - e.active}) OBVIOUS
<1>3. e.active \in Nat BY EntryFacts
<1>4. milliseconds \in Nat
  <2>1. e.active < task.limit BY <1>1, <1>3, CallableTime
  <2>2. task.limit \in Nat /\ CallTimeout \in Nat BY StatusTypes, ConstantsFit
  <2>3. PICK left \in Nat : left = task.limit - e.active BY <1>3, <2>1, <2>2
  <2>4. QED BY <1>2, <2>2, <2>3, MinOfTwo
<1>5. steps' = [CallSteps EXCEPT ![CallStep] = CalledStep(CallSteps[CallStep])]
  <2>1. steps' = [CallSteps EXCEPT ![CallStep].model = "running",
                                   ![CallStep].spent = @ + ReservedCost]
    BY DEF PrepareCall
  <2>2. CallStep \in DOMAIN CallSteps /\ CallSteps[CallStep] \in FitSteps BY CallStepMoves
  <2>3. QED BY <2>1, <2>2 DEF CalledStep
<1>6. used' = used BY DEF PrepareCall
<1>7. Called(e, milliseconds) BY <1>1, <1>2, <1>3, <1>4, <1>5, <1>6 DEF Called
<1>8. QED BY <1>4, <1>7

LEMMA CalledStepKept ==
  ASSUME NEW st \in FitSteps, st.spent + ReservedCost <= Budget,
         st.model \in {"pending", "running"}
  PROVE  StepKept(st, CalledStep(st))
<1>1. st.spent + ReservedCost \in 0 .. Budget BY CostsFit, ConstantsFit DEF FitSteps, StepRows
<1>2. QED BY <1>1 DEF CalledStep, StepKept, FitSteps, StepRows

LEMMA CalledRows ==
  ASSUME TInv, NEW e, NEW milliseconds, Called(e, milliseconds)
  PROVE  /\ StepsMove(steps') /\ AttemptsMove(attempts', steps')
         /\ CallStep \in DOMAIN steps' /\ CallStep \in Nat
         /\ steps'[CallStep] = CalledStep(CallSteps[CallStep])
         /\ steps'[CallStep].run = task.generation
         /\ steps'[CallStep].model = "running"
         /\ DOMAIN steps' = DOMAIN CallSteps
         /\ \A n \in DOMAIN steps \ {CallStep} : steps'[n] = steps[n]
         /\ NewIndex \in Nat /\ NewIndex \notin DOMAIN attempts
         /\ DOMAIN attempts' = DOMAIN attempts \cup {NewIndex}
         /\ attempts'[NewIndex] = NewAttempt(CallStep, milliseconds)
         /\ \A a \in DOMAIN attempts :
              attempts'[a] = IF attempts[a].step = CallStep THEN Abandoned(attempts[a])
                             ELSE attempts[a]
<1>1. /\ CallStep \in DOMAIN CallSteps /\ CallStep \in Nat
      /\ CallSteps[CallStep] \in FitSteps /\ CallSteps[CallStep].run = task.generation
  BY CallStepMoves
<1>2. PICK new : new = CalledStep(CallSteps[CallStep]) OBVIOUS
<1>3. StepKept(CallSteps[CallStep], new)
  BY <1>1, <1>2, CalledStepKept DEF Called, Callable
<1>4. steps' = [CallSteps EXCEPT ![CallStep] = new] BY <1>2 DEF Called
<1>5. /\ StepsMove(steps') /\ DOMAIN steps' = DOMAIN CallSteps /\ steps'[CallStep] = new
      /\ \A n \in DOMAIN steps \ {CallStep} : steps'[n] = steps[n]
  BY <1>3, <1>4, CallStepReplaced
<1>6. new.run = task.generation /\ new.model = "running"
  BY <1>1, <1>2 DEF CalledStep, FitSteps, StepRows
<1>7. PICK after : after = steps' OBVIOUS
<1>8. PICK rows : rows = AbandonedOf(CallStep) OBVIOUS
<1>9. /\ AttemptsMove(rows, after) /\ DOMAIN rows = DOMAIN attempts
      /\ \A a \in DOMAIN attempts :
           rows[a] = IF attempts[a].step = CallStep THEN Abandoned(attempts[a]) ELSE attempts[a]
  BY <1>5, <1>7, <1>8, AbandonedRows
<1>10. Len(attempts) \in Nat /\ DOMAIN attempts = 1 .. Len(attempts)
       /\ Len(rows) \in Nat /\ DOMAIN rows = 1 .. Len(rows)
  BY <1>9, SeqIndices DEF TInv, AttemptsMove
<1>11. Len(rows) = Len(attempts) BY <1>9, <1>10
<1>12. PICK row : row = NewAttempt(CallStep, milliseconds) OBVIOUS
<1>13. row \in FitAttempts /\ row.step = CallStep BY <1>1, <1>12, NewAttemptFits DEF Called
<1>14. attempts' = Append(rows, row) BY <1>8, <1>12 DEF Called
<1>15. row.step \in DOMAIN after BY <1>1, <1>5, <1>7, <1>13
<1>16. /\ AttemptsMove(attempts', after)
       /\ attempts'[Len(rows) + 1] = row
       /\ \A a \in DOMAIN rows : attempts'[a] = rows[a]
       /\ DOMAIN attempts' = DOMAIN rows \cup {Len(rows) + 1}
  BY <1>9, <1>13, <1>14, <1>15, AttemptAppended
<1>17. NewIndex = Len(rows) + 1 /\ NewIndex \in Nat /\ NewIndex \notin DOMAIN attempts
  BY <1>10, <1>11 DEF NewIndex
<1>18. QED BY <1>1, <1>2, <1>5, <1>6, <1>7, <1>9, <1>12, <1>16, <1>17

\* The worker of a call that was claimed.
CallOf == [Idle EXCEPT !.phase = "model", !.step = CallStep, !.attempt = NewIndex,
                       !.generation = task.generation]

LEMMA CallOfFields ==
  ASSUME TInv
  PROVE  /\ CallOf \in WorkerRows /\ CallOf.phase = "model" /\ CallOf.step = CallStep
         /\ CallOf.attempt = NewIndex /\ CallOf.generation = task.generation
<1>1. CallStep \in Nat BY CallStepMoves
<1>2. NewIndex \in Nat BY SeqIndices DEF TInv, NewIndex
<1>3. task.generation \in Nat BY StatusTypes
<1>4. QED BY <1>1, <1>2, <1>3 DEF CallOf, Idle, WorkerRows

LEMMA PrepareCallMoves ==
  ASSUME TInv, NEW w \in Workers, PrepareCall(w) PROVE Moves
<1>1. PICK e \in Entries(w), milliseconds \in Nat : Called(e, milliseconds) BY PrepareCallRows
<1>2. WorksMove(works') BY <1>1, EntryFacts DEF Called
<1>3. TaskMoves
  <2>1. e.active + milliseconds \in Nat /\ used' = used
        /\ task' = [task EXCEPT !.active = e.active + milliseconds]
    BY <1>1 DEF Called
  <2>2. QED BY <2>1, TaskActive
<1>4. /\ StepsMove(steps') /\ AttemptsMove(attempts', steps')
      /\ steps'[CallStep].run = task.generation
      /\ NewIndex \in DOMAIN attempts'
      /\ attempts'[NewIndex] = NewAttempt(CallStep, milliseconds)
      /\ CallStep \in Nat
  BY <1>1, CalledRows
<1>5. WorkerMoves
  <2>1. worker' = [worker EXCEPT ![w] = CallOf] BY DEF PrepareCall, CallOf, NewIndex
  <2>2. PICK x : x = CallOf OBVIOUS
  <2>3. /\ x \in WorkerRows /\ x.phase = "model" /\ x.step = CallStep
        /\ x.attempt = NewIndex /\ x.generation = task.generation
    BY <2>2, CallOfFields
  <2>4. /\ x.attempt \in DOMAIN attempts' /\ attempts'[x.attempt].step = x.step
        /\ steps'[x.step].run = x.generation
    BY <1>4, <2>3, NewAttemptFits
  <2>5. Carries(x)' BY <2>3, <2>4 DEF Carries, ToolPhases, WorkPhases
  <2>6. QED BY <2>1, <2>2, <2>3, <2>5, WorkerTo
<1>6. QED BY <1>2, <1>3, <1>4, <1>5 DEF Moves

\* Settling the work a worker carries.
LEMMA WorkEnds ==
  ASSUME TInv, NEW w \in Workers, worker[w].phase \in WorkPhases, used' = used,
         NEW t \in WorkTimes, works' = WorkSettled(worker[w].work, t),
         task' = TaskAfterWork(worker[w].work, t)
  PROVE  WorksMove(works') /\ TaskMoves
<1>1. worker[w].work \in DOMAIN works BY DEF TInv, Carries
<1>2. PICK i \in DOMAIN works : i = worker[w].work BY <1>1
<1>3. WorksMove(works') /\ task' \in TaskRows /\ task'.generation = task.generation
  BY <1>2, SettledWork
<1>4. QED BY <1>3, TaskStays

LEMMA FilesEndMoves ==
  ASSUME TInv, NEW w \in Workers, FilesEnd(w) PROVE Moves
<1>1. PICK t \in WorkTimes : /\ works' = WorkSettled(worker[w].work, t)
                             /\ task' = TaskAfterWork(worker[w].work, t)
  BY DEF FilesEnd
<1>2. worker[w].phase \in WorkPhases /\ Finish(w) /\ UNCHANGED <<steps, attempts, used>>
  BY DEF FilesEnd, WorkPhases
<1>3. WorksMove(works') /\ TaskMoves BY <1>1, <1>2, WorkEnds
<1>4. StepsMove(steps') BY <1>2, StepsSame
<1>5. AttemptsMove(attempts', steps') BY <1>2, StepsSame, AttemptsSame
<1>6. QED BY <1>2, <1>3, <1>4, <1>5, IdleCarries DEF Moves

LEMMA PrepareDeniedMoves ==
  ASSUME TInv, NEW w \in Workers, PrepareDenied(w) PROVE Moves
<1>1. /\ worker' = [worker EXCEPT ![w] = [Idle EXCEPT !.phase = "denied"]]
      /\ UNCHANGED <<steps, attempts, used>>
  BY DEF PrepareDenied
<1>2. WorksMove(works') /\ TaskMoves
  <2>1. CASE UNCHANGED <<task, works>> BY <1>1, <2>1, WorksSame, TaskStays DEF TInv
  <2>2. ASSUME worker[w].phase = "files", NEW t \in WorkTimes,
               works' = WorkSettled(worker[w].work, t), task' = TaskAfterWork(worker[w].work, t)
        PROVE  WorksMove(works') /\ TaskMoves
    <3>1. worker[w].phase \in WorkPhases BY <2>2 DEF WorkPhases
    <3>2. QED BY <1>1, <2>2, <3>1, WorkEnds
  <2>3. QED BY <2>1, <2>2 DEF PrepareDenied
<1>3. StepsMove(steps') BY <1>1, StepsSame
<1>4. AttemptsMove(attempts', steps') BY <1>1, StepsSame, AttemptsSame
<1>5. WorkerMoves
  <2>1. PICK x : x = [Idle EXCEPT !.phase = "denied"] OBVIOUS
  <2>2. x \in WorkerRows /\ x.phase = "denied" BY <2>1 DEF Idle, WorkerRows
  <2>3. Carries(x)' BY <2>2 DEF Carries, CallPhases, ToolPhases, WorkPhases
  <2>4. QED BY <1>1, <2>1, <2>2, <2>3, WorkerTo
<1>6. QED BY <1>2, <1>3, <1>4, <1>5 DEF Moves

LEMMA DenyMoves ==
  ASSUME TInv, NEW w \in Workers, Deny(w) PROVE Moves
<1>1. PICK stopped \in {"failed", "paused"} :
        task' = [task EXCEPT !.status = IF @ \in ActiveStatuses THEN stopped ELSE @]
  BY DEF Deny
<1>2. Finish(w) /\ UNCHANGED <<steps, attempts, works, used>> BY DEF Deny
<1>3. StepsMove(steps') /\ AttemptsMove(attempts', steps') /\ WorksMove(works')
  BY <1>2, RowsSame
<1>4. task' \in TaskRows /\ task'.generation = task.generation BY <1>1 DEF TInv, TaskRows
<1>5. TaskMoves BY <1>2, <1>4, TaskStays
<1>6. QED BY <1>2, <1>3, <1>5, IdleCarries DEF Moves

LEMMA DispatchMoves ==
  ASSUME TInv, NEW w \in Workers, Dispatch(w) PROVE Moves
<1>1. /\ worker[w].phase = "model" /\ Go(w, "asking")
      /\ UNCHANGED <<task, steps, attempts, works, used>>
  BY DEF Dispatch
<1>2. StepsMove(steps') /\ AttemptsMove(attempts', steps') /\ WorksMove(works')
  BY <1>1, RowsSame
<1>3. TaskMoves BY <1>1, TaskStays DEF TInv
<1>4. WorkerMoves
  <2>1. PICK x : x = [worker[w] EXCEPT !.phase = "asking"] OBVIOUS
  <2>2. worker' = [worker EXCEPT ![w] = x] BY <1>1, <2>1 DEF Go
  <2>3. worker[w] \in WorkerRows /\ Carries(worker[w]) BY DEF TInv
  <2>4. /\ x \in WorkerRows /\ x.phase = "asking" /\ x.step = worker[w].step
        /\ x.attempt = worker[w].attempt /\ x.generation = worker[w].generation
    BY <2>1, <2>3 DEF WorkerRows
  <2>5. /\ x.attempt \in DOMAIN attempts' /\ attempts'[x.attempt].step = x.step
        /\ steps'[x.step].run = x.generation
    BY <1>1, <2>3, <2>4 DEF Carries, CallPhases
  <2>6. Carries(x)' BY <2>4, <2>5 DEF Carries, ToolPhases, WorkPhases
  <2>7. QED BY <2>2, <2>4, <2>6, WorkerTo
<1>5. QED BY <1>2, <1>3, <1>4 DEF Moves

\* A worker has its result.
LEMMA EndedMoves ==
  ASSUME TInv, NEW w \in Workers, worker[w].phase \in CallPhases,
         NEW result \in Results, NEW elapsed \in Nat, Ended(w, result, elapsed),
         UNCHANGED <<task, steps, attempts, works, used>>
  PROVE  Moves
<1>1. StepsMove(steps') /\ AttemptsMove(attempts', steps') /\ WorksMove(works')
  BY RowsSame
<1>2. TaskMoves BY TaskStays DEF TInv
<1>3. WorkerMoves
  <2>1. PICK x : x = [worker[w] EXCEPT !.phase = "answered", !.result = result,
                                       !.elapsed = elapsed]
    OBVIOUS
  <2>2. worker[w] \in WorkerRows /\ Carries(worker[w]) /\ worker \in [Workers -> WorkerRows]
    BY DEF TInv
  <2>3. worker' = [worker EXCEPT ![w] = x] BY <2>1, <2>2 DEF Ended
  <2>4. /\ x \in WorkerRows /\ x.phase = "answered" /\ x.step = worker[w].step
        /\ x.attempt = worker[w].attempt /\ x.generation = worker[w].generation
        /\ x.result = result
    BY <2>1, <2>2 DEF WorkerRows
  <2>5. /\ x.attempt \in DOMAIN attempts' /\ attempts'[x.attempt].step = x.step
        /\ steps'[x.step].run = x.generation
    BY <2>2, <2>4 DEF Carries, CallPhases
  <2>6. Carries(x)' BY <2>4, <2>5 DEF Carries, ToolPhases, WorkPhases
  <2>7. QED BY <2>3, <2>4, <2>6, WorkerTo
<1>4. QED BY <1>1, <1>2, <1>3 DEF Moves

LEMMA ResultKinds ==
  /\ {"answer", "mismatch", "rate-limit", "refused", "timeout", "unavailable",
      "provider-error", "not-started"} = Results
BY DEF Results, Successes, Unanswered

LEMMA DispatchRefusedMoves ==
  ASSUME TInv, NEW w \in Workers, DispatchRefused(w) PROVE Moves
<1>1. worker[w].phase \in CallPhases /\ UNCHANGED <<task, steps, attempts, works, used>>
  BY DEF DispatchRefused, CallPhases
<1>2. PICK result \in {"provider-error", "not-started", "unavailable"} : Ended(w, result, 0)
  BY DEF DispatchRefused
<1>3. result \in Results /\ 0 \in Nat BY ResultKinds
<1>4. QED BY <1>1, <1>2, <1>3, EndedMoves

LEMMA AnswerMoves ==
  ASSUME TInv, NEW w \in Workers, Answer(w) PROVE Moves
<1>1. worker[w].phase = "asking" /\ UNCHANGED <<task, steps, attempts, works, used>>
  BY DEF Answer
<1>2. worker[w].phase \in CallPhases BY <1>1 DEF CallPhases
<1>3. attempts[worker[w].attempt].reserved \in Nat
  <2>1. worker[w].attempt \in DOMAIN attempts BY <1>2 DEF TInv, Carries
  <2>2. attempts[worker[w].attempt] \in AttemptRows BY <2>1, SeqIndices DEF TInv, FitAttempts
  <2>3. QED BY <2>2 DEF AttemptRows
<1>4. PICK result \in Results, elapsed \in {1, attempts[worker[w].attempt].reserved} :
        Ended(w, result, elapsed)
  <2>1. "answer" \in Results /\ "timeout" \in Results /\ Failures \subseteq Results
    BY ResultKinds, ConstantsFit
  <2>2. QED BY <2>1 DEF Answer
<1>5. elapsed \in Nat BY <1>3
<1>6. QED BY <1>1, <1>2, <1>4, <1>5, EndedMoves

LEMMA ObserveMoves ==
  ASSUME TInv, NEW w \in Workers, Observe(w) PROVE Moves
<1>1. /\ worker[w].phase = "answered" /\ Go(w, "observed")
      /\ attempts' = [attempts EXCEPT ![worker[w].attempt] =
                        Observed(@, worker[w].result = "answer", worker[w].elapsed)]
      /\ UNCHANGED <<task, steps, works, used>>
  BY DEF Observe
<1>2. worker[w] \in WorkerRows /\ Carries(worker[w]) BY DEF TInv
<1>3. PICK a : a = worker[w].attempt OBVIOUS
<1>4. /\ a \in DOMAIN attempts /\ attempts[a].step = worker[w].step
      /\ steps[worker[w].step].run = worker[w].generation
      /\ worker[w].result \in Results
  BY <1>1, <1>2, <1>3 DEF Carries, CallPhases
<1>5. attempts[a] \in AttemptRows BY <1>4, SeqIndices DEF TInv, FitAttempts
<1>6. PICK known \in BOOLEAN : known = (worker[w].result = "answer") OBVIOUS
<1>7. PICK new : new = Observed(attempts[a], known, worker[w].elapsed) OBVIOUS
<1>8. worker[w].elapsed \in Nat BY <1>2 DEF WorkerRows
<1>9. AttemptKept(attempts[a], new) /\ new.observed # Open BY <1>5, <1>7, <1>8, ObservedRow
<1>10. attempts' = [attempts EXCEPT ![a] = new] BY <1>1, <1>3, <1>6, <1>7
<1>11. StepsMove(steps') /\ WorksMove(works') BY <1>1, StepsSame, WorksSame
<1>12. AttemptsMove(attempts', steps') /\ DOMAIN attempts' = DOMAIN attempts
  BY <1>9, <1>10, <1>11, AttemptReplaced
<1>13. TaskMoves BY <1>1, TaskStays DEF TInv
<1>14. WorkerMoves
  <2>1. PICK x : x = [worker[w] EXCEPT !.phase = "observed"] OBVIOUS
  <2>2. worker' = [worker EXCEPT ![w] = x] BY <1>1, <2>1 DEF Go
  <2>3. /\ x \in WorkerRows /\ x.phase = "observed" /\ x.step = worker[w].step
        /\ x.attempt = worker[w].attempt /\ x.generation = worker[w].generation
        /\ x.result = worker[w].result
    BY <2>1, <1>2 DEF WorkerRows
  <2>4. attempts'[a] = new BY <1>4, <1>10
  <2>5. new.step = attempts[a].step BY <1>9 DEF AttemptKept
  <2>6. /\ x.attempt \in DOMAIN attempts' /\ attempts'[x.attempt].step = x.step
        /\ steps'[x.step].run = x.generation /\ attempts'[x.attempt].observed # Open
    BY <1>1, <1>3, <1>4, <1>9, <1>12, <2>3, <2>4, <2>5
  <2>7. Carries(x)' BY <1>4, <2>3, <2>6 DEF Carries, ToolPhases, WorkPhases
  <2>8. QED BY <2>2, <2>3, <2>7, WorkerTo
<1>15. QED BY <1>11, <1>12, <1>13, <1>14 DEF Moves

(* Settlements. *)

\* What a worker that settles refers to.
LEMMA SettlesWhat ==
  ASSUME TInv, NEW w \in Workers, worker[w].phase = "observed"
  PROVE  /\ worker[w].attempt \in DOMAIN attempts
         /\ attempts[worker[w].attempt] \in FitAttempts
         /\ attempts[worker[w].attempt] \in AttemptRows
         /\ attempts[worker[w].attempt].step = worker[w].step
         /\ attempts[worker[w].attempt].observed \in Nat
         /\ worker[w].step \in DOMAIN steps
         /\ steps[worker[w].step] \in FitSteps
         /\ steps[worker[w].step].run = worker[w].generation
         /\ worker[w].result \in Results
<1>1. Carries(worker[w]) BY DEF TInv
<1>2. /\ worker[w].attempt \in DOMAIN attempts
      /\ attempts[worker[w].attempt].step = worker[w].step
      /\ attempts[worker[w].attempt].observed # Open
      /\ steps[worker[w].step].run = worker[w].generation
      /\ worker[w].result \in Results
  BY <1>1 DEF Carries, CallPhases
<1>3. attempts[worker[w].attempt] \in FitAttempts /\ attempts[worker[w].attempt] \in AttemptRows
  BY <1>2, SeqIndices DEF TInv, FitAttempts
<1>4. attempts[worker[w].attempt].observed \in Nat BY <1>2, <1>3 DEF AttemptRows
<1>5. worker[w].step \in DOMAIN steps BY <1>2 DEF TInv
<1>6. steps[worker[w].step] \in FitSteps BY <1>5, SeqIndices DEF TInv
<1>7. QED BY <1>2, <1>3, <1>4, <1>5, <1>6

LEMMA CorrectionsLower ==
  ASSUME NEW at, NEW result, NEW known \in BOOLEAN
  PROVE  /\ LiveCorrection(result) \in Int /\ LiveCorrection(result) <= 0
         /\ LateCorrection(at, result, known) \in Int /\ LateCorrection(at, result, known) <= 0
<1>1. PICK answered \in BOOLEAN : answered = (result = "answer") OBVIOUS
<1>2. PICK one : one = definitiveCharge(result, answered) OBVIOUS
<1>3. PICK two : two = definitiveCharge(result, known) OBVIOUS
<1>4. one \in Charges /\ two \in Charges BY <1>2, <1>3, ChargeType
<1>5. \A c \in Charges : c # Open => c - ReservedCost \in Int /\ c - ReservedCost <= 0
  BY CostsFit DEF Charges
<1>6. LiveCorrection(result) = IF one = Open THEN 0 ELSE one - ReservedCost
  BY <1>1, <1>2 DEF LiveCorrection
<1>7. LateCorrection(at, result, known) =
        IF Correctable(at) /\ two # Open THEN two - ReservedCost ELSE 0
  BY <1>3 DEF LateCorrection
<1>8. QED BY <1>4, <1>5, <1>6, <1>7

LEMMA SpentFits ==
  ASSUME TInv, NEW w \in Workers, worker[w].phase = "observed", SettlementFits(w)
  PROVE  SpentAfter(w) \in 0 .. Budget
<1>1. steps[worker[w].step].spent \in 0 .. Budget BY SettlesWhat DEF FitSteps, StepRows
<1>2. Budget \in Nat BY ConstantsFit
<1>3. PICK known \in BOOLEAN : known = (worker[w].result = "answer") OBVIOUS
<1>4. PICK c \in Int :
        /\ c <= 0
        /\ c = IF LiveAttempt(worker[w].attempt) THEN LiveCorrection(worker[w].result)
               ELSE LateCorrection(attempts[worker[w].attempt], worker[w].result, known)
  BY <1>3, CorrectionsLower
<1>5. SpentAfter(w) = steps[worker[w].step].spent + c BY <1>3, <1>4 DEF SpentAfter
<1>6. QED BY <1>1, <1>2, <1>4, <1>5 DEF SettlementFits

LEMMA ActiveAfterFits ==
  ASSUME TInv, NEW w \in Workers, worker[w].phase = "observed"
  PROVE  ActiveAfter(w) \in Nat
<1>1. attempts[worker[w].attempt] \in AttemptRows /\ attempts[worker[w].attempt].observed \in Nat
  BY SettlesWhat
<1>2. TimeCorrection(attempts[worker[w].attempt]) \in Int
  BY <1>1 DEF TimeCorrection, AttemptRows, Open
<1>3. PICK x \in Int : x = task.active + TimeCorrection(attempts[worker[w].attempt])
  BY <1>2, StatusTypes
<1>4. QED BY <1>3, MaxOfTwo DEF ActiveAfter

LEMMA SettledRowKept ==
  ASSUME NEW w, NEW at, NEW mid, AttemptKept(at, mid)
  PROVE  /\ AttemptKept(at, SettledRow(w, mid))
         /\ SettledRow(w, mid).settled = mid.observed
         /\ SettledRow(w, mid).observed = mid.observed
         /\ SettledRow(w, mid).status = mid.status /\ SettledRow(w, mid).live = mid.live
         /\ SettledRow(w, mid).charged = mid.charged /\ SettledRow(w, mid).noted = mid.noted
         /\ SettledRow(w, mid).known = mid.known
         /\ SettledRow(w, mid).pending = FALSE
         /\ SettledRow(w, mid).late = IF worker[w].result = "timeout" THEN "armed" ELSE mid.late
<1>1. mid \in AttemptRows BY DEF AttemptKept
<1>2. PICK late \in Lates : late = IF worker[w].result = "timeout" THEN "armed" ELSE mid.late
  BY <1>1 DEF Lates, AttemptRows
<1>3. TimeSettled(mid).late = mid.late BY <1>1, TimeSettledRow
<1>4. SettledRow(w, mid) = [TimeSettled(mid) EXCEPT !.late = late] BY <1>2, <1>3 DEF SettledRow
<1>5. AttemptKept(mid, TimeSettled(mid)) /\ TimeSettled(mid) \in AttemptRows
  BY <1>1, TimeSettledRow DEF AttemptKept
<1>6. AttemptKept(TimeSettled(mid), SettledRow(w, mid)) BY <1>4, <1>5, LateRow
<1>7. AttemptKept(at, SettledRow(w, mid)) BY <1>5, <1>6, KeptAgain
<1>8. QED BY <1>1, <1>2, <1>4, <1>7 DEF TimeSettled, AttemptRows

LEMMA ChargedKept ==
  ASSUME TInv, NEW w \in Workers, worker[w].phase = "observed", SettlementFits(w)
  PROVE  /\ StepKept(steps[worker[w].step], Charged(w))
         /\ Charged(w).spent = SpentAfter(w)
         /\ Charged(w).model = steps[worker[w].step].model
         /\ Charged(w).decision = steps[worker[w].step].decision
<1>1. SpentAfter(w) \in 0 .. Budget BY SpentFits
<1>2. steps[worker[w].step] \in FitSteps BY SettlesWhat
<1>3. QED BY <1>1, <1>2 DEF Charged, StepKept, FitSteps, StepRows

LEMMA SettleLateMoves ==
  ASSUME TInv, NEW w \in Workers, SettleLate(w) PROVE Moves
<1>1. /\ worker[w].phase = "observed" /\ SettlementFits(w) /\ Finish(w)
      /\ attempts' = [attempts EXCEPT ![worker[w].attempt] =
                        SettledRow(w, SettledLate(@, worker[w].result, worker[w].result = "answer"))]
      /\ steps' = [steps EXCEPT ![worker[w].step].spent = SpentAfter(w)]
      /\ task' = [task EXCEPT !.active = ActiveAfter(w)]
      /\ UNCHANGED <<works, used>>
  BY DEF SettleLate
<1>2. StepsMove(steps')
  <2>1. PICK new : new = Charged(w) OBVIOUS
  <2>2. StepKept(steps[worker[w].step], new) BY <1>1, <2>1, ChargedKept
  <2>3. steps' = [steps EXCEPT ![worker[w].step] = new] BY <1>1, <2>1 DEF Charged
  <2>4. QED BY <2>2, <2>3, StepReplaced
<1>3. AttemptsMove(attempts', steps')
  <2>1. PICK at \in AttemptRows : at = attempts[worker[w].attempt] BY <1>1, SettlesWhat
  <2>2. PICK known \in BOOLEAN : known = (worker[w].result = "answer") OBVIOUS
  <2>3. PICK mid : mid = SettledLate(at, worker[w].result, known) OBVIOUS
  <2>4. PICK new : new = SettledRow(w, mid) OBVIOUS
  <2>5. AttemptKept(at, new) BY <2>1, <2>2, <2>3, <2>4, SettledLateRow, SettledRowKept
  <2>6. attempts' = [attempts EXCEPT ![worker[w].attempt] = new]
    BY <1>1, <2>1, <2>2, <2>3, <2>4
  <2>7. QED BY <1>2, <2>1, <2>5, <2>6, AttemptReplaced
<1>4. WorksMove(works') BY <1>1, WorksSame
<1>5. TaskMoves BY <1>1, ActiveAfterFits, TaskActive
<1>6. QED BY <1>1, <1>2, <1>3, <1>4, <1>5, IdleCarries DEF Moves

\* A settlement of a live attempt, whatever becomes of its step.
LEMMA LiveSettled ==
  ASSUME TInv, NEW w \in Workers, SettlesLive(w), NEW new,
         StepKept(steps[worker[w].step], new),
         steps' = [steps EXCEPT ![worker[w].step] = new], TaskMoves
  PROVE  Moves
<1>1. /\ worker[w].phase = "observed" /\ LiveAttempt(worker[w].attempt) /\ Finish(w)
      /\ attempts' = [attempts EXCEPT ![worker[w].attempt] =
                        SettledRow(w, SettledLive(@, worker[w].result))]
      /\ UNCHANGED <<works, used>>
  BY DEF SettlesLive
<1>2. StepsMove(steps') BY StepReplaced
<1>3. AttemptsMove(attempts', steps')
  <2>1. PICK at \in AttemptRows : at = attempts[worker[w].attempt] BY <1>1, SettlesWhat
  <2>2. PICK mid : mid = SettledLive(at, worker[w].result) OBVIOUS
  <2>3. PICK row : row = SettledRow(w, mid) OBVIOUS
  <2>4. at.status = "running" BY <1>1, <2>1 DEF LiveAttempt
  <2>5. AttemptKept(at, row) BY <2>2, <2>3, <2>4, SettledLiveRow, SettledRowKept
  <2>6. attempts' = [attempts EXCEPT ![worker[w].attempt] = row]
    BY <1>1, <2>1, <2>2, <2>3
  <2>7. QED BY <1>2, <2>1, <2>5, <2>6, AttemptReplaced
<1>4. WorksMove(works') BY <1>1, WorksSame
<1>5. QED BY <1>1, <1>2, <1>3, <1>4, IdleCarries DEF Moves

\* The step of a live attempt runs: it is neither decided nor ended.
LEMMA LiveStep ==
  ASSUME TInv, NEW w \in Workers, SettlesLive(w)
  PROVE  /\ worker[w].phase = "observed" /\ SettlementFits(w) /\ used' = used
         /\ worker[w].step \in DOMAIN steps /\ steps[worker[w].step] \in FitSteps
         /\ steps[worker[w].step].model = "running"
         /\ steps[worker[w].step].decision = "none" /\ ~steps[worker[w].step].done
         /\ StepKept(steps[worker[w].step], Charged(w))
         /\ Charged(w).model = "running" /\ Charged(w).decision = "none" /\ ~Charged(w).done
         /\ ActiveAfter(w) \in Nat
<1>1. worker[w].phase = "observed" /\ SettlementFits(w) /\ LiveAttempt(worker[w].attempt)
      /\ used' = used
  BY DEF SettlesLive
<1>2. /\ worker[w].step \in DOMAIN steps /\ steps[worker[w].step] \in FitSteps
      /\ attempts[worker[w].attempt].step = worker[w].step
  BY <1>1, SettlesWhat
<1>3. steps[worker[w].step].model = "running" BY <1>1, <1>2 DEF LiveAttempt
<1>4. steps[worker[w].step].decision = "none" /\ ~steps[worker[w].step].done
  BY <1>2, <1>3 DEF FitSteps
<1>5. ActiveAfter(w) \in Nat BY <1>1, ActiveAfterFits
<1>6. /\ StepKept(steps[worker[w].step], Charged(w))
      /\ Charged(w).model = "running" /\ Charged(w).decision = "none"
  BY <1>1, <1>3, <1>4, ChargedKept
<1>7. ~Charged(w).done BY <1>6 DEF StepKept, FitSteps
<1>8. QED BY <1>1, <1>2, <1>3, <1>4, <1>5, <1>6, <1>7

\* The rows a step may take after a failed or withdrawn call.
LEMMA ChargedFails ==
  ASSUME TInv, NEW w \in Workers, SettlesLive(w)
  PROVE  /\ StepKept(steps[worker[w].step], FailedStep(Charged(w)))
         /\ FailedStep(Charged(w)).decision = "none"
         /\ StepKept(steps[worker[w].step], [Charged(w) EXCEPT !.model = "pending", !.due = FALSE])
<1>1. PICK st : st = steps[worker[w].step] OBVIOUS
<1>2. PICK new : new = Charged(w) OBVIOUS
<1>3. /\ st \in FitSteps /\ st.model = "running" /\ ~st.done
      /\ StepKept(st, new) /\ new \in FitSteps /\ new.model = "running" /\ new.decision = "none"
      /\ ~new.done
  BY <1>1, <1>2, LiveStep DEF StepKept
<1>4. new.run = st.run /\ (st.admitted => new.admitted) BY <1>3 DEF StepKept
<1>5. StepKept(st, FailedStep(new)) /\ FailedStep(new).decision = "none"
  BY <1>3, <1>4 DEF StepKept, FailedStep, FitSteps, StepRows
<1>6. StepKept(st, [new EXCEPT !.model = "pending", !.due = FALSE])
  BY <1>3, <1>4 DEF StepKept, FitSteps, StepRows
<1>7. QED BY <1>1, <1>2, <1>5, <1>6

LEMMA SettleFailureMoves ==
  ASSUME TInv, NEW w \in Workers, SettleFailure(w) PROVE Moves
<1>1. SettlesLive(w) /\ task' = [task EXCEPT !.active = ActiveAfter(w)] BY DEF SettleFailure
<1>2. PICK new : /\ steps' = [steps EXCEPT ![worker[w].step] = new]
                 /\ \/ new = [Charged(w) EXCEPT !.model = "pending", !.due = FALSE]
                    \/ new = FailedStep(Charged(w))
  BY DEF SettleFailure
<1>3. StepKept(steps[worker[w].step], new) BY <1>1, <1>2, ChargedFails
<1>4. TaskMoves BY <1>1, LiveStep, TaskActive
<1>5. QED BY <1>1, <1>2, <1>3, <1>4, LiveSettled

\* A settlement that stops the task.
LEMMA StoppingSettled ==
  ASSUME TInv, NEW w \in Workers, SettlesLive(w), NEW stopped \in {"failed", "paused"},
         steps' = [steps EXCEPT ![worker[w].step] = FailedStep(Charged(w))],
         task' = [task EXCEPT !.active = ActiveAfter(w), !.status = stopped]
  PROVE  Moves
<1>1. PICK new : new = FailedStep(Charged(w)) OBVIOUS
<1>2. StepKept(steps[worker[w].step], new) BY <1>1, ChargedFails
<1>3. TaskMoves BY LiveStep, TaskSet
<1>4. QED BY <1>1, <1>2, <1>3, LiveSettled

LEMMA SettleWithdrawnMoves ==
  ASSUME TInv, NEW w \in Workers, SettleWithdrawn(w) PROVE Moves
BY StoppingSettled DEF SettleWithdrawn

LEMMA SettleLimitedMoves ==
  ASSUME TInv, NEW w \in Workers, SettleLimited(w) PROVE Moves
BY StoppingSettled DEF SettleLimited

\* The row of a step whose decision is published.
Published(w, decision, route) ==
    [Charged(w) EXCEPT !.model = "committed", !.winner = worker[w].attempt,
                       !.decision = decision,
                       !.call = IF decision \in {"tools", "propose"} THEN "pending" ELSE "none",
                       !.route = route,
                       !.done = decision \in {"answer", "conflict"}]

Publishable == {"tools", "propose", "clarify", "answer", "conflict"}

LEMMA PublishedRow ==
  ASSUME TInv, NEW w \in Workers, SettlesLive(w), NEW decision \in Publishable,
         NEW route \in Routes, decision # "tools" => route = "inside"
  PROVE  /\ StepKept(steps[worker[w].step], Published(w, decision, route))
         /\ Published(w, decision, route).model = "committed"
         /\ Published(w, decision, route).decision = decision
         /\ Published(w, decision, route).winner = worker[w].attempt
         /\ Published(w, decision, route).admitted = Charged(w).admitted
         /\ Published(w, decision, route).spent = SpentAfter(w)
         /\ Published(w, decision, route).run = steps[worker[w].step].run
         /\ Published(w, decision, route).call \in {"none", "pending"}
         /\ Published(w, decision, route).done = (decision \in {"answer", "conflict"})
         /\ StatusAfter(decision) \in {"pending", "waiting-approval", "waiting-clarification",
                                       "completed"}
         /\ StatusAfter(decision) = "completed" => decision = "answer"
<1>1. PICK st : st = steps[worker[w].step] OBVIOUS
<1>2. PICK new : new = Charged(w) OBVIOUS
<1>3. /\ st \in FitSteps /\ st.model = "running" /\ ~st.done
      /\ StepKept(st, new) /\ new \in FitSteps
  BY <1>1, <1>2, LiveStep DEF StepKept
<1>4. new.run = st.run /\ (st.admitted => new.admitted) /\ new.spent = SpentAfter(w)
  BY <1>1, <1>2, <1>3, LiveStep, ChargedKept DEF StepKept
<1>5. worker[w].attempt \in Nat BY DEF TInv, WorkerRows
<1>6. PICK done : done = (decision \in {"answer", "conflict"}) OBVIOUS
<1>7. PICK call \in {"none", "pending"} :
         call = IF decision \in {"tools", "propose"} THEN "pending" ELSE "none"
  OBVIOUS
<1>8. PICK row : row = [new EXCEPT !.model = "committed", !.winner = worker[w].attempt,
                                   !.decision = decision, !.call = call, !.route = route,
                                   !.done = done]
  OBVIOUS
<1>9. row = Published(w, decision, route) BY <1>2, <1>6, <1>7, <1>8 DEF Published
<1>15. done \in BOOLEAN BY <1>6
<1>10. /\ row \in StepRows /\ row.run = new.run /\ row.admitted = new.admitted
       /\ row.model = "committed" /\ row.decision = decision /\ row.route = route
       /\ row.winner = worker[w].attempt /\ row.call = call /\ row.done = done
       /\ row.spent = new.spent
  BY <1>3, <1>5, <1>8, <1>15, ZenonT(60) DEF FitSteps, StepRows, Publishable
<1>16. row \in FitSteps
  <2>1. /\ done => decision \notin {"tools", "none"}
        /\ route # "inside" => decision = "tools"
        /\ decision # "none" /\ call # "waiting"
    BY <1>6 DEF Publishable
  <2>2. QED BY <1>10, <2>1 DEF FitSteps
<1>17. st.call \notin CallEnds /\ st.call # "waiting"
  <2>1. st.decision = "none" BY <1>3 DEF FitSteps, StepRows
  <2>2. st.call = "none" BY <1>3, <2>1 DEF FitSteps
  <2>3. QED BY <2>2 DEF CallEnds
<1>11. StepKept(st, row) BY <1>3, <1>4, <1>10, <1>16, <1>17 DEF StepKept
<1>12. call \in {"none", "pending"} OBVIOUS
<1>13. /\ StatusAfter(decision) \in {"pending", "waiting-approval", "waiting-clarification",
                                     "completed"}
       /\ StatusAfter(decision) = "completed" => decision = "answer"
  BY DEF StatusAfter, Publishable
<1>14. QED BY <1>1, <1>2, <1>4, <1>6, <1>9, <1>10, <1>11, <1>12, <1>13

LEMMA PublishesWhat ==
  ASSUME TInv, NEW w \in Workers, SettlePublished(w)
  PROVE  /\ SettlesLive(w) /\ ~Interrupted(w)
         /\ \E decision \in Publishable, route \in Routes :
              /\ decision # "tools" => route = "inside"
              /\ steps' = [steps EXCEPT ![worker[w].step] = Published(w, decision, route)]
              /\ task' = [task EXCEPT !.active = ActiveAfter(w), !.status = StatusAfter(decision)]
<1>1. Decisions \cup (IF "propose" \in Decisions THEN {"conflict"} ELSE {}) \subseteq Publishable
  BY ConstantsFit DEF Publishable
<1>2. QED BY <1>1 DEF SettlePublished, Published

LEMMA SettlePublishedMoves ==
  ASSUME TInv, NEW w \in Workers, SettlePublished(w) PROVE Moves
<1>1. PICK decision \in Publishable, route \in Routes :
        /\ decision # "tools" => route = "inside"
        /\ steps' = [steps EXCEPT ![worker[w].step] = Published(w, decision, route)]
        /\ task' = [task EXCEPT !.active = ActiveAfter(w), !.status = StatusAfter(decision)]
  BY PublishesWhat
<1>2. SettlesLive(w) BY PublishesWhat
<1>3. PICK new : new = Published(w, decision, route) OBVIOUS
<1>4. StepKept(steps[worker[w].step], new) BY <1>1, <1>2, <1>3, PublishedRow
<1>5. PICK status : status = StatusAfter(decision) OBVIOUS
<1>6. status \in {"pending", "waiting-approval", "waiting-clarification",
                  "completed", "paused", "failed"}
  BY <1>1, <1>2, <1>5, PublishedRow
<1>7. TaskMoves BY <1>1, <1>2, <1>5, <1>6, LiveStep, TaskSet
<1>8. QED BY <1>1, <1>2, <1>3, <1>4, <1>7, LiveSettled

LEMMA SettleLostMoves ==
  ASSUME TInv, NEW w \in Workers, SettleLost(w) PROVE Moves
<1>1. /\ worker[w].phase = "observed" /\ Finish(w) /\ UNCHANGED <<task, steps, works>>
      /\ attempts' = [attempts EXCEPT ![worker[w].attempt].late =
                        IF worker[w].result = "timeout" THEN "armed" ELSE @]
  BY DEF SettleLost
<1>2. PICK at \in AttemptRows : at = attempts[worker[w].attempt] BY <1>1, SettlesWhat
<1>3. PICK late \in Lates : late = IF worker[w].result = "timeout" THEN "armed" ELSE at.late
  BY <1>2 DEF Lates, AttemptRows
<1>4. PICK new : new = [at EXCEPT !.late = late] OBVIOUS
<1>5. AttemptKept(at, new) BY <1>4, LateRow
<1>6. attempts' = [attempts EXCEPT ![worker[w].attempt] = new] BY <1>1, <1>2, <1>3, <1>4
<1>7. StepsMove(steps') /\ WorksMove(works') BY <1>1, StepsSame, WorksSame
<1>8. AttemptsMove(attempts', steps') BY <1>2, <1>5, <1>6, <1>7, AttemptReplaced
<1>9. TaskMoves
  <2>1. used' = used \/ (used.crashes < MaxCrashes /\ used' = [used EXCEPT !.crashes = @ + 1])
    BY DEF SettleLost
  <2>2. used' \in UsedRows /\ used'.commands = used.commands
    BY <2>1, ConstantsFit, SMTT(60) DEF TInv, UsedRows
  <2>3. QED BY <1>1, <2>2 DEF TInv, TaskMoves, TaskRows
<1>10. QED BY <1>1, <1>7, <1>8, <1>9, IdleCarries DEF Moves

(* Recovery. *)

LEMMA RowsFinite ==
  ASSUME TInv
  PROVE  IsFiniteSet(DOMAIN attempts) /\ IsFiniteSet(DOMAIN works) /\ IsFiniteSet(DOMAIN steps)
         /\ (\A n : IsFiniteSet(AttemptsOf(n)))
         /\ IsFiniteSet(Recoverable) /\ \A n : IsFiniteSet(Recoverable \cap AttemptsOf(n))
<1>1. /\ Len(attempts) \in Nat /\ DOMAIN attempts = 1 .. Len(attempts)
      /\ Len(works) \in Nat /\ DOMAIN works = 1 .. Len(works)
      /\ Len(steps) \in Nat /\ DOMAIN steps = 1 .. Len(steps)
  BY SeqIndices DEF TInv
<1>2. /\ IsFiniteSet(DOMAIN attempts) /\ IsFiniteSet(DOMAIN works) /\ IsFiniteSet(DOMAIN steps)
  BY <1>1, FS_Interval
<1>3. \A n : AttemptsOf(n) \subseteq DOMAIN attempts BY DEF AttemptsOf
<1>4. Recoverable \subseteq DOMAIN attempts BY DEF Recoverable
<1>5. QED BY <1>2, <1>3, <1>4, FS_Subset

LEMMA SpentRecovered ==
  ASSUME TInv, RecoveryFits, NEW n \in DOMAIN steps
  PROVE  SpentAfterRecovery(n) \in 0 .. Budget
<1> DEFINE f == [a \in DOMAIN attempts |-> RecoveryCorrection(attempts[a])]
           zero == [a \in DOMAIN attempts |-> 0]
<1>1. PICK S : S = Recoverable \cap AttemptsOf(n) OBVIOUS
<1>2. IsFiniteSet(S) /\ S \subseteq DOMAIN attempts BY <1>1, RowsFinite DEF Recoverable
<1>3. \A a \in DOMAIN attempts : f[a] \in Int /\ f[a] <= 0
  <2> TAKE a \in DOMAIN attempts
  <2>1. attempts[a].reported \in BOOLEAN BY SeqIndices DEF TInv, FitAttempts, AttemptRows
  <2>2. QED BY <2>1, CorrectionsLower DEF RecoveryCorrection
<1>4. PICK total : total = SumFunctionOnSet(f, S) OBVIOUS
<1> HIDE DEF f
<1>5. total \in Int BY <1>2, <1>3, <1>4, SumInt
<1>6. total <= 0
  <2>1. \A a \in S : zero[a] = 0 BY <1>2
  <2>2. \A a \in S : f[a] \in Int /\ zero[a] \in Int /\ f[a] <= zero[a] BY <1>2, <1>3, <2>1
  <2> HIDE DEF zero
  <2>3. SumFunctionOnSet(zero, S) = 0 BY <1>2, <2>1, SumZero
  <2>4. SumFunctionOnSet(f, S) <= SumFunctionOnSet(zero, S) BY <1>2, <2>2, SumOrdered
  <2>5. QED BY <1>4, <2>3, <2>4
<1>7. SpentAfterRecovery(n) = steps[n].spent + total BY <1>1, <1>4 DEF SpentAfterRecovery, f
<1>8. steps[n].spent \in 0 .. Budget /\ Budget \in Nat
  BY SeqIndices, ConstantsFit DEF TInv, FitSteps, StepRows
<1>9. SpentAfterRecovery(n) >= 0 BY DEF RecoveryFits
<1>10. QED BY <1>5, <1>6, <1>7, <1>8, <1>9

\* What the recovery of the observed attempts writes.
LEMMA RecoveryRows ==
  ASSUME TInv, NEW rows, DOMAIN rows = DOMAIN attempts,
         \A a \in DOMAIN attempts : AttemptKept(attempts[a], rows[a]),
         recoverTaskModelUsage(rows), UNCHANGED <<works, used>>
  PROVE  /\ StepsMove(steps') /\ AttemptsMove(attempts', steps') /\ WorksMove(works')
         /\ TaskMoves
         /\ DOMAIN attempts' = DOMAIN attempts /\ DOMAIN steps' = DOMAIN steps
         /\ \A a \in DOMAIN attempts :
              attempts'[a] = IF a \in Recoverable THEN Recovered(rows[a]) ELSE rows[a]
         /\ \A n \in DOMAIN steps :
              steps'[n] = [steps[n] EXCEPT !.spent = SpentAfterRecovery(n)]
         /\ task'.status = task.status
<1>1. /\ RecoveryFits
      /\ attempts' = [a \in DOMAIN attempts |->
                        IF a \in Recoverable THEN Recovered(rows[a]) ELSE rows[a]]
      /\ steps' = [n \in DOMAIN steps |-> [steps[n] EXCEPT !.spent = SpentAfterRecovery(n)]]
      /\ task' = [task EXCEPT !.active =
                    Max({0, @ + SumFunctionOnSet([a \in DOMAIN attempts |->
                                                    TimeCorrection(attempts[a])], Recoverable)})]
  BY DEF recoverTaskModelUsage
<1>2. StepsMove(steps') /\ DOMAIN steps' = DOMAIN steps
  <2>1. \A n \in DOMAIN steps : StepKept(steps[n], steps'[n])
    <3> TAKE n \in DOMAIN steps
    <3>1. PICK spent \in 0 .. Budget : spent = SpentAfterRecovery(n) BY <1>1, SpentRecovered
    <3>2. steps[n] \in FitSteps BY SeqIndices DEF TInv
    <3>3. steps'[n] = [steps[n] EXCEPT !.spent = spent] BY <1>1, <3>1
    <3>4. QED BY <3>2, <3>3 DEF StepKept, FitSteps, StepRows
  <2>2. PICK after : after = steps' OBVIOUS
  <2>3. after = [n \in DOMAIN steps |-> after[n]] BY <1>1, <2>2
  <2>4. QED BY <2>1, <2>2, <2>3, StepsMapped
<1>3. AttemptsMove(attempts', steps')
  <2>1. \A a \in DOMAIN attempts : AttemptKept(attempts[a], attempts'[a])
    <3> TAKE a \in DOMAIN attempts
    <3>1. AttemptKept(attempts[a], rows[a]) OBVIOUS
    <3>2. rows[a] \in AttemptRows BY <3>1 DEF AttemptKept
    <3>3. AttemptKept(rows[a], Recovered(rows[a])) BY <3>2, RecoveredRow
    <3>4. AttemptKept(attempts[a], Recovered(rows[a])) BY <3>1, <3>3, KeptAgain
    <3>5. QED BY <1>1, <3>1, <3>4
  <2>2. PICK after : after = attempts' OBVIOUS
  <2>3. after = [a \in DOMAIN attempts |-> after[a]] BY <1>1, <2>2
  <2>4. QED BY <1>2, <2>1, <2>2, <2>3, AttemptsMapped
<1>4. WorksMove(works') BY WorksSame
<1>5. TaskMoves /\ task'.status = task.status
  <2>1. PICK f : f = [a \in DOMAIN attempts |-> TimeCorrection(attempts[a])] OBVIOUS
  <2>2. \A a \in Recoverable : f[a] \in Int
    <3> TAKE a \in Recoverable
    <3>1. a \in DOMAIN attempts BY DEF Recoverable
    <3>2. attempts[a] \in AttemptRows BY <3>1, SeqIndices DEF TInv, FitAttempts
    <3>3. QED BY <2>1, <3>1, <3>2 DEF TimeCorrection, AttemptRows, Open
  <2>3. SumFunctionOnSet(f, Recoverable) \in Int BY <2>2, RowsFinite, SumInt
  <2>4. PICK x \in Int : x = task.active + SumFunctionOnSet(f, Recoverable)
    BY <2>3, StatusTypes
  <2>5. PICK active : active = Max({0, x}) OBVIOUS
  <2>6. active \in Nat BY <2>5, MaxOfTwo
  <2>7. task' = [task EXCEPT !.active = active] BY <1>1, <2>1, <2>4, <2>5
  <2>8. task'.status = task.status BY <2>7 DEF TInv, TaskRows
  <2>9. QED BY <2>6, <2>7, <2>8, TaskActive
<1>6. QED BY <1>1, <1>2, <1>3, <1>4, <1>5

LEMMA OwnRows ==
  ASSUME TInv
  PROVE  \A a \in DOMAIN attempts : attempts[a] \in AttemptRows /\ AttemptKept(attempts[a], attempts[a])
BY SeqIndices, AttemptSame DEF TInv, FitAttempts

LEMMA RecoverMoves ==
  ASSUME TInv, NEW w \in Workers, Recover(w) PROVE Moves
<1>1. recoverTaskModelUsage(attempts) /\ UNCHANGED <<works, worker, used>> BY DEF Recover
<1>2. \A a \in DOMAIN attempts : AttemptKept(attempts[a], attempts[a]) BY OwnRows
<1>3. PICK rows : rows = attempts OBVIOUS
<1>4. /\ StepsMove(steps') /\ AttemptsMove(attempts', steps') /\ WorksMove(works') /\ TaskMoves
  BY <1>1, <1>2, <1>3, RecoveryRows
<1>5. QED BY <1>1, <1>4 DEF Moves, WorkerMoves

LEMMA LateObserveMoves ==
  ASSUME TInv, NEW a \in DOMAIN attempts, LateObserve(a) PROVE Moves
<1>1. PICK reported \in BOOLEAN :
        attempts' = [attempts EXCEPT ![a] =
                       [Observed(@, reported, @.reserved + 1) EXCEPT !.late = "observed"]]
  BY DEF LateObserve
<1>2. UNCHANGED <<task, steps, works, worker, used>> BY DEF LateObserve
<1>3. PICK at \in AttemptRows : at = attempts[a] BY OwnRows
<1>4. at.reserved + 1 \in Nat BY <1>3 DEF AttemptRows
<1>5. PICK mid : mid = Observed(at, reported, at.reserved + 1) OBVIOUS
<1>6. AttemptKept(at, mid) /\ mid \in AttemptRows BY <1>4, <1>5, ObservedRow DEF AttemptKept
<1>7. PICK new : new = [mid EXCEPT !.late = "observed"] OBVIOUS
<1>8. "observed" \in Lates BY DEF Lates
<1>9. AttemptKept(mid, new) BY <1>6, <1>7, <1>8, LateRow
<1>10. AttemptKept(at, new) BY <1>6, <1>9, KeptAgain
<1>11. attempts' = [attempts EXCEPT ![a] = new] BY <1>1, <1>3, <1>5, <1>7
<1>12. StepsMove(steps') /\ WorksMove(works') BY <1>2, StepsSame, WorksSame
<1>13. AttemptsMove(attempts', steps') BY <1>3, <1>10, <1>11, <1>12, AttemptReplaced
<1>14. TaskMoves BY <1>2, TaskStays DEF TInv
<1>15. QED BY <1>2, <1>12, <1>13, <1>14 DEF Moves, WorkerMoves

\* The rows once a late callback is over.
LateOver(a) == [attempts EXCEPT ![a].late = "none"]

LEMMA LateOverRows ==
  ASSUME TInv, NEW a \in DOMAIN attempts
  PROVE  /\ DOMAIN LateOver(a) = DOMAIN attempts
         /\ LateOver(a)[a] = [attempts[a] EXCEPT !.late = "none"]
         /\ \A b \in DOMAIN attempts \ {a} : LateOver(a)[b] = attempts[b]
         /\ \A b \in DOMAIN attempts : AttemptKept(attempts[b], LateOver(a)[b])
<1>1. /\ DOMAIN LateOver(a) = DOMAIN attempts
      /\ LateOver(a)[a] = [attempts[a] EXCEPT !.late = "none"]
      /\ \A b \in DOMAIN attempts \ {a} : LateOver(a)[b] = attempts[b]
  BY DEF LateOver
<1>2. "none" \in Lates BY DEF Lates
<1>3. AttemptKept(attempts[a], LateOver(a)[a]) BY <1>1, <1>2, OwnRows, LateRow
<1>4. QED BY <1>1, <1>3, OwnRows

LEMMA LateOverMoves ==
  ASSUME TInv, NEW a \in DOMAIN attempts, attempts' = LateOver(a),
         UNCHANGED <<task, steps, works, worker>>, TaskMoves
  PROVE  Moves
<1>1. PICK new : new = [attempts[a] EXCEPT !.late = "none"] OBVIOUS
<1>2. "none" \in Lates BY DEF Lates
<1>3. AttemptKept(attempts[a], new) BY <1>1, <1>2, OwnRows, LateRow
<1>4. attempts' = [attempts EXCEPT ![a] = new] BY <1>1 DEF LateOver
<1>5. StepsMove(steps') /\ WorksMove(works') BY StepsSame, WorksSame
<1>6. AttemptsMove(attempts', steps')
  <2>1. StepsMove(steps) BY StepsSame
  <2>2. AttemptsMove([attempts EXCEPT ![a] = new], steps) BY <1>3, <2>1, AttemptReplaced
  <2>3. QED BY <1>4, <2>2
<1>7. QED BY <1>5, <1>6 DEF Moves, WorkerMoves

LEMMA LateRecoverMoves ==
  ASSUME TInv, NEW a \in DOMAIN attempts, LateRecover(a) PROVE Moves
<1>1. UNCHANGED <<works, worker, used>> BY DEF LateRecover
<1>2. CASE recoverTaskModelUsage(LateOver(a))
  <2>1. PICK rows : rows = LateOver(a) OBVIOUS
  <2>2. DOMAIN rows = DOMAIN attempts /\ \A b \in DOMAIN attempts : AttemptKept(attempts[b], rows[b])
    BY <2>1, LateOverRows
  <2>3. /\ StepsMove(steps') /\ AttemptsMove(attempts', steps') /\ WorksMove(works') /\ TaskMoves
    BY <1>1, <1>2, <2>1, <2>2, RecoveryRows
  <2>4. QED BY <1>1, <2>3 DEF Moves, WorkerMoves
<1>3. CASE attempts' = LateOver(a) /\ UNCHANGED <<task, steps>>
  <2>1. TaskMoves BY <1>1, <1>3, TaskStays DEF TInv
  <2>2. QED BY <1>1, <1>3, <2>1, LateOverMoves
<1>4. QED BY <1>2, <1>3 DEF LateRecover, LateOver

(* The execution of calls. *)

LEMMA ToolWhat ==
  ASSUME TInv, NEW w \in Workers, worker[w].phase \in ToolPhases
  PROVE  /\ worker[w].step \in DOMAIN steps /\ steps[worker[w].step] \in FitSteps
         /\ steps[worker[w].step].decision # "none"
         /\ worker[w] \in WorkerRows
<1>1. worker[w].step \in DOMAIN steps /\ steps[worker[w].step].decision # "none"
  BY DEF TInv, Carries
<1>2. QED BY <1>1, SeqIndices DEF TInv

LEMMA ToolStays ==
  ASSUME TInv, NEW w \in Workers, worker[w].phase \in ToolPhases, StepsMove(steps')
  PROVE  worker[w].step \in DOMAIN steps' /\ steps'[worker[w].step].decision # "none"
<1>1. PICK n \in DOMAIN steps : n = worker[w].step /\ steps[n] \in FitSteps
        /\ steps[n].decision # "none"
  BY ToolWhat
<1>2. DOMAIN steps \subseteq DOMAIN steps' BY SeqIndices DEF TInv, StepsMove
<1>3. StepKept(steps[n], steps'[n]) BY DEF StepsMove
<1>4. QED BY <1>1, <1>2, <1>3 DEF StepKept, FitSteps

\* A worker goes on with its call: it keeps its step and its work, and what it
\* reports as ended has ended.
LEMMA ToolGoesOn ==
  ASSUME TInv, NEW w \in Workers, worker[w].phase \in ToolPhases,
         NEW x \in WorkerRows, x.step = worker[w].step, x.work = worker[w].work,
         x.phase \in {"report", "ran", "refusing"},
         x.phase # "report" => worker[w].phase # "report",
         x.phase = "ran" => worker[w].phase \in WorkPhases \/ x.work # 0,
         x.phase # "refusing" /\ x.result = "ended" => steps'[x.step].call \in CallEnds,
         worker' = [worker EXCEPT ![w] = x],
         StepsMove(steps'), DOMAIN works \subseteq DOMAIN works'
  PROVE  WorkerMoves
<1>1. x.step \in DOMAIN steps' /\ steps'[x.step].decision # "none" BY ToolStays
<1>2. x.phase # "report" => x.work = 0 \/ x.work \in DOMAIN works'
  <2>1. Carries(worker[w]) BY DEF TInv
  <2>2. QED BY <2>1 DEF Carries, WorkPhases, ToolPhases
<1>3. x.phase = "ran" => x.work \in DOMAIN works'
  <2>1. Carries(worker[w]) BY DEF TInv
  <2>2. worker[w].phase \in WorkPhases => worker[w].work \in DOMAIN works
    BY <2>1 DEF Carries
  <2>3. QED BY <1>2, <2>2
<1>4. Carries(x)'
  BY <1>1, <1>2, <1>3 DEF Carries, CallPhases, ToolPhases, WorkPhases, CallEnds, Over
<1>5. QED BY <1>4, WorkerTo

\* What a call becomes while its tool is at work.
Outcome(call, new) ==
    /\ new \in {"waiting"} \cup CallEnds
    /\ call \in CallEnds => new = call

\* The step of a call takes an outcome.
LEMMA OutcomeKept ==
  ASSUME NEW st \in FitSteps, st.decision # "none", NEW call, Outcome(st.call, call),
         call = "waiting" => st.route # "inside"
  PROVE  StepKept(st, [st EXCEPT !.call = call])
<1>1. call \in {"none", "pending", "waiting", "completed", "failed"} BY DEF Outcome, CallEnds
<1>2. st \in StepRows BY DEF FitSteps
<1>3. PICK new : new = [st EXCEPT !.call = call] OBVIOUS
<1>4. /\ new \in StepRows
      /\ new.run = st.run /\ new.done = st.done /\ new.decision = st.decision
      /\ new.call = call /\ new.route = st.route /\ new.admitted = st.admitted
      /\ new.model = st.model /\ new.winner = st.winner
  BY <1>1, <1>2, <1>3, ZenonT(60) DEF StepRows
<1>5. new \in FitSteps BY <1>4 DEF FitSteps, Outcome
<1>6. QED BY <1>3, <1>4, <1>5 DEF StepKept, Outcome

LEMMA ToolEndedMoves ==
  ASSUME TInv, NEW w \in Workers, ToolEnded(w) PROVE Moves
<1>1. /\ worker[w].phase = "tool" /\ UNCHANGED <<task, steps, attempts, works, used>>
      /\ Over(worker[w].step)
      /\ worker' = [worker EXCEPT ![w].phase = "report", ![w].result = "ended"]
  BY DEF ToolEnded, Reports
<1>2. worker[w].phase \in ToolPhases BY <1>1 DEF ToolPhases
<1>3. StepsMove(steps') BY <1>1, StepsSame
<1>4. AttemptsMove(attempts', steps') BY <1>1, <1>3, AttemptsSame
<1>5. WorksMove(works') BY <1>1, WorksSame
<1>6. TaskMoves BY <1>1, TaskStays DEF TInv
<1>7. WorkerMoves
  <2>1. PICK x : x = [worker[w] EXCEPT !.phase = "report", !.result = "ended"] OBVIOUS
  <2>2. worker' = [worker EXCEPT ![w] = x] BY <1>1, <2>1 DEF TInv
  <2>3. x \in WorkerRows /\ x.step = worker[w].step /\ x.work = worker[w].work /\ x.phase = "report"
    BY <1>2, <2>1, ToolWhat, ZenonT(60) DEF WorkerRows
  <2>4. steps'[x.step].call \in CallEnds BY <1>1, <2>3 DEF Over, CallEnds
  <2>5. DOMAIN works' = DOMAIN works BY <1>1
  <2>6. QED BY <1>1, <1>2, <1>3, <2>2, <2>3, <2>4, <2>5, ToolGoesOn
<1>8. QED BY <1>3, <1>4, <1>5, <1>6, <1>7 DEF Moves

LEMMA ToolWaitsMoves ==
  ASSUME TInv, NEW w \in Workers, ToolWaits(w) PROVE Moves
<1>1. /\ worker[w].phase = "tool" /\ UNCHANGED <<steps, attempts, used>>
      /\ worker' = [worker EXCEPT ![w].phase = "report", ![w].result = "waiting"]
      /\ works' = works \/ works' = Swept
      /\ task' = task \/ task' = [task EXCEPT !.status = "paused"]
  BY DEF ToolWaits, Reports
<1>2. worker[w].phase \in ToolPhases BY <1>1 DEF ToolPhases
<1>3. StepsMove(steps') BY <1>1, StepsSame
<1>4. AttemptsMove(attempts', steps') BY <1>1, <1>3, AttemptsSame
<1>5. WorksMove(works') BY <1>1, WorksSame, SweptRows
<1>6. TaskMoves
  <2>1. task' \in TaskRows /\ task'.generation = task.generation BY <1>1 DEF TInv, TaskRows
  <2>2. QED BY <1>1, <2>1, TaskStays
<1>7. WorkerMoves
  <2>1. PICK x : x = [worker[w] EXCEPT !.phase = "report", !.result = "waiting"] OBVIOUS
  <2>2. worker' = [worker EXCEPT ![w] = x] BY <1>1, <2>1 DEF TInv
  <2>3. /\ x \in WorkerRows /\ x.step = worker[w].step /\ x.work = worker[w].work
        /\ x.phase = "report" /\ x.result = "waiting"
    BY <1>2, <2>1, ToolWhat, ZenonT(60) DEF WorkerRows
  <2>4. DOMAIN works' = DOMAIN works BY <1>1, SweptRows
  <2>5. QED BY <1>1, <1>2, <1>3, <2>2, <2>3, <2>4, ToolGoesOn
<1>8. QED BY <1>3, <1>4, <1>5, <1>6, <1>7 DEF Moves

\* What admission writes.
LEMMA AdmittedRows ==
  ASSUME TInv, NEW w \in Workers, ToolAdmit(w)
  PROVE  /\ worker[w].step \in DOMAIN steps
         /\ StepsMove(steps') /\ DOMAIN steps' = DOMAIN steps
         /\ steps'[worker[w].step] = [steps[worker[w].step] EXCEPT !.admitted = TRUE]
         /\ \A n \in DOMAIN steps \ {worker[w].step} : steps'[n] = steps[n]
         /\ WorksMove(works') /\ Len(works) + 1 \in DOMAIN works'
         /\ works' = Append(Swept, Reservation(task.active))
         /\ Reservation(task.active) \in FitWorks
         /\ Len(Swept) = Len(works)
         /\ task' = [task EXCEPT !.calls = Admissions(worker[w].step), !.active = task.limit]
         /\ Admissions(worker[w].step) \in 0 .. ToolLimit
         /\ UNCHANGED <<attempts, used>>
<1>1. /\ worker[w].phase = "tool" /\ task.active < task.limit
      /\ steps[worker[w].step].admitted \/ task.calls < ToolLimit
      /\ task' = [task EXCEPT !.calls = Admissions(worker[w].step), !.active = task.limit]
      /\ steps' = [steps EXCEPT ![worker[w].step].admitted = TRUE]
      /\ works' = Append(Swept, Reservation(task.active))
      /\ UNCHANGED <<attempts, used>>
  BY DEF ToolAdmit
<1>2. worker[w].phase \in ToolPhases BY <1>1 DEF ToolPhases
<1>3. PICK n \in DOMAIN steps : n = worker[w].step BY <1>2, ToolWhat
<1>4. steps[n] \in FitSteps BY SeqIndices DEF TInv
<1>5. PICK new : new = [steps[n] EXCEPT !.admitted = TRUE] OBVIOUS
<1>6. StepKept(steps[n], new) BY <1>4, <1>5 DEF StepKept, FitSteps, StepRows
<1>7. steps' = [steps EXCEPT ![n] = new] BY <1>1, <1>3, <1>5
<1>8. StepsMove(steps') /\ DOMAIN steps' = DOMAIN steps BY <1>6, <1>7, StepReplaced
<1>9. steps'[n] = new /\ \A k \in DOMAIN steps \ {n} : steps'[k] = steps[k] BY <1>7
<1>10. WorksMove(Swept) /\ Len(Swept) = Len(works) BY SweptRows
<1>11. Reservation(task.active) \in FitWorks BY <1>1, StatusTypes, ReservationFits
<1>12. WorksMove(works') /\ Len(works) + 1 \in DOMAIN works'
  <2>1. PICK work \in FitWorks : work = Reservation(task.active) BY <1>11
  <2>2. PICK rows : rows = Swept OBVIOUS
  <2>3. WorksMove(Append(rows, work)) /\ Len(rows) + 1 \in DOMAIN Append(rows, work)
    BY <1>10, <2>2, WorkAppended
  <2>4. QED BY <1>1, <1>10, <2>1, <2>2, <2>3
<1>13. Admissions(n) \in 0 .. ToolLimit
  <2>1. task.calls \in 0 .. ToolLimit /\ ToolLimit \in Nat BY StatusTypes, ConstantsFit
  <2>2. steps[n].admitted \in BOOLEAN BY <1>4 DEF FitSteps, StepRows
  <2>3. steps[n].admitted \/ task.calls < ToolLimit BY <1>1, <1>3
  <2>4. CASE steps[n].admitted
    <3>1. Admissions(n) = task.calls + 0 BY <2>4 DEF Admissions
    <3>2. QED BY <2>1, <3>1
  <2>5. CASE ~steps[n].admitted
    <3>1. Admissions(n) = task.calls + 1 BY <2>5 DEF Admissions
    <3>2. QED BY <2>1, <2>3, <2>5, <3>1
  <2>6. QED BY <2>4, <2>5
<1>14. QED BY <1>1, <1>3, <1>5, <1>8, <1>9, <1>10, <1>11, <1>12, <1>13

LEMMA ToolAdmitMoves ==
  ASSUME TInv, NEW w \in Workers, ToolAdmit(w) PROVE Moves
<1>1. /\ worker[w].step \in DOMAIN steps
      /\ StepsMove(steps') /\ DOMAIN steps' = DOMAIN steps
      /\ WorksMove(works') /\ Len(works) + 1 \in DOMAIN works'
      /\ task' = [task EXCEPT !.calls = Admissions(worker[w].step), !.active = task.limit]
      /\ Admissions(worker[w].step) \in 0 .. ToolLimit
      /\ UNCHANGED <<attempts, used>>
  BY AdmittedRows
<1>2. AttemptsMove(attempts', steps') BY <1>1, AttemptsSame
<1>3. TaskMoves
  <2>1. task' \in TaskRows /\ task'.generation = task.generation BY <1>1 DEF TInv, TaskRows
  <2>2. QED BY <1>1, <2>1, TaskStays
<1>4. WorkerMoves
  <2>1. PICK x : x = [worker[w] EXCEPT !.phase = "working", !.work = Len(works) + 1] OBVIOUS
  <2>2. worker' = [worker EXCEPT ![w] = x] BY <2>1 DEF ToolAdmit, TInv
  <2>3. worker[w] \in WorkerRows /\ Len(works) + 1 \in Nat BY SeqIndices DEF TInv
  <2>4. x \in WorkerRows /\ x.step = worker[w].step /\ x.phase = "working" /\ x.work = Len(works) + 1
    BY <2>1, <2>3 DEF WorkerRows
  <2>5. x.step \in DOMAIN steps' /\ steps'[x.step].decision # "none" /\ x.work \in DOMAIN works'
    <3>1. worker[w].phase \in ToolPhases BY DEF ToolAdmit, ToolPhases
    <3>2. QED BY <1>1, <2>4, <3>1, ToolStays
  <2>6. Carries(x)' BY <2>4, <2>5 DEF Carries, CallPhases, ToolPhases, WorkPhases
  <2>7. QED BY <2>2, <2>4, <2>6, WorkerTo
<1>5. QED BY <1>1, <1>2, <1>3, <1>4, SMTT(60) DEF Moves

\* What the transactions of a call write to its step, and what for: an effect
\* under its reservation, a beginning, an outcome from outside, or a refusal.
Effect(w, call) ==
    \/ /\ ToolRun(w) /\ call = "completed"
       /\ Executable(worker[w].step) /\ steps[worker[w].step].route = "inside"
    \/ ToolBegin(w) /\ call = "waiting" /\ Executable(worker[w].step)
    \/ /\ ToolComplete(w) /\ call \in {"waiting", "completed", "failed"}
       /\ steps[worker[w].step].call = "waiting" /\ MayRecord(w)
    \/ ToolBlock(w) /\ call = "failed"

LEMMA CallRows ==
  ASSUME TInv, NEW w \in Workers,
         ToolRun(w) \/ ToolBegin(w) \/ ToolComplete(w) \/ ToolBlock(w)
  PROVE  /\ worker[w].phase \in ToolPhases /\ worker[w].step \in DOMAIN steps
         /\ StepsMove(steps') /\ DOMAIN steps' = DOMAIN steps
         /\ \E call :
              /\ steps' = [steps EXCEPT ![worker[w].step] =
                             [steps[worker[w].step] EXCEPT !.call = call]]
              /\ Outcome(steps[worker[w].step].call, call) \/ call = steps[worker[w].step].call
              /\ call = "waiting" => steps[worker[w].step].route # "inside"
              /\ call = steps[worker[w].step].call \/ Effect(w, call)
<1>1. worker[w].phase \in {"working", "acting", "refusing"}
  BY DEF ToolRun, ToolBegin, ToolComplete, ToolBlock
<1>2. worker[w].phase \in ToolPhases BY <1>1 DEF ToolPhases
<1>3. PICK n \in DOMAIN steps : n = worker[w].step BY <1>2, ToolWhat
<1>4. steps[n] \in FitSteps /\ steps[n] \in StepRows /\ steps[n].decision # "none"
  BY <1>2, <1>3, ToolWhat DEF FitSteps
<1>5. PICK call :
        /\ steps' = [steps EXCEPT ![n] = [steps[n] EXCEPT !.call = call]]
        /\ Outcome(steps[n].call, call) \/ call = steps[n].call
        /\ call = "waiting" => steps[n].route # "inside"
        /\ call = steps[n].call \/ Effect(w, call)
  <2> USE DEF Outcome, CallEnds, Effect
  <2>1. steps[n].call = "waiting" => steps[n].route # "inside" BY <1>4 DEF FitSteps
  <2>2. CASE UNCHANGED steps
    <3>1. steps[n] = [steps[n] EXCEPT !.call = steps[n].call] BY <1>4 DEF StepRows
    <3>2. steps = [k \in DOMAIN steps |-> steps[k]] BY DEF TInv
    <3>3. steps' = [steps EXCEPT ![n] = [steps[n] EXCEPT !.call = steps[n].call]]
      BY <2>2, <3>1, <3>2
    <3>4. QED BY <2>1, <3>3
  <2>3. CASE ToolRun(w) /\ ~UNCHANGED steps
    <3>1. /\ Executable(n) /\ steps[n].route = "inside"
          /\ steps' = [steps EXCEPT ![n].call = "completed"]
      BY <1>3, <2>3 DEF ToolRun
    <3>2. steps' = [steps EXCEPT ![n] = [steps[n] EXCEPT !.call = "completed"]] BY <3>1
    <3>3. steps[n].call \notin {"completed", "failed"} BY <3>1 DEF Executable, Over
    <3>4. QED BY <1>3, <2>3, <3>1, <3>2, <3>3
  <2>4. CASE ToolBegin(w)
    <3>1. /\ Executable(n) /\ steps[n].route # "inside"
          /\ steps' = [steps EXCEPT ![n].call = "waiting"]
      BY <1>3, <2>4 DEF ToolBegin
    <3>2. steps' = [steps EXCEPT ![n] = [steps[n] EXCEPT !.call = "waiting"]] BY <3>1
    <3>3. steps[n].call \notin {"completed", "failed"} BY <3>1 DEF Executable, Over
    <3>4. QED BY <1>3, <2>4, <3>1, <3>2, <3>3
  <2>5. CASE ToolComplete(w)
    <3>1. PICK outcome \in {"waiting", "completed", "failed"} :
            steps' = [steps EXCEPT ![n].call = Recorded(@, outcome)]
      BY <1>3, <2>5 DEF ToolComplete
    <3>2. PICK new : new = Recorded(steps[n].call, outcome) OBVIOUS
    <3>3. steps' = [steps EXCEPT ![n] = [steps[n] EXCEPT !.call = new]] BY <3>1, <3>2
    <3>4. \/ steps[n].call = "waiting" /\ new = outcome
          \/ new = steps[n].call
      BY <3>2 DEF Recorded
    <3>5. MayRecord(w) BY <2>5 DEF ToolComplete
    <3>6. QED BY <1>3, <2>1, <2>5, <3>3, <3>4, <3>5
  <2>6. CASE ToolBlock(w)
    <3>1. steps' = [steps EXCEPT ![n].call = IF @ = "completed" THEN @ ELSE "failed"]
      BY <1>3, <2>6 DEF ToolBlock
    <3>2. PICK new : new = IF steps[n].call = "completed" THEN steps[n].call ELSE "failed" OBVIOUS
    <3>3. steps' = [steps EXCEPT ![n] = [steps[n] EXCEPT !.call = new]] BY <3>1, <3>2
    <3>4. QED BY <2>1, <2>6, <3>2, <3>3
  <2>7. QED BY <2>2, <2>3, <2>4, <2>5, <2>6
<1>6. PICK new : new = [steps[n] EXCEPT !.call = call] OBVIOUS
<1>7. StepKept(steps[n], new)
  <2>1. CASE Outcome(steps[n].call, call) BY <1>4, <1>5, <1>6, <2>1, OutcomeKept
  <2>2. CASE call = steps[n].call
    <3>1. new = steps[n] BY <1>4, <1>6, <2>2 DEF StepRows
    <3>2. QED BY <1>4, <3>1, StepSame
  <2>3. QED BY <1>5, <2>1, <2>2
<1>8. steps' = [steps EXCEPT ![n] = new] BY <1>5, <1>6
<1>9. StepsMove(steps') /\ DOMAIN steps' = DOMAIN steps BY <1>7, <1>8, StepReplaced
<1>10. QED BY <1>2, <1>3, <1>5, <1>9

\* The worker of a call that was carried out, begun, recorded or refused.
LEMMA ToolRunMoves ==
  ASSUME TInv, NEW w \in Workers, ToolRun(w) PROVE Moves
<1>1. worker[w].phase \in ToolPhases /\ StepsMove(steps') /\ DOMAIN steps' = DOMAIN steps
  BY CallRows
<1>2. PICK t \in WorkTimes : /\ works' = WorkSettled(worker[w].work, t)
                             /\ task' = TaskAfterWork(worker[w].work, t)
  BY DEF ToolRun
<1>3. worker[w].phase \in WorkPhases /\ Reports(w, "ended") /\ UNCHANGED <<attempts, used>>
  BY DEF ToolRun, WorkPhases
<1>4. WorksMove(works') /\ TaskMoves BY <1>2, <1>3, WorkEnds
<1>5. AttemptsMove(attempts', steps') BY <1>1, <1>3, AttemptsSame
<1>6. steps'[worker[w].step].call \in CallEnds
  <2>1. worker[w].step \in DOMAIN steps BY <1>1, ToolWhat
  <2>2. steps[worker[w].step] \in StepRows BY <1>1, ToolWhat DEF FitSteps
  <2>3. QED BY <2>1, <2>2 DEF ToolRun, Over, StepRows, CallEnds
<1>7. WorkerMoves
  <2>1. PICK x : x = [worker[w] EXCEPT !.phase = "report", !.result = "ended"] OBVIOUS
  <2>2. worker' = [worker EXCEPT ![w] = x] BY <1>3, <2>1 DEF Reports, TInv
  <2>3. x \in WorkerRows /\ x.step = worker[w].step /\ x.work = worker[w].work /\ x.phase = "report"
    BY <1>1, <2>1, ToolWhat, ZenonT(60) DEF WorkerRows
  <2>4. DOMAIN works' = DOMAIN works
    <3>1. PICK i \in DOMAIN works : i = worker[w].work BY <1>3 DEF TInv, Carries
    <3>2. QED BY <1>2, <3>1, SettledWork
  <2>5. QED BY <1>1, <1>6, <2>2, <2>3, <2>4, ToolGoesOn
<1>8. QED BY <1>1, <1>4, <1>5, <1>7 DEF Moves

LEMMA ToolBeginMoves ==
  ASSUME TInv, NEW w \in Workers, ToolBegin(w) PROVE Moves
<1>1. worker[w].phase \in ToolPhases /\ StepsMove(steps') /\ DOMAIN steps' = DOMAIN steps
  BY CallRows
<1>2. worker[w].phase \in WorkPhases /\ Go(w, "acting") /\ UNCHANGED <<task, attempts, works, used>>
  BY DEF ToolBegin, WorkPhases
<1>3. AttemptsMove(attempts', steps') BY <1>1, <1>2, AttemptsSame
<1>4. WorksMove(works') BY <1>2, WorksSame
<1>5. TaskMoves BY <1>2, TaskStays DEF TInv
<1>6. WorkerMoves
  <2>1. PICK x : x = [worker[w] EXCEPT !.phase = "acting"] OBVIOUS
  <2>2. worker' = [worker EXCEPT ![w] = x] BY <1>2, <2>1 DEF Go, TInv
  <2>3. x \in WorkerRows /\ x.step = worker[w].step /\ x.work = worker[w].work /\ x.phase = "acting"
    BY <1>1, <2>1, ToolWhat, ZenonT(60) DEF WorkerRows
  <2>4. steps'[x.step].call = "waiting"
    <3>1. worker[w].step \in DOMAIN steps /\ steps[worker[w].step] \in StepRows
      BY <1>1, ToolWhat DEF FitSteps
    <3>2. QED BY <2>3, <3>1 DEF ToolBegin, StepRows
  <2>5. x.step \in DOMAIN steps' /\ steps'[x.step].decision # "none" /\ x.work \in DOMAIN works'
    BY <1>1, <1>2, <2>3, ToolStays DEF TInv, Carries
  <2>6. Carries(x)' BY <2>3, <2>4, <2>5 DEF Carries, CallPhases, ToolPhases, WorkPhases
  <2>7. QED BY <2>2, <2>3, <2>6, WorkerTo
<1>7. QED BY <1>1, <1>3, <1>4, <1>5, <1>6 DEF Moves

LEMMA ToolCompleteMoves ==
  ASSUME TInv, NEW w \in Workers, ToolComplete(w) PROVE Moves
<1>1. worker[w].phase \in ToolPhases /\ StepsMove(steps') /\ DOMAIN steps' = DOMAIN steps
  BY CallRows
<1>2. worker[w].phase = "acting" /\ UNCHANGED <<task, attempts, works, used>>
  BY DEF ToolComplete
<1>3. AttemptsMove(attempts', steps') BY <1>1, <1>2, AttemptsSame
<1>4. WorksMove(works') BY <1>2, WorksSame
<1>5. TaskMoves BY <1>2, TaskStays DEF TInv
<1>6. PICK outcome \in {"waiting", "completed", "failed"} :
        /\ steps' = [steps EXCEPT ![worker[w].step].call = Recorded(@, outcome)]
        /\ worker' = [worker EXCEPT ![w].phase = "ran",
                                    ![w].result = IF outcome = "waiting" THEN "waiting" ELSE "ended"]
  BY DEF ToolComplete
<1>7. outcome # "waiting" => steps'[worker[w].step].call \in CallEnds
  <2>1. worker[w].step \in DOMAIN steps /\ steps[worker[w].step] \in StepRows
    BY <1>1, ToolWhat DEF FitSteps
  <2>2. steps[worker[w].step].call = "waiting" \/ Over(worker[w].step)
    BY <1>2 DEF TInv, Carries
  <2>3. steps'[worker[w].step].call = Recorded(steps[worker[w].step].call, outcome)
    BY <1>6, <2>1 DEF StepRows
  <2>4. QED BY <2>2, <2>3 DEF Over, Recorded, CallEnds
<1>8. WorkerMoves
  <2>1. PICK result \in {"waiting", "ended"} :
          result = IF outcome = "waiting" THEN "waiting" ELSE "ended"
    OBVIOUS
  <2>2. PICK x : x = [worker[w] EXCEPT !.phase = "ran", !.result = result] OBVIOUS
  <2>3. worker' = [worker EXCEPT ![w] = x] BY <1>6, <2>1, <2>2 DEF TInv
  <2>4. /\ x \in WorkerRows /\ x.step = worker[w].step /\ x.work = worker[w].work
        /\ x.phase = "ran" /\ x.result = result
    BY <1>1, <2>2, ToolWhat, ZenonT(60) DEF WorkerRows
  <2>5. worker[w].phase \in WorkPhases /\ worker[w].phase # "report"
    BY <1>2 DEF WorkPhases
  <2>6. x.result = "ended" => steps'[x.step].call \in CallEnds BY <1>7, <2>1, <2>4
  <2>7. DOMAIN works' = DOMAIN works BY <1>2
  <2>8. QED BY <1>1, <2>3, <2>4, <2>5, <2>6, <2>7, ToolGoesOn
<1>9. QED BY <1>1, <1>3, <1>4, <1>5, <1>8 DEF Moves

LEMMA ToolBlockMoves ==
  ASSUME TInv, NEW w \in Workers, ToolBlock(w) PROVE Moves
<1>1. worker[w].phase \in ToolPhases /\ StepsMove(steps') /\ DOMAIN steps' = DOMAIN steps
  BY CallRows
<1>2. worker[w].phase = "refusing" /\ UNCHANGED <<task, attempts, works, used>>
  BY DEF ToolBlock
<1>3. AttemptsMove(attempts', steps') BY <1>1, <1>2, AttemptsSame
<1>4. WorksMove(works') BY <1>2, WorksSame
<1>5. TaskMoves BY <1>2, TaskStays DEF TInv
<1>6. steps'[worker[w].step].call \in CallEnds
  <2>1. PICK n \in DOMAIN steps : n = worker[w].step BY <1>1, ToolWhat
  <2>2. steps' = [steps EXCEPT ![n].call = IF @ = "completed" THEN @ ELSE "failed"]
    BY <2>1 DEF ToolBlock
  <2>3. steps[n] \in StepRows BY <1>1, <2>1, ToolWhat DEF FitSteps
  <2>4. steps'[n].call = IF steps[n].call = "completed" THEN steps[n].call ELSE "failed"
    BY <2>2, <2>3 DEF StepRows
  <2>5. QED BY <2>1, <2>4 DEF CallEnds
<1>7. WorkerMoves
  <2>1. PICK phase \in {"report", "ran"} : phase = IF worker[w].work = 0 THEN "report" ELSE "ran"
    OBVIOUS
  <2>2. PICK x : x = [worker[w] EXCEPT !.phase = phase, !.result = "ended"] OBVIOUS
  <2>3. worker' = [worker EXCEPT ![w] = x] BY <2>1, <2>2 DEF ToolBlock, TInv
  <2>4. /\ x \in WorkerRows /\ x.step = worker[w].step /\ x.work = worker[w].work
        /\ x.phase = phase
    BY <1>1, <2>2, ToolWhat, ZenonT(60) DEF WorkerRows
  <2>5. x.phase = "ran" => x.work # 0 BY <2>1, <2>4
  <2>6. DOMAIN works' = DOMAIN works BY <1>2
  <2>7. steps'[x.step].call \in CallEnds BY <1>6, <2>4
  <2>8. x.phase \in {"report", "ran", "refusing"} BY <2>1, <2>4
  <2>9. QED BY <1>1, <1>2, <2>3, <2>4, <2>5, <2>6, <2>7, <2>8, ToolGoesOn
<1>8. QED BY <1>1, <1>3, <1>4, <1>5, <1>7 DEF Moves

LEMMA ToolTooLateMoves ==
  ASSUME TInv, NEW w \in Workers, ToolTooLate(w) \/ ToolRefused(w) PROVE Moves
<1>1. /\ worker[w].phase \in {"tool", "working", "acting"}
      /\ UNCHANGED <<task, steps, attempts, works, used>>
  BY DEF ToolTooLate, ToolRefused
<1>2. worker[w].phase \in ToolPhases BY <1>1 DEF ToolPhases
<1>3. StepsMove(steps') /\ AttemptsMove(attempts', steps') /\ WorksMove(works') BY <1>1, RowsSame
<1>4. TaskMoves BY <1>1, TaskStays DEF TInv
<1>5. WorkerMoves
  <2>1. CASE ToolTooLate(w)
    <3>1. PICK x : x = [worker[w] EXCEPT !.phase = "ran", !.result = "waiting"] OBVIOUS
    <3>2. worker' = [worker EXCEPT ![w] = x] BY <2>1, <3>1 DEF ToolTooLate, TInv
    <3>3. /\ x \in WorkerRows /\ x.step = worker[w].step /\ x.work = worker[w].work
          /\ x.phase = "ran" /\ x.result = "waiting"
      BY <1>2, <3>1, ToolWhat, ZenonT(60) DEF WorkerRows
    <3>4. worker[w].phase \in WorkPhases BY <2>1 DEF ToolTooLate, WorkPhases
    <3>5. QED BY <1>1, <1>2, <1>3, <3>2, <3>3, <3>4, ToolGoesOn
  <2>2. CASE ToolRefused(w)
    <3>1. PICK x : x = [worker[w] EXCEPT !.phase = "refusing"] OBVIOUS
    <3>2. worker' = [worker EXCEPT ![w] = x] BY <2>2, <3>1 DEF ToolRefused, Go, TInv
    <3>3. /\ x \in WorkerRows /\ x.step = worker[w].step /\ x.work = worker[w].work
          /\ x.phase = "refusing"
      BY <1>2, <3>1, ToolWhat, ZenonT(60) DEF WorkerRows
    <3>4. QED BY <1>1, <1>2, <1>3, <3>2, <3>3, ToolGoesOn
  <2>3. QED BY <2>1, <2>2
<1>6. QED BY <1>3, <1>4, <1>5 DEF Moves

LEMMA ToolSettleMoves ==
  ASSUME TInv, NEW w \in Workers, ToolSettle(w) PROVE Moves
<1>1. PICK t \in WorkTimes : /\ works' = WorkSettled(worker[w].work, t)
                             /\ task' = TaskAfterWork(worker[w].work, t)
  BY DEF ToolSettle
<1>2. worker[w].phase = "ran" /\ Go(w, "report") /\ UNCHANGED <<steps, attempts, used>>
  BY DEF ToolSettle
<1>3. worker[w].phase \in WorkPhases /\ worker[w].phase \in ToolPhases
  BY <1>2 DEF WorkPhases, ToolPhases
<1>4. WorksMove(works') /\ TaskMoves BY <1>1, <1>2, <1>3, WorkEnds
<1>5. StepsMove(steps') BY <1>2, StepsSame
<1>6. AttemptsMove(attempts', steps') BY <1>2, StepsSame, AttemptsSame
<1>7. WorkerMoves
  <2>1. PICK x : x = [worker[w] EXCEPT !.phase = "report"] OBVIOUS
  <2>2. worker' = [worker EXCEPT ![w] = x] BY <1>2, <2>1 DEF Go
  <2>3. /\ x \in WorkerRows /\ x.step = worker[w].step /\ x.work = worker[w].work
        /\ x.phase = "report" /\ x.result = worker[w].result
    BY <1>3, <2>1, ToolWhat, ZenonT(60) DEF WorkerRows
  <2>4. x.result = "ended" => steps'[x.step].call \in CallEnds
    BY <1>2, <2>3 DEF TInv, Carries, Over, CallEnds
  <2>5. DOMAIN works' = DOMAIN works
    <3>1. PICK i \in DOMAIN works : i = worker[w].work BY <1>3 DEF TInv, Carries
    <3>2. QED BY <1>1, <3>1, SettledWork
  <2>6. QED BY <1>2, <1>3, <1>5, <2>2, <2>3, <2>4, <2>5, ToolGoesOn
<1>8. QED BY <1>4, <1>5, <1>6, <1>7 DEF Moves

\* What the report of a call writes.
ReportedDone(w) ==
    \/ steps[worker[w].step].done
    \/ steps[worker[w].step].decision = "tools" /\ worker[w].result = "ended"

LEMMA ReportRows ==
  ASSUME TInv, NEW w \in Workers, ToolReport(w)
  PROVE  /\ worker[w].step \in DOMAIN steps
         /\ StepsMove(steps') /\ DOMAIN steps' = DOMAIN steps
         /\ \E done \in BOOLEAN :
              /\ done = ReportedDone(w)
              /\ steps' = [steps EXCEPT ![worker[w].step] =
                             [steps[worker[w].step] EXCEPT !.done = done]]
<1>1. worker[w].phase \in ToolPhases BY DEF ToolReport, ToolPhases
<1>2. PICK n \in DOMAIN steps : n = worker[w].step BY <1>1, ToolWhat
<1>3. steps[n] \in FitSteps BY SeqIndices DEF TInv
<1>4. PICK done : done = ReportedDone(w) OBVIOUS
<1>5. done \in BOOLEAN
  <2>1. ReportedDone(w) \in BOOLEAN BY DEF ReportedDone
  <2>2. QED BY <1>4, <2>1
<1>6. PICK new : new = [steps[n] EXCEPT !.done = done] OBVIOUS
<1>7. steps' = [steps EXCEPT ![n] = new]
  <2>1. steps[n].done \in BOOLEAN BY <1>3 DEF FitSteps, StepRows
  <2>2. QED BY <1>2, <1>4, <1>6, <2>1 DEF ToolReport, ReportedDone
<1>8. done => steps[n].done \/ steps[n].decision = "tools" BY <1>2, <1>4 DEF ReportedDone
<1>9. steps[n].done => done BY <1>2, <1>4 DEF ReportedDone
<1>10. StepKept(steps[n], new)
  <2>1. done /\ ~steps[n].done => steps[n].call \in CallEnds
    <3>1. worker[w].phase = "report" BY DEF ToolReport
    <3>2. worker[w].result = "ended" => Over(n) BY <1>2, <3>1 DEF TInv, Carries
    <3>3. QED BY <1>2, <1>4, <3>2 DEF ReportedDone, Over, CallEnds
  <2>2. QED BY <1>3, <1>5, <1>6, <1>8, <1>9, <2>1 DEF StepKept, FitSteps, StepRows
<1>11. StepsMove(steps') /\ DOMAIN steps' = DOMAIN steps BY <1>7, <1>10, StepReplaced
<1>12. QED BY <1>2, <1>4, <1>5, <1>6, <1>7, <1>11

LEMMA ToolReportMoves ==
  ASSUME TInv, NEW w \in Workers, ToolReport(w) PROVE Moves
<1>1. StepsMove(steps') BY ReportRows
<1>2. Finish(w) /\ UNCHANGED <<attempts, works, used>> BY DEF ToolReport
<1>3. AttemptsMove(attempts', steps') BY <1>1, <1>2, AttemptsSame
<1>4. WorksMove(works') BY <1>2, WorksSame
<1>5. TaskMoves
  <2>1. task' = [task EXCEPT !.status = @] \/ task' = [task EXCEPT !.status = "pending"]
        \/ task' = [task EXCEPT !.status = "waiting-approval"]
    BY DEF ToolReport
  <2>2. task' \in TaskRows /\ task'.generation = task.generation BY <2>1 DEF TInv, TaskRows
  <2>3. QED BY <1>2, <2>2, TaskStays
<1>6. QED BY <1>1, <1>2, <1>3, <1>4, <1>5, IdleCarries DEF Moves

(* The owner, time, and losses. *)

LEMMA CommandedFacts ==
  ASSUME TInv, Commanded
  PROVE  /\ used' \in UsedRows /\ used'.commands = used.commands + 1
         /\ used'.commands <= MaxCommands
<1>1. used.commands < MaxCommands /\ used' = [used EXCEPT !.commands = @ + 1] BY DEF Commanded
<1>2. used \in UsedRows /\ MaxCommands \in Nat BY ConstantsFit DEF TInv
<1>3. QED BY <1>1, <1>2 DEF UsedRows

LEMMA CommandTask ==
  ASSUME TInv, Commanded, task' \in TaskRows,
         task'.generation \in {task.generation, task.generation + 1}
  PROVE  TaskMoves
<1>1. /\ used' \in UsedRows /\ used'.commands = used.commands + 1 BY CommandedFacts
<1>2. task.generation \in Nat /\ used.commands \in Nat /\ task.generation <= used.commands
  BY StatusTypes DEF TInv, UsedRows
<1>3. QED BY <1>1, <1>2 DEF TaskMoves

LEMMA pauseMoves == ASSUME TInv, pause PROVE Moves
<1>1. /\ Commanded /\ task' = [task EXCEPT !.status = "paused"]
      /\ UNCHANGED <<steps, attempts, works, worker>>
  BY DEF pause
<1>2. StepsMove(steps') /\ AttemptsMove(attempts', steps') /\ WorksMove(works')
  BY <1>1, RowsSame
<1>3. task' \in TaskRows /\ task'.generation = task.generation BY <1>1 DEF TInv, TaskRows
<1>4. TaskMoves BY <1>1, <1>3, CommandTask
<1>5. QED BY <1>1, <1>2, <1>4 DEF Moves, WorkerMoves

\* What a continuation makes of a step.
Continued(st) ==
    IF /\ st.run = task.generation
       /\ st.decision = "clarify" \/ st.model = "failed"
    THEN [st EXCEPT !.done = TRUE] ELSE st

LEMMA ContinuedKept == ASSUME NEW st \in FitSteps PROVE StepKept(st, Continued(st))
BY ZenonT(60) DEF Continued, StepKept, FitSteps, StepRows

LEMMA continueMoves ==
  ASSUME TInv, continueTask
  PROVE  /\ Moves /\ DOMAIN steps' = DOMAIN steps
         /\ \A n \in DOMAIN steps : steps'[n] = Continued(steps[n])
<1>1. /\ Commanded /\ UNCHANGED <<attempts, works, worker>>
      /\ steps' = [n \in DOMAIN steps |-> Continued(steps[n])]
  BY DEF continueTask, Continued
<1>2. StepsMove(steps')
  <2>1. PICK rows : rows = steps' OBVIOUS
  <2>2. rows = [n \in DOMAIN steps |-> rows[n]] BY <1>1, <2>1
  <2>3. \A n \in DOMAIN steps : steps[n] \in FitSteps BY SeqIndices DEF TInv
  <2>4. \A n \in DOMAIN steps : StepKept(steps[n], rows[n]) BY <1>1, <2>1, <2>3, ContinuedKept
  <2>5. QED BY <2>1, <2>2, <2>4, StepsMapped
<1>3. AttemptsMove(attempts', steps') BY <1>1, <1>2, AttemptsSame
<1>4. WorksMove(works') BY <1>1, WorksSame
<1>5. TaskMoves
  <2>1. PICK raise \in {0, RaiseBy} :
          task' = [task EXCEPT !.status = "pending", !.limit = @ + raise]
    BY DEF continueTask
  <2>2. task.limit + raise \in Nat BY StatusTypes, ConstantsFit
  <2>3. task' \in TaskRows /\ task'.generation = task.generation
    BY <2>1, <2>2 DEF TInv, TaskRows
  <2>4. QED BY <1>1, <2>3, CommandTask
<1>6. QED BY <1>1, <1>2, <1>3, <1>4, <1>5 DEF Moves, WorkerMoves

LEMMA reopenMoves == ASSUME TInv, reopen PROVE Moves
<1>1. /\ Commanded
      /\ task' = [task EXCEPT !.status = "pending", !.generation = @ + 1]
      /\ UNCHANGED <<steps, attempts, works, worker>>
  BY DEF reopen
<1>2. StepsMove(steps') /\ AttemptsMove(attempts', steps') /\ WorksMove(works')
  BY <1>1, RowsSame
<1>3. /\ used'.commands = used.commands + 1 /\ used'.commands <= MaxCommands
  BY <1>1, CommandedFacts
<1>4. task.generation \in Nat /\ used.commands \in Nat /\ task.generation <= used.commands
      /\ MaxCommands \in Nat
  BY StatusTypes, ConstantsFit, SMTT(60) DEF TInv, UsedRows
<1>5. task.generation + 1 \in 0 .. MaxCommands BY <1>3, <1>4
<1>6. task' \in TaskRows /\ task'.generation = task.generation + 1
  BY <1>1, <1>5 DEF TInv, TaskRows
<1>7. TaskMoves BY <1>1, <1>6, CommandTask
<1>8. QED BY <1>1, <1>2, <1>7 DEF Moves, WorkerMoves

LEMMA decideMoves == ASSUME TInv, decide PROVE Moves
<1>1. PICK n \in DOMAIN steps, decision \in {"approve", "reject"} :
        steps' = [steps EXCEPT ![n].approval = decision]
  BY DEF decide
<1>2. Commanded /\ UNCHANGED <<task, attempts, works, worker>> BY DEF decide
<1>3. StepsMove(steps')
  <2>1. steps[n] \in FitSteps BY SeqIndices DEF TInv
  <2>2. PICK new : new = [steps[n] EXCEPT !.approval = decision] OBVIOUS
  <2>3. StepKept(steps[n], new) BY <2>1, <2>2 DEF StepKept, FitSteps, StepRows
  <2>4. steps' = [steps EXCEPT ![n] = new] BY <1>1, <2>2
  <2>5. QED BY <2>3, <2>4, StepReplaced
<1>4. AttemptsMove(attempts', steps') BY <1>2, <1>3, AttemptsSame
<1>5. WorksMove(works') BY <1>2, WorksSame
<1>6. TaskMoves BY <1>2, CommandTask DEF TInv
<1>7. QED BY <1>2, <1>3, <1>4, <1>5, <1>6 DEF Moves, WorkerMoves

LEMMA LeaseEndsMoves == ASSUME TInv, NEW a \in DOMAIN attempts, LeaseEnds(a) PROVE Moves
<1>1. /\ attempts' = [attempts EXCEPT ![a].live = FALSE]
      /\ UNCHANGED <<task, steps, works, worker, used>>
  BY DEF LeaseEnds
<1>2. StepsMove(steps') /\ WorksMove(works') BY <1>1, StepsSame, WorksSame
<1>3. AttemptsMove(attempts', steps')
  <2>1. PICK new : new = [attempts[a] EXCEPT !.live = FALSE] OBVIOUS
  <2>2. AttemptKept(attempts[a], new) BY <2>1, OwnRows, LeaseRow
  <2>3. attempts' = [attempts EXCEPT ![a] = new] BY <1>1, <2>1
  <2>4. QED BY <1>2, <2>2, <2>3, AttemptReplaced
<1>4. TaskMoves BY <1>1, TaskStays DEF TInv
<1>5. QED BY <1>1, <1>2, <1>3, <1>4 DEF Moves, WorkerMoves

LEMMA StepTimeMoves ==
  ASSUME TInv, NEW n \in DOMAIN steps, DeadlinePasses(n) \/ BackoffEnds(n) PROVE Moves
<1>1. UNCHANGED <<task, attempts, works, worker, used>> BY DEF DeadlinePasses, BackoffEnds
<1>2. StepsMove(steps')
  <2>1. PICK new : /\ new = [steps[n] EXCEPT !.open = FALSE] \/ new = [steps[n] EXCEPT !.due = TRUE]
                   /\ steps' = [steps EXCEPT ![n] = new]
    BY DEF DeadlinePasses, BackoffEnds
  <2>2. steps[n] \in FitSteps BY SeqIndices DEF TInv
  <2>3. StepKept(steps[n], new) BY <2>1, <2>2, ZenonT(60) DEF StepKept, FitSteps, StepRows
  <2>4. QED BY <2>1, <2>3, StepReplaced
<1>3. AttemptsMove(attempts', steps') BY <1>1, <1>2, AttemptsSame
<1>4. WorksMove(works') BY <1>1, WorksSame
<1>5. TaskMoves BY <1>1, TaskStays DEF TInv
<1>6. QED BY <1>1, <1>2, <1>3, <1>4, <1>5 DEF Moves, WorkerMoves

LEMMA WorkExpiresMoves == ASSUME TInv, NEW i \in DOMAIN works, WorkExpires(i) PROVE Moves
<1>1. /\ works' = [works EXCEPT ![i].live = FALSE]
      /\ UNCHANGED <<task, steps, attempts, worker, used>>
  BY DEF WorkExpires
<1>2. WorksMove(works')
  <2>1. PICK new : new = [works[i] EXCEPT !.live = FALSE] OBVIOUS
  <2>2. works[i] \in FitWorks BY SeqIndices DEF TInv
  <2>3. WorkKept(works[i], new) BY <2>1, <2>2 DEF WorkKept, FitWorks, WorkRows
  <2>4. works' = [works EXCEPT ![i] = new] BY <1>1, <2>1
  <2>5. QED BY <2>3, <2>4, WorkReplaced
<1>3. StepsMove(steps') BY <1>1, StepsSame
<1>4. AttemptsMove(attempts', steps') BY <1>1, StepsSame, AttemptsSame
<1>5. TaskMoves BY <1>1, TaskStays DEF TInv
<1>6. QED BY <1>1, <1>2, <1>3, <1>4, <1>5 DEF Moves, WorkerMoves

LEMMA LossTask ==
  ASSUME TInv, task' = task, used.crashes < MaxCrashes, used' = [used EXCEPT !.crashes = @ + 1]
  PROVE  TaskMoves
<1>1. used \in UsedRows /\ MaxCrashes \in Nat BY ConstantsFit DEF TInv
<1>2. used' \in UsedRows /\ used'.commands = used.commands BY <1>1 DEF UsedRows
<1>3. QED BY <1>2 DEF TInv, TaskMoves, TaskRows

LEMMA CrashMoves == ASSUME TInv, NEW w \in Workers, Crash(w) PROVE Moves
<1>1. /\ used.crashes < MaxCrashes /\ used' = [used EXCEPT !.crashes = @ + 1]
      /\ Finish(w) /\ UNCHANGED <<task, steps, attempts, works>>
  BY DEF Crash
<1>2. StepsMove(steps') /\ AttemptsMove(attempts', steps') /\ WorksMove(works')
  BY <1>1, RowsSame
<1>3. QED BY <1>1, <1>2, LossTask, IdleCarries DEF Moves

LEMMA ToolThrowsMoves == ASSUME TInv, NEW w \in Workers, ToolThrows(w) PROVE Moves
<1>1. PICK t \in WorkTimes : /\ works' = WorkSettled(worker[w].work, t)
                             /\ task' = TaskAfterWork(worker[w].work, t)
  BY DEF ToolThrows
<1>2. /\ used.crashes < MaxCrashes /\ used' = [used EXCEPT !.crashes = @ + 1]
      /\ Finish(w) /\ UNCHANGED <<steps, attempts>> /\ worker[w].phase \in WorkPhases
  BY DEF ToolThrows, WorkPhases
<1>3. PICK i \in DOMAIN works : i = worker[w].work BY <1>2 DEF TInv, Carries
<1>4. /\ WorksMove(works')
      /\ task' \in TaskRows /\ task'.generation = task.generation
  BY <1>1, <1>3, SettledWork
<1>5. used \in UsedRows /\ MaxCrashes \in Nat BY ConstantsFit DEF TInv
<1>6. used' \in UsedRows /\ used'.commands = used.commands BY <1>2, <1>5 DEF UsedRows
<1>7. TaskMoves BY <1>4, <1>6 DEF TInv, TaskMoves, TaskRows
<1>8. StepsMove(steps') BY <1>2, StepsSame
<1>9. AttemptsMove(attempts', steps') BY <1>2, StepsSame, AttemptsSame
<1>10. QED BY <1>2, <1>4, <1>7, <1>8, <1>9, IdleCarries DEF Moves

LEMMA LateLostMoves == ASSUME TInv, NEW a \in DOMAIN attempts, LateLost(a) PROVE Moves
<1>1. /\ used.crashes < MaxCrashes /\ used' = [used EXCEPT !.crashes = @ + 1]
      /\ attempts' = LateOver(a) /\ UNCHANGED <<task, steps, works, worker>>
  BY DEF LateLost, LateOver
<1>2. QED BY <1>1, LossTask, LateOverMoves

-----------------------------------------------------------------------------
LEMMA NextMoves == ASSUME TInv, Next PROVE Moves
<1>1. ASSUME NEW w \in Workers, Recover(w) \/ Poll(w) PROVE Moves
  BY <1>1, RecoverMoves, PollMoves
<1>2. ASSUME NEW w \in Workers, Prepare(w) PROVE Moves
  BY <1>2, PrepareNothingMoves, PreparePauseMoves, PrepareToolMoves, PrepareCloseMoves,
     PrepareDeadlineMoves, PrepareFilesMoves, PrepareRejectsMoves, PrepareHeldMoves,
     PrepareCallMoves, FilesEndMoves, PrepareDeniedMoves, DenyMoves
     DEF Prepare
<1>3. ASSUME NEW w \in Workers, Model(w) PROVE Moves
  BY <1>3, DispatchMoves, DispatchRefusedMoves, AnswerMoves, ObserveMoves DEF Model
<1>4. ASSUME NEW w \in Workers, Settle(w) PROVE Moves
  BY <1>4, SettleLateMoves, SettleFailureMoves, SettleWithdrawnMoves, SettleLimitedMoves,
     SettlePublishedMoves, SettleLostMoves DEF Settle
<1>5. ASSUME NEW w \in Workers, Tool(w) PROVE Moves
  BY <1>5, ToolEndedMoves, ToolWaitsMoves, ToolAdmitMoves, ToolTooLateMoves, ToolRunMoves,
     ToolBeginMoves, ToolCompleteMoves, ToolBlockMoves, ToolSettleMoves, ToolReportMoves
     DEF Tool
<1>6. ASSUME NEW a \in DOMAIN attempts, Late(a) \/ LateLost(a) \/ LeaseEnds(a) PROVE Moves
  BY <1>6, LateObserveMoves, LateRecoverMoves, LateLostMoves, LeaseEndsMoves DEF Late
<1>7. CASE Owner BY <1>7, pauseMoves, continueMoves, reopenMoves, decideMoves DEF Owner
<1>8. CASE Time BY <1>6, <1>8, StepTimeMoves, WorkExpiresMoves DEF Time
<1>9. QED BY <1>1, <1>2, <1>3, <1>4, <1>5, <1>6, <1>7, <1>8, ToolThrowsMoves, CrashMoves
     DEF Next, process

LEMMA TInvInit == ASSUME Init PROVE TInv
<1> USE DEF Init
<1>1. task \in TaskRows /\ used \in UsedRows /\ task.generation <= used.commands
  BY ConstantsFit DEF TaskRows, UsedRows
<1>2. worker \in [Workers -> WorkerRows] /\ \A w \in Workers : Carries(worker[w])
  <2>1. Idle \in WorkerRows BY DEF Idle, WorkerRows
  <2>2. Carries(Idle) BY DEF Idle, Carries, CallPhases, ToolPhases, WorkPhases
  <2>3. QED BY <2>1, <2>2
<1>3. QED BY <1>1, <1>2 DEF TInv

LEMMA TInvStep == ASSUME TInv, [Next]_vars PROVE TInv'
<1>1. CASE Next BY <1>1, NextMoves, MovesKeep
<1>2. CASE UNCHANGED vars
  BY <1>2 DEF TInv, Carries, Over, vars
<1>3. QED BY <1>1, <1>2

LEMMA TInvariant == Spec => []TInv
<1>1. Init => TInv BY TInvInit
<1>2. TInv /\ [Next]_vars => TInv' BY TInvStep
<1>3. QED BY <1>1, <1>2, PTL DEF Spec

LEMMA RowsWiden ==
  ASSUME NEW T, NEW U, T \subseteq U, NEW s \in Seq(T) PROVE s \in Seq(U)
OBVIOUS

\* Every row of the task, its steps, its attempts and its works, and what the
\* workers carry, has its shape in every reachable state: a generation's
\* spending stays between nothing and its budget, the calls counted stay
\* within the tool limit, and no active time becomes negative.
THEOREM TypesHold == Spec => []TypeOK
<1>1. TInv => TypeOK
  <2>1. SUFFICES ASSUME TInv PROVE TypeOK OBVIOUS
  <2>2. steps \in Seq(StepRows)
    <3>1. FitSteps \subseteq StepRows BY DEF FitSteps
    <3>2. PICK fit : fit = FitSteps OBVIOUS
    <3>3. PICK all : all = StepRows OBVIOUS
    <3>4. steps \in Seq(fit) BY <2>1, <3>2 DEF TInv
    <3>5. steps \in Seq(all) BY ONLY <3>1, <3>2, <3>3, <3>4, RowsWiden
    <3>6. QED BY <3>3, <3>5
  <2>3. attempts \in Seq(AttemptRows)
    <3>1. FitAttempts \subseteq AttemptRows BY DEF FitAttempts
    <3>2. PICK fit : fit = FitAttempts OBVIOUS
    <3>3. PICK all : all = AttemptRows OBVIOUS
    <3>4. attempts \in Seq(fit) BY <2>1, <3>2 DEF TInv
    <3>5. attempts \in Seq(all) BY ONLY <3>1, <3>2, <3>3, <3>4, RowsWiden
    <3>6. QED BY <3>3, <3>5
  <2>4. works \in Seq(WorkRows)
    <3>1. FitWorks \subseteq WorkRows BY DEF FitWorks
    <3>2. PICK fit : fit = FitWorks OBVIOUS
    <3>3. PICK all : all = WorkRows OBVIOUS
    <3>4. works \in Seq(fit) BY <2>1, <3>2 DEF TInv
    <3>5. works \in Seq(all) BY ONLY <3>1, <3>2, <3>3, <3>4, RowsWiden
    <3>6. QED BY <3>3, <3>5
  <2>5. QED BY <2>1, <2>2, <2>3, <2>4
        DEF TInv, TypeOK, TaskRows, StepRows, WorkRows, WorkerRows, UsedRows
<1>2. QED BY <1>1, TInvariant, PTL

-----------------------------------------------------------------------------
(***************************************************************************)
(* The second layer: calls exclude each other and exclude work, and what   *)
(* is published rests on one of them. A running attempt belongs to a       *)
(* running generation, which has no other; at most one attempt holds a     *)
(* lease, uncharged as yet; at most one reservation of work is live, and   *)
(* only while no call is; and there is at most one open step, of the       *)
(* current run, which every live attempt and every waiting call is for.    *)
(***************************************************************************)
Running(a) == attempts[a].status = "running"

OnLease(a) == Running(a) /\ attempts[a].live

RunningModels == \A a \in DOMAIN attempts : Running(a) => steps[attempts[a].step].model = "running"

OneRunning ==
    \A a, b \in DOMAIN attempts :
        Running(a) /\ Running(b) /\ attempts[a].step = attempts[b].step => a = b

OneOnLease == \A a, b \in DOMAIN attempts : OnLease(a) /\ OnLease(b) => a = b

LeaseUncharged == \A a \in DOMAIN attempts : OnLease(a) => attempts[a].charged = Open

OneWorkLive == \A i, j \in DOMAIN works : LiveWork(i) /\ LiveWork(j) => i = j

WorkAlone == Working => ~Calling

CallStatus == Calling => task.status \in {"pending", "waiting-approval", "paused", "failed"}

OneOpen == \A n, m \in OpenSteps : n = m

CompletedClosed == task.status = "completed" => OpenSteps = {}

LiveNow == \A a \in DOMAIN attempts : LiveAttempt(a) => steps[attempts[a].step].run = task.generation

WaitingNow == \A n \in DOMAIN steps : steps[n].call = "waiting" => steps[n].run = task.generation

WinnersPaid ==
    \A n \in DOMAIN steps : steps[n].model = "committed" =>
        /\ steps[n].winner \in AttemptsOf(n)
        /\ attempts[steps[n].winner].status = "succeeded"
        /\ attempts[steps[n].winner].charged = KnownCost

KInv ==
    /\ RunningModels /\ OneRunning /\ OneOnLease /\ LeaseUncharged
    /\ OneWorkLive /\ WorkAlone /\ CallStatus
    /\ OneOpen /\ CompletedClosed /\ LiveNow /\ WaitingNow
    /\ WinnersPaid /\ CallsCountedOnce

(***************************************************************************)
(* What most steps do: no call is made and none is published, no work is   *)
(* admitted and nothing becomes of a tool's call, and a task that stopped  *)
(* becomes pending only while no call is open. Each part is stated alone,  *)
(* because the steps that are not quiet break only some of them.           *)
(***************************************************************************)
AttemptsQuiet ==
    /\ DOMAIN attempts' = DOMAIN attempts
    /\ \A a \in DOMAIN attempts :
         attempts'[a].status = "running" =>
            /\ steps[attempts[a].step].model = "running"
                 => steps'[attempts[a].step].model = "running"
            /\ attempts'[a].live => attempts'[a].charged = attempts[a].charged

StepQuiet(st, new) ==
    /\ new.decision = st.decision /\ new.winner = st.winner
    /\ new.admitted = st.admitted
    /\ new.call = st.call

StepsQuiet ==
    /\ \A n \in DOMAIN steps : StepQuiet(steps[n], steps'[n])
    /\ \A n \in DOMAIN steps' \ DOMAIN steps :
         steps'[n].decision = "none" /\ ~steps'[n].admitted

\* The parts of it that concern decisions, admissions and effects.
DecisionsQuiet ==
    /\ \A n \in DOMAIN steps :
         steps'[n].decision = steps[n].decision /\ steps'[n].winner = steps[n].winner
    /\ \A n \in DOMAIN steps' \ DOMAIN steps : steps'[n].decision = "none"

AdmissionsQuiet ==
    /\ \A n \in DOMAIN steps : steps'[n].admitted = steps[n].admitted
    /\ \A n \in DOMAIN steps' \ DOMAIN steps : ~steps'[n].admitted

EffectsQuiet == \A n \in DOMAIN steps : steps'[n].call = steps[n].call

WorksQuiet ==
    \/ DOMAIN works' = DOMAIN works
    \/ /\ ~Calling
       /\ \A i \in DOMAIN works : ~(works'[i].status = "running" /\ works'[i].live)
       /\ \E k : DOMAIN works' = DOMAIN works \cup {k}

Stoppings == {"paused", "failed"}

TaskQuiet ==
    /\ task'.generation = task.generation
    /\ \/ task'.status = task.status
       \/ task.status # "completed" /\ task'.status \in Stoppings
       \/ /\ task.status \in Stoppings \cup {"waiting-clarification"}
          /\ ~Calling
          /\ task'.status = "pending"
       \/ /\ task.status \in ActiveStatuses /\ task'.status \in ActiveStatuses
          /\ Calling => Calling'

\* Only the preparation of a call inserts a step.
Grows == DOMAIN steps' # DOMAIN steps => task.status \in ActiveStatuses

LEMMA QuietParts == ASSUME StepsQuiet PROVE DecisionsQuiet /\ AdmissionsQuiet /\ EffectsQuiet
BY DEF StepsQuiet, StepQuiet, DecisionsQuiet, AdmissionsQuiet, EffectsQuiet

LEMMA QuietCalls ==
  ASSUME TInv, KInv, Moves, AttemptsQuiet
  PROVE  /\ RunningModels' /\ OneRunning' /\ OneOnLease' /\ LeaseUncharged'
         /\ Calling' => Calling
<1> USE DEF Running, OnLease
<1>1. /\ DOMAIN attempts' = DOMAIN attempts
      /\ \A a \in DOMAIN attempts :
           /\ attempts'[a].step = attempts[a].step
           /\ attempts'[a].status = "running" => attempts[a].status = "running"
           /\ attempts'[a].live => attempts[a].live
  BY DEF AttemptsQuiet, Moves, AttemptsMove, AttemptKept
<1>2. RunningModels' BY <1>1 DEF KInv, RunningModels, AttemptsQuiet
<1>3. OneRunning' BY <1>1 DEF KInv, OneRunning
<1>4. OneOnLease' BY <1>1 DEF KInv, OneOnLease
<1>5. LeaseUncharged' BY <1>1 DEF KInv, LeaseUncharged, AttemptsQuiet
<1>6. Calling' => Calling
  <2>1. SUFFICES ASSUME NEW a \in DOMAIN attempts, attempts'[a].status = "running",
                        attempts'[a].live
                 PROVE  Calling
    BY <1>1 DEF Calling, LiveAttempt
  <2>2. steps[attempts[a].step].model = "running" BY <1>1, <2>1 DEF KInv, RunningModels
  <2>3. QED BY <1>1, <2>1, <2>2 DEF Calling, LiveAttempt
<1>7. QED BY <1>2, <1>3, <1>4, <1>5, <1>6

LEMMA QuietWorks ==
  ASSUME TInv, KInv, Moves, WorksQuiet, Calling' => Calling
  PROVE  OneWorkLive' /\ WorkAlone'
<1> USE DEF LiveWork
<1>1. \A i \in DOMAIN works :
         works'[i].status = "running" /\ works'[i].live => LiveWork(i)
  BY DEF Moves, WorksMove, WorkKept
<1>2. CASE DOMAIN works' = DOMAIN works
  BY <1>1, <1>2 DEF KInv, OneWorkLive, WorkAlone, Working
<1>3. CASE /\ ~Calling
           /\ \A i \in DOMAIN works : ~(works'[i].status = "running" /\ works'[i].live)
           /\ \E k : DOMAIN works' = DOMAIN works \cup {k}
  BY <1>3 DEF OneWorkLive, WorkAlone
<1>4. QED BY <1>2, <1>3 DEF WorksQuiet

LEMMA QuietOpen ==
  ASSUME TInv, KInv, Moves, task'.generation = task.generation
  PROVE  /\ OneOpen'
         /\ \A n \in OpenSteps' : n \in DOMAIN steps => n \in OpenSteps
<1>1. DOMAIN steps = 1 .. Len(steps) /\ DOMAIN steps' = 1 .. Len(steps')
      /\ Len(steps) \in Nat /\ Len(steps') \in Nat /\ Len(steps) <= Len(steps')
      /\ Len(steps') <= Len(steps) + 1
  BY SeqIndices DEF TInv, Moves, StepsMove
<1>2. \A n \in DOMAIN steps : steps'[n].run = steps[n].run /\ (steps[n].done => steps'[n].done)
  BY DEF Moves, StepsMove, StepKept
<1>3. \A n \in OpenSteps' : n \in DOMAIN steps' /\ (n \in DOMAIN steps => n \in OpenSteps)
  BY <1>2 DEF OpenSteps
<1>4. \A n \in DOMAIN steps' \ DOMAIN steps : OpenStep = 0 BY DEF Moves, StepsMove
<1>5. OpenStep = 0 => OpenSteps = {} BY OpenStepIsOpen
<1>6. ASSUME NEW n \in OpenSteps', NEW m \in OpenSteps' PROVE n = m
  <2>1. CASE n \in DOMAIN steps /\ m \in DOMAIN steps
    BY <1>3, <2>1 DEF KInv, OneOpen
  <2>2. CASE n \notin DOMAIN steps
    <3>1. OpenSteps = {} BY <1>3, <1>4, <1>5, <2>2
    <3>2. m \notin DOMAIN steps BY <1>3, <3>1
    <3>3. QED BY <1>1, <1>3, <2>2, <3>2
  <2>3. CASE m \notin DOMAIN steps
    <3>1. OpenSteps = {} BY <1>3, <1>4, <1>5, <2>3
    <3>2. n \notin DOMAIN steps BY <1>3, <3>1
    <3>3. QED BY <1>1, <1>3, <2>3, <3>2
  <2>4. QED BY <2>1, <2>2, <2>3
<1>7. QED BY <1>3, <1>6 DEF OneOpen

LEMMA QuietStatus ==
  ASSUME TInv, KInv, TaskQuiet, Calling' => Calling
  PROVE  CallStatus' /\ [Promise!PNext]_(Promise!pvars)
<1>1. CallStatus' BY DEF KInv, CallStatus, TaskQuiet, Stoppings, ActiveStatuses
<1>2. task'.generation = task.generation BY DEF TaskQuiet
<1>3. PICK now \in BOOLEAN : now = Calling BY DEF Calling
<1>4. PICK then \in BOOLEAN : then = Calling' BY DEF Calling
<1>5. [Promise!PNext]_(Promise!pvars)
  <2> USE DEF Promise!PNext, Promise!pvars, Promise!Stopped, Stoppings
  <2>1. CASE task'.status = task.status
    <3>1. CASE Calling' = Calling BY <1>2, <2>1, <3>1
    <3>2. CASE Calling' # Calling
      <4>1. Calling = TRUE /\ Calling' = FALSE BY <1>3, <1>4, <3>2
      <4>2. Promise!Drop BY <1>2, <2>1, <4>1 DEF Promise!Drop
      <4>3. QED BY <4>2
    <3>3. QED BY <3>1, <3>2
  <2>2. CASE task.status # "completed" /\ task'.status \in Stoppings
    <3>1. CASE Calling' = Calling
      <4>1. Promise!Stop BY <1>2, <2>2, <3>1 DEF Promise!Stop
      <4>2. QED BY <4>1
    <3>2. CASE Calling' # Calling
      <4>1. Calling = TRUE /\ Calling' = FALSE BY <1>3, <1>4, <3>2
      <4>2. Promise!Drop BY <1>2, <2>2, <4>1 DEF Promise!Drop
      <4>3. QED BY <4>2
    <3>3. QED BY <3>1, <3>2
  <2>3. CASE /\ task.status \in Stoppings \cup {"waiting-clarification"}
             /\ ~Calling /\ task'.status = "pending"
    <3>1. Calling' = Calling BY <1>3, <1>4, <2>3
    <3>2. Promise!Resume BY <1>2, <2>3, <3>1 DEF Promise!Resume
    <3>3. QED BY <3>2
  <2>4. CASE /\ task.status \in ActiveStatuses /\ task'.status \in ActiveStatuses
             /\ Calling => Calling'
    <3>1. Calling' = Calling BY <1>3, <1>4, <2>4
    <3>2. Promise!Report BY <1>2, <2>4, <3>1 DEF Promise!Report, Promise!Active, ActiveStatuses
    <3>3. QED BY <3>2
  <2>5. QED BY <2>1, <2>2, <2>3, <2>4 DEF TaskQuiet
<1>6. QED BY <1>1, <1>5

LEMMA QuietRuns ==
  ASSUME TInv, KInv, Moves, Grows, AttemptsQuiet, task'.generation = task.generation,
         task'.status = "completed" => task.status = "completed"
  PROVE  OneOpen' /\ CompletedClosed' /\ LiveNow'
<1>1. OneOpen' /\ \A n \in OpenSteps' : n \in DOMAIN steps => n \in OpenSteps BY QuietOpen
<1>2. CompletedClosed'
  <2>1. SUFFICES ASSUME task'.status = "completed" PROVE OpenSteps' = {} BY DEF CompletedClosed
  <2>2. OpenSteps = {} BY <2>1 DEF KInv, CompletedClosed
  <2>3. DOMAIN steps' = DOMAIN steps BY <2>1 DEF Grows, ActiveStatuses
  <2>4. QED BY <1>1, <2>2, <2>3 DEF OpenSteps
<1>3. LiveNow'
  <2>1. SUFFICES ASSUME NEW a \in DOMAIN attempts', LiveAttempt(a)'
                 PROVE  steps'[attempts'[a].step].run = task'.generation
    BY DEF LiveNow
  <2>2. /\ a \in DOMAIN attempts /\ attempts[a].step \in DOMAIN steps
        /\ AttemptKept(attempts[a], attempts'[a])
    BY DEF AttemptsQuiet, Moves, AttemptsMove, TInv
  <2>3. attempts[a].status = "running" /\ attempts[a].live /\ attempts'[a].step = attempts[a].step
    BY <2>1, <2>2 DEF LiveAttempt, AttemptKept
  <2>4. steps[attempts[a].step].run = task.generation
    BY <2>2, <2>3 DEF KInv, RunningModels, Running, LiveNow, LiveAttempt
  <2>5. QED BY <2>2, <2>3, <2>4 DEF Moves, StepsMove, StepKept
<1>4. QED BY <1>1, <1>2, <1>3

\* A call that waits is of the current run.
LEMMA WaitingStays ==
  ASSUME TInv, KInv, Moves, task'.generation = task.generation,
         \A n \in DOMAIN steps :
            steps'[n].call = "waiting" => steps[n].call = "waiting" \/ steps[n].run = task.generation
  PROVE  WaitingNow'
<1>1. \A n \in DOMAIN steps : steps'[n].run = steps[n].run BY DEF Moves, StepsMove, StepKept
<1>2. \A n \in DOMAIN steps' \ DOMAIN steps : steps'[n].run = task.generation
  BY DEF Moves, StepsMove
<1>3. QED BY <1>1, <1>2 DEF WaitingNow, KInv

LEMMA QuietWaiting ==
  ASSUME TInv, KInv, Moves, EffectsQuiet, task'.generation = task.generation PROVE WaitingNow'
BY WaitingStays DEF EffectsQuiet

LEMMA QuietKeeps ==
  ASSUME TaskQuiet
  PROVE  /\ task'.generation = task.generation
         /\ task'.status = "completed" => task.status = "completed"
BY DEF TaskQuiet, Stoppings, ActiveStatuses

\* A generation that is not committed by this step has the winner it had.
LEMMA WinnerStays ==
  ASSUME TInv, KInv, Moves, NEW n \in DOMAIN steps, steps[n].model = "committed"
  PROVE  /\ steps'[n].winner \in AttemptsOf(n)'
         /\ attempts'[steps'[n].winner].status = "succeeded"
         /\ attempts'[steps'[n].winner].charged = KnownCost
<1>1. /\ steps[n].winner \in AttemptsOf(n)
      /\ attempts[steps[n].winner].status = "succeeded"
      /\ attempts[steps[n].winner].charged = KnownCost
  BY DEF KInv, WinnersPaid
<1>2. steps'[n].winner = steps[n].winner BY DEF Moves, StepsMove, StepKept
<1>3. PICK a : a = steps[n].winner OBVIOUS
<1>4. a \in DOMAIN attempts /\ attempts[a].step = n BY <1>1, <1>3 DEF AttemptsOf
<1>5. a \in DOMAIN attempts' BY <1>4, MovesDomains
<1>6. AttemptKept(attempts[a], attempts'[a]) BY <1>4 DEF Moves, AttemptsMove
<1>7. KnownCost # Open BY CostsFit DEF Open
<1>8. attempts'[a].step = n /\ attempts'[a].status = "succeeded" /\ attempts'[a].charged = KnownCost
  BY <1>1, <1>3, <1>4, <1>6, <1>7 DEF AttemptKept
<1>9. QED BY <1>2, <1>3, <1>5, <1>8 DEF AttemptsOf

LEMMA QuietWinners ==
  ASSUME TInv, KInv, Moves, DecisionsQuiet
  PROVE  WinnersPaid'
<1>1. \A n \in DOMAIN steps' : steps'[n] \in FitSteps BY SeqIndices DEF Moves, StepsMove
<1>2. \A n \in DOMAIN steps : steps[n] \in FitSteps BY SeqIndices DEF TInv
<1>3. ASSUME NEW n \in DOMAIN steps', steps'[n].model = "committed"
      PROVE  n \in DOMAIN steps /\ steps[n].model = "committed"
  BY <1>1, <1>2, <1>3 DEF DecisionsQuiet, FitSteps
<1>4. QED BY <1>3, WinnerStays DEF WinnersPaid

LEMMA QuietAdmissions ==
  ASSUME TInv, KInv, Moves, AdmissionsQuiet, task'.calls = task.calls
  PROVE  CallsCountedOnce'
<1>1. DOMAIN steps \subseteq DOMAIN steps' BY MovesDomains
<1>2. \A n \in DOMAIN steps' : n \notin DOMAIN steps => ~steps'[n].admitted BY DEF AdmissionsQuiet
<1>3. \A n \in DOMAIN steps : steps'[n].admitted = steps[n].admitted
  BY DEF AdmissionsQuiet
<1>4. {n \in DOMAIN steps' : steps'[n].admitted} = {n \in DOMAIN steps : steps[n].admitted}
  BY <1>1, <1>2, <1>3
<1>5. QED BY <1>4 DEF KInv, CallsCountedOnce

\* What a step that is quiet in every part keeps and implements.
Quiet ==
    /\ AttemptsQuiet /\ StepsQuiet /\ WorksQuiet /\ TaskQuiet
    /\ task'.calls = task.calls

\* What a step may do: the second layer, the promise, and both action
\* properties.
StepSafe ==
    /\ KInv'
    /\ [Promise!PNext]_(Promise!pvars)
    /\ \A n \in DOMAIN steps :
         steps'[n].call = "completed" /\ steps[n].call # "completed" =>
            /\ ~Calling
            /\ steps[n].route \in CompletesLive \cup {"inside"} => Working
            /\ task.status \notin ActiveStatuses => steps[n].route \in {"images", "slack"}
    /\ task.status \notin ActiveStatuses =>
         \A n \in DOMAIN steps : steps'[n].decision = steps[n].decision

LEMMA QuietSafe == ASSUME TInv, KInv, Moves, Grows, Quiet PROVE StepSafe
<1> USE DEF Quiet
<1>1. Calling' => Calling BY QuietCalls
<1>2. KInv'
  BY <1>1, QuietParts, QuietCalls, QuietWorks, QuietKeeps, QuietRuns, QuietStatus, QuietWaiting,
     QuietWinners, QuietAdmissions DEF KInv
<1>3. [Promise!PNext]_(Promise!pvars) BY <1>1, QuietStatus
<1>4. \A n \in DOMAIN steps : StepQuiet(steps[n], steps'[n]) BY DEF StepsQuiet
<1>5. QED BY <1>2, <1>3, <1>4 DEF StepSafe, StepQuiet

-----------------------------------------------------------------------------
(* What makes each part of a step quiet. *)

\* No running generation stops running.
ModelsStay == \A n \in DOMAIN steps : steps[n].model = "running" => steps'[n].model = "running"

LEMMA AttemptsStay ==
  ASSUME TInv, attempts' = attempts, ModelsStay
  PROVE  AttemptsQuiet
BY DEF TInv, AttemptsQuiet, ModelsStay

LEMMA AttemptChanges ==
  ASSUME TInv, NEW k, NEW new, attempts' = [attempts EXCEPT ![k] = new],
         k \in DOMAIN attempts /\ new.status = "running" /\ new.live
           => new.charged = attempts[k].charged,
         ModelsStay
  PROVE  AttemptsQuiet
<1>1. \A a \in DOMAIN attempts : attempts[a].step \in DOMAIN steps BY DEF TInv
<1>2. DOMAIN attempts' = DOMAIN attempts OBVIOUS
<1>3. \A a \in DOMAIN attempts : attempts'[a] = IF a = k THEN new ELSE attempts[a] OBVIOUS
<1>4. QED BY ONLY <1>1, <1>2, <1>3, ModelsStay,
               k \in DOMAIN attempts /\ new.status = "running" /\ new.live
                 => new.charged = attempts[k].charged
          DEF AttemptsQuiet, ModelsStay

LEMMA StepsStay ==
  ASSUME steps' = steps
  PROVE  StepsQuiet /\ ModelsStay
BY DEF StepsQuiet, StepQuiet, ModelsStay

LEMMA StepChanges ==
  ASSUME TInv, NEW k, NEW new, steps' = [steps EXCEPT ![k] = new],
         k \in DOMAIN steps => StepQuiet(steps[k], new)
  PROVE  /\ StepsQuiet
         /\ DOMAIN steps' = DOMAIN steps
         /\ \A n \in DOMAIN steps : steps'[n] = IF n = k THEN new ELSE steps[n]
         /\ (k \in DOMAIN steps /\ steps[k].model = "running" => new.model = "running")
              => ModelsStay
<1>1. DOMAIN steps' = DOMAIN steps OBVIOUS
<1>2. \A n \in DOMAIN steps : steps'[n] = IF n = k THEN new ELSE steps[n] OBVIOUS
<1>3. \A n \in DOMAIN steps : StepQuiet(steps[n], steps[n]) BY DEF StepQuiet
<1>4. \A n \in DOMAIN steps : StepQuiet(steps[n], steps'[n]) BY <1>2, <1>3
<1>5. StepsQuiet BY <1>1, <1>4 DEF StepsQuiet
<1>6. QED BY <1>1, <1>2, <1>5 DEF ModelsStay

LEMMA RowsQuiet ==
  ASSUME TInv, UNCHANGED <<steps, attempts>>
  PROVE  AttemptsQuiet /\ StepsQuiet
BY StepsStay, AttemptsStay

LEMMA WorksStay ==
  ASSUME works' = works PROVE WorksQuiet
BY DEF WorksQuiet

LEMMA SweptQuiet ==
  ASSUME TInv, works' = Swept PROVE WorksQuiet
BY SweptRows DEF WorksQuiet

LEMMA SettledQuiet ==
  ASSUME TInv, NEW w \in Workers, worker[w].phase \in WorkPhases, NEW t \in WorkTimes,
         works' = WorkSettled(worker[w].work, t)
  PROVE  WorksQuiet
<1>1. PICK i : i = worker[w].work OBVIOUS
<1>2. i \in DOMAIN works BY <1>1 DEF TInv, Carries
<1>3. DOMAIN WorkSettled(i, t) = DOMAIN works BY <1>2, SettledWork
<1>4. QED BY <1>1, <1>3 DEF WorksQuiet

\* When a preparation begins, no work is live in what it goes on from.
LEMMA EntryQuiet ==
  ASSUME TInv, KInv, NEW w \in Workers, NEW e \in Entries(w)
  PROVE  /\ DOMAIN e.works = DOMAIN works
         /\ \A i \in DOMAIN works : ~(e.works[i].status = "running" /\ e.works[i].live)
         /\ works' = e.works => WorksQuiet
<1>1. \A i \in DOMAIN works : works[i] \in FitWorks BY SeqIndices DEF TInv
<1>2. CASE /\ worker[w].phase = "prepare" /\ ~Working /\ e.works = Swept
  <2>1. DOMAIN e.works = DOMAIN works BY <1>2, SweptRows
  <2>2. \A i \in DOMAIN works : ~(e.works[i].status = "running" /\ e.works[i].live)
    BY <1>1, <1>2, SweptRows, SweptRowKept DEF Working, LiveWork
  <2>3. QED BY <2>1, <2>2 DEF WorksQuiet
<1>3. ASSUME NEW t \in WorkTimes, worker[w].phase = "files", LiveWork(worker[w].work),
             e.works = WorkSettled(worker[w].work, t)
      PROVE  /\ DOMAIN e.works = DOMAIN works
             /\ \A i \in DOMAIN works : ~(e.works[i].status = "running" /\ e.works[i].live)
  <2>1. PICK k : k = worker[w].work OBVIOUS
  <2>2. k \in DOMAIN works BY <1>3, <2>1 DEF TInv, Carries, WorkPhases
  <2>3. PICK new : new = SettledWorkRow(works[k], t) OBVIOUS
  <2>4. new.status # "running" BY <1>1, <2>2, <2>3, SettledWorkKept
  <2>5. e.works = [works EXCEPT ![k] = new] BY <1>3, <2>1, <2>2, <2>3, SettledWork
  <2>6. \A i \in DOMAIN works : LiveWork(i) => i = k
    BY <1>3, <2>1, <2>2 DEF KInv, OneWorkLive
  <2>7. DOMAIN e.works = DOMAIN works BY <2>5
  <2>8. \A i \in DOMAIN works : e.works[i] = IF i = k THEN new ELSE works[i] BY <2>5
  <2>9. \A i \in DOMAIN works : i # k => ~(works[i].status = "running" /\ works[i].live)
    BY <2>6 DEF LiveWork
  <2>10. QED BY <2>4, <2>7, <2>8, <2>9
<1>4. \/ /\ worker[w].phase = "prepare" /\ ~Working /\ e.works = Swept
      \/ /\ worker[w].phase = "files" /\ LiveWork(worker[w].work)
         /\ \E t \in WorkTimes : e.works = WorkSettled(worker[w].work, t)
  BY DEF Entries
<1>5. QED BY <1>2, <1>3, <1>4 DEF WorksQuiet

\* The parts of a task with another status and active time.
LEMMA TaskWith ==
  ASSUME TInv, NEW active, NEW status, task' = [task EXCEPT !.active = active, !.status = status]
  PROVE  /\ task'.generation = task.generation /\ task'.calls = task.calls
         /\ task'.limit = task.limit
         /\ task'.active = active /\ task'.status = status
BY DEF TInv, TaskRows

LEMMA TaskStopping ==
  ASSUME TInv, NEW active, NEW status, task' = [task EXCEPT !.active = active, !.status = status],
         \/ status = task.status
         \/ task.status # "completed" /\ status \in Stoppings
  PROVE  TaskQuiet /\ task'.calls = task.calls
BY TaskWith, ZenonT(60) DEF TaskQuiet

LEMMA TaskGoesOn ==
  ASSUME TInv, NEW active, task' = [task EXCEPT !.active = active]
  PROVE  TaskQuiet /\ task'.calls = task.calls
BY DEF TaskQuiet, TInv, TaskRows

LEMMA TaskUnchanged ==
  ASSUME task' = task
  PROVE  TaskQuiet /\ task'.calls = task.calls
BY DEF TaskQuiet

\* The task after work was settled.
LEMMA TaskWorked ==
  ASSUME TInv, NEW w \in Workers, worker[w].phase \in WorkPhases, NEW t \in WorkTimes,
         task' = TaskAfterWork(worker[w].work, t)
  PROVE  TaskQuiet /\ task'.calls = task.calls
<1>1. PICK i : i = worker[w].work OBVIOUS
<1>2. i \in DOMAIN works BY <1>1 DEF TInv, Carries
<1>3. /\ TaskAfterWork(i, t).generation = task.generation
      /\ TaskAfterWork(i, t).calls = task.calls
      /\ \/ TaskAfterWork(i, t).status = task.status
         \/ task.status \in ActiveStatuses /\ TaskAfterWork(i, t).status = "paused"
  BY <1>2, SettledWork
<1>4. QED BY <1>1, <1>3 DEF TaskQuiet, Stoppings, ActiveStatuses

-----------------------------------------------------------------------------
(* The second layer, action by action: the quiet steps. *)

\* A step that leaves the steps and the attempts alone.
LEMMA RowsOnly ==
  ASSUME TInv, UNCHANGED <<steps, attempts>>, WorksQuiet, TaskQuiet, task'.calls = task.calls
  PROVE  Quiet
BY RowsQuiet DEF Quiet

LEMMA PollQuiet == ASSUME TInv, NEW w \in Workers, Poll(w) PROVE Quiet
BY WorksStay, TaskUnchanged, RowsOnly DEF Poll

LEMMA PrepareNothingQuiet == ASSUME TInv, NEW w \in Workers, PrepareNothing(w) PROVE Quiet
<1>1. works' = Swept /\ UNCHANGED <<task, steps, attempts>> BY DEF PrepareNothing
<1>2. QED BY <1>1, SweptQuiet, TaskUnchanged, RowsOnly

LEMMA PreparePauseQuiet == ASSUME TInv, KInv, NEW w \in Workers, PreparePause(w) PROVE Quiet
<1>1. PICK e \in Entries(w) : /\ task' = [task EXCEPT !.status = "paused", !.active = e.active]
                              /\ works' = e.works
  BY DEF PreparePause
<1>2. UNCHANGED <<steps, attempts>> BY DEF PreparePause
<1>3. task' = [task EXCEPT !.active = e.active, !.status = "paused"] BY <1>1
<1>4. task.status # "completed" BY DEF Entries, ActiveStatuses
<1>5. TaskQuiet /\ task'.calls = task.calls BY <1>3, <1>4, TaskStopping DEF Stoppings
<1>6. QED BY <1>1, <1>2, <1>5, EntryQuiet, RowsOnly

LEMMA PrepareToolQuiet == ASSUME TInv, KInv, NEW w \in Workers, PrepareTool(w) PROVE Quiet
<1>1. PICK e \in Entries(w) : task' = [task EXCEPT !.active = e.active] /\ works' = e.works
  BY DEF PrepareTool
<1>2. UNCHANGED <<steps, attempts>> BY DEF PrepareTool
<1>3. QED BY <1>1, <1>2, EntryQuiet, TaskGoesOn, RowsOnly

LEMMA PrepareCloseQuiet == ASSUME TInv, KInv, NEW w \in Workers, PrepareClose(w) PROVE Quiet
<1>1. PICK e \in Entries(w) :
        /\ task' = [task EXCEPT !.active = e.active,
                                !.status = IF steps[OpenStep].decision = "propose"
                                           THEN "pending" ELSE @]
        /\ works' = e.works
  BY DEF PrepareClose
<1>2. /\ OpenStep # 0 /\ ~Calling /\ attempts' = attempts
      /\ steps[OpenStep].decision \in {"tools", "propose"}
      /\ steps' = [steps EXCEPT ![OpenStep].done = TRUE]
  BY DEF PrepareClose
<1>3. task.status \in ActiveStatuses BY DEF Entries
<1>4. PICK n : n = OpenStep OBVIOUS
<1>5. n \in DOMAIN steps /\ steps[n] \in FitSteps
  BY <1>2, <1>4, OpenStepIsOpen, SeqIndices DEF OpenSteps, TInv
<1>6. PICK status : status = IF steps[n].decision = "propose" THEN "pending" ELSE task.status
  OBVIOUS
<1>7. task' = [task EXCEPT !.active = e.active, !.status = status] BY <1>1, <1>4, <1>6
<1>8. task'.generation = task.generation /\ task'.calls = task.calls /\ task'.status = status
  BY <1>7, TaskWith
<1>9. TaskQuiet BY <1>2, <1>3, <1>6, <1>8 DEF TaskQuiet, ActiveStatuses
<1>10. PICK new : new = [steps[n] EXCEPT !.done = TRUE] OBVIOUS
<1>11. StepQuiet(steps[n], new) /\ new.model = steps[n].model
  BY <1>5, <1>6, <1>8, <1>10 DEF StepQuiet, FitSteps, StepRows
<1>12. steps' = [steps EXCEPT ![n] = new] BY <1>2, <1>4, <1>10
<1>13. StepsQuiet /\ ModelsStay BY <1>11, <1>12, StepChanges
<1>14. AttemptsQuiet BY <1>2, <1>13, AttemptsStay
<1>15. QED BY <1>1, <1>8, <1>9, <1>13, <1>14, EntryQuiet DEF Quiet

LEMMA FilesEndQuiet == ASSUME TInv, NEW w \in Workers, FilesEnd(w) PROVE Quiet
<1>1. PICK t \in WorkTimes : /\ works' = WorkSettled(worker[w].work, t)
                             /\ task' = TaskAfterWork(worker[w].work, t)
  BY DEF FilesEnd
<1>2. worker[w].phase \in WorkPhases /\ UNCHANGED <<steps, attempts>> BY DEF FilesEnd, WorkPhases
<1>3. QED BY <1>1, <1>2, SettledQuiet, TaskWorked, RowsOnly

LEMMA PrepareDeniedQuiet == ASSUME TInv, NEW w \in Workers, PrepareDenied(w) PROVE Quiet
<1>1. UNCHANGED <<steps, attempts>> BY DEF PrepareDenied
<1>2. CASE UNCHANGED <<task, works>> BY <1>1, <1>2, WorksStay, TaskUnchanged, RowsOnly
<1>3. ASSUME NEW t \in WorkTimes, worker[w].phase = "files",
             works' = WorkSettled(worker[w].work, t), task' = TaskAfterWork(worker[w].work, t)
      PROVE  Quiet
  <2>1. worker[w].phase \in WorkPhases BY <1>3 DEF WorkPhases
  <2>2. QED BY <1>1, <1>3, <2>1, SettledQuiet, TaskWorked, RowsOnly
<1>4. QED BY <1>2, <1>3 DEF PrepareDenied

LEMMA DenyQuiet == ASSUME TInv, NEW w \in Workers, Deny(w) PROVE Quiet
<1>1. PICK stopped \in Stoppings :
        task' = [task EXCEPT !.status = IF @ \in ActiveStatuses THEN stopped ELSE @]
  BY DEF Deny, Stoppings
<1>2. UNCHANGED <<steps, attempts, works>> BY DEF Deny
<1>3. task'.generation = task.generation /\ task'.calls = task.calls
      /\ task'.status = IF task.status \in ActiveStatuses THEN stopped ELSE task.status
  BY <1>1 DEF TInv, TaskRows
<1>4. TaskQuiet BY <1>3 DEF TaskQuiet, ActiveStatuses
<1>5. QED BY <1>2, <1>3, <1>4, WorksStay, RowsOnly

LEMMA DispatchQuiet ==
  ASSUME TInv, NEW w \in Workers, Dispatch(w) \/ DispatchRefused(w) \/ Answer(w) PROVE Quiet
<1>1. UNCHANGED <<task, steps, attempts, works>> BY DEF Dispatch, DispatchRefused, Answer
<1>2. QED BY <1>1, WorksStay, TaskUnchanged, RowsOnly

LEMMA ToolWaitsQuiet == ASSUME TInv, NEW w \in Workers, ToolWaits(w) PROVE Quiet
<1>1. UNCHANGED <<steps, attempts>> BY DEF ToolWaits
<1>2. /\ works' = works \/ works' = Swept
      /\ \/ task' = task
         \/ task.status \in ActiveStatuses /\ task' = [task EXCEPT !.status = "paused"]
  BY DEF ToolWaits, Allowed
<1>3. WorksQuiet BY <1>2, WorksStay, SweptQuiet
<1>4. TaskQuiet /\ task'.calls = task.calls
  <2>1. CASE task' = task BY <2>1, TaskUnchanged
  <2>2. CASE task.status \in ActiveStatuses /\ task' = [task EXCEPT !.status = "paused"]
    BY <2>2 DEF TInv, TaskRows, TaskQuiet, Stoppings, ActiveStatuses
  <2>3. QED BY <1>2, <2>1, <2>2
<1>5. QED BY <1>1, <1>3, <1>4, RowsOnly

\* A worker that goes on, and nothing else.
LEMMA ToolPassesQuiet ==
  ASSUME TInv, NEW w \in Workers, ToolEnded(w) \/ ToolTooLate(w) \/ ToolRefused(w) PROVE Quiet
<1>1. UNCHANGED <<task, steps, attempts, works>> BY DEF ToolEnded, ToolTooLate, ToolRefused
<1>2. QED BY <1>1, WorksStay, TaskUnchanged, RowsOnly

LEMMA ToolThrowsQuiet == ASSUME TInv, NEW w \in Workers, ToolThrows(w) PROVE Quiet
<1>1. PICK t \in WorkTimes : /\ works' = WorkSettled(worker[w].work, t)
                             /\ task' = TaskAfterWork(worker[w].work, t)
  BY DEF ToolThrows
<1>2. worker[w].phase \in WorkPhases /\ UNCHANGED <<steps, attempts>>
  BY DEF ToolThrows, WorkPhases
<1>3. QED BY <1>1, <1>2, SettledQuiet, TaskWorked, RowsOnly

LEMMA ToolSettleQuiet == ASSUME TInv, NEW w \in Workers, ToolSettle(w) PROVE Quiet
<1>1. PICK t \in WorkTimes : /\ works' = WorkSettled(worker[w].work, t)
                             /\ task' = TaskAfterWork(worker[w].work, t)
  BY DEF ToolSettle
<1>2. worker[w].phase \in WorkPhases /\ UNCHANGED <<steps, attempts>>
  BY DEF ToolSettle, WorkPhases
<1>3. QED BY <1>1, <1>2, SettledQuiet, TaskWorked, RowsOnly

LEMMA pauseQuiet == ASSUME TInv, pause PROVE Quiet
<1>1. UNCHANGED <<steps, attempts, works>> /\ task.status # "completed"
      /\ task' = [task EXCEPT !.status = "paused"]
  BY DEF pause
<1>2. TaskQuiet /\ task'.calls = task.calls
  BY <1>1 DEF TInv, TaskRows, TaskQuiet, Stoppings
<1>3. QED BY <1>1, <1>2, WorksStay, RowsOnly

LEMMA WorkExpiresQuiet ==
  ASSUME TInv, NEW i \in DOMAIN works, WorkExpires(i) PROVE Quiet
<1>1. UNCHANGED <<task, steps, attempts>> /\ works' = [works EXCEPT ![i].live = FALSE]
  BY DEF WorkExpires
<1>2. WorksQuiet BY <1>1 DEF WorksQuiet
<1>3. QED BY <1>1, <1>2, TaskUnchanged, RowsOnly

LEMMA CrashQuiet == ASSUME TInv, NEW w \in Workers, Crash(w) PROVE Quiet
<1>1. UNCHANGED <<task, steps, attempts, works>> BY DEF Crash
<1>2. QED BY <1>1, WorksStay, TaskUnchanged, RowsOnly

\* A step that changes one step's row and keeps its generation running.
LEMMA StepOnly ==
  ASSUME TInv, NEW k, NEW new, steps' = [steps EXCEPT ![k] = new],
         k \in DOMAIN steps => StepQuiet(steps[k], new) /\ new.model = steps[k].model,
         attempts' = attempts
  PROVE  AttemptsQuiet /\ StepsQuiet
<1>1. StepsQuiet /\ ModelsStay BY StepChanges
<1>2. QED BY <1>1, AttemptsStay

LEMMA ToolReportQuiet == ASSUME TInv, KInv, NEW w \in Workers, ToolReport(w) PROVE Quiet
<1>1. PICK n \in DOMAIN steps, done \in BOOLEAN :
        steps' = [steps EXCEPT ![n] = [steps[n] EXCEPT !.done = done]]
  BY ReportRows
<1>2. UNCHANGED <<attempts, works>> BY DEF ToolReport
<1>3. PICK new : new = [steps[n] EXCEPT !.done = done] OBVIOUS
<1>4. steps[n] \in FitSteps BY SeqIndices DEF TInv
<1>5. StepQuiet(steps[n], new) /\ new.model = steps[n].model
  BY <1>3, <1>4 DEF StepQuiet, FitSteps, StepRows
<1>6. steps' = [steps EXCEPT ![n] = new] BY <1>1, <1>3
<1>7. AttemptsQuiet /\ StepsQuiet BY <1>2, <1>5, <1>6, StepOnly
<1>8. Calling' = Calling
  <2>1. \A a \in DOMAIN attempts : attempts[a].step \in DOMAIN steps BY DEF TInv
  <2>2. \A k \in DOMAIN steps : steps'[k].model = steps[k].model BY <1>5, <1>6
  <2>3. QED BY <1>2, <2>1, <2>2 DEF Calling, LiveAttempt
<1>9. PICK status : /\ task' = [task EXCEPT !.status = status]
                    /\ \/ status = task.status
                       \/ task.status \in ActiveStatuses /\ status \in ActiveStatuses
  BY DEF ToolReport, ActiveStatuses
<1>10. /\ task'.generation = task.generation /\ task'.calls = task.calls
       /\ task'.status = status
  BY <1>9 DEF TInv, TaskRows
<1>11. TaskQuiet BY <1>8, <1>9, <1>10 DEF TaskQuiet
<1>12. QED BY <1>2, <1>7, <1>10, <1>11, WorksStay DEF Quiet

LEMMA decideQuiet == ASSUME TInv, decide PROVE Quiet
<1>1. PICK n \in DOMAIN steps, decision \in {"approve", "reject"} :
        steps' = [steps EXCEPT ![n].approval = decision]
  BY DEF decide
<1>2. UNCHANGED <<task, attempts, works>> BY DEF decide
<1>3. PICK new : new = [steps[n] EXCEPT !.approval = decision] OBVIOUS
<1>4. steps' = [steps EXCEPT ![n] = new] BY <1>1, <1>3
<1>5. steps[n] \in FitSteps BY SeqIndices DEF TInv
<1>6. StepQuiet(steps[n], new) /\ new.model = steps[n].model
  BY <1>3, <1>5 DEF StepQuiet, FitSteps, StepRows
<1>7. AttemptsQuiet /\ StepsQuiet BY <1>2, <1>4, <1>6, StepOnly
<1>8. QED BY <1>2, <1>7, WorksStay, TaskUnchanged DEF Quiet

LEMMA StepTimeQuiet ==
  ASSUME TInv, NEW n \in DOMAIN steps, DeadlinePasses(n) \/ BackoffEnds(n) PROVE Quiet
<1>1. UNCHANGED <<task, attempts, works>> BY DEF DeadlinePasses, BackoffEnds
<1>2. steps[n] \in FitSteps BY SeqIndices DEF TInv
<1>3. PICK new : /\ new = [steps[n] EXCEPT !.open = FALSE] \/ new = [steps[n] EXCEPT !.due = TRUE]
                 /\ steps' = [steps EXCEPT ![n] = new]
  <2>1. CASE DeadlinePasses(n) BY <2>1 DEF DeadlinePasses
  <2>2. CASE BackoffEnds(n) BY <2>2 DEF BackoffEnds
  <2>3. QED BY <2>1, <2>2
<1>4. StepQuiet(steps[n], new) /\ new.model = steps[n].model
  BY <1>2, <1>3 DEF StepQuiet, FitSteps, StepRows
<1>5. AttemptsQuiet /\ StepsQuiet BY <1>1, <1>3, <1>4, StepOnly
<1>6. QED BY <1>1, <1>5, WorksStay, TaskUnchanged DEF Quiet

LEMMA continueQuiet == ASSUME TInv, KInv, continueTask PROVE Quiet
<1>1. /\ task.status \in {"waiting-clarification", "paused", "failed"} /\ NothingRunning
      /\ UNCHANGED <<attempts, works>>
  BY DEF continueTask
<1>2. DOMAIN steps' = DOMAIN steps /\ \A n \in DOMAIN steps : steps'[n] = Continued(steps[n])
  BY continueMoves
<1>3. PICK raise \in {0, RaiseBy} :
        task' = [task EXCEPT !.status = "pending", !.limit = @ + raise]
  BY DEF continueTask
<1>4. task'.generation = task.generation /\ task'.calls = task.calls /\ task'.status = "pending"
  BY <1>3 DEF TInv, TaskRows
<1>5. ~Calling BY <1>1 DEF NothingRunning, Calling, LiveAttempt
<1>6. TaskQuiet BY <1>1, <1>4, <1>5 DEF TaskQuiet, Stoppings
<1>7. \A n \in DOMAIN steps :
         StepQuiet(steps[n], Continued(steps[n])) /\ Continued(steps[n]).model = steps[n].model
  <2> TAKE n \in DOMAIN steps
  <2>1. steps[n] \in FitSteps BY SeqIndices DEF TInv
  <2>2. QED BY <1>4, <2>1 DEF Continued, StepQuiet, FitSteps, StepRows
<1>8. StepsQuiet /\ ModelsStay BY <1>2, <1>7 DEF StepsQuiet, ModelsStay
<1>9. QED BY <1>1, <1>4, <1>6, <1>8, AttemptsStay, WorksStay DEF Quiet

\* Changing the step a call is made for.
LEMMA CallStepQuiet ==
  ASSUME TInv, NEW new, steps' = [CallSteps EXCEPT ![CallStep] = new],
         StepKept(CallSteps[CallStep], new), StepQuiet(CallSteps[CallStep], new)
  PROVE  /\ StepsQuiet
         /\ \A n \in DOMAIN steps \ {CallStep} : steps'[n] = steps[n]
<1>1. PICK k : k = CallStep OBVIOUS
<1>2. PICK old : old = CallSteps[CallStep] OBVIOUS
<1>3. /\ DOMAIN steps' = DOMAIN CallSteps /\ steps'[k] = new
      /\ \A n \in DOMAIN steps \ {k} : steps'[n] = steps[n]
  BY <1>1, CallStepReplaced
<1>4. /\ DOMAIN CallSteps \subseteq DOMAIN steps \cup {k}
      /\ k \in DOMAIN steps => old = steps[k]
      /\ k \notin DOMAIN steps => old = NewStep
  BY <1>1, <1>2, CallStepMoves
<1>5. StepQuiet(old, new) BY <1>2
<1>6. \A n \in DOMAIN steps : StepQuiet(steps[n], steps[n]) BY DEF StepQuiet
<1>7. \A n \in DOMAIN steps : StepQuiet(steps[n], steps'[n]) BY <1>3, <1>4, <1>5, <1>6
<1>8. \A n \in DOMAIN steps' \ DOMAIN steps :
         steps'[n].decision = "none" /\ ~steps'[n].admitted
  BY <1>3, <1>4, <1>5 DEF StepQuiet, NewStep
<1>9. QED BY <1>1, <1>3, <1>7, <1>8 DEF StepsQuiet

LEMMA CallStepsQuiet ==
  ASSUME TInv, steps' = CallSteps
  PROVE  StepsQuiet /\ \A n \in DOMAIN steps : steps'[n] = steps[n]
<1>1. /\ \A n \in DOMAIN steps : steps'[n] = steps[n]
      /\ DOMAIN steps' \subseteq DOMAIN steps \cup {CallStep}
      /\ CallStep \notin DOMAIN steps => steps'[CallStep] = NewStep
  BY CallStepMoves
<1>2. \A n \in DOMAIN steps : StepQuiet(steps[n], steps'[n]) BY <1>1 DEF StepQuiet
<1>3. \A n \in DOMAIN steps' \ DOMAIN steps :
         steps'[n].decision = "none" /\ ~steps'[n].admitted
  BY <1>1 DEF NewStep
<1>4. QED BY <1>1, <1>2, <1>3 DEF StepsQuiet

\* The attempts of a step were abandoned, and no other step changed.
LEMMA AbandonedQuiet ==
  ASSUME TInv, NEW k, attempts' = AbandonedOf(k),
         \A n \in DOMAIN steps \ {k} : steps'[n] = steps[n]
  PROVE  AttemptsQuiet
<1>1. StepsMove(steps) BY StepsSame
<1>2. /\ DOMAIN attempts' = DOMAIN attempts
      /\ \A a \in DOMAIN attempts :
           attempts'[a] = IF attempts[a].step = k THEN Abandoned(attempts[a]) ELSE attempts[a]
  BY <1>1, AbandonedRows
<1>3. \A a \in DOMAIN attempts : Abandoned(attempts[a]).status # "running"
  BY OwnRows, AbandonedRow
<1>4. \A a \in DOMAIN attempts : attempts[a].step \in DOMAIN steps BY DEF TInv
<1>5. QED BY <1>2, <1>3, <1>4 DEF AttemptsQuiet

LEMMA CallFailsQuiet ==
  ASSUME TInv, steps' = [CallSteps EXCEPT ![CallStep] = FailedStep(@)],
         attempts' = AbandonedOf(CallStep)
  PROVE  AttemptsQuiet /\ StepsQuiet
<1>1. PICK old \in FitSteps : old = CallSteps[CallStep] BY CallStepMoves
<1>2. PICK new : new = FailedStep(old) OBVIOUS
<1>3. StepKept(old, new) /\ StepQuiet(old, new)
  BY <1>2, FailedStepKept DEF FailedStep, StepQuiet, FitSteps, StepRows
<1>4. steps' = [CallSteps EXCEPT ![CallStep] = new] BY <1>1, <1>2
<1>5. StepsQuiet /\ \A n \in DOMAIN steps \ {CallStep} : steps'[n] = steps[n]
  BY <1>1, <1>3, <1>4, CallStepQuiet
<1>6. QED BY <1>5, AbandonedQuiet

LEMMA PrepareDeadlineQuiet ==
  ASSUME TInv, KInv, NEW w \in Workers, PrepareDeadline(w) PROVE Quiet
<1>1. PICK e \in Entries(w) : task' = [task EXCEPT !.active = e.active] /\ works' = e.works
  BY DEF PrepareDeadline
<1>2. /\ steps' = [CallSteps EXCEPT ![CallStep] = FailedStep(@)]
      /\ attempts' = AbandonedOf(CallStep)
  BY DEF PrepareDeadline
<1>3. QED BY <1>1, <1>2, CallFailsQuiet, EntryQuiet, TaskGoesOn DEF Quiet

LEMMA PrepareRejectsQuiet ==
  ASSUME TInv, KInv, NEW w \in Workers, PrepareRejects(w) PROVE Quiet
<1>1. PICK e \in Entries(w), stopped \in BOOLEAN :
        /\ task' = [task EXCEPT !.active = e.active,
                                !.status = IF stopped THEN "paused" ELSE @]
        /\ works' = e.works
  BY DEF PrepareRejects
<1>2. /\ steps' = [CallSteps EXCEPT ![CallStep] = FailedStep(@)]
      /\ attempts' = AbandonedOf(CallStep)
  BY DEF PrepareRejects
<1>3. PICK status : status = IF stopped THEN "paused" ELSE task.status OBVIOUS
<1>4. task' = [task EXCEPT !.active = e.active, !.status = status] BY <1>1, <1>3
<1>5. task.status # "completed" BY DEF Entries, ActiveStatuses
<1>6. TaskQuiet /\ task'.calls = task.calls BY <1>3, <1>4, <1>5, TaskStopping DEF Stoppings
<1>7. QED BY <1>1, <1>2, <1>6, CallFailsQuiet, EntryQuiet DEF Quiet

LEMMA PrepareHeldQuiet ==
  ASSUME TInv, KInv, NEW w \in Workers, PrepareHeld(w) PROVE Quiet
<1>1. PICK e \in Entries(w) : task' = [task EXCEPT !.active = e.active] /\ works' = e.works
  BY DEF PrepareHeld
<1>2. steps' = CallSteps /\ attempts' = AbandonedOf(CallStep) BY DEF PrepareHeld
<1>3. StepsQuiet /\ \A n \in DOMAIN steps : steps'[n] = steps[n] BY <1>2, CallStepsQuiet
<1>4. AttemptsQuiet BY <1>2, <1>3, AbandonedQuiet
<1>5. QED BY <1>1, <1>3, <1>4, EntryQuiet, TaskGoesOn DEF Quiet

\* A reservation is only made while no work and no call is under way.
LEMMA ReservationQuiet ==
  ASSUME TInv, ~Calling, NEW rows, WorksMove(rows), DOMAIN rows = DOMAIN works,
         \A i \in DOMAIN works : ~(rows[i].status = "running" /\ rows[i].live),
         NEW work \in FitWorks, works' = Append(rows, work)
  PROVE  WorksQuiet
<1>1. rows \in Seq(FitWorks) BY DEF WorksMove
<1>2. /\ DOMAIN works' = DOMAIN rows \cup {Len(rows) + 1}
      /\ \A i \in DOMAIN rows : works'[i] = rows[i]
  BY <1>1, SeqAppend
<1>3. QED BY <1>2 DEF WorksQuiet

LEMMA PrepareFilesQuiet ==
  ASSUME TInv, KInv, NEW w \in Workers, PrepareFiles(w) PROVE Quiet
<1>1. PICK e \in Entries(w) : Callable(e) /\ works' = Append(e.works, Reservation(e.active))
  BY DEF PrepareFiles
<1>2. steps' = CallSteps /\ task' = [task EXCEPT !.active = task.limit] /\ attempts' = attempts
  BY DEF PrepareFiles
<1>3. ~Calling BY <1>1 DEF Callable
<1>4. e.active \in Nat /\ WorksMove(e.works) BY EntryFacts
<1>5. PICK work \in FitWorks : work = Reservation(e.active)
  BY <1>1, <1>4, CallableTime, ReservationFits
<1>6. PICK rows : rows = e.works OBVIOUS
<1>7. /\ DOMAIN rows = DOMAIN works
      /\ \A i \in DOMAIN works : ~(rows[i].status = "running" /\ rows[i].live)
  BY <1>6, EntryQuiet
<1>8. works' = Append(rows, work) BY <1>1, <1>5, <1>6
<1>9. WorksQuiet BY <1>3, <1>4, <1>6, <1>7, <1>8, ReservationQuiet
<1>10. StepsQuiet /\ \A n \in DOMAIN steps : steps'[n] = steps[n] BY <1>2, CallStepsQuiet
<1>11. AttemptsQuiet BY <1>2, <1>10, AttemptsStay DEF ModelsStay
<1>12. QED BY <1>2, <1>9, <1>10, <1>11, TaskGoesOn DEF Quiet

\* A step that changes one attempt and nothing else of the rows.
LEMMA AttemptOnly ==
  ASSUME TInv, NEW k, NEW new, attempts' = [attempts EXCEPT ![k] = new],
         k \in DOMAIN attempts /\ new.status = "running" /\ new.live
           => new.charged = attempts[k].charged,
         UNCHANGED <<task, steps, works>>
  PROVE  Quiet
<1>1. StepsQuiet /\ ModelsStay BY StepsStay
<1>2. AttemptsQuiet BY <1>1, AttemptChanges
<1>3. QED BY <1>1, <1>2, WorksStay, TaskUnchanged DEF Quiet

LEMMA ObserveQuiet == ASSUME TInv, NEW w \in Workers, Observe(w) PROVE Quiet
<1>1. /\ worker[w].phase = "answered" /\ UNCHANGED <<task, steps, works>>
      /\ attempts' = [attempts EXCEPT ![worker[w].attempt] =
                        Observed(@, worker[w].result = "answer", worker[w].elapsed)]
  BY DEF Observe
<1>2. PICK a : a = worker[w].attempt OBVIOUS
<1>3. a \in DOMAIN attempts BY <1>1, <1>2 DEF TInv, Carries, CallPhases
<1>4. PICK known \in BOOLEAN : known = (worker[w].result = "answer") OBVIOUS
<1>5. PICK elapsed \in Nat : elapsed = worker[w].elapsed BY DEF TInv, WorkerRows
<1>6. PICK new : new = Observed(attempts[a], known, elapsed) OBVIOUS
<1>7. new.charged = attempts[a].charged BY <1>3, <1>6, OwnRows, ObservedRow
<1>8. attempts' = [attempts EXCEPT ![a] = new] BY <1>1, <1>2, <1>4, <1>5, <1>6
<1>9. QED BY <1>1, <1>7, <1>8, AttemptOnly

LEMMA SettleLostQuiet == ASSUME TInv, NEW w \in Workers, SettleLost(w) PROVE Quiet
<1>1. /\ worker[w].phase = "observed" /\ UNCHANGED <<task, steps, works>>
      /\ attempts' = [attempts EXCEPT ![worker[w].attempt].late =
                        IF worker[w].result = "timeout" THEN "armed" ELSE @]
  BY DEF SettleLost
<1>2. PICK a : a = worker[w].attempt OBVIOUS
<1>3. PICK at \in AttemptRows : at = attempts[a] BY <1>1, <1>2, SettlesWhat
<1>4. PICK late : late = IF worker[w].result = "timeout" THEN "armed" ELSE at.late OBVIOUS
<1>5. PICK new : new = [at EXCEPT !.late = late] OBVIOUS
<1>6. new.charged = attempts[a].charged BY <1>3, <1>5 DEF AttemptRows
<1>7. attempts' = [attempts EXCEPT ![a] = new] BY <1>1, <1>2, <1>3, <1>4, <1>5
<1>8. QED BY <1>1, <1>6, <1>7, AttemptOnly

LEMMA LateTimeQuiet ==
  ASSUME TInv, NEW a \in DOMAIN attempts, LeaseEnds(a) \/ LateLost(a) \/ LateObserve(a)
  PROVE  Quiet
<1>1. UNCHANGED <<task, steps, works>> BY DEF LeaseEnds, LateLost, LateObserve
<1>2. PICK at \in AttemptRows : at = attempts[a] BY OwnRows
<1>3. CASE LeaseEnds(a)
  <2>1. PICK new : new = [at EXCEPT !.live = FALSE] OBVIOUS
  <2>2. attempts' = [attempts EXCEPT ![a] = new] BY <1>2, <1>3, <2>1 DEF LeaseEnds
  <2>3. new.charged = attempts[a].charged BY <1>2, <2>1 DEF AttemptRows
  <2>4. QED BY <1>1, <2>2, <2>3, AttemptOnly
<1>4. CASE LateLost(a)
  <2>1. PICK new : new = [at EXCEPT !.late = "none"] OBVIOUS
  <2>2. attempts' = [attempts EXCEPT ![a] = new] BY <1>2, <1>4, <2>1 DEF LateLost
  <2>3. new.charged = attempts[a].charged BY <1>2, <2>1 DEF AttemptRows
  <2>4. QED BY <1>1, <2>2, <2>3, AttemptOnly
<1>5. CASE LateObserve(a)
  <2>1. PICK reported \in BOOLEAN :
          attempts' = [attempts EXCEPT ![a] =
                         [Observed(@, reported, @.reserved + 1) EXCEPT !.late = "observed"]]
    BY <1>5 DEF LateObserve
  <2>2. at.reserved + 1 \in Nat BY DEF AttemptRows
  <2>3. PICK mid : mid = Observed(at, reported, at.reserved + 1) OBVIOUS
  <2>4. mid \in AttemptRows /\ mid.charged = at.charged
    BY <2>2, <2>3, ObservedRow DEF AttemptKept
  <2>5. PICK new : new = [mid EXCEPT !.late = "observed"] OBVIOUS
  <2>6. new.charged = attempts[a].charged BY <1>2, <2>4, <2>5 DEF AttemptRows
  <2>7. attempts' = [attempts EXCEPT ![a] = new] BY <1>2, <2>1, <2>3, <2>5
  <2>8. QED BY <1>1, <2>6, <2>7, AttemptOnly
<1>6. QED BY <1>3, <1>4, <1>5

\* The charge of a settled attempt changes nothing else of its step.
LEMMA ChargedQuiet ==
  ASSUME TInv, NEW w \in Workers, worker[w].phase = "observed", SettlementFits(w)
  PROVE  /\ StepQuiet(steps[worker[w].step], Charged(w))
         /\ Charged(w) \in FitSteps
         /\ Charged(w).model = steps[worker[w].step].model
<1>1. steps[worker[w].step] \in FitSteps BY SettlesWhat
<1>2. Charged(w) \in FitSteps /\ Charged(w).model = steps[worker[w].step].model
  BY ChargedKept DEF StepKept
<1>3. QED BY <1>1, <1>2 DEF Charged, StepQuiet, FitSteps, StepRows

LEMMA SettleLateQuiet == ASSUME TInv, KInv, NEW w \in Workers, SettleLate(w) PROVE Quiet
<1>1. /\ worker[w].phase = "observed" /\ SettlementFits(w) /\ ~LiveAttempt(worker[w].attempt)
      /\ attempts' = [attempts EXCEPT ![worker[w].attempt] =
                        SettledRow(w, SettledLate(@, worker[w].result, worker[w].result = "answer"))]
      /\ steps' = [steps EXCEPT ![worker[w].step].spent = SpentAfter(w)]
      /\ task' = [task EXCEPT !.active = ActiveAfter(w)]
      /\ works' = works
  BY DEF SettleLate
<1>2. StepsQuiet /\ ModelsStay
  <2>1. PICK new : new = Charged(w) OBVIOUS
  <2>2. StepQuiet(steps[worker[w].step], new) /\ new.model = steps[worker[w].step].model
    BY <1>1, <2>1, ChargedQuiet
  <2>3. steps' = [steps EXCEPT ![worker[w].step] = new] BY <1>1, <2>1 DEF Charged
  <2>4. QED BY <2>2, <2>3, StepChanges
<1>3. AttemptsQuiet
  <2>1. PICK a : a = worker[w].attempt OBVIOUS
  <2>2. PICK at \in AttemptRows : at = attempts[a] BY <1>1, <2>1, SettlesWhat
  <2>3. PICK known \in BOOLEAN : known = (worker[w].result = "answer") OBVIOUS
  <2>4. PICK mid : mid = SettledLate(at, worker[w].result, known) OBVIOUS
  <2>5. PICK new : new = SettledRow(w, mid) OBVIOUS
  <2>6. AttemptKept(at, mid) /\ mid.status = at.status /\ mid.live = at.live
    BY <2>3, <2>4, SettledLateRow, ZenonT(60)
  <2>7. new.status = at.status /\ new.live = at.live
    <3>1. AttemptKept(at, mid) BY <2>6
    <3>2. SettledRow(w, mid).status = mid.status /\ SettledRow(w, mid).live = mid.live
      BY <3>1 DEF SettledRow, TimeSettled, AttemptKept, AttemptRows
    <3>3. QED BY <2>5, <2>6, <3>2
  <2>8. attempts' = [attempts EXCEPT ![a] = new] BY <1>1, <2>1, <2>2, <2>3, <2>4, <2>5
  <2>9. a \in DOMAIN attempts BY <1>1, <2>1, SettlesWhat
  <2>10. ~(at.status = "running" /\ at.live)
    BY <1>1, <2>1, <2>2, <2>9 DEF LiveAttempt, KInv, RunningModels, Running
  <2>11. QED BY <1>2, <2>7, <2>8, <2>10, AttemptChanges
<1>4. QED BY <1>1, <1>2, <1>3, TaskGoesOn, WorksStay DEF Quiet

\* A settlement of the live attempt ends it, and no other attempt of its step
\* runs.
LEMMA LiveEndsQuiet ==
  ASSUME TInv, KInv, NEW w \in Workers, SettlesLive(w),
         NEW new, steps' = [steps EXCEPT ![worker[w].step] = new]
  PROVE  /\ AttemptsQuiet
         /\ worker[w].attempt \in DOMAIN attempts
         /\ OnLease(worker[w].attempt)
         /\ attempts[worker[w].attempt].step = worker[w].step
         /\ \E mid : /\ attempts'[worker[w].attempt] = SettledRow(w, mid)
                     /\ mid = SettledLive(attempts[worker[w].attempt], worker[w].result)
                     /\ AttemptKept(attempts[worker[w].attempt], mid)
                     /\ mid.status # "running"
         /\ attempts'[worker[w].attempt].status # "running"
<1>1. /\ worker[w].phase = "observed" /\ LiveAttempt(worker[w].attempt)
      /\ attempts' = [attempts EXCEPT ![worker[w].attempt] =
                        SettledRow(w, SettledLive(@, worker[w].result))]
  BY DEF SettlesLive
<1>2. PICK k : k = worker[w].attempt OBVIOUS
<1>3. PICK n : n = worker[w].step OBVIOUS
<1>4. k \in DOMAIN attempts /\ attempts[k].step = n /\ attempts[k] \in AttemptRows
  BY <1>1, <1>2, <1>3, SettlesWhat
<1>5. OnLease(k) BY <1>1, <1>2 DEF LiveAttempt, OnLease, Running
<1>6. PICK mid : mid = SettledLive(attempts[k], worker[w].result) OBVIOUS
<1>7. PICK row : row = SettledRow(w, mid) OBVIOUS
<1>8. AttemptKept(attempts[k], mid) /\ mid.status # "running"
  BY <1>4, <1>5, <1>6, SettledLiveRow DEF OnLease, Running
<1>9. row.status # "running"
  <2>1. PICK at : at = attempts[k] OBVIOUS
  <2>2. AttemptKept(at, mid) BY <1>8, <2>1
  <2>3. SettledRow(w, mid).status = mid.status
    BY <2>2 DEF SettledRow, TimeSettled, AttemptKept, AttemptRows
  <2>4. QED BY <1>7, <1>8, <2>3
<1>10. attempts' = [attempts EXCEPT ![k] = row] BY <1>1, <1>2, <1>6, <1>7
<1>11. /\ DOMAIN attempts' = DOMAIN attempts
       /\ \A a \in DOMAIN attempts : attempts'[a] = IF a = k THEN row ELSE attempts[a]
  BY <1>10
<1>12. \A a \in DOMAIN attempts :
          attempts'[a].status = "running" => a # k /\ attempts[a].step # n
  BY <1>4, <1>5, <1>9, <1>11 DEF KInv, OneRunning, OnLease, Running
<1>13. \A a \in DOMAIN attempts : attempts[a].step \in DOMAIN steps BY DEF TInv
<1>14. \A m \in DOMAIN steps : m # n => steps'[m] = steps[m] BY <1>3
<1>15. AttemptsQuiet BY <1>11, <1>12, <1>13, <1>14 DEF AttemptsQuiet
<1>16. attempts'[k] = row BY <1>4, <1>11
<1>17. QED BY <1>2, <1>3, <1>4, <1>5, <1>6, <1>7, <1>8, <1>9, <1>15, <1>16

LEMMA LiveSettledQuiet ==
  ASSUME TInv, KInv, NEW w \in Workers, SettlesLive(w), NEW new,
         StepQuiet(steps[worker[w].step], new),
         steps' = [steps EXCEPT ![worker[w].step] = new],
         TaskQuiet, task'.calls = task.calls
  PROVE  Quiet
<1>1. works' = works BY DEF SettlesLive
<1>2. StepsQuiet BY StepChanges
<1>3. AttemptsQuiet BY LiveEndsQuiet
<1>4. QED BY <1>1, <1>2, <1>3, WorksStay DEF Quiet

LEMMA ChargedFailsQuiet ==
  ASSUME TInv, NEW w \in Workers, SettlesLive(w)
  PROVE  /\ StepQuiet(steps[worker[w].step], FailedStep(Charged(w)))
         /\ StepQuiet(steps[worker[w].step], [Charged(w) EXCEPT !.model = "pending", !.due = FALSE])
<1>1. PICK st : st = steps[worker[w].step] OBVIOUS
<1>2. PICK new : new = Charged(w) OBVIOUS
<1>3. StepQuiet(st, new) /\ new \in FitSteps
  BY <1>1, <1>2, ChargedQuiet DEF SettlesLive
<1>4. StepQuiet(st, FailedStep(new))
  BY <1>3 DEF StepQuiet, FailedStep, FitSteps, StepRows
<1>5. StepQuiet(st, [new EXCEPT !.model = "pending", !.due = FALSE])
  BY <1>3 DEF StepQuiet, FitSteps, StepRows
<1>6. QED BY <1>1, <1>2, <1>4, <1>5

LEMMA SettleFailureQuiet ==
  ASSUME TInv, KInv, NEW w \in Workers, SettleFailure(w) PROVE Quiet
<1>1. SettlesLive(w) /\ task' = [task EXCEPT !.active = ActiveAfter(w)] BY DEF SettleFailure
<1>2. PICK new : /\ steps' = [steps EXCEPT ![worker[w].step] = new]
                 /\ \/ new = [Charged(w) EXCEPT !.model = "pending", !.due = FALSE]
                    \/ new = FailedStep(Charged(w))
  BY DEF SettleFailure
<1>3. StepQuiet(steps[worker[w].step], new) BY <1>1, <1>2, ChargedFailsQuiet
<1>4. QED BY <1>1, <1>2, <1>3, TaskGoesOn, LiveSettledQuiet

\* A live attempt keeps its task from being completed.
LEMMA LiveTask ==
  ASSUME TInv, KInv, NEW w \in Workers, SettlesLive(w)
  PROVE  Calling /\ task.status \in {"pending", "waiting-approval", "paused", "failed"}
<1>1. worker[w].phase = "observed" /\ LiveAttempt(worker[w].attempt) BY DEF SettlesLive
<1>2. worker[w].attempt \in DOMAIN attempts BY <1>1, SettlesWhat
<1>3. Calling BY <1>1, <1>2 DEF Calling
<1>4. QED BY <1>3 DEF KInv, CallStatus

LEMMA StoppingQuiet ==
  ASSUME TInv, KInv, NEW w \in Workers, SettlesLive(w), NEW stopped \in Stoppings,
         steps' = [steps EXCEPT ![worker[w].step] = FailedStep(Charged(w))],
         task' = [task EXCEPT !.active = ActiveAfter(w), !.status = stopped]
  PROVE  Quiet
<1>1. PICK new : new = FailedStep(Charged(w)) OBVIOUS
<1>2. StepQuiet(steps[worker[w].step], new) BY <1>1, ChargedFailsQuiet
<1>3. task.status # "completed" BY LiveTask
<1>4. TaskQuiet /\ task'.calls = task.calls BY <1>3, TaskStopping
<1>5. QED BY <1>1, <1>2, <1>4, LiveSettledQuiet

LEMMA SettleWithdrawnQuiet ==
  ASSUME TInv, KInv, NEW w \in Workers, SettleWithdrawn(w) PROVE Quiet
BY StoppingQuiet DEF SettleWithdrawn, Stoppings

LEMMA SettleLimitedQuiet ==
  ASSUME TInv, KInv, NEW w \in Workers, SettleLimited(w) PROVE Quiet
BY StoppingQuiet DEF SettleLimited, Stoppings

LEMMA RecoveryQuiet ==
  ASSUME TInv, NEW rows, DOMAIN rows = DOMAIN attempts,
         \A a \in DOMAIN attempts :
            AttemptKept(attempts[a], rows[a]) /\ rows[a].charged = attempts[a].charged,
         recoverTaskModelUsage(rows), UNCHANGED <<works, used>>
  PROVE  Quiet
<1>1. /\ TaskMoves /\ task'.status = task.status
      /\ DOMAIN attempts' = DOMAIN attempts /\ DOMAIN steps' = DOMAIN steps
      /\ \A a \in DOMAIN attempts :
           attempts'[a] = IF a \in Recoverable THEN Recovered(rows[a]) ELSE rows[a]
      /\ \A n \in DOMAIN steps :
           steps'[n] = [steps[n] EXCEPT !.spent = SpentAfterRecovery(n)]
  BY RecoveryRows
<1>2. \A n \in DOMAIN steps :
         StepQuiet(steps[n], steps'[n]) /\ steps'[n].model = steps[n].model
  <2> TAKE n \in DOMAIN steps
  <2>1. steps[n] \in FitSteps BY SeqIndices DEF TInv
  <2>2. QED BY <1>1, <2>1 DEF StepQuiet, FitSteps, StepRows
<1>3. StepsQuiet BY <1>1, <1>2 DEF StepsQuiet
<1>4. \A a \in DOMAIN attempts : attempts[a].step \in DOMAIN steps BY DEF TInv
<1>5. \A a \in DOMAIN attempts : rows[a] \in AttemptRows BY DEF AttemptKept
<1>6. \A a \in DOMAIN attempts : Recovered(rows[a]).status # "running" BY <1>5, RecoveredRow
<1>7. AttemptsQuiet BY <1>1, <1>2, <1>4, <1>6 DEF AttemptsQuiet
<1>8. TaskQuiet /\ task'.calls = task.calls
  <2>1. PICK active : task' = [task EXCEPT !.active = active] BY DEF recoverTaskModelUsage
  <2>2. QED BY <2>1, TaskGoesOn
<1>9. QED BY <1>3, <1>7, <1>8, WorksStay DEF Quiet

LEMMA RecoverQuiet == ASSUME TInv, NEW w \in Workers, Recover(w) PROVE Quiet
<1>1. recoverTaskModelUsage(attempts) /\ UNCHANGED <<works, used>> BY DEF Recover
<1>2. PICK rows : rows = attempts OBVIOUS
<1>3. QED BY <1>1, <1>2, OwnRows, RecoveryQuiet

LEMMA LateRecoverQuiet == ASSUME TInv, NEW a \in DOMAIN attempts, LateRecover(a) PROVE Quiet
<1>1. UNCHANGED <<works, used>> BY DEF LateRecover
<1>2. CASE recoverTaskModelUsage(LateOver(a))
  <2>1. PICK rows : rows = LateOver(a) OBVIOUS
  <2>2. DOMAIN rows = DOMAIN attempts /\ \A b \in DOMAIN attempts : AttemptKept(attempts[b], rows[b])
    BY <2>1, LateOverRows
  <2>3. \A b \in DOMAIN attempts : rows[b].charged = attempts[b].charged
    <3>1. rows[a] = [attempts[a] EXCEPT !.late = "none"] BY <2>1, LateOverRows
    <3>2. rows[a].charged = attempts[a].charged BY <3>1, OwnRows DEF AttemptRows
    <3>3. \A b \in DOMAIN attempts \ {a} : rows[b] = attempts[b] BY <2>1, LateOverRows
    <3>4. QED BY <3>2, <3>3
  <2>4. \A b \in DOMAIN attempts :
           AttemptKept(attempts[b], rows[b]) /\ rows[b].charged = attempts[b].charged
    BY <2>2, <2>3
  <2>5. recoverTaskModelUsage(rows) BY <1>2, <2>1
  <2>6. QED BY ONLY TInv, <1>1, <2>2, <2>4, <2>5, RecoveryQuiet
<1>3. CASE attempts' = LateOver(a) /\ UNCHANGED <<task, steps>>
  <2>1. PICK new : new = [attempts[a] EXCEPT !.late = "none"] OBVIOUS
  <2>2. attempts' = [attempts EXCEPT ![a] = new] BY <1>3, <2>1 DEF LateOver
  <2>3. new.charged = attempts[a].charged BY <2>1, OwnRows DEF AttemptRows
  <2>4. QED BY <1>1, <1>3, <2>2, <2>3, AttemptOnly
<1>4. QED BY <1>2, <1>3 DEF LateRecover, LateOver

-----------------------------------------------------------------------------
(* The second layer, action by action: the steps that are not quiet. *)

\* No call is made for another step than the open one, and none while a tool's
\* call waits.
LEMMA NoneBeside ==
  ASSUME TInv, KInv, NEW n \in OpenSteps, steps[n].model # "running"
  PROVE  ~Calling
<1>1. SUFFICES ASSUME NEW a \in DOMAIN attempts, LiveAttempt(a) PROVE FALSE BY DEF Calling
<1>2. PICK m : m = attempts[a].step OBVIOUS
<1>3. m \in DOMAIN steps /\ steps[m] \in FitSteps BY <1>2, SeqIndices DEF TInv
<1>4. steps[m].model = "running" BY <1>1, <1>2 DEF LiveAttempt
<1>5. ~steps[m].done BY <1>3, <1>4 DEF FitSteps
<1>6. steps[m].run = task.generation BY <1>1, <1>2 DEF KInv, LiveNow
<1>7. m \in OpenSteps BY <1>3, <1>5, <1>6 DEF OpenSteps
<1>8. QED BY <1>4, <1>7 DEF KInv, OneOpen

LEMMA WaitingOpen ==
  ASSUME TInv, KInv, NEW n \in DOMAIN steps, steps[n].call = "waiting"
  PROVE  n \in OpenSteps /\ steps[n].model = "committed" /\ steps[n].route # "inside"
<1>1. steps[n] \in FitSteps BY SeqIndices DEF TInv
<1>2. steps[n].route # "inside" /\ steps[n].decision = "tools" BY <1>1 DEF FitSteps
<1>3. steps[n].model = "committed" BY <1>1, <1>2 DEF FitSteps
<1>4. ~steps[n].done BY <1>1, <1>2 DEF FitSteps, CallEnds
<1>5. steps[n].run = task.generation BY DEF KInv, WaitingNow
<1>6. QED BY <1>2, <1>3, <1>4, <1>5 DEF OpenSteps

LEMMA PrepareCallSafe == ASSUME TInv, KInv, NEW w \in Workers, PrepareCall(w) PROVE StepSafe
<1>1. PICK e \in Entries(w), milliseconds \in Nat : Called(e, milliseconds) BY PrepareCallRows
<1>2. /\ works' = e.works /\ task' = [task EXCEPT !.active = e.active + milliseconds]
      /\ ~Calling /\ AtModel
  BY <1>1 DEF Called, Callable
<1>3. PICK k : k = CallStep OBVIOUS
<1>4. PICK new : new = NewIndex OBVIOUS
<1>5. /\ k \in DOMAIN steps' /\ k \in Nat
      /\ steps'[k].model = "running"
      /\ \A n \in DOMAIN steps \ {k} : steps'[n] = steps[n]
      /\ new \notin DOMAIN attempts
      /\ DOMAIN attempts' = DOMAIN attempts \cup {new}
      /\ attempts'[new] = NewAttempt(k, milliseconds)
      /\ \A a \in DOMAIN attempts :
           attempts'[a] = IF attempts[a].step = k THEN Abandoned(attempts[a]) ELSE attempts[a]
  BY <1>1, <1>3, <1>4, CalledRows
<1>6. Moves BY PrepareCallMoves
<1>7. /\ attempts'[new].step = k /\ attempts'[new].status = "running"
      /\ attempts'[new].live /\ attempts'[new].charged = Open
  BY <1>5 DEF NewAttempt
<1>8. \A a \in DOMAIN attempts : attempts'[a].status = "running" =>
         attempts[a].step # k /\ attempts'[a] = attempts[a]
  BY <1>5, OwnRows, AbandonedRow, ZenonT(60)
<1>9. \A a \in DOMAIN attempts : attempts[a].step \in DOMAIN steps BY DEF TInv
<1>10. \A a \in DOMAIN attempts : ~OnLease(a)
  BY <1>2 DEF KInv, RunningModels, Running, OnLease, Calling, LiveAttempt
<1>11. RunningModels' BY <1>5, <1>7, <1>8, <1>9 DEF KInv, RunningModels, Running
<1>12. OneRunning' BY <1>5, <1>7, <1>8 DEF KInv, OneRunning, Running
<1>13. \A a \in DOMAIN attempts : ~(attempts'[a].status = "running" /\ attempts'[a].live)
  BY <1>8, <1>10 DEF OnLease, Running
<1>14. OneOnLease' BY <1>5, <1>13 DEF OneOnLease, OnLease, Running
<1>15. LeaseUncharged' BY <1>5, <1>7, <1>13 DEF LeaseUncharged, OnLease, Running
<1>16. ~Working' /\ OneWorkLive'
  BY <1>2, EntryQuiet DEF Working, OneWorkLive, LiveWork
<1>17. task.status \in ActiveStatuses BY EntryFacts
<1>18. task'.generation = task.generation /\ task'.calls = task.calls
       /\ task'.status = task.status /\ TaskQuiet
  BY <1>2, TaskGoesOn DEF TInv, TaskRows
<1>19. CallStatus' /\ WorkAlone' /\ CompletedClosed'
  BY <1>16, <1>17, <1>18 DEF CallStatus, WorkAlone, CompletedClosed, ActiveStatuses
<1>20. StepsQuiet
  <2>1. PICK old \in FitSteps : old = CallSteps[CallStep] /\ old.model \in {"pending", "running"}
                                /\ old.spent + ReservedCost <= Budget
    BY <1>1, CallStepMoves DEF Called, Callable
  <2>2. PICK row : row = CalledStep(old) OBVIOUS
  <2>3. StepQuiet(old, row) BY <2>1, <2>2 DEF CalledStep, StepQuiet, FitSteps, StepRows
  <2>4. StepKept(old, row) BY <2>1, <2>2, CalledStepKept
  <2>5. steps' = [CallSteps EXCEPT ![CallStep] = row] BY <1>1, <2>1, <2>2 DEF Called
  <2>6. QED BY <2>1, <2>3, <2>4, <2>5, CallStepQuiet
<1>27. LiveNow'
  <2>1. \A a \in DOMAIN attempts' : LiveAttempt(a)' => a = new
    BY <1>5, <1>13 DEF LiveAttempt
  <2>2. steps'[k].run = task.generation BY <1>1, <1>3, CalledRows
  <2>3. QED BY <1>7, <1>18, <2>1, <2>2 DEF LiveNow
<1>21. OneOpen' /\ WaitingNow' /\ WinnersPaid' /\ CallsCountedOnce'
  BY <1>6, <1>18, <1>20, QuietParts, QuietOpen, QuietWaiting, QuietWinners, QuietAdmissions
<1>22. KInv'
  BY <1>11, <1>12, <1>14, <1>15, <1>16, <1>19, <1>21, <1>27 DEF KInv
<1>23. Calling' BY <1>5, <1>7 DEF Calling, LiveAttempt
<1>24. Promise!Call
  <2>1. PICK now \in BOOLEAN : now = Calling' BY DEF Calling
  <2>2. Calling' = TRUE BY <1>23, <2>1
  <2>3. QED BY <1>2, <1>17, <1>18, <2>2 DEF Promise!Call, Promise!Active, ActiveStatuses
<1>25. \A n \in DOMAIN steps : StepQuiet(steps[n], steps'[n]) BY <1>20 DEF StepsQuiet
<1>26. QED BY <1>22, <1>24, <1>25 DEF StepSafe, StepQuiet, Promise!PNext

\* What a settlement writes to the row of an attempt that answered.
LEMMA AnsweredRow ==
  ASSUME NEW w, NEW at \in AttemptRows, at.charged = Open
  PROVE  /\ SettledRow(w, SettledLive(at, "answer")).status = "succeeded"
         /\ SettledRow(w, SettledLive(at, "answer")).charged = KnownCost
         /\ SettledRow(w, SettledLive(at, "answer")).step = at.step
<1>1. definitiveCharge("answer", TRUE) = KnownCost BY DEF definitiveCharge, Unanswered
<1>2. KnownCost # Open BY CostsFit DEF Open
<1>3. PICK mid : mid = SettledLive(at, "answer") OBVIOUS
<1>4. mid = [at EXCEPT !.status = "succeeded", !.noted = TRUE, !.known = TRUE,
                       !.charged = KnownCost]
  BY <1>1, <1>2, <1>3 DEF SettledLive, settleCredits, Successes
<1>5. PICK late : SettledRow(w, mid) = [TimeSettled(mid) EXCEPT !.late = late] BY DEF SettledRow
<1>6. /\ mid.status = "succeeded" /\ mid.charged = KnownCost /\ mid.step = at.step
      /\ DOMAIN mid = DOMAIN at
  BY <1>4 DEF AttemptRows
<1>7. PICK row : row = TimeSettled(mid) OBVIOUS
<1>8. /\ row.status = "succeeded" /\ row.charged = KnownCost /\ row.step = at.step
      /\ DOMAIN row = DOMAIN at
  BY <1>6, <1>7 DEF TimeSettled, AttemptRows
<1>9. PICK last : last = SettledRow(w, mid) OBVIOUS
<1>10. last.status = "succeeded" /\ last.charged = KnownCost /\ last.step = at.step
  BY <1>5, <1>7, <1>8, <1>9 DEF AttemptRows
<1>11. QED BY <1>3, <1>9, <1>10

LEMMA SettlePublishedSafe ==
  ASSUME TInv, KInv, NEW w \in Workers, SettlePublished(w) PROVE StepSafe
<1>1. SettlesLive(w) /\ ~Interrupted(w) /\ worker[w].result = "answer"
  BY PublishesWhat DEF SettlePublished, Decisive
<1>2. PICK decision \in Publishable, route \in Routes :
        /\ decision # "tools" => route = "inside"
        /\ steps' = [steps EXCEPT ![worker[w].step] = Published(w, decision, route)]
        /\ task' = [task EXCEPT !.active = ActiveAfter(w), !.status = StatusAfter(decision)]
  BY PublishesWhat
<1>3. Moves BY SettlePublishedMoves
<1>4. PICK n : n = worker[w].step OBVIOUS
<1>5. PICK k : k = worker[w].attempt OBVIOUS
<1>6. PICK new : new = Published(w, decision, route) OBVIOUS
<1>7. /\ AttemptsQuiet /\ k \in DOMAIN attempts /\ OnLease(k) /\ attempts[k].step = n
      /\ attempts'[k].status # "running"
      /\ attempts'[k] = SettledRow(w, SettledLive(attempts[k], worker[w].result))
  BY <1>1, <1>2, <1>4, <1>5, LiveEndsQuiet
<1>8. /\ n \in DOMAIN steps /\ steps[n] \in FitSteps /\ steps[n].model = "running"
      /\ worker[w].phase = "observed" /\ SettlementFits(w)
  BY <1>1, <1>4, LiveStep
<1>9. /\ new.model = "committed" /\ new.decision = decision /\ new.winner = k
      /\ new.admitted = Charged(w).admitted /\ new.run = steps[n].run
      /\ new.call \in {"none", "pending"}
      /\ new.done = (decision \in {"answer", "conflict"})
      /\ StatusAfter(decision) \in {"pending", "waiting-approval", "waiting-clarification",
                                    "completed"}
      /\ StatusAfter(decision) = "completed" => decision = "answer"
  BY <1>1, <1>2, <1>4, <1>5, <1>6, PublishedRow
<1>10. /\ DOMAIN steps' = DOMAIN steps /\ steps'[n] = new
       /\ \A m \in DOMAIN steps \ {n} : steps'[m] = steps[m]
  BY <1>2, <1>4, <1>6, <1>8
<1>11. /\ RunningModels' /\ OneRunning' /\ OneOnLease' /\ LeaseUncharged'
       /\ (Calling' => Calling)
  BY <1>3, <1>7, QuietCalls
<1>12. ~Calling'
  <2>1. SUFFICES ASSUME NEW a \in DOMAIN attempts', attempts'[a].status = "running",
                        attempts'[a].live
                 PROVE  FALSE
    BY DEF Calling, LiveAttempt
  <2>2. a \in DOMAIN attempts /\ AttemptKept(attempts[a], attempts'[a])
    BY <1>3, <1>7 DEF AttemptsQuiet, Moves, AttemptsMove
  <2>3. OnLease(a) BY <2>1, <2>2 DEF AttemptKept, OnLease, Running
  <2>4. a = k BY <1>7, <2>2, <2>3 DEF KInv, OneOnLease
  <2>5. QED BY <1>7, <2>1, <2>4
<1>13. works' = works BY <1>1 DEF SettlesLive
<1>14. OneWorkLive' /\ WorkAlone' /\ CallStatus'
  BY <1>3, <1>12, <1>11, <1>13, WorksStay, QuietWorks DEF CallStatus
<1>15. PICK status : status = StatusAfter(decision) OBVIOUS
<1>16. task'.generation = task.generation /\ task'.calls = task.calls /\ task'.status = status
  BY <1>2, <1>15, TaskWith
<1>17. OneOpen' /\ \A m \in OpenSteps' : m \in DOMAIN steps => m \in OpenSteps
  BY <1>3, <1>16, QuietOpen
<1>18. task.status = "pending" /\ steps[n].run = task.generation
  BY <1>1, <1>4, <1>8, SettlesWhat DEF Interrupted
<1>19. CompletedClosed' /\ LiveNow' /\ WaitingNow'
  <2>1. LiveNow' BY <1>12 DEF LiveNow, Calling
  <2>2. WaitingNow' BY <1>3, <1>9, <1>10, <1>16, WaitingStays
  <2>3. CompletedClosed'
    <3>1. SUFFICES ASSUME task'.status = "completed", NEW m \in OpenSteps' PROVE FALSE
      BY DEF CompletedClosed
    <3>2. decision = "answer" BY <1>9, <1>15, <1>16, <3>1
    <3>3. m \in OpenSteps BY <1>10, <1>17 DEF OpenSteps
    <3>4. ~steps[n].done BY <1>1, <1>4, LiveStep
    <3>5. n \in OpenSteps BY <1>8, <1>18, <3>4 DEF OpenSteps
    <3>6. m = n BY <3>3, <3>5 DEF KInv, OneOpen
    <3>7. new.done BY <1>9, <3>2
    <3>8. QED BY <1>10, <3>6, <3>7 DEF OpenSteps
  <2>4. QED BY <2>1, <2>2, <2>3
<1>20. WinnersPaid'
  <2>1. SUFFICES ASSUME NEW m \in DOMAIN steps', steps'[m].model = "committed"
                 PROVE  /\ steps'[m].winner \in AttemptsOf(m)'
                        /\ attempts'[steps'[m].winner].status = "succeeded"
                        /\ attempts'[steps'[m].winner].charged = KnownCost
    BY DEF WinnersPaid
  <2>2. CASE m # n
    <3>1. m \in DOMAIN steps /\ steps[m].model = "committed" BY <1>10, <2>1, <2>2
    <3>2. QED BY <1>3, <3>1, WinnerStays
  <2>3. CASE m = n
    <3>1. steps'[m].winner = k BY <1>9, <1>10, <2>3
    <3>2. attempts[k].charged = Open BY <1>7 DEF KInv, LeaseUncharged
    <3>3. PICK at \in AttemptRows : at = attempts[k] BY <1>7, OwnRows
    <3>4. attempts'[k] = SettledRow(w, SettledLive(at, "answer")) BY <1>1, <1>7, <3>3
    <3>5. /\ attempts'[k].status = "succeeded" /\ attempts'[k].charged = KnownCost
          /\ attempts'[k].step = n
      BY <1>7, <3>2, <3>3, <3>4, AnsweredRow
    <3>6. k \in DOMAIN attempts' BY <1>7 DEF AttemptsQuiet
    <3>7. QED BY <2>3, <3>1, <3>5, <3>6 DEF AttemptsOf
  <2>4. QED BY <2>2, <2>3
<1>21. CallsCountedOnce'
  <2>1. StepQuiet(steps[n], Charged(w)) BY <1>4, <1>8, ChargedQuiet
  <2>2. new.admitted = steps[n].admitted BY <1>9, <2>1 DEF StepQuiet
  <2>3. AdmissionsQuiet BY <1>10, <2>2 DEF AdmissionsQuiet
  <2>4. QED BY <1>3, <1>16, <2>3, QuietAdmissions
<1>22. KInv' BY <1>11, <1>14, <1>17, <1>19, <1>20, <1>21 DEF KInv
<1>23. Promise!Publish
  <2>1. Calling BY <1>1, LiveTask
  <2>2. PICK now \in BOOLEAN : now = Calling BY DEF Calling
  <2>3. PICK then \in BOOLEAN : then = Calling' BY DEF Calling
  <2>4. Calling = TRUE /\ Calling' = FALSE BY <1>12, <2>1, <2>2, <2>3
  <2>5. status \in Promise!Statuses \ Promise!Stopped
    BY <1>9, <1>15 DEF Promise!Statuses, Promise!Active, Promise!Stopped
  <2>6. QED BY <1>16, <1>18, <2>4, <2>5 DEF Promise!Publish
<1>24. \A m \in DOMAIN steps : steps'[m].call = "completed" => steps[m].call = "completed"
  BY <1>9, <1>10
<1>25. task.status \in ActiveStatuses BY <1>18 DEF ActiveStatuses
<1>26. QED BY <1>22, <1>23, <1>24, <1>25 DEF StepSafe, Promise!PNext

LEMMA ToolAdmitSafe == ASSUME TInv, KInv, NEW w \in Workers, ToolAdmit(w) PROVE StepSafe
<1>1. PICK n : n = worker[w].step OBVIOUS
<1>2. /\ n \in DOMAIN steps /\ DOMAIN steps' = DOMAIN steps
      /\ steps'[n] = [steps[n] EXCEPT !.admitted = TRUE]
      /\ \A m \in DOMAIN steps \ {n} : steps'[m] = steps[m]
      /\ works' = Append(Swept, Reservation(task.active))
      /\ Reservation(task.active) \in FitWorks
      /\ task' = [task EXCEPT !.calls = Admissions(n), !.active = task.limit]
      /\ attempts' = attempts
  BY <1>1, AdmittedRows
<1>3. Moves BY ToolAdmitMoves
<1>4. steps[n] \in FitSteps BY <1>2, SeqIndices DEF TInv
<1>5. /\ steps'[n].decision = steps[n].decision /\ steps'[n].winner = steps[n].winner
      /\ steps'[n].model = steps[n].model /\ steps'[n].call = steps[n].call
      /\ steps'[n].done = steps[n].done /\ steps'[n].admitted = TRUE
  BY <1>2, <1>4 DEF FitSteps, StepRows
<1>6. DecisionsQuiet /\ EffectsQuiet /\ ModelsStay
  BY <1>2, <1>5 DEF DecisionsQuiet, EffectsQuiet, ModelsStay
<1>7. AttemptsQuiet BY <1>2, <1>6, AttemptsStay
<1>8. ~Calling /\ ~Working BY DEF ToolAdmit
<1>9. WorksQuiet
  <2>1. PICK rows : rows = Swept OBVIOUS
  <2>2. PICK work \in FitWorks : work = Reservation(task.active) BY <1>2
  <2>3. WorksMove(rows) /\ DOMAIN rows = DOMAIN works BY <2>1, SweptRows
  <2>4. \A i \in DOMAIN works : works[i] \in FitWorks BY SeqIndices DEF TInv
  <2>5. \A i \in DOMAIN works : ~(rows[i].status = "running" /\ rows[i].live)
    BY <1>8, <2>1, <2>4, SweptRows, SweptRowKept DEF Working, LiveWork
  <2>6. works' = Append(rows, work) BY <1>2, <2>1, <2>2
  <2>7. QED BY <1>8, <2>3, <2>5, <2>6, ReservationQuiet
<1>10. task'.generation = task.generation /\ task'.status = task.status
       /\ task'.calls = Admissions(n)
  BY <1>2 DEF TInv, TaskRows
<1>11. TaskQuiet BY <1>10 DEF TaskQuiet
<1>12. CallsCountedOnce'
  <2>1. PICK S : S = {m \in DOMAIN steps : steps[m].admitted} OBVIOUS
  <2>2. IsFiniteSet(S) BY <2>1, RowsFinite, FS_Subset
  <2>3. task.calls = Cardinality(S) BY <2>1 DEF KInv, CallsCountedOnce
  <2>4. {m \in DOMAIN steps' : steps'[m].admitted} = S \cup {n}
    BY <1>2, <1>5, <2>1
  <2>5. CASE steps[n].admitted
    <3>1. S \cup {n} = S BY <1>2, <2>1, <2>5
    <3>2. Admissions(n) = task.calls + 0 BY <2>5 DEF Admissions
    <3>3. task.calls + 0 = task.calls BY StatusTypes, ConstantsFit
    <3>4. QED BY <1>10, <2>3, <2>4, <3>1, <3>2, <3>3 DEF CallsCountedOnce
  <2>6. CASE ~steps[n].admitted
    <3>1. n \notin S BY <2>1, <2>6
    <3>2. Cardinality(S \cup {n}) = Cardinality(S) + 1 BY <2>2, <3>1, FS_AddElement
    <3>3. Admissions(n) = task.calls + 1 BY <2>6 DEF Admissions
    <3>4. QED BY <1>10, <2>3, <2>4, <3>2, <3>3 DEF CallsCountedOnce
  <2>7. QED BY <2>5, <2>6
<1>13. Calling' => Calling BY <1>3, <1>7, QuietCalls
<1>18. Grows BY <1>2 DEF Grows
<1>14. KInv'
  BY <1>3, <1>6, <1>7, <1>9, <1>10, <1>11, <1>12, <1>13, <1>18, QuietCalls, QuietWorks, QuietKeeps,
     QuietRuns, QuietStatus, QuietWaiting, QuietWinners DEF KInv
<1>15. [Promise!PNext]_(Promise!pvars) BY <1>11, <1>13, QuietStatus
<1>16. \A m \in DOMAIN steps : steps'[m].decision = steps[m].decision
  BY <1>6 DEF DecisionsQuiet
<1>17. QED BY <1>6, <1>14, <1>15, <1>16, SMTT(60) DEF StepSafe, EffectsQuiet

\* The task after a transaction of a tool's call: what ran is settled, if anything.
LEMMA CallTask ==
  ASSUME TInv, NEW w \in Workers,
         ToolRun(w) \/ ToolBegin(w) \/ ToolComplete(w) \/ ToolBlock(w)
  PROVE  attempts' = attempts /\ WorksQuiet /\ TaskQuiet /\ task'.calls = task.calls
<1>1. CASE ToolRun(w)
  <2>1. worker[w].phase \in WorkPhases BY <1>1 DEF ToolRun, WorkPhases
  <2>2. PICK t \in WorkTimes : /\ works' = WorkSettled(worker[w].work, t)
                               /\ task' = TaskAfterWork(worker[w].work, t)
    BY <1>1 DEF ToolRun
  <2>3. attempts' = attempts BY <1>1 DEF ToolRun
  <2>4. QED BY <2>1, <2>2, <2>3, SettledQuiet, TaskWorked
<1>2. CASE ToolBegin(w) \/ ToolComplete(w) \/ ToolBlock(w)
  <2>1. UNCHANGED <<task, attempts, works>> BY <1>2 DEF ToolBegin, ToolComplete, ToolBlock
  <2>2. QED BY <2>1, WorksStay, TaskUnchanged
<1>3. QED BY <1>1, <1>2

\* A call becomes completed where it was begun: under a reservation that runs, or
\* because it waits for what comes from outside.
LEMMA CompletionSafe ==
  ASSUME TInv, KInv, NEW w \in Workers, Effect(w, "completed")
  PROVE  /\ ~Calling
         /\ steps[worker[w].step].route \in CompletesLive \cup {"inside"} => Working
         /\ task.status \notin ActiveStatuses =>
              steps[worker[w].step].route \in {"images", "slack"}
<1>1. PICK n : n = worker[w].step OBVIOUS
<1>2. CASE ToolRun(w) /\ Executable(n)
  <2>1. worker[w].phase \in WorkPhases /\ LiveWork(worker[w].work)
    BY <1>2 DEF ToolRun, MayRun, WorkPhases
  <2>2. worker[w].work \in DOMAIN works BY <2>1 DEF TInv, Carries
  <2>3. Working BY <2>1, <2>2 DEF Working
  <2>4. task.status \in ActiveStatuses BY <1>2 DEF Executable, Allowed
  <2>5. QED BY <2>3, <2>4 DEF KInv, WorkAlone
<1>3. CASE ToolComplete(w) /\ steps[n].call = "waiting" /\ MayRecord(w)
  <2>1. worker[w].phase \in ToolPhases /\ worker[w].phase \in WorkPhases
    BY <1>3 DEF ToolComplete, ToolPhases, WorkPhases
  <2>2. n \in DOMAIN steps /\ steps[n] \in FitSteps BY <1>1, <2>1, ToolWhat
  <2>3. worker[w].work \in DOMAIN works BY <2>1 DEF TInv, Carries
  <2>4. n \in OpenSteps /\ steps[n].model = "committed" /\ steps[n].route # "inside"
    BY <1>3, <2>2, WaitingOpen
  <2>5. ~Calling BY <2>4, NoneBeside
  <2>6. steps[n].route \in CompletesLive => LiveWork(worker[w].work)
    BY <1>1, <1>3 DEF MayRecord
  <2>7. steps[n].route \in CompletesLive => Working BY <2>3, <2>6 DEF Working
  <2>8. task.status \notin ActiveStatuses => steps[n].route \notin CompletesAllowed
    BY <1>1, <1>3 DEF MayRecord, Allowed
  <2>9. steps[n].route \in {"inside", "knowledge", "mcp", "api", "images", "skills", "slack"}
    BY <2>2, ConstantsFit DEF FitSteps, StepRows
  <2>10. QED BY <1>1, <2>4, <2>5, <2>7, <2>8, <2>9 DEF CompletesAllowed
<1>4. QED BY <1>1, <1>2, <1>3 DEF Effect

LEMMA ToolCallSafe ==
  ASSUME TInv, KInv, NEW w \in Workers,
         ToolRun(w) \/ ToolBegin(w) \/ ToolComplete(w) \/ ToolBlock(w)
  PROVE  StepSafe
<1>1. PICK n : n = worker[w].step OBVIOUS
<1>2. n \in DOMAIN steps /\ DOMAIN steps' = DOMAIN steps BY <1>1, CallRows
<1>3. PICK call :
        /\ steps' = [steps EXCEPT ![n] = [steps[n] EXCEPT !.call = call]]
        /\ call = steps[n].call \/ Effect(w, call)
  BY <1>1, CallRows
<1>4. attempts' = attempts /\ WorksQuiet /\ TaskQuiet /\ task'.calls = task.calls BY CallTask
<1>5. Moves BY ToolRunMoves, ToolBeginMoves, ToolCompleteMoves, ToolBlockMoves
<1>6. PICK new : new = [steps[n] EXCEPT !.call = call] OBVIOUS
<1>7. \A m \in DOMAIN steps : steps'[m] = IF m = n THEN new ELSE steps[m] BY <1>2, <1>3, <1>6
<1>8. steps[n] \in FitSteps BY <1>2, SeqIndices DEF TInv
<1>9. /\ new.decision = steps[n].decision /\ new.winner = steps[n].winner
      /\ new.model = steps[n].model /\ new.call = call
      /\ new.done = steps[n].done /\ new.admitted = steps[n].admitted
  BY <1>6, <1>8 DEF FitSteps, StepRows
<1>10. DecisionsQuiet /\ AdmissionsQuiet /\ ModelsStay /\ Grows
  BY <1>2, <1>7, <1>9 DEF DecisionsQuiet, AdmissionsQuiet, ModelsStay, Grows
<1>11. AttemptsQuiet BY <1>4, <1>10, AttemptsStay
<1>12. Calling' => Calling BY <1>5, <1>11, QuietCalls
<1>13. task'.generation = task.generation BY <1>4, QuietKeeps
<1>14. WaitingNow'
  <2>1. call = "waiting" => steps[n].call = "waiting" \/ steps[n].run = task.generation
    BY <1>1, <1>3 DEF Effect, Executable, Allowed
  <2>2. \A m \in DOMAIN steps :
           steps'[m].call = "waiting" => steps[m].call = "waiting" \/ steps[m].run = task.generation
    BY <1>7, <1>9, <2>1
  <2>3. QED BY <1>5, <1>13, <2>2, WaitingStays
<1>15. KInv'
  BY <1>4, <1>5, <1>10, <1>11, <1>12, <1>13, <1>14, QuietCalls, QuietWorks, QuietKeeps, QuietRuns,
     QuietStatus, QuietWinners, QuietAdmissions DEF KInv
<1>16. [Promise!PNext]_(Promise!pvars) BY <1>4, <1>12, QuietStatus
<1>17. ASSUME NEW m \in DOMAIN steps, steps'[m].call = "completed", steps[m].call # "completed"
       PROVE  /\ ~Calling
              /\ steps[m].route \in CompletesLive \cup {"inside"} => Working
              /\ task.status \notin ActiveStatuses => steps[m].route \in {"images", "slack"}
  <2>1. m = n /\ call = "completed" BY <1>7, <1>9, <1>17
  <2>2. Effect(w, "completed") BY <1>3, <1>17, <2>1
  <2>3. QED BY <1>1, <2>1, <2>2, CompletionSafe
<1>18. \A m \in DOMAIN steps : steps'[m].decision = steps[m].decision
  BY <1>10 DEF DecisionsQuiet
<1>19. QED BY <1>15, <1>16, <1>17, <1>18 DEF StepSafe

LEMMA reopenSafe == ASSUME TInv, KInv, reopen PROVE StepSafe
<1>1. /\ task.status = "completed" /\ UNCHANGED <<steps, attempts, works>>
      /\ task' = [task EXCEPT !.status = "pending", !.generation = @ + 1]
  BY DEF reopen
<1>2. Moves BY reopenMoves
<1>3. task'.status = "pending" /\ task'.generation = task.generation + 1
      /\ task'.calls = task.calls
  BY <1>1 DEF TInv, TaskRows
<1>4. ~Calling BY <1>1 DEF KInv, CallStatus
<1>5. AttemptsQuiet /\ StepsQuiet BY <1>1, RowsQuiet
<1>6. Calling' => Calling BY <1>2, <1>5, QuietCalls
<1>7. CallStatus' BY <1>4, <1>6 DEF CallStatus
<1>8. CompletedClosed' /\ LiveNow' /\ WaitingNow'
  <2>1. CompletedClosed' BY <1>3 DEF CompletedClosed
  <2>2. LiveNow' BY <1>4, <1>6 DEF LiveNow, Calling
  <2>3. \A n \in DOMAIN steps : steps[n].call # "waiting"
    BY <1>1, WaitingOpen DEF KInv, CompletedClosed
  <2>4. QED BY <1>1, <2>1, <2>2, <2>3 DEF WaitingNow
<1>9. OneOpen'
  <2>1. \A n \in DOMAIN steps : steps[n].run <= task.generation BY DEF TInv
  <2>2. \A n \in DOMAIN steps : steps[n].run \in Nat BY SeqIndices DEF TInv, FitSteps, StepRows
  <2>3. task.generation \in Nat BY StatusTypes
  <2>4. \A n \in DOMAIN steps : steps[n].run # task.generation + 1 BY <2>1, <2>2, <2>3
  <2>5. OpenSteps' = {} BY <1>1, <1>3, <2>4 DEF OpenSteps
  <2>6. QED BY <2>5 DEF OneOpen
<1>10. KInv'
  BY <1>1, <1>2, <1>3, <1>5, <1>6, <1>7, <1>8, <1>9, QuietParts, QuietCalls, QuietWorks,
     WorksStay, QuietWinners, QuietAdmissions DEF KInv
<1>11. Promise!Reopen
  <2>1. PICK now \in BOOLEAN : now = Calling BY DEF Calling
  <2>2. PICK then \in BOOLEAN : then = Calling' BY DEF Calling
  <2>3. Calling' = Calling BY <1>4, <1>6, <2>1, <2>2
  <2>4. QED BY <1>1, <1>3, <1>4, <2>3 DEF Promise!Reopen
<1>12. EffectsQuiet /\ DecisionsQuiet BY <1>5, QuietParts
<1>13. QED BY <1>10, <1>11, <1>12 DEF StepSafe, EffectsQuiet, DecisionsQuiet, Promise!PNext

-----------------------------------------------------------------------------
(* The second layer is an invariant, and what every step does by it. *)

\* Only the preparation of a call inserts a step, and it looks at the task first.
LEMMA NextGrows == ASSUME TInv, Next PROVE Grows
<1>1. SUFFICES ASSUME DOMAIN steps' # DOMAIN steps PROVE task.status \in ActiveStatuses
  BY DEF Grows
<1>2. \A n : \A new : DOMAIN [steps EXCEPT ![n] = new] = DOMAIN steps OBVIOUS
<1>3. ASSUME NEW w \in Workers, Prepare(w) PROVE task.status \in ActiveStatuses
  <2>1. CASE PrepareDeadline(w) \/ PrepareFiles(w) \/ PrepareRejects(w) \/ PrepareHeld(w)
             \/ PrepareCall(w)
    <3>1. \E e \in Entries(w) : TRUE
      BY <2>1 DEF PrepareDeadline, PrepareFiles, PrepareRejects, PrepareHeld, PrepareCall
    <3>2. QED BY <3>1, EntryFacts
  <2>2. CASE PrepareNothing(w) \/ PreparePause(w) \/ PrepareTool(w) \/ PrepareClose(w)
             \/ FilesEnd(w) \/ PrepareDenied(w) \/ Deny(w)
    BY <1>1, <2>2 DEF PrepareNothing, PreparePause, PrepareTool, PrepareClose, FilesEnd,
       PrepareDenied, Deny
  <2>3. QED BY <1>3, <2>1, <2>2 DEF Prepare
<1>4. ASSUME NEW w \in Workers, Model(w) \/ Settle(w) PROVE FALSE
  BY <1>1, <1>4 DEF Model, Settle, Dispatch, DispatchRefused, Answer, Observe, SettleLate,
     SettleFailure, SettleWithdrawn, SettleLimited, SettlePublished, SettleLost, SettlesLive
<1>5. ASSUME NEW w \in Workers, Tool(w) \/ ToolThrows(w) PROVE FALSE
  BY <1>1, <1>5 DEF Tool, ToolEnded, ToolWaits, ToolAdmit, ToolTooLate, ToolRun, ToolBegin,
     ToolComplete, ToolRefused, ToolBlock, ToolSettle, ToolReport, ToolThrows
<1>6. \A rows : recoverTaskModelUsage(rows) => FALSE BY <1>1 DEF recoverTaskModelUsage
<1>7. ASSUME NEW w \in Workers, Recover(w) \/ Poll(w) \/ Crash(w) PROVE FALSE
  BY <1>1, <1>6, <1>7 DEF Recover, Poll, Crash
<1>8. ASSUME NEW a \in DOMAIN attempts, Late(a) \/ LateLost(a) PROVE FALSE
  BY <1>1, <1>6, <1>8 DEF Late, LateObserve, LateRecover, LateLost
<1>9. CASE Owner BY <1>1, <1>9 DEF Owner, pause, continueTask, reopen, decide
<1>10. CASE Time BY <1>1, <1>10 DEF Time, LeaseEnds, DeadlinePasses, BackoffEnds, WorkExpires
<1>11. QED BY <1>3, <1>4, <1>5, <1>7, <1>8, <1>9, <1>10 DEF Next, process

LEMMA PrepareSafe == ASSUME TInv, KInv, NEW w \in Workers, Prepare(w) PROVE StepSafe
<1>1. Moves /\ Grows BY NextMoves, NextGrows DEF Next, process
<1>2. CASE PrepareCall(w) BY <1>2, PrepareCallSafe
<1>3. CASE ~PrepareCall(w)
  <2>1. Quiet
    BY <1>3, PrepareNothingQuiet, PreparePauseQuiet, PrepareToolQuiet, PrepareCloseQuiet,
       PrepareDeadlineQuiet, PrepareFilesQuiet, PrepareRejectsQuiet, PrepareHeldQuiet,
       FilesEndQuiet, PrepareDeniedQuiet, DenyQuiet DEF Prepare
  <2>2. QED BY <1>1, <2>1, QuietSafe
<1>4. QED BY <1>2, <1>3

LEMMA CallSafe ==
  ASSUME TInv, KInv, NEW w \in Workers, Model(w) \/ Settle(w) PROVE StepSafe
<1>1. Moves /\ Grows BY NextMoves, NextGrows DEF Next, process
<1>2. CASE SettlePublished(w) BY <1>2, SettlePublishedSafe
<1>3. CASE ~SettlePublished(w)
  <2>1. Quiet
    BY <1>3, DispatchQuiet, ObserveQuiet, SettleLateQuiet, SettleFailureQuiet,
       SettleWithdrawnQuiet, SettleLimitedQuiet, SettleLostQuiet DEF Model, Settle
  <2>2. QED BY <1>1, <2>1, QuietSafe
<1>4. QED BY <1>2, <1>3

LEMMA ToolSafe == ASSUME TInv, KInv, NEW w \in Workers, Tool(w) PROVE StepSafe
<1>1. Moves /\ Grows BY NextMoves, NextGrows DEF Next, process
<1>2. CASE ToolAdmit(w) BY <1>2, ToolAdmitSafe
<1>3. CASE ToolRun(w) \/ ToolBegin(w) \/ ToolComplete(w) \/ ToolBlock(w) BY <1>3, ToolCallSafe
<1>4. CASE ToolEnded(w) \/ ToolTooLate(w) \/ ToolRefused(w) \/ ToolWaits(w) \/ ToolSettle(w)
           \/ ToolReport(w)
  <2>1. Quiet BY <1>4, ToolPassesQuiet, ToolWaitsQuiet, ToolSettleQuiet, ToolReportQuiet
  <2>2. QED BY <1>1, <2>1, QuietSafe
<1>5. QED BY <1>2, <1>3, <1>4 DEF Tool

LEMMA NextSafe == ASSUME TInv, KInv, Next PROVE StepSafe
<1>1. Moves /\ Grows BY NextMoves, NextGrows
<1>2. ASSUME NEW w \in Workers, process(w) PROVE StepSafe
  <2>1. CASE Recover(w) \/ Poll(w) BY <1>1, <2>1, RecoverQuiet, PollQuiet, QuietSafe
  <2>2. QED BY <1>2, <2>1, PrepareSafe, CallSafe, ToolSafe DEF process
<1>3. ASSUME NEW w \in Workers, Crash(w) \/ ToolThrows(w) PROVE StepSafe
  BY <1>1, <1>3, CrashQuiet, ToolThrowsQuiet, QuietSafe
<1>4. ASSUME NEW a \in DOMAIN attempts, Late(a) \/ LateLost(a) PROVE StepSafe
  BY <1>1, <1>4, LateTimeQuiet, LateRecoverQuiet, QuietSafe DEF Late
<1>5. CASE Owner
  <2>1. CASE reopen BY <2>1, reopenSafe
  <2>2. CASE pause \/ continueTask \/ decide
    BY <1>1, <2>2, pauseQuiet, continueQuiet, decideQuiet, QuietSafe
  <2>3. QED BY <1>5, <2>1, <2>2 DEF Owner
<1>6. CASE Time
  <2>1. Quiet BY <1>6, LateTimeQuiet, StepTimeQuiet, WorkExpiresQuiet DEF Time
  <2>2. QED BY <1>1, <2>1, QuietSafe
<1>7. QED BY <1>2, <1>3, <1>4, <1>5, <1>6 DEF Next

LEMMA KInvInit == ASSUME Init PROVE KInv
<1> USE DEF Init
<1>1. ~Calling /\ ~Working BY DEF Calling, Working
<1>2. OpenSteps = {} BY DEF OpenSteps
<1>3. CallsCountedOnce
  <2>1. {n \in DOMAIN steps : steps[n].admitted} = {} OBVIOUS
  <2>2. QED BY <2>1, FS_EmptySet DEF CallsCountedOnce
<1>4. QED
  BY <1>1, <1>2, <1>3 DEF KInv, RunningModels, OneRunning, OneOnLease, LeaseUncharged,
     OneWorkLive, WorkAlone, CallStatus, OneOpen, CompletedClosed, LiveNow, WaitingNow, WinnersPaid

LEMMA KInvStep == ASSUME TInv, KInv, [Next]_vars PROVE KInv'
<1>1. CASE Next BY <1>1, NextSafe DEF StepSafe
<1>2. CASE UNCHANGED vars
  BY <1>2 DEF KInv, RunningModels, OneRunning, OneOnLease, LeaseUncharged, OneWorkLive,
     WorkAlone, CallStatus, OneOpen, CompletedClosed, LiveNow, WaitingNow, WinnersPaid,
     CallsCountedOnce, vars,
     Running, OnLease, LiveWork, Working, Calling, LiveAttempt, OpenSteps, AttemptsOf
<1>3. QED BY <1>1, <1>2

LEMMA KInvariant == Spec => [](TInv /\ KInv)
<1>1. Init => TInv /\ KInv BY TInvInit, KInvInit
<1>2. TInv /\ KInv /\ [Next]_vars => (TInv /\ KInv)' BY TInvStep, KInvStep
<1>3. QED BY <1>1, <1>2, PTL DEF Spec

\* The call of a step counts against the tool limit once, however many workers
\* try it and however often it is tried again.
THEOREM CallsCount == Spec => []CallsCountedOnce
<1>1. TInv /\ KInv => CallsCountedOnce BY DEF KInv
<1>2. QED BY <1>1, KInvariant, PTL

\* A decision is always that of one attempt of its own step, which succeeded
\* and was charged what its reported usage costs.
THEOREM WinnersDecide == Spec => []WinnerDecides
<1>1. TInv /\ KInv => WinnerDecides
  <2>1. SUFFICES ASSUME TInv, KInv PROVE WinnerDecides OBVIOUS
  <2>2. \A n \in DOMAIN steps : steps[n] \in FitSteps BY <2>1, SeqIndices DEF TInv
  <2>3. QED BY <2>1, <2>2 DEF WinnerDecides, KInv, WinnersPaid, FitSteps
<1>2. QED BY <1>1, KInvariant, PTL

\* Only one step of a worker begins a call outside.
LEMMA ActingBegins ==
  ASSUME TInv, Next, NEW v \in Workers, worker'[v].phase = "acting", worker[v].phase # "acting"
  PROVE  ToolBegin(v)
<1>1. \A w \in Workers : \A x : worker' = [worker EXCEPT ![w] = x] => v = w /\ x.phase = "acting"
  BY DEF TInv
<1>2. \A w \in Workers : ~Finish(w) BY <1>1 DEF Finish, Idle
<1>3. \A w \in Workers : \A phase : Go(w, phase) => v = w /\ phase = "acting"
  BY <1>1 DEF Go, TInv, WorkerRows
<1>4. \A w \in Workers : \A result : ~Reports(w, result)
  BY <1>1 DEF Reports, TInv, WorkerRows
<1>5. \A w \in Workers : \A result, elapsed : ~Ended(w, result, elapsed)
  BY <1>1 DEF Ended, TInv, WorkerRows
<1>6. worker' # worker OBVIOUS
<1>7. ASSUME NEW w \in Workers, Prepare(w) PROVE FALSE
  <2>1. CASE PrepareNothing(w) \/ PreparePause(w) \/ PrepareClose(w) \/ PrepareDeadline(w)
             \/ PrepareRejects(w) \/ PrepareHeld(w) \/ FilesEnd(w) \/ Deny(w)
    BY <1>2, <2>1 DEF PrepareNothing, PreparePause, PrepareClose, PrepareDeadline, PrepareRejects,
       PrepareHeld, FilesEnd, Deny
  <2>2. CASE PrepareTool(w) BY <1>1, <2>2 DEF PrepareTool, Idle
  <2>3. CASE PrepareFiles(w)
    <3>1. PICK x : worker' = [worker EXCEPT ![w] = x] /\ x.phase = "files"
      BY <2>3 DEF PrepareFiles, Idle
    <3>2. QED BY <1>1, <3>1
  <2>4. CASE PrepareCall(w)
    <3>1. worker' = [worker EXCEPT ![w] = CallOf] BY <2>4 DEF PrepareCall, CallOf, NewIndex
    <3>2. QED BY <1>1, <3>1, CallOfFields
  <2>5. CASE PrepareDenied(w) BY <1>1, <2>5 DEF PrepareDenied, Idle
  <2>6. QED BY <1>7, <2>1, <2>2, <2>3, <2>4, <2>5 DEF Prepare
<1>8. ASSUME NEW w \in Workers, Model(w) \/ Settle(w) PROVE FALSE
  <2>1. CASE Settle(w)
    <3>1. Finish(w)
      BY <2>1 DEF Settle, SettleLate, SettleFailure, SettleWithdrawn, SettleLimited,
         SettlePublished, SettleLost, SettlesLive
    <3>2. QED BY <1>2, <3>1
  <2>2. CASE Dispatch(w) \/ Observe(w)
    <3>1. Go(w, "asking") \/ Go(w, "observed") BY <2>2 DEF Dispatch, Observe
    <3>2. CASE Go(w, "asking") BY <1>3, <3>2
    <3>3. CASE Go(w, "observed") BY <1>3, <3>3
    <3>4. QED BY <3>1, <3>2, <3>3
  <2>3. CASE DispatchRefused(w) BY <1>5, <2>3 DEF DispatchRefused
  <2>4. CASE Answer(w) BY <1>5, <2>4 DEF Answer
  <2>5. QED BY <1>8, <2>1, <2>2, <2>3, <2>4 DEF Model
<1>9. ASSUME NEW w \in Workers, Tool(w) \/ ToolThrows(w) PROVE ToolBegin(v)
  <2>1. CASE ToolBegin(w) BY <1>3, <2>1 DEF ToolBegin
  <2>2. CASE ToolEnded(w) \/ ToolWaits(w) \/ ToolRun(w) \/ ToolRefused(w) \/ ToolSettle(w)
             \/ ToolReport(w) \/ ToolThrows(w)
    <3>1. \/ Finish(w) \/ Go(w, "refusing") \/ Go(w, "report")
          \/ Reports(w, "ended") \/ Reports(w, "waiting")
      BY <2>2 DEF ToolEnded, ToolWaits, ToolRun, ToolRefused, ToolSettle, ToolReport, ToolThrows
    <3>2. CASE Go(w, "refusing") \/ Go(w, "report") BY <1>3, <3>2
    <3>3. QED BY <1>2, <1>4, <3>1, <3>2
  <2>3. CASE ToolAdmit(w) \/ ToolTooLate(w) \/ ToolComplete(w) \/ ToolBlock(w)
    <3>1. PICK x : worker' = [worker EXCEPT ![w] = x] /\ x.phase # "acting"
      <4>1. worker[w] \in WorkerRows /\ worker = [u \in Workers |-> worker[u]] BY DEF TInv
      <4>2. CASE ToolAdmit(w) BY <4>1, <4>2 DEF ToolAdmit, WorkerRows
      <4>3. CASE ToolTooLate(w) BY <4>1, <4>3 DEF ToolTooLate, WorkerRows
      <4>4. CASE ToolComplete(w) BY <4>1, <4>4 DEF ToolComplete, WorkerRows
      <4>5. CASE ToolBlock(w) BY <4>1, <4>5 DEF ToolBlock, WorkerRows
      <4>6. QED BY <2>3, <4>2, <4>3, <4>4, <4>5
    <3>2. QED BY <1>1, <3>1
  <2>4. QED BY <1>9, <2>1, <2>2, <2>3 DEF Tool
<1>10. ASSUME NEW w \in Workers, Recover(w) \/ Poll(w) \/ Crash(w) PROVE FALSE
  BY <1>2, <1>3, <1>6, <1>10 DEF Recover, Poll, Crash
<1>11. ASSUME NEW a \in DOMAIN attempts, Late(a) \/ LateLost(a) PROVE FALSE
  BY <1>6, <1>11 DEF Late, LateObserve, LateRecover, LateLost
<1>12. CASE Owner BY <1>6, <1>12 DEF Owner, pause, continueTask, reopen, decide
<1>13. CASE Time BY <1>6, <1>13 DEF Time, LeaseEnds, DeadlinePasses, BackoffEnds, WorkExpires
<1>14. QED BY <1>7, <1>8, <1>9, <1>10, <1>11, <1>12, <1>13 DEF Next, process

LEMMA BeginsSafe ==
  ASSUME TInv, KInv, Next, NEW v \in Workers, worker'[v].phase = "acting",
         worker[v].phase # "acting"
  PROVE  Working /\ ~Calling /\ task.status \in ActiveStatuses
<1>1. ToolBegin(v) BY ActingBegins
<1>2. worker[v].phase \in WorkPhases /\ LiveWork(worker[v].work)
  BY <1>1 DEF ToolBegin, MayRun, WorkPhases
<1>3. worker[v].work \in DOMAIN works BY <1>2 DEF TInv, Carries
<1>4. Working BY <1>2, <1>3 DEF Working
<1>5. task.status \in ActiveStatuses BY <1>1 DEF ToolBegin, Executable, Allowed
<1>6. QED BY <1>4, <1>5 DEF KInv, WorkAlone

\* A call begins only under a reservation of time that still runs, and none is
\* completed while a model is asked for the same task. What is carried out inside,
\* images and skills are completed only under a reservation.
THEOREM EffectsUnderReservation == Spec => EffectsReserved
<1>1. TInv /\ KInv /\ [Next]_vars =>
        [/\ \A n \in DOMAIN steps :
              steps'[n].call = "completed" /\ steps[n].call # "completed" =>
                 /\ ~Calling
                 /\ steps[n].route \in CompletesLive \cup {"inside"} => Working
         /\ \A w \in Workers :
              worker'[w].phase = "acting" /\ worker[w].phase # "acting" =>
                 Working /\ ~Calling]_vars
  BY NextSafe, BeginsSafe DEF StepSafe
<1>2. QED BY <1>1, KInvariant, PTL DEF Spec, EffectsReserved

\* While the task is stopped, no worker decides a step, begins a call, or
\* completes one, but for images and Slack messages that were begun before.
THEOREM StoppedStaysQuiet == Spec => StoppedIsQuiet
<1>1. TInv /\ KInv /\ [Next]_vars =>
        [task.status \notin ActiveStatuses =>
           /\ \A n \in DOMAIN steps :
                /\ steps'[n].decision = steps[n].decision
                /\ steps'[n].call = "completed" /\ steps[n].call # "completed"
                     => steps[n].route \in {"images", "slack"}
           /\ \A w \in Workers :
                worker'[w].phase = "acting" => worker[w].phase = "acting"]_vars
  BY NextSafe, BeginsSafe DEF StepSafe
<1>2. QED BY <1>1, KInvariant, PTL DEF Spec, StoppedIsQuiet

\* A call that ended keeps its outcome, whichever worker comes back with another
\* one or blocks the call.
THEOREM OutcomesAreFinal == Spec => OutcomesStay
<1>1. TInv /\ [Next]_vars => [\A n \in DOMAIN steps : Over(n) => steps'[n].call = steps[n].call]_vars
  <2>1. SUFFICES ASSUME TInv, Next, NEW n \in DOMAIN steps, Over(n)
                 PROVE  steps'[n].call = steps[n].call
    OBVIOUS
  <2>2. StepKept(steps[n], steps'[n]) BY <2>1, NextMoves DEF Moves, StepsMove
  <2>3. QED BY <2>1, <2>2 DEF Over, StepKept, CallEnds
<1>2. QED BY <1>1, TInvariant, PTL DEF Spec, OutcomesStay

\* The runtime implements TaskPromise: at most one call is open, only an open
\* call publishes, only into a pending task, and a stopped task becomes pending
\* only while no call is open.
THEOREM RuntimeKeepsPromise == Spec => PromiseKept
<1>1. Init => Promise!PInit
  <2>1. SUFFICES ASSUME Init PROVE Promise!PInit OBVIOUS
  <2>2. ~Calling BY <2>1 DEF Init, Calling
  <2>3. PICK now \in BOOLEAN : now = Calling BY DEF Calling
  <2>4. Calling = FALSE BY <2>2, <2>3
  <2>5. QED BY <2>1, <2>4 DEF Init, Promise!PInit
<1>2. TInv /\ KInv /\ [Next]_vars => [Promise!PNext]_(Promise!pvars)
  <2>1. SUFFICES ASSUME TInv, KInv, [Next]_vars PROVE [Promise!PNext]_(Promise!pvars) OBVIOUS
  <2>2. CASE Next BY <2>1, <2>2, NextSafe DEF StepSafe
  <2>3. CASE UNCHANGED vars
    <3>1. UNCHANGED Promise!pvars BY <2>3 DEF vars, Promise!pvars, Calling, LiveAttempt
    <3>2. QED BY <3>1
  <2>4. QED BY <2>1, <2>2, <2>3
<1>3. QED BY <1>1, <1>2, KInvariant, PTL DEF Spec, PromiseKept, Promise!PSpec

-----------------------------------------------------------------------------
(***************************************************************************)
(* The third layer: active time. The task's active time is the sum of what *)
(* its attempts and its works are counted for, so each step must change    *)
(* the two sides alike, and the floor of zero in the code never takes      *)
(* anything away.                                                          *)
(***************************************************************************)
Counts(rows) == SumFunctionOnSet([a \in DOMAIN rows |-> Counted(rows[a])], DOMAIN rows)

Worked(rows) == SumFunctionOnSet([i \in DOMAIN rows |-> WorkCounted(rows[i])], DOMAIN rows)

LEMMA SumGrows ==
  ASSUME NEW f, NEW g, NEW S, IsFiniteSet(S), NEW x, x \notin S,
         \A y \in S : f[y] \in Int /\ g[y] = f[y], g[x] \in Int
  PROVE  SumFunctionOnSet(g, S \cup {x}) = g[x] + SumFunctionOnSet(f, S)
<1>1. PICK T : T = S \cup {x} OBVIOUS
<1>2. IsFiniteSet(T) BY <1>1, FS_AddElement
<1>3. x \in T /\ T \ {x} = S BY <1>1
<1>4. \A y \in T : g[y] \in Int BY <1>1
<1>5. SumFunctionOnSet(g, T) = g[x] + SumFunctionOnSet(g, S) BY <1>2, <1>3, <1>4, SumRemoves
<1>6. \A y \in S : f[y] \in Int /\ f[y] = g[y] OBVIOUS
<1>7. SumFunctionOnSet(f, S) = SumFunctionOnSet(g, S) BY <1>6, SumAgrees
<1>8. QED BY <1>1, <1>5, <1>7

\* One term is at most the sum of terms that are not negative.
LEMMA SumCovers ==
  ASSUME NEW f, NEW S, IsFiniteSet(S), \A x \in S : f[x] \in Nat, NEW x \in S
  PROVE  SumFunctionOnSet(f, S) \in Nat /\ f[x] <= SumFunctionOnSet(f, S)
<1>1. PICK T : T = S \ {x} OBVIOUS
<1>2. IsFiniteSet(T) BY <1>1, FS_Subset
<1>3. SumFunctionOnSet(f, S) = f[x] + SumFunctionOnSet(f, T) BY <1>1, SumRemoves
<1>4. \A y \in T : f[y] \in Nat BY <1>1
<1>5. SumFunctionOnSet(f, T) \in Nat BY <1>2, <1>4, SumNat
<1>6. f[x] \in Nat OBVIOUS
<1>7. QED BY <1>3, <1>5, <1>6

LEMMA CountedTypes ==
  /\ \A at \in AttemptRows : Counted(at) \in Nat
  /\ \A work \in FitWorks : WorkCounted(work) \in Nat
BY DEF Counted, AttemptRows, WorkCounted, FitWorks, WorkRows

LEMMA TimeTypes ==
  ASSUME TInv
  PROVE  /\ \A a \in DOMAIN attempts : Counted(attempts[a]) \in Nat
         /\ \A i \in DOMAIN works : WorkCounted(works[i]) \in Nat
         /\ Counts(attempts) \in Nat /\ Worked(works) \in Nat
         /\ \A a \in DOMAIN attempts : Counted(attempts[a]) <= Counts(attempts)
         /\ \A i \in DOMAIN works : WorkCounted(works[i]) <= Worked(works)
<1>1. \A a \in DOMAIN attempts : Counted(attempts[a]) \in Nat BY OwnRows, CountedTypes
<1>2. \A i \in DOMAIN works : WorkCounted(works[i]) \in Nat
  BY SeqIndices, CountedTypes DEF TInv
<1>3. PICK f : f = [a \in DOMAIN attempts |-> Counted(attempts[a])] OBVIOUS
<1>4. PICK g : g = [i \in DOMAIN works |-> WorkCounted(works[i])] OBVIOUS
<1>5. IsFiniteSet(DOMAIN attempts) /\ \A a \in DOMAIN attempts : f[a] \in Nat
  BY <1>1, <1>3, RowsFinite
<1>6. IsFiniteSet(DOMAIN works) /\ \A i \in DOMAIN works : g[i] \in Nat
  BY <1>2, <1>4, RowsFinite
<1>7. Counts(attempts) = SumFunctionOnSet(f, DOMAIN attempts) BY <1>3 DEF Counts
<1>8. Worked(works) = SumFunctionOnSet(g, DOMAIN works) BY <1>4 DEF Worked
<1>9. Counts(attempts) \in Nat /\ Worked(works) \in Nat BY <1>5, <1>6, <1>7, <1>8, SumNat
<1>10. \A a \in DOMAIN attempts : Counted(attempts[a]) <= Counts(attempts)
  BY <1>3, <1>5, <1>7, SumCovers
<1>11. \A i \in DOMAIN works : WorkCounted(works[i]) <= Worked(works)
  BY <1>4, <1>6, <1>8, SumCovers
<1>12. QED BY <1>1, <1>2, <1>9, <1>10, <1>11

LEMMA CountsSame ==
  ASSUME TInv, NEW rows, DOMAIN rows = DOMAIN attempts,
         \A a \in DOMAIN attempts : Counted(rows[a]) = Counted(attempts[a])
  PROVE  Counts(rows) = Counts(attempts)
<1>1. PICK f : f = [a \in DOMAIN attempts |-> Counted(attempts[a])] OBVIOUS
<1>2. PICK g : g = [a \in DOMAIN rows |-> Counted(rows[a])] OBVIOUS
<1>3. \A a \in DOMAIN attempts : f[a] \in Int /\ f[a] = g[a] BY <1>1, <1>2, TimeTypes
<1>4. SumFunctionOnSet(f, DOMAIN attempts) = SumFunctionOnSet(g, DOMAIN attempts)
  BY <1>3, RowsFinite, SumAgrees
<1>5. QED BY <1>1, <1>2, <1>4 DEF Counts

LEMMA WorkedSame ==
  ASSUME TInv, NEW rows, DOMAIN rows = DOMAIN works,
         \A i \in DOMAIN works : WorkCounted(rows[i]) = WorkCounted(works[i])
  PROVE  Worked(rows) = Worked(works)
<1>1. PICK f : f = [i \in DOMAIN works |-> WorkCounted(works[i])] OBVIOUS
<1>2. PICK g : g = [i \in DOMAIN rows |-> WorkCounted(rows[i])] OBVIOUS
<1>3. \A i \in DOMAIN works : f[i] \in Int /\ f[i] = g[i] BY <1>1, <1>2, TimeTypes
<1>4. SumFunctionOnSet(f, DOMAIN works) = SumFunctionOnSet(g, DOMAIN works)
  BY <1>3, RowsFinite, SumAgrees
<1>5. QED BY <1>1, <1>2, <1>4 DEF Worked

LEMMA CountsChange ==
  ASSUME TInv, NEW k \in DOMAIN attempts, NEW new \in AttemptRows
  PROVE  Counts([attempts EXCEPT ![k] = new])
           = Counts(attempts) - Counted(attempts[k]) + Counted(new)
<1>1. PICK f : f = [a \in DOMAIN attempts |-> Counted(attempts[a])] OBVIOUS
<1>2. PICK rows : rows = [attempts EXCEPT ![k] = new] OBVIOUS
<1>3. PICK g : g = [a \in DOMAIN rows |-> Counted(rows[a])] OBVIOUS
<1>4. /\ DOMAIN rows = DOMAIN attempts /\ rows[k] = new
      /\ \A a \in DOMAIN attempts \ {k} : rows[a] = attempts[a]
  BY <1>2
<1>5. /\ \A a \in DOMAIN attempts : f[a] \in Int /\ g[a] \in Int
      /\ \A a \in DOMAIN attempts \ {k} : g[a] = f[a]
      /\ f[k] = Counted(attempts[k]) /\ g[k] = Counted(new)
  BY <1>1, <1>3, <1>4, TimeTypes, CountedTypes
<1>6. PICK S : S = DOMAIN attempts OBVIOUS
<1>7. DifferAt(f, g, S, k) BY <1>5, <1>6, RowsFinite DEF DifferAt
<1>8. SumFunctionOnSet(g, S) = SumFunctionOnSet(f, S) - f[k] + g[k] BY <1>7, SumChanges
<1>9. QED BY <1>1, <1>2, <1>3, <1>4, <1>5, <1>6, <1>8 DEF Counts

LEMMA WorkedChange ==
  ASSUME TInv, NEW k \in DOMAIN works, NEW new \in FitWorks
  PROVE  Worked([works EXCEPT ![k] = new])
           = Worked(works) - WorkCounted(works[k]) + WorkCounted(new)
<1>1. PICK f : f = [i \in DOMAIN works |-> WorkCounted(works[i])] OBVIOUS
<1>2. PICK rows : rows = [works EXCEPT ![k] = new] OBVIOUS
<1>3. PICK g : g = [i \in DOMAIN rows |-> WorkCounted(rows[i])] OBVIOUS
<1>4. /\ DOMAIN rows = DOMAIN works /\ rows[k] = new
      /\ \A i \in DOMAIN works \ {k} : rows[i] = works[i]
  BY <1>2
<1>5. /\ \A i \in DOMAIN works : f[i] \in Int /\ g[i] \in Int
      /\ \A i \in DOMAIN works \ {k} : g[i] = f[i]
      /\ f[k] = WorkCounted(works[k]) /\ g[k] = WorkCounted(new)
  BY <1>1, <1>3, <1>4, TimeTypes, CountedTypes
<1>6. PICK S : S = DOMAIN works OBVIOUS
<1>7. DifferAt(f, g, S, k) BY <1>5, <1>6, RowsFinite DEF DifferAt
<1>8. SumFunctionOnSet(g, S) = SumFunctionOnSet(f, S) - f[k] + g[k] BY <1>7, SumChanges
<1>9. QED BY <1>1, <1>2, <1>3, <1>4, <1>5, <1>6, <1>8 DEF Worked

LEMMA CountsAppend ==
  ASSUME NEW ofSteps, NEW rows, AttemptsMove(rows, ofSteps), NEW new \in AttemptRows
  PROVE  Counts(Append(rows, new)) = Counted(new) + Counts(rows)
<1>1. rows \in Seq(AttemptRows)
  <2>1. PICK fit : fit = FitAttempts OBVIOUS
  <2>2. PICK all : all = AttemptRows OBVIOUS
  <2>3. fit \subseteq all /\ rows \in Seq(fit) BY <2>1, <2>2 DEF AttemptsMove, FitAttempts
  <2>4. rows \in Seq(all) BY ONLY <2>3, RowsWiden
  <2>5. QED BY <2>2, <2>4
<1>2. PICK x : x = Len(rows) + 1 OBVIOUS
<1>3. PICK more : more = Append(rows, new) OBVIOUS
<1>4. /\ DOMAIN more = DOMAIN rows \cup {x} /\ x \notin DOMAIN rows /\ more[x] = new
      /\ \A i \in DOMAIN rows : more[i] = rows[i]
  BY <1>1, <1>2, <1>3, SeqAppend
<1>5. PICK f : f = [a \in DOMAIN rows |-> Counted(rows[a])] OBVIOUS
<1>6. PICK g : g = [a \in DOMAIN more |-> Counted(more[a])] OBVIOUS
<1>7. \A a \in DOMAIN rows : rows[a] \in AttemptRows BY <1>1, SeqIndices
<1>8. (\A a \in DOMAIN rows : f[a] \in Int /\ g[a] = f[a]) /\ g[x] \in Int /\ g[x] = Counted(new)
  BY <1>4, <1>5, <1>6, <1>7, CountedTypes
<1>9. PICK S : S = DOMAIN rows OBVIOUS
<1>10. IsFiniteSet(S) BY <1>1, <1>9, SeqIndices, FS_Interval
<1>11. SumFunctionOnSet(g, S \cup {x}) = g[x] + SumFunctionOnSet(f, S)
  BY <1>4, <1>8, <1>9, <1>10, SumGrows
<1>12. QED BY <1>3, <1>4, <1>5, <1>6, <1>8, <1>9, <1>11 DEF Counts

LEMMA WorkedAppend ==
  ASSUME NEW rows, WorksMove(rows), NEW new \in FitWorks
  PROVE  Worked(Append(rows, new)) = WorkCounted(new) + Worked(rows)
<1>1. rows \in Seq(FitWorks) BY DEF WorksMove
<1>2. PICK x : x = Len(rows) + 1 OBVIOUS
<1>3. PICK more : more = Append(rows, new) OBVIOUS
<1>4. /\ DOMAIN more = DOMAIN rows \cup {x} /\ x \notin DOMAIN rows /\ more[x] = new
      /\ \A i \in DOMAIN rows : more[i] = rows[i]
  BY <1>1, <1>2, <1>3, SeqAppend
<1>5. PICK f : f = [i \in DOMAIN rows |-> WorkCounted(rows[i])] OBVIOUS
<1>6. PICK g : g = [i \in DOMAIN more |-> WorkCounted(more[i])] OBVIOUS
<1>7. \A i \in DOMAIN rows : rows[i] \in FitWorks BY <1>1, SeqIndices
<1>8. (\A i \in DOMAIN rows : f[i] \in Int /\ g[i] = f[i]) /\ g[x] \in Int
      /\ g[x] = WorkCounted(new)
  BY <1>4, <1>5, <1>6, <1>7, CountedTypes
<1>9. PICK S : S = DOMAIN rows OBVIOUS
<1>10. IsFiniteSet(S) BY <1>1, <1>9, SeqIndices, FS_Interval
<1>11. SumFunctionOnSet(g, S \cup {x}) = g[x] + SumFunctionOnSet(f, S)
  BY <1>4, <1>8, <1>9, <1>10, SumGrows
<1>12. QED BY <1>3, <1>4, <1>5, <1>6, <1>8, <1>9, <1>11 DEF Worked

LEMMA WorkedInt == ASSUME NEW rows, WorksMove(rows) PROVE Worked(rows) \in Int
<1>1. rows \in Seq(FitWorks) BY DEF WorksMove
<1>2. DOMAIN rows = 1 .. Len(rows) /\ Len(rows) \in Nat BY <1>1, SeqIndices
<1>3. \A i \in DOMAIN rows : rows[i] \in FitWorks BY <1>1, SeqIndices
<1>4. PICK g : g = [i \in DOMAIN rows |-> WorkCounted(rows[i])] OBVIOUS
<1>5. \A i \in DOMAIN rows : g[i] \in Int BY <1>3, <1>4, CountedTypes
<1>6. PICK S : S = DOMAIN rows OBVIOUS
<1>7. IsFiniteSet(S) BY <1>2, <1>6, FS_Interval
<1>8. SumFunctionOnSet(g, S) \in Int BY <1>5, <1>6, <1>7, SumInt
<1>9. QED BY <1>4, <1>6, <1>8 DEF Worked

LEMMA AccountedMeans ==
  /\ TimeAccounted <=> task.active = Counts(attempts) + Worked(works)
  /\ TimeAccounted' <=> task'.active = Counts(attempts') + Worked(works')
BY DEF TimeAccounted, Counts, Worked

AttemptsCountSame ==
    /\ DOMAIN attempts' = DOMAIN attempts
    /\ \A a \in DOMAIN attempts : Counted(attempts'[a]) = Counted(attempts[a])

WorksCountSame ==
    /\ DOMAIN works' = DOMAIN works
    /\ \A i \in DOMAIN works : WorkCounted(works'[i]) = WorkCounted(works[i])

LEMMA TimeStays ==
  ASSUME TInv, TimeAccounted, AttemptsCountSame, WorksCountSame, task'.active = task.active
  PROVE  TimeAccounted'
<1>1. Counts(attempts') = Counts(attempts) BY CountsSame DEF AttemptsCountSame
<1>2. Worked(works') = Worked(works) BY WorkedSame DEF WorksCountSame
<1>3. QED BY <1>1, <1>2, AccountedMeans

LEMMA KeptCount ==
  ASSUME NEW at, NEW new, AttemptKept(at, new), new.settled = at.settled
  PROVE  Counted(new) = Counted(at)
BY DEF AttemptKept, Counted

LEMMA AttemptsSameCount ==
  ASSUME attempts' = attempts PROVE AttemptsCountSame
BY DEF AttemptsCountSame

LEMMA WorksSameCount ==
  ASSUME works' = works PROVE WorksCountSame
BY DEF WorksCountSame

LEMMA AbandonedCount ==
  ASSUME TInv, NEW n, attempts' = AbandonedOf(n)
  PROVE  AttemptsCountSame
<1>1. \A a \in DOMAIN attempts : Counted(Abandoned(attempts[a])) = Counted(attempts[a])
  BY OwnRows, AbandonedRow, KeptCount
<1>2. QED BY <1>1 DEF AttemptsCountSame, AbandonedOf

LEMMA SweptCount ==
  ASSUME TInv, works' = Swept PROVE WorksCountSame
<1>1. \A i \in DOMAIN works : works[i] \in FitWorks BY SeqIndices DEF TInv
<1>2. \A i \in DOMAIN works : WorkCounted(SweptRow(works[i])) = WorkCounted(works[i])
  BY <1>1, SweptRowKept
<1>3. QED BY <1>2, SweptRows DEF WorksCountSame

\* The time of work that ends replaces its reservation on both sides.
LEMMA WorkEndsTime ==
  ASSUME TInv, TimeAccounted, NEW i \in DOMAIN works, NEW t \in WorkTimes
  PROVE  TaskAfterWork(i, t).active = Counts(attempts) + Worked(WorkSettled(i, t))
<1>1. works[i] \in FitWorks /\ works[i] \in WorkRows BY SeqIndices DEF TInv, FitWorks
<1>2. t \in Nat BY ConstantsFit
<1>3. CASE works[i].status # "running"
  BY <1>3, AccountedMeans DEF TaskAfterWork, WorkSettled
<1>4. CASE works[i].status = "running"
  <2>1. PICK new : new = SettledWorkRow(works[i], t) OBVIOUS
  <2>2. new \in FitWorks /\ WorkCounted(new) = t
    BY <1>1, <1>4, <2>1, SettledWorkKept DEF WorkKept
  <2>3. WorkSettled(i, t) = [works EXCEPT ![i] = new] BY <2>1, SettledWork
  <2>4. WorkCounted(works[i]) = works[i].reserved /\ works[i].reserved \in Nat
    BY <1>1, <1>4 DEF WorkCounted, WorkRows
  <2>5. PICK x : x = Worked(WorkSettled(i, t)) OBVIOUS
  <2>6. x = Worked(works) - works[i].reserved + t BY <2>2, <2>3, <2>4, <2>5, WorkedChange
  <2>7. PICK counts \in Nat, worked \in Nat, reserved \in Nat :
          /\ counts = Counts(attempts) /\ worked = Worked(works) /\ reserved = works[i].reserved
    BY <2>4, TimeTypes
  <2>8. reserved <= worked BY <2>4, <2>7, TimeTypes
  <2>9. task.active = counts + worked BY <2>7, AccountedMeans
  <2>10. PICK y \in Nat : y = task.active - reserved + t BY <1>2, <2>8, <2>9
  <2>11. Max({0, y}) = y BY MaxOfTwo
  <2>12. TaskAfterWork(i, t).active = Max({0, task.active - reserved + t})
    BY <1>4, <2>7, StatusTypes DEF TaskAfterWork, TInv, TaskRows
  <2>13. TaskAfterWork(i, t).active = y BY <2>10, <2>11, <2>12
  <2>14. QED BY <1>2, <2>5, <2>6, <2>7, <2>9, <2>10, <2>13
<1>5. QED BY <1>3, <1>4

LEMMA EntryTime ==
  ASSUME TInv, TimeAccounted, NEW w \in Workers, NEW e \in Entries(w)
  PROVE  e.active = Counts(attempts) + Worked(e.works)
<1>1. CASE worker[w].phase = "prepare"
  <2>1. e.active = task.active /\ e.works = Swept BY <1>1 DEF Entries
  <2>2. DOMAIN Swept = DOMAIN works BY SweptRows
  <2>3. \A i \in DOMAIN works : works[i] \in FitWorks BY SeqIndices DEF TInv
  <2>4. \A i \in DOMAIN works : WorkCounted(Swept[i]) = WorkCounted(works[i])
    BY <2>3, SweptRowKept, SweptRows
  <2>5. Worked(Swept) = Worked(works) BY <2>2, <2>4, WorkedSame
  <2>6. QED BY <2>1, <2>5, AccountedMeans
<1>2. CASE worker[w].phase # "prepare"
  <2>1. /\ worker[w].phase = "files"
        /\ \E t \in WorkTimes : /\ e.active = TaskAfterWork(worker[w].work, t).active
                                /\ e.works = WorkSettled(worker[w].work, t)
    BY <1>2 DEF Entries
  <2>2. worker[w].work \in DOMAIN works BY <2>1 DEF TInv, Carries, WorkPhases
  <2>3. QED BY <2>1, <2>2, WorkEndsTime
<1>3. QED BY <1>1, <1>2

LEMMA EntryAccounted ==
  ASSUME TInv, TimeAccounted, NEW w \in Workers, NEW e \in Entries(w),
         task'.active = e.active, works' = e.works, AttemptsCountSame
  PROVE  TimeAccounted'
<1>1. Counts(attempts') = Counts(attempts) BY CountsSame DEF AttemptsCountSame
<1>2. QED BY <1>1, EntryTime, AccountedMeans

LEMMA ActiveSet ==
  ASSUME TInv, NEW active, NEW status,
         \/ task' = [task EXCEPT !.active = active]
         \/ task' = [task EXCEPT !.active = active, !.status = status]
         \/ task' = [task EXCEPT !.status = status, !.active = active]
  PROVE  task'.active = active
BY DEF TInv, TaskRows

LEMMA PrepareEntersTime ==
  ASSUME TInv, TimeAccounted, NEW w \in Workers,
         PreparePause(w) \/ PrepareTool(w) \/ PrepareClose(w) \/ PrepareDeadline(w)
           \/ PrepareRejects(w) \/ PrepareHeld(w)
  PROVE  TimeAccounted'
<1>1. PICK e \in Entries(w) : works' = e.works /\ task'.active = e.active
  BY ZenonT(60) DEF PreparePause, PrepareTool, PrepareClose, PrepareDeadline, PrepareRejects, PrepareHeld,
         TInv, TaskRows
<1>2. attempts' = attempts \/ attempts' = AbandonedOf(CallStep)
  BY DEF PreparePause, PrepareTool, PrepareClose, PrepareDeadline, PrepareRejects, PrepareHeld
<1>3. AttemptsCountSame BY <1>2, AttemptsSameCount, AbandonedCount
<1>4. QED BY <1>1, <1>3, EntryAccounted

LEMMA PrepareFilesTime ==
  ASSUME TInv, TimeAccounted, NEW w \in Workers, PrepareFiles(w) PROVE TimeAccounted'
<1>1. PICK e \in Entries(w) : Callable(e) /\ works' = Append(e.works, Reservation(e.active))
  BY DEF PrepareFiles
<1>2. task' = [task EXCEPT !.active = task.limit] /\ attempts' = attempts BY DEF PrepareFiles
<1>3. e.active \in Nat /\ WorksMove(e.works) BY <1>1, EntryFacts
<1>4. e.active < task.limit /\ task.limit \in Nat BY <1>1, <1>3, CallableTime, StatusTypes
<1>5. PICK new : new = Reservation(e.active) OBVIOUS
<1>6. new \in FitWorks BY <1>3, <1>4, <1>5, ReservationFits
<1>7. WorkCounted(new) = task.limit - e.active BY <1>5 DEF Reservation, WorkCounted
<1>8. Worked(works') = WorkCounted(new) + Worked(e.works) BY <1>1, <1>3, <1>5, <1>6, WorkedAppend
<1>9. e.active = Counts(attempts) + Worked(e.works) BY <1>1, EntryTime
<1>10. task'.active = task.limit BY <1>2 DEF TInv, TaskRows
<1>11. Counts(attempts) \in Nat BY TimeTypes
<1>12. Worked(e.works) \in Int BY <1>3, WorkedInt
<1>13. QED BY <1>2, <1>3, <1>4, <1>7, <1>8, <1>9, <1>10, <1>11, <1>12, AccountedMeans

LEMMA PrepareCallTime ==
  ASSUME TInv, TimeAccounted, NEW w \in Workers, PrepareCall(w) PROVE TimeAccounted'
<1>1. PICK e \in Entries(w), milliseconds \in Nat : Called(e, milliseconds) BY PrepareCallRows
<1>2. /\ works' = e.works /\ task' = [task EXCEPT !.active = e.active + milliseconds]
      /\ attempts' = Append(AbandonedOf(CallStep), NewAttempt(CallStep, milliseconds))
  BY <1>1 DEF Called
<1>3. PICK new : new = NewAttempt(CallStep, milliseconds) OBVIOUS
<1>4. new \in AttemptRows /\ Counted(new) = milliseconds
  <2>1. CallStep \in Nat BY CallStepMoves
  <2>2. new \in AttemptRows BY <1>3, <2>1, NewAttemptFits DEF FitAttempts
  <2>3. Counted(new) = milliseconds BY <1>3 DEF NewAttempt, Counted
  <2>4. QED BY <2>2, <2>3
<1>5. PICK rows : rows = AbandonedOf(CallStep) OBVIOUS
<1>6. AttemptsMove(rows, steps) BY <1>5, StepsSame, AbandonedRows
<1>7. Counts(attempts') = Counted(new) + Counts(rows) BY <1>2, <1>3, <1>4, <1>5, <1>6, CountsAppend
<1>8. Counts(rows) = Counts(attempts)
  <2>1. \A a \in DOMAIN attempts : Counted(Abandoned(attempts[a])) = Counted(attempts[a])
    BY OwnRows, AbandonedRow, KeptCount
  <2>2. DOMAIN rows = DOMAIN attempts
        /\ \A a \in DOMAIN attempts : Counted(rows[a]) = Counted(attempts[a])
    BY <1>5, <2>1 DEF AbandonedOf
  <2>3. QED BY <2>2, CountsSame
<1>9. e.active = Counts(attempts) + Worked(e.works) BY <1>1, EntryTime
<1>10. task'.active = e.active + milliseconds BY <1>2 DEF TInv, TaskRows
<1>11. e.active \in Nat /\ WorksMove(e.works) BY <1>1, EntryFacts
<1>12. Counts(attempts) \in Nat /\ Worked(e.works) \in Int BY <1>11, TimeTypes, WorkedInt
<1>13. QED BY <1>2, <1>4, <1>7, <1>8, <1>9, <1>10, <1>11, <1>12, AccountedMeans

LEMMA ToolAdmitTime ==
  ASSUME TInv, TimeAccounted, NEW w \in Workers, ToolAdmit(w) PROVE TimeAccounted'
<1>1. /\ works' = Append(Swept, Reservation(task.active)) /\ attempts' = attempts
      /\ task.active < task.limit /\ task'.active = task.limit
  BY DEF ToolAdmit, TInv, TaskRows
<1>2. PICK rows : rows = Swept OBVIOUS
<1>3. WorksMove(rows) BY <1>2, SweptRows
<1>4. PICK new : new = Reservation(task.active) OBVIOUS
<1>5. new \in FitWorks BY <1>1, <1>4, StatusTypes, ReservationFits
<1>6. WorkCounted(new) = task.limit - task.active BY <1>4 DEF Reservation, WorkCounted
<1>7. Worked(works') = WorkCounted(new) + Worked(rows) BY <1>1, <1>2, <1>3, <1>4, <1>5, WorkedAppend
<1>8. Worked(rows) = Worked(works)
  <2>1. \A i \in DOMAIN works : works[i] \in FitWorks BY SeqIndices DEF TInv
  <2>2. DOMAIN rows = DOMAIN works
        /\ \A i \in DOMAIN works : WorkCounted(rows[i]) = WorkCounted(works[i])
    BY <1>2, <2>1, SweptRowKept, SweptRows
  <2>3. QED BY <2>2, WorkedSame
<1>9. task.active = Counts(attempts) + Worked(works) BY AccountedMeans
<1>10. QED BY <1>1, <1>6, <1>7, <1>8, <1>9, StatusTypes, TimeTypes, AccountedMeans

\* Work ends with its time, and the task's row with it.
LEMMA WorkerEndsTime ==
  ASSUME TInv, TimeAccounted, NEW w \in Workers,
         FilesEnd(w) \/ PrepareDenied(w) \/ ToolRun(w) \/ ToolSettle(w) \/ ToolThrows(w)
  PROVE  TimeAccounted'
<1>1. attempts' = attempts BY DEF FilesEnd, PrepareDenied, ToolRun, ToolSettle, ToolThrows
<1>2. CASE UNCHANGED <<task, works>>
  BY <1>1, <1>2, AttemptsSameCount, WorksSameCount, TimeStays
<1>3. CASE /\ worker[w].phase \in WorkPhases
           /\ \E t \in WorkTimes : /\ works' = WorkSettled(worker[w].work, t)
                                   /\ task' = TaskAfterWork(worker[w].work, t)
  <2>1. PICK t \in WorkTimes : /\ works' = WorkSettled(worker[w].work, t)
                               /\ task' = TaskAfterWork(worker[w].work, t)
    BY <1>3
  <2>2. PICK i \in DOMAIN works : i = worker[w].work BY <1>3 DEF TInv, Carries
  <2>3. TaskAfterWork(i, t).active = Counts(attempts) + Worked(WorkSettled(i, t)) BY WorkEndsTime
  <2>4. QED BY <1>1, <2>1, <2>2, <2>3, AccountedMeans
<1>4. QED BY <1>2, <1>3 DEF FilesEnd, PrepareDenied, ToolRun, ToolSettle, ToolThrows, WorkPhases

\* Steps that write neither times nor rows that are counted.
LEMMA OthersTime ==
  ASSUME TInv, TimeAccounted, NEW w \in Workers,
         Poll(w) \/ PrepareNothing(w) \/ Deny(w) \/ Dispatch(w) \/ DispatchRefused(w) \/ Answer(w)
           \/ ToolEnded(w) \/ ToolWaits(w) \/ ToolTooLate(w) \/ ToolBegin(w) \/ ToolComplete(w)
           \/ ToolRefused(w) \/ ToolBlock(w) \/ ToolReport(w) \/ Crash(w)
  PROVE  TimeAccounted'
<1>1. attempts' = attempts /\ (works' = works \/ works' = Swept)
  BY DEF Poll, PrepareNothing, Deny, Dispatch, DispatchRefused, Answer, ToolEnded, ToolWaits,
         ToolTooLate, ToolBegin, ToolComplete, ToolRefused, ToolBlock, ToolReport, Crash
<1>2. task'.active = task.active
  BY DEF Poll, PrepareNothing, Deny, Dispatch, DispatchRefused, Answer, ToolEnded, ToolWaits,
         ToolTooLate, ToolBegin, ToolComplete, ToolRefused, ToolBlock, ToolReport, Crash,
         TInv, TaskRows
<1>3. QED BY <1>1, <1>2, AttemptsSameCount, WorksSameCount, SweptCount, TimeStays, SMTT(60)

LEMMA OwnerTime == ASSUME TInv, TimeAccounted, Owner PROVE TimeAccounted'
<1>1. attempts' = attempts /\ works' = works
  BY DEF Owner, pause, continueTask, reopen, decide
<1>2. task'.active = task.active
  BY DEF Owner, pause, continueTask, reopen, decide, TInv, TaskRows
<1>3. QED BY <1>1, <1>2, AttemptsSameCount, WorksSameCount, TimeStays

\* One attempt is written and counted as before.
LEMMA AttemptTime ==
  ASSUME TInv, TimeAccounted, NEW k, NEW new, attempts' = [attempts EXCEPT ![k] = new],
         k \in DOMAIN attempts => Counted(new) = Counted(attempts[k]), UNCHANGED <<task, works>>
  PROVE  TimeAccounted'
<1>1. AttemptsCountSame BY DEF AttemptsCountSame
<1>2. QED BY <1>1, WorksSameCount, TimeStays

LEMMA ObservesTime ==
  ASSUME TInv, TimeAccounted, NEW w \in Workers, Observe(w) \/ SettleLost(w) PROVE TimeAccounted'
<1>1. CASE Observe(w)
  <2>1. PICK known \in BOOLEAN : known = (worker[w].result = "answer") OBVIOUS
  <2>2. PICK new : new = Observed(attempts[worker[w].attempt], known, worker[w].elapsed) OBVIOUS
  <2>3. attempts' = [attempts EXCEPT ![worker[w].attempt] = new] BY <1>1, <2>1, <2>2 DEF Observe
  <2>4. worker[w].attempt \in DOMAIN attempts => Counted(new) = Counted(attempts[worker[w].attempt])
    <3>1. worker[w].elapsed \in Nat BY DEF TInv, WorkerRows
    <3>2. QED BY <2>2, <3>1, OwnRows, ObservedRow, KeptCount
  <2>5. QED BY <1>1, <2>3, <2>4, AttemptTime DEF Observe
<1>2. CASE SettleLost(w)
  <2>1. PICK late : attempts' = [attempts EXCEPT ![worker[w].attempt].late = late]
    BY <1>2 DEF SettleLost
  <2>2. PICK new : new = [attempts[worker[w].attempt] EXCEPT !.late = late] OBVIOUS
  <2>3. attempts' = [attempts EXCEPT ![worker[w].attempt] = new] BY <2>1, <2>2
  <2>4. worker[w].attempt \in DOMAIN attempts => Counted(new) = Counted(attempts[worker[w].attempt])
    BY <2>2, OwnRows DEF Counted, AttemptRows
  <2>5. QED BY <1>2, <2>3, <2>4, AttemptTime DEF SettleLost
<1>3. QED BY <1>1, <1>2

LEMMA AttemptsTimeTime ==
  ASSUME TInv, TimeAccounted, NEW a \in DOMAIN attempts, LeaseEnds(a) \/ LateLost(a) \/ LateObserve(a)
  PROVE  TimeAccounted'
<1>1. CASE LeaseEnds(a)
  <2>1. PICK new : new = [attempts[a] EXCEPT !.live = FALSE] OBVIOUS
  <2>2. attempts' = [attempts EXCEPT ![a] = new] BY <1>1, <2>1 DEF LeaseEnds
  <2>3. Counted(new) = Counted(attempts[a]) BY <2>1, OwnRows DEF Counted, AttemptRows
  <2>4. QED BY <1>1, <2>2, <2>3, AttemptTime DEF LeaseEnds
<1>2. CASE LateLost(a)
  <2>1. PICK new : new = [attempts[a] EXCEPT !.late = "none"] OBVIOUS
  <2>2. attempts' = [attempts EXCEPT ![a] = new] BY <1>2, <2>1 DEF LateLost
  <2>3. Counted(new) = Counted(attempts[a]) BY <2>1, OwnRows DEF Counted, AttemptRows
  <2>4. QED BY <1>2, <2>2, <2>3, AttemptTime DEF LateLost
<1>3. CASE LateObserve(a)
  <2>1. PICK reported \in BOOLEAN :
          attempts' = [attempts EXCEPT ![a] =
             [Observed(@, reported, @.reserved + 1) EXCEPT !.late = "observed"]]
    BY <1>3 DEF LateObserve
  <2>2. PICK mid : mid = Observed(attempts[a], reported, attempts[a].reserved + 1) OBVIOUS
  <2>3. PICK new : new = [mid EXCEPT !.late = "observed"] OBVIOUS
  <2>4. attempts' = [attempts EXCEPT ![a] = new] BY <2>1, <2>2, <2>3
  <2>5. PICK milliseconds \in Nat : milliseconds = attempts[a].reserved + 1
    BY OwnRows DEF AttemptRows
  <2>6. mid \in AttemptRows /\ Counted(mid) = Counted(attempts[a])
    BY <2>2, <2>5, OwnRows, ObservedRow, KeptCount DEF AttemptKept
  <2>7. Counted(new) = Counted(mid) BY <2>3, <2>6 DEF Counted, AttemptRows
  <2>8. QED BY <1>3, <2>4, <2>6, <2>7, AttemptTime DEF LateObserve
<1>4. QED BY <1>1, <1>2, <1>3

\* What a settlement changes: the observed time in place of what was counted.
LEMMA SettlesTime ==
  ASSUME TInv, TimeAccounted, NEW w \in Workers, worker[w].phase = "observed",
         NEW mid, AttemptKept(attempts[worker[w].attempt], mid),
         mid.observed = attempts[worker[w].attempt].observed,
         attempts' = [attempts EXCEPT ![worker[w].attempt] = SettledRow(w, mid)],
         works' = works, task'.active = ActiveAfter(w)
  PROVE  TimeAccounted'
<1>1. PICK k \in DOMAIN attempts : k = worker[w].attempt BY SettlesWhat
<1>2. PICK row : row = SettledRow(w, mid) OBVIOUS
<1>3. row \in AttemptRows /\ row.settled = mid.observed
  <2>1. PICK at : at = attempts[worker[w].attempt] OBVIOUS
  <2>2. AttemptKept(at, mid) BY <2>1
  <2>3. AttemptKept(at, row) BY <1>2, <2>2, SettledRowKept
  <2>4. mid \in AttemptRows /\ row \in AttemptRows BY <2>2, <2>3 DEF AttemptKept
  <2>5. row.settled = mid.observed BY <1>2, <2>4 DEF SettledRow, TimeSettled, AttemptRows
  <2>6. QED BY <2>4, <2>5
<1>4. PICK seen \in Nat : seen = attempts[k].observed BY <1>1, SettlesWhat
<1>5. Counted(row) = seen BY <1>1, <1>3, <1>4 DEF Counted, Open
<1>6. PICK counts \in Nat, worked \in Nat, old \in Nat :
        counts = Counts(attempts) /\ worked = Worked(works) /\ old = Counted(attempts[k])
  BY TimeTypes
<1>7. old <= counts BY <1>6, TimeTypes
<1>8. TimeCorrection(attempts[k]) = seen - old BY <1>4, <1>6 DEF TimeCorrection, Counted
<1>9. task.active = counts + worked BY <1>6, AccountedMeans
<1>10. PICK y \in Nat : y = task.active + (seen - old) BY <1>7, <1>9
<1>11. Max({0, y}) = y BY MaxOfTwo
<1>12. ActiveAfter(w) = y BY <1>1, <1>8, <1>10, <1>11 DEF ActiveAfter
<1>13. attempts' = [attempts EXCEPT ![k] = row] BY <1>1, <1>2
<1>14. Counts(attempts') = counts - old + seen BY <1>3, <1>5, <1>6, <1>13, CountsChange
<1>15. QED BY <1>6, <1>9, <1>10, <1>12, <1>14, AccountedMeans

LEMMA SettleTime ==
  ASSUME TInv, TimeAccounted, NEW w \in Workers, Settle(w) PROVE TimeAccounted'
<1>1. CASE SettleLate(w)
  <2>1. worker[w].phase = "observed" /\ works' = works BY <1>1 DEF SettleLate
  <2>2. PICK known \in BOOLEAN : known = (worker[w].result = "answer") OBVIOUS
  <2>3. PICK mid : mid = SettledLate(attempts[worker[w].attempt], worker[w].result, known) OBVIOUS
  <2>4. attempts' = [attempts EXCEPT ![worker[w].attempt] = SettledRow(w, mid)]
    BY <1>1, <2>2, <2>3 DEF SettleLate
  <2>5. /\ AttemptKept(attempts[worker[w].attempt], mid)
        /\ mid.observed = attempts[worker[w].attempt].observed
    BY <2>1, <2>3, SettlesWhat, SettledLateRow
  <2>6. task'.active = ActiveAfter(w) BY <1>1 DEF SettleLate, TInv, TaskRows
  <2>7. QED BY <2>1, <2>4, <2>5, <2>6, SettlesTime
<1>2. CASE SettleFailure(w) \/ SettleWithdrawn(w) \/ SettleLimited(w) \/ SettlePublished(w)
  <2>1. SettlesLive(w)
    BY <1>2 DEF SettleFailure, SettleWithdrawn, SettleLimited, SettlePublished
  <2>2. /\ worker[w].phase = "observed" /\ works' = works /\ LiveAttempt(worker[w].attempt)
        /\ attempts' = [attempts EXCEPT ![worker[w].attempt] =
                          SettledRow(w, SettledLive(@, worker[w].result))]
    BY <2>1 DEF SettlesLive
  <2>3. PICK mid : mid = SettledLive(attempts[worker[w].attempt], worker[w].result) OBVIOUS
  <2>4. attempts' = [attempts EXCEPT ![worker[w].attempt] = SettledRow(w, mid)] BY <2>2, <2>3
  <2>5. attempts[worker[w].attempt].status = "running" BY <2>2 DEF LiveAttempt
  <2>6. /\ AttemptKept(attempts[worker[w].attempt], mid)
        /\ mid.observed = attempts[worker[w].attempt].observed
    BY <2>2, <2>3, <2>5, SettlesWhat, SettledLiveRow
  <2>7. PICK active : active = ActiveAfter(w) OBVIOUS
  <2>8. \/ task' = [task EXCEPT !.active = active]
        \/ \E status : task' = [task EXCEPT !.active = active, !.status = status]
    BY <1>2, <2>7 DEF SettleFailure, SettleWithdrawn, SettleLimited, SettlePublished
  <2>9. task'.active = active BY <2>8 DEF TInv, TaskRows
  <2>10. QED BY <2>2, <2>4, <2>6, <2>7, <2>9, SettlesTime
<1>3. QED BY <1>1, <1>2, ObservesTime DEF Settle

LEMMA RecoveryTime ==
  ASSUME TInv, TimeAccounted, NEW rows, DOMAIN rows = DOMAIN attempts,
         \A a \in DOMAIN attempts :
            /\ AttemptKept(attempts[a], rows[a])
            /\ rows[a].settled = attempts[a].settled /\ rows[a].observed = attempts[a].observed,
         recoverTaskModelUsage(rows), UNCHANGED <<works, used>>
  PROVE  TimeAccounted'
<1>1. /\ TaskMoves /\ DOMAIN attempts' = DOMAIN attempts
      /\ \A a \in DOMAIN attempts :
           attempts'[a] = IF a \in Recoverable THEN Recovered(rows[a]) ELSE rows[a]
  BY RecoveryRows
<1>2. PICK S : S = DOMAIN attempts OBVIOUS
<1>3. PICK f : f = [a \in S |-> Counted(attempts[a])] OBVIOUS
<1>4. PICK g : g = [a \in S |-> Counted(attempts'[a])] OBVIOUS
<1>5. PICK c : c = [a \in DOMAIN attempts |-> TimeCorrection(attempts[a])] OBVIOUS
<1>6. PICK h : h = [a \in S |-> IF a \in Recoverable THEN c[a] ELSE 0] OBVIOUS
<1>7. \A a \in S : /\ f[a] \in Nat /\ h[a] \in Int /\ g[a] = f[a] + h[a]
                   /\ a \in Recoverable => c[a] \in Int
  <2> TAKE a \in S
  <2>1. attempts[a] \in AttemptRows /\ attempts[a] \in FitAttempts /\ a \in DOMAIN attempts
    BY <1>2, OwnRows, SeqIndices DEF TInv
  <2>2. f[a] = Counted(attempts[a]) /\ Counted(attempts[a]) \in Nat BY <1>2, <1>3, TimeTypes
  <2>3. rows[a] \in AttemptRows /\ rows[a].reserved = attempts[a].reserved BY <2>1 DEF AttemptKept
  <2>4. CASE a \in Recoverable
    <3>1. attempts[a].observed \in Nat
      BY <2>1, <2>4 DEF Recoverable, FitAttempts, AttemptRows
    <3>2. attempts'[a].settled = attempts[a].observed BY <1>1, <2>1, <2>3, <2>4, RecoveredRow
    <3>3. Counted(attempts'[a]) = attempts[a].observed BY <3>1, <3>2 DEF Counted, Open
    <3>4. c[a] = attempts[a].observed - Counted(attempts[a])
      BY <1>5, <2>1 DEF TimeCorrection, Counted
    <3>5. h[a] = c[a] /\ g[a] = attempts[a].observed BY <1>4, <1>6, <2>4, <3>3
    <3>6. QED BY <2>2, <3>1, <3>4, <3>5
  <2>5. CASE a \notin Recoverable
    <3>1. attempts'[a] = rows[a] BY <1>1, <2>1, <2>5
    <3>2. Counted(attempts'[a]) = Counted(attempts[a]) BY <2>1, <2>3, <3>1 DEF Counted
    <3>3. h[a] = 0 /\ g[a] = Counted(attempts[a]) BY <1>4, <1>6, <2>5, <3>2
    <3>4. QED BY <2>2, <2>5, <3>3
  <2>6. QED BY <2>4, <2>5
<1>8. IsFiniteSet(S) /\ Recoverable \subseteq S BY <1>2, RowsFinite DEF Recoverable
<1>9. AddsUp(f, h, g, S) BY <1>7, <1>8 DEF AddsUp
<1>10. SumFunctionOnSet(g, S) = SumFunctionOnSet(f, S) + SumFunctionOnSet(h, S) BY <1>9, SumPlus
<1>11. PICK R : R = Recoverable OBVIOUS
<1>12. OnPart(c, h, R, S) BY <1>6, <1>7, <1>8, <1>11 DEF OnPart
<1>13. SumFunctionOnSet(h, S) = SumFunctionOnSet(c, R) BY <1>12, SumPart
<1>14. PICK more \in Int : more = SumFunctionOnSet(c, R)
  <2>1. IsFiniteSet(R) /\ \A a \in R : c[a] \in Int BY <1>7, <1>8, <1>11, FS_Subset
  <2>2. QED BY <2>1, SumInt
<1>15. \A a \in S : g[a] \in Nat
  <2> TAKE a \in S
  <2>1. attempts' \in Seq(FitAttempts) /\ a \in DOMAIN attempts'
    <3>1. AttemptsMove(attempts', steps') BY RecoveryRows
    <3>2. QED BY <1>1, <1>2, <3>1 DEF AttemptsMove
  <2>2. attempts'[a] \in AttemptRows
    <3>1. PICK after : after = attempts' OBVIOUS
    <3>2. after[a] \in FitAttempts BY <2>1, <3>1, SeqIndices
    <3>3. QED BY <3>1, <3>2 DEF FitAttempts
  <2>3. QED BY <1>4, <2>2, CountedTypes
<1>16. PICK all \in Nat : all = SumFunctionOnSet(g, S) BY <1>8, <1>15, SumNat
<1>17. PICK counts \in Nat, worked \in Nat : counts = Counts(attempts) /\ worked = Worked(works)
  BY TimeTypes
<1>18. counts = SumFunctionOnSet(f, S) BY <1>2, <1>3, <1>17 DEF Counts
<1>19. Counts(attempts') = all BY <1>1, <1>2, <1>4, <1>16 DEF Counts
<1>20. all = counts + more BY <1>10, <1>13, <1>14, <1>16, <1>18
<1>21. task.active = counts + worked BY <1>17, AccountedMeans
<1>22. PICK y \in Nat : y = task.active + more BY <1>20, <1>21
<1>23. Max({0, y}) = y BY MaxOfTwo
<1>24. task' = [task EXCEPT !.active = Max({0, @ + SumFunctionOnSet(c, R)})]
  BY <1>5, <1>11 DEF recoverTaskModelUsage
<1>25. task'.active = y BY <1>14, <1>22, <1>23, <1>24 DEF TInv, TaskRows
<1>26. QED BY <1>17, <1>19, <1>20, <1>21, <1>22, <1>25, AccountedMeans

LEMMA RecoversTime ==
  ASSUME TInv, TimeAccounted, (\E w \in Workers : Recover(w)) \/ (\E a \in DOMAIN attempts : LateRecover(a))
  PROVE  TimeAccounted'
<1>1. CASE \E w \in Workers : Recover(w)
  <2>1. recoverTaskModelUsage(attempts) /\ UNCHANGED <<works, used>> BY <1>1 DEF Recover
  <2>2. PICK rows : rows = attempts OBVIOUS
  <2>3. QED BY <2>1, <2>2, OwnRows, RecoveryTime
<1>2. CASE \E a \in DOMAIN attempts : LateRecover(a)
  <2>1. PICK a \in DOMAIN attempts : LateRecover(a) BY <1>2
  <2>2. UNCHANGED <<works, used>> BY <2>1 DEF LateRecover
  <2>3. PICK rows : rows = LateOver(a) OBVIOUS
  <2>4. DOMAIN rows = DOMAIN attempts /\ \A b \in DOMAIN attempts : AttemptKept(attempts[b], rows[b])
    BY <2>3, LateOverRows
  <2>5. \A b \in DOMAIN attempts :
           rows[b].settled = attempts[b].settled /\ rows[b].observed = attempts[b].observed
    <3>1. rows[a] = [attempts[a] EXCEPT !.late = "none"] BY <2>3, LateOverRows
    <3>2. rows[a].settled = attempts[a].settled /\ rows[a].observed = attempts[a].observed
      BY <3>1, OwnRows DEF AttemptRows
    <3>3. \A b \in DOMAIN attempts \ {a} : rows[b] = attempts[b] BY <2>3, LateOverRows
    <3>4. QED BY <3>2, <3>3
  <2>6. CASE recoverTaskModelUsage(rows)
    <3>1. \A b \in DOMAIN attempts :
             /\ AttemptKept(attempts[b], rows[b])
             /\ rows[b].settled = attempts[b].settled /\ rows[b].observed = attempts[b].observed
      BY <2>4, <2>5
    <3>2. QED BY ONLY TInv, TimeAccounted, <2>2, <2>4, <2>6, <3>1, RecoveryTime
  <2>7. CASE attempts' = rows /\ UNCHANGED <<task, steps>>
    <3>1. \A b \in DOMAIN attempts : Counted(rows[b]) = Counted(attempts[b])
      BY <2>4, <2>5, KeptCount
    <3>2. AttemptsCountSame BY <2>4, <2>7, <3>1 DEF AttemptsCountSame
    <3>3. QED BY <2>2, <2>7, <3>2, WorksSameCount, TimeStays
  <2>8. QED BY <2>1, <2>3, <2>6, <2>7 DEF LateRecover, LateOver
<1>3. QED BY <1>1, <1>2

LEMMA PassesTime ==
  ASSUME TInv, TimeAccounted, Time
  PROVE  TimeAccounted'
<1>1. ASSUME NEW n \in DOMAIN steps, DeadlinePasses(n) \/ BackoffEnds(n) PROVE TimeAccounted'
  <2>1. attempts' = attempts /\ works' = works /\ task' = task
    BY <1>1 DEF DeadlinePasses, BackoffEnds
  <2>2. QED BY <2>1, AttemptsSameCount, WorksSameCount, TimeStays
<1>2. ASSUME NEW i \in DOMAIN works, WorkExpires(i) PROVE TimeAccounted'
  <2>1. attempts' = attempts /\ task' = task /\ works' = [works EXCEPT ![i].live = FALSE]
    BY <1>2 DEF WorkExpires
  <2>2. works[i] \in FitWorks BY SeqIndices DEF TInv
  <2>3. PICK new : new = [works[i] EXCEPT !.live = FALSE] OBVIOUS
  <2>4. works' = [works EXCEPT ![i] = new] BY <2>1, <2>3
  <2>5. WorkCounted(new) = WorkCounted(works[i])
    BY <2>2, <2>3 DEF WorkCounted, FitWorks, WorkRows
  <2>6. WorksCountSame BY <2>4, <2>5 DEF WorksCountSame
  <2>7. QED BY <2>1, <2>6, AttemptsSameCount, TimeStays
<1>3. ASSUME NEW a \in DOMAIN attempts, LeaseEnds(a) PROVE TimeAccounted'
  BY <1>3, AttemptsTimeTime
<1>4. QED BY <1>1, <1>2, <1>3 DEF Time

LEMMA TimeStep == ASSUME TInv, TimeAccounted, [Next]_vars PROVE TimeAccounted'
<1>1. CASE UNCHANGED vars
  BY <1>1, AttemptsSameCount, WorksSameCount, TimeStays DEF vars
<1>2. ASSUME NEW w \in Workers, Prepare(w) PROVE TimeAccounted'
  BY <1>2, OthersTime, PrepareEntersTime, PrepareFilesTime, PrepareCallTime, WorkerEndsTime
     DEF Prepare
<1>3. ASSUME NEW w \in Workers, Model(w) \/ Settle(w) PROVE TimeAccounted'
  BY <1>3, OthersTime, ObservesTime, SettleTime DEF Model
<1>4. ASSUME NEW w \in Workers, Tool(w) PROVE TimeAccounted'
  BY <1>4, OthersTime, ToolAdmitTime, WorkerEndsTime DEF Tool
<1>5. ASSUME NEW w \in Workers, process(w) \/ ToolThrows(w) \/ Crash(w) PROVE TimeAccounted'
  BY <1>2, <1>3, <1>4, <1>5, OthersTime, WorkerEndsTime, RecoversTime DEF process
<1>6. ASSUME NEW a \in DOMAIN attempts, Late(a) \/ LateLost(a) PROVE TimeAccounted'
  BY <1>6, AttemptsTimeTime, RecoversTime DEF Late
<1>7. QED BY <1>1, <1>5, <1>6, OwnerTime, PassesTime DEF Next

LEMMA TimeInit == ASSUME Init PROVE TimeAccounted
<1>1. DOMAIN attempts = {} /\ DOMAIN works = {} /\ task.active = 0 BY DEF Init
<1>2. Counts(attempts) = 0 BY <1>1, SumEmpty DEF Counts
<1>3. Worked(works) = 0 BY <1>1, SumEmpty DEF Worked
<1>4. QED BY <1>1, <1>2, <1>3, AccountedMeans

\* The active time a task is charged is always the sum of what its model calls
\* and its file and tool work count for, whichever transactions overtook each
\* other: a reservation until the work is settled and the time it took
\* afterwards, so no time is charged twice, lost, or given back by the floor
\* of zero in chargeTaskTime.
THEOREM ActiveTimeAddsUp == Spec => []TimeAccounted
<1>1. Init => TimeAccounted BY TimeInit
<1>2. TInv /\ TimeAccounted /\ [Next]_vars => TimeAccounted' BY TimeStep
<1>3. QED BY <1>1, <1>2, TInvariant, PTL DEF Spec

-----------------------------------------------------------------------------
(***************************************************************************)
(* The fourth layer: spending. A generation owes its attempts' charges, so *)
(* each must be corrected exactly once. A settlement and a recovery look   *)
(* at whether the row carries a charge or usage to tell whether they may   *)
(* correct it. What they see agrees with what was charged as long as the   *)
(* row has forgotten nothing, and what is forgotten stays so.              *)
(***************************************************************************)
Tells(at) == at.charged = Open <=> Correctable(at)

RowsTell == \A a \in DOMAIN attempts : ~attempts[a].forgotten => Tells(attempts[a])

SpendInv == RowsTell /\ SpentOnce

\* What a statement makes of a row whose generation it corrects by c.
Corrects(at, new, c) ==
    ~new.forgotten => /\ ~at.forgotten
                      /\ Tells(at) => Tells(new) /\ Owed(new) = Owed(at) + c

LEMMA HoldersAttempt ==
  ASSUME TInv, NEW w \in Workers, worker[w].phase \in CallPhases
  PROVE  worker[w].attempt \in DOMAIN attempts
  BY DEF CallPhases, TInv, Carries

LEMMA WorkerRow ==
  ASSUME TInv, NEW w \in Workers
  PROVE  worker[w] \in WorkerRows /\ DOMAIN worker = Workers
BY DEF TInv

LEMMA StepRowOf == ASSUME TInv PROVE \A n \in DOMAIN steps : steps[n] \in StepRows
BY SeqIndices DEF TInv, FitSteps

LEMMA OwedType == \A at \in AttemptRows : Owed(at) \in Nat
BY CostsFit DEF Owed, AttemptRows, Open

\* Nothing that tells changes.
LEMMA CorrectsSame ==
  ASSUME NEW at \in AttemptRows, NEW new, new.charged = at.charged, new.known = at.known,
         new.noted = at.noted, new.forgotten = at.forgotten
  PROVE  Corrects(at, new, 0)
<1>1. Owed(new) = Owed(at) /\ Owed(at) \in Nat BY OwedType DEF Owed
<1>2. Tells(new) <=> Tells(at) BY DEF Tells, Correctable
<1>3. QED BY <1>1, <1>2 DEF Corrects

LEMMA CorrectsAgain ==
  ASSUME NEW at \in AttemptRows, NEW mid, NEW new, NEW c \in Int, NEW d \in Int,
         Corrects(at, mid, c), Corrects(mid, new, d)
  PROVE  Corrects(at, new, c + d)
<1>1. Owed(at) \in Nat BY OwedType
<1>2. QED BY <1>1 DEF Corrects

LEMMA AbandonedCorrects ==
  ASSUME NEW at \in AttemptRows
  PROVE  Corrects(at, Abandoned(at), 0)
<1>1. CASE at.status # "running"
  <2>1. Abandoned(at) = at BY <1>1 DEF Abandoned
  <2>2. QED BY <2>1, CorrectsSame
<1>2. CASE at.status = "running"
  <2>1. PICK new : new = Abandoned(at) OBVIOUS
  <2>2. new.known = at.known /\ new.charged = at.charged /\ new.noted = FALSE
    BY <1>2, <2>1, AbandonedRow
  <2>3. new.forgotten = (at.forgotten \/ (at.noted /\ ~at.known))
    BY <1>2, <2>1 DEF Abandoned, AttemptRows
  <2>4. Owed(new) = Owed(at) /\ Owed(at) \in Nat BY <2>2, OwedType DEF Owed
  <2>5. at.noted \in BOOLEAN /\ at.known \in BOOLEAN /\ at.forgotten \in BOOLEAN
    BY DEF AttemptRows
  <2>6. ~new.forgotten => ~at.forgotten /\ (Correctable(new) <=> Correctable(at))
    BY <2>2, <2>3, <2>5 DEF Correctable
  <2>7. QED BY <2>1, <2>2, <2>4, <2>6 DEF Corrects, Tells
<1>3. QED BY <1>1, <1>2

\* What the settlement of a live attempt makes of it.
LEMMA LiveCorrects ==
  ASSUME NEW at \in AttemptRows, NEW result, at.charged = Open
  PROVE  Corrects(at, SettledLive(at, result), LiveCorrection(result))
<1>1. PICK known \in BOOLEAN : known = (result = "answer") OBVIOUS
<1>2. PICK charge : charge = definitiveCharge(result, known) OBVIOUS
<1>3. charge \in Nat \cup {Open} BY <1>2, ChargeType
<1>4. known => charge # Open BY <1>1, <1>2, CostsFit DEF definitiveCharge, Unanswered, Open
<1>5. PICK new : new = SettledLive(at, result) OBVIOUS
<1>6. new.known = known BY <1>1, <1>5 DEF SettledLive, AttemptRows
<1>7. new.noted = (charge # Open) BY <1>1, <1>2, <1>5 DEF SettledLive, AttemptRows
<1>8. new.charged = charge BY <1>1, <1>2, <1>5 DEF SettledLive, AttemptRows, settleCredits
<1>9. new.forgotten = at.forgotten BY <1>5 DEF SettledLive, AttemptRows
<1>10. Tells(new) BY <1>4, <1>6, <1>7, <1>8 DEF Tells, Correctable
<1>11. LiveCorrection(result) = IF charge = Open THEN 0 ELSE charge - ReservedCost
  BY <1>1, <1>2 DEF LiveCorrection
<1>12. Owed(at) = ReservedCost /\ Owed(new) = IF charge = Open THEN ReservedCost ELSE charge
  BY <1>8 DEF Owed
<1>13. QED BY <1>3, <1>5, <1>9, <1>10, <1>11, <1>12, CostsFit DEF Open, Corrects

\* What a later settlement makes of it: nothing, if the row tells that it is
\* corrected.
LEMMA LateCorrects ==
  ASSUME NEW at \in AttemptRows, NEW result, NEW known \in BOOLEAN,
         known => definitiveCharge(result, known) # Open
  PROVE  Corrects(at, SettledLate(at, result, known), LateCorrection(at, result, known))
<1>1. PICK charge : charge = definitiveCharge(result, known) OBVIOUS
<1>2. charge \in Nat \cup {Open} BY <1>1, ChargeType
<1>3. PICK new : new = SettledLate(at, result, known) OBVIOUS
<1>4. new.charged = IF at.charged = Open /\ charge # Open THEN charge ELSE at.charged
  BY <1>1, <1>3 DEF SettledLate, settleCredits, AttemptRows
<1>5. PICK fresh \in BOOLEAN : fresh = Correctable(at) BY DEF Correctable
<1>6. PICK definite \in BOOLEAN : definite = (charge # Open) OBVIOUS
<1>7. /\ new.noted = IF fresh THEN definite ELSE at.noted
      /\ new.known = IF fresh THEN known ELSE at.known
      /\ new.forgotten = at.forgotten
  BY <1>1, <1>3, <1>5, <1>6 DEF SettledLate, AttemptRows
<1>8. LateCorrection(at, result, known) = IF fresh /\ definite THEN charge - ReservedCost ELSE 0
  BY <1>1, <1>5, <1>6 DEF LateCorrection
<1>9. Owed(at) \in Nat BY OwedType
<1>10. CASE ~fresh
  <2>1. ~Correctable(at) /\ ~Correctable(new) BY <1>5, <1>7, <1>10 DEF Correctable
  <2>2. Tells(at) => Owed(new) = Owed(at) /\ new.charged # Open
    BY <1>4, <2>1 DEF Tells, Owed
  <2>3. LateCorrection(at, result, known) = 0 BY <1>8, <1>10
  <2>4. QED BY <1>3, <1>7, <1>9, <2>1, <2>2, <2>3 DEF Corrects, Tells
<1>11. CASE fresh /\ definite
  <2>1. charge \in Nat /\ charge # Open BY <1>2, <1>6, <1>11
  <2>2. ~Correctable(new) BY <1>7, <1>11 DEF Correctable
  <2>3. Tells(at) => Owed(new) = charge /\ Owed(at) = ReservedCost /\ new.charged # Open
    BY <1>4, <1>5, <1>11, <2>1 DEF Tells, Owed
  <2>4. LateCorrection(at, result, known) = charge - ReservedCost BY <1>8, <1>11
  <2>5. QED BY <1>3, <1>7, <2>1, <2>2, <2>3, <2>4, CostsFit DEF Corrects, Tells
<1>12. CASE fresh /\ ~definite
  <2>1. charge = Open /\ ~known BY <1>1, <1>6, <1>12
  <2>2. Correctable(new) BY <1>7, <1>12, <2>1 DEF Correctable
  <2>3. new.charged = at.charged BY <1>4, <2>1
  <2>4. LateCorrection(at, result, known) = 0 BY <1>8, <1>12
  <2>5. Owed(new) = Owed(at) BY <2>3 DEF Owed
  <2>6. QED BY <1>3, <1>5, <1>7, <1>9, <1>12, <2>2, <2>3, <2>4, <2>5 DEF Corrects, Tells
<1>13. QED BY <1>10, <1>11, <1>12

LEMMA TimeCorrects ==
  ASSUME NEW w, NEW at \in AttemptRows
  PROVE  Corrects(at, TimeSettled(at), 0) /\ Corrects(at, SettledRow(w, at), 0)
<1>1. PICK one : one = TimeSettled(at) OBVIOUS
<1>2. PICK two : two = SettledRow(w, at) OBVIOUS
<1>3. /\ one.charged = at.charged /\ one.known = at.known
      /\ one.noted = at.noted /\ one.forgotten = at.forgotten
  BY <1>1 DEF TimeSettled, AttemptRows
<1>4. /\ two.charged = at.charged /\ two.known = at.known
      /\ two.noted = at.noted /\ two.forgotten = at.forgotten
  BY <1>2 DEF SettledRow, TimeSettled, AttemptRows
<1>5. QED BY <1>1, <1>2, <1>3, <1>4, CorrectsSame

LEMMA LateFieldCorrects ==
  ASSUME NEW at \in AttemptRows, NEW late
  PROVE  Corrects(at, [at EXCEPT !.late = late], 0)
<1>1. PICK new : new = [at EXCEPT !.late = late] OBVIOUS
<1>2. /\ new.charged = at.charged /\ new.known = at.known
      /\ new.noted = at.noted /\ new.forgotten = at.forgotten
  BY <1>1 DEF AttemptRows
<1>3. QED BY <1>1, <1>2, CorrectsSame

LEMMA ObservedCorrects ==
  ASSUME NEW at \in AttemptRows, NEW reported \in BOOLEAN, NEW milliseconds \in Nat
  PROVE  Corrects(at, Observed(at, reported, milliseconds), 0)
<1>1. PICK new : new = Observed(at, reported, milliseconds) OBVIOUS
<1>2. /\ new.charged = at.charged /\ new.known = at.known
      /\ new.noted = at.noted /\ new.forgotten = at.forgotten
  BY <1>1 DEF Observed, AttemptRows
<1>3. QED BY <1>1, <1>2, CorrectsSame

\* A callback that is over changes nothing that settlements look at.
LateOverRow(at, row) == row = at \/ row = [at EXCEPT !.late = "none"]

LEMMA LateOverFields ==
  ASSUME NEW at \in AttemptRows, NEW row, LateOverRow(at, row)
  PROVE  /\ row \in AttemptRows /\ row.status = at.status
         /\ row.charged = at.charged /\ row.known = at.known
         /\ row.noted = at.noted /\ row.forgotten = at.forgotten
         /\ row.reported = at.reported
BY DEF LateOverRow, AttemptRows

\* What a recovery makes of a row: it is abandoned, settled as a timeout, and its
\* time is settled.
LEMMA RecoveredCorrects ==
  ASSUME NEW at \in AttemptRows, NEW row, LateOverRow(at, row)
  PROVE  Corrects(at, Recovered(row), RecoveryCorrection(at))
<1>1. PICK ended : ended = Abandoned(row) OBVIOUS
<1>2. PICK mine : mine = Abandoned(at) OBVIOUS
<1>3. /\ row \in AttemptRows /\ row.status = at.status /\ row.known = at.known
      /\ row.noted = at.noted /\ row.reported = at.reported
      /\ row.charged = at.charged /\ row.forgotten = at.forgotten
  BY LateOverFields
<1>4. PICK known \in BOOLEAN : known = row.reported BY <1>3 DEF AttemptRows
<1>5. definitiveCharge("timeout", known) = 0 /\ 0 # Open BY DEF definitiveCharge, Unanswered, Open
<1>6. ended \in AttemptRows BY <1>1, <1>3, AbandonedRow DEF AttemptKept
<1>7. PICK late : late = SettledLate(ended, "timeout", known) OBVIOUS
<1>8. late \in AttemptRows BY <1>6, <1>7, SettledLateRow DEF AttemptKept
<1>9. PICK c \in Int : c = LateCorrection(ended, "timeout", known) BY CorrectionsLower
<1>10. RecoveryCorrection(at) = c
  <2>1. mine.known = ended.known BY <1>1, <1>2, <1>3, AbandonedRow
  <2>2. mine.noted = ended.noted
    <3>1. CASE at.status = "running" BY <1>1, <1>2, <1>3, <3>1, AbandonedRow
    <3>2. CASE at.status # "running" BY <1>1, <1>2, <1>3, <3>2, AbandonedRow
    <3>3. QED BY <3>1, <3>2
  <2>3. Correctable(mine) <=> Correctable(ended) BY <2>1, <2>2 DEF Correctable
  <2>4. QED BY <1>2, <1>3, <1>4, <1>9, <2>3 DEF RecoveryCorrection, LateCorrection
<1>11. Corrects(at, row, 0) BY <1>3, CorrectsSame
<1>12. Corrects(row, ended, 0) BY <1>1, <1>3, AbandonedCorrects
<1>13. Corrects(ended, late, c) BY <1>5, <1>6, <1>7, <1>9, LateCorrects
<1>14. Corrects(late, Recovered(row), 0)
  BY <1>1, <1>4, <1>7, <1>8, TimeCorrects DEF Recovered
<1>15. Corrects(at, ended, 0 + 0) BY <1>11, <1>12, CorrectsAgain
<1>16. Corrects(at, late, 0 + 0 + c) BY <1>13, <1>15, CorrectsAgain
<1>17. Corrects(at, Recovered(row), 0 + 0 + c + 0) BY <1>14, <1>16, CorrectsAgain
<1>18. 0 + 0 + c + 0 = c OBVIOUS
<1>19. QED BY <1>10, <1>17, <1>18

RowsOver(rows) ==
    /\ DOMAIN rows = DOMAIN attempts
    /\ \A a \in DOMAIN attempts : LateOverRow(attempts[a], rows[a])

\* The rows once a callback is over, written with or without the recovery.
LEMMA OverKept ==
  ASSUME TInv, NEW rows, RowsOver(rows)
  PROVE  \A a \in DOMAIN attempts : AttemptKept(attempts[a], rows[a])
<1>1. \A a \in DOMAIN attempts : attempts[a] \in AttemptRows BY OwnRows
<1>2. ASSUME NEW a \in DOMAIN attempts PROVE AttemptKept(attempts[a], rows[a])
  <2>1. CASE rows[a] = attempts[a] BY <2>1, OwnRows
  <2>2. CASE rows[a] = [attempts[a] EXCEPT !.late = "none"]
    BY <1>1, <2>2, LateRow DEF Lates
  <2>3. QED BY <2>1, <2>2 DEF RowsOver, LateOverRow
<1>3. QED BY <1>2

LEMMA OwnOver ==
  /\ RowsOver(attempts)
  /\ \A a \in DOMAIN attempts : RowsOver(LateOver(a))
BY DEF RowsOver, LateOverRow, LateOver

(* What each step makes of the spending. *)

OwedFor(rows, n) ==
    SumFunctionOnSet([a \in DOMAIN rows |-> Owed(rows[a])], {a \in DOMAIN rows : rows[a].step = n})

\* No attempt of step n has forgotten a charge.
Recalls(rows, n) == \A a \in DOMAIN rows : rows[a].step = n => ~rows[a].forgotten

LEMMA SpentMeans ==
  /\ SpentOnce <=> \A n \in DOMAIN steps :
                       Recalls(attempts, n) => steps[n].spent = OwedFor(attempts, n)
  /\ SpentOnce' <=> \A n \in DOMAIN steps' :
                       Recalls(attempts', n) => steps'[n].spent = OwedFor(attempts', n)
<1>1. SpentOnce <=> \A n \in DOMAIN steps :
                       Recalls(attempts, n) => steps[n].spent = OwedFor(attempts, n)
  BY DEF SpentOnce, SpendingAgrees, Forgets, Recalls, OwedFor, AttemptsOf
<1>2. SpentOnce' <=> \A n \in DOMAIN steps' :
                       Recalls(attempts', n) => steps'[n].spent = OwedFor(attempts', n)
  BY DEF SpentOnce, SpendingAgrees, Forgets, Recalls, OwedFor, AttemptsOf
<1>3. QED BY <1>1, <1>2

\* What is owed for the rows that forget nothing, when each is corrected.
LEMMA TellMeans ==
  ASSUME Moves, SpendInv, DOMAIN attempts \subseteq DOMAIN attempts', NEW c,
         \A a \in DOMAIN attempts : Corrects(attempts[a], attempts'[a], c[a])
  PROVE  /\ \A a \in DOMAIN attempts : ~attempts'[a].forgotten =>
               /\ ~attempts[a].forgotten /\ Tells(attempts'[a])
               /\ Owed(attempts'[a]) = Owed(attempts[a]) + c[a]
         /\ \A n : Recalls(attempts', n) => Recalls(attempts, n)
<1>1. \A a \in DOMAIN attempts : ~attempts'[a].forgotten =>
               /\ ~attempts[a].forgotten /\ Tells(attempts'[a])
               /\ Owed(attempts'[a]) = Owed(attempts[a]) + c[a]
  BY DEF Corrects, SpendInv, RowsTell
<1>2. \A a \in DOMAIN attempts : attempts'[a].step = attempts[a].step
  BY DEF Moves, AttemptsMove, AttemptKept
<1>3. QED BY <1>1, <1>2 DEF Recalls

SpentSteady ==
    /\ \A n \in DOMAIN steps : steps'[n].spent = steps[n].spent
    /\ \A n \in DOMAIN steps' \ DOMAIN steps : steps'[n].spent = 0

OwedSteady ==
    /\ DOMAIN attempts' = DOMAIN attempts
    /\ \A a \in DOMAIN attempts : Corrects(attempts[a], attempts'[a], 0)

\* The rows of a step that no attempt refers to, and of one that none left.
LEMMA OwedNone ==
  ASSUME TInv, NEW n, n \notin DOMAIN steps
  PROVE  OwedFor(attempts, n) = 0
<1>1. {a \in DOMAIN attempts : attempts[a].step = n} = {} BY DEF TInv
<1>2. QED BY <1>1, SumEmpty DEF OwedFor

LEMMA OwedSame ==
  ASSUME TInv, NEW rows, DOMAIN rows = DOMAIN attempts, NEW n,
         \A a \in DOMAIN attempts : rows[a].step = attempts[a].step,
         \A a \in DOMAIN attempts : attempts[a].step = n => Owed(rows[a]) = Owed(attempts[a])
  PROVE  OwedFor(rows, n) = OwedFor(attempts, n)
<1>1. PICK S : S = AttemptsOf(n) OBVIOUS
<1>2. S = {a \in DOMAIN rows : rows[a].step = n} BY <1>1 DEF AttemptsOf
<1>3. IsFiniteSet(S) BY <1>1, RowsFinite
<1>4. PICK f : f = [a \in DOMAIN attempts |-> Owed(attempts[a])] OBVIOUS
<1>5. PICK g : g = [a \in DOMAIN rows |-> Owed(rows[a])] OBVIOUS
<1>6. \A a \in S : f[a] \in Int /\ f[a] = g[a]
  <2>1. \A a \in S : a \in DOMAIN attempts /\ attempts[a].step = n BY <1>1 DEF AttemptsOf
  <2>2. \A a \in S : f[a] = g[a] BY <1>4, <1>5, <2>1
  <2>3. \A a \in S : f[a] \in Nat BY <1>4, <2>1, OwnRows, OwedType
  <2>4. QED BY <2>2, <2>3
<1>7. SumFunctionOnSet(f, S) = SumFunctionOnSet(g, S) BY ONLY <1>3, <1>6, SumAgrees
<1>8. QED BY <1>1, <1>2, <1>4, <1>5, <1>7 DEF OwedFor, AttemptsOf

LEMMA SpentStays ==
  ASSUME TInv, Moves, SpendInv, SpentSteady, OwedSteady
  PROVE  SpendInv'
<1>1. \A a \in DOMAIN attempts : attempts'[a].step = attempts[a].step
  BY DEF Moves, AttemptsMove, AttemptKept
<1>2. PICK c : c = [a \in DOMAIN attempts |-> 0] OBVIOUS
<1>3. /\ \A a \in DOMAIN attempts : ~attempts'[a].forgotten =>
             Tells(attempts'[a]) /\ Owed(attempts'[a]) = Owed(attempts[a]) + c[a]
      /\ \A n : Recalls(attempts', n) => Recalls(attempts, n)
  BY <1>2, TellMeans DEF OwedSteady
<1>4. \A a \in DOMAIN attempts : ~attempts'[a].forgotten =>
         Owed(attempts'[a]) = Owed(attempts[a])
  BY <1>2, <1>3, OwnRows, OwedType
<1>5. RowsTell' BY <1>3 DEF RowsTell, OwedSteady
<1>6. SpentOnce'
  <2> SUFFICES ASSUME NEW n \in DOMAIN steps', Recalls(attempts', n)
               PROVE  steps'[n].spent = OwedFor(attempts', n)
    BY SpentMeans
  <2>1. \A a \in DOMAIN attempts : attempts[a].step = n =>
           Owed(attempts'[a]) = Owed(attempts[a])
    BY <1>1, <1>4 DEF Recalls, OwedSteady
  <2>2. OwedFor(attempts', n) = OwedFor(attempts, n) BY <1>1, <2>1, OwedSame DEF OwedSteady
  <2>3. CASE n \in DOMAIN steps BY <1>3, <2>2, <2>3, SpentMeans DEF SpentSteady, SpendInv
  <2>4. CASE n \notin DOMAIN steps BY <2>2, <2>4, OwedNone DEF SpentSteady
  <2>5. QED BY <2>3, <2>4
<1>7. QED BY <1>5, <1>6 DEF SpendInv

LEMMA StepsSpentSame == ASSUME steps' = steps PROVE SpentSteady
BY DEF SpentSteady

LEMMA OwedUnchanged == ASSUME TInv, attempts' = attempts PROVE OwedSteady
BY OwnRows, CorrectsSame DEF OwedSteady

LEMMA SpentEdit ==
  ASSUME TInv, NEW k, NEW new, steps' = [steps EXCEPT ![k] = new],
         k \in DOMAIN steps => new.spent = steps[k].spent
  PROVE  SpentSteady
BY DEF SpentSteady

LEMMA OwedEdit ==
  ASSUME TInv, NEW k, NEW new, attempts' = [attempts EXCEPT ![k] = new],
         k \in DOMAIN attempts => Corrects(attempts[k], new, 0)
  PROVE  OwedSteady
<1>1. \A a \in DOMAIN attempts : Corrects(attempts[a], attempts[a], 0)
  BY OwnRows, CorrectsSame
<1>2. QED BY <1>1 DEF OwedSteady

LEMMA OwedAbandoned == ASSUME TInv, NEW n, attempts' = AbandonedOf(n) PROVE OwedSteady
<1>1. \A a \in DOMAIN attempts : /\ Corrects(attempts[a], Abandoned(attempts[a]), 0)
                                 /\ Corrects(attempts[a], attempts[a], 0)
  BY OwnRows, AbandonedCorrects, CorrectsSame
<1>2. QED BY <1>1 DEF OwedSteady, AbandonedOf

\* Inserting a step adds one that spent nothing.
LEMMA CallStepsSpent ==
  ASSUME TInv
  PROVE  /\ \A n \in DOMAIN steps : n \in DOMAIN CallSteps /\ CallSteps[n] = steps[n]
         /\ \A n \in DOMAIN CallSteps \ DOMAIN steps : CallSteps[n].spent = 0
         /\ CallStep \in DOMAIN CallSteps => CallSteps[CallStep] \in FitSteps
<1>1. DOMAIN steps = 1 .. Len(steps) /\ Len(steps) \in Nat BY SeqIndices DEF TInv
<1>2. CASE OpenStep = 0
  <2>1. PICK new : new = NewStep OBVIOUS
  <2>2. new.spent = 0 BY <2>1 DEF NewStep
  <2>3. CallSteps = Append(steps, new) BY <1>2, <2>1 DEF CallSteps
  <2>4. /\ DOMAIN CallSteps = 1 .. Len(steps) + 1 /\ CallSteps[Len(steps) + 1] = new
        /\ \A n \in DOMAIN steps : CallSteps[n] = steps[n]
    BY <1>1, <2>3 DEF TInv
  <2>5. \A n \in DOMAIN CallSteps \ DOMAIN steps : n = Len(steps) + 1 BY <1>1, <2>4
  <2>6. CallStep = Len(steps) + 1 BY <1>2 DEF CallStep
  <2>7. new \in FitSteps BY <2>1, NewStepFits
  <2>8. QED BY <1>1, <2>2, <2>4, <2>5, <2>6, <2>7
<1>3. CASE OpenStep # 0
  <2>1. CallSteps = steps BY <1>3 DEF CallSteps
  <2>2. \A n \in DOMAIN steps : steps[n] \in FitSteps BY SeqIndices DEF TInv
  <2>3. QED BY <2>1, <2>2
<1>4. QED BY <1>2, <1>3

LEMMA CallStepsSteady ==
  ASSUME TInv,
         \/ steps' = CallSteps
         \/ steps' = [CallSteps EXCEPT ![CallStep] = FailedStep(@)]
  PROVE  SpentSteady
<1>1. CASE steps' = CallSteps BY <1>1, CallStepsSpent DEF SpentSteady
<1>2. CASE steps' = [CallSteps EXCEPT ![CallStep] = FailedStep(@)]
  <2>1. PICK old : old = CallSteps[CallStep] OBVIOUS
  <2>2. PICK new : new = FailedStep(old) OBVIOUS
  <2>3. CallStep \in DOMAIN CallSteps => new.spent = old.spent
    BY <2>1, <2>2, CallStepsSpent DEF FailedStep, FitSteps, StepRows
  <2>4. steps' = [CallSteps EXCEPT ![CallStep] = new] BY <1>2, <2>1, <2>2
  <2>5. DOMAIN steps' = DOMAIN CallSteps /\ \A n \in DOMAIN CallSteps :
          steps'[n].spent = CallSteps[n].spent
    BY <2>1, <2>3, <2>4
  <2>6. QED BY <2>5, CallStepsSpent DEF SpentSteady
<1>3. QED BY <1>1, <1>2

\* The steps that leave the accounts of the attempts alone.
LEMMA RowsSpent ==
  ASSUME TInv, Moves, SpendInv, UNCHANGED <<steps, attempts>> PROVE SpendInv'
BY StepsSpentSame, OwedUnchanged, SpentStays

LEMMA PreparesSpent ==
  ASSUME TInv, Moves, SpendInv, NEW w \in Workers,
         \/ PrepareClose(w) \/ PrepareFiles(w) \/ PrepareDeadline(w) \/ PrepareRejects(w)
         \/ PrepareHeld(w)
  PROVE  SpendInv'
<1>1. SpentSteady
  <2>1. CASE PrepareClose(w)
    <3>1. PICK new : new = [steps[OpenStep] EXCEPT !.done = TRUE] OBVIOUS
    <3>2. steps' = [steps EXCEPT ![OpenStep] = new] BY <2>1, <3>1 DEF PrepareClose
    <3>3. OpenStep \in DOMAIN steps => new.spent = steps[OpenStep].spent
      BY <3>1, StepRowOf, SMTT(60) DEF StepRows
    <3>4. QED BY <3>2, <3>3, SpentEdit
  <2>2. QED BY <2>1, CallStepsSteady DEF PrepareFiles, PrepareDeadline, PrepareRejects, PrepareHeld
<1>2. OwedSteady
  <2>1. CASE attempts' = attempts BY <2>1, OwedUnchanged
  <2>2. CASE attempts' = AbandonedOf(CallStep) BY <2>2, OwedAbandoned
  <2>3. QED BY <2>1, <2>2
        DEF PrepareClose, PrepareFiles, PrepareDeadline, PrepareRejects, PrepareHeld
<1>3. QED BY <1>1, <1>2, SpentStays, SMTT(60)

LEMMA ToolsSpent ==
  ASSUME TInv, Moves, SpendInv, NEW w \in Workers, Tool(w) \/ ToolThrows(w) PROVE SpendInv'
<1> DEFINE n == worker[w].step
<1>1. n \in DOMAIN steps => steps[n] \in StepRows BY StepRowOf
<1>2. CASE \/ ToolEnded(w) \/ ToolWaits(w) \/ ToolTooLate(w) \/ ToolRefused(w)
           \/ ToolSettle(w) \/ ToolThrows(w)
  BY <1>2, RowsSpent
     DEF ToolEnded, ToolWaits, ToolTooLate, ToolRefused, ToolSettle, ToolThrows
<1>3. CASE ToolRun(w) \/ ToolBegin(w) \/ ToolComplete(w) \/ ToolBlock(w)
  <2>1. PICK call : steps' = [steps EXCEPT ![n] = [steps[n] EXCEPT !.call = call]]
    BY <1>3, CallRows
  <2>2. PICK new : new = [steps[n] EXCEPT !.call = call] OBVIOUS
  <2>3. n \in DOMAIN steps => new.spent = steps[n].spent BY <1>1, <2>2 DEF StepRows
  <2>4. attempts' = attempts BY <1>3, CallTask
  <2>5. SpentSteady BY <2>1, <2>2, <2>3, SpentEdit
  <2>6. QED BY <2>4, <2>5, OwedUnchanged, SpentStays
<1>4. CASE ToolAdmit(w)
  <2>1. PICK new : new = [steps[n] EXCEPT !.admitted = TRUE] OBVIOUS
  <2>2. steps' = [steps EXCEPT ![n] = new] /\ attempts' = attempts BY <1>4, <2>1 DEF ToolAdmit
  <2>3. n \in DOMAIN steps => new.spent = steps[n].spent BY <1>1, <2>1 DEF StepRows
  <2>4. QED BY <2>2, <2>3, SpentEdit, OwedUnchanged, SpentStays
<1>5. CASE ToolReport(w)
  <2>1. PICK done : steps' = [steps EXCEPT ![n].done = done] /\ attempts' = attempts
    BY <1>5 DEF ToolReport
  <2>2. PICK new : new = [steps[n] EXCEPT !.done = done] OBVIOUS
  <2>3. steps' = [steps EXCEPT ![n] = new] BY <2>1, <2>2
  <2>4. n \in DOMAIN steps => new.spent = steps[n].spent BY <1>1, <2>2 DEF StepRows
  <2>5. QED BY <2>1, <2>3, <2>4, SpentEdit, OwedUnchanged, SpentStays
<1>6. QED BY <1>2, <1>3, <1>4, <1>5 DEF Tool

LEMMA OwnerSpent == ASSUME TInv, Moves, SpendInv, Owner PROVE SpendInv'
<1>1. attempts' = attempts BY DEF Owner, pause, continueTask, reopen, decide
<1>2. CASE continueTask
  <2>1. DOMAIN steps' = DOMAIN steps /\ \A n \in DOMAIN steps :
           steps'[n] = steps[n] \/ steps'[n] = [steps[n] EXCEPT !.done = TRUE]
    BY <1>2 DEF continueTask
  <2>2. SpentSteady BY <2>1, StepRowOf DEF SpentSteady, StepRows
  <2>3. QED BY <1>1, <2>2, OwedUnchanged, SpentStays
<1>3. CASE decide
  <2>1. PICK n, decision :
          n \in DOMAIN steps /\ steps' = [steps EXCEPT ![n].approval = decision]
    BY <1>3 DEF decide
  <2>2. PICK new : new = [steps[n] EXCEPT !.approval = decision] OBVIOUS
  <2>3. steps' = [steps EXCEPT ![n] = new] BY <2>1, <2>2
  <2>4. new.spent = steps[n].spent BY <2>1, <2>2, StepRowOf DEF StepRows
  <2>5. QED BY <1>1, <2>3, <2>4, SpentEdit, OwedUnchanged, SpentStays
<1>4. CASE pause \/ reopen BY <1>1, <1>4, RowsSpent DEF pause, reopen
<1>5. QED BY <1>2, <1>3, <1>4 DEF Owner

\* One attempt is written that is owed as before.
LEMMA AttemptSpent ==
  ASSUME TInv, Moves, SpendInv, NEW k, NEW new, attempts' = [attempts EXCEPT ![k] = new],
         k \in DOMAIN attempts => Corrects(attempts[k], new, 0), steps' = steps
  PROVE  SpendInv'
BY OwedEdit, StepsSpentSame, SpentStays

LEMMA TimesSpent ==
  ASSUME TInv, Moves, SpendInv, Time PROVE SpendInv'
<1>1. CASE \E a \in DOMAIN attempts : LeaseEnds(a)
  <2>1. PICK a, new : /\ a \in DOMAIN attempts /\ steps' = steps
                      /\ new = [attempts[a] EXCEPT !.live = FALSE]
                      /\ attempts' = [attempts EXCEPT ![a] = new]
    BY <1>1 DEF LeaseEnds
  <2>2. /\ attempts[a] \in AttemptRows /\ new.charged = attempts[a].charged
        /\ new.known = attempts[a].known /\ new.noted = attempts[a].noted
        /\ new.forgotten = attempts[a].forgotten
    BY <2>1, OwnRows DEF AttemptRows
  <2>3. Corrects(attempts[a], new, 0) BY <2>2, CorrectsSame
  <2>4. QED BY <2>1, <2>3, AttemptSpent
<1>2. CASE \E n \in DOMAIN steps : DeadlinePasses(n) \/ BackoffEnds(n)
  <2>1. PICK n, new :
          /\ n \in DOMAIN steps /\ attempts' = attempts
          /\ steps' = [steps EXCEPT ![n] = new]
          /\ new = [steps[n] EXCEPT !.open = FALSE] \/ new = [steps[n] EXCEPT !.due = TRUE]
    BY <1>2 DEF DeadlinePasses, BackoffEnds
  <2>2. new.spent = steps[n].spent BY <2>1, StepRowOf DEF StepRows
  <2>3. QED BY <2>1, <2>2, SpentEdit, OwedUnchanged, SpentStays
<1>3. CASE \E i \in DOMAIN works : WorkExpires(i) BY <1>3, RowsSpent DEF WorkExpires
<1>4. QED BY <1>1, <1>2, <1>3 DEF Time

LEMMA ObservesSpent ==
  ASSUME TInv, Moves, SpendInv, NEW w \in Workers, Observe(w) \/ SettleLost(w) PROVE SpendInv'
<1>1. PICK k : k = worker[w].attempt OBVIOUS
<1>2. k \in DOMAIN attempts /\ attempts[k] \in AttemptRows
  BY <1>1, HoldersAttempt, OwnRows DEF Observe, SettleLost, CallPhases
<1>3. CASE Observe(w)
  <2>1. PICK known \in BOOLEAN : known = (worker[w].result = "answer") OBVIOUS
  <2>2. worker[w].elapsed \in Nat BY WorkerRow DEF WorkerRows
  <2>3. PICK new : new = Observed(attempts[k], known, worker[w].elapsed) OBVIOUS
  <2>4. attempts' = [attempts EXCEPT ![k] = new] /\ steps' = steps
    BY <1>1, <1>3, <2>1, <2>3 DEF Observe
  <2>5. Corrects(attempts[k], new, 0) BY <1>2, <2>2, <2>3, ObservedCorrects
  <2>6. QED BY <2>4, <2>5, AttemptSpent
<1>4. CASE SettleLost(w)
  <2>1. PICK late : attempts' = [attempts EXCEPT ![k].late = late] /\ steps' = steps
    BY <1>1, <1>4 DEF SettleLost
  <2>2. PICK new : new = [attempts[k] EXCEPT !.late = late] OBVIOUS
  <2>3. Corrects(attempts[k], new, 0) BY <1>2, <2>2, LateFieldCorrects
  <2>4. QED BY <2>1, <2>2, <2>3, AttemptSpent
<1>5. QED BY <1>3, <1>4

LEMMA LatesSpent ==
  ASSUME TInv, Moves, SpendInv, NEW a \in DOMAIN attempts, LateObserve(a) \/ LateLost(a)
  PROVE  SpendInv'
<1>1. attempts[a] \in AttemptRows BY OwnRows
<1>2. CASE LateLost(a)
  <2>1. PICK new : new = [attempts[a] EXCEPT !.late = "none"] OBVIOUS
  <2>2. Corrects(attempts[a], new, 0) BY <1>1, <2>1, LateFieldCorrects
  <2>3. attempts' = [attempts EXCEPT ![a] = new] /\ steps' = steps BY <1>2, <2>1 DEF LateLost
  <2>4. QED BY <2>2, <2>3, AttemptSpent
<1>3. CASE LateObserve(a)
  <2>1. PICK reported \in BOOLEAN :
          /\ steps' = steps
          /\ attempts' = [attempts EXCEPT ![a] =
                [Observed(@, reported, @.reserved + 1) EXCEPT !.late = "observed"]]
    BY <1>3 DEF LateObserve
  <2>2. PICK mid : mid = Observed(attempts[a], reported, attempts[a].reserved + 1) OBVIOUS
  <2>3. attempts[a].reserved + 1 \in Nat BY <1>1 DEF AttemptRows
  <2>4. mid \in AttemptRows /\ Corrects(attempts[a], mid, 0)
    BY <1>1, <2>2, <2>3, ObservedRow, ObservedCorrects DEF AttemptKept
  <2>5. PICK new : new = [mid EXCEPT !.late = "observed"] OBVIOUS
  <2>6. Corrects(mid, new, 0) BY <2>4, <2>5, LateFieldCorrects
  <2>7. attempts' = [attempts EXCEPT ![a] = new] BY <2>1, <2>2, <2>5
  <2>8. Corrects(attempts[a], new, 0 + 0) BY <1>1, <2>4, <2>6, CorrectsAgain
  <2>9. Corrects(attempts[a], new, 0) BY <2>8
  <2>10. QED BY <2>1, <2>7, <2>9, AttemptSpent
<1>4. QED BY <1>2, <1>3

\* One attempt is corrected, and its generation by the same amount.
LEMMA CorrectedSpent ==
  ASSUME TInv, Moves, SpendInv, NEW k \in DOMAIN attempts, NEW row,
         attempts' = [attempts EXCEPT ![k] = row],
         NEW n \in DOMAIN steps, n = attempts[k].step, NEW new,
         steps' = [steps EXCEPT ![n] = new],
         NEW correction \in Int, new.spent = steps[n].spent + correction,
         row \in AttemptRows, Corrects(attempts[k], row, correction)
  PROVE  SpendInv'
<1>1. \A a \in DOMAIN attempts : attempts'[a].step = attempts[a].step
  BY DEF Moves, AttemptsMove, AttemptKept
<1>2. DOMAIN attempts' = DOMAIN attempts /\ DOMAIN steps' = DOMAIN steps OBVIOUS
<1>3. \A a \in DOMAIN attempts \ {k} : attempts'[a] = attempts[a] OBVIOUS
<1>4. attempts'[k] = row OBVIOUS
<1>5. ~row.forgotten => /\ ~attempts[k].forgotten /\ Tells(row)
                        /\ Owed(row) = Owed(attempts[k]) + correction
  BY DEF Corrects, SpendInv, RowsTell
<1>6. RowsTell' BY <1>2, <1>3, <1>4, <1>5 DEF SpendInv, RowsTell
<1> SUFFICES ASSUME NEW m \in DOMAIN steps, Recalls(attempts', m)
             PROVE  steps'[m].spent = OwedFor(attempts', m)
  BY <1>2, <1>6, SpentMeans DEF SpendInv
<1>7. Recalls(attempts, m) /\ (m = n => ~row.forgotten)
  <2>1. m = n => ~row.forgotten BY <1>1, <1>2, <1>4 DEF Recalls
  <2>2. QED BY <1>1, <1>2, <1>3, <1>5, <2>1 DEF Recalls
<1>8. steps[m].spent = OwedFor(attempts, m) BY <1>7, SpentMeans DEF SpendInv
<1>9. CASE m # n
  <2>1. \A a \in DOMAIN attempts : attempts[a].step = m => Owed(attempts'[a]) = Owed(attempts[a])
    BY <1>3, <1>9
  <2>2. OwedFor(attempts', m) = OwedFor(attempts, m) BY <1>1, <1>2, <2>1, OwedSame
  <2>3. steps'[m].spent = steps[m].spent BY <1>9
  <2>4. QED BY <1>8, <2>2, <2>3
<1>10. CASE m = n
  <2>1. PICK S : S = AttemptsOf(n) OBVIOUS
  <2>2. S = {a \in DOMAIN attempts' : attempts'[a].step = n} BY <1>1, <1>2, <2>1 DEF AttemptsOf
  <2>3. IsFiniteSet(S) /\ k \in S BY <2>1, RowsFinite DEF AttemptsOf
  <2>4. PICK f : f = [a \in DOMAIN attempts |-> Owed(attempts[a])] OBVIOUS
  <2>5. PICK g : g = [a \in DOMAIN attempts' |-> Owed(attempts'[a])] OBVIOUS
  <2>6. \A a \in S : a \in DOMAIN attempts BY <2>1 DEF AttemptsOf
  <2>7. /\ \A a \in S : f[a] = Owed(attempts[a])
        /\ \A a \in S \ {k} : g[a] = f[a]
        /\ g[k] = Owed(row)
    BY <1>2, <1>3, <1>4, <2>4, <2>5, <2>6
  <2>8. \A a \in S : f[a] \in Int /\ g[a] \in Int
    <3>1. \A a \in S : f[a] \in Nat BY <2>6, <2>7, OwnRows, OwedType
    <3>2. g[k] \in Nat BY <2>7, OwedType
    <3>3. QED BY <2>7, <3>1, <3>2
  <2>9. DifferAt(f, g, S, k) BY ONLY <2>3, <2>7, <2>8 DEF DifferAt
  <2>10. SumFunctionOnSet(g, S) = SumFunctionOnSet(f, S) - f[k] + g[k]
    BY ONLY <2>9, SumChanges
  <2>11. SumFunctionOnSet(g, S) = OwedFor(attempts', n) BY <2>2, <2>5 DEF OwedFor
  <2>12. SumFunctionOnSet(f, S) = OwedFor(attempts, n) BY <2>1, <2>4 DEF OwedFor, AttemptsOf
  <2>13. steps[n].spent \in Int BY StepRowOf DEF StepRows
  <2>14. f[k] = Owed(attempts[k]) /\ f[k] \in Int BY <2>3, <2>7, <2>8
  <2>15. Owed(row) = Owed(attempts[k]) + correction BY <1>5, <1>7, <1>10
  <2>16. OwedFor(attempts', n) = steps[n].spent + correction
    BY <1>8, <1>10, <2>7, <2>10, <2>11, <2>12, <2>13, <2>14, <2>15
  <2>17. steps'[m].spent = steps[n].spent + correction BY <1>10
  <2>18. QED BY <1>10, <2>16, <2>17
<1>11. QED BY <1>9, <1>10

LEMMA SettleLateSpent ==
  ASSUME TInv, Moves, SpendInv, NEW w \in Workers, SettleLate(w) PROVE SpendInv'
<1>1. /\ worker[w].phase = "observed" /\ ~LiveAttempt(worker[w].attempt) BY DEF SettleLate
<1>3. PICK k \in DOMAIN attempts : k = worker[w].attempt /\ attempts[k] \in AttemptRows
  BY <1>1, SettlesWhat
<1>4. PICK n \in DOMAIN steps : n = worker[w].step /\ n = attempts[k].step
  BY <1>1, <1>3, SettlesWhat
<1>5. PICK known \in BOOLEAN : known = (worker[w].result = "answer") OBVIOUS
<1>6. PICK row : row = SettledRow(w, SettledLate(attempts[k], worker[w].result, known)) OBVIOUS
<1>7. attempts' = [attempts EXCEPT ![k] = row] BY <1>3, <1>5, <1>6 DEF SettleLate
<1>8. PICK correction : correction = LateCorrection(attempts[k], worker[w].result, known) OBVIOUS
<1>9. correction \in Int BY <1>8, CorrectionsLower
<1>10. SpentAfter(w) = steps[n].spent + correction
  BY <1>1, <1>3, <1>4, <1>5, <1>8 DEF SpentAfter
<1>11. PICK new : new = [steps[n] EXCEPT !.spent = SpentAfter(w)] OBVIOUS
<1>12. new.spent = steps[n].spent + correction BY <1>10, <1>11, StepRowOf DEF StepRows
<1>13. steps' = [steps EXCEPT ![n] = new] BY <1>4, <1>11 DEF SettleLate
<1>14. Corrects(attempts[k], row, correction)
  <2>1. PICK mid : mid = SettledLate(attempts[k], worker[w].result, known) OBVIOUS
  <2>2. mid \in AttemptRows BY <1>3, <2>1, SettledLateRow DEF AttemptKept
  <2>3. known => definitiveCharge(worker[w].result, known) # Open
    BY <1>5, CostsFit DEF definitiveCharge, Unanswered, Open
  <2>4. Corrects(attempts[k], mid, correction) BY <1>3, <1>8, <2>1, <2>3, LateCorrects
  <2>5. Corrects(mid, row, 0) BY <1>6, <2>1, <2>2, TimeCorrects
  <2>6. Corrects(attempts[k], row, correction + 0) BY <1>3, <1>9, <2>4, <2>5, CorrectsAgain
  <2>7. correction + 0 = correction BY <1>9
  <2>8. QED BY <2>6, <2>7
<1>15. row \in AttemptRows
  <2>1. AttemptKept(attempts[k], attempts'[k]) BY DEF Moves, AttemptsMove
  <2>2. QED BY <1>7, <2>1 DEF AttemptKept
<1>16. QED BY <1>4, <1>7, <1>9, <1>12, <1>13, <1>14, <1>15, CorrectedSpent

\* A settlement of the live attempt, whatever else becomes of its step.
LEMMA LiveSpent ==
  ASSUME TInv, KInv, Moves, SpendInv, NEW w \in Workers, SettlesLive(w),
         NEW new, new.spent = SpentAfter(w), steps' = [steps EXCEPT ![worker[w].step] = new]
  PROVE  SpendInv'
<1>1. worker[w].phase = "observed" /\ LiveAttempt(worker[w].attempt) BY DEF SettlesLive
<1>2. PICK k \in DOMAIN attempts : k = worker[w].attempt /\ attempts[k] \in AttemptRows
  BY <1>1, SettlesWhat
<1>3. PICK n \in DOMAIN steps : n = worker[w].step /\ n = attempts[k].step
  BY <1>1, <1>2, SettlesWhat
<1>4. attempts[k].status = "running" /\ OnLease(k)
  BY <1>1, <1>2 DEF LiveAttempt, OnLease, Running
<1>5. attempts[k].charged = Open BY <1>4 DEF KInv, LeaseUncharged
<1>6. PICK row : row = SettledRow(w, SettledLive(attempts[k], worker[w].result)) OBVIOUS
<1>7. attempts' = [attempts EXCEPT ![k] = row] BY <1>2, <1>6 DEF SettlesLive
<1>8. PICK correction : correction = LiveCorrection(worker[w].result) OBVIOUS
<1>9. correction \in Int BY <1>8, CorrectionsLower
<1>10. new.spent = steps[n].spent + correction BY <1>1, <1>3, <1>8 DEF SpentAfter
<1>11. Corrects(attempts[k], row, correction)
  <2>1. PICK mid : mid = SettledLive(attempts[k], worker[w].result) OBVIOUS
  <2>2. mid \in AttemptRows BY <1>2, <1>4, <2>1, SettledLiveRow DEF AttemptKept
  <2>3. Corrects(attempts[k], mid, correction) BY <1>2, <1>5, <1>8, <2>1, LiveCorrects
  <2>4. Corrects(mid, row, 0) BY <1>6, <2>1, <2>2, TimeCorrects
  <2>5. Corrects(attempts[k], row, correction + 0) BY <1>2, <1>9, <2>3, <2>4, CorrectsAgain
  <2>6. correction + 0 = correction BY <1>9
  <2>7. QED BY <2>5, <2>6
<1>12. row \in AttemptRows
  <2>1. AttemptKept(attempts[k], attempts'[k]) BY DEF Moves, AttemptsMove
  <2>2. QED BY <1>7, <2>1 DEF AttemptKept
<1>13. QED BY <1>3, <1>7, <1>9, <1>10, <1>11, <1>12, CorrectedSpent

LEMMA SettleSpent ==
  ASSUME TInv, KInv, Moves, SpendInv, NEW w \in Workers, Settle(w) PROVE SpendInv'
<1> DEFINE n == worker[w].step
<1>1. ASSUME SettlesLive(w) PROVE Charged(w).spent = SpentAfter(w) /\ Charged(w) \in FitSteps
  BY <1>1, LiveStep, ChargedKept DEF StepKept
<1>2. CASE SettlesLive(w) /\ steps' = [steps EXCEPT ![n] = FailedStep(Charged(w))]
  <2>1. PICK new : new = FailedStep(Charged(w)) OBVIOUS
  <2>2. new.spent = SpentAfter(w) BY <1>1, <1>2, <2>1 DEF FailedStep, FitSteps, StepRows
  <2>3. QED BY <1>2, <2>1, <2>2, LiveSpent
<1>3. CASE /\ SettlesLive(w)
           /\ steps' = [steps EXCEPT ![n] = [Charged(w) EXCEPT !.model = "pending", !.due = FALSE]]
  <2>1. PICK new : new = [Charged(w) EXCEPT !.model = "pending", !.due = FALSE] OBVIOUS
  <2>2. new.spent = SpentAfter(w) BY <1>1, <1>3, <2>1 DEF FitSteps, StepRows
  <2>3. QED BY <1>3, <2>1, <2>2, LiveSpent
<1>4. CASE SettleFailure(w) BY <1>2, <1>3, <1>4 DEF SettleFailure
<1>5. CASE SettleWithdrawn(w) \/ SettleLimited(w)
  BY <1>2, <1>5 DEF SettleWithdrawn, SettleLimited
<1>6. CASE SettlePublished(w)
  <2>1. PICK decision \in Publishable, route \in Routes :
          /\ decision # "tools" => route = "inside"
          /\ steps' = [steps EXCEPT ![n] = Published(w, decision, route)]
    BY <1>6, PublishesWhat
  <2>2. SettlesLive(w) BY <1>6, PublishesWhat
  <2>3. Published(w, decision, route).spent = SpentAfter(w) BY <2>1, <2>2, PublishedRow
  <2>4. QED BY <2>1, <2>2, <2>3, LiveSpent
<1>7. QED BY <1>4, <1>5, <1>6, SettleLateSpent, ObservesSpent DEF Settle

\* A call reserves its cost in its generation and in its row.
LEMMA PrepareCallSpent ==
  ASSUME TInv, Moves, SpendInv, NEW w \in Workers, PrepareCall(w) PROVE SpendInv'
<1>1. PICK e \in Entries(w), milliseconds \in Nat : Called(e, milliseconds) BY PrepareCallRows
<1>2. PICK k : k = NewIndex OBVIOUS
<1>3. PICK c : c = CallStep OBVIOUS
<1>4. PICK row : row = NewAttempt(c, milliseconds) OBVIOUS
<1>5. /\ k \notin DOMAIN attempts /\ DOMAIN attempts' = DOMAIN attempts \cup {k}
      /\ attempts'[k] = row /\ c \in DOMAIN steps' /\ DOMAIN steps' = DOMAIN CallSteps
      /\ steps'[c] = CalledStep(CallSteps[c])
      /\ \A n \in DOMAIN steps \ {c} : steps'[n] = steps[n]
      /\ \A a \in DOMAIN attempts :
           attempts'[a] = IF attempts[a].step = c THEN Abandoned(attempts[a]) ELSE attempts[a]
  BY <1>1, <1>2, <1>3, <1>4, CalledRows
<1>6. row.step = c /\ Owed(row) = ReservedCost /\ Tells(row)
  BY <1>4 DEF NewAttempt, Owed, Tells, Correctable
<1>7. /\ \A a \in DOMAIN attempts : ~attempts'[a].forgotten =>
             Tells(attempts'[a]) /\ Owed(attempts'[a]) = Owed(attempts[a])
      /\ \A n : Recalls(attempts', n) => Recalls(attempts, n)
  <2>1. \A a \in DOMAIN attempts : /\ Corrects(attempts[a], Abandoned(attempts[a]), 0)
                                   /\ Corrects(attempts[a], attempts[a], 0)
    BY OwnRows, AbandonedCorrects, CorrectsSame
  <2>2. PICK none : none = [a \in DOMAIN attempts |-> 0] OBVIOUS
  <2>3. \A a \in DOMAIN attempts : Corrects(attempts[a], attempts'[a], none[a])
    BY <1>5, <2>1, <2>2
  <2>4. DOMAIN attempts \subseteq DOMAIN attempts' BY <1>5
  <2>5. /\ \A a \in DOMAIN attempts : ~attempts'[a].forgotten =>
               Tells(attempts'[a]) /\ Owed(attempts'[a]) = Owed(attempts[a]) + none[a]
        /\ \A n : Recalls(attempts', n) => Recalls(attempts, n)
    BY <2>3, <2>4, TellMeans
  <2>6. QED BY <2>2, <2>5, OwnRows, OwedType
<1>8. \A a \in DOMAIN attempts : attempts'[a].step = attempts[a].step
  BY DEF Moves, AttemptsMove, AttemptKept
<1>9. PICK old \in FitSteps : old = CallSteps[c] BY <1>3, <1>5, CallStepsSpent
<1>10. old.spent \in Int /\ steps'[c].spent = old.spent + ReservedCost
  BY <1>5, <1>9 DEF CalledStep, FitSteps, StepRows
<1>11. Recalls(attempts, c) => old.spent = OwedFor(attempts, c)
  <2>1. CASE c \in DOMAIN steps BY <1>9, <2>1, CallStepsSpent, SpentMeans DEF SpendInv
  <2>2. CASE c \notin DOMAIN steps BY <1>5, <1>9, <2>2, CallStepsSpent, OwedNone
  <2>3. QED BY <2>1, <2>2
<1>12. PICK f : f = [a \in DOMAIN attempts |-> Owed(attempts[a])] OBVIOUS
<1>13. PICK g : g = [a \in DOMAIN attempts' |-> Owed(attempts'[a])] OBVIOUS
<1>14. ASSUME NEW n, Recalls(attempts', n)
       PROVE  OwedFor(attempts', n) = OwedFor(attempts, n) + (IF n = c THEN ReservedCost ELSE 0)
  <2>1. PICK S : S = AttemptsOf(n) OBVIOUS
  <2>2. IsFiniteSet(S) /\ S \subseteq DOMAIN attempts /\ k \notin S
    BY <1>5, <2>1, RowsFinite DEF AttemptsOf
  <2>3. \A a \in S : f[a] \in Int /\ g[a] = f[a]
    <3>1. \A a \in S : f[a] \in Nat BY <1>12, <2>2, OwnRows, OwedType
    <3>2. \A a \in S : ~attempts'[a].forgotten
      BY <1>5, <1>8, <1>14, <2>1 DEF Recalls, AttemptsOf
    <3>3. \A a \in S : g[a] = f[a] BY <1>5, <1>7, <1>12, <1>13, <2>2, <3>2
    <3>4. QED BY <3>1, <3>3
  <2>4. SumFunctionOnSet(f, S) = OwedFor(attempts, n) BY <1>12, <2>1 DEF OwedFor, AttemptsOf
  <2>5. SumFunctionOnSet(f, S) \in Int BY ONLY <2>2, <2>3, SumInt
  <2>6. CASE n = c
    <3>1. S \cup {k} = {a \in DOMAIN attempts' : attempts'[a].step = n}
      BY <1>5, <1>6, <1>8, <2>1, <2>6 DEF AttemptsOf
    <3>2. g[k] = ReservedCost /\ g[k] \in Int BY <1>5, <1>6, <1>13, CostsFit
    <3>3. SumFunctionOnSet(g, S \cup {k}) = g[k] + SumFunctionOnSet(f, S)
      BY ONLY <2>2, <2>3, <3>2, SumGrows
    <3>4. SumFunctionOnSet(g, S \cup {k}) = OwedFor(attempts', n) BY <1>13, <3>1 DEF OwedFor
    <3>5. QED BY <2>4, <2>5, <2>6, <3>2, <3>3, <3>4, CostsFit
  <2>7. CASE n # c
    <3>1. S = {a \in DOMAIN attempts' : attempts'[a].step = n}
      BY <1>5, <1>6, <1>8, <2>1, <2>7 DEF AttemptsOf
    <3>2. SumFunctionOnSet(f, S) = SumFunctionOnSet(g, S) BY ONLY <2>2, <2>3, SumAgrees
    <3>3. SumFunctionOnSet(g, S) = OwedFor(attempts', n) BY <1>13, <3>1 DEF OwedFor
    <3>4. QED BY <2>4, <2>5, <2>7, <3>2, <3>3
  <2>8. QED BY <2>6, <2>7
<1>15. RowsTell'
  <2>1. \A a \in DOMAIN attempts' : a = k \/ a \in DOMAIN attempts BY <1>5
  <2>2. QED BY <1>5, <1>6, <1>7, <2>1 DEF RowsTell
<1> SUFFICES ASSUME NEW n \in DOMAIN steps', Recalls(attempts', n)
             PROVE  steps'[n].spent = OwedFor(attempts', n)
  BY <1>15, SpentMeans DEF SpendInv
<1>16. Recalls(attempts, n) BY <1>7
<1>17. CASE n = c BY <1>10, <1>11, <1>14, <1>16, <1>17
<1>18. CASE n # c
  <2>1. CASE n \in DOMAIN steps
    <3>1. steps'[n].spent = OwedFor(attempts, n)
      BY <1>5, <1>16, <1>18, <2>1, SpentMeans DEF SpendInv
    <3>2. steps[n].spent \in Int BY <2>1, StepRowOf DEF StepRows
    <3>3. steps'[n].spent \in Int BY <1>5, <1>18, <2>1, <3>2
    <3>4. QED BY <1>14, <1>18, <3>1, <3>3
  <2>2. CASE n \notin DOMAIN steps
    <3>1. n = c
      <4>1. DOMAIN CallSteps \subseteq DOMAIN steps \cup {c}
        BY <1>3, SeqIndices DEF CallSteps, CallStep, TInv
      <4>2. QED BY <1>5, <2>2, <4>1
    <3>2. QED BY <1>18, <3>1
  <2>3. QED BY <2>1, <2>2
<1>19. QED BY <1>17, <1>18

\* A recovery corrects every row it settles, and its generation by the sum.
LEMMA RecoverySpent ==
  ASSUME TInv, Moves, SpendInv, NEW rows, RowsOver(rows), UNCHANGED <<works, used>>,
         recoverTaskModelUsage(rows)
  PROVE  SpendInv'
<1>1. /\ DOMAIN attempts' = DOMAIN attempts /\ DOMAIN steps' = DOMAIN steps
      /\ \A a \in DOMAIN attempts :
           attempts'[a] = IF a \in Recoverable THEN Recovered(rows[a]) ELSE rows[a]
      /\ \A n \in DOMAIN steps : steps'[n] = [steps[n] EXCEPT !.spent = SpentAfterRecovery(n)]
  BY OverKept, RecoveryRows DEF RowsOver
<1>2. \A a \in DOMAIN attempts : attempts'[a].step = attempts[a].step
  BY DEF Moves, AttemptsMove, AttemptKept
<1>24. PICK e : e = [a \in DOMAIN attempts |->
                      IF a \in Recoverable THEN RecoveryCorrection(attempts[a]) ELSE 0]
  OBVIOUS
<1>25. \A a \in DOMAIN attempts : Corrects(attempts[a], attempts'[a], e[a])
  <2> SUFFICES ASSUME NEW a \in DOMAIN attempts
               PROVE  Corrects(attempts[a], attempts'[a], e[a])
    OBVIOUS
  <2>1. PICK at \in AttemptRows : at = attempts[a] BY OwnRows
  <2>2. PICK row : row = rows[a] OBVIOUS
  <2>3. LateOverRow(at, row) BY <2>1, <2>2 DEF RowsOver
  <2>4. CASE a \in Recoverable BY <1>1, <1>24, <2>1, <2>2, <2>3, <2>4, RecoveredCorrects
  <2>5. CASE a \notin Recoverable
    <3>1. /\ row.charged = at.charged /\ row.known = at.known
          /\ row.noted = at.noted /\ row.forgotten = at.forgotten
      BY <2>3, LateOverFields
    <3>2. Corrects(at, row, 0) BY <3>1, CorrectsSame
    <3>3. QED BY <1>1, <1>24, <2>1, <2>2, <2>5, <3>2
  <2>6. QED BY <2>4, <2>5
<1>26. /\ \A a \in DOMAIN attempts : ~attempts'[a].forgotten =>
             Tells(attempts'[a]) /\ Owed(attempts'[a]) = Owed(attempts[a]) + e[a]
       /\ \A n : Recalls(attempts', n) => Recalls(attempts, n)
  BY <1>1, <1>25, TellMeans
<1>27. RowsTell' BY <1>1, <1>26 DEF RowsTell
<1> SUFFICES ASSUME NEW n \in DOMAIN steps, Recalls(attempts', n)
             PROVE  steps'[n].spent = OwedFor(attempts', n)
  BY <1>1, <1>27, SpentMeans DEF SpendInv
<1>3. steps'[n].spent = SpentAfterRecovery(n) BY <1>1, StepRowOf DEF StepRows
<1>4. PICK S : S = AttemptsOf(n) OBVIOUS
<1>5. PICK A : A = Recoverable \cap S OBVIOUS
<1>6. IsFiniteSet(S) /\ S \subseteq DOMAIN attempts /\ A \subseteq S
  BY <1>4, <1>5, RowsFinite DEF AttemptsOf
<1>7. S = {a \in DOMAIN attempts' : attempts'[a].step = n} BY <1>1, <1>2, <1>4 DEF AttemptsOf
<1>8. PICK f : f = [a \in DOMAIN attempts |-> Owed(attempts[a])] OBVIOUS
<1>9. PICK c : c = [a \in DOMAIN attempts |-> RecoveryCorrection(attempts[a])] OBVIOUS
<1>10. PICK d : d = [a \in DOMAIN attempts |-> IF a \in A THEN c[a] ELSE 0] OBVIOUS
<1>11. PICK h : h = [a \in DOMAIN attempts' |-> Owed(attempts'[a])] OBVIOUS
<1>12. \A at \in AttemptRows : RecoveryCorrection(at) \in Int
  BY CorrectionsLower DEF AttemptRows, RecoveryCorrection
<1>13. \A a \in S : f[a] \in Int /\ c[a] \in Int /\ d[a] \in Int
  <2>1. \A a \in S : f[a] \in Nat BY <1>6, <1>8, OwnRows, OwedType
  <2>2. \A a \in S : c[a] \in Int BY <1>6, <1>9, <1>12, OwnRows
  <2>3. \A a \in S : d[a] \in Int BY <1>6, <1>10, <2>2
  <2>4. QED BY <2>1, <2>2, <2>3
<1>14. \A a \in S : h[a] = f[a] + d[a]
  <2> SUFFICES ASSUME NEW a \in S PROVE h[a] = f[a] + d[a] OBVIOUS
  <2>1. a \in DOMAIN attempts BY <1>6
  <2>2. ~attempts'[a].forgotten BY <1>1, <1>7 DEF Recalls
  <2>3. h[a] = Owed(attempts'[a]) /\ f[a] = Owed(attempts[a]) BY <1>1, <1>8, <1>11, <2>1
  <2>4. d[a] = e[a] BY <1>5, <1>9, <1>10, <1>24, <2>1
  <2>5. QED BY <1>26, <2>1, <2>2, <2>3, <2>4
<1>15. AddsUp(f, d, h, S) BY ONLY <1>6, <1>13, <1>14 DEF AddsUp
<1>16. SumFunctionOnSet(h, S) = SumFunctionOnSet(f, S) + SumFunctionOnSet(d, S)
  BY ONLY <1>15, SumPlus
<1>17. OnPart(c, d, A, S)
  <2>1. \A a \in S : d[a] = IF a \in A THEN c[a] ELSE 0 BY <1>6, <1>10
  <2>2. QED BY ONLY <1>6, <1>13, <2>1 DEF OnPart
<1>18. SumFunctionOnSet(d, S) = SumFunctionOnSet(c, A) BY ONLY <1>17, SumPart
<1>19. SpentAfterRecovery(n) = steps[n].spent + SumFunctionOnSet(c, A)
  BY <1>4, <1>5, <1>9 DEF SpentAfterRecovery
<1>20. SumFunctionOnSet(h, S) = OwedFor(attempts', n) BY <1>7, <1>11 DEF OwedFor
<1>21. SumFunctionOnSet(f, S) = OwedFor(attempts, n) BY <1>4, <1>8 DEF OwedFor, AttemptsOf
<1>22. steps[n].spent = OwedFor(attempts, n) BY <1>26, SpentMeans DEF SpendInv
<1>23. QED BY <1>3, <1>16, <1>18, <1>19, <1>20, <1>21, <1>22

LEMMA RecoversSpent ==
  ASSUME TInv, Moves, SpendInv,
         (\E w \in Workers : Recover(w)) \/ (\E a \in DOMAIN attempts : LateRecover(a))
  PROVE  SpendInv'
<1>1. CASE \E w \in Workers : Recover(w) BY <1>1, OwnOver, RecoverySpent DEF Recover
<1>2. CASE \E a \in DOMAIN attempts : LateRecover(a)
  <2>1. PICK a \in DOMAIN attempts : LateRecover(a) BY <1>2
  <2>2. PICK rows : rows = LateOver(a) OBVIOUS
  <2>3. /\ recoverTaskModelUsage(rows) \/ (attempts' = rows /\ UNCHANGED <<task, steps>>)
        /\ UNCHANGED <<works, used>>
    BY <2>1, <2>2 DEF LateRecover, LateOver
  <2>4. RowsOver(rows) BY <2>2, OwnOver
  <2>5. CASE recoverTaskModelUsage(rows) BY <2>3, <2>4, <2>5, RecoverySpent
  <2>6. CASE attempts' = rows /\ steps' = steps
    <3>1. \A b \in DOMAIN attempts : Corrects(attempts[b], rows[b], 0)
      BY <2>4, OwnRows, LateOverFields, CorrectsSame DEF RowsOver
    <3>2. OwedSteady BY <2>4, <2>6, <3>1 DEF OwedSteady, RowsOver
    <3>3. QED BY <2>6, <3>2, StepsSpentSame, SpentStays
  <2>7. QED BY <2>3, <2>5, <2>6
<1>3. QED BY <1>1, <1>2

LEMMA SpentStep ==
  ASSUME TInv, KInv, SpendInv, [Next]_vars PROVE SpendInv'
<1>1. CASE UNCHANGED vars
  <2>1. SpentOnce' <=> SpentOnce BY <1>1, SpentMeans DEF vars
  <2>2. QED BY <1>1, <2>1 DEF vars, SpendInv, RowsTell
<1> SUFFICES ASSUME Next PROVE SpendInv' BY <1>1
<1>2. Moves BY NextMoves
<1>3. ASSUME NEW w \in Workers, process(w) PROVE SpendInv'
  <2>1. CASE Recover(w) BY <1>2, <2>1, RecoversSpent
  <2>2. CASE Prepare(w)
    <3>1. CASE \/ PrepareNothing(w) \/ PreparePause(w) \/ PrepareTool(w)
               \/ FilesEnd(w) \/ PrepareDenied(w) \/ Deny(w)
      BY <1>2, <3>1, RowsSpent
         DEF PrepareNothing, PreparePause, PrepareTool, FilesEnd, PrepareDenied, Deny
    <3>2. QED BY <1>2, <2>2, <3>1, PreparesSpent, PrepareCallSpent, SMTT(60) DEF Prepare
  <2>3. CASE Model(w)
    <3>1. CASE Dispatch(w) \/ DispatchRefused(w) \/ Answer(w)
      BY <1>2, <3>1, RowsSpent DEF Dispatch, DispatchRefused, Answer
    <3>2. QED BY <1>2, <2>3, <3>1, ObservesSpent DEF Model
  <2>4. CASE Settle(w) BY <1>2, <2>4, SettleSpent
  <2>5. CASE Tool(w) BY <1>2, <2>5, ToolsSpent
  <2>6. CASE Poll(w) BY <1>2, <2>6, RowsSpent DEF Poll
  <2>7. QED BY <1>3, <2>1, <2>2, <2>3, <2>4, <2>5, <2>6 DEF process
<1>4. ASSUME NEW w \in Workers, ToolThrows(w) \/ Crash(w) PROVE SpendInv'
  BY <1>2, <1>4, ToolsSpent, RowsSpent DEF Crash
<1>5. ASSUME NEW a \in DOMAIN attempts, Late(a) \/ LateLost(a) PROVE SpendInv'
  BY <1>2, <1>5, LatesSpent, RecoversSpent DEF Late
<1>6. QED BY <1>2, <1>3, <1>4, <1>5, OwnerSpent, TimesSpent DEF Next

LEMMA SpentInit == ASSUME Init PROVE SpendInv
BY DEF Init, SpentOnce, SpendInv, RowsTell

\* A generation has spent exactly the charge of every attempt of its own whose
\* credits are settled and the reservation of every other, whichever of the
\* answer, the late settlement, the recovery and the late callback settles an
\* attempt first and however often a worker is lost: each attempt is corrected
\* once. Left out are the generations of which an attempt was abandoned after a
\* settlement without usage noted its charge there: the row has forgotten the
\* charge and is corrected again, as the run of LateSpentOnce shows.
THEOREM SpendingAddsUp == Spec => []SpentOnce
<1>1. Init => TInv /\ KInv /\ SpendInv BY TInvInit, KInvInit, SpentInit
<1>2. TInv /\ KInv /\ SpendInv /\ [Next]_vars => (TInv /\ KInv /\ SpendInv)'
  BY TInvStep, KInvStep, SpentStep
<1>3. SpendInv => SpentOnce BY DEF SpendInv
<1>4. QED BY <1>1, <1>2, <1>3, PTL DEF Spec
=============================================================================
