--------------------------- MODULE ApiCallsProofs ---------------------------
(***************************************************************************)
(* For every set of calls, origins and workers, and every limit: the types *)
(* and limits of ApiCalls, that what reached a service was approved as it  *)
(* was sent, that the answers about a change are true, and that every step *)
(* is one the at-most-once promise of OnceCall allows.                     *)
(***************************************************************************)
EXTENDS ApiCalls, FiniteSetTheorems, TLAPS

Changes == Calls \ Reads

\* The stages of the poll that claimed a change.
Senders == {"prepare", "send", "reached", "finish"}
Sends(w, c) == worker[w].call = c /\ worker[w].stage \in Senders

\* A poll works on a call that was made.
CallOK(w) ==
  /\ ~At(w, "idle") => worker[w].call \in Calls /\ Made(worker[w].call)
  /\ worker[w].stage \in {"look", "settle", "slot", "prepare"} => worker[w].call \notin Reads
  /\ At(w, "finish") => worker[w].outcome \in Final

\* What a poll has read of the row still explains what it is about to do: no
\* claim can come between the verdict that a change is rejected or expired and
\* its settlement.
PollOK(w) ==
  LET c == worker[w].call
  IN /\ At(w, "settle") =>
          \/ /\ worker[w].from = "awaiting-approval"
             /\ \/ worker[w].outcome = "rejected" /\ decision[c] = "reject"
                \/ worker[w].outcome = "expired" /\ call[c].age = "expired"
             /\ call[c].status \in Final \cup {"awaiting-approval"}
          \/ /\ worker[w].from = "sending"
             /\ worker[w].outcome = "outcome-unknown"
             /\ call[c].status \in Final \cup {"sending"}
     /\ At(w, "slot") => decision[c] = "approve"

\* The sender of a change holds a row that is sending or was given up, an
\* approval, and an outcome that agrees with what reached the service.
SenderOK(w) ==
  LET c == worker[w].call
  IN worker[w].stage \in Senders /\ c \in Changes =>
       /\ call[c].status \in {"sending", "outcome-unknown"}
       /\ decision[c] = "approve"
       /\ At(w, "send") => worker[w].version = call[c].version
       /\ worker[w].stage \in {"prepare", "send"} => arrived[c].times = 0
       /\ At(w, "reached") => arrived[c].times = 1
       /\ At(w, "finish") =>
            \/ worker[w].outcome \in {"failed", "conflict"} /\ arrived[c].times = 0
            \/ worker[w].outcome = "sent" /\ arrived[c].times = 1
            \/ worker[w].outcome = "outcome-unknown"

\* A change has one sender in its life at a time.
OneSender(w) ==
  \A v \in Workers, c \in Changes : Sends(w, c) /\ Sends(v, c) => v = w

\* The row of a change, what reached the service and what was answered agree.
RowOK(c) ==
  /\ arrived[c].times \in {0, 1}
  /\ arrived[c].times = 1 =>
       decision[c] = "approve" /\ arrived[c].version = call[c].version
  /\ call[c].status \in {"none", "awaiting-approval"} =>
       arrived[c].times = 0 /\ answers[c] = {}
  /\ call[c].status \in Unsent => arrived[c].times = 0
  /\ call[c].status = "sent" => arrived[c].times = 1
  /\ answers[c] \cap Unsent # {} =>
       arrived[c].times = 0 /\ \A w \in Workers : ~Sends(w, c)
  /\ "sent" \in answers[c] => arrived[c].times = 1

WInv == \A w \in Workers : CallOK(w) /\ PollOK(w) /\ SenderOK(w) /\ OneSender(w)
RInv == \A c \in Changes : RowOK(c)
IInv == Typed /\ Limited /\ WInv /\ RInv

USE DEF Changes, Unsent, Final, Decisions, At, Made, Change

-----------------------------------------------------------------------------
\* The limits

\* The calls in flight and those of an origin are finitely many.
LEMMA FiniteRows ==
  /\ IsFiniteSet(inFlight) /\ Cardinality(inFlight) \in Nat
  /\ \A o \in Origins : IsFiniteSet(originCalls(o)) /\ Cardinality(originCalls(o)) \in Nat
<1>1. inFlight \subseteq Calls /\ \A o \in Origins : originCalls(o) \subseteq Calls
  BY DEF inFlight, originCalls
<1>2. QED BY <1>1, CallsAssumption, FS_Subset, FS_CardinalityType

\* A step that puts no call in flight and makes none keeps the limits.
LEMMA LimitsKept ==
  ASSUME Limited, inFlight' \subseteq inFlight,
         \A o \in Origins : originCalls(o)' = originCalls(o)
  PROVE  Limited'
<1>1. Cardinality(inFlight') <= Cardinality(inFlight) /\ Cardinality(inFlight') \in Nat
  BY FiniteRows, FS_Subset, FS_CardinalityType
<1>2. Cardinality(inFlight) <= SlotLimit BY DEF Limited
<1>3. Cardinality(inFlight') <= SlotLimit
  BY <1>1, <1>2, FiniteRows, LimitsAssumption
<1>4. QED BY <1>3 DEF Limited

LEMMA LimitsSame == ASSUME Limited, UNCHANGED call PROVE Limited'
  BY DEF Limited, inFlight, originCalls

\* The slot a claim found free is the only one it takes.
LEMMA SlotTaken ==
  ASSUME Limited, SlotFree, NEW c, inFlight' \subseteq inFlight \cup {c}
  PROVE  Cardinality(inFlight') <= SlotLimit
<1>1. /\ IsFiniteSet(inFlight \cup {c})
      /\ Cardinality(inFlight \cup {c}) <= Cardinality(inFlight) + 1
      /\ Cardinality(inFlight \cup {c}) \in Nat
  BY FiniteRows, FS_AddElement, FS_CardinalityType
<1>2. Cardinality(inFlight') <= Cardinality(inFlight \cup {c})
      /\ Cardinality(inFlight') \in Nat
  BY <1>1, FS_Subset, FS_CardinalityType
<1>3. Cardinality(inFlight) + 1 <= SlotLimit
  BY FiniteRows, LimitsAssumption DEF SlotFree
<1>4. QED BY <1>1, <1>2, <1>3, FiniteRows, LimitsAssumption

\* A call made under the limit of its origin keeps it.
LEMMA CallMade ==
  ASSUME Limited, NEW c, NEW o \in Origins, Cardinality(originCalls(o)) < ScopeLimit,
         \A p \in Origins : originCalls(p)' \subseteq
                              IF p = o THEN originCalls(p) \cup {c} ELSE originCalls(p)
  PROVE  \A p \in Origins : Cardinality(originCalls(p)') <= ScopeLimit
<1> SUFFICES ASSUME NEW p \in Origins PROVE Cardinality(originCalls(p)') <= ScopeLimit
  OBVIOUS
<1>1. IsFiniteSet(originCalls(p)) /\ Cardinality(originCalls(p)) \in Nat
  BY FiniteRows
<1>2. CASE p # o
  <2>1. originCalls(p)' \subseteq originCalls(p) BY <1>2
  <2>2. Cardinality(originCalls(p)') <= Cardinality(originCalls(p))
        /\ Cardinality(originCalls(p)') \in Nat
    BY <1>1, <2>1, FS_Subset, FS_CardinalityType
  <2>3. Cardinality(originCalls(p)) <= ScopeLimit BY DEF Limited
  <2>4. QED BY <1>1, <2>2, <2>3, LimitsAssumption
<1>3. CASE p = o
  <2>1. originCalls(p)' \subseteq originCalls(p) \cup {c} BY <1>3
  <2>2. /\ IsFiniteSet(originCalls(p) \cup {c})
        /\ Cardinality(originCalls(p) \cup {c})
             = IF c \in originCalls(p) THEN Cardinality(originCalls(p))
                                       ELSE Cardinality(originCalls(p)) + 1
    BY <1>1, FS_AddElement
  <2>3. Cardinality(originCalls(p)') <= Cardinality(originCalls(p) \cup {c})
        /\ Cardinality(originCalls(p)') \in Nat
        /\ Cardinality(originCalls(p) \cup {c}) \in Nat
    BY <2>1, <2>2, FS_Subset, FS_CardinalityType
  <2>4. Cardinality(originCalls(p)) + 1 <= ScopeLimit
    BY <1>1, <1>3, LimitsAssumption
  <2>5. QED BY <1>1, <2>2, <2>3, <2>4, LimitsAssumption
<1>4. QED BY <1>2, <1>3

-----------------------------------------------------------------------------
\* What a step writes: its type, and what it changes

LEMMA StatusTyped ==
  ASSUME Typed, NEW c \in Calls, NEW s \in Final \cup {"none", "awaiting-approval", "sending"}
  PROVE  [call EXCEPT ![c].status = s] \in [Calls -> CallRow]
<1>1. call \in [Calls -> CallRow] BY DEF Typed
<1>2. [call[c] EXCEPT !.status = s] \in CallRow BY <1>1 DEF CallRow
<1>3. QED BY <1>1, <1>2

LEMMA AgeTyped ==
  ASSUME Typed, NEW c \in Calls, NEW a \in {"fresh", "expired", "late", "overdue"}
  PROVE  [call EXCEPT ![c].age = a] \in [Calls -> CallRow]
<1>1. call \in [Calls -> CallRow] BY DEF Typed
<1>2. [call[c] EXCEPT !.age = a] \in CallRow BY <1>1 DEF CallRow
<1>3. QED BY <1>1, <1>2

\* A worker rests.
LEMMA RestsTyped ==
  ASSUME Typed, NEW w \in Workers, Rests(w)
  PROVE  /\ worker' \in [Workers -> WorkerState]
         /\ At(w, "idle")'
         /\ \A v \in Workers \ {w} : worker'[v] = worker[v]
<1>1. Idle \in WorkerState /\ Idle.stage = "idle" BY DEF Idle, WorkerState
<1>2. worker \in [Workers -> WorkerState] BY DEF Typed
<1>3. QED BY <1>1, <1>2 DEF Rests

\* A worker goes to its next stage.
LEMMA GoesTyped ==
  ASSUME Typed, NEW w \in Workers,
         NEW s \in {"look", "slot", "prepare", "reached"}, Goes(w, s)
  PROVE  /\ worker' \in [Workers -> WorkerState]
         /\ worker'[w].stage = s
         /\ worker'[w].call = worker[w].call
         /\ worker'[w].version = worker[w].version
         /\ \A v \in Workers \ {w} : worker'[v] = worker[v]
<1>1. worker \in [Workers -> WorkerState] BY DEF Typed
<1>2. [worker[w] EXCEPT !.stage = s] \in WorkerState BY <1>1 DEF WorkerState
<1>3. QED BY <1>1, <1>2 DEF Goes, WorkerState

\* A sender has its outcome.
LEMMA EndsTyped ==
  ASSUME Typed, NEW w \in Workers, NEW o \in Final, Ends(w, o)
  PROVE  /\ worker' \in [Workers -> WorkerState]
         /\ At(w, "finish")'
         /\ worker'[w].outcome = o
         /\ worker'[w].call = worker[w].call
         /\ \A v \in Workers \ {w} : worker'[v] = worker[v]
<1>1. worker \in [Workers -> WorkerState] BY DEF Typed
<1>2. [worker[w] EXCEPT !.stage = "finish", !.outcome = o] \in WorkerState
  BY <1>1 DEF WorkerState
<1>3. QED BY <1>1, <1>2 DEF Ends, WorkerState

LEMMA AnswersTyped ==
  ASSUME Typed, NEW c \in Calls, NEW s \in Final, Answers(c, s)
  PROVE  answers' \in [Calls -> SUBSET Final]
  BY DEF Typed, Answers

-----------------------------------------------------------------------------
\* The invariant, action by action

\* A change is made.
LEMMA ProposeKeeps == ASSUME IInv, NEW c \in Calls, NEW o \in Origins, proposeApiCall(c, o) PROVE IInv'
<1> USE DEF proposeApiCall
<1>1. Typed'
  <2>0. call \in [Calls -> CallRow] /\ secret \in Nat BY DEF IInv, Typed
  <2>1. [call[c] EXCEPT !.status = "awaiting-approval", !.origin = o, !.version = secret]
          \in CallRow
    BY <2>0 DEF CallRow
  <2>2. QED BY <2>0, <2>1 DEF IInv, Typed
<1>2. Limited'
  <2>1. inFlight' \subseteq inFlight BY DEF IInv, Typed, inFlight
  <2>2. \A p \in Origins : originCalls(p)' \subseteq
           IF p = o THEN originCalls(p) \cup {c} ELSE originCalls(p)
    BY DEF IInv, Typed, originCalls
  <2>3. \A p \in Origins : Cardinality(originCalls(p)') <= ScopeLimit
    BY <2>2, CallMade DEF IInv
  <2>4. Cardinality(inFlight') <= SlotLimit
    <3>1. Cardinality(inFlight') <= Cardinality(inFlight) /\ Cardinality(inFlight') \in Nat
      BY <2>1, FiniteRows, FS_Subset, FS_CardinalityType
    <3>2. QED BY <3>1, FiniteRows, LimitsAssumption DEF IInv, Limited
  <2>5. QED BY <2>3, <2>4 DEF Limited
<1>3. WInv' BY DEF IInv, Typed, WInv, CallOK, PollOK, SenderOK, OneSender, Sends, Senders
<1>4. RInv' BY DEF IInv, Typed, WInv, RInv, CallOK, PollOK, SenderOK, OneSender, RowOK, Sends, Senders
<1>5. QED BY <1>1, <1>2, <1>3, <1>4 DEF IInv

\* A read takes a slot and is made.
LEMMA StartReadKeeps == ASSUME IInv, NEW w \in Workers, NEW c \in Calls, NEW o \in Origins, StartRead(w, c, o) PROVE IInv'
<1> USE DEF StartRead, Idle
<1>1. Typed'
  <2>1. [Idle EXCEPT !.stage = "send", !.call = c] \in WorkerState
    BY DEF Idle, WorkerState
  <2>2. worker' \in [Workers -> WorkerState] BY <2>1 DEF IInv, Typed
  <2>0. call \in [Calls -> CallRow] BY DEF IInv, Typed
  <2>3. [call[c] EXCEPT !.status = "sending", !.origin = o] \in CallRow
    BY <2>0 DEF CallRow
  <2>4. call' \in [Calls -> CallRow] BY <2>3 DEF IInv, Typed
  <2>5. QED BY <2>2, <2>4 DEF IInv, Typed
<1>2. Limited'
  <2>1. inFlight' \subseteq inFlight \cup {c} BY DEF IInv, Typed, inFlight
  <2>2. \A p \in Origins : originCalls(p)' \subseteq
           IF p = o THEN originCalls(p) \cup {c} ELSE originCalls(p)
    BY DEF IInv, Typed, originCalls
  <2>3. \A p \in Origins : Cardinality(originCalls(p)') <= ScopeLimit
    BY <2>2, CallMade DEF IInv
  <2>4. Cardinality(inFlight') <= SlotLimit BY <2>1, SlotTaken DEF IInv
  <2>5. QED BY <2>3, <2>4 DEF Limited
<1>3. WInv'
  <2> SUFFICES ASSUME NEW v \in Workers
               PROVE  (CallOK(v) /\ PollOK(v) /\ SenderOK(v) /\ OneSender(v))'
    BY DEF WInv
  <2> USE DEF IInv, Typed, WInv
  <2>1. CallOK(v)' BY DEF CallOK
  <2>2. PollOK(v)' BY DEF CallOK, PollOK
  <2>3. SenderOK(v)' BY DEF CallOK, PollOK, SenderOK, Senders, OneSender, Sends
  <2>4. OneSender(v)' BY DEF CallOK, SenderOK, OneSender, Sends, Senders
  <2>5. QED BY <2>1, <2>2, <2>3, <2>4
<1>4. RInv'
  <2> SUFFICES ASSUME NEW r \in Changes PROVE RowOK(r)' BY DEF RInv
  <2>1. RowOK(r) BY DEF IInv, RInv
  <2>2. QED
    BY <2>1 DEF IInv, Typed, WInv, CallOK, PollOK, SenderOK, OneSender, RowOK, Sends, Senders
<1>5. QED BY <1>1, <1>2, <1>3, <1>4 DEF IInv

\* An origin stops waiting.
LEMMA OriginEndsKeeps == ASSUME IInv, NEW o \in Origins, OriginEnds(o) PROVE IInv'
<1> USE DEF OriginEnds
<1>1. Typed' BY DEF IInv, Typed
<1>2. Limited' BY LimitsSame DEF IInv
<1>3. WInv' BY DEF IInv, Typed, WInv, CallOK, PollOK, SenderOK, OneSender, Sends, Senders
<1>4. RInv' BY DEF IInv, Typed, WInv, RInv, CallOK, PollOK, SenderOK, OneSender, RowOK, Sends, Senders
<1>5. QED BY <1>1, <1>2, <1>3, <1>4 DEF IInv

\* The secret is changed.
LEMMA SecretChangesKeeps == ASSUME IInv, SecretChanges PROVE IInv'
<1> USE DEF SecretChanges
<1>1. Typed' BY DEF IInv, Typed
<1>2. Limited' BY LimitsSame DEF IInv
<1>3. WInv' BY DEF IInv, Typed, WInv, CallOK, PollOK, SenderOK, OneSender, Sends, Senders
<1>4. RInv' BY DEF IInv, Typed, WInv, RInv, CallOK, PollOK, SenderOK, OneSender, RowOK, Sends, Senders
<1>5. QED BY <1>1, <1>2, <1>3, <1>4 DEF IInv

\* A change expires.
LEMMA ExpiresKeeps == ASSUME IInv, NEW c \in Calls, Expires(c) PROVE IInv'
<1> USE DEF Expires
<1>1. Typed'
  <2>1. call' \in [Calls -> CallRow]
    BY AgeTyped DEF IInv
  <2>2. QED BY <2>1 DEF IInv, Typed
<1>2. Limited'
  <2>1. inFlight' \subseteq inFlight /\ \A o \in Origins : originCalls(o)' = originCalls(o)
    BY DEF IInv, Typed, WInv, CallOK, inFlight, originCalls
  <2>2. QED BY <2>1, LimitsKept DEF IInv
<1>3. WInv' BY DEF IInv, Typed, WInv, CallOK, PollOK, SenderOK, OneSender, Sends, Senders
<1>4. RInv' BY DEF IInv, Typed, WInv, RInv, CallOK, PollOK, SenderOK, OneSender, RowOK, Sends, Senders
<1>5. QED BY <1>1, <1>2, <1>3, <1>4 DEF IInv

\* A deadline or its grace passes.
LEMMA DeadlinePassesKeeps == ASSUME IInv, NEW c \in Calls, DeadlinePasses(c) PROVE IInv'
<1> USE DEF DeadlinePasses
<1>1. Typed'
  <2>1. call' \in [Calls -> CallRow]
    BY AgeTyped DEF IInv
  <2>2. QED BY <2>1 DEF IInv, Typed
<1>2. Limited'
  <2>1. inFlight' \subseteq inFlight /\ \A o \in Origins : originCalls(o)' = originCalls(o)
    BY DEF IInv, Typed, WInv, CallOK, inFlight, originCalls
  <2>2. QED BY <2>1, LimitsKept DEF IInv
<1>3. WInv' BY DEF IInv, Typed, WInv, CallOK, PollOK, SenderOK, OneSender, Sends, Senders
<1>4. RInv' BY DEF IInv, Typed, WInv, RInv, CallOK, PollOK, SenderOK, OneSender, RowOK, Sends, Senders
<1>5. QED BY <1>1, <1>2, <1>3, <1>4 DEF IInv

\* A decision is checked.
LEMMA DecideKeeps == ASSUME IInv, NEW c \in Calls, NEW d \in Decisions, decideApiCall(c, d) PROVE IInv'
<1> USE DEF decideApiCall
<1>1. Typed' BY DEF IInv, Typed
<1>2. Limited' BY LimitsSame DEF IInv
<1>3. WInv' BY DEF IInv, Typed, WInv, CallOK, PollOK, SenderOK, OneSender, Sends, Senders
<1>4. RInv' BY DEF IInv, Typed, WInv, RInv, CallOK, PollOK, SenderOK, OneSender, RowOK, Sends, Senders
<1>5. QED BY <1>1, <1>2, <1>3, <1>4 DEF IInv

\* A decision is inserted.
LEMMA RecordKeeps == ASSUME IInv, NEW c \in Calls, NEW d \in Decisions, RecordDecision(c, d) PROVE IInv'
<1> USE DEF RecordDecision, Decided
<1>1. Typed' BY DEF IInv, Typed
<1>2. Limited' BY LimitsSame DEF IInv
<1>3. WInv' BY DEF IInv, Typed, WInv, CallOK, PollOK, SenderOK, OneSender, Sends, Senders
<1>4. RInv' BY DEF IInv, Typed, WInv, RInv, CallOK, PollOK, SenderOK, OneSender, RowOK, Sends, Senders
<1>5. QED BY <1>1, <1>2, <1>3, <1>4 DEF IInv

\* A poll begins.
LEMMA PollKeeps == ASSUME IInv, NEW w \in Workers, NEW c \in Calls, Poll(w, c) PROVE IInv'
<1> USE DEF Poll, Idle
<1>1. Typed'
  <2>1. [Idle EXCEPT !.stage = "look", !.call = c] \in WorkerState
    BY DEF Idle, WorkerState
  <2>2. QED BY <2>1 DEF IInv, Typed
<1>2. Limited' BY LimitsSame DEF IInv
<1>3. WInv'
  <2> SUFFICES ASSUME NEW v \in Workers
               PROVE  (CallOK(v) /\ PollOK(v) /\ SenderOK(v) /\ OneSender(v))'
    BY DEF WInv
  <2> USE DEF IInv, Typed, WInv
  <2>1. CallOK(v)' BY DEF CallOK
  <2>2. PollOK(v)' BY DEF CallOK, PollOK
  <2>3. SenderOK(v)' BY DEF CallOK, PollOK, SenderOK, Senders, OneSender, Sends
  <2>4. OneSender(v)' BY DEF CallOK, SenderOK, OneSender, Sends, Senders
  <2>5. QED BY <2>1, <2>2, <2>3, <2>4
<1>4. RInv'
  <2> SUFFICES ASSUME NEW r \in Changes PROVE RowOK(r)' BY DEF RInv
  <2>1. RowOK(r) BY DEF IInv, RInv
  <2>2. QED
    BY <2>1 DEF IInv, Typed, WInv, CallOK, PollOK, SenderOK, OneSender, RowOK, Sends, Senders
<1>5. QED BY <1>1, <1>2, <1>3, <1>4 DEF IInv

\* A poll finds no slot.
LEMMA NoSlotKeeps == ASSUME IInv, NEW w \in Workers, NoSlot(w) PROVE IInv'
<1> USE DEF NoSlot, Rests, Idle
<1>1. Typed'
  <2>1. worker' \in [Workers -> WorkerState]
    BY RestsTyped DEF IInv
  <2>2. QED BY <2>1 DEF IInv, Typed
<1>2. Limited' BY LimitsSame DEF IInv
<1>3. WInv' BY DEF IInv, Typed, WInv, CallOK, PollOK, SenderOK, OneSender, Sends, Senders
<1>4. RInv' BY DEF IInv, Typed, WInv, RInv, CallOK, PollOK, SenderOK, OneSender, RowOK, Sends, Senders
<1>5. QED BY <1>1, <1>2, <1>3, <1>4 DEF IInv

\* The request reaches the service.
LEMMA ReachesKeeps == ASSUME IInv, NEW w \in Workers, Reaches(w) PROVE IInv'
<1> USE DEF Reaches, Goes
<1>1. Typed'
  <2>1. worker' \in [Workers -> WorkerState] BY GoesTyped DEF IInv
  <2>2. worker[w].version \in Nat BY DEF IInv, Typed, WorkerState
  <2>3. arrived \in [Calls -> [times : Nat, version : Nat]] BY DEF IInv, Typed
  <2>4. \A c \in Calls : [times |-> arrived[c].times + 1, version |-> worker[w].version]
                            \in [times : Nat, version : Nat]
    BY <2>2, <2>3
  <2>5. arrived' \in [Calls -> [times : Nat, version : Nat]] BY <2>3, <2>4
  <2>6. QED BY <2>1, <2>5 DEF IInv, Typed
<1>2. Limited' BY LimitsSame DEF IInv
<1>3. WInv' BY DEF IInv, Typed, WInv, CallOK, PollOK, SenderOK, OneSender, Sends, Senders
<1>4. RInv' BY DEF IInv, Typed, WInv, RInv, CallOK, PollOK, SenderOK, OneSender, RowOK, Sends, Senders
<1>5. QED BY <1>1, <1>2, <1>3, <1>4 DEF IInv

\* The request is not sent.
LEMMA NotSentKeeps == ASSUME IInv, NEW w \in Workers, NotSent(w) PROVE IInv'
<1> USE DEF NotSent, Ends
<1>1. Typed'
  <2>1. worker' \in [Workers -> WorkerState]
    BY EndsTyped DEF IInv
  <2>2. QED BY <2>1 DEF IInv, Typed
<1>2. Limited' BY LimitsSame DEF IInv
<1>3. WInv' BY DEF IInv, Typed, WInv, CallOK, PollOK, SenderOK, OneSender, Sends, Senders
<1>4. RInv' BY DEF IInv, Typed, WInv, RInv, CallOK, PollOK, SenderOK, OneSender, RowOK, Sends, Senders
<1>5. QED BY <1>1, <1>2, <1>3, <1>4 DEF IInv

\* The service answers.
LEMMA AnsweredKeeps == ASSUME IInv, NEW w \in Workers, Answered(w) PROVE IInv'
<1> USE DEF Answered, Ends
<1>1. Typed'
  <2>1. worker' \in [Workers -> WorkerState]
    BY EndsTyped DEF IInv
  <2>2. QED BY <2>1 DEF IInv, Typed
<1>2. Limited' BY LimitsSame DEF IInv
<1>3. WInv' BY DEF IInv, Typed, WInv, CallOK, PollOK, SenderOK, OneSender, Sends, Senders
<1>4. RInv' BY DEF IInv, Typed, WInv, RInv, CallOK, PollOK, SenderOK, OneSender, RowOK, Sends, Senders
<1>5. QED BY <1>1, <1>2, <1>3, <1>4 DEF IInv

\* The answer is lost.
LEMMA NoAnswerKeeps == ASSUME IInv, NEW w \in Workers, NoAnswer(w) PROVE IInv'
<1> USE DEF NoAnswer, LostOutcome, Ends
<1>1. Typed'
  <2>1. worker' \in [Workers -> WorkerState]
    BY EndsTyped DEF IInv
  <2>2. QED BY <2>1 DEF IInv, Typed
<1>2. Limited' BY LimitsSame DEF IInv
<1>3. WInv' BY DEF IInv, Typed, WInv, CallOK, PollOK, SenderOK, OneSender, Sends, Senders
<1>4. RInv' BY DEF IInv, Typed, WInv, RInv, CallOK, PollOK, SenderOK, OneSender, RowOK, Sends, Senders
<1>5. QED BY <1>1, <1>2, <1>3, <1>4 DEF IInv

\* A worker stops.
LEMMA CrashKeeps == ASSUME IInv, NEW w \in Workers, Crash(w) PROVE IInv'
<1> USE DEF Crash, Rests, Idle
<1>1. Typed'
  <2>1. worker' \in [Workers -> WorkerState]
    BY RestsTyped DEF IInv
  <2>2. QED BY <2>1 DEF IInv, Typed
<1>2. Limited' BY LimitsSame DEF IInv
<1>3. WInv'
  <2> SUFFICES ASSUME NEW v \in Workers
               PROVE  (CallOK(v) /\ PollOK(v) /\ SenderOK(v) /\ OneSender(v))'
    BY DEF WInv
  <2> USE DEF IInv, Typed, WInv
  <2>1. CallOK(v)' BY DEF CallOK
  <2>2. PollOK(v)' BY DEF CallOK, PollOK
  <2>3. SenderOK(v)' BY DEF CallOK, PollOK, SenderOK, Senders, OneSender, Sends
  <2>4. OneSender(v)' BY DEF CallOK, SenderOK, OneSender, Sends, Senders
  <2>5. QED BY <2>1, <2>2, <2>3, <2>4
<1>4. RInv'
  <2> SUFFICES ASSUME NEW r \in Changes PROVE RowOK(r)' BY DEF RInv
  <2>1. RowOK(r) BY DEF IInv, RInv
  <2>2. QED
    BY <2>1 DEF IInv, Typed, WInv, CallOK, PollOK, SenderOK, OneSender, RowOK, Sends, Senders
<1>5. QED BY <1>1, <1>2, <1>3, <1>4 DEF IInv

\* What a verdict says of the row it was read from.
VerdictOK(c, v) ==
  /\ v = "done" => call[c].status \in Final
  /\ v = "approved" => decision[c] = "approve"
  /\ v = "outcome-unknown" => call[c].status = "sending"
  /\ v = "rejected" => call[c].status = "awaiting-approval" /\ decision[c] = "reject"
  /\ v = "expired" => call[c].status = "awaiting-approval" /\ call[c].age = "expired"

LEMMA VerdictMeans ==
  ASSUME NEW c \in Calls, call[c] \in CallRow, Made(c)
  PROVE  VerdictOK(c, Verdict(c))
  BY DEF Verdict, Overdue, CallRow, VerdictOK

\* What a look leaves behind.
Looked(w, c) ==
  /\ worker' \in [Workers -> WorkerState]
  /\ \A v \in Workers \ {w} : worker'[v] = worker[v]
  /\ \/ At(w, "idle")'
     \/ At(w, "slot")' /\ worker'[w].call = c /\ decision[c] = "approve"
     \/ /\ At(w, "settle")' /\ worker'[w].call = c
        /\ worker'[w].from = call[c].status
        /\ \/ /\ call[c].status = "awaiting-approval"
              /\ \/ worker'[w].outcome = "rejected" /\ decision[c] = "reject"
                 \/ worker'[w].outcome = "expired" /\ call[c].age = "expired"
           \/ /\ call[c].status = "sending"
              /\ worker'[w].outcome = "outcome-unknown"
  /\ \/ UNCHANGED answers
     \/ /\ call[c].status \in Final
        /\ answers' = [answers EXCEPT ![c] = @ \cup {call[c].status}]

LEMMA LookEffect ==
  ASSUME IInv, NEW w \in Workers, Look(w), NEW c, c = worker[w].call
  PROVE  c \in Changes /\ Made(c) /\ Looked(w, c)
<1> DEFINE v == Verdict(c)
           settles == /\ v \in {"outcome-unknown", "rejected", "expired"}
                      /\ worker' = [worker EXCEPT ![w].stage = "settle", ![w].outcome = v,
                                                  ![w].from = call[c].status]
                      /\ UNCHANGED answers
<1>1. CallOK(w) /\ At(w, "look") /\ Typed BY DEF IInv, WInv, Look
<1>2. c \in Changes /\ Made(c) BY <1>1 DEF CallOK
<1>3. call[c] \in CallRow /\ worker \in [Workers -> WorkerState]
  BY <1>1, <1>2 DEF Typed
<1>4. VerdictOK(c, v) BY <1>2, <1>3, VerdictMeans
<1>5. \/ v = "waiting" /\ Rests(w) /\ UNCHANGED answers
      \/ v = "done" /\ Rests(w) /\ Answers(c, call[c].status)
      \/ v = "approved" /\ Goes(w, "slot") /\ UNCHANGED answers
      \/ settles
  BY DEF Look
<1> HIDE DEF v
<1>6. CASE v = "waiting" /\ Rests(w) /\ UNCHANGED answers
  BY <1>1, <1>2, <1>6, RestsTyped DEF Looked
<1>7. CASE v = "done" /\ Rests(w) /\ Answers(c, call[c].status)
  BY <1>1, <1>2, <1>4, <1>7, RestsTyped DEF Answers, VerdictOK, Looked
<1>8. CASE v = "approved" /\ Goes(w, "slot") /\ UNCHANGED answers
  BY <1>1, <1>2, <1>4, <1>8, GoesTyped DEF VerdictOK, Looked
<1>9. CASE settles
  <2>1. call[c].status \in {"awaiting-approval", "sending"} BY <1>4, <1>9 DEF VerdictOK
  <2>2. [worker[w] EXCEPT !.stage = "settle", !.outcome = v, !.from = call[c].status]
          \in WorkerState
    BY <1>3, <1>9, <2>1, ZenonT(60) DEF WorkerState
  <2>3. /\ worker' \in [Workers -> WorkerState]
        /\ \A u \in Workers \ {w} : worker'[u] = worker[u]
        /\ At(w, "settle")' /\ worker'[w].call = c /\ worker'[w].outcome = v
        /\ worker'[w].from = call[c].status
    BY <1>3, <1>9, <2>2 DEF WorkerState
  <2>4. QED BY <1>2, <1>4, <1>9, <2>1, <2>3 DEF VerdictOK, Looked
<1>10. QED BY <1>5, <1>6, <1>7, <1>8, <1>9

\* A poll reads the row.
LEMMA LookKeeps == ASSUME IInv, NEW w \in Workers, Look(w) PROVE IInv'
<1> DEFINE c == worker[w].call
<1>1. c \in Changes /\ Made(c) /\ Looked(w, c) BY LookEffect
<1> HIDE DEF c
<1>2. UNCHANGED <<call, decision, deciding, live, secret, arrived>> BY DEF Look
<1>3. Typed'
  <2>1. answers' \in [Calls -> SUBSET Final] BY <1>1 DEF IInv, Typed, Looked
  <2>2. QED BY <1>1, <1>2, <2>1 DEF IInv, Typed, Looked
<1>4. Limited' BY <1>2, LimitsSame DEF IInv
<1>5. WInv'
  <2> SUFFICES ASSUME NEW v \in Workers
               PROVE  (CallOK(v) /\ PollOK(v) /\ SenderOK(v) /\ OneSender(v))'
    BY DEF WInv
  <2>1. \A u \in Workers : CallOK(u) /\ PollOK(u) /\ SenderOK(u) /\ OneSender(u)
    BY DEF IInv, WInv
  <2>2. CallOK(v)' BY <1>1, <1>2, <2>1 DEF CallOK, Looked
  <2>3. PollOK(v)' BY <1>1, <1>2, <2>1 DEF PollOK, Looked
  <2>4. SenderOK(v)' BY <1>1, <1>2, <2>1 DEF SenderOK, Senders, Looked
  <2>5. OneSender(v)' BY <1>1, <2>1 DEF OneSender, Sends, Senders, Looked
  <2>6. QED BY <2>2, <2>3, <2>4, <2>5
<1>6. RInv'
  <2> SUFFICES ASSUME NEW r \in Changes PROVE RowOK(r)' BY DEF RInv
  <2>1. RowOK(r) BY DEF IInv, RInv
  <2>2. ASSUME NEW u \in Workers, Sends(u, r)' PROVE Sends(u, r)
    BY <1>1, <2>2 DEF Sends, Senders, Looked
  <2>3. CASE answers'[r] = answers[r] BY <1>2, <2>1, <2>2, <2>3 DEF RowOK
  <2>4. CASE answers'[r] # answers[r]
    <3>1. /\ r = c /\ call[r].status \in Final
          /\ answers'[r] = answers[r] \cup {call[r].status}
      BY <1>1, <2>4 DEF IInv, Typed, Looked
    <3>2. call[r].status \in Unsent => \A u \in Workers : ~Sends(u, r)
      BY SMTT(60) DEF IInv, WInv, SenderOK, Sends, Senders
    <3>3. QED BY <1>2, <2>1, <2>2, <3>1, <3>2 DEF RowOK
  <2>5. QED BY <2>3, <2>4
<1>7. QED BY <1>3, <1>4, <1>5, <1>6 DEF IInv

\* A settlement ends the row it read, or finds it ended.
SettledRow(w, c) ==
  /\ call' = [call EXCEPT ![c].status = call'[c].status]
  /\ answers' = [answers EXCEPT ![c] = @ \cup {call'[c].status}]
  /\ \/ call[c].status \in Final /\ call'[c].status = call[c].status
     \/ /\ call[c].status = "awaiting-approval"
        /\ call'[c].status \in {"rejected", "expired"}
     \/ /\ call[c].status = "sending"
        /\ call'[c].status = "outcome-unknown"

LEMMA SettleEffect ==
  ASSUME IInv, NEW w \in Workers, Settle(w), NEW c, c = worker[w].call
  PROVE  c \in Changes /\ Made(c) /\ SettledRow(w, c)
<1>1. /\ CallOK(w) /\ PollOK(w) /\ At(w, "settle") /\ Answers(c, call'[c].status)
      /\ call \in [Calls -> CallRow] /\ call' = Settled(w)
  BY DEF IInv, Typed, WInv, Settle
<1>2. c \in Changes /\ Made(c) BY <1>1 DEF CallOK
<1>3. /\ call' = [call EXCEPT ![c].status =
           IF call[c].status = worker[w].from THEN worker[w].outcome ELSE call[c].status]
      /\ call'[c].status =
           IF call[c].status = worker[w].from THEN worker[w].outcome ELSE call[c].status
  BY <1>1, <1>2 DEF Settled, CallRow
<1>4. answers' = [answers EXCEPT ![c] = @ \cup {call'[c].status}]
  BY <1>1, <1>2 DEF Answers
<1>5. \/ call[c].status \in Final /\ call'[c].status = call[c].status
      \/ /\ call[c].status = "awaiting-approval"
         /\ call'[c].status \in {"rejected", "expired"}
      \/ /\ call[c].status = "sending"
         /\ call'[c].status = "outcome-unknown"
  BY <1>1, <1>3 DEF PollOK
<1>6. QED BY <1>2, <1>3, <1>4, <1>5 DEF SettledRow

\* A poll settles the row it read.
LEMMA SettleKeeps == ASSUME IInv, NEW w \in Workers, Settle(w) PROVE IInv'
<1> DEFINE c == worker[w].call
<1>1. c \in Changes /\ Made(c) /\ SettledRow(w, c) BY SettleEffect
<1>2. Typed /\ Rests(w) /\ UNCHANGED <<decision, deciding, live, secret, arrived>>
  BY DEF IInv, Settle
<1> HIDE DEF c
<1>3. /\ worker' \in [Workers -> WorkerState]
      /\ At(w, "idle")'
      /\ \A v \in Workers \ {w} : worker'[v] = worker[v]
  BY <1>2, RestsTyped
<1>4. /\ call' \in [Calls -> CallRow]
      /\ \A r \in Calls \ {c} : call'[r] = call[r]
      /\ call'[c].version = call[c].version /\ call'[c].age = call[c].age
      /\ call'[c].origin = call[c].origin /\ call'[c].status \in Final
  <2>1. call'[c].status \in Final BY <1>1 DEF SettledRow
  <2>2. call' \in [Calls -> CallRow]
    <3> DEFINE s == call'[c].status
    <3>1. s \in Final /\ call' = [call EXCEPT ![c].status = s]
      BY <1>1, <2>1 DEF SettledRow
    <3> HIDE DEF s
    <3>2. QED BY <1>1, <1>2, <3>1, StatusTyped
  <2>3. QED BY <1>1, <1>2, <2>1, <2>2 DEF SettledRow, Typed, CallRow
<1>5. Typed'
  <2>1. answers' \in [Calls -> SUBSET Final]
    BY <1>1, <1>2, <1>4 DEF Typed, SettledRow
  <2>2. QED BY <1>2, <1>3, <1>4, <2>1 DEF Typed
<1>6. Limited'
  <2>1. inFlight' \subseteq inFlight BY <1>4 DEF inFlight
  <2>2. \A o \in Origins : originCalls(o)' = originCalls(o)
    BY <1>1, <1>4 DEF originCalls
  <2>3. QED BY <2>1, <2>2, LimitsKept DEF IInv
<1>7. WInv'
  <2> SUFFICES ASSUME NEW v \in Workers
               PROVE  (CallOK(v) /\ PollOK(v) /\ SenderOK(v) /\ OneSender(v))'
    BY DEF WInv
  <2>1. \A u \in Workers : CallOK(u) /\ PollOK(u) /\ SenderOK(u) /\ OneSender(u)
    BY DEF IInv, WInv
  <2>2. CallOK(v)' BY <1>3, <1>4, <2>1 DEF CallOK
  <2>3. PollOK(v)'
    <3>1. CASE v = w BY <1>3, <3>1 DEF PollOK
    <3>2. CASE v # w
      <4>1. PollOK(v) /\ worker'[v] = worker[v] /\ CallOK(v) BY <1>3, <2>1, <3>2
      <4>2. CASE worker[v].call = c BY <1>1, <1>2, <1>4, <4>1, <4>2 DEF PollOK
      <4>3. CASE worker[v].call # c
        BY <1>2, <1>4, <4>1, <4>3 DEF PollOK, CallOK
      <4>4. QED BY <4>2, <4>3
    <3>3. QED BY <3>1, <3>2
  <2>4. SenderOK(v)'
    <3>1. CASE v = w BY <1>3, <3>1 DEF SenderOK, Senders
    <3>2. CASE v # w
      <4>1. SenderOK(v) /\ worker'[v] = worker[v] BY <1>3, <2>1, <3>2
      <4>2. CASE worker[v].call = c
        BY <1>1, <1>2, <1>4, <4>1, <4>2 DEF SenderOK, SettledRow
      <4>3. CASE worker[v].call # c BY <1>2, <1>4, <4>1, <4>3 DEF SenderOK
      <4>4. QED BY <4>2, <4>3
    <3>3. QED BY <3>1, <3>2
  <2>5. OneSender(v)' BY <1>3, <2>1 DEF OneSender, Sends, Senders
  <2>6. QED BY <2>2, <2>3, <2>4, <2>5
<1>8. RInv'
  <2> SUFFICES ASSUME NEW r \in Changes PROVE RowOK(r)' BY DEF RInv
  <2>1. RowOK(r) BY DEF IInv, RInv
  <2>2. ASSUME NEW u \in Workers, Sends(u, r)' PROVE Sends(u, r)
    BY <1>3, <2>2 DEF Sends, Senders
  <2>3. CASE r # c
    <3>1. answers'[r] = answers[r] /\ call'[r] = call[r]
      BY <1>1, <1>2, <1>4, <2>3 DEF Typed, SettledRow
    <3>2. QED BY <1>2, <2>1, <2>2, <3>1 DEF RowOK
  <2>4. CASE r = c
    <3>1. answers'[c] = answers[c] \cup {call'[c].status}
      BY <1>1, <1>2 DEF Typed, SettledRow
    <3>2. call[c].status \in Unsent \cup {"awaiting-approval"} =>
            \A u \in Workers : ~Sends(u, c)
      BY <1>1 DEF IInv, WInv, SenderOK, Sends, Senders
    <3>3. QED BY <1>1, <1>2, <1>4, <2>1, <2>2, <2>4, <3>1, <3>2 DEF RowOK, SettledRow
  <2>5. QED BY <2>3, <2>4
<1>9. QED BY <1>5, <1>6, <1>7, <1>8 DEF IInv

\* A poll claims a slot and the row.
LEMMA ClaimKeeps == ASSUME IInv, NEW w \in Workers, Claim(w) PROVE IInv'
<1> DEFINE c == worker[w].call
<1>1. /\ Typed /\ At(w, "slot") /\ SlotFree /\ CallOK(w) /\ PollOK(w)
      /\ UNCHANGED <<decision, deciding, live, secret, arrived, answers>>
      /\ \/ /\ Claimable(c) /\ Goes(w, "prepare")
            /\ call' = [call EXCEPT ![c].status = "sending", ![c].age = "fresh"]
         \/ UNCHANGED call /\ Goes(w, "look")
  BY DEF IInv, WInv, Claim
<1>2. c \in Changes /\ Made(c) /\ decision[c] = "approve"
  BY <1>1 DEF CallOK, PollOK
<1> HIDE DEF c
<1>3. \A u \in Workers : CallOK(u) /\ PollOK(u) /\ SenderOK(u) /\ OneSender(u)
  BY DEF IInv, WInv
<1>4. CASE UNCHANGED call /\ Goes(w, "look")
  <2>1. /\ worker' \in [Workers -> WorkerState]
        /\ At(w, "look")' /\ worker'[w].call = worker[w].call
        /\ \A v \in Workers \ {w} : worker'[v] = worker[v]
    BY <1>1, <1>4, GoesTyped
  <2>2. Typed' BY <1>1, <1>4, <2>1 DEF Typed
  <2>3. Limited' BY <1>4, LimitsSame DEF IInv
  <2>4. ASSUME NEW v \in Workers
        PROVE  (CallOK(v) /\ PollOK(v) /\ SenderOK(v) /\ OneSender(v))'
    <3>1. CallOK(v)' BY <1>1, <1>3, <1>4, <2>1 DEF CallOK
    <3>2. PollOK(v)' BY <1>1, <1>3, <1>4, <2>1 DEF PollOK
    <3>3. SenderOK(v)' BY <1>1, <1>3, <1>4, <2>1 DEF SenderOK, Senders
    <3>4. OneSender(v)' BY <1>3, <2>1 DEF OneSender, Sends, Senders
    <3>5. QED BY <3>1, <3>2, <3>3, <3>4
  <2>5. ASSUME NEW r \in Changes PROVE RowOK(r)'
    <3>1. ASSUME NEW u \in Workers, Sends(u, r)' PROVE Sends(u, r)
      BY <2>1, <3>1 DEF Sends, Senders
    <3>2. RowOK(r) BY DEF IInv, RInv
    <3>3. QED BY <1>1, <1>4, <3>1, <3>2 DEF RowOK
  <2>6. QED BY <2>2, <2>3, <2>4, <2>5 DEF IInv, WInv, RInv
<1>5. CASE /\ Claimable(c) /\ Goes(w, "prepare")
           /\ call' = [call EXCEPT ![c].status = "sending", ![c].age = "fresh"]
  <2>1. /\ worker' \in [Workers -> WorkerState]
        /\ At(w, "prepare")' /\ worker'[w].call = worker[w].call
        /\ \A v \in Workers \ {w} : worker'[v] = worker[v]
    BY <1>1, <1>5, GoesTyped
  <2>2. /\ call' \in [Calls -> CallRow]
        /\ call'[c].status = "sending" /\ call'[c].version = call[c].version
        /\ call'[c].origin = call[c].origin
        /\ \A r \in Calls \ {c} : call'[r] = call[r]
    <3>1. call \in [Calls -> CallRow] BY <1>1 DEF Typed
    <3>2. [call[c] EXCEPT !.status = "sending", !.age = "fresh"] \in CallRow
      BY <1>2, <3>1 DEF CallRow
    <3>3. QED BY <1>2, <1>5, <3>1, <3>2 DEF CallRow
  <2>3. call[c].status = "awaiting-approval" /\ call[c].age # "expired"
    BY <1>5 DEF Claimable
  <2>4. Typed' BY <1>1, <2>1, <2>2 DEF Typed
  <2>5. Limited'
    <3>1. inFlight' \subseteq inFlight \cup {c} BY <2>2 DEF inFlight
    <3>2. \A o \in Origins : originCalls(o)' = originCalls(o)
      BY <1>2, <2>2 DEF originCalls
    <3>3. Cardinality(inFlight') <= SlotLimit BY <1>1, <3>1, SlotTaken DEF IInv
    <3>4. QED BY <3>2, <3>3 DEF IInv, Limited
  <2>6. \A u \in Workers : ~Sends(u, c)
    BY <1>2, <1>3, <2>3 DEF SenderOK, Sends
  <2>7. RowOK(c) BY <1>2 DEF IInv, RInv
  <2>8. c = worker[w].call BY DEF c
  <2>9. ASSUME NEW v \in Workers
        PROVE  (CallOK(v) /\ PollOK(v) /\ SenderOK(v) /\ OneSender(v))'
    <3>1. CallOK(v)' BY <1>2, <1>3, <2>1, <2>2, <2>8 DEF CallOK
    <3>2. PollOK(v)'
      <4>1. CASE v = w BY <2>1, <4>1 DEF PollOK
      <4>2. CASE v # w /\ worker[v].call = c
        BY <1>1, <1>2, <1>3, <2>1, <2>3, <4>2 DEF PollOK
      <4>3. CASE v # w /\ worker[v].call # c
        BY <1>1, <1>3, <2>1, <2>2, <4>3 DEF PollOK, CallOK
      <4>4. QED BY <4>1, <4>2, <4>3
    <3>3. SenderOK(v)'
      <4>1. CASE v = w
        BY <1>1, <1>2, <2>1, <2>2, <2>3, <2>7, <2>8, <4>1 DEF SenderOK, RowOK
      <4>2. CASE v # w /\ worker[v].call = c
        BY <2>1, <2>6, <4>2 DEF SenderOK, Sends
      <4>3. CASE v # w /\ worker[v].call # c
        BY <1>1, <1>3, <2>1, <2>2, <4>3 DEF SenderOK
      <4>4. QED BY <4>1, <4>2, <4>3
    <3>4. OneSender(v)'
      <4> SUFFICES ASSUME NEW u \in Workers, NEW r \in Changes, Sends(v, r)', Sends(u, r)'
                   PROVE  u = v
        BY DEF OneSender
      <4>1. CASE r = c BY <2>1, <2>6, <4>1 DEF Sends
      <4>2. CASE r # c BY <1>3, <2>1, <2>8, <4>2 DEF OneSender, Sends
      <4>3. QED BY <4>1, <4>2
    <3>5. QED BY <3>1, <3>2, <3>3, <3>4
  <2>10. ASSUME NEW r \in Changes PROVE RowOK(r)'
    <3>1. CASE r = c
      BY <1>1, <2>2, <2>3, <2>7, <3>1 DEF RowOK
    <3>2. CASE r # c
      <4>1. ASSUME NEW u \in Workers, Sends(u, r)' PROVE Sends(u, r)
        BY <2>1, <2>8, <3>2, <4>1 DEF Sends
      <4>2. RowOK(r) BY DEF IInv, RInv
      <4>3. QED BY <1>1, <2>2, <3>2, <4>1, <4>2 DEF RowOK
    <3>3. QED BY <3>1, <3>2
  <2>11. QED BY <2>4, <2>5, <2>9, <2>10 DEF IInv, WInv, RInv
<1>6. QED BY <1>1, <1>4, <1>5

\* The secrets are resolved again: the request is the approved one, or ends.
LEMMA PrepareKeeps == ASSUME IInv, NEW w \in Workers, Prepare(w) PROVE IInv'
<1> DEFINE c == worker[w].call
<1>1. /\ Typed /\ At(w, "prepare") /\ CallOK(w) /\ SenderOK(w)
      /\ UNCHANGED <<call, decision, deciding, live, secret, arrived, answers>>
  BY DEF IInv, WInv, Prepare
<1>2. c \in Changes BY <1>1 DEF CallOK
<1>3. /\ worker' \in [Workers -> WorkerState]
      /\ worker'[w].call = worker[w].call
      /\ \A v \in Workers \ {w} : worker'[v] = worker[v]
      /\ \/ At(w, "send")' /\ worker'[w].version = call[c].version
         \/ At(w, "finish")' /\ worker'[w].outcome \in {"failed", "conflict"}
  <2>1. CASE Ends(w, "conflict") BY <1>1, <2>1, EndsTyped
  <2>2. CASE Ends(w, "failed") BY <1>1, <2>2, EndsTyped
  <2>3. CASE /\ Approved(c)
             /\ worker' = [worker EXCEPT ![w].stage = "send", ![w].version = secret]
    <3>1. worker \in [Workers -> WorkerState] /\ secret \in Nat BY <1>1 DEF Typed
    <3>2. [worker[w] EXCEPT !.stage = "send", !.version = secret] \in WorkerState
      BY <3>1 DEF WorkerState
    <3>3. QED BY <2>3, <3>1, <3>2 DEF WorkerState, Approved
  <2>4. QED BY <2>1, <2>2, <2>3 DEF Prepare
<1>4. c = worker[w].call OBVIOUS
<1> HIDE DEF c
<1>5. Typed' BY <1>1, <1>3 DEF Typed
<1>6. Limited' BY <1>1, LimitsSame DEF IInv
<1>7. ASSUME NEW v \in Workers
      PROVE  (CallOK(v) /\ PollOK(v) /\ SenderOK(v) /\ OneSender(v))'
  <2>1. \A u \in Workers : CallOK(u) /\ PollOK(u) /\ SenderOK(u) /\ OneSender(u)
    BY DEF IInv, WInv
  <2>2. CallOK(v)' BY <1>1, <1>3, <2>1 DEF CallOK
  <2>3. PollOK(v)' BY <1>1, <1>3, <2>1 DEF PollOK
  <2>4. SenderOK(v)'
    <3>1. CASE v = w BY <1>1, <1>2, <1>3, <1>4, <3>1 DEF SenderOK, Senders
    <3>2. CASE v # w BY <1>1, <1>3, <2>1, <3>2 DEF SenderOK
    <3>3. QED BY <3>1, <3>2
  <2>5. ASSUME NEW u \in Workers, NEW r \in Changes, Sends(u, r)' PROVE Sends(u, r)
    BY <1>1, <1>3, <2>5 DEF Sends, Senders
  <2>6. OneSender(v)' BY <2>1, <2>5 DEF OneSender
  <2>7. QED BY <2>2, <2>3, <2>4, <2>6
<1>8. ASSUME NEW r \in Changes PROVE RowOK(r)'
  <2>1. ASSUME NEW u \in Workers, Sends(u, r)' PROVE Sends(u, r)
    BY <1>1, <1>3, <2>1 DEF Sends, Senders
  <2>2. RowOK(r) BY DEF IInv, RInv
  <2>3. QED BY <1>1, <2>1, <2>2 DEF RowOK
<1>9. QED BY <1>5, <1>6, <1>7, <1>8 DEF IInv, WInv, RInv

\* The sender records its outcome, unless the row was given up or the database
\* fails; it answers in any case.
LEMMA FinishKeeps == ASSUME IInv, NEW w \in Workers, Finish(w) PROVE IInv'
<1> DEFINE c == worker[w].call
           o == worker[w].outcome
<1>1. /\ Typed /\ At(w, "finish") /\ CallOK(w) /\ SenderOK(w) /\ Answers(c, o) /\ Rests(w)
      /\ UNCHANGED <<decision, deciding, live, secret, arrived>>
      /\ call' = [call EXCEPT ![c].status = IF @ = "sending" THEN o ELSE @]
           \/ UNCHANGED call
  BY DEF IInv, WInv, Finish
<1>2. c \in Calls /\ Made(c) /\ o \in Final BY <1>1 DEF CallOK
<1>3. c \in Changes =>
        /\ call[c].status \in {"sending", "outcome-unknown"}
        /\ decision[c] = "approve"
        /\ \/ o \in {"failed", "conflict"} /\ arrived[c].times = 0
           \/ o = "sent" /\ arrived[c].times = 1
           \/ o = "outcome-unknown"
  BY <1>1 DEF SenderOK, Senders
<1>4. c = worker[w].call /\ o = worker[w].outcome OBVIOUS
<1> HIDE DEF c, o
<1>5. /\ worker' \in [Workers -> WorkerState]
      /\ At(w, "idle")'
      /\ \A v \in Workers \ {w} : worker'[v] = worker[v]
  BY <1>1, RestsTyped
<1>6. /\ call' \in [Calls -> CallRow]
      /\ \A r \in Calls \ {c} : call'[r] = call[r]
      /\ call'[c].version = call[c].version /\ call'[c].age = call[c].age
      /\ call'[c].origin = call[c].origin
      /\ \/ call'[c].status = call[c].status
         \/ call[c].status = "sending" /\ call'[c].status = o
  <2>1. call \in [Calls -> CallRow] BY <1>1 DEF Typed
  <2>2. CASE UNCHANGED call BY <2>1, <2>2
  <2>3. CASE call' = [call EXCEPT ![c].status = IF @ = "sending" THEN o ELSE @]
    <3> DEFINE s == IF call[c].status = "sending" THEN o ELSE call[c].status
    <3>1. s \in Final \cup {"none", "awaiting-approval", "sending"}
      BY <1>2, <2>1 DEF CallRow
    <3>2. call' = [call EXCEPT ![c].status = s] BY <1>2, <2>1, <2>3
    <3> HIDE DEF s
    <3>3. call' \in [Calls -> CallRow] BY <1>1, <1>2, <3>1, <3>2, StatusTyped
    <3>4. /\ \A r \in Calls \ {c} : call'[r] = call[r]
          /\ call'[c].status = s
          /\ call'[c].version = call[c].version /\ call'[c].age = call[c].age
          /\ call'[c].origin = call[c].origin
      BY <1>2, <2>1, <3>2 DEF CallRow
    <3>5. QED BY <3>3, <3>4 DEF s
  <2>4. QED BY <1>1, <2>2, <2>3
<1>7. /\ answers' \in [Calls -> SUBSET Final]
      /\ \A r \in Changes : answers'[r] = IF r = c THEN answers[r] \cup {o} ELSE answers[r]
  BY <1>1, <1>2 DEF Typed, Answers
<1>8. Typed' BY <1>1, <1>5, <1>6, <1>7 DEF Typed
<1>9. Limited'
  <2>1. inFlight' \subseteq inFlight BY <1>2, <1>6 DEF inFlight
  <2>2. \A p \in Origins : originCalls(p)' = originCalls(p)
    BY <1>2, <1>6 DEF originCalls
  <2>3. QED BY <2>1, <2>2, LimitsKept DEF IInv
<1>10. \A u \in Workers : CallOK(u) /\ PollOK(u) /\ SenderOK(u) /\ OneSender(u)
  BY DEF IInv, WInv
<1>11. \A u \in Workers \ {w} : c \in Changes => ~Sends(u, c)
  BY <1>1, <1>4, <1>10 DEF OneSender, Sends, Senders
<1>12. ASSUME NEW v \in Workers
       PROVE  (CallOK(v) /\ PollOK(v) /\ SenderOK(v) /\ OneSender(v))'
  <2>1. CASE v = w BY <1>5, <2>1 DEF CallOK, PollOK, SenderOK, OneSender, Sends, Senders
  <2>2. CASE v # w
    <3>1. /\ CallOK(v) /\ PollOK(v) /\ SenderOK(v) /\ OneSender(v)
          /\ worker'[v] = worker[v]
      BY <1>5, <1>10, <2>2
    <3>2. CallOK(v)' BY <1>2, <1>6, <3>1 DEF CallOK
    <3>3. PollOK(v)'
      <4>1. CASE worker[v].call = c BY <1>1, <1>2, <1>6, <3>1, <4>1 DEF PollOK
      <4>2. CASE worker[v].call # c BY <1>1, <1>6, <3>1, <4>2 DEF PollOK, CallOK
      <4>3. QED BY <4>1, <4>2
    <3>4. SenderOK(v)'
      <4>1. CASE worker[v].call = c BY <1>11, <2>2, <3>1, <4>1 DEF SenderOK, Sends
      <4>2. CASE worker[v].call # c BY <1>1, <1>6, <3>1, <4>2 DEF SenderOK
      <4>3. QED BY <4>1, <4>2
    <3>5. OneSender(v)' BY <1>5, <3>1 DEF OneSender, Sends, Senders
    <3>6. QED BY <3>2, <3>3, <3>4, <3>5
  <2>3. QED BY <2>1, <2>2
<1>13. ASSUME NEW r \in Changes PROVE RowOK(r)'
  <2>1. RowOK(r) BY DEF IInv, RInv
  <2>2. ASSUME NEW u \in Workers, Sends(u, r)' PROVE u # w /\ Sends(u, r)
    BY <1>5, <2>2 DEF Sends, Senders
  <2>3. CASE r # c BY <1>1, <1>6, <1>7, <2>1, <2>2, <2>3 DEF RowOK
  <2>4. CASE r = c
    <3>1. \A u \in Workers : ~Sends(u, r)' BY <1>11, <2>2, <2>4
    <3>2. QED BY <1>1, <1>2, <1>3, <1>6, <1>7, <2>1, <2>4, <3>1 DEF RowOK
  <2>5. QED BY <2>3, <2>4
<1>14. QED BY <1>8, <1>9, <1>12, <1>13 DEF IInv, WInv, RInv

-----------------------------------------------------------------------------
\* The theorems

LEMMA InitOK == ASSUME Init PROVE IInv
<1> USE DEF Init
<1>1. Typed
  <2>1. (CHOOSE o \in Origins : TRUE) \in Origins BY OriginsAssumption
  <2>2. [status |-> "none", origin |-> CHOOSE o \in Origins : TRUE, version |-> 0,
         age |-> "fresh"] \in CallRow
    BY <2>1 DEF CallRow
  <2>3. Idle \in WorkerState BY DEF Idle, WorkerState
  <2>4. QED BY <2>2, <2>3 DEF Typed
<1>2. Limited
  <2>1. inFlight = {} /\ \A o \in Origins : originCalls(o) = {}
    BY DEF inFlight, originCalls
  <2>2. QED BY <2>1, FS_EmptySet, LimitsAssumption DEF Limited
<1>3. WInv BY DEF Idle, WInv, CallOK, PollOK, SenderOK, OneSender, Sends, Senders
<1>4. RInv BY DEF Idle, RInv, RowOK
<1>5. QED BY <1>1, <1>2, <1>3, <1>4 DEF IInv

LEMMA NextKeeps == ASSUME IInv, [Next]_vars PROVE IInv'
<1>1. CASE UNCHANGED vars
  BY <1>1 DEF vars, IInv, Typed, Limited, inFlight, originCalls, WInv, CallOK, PollOK,
              SenderOK, OneSender, Sends, Senders, RInv, RowOK
<1>2. CASE Next
  BY <1>2, ProposeKeeps, StartReadKeeps, OriginEndsKeeps, SecretChangesKeeps, ExpiresKeeps,
     DeadlinePassesKeeps, DecideKeeps, RecordKeeps, PollKeeps, LookKeeps, SettleKeeps,
     ClaimKeeps, NoSlotKeeps, PrepareKeeps, ReachesKeeps, NotSentKeeps, AnsweredKeeps,
     NoAnswerKeeps, FinishKeeps, CrashKeeps
  DEF Next, Works
<1>3. QED BY <1>1, <1>2

LEMMA Inductive == Spec => []IInv
  BY InitOK, NextKeeps, PTL DEF Spec

\* The types of the rows, polls, arrivals and answers, and the two limits: no
\* more calls in flight than the workspace has slots, no more of an origin than
\* a turn or run may make (claimSlot and proposeApiCall).
THEOREM CallsTypeOK == Spec => []TypeOK
<1>1. IInv => TypeOK BY DEF IInv, TypeOK
<1>2. QED BY <1>1, Inductive, PTL

\* What reached the service had its member's approval, and bore the secret the
\* approval was for (send and resolve of api-call-sender.ts).
THEOREM ApprovedOnly == Spec => []SentAsApproved
<1>1. IInv => SentAsApproved
  <2> SUFFICES ASSUME IInv, NEW c \in Calls, Change(c), arrived[c].times > 0
               PROVE  decision[c] = "approve" /\ arrived[c].version = call[c].version
    BY DEF SentAsApproved
  <2>1. RowOK(c) BY DEF IInv, RInv
  <2>2. QED BY <2>1 DEF RowOK
<1>2. QED BY <1>1, Inductive, PTL

\* An answer that a change was not sent, or was, is true when it is given and
\* stays true, whichever poll gives it.
THEOREM AnswersStayTrue == Spec => []AnswersTrue
<1>1. IInv => AnswersTrue
  <2> SUFFICES ASSUME IInv, NEW c \in Calls, Change(c)
               PROVE  /\ answers[c] \cap Unsent # {} => arrived[c].times = 0
                      /\ "sent" \in answers[c] => arrived[c].times = 1
    BY DEF AnswersTrue
  <2>1. RowOK(c) BY DEF IInv, RInv
  <2>2. QED BY <2>1 DEF RowOK
<1>2. QED BY <1>1, Inductive, PTL
-----------------------------------------------------------------------------
\* The step simulation of OnceCall

ReportFor(c) ==
  IF c \in Reads \/ call[c].status = "none" THEN "unmade"
  ELSE IF call[c].status \in {"awaiting-approval", "sending"} THEN "open"
  ELSE IF call[c].status \in Unsent THEN "nothing"
  ELSE IF call[c].status = "outcome-unknown" THEN "unknown" ELSE "sent"

LEMMA ReportIs ==
  Report = [c \in Calls |-> ReportFor(c)] /\ Report' = [c \in Calls |-> ReportFor(c)']
<1>1. ASSUME NEW c \in Calls PROVE Report[c] = ReportFor(c) /\ Report'[c] = ReportFor(c)'
  BY DEF Report, ReportFor
<1>2. QED BY <1>1 DEF Report

LEMMA ReachedIs ==
  ASSUME IInv, NEW c \in Calls
  PROVE  Reached[c] = IF c \in Changes THEN arrived[c].times ELSE 0
<1>1. c \in Changes => RowOK(c) BY DEF IInv, RInv
<1>2. QED BY <1>1 DEF Reached, RowOK

LEMMA ReachedNext ==
  ASSUME IInv', NEW c \in Calls
  PROVE  Reached'[c] = IF c \in Changes THEN arrived'[c].times ELSE 0
<1>1. c \in Changes => RowOK(c)' BY DEF IInv, RInv
<1>2. QED BY <1>1 DEF Reached, RowOK

\* A step that reports no change and reaches no service stutters.
LEMMA Stutters ==
  ASSUME IInv, IInv',
         \A c \in Changes : ReportFor(c)' = ReportFor(c) /\ arrived'[c].times = arrived[c].times
  PROVE  UNCHANGED <<Report, Reached>>
<1>1. Report' = [c \in Calls |-> ReportFor(c)'] BY ReportIs
<1>2. \A c \in Calls : ReportFor(c)' = ReportFor(c) BY DEF ReportFor
<1>3. UNCHANGED Report BY <1>1, <1>2, ReportIs
<1>4. \A c \in Calls : Reached'[c] = Reached[c] BY ReachedIs, ReachedNext
<1>5. QED BY <1>3, <1>4 DEF Reached

\* A step that ends a change reports it.
LEMMA Reports ==
  ASSUME IInv, IInv', NEW c \in Changes, UNCHANGED arrived,
         call[c].status \in {"awaiting-approval", "sending"}, call'[c].status \in Final,
         \A r \in Calls \ {c} : call'[r] = call[r]
  PROVE  Promise!Next
<1> DEFINE r == ReportFor(c)'
<1>1. Report' = [a \in Calls |-> ReportFor(a)'] BY ReportIs
<1>2. \A a \in Calls \ {c} : ReportFor(a)' = ReportFor(a) BY DEF ReportFor
<1>3. /\ Report[c] = "open" /\ r \in {"sent", "nothing", "unknown"}
      /\ r = "sent" => call'[c].status = "sent"
      /\ r = "nothing" => call'[c].status \in Unsent
  BY ReportIs DEF ReportFor
<1>4. RowOK(c)' BY DEF IInv, RInv
<1>5. Reached' = Reached
  <2>1. \A a \in Calls : Reached'[a] = Reached[a] BY ReachedIs, ReachedNext
  <2>2. QED BY <2>1 DEF Reached
<1>6. (r = "sent" => Reached[c] = 1) /\ (r = "nothing" => Reached[c] = 0)
  BY <1>3, <1>4, ReachedIs, ReachedNext DEF RowOK
<1>7. r = ReportFor(c)' OBVIOUS
<1> HIDE DEF r
<1>8. Report' = [Report EXCEPT ![c] = r] BY <1>1, <1>2, <1>7, ReportIs
<1>9. Promise!Report(c, r) BY <1>3, <1>5, <1>6, <1>8 DEF Promise!Report
<1>10. QED BY <1>3, <1>9 DEF Promise!Next

LEMMA ProposeMakes ==
  ASSUME IInv, IInv', NEW c \in Calls, NEW o \in Origins, proposeApiCall(c, o)
  PROVE  Promise!Next
<1>1. call \in [Calls -> CallRow] /\ c \in Changes BY DEF IInv, Typed, proposeApiCall
<1>2. /\ call'[c].status = "awaiting-approval" /\ call[c].status = "none"
      /\ \A r \in Calls \ {c} : call'[r] = call[r]
      /\ UNCHANGED arrived
  BY <1>1 DEF proposeApiCall, CallRow
<1>3. Report' = [a \in Calls |-> ReportFor(a)'] BY ReportIs
<1>4. \A a \in Calls \ {c} : ReportFor(a)' = ReportFor(a) BY <1>2 DEF ReportFor
<1>5. Report[c] = "unmade" /\ ReportFor(c)' = "open" BY <1>1, <1>2, ReportIs DEF ReportFor
<1>6. Report' = [Report EXCEPT ![c] = "open"] BY <1>3, <1>4, <1>5, ReportIs
<1>7. Reached' = Reached
  <2>1. \A a \in Calls : Reached'[a] = Reached[a] BY <1>2, ReachedIs, ReachedNext
  <2>2. QED BY <2>1 DEF Reached
<1>8. QED BY <1>5, <1>6, <1>7 DEF Promise!Next, Promise!Make

LEMMA ReachesReaches ==
  ASSUME IInv, IInv', NEW w \in Workers, Reaches(w)
  PROVE  Promise!Next \/ UNCHANGED <<Report, Reached>>
<1> DEFINE c == worker[w].call
<1>1. CallOK(w) /\ SenderOK(w) /\ At(w, "send") /\ UNCHANGED call
  BY DEF IInv, WInv, Reaches
<1>2. c \in Calls BY <1>1 DEF CallOK
<1>3. CASE c \in Reads
  <2>1. UNCHANGED arrived BY <1>3 DEF Reaches
  <2>2. \A a \in Changes : ReportFor(a)' = ReportFor(a) BY <1>1 DEF ReportFor
  <2>3. QED BY <2>1, <2>2, Stutters
<1>4. CASE c \in Changes
  <2>1. arrived[c].times = 0 /\ call[c].status \in {"sending", "outcome-unknown"}
    BY <1>1, <1>4 DEF SenderOK, Senders
  <2>2. arrived'[c].times = 1 /\ \A a \in Calls \ {c} : arrived'[a] = arrived[a]
    <3>1. arrived \in [Calls -> [times : Nat, version : Nat]] BY DEF IInv, Typed
    <3>2. QED BY <1>4, <2>1, <3>1 DEF Reaches
  <2>3. Report' = Report
    <3>1. \A a \in Calls : ReportFor(a)' = ReportFor(a) BY <1>1 DEF ReportFor
    <3>2. Report' = [a \in Calls |-> ReportFor(a)'] BY ReportIs
    <3>3. QED BY <3>1, <3>2, ReportIs
  <2>4. Report[c] \in {"open", "unknown"} BY <1>4, <2>1, ReportIs DEF ReportFor
  <2>5. Reached[c] = 0 /\ Reached' = [Reached EXCEPT ![c] = 1]
    <3>1. Reached[c] = 0 /\ Reached'[c] = 1 BY <1>4, <2>1, <2>2, ReachedIs, ReachedNext
    <3>2. \A a \in Calls \ {c} : Reached'[a] = Reached[a] BY <2>2, ReachedIs, ReachedNext
    <3>3. QED BY <3>1, <3>2 DEF Reached
  <2>6. Promise!Reach(c) BY <2>3, <2>4, <2>5 DEF Promise!Reach
  <2>7. QED BY <1>4, <2>6 DEF Promise!Next
<1>5. QED BY <1>2, <1>3, <1>4

LEMMA SettleReports ==
  ASSUME IInv, IInv', NEW w \in Workers, Settle(w)
  PROVE  Promise!Next \/ UNCHANGED <<Report, Reached>>
<1> DEFINE c == worker[w].call
<1>1. c \in Changes /\ SettledRow(w, c) BY SettleEffect
<1>2. UNCHANGED arrived /\ call \in [Calls -> CallRow] BY DEF Settle, IInv, Typed
<1> HIDE DEF c
<1>3. \A r \in Calls \ {c} : call'[r] = call[r] BY <1>1, <1>2 DEF SettledRow
<1>4. CASE call[c].status \in Final /\ call'[c].status = call[c].status
  <2>1. \A a \in Changes : ReportFor(a)' = ReportFor(a) BY <1>3, <1>4 DEF ReportFor
  <2>2. QED BY <1>2, <2>1, Stutters
<1>5. CASE /\ call[c].status \in {"awaiting-approval", "sending"}
           /\ call'[c].status \in Final
  BY <1>1, <1>2, <1>3, <1>5, Reports
<1>6. QED BY <1>1, <1>4, <1>5 DEF SettledRow

LEMMA FinishReports ==
  ASSUME IInv, IInv', NEW w \in Workers, Finish(w)
  PROVE  Promise!Next \/ UNCHANGED <<Report, Reached>>
<1> DEFINE c == worker[w].call
           o == worker[w].outcome
<1>1. CallOK(w) /\ At(w, "finish") /\ UNCHANGED arrived /\ call \in [Calls -> CallRow]
  BY DEF IInv, Typed, WInv, Finish
<1>2. c \in Calls /\ o \in Final BY <1>1 DEF CallOK
<1>3. UNCHANGED call \/ call' = [call EXCEPT ![c].status = IF @ = "sending" THEN o ELSE @]
  BY DEF Finish
<1> HIDE DEF c, o
<1>4. /\ \A r \in Calls \ {c} : call'[r] = call[r]
      /\ \/ call'[c].status = call[c].status
         \/ call[c].status = "sending" /\ call'[c].status = o
  BY <1>1, <1>2, <1>3 DEF CallRow
<1>5. CASE c \in Reads \/ call'[c].status = call[c].status
  <2>1. \A a \in Changes : ReportFor(a)' = ReportFor(a) BY <1>4, <1>5 DEF ReportFor
  <2>2. QED BY <1>1, <2>1, Stutters
<1>6. CASE c \in Changes /\ call[c].status = "sending" /\ call'[c].status = o
  BY <1>1, <1>2, <1>4, <1>6, Reports
<1>7. QED BY <1>2, <1>4, <1>5, <1>6

\* A claim, and whatever changes no status of a change, reports nothing.
LEMMA ClaimStutters ==
  ASSUME IInv, IInv', NEW w \in Workers, Claim(w)
  PROVE  UNCHANGED <<Report, Reached>>
<1> DEFINE c == worker[w].call
<1>1. CallOK(w) /\ At(w, "slot") /\ UNCHANGED arrived /\ call \in [Calls -> CallRow]
  BY DEF IInv, Typed, WInv, Claim
<1>2. c \in Changes BY <1>1 DEF CallOK
<1>3. \/ UNCHANGED call
      \/ /\ call[c].status = "awaiting-approval"
         /\ call' = [call EXCEPT ![c].status = "sending", ![c].age = "fresh"]
  BY DEF Claim, Claimable
<1> HIDE DEF c
<1>4. \A a \in Changes :
        \/ call'[a].status = call[a].status
        \/ call[a].status = "awaiting-approval" /\ call'[a].status = "sending"
  BY <1>1, <1>2, <1>3 DEF CallRow
<1>5. \A a \in Changes : ReportFor(a)' = ReportFor(a) BY <1>4 DEF ReportFor
<1>6. QED BY <1>1, <1>5, Stutters

LEMMA SilentStutters ==
  ASSUME IInv, IInv', UNCHANGED arrived,
         \A c \in Changes : call'[c].status = call[c].status
  PROVE  UNCHANGED <<Report, Reached>>
<1>1. \A a \in Changes : ReportFor(a)' = ReportFor(a) BY DEF ReportFor
<1>2. QED BY <1>1, Stutters

LEMMA StepPromised ==
  ASSUME IInv, IInv', [Next]_vars
  PROVE  Promise!Next \/ UNCHANGED <<Report, Reached>>
<1>1. CASE UNCHANGED vars BY <1>1, SilentStutters DEF vars
<1>2. CASE Next
  <2>1. ASSUME NEW c \in Calls, Expires(c) \/ DeadlinePasses(c)
        PROVE  UNCHANGED <<Report, Reached>>
    <3>1. UNCHANGED arrived /\ call \in [Calls -> CallRow]
      BY <2>1 DEF Expires, DeadlinePasses, IInv, Typed
    <3>2. \A r \in Changes : call'[r].status = call[r].status
      BY <2>1, <3>1 DEF Expires, DeadlinePasses, CallRow
    <3>3. QED BY <3>1, <3>2, SilentStutters
  <2>2. ASSUME NEW w \in Workers, NEW c \in Calls, NEW o \in Origins, StartRead(w, c, o)
        PROVE  UNCHANGED <<Report, Reached>>
    <3>1. UNCHANGED arrived /\ call \in [Calls -> CallRow] /\ c \in Reads
      BY <2>2 DEF StartRead, IInv, Typed
    <3>2. \A r \in Changes : call'[r] = call[r] BY <2>2, <3>1 DEF StartRead
    <3>3. QED BY <3>1, <3>2, SilentStutters
  <2>3. ASSUME UNCHANGED <<call, arrived>> PROVE UNCHANGED <<Report, Reached>>
    BY <2>3, SilentStutters
  <2>4. CASE \E c \in Calls, o \in Origins : proposeApiCall(c, o) BY <2>4, ProposeMakes
  <2>5. CASE \E c \in Calls : Expires(c) \/ DeadlinePasses(c) BY <2>1, <2>5
  <2>6. CASE \E c \in Calls, d \in Decisions : decideApiCall(c, d) \/ RecordDecision(c, d)
    BY <2>3, <2>6 DEF decideApiCall, RecordDecision
  <2>7. CASE SecretChanges \/ \E o \in Origins : OriginEnds(o)
    BY <2>3, <2>7 DEF SecretChanges, OriginEnds
  <2>8. CASE \E w \in Workers, c \in Calls, o \in Origins : StartRead(w, c, o)
    BY <2>2, <2>8
  <2>9. CASE \E w \in Workers : (\E c \in Calls : Poll(w, c)) \/ Crash(w)
    BY <2>3, <2>9 DEF Poll, Crash
  <2>10. CASE \E w \in Workers : Works(w)
    <3>1. PICK w \in Workers : Works(w) BY <2>10
    <3>2. CASE Settle(w) BY <3>2, SettleReports
    <3>3. CASE Finish(w) BY <3>3, FinishReports
    <3>4. CASE Reaches(w) BY <3>4, ReachesReaches
    <3>5. CASE Claim(w) BY <3>5, ClaimStutters
    <3>6. CASE \/ Look(w) \/ NoSlot(w) \/ Prepare(w) \/ NotSent(w) \/ Answered(w)
               \/ NoAnswer(w)
      BY <2>3, <3>6 DEF Look, NoSlot, Prepare, NotSent, Answered, NoAnswer
    <3>7. QED BY <3>1, <3>2, <3>3, <3>4, <3>5, <3>6 DEF Works
  <2>11. QED BY <1>2, <2>4, <2>5, <2>6, <2>7, <2>8, <2>9, <2>10 DEF Next
<1>3. QED BY <1>1, <1>2

\* Every behaviour of the calls is one of OnceCall: a change reaches its service
\* at most once, and its report is true and final.
THEOREM PromiseHolds == Spec => PromiseKept
<1>1. Init => Promise!Init
  <2> SUFFICES ASSUME Init PROVE Promise!Init OBVIOUS
  <2>1. IInv BY InitOK
  <2>2. \A c \in Calls : ReportFor(c) = "unmade" /\ Reached[c] = 0
    BY <2>1, ReachedIs DEF Init, ReportFor
  <2>3. QED BY <2>2, ReportIs DEF Promise!Init, Reached
<1>2. IInv /\ IInv' /\ [Next]_vars => [Promise!Next]_Promise!vars
  BY StepPromised DEF Promise!vars
<1>3. QED BY <1>1, <1>2, Inductive, PTL DEF Spec, PromiseKept, Promise!Spec
=============================================================================
