---------------------------- MODULE TaskPromise ----------------------------
(***************************************************************************)
(* What the task runtime promises the owner of a task, whatever workers,   *)
(* leases and retries do: at most one call to the model is open at a time, *)
(* and only an open call publishes, only into a task that is pending. A    *)
(* task that the owner paused, or that stopped for another reason, becomes *)
(* pending again only when no call is open, so a call never publishes into *)
(* a task that was interrupted since it was made. What a task's tools      *)
(* report moves it between pending and waiting-approval at any time.       *)
(* TaskRuntime implements this specification.                              *)
(***************************************************************************)
EXTENDS Naturals

VARIABLES
    status,     \* the task's status
    generation, \* how often it was reopened
    open        \* whether a call may still publish

pvars == <<status, generation, open>>

Active == {"pending", "waiting-approval"}
Stopped == {"paused", "failed"}
Statuses == Active \cup {"waiting-clarification", "completed"} \cup Stopped

PInit == status = "pending" /\ generation = 0 /\ open = FALSE

Call ==
    /\ status \in Active
    /\ ~open
    /\ open' = TRUE
    /\ UNCHANGED <<status, generation>>

Publish ==
    /\ open
    /\ status = "pending"
    /\ open' = FALSE
    /\ status' \in Statuses \ Stopped
    /\ UNCHANGED generation

\* A call ends without publishing, and may stop the task.
Drop ==
    /\ open
    /\ open' = FALSE
    /\ status' \in {status} \cup Stopped
    /\ UNCHANGED generation

\* The owner or a limit stops the task; an open call goes on.
Stop ==
    /\ status # "completed"
    /\ status' \in Stopped
    /\ UNCHANGED <<generation, open>>

\* A call of a tool waits for an approval, or ended, or a batch was carried out.
Report ==
    /\ status \in Active
    /\ status' \in Active
    /\ UNCHANGED <<generation, open>>

\* The owner continues a stopped task or answers it.
Resume ==
    /\ status \in Stopped \cup {"waiting-clarification"}
    /\ ~open
    /\ status' = "pending"
    /\ UNCHANGED <<generation, open>>

Reopen ==
    /\ status = "completed"
    /\ ~open
    /\ status' = "pending"
    /\ generation' = generation + 1
    /\ UNCHANGED open

PNext == Call \/ Publish \/ Drop \/ Stop \/ Report \/ Resume \/ Reopen

PSpec == PInit /\ [][PNext]_pvars
=============================================================================
