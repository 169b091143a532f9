------------------------------ MODULE OnceCall ------------------------------
(***************************************************************************)
(* What a member is promised of each change an agent asks an outside       *)
(* service for: it reaches the service at most once; a call reported as    *)
(* sent has reached it, a call reported as not sent has not and never      *)
(* will; only a call of unknown outcome may still arrive after its report. *)
(* ApiCalls implements it.                                                 *)
(***************************************************************************)
EXTENDS Naturals

CONSTANT Calls

VARIABLES
  report,   \* what is reported of a call
  reached   \* how often it reached the service

vars == <<report, reached>>

Init ==
  /\ report = [c \in Calls |-> "unmade"]
  /\ reached = [c \in Calls |-> 0]

Make(c) ==
  /\ report[c] = "unmade"
  /\ report' = [report EXCEPT ![c] = "open"]
  /\ UNCHANGED reached

Reach(c) ==
  /\ report[c] \in {"open", "unknown"}
  /\ reached[c] = 0
  /\ reached' = [reached EXCEPT ![c] = 1]
  /\ UNCHANGED report

Report(c, r) ==
  /\ report[c] = "open"
  /\ r = "sent" => reached[c] = 1
  /\ r = "nothing" => reached[c] = 0
  /\ report' = [report EXCEPT ![c] = r]
  /\ UNCHANGED reached

Next ==
  \E c \in Calls :
    Make(c) \/ Reach(c) \/ \E r \in {"sent", "nothing", "unknown"} : Report(c, r)

Spec == Init /\ [][Next]_vars
=============================================================================
