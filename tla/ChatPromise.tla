---------------------------- MODULE ChatPromise ----------------------------
(***************************************************************************)
(* What a private chat promises its reader: each message a person sends is *)
(* answered once or ends without an answer, an ended turn never changes,   *)
(* and an answer appears only when every earlier message has ended.        *)
(* ConversationTurns implements it.                                        *)
(***************************************************************************)
EXTENDS Naturals

\* The messages, numbered in the order of their positions.
CONSTANT Turns

\* The status a reader sees of each message of the chat.
VARIABLE seen

Ends == {"answered", "stopped"}

Init == seen = [t \in Turns |-> "unsent"]

\* A message takes its place after the messages already sent.
Ask(t) ==
  /\ seen[t] = "unsent"
  /\ \A u \in Turns : u < t => seen[u] # "unsent"
  /\ seen' = [seen EXCEPT ![t] = "open"]

Answer(t) ==
  /\ seen[t] = "open"
  /\ \A u \in Turns : u < t => seen[u] \in Ends
  /\ seen' = [seen EXCEPT ![t] = "answered"]

\* A person stops the turn, or the chat is deleted or loses its owner.
Stop(S) ==
  /\ S # {}
  /\ \A t \in S : seen[t] = "open"
  /\ seen' = [t \in Turns |-> IF t \in S THEN "stopped" ELSE seen[t]]

Next ==
  \/ \E t \in Turns : Ask(t) \/ Answer(t)
  \/ \E S \in SUBSET Turns : Stop(S)

Spec == Init /\ [][Next]_seen
=============================================================================
