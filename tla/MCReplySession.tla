--------------------------- MODULE MCReplySession ---------------------------
(***************************************************************************)
(* One conversation for TLC: an attempt with two calls of its own around   *)
(* two of sub-agents, one that claims the turn after it, another call of   *)
(* the flow and two knowledge attempts; pricing that rounds up to a grid.  *)
(***************************************************************************)
EXTENDS ReplySession

CONSTANTS a1, a2, c1, f1, Grid

MCSteps == <<2, 1>>
MCHelpers == <<{10, 11}, {}>>
MCIds == {c1, <<1, 0, 0>>, <<1, 1, 0>>, <<1, 10, 0>>, <<1, 11, 0>>, <<2, 0, 0>>, <<2, 0, 1>>}
MCFlowOf == [id \in Ids |-> f1]
MCReplyOf == [id \in Ids |-> IF id = c1 THEN NoReply ELSE id[1]]
MCRound == [u \in 0..MaxUnits |-> ((u + Grid - 1) \div Grid) * Grid]
=============================================================================
