--------------------------- MODULE MCCreditLedger ---------------------------
(* Instances of CreditLedger for TLC: pricing that rounds up to a grid, one *)
(* conversation with two reply attempts, one other call of the same flow.   *)
EXTENDS CreditLedger

CONSTANTS a1, a2, c1, h1, h2, g1, r1, r2, f1, Grid

MCIds == {c1, h1, h2, g1}
MCFlowOf == [id \in Ids |-> f1]
MCReplyOf == [id \in Ids |-> CASE id \in {h1, h2} -> r1 [] id = g1 -> r2 [] OTHER -> NoReply]
MCRound == [u \in 0..MaxUnits |-> ((u + Grid - 1) \div Grid) * Grid]
=============================================================================
