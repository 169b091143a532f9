------------------------ MODULE MCConversationTurns ------------------------
(***************************************************************************)
(* Small chats: two workers on one turn with several calls, and two turns  *)
(* of one chat.                                                            *)
(***************************************************************************)
EXTENDS ConversationTurns, TLC

OneTurn == {1}
TwoTurns == {1, 2}
WorkerSymmetry == Permutations(Workers)
=============================================================================
