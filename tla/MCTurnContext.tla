--------------------------- MODULE MCTurnContext ---------------------------
\* Instances of TurnContext for TLC.
EXTENDS TurnContext, TLC

MCSymmetry == Permutations(Chats) \cup Permutations(Turns)
=============================================================================
