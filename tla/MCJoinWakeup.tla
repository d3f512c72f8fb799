---------------------------- MODULE MCJoinWakeup ----------------------------
(* Joiners and their tokens for TLC. *)
EXTENDS JoinWakeup

CONSTANTS j1, j2, j3, k1, k2

\* Two items of one batch, and a join of another request.
BatchTokens == [j \in Joiners |-> IF j = j3 THEN k2 ELSE k1]
OwnTokens == [j \in Joiners |-> IF j = j1 THEN k1 ELSE k2]
=============================================================================
