------------------------------ MODULE MCBatches ------------------------------
(* Two requests with overlapping batches, for TLC. *)
EXTENDS Batches

CONSTANTS r, s, a, b, c

\* r's batch computes a while s demands the same as a, in its task or as a batch.
Overlapping == [q \in Queries |->
  CASE q = r -> <<a, b>> [] q \in {s, a} -> <<c, b>> [] OTHER -> <<>>]
=============================================================================
