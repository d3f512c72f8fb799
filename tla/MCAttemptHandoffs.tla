------------------------- MODULE MCAttemptHandoffs -------------------------
(* Two roots over a shared chain, for TLC. *)
EXTENDS AttemptHandoffs

CONSTANTS t1, t2

\* r and s demand a, a demands c.
ChainOf == [q \in {"r", "s", "a", "c"} |->
              CASE q \in {"r", "s"} -> {"a"} [] q = "a" -> {"c"} [] q = "c" -> {}]
RootOf == [t \in Tasks |-> IF t = t1 THEN "r" ELSE "s"]

\* Two terminals of the shared queries, so that they can be computed again.
\* Addresses go against the dependencies for the first and with them for the
\* second.
IdsOf == <<"r", "a", "s", "c", "c", "a">>
AddressOf == [l \in Lifecycles |-> l]
CallbacksOf == <<0, 1, 0, 2, 1, 0>>
=============================================================================
