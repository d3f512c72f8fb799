---------------------------- MODULE AtomicHandoffs ----------------------------
(***************************************************************************)
(* What the commit of attempt handoffs promises: a terminal's side effects *)
(* are pending until one step commits a whole set of them, a set that      *)
(* leaves no dependency behind. What is pending may be aborted instead;    *)
(* committed and aborted are final.                                        *)
(***************************************************************************)
CONSTANT Lifecycles     \* handoff lifecycles, one per published terminal

VARIABLES
  status,               \* "unpublished", "pending", "committed" or "aborted"
  observes              \* the lifecycles each one was built on

vars == <<status, observes>>

TypeOK ==
  /\ status \in [Lifecycles -> {"unpublished", "pending", "committed", "aborted"}]
  /\ observes \in [Lifecycles -> SUBSET Lifecycles]

Init ==
  /\ status = [l \in Lifecycles |-> "unpublished"]
  /\ observes = [l \in Lifecycles |-> {}]

\* A terminal is published over lifecycles that exist. With no side effect
\* and nothing pending below, there is nothing left to commit.
Publish(l) ==
  /\ status[l] = "unpublished"
  /\ \E below \in SUBSET {d \in Lifecycles : status[d] # "unpublished"} :
       /\ observes' = [observes EXCEPT ![l] = below]
       /\ \/ status' = [status EXCEPT ![l] = "pending"]
          \/ /\ \A d \in below : status[d] = "committed"
             /\ status' = [status EXCEPT ![l] = "committed"]

\* One root commits everything it depends on, at once.
Commit(batch) ==
  /\ \A l \in batch : \A d \in observes[l] : d \in batch \/ status[d] = "committed"
  /\ status' = [l \in Lifecycles |-> IF l \in batch THEN "committed" ELSE status[l]]
  /\ UNCHANGED observes

Abort(l) ==
  /\ status[l] = "pending"
  /\ status' = [status EXCEPT ![l] = "aborted"]
  /\ UNCHANGED observes

Next ==
  \/ \E l \in Lifecycles : Publish(l)
  \/ \E batch \in SUBSET {l \in Lifecycles : status[l] = "pending"} : Commit(batch)
  \/ \E l \in Lifecycles : Abort(l)

Spec == Init /\ [][Next]_vars

\* Whatever is committed rests on committed lifecycles only.
Closed == \A l \in Lifecycles : status[l] = "committed" =>
            \A d \in observes[l] : status[d] = "committed"
=============================================================================
