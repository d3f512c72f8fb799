---------------------------- MODULE AttemptHandoffs ----------------------------
(***************************************************************************)
(* Attempt handoffs (task.rs): the side effects a query body registers and *)
(* that a root request commits when it returns. A published terminal owns  *)
(* a lifecycle, which refers to the lifecycles its computation observed.   *)
(* A root request collects the lifecycles below its answer, claims them    *)
(* one by one in the order of their addresses, runs their commit callbacks *)
(* in dependency order, and then either finishes them all or rolls them    *)
(* back. Requests share lifecycles, may be canceled at any moment, and     *)
(* meet an evictor that aborts what it removes.                            *)
(*                                                                         *)
(* A lifecycle is locked for one read or one change at a time: each of     *)
(* these is an action. Waiting in a lifecycle's WaitCell is a guard; that  *)
(* no wake-up is lost there is what JoinWakeup is about.                   *)
(***************************************************************************)
EXTENDS Integers, FiniteSets

CONSTANTS
  Tasks,            \* root requests
  Queries,
  DependsOn,        \* the queries a body demands
  Root,             \* the query each task requests
  Lifecycles,       \* at most this many terminals are published
  QueryOf,          \* the query of each one's terminal
  Address,          \* where its Arc lies
  Callbacks,        \* how many handoffs its body registered
  Cancelable,       \* tasks the host may cancel
  MaxEvictions,     \* bound: evictions
  None              \* no lifecycle, no owner

ASSUME HandoffAssumption ==
  /\ DependsOn \in [Queries -> SUBSET Queries]
  /\ Root \in [Tasks -> Queries]
  /\ QueryOf \in [Lifecycles -> Queries]
  /\ Address \in [Lifecycles -> Nat]
  /\ \A l, m \in Lifecycles : Address[l] = Address[m] => l = m
  /\ Callbacks \in [Lifecycles -> Nat]
  /\ Cancelable \subseteq Tasks
  /\ MaxEvictions \in Nat
  /\ None \notin Lifecycles \cup Tasks

VARIABLES
  state,            \* AttemptHandoffState of each lifecycle
  owner,            \* the task that is committing it
  observed,         \* the lifecycles it refers to
  retained,         \* lifecycles whose terminal a node retains
  evicting,         \* removed from their node, abort() still to run
  evictions,
  installed,        \* callbacks of each lifecycle whose effect is in force
  attempted,        \* how many of them its owner has entered
  broken,           \* lifecycles whose rollback met a panicking abort callback
  pc,
  active,           \* queries whose body the task is in
  bodies,           \* queries whose body it has entered
  fresh,            \* the terminal it has published and not yet observed
  has,              \* the terminal it has observed for a query
  checked,          \* its checked_handoffs
  frontier,         \* lifecycles its collection has still to visit
  plan,             \* lifecycles it has collected
  toClaim,          \* those it has still to claim
  canceled,         \* tasks whose token is canceled
  verdict           \* how the request ended

lifecycleVars == <<state, owner, observed>>
retentionVars == <<retained, evicting, evictions>>
effectVars == <<installed, attempted, broken>>
evaluationVars == <<active, bodies, fresh, has, checked>>
commitVars == <<frontier, plan, toClaim, verdict>>
vars == <<lifecycleVars, retentionVars, effectVars, pc, evaluationVars, commitVars, canceled>>

Goto(t, label) == pc' = [pc EXCEPT ![t] = label]

Live(l) == state[l] \in {"Pending", "Committing"}

\* The lifecycles task t is committing.
Mine(t) == {l \in Lifecycles : state[l] = "Committing" /\ owner[l] = t}

\* A request holds what it has published and observed until it ends.
Leased(l) == \E t \in Tasks : pc[t] # "done" /\ (fresh[t] = l \/ \E q \in Queries : has[t][q] = l)

-----------------------------------------------------------------------------
(* Evaluation: reuse or compute the root's answer *)

\* What a walk from l visits: it goes on below live lifecycles, but not below
\* those in known.
Walk(l, known) ==
  {m \in Lifecycles : \A S \in SUBSET Lifecycles :
     (l \in S /\ \A x \in S \ known : Live(x) => observed[x] \subseteq S) => m \in S}

\* Mutant: nothing is remembered between two walks.
ValidForgetful(t, l) == \A m \in Walk(l, {}) : state[m] # "Aborted"

\* validate_handoff: the walk meets no aborted lifecycle.
Valid(t, l) == \A m \in Walk(l, checked[t]) \ checked[t] : state[m] # "Aborted"

\* observe_handoff. A terminal whose handoffs can no longer commit is detached
\* from its node instead.
Observe(t, q, l) ==
  \/ /\ state[l] = "Committed"
     /\ has' = [has EXCEPT ![t][q] = l]
     /\ UNCHANGED <<checked, retained>>
  \/ /\ state[l] # "Committed" /\ Valid(t, l)
     /\ has' = [has EXCEPT ![t][q] = l]
     /\ checked' = [checked EXCEPT ![t] = @ \cup Walk(l, @)]
     /\ UNCHANGED retained
  \/ /\ state[l] # "Committed" /\ ~Valid(t, l)
     /\ retained' = retained \ {l}
     /\ UNCHANGED <<has, checked>>

\* The queries the task has still to answer: its root, then what the bodies it
\* is in demand.
Demanded(t, q) ==
  /\ pc[t] = "evaluate" /\ fresh[t] = None
  /\ has[t][q] = None /\ q \notin active[t]
  /\ q = Root[t] \/ \E p \in active[t] : q \in DependsOn[p]

Reuse(t, q) ==
  /\ Demanded(t, q) /\ t \notin canceled
  /\ \E l \in retained : QueryOf[l] = q /\ Observe(t, q, l)
  /\ UNCHANGED <<lifecycleVars, evicting, evictions, effectVars, pc, active, bodies, fresh,
                 commitVars, canceled>>

\* Nothing is retained and nobody else computes it: claim the attempt.
EnterBody(t, q) ==
  /\ Demanded(t, q) /\ t \notin canceled
  /\ \A l \in retained : QueryOf[l] # q
  /\ \A u \in Tasks : pc[u] = "evaluate" => q \notin active[u]
  /\ active' = [active EXCEPT ![t] = @ \cup {q}]
  /\ bodies' = [bodies EXCEPT ![t] = @ \cup {q}]
  /\ UNCHANGED <<lifecycleVars, retentionVars, effectVars, pc, fresh, has, checked,
                 commitVars, canceled>>

\* Bound: an allocation takes the lowest address that is left for the query.
Free(q) == {l \in Lifecycles : state[l] = "unpublished" /\ QueryOf[l] = q}

\* The body returns: into_lifecycle, then publish. Only what is still live
\* below is referred to.
Publish(t, q, l) ==
  LET below == {d \in {has[t][p] : p \in DependsOn[q]} : state[d] # "Committed"}
      settled == Callbacks[l] = 0 /\ below = {}
  IN /\ pc[t] = "evaluate" /\ fresh[t] = None /\ t \notin canceled
     /\ q \in active[t]
     /\ \A p \in DependsOn[q] : has[t][p] # None
     /\ l \in Free(q) /\ \A m \in Free(q) : Address[l] <= Address[m]
     /\ state' = [state EXCEPT ![l] = IF settled THEN "Committed" ELSE "Pending"]
     /\ observed' = [observed EXCEPT ![l] = below]
     /\ retained' = retained \cup {l}
     /\ active' = [active EXCEPT ![t] = @ \ {q}]
     /\ fresh' = [fresh EXCEPT ![t] = l]
     /\ UNCHANGED <<owner, evicting, evictions, effectVars, pc, bodies, has, checked,
                    commitVars, canceled>>

\* The publisher observes what it has published.
ObserveFresh(t) ==
  /\ pc[t] = "evaluate" /\ fresh[t] # None
  /\ Observe(t, QueryOf[fresh[t]], fresh[t])
  /\ fresh' = [fresh EXCEPT ![t] = None]
  /\ UNCHANGED <<lifecycleVars, evicting, evictions, effectVars, pc, active, bodies,
                 commitVars, canceled>>

-----------------------------------------------------------------------------
(* commit_handoffs *)

End(t, how) ==
  /\ Goto(t, "done")
  /\ verdict' = [verdict EXCEPT ![t] = how]

\* A canceled request discards what it observed, answered or not.
Discard(t) ==
  /\ pc[t] = "evaluate" /\ t \in canceled /\ fresh[t] = None
  /\ End(t, "canceled")
  /\ UNCHANGED <<lifecycleVars, retentionVars, effectVars, evaluationVars,
                 frontier, plan, toClaim, canceled>>

StartCommit(t) ==
  /\ pc[t] = "evaluate" /\ t \notin canceled
  /\ has[t][Root[t]] # None
  /\ Goto(t, "collect")
  /\ frontier' = [frontier EXCEPT ![t] = {has[t][Root[t]]}]
  /\ UNCHANGED <<lifecycleVars, retentionVars, effectVars, evaluationVars,
                 plan, toClaim, verdict, canceled>>

\* Mutant: only the root's own lifecycle is collected.
CollectShallow(t, l) ==
  /\ pc[t] = "collect" /\ l \in frontier[t]
  /\ plan' = [plan EXCEPT ![t] = IF Live(l) THEN @ \cup {l} ELSE @]
  /\ frontier' = [frontier EXCEPT ![t] = {}]
  /\ UNCHANGED <<lifecycleVars, retentionVars, effectVars, pc, evaluationVars, toClaim,
                 verdict, canceled>>

\* collect_observed_once, one lifecycle: committed ones end the walk, an aborted
\* one fails the request. Any order of visits, the depth-first one among them.
Collect(t, l) ==
  /\ pc[t] = "collect" /\ l \in frontier[t]
  /\ \/ /\ state[l] = "Aborted"
        /\ End(t, "invalidated")
        /\ UNCHANGED <<frontier, plan>>
     \/ /\ state[l] = "Committed"
        /\ frontier' = [frontier EXCEPT ![t] = @ \ {l}]
        /\ UNCHANGED <<pc, plan, verdict>>
     \/ /\ Live(l)
        /\ plan' = [plan EXCEPT ![t] = @ \cup {l}]
        /\ frontier' = [frontier EXCEPT ![t] = (@ \cup observed[l]) \ (plan[t] \cup {l})]
        /\ UNCHANGED <<pc, verdict>>
  /\ UNCHANGED <<lifecycleVars, retentionVars, effectVars, evaluationVars, toClaim, canceled>>

Collected(t) ==
  /\ pc[t] = "collect" /\ frontier[t] = {}
  /\ Goto(t, "claim")
  /\ toClaim' = [toClaim EXCEPT ![t] = plan[t]]
  /\ UNCHANGED <<lifecycleVars, retentionVars, effectVars, evaluationVars,
                 frontier, plan, verdict, canceled>>

\* Mutant: lifecycles are claimed in whatever order.
NextClaimAny(t, l) == l \in toClaim[t]

\* Claims go by address, the same for every task.
NextClaim(t, l) == l \in toClaim[t] /\ \A m \in toClaim[t] : Address[l] <= Address[m]

\* begin_commit: cancellation first; a lifecycle another task is committing is
\* waited for; an aborted one, like cancellation, gives back all claims.
Claim(t, l) ==
  /\ pc[t] = "claim" /\ NextClaim(t, l) /\ t \notin canceled
  /\ \/ /\ state[l] = "Pending"
        /\ state' = [state EXCEPT ![l] = "Committing"]
        /\ owner' = [owner EXCEPT ![l] = t]
        /\ toClaim' = [toClaim EXCEPT ![t] = @ \ {l}]
        /\ UNCHANGED <<pc, verdict>>
     \/ /\ state[l] = "Committed"
        /\ toClaim' = [toClaim EXCEPT ![t] = @ \ {l}]
        /\ UNCHANGED <<state, owner, pc, verdict>>
     \/ /\ state[l] = "Aborted"
        /\ Goto(t, "restore")
        /\ verdict' = [verdict EXCEPT ![t] = "invalidated"]
        /\ UNCHANGED <<state, owner, toClaim>>
  /\ UNCHANGED <<observed, retentionVars, effectVars, evaluationVars, frontier, plan, canceled>>

ClaimCanceled(t) ==
  /\ pc[t] = "claim" /\ toClaim[t] # {} /\ t \in canceled
  /\ Goto(t, "restore")
  /\ verdict' = [verdict EXCEPT ![t] = "canceled"]
  /\ UNCHANGED <<lifecycleVars, retentionVars, effectVars, evaluationVars,
                 frontier, plan, toClaim, canceled>>

Claimed(t) ==
  /\ pc[t] = "claim" /\ toClaim[t] = {}
  /\ Goto(t, "commit")
  /\ UNCHANGED <<lifecycleVars, retentionVars, effectVars, evaluationVars, commitVars, canceled>>

\* The callbacks of l are due once those below it have run.
Due(t, l) ==
  /\ l \in Mine(t) /\ attempted[l] < Callbacks[l]
  /\ \A d \in observed[l] \cap Mine(t) : attempted[d] = Callbacks[d]

\* The next callback: counted, then called.
CommitCallback(t, l) ==
  /\ pc[t] = "commit" /\ t \notin canceled /\ Due(t, l)
  /\ attempted' = [attempted EXCEPT ![l] = @ + 1]
  /\ installed' = [installed EXCEPT ![l] = @ \cup {attempted[l] + 1}]
  /\ UNCHANGED <<lifecycleVars, retentionVars, broken, pc, evaluationVars, commitVars, canceled>>

\* It panics, with its effect in force or not.
CommitPanics(t, l) ==
  /\ pc[t] = "commit" /\ t \notin canceled /\ Due(t, l)
  /\ attempted' = [attempted EXCEPT ![l] = @ + 1]
  /\ installed' \in {installed, [installed EXCEPT ![l] = @ \cup {attempted[l] + 1}]}
  /\ Goto(t, "rollback")
  /\ verdict' = [verdict EXCEPT ![t] = "panicked"]
  /\ UNCHANGED <<lifecycleVars, retentionVars, broken, evaluationVars, frontier, plan,
                 toClaim, canceled>>

\* Tested before every callback and once after the last.
CommitCanceled(t) ==
  /\ pc[t] = "commit" /\ t \in canceled
  /\ Goto(t, "rollback")
  /\ verdict' = [verdict EXCEPT ![t] = "canceled"]
  /\ UNCHANGED <<lifecycleVars, retentionVars, effectVars, evaluationVars,
                 frontier, plan, toClaim, canceled>>

\* Every callback has run and the last test found no cancellation.
Decide(t) ==
  /\ pc[t] = "commit" /\ t \notin canceled
  /\ \A l \in Mine(t) : attempted[l] = Callbacks[l]
  /\ Goto(t, "finish")
  /\ UNCHANGED <<lifecycleVars, retentionVars, effectVars, evaluationVars, commitVars, canceled>>

\* Mutant: in any order.
FinishUnordered(t, l) ==
  /\ pc[t] = "finish" /\ l \in Mine(t)
  /\ state' = [state EXCEPT ![l] = "Committed"]
  /\ owner' = [owner EXCEPT ![l] = None]
  /\ attempted' = [attempted EXCEPT ![l] = 0]
  /\ UNCHANGED <<observed, retentionVars, installed, broken, pc, evaluationVars, commitVars, canceled>>

\* finish_commit, the lifecycles below first.
FinishCommit(t, l) ==
  /\ pc[t] = "finish" /\ l \in Mine(t)
  /\ observed[l] \cap Mine(t) = {}
  /\ state' = [state EXCEPT ![l] = "Committed"]
  /\ owner' = [owner EXCEPT ![l] = None]
  /\ attempted' = [attempted EXCEPT ![l] = 0]
  /\ UNCHANGED <<observed, retentionVars, installed, broken, pc, evaluationVars, commitVars, canceled>>

Finished(t) ==
  /\ pc[t] = "finish" /\ Mine(t) = {}
  /\ End(t, "ok")
  /\ UNCHANGED <<lifecycleVars, retentionVars, effectVars, evaluationVars,
                 frontier, plan, toClaim, canceled>>

-----------------------------------------------------------------------------
(* rollback_handoff_batches *)

\* Mutant: only the callback that failed is undone.
RollBackLast(t, l) ==
  /\ pc[t] = "rollback" /\ l \in Mine(t) /\ attempted[l] > 0
  /\ installed' = [installed EXCEPT ![l] = @ \ {attempted[l]}]
  /\ attempted' = [attempted EXCEPT ![l] = 0]
  /\ UNCHANGED <<lifecycleVars, retentionVars, broken, pc, evaluationVars, commitVars, canceled>>

\* The abort callbacks of one lifecycle's attempted prefix. One of them may
\* panic, and then nobody knows what is still in force.
RollBack(t, l) ==
  /\ pc[t] = "rollback" /\ l \in Mine(t) /\ attempted[l] > 0
  /\ \/ /\ installed' = [installed EXCEPT ![l] = @ \ (1..attempted[l])]
        /\ UNCHANGED broken
     \/ /\ \E left \in SUBSET installed[l] : installed' = [installed EXCEPT ![l] = left]
        /\ broken' = broken \cup {l}
  /\ attempted' = [attempted EXCEPT ![l] = 0]
  /\ UNCHANGED <<lifecycleVars, retentionVars, pc, evaluationVars, commitVars, canceled>>

RolledBack(t) ==
  /\ pc[t] = "rollback" /\ \A l \in Mine(t) : attempted[l] = 0
  /\ Goto(t, "restore")
  /\ UNCHANGED <<lifecycleVars, retentionVars, effectVars, evaluationVars, commitVars, canceled>>

\* Then the states: rollback_commit, or abort_failed_commit.
Restore(t, l) ==
  /\ pc[t] = "restore" /\ l \in Mine(t)
  /\ state' = [state EXCEPT ![l] = IF l \in broken THEN "Aborted" ELSE "Pending"]
  /\ owner' = [owner EXCEPT ![l] = None]
  /\ UNCHANGED <<observed, retentionVars, effectVars, pc, evaluationVars, commitVars, canceled>>

\* A panic is resumed, the other failures become an abort.
Restored(t) ==
  /\ pc[t] = "restore" /\ Mine(t) = {}
  /\ Goto(t, "done")
  /\ UNCHANGED <<lifecycleVars, retentionVars, effectVars, evaluationVars, commitVars, canceled>>

-----------------------------------------------------------------------------
(* The evictor and the host *)

Evict(l) ==
  /\ evictions < MaxEvictions
  /\ l \in retained /\ ~Leased(l)
  /\ retained' = retained \ {l}
  /\ evicting' = evicting \cup {l}
  /\ evictions' = evictions + 1
  /\ UNCHANGED <<lifecycleVars, effectVars, pc, evaluationVars, commitVars, canceled>>

\* abort: waits while a task is committing the lifecycle.
AbortEvicted(l) ==
  /\ l \in evicting /\ state[l] # "Committing"
  /\ state' = [state EXCEPT ![l] = IF @ = "Pending" THEN "Aborted" ELSE @]
  /\ evicting' = evicting \ {l}
  /\ UNCHANGED <<owner, observed, retained, evictions, effectVars, pc, evaluationVars, commitVars,
                 canceled>>

Cancel(t) ==
  /\ t \in Cancelable \ canceled /\ pc[t] # "done"
  /\ canceled' = canceled \cup {t}
  /\ UNCHANGED <<lifecycleVars, retentionVars, effectVars, pc, evaluationVars, commitVars>>

-----------------------------------------------------------------------------
Init ==
  /\ state = [l \in Lifecycles |-> "unpublished"]
  /\ owner = [l \in Lifecycles |-> None]
  /\ observed = [l \in Lifecycles |-> {}]
  /\ retained = {} /\ evicting = {} /\ evictions = 0
  /\ installed = [l \in Lifecycles |-> {}]
  /\ attempted = [l \in Lifecycles |-> 0]
  /\ broken = {}
  /\ pc = [t \in Tasks |-> "evaluate"]
  /\ active = [t \in Tasks |-> {}]
  /\ bodies = [t \in Tasks |-> {}]
  /\ fresh = [t \in Tasks |-> None]
  /\ has = [t \in Tasks |-> [q \in Queries |-> None]]
  /\ checked = [t \in Tasks |-> {}]
  /\ frontier = [t \in Tasks |-> {}]
  /\ plan = [t \in Tasks |-> {}]
  /\ toClaim = [t \in Tasks |-> {}]
  /\ canceled = {}
  /\ verdict = [t \in Tasks |-> "none"]

Evaluate(t) ==
  \/ \E q \in Queries : Reuse(t, q) \/ EnterBody(t, q)
  \/ \E q \in Queries, l \in Lifecycles : Publish(t, q, l)
  \/ ObserveFresh(t)
  \/ Discard(t)
  \/ StartCommit(t)

CommitHandoffs(t) ==
  \/ \E l \in Lifecycles : Collect(t, l) \/ Claim(t, l) \/ CommitCallback(t, l) \/ CommitPanics(t, l)
  \/ Collected(t) \/ ClaimCanceled(t) \/ Claimed(t) \/ CommitCanceled(t) \/ Decide(t)
  \/ \E l \in Lifecycles : FinishCommit(t, l) \/ RollBack(t, l) \/ Restore(t, l)
  \/ Finished(t) \/ RolledBack(t) \/ Restored(t)

Next ==
  \/ \E t \in Tasks : Evaluate(t) \/ CommitHandoffs(t) \/ Cancel(t)
  \/ \E l \in Lifecycles : Evict(l) \/ AbortEvicted(l)

\* Every thread runs on: requests, and the evictor once it has started.
Fairness ==
  /\ \A t \in Tasks : WF_vars(Evaluate(t)) /\ WF_vars(CommitHandoffs(t))
  /\ \A l \in Lifecycles : WF_vars(AbortEvicted(l))

Spec == Init /\ [][Next]_vars /\ Fairness

-----------------------------------------------------------------------------
(* Properties *)

PCs == {"evaluate", "collect", "claim", "commit", "finish", "rollback", "restore", "done"}

\* Every variable has its type.
TypeOK ==
  /\ state \in [Lifecycles -> {"unpublished", "Pending", "Committing", "Committed", "Aborted"}]
  /\ owner \in [Lifecycles -> Tasks \cup {None}]
  /\ observed \in [Lifecycles -> SUBSET Lifecycles]
  /\ retained \subseteq Lifecycles /\ evicting \subseteq Lifecycles
  /\ evictions \in 0..MaxEvictions
  /\ installed \in [Lifecycles -> SUBSET Nat]
  /\ attempted \in [Lifecycles -> Nat]
  /\ \A l \in Lifecycles : installed[l] \subseteq 1..Callbacks[l] /\ attempted[l] <= Callbacks[l]
  /\ broken \subseteq Lifecycles
  /\ pc \in [Tasks -> PCs]
  /\ active \in [Tasks -> SUBSET Queries] /\ bodies \in [Tasks -> SUBSET Queries]
  /\ fresh \in [Tasks -> Lifecycles \cup {None}]
  /\ has \in [Tasks -> [Queries -> Lifecycles \cup {None}]]
  /\ checked \in [Tasks -> SUBSET Lifecycles]
  /\ frontier \in [Tasks -> SUBSET Lifecycles]
  /\ plan \in [Tasks -> SUBSET Lifecycles]
  /\ toClaim \in [Tasks -> SUBSET Lifecycles]
  /\ canceled \subseteq Tasks
  /\ verdict \in [Tasks -> {"none", "ok", "canceled", "invalidated", "panicked"}]

\* Between two commits the effects in force are those of the committed
\* lifecycles, all of them and no others; only a lifecycle whose rollback met a
\* panicking abort may leave some behind, and it is never committed. The type
\* invariant is its first part.
EffectsMatchState ==
  /\ TypeOK
  /\ \A l \in Lifecycles :
       /\ state[l] = "Committed" => installed[l] = 1..Callbacks[l] /\ l \notin broken
       /\ state[l] \in {"unpublished", "Pending"} => installed[l] = {}
       /\ state[l] = "Aborted" /\ l \notin broken => installed[l] = {}

\* A request that returns its answer has committed everything the answer rests
\* on: the root's lifecycle is committed, and committed lifecycles refer to
\* committed ones only.
AnswersRestOnCommitted ==
  /\ \A t \in Tasks : verdict[t] = "ok" => state[has[t][Root[t]]] = "Committed"
  /\ \A l \in Lifecycles : state[l] = "Committed" =>
       \A d \in observed[l] : state[d] = "Committed"

\* The body of a query runs at most once in a request ("query body executes at
\* most once" is an expect in node.rs): a body that was entered is running, or
\* its terminal is there and about to be observed, or has been. The exception:
\* another root got hold of the fresh terminal, failed, and could not undo it.
BodiesRunOnce ==
  \A t \in Tasks : pc[t] = "evaluate" => \A q \in bodies[t] :
    \/ q \in active[t]
    \/ fresh[t] # None /\ QueryOf[fresh[t]] = q
    \/ has[t][q] # None
    \/ \E l \in broken : QueryOf[l] = q

\* Every root request ends: requests that claim overlapping sets do not wait for
\* each other for ever, and no failure leaves a lifecycle committing.
RequestsEnd == \A t \in Tasks : <>(pc[t] = "done")

\* The protocol implements atomic commits. A lifecycle counts as committed from
\* the moment its owner decides.
Status(l) ==
  CASE state[l] = "unpublished" -> "unpublished"
    [] state[l] = "Pending" -> "pending"
    [] state[l] = "Committed" -> "committed"
    [] state[l] = "Aborted" -> "aborted"
    [] state[l] = "Committing" -> IF pc[owner[l]] = "finish" THEN "committed" ELSE "pending"

Atomic == INSTANCE AtomicHandoffs WITH
  status <- [l \in Lifecycles |-> Status(l)], observes <- observed

\* Seen from outside, a root's lifecycles commit in one step, together with all
\* they depend on, and nothing committed or aborted ever changes.
CommitsAtomically == Atomic!Spec
=============================================================================
