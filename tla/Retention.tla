------------------------------ MODULE Retention ------------------------------
(***************************************************************************)
(* Retention of published terminals in rue-query (retention.rs, and the    *)
(* enforcement half of node.rs and revision.rs). Every family keeps a      *)
(* queue of what it has published and a soft limit on its length; the      *)
(* runtime keeps a soft budget over all families. A pin protects a         *)
(* terminal. Whoever drops the last pin, or ends a request that published  *)
(* speculatively, enforces the limits of the families concerned and then   *)
(* the runtime's, and one worker at a time sweeps on behalf of all.        *)
(*                                                                         *)
(* A terminal has charge 1 in one dimension (the code has two, bytes and   *)
(* observations, that it treats alike), so a family's charge is the length *)
(* of its queue. Pins stand for the three protections evict_one looks at:  *)
(* pins, waiters and retained revisions.                                   *)
(***************************************************************************)
EXTENDS Integers, Sequences, SequencesExt, FiniteSets, FiniteSetsExt

CONSTANTS
  Workers,        \* threads that run requests
  FamilyCount,    \* families, by token: 1 .. FamilyCount
  Limit,          \* retention_limit of each family
  Budget,         \* runtime-wide budget
  Quantum,        \* VALIDATION_PUBLISH_SWEEP_QUANTUM
  MaxPublished,   \* bound: terminals ever published
  MaxHeld,        \* bound: pins one request holds
  Never           \* usize::MAX: a watermark no count reaches and no limit allows

ASSUME RetentionAssumption ==
  /\ IsFiniteSet(Workers) /\ FamilyCount \in Nat \ {0}
  /\ Limit \in [1 .. FamilyCount -> Nat]
  /\ {Budget, MaxPublished, MaxHeld} \subseteq Nat
  /\ Quantum \in Nat \ {0}
  /\ Never \in Nat /\ Never > MaxPublished
  /\ \A f \in 1 .. FamilyCount : Never > Limit[f] + 1

Families == 1 .. FamilyCount
Terminals == 1 .. MaxPublished

VARIABLES
  home,           \* the family of every terminal published so far, by id
  queue,          \* FamilyRetentionQueue::entries, oldest first
  retained_count,
  next_publish_sweep,
  pending,        \* retention_sweep_pending
  claimed,        \* retention_sweep_claimed
  cursor,         \* retention_sweep_cursor
  next_sweep,     \* next_retained_byte_sweep
  workers         \* each worker's request and where it is in enforcement

shared == <<home, queue, retained_count, next_publish_sweep, pending, claimed, cursor, next_sweep>>
vars == <<home, queue, retained_count, next_publish_sweep, pending, claimed, cursor, next_sweep, workers>>

Idle == [pc |-> "idle", held |-> {}, due |-> {}, fam |-> 1, margin |-> 1, then |-> "idle",
         total |-> 0, start |-> 0, offset |-> 0, progress |-> FALSE]

At(w, pc) == workers[w].pc = pc

\* Back in its request, a worker keeps only what the request owns.
Locals(me, pc) == IF pc = "idle" THEN [Idle EXCEPT !.held = me.held, !.due = me.due]
                  ELSE [me EXCEPT !.pc = pc]
Goto(w, pc) == [workers EXCEPT ![w] = Locals(@, pc)]
Pinned(id) == \E w \in Workers : id \in workers[w].held

\* What all families retain: a position in a family's queue is an entry of charge 1.
Charge == Cardinality({x \in Families \X Terminals : x[2] <= Len(queue[x[1]])})

-----------------------------------------------------------------------------
(* evict_one_from_family, under the family's retention lock: the oldest
   unprotected terminal goes, the protected ones before it move to the back. *)

Evictable(f) == {i \in DOMAIN queue[f] : ~Pinned(queue[f][i])}

Oldest(f) == Min(Evictable(f))

\* Mutant: the family's count is not given back.
EvictUncounted(f) ==
  /\ queue' = [queue EXCEPT ![f] = SubSeq(@, Oldest(f) + 1, Len(@)) \o SubSeq(@, 1, Oldest(f) - 1)]
  /\ UNCHANGED retained_count

EvictOne(f) ==
  /\ queue' = [queue EXCEPT ![f] = SubSeq(@, Oldest(f) + 1, Len(@)) \o SubSeq(@, 1, Oldest(f) - 1)]
  /\ retained_count' = [retained_count EXCEPT ![f] = @ - 1]

-----------------------------------------------------------------------------
(* Requests *)

\* publish, up to the queue: a rooted publication is pinned at birth, a
\* validation-only one leaves a deferred enforcement behind.
Publish(w, f, lease) ==
  LET id == Len(home) + 1
  IN /\ At(w, "idle")
     /\ id \in Terminals
     /\ lease => Cardinality(workers[w].held) < MaxHeld
     /\ home' = Append(home, f)
     /\ retained_count' = [retained_count EXCEPT ![f] = @ + 1]
     /\ workers' = [workers EXCEPT ![w].pc = "enqueue", ![w].fam = f,
                                   ![w].margin = IF lease THEN 1 ELSE Quantum,
                                   ![w].total = id,
                                   ![w].held = IF lease THEN @ \cup {id} ELSE @,
                                   ![w].due = IF lease THEN @ ELSE @ \cup {f}]
     /\ UNCHANGED <<queue, next_publish_sweep, pending, claimed, cursor, next_sweep>>

\* FamilyRetentionQueue::publish; whether the family's charge crosses a probe
\* quantum depends on byte sizes that are not modelled.
Enqueue(w, probe) ==
  /\ At(w, "enqueue")
  /\ queue' = [queue EXCEPT ![workers[w].fam] = Append(@, workers[w].total)]
  /\ workers' = [workers EXCEPT ![w].pc = "count", ![w].then = IF probe THEN "probe" ELSE "idle"]
  /\ UNCHANGED <<home, retained_count, next_publish_sweep, pending, claimed, cursor, next_sweep>>

\* A request observes a retained terminal and pins it.
Pin(w, id) ==
  /\ At(w, "idle")
  /\ \E f \in Families : id \in Range(queue[f])
  /\ id \notin workers[w].held
  /\ Cardinality(workers[w].held) < MaxHeld
  /\ workers' = [workers EXCEPT ![w].held = @ \cup {id}]
  /\ UNCHANGED shared

\* The request ends: its pins drop one by one, without enforcement in between.
EndRequest(w) ==
  /\ At(w, "idle")
  /\ workers[w].held # {} \/ workers[w].due # {}
  /\ workers' = Goto(w, "release")
  /\ UNCHANGED shared

\* Only a last pin makes its family due for enforcement.
ReleasePin(w, id) ==
  LET last == \A v \in Workers \ {w} : id \notin workers[v].held
  IN /\ At(w, "release")
     /\ id \in workers[w].held
     /\ workers' = [workers EXCEPT ![w].held = @ \ {id},
                                   ![w].due = IF last THEN @ \cup {home[id]} ELSE @]
     /\ UNCHANGED shared

Released(w) ==
  /\ At(w, "release")
  /\ workers[w].held = {}
  /\ workers' = Goto(w, IF workers[w].due = {} THEN "idle" ELSE "families")
  /\ UNCHANGED shared

-----------------------------------------------------------------------------
(* Family enforcement *)

\* enforce_retention_after_publish_with_margin: load the count, ...
LoadCount(w) ==
  /\ At(w, "count")
  /\ workers' = [workers EXCEPT ![w].pc = "watermark", ![w].total = retained_count[workers[w].fam]]
  /\ UNCHANGED shared

\* ... then claim the watermark it has reached, or leave.
ClaimWatermark(w) ==
  LET f == workers[w].fam
  IN /\ At(w, "watermark")
     /\ \/ /\ workers[w].total < next_publish_sweep[f]
           /\ workers' = Goto(w, workers[w].then)
           /\ UNCHANGED next_publish_sweep
        \/ /\ workers[w].total >= next_publish_sweep[f]
           /\ next_publish_sweep' = [next_publish_sweep EXCEPT ![f] = Never]
           /\ workers' = Goto(w, "over")
     /\ UNCHANGED <<home, queue, retained_count, pending, claimed, cursor, next_sweep>>

Converged(f) == retained_count[f] <= Limit[f] /\ next_publish_sweep[f] <= Limit[f] + 1

\* DeferredEnforcements::enforce: each due family once, in address order ...
EnforceFamily(w, f) ==
  /\ At(w, "families")
  /\ f \in workers[w].due
  /\ workers' = [workers EXCEPT ![w].due = @ \ {f}, ![w].fam = f, ![w].margin = 1, ![w].then = "families",
                                ![w].pc = IF Converged(f) THEN "families" ELSE "over"]
  /\ UNCHANGED shared

\* ... then the runtime.
FamiliesEnforced(w) ==
  /\ At(w, "families")
  /\ workers[w].due = {}
  /\ workers' = Goto(w, "measure")
  /\ UNCHANGED shared

\* Mutant: a family one over its limit is left there.
TestLimitLoosely(w) ==
  /\ At(w, "over")
  /\ workers' = Goto(w, IF retained_count[workers[w].fam] > Limit[workers[w].fam] + 1 THEN "evict" ELSE "rearm")
  /\ UNCHANGED shared

\* enforce_retention_with_margin: while over the limit ...
TestLimit(w) ==
  /\ At(w, "over")
  /\ workers' = Goto(w, IF retained_count[workers[w].fam] > Limit[workers[w].fam] THEN "evict" ELSE "rearm")
  /\ UNCHANGED shared

\* ... evict one, until nothing unprotected is left.
FamilyEvict(w) ==
  LET f == workers[w].fam
  IN /\ At(w, "evict")
     /\ \/ /\ Evictable(f) = {}
           /\ workers' = Goto(w, "rearm")
           /\ UNCHANGED <<queue, retained_count>>
        \/ /\ Evictable(f) # {}
           /\ EvictOne(f)
           /\ workers' = Goto(w, "over")
     /\ UNCHANGED <<home, next_publish_sweep, pending, claimed, cursor, next_sweep>>

\* The next publish-side watermark doubles when protection kept the family over
\* its limit. A publisher goes on to its probe, a release to its next family.
Rearm(w) ==
  LET f == workers[w].fam
      count == retained_count[f]
  IN /\ At(w, "rearm")
     /\ next_publish_sweep' =
          [next_publish_sweep EXCEPT ![f] = IF count > Limit[f] THEN 2 * count
                                             ELSE Limit[f] + workers[w].margin]
     /\ workers' = Goto(w, workers[w].then)
     /\ UNCHANGED <<home, queue, retained_count, pending, claimed, cursor, next_sweep>>

-----------------------------------------------------------------------------
(* Runtime enforcement *)

\* enforce_runtime_retention_after_probe
Probe(w) ==
  /\ At(w, "probe")
  /\ workers' = Goto(w, IF Charge < next_sweep THEN "idle" ELSE "measure")
  /\ UNCHANGED shared

\* enforce_runtime_retention
Measure(w) ==
  /\ At(w, "measure")
  /\ workers' = Goto(w, IF Charge > Budget THEN "request" ELSE "idle")
  /\ UNCHANGED shared

RequestSweep(w) ==
  /\ At(w, "request")
  /\ pending' = TRUE
  /\ workers' = Goto(w, "claim")
  /\ UNCHANGED <<home, queue, retained_count, next_publish_sweep, claimed, cursor, next_sweep>>

\* Mutant: the claim is taken without looking whether it is free.
ClaimBlindly(w) ==
  /\ workers[w].pc \in {"claim", "reclaim"}
  /\ claimed' = TRUE
  /\ workers' = Goto(w, "clear")
  /\ UNCHANGED <<home, queue, retained_count, next_publish_sweep, pending, cursor, next_sweep>>

\* Both compare_exchange calls on the claim: the loser leaves.
ClaimSweep(w) ==
  /\ workers[w].pc \in {"claim", "reclaim"}
  /\ claimed' = TRUE
  /\ workers' = Goto(w, IF claimed THEN "idle" ELSE "clear")
  /\ UNCHANGED <<home, queue, retained_count, next_publish_sweep, pending, cursor, next_sweep>>

ClearPending(w) ==
  /\ At(w, "clear")
  /\ pending' = FALSE
  /\ workers' = Goto(w, "sweep")
  /\ UNCHANGED <<home, queue, retained_count, next_publish_sweep, claimed, cursor, next_sweep>>

\* run_runtime_retention_sweep: where the round-robin starts, by family index.
BeginSweep(w) ==
  LET first == Cardinality({f \in Families : f < cursor})
  IN /\ At(w, "sweep")
     /\ workers' = [workers EXCEPT ![w].pc = IF Charge > Budget THEN "round" ELSE "check",
                                   ![w].start = first % FamilyCount]
     /\ UNCHANGED shared

BeginRound(w) ==
  /\ At(w, "round")
  /\ workers' = [workers EXCEPT ![w].pc = IF Charge > Budget THEN "pass" ELSE "settle",
                                ![w].total = Charge, ![w].offset = 0, ![w].progress = FALSE]
  /\ UNCHANGED shared

FamilyAfter(f) == (f % FamilyCount) + 1

\* One family of the round, against the round's running total.
SweepFamily(w) ==
  LET me == workers[w]
      f == ((me.start + me.offset) % FamilyCount) + 1
  IN /\ At(w, "pass")
     /\ me.offset < FamilyCount /\ me.total > Budget
     /\ \/ /\ Evictable(f) = {}
           /\ workers' = [workers EXCEPT ![w].offset = @ + 1]
           /\ UNCHANGED <<queue, retained_count, cursor>>
        \/ /\ Evictable(f) # {}
           /\ EvictOne(f)
           /\ cursor' = FamilyAfter(f)
           /\ workers' = [workers EXCEPT ![w].offset = @ + 1, ![w].progress = TRUE, ![w].total = @ - 1]
     /\ UNCHANGED <<home, next_publish_sweep, pending, claimed, next_sweep>>

EndRound(w) ==
  LET me == workers[w]
  IN /\ At(w, "pass")
     /\ me.offset = FamilyCount \/ me.total <= Budget
     /\ workers' = [workers EXCEPT ![w].pc = IF me.progress THEN "round" ELSE "settle",
                                   ![w].start = IF me.progress THEN (@ + 1) % FamilyCount ELSE @]
     /\ UNCHANGED shared

Settle(w) ==
  /\ At(w, "settle")
  /\ next_sweep' = IF Charge > Budget THEN 2 * Charge ELSE Budget + 1
  /\ workers' = Goto(w, "check")
  /\ UNCHANGED <<home, queue, retained_count, next_publish_sweep, pending, claimed, cursor>>

\* A request that arrived during the sweep is served before the claim goes ...
CheckPending(w) ==
  /\ At(w, "check")
  /\ pending' = FALSE
  /\ workers' = Goto(w, IF pending THEN "clear" ELSE "unclaim")
  /\ UNCHANGED <<home, queue, retained_count, next_publish_sweep, claimed, cursor, next_sweep>>

Unclaim(w) ==
  /\ At(w, "unclaim")
  /\ claimed' = FALSE
  /\ workers' = Goto(w, "recheck")
  /\ UNCHANGED <<home, queue, retained_count, next_publish_sweep, pending, cursor, next_sweep>>

\* Mutant: the handoff race is left open.
RecheckNever(w) ==
  /\ At(w, "recheck")
  /\ workers' = Goto(w, "idle")
  /\ UNCHANGED shared

\* ... and one that arrived before the release, after it.
Recheck(w) ==
  /\ At(w, "recheck")
  /\ pending' = FALSE
  /\ workers' = Goto(w, IF pending THEN "reclaim" ELSE "idle")
  /\ UNCHANGED <<home, queue, retained_count, next_publish_sweep, claimed, cursor, next_sweep>>

-----------------------------------------------------------------------------
Init ==
  /\ home = << >>
  /\ queue = [f \in Families |-> << >>]
  /\ retained_count = [f \in Families |-> 0]
  /\ next_publish_sweep = [f \in Families |-> Limit[f] + 1]
  /\ pending = FALSE
  /\ claimed = FALSE
  /\ cursor = 1
  /\ next_sweep = Budget + 1
  /\ workers = [w \in Workers |-> Idle]

Use(w) ==
  \/ \E f \in Families, lease \in BOOLEAN : Publish(w, f, lease)
  \/ \E id \in Terminals : Pin(w, id)
  \/ EndRequest(w)

Enforce(w) ==
  \/ \E probe \in BOOLEAN : Enqueue(w, probe)
  \/ \E id \in Terminals : ReleasePin(w, id)
  \/ Released(w)
  \/ LoadCount(w) \/ ClaimWatermark(w)
  \/ \E f \in Families : EnforceFamily(w, f)
  \/ FamiliesEnforced(w) \/ TestLimit(w) \/ FamilyEvict(w) \/ Rearm(w)
  \/ Probe(w) \/ Measure(w) \/ RequestSweep(w) \/ ClaimSweep(w) \/ ClearPending(w)
  \/ BeginSweep(w) \/ BeginRound(w) \/ SweepFamily(w) \/ EndRound(w) \/ Settle(w)
  \/ CheckPending(w) \/ Unclaim(w) \/ Recheck(w)

Next == \E w \in Workers : Use(w) \/ Enforce(w)

Spec == Init /\ [][Next]_vars

-----------------------------------------------------------------------------
(* Properties *)

\* The shared counters and every worker's place stay in range.
TypeOK ==
  /\ home \in Seq(Families) /\ Len(home) <= MaxPublished
  /\ \A f \in Families : queue[f] \in Seq(DOMAIN home) /\ retained_count[f] \in 0 .. MaxPublished
  /\ \A f \in Families : next_publish_sweep[f] \in Nat \ {0}
  /\ pending \in BOOLEAN /\ claimed \in BOOLEAN
  /\ cursor \in Families /\ next_sweep \in Nat
  /\ \A w \in Workers : workers[w].held \subseteq DOMAIN home /\ workers[w].due \subseteq Families

Sweeping(w) == workers[w].pc \in {"clear", "sweep", "round", "pass", "settle", "check", "unclaim"}

\* The claim is a lock: it is taken exactly while one worker sweeps, across
\* the release, the re-check and the second claim of the handoff.
SweepExclusive ==
  /\ claimed <=> \E w \in Workers : Sweeping(w)
  /\ \A v, w \in Workers : Sweeping(v) /\ Sweeping(w) => v = w

\* A family counts what its nodes retain: everything enqueued and what its
\* publishers are about to enqueue, each terminal once. The type invariant is its
\* first part.
CountsAreExact ==
  /\ TypeOK
  /\ \A f \in Families :
       retained_count[f] = Len(queue[f]) +
         Cardinality({w \in Workers : At(w, "enqueue") /\ workers[w].fam = f})
  /\ \A f \in Families : IsInjective(queue[f]) /\ \A id \in Range(queue[f]) : home[id] = f

AtRest == \A w \in Workers : At(w, "idle") /\ workers[w].held = {} /\ workers[w].due = {}

\* Once every request has ended and every pass has run, no family is over its
\* limit: the last pin's release always leads to the pass that was needed.
FamiliesConverge == AtRest => \A f \in Families : retained_count[f] <= Limit[f]

\* "Protected terminals may exceed it; the runtime records that pressure and
\* reclaims the excess as soon as protection releases": once nothing is
\* protected and nobody sweeps, the runtime is within its budget.
BudgetConverges == AtRest => Charge <= Budget
=============================================================================
