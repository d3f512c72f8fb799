----------------------------- MODULE QueryEngine -----------------------------
(***************************************************************************)
(* The demand-driven query engine of rue-query (node.rs, revision.rs,      *)
(* task.rs): concurrent requests that reuse retained terminals after       *)
(* red/green validation, join a computation another request has claimed,   *)
(* or claim and compute an attempt of their own, while retention evicts    *)
(* what nothing protects and hosts cancel requests.                        *)
(*                                                                         *)
(* Every family is registered (its evaluator is runtime-owned), as all     *)
(* families of the compiler are; no endorsement scope, batch or handoff is *)
(* active. An action is the code between two lock acquisitions of shared   *)
(* state; what a task does to its own frames in between goes with it. A    *)
(* task's stack holds one frame per Rust call that can be interrupted:     *)
(* "query" for query_task_impl, "validate" for valid_for_revision and      *)
(* "body" for the evaluator, which is also the TaskFrame pushed for it.    *)
(***************************************************************************)
EXTENDS Integers, Sequences, SequencesExt, FiniteSets, FiniteSetsExt

CONSTANTS
  Tasks,          \* request slots of the host; each runs one request at a time
  KeyOrder,       \* every query key once, in canonical (family, hash) order
  Inputs,         \* leaf identities
  Revisions,      \* the published revisions: id -> [compat, epoch, view]
  Step(_, _),     \* evaluator: the next operation of a key's body after a log
  Scenarios       \* what the host may do: [asks: the <<key, revision id>> it asks for in
                  \* order, cancels: how many requests it cancels, evictions: how many
                  \* terminals retention evicts meanwhile]

Keys == Range(KeyOrder)
RevIds == DOMAIN Revisions
Infinity == 1000
Missing == 0      \* reserved leaf stamp: the leaf is absent

\* What RevisionStore guarantees of the revisions it has published.
ASSUME EpochsAreChains ==
  \A a, b \in RevIds : Revisions[a].epoch = Revisions[b].epoch /\ a < b =>
    /\ Revisions[a].compat = Revisions[b].compat
    /\ \A x \in Inputs : Revisions[a].view[x] # Missing => Revisions[b].view[x] = Revisions[a].view[x]

\* There is a key to ask for, and the host asks for keys at published revisions.
ASSUME EngineAssumption ==
  /\ IsFiniteSet(Tasks)
  /\ KeyOrder \in Seq(Keys) \ {<< >>}
  /\ \A scenario \in Scenarios :
       /\ {"asks", "cancels", "evictions"} \subseteq DOMAIN scenario
       /\ scenario.asks \in Seq(Keys \X RevIds)

VARIABLES
  nodes,          \* every incarnation ever minted, in order
  index,          \* the families' key memo: key -> current incarnation, or 0
  tasks,          \* what each request has in progress
  host            \* what is left of the host's scenario

vars == <<nodes, index, tasks, host>>

NoCertificate == [rev |-> 0]
NoTerminal == [rev |-> 0]

Abort(why) == [abort |-> why]
IsAbort(ret) == "abort" \in DOMAIN ret
Result(inc, terminal, execution) == [inc |-> inc, terminal |-> terminal, execution |-> execution]
NoReturn == Abort("none")

NewNode(key) == [key |-> key, next_attempt |-> 1, next_stamp |-> 1,
                 attempts |-> << >>, validated_at |-> NoCertificate]

IdleTask == [status |-> "idle", rev |-> 0, stack |-> << >>, ret |-> NoReturn,
             leases |-> {}, cache |-> [key \in Keys |-> {}], canceled |-> FALSE,
             key |-> KeyOrder[1]]

QueryFrame(key, obs) == [kind |-> "query", key |-> key, inc |-> 0, obs |-> obs, pc |-> "enter",
                         cursor |-> Infinity, attempt |-> 0, pinned |-> FALSE, contended |-> {}]
ValidateFrame(inc, terminal, again) == [kind |-> "validate", inc |-> inc, terminal |-> terminal,
                                        next |-> 1, again |-> again, retryable |-> FALSE]
BodyFrame(inc, attempt) == [kind |-> "body", inc |-> inc, attempt |-> attempt, log |-> << >>,
                            deps |-> << >>, inputs |-> << >>, missing |-> FALSE, abort |-> "none"]

With(f, x, v) == [y \in DOMAIN f \cup {x} |-> IF y = x THEN v ELSE f[y]]

-----------------------------------------------------------------------------
(* Frames *)

Stack(t) == tasks[t].stack
Top(t) == Last(Stack(t))
Below(t) == Front(Stack(t))
Running(t) == tasks[t].status = "running"
At(t, kind) == Running(t) /\ Top(t).kind = kind
AtPc(t, pc) == At(t, "query") /\ Top(t).pc = pc
Canceled(t) == tasks[t].canceled

OnTop(t, frame) == Append(Below(t), frame)
SetStack(t, stack) == [tasks EXCEPT ![t].stack = stack]
Goto(t, pc) == OnTop(t, [Top(t) EXCEPT !.pc = pc])

\* Back to the head of query_task_impl's loop.
Restart(t, frame) == OnTop(t, [frame EXCEPT !.pc = "find", !.cursor = Infinity])

Bodies(stack) == {i \in DOMAIN stack : stack[i].kind = "body"}

\* Task::stack_cycle: only bodies are on the dependency stack, by incarnation.
StackCycle(t, inc) == \E i \in Bodies(Stack(t)) : Stack(t)[i].inc = inc

\* Task::observe records one dependency in the innermost enclosing body.
Observe(stack, inc, stamp, missing) ==
  IF Bodies(stack) = {} THEN stack
  ELSE [stack EXCEPT ![Max(Bodies(stack))].deps = With(@, inc, stamp),
                     ![Max(Bodies(stack))].missing = @ \/ missing]

\* Task::observe_abort_prefix replays what an aborted body had observed there,
\* whether or not the aborted query was itself an observed one.
ObserveAbortPrefix(stack, body) ==
  IF Bodies(stack) = {} THEN stack
  ELSE [stack EXCEPT ![Max(Bodies(stack))].deps =
                       [i \in DOMAIN @ \cup DOMAIN body.deps |->
                          IF i \in DOMAIN body.deps THEN body.deps[i] ELSE @[i]],
                     ![Max(Bodies(stack))].inputs =
                       [x \in DOMAIN @ \cup DOMAIN body.inputs |->
                          IF x \in DOMAIN body.inputs THEN body.inputs[x] ELSE @[x]],
                     ![Max(Bodies(stack))].missing = @ \/ DOMAIN body.deps # {}]

\* The terminal that answers a query: observed in the enclosing body, leased by
\* the request and cached for the task when the query is an observed one.
Answer(t, stack, frame, inc, attempt, terminal, execution) ==
  LET after == IF frame.obs THEN Observe(stack, inc, terminal.stamp, terminal.missing) ELSE stack
  IN [tasks EXCEPT
        ![t].stack = Append(after, [frame EXCEPT !.pc = "return", !.pinned = FALSE]),
        ![t].ret = Result(inc, terminal, execution),
        ![t].leases = IF frame.obs THEN @ \cup {<<inc, attempt>>} ELSE @,
        ![t].cache[frame.key] = IF frame.obs THEN @ \cup {[inc |-> inc, terminal |-> terminal]} ELSE @]

AbortQuery(t, stack, frame, why) ==
  [tasks EXCEPT ![t].stack = Append(stack, [frame EXCEPT !.pc = "return", !.pinned = FALSE]),
                ![t].ret = Abort(why)]

-----------------------------------------------------------------------------
(* Nodes and attempts *)

Attempts(inc) == nodes[inc].attempts
Position(inc, id) == CHOOSE i \in DOMAIN Attempts(inc) : Attempts(inc)[i].id = id
HasAttempt(inc, id) == \E i \in DOMAIN Attempts(inc) : Attempts(inc)[i].id = id
AttemptOf(inc, id) == Attempts(inc)[Position(inc, id)]
Computing(a) == a.terminal = NoTerminal
Computed(inc) == {i \in DOMAIN Attempts(inc) : ~Computing(Attempts(inc)[i])}

AddWaiter(inc, id, n) == [nodes EXCEPT ![inc].attempts[Position(inc, id)].waiters = @ + n]

\* Mutant: the count is left alone.
KeepWaiter(inc, id) == nodes

\* RuntimeCore::decrement_waiter leaves an attempt that ended in between alone.
DecrementWaiter(inc, id) == IF HasAttempt(inc, id) THEN AddWaiter(inc, id, -1) ELSE nodes

\* NodeState::remove_attempt drops the certificate its terminal backed.
RemoveAttempt(node, i) ==
  LET gone == node.attempts[i].terminal
      backed == /\ node.validated_at # NoCertificate /\ gone # NoTerminal
                /\ node.validated_at.stamp = gone.stamp
                /\ node.validated_at.terminal_rev = gone.rev
  IN [node EXCEPT !.attempts = RemoveAt(@, i),
                  !.validated_at = IF backed THEN NoCertificate ELSE @]

\* Node::users > 0: some query frame holds a NodeLease on the incarnation.
Leased(tks, inc) ==
  \E t \in Tasks : \E i \in DOMAIN tks[t].stack :
    tks[t].stack[i].kind = "query" /\ tks[t].stack[i].inc = inc

\* Mutant: an empty node stays in the memo when its last lease drops.
NeverRetires(node, tks, inc) == FALSE

\* An empty node nobody leases leaves the family's memo.
Retires(node, tks, inc) == node.attempts = << >> /\ ~Leased(tks, inc) /\ index[node.key] = inc

\* Mutant: only the requests' own leases protect, not the pin of a validation.
PinnedByLease(inc, id) == \E t \in Tasks : <<inc, id>> \in tasks[t].leases

Pinned(inc, id) ==
  \E t \in Tasks :
    \/ <<inc, id>> \in tasks[t].leases
    \/ \E i \in DOMAIN Stack(t) :
         /\ Stack(t)[i].kind = "query" /\ Stack(t)[i].pinned
         /\ Stack(t)[i].inc = inc /\ Stack(t)[i].attempt = id

Certificate(terminal, rev) ==
  [rev |-> rev, stamp |-> terminal.stamp, terminal_rev |-> terminal.rev, missing |-> terminal.missing]

\* Node::mark_validated certifies only a terminal the node still retains.
MarkValidated(node, certificate) ==
  IF \E i \in DOMAIN node.attempts :
       LET terminal == node.attempts[i].terminal
       IN terminal # NoTerminal /\ terminal.stamp = certificate.stamp
          /\ terminal.rev = certificate.terminal_rev
  THEN [node EXCEPT !.validated_at = certificate] ELSE node

\* Mutant: a cone that observed an absent leaf is carried forward too.
AcceptsAbsence(certificate, rev) ==
  /\ certificate # NoCertificate
  /\ Revisions[certificate.rev].epoch = Revisions[rev].epoch
  /\ Revisions[certificate.rev].compat = Revisions[rev].compat
  /\ certificate.rev <= rev

\* ADR-0073: at its own revision, or forward along the same epoch's chain.
Accepts(certificate, rev) ==
  /\ certificate # NoCertificate
  /\ \/ certificate.rev = rev
     \/ /\ ~certificate.missing
        /\ Revisions[certificate.rev].epoch = Revisions[rev].epoch
        /\ Revisions[certificate.rev].compat = Revisions[rev].compat
        /\ certificate.rev < rev

-----------------------------------------------------------------------------
(* The host *)

StartRequest(t) ==
  /\ tasks[t].status = "idle"
  /\ host.asks # << >>
  /\ host' = [host EXCEPT !.asks = Tail(@)]
  /\ tasks' = [tasks EXCEPT ![t] = [IdleTask EXCEPT !.status = "running",
                                                   !.key = Head(host.asks)[1],
                                                   !.rev = Head(host.asks)[2],
                                                   !.stack = <<QueryFrame(Head(host.asks)[1], TRUE)>>]]
  /\ UNCHANGED <<nodes, index>>

\* The host drops the answer, and with it the lease the answer carried.
FinishRequest(t) ==
  /\ tasks[t].status = "done"
  /\ tasks' = [tasks EXCEPT ![t] = IdleTask]
  /\ UNCHANGED <<nodes, index, host>>

Cancel(t) ==
  /\ host.cancels > 0
  /\ Running(t) /\ ~Canceled(t)
  /\ tasks' = [tasks EXCEPT ![t].canceled = TRUE]
  /\ host' = [host EXCEPT !.cancels = @ - 1]
  /\ UNCHANGED <<nodes, index>>

-----------------------------------------------------------------------------
(* query_task_impl *)

\* A query begins: the host's, a validation's, or the next one a body demands.
BodyOp(t) == Step(nodes[Top(t).inc].key, Top(t).log)
BodyActive(t) == At(t, "body") /\ Top(t).abort = "none"
Demands(t) == BodyActive(t) /\ BodyOp(t).op = "query" /\ BodyOp(t).key \in Keys
Entering(t) == AtPc(t, "enter") \/ Demands(t)
Entered(t) == IF Demands(t) THEN QueryFrame(BodyOp(t).key, TRUE) ELSE Top(t)
Caller(t) == IF Demands(t) THEN Stack(t) ELSE Below(t)

\* The task's own cache answers an observed query before the node is looked up.
EnterCached(t) ==
  /\ Entering(t)
  /\ Entered(t).obs
  /\ \E hit \in tasks[t].cache[Entered(t).key] :
       tasks' = IF StackCycle(t, hit.inc) THEN AbortQuery(t, Caller(t), Entered(t), "cycle")
                ELSE IF Canceled(t) THEN AbortQuery(t, Caller(t), Entered(t), "canceled")
                ELSE [tasks EXCEPT
                        ![t].stack = Append(Observe(Caller(t), hit.inc, hit.terminal.stamp,
                                                    hit.terminal.missing),
                                            [Entered(t) EXCEPT !.pc = "return"]),
                        ![t].ret = Result(hit.inc, hit.terminal, "reused")]
  /\ UNCHANGED <<nodes, index, host>>

\* QueryFamily::node leases the memoized incarnation or mints one.
EnterNode(t) ==
  LET key == Entered(t).key
      minted == index[key] = 0
      inc == IF minted THEN Len(nodes) + 1 ELSE index[key]
      frame == [Entered(t) EXCEPT !.inc = inc, !.pc = "find"]
  IN /\ Entering(t)
     /\ Entered(t).obs => tasks[t].cache[key] = {}
     /\ nodes' = IF minted THEN Append(nodes, NewNode(key)) ELSE nodes
     /\ index' = [index EXCEPT ![key] = inc]
     /\ tasks' = IF StackCycle(t, inc) THEN AbortQuery(t, Caller(t), frame, "cycle")
                 ELSE SetStack(t, Append(Caller(t), frame))
     /\ UNCHANGED <<host>>

DirectlyValid(terminal, rev) ==
  /\ Revisions[terminal.rev].compat = Revisions[rev].compat
  /\ \A x \in DOMAIN terminal.inputs : Revisions[rev].view[x] = terminal.inputs[x]

\* Loop head, then candidate discovery: the newest terminal below the cursor is
\* pinned under the node lock and handed to validation.
Find(t) ==
  LET frame == Top(t)
      older == {i \in Computed(frame.inc) : Attempts(frame.inc)[i].id < frame.cursor}
      candidate == Attempts(frame.inc)[Max(older)]
      pinned == [frame EXCEPT !.cursor = candidate.id, !.attempt = candidate.id, !.pinned = TRUE]
  IN /\ AtPc(t, "find")
     /\ tasks' =
          IF frame.cursor = Infinity /\ Canceled(t) THEN AbortQuery(t, Below(t), frame, "canceled")
          ELSE IF older = {} THEN SetStack(t, Goto(t, "claim"))
          ELSE IF DirectlyValid(candidate.terminal, tasks[t].rev)
          THEN SetStack(t, Append(OnTop(t, pinned), ValidateFrame(frame.inc, candidate.terminal, FALSE)))
          ELSE SetStack(t, OnTop(t, [frame EXCEPT !.cursor = candidate.id]))
     /\ UNCHANGED <<nodes, index, host>>

\* A computation of this very revision that was not declined before.
Joinable(a, rev, contended) == Computing(a) /\ a.rev = rev /\ a.id \notin contended

\* Under the node lock: join the newest computation of this very revision, or
\* claim a new attempt.
Claim(t) ==
  LET frame == Top(t)
      inc == frame.inc
      joinable == {i \in DOMAIN Attempts(inc) :
                     Joinable(Attempts(inc)[i], tasks[t].rev, frame.contended)}
      id == nodes[inc].next_attempt
  IN /\ AtPc(t, "claim")
     /\ \/ /\ joinable # {}
           /\ LET a == Attempts(inc)[Max(joinable)]
              IN /\ nodes' = AddWaiter(inc, a.id, 1)
                 /\ tasks' = SetStack(t, OnTop(t, [frame EXCEPT !.pc = "join", !.attempt = a.id]))
        \/ /\ joinable = {}
           /\ nodes' = [nodes EXCEPT
                          ![inc].next_attempt = @ + 1,
                          ![inc].attempts = Append(@, [id |-> id, rev |-> tasks[t].rev, owner |-> t,
                                                       waiters |-> 0, terminal |-> NoTerminal])]
           /\ tasks' = SetStack(t, Append(OnTop(t, [frame EXCEPT !.pc = "compute", !.attempt = id]),
                                          BodyFrame(inc, id)))
     /\ UNCHANGED <<index, host>>

-----------------------------------------------------------------------------
(* join *)

\* The wait graph has an edge from begin_wait to end_wait: a parked task waits
\* for the owner it recorded, even after that owner's attempt has ended.
WaitsFor(t) == IF AtPc(t, "parked") THEN {Top(t).owner} ELSE {}

\* The owners a wait on owner leads to.
Reached(owner) ==
  LET reach[n \in 0 .. Cardinality(Tasks)] ==
        IF n = 0 THEN {owner} ELSE reach[n - 1] \cup UNION {WaitsFor(u) : u \in reach[n - 1]}
  IN reach[Cardinality(Tasks)]

Unpark(frame) == [x \in DOMAIN frame \ {"owner"} |-> frame[x]]

\* What both passes over the attempt do when it is not there to wait for.
JoinEnded(t) ==
  LET frame == Unpark(Top(t))
      inc == frame.inc
      id == frame.attempt
  IN \/ /\ Canceled(t)
        /\ nodes' = DecrementWaiter(inc, id)
        /\ tasks' = AbortQuery(t, Below(t), frame, "canceled")
     \/ /\ ~Canceled(t) /\ ~HasAttempt(inc, id)
        /\ tasks' = SetStack(t, Restart(t, frame))
        /\ UNCHANGED nodes
     \/ /\ ~Canceled(t) /\ HasAttempt(inc, id) /\ ~Computing(AttemptOf(inc, id))
        /\ nodes' = DecrementWaiter(inc, id)
        /\ tasks' = Answer(t, Below(t), frame, inc, id, AttemptOf(inc, id).terminal, "joined")

\* Mutant: a declined wait is not remembered.
JoinForgetful(t) ==
  LET frame == Top(t)
      attempt == AttemptOf(frame.inc, frame.attempt)
  IN /\ AtPc(t, "join")
     /\ \/ JoinEnded(t)
        \/ /\ ~Canceled(t)
           /\ HasAttempt(frame.inc, frame.attempt) /\ Computing(attempt)
           /\ IF t \in Reached(attempt.owner)
              THEN /\ nodes' = DecrementWaiter(frame.inc, frame.attempt)
                   /\ tasks' = SetStack(t, Restart(t, frame))
              ELSE /\ tasks' = SetStack(t, OnTop(t, With([frame EXCEPT !.pc = "parked"], "owner", attempt.owner)))
                   /\ UNCHANGED nodes
     /\ UNCHANGED <<index, host>>

\* First pass: a wait that would close a loop is declined and remembered.
Join(t) ==
  LET frame == Top(t)
      attempt == AttemptOf(frame.inc, frame.attempt)
  IN /\ AtPc(t, "join")
     /\ \/ JoinEnded(t)
        \/ /\ ~Canceled(t)
           /\ HasAttempt(frame.inc, frame.attempt) /\ Computing(attempt)
           /\ IF t \in Reached(attempt.owner)
              THEN /\ nodes' = DecrementWaiter(frame.inc, frame.attempt)
                   /\ tasks' = SetStack(t, Restart(t, [frame EXCEPT !.contended = @ \cup {frame.attempt}]))
              ELSE /\ tasks' = SetStack(t, OnTop(t, With([frame EXCEPT !.pc = "parked"], "owner", attempt.owner)))
                   /\ UNCHANGED nodes
     /\ UNCHANGED <<index, host>>

\* Second pass, once notified: the attempt ended, or the request was canceled.
Wake(t) ==
  /\ AtPc(t, "parked")
  /\ JoinEnded(t)
  /\ UNCHANGED <<index, host>>

-----------------------------------------------------------------------------
(* Validation *)

\* The candidate on top of the query frame below is dirty: try an older one.
Dirty(t) ==
  LET query == Last(Below(t))
  IN SetStack(t, Append(Front(Below(t)), [query EXCEPT !.pinned = FALSE]))

\* The incarnations that are the current ones of their keys.
Memoized == {index[key] : key \in Keys} \ {0}

\* One dependency of the candidate: its certificate answers for it, or its node
\* is gone from the memo, or it is demanded without being observed.
ValidateDependency(t) ==
  LET frame == Top(t)
      dep == frame.terminal.deps[frame.next]
      node == nodes[dep.inc]
  IN /\ At(t, "validate")
     /\ frame.next <= Len(frame.terminal.deps)
     /\ tasks' =
          IF Accepts(node.validated_at, tasks[t].rev)
          THEN IF node.validated_at.stamp = dep.stamp
               THEN SetStack(t, OnTop(t, [frame EXCEPT !.next = @ + 1]))
               ELSE Dirty(t)
          ELSE IF dep.inc \notin Memoized THEN Dirty(t)
          ELSE SetStack(t, Append(Stack(t), QueryFrame(node.key, FALSE)))
     /\ UNCHANGED <<nodes, index, host>>

\* Every dependency holds: certify the terminal for this revision and reuse it.
\* A traversal that had to compute or join a dependency is repeated once.
Reuse(t) ==
  LET frame == Top(t)
      query == Last(Below(t))
  IN /\ At(t, "validate")
     /\ frame.next > Len(frame.terminal.deps)
     /\ nodes' = [nodes EXCEPT ![frame.inc] = MarkValidated(@, Certificate(frame.terminal, tasks[t].rev))]
     /\ tasks' = IF frame.retryable /\ ~frame.again
                 THEN SetStack(t, OnTop(t, ValidateFrame(frame.inc, frame.terminal, TRUE)))
                 ELSE Answer(t, Front(Below(t)), query, frame.inc, query.attempt, frame.terminal, "reused")
     /\ UNCHANGED <<index, host>>

-----------------------------------------------------------------------------
(* Evaluation *)

\* QueryContext::input aborts on an absent leaf; optional_input records it.
ReadInput(t) ==
  LET frame == Top(t)
      op == BodyOp(t)
      stamp == Revisions[tasks[t].rev].view[op.leaf]
  IN /\ BodyActive(t)
     /\ op.op \in {"input", "optional"}
     /\ tasks' = SetStack(t, OnTop(t,
          IF op.op = "input" /\ stamp = Missing THEN [frame EXCEPT !.abort = "missing"]
          ELSE [frame EXCEPT !.inputs = With(@, op.leaf, stamp), !.log = Append(@, stamp)]))
     /\ UNCHANGED <<nodes, index, host>>

KeyRank(inc) == CHOOSE i \in DOMAIN KeyOrder : KeyOrder[i] = nodes[inc].key

\* TaskDependencies::into_observations: canonical order, then incarnation.
Observations(deps) ==
  SetToSortSeq({[inc |-> i, stamp |-> deps[i]] : i \in DOMAIN deps},
               LAMBDA a, b : \/ KeyRank(a.inc) < KeyRank(b.inc)
                             \/ KeyRank(a.inc) = KeyRank(b.inc) /\ a.inc < b.inc)

\* Mutant: the stamp is kept whenever the value is the same.
SameValue(previous, value, missing) == previous.value = value

\* The previous terminal's stamp names this answer too.
SameAnswer(previous, value, missing) == previous.value = value /\ previous.missing = missing

\* publish: red when the newest terminal has the same value and cone purity.
Publish(t) ==
  LET body == Top(t)
      query == Last(Below(t))
      inc == body.inc
      value == BodyOp(t).value
      missing == body.missing \/ \E x \in DOMAIN body.inputs : body.inputs[x] = Missing
      previous == Attempts(inc)[Max(Computed(inc))].terminal
      red == Computed(inc) # {} /\ SameAnswer(previous, value, missing)
      terminal == [rev |-> tasks[t].rev, value |-> value, missing |-> missing,
                   stamp |-> IF red THEN previous.stamp ELSE nodes[inc].next_stamp,
                   deps |-> Observations(body.deps), inputs |-> body.inputs]
  IN /\ BodyActive(t)
     /\ BodyOp(t).op = "done"
     /\ ~Canceled(t)
     /\ nodes' = [nodes EXCEPT
                    ![inc].next_stamp = IF red THEN @ ELSE @ + 1,
                    ![inc].attempts[Position(inc, body.attempt)].terminal = terminal,
                    ![inc].validated_at = Certificate(terminal, tasks[t].rev)]
     /\ tasks' = Answer(t, Front(Below(t)), query, inc, body.attempt, terminal, "computed")
     /\ UNCHANGED <<index, host>>

\* The body failed, or the request was canceled while it ran: the attempt goes,
\* and what the body had observed is replayed in the enclosing body.
AbortBody(t) ==
  LET body == Top(t)
      query == Last(Below(t))
      inc == body.inc
      why == IF Canceled(t) THEN "canceled" ELSE body.abort
  IN /\ At(t, "body")
     /\ body.abort # "none" \/ (BodyOp(t).op = "done" /\ Canceled(t))
     /\ nodes' = [nodes EXCEPT ![inc] = RemoveAttempt(@, Position(inc, body.attempt))]
     /\ tasks' = AbortQuery(t, ObserveAbortPrefix(Front(Below(t)), body), query, why)
     /\ UNCHANGED <<index, host>>

-----------------------------------------------------------------------------
(* Return: the node lease drops, and the caller goes on with the answer. *)

\* Task::defer_validation_proofs marks every traversal of the task.
DeferProofs(stack) ==
  [i \in DOMAIN stack |-> IF stack[i].kind = "validate" THEN [stack[i] EXCEPT !.retryable = TRUE]
                          ELSE stack[i]]

\* Mutant: a cycle met while validating a stale edge fails the query.
EscapesCycle(t, why) == why = "cycle" \/ (why = "canceled" /\ Canceled(t))

\* The only abort of a dependency's demand that is not just a dirty candidate.
Escapes(t, why) == why = "canceled" /\ Canceled(t)

Continue(t, stack) == [tasks EXCEPT ![t].stack = stack, ![t].ret = NoReturn]

\* request_impl: a canceled request has no answer, even a finished one. The task
\* drops its leases and its cache; the answer keeps a lease of its own.
EndRequest(t, ret) ==
  LET answer == IF Canceled(t) /\ ~IsAbort(ret) THEN Abort("canceled") ELSE ret
  IN [tasks EXCEPT ![t].stack = << >>, ![t].status = "done", ![t].ret = answer,
                   ![t].leases = IF IsAbort(answer) THEN {} ELSE {<<answer.inc, Top(t).attempt>>},
                   ![t].cache = IdleTask.cache]

\* Mutant: the stamp alone is compared, whichever incarnation answered.
AnswersAnyhow(ret, dep) == ~IsAbort(ret)

\* The incarnation that was observed is the one that answered.
AnswersFor(ret, dep) == ~IsAbort(ret) /\ ret.inc = dep.inc

Deliver(t, stack, ret) ==
  LET caller == Last(stack)
      rest == Front(stack)
  IN IF stack = << >> THEN EndRequest(t, ret)
     ELSE IF caller.kind = "body"
     THEN Continue(t, Append(rest, IF IsAbort(ret) THEN [caller EXCEPT !.abort = ret.abort]
                                   ELSE [caller EXCEPT !.log = Append(@, ret.terminal.value)]))
     ELSE LET query == [Last(rest) EXCEPT !.pinned = FALSE]
              dep == caller.terminal.deps[caller.next]
              matched == AnswersFor(ret, dep)
              marked == IF matched /\ ret.execution # "reused" THEN DeferProofs(stack) ELSE stack
          IN IF IsAbort(ret) /\ Escapes(t, ret.abort)
             THEN AbortQuery(t, Front(rest), query, ret.abort)
             ELSE IF matched /\ ret.terminal.stamp = dep.stamp
             THEN Continue(t, Append(Front(marked), [Last(marked) EXCEPT !.next = @ + 1]))
             ELSE Continue(t, Append(Front(Front(marked)), query))

Return(t) ==
  LET inc == Top(t).inc
      after == Deliver(t, Below(t), tasks[t].ret)
      retire == inc # 0 /\ Retires(nodes[inc], after, inc)
  IN /\ AtPc(t, "return")
     /\ tasks' = after
     /\ index' = IF retire THEN [index EXCEPT ![Top(t).key] = 0] ELSE index
     /\ UNCHANGED <<nodes, host>>

-----------------------------------------------------------------------------
(* Retention: a terminal without waiters and pins may go at any moment, and
   an empty node nobody leases leaves the memo. *)

Evict(inc) ==
  /\ host.evictions > 0
  /\ \E i \in Computed(inc) :
       LET a == Attempts(inc)[i]
           after == RemoveAttempt(nodes[inc], i)
       IN /\ a.waiters = 0
          /\ ~Pinned(inc, a.id)
          /\ nodes' = [nodes EXCEPT ![inc] = after]
          /\ index' = IF Retires(after, tasks, inc)
                      THEN [index EXCEPT ![nodes[inc].key] = 0] ELSE index
  /\ host' = [host EXCEPT !.evictions = @ - 1]
  /\ UNCHANGED tasks

-----------------------------------------------------------------------------
Init ==
  /\ nodes = << >>
  /\ index = [key \in Keys |-> 0]
  /\ tasks = [t \in Tasks |-> IdleTask]
  /\ host \in Scenarios

TaskStep(t) ==
  \/ EnterCached(t) \/ EnterNode(t) \/ Find(t) \/ Claim(t)
  \/ Join(t) \/ Wake(t)
  \/ ValidateDependency(t) \/ Reuse(t)
  \/ ReadInput(t) \/ Publish(t) \/ AbortBody(t)
  \/ Return(t)

AllServed == host.asks = << >> /\ \A t \in Tasks : tasks[t].status = "idle"

Next ==
  \/ \E t \in Tasks : TaskStep(t) \/ StartRequest(t) \/ FinishRequest(t) \/ Cancel(t)
  \/ \E inc \in DOMAIN nodes : Evict(inc)
  \/ AllServed /\ UNCHANGED vars

\* A running request is a thread the scheduler keeps running; starting,
\* canceling and evicting are the environment's choice.
Fairness == \A t \in Tasks : WF_vars(TaskStep(t)) /\ WF_vars(FinishRequest(t))

Spec == Init /\ [][Next]_vars /\ Fairness

-----------------------------------------------------------------------------
(* What the engine keeps, whatever the evaluators compute *)

\* The fields every incarnation, attempt and task keeps in range.
TypeOK ==
  /\ \A key \in Keys : index[key] \in 0 .. Len(nodes)
  /\ \A inc \in DOMAIN nodes :
       /\ nodes[inc].key \in Keys
       /\ \A i \in DOMAIN Attempts(inc) :
            /\ Attempts(inc)[i].id \in 1 .. nodes[inc].next_attempt - 1
            /\ Attempts(inc)[i].rev \in RevIds
            /\ Attempts(inc)[i].owner \in Tasks
            /\ Attempts(inc)[i].waiters \in Nat
  /\ \A t \in Tasks : tasks[t].status \in {"idle", "running", "done"}

\* decrement_waiter's assertion and its purpose: an attempt counts exactly the
\* tasks that are joining it, so no waiter is lost and none is left behind. The
\* type invariant is its first part.
WaitersCounted ==
  /\ TypeOK
  /\ \A inc \in DOMAIN nodes : \A i \in DOMAIN Attempts(inc) :
       Attempts(inc)[i].waiters =
         Cardinality({t \in Tasks : /\ Running(t) /\ Top(t).kind = "query"
                                    /\ Top(t).pc \in {"join", "parked"}
                                    /\ Top(t).inc = inc /\ Top(t).attempt = Attempts(inc)[i].id})

\* Nothing leaks: a computing attempt has a live body that owns it, and a node
\* in the memo holds an attempt or is leased.
NoOrphans ==
  /\ \A inc \in DOMAIN nodes : \A i \in DOMAIN Attempts(inc) :
       Computing(Attempts(inc)[i]) =>
         \E j \in DOMAIN Stack(Attempts(inc)[i].owner) :
           LET f == Stack(Attempts(inc)[i].owner)[j]
           IN f.kind = "body" /\ f.inc = inc /\ f.attempt = Attempts(inc)[i].id
  /\ \A key \in Keys : index[key] # 0 =>
       Attempts(index[key]) # << >> \/ Leased(tasks, index[key])

\* The exact-observation protocol: what a request has observed, and the
\* candidate a validation is working on, stays retained until the request or
\* the validation lets go of it, whatever retention evicts meanwhile.
ProtectedStayRetained ==
  \A t \in Tasks :
    /\ \A lease \in tasks[t].leases : HasAttempt(lease[1], lease[2])
    /\ \A i \in DOMAIN Stack(t) : Stack(t)[i].kind = "validate" =>
         HasAttempt(Stack(t)[i].inc, Stack(t)[i - 1].attempt)

\* One incarnation never gives one stamp to two values, or to two cones of
\* which only one observed an absent leaf.
StampsNameValues ==
  \A inc \in DOMAIN nodes : \A i, j \in Computed(inc) :
    LET a == Attempts(inc)[i].terminal
        b == Attempts(inc)[j].terminal
    IN a.stamp = b.stamp => a.value = b.value /\ a.missing = b.missing

=============================================================================
