------------------------------- MODULE Batches -------------------------------
(***************************************************************************)
(* Execution permits, structured batches and the batch executor of the     *)
(* query runtime (task.rs, context.rs, executor.rs, node.rs): who may run, *)
(* on which thread, and who waits for whom.                                *)
(*                                                                         *)
(* A thread runs a stack of frames. A frame is the evaluation of one query *)
(* by one task, or, at the bottom of a worker's stack, its lane in a batch.*)
(* A body demands its queries one after the other in its own task, or as a *)
(* batch: every item is a task of its own, taken from the batch's queue by *)
(* the parent's thread and by the workers the batch could claim. While it  *)
(* waits, for a batch or for another task's computation, a task gives its  *)
(* permit away. Parking is a guard; JoinWakeup is about wake-ups.          *)
(***************************************************************************)
EXTENDS Integers, Sequences, FiniteSets

CONSTANTS
  Roots,            \* the queries requested, each by a request and thread of its own
  Queries,
  Demands,          \* the sequence of queries each body demands; acyclic
  Adaptive,         \* queries that demand them through the adaptive batch
  Budgets,          \* numbers of permits the runtime may be created with
  MaxFaults         \* bound: refused threads, panicking bodies, canceled requests, shutdown

ASSUME BatchAssumption ==
  /\ Roots \subseteq Queries /\ Adaptive \subseteq Queries
  /\ Demands \in [Queries -> Seq(Queries)]
  /\ \E rank \in [Queries -> 0 .. Cardinality(Queries)] :
       \A q \in Queries : \A i \in DOMAIN Demands[q] : rank[Demands[q][i]] < rank[q]
  /\ \A m \in Budgets : Roots \cap (1 .. m) = {}
  /\ Budgets \subseteq Nat \ {0}
  /\ MaxFaults \in Nat

\* A root's task is named by its query; a child task by the query whose batch it is
\* an item of, and the item.
Items(q) == {<<q, i>> : i \in DOMAIN Demands[q]}
Tasks == {<<r>> : r \in Roots} \cup UNION {Items(q) : q \in Queries}
Workers == UNION {1 .. (m - 1) : m \in Budgets}
Threads == Roots \cup Workers

VARIABLES
  maximum,          \* permits of this runtime
  node,             \* of each query: "none", "computing" or "terminal"
  owner,            \* the task that claimed it last
  attempt,          \* attempts of it that have failed
  stack,            \* frames of each thread, innermost last
  owns,             \* tasks with owns_permit set
  used,             \* PermitBudget::used
  slots,            \* RuntimeCore::batch_workers
  batch,            \* of each query: indices of items queued, jobs out, worst outcome
  jobs,             \* the executor's channel
  born,             \* workers spawned so far
  gone,             \* workers that have left their loop
  open,             \* the executor has its sender
  waits,            \* wait graph
  canceled,         \* roots whose token is canceled
  result,           \* how each root request ended
  faults

nodeVars == <<node, owner, attempt>>
permitVars == <<owns, used>>
executorVars == <<jobs, born, gone, open>>
vars == <<maximum, nodeVars, stack, permitVars, slots, batch, executorVars, waits, canceled, result, faults>>

\* A query being evaluated by a task; token is the root whose cancellation it
\* shares.
Frame(q, task, token) ==
  [q |-> q, task |-> task, token |-> token, pc |-> "look", acquired |-> FALSE,
   donated |-> FALSE, next |-> 1, claim |-> 0, how |-> "ok"]
NoBatch == [queue |-> <<>>, out |-> 0, worst |-> "ok"]

Top(th) == stack[th][Len(stack[th])]
At(th, label) == stack[th] # <<>> /\ Top(th).pc = label
Below(th) == SubSeq(stack[th], 1, Len(stack[th]) - 1)
SetTop(th, f) == stack' = [stack EXCEPT ![th] = Append(Below(th), f)]
Push(th, f) == stack' = [stack EXCEPT ![th] = Append(@, f)]
Goto(th, label) == SetTop(th, [Top(th) EXCEPT !.pc = label])

\* Mutant: what a panicking lane has lost is not missed.
WorstCalm(a, b) == IF "aborted" \in {a, b} THEN "aborted" ELSE "ok"

\* The outcome of two: a panic before an abort before an answer.
Worst(a, b) == IF "panic" \in {a, b} THEN "panic" ELSE IF "aborted" \in {a, b} THEN "aborted" ELSE "ok"

-----------------------------------------------------------------------------
(* Permits *)

\* Mutant: the task's own flag is not looked at.
AcquireTwice(task) ==
  /\ used < maximum
  /\ used' = used + 1
  /\ owns' = owns \cup {task}

\* acquire_permit; a task that owns one has nothing to wait for.
AcquirePermit(task) ==
  \/ task \in owns /\ UNCHANGED permitVars
  \/ /\ task \notin owns /\ used < maximum
     /\ used' = used + 1
     /\ owns' = owns \cup {task}

ReleasePermit(task) ==
  /\ used' = IF task \in owns THEN used - 1 ELSE used
  /\ owns' = owns \ {task}

-----------------------------------------------------------------------------
(* Wait graph *)

\* Whether a chain of waits leads from one task to another.
Reaches(from, to) ==
  LET reach[n \in 0..Cardinality(waits)] ==
        IF n = 0 THEN {from} ELSE reach[n-1] \cup {e[2] : e \in {w \in waits : w[1] \in reach[n-1]}}
  IN to \in reach[Cardinality(waits)]

-----------------------------------------------------------------------------
(* Evaluation of a query *)

\* A frame ends and its outcome reaches what is below: the caller of a request,
\* a body that goes on to its next demand or fails, or a lane. A panic ends the
\* lane it passes through, any other outcome is one of the batch's results.
Deliver(th, how) ==
  LET rest == Below(th)
      f == rest[Len(rest)]
      lane == rest # <<>> /\ f.pc = "lane"
      leaves == lane /\ how = "panic"
  IN /\ result' = IF rest = <<>> THEN [result EXCEPT ![th] = how] ELSE result
     /\ batch' = IF lane
                   THEN [batch EXCEPT ![f.q].worst = Worst(@, how),
                                      ![f.q].out = IF leaves /\ th \in Workers /\ Len(rest) = 1 THEN @ - 1 ELSE @]
                   ELSE batch
     /\ stack' = [stack EXCEPT ![th] =
          IF rest = <<>> \/ (leaves /\ th \in Workers /\ Len(rest) = 1) THEN <<>>
          ELSE [rest EXCEPT ![Len(rest)] =
                  IF lane THEN [f EXCEPT !.pc = IF leaves THEN "join_jobs" ELSE "lane"]
                  ELSE IF how = "ok" THEN [f EXCEPT !.next = @ + 1]
                  ELSE [f EXCEPT !.pc = "end", !.how = how]]]

\* query_task: canceled, or answered by a terminal.
LookReturns(th) ==
  LET f == Top(th) IN
  /\ At(th, "look")
  /\ \/ f.token \in canceled /\ Deliver(th, "aborted")
     \/ f.token \notin canceled /\ node[f.q] = "terminal" /\ Deliver(th, "ok")
  /\ UNCHANGED <<maximum, nodeVars, permitVars, slots, executorVars, waits, canceled, faults>>

LookClaims(th) ==
  LET f == Top(th) IN
  /\ At(th, "look") /\ f.token \notin canceled /\ node[f.q] = "none"
  /\ node' = [node EXCEPT ![f.q] = "computing"]
  /\ owner' = [owner EXCEPT ![f.q] = f.task]
  /\ Goto(th, "acquire")
  /\ UNCHANGED <<maximum, attempt, permitVars, slots, batch, executorVars, waits, canceled, result, faults>>

\* Mutant: the permit is kept while waiting.
LookJoinsKeeping(th) ==
  LET f == Top(th) IN
  /\ At(th, "look") /\ f.token \notin canceled /\ node[f.q] = "computing"
  /\ waits' = waits \cup {<<f.task, owner[f.q]>>}
  /\ SetTop(th, [f EXCEPT !.pc = "join", !.next = attempt[f.q]])
  /\ UNCHANGED <<maximum, nodeVars, permitVars, slots, batch, executorVars, canceled, result, faults>>

\* join: begin_wait, then the permit is given away. begin_wait refuses a cycle;
\* NoFalseCycle says that it never has to.
LookJoins(th) ==
  LET f == Top(th) IN
  /\ At(th, "look") /\ f.token \notin canceled /\ node[f.q] = "computing"
  /\ waits' = waits \cup {<<f.task, owner[f.q]>>}
  /\ ReleasePermit(f.task)
  /\ SetTop(th, [f EXCEPT !.pc = "join", !.next = attempt[f.q], !.donated = f.task \in owns])
  /\ UNCHANGED <<maximum, nodeVars, slots, batch, executorVars, canceled, result, faults>>

\* Mutant: the edge stays.
JoinEndsWaiting(th) ==
  LET f == Top(th)
      same == f.next = attempt[f.q]
      why == IF f.token \in canceled THEN "aborted" ELSE IF same THEN "ok" ELSE "retry"
  IN /\ At(th, "join")
     /\ f.token \in canceled \/ ~same \/ node[f.q] = "terminal"
     /\ SetTop(th, [f EXCEPT !.pc = "rejoin", !.how = why])
     /\ UNCHANGED <<maximum, waits, nodeVars, permitVars, slots, batch, executorVars, canceled, result, faults>>

\* The attempt it waits for has a terminal, has failed, or the task is canceled.
JoinEnds(th) ==
  LET f == Top(th)
      same == f.next = attempt[f.q]
      why == IF f.token \in canceled THEN "aborted" ELSE IF same THEN "ok" ELSE "retry"
  IN /\ At(th, "join")
     /\ f.token \in canceled \/ ~same \/ node[f.q] = "terminal"
     /\ waits' = {w \in waits : w[1] # f.task}
     /\ SetTop(th, [f EXCEPT !.pc = "rejoin", !.how = why])
     /\ UNCHANGED <<maximum, nodeVars, permitVars, slots, batch, executorVars, canceled, result, faults>>

Rejoin(th) ==
  LET f == Top(th) IN
  /\ At(th, "rejoin")
  /\ IF f.donated THEN AcquirePermit(f.task) ELSE UNCHANGED permitVars
  /\ \/ /\ f.how = "retry"
        /\ SetTop(th, Frame(f.q, f.task, f.token))
        /\ UNCHANGED <<batch, result>>
     \/ /\ f.how # "retry"
        /\ Deliver(th, f.how)
  /\ UNCHANGED <<maximum, nodeVars, slots, executorVars, waits, canceled, faults>>

Acquire(th) ==
  LET f == Top(th) IN
  /\ At(th, "acquire")
  /\ AcquirePermit(f.task)
  /\ SetTop(th, [f EXCEPT !.pc = "body", !.acquired = f.task \notin owns])
  /\ UNCHANGED <<maximum, nodeVars, slots, batch, executorVars, waits, canceled, result, faults>>

\* A body without demands returns, or panics.
Leaf(th) ==
  LET f == Top(th) IN
  /\ At(th, "body") /\ Demands[f.q] = <<>>
  /\ \/ Goto(th, "end") /\ UNCHANGED faults
     \/ /\ faults < MaxFaults
        /\ faults' = faults + 1
        /\ SetTop(th, [f EXCEPT !.pc = "end", !.how = "panic"])
  /\ UNCHANGED <<maximum, nodeVars, permitVars, slots, batch, executorVars, waits, canceled, result>>

\* The body has returned: publish or give up the attempt, then give the permit
\* back if it was taken for this body.
End(th) ==
  LET f == Top(th)
      how == IF f.how = "ok" /\ f.token \in canceled THEN "aborted" ELSE f.how
  IN /\ At(th, "end")
     /\ node' = [node EXCEPT ![f.q] = IF how = "ok" THEN "terminal" ELSE "none"]
     /\ attempt' = [attempt EXCEPT ![f.q] = IF how = "ok" THEN @ ELSE @ + 1]
     /\ IF f.acquired THEN ReleasePermit(f.task) ELSE UNCHANGED permitVars
     /\ Deliver(th, how)
     /\ UNCHANGED <<maximum, owner, slots, executorVars, waits, canceled, faults>>

-----------------------------------------------------------------------------
(* Structured batches *)

Least(a, b) == IF a < b THEN a ELSE b

\* BatchWorkerClaim::new: as many of the slots left as there are other items.
Grant(wanted) == Least(wanted, maximum - 1 - slots)

\* query_registered_batch, and the adaptive form, which stays in its task when
\* there is nothing to run in parallel.
Demand(th) ==
  LET f == Top(th)
      wanted == Len(Demands[f.q]) - 1
      alone == f.q \in Adaptive /\ (wanted = 0 \/ Grant(wanted) = 0)
  IN /\ At(th, "body") /\ Demands[f.q] # <<>>
     /\ slots' = IF alone THEN slots ELSE slots + Grant(wanted)
     /\ SetTop(th, IF alone THEN [f EXCEPT !.pc = "sequence"]
                   ELSE [f EXCEPT !.pc = "donate", !.claim = Grant(wanted)])
     /\ UNCHANGED <<maximum, nodeVars, permitVars, batch, executorVars, waits, canceled, result, faults>>

\* One demand after the other, in the same task.
Sequence(th) ==
  LET f == Top(th) IN
  /\ At(th, "sequence")
  /\ IF f.next > Len(Demands[f.q]) THEN Goto(th, "end")
     ELSE Push(th, Frame(Demands[f.q][f.next], f.task, f.token))
  /\ UNCHANGED <<maximum, nodeVars, permitVars, slots, batch, executorVars, waits, canceled, result, faults>>

\* StructuredWaitGuard: an edge to every item. ParentPermitDonation.
Donate(th) ==
  LET f == Top(th) IN
  /\ At(th, "donate")
  /\ waits' = waits \cup ({f.task} \X Items(f.q))
  /\ batch' = [batch EXCEPT ![f.q] = [NoBatch EXCEPT !.queue = [i \in DOMAIN Demands[f.q] |-> i]]]
  /\ ReleasePermit(f.task)
  /\ SetTop(th, [f EXCEPT !.pc = "dispatch", !.donated = f.task \in owns])
  /\ UNCHANGED <<maximum, nodeVars, slots, executorVars, canceled, result, faults>>

\* submit, once per slot: a thread for the job unless all are there, then the
\* job. A refused thread or a closed executor ends the dispatch.
Dispatch(th) ==
  LET f == Top(th)
      due == f.next <= f.claim
      spawns == Cardinality(born) < maximum - 1
  IN /\ At(th, "dispatch")
     /\ \/ /\ due /\ open
           /\ born' = IF spawns THEN born \cup {Cardinality(born) + 1} ELSE born
           /\ jobs' = Append(jobs, [Frame(f.q, <<>>, f.token) EXCEPT !.pc = "lane"])
           /\ batch' = [batch EXCEPT ![f.q].out = @ + 1]
           /\ SetTop(th, [f EXCEPT !.next = @ + 1])
           /\ UNCHANGED faults
        \/ /\ due /\ (~open \/ (spawns /\ faults < MaxFaults))
           /\ faults' = IF open THEN faults + 1 ELSE faults
           /\ SetTop(th, [f EXCEPT !.pc = "lane", !.how = "aborted"])
           /\ UNCHANGED <<born, jobs, batch>>
        \/ /\ ~due
           /\ Goto(th, "lane")
           /\ UNCHANGED <<born, jobs, batch, faults>>
     /\ UNCHANGED <<maximum, nodeVars, permitVars, slots, gone, open, waits, canceled, result>>

\* run_registered_batch_worker, inline and on a worker: take the next item; with
\* none left, the parent goes on and the job is done.
Lane(th) ==
  LET f == Top(th)
      queue == batch[f.q].queue
  IN /\ At(th, "lane")
     /\ \/ /\ queue # <<>>
           /\ batch' = [batch EXCEPT ![f.q].queue = Tail(@)]
           /\ Push(th, Frame(Demands[f.q][Head(queue)], <<f.q, Head(queue)>>, f.token))
        \/ /\ queue = <<>> /\ (th \in Roots \/ Len(stack[th]) > 1)
           /\ Goto(th, "join_jobs")
           /\ UNCHANGED batch
        \/ /\ queue = <<>> /\ th \in Workers /\ Len(stack[th]) = 1
           /\ stack' = [stack EXCEPT ![th] = <<>>]
           /\ batch' = [batch EXCEPT ![f.q].out = @ - 1]
     /\ UNCHANGED <<maximum, nodeVars, permitVars, slots, executorVars, waits, canceled, result, faults>>

\* Mutant: the parent does not wait for its workers.
JoinNoJobs(th) ==
  LET f == Top(th) IN
  /\ At(th, "join_jobs")
  /\ waits' = waits \ ({f.task} \X Items(f.q))
  /\ Goto(th, "reacquire")
  /\ UNCHANGED <<maximum, nodeVars, permitVars, slots, batch, executorVars, canceled, result, faults>>

\* Every job has reported; the wait edges go.
JoinJobs(th) ==
  LET f == Top(th) IN
  /\ At(th, "join_jobs") /\ batch[f.q].out = 0
  /\ waits' = waits \ ({f.task} \X Items(f.q))
  /\ Goto(th, "reacquire")
  /\ UNCHANGED <<maximum, nodeVars, permitVars, slots, batch, executorVars, canceled, result, faults>>

Reacquire(th) ==
  LET f == Top(th) IN
  /\ At(th, "reacquire")
  /\ IF f.donated THEN AcquirePermit(f.task) ELSE UNCHANGED permitVars
  /\ Goto(th, "absorb")
  /\ UNCHANGED <<maximum, nodeVars, slots, batch, executorVars, waits, canceled, result, faults>>

\* Mutant: a batch that fails keeps its slots.
AbsorbLeaking(th) ==
  LET f == Top(th)
      how == Worst(batch[f.q].worst, f.how)
  IN /\ At(th, "absorb")
     /\ slots' = IF how = "panic" THEN slots ELSE slots - f.claim
     /\ batch' = [batch EXCEPT ![f.q] = NoBatch]
     /\ SetTop(th, [f EXCEPT !.pc = "end", !.how = how, !.claim = 0])
     /\ UNCHANGED <<maximum, nodeVars, permitVars, executorVars, waits, canceled, result, faults>>

\* A panic, the first abort, a refused thread, or every item's terminal; the
\* slots are free again.
Absorb(th) ==
  LET f == Top(th)
      how == Worst(batch[f.q].worst, f.how)
  IN /\ At(th, "absorb")
     /\ slots' = slots - f.claim
     /\ batch' = [batch EXCEPT ![f.q] = NoBatch]
     /\ SetTop(th, [f EXCEPT !.pc = "end", !.how = how, !.claim = 0])
     /\ UNCHANGED <<maximum, nodeVars, permitVars, executorVars, waits, canceled, result, faults>>

-----------------------------------------------------------------------------
(* The executor *)

\* An idle worker takes the next job: a lane in its batch.
TakeJob(w) ==
  /\ w \in born \ gone /\ stack[w] = <<>> /\ jobs # <<>>
  /\ stack' = [stack EXCEPT ![w] = <<Head(jobs)>>]
  /\ jobs' = Tail(jobs)
  /\ UNCHANGED <<maximum, nodeVars, permitVars, slots, batch, born, gone, open, waits,
                 canceled, result, faults>>

\* Its queue is closed and empty.
WorkerExits(w) ==
  /\ w \in born \ gone /\ stack[w] = <<>> /\ jobs = <<>> /\ ~open
  /\ gone' = gone \cup {w}
  /\ UNCHANGED <<maximum, nodeVars, stack, permitVars, slots, batch, jobs, born, open, waits,
                 canceled, result, faults>>

\* shutdown takes the sender; it returns once every worker is gone.
Shutdown ==
  /\ open /\ faults < MaxFaults
  /\ open' = FALSE
  /\ faults' = faults + 1
  /\ UNCHANGED <<maximum, nodeVars, stack, permitVars, slots, batch, jobs, born, gone, waits,
                 canceled, result>>

Cancel(r) ==
  /\ r \notin canceled /\ stack[r] # <<>> /\ faults < MaxFaults
  /\ canceled' = canceled \cup {r}
  /\ faults' = faults + 1
  /\ UNCHANGED <<maximum, nodeVars, stack, permitVars, slots, batch, executorVars, waits, result>>

-----------------------------------------------------------------------------
Init ==
  /\ maximum \in Budgets
  /\ node = [q \in Queries |-> "none"]
  /\ owner = [q \in Queries |-> <<>>]
  /\ attempt = [q \in Queries |-> 0]
  /\ stack = [th \in Threads |-> IF th \in Roots THEN <<Frame(th, <<th>>, th)>> ELSE <<>>]
  /\ owns = {} /\ used = 0 /\ slots = 0
  /\ batch = [q \in Queries |-> NoBatch]
  /\ jobs = <<>> /\ born = {} /\ gone = {} /\ open = TRUE
  /\ waits = {}
  /\ canceled = {}
  /\ result = [r \in Roots |-> "none"]
  /\ faults = 0

Step(th) ==
  \/ LookReturns(th) \/ LookClaims(th) \/ LookJoins(th) \/ JoinEnds(th) \/ Rejoin(th)
  \/ Acquire(th) \/ Leaf(th) \/ End(th)
  \/ Demand(th) \/ Sequence(th) \/ Donate(th) \/ Dispatch(th) \/ Lane(th)
  \/ JoinJobs(th) \/ Reacquire(th) \/ Absorb(th)

Next ==
  \/ \E th \in Threads : Step(th)
  \/ \E w \in Workers : TakeJob(w) \/ WorkerExits(w)
  \/ \E r \in Roots : Cancel(r)
  \/ Shutdown

\* Threads run on; nothing forces the owner to shut down or a host to cancel.
Fairness ==
  /\ \A r \in Roots : WF_vars(Step(r))
  /\ \A w \in Workers : WF_vars(Step(w) \/ TakeJob(w) \/ WorkerExits(w))

Spec == Init /\ [][Next]_vars /\ Fairness

-----------------------------------------------------------------------------
(* Properties *)

PCs == {"look", "acquire", "body", "join", "rejoin", "sequence", "donate", "dispatch", "lane",
        "join_jobs", "reacquire", "absorb", "end"}

\* Every variable has its type.
TypeOK ==
  /\ maximum \in Budgets
  /\ node \in [Queries -> {"none", "computing", "terminal"}]
  /\ owner \in [Queries -> Tasks \cup {<<>>}]
  /\ attempt \in [Queries -> Nat]
  /\ \A th \in Threads : \A i \in DOMAIN stack[th] :
       LET f == stack[th][i]
       IN f.q \in Queries /\ f.task \in Tasks \cup {<<>>} /\ f.pc \in PCs /\ f.claim \in Nat
  /\ owns \subseteq Tasks /\ used \in 0..maximum /\ slots \in 0..(maximum - 1)
  /\ \A q \in Queries : batch[q].out \in 0..(maximum - 1)
  /\ \A i \in DOMAIN jobs : jobs[i].q \in Queries
  /\ gone \subseteq born /\ born \subseteq Workers
  /\ waits \subseteq Tasks \X Tasks
  /\ canceled \subseteq Roots
  /\ result \in [Roots -> {"none", "ok", "aborted", "panic"}]

Frames == UNION {{<<th, i>> : i \in DOMAIN stack[th]} : th \in Threads}
FrameAt(x) == stack[x[1]][x[2]]

\* Bodies run only with a permit of their task, one for each: at most `maximum'
\* of them at a time, through every donation, join and batch; and permits in use
\* are exactly those the tasks own. The type invariant is its first part.
BodiesHavePermits ==
  /\ TypeOK
  /\ used = Cardinality(owns)
  /\ \A x \in Frames :
       FrameAt(x).pc \in {"body", "sequence", "donate", "absorb"} /\ x[2] = Len(stack[x[1]])
         => FrameAt(x).task \in owns
  /\ \A task \in owns : \E x \in Frames : FrameAt(x).task = task /\ FrameAt(x).acquired

\* The slots that the batches under way have claimed, one by one.
Claimed == UNION {{x} \X (1 .. FrameAt(x).claim) : x \in Frames}

\* The slots taken are those of the batches under way, so a job never waits for
\* a thread: there are at least as many idle workers as jobs in the channel.
JobsHaveThreads ==
  /\ slots = Cardinality(Claimed)
  /\ Len(jobs) <= Cardinality({w \in born \ gone : stack[w] = <<>>})

InScope(q) ==
  \E y \in Frames : /\ FrameAt(y).q = q /\ FrameAt(y).task # <<>>
                    /\ FrameAt(y).pc \in {"dispatch", "lane", "join_jobs"}

\* A batch is a scope for what it has started: an item under evaluation, on any
\* thread, a worker in one of its lanes, and a job in the executor's channel each
\* have a parent that has not left the batch. Items no lane has taken are not
\* part of it: when the last lane panics they are dropped, and the parent goes on
\* to report the panic.
BatchesAreScopes ==
  /\ \A x \in Frames :
       /\ FrameAt(x).task \notin {<<>>} \cup {<<r>> : r \in Roots} => InScope(FrameAt(x).task[1])
       /\ FrameAt(x).task = <<>> => InScope(FrameAt(x).q)
  /\ \A i \in DOMAIN jobs : InScope(jobs[i].q)

\* A body that returns has every answer it demanded, whoever computed them and
\* whatever was refused, canceled or panicked on the way.
AnswersAreComplete ==
  \A q \in Queries : node[q] = "terminal" => \A i \in DOMAIN Demands[q] : node[Demands[q][i]] = "terminal"

\* begin_wait never refuses: when demands are acyclic, the edges of joins and of
\* batches together never close a cycle of tasks.
NoFalseCycle ==
  \A th \in Threads : At(th, "look") /\ node[Top(th).q] = "computing" =>
    ~Reaches(owner[Top(th).q], Top(th).task)

\* Every request returns, with any number of permits: whoever waits has given
\* its permit to someone who can run. And shutdown returns: every worker finishes
\* its jobs, those they submit included, and leaves.
EveryoneReturns ==
  /\ \A r \in Roots : <>(result[r] # "none")
  /\ ~open ~> gone = born
=============================================================================
