# A TLA+ verification of Rue's query runtime and compiler service

Rue is a programming language with a batch compiler, a daemon and a test
driver, all written in Rust. Every compilation runs on one engine: the crate
`rue-query`, a concurrent, demand-driven, incremental query runtime. It decides
what the compiler may reuse after an edit, which thread computes what, when a
request waits for another one, and what is thrown away. A mistake there is a
wrong program, a hang or a panic that no unit test of the compiler would be able
to reproduce. This project models that engine, and the compiler service through
which invocations share it. Paths below are relative to
`src/crates/rue-query/src/` unless they start with `src/`.

## 1. Inventory

| Component | State | Operations | What is hard | Correct when |
|---|---|---|---|---|
| Revision store (`revision.rs`) | retained input views with pin counts, `retired_through`, epochs and the head of every namespace's chain | publish a full view, publish an overlay, pin, release, sweep | long sequences of legal publications; retirement of ancestors; compaction | an epoch is an additive chain; an entry answers what was published; an id names one view |
| Query engine (`node.rs`, `task.rs`, `revision.rs`, `context.rs`) | per family a memo of nodes; per node its attempts, stamps and one validation certificate; per task a stack of frames, leases, a cache | request, reuse, validate, claim, join, compute, publish, abort, cancel, evict | threads meet at nodes; validation runs without locks; graphs change between revisions | every answer is the one a from-scratch evaluation gives; every request returns |
| Terminal retention (`retention.rs`, `node.rs`, `revision.rs`) | per family a queue, a count and a watermark; for the runtime a claim, a pending flag, a cursor and a watermark | publish, pin, release, family pass, runtime sweep | counters outside locks; a sweep handed from one thread to the next | nothing protected is evicted; the limits hold once nothing is protected |
| Join parking (`node.rs`, `outcome.rs`) | `WaitCell` generation and condition variable, `CancellationToken` flag and watchers | join, park, notify, watch, cancel | lost wake-ups, lock order | no parked join is forgotten; canceled and finished joins return |
| Wait graph (`revision.rs`) | edges from waiting to owning tasks | `begin_wait`, `end_wait` | crossing demands | no two requests wait for each other |
| Permits and batches (`context.rs`, `executor.rs`, `task.rs`) | a budget of permits, worker slots, the queue of a batch, the executor's threads and channel | acquire, donate, dispatch, run a lane, join, absorb, shut down | waiting with a permit in hand; nested batches; refused threads and panicking lanes | the owner of what is waited for can run; a batch never outlives its parent or loses an item silently |
| Attempt handoffs (`task.rs`) | per published terminal a lifecycle: pending, committing, committed or aborted | observe, validate, collect, claim, commit, roll back, abort | failure half way; overlapping roots; eviction meanwhile | all of a request's handoffs commit or none; what is committed rests on what is committed |
| Endorsement scopes (`task.rs`, `node.rs`) | proofs with leases, per task and per batch | endorse, publish, absorb | proofs that outlive what they prove | a promoted cone is retained |
| Teardown (`teardown.rs`) | values bound late, released once | bind, release | reference cycles | everything is released once |
| Compiler database and session (`src/crates/rue-compiler/src/`) | families, revisions of the source set | publish an edit, request artifacts | uses all of the above | reads answers of one revision |
| Daemon and its clients (`src/crates/rue/src/daemon/`, `src/crates/rue/src/daemon_client.rs`) | two lock files, a socket and a crash record; the service's queue, owner thread, handlers; the invocation | start, connect, submit, await, stop, idle out, panic | processes that die at any moment, stale files, answers that never come | one service; no build compiled twice; admitted builds are answered if their clients read; everything ends |
| Watch and test drivers (`src/crates/rue/src/watch.rs`, `daemon_service.rs`) | file observations, run roots, a retained session | observe, rebuild, run | files that change while they are read | the last build is of the last files |
| Language runtime, allocator (`src/crates/rue-runtime/src/`, `src/crates/rue-allocator/src/lib.rs`) | threads and heap of compiled programs | spawn, join, park, allocate | races, size arithmetic | every join sees its thread's result |
| Frontend, semantic analysis, optimizer, code generation, linker, tools | none that outlives a call | pure transformations | size | checked in the repository against oracles |

How they interact: a session publishes revisions to the store and starts a
request per artifact. A request pins its revision and runs a task. The task's
queries look up a node in a family's memo, try to reuse what the node retains
(which validates dependencies, which may demand further queries), or claim an
attempt and run the family's evaluator, which demands more queries. Tasks meet
at nodes: a second task at the same revision joins the first one's attempt, after
the wait graph has agreed, and parks in the node's `WaitCell`. Publication
enqueues the terminal for retention; leases protect what a request has observed
until the request ends, and its end triggers retention. A body may demand many
queries at once: each becomes a task of its own on the parent's thread or on one
of the executor's. The side effects bodies have registered are committed by the
root request that returns an answer resting on them. Above all that, invocations
of the compiler find or start the service of their directory, which runs one
build at a time on one retained session.

`PROJECT.json` lists the components with their sources and what is left out of
each, and the hazards: the lines where this code can go wrong in ways a test
hardly reaches, with the properties that would notice.

## 2. Modules

| Module | Models | Properties |
|---|---|---|
| `RevisionStore` | the revision store; one action per operation, each under the store's write lock | in the module |
| `RevisionStoreProofs` | theorems about `RevisionStore` | |
| `QueryEngine` | tasks, nodes, validation, join, evaluation, eviction; one action per section between two lock acquisitions | of counts, owners, protection and stamps in the module; of answers in `QueryConsistency` |
| `QueryEngineProofs` | theorems about `QueryEngine` | |
| `QueryConsistency` | the abstract specification: from-scratch evaluation, and what the engine promises relative to it | |
| `Retention` | family and runtime retention; one action per atomic operation or lock section | in the module |
| `RetentionProofs` | theorems about `Retention` | |
| `JoinWakeup` | `join`, `WaitCell`, `CancellationToken` at the level of their mutexes | in the module |
| `JoinWakeupProofs` | theorems about `JoinWakeup` | |
| `Batches` | permits, structured batches, the batch executor | in the module |
| `BatchesProofs` | theorems about `Batches` | |
| `AtomicHandoffs` | the abstract specification of handoffs: sets of lifecycles commit in one step | `Closed` |
| `AttemptHandoffs` | the commit protocol of `task.rs`; implements `AtomicHandoffs` | in the module |
| `AttemptHandoffsProofs` | theorems about `AttemptHandoffs`, the refinement included | |
| `Daemon` | the compiler service, its clients, their locks, files and connections | in the module |
| `DaemonProofs` | theorems about `Daemon`: processes, locks and files | |
| `DaemonRequestProofs` | theorems about `Daemon`: requests, the queue and the owner; extends `DaemonProofs` | |
| `MC*` | constants and symmetry for TLC | |

Every module also holds the mutants of its definitions ("Mutant: ..."): plausible
bugs, each of which makes TLC report the property it is aimed at.

### RevisionStore

`entries`, `retired_through`, `next_epoch` and `epoch_heads` are the fields of
`RevisionStore`; `published` and `reply` are history variables (everything ever
accepted; the last answer and the view it was given for). A leaf map is a function
in which 0, the reserved stamp, stands for an absent leaf. `RevisionInputs` is a
sequence of layers plus the identity of the shared parent, so that the structural
equality the code uses for idempotence (same parent node, same delta) is kept
apart from equality of views. Requests are sets of pairs, malformed ones included.

The compared epochs are never ordered, ids are; `retired_through` starts at 0, so
id 0 cannot be published; both are as in the code.

### QueryEngine

A task's stack has one frame per interruptible Rust call: `query`
(`query_task_impl`), `validate` (`valid_for_revision`) and `body` (the evaluator,
which is also the `TaskFrame`). A `query` frame's `pc` walks through the code:
`enter` (task cache, then `QueryFamily::node`), `find` (candidate discovery),
`claim`, `join`, `parked`, `compute`, `return`. Nodes are numbered by incarnation
and never reused; `index` is the family memo. The program is the constant `Step`:
what a key's body does next, given the answers so far; so evaluators are
deterministic, as the engine requires of them, and propagate an abort they
receive. The revisions are constants too, restricted by the assumption
`EpochsAreChains`, which is what `RevisionStore` guarantees (and what
`EpochSoundness` proves of it for all parameters). The module's other assumption,
`EngineAssumption`, is about the host: finitely many tasks, and queries asked for
by their keys at revisions that exist.

What a task does to its own frames between two lock acquisitions belongs to the
action that precedes it. `Evict` may remove any terminal without waiters and pins
at any time: `Retention` says when the code does it, here any choice must be
safe. The retirement of an empty node is one step with the eviction or the lease
drop that causes it (the code re-checks under the shard lock).

`request_impl`'s end is `EndRequest`: a terminal of a canceled request becomes an
abort, the task's leases and cache go, the root terminal keeps the result lease.

### Retention

A worker is a thread that runs a request; `pc` names the atomic operation it is
about to perform. A terminal has charge 1 in one dimension; the code has two
(bytes and dependency observations) that it tests and re-arms alike. Pins stand
for the three protections `evict_one_from_family` looks at. Whether a publication
crosses a probe quantum depends on byte sizes and is a free choice. `Never` stands
for `usize::MAX`, a watermark no count reaches.

### JoinWakeup

One node, one attempt, its joiners, its owner, and the cancellation tokens as
actors of their own. A section that takes no second mutex is one action; `state`,
`generation` and `registry` hold a mutex across another acquisition.
`notify_all` passes through the generation mutex (`Bump`) and then wakes (`Wake`).
`TokenOf` gives each join its request's token; joins may share one, as the children
of a batch share their parent's (`context.rs:612`).

### Batches

A thread's stack has a frame per query it is evaluating, and a lane at the bottom
of a worker's. A frame's `pc` follows `query_task_impl` (`look`, `join`, `rejoin`,
`acquire`, `body`, `end`) and `query_registered_batch_with_claim` (`donate`,
`dispatch`, `lane`, `join_jobs`, `reacquire`, `absorb`); `sequence` is the adaptive
form that found no slot. A task is named by its batch and the item's index: a query
demanded twice is two items. Bodies without demands may panic. The instance decides who demands what; demands are acyclic,
so that every refusal of `begin_wait` would be a false one. A permit is taken
when one is free, by whoever is scheduled: the code's condition variable wakes
somebody, and a thread that arrives may be faster.

### AttemptHandoffs

Evaluation is reduced to what produces and observes lifecycles: a query is
reused if a terminal of it is retained and its handoffs validate, else its body
is entered, and it publishes. The commit is modelled lock by lock: collection
visits one lifecycle per step, claims go in the order of addresses, each callback
is a step that may panic with its effect in force or not, `finish_commit` and the
rollback change one lifecycle at a time, and other roots, the evictor and a
cancellation may come in between. `installed` is the history of effects: the set
of callbacks whose effect is in force.

The refinement maps a lifecycle that is being committed to `pending` until its
owner has passed the last test (`Decide`), and to `committed` from then on.
`CommitsAtomically` is the abstract specification under this mapping: what the
code does lifecycle by lifecycle is, seen from outside, one step that leaves no
dependency behind, and nothing that was committed or aborted changes again.

### Daemon

`startup` and `lock` are the two `flock`ed files, `socket` is the socket file with
the process that bound it (which may be dead), `crash` the crash record. A service
has the accept loop's `pc`, its `stop` flag, the job channel (`open`, `queue`), the
`queued` counter and the owner thread. `handler` is the service's side of a
connection and `inbox` what the client has not read. The kernel drops locks and
connections of a process that ends, however it ends. Every frame the service sends
is written under a deadline (`RESPONSE_WRITE_TIMEOUT`): to a client in `Slow`, which
is alive and may not read for longer than that, the write may fail (`Fails`), and the
handler then does what it does with a client that has gone: it hangs up, and cancels
the build if it was the acceptance that failed. The history `cutoff` names the
clients this happened to: with a killed and a panicked process they are what may
cost an admitted build its answer (`AdmittedIsAnswered`). A write to any other client is delivered or finds its
connection closed; so it always ends, which is what fairness of the handlers needs.
Every blocking read of a
client has a deadline in the code except `await_build`, and `Timeout` has the same
exception. A start that returns without the service it launched, because it gave up
or because another service welcomed it, leaves that service to itself (`Left`,
`abandoned`).

## 3. Runs

| Run | Shows |
|---|---|
| `store` | all properties of the store, with two namespaces, siblings, restamps, removals, compaction, malformed requests and pins, at a limit of two entries |
| `query` | reuse across epochs over an optional leaf that disappears and returns: a cone that observed an absence is never carried forward; a node that is retired and minted again between the memo check of a validation and its demand, with another value under the old stamp; certificates carried from one revision of an epoch to a later one; evictions and a cancellation at any point while two requests share a dependency whose value survives a restamp, or whose leaf is removed |
| `cycle` | two requests that meet on a real cycle from both ends, and on an edge that points the other way in the other's revision; liveness |
| `retention` | two workers, two families with limits 0 and 2, a budget of 1, three publications |
| `join` | every interleaving of three joins, two of them with one token, their owner and the cancellation of both tokens; joins of an ended attempt return; those of a canceled token do unless the node's mutexes have been crossed in one of the two ways of section 6.3 |
| `handoffs` | two roots over a shared chain of lifecycles, one of them cancelable, one eviction, panics anywhere; the refinement |
| `batches` | two roots whose batches overlap, on one and on two permits, with one fault (refused thread, panic, cancellation, shutdown) anywhere |
| `daemon` | two racing starts, a start racing a stop, each with two launches and one death; two builds for the one place of a warm service's queue; a build, a stop and a death that meet a build under way; two of the clients may be cut off by the write deadline |
| `handoff`, `reversal`, `replay`, `join_deadlock` | violations, see section 6 |

Properties, by the question they answer:

* *Is an answer right?* `AnswersAreFromScratch` compares every finished request
  with `FromScratch`, an independent recursive evaluation against the revision's
  view without memo. `CertificatesAreSound` says the same of every certificate at
  every revision that would accept it, before anyone asks. `StampsNameValues`
  and, in the store, `EpochChainAdditive` are the two facts they rest on.
* *Is what is in use kept?* `ProtectedStayRetained`,
  `EntryServesPublished`, `AcceptedIsHeld`, `BatchesAreScopes`,
  `ReachableUnlessAbandoned`. `AcceptedIsHeld` compares an `Ok` with the store
  itself and states the one exception of section 6, a sweep that gives up what
  was just accepted. `BatchesAreScopes` covers what a batch has outside its parent's
  frame: frames of its items on other threads, lanes, and jobs in the channel.
* *Is what is not in use released?* `NoOrphans`, `WaitersCounted`,
  `WaitersReturned`, `CountsAreExact`, `StoreBounded`, `FamiliesConverge`,
  `BudgetConverges`, `BodiesHavePermits`, `JobsHaveThreads`,
  `QueueExact`, `StoppedMeansGone`.
* *Is nothing done by halves, or twice?* `CommitsAtomically`,
  `EffectsMatchState`, `AnswersRestOnCommitted`, `BodiesRunOnce`,
  `AnswersAreComplete`, `DirectMeansNoWork`, `AdmittedIsAnswered`, `OneService`.
* *Does everyone get on?* `NoFalseCycle`, `RequestsTerminate`,
  `EveryoneReturns`, `RequestsEnd`, `NoLostWakeup`, `EndedJoinsReturn`,
  `CanceledJoinsReturnOrCross`, `SweepExclusive`, `EverythingEnds`.

Each module has one type invariant, `TypeOK`. In `store` it is checked by itself;
elsewhere it is the first conjunct of the invariant that accounts for the module's
counters (`WaitersCounted`, `CountsAreExact`, `WaitersReturned`,
`EffectsMatchState`, `BodiesHavePermits`, `QueueExact`).

### Bounds

* `store`: four ids (id 0 is unusable, so three publications), two namespaces, one
  leaf with two stamps, a limit of 2 and a compaction depth of 1. Three
  publications are what a fork of a chain, a compaction and a retirement under
  a pin take. The code's limits are 64 and 16; nothing but their order
  with respect to the number of publications matters, and the theorems cover the rest.
* `query`, `cycle`: two tasks, two or three requests, six or four revisions of which
  a scenario uses two or three. Three requests on two slots let a third meet what the first two left
  behind. At most one eviction and one canceled request: both may fall anywhere. A
  scenario says which requests are made, and how many evictions and cancellations
  it allows.
* `retention`: limits 0 and 2 and budget 1 make both kinds of excess possible
  independently with two publications; the third exercises the watermarks.
* `join`: three joins are what a circle through `node.state`, the generation and
  a token's watcher list takes; two share a token, so that list has contenders, and
  the third has its own. Both tokens may be canceled.
* `handoffs`: roots `r` and `s` over `a` over `c`; two terminals of `a` and of `c`,
  so that both can be computed again after an eviction or an abort; addresses
  against the dependencies for the first terminals and with them for the second;
  lifecycles with no, one and two callbacks.
* `batches`: `r` demands `a` and `b`, `s` and `a` demand `c` and `b`: the items of a
  batch, of a nested one and of another request's meet. One permit leaves no
  worker at all, two leave one, for which the batches compete.
* `daemon`: two launches let a service follow a dead one; a queue of one is full
  with one build waiting. A warm scenario starts with a service that is up, with or
  without an admitted build under way: states a cold start reaches with more
  invocations than TLC can take from the beginning. At most one process dies. The
  clients that may stop reading are one build, so that each scenario with two also has
  one that reads, and the stop.

Symmetry is used for namespaces, tasks and workers where they are
interchangeable; not where liveness is checked. `CHECK_DEADLOCK FALSE` is set where the system may
stop: publications are bounded in `Retention`; joins, requests and invocations
end in `JoinWakeup`, `AttemptHandoffs`, `Batches` and `Daemon`.

### Fairness

`QueryEngine`: weak fairness of each task's next step and of the host's
taking of an answer. A running request is a thread the operating system
schedules; starting, canceling and evicting are never forced. Tasks block only in
`parked`, where fairness asks nothing. `JoinWakeup`: weak fairness per thread;
`std`'s mutexes do not promise FIFO, but the contention here is finite, and weak
fairness is enough: nobody retries a lock for ever. `Batches` and
`AttemptHandoffs`: weak fairness of each request's and each worker's thread, and of
an evictor that has begun; nobody is forced to cancel, evict or shut down.
`Daemon`: weak fairness of each invocation, handler, accept loop and owner, which
includes that a compile ends and that an idle service notices it; strong fairness
of `Timeout`, because deadlines are instants computed once, so a loop that polls
again and again meets its own. Deaths are never forced. `Retention` states no
fairness: its convergence properties are about states at rest.

## 4. Proofs

Every theorem below is of the form `Spec => []Property` (or `Spec => Abstract`),
for every value of the constants that satisfies the module's `ASSUME`. What
the assumptions say: the actors of different kinds are disjoint, limits are
naturals, what a counter counts is finite, and the tables that describe a workload
are functions of the right shape. TLC evaluates each of them in the run of its
module, and has checked each inductive invariant before it was proved.

The proofs share one layout. An invariant is a conjunction of named parts. A lemma
per kind of actor says what a step of *one* actor must satisfy to keep a part;
each action is an instance of such a lemma; the last step combines them with
`Init` by temporal logic.

### RevisionStoreProofs

From `StoreAssumption` (the bounds are naturals, 0 is not a stamp):

| Theorem | Property |
|---|---|
| `TypeCorrect` | `TypeOK` |
| `EpochSoundness` | `EpochChainAdditive` |
| `AcceptanceIsFaithful` | `AcceptedIsHeld` |
| `EntriesServeWhatWasPublished` | `EntryServesPublished` |
| `IdsNeverReused` | `NoResurrection` |
| `StoreStaysBounded` | `StoreBounded` |

The inductive invariant `StoreInv` adds three facts to the properties:
`EpochsHandedOut` (every epoch in use is below `next_epoch`, so a fresh epoch is
really fresh), `HeadIsNewest` (a namespace's head has the largest id of its epoch
and was published with it, even if it has been retired: this is why extending
the head, and only the head, keeps a chain) and `RetiredCovered` (an id that was
published is retained or at most `retired_through`: this is why a fresh
publication never overwrites history). Underneath lie lemmas about `Max` and `Min`
of finite sets (the library's induction theorems cannot be used with an operator
parameter; the existence of a maximum is derived from well-foundedness of the
strict subset ordering) and about reading a view through layers: the newest layer
that holds a leaf answers, so an overlay reads as its delta over its parent, and
flattening preserves the view.

`StoreStaysBounded` holds although pinned entries are never retired: an entry
that has just been inserted is not pinned, so a sweep of a store that is one over
its limit finds a victim, if need be the new entry itself (section 6), and one
victim is enough.

### DaemonProofs and DaemonRequestProofs

From `DaemonAssumption` (the sets are disjoint, there is a process to launch, a
place in the queue, scenarios are well-formed, the builds are finitely many):

| Theorem | Property |
|---|---|
| `OneServicePerEndpoint` | `OneService` |
| `StopIsComplete` | `StoppedMeansGone` |
| `ServicesAreReachable` | `ReachableUnlessAbandoned` |
| `RefusedBuildsAreNotRun` | `DirectMeansNoWork` |
| `AdmittedBuildsAreAnswered` | `AdmittedIsAnswered` |
| `QueueIsExact` | `QueueExact` |

`DaemonInv` serves the first two: a process that is up holds
the service lock (`UpHoldsLock`); a probe which found the lock free holds it
until it has decided, so that what it gives up is its own (`ProbeHoldsLock`); and
a service an invocation was ever connected to has served and never starts
again (`ConnectedToServed`). The lock `stop` waits for is then free only when the
process it spoke to is gone: it had been up, and is no longer.

`StartInv` serves the third: whoever starts a service holds `startup.lock` from its
probe to the welcome (`StartsAlone`); it launches at most one (`LaunchesOnce`); a
launched process without its lock is awaited by its start or abandoned (`Awaited`);
and a start that is about to clear the socket has made sure that every process
is unborn, gone or abandoned (`NobodyAlive`).

`RequestInv` serves the rest. `Talk` relates a client's `pc`, its handler and the
frames between them; `Served` and `Owners` say which process works for whom;
`Worked` that whatever a service holds or has begun was given a ticket and never
refused, from which "compiled directly" and "compiled by a service" exclude one
another; `Tickets` that tickets are unique per process and `Crashes` that the
crash record names a build that a panic ended, so that blame is exact; `Ends` that
an admitted build whose connection closes without an answer belongs to a process
that was killed or panicked, or was cut off (`Excused`). `Counts` (the counter is the length of the channel,
the build at its turn and the handlers about to send) is what makes the queue's
counter exact: each path that gives a place back is a path that took one.

### AttemptHandoffsProofs

From `HandoffAssumption` (addresses are distinct; the dependencies are any
function on queries):

| Theorem | Property |
|---|---|
| `EffectsFollowCommits` | `EffectsMatchState` |
| `AnswersAreCommitted` | `AnswersRestOnCommitted` |
| `BodiesAreRunOnce` | `BodiesRunOnce` |
| `CommitsAreAtomic` | `CommitsAtomically` |

`IInv` has the type invariant and seven parts. `EffectsSound`: what is in force
matches a lifecycle's state and its owner's progress. `Known`: only published
lifecycles are referred to. `Plans`: a task's collection is closed under
observation, up to what it has not visited, and once it has claimed
everything it consists of its own and of committed lifecycles. `Closed`: what is
committed rests on what is committed. `Leases` and `Checked`: what a request holds
is not evicted and has been validated; `BodiesRunOnce` follows from them. The
refinement needs `Plans` at `Decide`, the step that maps to the abstract commit:
the set that becomes committed there leaves no dependency behind. Every other
step maps to an abort, a publication or a stutter.

### BatchesProofs

From `BatchAssumption` (demands are acyclic, since cycles are `QueryEngine`'s, so that
queries have a rank above those they demand; requests are not named like workers; a
runtime has a permit):

| Theorem | Property |
|---|---|
| `PermitsAreExact` | `BodiesHavePermits` |
| `JobsFindThreads` | `JobsHaveThreads` |
| `ItemsRunInScope` | `BatchesAreScopes` |
| `TerminalsRestOnTerminals` | `AnswersAreComplete` |

The properties speak about the stacks of all threads at once, and so does
`BatchInv`. `Stacks` is the shape of one: a worker's begins with a lane, a frame
runs on a body's current demand or on a lane's item, and queries fall in rank from
frame to frame, so no query is on a stack twice. `Owned`: a query is computed by
one frame. `Single`: a task runs on one thread, and an item in the queue
runs on none. `Permits` gives each task's permit to its outermost frame that
computes, and says by the innermost frame whether it is given away: a nested
evaluation in the same task finds the permit there and must not give it back, and a
task that waits has none. `Outs` counts the jobs of a batch, in the channel and in
lanes, and binds them to a parent that waits. `Slotted` sets the jobs under way
against the slots claimed, one by one: the slots whose number is at most their batch's
count of jobs are as many as the jobs and the busy workers together. `Manned` derives a
thread for each job from it: submission spawns a worker until there are
`maximum - 1`, and slots never exceed that. `Answers` follows each demanded item: it
has its terminal, is queued, is running in a lane, or the batch's worst
outcome is no longer "ok".

A step replaces one thread's innermost frame, pushes one, or returns to the frame
below; a lemma per part and kind (`...Moved`, `...Pushed`) says when it is kept, and
each action is an instance. The steps that also change a batch's count, the slots
or the channel (`Demand`, `Donate`, `Dispatch`, `TakeJob`, the end of a lane,
`Absorb`) have lemmas of their own on the cardinalities.

### JoinWakeupProofs

From `WakeupAssumption` (finitely many joiners, actors are different):

| Theorem | Property |
|---|---|
| `WakeupsAreNotLost` | `NoLostWakeup` |
| `WaitersAreReturned` | `WaitersReturned` |

`WakeupInv`: a joiner holds the generation from its test to its parking
(`HoldsGeneration`); when its token is canceled or the attempt ends after the
test, the one who did it has its notification still ahead (`CancelAhead`,
`EndAhead`), because that needs the generation; a joiner in the loop is
registered with its token (`Registered`), so that the canceler will come to it;
the waiter count is the number of joins without an outcome (`Counted`). That the
system may deadlock (section 6.3) does not contradict this: the notification is
then ahead for ever.

### RetentionProofs

From `RetentionAssumption` (finitely many workers; `Never` above what can be
published and above every watermark):

| Theorem | Property |
|---|---|
| `SweepIsExclusive` | `SweepExclusive` |
| `CountersAreExact` | `CountsAreExact` |
| `FamiliesReachTheirLimits` | `FamiliesConverge` |

`RetentionInv`: a terminal is in its own family's queue at most once (`Queued`); a
publisher about to enqueue has one that no queue has (`Publishing`); a family's
counter is the length of its queue and the publishers about to enqueue
(`Counted`), never less although the counter is raised before the queue;
the claim is taken exactly while one worker sweeps; and `Owed`: a family over its
limit always has a worker who protects one of its terminals, owes it a pass or is
in one. `Owed` is the induction behind convergence: at rest nobody does, so no
family is over its limit. The corresponding statement for the runtime's budget
is false with three workers (section 6.1), so `BudgetConverges` has no theorem; it is
checked with two.

### QueryEngineProofs

From `EngineAssumption` (finitely many tasks, requests for existing keys at
existing revisions). Nothing is assumed of the program `Step`, which may ask for
any keys, itself included, nor of the revisions: `EpochsAreChains` is not used.

| Theorem | Property |
|---|---|
| `EngineCountsWaiters` | `WaitersCounted` |
| `EngineLeavesNoOrphans` | `NoOrphans` |
| `EngineProtects` | `ProtectedStayRetained` |
| `EngineStamps` | `StampsNameValues` |
| `EngineBacksCertificates` | `CertificatesBacked`, stated in the module: a node's certificate names a terminal it retains |

The last one is why `mark_validated` and `remove_attempt` look at the retained
terminals. None of the five is inductive. `EngineInv` is about four things:

* *nodes*: attempts have numbers of their own, below the next one (`NodeOK`); stamps
  are below the next one and name one value and one purity (`StampsOK`); the
  certificate names a retained terminal (`CertificateOK`);
* *stacks*: a query frame has a validation or a body on it, and those have a query on
  them; the candidate under validation is pinned and retained; a body computes an
  attempt that its task owns, and no two bodies the same one (`StackOK`). So a
  computation has one body, and to pop that body is to end it;
* *tasks*: every lease is of a retained terminal, and the answer that goes back to the
  host is leased (`TaskOK`, `BottomOK`);
* *both sides*: counts are those of the joiners (`CountsOK`), every computed attempt
  has a body in its owner's stack (`OwnersOK`), a memo's node has attempts or a frame
  that leases it (`MemoOK`).

An action changes one task and at most one node, so there are six kinds of step,
each a lemma: only the task moves (`QuietStep`); a count or a certificate changes
(`AlikeStep`, `CountStep`, `RenewStep`); a node gains, ends or loses an attempt
(`NodeStep`, with `ClaimStep` and `BodyStep`); a node is minted or leased
(`LeaseStep`); a lease is dropped and the node perhaps retired (`ReleaseStep`); a
terminal nobody pins is evicted (`EvictKeeps`: `GuardsPin` says that whatever the
invariant needs retained is pinned). A node that changes for one task has to stay good
for all the others: `KeptFor` says that no retained terminal goes and that the others'
computations are as they were, `Grows` that numbers are never given twice, so that
what an old frame remembers names nothing new. The lemmas ask for the same facts of the
moving task's stack, which `StackPushed`, `StackPopped`, `StackTopped` and
`StackAlike` give.

### Only model-checked

Liveness (`RequestsTerminate`, `EveryoneReturns`, `RequestsEnd`,
`EndedJoinsReturn`, `CanceledJoinsReturnOrCross`, `EverythingEnds`), which is out of
the prover's reach. `BudgetConverges`, as said. `NoFalseCycle` of `Batches`: a path
in the wait graph is a recursion, and that none closes a cycle an induction over it.
Of the engine, `AnswersAreFromScratch` and `CertificatesAreSound`: they compare with
the reference semantics of `QueryConsistency`, a recursive operator, and what that
computes for every program is an induction over data. That every certificate has
its terminal, and that stamps name values, are the parts of their argument that
need no reference, and these are proved.

## 5. Not modelled

Endorsement scopes and batch authority, adoption of content-addressed terminals,
families without a registered evaluator, dropped families, teardown; panicking
evaluators outside `Batches`; the compiler above the runtime. Values, diagnostics
and work items are abstracted to a value. Of the daemon: identity and ownership
checks (every process here is the same compiler), the two connection caps,
`status` and `ping`, partial frames, the retained session, and what the client
does with its answer. Watch mode, the language runtime and the allocator. The
front end, semantic analysis, optimizer, code generators, linker and the test and
benchmark tooling, which are most of the repository's lines, are sequential
functions over large terms with no state that outlives a call; a model of
them would be a second compiler and TLC could run it on nothing but toy programs.
Memory orderings are sequentially
consistent in `Retention`: the flags involved are read and written with
acquire/release, and the hand-off in section 6 fails already without reordering.

## 6. Where the code and its text disagree

1. **A sweep request can be lost** (`handoff`, `revision.rs:1567`). A finished
   sweeper A releases its claim. B, over budget, sets `pending`, but C already
   holds the claim and has passed its own clear. A's second swap takes B's flag, A
   fails to reclaim because C holds the claim, C finds `pending` false. With two
   workers this cannot happen (`retention` passes); with three it can, and the
   runtime stays over budget with nothing protected until the next publication or
   release.
2. **Validation can recurse without end** (`reversal`, `revision.rs:1729`). After
   an edit reverses the edge between two retained terminals and a later one
   removes it, each validates by demanding the other. The set that is meant to
   notice, `ActiveValidations`, is created afresh for every demand, and the cycle
   test looks only at running bodies.
3. **A cancellation can deadlock a node** (`join_deadlock`, `outcome.rs:631`).
   `watch` notifies while `join` holds `node.state`; `wait_until` takes the same
   two mutexes in the other order. With a token that joins share there is a second
   form: the canceler holds the token's watcher list (`outcome.rs:612`) and wants the
   generation, a join holds `node.state` and wants the list (`outcome.rs:629`), a
   third holds the generation and wants `node.state`. `Crossed` names both, and
   `CanceledJoinsReturnOrCross` says that, among the mutexes of one node and its
   tokens, there is no other; the run of the violation shows the first, which two
   joins suffice for.
4. **A replayed observation can trip an assertion** (`replay`, `task.rs:2389`).
   What an aborted validation demand had observed is recorded as the enclosing
   body's dependency; after another edit that edge leads back to the parent, and
   `cache_query` is asked to hold two terminals for one key.

Met on the way, without a run of their own: `publish_revision` on a full store may
retire the very revision it has just accepted (it has the smallest unpinned id)
and answer `Ok`; publishing the same view again is then refused, although its
doc calls that idempotent (`revision.rs:855`). `AcceptedIsHeld` states this
exception and no other. And the sweep in
`RevisionLease::drop` never finds anything to do, because a publication already
leaves the store within its limit (`StoreBounded`).

In the handoffs: a terminal that has just been published can be reused by another
root before its publisher observes it. If that root's commit fails and an abort
callback panics, the publisher finds its own terminal aborted, detaches it and
enters the body again; for a query without a registered evaluator that is the
panic "query body executes at most once" (`node.rs:1674`). `BodiesRunOnce` states
this exception and no other.

In the daemon (`src/crates/rue/src/daemon/`), each found by dropping an exception
from a property:

* `clear_stale` may delete the socket of a service that is alive. A start that
  launched a service is killed, or times out, before the service has its lock; the
  next start finds the lock free and lets go of it (`mod.rs:531`), the service
  takes it and binds, and the start clears its socket (`mod.rs:665`). The service
  runs on, unreachable, until it idles out; `OneService` still holds.
  `ReachableUnlessAbandoned` states this exception and no other.
* `stop` answers "not running" while a service that has been launched has not taken
  its lock yet (`mod.rs:734`), although its doc says that "`stop` after a racing
  `start` leaves nothing behind" (`mod.rs:719`).
* The lock a probe holds for a moment (`mod.rs:528`) can make a launched service
  believe that another one is running, and leave; its start then fails.
* A stop between the owner's test of `stop` (`service.rs:470`) and `set_active`
  cancels nobody: the build runs to its end before the service goes.
* A stopping service hangs up on a build it has just read (`service.rs:867`), which
  its client must count as ambiguous and fail, although nothing was begun.

## 7. Plan

1. *Proofs*: `NoFalseCycle`, if the wait graph's order can be given without a
   recursion; of the engine, that a certificate's evidence holds at its revision,
   stated on the terminals and stamps instead of on the reference semantics.
2. *Composition*: `QueryEngine` over `RevisionStore` instead of constant
   revisions, so that retirement of a revision races its requests.
3. *Endorsement scopes and batch authority*; *teardown*.
4. *Driver and runtime*: watch mode's observe and rebuild loop and the daemon's
   retained session; joining and parking in `rue-runtime`; the allocator as a
   sequential model.
