------------------------------- MODULE Daemon -------------------------------
(***************************************************************************)
(* The compiler service (crates/rue/src/daemon) and the invocations that   *)
(* use it: starting one service per endpoint with two file locks, a socket *)
(* and stale files left by dead services; admitting, running, canceling    *)
(* and answering builds; stopping and idling out; a compiler panic that    *)
(* ends the process; clients and services killed at any moment.            *)
(*                                                                         *)
(* An action of the service is what one of its threads (accept loop,       *)
(* connection handler, compiler owner) does between two accesses of shared *)
(* state. Identity checks, frame encoding, the connection caps, status and *)
(* measurements are left out; a deadline is a step that may be taken at    *)
(* any time and is taken in the end.                                       *)
(***************************************************************************)
EXTENDS Integers, Sequences, FiniteSets

CONSTANTS
  Builds,         \* invocations that compile through the service
  Stops,          \* invocations of `rue daemon stop`
  Services,       \* processes; a launch without one left fails
  MaxQueued,      \* MAX_QUEUED_REQUESTS
  Scenarios,      \* [calls: the invocations that take place, launches: how many services
                  \* they may launch, warm: one is serving already, building: whose
                  \* build it runs, faults: how many panics and kills]
  Slow,           \* bound: the invocations that may not read for RESPONSE_WRITE_TIMEOUT
  None

Calls == Builds \cup Stops

ASSUME DaemonAssumption ==
  /\ Builds \cap Stops = {} /\ Calls \cap Services = {}
  /\ Slow \subseteq Calls
  /\ None \notin Calls \cup Services
  /\ Services # {} /\ IsFiniteSet(Builds)
  /\ MaxQueued \in Nat \ {0}
  /\ \A sc \in Scenarios :
       /\ sc.calls \subseteq Calls /\ sc.launches \in Nat /\ sc.faults \in Nat
       /\ sc.warm \in BOOLEAN
       /\ sc.building \in (IF sc.warm THEN (Builds \cap sc.calls) \cup {None} ELSE {None})

VARIABLES
  startup,        \* who holds startup.lock
  lock,           \* who holds service.lock
  socket,         \* the service that bound the socket file, None when there is none
  crash,          \* the crash record: the service and the ticket it names
  svc,            \* the service processes
  call,           \* the invocations
  handler,        \* the service's side of each invocation's connection
  inbox,          \* frames written to the client and not read yet
  ticket,         \* the ticket a handler gave the build
  canceled,       \* builds whose CompilationCancellation is set
  replies,        \* answers of the owner, charged until they are written
  launches, faults,   \* launches, and panics and kills, still to come at most
  started, panicked, killed, cutoff, abandoned
                  \* history: builds begun, builds a panic ended, services killed, clients
                  \* a write did not reach in time, services left before ready

files == <<startup, lock, socket, crash>>
requests == <<ticket, canceled, replies>>
bounds == <<launches, faults>>
past == <<started, panicked, killed, cutoff>>
vars == <<files, svc, call, handler, inbox, requests, bounds, past, abandoned>>

Unborn == [pc |-> "unborn", stop |-> FALSE, open |-> TRUE, queued |-> 0, tickets |-> 0,
           queue |-> << >>, owner |-> "recv", job |-> None, active |-> None]
Fresh == [p \in Services |-> Unborn]
Idle(i) == [pc |-> IF i \in Stops THEN "probe" ELSE "startup",
            svc |-> None, launched |-> None, sent |-> FALSE, outcome |-> "none"]

At(i, pc) == call[i].pc = pc
Goto(i, pc) == [call EXCEPT ![i].pc = pc]
Done(i) == At(i, "done")
Listening(p) == svc[p].pc \in {"serving", "leaving", "draining"}

Closed(i) == handler[i] = "closed"
Unread(i) == inbox[i] # << >>
Hears(i, frame) == Unread(i) /\ Head(inbox[i]) = frame
HungUp(i) == Closed(i) /\ ~Unread(i)

\* Services launched by i and not yet started when it stops waiting for them.
Left(i) == {p \in Services : call[i].launched = p /\ svc[p].pc = "launched"}

\* The process returns from `start`, `stop` or the whole invocation: the kernel
\* or a destructor drops the locks it holds.
Finish(i, outcome) ==
  /\ call' = [call EXCEPT ![i].pc = "done", ![i].outcome = outcome]
  /\ startup' = IF startup = i THEN None ELSE startup
  /\ lock' = IF lock = i THEN None ELSE lock
  /\ abandoned' = abandoned \cup Left(i)

\* Whether no answer lets the invocation compile directly.
Unavailable(i) == IF i \in Stops THEN "failed" ELSE "direct"

-----------------------------------------------------------------------------
(* start_connection and stop: the startup lock, then probing until a service
   answers *)

\* Mutant: starting does not wait for another start.
TakeStartupAnyway(i) ==
  /\ At(i, "startup")
  /\ startup' = i
  /\ call' = Goto(i, "probe")
  /\ UNCHANGED <<lock, socket, crash, svc, handler, inbox, requests, bounds, past, abandoned>>

TakeStartup(i) ==
  /\ At(i, "startup")
  /\ startup = None
  /\ startup' = i
  /\ call' = Goto(i, "probe")
  /\ UNCHANGED <<lock, socket, crash, svc, handler, inbox, requests, bounds, past, abandoned>>

\* connect, at first or again before the deadline: no socket file, nobody behind
\* it, or a connection in the backlog.
Connect(i) ==
  /\ At(i, "probe") \/ At(i, "poll")
  /\ IF socket # None /\ Listening(socket)
     THEN /\ call' = [call EXCEPT ![i].pc = "hello", ![i].svc = socket]
          /\ handler' = [handler EXCEPT ![i] = "backlog"]
     ELSE call' = Goto(i, "try") /\ UNCHANGED handler
  /\ UNCHANGED <<files, svc, inbox, requests, bounds, past, abandoned>>

\* probe holds the service lock for a moment when nobody else does.
TryService(i) ==
  /\ At(i, "try")
  /\ lock' = IF lock = None THEN i ELSE lock
  /\ call' = Goto(i, IF lock = None THEN "absent" ELSE "poll")
  /\ UNCHANGED <<startup, socket, crash, svc, handler, inbox, requests, bounds, past, abandoned>>

\* Probe::Absent: nothing to stop, a launched service to wait for, or to launch.
Absent(i) ==
  LET p == call[i].launched
  IN /\ At(i, "absent")
     /\ \/ /\ i \in Stops
           /\ Finish(i, "not_running")
        \/ /\ p # None
           /\ svc[p].pc = "gone"
           /\ Finish(i, "direct")
        \/ /\ i \in Builds
           /\ p # None => svc[p].pc # "gone"
           /\ lock' = None
           /\ call' = Goto(i, IF p = None THEN "clear" ELSE "poll")
           /\ UNCHANGED <<startup, abandoned>>
     /\ UNCHANGED <<socket, crash, svc, handler, inbox, requests, bounds, past>>

ClearStale(i) ==
  /\ At(i, "clear")
  /\ socket' = None
  /\ call' = Goto(i, "launch")
  /\ UNCHANGED <<startup, lock, crash, svc, handler, inbox, requests, bounds, past, abandoned>>

\* The next process; without one left the spawn fails.
Launch(i) ==
  LET left == {p \in Services : svc[p].pc = "unborn"}
      p == CHOOSE q \in left : TRUE
      spawns == launches > 0 /\ left # {}
  IN /\ At(i, "launch")
     /\ \/ /\ spawns
           /\ launches' = launches - 1
           /\ svc' = [svc EXCEPT ![p].pc = "launched"]
           /\ call' = [call EXCEPT ![i].pc = "poll", ![i].launched = p]
           /\ UNCHANGED <<startup, lock, abandoned>>
        \/ ~spawns /\ Finish(i, "direct") /\ UNCHANGED <<svc, launches>>
     /\ UNCHANGED <<socket, crash, handler, inbox, requests, faults, past>>

\* A deadline passes: waiting for the startup lock, for a service to answer, for
\* its welcome, for its admission answer, for its lock after a stop.
Timeout(i) ==
  /\ call[i].pc \in {"startup", "poll", "hello", "sent", "release"}
  /\ Finish(i, IF At(i, "sent") THEN "failed" ELSE Unavailable(i))
  /\ UNCHANGED <<socket, crash, svc, handler, inbox, requests, bounds, past>>

\* The welcome, of the service it launched or another: start_connection returns
\* and drops the startup lock.
Welcomed(i) ==
  /\ At(i, "hello")
  /\ \/ /\ handler[i] = "request"
        /\ call' = Goto(i, "submit")
        /\ startup' = IF startup = i THEN None ELSE startup
        /\ abandoned' = abandoned \cup Left(i)
        /\ UNCHANGED lock
     \/ Closed(i) /\ Finish(i, Unavailable(i))
  /\ UNCHANGED <<socket, crash, svc, handler, inbox, requests, bounds, past>>

-----------------------------------------------------------------------------
(* The request *)

\* submit_build, or Connection::stop: a frame that cannot be written reached
\* nobody.
Submit(i) ==
  /\ At(i, "submit")
  /\ \/ ~Closed(i) /\ call' = [call EXCEPT ![i].pc = "sent", ![i].sent = TRUE] /\ UNCHANGED <<startup, lock, abandoned>>
     \/ Closed(i) /\ Finish(i, Unavailable(i))
  /\ UNCHANGED <<socket, crash, svc, handler, inbox, requests, bounds, past>>

\* Mutant: an answer that never came is taken for a refusal.
LostSubmissionDirect(i) == Unavailable(i)

\* SubmitError::Ambiguous: the service may have started the build.
LostSubmission(i) == "failed"

\* The admission answer of a build.
Admission(i) ==
  /\ At(i, "sent") /\ i \in Builds
  /\ \/ /\ Hears(i, "accepted")
        /\ call' = Goto(i, "await")
        /\ inbox' = [inbox EXCEPT ![i] = Tail(@)]
        /\ UNCHANGED <<startup, lock, abandoned>>
     \/ Hears(i, "rejected") /\ Finish(i, "direct") /\ UNCHANGED inbox
     \/ HungUp(i) /\ Finish(i, LostSubmission(i)) /\ UNCHANGED inbox
  /\ UNCHANGED <<socket, crash, svc, handler, requests, bounds, past>>

\* The crash record names this service and this request.
CrashIsMine(i) == crash.svc = call[i].svc /\ crash.ticket = ticket[i]

\* await_build has no deadline: the answer, or the end of the connection.
Await(i) ==
  /\ At(i, "await")
  /\ \/ Hears(i, "result") /\ Finish(i, "answered")
     \/ HungUp(i) /\ Finish(i, IF CrashIsMine(i) THEN "panicked" ELSE "lost")
  /\ UNCHANGED <<socket, crash, svc, handler, inbox, requests, bounds, past>>

\* stop waits for the service lock once the stop is acknowledged, and holds it
\* for a moment.
Acknowledged(i) ==
  /\ At(i, "sent") /\ i \in Stops
  /\ \/ Hears(i, "stopping") /\ call' = Goto(i, "release") /\ UNCHANGED <<startup, lock, abandoned>>
     \/ HungUp(i) /\ Finish(i, "failed")
  /\ UNCHANGED <<socket, crash, svc, handler, inbox, requests, bounds, past>>

\* Mutant: the acknowledgement is the completion signal.
ReleasedEarly(i) ==
  /\ At(i, "release")
  /\ call' = Goto(i, "released")
  /\ UNCHANGED <<files, svc, handler, inbox, requests, bounds, past, abandoned>>

Released(i) ==
  /\ At(i, "release")
  /\ lock = None
  /\ lock' = i
  /\ call' = Goto(i, "released")
  /\ UNCHANGED <<startup, socket, crash, svc, handler, inbox, requests, bounds, past, abandoned>>

Stopped(i) ==
  /\ At(i, "released")
  /\ Finish(i, "stopped")
  /\ UNCHANGED <<socket, crash, svc, handler, inbox, requests, bounds, past>>

-----------------------------------------------------------------------------
(* serve: the endpoint *)

\* Mutant: the lock is not looked at.
LockServiceAnyway(p) ==
  /\ svc[p].pc = "launched"
  /\ lock' = p /\ socket' = None
  /\ svc' = [svc EXCEPT ![p].pc = "locked"]
  /\ UNCHANGED <<startup, crash, call, handler, inbox, requests, bounds, past, abandoned>>

\* Take the service lock or leave; what is at the socket's path is then dead.
LockService(p) ==
  /\ svc[p].pc = "launched"
  /\ lock' = IF lock = None THEN p ELSE lock
  /\ socket' = IF lock = None THEN None ELSE socket
  /\ svc' = [svc EXCEPT ![p].pc = IF lock = None THEN "locked" ELSE "gone"]
  /\ UNCHANGED <<startup, crash, call, handler, inbox, requests, bounds, past, abandoned>>

\* bind finds no file in its way: only a holder of the lock creates one.
Bind(p) ==
  /\ svc[p].pc = "locked"
  /\ socket' = p
  /\ svc' = [svc EXCEPT ![p].pc = "serving"]
  /\ UNCHANGED <<startup, lock, crash, call, handler, inbox, requests, bounds, past, abandoned>>

Gone(i) == Done(i)

Delivers(i, frame) ==
  /\ ~Gone(i)
  /\ inbox' = [inbox EXCEPT ![i] = Append(@, frame)]
  /\ UNCHANGED cutoff

\* The client has left, or RESPONSE_WRITE_TIMEOUT passes before it has taken the
\* whole frame; the caller then drops the stream, and what has arrived of a frame
\* reads as the end of the connection.
Fails(i) ==
  /\ Gone(i) \/ i \in Slow
  /\ cutoff' = cutoff \cup (IF Gone(i) THEN {} ELSE {i})
  /\ UNCHANGED inbox

\* write_frame_with_timeout, where the result makes no difference.
Write(i, frame) == Delivers(i, frame) \/ Fails(i)

Connections(p) == {i \in Calls : call[i].svc = p /\ handler[i] \notin {"none", "backlog", "closed"}}

\* A new handler reads the hello that is already there and welcomes its client;
\* it hangs up when it cannot.
Welcomes(i) ==
  \/ ~Gone(i) /\ handler' = [handler EXCEPT ![i] = "request"] /\ UNCHANGED <<inbox, cutoff>>
  \/ Fails(i) /\ handler' = [handler EXCEPT ![i] = "closed"]

\* The accept loop, with the first step of the handler it spawns.
Accept(p) ==
  /\ svc[p].pc = "serving" /\ ~svc[p].stop
  /\ \E i \in Calls : call[i].svc = p /\ handler[i] = "backlog" /\ Welcomes(i)
  /\ UNCHANGED <<files, svc, call, requests, bounds, started, panicked, killed, abandoned>>

\* cancel_active
CancelActive(p) == canceled \cup ({svc[p].active} \ {None})

\* The loop ends on a stop, or idle with nobody connected.
Leave(p) ==
  /\ svc[p].pc = "serving"
  /\ \/ svc[p].stop
     \/ Connections(p) = {}
  /\ svc' = [svc EXCEPT ![p].pc = "leaving", ![p].stop = TRUE]
  /\ canceled' = CancelActive(p)
  /\ UNCHANGED <<files, call, handler, inbox, ticket, replies, bounds, past, abandoned>>

\* No further admissions.
CloseJobs(p) ==
  /\ svc[p].pc = "leaving"
  /\ svc' = [svc EXCEPT ![p].pc = "draining", ![p].open = FALSE]
  /\ UNCHANGED <<files, call, handler, inbox, requests, bounds, past, abandoned>>

\* Mutant: the handlers are not joined.
DrainedEarly(p) == svc[p].queue = << >> /\ svc[p].owner = "recv"

\* Every handler joined, and the owner, whose channel has no sender left.
Drained(p) == Connections(p) = {} /\ svc[p].queue = << >> /\ svc[p].owner = "recv"

\* run returns, and the listener is closed with the connections it never
\* accepted.
CloseListener(p) ==
  /\ svc[p].pc = "draining"
  /\ Drained(p)
  /\ svc' = [svc EXCEPT ![p].pc = "ended"]
  /\ handler' = [i \in Calls |-> IF call[i].svc = p THEN "closed" ELSE handler[i]]
  /\ UNCHANGED <<files, call, inbox, requests, bounds, past, abandoned>>

\* The files go, then the process and its lock.
Exit(p) ==
  /\ svc[p].pc = "ended"
  /\ svc' = [svc EXCEPT ![p].pc = "gone"]
  /\ socket' = None
  /\ lock' = IF lock = p THEN None ELSE lock
  /\ UNCHANGED <<startup, crash, call, handler, inbox, requests, bounds, past, abandoned>>

-----------------------------------------------------------------------------
(* handle_connection and serve_build *)

Handler(i, pc) == [handler EXCEPT ![i] = pc]

\* A request, which may outlive its client, or the end of the connection; a
\* stopping service hangs up without an answer.
ReadRequest(i) ==
  LET stop == svc[call[i].svc].stop
  IN /\ handler[i] = "request"
     /\ \/ /\ call[i].sent /\ ~stop /\ i \in Stops
           /\ Write(i, "stopping") /\ handler' = Handler(i, "stop")
        \/ /\ call[i].sent /\ ~stop /\ i \in Builds
           /\ handler' = Handler(i, "admit") /\ UNCHANGED <<inbox, cutoff>>
        \/ /\ IF call[i].sent THEN stop ELSE Gone(i)
           /\ handler' = Handler(i, "closed") /\ UNCHANGED <<inbox, cutoff>>
     /\ UNCHANGED <<files, svc, call, requests, bounds, started, panicked, killed, abandoned>>

\* CONTROL_READ_TIMEOUT passes before the client has sent anything.
SilentClient(i) ==
  /\ handler[i] = "request" /\ At(i, "submit")
  /\ handler' = Handler(i, "closed")
  /\ UNCHANGED <<files, svc, call, inbox, requests, bounds, past, abandoned>>

\* A stop takes effect once the acknowledgement has been written, or has failed.
StopService(i) ==
  LET p == call[i].svc
  IN /\ handler[i] = "stop"
     /\ svc' = [svc EXCEPT ![p].stop = TRUE]
     /\ canceled' = CancelActive(p)
     /\ handler' = Handler(i, "closed")
     /\ UNCHANGED <<files, call, inbox, ticket, replies, bounds, past, abandoned>>

Refuse(i) == Write(i, "rejected") /\ handler' = Handler(i, "closed")

\* The sender of the job queue, while the service is open.
Admit(i) ==
  /\ handler[i] = "admit"
  /\ \/ svc[call[i].svc].open /\ handler' = Handler(i, "reserve") /\ UNCHANGED <<inbox, cutoff>>
     \/ ~svc[call[i].svc].open /\ Refuse(i)
  /\ UNCHANGED <<files, svc, call, requests, bounds, started, panicked, killed, abandoned>>

\* A queue place, reserved with a compare-and-swap, and a ticket.
Reserve(i) ==
  LET p == call[i].svc
  IN /\ handler[i] = "reserve"
     /\ \/ /\ svc[p].queued < MaxQueued
           /\ svc' = [svc EXCEPT ![p].queued = @ + 1, ![p].tickets = @ + 1]
           /\ ticket' = [ticket EXCEPT ![i] = svc[p].tickets + 1]
           /\ handler' = Handler(i, "send")
           /\ UNCHANGED <<inbox, cutoff>>
        \/ svc[p].queued >= MaxQueued /\ Refuse(i) /\ UNCHANGED <<svc, ticket>>
     /\ UNCHANGED <<files, call, canceled, replies, bounds, started, panicked, killed, abandoned>>

Send(i) ==
  /\ handler[i] = "send"
  /\ svc' = [svc EXCEPT ![call[i].svc].queue = Append(@, i)]
  /\ handler' = Handler(i, "accept")
  /\ UNCHANGED <<files, call, inbox, requests, bounds, past, abandoned>>

\* The admission answer. When it cannot be written the build is canceled, and
\* nobody waits for the owner's answer any more.
WriteAccepted(i) ==
  /\ handler[i] = "accept"
  /\ \/ /\ Delivers(i, "accepted")
        /\ handler' = Handler(i, "waiting")
        /\ UNCHANGED <<canceled, replies>>
     \/ /\ Fails(i)
        /\ handler' = Handler(i, "closed")
        /\ canceled' = canceled \cup {i}
        /\ replies' = replies \ {i}
  /\ UNCHANGED <<files, svc, call, ticket, bounds, started, panicked, killed, abandoned>>

\* The watcher thread reads the end of the connection before the answer is there.
Watch(i) ==
  /\ handler[i] = "waiting" /\ Gone(i)
  /\ i \notin replies /\ i \notin canceled
  /\ canceled' = canceled \cup {i}
  /\ UNCHANGED <<files, svc, call, handler, inbox, ticket, replies, bounds, past, abandoned>>

\* The answer, result and image under one deadline, is written or given up, and
\* its charge with it.
Relay(i) ==
  /\ handler[i] = "waiting" /\ i \in replies
  /\ Write(i, "result")
  /\ handler' = Handler(i, "closed")
  /\ replies' = replies \ {i}
  /\ UNCHANGED <<files, svc, call, ticket, canceled, bounds, started, panicked, killed, abandoned>>

-----------------------------------------------------------------------------
(* compiler_owner *)

\* Mutant: an answer nobody waits for stays charged.
ReplyCharged(i) == replies \cup {i}

\* An answer nobody waits for is dropped.
Reply(i) == IF handler[i] \in {"accept", "waiting"} THEN replies \cup {i} ELSE replies

Receive(p) ==
  /\ svc[p].owner = "recv" /\ svc[p].queue # << >>
  /\ svc' = [svc EXCEPT ![p].owner = "turn", ![p].job = Head(svc[p].queue), ![p].queue = Tail(@)]
  /\ UNCHANGED <<files, call, handler, inbox, requests, bounds, past, abandoned>>

Uncharged(p) == \A i \in replies : call[i].svc # p

\* Mutant: the place in the queue is given back only for a build that runs.
TurnKeepsPlace(p) ==
  LET skip == svc[p].stop \/ svc[p].job \in canceled
  IN /\ svc[p].owner = "turn"
     /\ Uncharged(p)
     /\ svc' = [svc EXCEPT ![p].queued = IF skip THEN @ ELSE @ - 1,
                           ![p].owner = IF skip THEN "recv" ELSE "start",
                           ![p].job = IF skip THEN None ELSE @]
     /\ replies' = IF skip THEN Reply(svc[p].job) ELSE replies
     /\ UNCHANGED <<files, call, handler, inbox, ticket, canceled, bounds, past, abandoned>>

\* Once the last answer is off: a stopping service and a client that has left
\* are answered without work.
Turn(p) ==
  LET skip == svc[p].stop \/ svc[p].job \in canceled
  IN /\ svc[p].owner = "turn"
     /\ Uncharged(p)
     /\ svc' = [svc EXCEPT ![p].queued = @ - 1,
                           ![p].owner = IF skip THEN "recv" ELSE "start",
                           ![p].job = IF skip THEN None ELSE @]
     /\ replies' = IF skip THEN Reply(svc[p].job) ELSE replies
     /\ UNCHANGED <<files, call, handler, inbox, ticket, canceled, bounds, past, abandoned>>

SetActive(p) ==
  /\ svc[p].owner = "start"
  /\ svc' = [svc EXCEPT ![p].owner = "build", ![p].active = svc[p].job]
  /\ started' = started \cup {svc[p].job}
  /\ UNCHANGED <<files, call, handler, inbox, requests, bounds, panicked, killed, cutoff, abandoned>>

BuildEnds(p) ==
  /\ svc[p].owner = "build"
  /\ svc' = [svc EXCEPT ![p].owner = "recv", ![p].job = None, ![p].active = None]
  /\ replies' = Reply(svc[p].job)
  /\ UNCHANGED <<files, call, handler, inbox, ticket, canceled, bounds, past, abandoned>>

-----------------------------------------------------------------------------
(* Faults *)

\* The process is gone: its lock is free, its connections are closed, its socket
\* file stays.
Dies(p) ==
  /\ faults > 0
  /\ faults' = faults - 1
  /\ UNCHANGED launches
  /\ svc' = [svc EXCEPT ![p] = [Unborn EXCEPT !.pc = "gone"]]
  /\ lock' = IF lock = p THEN None ELSE lock
  /\ handler' = [i \in Calls |-> IF call[i].svc = p THEN "closed" ELSE handler[i]]
  /\ replies' = {i \in replies : call[i].svc # p}

\* The compiler panics: the hook writes the crash record, and the process aborts.
Panic(p) ==
  /\ svc[p].owner = "build"
  /\ Dies(p)
  /\ crash' = [svc |-> p, ticket |-> ticket[svc[p].active]]
  /\ panicked' = panicked \cup {svc[p].active}
  /\ UNCHANGED <<startup, socket, call, inbox, ticket, canceled, started, killed, cutoff, abandoned>>

KillService(p) ==
  /\ svc[p].pc \notin {"unborn", "gone"}
  /\ Dies(p)
  /\ killed' = killed \cup {p}
  /\ UNCHANGED <<startup, socket, crash, call, inbox, ticket, canceled, started, panicked, cutoff, abandoned>>

KillCall(i) ==
  /\ ~Done(i)
  /\ faults > 0
  /\ faults' = faults - 1
  /\ UNCHANGED launches
  /\ Finish(i, "killed")
  /\ UNCHANGED <<socket, crash, svc, handler, inbox, requests, past>>

-----------------------------------------------------------------------------
\* A service that is up, and the build b it has admitted and runs, if any.
Running(b) ==
  LET serving == [Unborn EXCEPT !.pc = "serving"]
  IN IF b = None THEN serving
     ELSE [serving EXCEPT !.tickets = 1, !.owner = "build", !.job = b, !.active = b]

InitOf(scenario) ==
  LET p == CHOOSE q \in Services : TRUE
      b == scenario.building
  IN /\ lock = (IF scenario.warm THEN p ELSE None) /\ socket = lock
     /\ svc = IF scenario.warm THEN [Fresh EXCEPT ![p] = Running(b)] ELSE Fresh
     /\ call = [i \in Calls |->
                  IF i = b THEN [Idle(i) EXCEPT !.pc = "await", !.svc = p, !.sent = TRUE]
                  ELSE IF i \in scenario.calls THEN Idle(i) ELSE [Idle(i) EXCEPT !.pc = "done"]]
     /\ handler = [i \in Calls |-> IF i = b THEN "waiting" ELSE "none"]
     /\ ticket = [i \in Calls |-> IF i = b THEN 1 ELSE 0]
     /\ started = {b} \ {None}
     /\ launches = scenario.launches /\ faults = scenario.faults

Init ==
  /\ \E scenario \in Scenarios : InitOf(scenario)
  /\ startup = None /\ crash = [svc |-> None, ticket |-> 0]
  /\ inbox = [i \in Calls |-> << >>]
  /\ canceled = {} /\ replies = {}
  /\ panicked = {} /\ killed = {} /\ cutoff = {} /\ abandoned = {}

CallStep(i) ==
  \/ TakeStartup(i) \/ Connect(i) \/ TryService(i) \/ Absent(i) \/ ClearStale(i) \/ Launch(i)
  \/ Welcomed(i) \/ Submit(i) \/ Admission(i) \/ Await(i)
  \/ Acknowledged(i) \/ Released(i) \/ Stopped(i)

HandlerStep(i) ==
  \/ ReadRequest(i) \/ StopService(i) \/ Admit(i) \/ Reserve(i) \/ Send(i)
  \/ WriteAccepted(i) \/ Watch(i) \/ Relay(i)

LoopStep(p) ==
  LockService(p) \/ Bind(p) \/ Accept(p) \/ Leave(p) \/ CloseJobs(p) \/ CloseListener(p) \/ Exit(p)

OwnerStep(p) == Receive(p) \/ Turn(p) \/ SetActive(p) \/ BuildEnds(p)

Next ==
  \/ \E i \in Calls : CallStep(i) \/ Timeout(i) \/ HandlerStep(i) \/ SilentClient(i) \/ KillCall(i)
  \/ \E p \in Services : LoopStep(p) \/ OwnerStep(p) \/ Panic(p) \/ KillService(p)

\* Threads run, deadlines pass, compiles and panics end, and a service nobody
\* uses idles out; when clients and services are killed is not theirs to say.
Fairness ==
  /\ \A i \in Calls : WF_vars(CallStep(i)) /\ SF_vars(Timeout(i)) /\ WF_vars(HandlerStep(i))
  /\ \A p \in Services : WF_vars(LoopStep(p)) /\ WF_vars(OwnerStep(p))

Spec == Init /\ [][Next]_vars /\ Fairness

-----------------------------------------------------------------------------
(* Properties *)

\* Locks, queues and tickets stay in range.
TypeOK ==
  /\ startup \in Builds \cup {None} /\ lock \in Calls \cup Services \cup {None}
  /\ socket \in Services \cup {None}
  /\ \A p \in Services :
       /\ svc[p].queued \in 0 .. MaxQueued
       /\ svc[p].job \in Builds \cup {None} /\ svc[p].active \in {svc[p].job, None}
  /\ \A i \in Calls : ticket[i] \in 0 .. Cardinality(Builds) /\ Len(inbox[i]) <= 2
  /\ canceled \subseteq Builds /\ replies \subseteq Builds
  /\ launches \in Nat /\ faults \in Nat

Up(p) == svc[p].pc \in {"locked", "serving", "leaving", "draining", "ended"}

\* One service per endpoint, whoever dies or is killed and whatever it leaves
\* behind: two processes are never up together, so no two builds of one scope
\* ever run at once.
OneService == \A p, q \in Services : Up(p) /\ Up(q) => p = q

\* clear_stale wants "proof nobody is alive". A service that serves can be
\* reached, unless the start that launched it returned before it took its lock,
\* late or answered by another service: then the next start may find the lock
\* free, and clear the socket it has bound since.
ReachableUnlessAbandoned ==
  \A p \in Services : svc[p].pc = "serving" /\ p \notin abandoned => socket = p

\* An invocation compiles directly only when the service has not begun its build
\* and never will.
DirectMeansNoWork == \A i \in Builds : call[i].outcome = "direct" => i \notin started

\* A build that was admitted is answered, by a service that stops too, unless the
\* process is killed or panics, or the client does not take its answer in time; a
\* panic is reported to the client whose build it ended and to no other.
AdmittedIsAnswered ==
  \A i \in Builds :
    /\ call[i].outcome = "lost" =>
         i \in cutoff \/ call[i].svc \in killed \cup {call[j].svc : j \in panicked}
    /\ call[i].outcome = "panicked" => i \in panicked

\* `stop` returns once the service it stopped is gone.
StoppedMeansGone ==
  \A i \in Stops : call[i].outcome = "stopped" => svc[call[i].svc].pc = "gone"

\* The queue's counter counts the builds that hold a place in it: reserved, sent,
\* or received by the owner and not begun. The type invariant is its first part.
QueueExact ==
  /\ TypeOK
  /\ \A p \in Services :
       svc[p].queued = Len(svc[p].queue) + (IF svc[p].owner = "turn" THEN 1 ELSE 0)
                       + Cardinality({i \in Connections(p) : handler[i] = "send"})

\* Every invocation ends, and so does every service that was launched, stopped,
\* idle, killed or refused: no handler, owner or answer in flight keeps it up.
EverythingEnds ==
  /\ <>(\A i \in Calls : Done(i))
  /\ \A p \in Services : svc[p].pc = "launched" ~> svc[p].pc = "gone"
=============================================================================
