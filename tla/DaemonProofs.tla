---------------------------- MODULE DaemonProofs ----------------------------
(* One service per endpoint, and what `stop` promises, for any number of
   invocations, processes, queue places, launches and faults. *)
EXTENDS Daemon, TLAPS

\* Every leaf may take its time.
USE SMTT(120), ZenonT(120)

ServicePCs == {"unborn", "launched", "locked", "serving", "leaving", "draining", "ended", "gone"}

OwnerPCs == {"recv", "turn", "start", "build"}
CallPCs == {"startup", "probe", "try", "absent", "clear", "launch", "poll", "hello", "submit",
            "sent", "await", "release", "released", "done"}
Outcomes == {"none", "direct", "failed", "not_running", "answered", "panicked", "lost",
             "stopped", "killed"}

ServiceRecord ==
  [pc : ServicePCs, stop : BOOLEAN, open : BOOLEAN, queued : Int, tickets : Int,
   queue : Seq(Calls), owner : OwnerPCs, job : Calls \cup {None}, active : Calls \cup {None}]

CallRecord ==
  [pc : CallPCs, svc : Services \cup {None}, launched : Services \cup {None},
   sent : BOOLEAN, outcome : Outcomes]

Shapes ==
  /\ svc \in [Services -> ServiceRecord]
  /\ call \in [Calls -> CallRecord]
  /\ socket \in Services \cup {None}

\* A process that is up holds the service lock.
UpHoldsLock == \A p \in Services : Up(p) => lock = p

\* A probe that found the lock free holds it until it has decided.
ProbeHoldsLock == \A i \in Calls : At(i, "absent") => lock = i

Connected == {"hello", "submit", "sent", "await", "release", "released"}
Reached == {"serving", "leaving", "draining", "ended", "gone"}

\* An invocation that is past connect has a service, and a service an invocation
\* has ever been connected to has served and does not start again.
ConnectedToServed ==
  \A i \in Calls :
    /\ call[i].pc \in Connected => call[i].svc \in Services
    /\ call[i].svc \in Services => svc[call[i].svc].pc \in Reached

\* The lock a stop has waited for is that of a process that is gone.
StopSawTheEnd ==
  \A i \in Calls :
    /\ call[i].outcome = "stopped" => At(i, "done")
    /\ At(i, "released") \/ call[i].outcome = "stopped" =>
         call[i].svc \in Services /\ svc[call[i].svc].pc = "gone"

DaemonInv == Shapes /\ UpHoldsLock /\ ProbeHoldsLock /\ ConnectedToServed /\ StopSawTheEnd

-----------------------------------------------------------------------------
\* A process that has not been launched has the shape of a service.
LEMMA UnbornShape == Unborn \in ServiceRecord /\ Unborn.pc = "unborn"
<1>1. << >> \in Seq(Calls)
  OBVIOUS
<1> DEFINE none == << >>
<1>2. none \in Seq(Calls)
  BY <1>1
<1>3. Unborn = [pc |-> "unborn", stop |-> FALSE, open |-> TRUE, queued |-> 0, tickets |-> 0,
                queue |-> none, owner |-> "recv", job |-> None, active |-> None]
  BY DEF Unborn
<1> HIDE DEF none
<1> QED BY <1>2, <1>3 DEF ServiceRecord, ServicePCs, OwnerPCs

\* The initial states of every scenario satisfy the invariant.
LEMMA InitInv == Init => DaemonInv
<1> SUFFICES ASSUME Init PROVE DaemonInv
  OBVIOUS
<1>1. PICK scenario \in Scenarios : InitOf(scenario)
  BY DEF Init
<1> DEFINE p == CHOOSE q \in Services : TRUE
           b == scenario.building
<1>2. b \in Builds \cup {None} /\ p \in Services /\ None \notin Calls
  BY DaemonAssumption
<1>3. Unborn \in ServiceRecord /\ Unborn.pc = "unborn"
  BY UnbornShape
<1>4. Running(b) \in ServiceRecord /\ Running(b).pc = "serving"
  <2> DEFINE serving == [Unborn EXCEPT !.pc = "serving"]
  <2>1. serving \in ServiceRecord /\ serving.pc = "serving"
    BY <1>3 DEF ServiceRecord, ServicePCs
  <2> HIDE DEF serving
  <2>2. ASSUME b \in Calls
        PROVE  LET r == [serving EXCEPT !.tickets = 1, !.owner = "build", !.job = b, !.active = b]
               IN r \in ServiceRecord /\ r.pc = "serving"
    <3> HIDE DEF b
    <3> DEFINE r1 == [serving EXCEPT !.tickets = 1]
               r2 == [r1 EXCEPT !.owner = "build"]
               r3 == [r2 EXCEPT !.job = b]
               r4 == [r3 EXCEPT !.active = b]
    <3>1. r1 \in ServiceRecord /\ r1.pc = "serving"
      BY <2>1 DEF ServiceRecord
    <3> HIDE DEF r1
    <3>2. r2 \in ServiceRecord /\ r2.pc = "serving"
      BY <3>1 DEF ServiceRecord, OwnerPCs
    <3> HIDE DEF r2
    <3>3. r3 \in ServiceRecord /\ r3.pc = "serving"
      BY <2>2, <3>2 DEF ServiceRecord
    <3> HIDE DEF r3
    <3>4. r4 \in ServiceRecord /\ r4.pc = "serving"
      BY <2>2, <3>3 DEF ServiceRecord
    <3> QED BY <3>4 DEF r1, r2, r3
  <2>3. Running(b) = IF b = None THEN serving
                     ELSE [serving EXCEPT !.tickets = 1, !.owner = "build", !.job = b, !.active = b]
    BY DEF Running, serving
  <2>4. b = None \/ b \in Calls
    BY <1>2 DEF Calls
  <2> QED BY <2>1, <2>2, <2>3, <2>4
<1>5. \/ scenario.warm /\ lock = p /\ socket = p /\ svc = [Fresh EXCEPT ![p] = Running(b)]
      \/ ~scenario.warm /\ lock = None /\ socket = None /\ svc = Fresh /\ b = None
  BY <1>1, DaemonAssumption DEF InitOf
<1>6. /\ svc \in [Services -> ServiceRecord]
      /\ \A q \in Services : svc[q].pc \in {"unborn", "serving"}
      /\ \A q \in Services : svc[q].pc = "serving" => lock = q
      /\ b # None => svc[p].pc = "serving"
  <2> HIDE DEF p, b
  <2> QED BY <1>2, <1>3, <1>4, <1>5 DEF Fresh
<1> DEFINE first(i) == IF i = b THEN [Idle(i) EXCEPT !.pc = "await", !.svc = p, !.sent = TRUE]
                       ELSE IF i \in scenario.calls THEN Idle(i) ELSE [Idle(i) EXCEPT !.pc = "done"]
<1>7. \A i \in Calls :
         /\ first(i) \in CallRecord
         /\ first(i).pc \in {"await", "probe", "startup", "done"}
         /\ first(i).outcome = "none"
         /\ first(i).svc = IF i = b THEN p ELSE None
         /\ first(i).pc = "await" => i = b
  <2> TAKE i \in Calls
  <2>1. Idle(i) \in CallRecord /\ Idle(i).pc \in {"probe", "startup"}
        /\ Idle(i).outcome = "none" /\ Idle(i).svc = None
    BY DEF Idle, CallRecord, CallPCs, Outcomes
  <2> HIDE DEF p, b
  <2> QED BY <1>2, <2>1 DEF CallRecord, CallPCs
<1>8. call = [i \in Calls |-> first(i)]
  BY <1>1 DEF InitOf
<1> HIDE DEF first, p, b
<1>9. Shapes
  BY <1>2, <1>5, <1>6, <1>7, <1>8 DEF Shapes
<1>10. UpHoldsLock
  BY <1>6 DEF UpHoldsLock, Up
<1>11. ProbeHoldsLock
  BY <1>7, <1>8 DEF ProbeHoldsLock, At
<1>12. ConnectedToServed
  BY <1>2, <1>6, <1>7, <1>8, DaemonAssumption DEF ConnectedToServed, Connected, Reached
<1>13. StopSawTheEnd
  BY <1>7, <1>8 DEF StopSawTheEnd, At
<1> QED
  BY <1>9, <1>10, <1>11, <1>12, <1>13 DEF DaemonInv

-----------------------------------------------------------------------------
(* What each action does to the record of a service, field by field *)

\* r has these fields.
Fields(r, pc, stop, open, queued, tickets, queue, owner, job, active) ==
  /\ r \in ServiceRecord
  /\ r.pc = pc /\ r.stop = stop /\ r.open = open /\ r.queued = queued /\ r.tickets = tickets
  /\ r.queue = queue /\ r.owner = owner /\ r.job = job /\ r.active = active

\* The step gives service p these fields, and the others keep theirs.
Becomes(p, pc, stop, open, queued, tickets, queue, owner, job, active) ==
  /\ svc' \in [Services -> ServiceRecord]
  /\ svc'[p].pc = pc /\ svc'[p].stop = stop /\ svc'[p].open = open
  /\ svc'[p].queued = queued /\ svc'[p].tickets = tickets
  /\ svc'[p].queue = queue /\ svc'[p].owner = owner
  /\ svc'[p].job = job /\ svc'[p].active = active
  /\ \A q \in Services \ {p} : svc'[q] = svc[q]

\* Setting the field `pc` of a service leaves its other fields alone.
LEMMA WithPC ==
  ASSUME NEW r \in ServiceRecord, NEW v \in ServicePCs
  PROVE  Fields([r EXCEPT !.pc = v], v, r.stop, r.open, r.queued, r.tickets, r.queue,
                r.owner, r.job, r.active)
  BY DEF ServiceRecord, Fields

\* Setting the field `stop` of a service leaves its other fields alone.
LEMMA WithStop ==
  ASSUME NEW r \in ServiceRecord, NEW v \in BOOLEAN
  PROVE  Fields([r EXCEPT !.stop = v], r.pc, v, r.open, r.queued, r.tickets, r.queue,
                r.owner, r.job, r.active)
  BY DEF ServiceRecord, Fields

\* Setting the field `open` of a service leaves its other fields alone.
LEMMA WithOpen ==
  ASSUME NEW r \in ServiceRecord, NEW v \in BOOLEAN
  PROVE  Fields([r EXCEPT !.open = v], r.pc, r.stop, v, r.queued, r.tickets, r.queue,
                r.owner, r.job, r.active)
  BY DEF ServiceRecord, Fields

\* Setting the field `queued` of a service leaves its other fields alone.
LEMMA WithQueued ==
  ASSUME NEW r \in ServiceRecord, NEW v \in Int
  PROVE  Fields([r EXCEPT !.queued = v], r.pc, r.stop, r.open, v, r.tickets, r.queue,
                r.owner, r.job, r.active)
  BY DEF ServiceRecord, Fields

\* Setting the field `tickets` of a service leaves its other fields alone.
LEMMA WithTickets ==
  ASSUME NEW r \in ServiceRecord, NEW v \in Int
  PROVE  Fields([r EXCEPT !.tickets = v], r.pc, r.stop, r.open, r.queued, v, r.queue,
                r.owner, r.job, r.active)
  BY DEF ServiceRecord, Fields

\* Setting the field `queue` of a service leaves its other fields alone.
LEMMA WithQueue ==
  ASSUME NEW r \in ServiceRecord, NEW v \in Seq(Calls)
  PROVE  Fields([r EXCEPT !.queue = v], r.pc, r.stop, r.open, r.queued, r.tickets, v,
                r.owner, r.job, r.active)
  BY DEF ServiceRecord, Fields

\* Setting the field `owner` of a service leaves its other fields alone.
LEMMA WithOwner ==
  ASSUME NEW r \in ServiceRecord, NEW v \in OwnerPCs
  PROVE  Fields([r EXCEPT !.owner = v], r.pc, r.stop, r.open, r.queued, r.tickets, r.queue,
                v, r.job, r.active)
  BY DEF ServiceRecord, Fields

\* Setting the field `job` of a service leaves its other fields alone.
LEMMA WithJob ==
  ASSUME NEW r \in ServiceRecord, NEW v \in Calls \cup {None}
  PROVE  Fields([r EXCEPT !.job = v], r.pc, r.stop, r.open, r.queued, r.tickets, r.queue,
                r.owner, v, r.active)
  BY DEF ServiceRecord, Fields

\* Setting the field `active` of a service leaves its other fields alone.
LEMMA WithActive ==
  ASSUME NEW r \in ServiceRecord, NEW v \in Calls \cup {None}
  PROVE  Fields([r EXCEPT !.active = v], r.pc, r.stop, r.open, r.queued, r.tickets,
                r.queue, r.owner, r.job, v)
  BY DEF ServiceRecord, Fields

\* A service that gets a whole new record.
LEMMA NewRecord ==
  ASSUME Shapes, NEW p \in Services, NEW t \in ServiceRecord, svc' = [svc EXCEPT ![p] = t]
  PROVE  Becomes(p, t.pc, t.stop, t.open, t.queued, t.tickets, t.queue, t.owner, t.job,
                 t.active)
  BY DEF Shapes, Becomes

\* Bind: p serves.
LEMMA BindEffect ==
  ASSUME Shapes, NEW p \in Services, Bind(p)
  PROVE  Becomes(p, "serving", svc[p].stop, svc[p].open, svc[p].queued, svc[p].tickets,
                 svc[p].queue, svc[p].owner, svc[p].job, svc[p].active)
<1> DEFINE r == [svc[p] EXCEPT !.pc = "serving"]
<1>1. svc' = [svc EXCEPT ![p] = r] /\ svc[p] \in ServiceRecord
  BY DEF Bind, Shapes
<1>2. Fields(r, "serving", svc[p].stop, svc[p].open, svc[p].queued, svc[p].tickets,
             svc[p].queue, svc[p].owner, svc[p].job, svc[p].active)
  BY <1>1, WithPC DEF Fields, ServicePCs
<1> HIDE DEF r
<1> QED BY <1>1, <1>2, NewRecord DEF Fields

\* Leave: p takes no more connections.
LEMMA LeaveEffect ==
  ASSUME Shapes, NEW p \in Services, Leave(p)
  PROVE  Becomes(p, "leaving", TRUE, svc[p].open, svc[p].queued, svc[p].tickets,
                 svc[p].queue, svc[p].owner, svc[p].job, svc[p].active)
<1> DEFINE r == [svc[p] EXCEPT !.pc = "leaving"]
           s == [r EXCEPT !.stop = TRUE]
<1>1. svc' = [svc EXCEPT ![p] = s] /\ svc[p] \in ServiceRecord
  BY DEF Leave, Shapes
<1>2. Fields(r, "leaving", svc[p].stop, svc[p].open, svc[p].queued, svc[p].tickets,
             svc[p].queue, svc[p].owner, svc[p].job, svc[p].active)
  BY <1>1, WithPC DEF Fields, ServicePCs
<1> HIDE DEF r
<1>3. Fields(s, "leaving", TRUE, svc[p].open, svc[p].queued, svc[p].tickets, svc[p].queue,
             svc[p].owner, svc[p].job, svc[p].active)
  BY <1>1, <1>2, WithStop DEF Fields
<1> HIDE DEF s
<1> QED BY <1>1, <1>3, NewRecord DEF Fields

\* CloseJobs: p takes no more builds.
LEMMA CloseJobsEffect ==
  ASSUME Shapes, NEW p \in Services, CloseJobs(p)
  PROVE  Becomes(p, "draining", svc[p].stop, FALSE, svc[p].queued, svc[p].tickets,
                 svc[p].queue, svc[p].owner, svc[p].job, svc[p].active)
<1> DEFINE r == [svc[p] EXCEPT !.pc = "draining"]
           s == [r EXCEPT !.open = FALSE]
<1>1. svc' = [svc EXCEPT ![p] = s] /\ svc[p] \in ServiceRecord
  BY DEF CloseJobs, Shapes
<1>2. Fields(r, "draining", svc[p].stop, svc[p].open, svc[p].queued, svc[p].tickets,
             svc[p].queue, svc[p].owner, svc[p].job, svc[p].active)
  BY <1>1, WithPC DEF Fields, ServicePCs
<1> HIDE DEF r
<1>3. Fields(s, "draining", svc[p].stop, FALSE, svc[p].queued, svc[p].tickets,
             svc[p].queue, svc[p].owner, svc[p].job, svc[p].active)
  BY <1>1, <1>2, WithOpen DEF Fields
<1> HIDE DEF s
<1> QED BY <1>1, <1>3, NewRecord DEF Fields

\* CloseListener: p has drained.
LEMMA CloseListenerEffect ==
  ASSUME Shapes, NEW p \in Services, CloseListener(p)
  PROVE  Becomes(p, "ended", svc[p].stop, svc[p].open, svc[p].queued, svc[p].tickets,
                 svc[p].queue, svc[p].owner, svc[p].job, svc[p].active)
<1> DEFINE r == [svc[p] EXCEPT !.pc = "ended"]
<1>1. svc' = [svc EXCEPT ![p] = r] /\ svc[p] \in ServiceRecord
  BY DEF CloseListener, Shapes
<1>2. Fields(r, "ended", svc[p].stop, svc[p].open, svc[p].queued, svc[p].tickets,
             svc[p].queue, svc[p].owner, svc[p].job, svc[p].active)
  BY <1>1, WithPC DEF Fields, ServicePCs
<1> HIDE DEF r
<1> QED BY <1>1, <1>2, NewRecord DEF Fields

\* Exit: p is gone.
LEMMA ExitEffect ==
  ASSUME Shapes, NEW p \in Services, Exit(p)
  PROVE  Becomes(p, "gone", svc[p].stop, svc[p].open, svc[p].queued, svc[p].tickets,
                 svc[p].queue, svc[p].owner, svc[p].job, svc[p].active)
<1> DEFINE r == [svc[p] EXCEPT !.pc = "gone"]
<1>1. svc' = [svc EXCEPT ![p] = r] /\ svc[p] \in ServiceRecord
  BY DEF Exit, Shapes
<1>2. Fields(r, "gone", svc[p].stop, svc[p].open, svc[p].queued, svc[p].tickets,
             svc[p].queue, svc[p].owner, svc[p].job, svc[p].active)
  BY <1>1, WithPC DEF Fields, ServicePCs
<1> HIDE DEF r
<1> QED BY <1>1, <1>2, NewRecord DEF Fields

\* LockService with the lock free: p is up.
LEMMA LockedEffect ==
  ASSUME Shapes, NEW p \in Services, LockService(p), lock = None
  PROVE  Becomes(p, "locked", svc[p].stop, svc[p].open, svc[p].queued, svc[p].tickets,
                 svc[p].queue, svc[p].owner, svc[p].job, svc[p].active)
<1> DEFINE r == [svc[p] EXCEPT !.pc = "locked"]
<1>1. svc' = [svc EXCEPT ![p] = r] /\ svc[p] \in ServiceRecord
  BY DEF LockService, Shapes
<1>2. Fields(r, "locked", svc[p].stop, svc[p].open, svc[p].queued, svc[p].tickets,
             svc[p].queue, svc[p].owner, svc[p].job, svc[p].active)
  BY <1>1, WithPC DEF Fields, ServicePCs
<1> HIDE DEF r
<1> QED BY <1>1, <1>2, NewRecord DEF Fields

\* LockService with the lock taken: p leaves.
LEMMA RefusedEffect ==
  ASSUME Shapes, NEW p \in Services, LockService(p), lock # None
  PROVE  Becomes(p, "gone", svc[p].stop, svc[p].open, svc[p].queued, svc[p].tickets,
                 svc[p].queue, svc[p].owner, svc[p].job, svc[p].active)
<1> DEFINE r == [svc[p] EXCEPT !.pc = "gone"]
<1>1. svc' = [svc EXCEPT ![p] = r] /\ svc[p] \in ServiceRecord
  BY DEF LockService, Shapes
<1>2. Fields(r, "gone", svc[p].stop, svc[p].open, svc[p].queued, svc[p].tickets,
             svc[p].queue, svc[p].owner, svc[p].job, svc[p].active)
  BY <1>1, WithPC DEF Fields, ServicePCs
<1> HIDE DEF r
<1> QED BY <1>1, <1>2, NewRecord DEF Fields

\* StopService: p is to stop.
LEMMA StopEffect ==
  ASSUME Shapes, NEW i \in Calls, NEW p \in Services, p = call[i].svc, StopService(i)
  PROVE  Becomes(p, svc[p].pc, TRUE, svc[p].open, svc[p].queued, svc[p].tickets,
                 svc[p].queue, svc[p].owner, svc[p].job, svc[p].active)
<1> DEFINE r == [svc[p] EXCEPT !.stop = TRUE]
<1>1. svc' = [svc EXCEPT ![p] = r] /\ svc[p] \in ServiceRecord
  BY DEF StopService, Shapes
<1>2. Fields(r, svc[p].pc, TRUE, svc[p].open, svc[p].queued, svc[p].tickets, svc[p].queue,
             svc[p].owner, svc[p].job, svc[p].active)
  BY <1>1, WithStop DEF Fields
<1> HIDE DEF r
<1> QED BY <1>1, <1>2, NewRecord DEF Fields

\* Reserve: one more place and one more ticket.
LEMMA ReserveEffect ==
  ASSUME Shapes, NEW i \in Calls, NEW p \in Services, p = call[i].svc,
         svc' = [svc EXCEPT ![p].queued = @ + 1, ![p].tickets = @ + 1]
  PROVE  Becomes(p, svc[p].pc, svc[p].stop, svc[p].open, svc[p].queued + 1,
                 svc[p].tickets + 1, svc[p].queue, svc[p].owner, svc[p].job, svc[p].active)
<1> DEFINE r == [svc[p] EXCEPT !.queued = svc[p].queued + 1]
           s == [r EXCEPT !.tickets = svc[p].tickets + 1]
<1>1. svc' = [svc EXCEPT ![p] = s] /\ svc[p] \in ServiceRecord
  BY DEF ServiceRecord, Shapes
<1>2. svc[p].queued + 1 \in Int /\ svc[p].tickets + 1 \in Int
  BY <1>1 DEF ServiceRecord
<1>3. Fields(r, svc[p].pc, svc[p].stop, svc[p].open, svc[p].queued + 1, svc[p].tickets,
             svc[p].queue, svc[p].owner, svc[p].job, svc[p].active)
  BY <1>1, <1>2, WithQueued DEF Fields
<1> HIDE DEF r
<1>4. Fields(s, svc[p].pc, svc[p].stop, svc[p].open, svc[p].queued + 1, svc[p].tickets + 1,
             svc[p].queue, svc[p].owner, svc[p].job, svc[p].active)
  BY <1>1, <1>3, <1>2, WithTickets DEF Fields
<1> HIDE DEF s
<1>5. Becomes(p, s.pc, s.stop, s.open, s.queued, s.tickets, s.queue, s.owner, s.job,
              s.active)
  BY <1>1, <1>4, NewRecord DEF Fields
<1> QED BY <1>1, <1>2, <1>4, <1>5 DEF Fields, Becomes

\* Send: i is last in the queue.
LEMMA SendEffect ==
  ASSUME Shapes, NEW i \in Calls, NEW p \in Services, p = call[i].svc, Send(i)
  PROVE  Becomes(p, svc[p].pc, svc[p].stop, svc[p].open, svc[p].queued, svc[p].tickets,
                 Append(svc[p].queue, i), svc[p].owner, svc[p].job, svc[p].active)
<1> DEFINE r == [svc[p] EXCEPT !.queue = Append(svc[p].queue, i)]
<1>1. svc' = [svc EXCEPT ![p] = r] /\ svc[p] \in ServiceRecord
  BY DEF Send, Shapes
<1>2. Append(svc[p].queue, i) \in Seq(Calls)
  BY <1>1 DEF ServiceRecord
<1>3. Fields(r, svc[p].pc, svc[p].stop, svc[p].open, svc[p].queued, svc[p].tickets,
             Append(svc[p].queue, i), svc[p].owner, svc[p].job, svc[p].active)
  BY <1>1, <1>2, WithQueue DEF Fields
<1> HIDE DEF r
<1> QED BY <1>1, <1>3, NewRecord DEF Fields

\* Receive: the first in the queue is the owner's job.
LEMMA ReceiveEffect ==
  ASSUME Shapes, NEW p \in Services, Receive(p)
  PROVE  Becomes(p, svc[p].pc, svc[p].stop, svc[p].open, svc[p].queued, svc[p].tickets,
                 Tail(svc[p].queue), "turn", Head(svc[p].queue), svc[p].active)
<1> DEFINE r == [svc[p] EXCEPT !.owner = "turn"]
           s == [r EXCEPT !.job = Head(svc[p].queue)]
           t == [s EXCEPT !.queue = Tail(svc[p].queue)]
<1>1. svc' = [svc EXCEPT ![p] = t] /\ svc[p] \in ServiceRecord
  BY DEF Receive, ServiceRecord, Shapes
<1>2. Head(svc[p].queue) \in Calls /\ Tail(svc[p].queue) \in Seq(Calls)
  BY <1>1 DEF ServiceRecord, Receive
<1>3. Fields(r, svc[p].pc, svc[p].stop, svc[p].open, svc[p].queued, svc[p].tickets,
             svc[p].queue, "turn", svc[p].job, svc[p].active)
  BY <1>1, <1>2, WithOwner DEF Fields, OwnerPCs
<1> HIDE DEF r
<1>4. Fields(s, svc[p].pc, svc[p].stop, svc[p].open, svc[p].queued, svc[p].tickets,
             svc[p].queue, "turn", Head(svc[p].queue), svc[p].active)
  BY <1>1, <1>3, <1>2, WithJob DEF Fields
<1> HIDE DEF s
<1>5. Fields(t, svc[p].pc, svc[p].stop, svc[p].open, svc[p].queued, svc[p].tickets,
             Tail(svc[p].queue), "turn", Head(svc[p].queue), svc[p].active)
  BY <1>1, <1>4, <1>2, WithQueue DEF Fields
<1> HIDE DEF t
<1> QED BY <1>1, <1>5, NewRecord DEF Fields

\* Turn, when the build is answered without work.
LEMMA SkipEffect ==
  ASSUME Shapes, NEW p \in Services, Turn(p), svc[p].stop \/ svc[p].job \in canceled
  PROVE  Becomes(p, svc[p].pc, svc[p].stop, svc[p].open, svc[p].queued - 1, svc[p].tickets,
                 svc[p].queue, "recv", None, svc[p].active)
<1> DEFINE r == [svc[p] EXCEPT !.queued = svc[p].queued - 1]
           s == [r EXCEPT !.owner = "recv"]
           t == [s EXCEPT !.job = None]
<1>1. svc' = [svc EXCEPT ![p] = t] /\ svc[p] \in ServiceRecord
  BY DEF Turn, ServiceRecord, Shapes
<1>2. svc[p].queued - 1 \in Int
  BY <1>1 DEF ServiceRecord
<1>3. Fields(r, svc[p].pc, svc[p].stop, svc[p].open, svc[p].queued - 1, svc[p].tickets,
             svc[p].queue, svc[p].owner, svc[p].job, svc[p].active)
  BY <1>1, <1>2, WithQueued DEF Fields
<1> HIDE DEF r
<1>4. Fields(s, svc[p].pc, svc[p].stop, svc[p].open, svc[p].queued - 1, svc[p].tickets,
             svc[p].queue, "recv", svc[p].job, svc[p].active)
  BY <1>1, <1>3, <1>2, WithOwner DEF Fields, OwnerPCs
<1> HIDE DEF s
<1>5. Fields(t, svc[p].pc, svc[p].stop, svc[p].open, svc[p].queued - 1, svc[p].tickets,
             svc[p].queue, "recv", None, svc[p].active)
  BY <1>1, <1>4, <1>2, WithJob DEF Fields
<1> HIDE DEF t
<1> QED BY <1>1, <1>5, NewRecord DEF Fields

\* Turn, when the build is begun.
LEMMA StartEffect ==
  ASSUME Shapes, NEW p \in Services, Turn(p), ~(svc[p].stop \/ svc[p].job \in canceled)
  PROVE  Becomes(p, svc[p].pc, svc[p].stop, svc[p].open, svc[p].queued - 1, svc[p].tickets,
                 svc[p].queue, "start", svc[p].job, svc[p].active)
<1> DEFINE r == [svc[p] EXCEPT !.queued = svc[p].queued - 1]
           s == [r EXCEPT !.owner = "start"]
<1>1. svc' = [svc EXCEPT ![p] = s] /\ svc[p] \in ServiceRecord
  BY DEF Turn, ServiceRecord, Shapes
<1>2. svc[p].queued - 1 \in Int
  BY <1>1 DEF ServiceRecord
<1>3. Fields(r, svc[p].pc, svc[p].stop, svc[p].open, svc[p].queued - 1, svc[p].tickets,
             svc[p].queue, svc[p].owner, svc[p].job, svc[p].active)
  BY <1>1, <1>2, WithQueued DEF Fields
<1> HIDE DEF r
<1>4. Fields(s, svc[p].pc, svc[p].stop, svc[p].open, svc[p].queued - 1, svc[p].tickets,
             svc[p].queue, "start", svc[p].job, svc[p].active)
  BY <1>1, <1>3, <1>2, WithOwner DEF Fields, OwnerPCs
<1> HIDE DEF s
<1> QED BY <1>1, <1>4, NewRecord DEF Fields

\* SetActive: the job is the active build.
LEMMA SetActiveEffect ==
  ASSUME Shapes, NEW p \in Services, SetActive(p)
  PROVE  Becomes(p, svc[p].pc, svc[p].stop, svc[p].open, svc[p].queued, svc[p].tickets,
                 svc[p].queue, "build", svc[p].job, svc[p].job)
<1> DEFINE r == [svc[p] EXCEPT !.owner = "build"]
           s == [r EXCEPT !.active = svc[p].job]
<1>1. svc' = [svc EXCEPT ![p] = s] /\ svc[p] \in ServiceRecord
  BY DEF SetActive, Shapes
<1>2. svc[p].job \in Calls \cup {None}
  BY <1>1 DEF ServiceRecord
<1>3. Fields(r, svc[p].pc, svc[p].stop, svc[p].open, svc[p].queued, svc[p].tickets,
             svc[p].queue, "build", svc[p].job, svc[p].active)
  BY <1>1, <1>2, WithOwner DEF Fields, OwnerPCs
<1> HIDE DEF r
<1>4. Fields(s, svc[p].pc, svc[p].stop, svc[p].open, svc[p].queued, svc[p].tickets,
             svc[p].queue, "build", svc[p].job, svc[p].job)
  BY <1>1, <1>3, <1>2, WithActive DEF Fields
<1> HIDE DEF s
<1> QED BY <1>1, <1>4, NewRecord DEF Fields

\* BuildEnds: the owner is free.
LEMMA BuildEndsEffect ==
  ASSUME Shapes, NEW p \in Services, BuildEnds(p)
  PROVE  Becomes(p, svc[p].pc, svc[p].stop, svc[p].open, svc[p].queued, svc[p].tickets,
                 svc[p].queue, "recv", None, None)
<1> DEFINE r == [svc[p] EXCEPT !.owner = "recv"]
           s == [r EXCEPT !.job = None]
           t == [s EXCEPT !.active = None]
<1>1. svc' = [svc EXCEPT ![p] = t] /\ svc[p] \in ServiceRecord
  BY DEF BuildEnds, Shapes
<1>2. Fields(r, svc[p].pc, svc[p].stop, svc[p].open, svc[p].queued, svc[p].tickets,
             svc[p].queue, "recv", svc[p].job, svc[p].active)
  BY <1>1, WithOwner DEF Fields, OwnerPCs
<1> HIDE DEF r
<1>3. Fields(s, svc[p].pc, svc[p].stop, svc[p].open, svc[p].queued, svc[p].tickets,
             svc[p].queue, "recv", None, svc[p].active)
  BY <1>1, <1>2, WithJob DEF Fields
<1> HIDE DEF s
<1>4. Fields(t, svc[p].pc, svc[p].stop, svc[p].open, svc[p].queued, svc[p].tickets,
             svc[p].queue, "recv", None, None)
  BY <1>1, <1>3, WithActive DEF Fields
<1> HIDE DEF t
<1> QED BY <1>1, <1>4, NewRecord DEF Fields

-----------------------------------------------------------------------------
(* What each action does to the record of an invocation *)

\* The step gives invocation i these fields, and the others keep theirs.
Proceeds(i, pc, service, launched, sent, outcome) ==
  /\ call' \in [Calls -> CallRecord]
  /\ call'[i].pc = pc /\ call'[i].svc = service /\ call'[i].launched = launched
  /\ call'[i].sent = sent /\ call'[i].outcome = outcome
  /\ \A j \in Calls \ {i} : call'[j] = call[j]

\* Goto: the invocation is somewhere else and nothing else about it changes.
LEMMA GotoEffect ==
  ASSUME Shapes, NEW i \in Calls, NEW to \in CallPCs, call' = Goto(i, to)
  PROVE  Proceeds(i, to, call[i].svc, call[i].launched, call[i].sent, call[i].outcome)
  BY DEF Shapes, CallRecord, Goto, Proceeds

\* Finish: the invocation is over, with this outcome.
LEMMA FinishEffect ==
  ASSUME Shapes, NEW i \in Calls, NEW how \in Outcomes, Finish(i, how)
  PROVE  Proceeds(i, "done", call[i].svc, call[i].launched, call[i].sent, how)
<1> DEFINE r == [call[i] EXCEPT !.pc = "done"]
           s == [r EXCEPT !.outcome = how]
<1>1. call' = [call EXCEPT ![i] = s] /\ call[i] \in CallRecord
  BY DEF Finish, Shapes
<1>2. r \in CallRecord /\ r.pc = "done" /\ r.svc = call[i].svc /\ r.launched = call[i].launched
      /\ r.sent = call[i].sent
  BY <1>1 DEF CallRecord, CallPCs
<1> HIDE DEF r
<1>3. s \in CallRecord /\ s.pc = "done" /\ s.svc = call[i].svc /\ s.launched = call[i].launched
      /\ s.sent = call[i].sent /\ s.outcome = how
  BY <1>2 DEF CallRecord
<1> HIDE DEF s
<1> QED BY <1>1, <1>3 DEF Shapes, Proceeds

\* Connect, when there is somebody behind the socket.
LEMMA ConnectEffect ==
  ASSUME Shapes, NEW i \in Calls, socket \in Services,
         call' = [call EXCEPT ![i].pc = "hello", ![i].svc = socket]
  PROVE  Proceeds(i, "hello", socket, call[i].launched, call[i].sent, call[i].outcome)
  BY DEF Shapes, CallRecord, CallPCs, Proceeds

\* Submit, when the frame is written.
LEMMA SubmitEffect ==
  ASSUME Shapes, NEW i \in Calls, call' = [call EXCEPT ![i].pc = "sent", ![i].sent = TRUE]
  PROVE  Proceeds(i, "sent", call[i].svc, call[i].launched, TRUE, call[i].outcome)
  BY DEF Shapes, CallRecord, CallPCs, Proceeds

\* Launch, when a process is spawned.
LEMMA LaunchedEffect ==
  ASSUME Shapes, NEW i \in Calls, NEW p \in Services,
         call' = [call EXCEPT ![i].pc = "poll", ![i].launched = p]
  PROVE  Proceeds(i, "poll", call[i].svc, p, call[i].sent, call[i].outcome)
  BY DEF Shapes, CallRecord, CallPCs, Proceeds


\* Launch: an unborn process is launched.
LEMMA LaunchEffect ==
  ASSUME Shapes, NEW p \in Services, svc' = [svc EXCEPT ![p].pc = "launched"]
  PROVE  Becomes(p, "launched", svc[p].stop, svc[p].open, svc[p].queued, svc[p].tickets,
                 svc[p].queue, svc[p].owner, svc[p].job, svc[p].active)
<1> DEFINE r == [svc[p] EXCEPT !.pc = "launched"]
<1>1. svc' = [svc EXCEPT ![p] = r] /\ svc[p] \in ServiceRecord
  BY DEF Shapes
<1>2. Fields(r, "launched", svc[p].stop, svc[p].open, svc[p].queued, svc[p].tickets,
             svc[p].queue, svc[p].owner, svc[p].job, svc[p].active)
  BY <1>1, WithPC DEF Fields, ServicePCs
<1> HIDE DEF r
<1> QED BY <1>1, <1>2, NewRecord DEF Fields

\* A death: nothing of the process is left.
LEMMA DiesEffect ==
  ASSUME Shapes, NEW p \in Services, Dies(p)
  PROVE  Becomes(p, "gone", FALSE, TRUE, 0, 0, << >>, "recv", None, None)
<1> DEFINE r == [Unborn EXCEPT !.pc = "gone"]
<1>1. svc' = [svc EXCEPT ![p] = r]
  BY DEF Dies
<1>2. Fields(Unborn, "unborn", FALSE, TRUE, 0, 0, << >>, "recv", None, None)
  BY UnbornShape DEF Unborn, Fields
<1>3. Fields(r, "gone", FALSE, TRUE, 0, 0, << >>, "recv", None, None)
  BY <1>2, WithPC DEF Fields, ServicePCs
<1> HIDE DEF r
<1> QED BY <1>1, <1>3, NewRecord DEF Fields

-----------------------------------------------------------------------------
(* What a step of one service, and of one invocation, may do *)

\* A step of service p: its lock is taken when free, given up when it is not up
\* any more, or left alone; what has been reached stays so.
LEMMA ServiceStep ==
  ASSUME DaemonInv, NEW p \in Services,
         call' = call,
         svc' \in [Services -> ServiceRecord],
         \A q \in Services \ {p} : svc'[q].pc = svc[q].pc,
         svc[p].pc \in Reached => svc'[p].pc \in Reached,
         svc[p].pc = "gone" => svc'[p].pc = "gone",
         \/ lock' = lock /\ (Up(p)' => Up(p))
         \/ lock = None /\ lock' = p
         \/ lock' = (IF lock = p THEN None ELSE lock) /\ ~Up(p)',
         socket' \in Services \cup {None}
  PROVE  DaemonInv'
<1>1. /\ Shapes /\ UpHoldsLock /\ ProbeHoldsLock /\ ConnectedToServed /\ StopSawTheEnd
      /\ None \notin Calls /\ None \notin Services /\ Calls \cap Services = {}
  BY DaemonAssumption DEF DaemonInv
<1>2. Shapes'
  BY <1>1 DEF Shapes
<1>3. UpHoldsLock'
  BY <1>1 DEF UpHoldsLock, Up
<1>4. ProbeHoldsLock'
  BY <1>1 DEF ProbeHoldsLock, At
<1>5. ConnectedToServed'
  BY <1>1 DEF ConnectedToServed
<1>6. StopSawTheEnd'
  BY <1>1 DEF StopSawTheEnd, At
<1> QED
  BY <1>2, <1>3, <1>4, <1>5, <1>6 DEF DaemonInv

\* A step of invocation i: the service lock is taken when free, given up or left
\* alone, and i's own record is as the invariant wants it.
LEMMA InvocationStep ==
  ASSUME DaemonInv, NEW i \in Calls,
         svc' = svc,
         call' \in [Calls -> CallRecord],
         \A j \in Calls \ {i} : call'[j] = call[j],
         \/ lock' = lock
         \/ lock = None /\ lock' = i
         \/ lock' = (IF lock = i THEN None ELSE lock),
         call'[i].pc = "absent" => lock' = i,
         call'[i].pc \in Connected => call'[i].svc \in Services,
         call'[i].svc \in Services => svc[call'[i].svc].pc \in Reached,
         call'[i].outcome = "stopped" => call'[i].pc = "done",
         call'[i].pc = "released" \/ call'[i].outcome = "stopped" =>
           call'[i].svc \in Services /\ svc[call'[i].svc].pc = "gone",
         socket' \in Services \cup {None}
  PROVE  DaemonInv'
<1>1. /\ Shapes /\ UpHoldsLock /\ ProbeHoldsLock /\ ConnectedToServed /\ StopSawTheEnd
      /\ None \notin Calls /\ None \notin Services /\ Calls \cap Services = {}
  BY DaemonAssumption DEF DaemonInv
<1>2. Shapes'
  BY <1>1 DEF Shapes
<1>3. UpHoldsLock'
  BY <1>1 DEF UpHoldsLock, Up
<1>4. ProbeHoldsLock'
  BY <1>1 DEF ProbeHoldsLock, At
<1>5. ConnectedToServed'
  BY <1>1 DEF ConnectedToServed
<1>6. StopSawTheEnd'
  BY <1>1 DEF StopSawTheEnd, At
<1> QED
  BY <1>2, <1>3, <1>4, <1>5, <1>6 DEF DaemonInv

\* An invocation that returns, however it does.
LEMMA FinishStep ==
  ASSUME DaemonInv, NEW i \in Calls, NEW how \in Outcomes, Finish(i, how),
         svc' = svc, socket' \in Services \cup {None},
         how = "stopped" => At(i, "released")
  PROVE  DaemonInv'
<1>1. /\ call' \in [Calls -> CallRecord]
      /\ \A j \in Calls \ {i} : call'[j] = call[j]
      /\ call'[i].pc = "done" /\ call'[i].outcome = how /\ call'[i].svc = call[i].svc
  BY DEF DaemonInv, Shapes, Finish, CallRecord, CallPCs
<1>2. lock' = IF lock = i THEN None ELSE lock
  BY DEF Finish
<1>3. call[i].svc \in Services => svc[call[i].svc].pc \in Reached
  BY DEF DaemonInv, ConnectedToServed
<1>4. how = "stopped" => call[i].svc \in Services /\ svc[call[i].svc].pc = "gone"
  BY DEF DaemonInv, StopSawTheEnd
<1> QED
  BY <1>1, <1>2, <1>3, <1>4, InvocationStep DEF Connected

\* An invocation that goes from one place to another, keeping its connection.
LEMMA MoveStep ==
  ASSUME DaemonInv, NEW i \in Calls, NEW to \in CallPCs,
         ~Done(i), call' = Goto(i, to), svc' = svc, socket' \in Services \cup {None},
         \/ lock' = lock
         \/ lock = None /\ lock' = i
         \/ lock' = (IF lock = i THEN None ELSE lock),
         to = "absent" => lock' = i,
         to \in Connected => call[i].svc \in Services,
         to = "released" => svc[call[i].svc].pc = "gone"
  PROVE  DaemonInv'
<1>1. /\ call' \in [Calls -> CallRecord]
      /\ \A j \in Calls \ {i} : call'[j] = call[j]
      /\ call'[i].pc = to /\ call'[i].outcome = call[i].outcome /\ call'[i].svc = call[i].svc
  BY DEF DaemonInv, Shapes, Goto, CallRecord
<1>2. call[i].svc \in Services => svc[call[i].svc].pc \in Reached
  BY DEF DaemonInv, ConnectedToServed
<1>3. call[i].outcome # "stopped"
  BY DEF DaemonInv, StopSawTheEnd, Done, At
<1> QED
  BY <1>1, <1>2, <1>3, InvocationStep DEF Connected

-----------------------------------------------------------------------------
\* Every step of an invocation, deadlines and kills included, keeps the invariant.
LEMMA CallStepInv ==
  ASSUME DaemonInv, NEW i \in Calls, CallStep(i) \/ Timeout(i) \/ KillCall(i)
  PROVE  DaemonInv'
<1>1. Shapes /\ ConnectedToServed /\ UpHoldsLock /\ ProbeHoldsLock /\ StopSawTheEnd
  BY DEF DaemonInv
<1>2. socket \in Services \cup {None} /\ None \notin Services /\ None \notin Calls
      /\ Calls \cap Services = {}
  BY <1>1, DaemonAssumption DEF Shapes
<1>3. Unavailable(i) \in Outcomes \ {"stopped"}
  BY DEF Unavailable, Outcomes
<1>4. CASE TakeStartup(i)
  <2>1. ~Done(i) /\ call' = Goto(i, "probe") /\ svc' = svc /\ socket' = socket /\ lock' = lock
    BY <1>4 DEF TakeStartup, Done, At
  <2> QED BY <1>2, <2>1, MoveStep DEF CallPCs, Connected
<1>5. CASE Connect(i)
  <2>1. ~Done(i) /\ svc' = svc /\ socket' = socket /\ lock' = lock
    BY <1>5 DEF Connect, Done, At, files
  <2>2. CASE socket # None /\ Listening(socket)
    <3>1. call' = [call EXCEPT ![i].pc = "hello", ![i].svc = socket]
      BY <1>5, <2>2 DEF Connect
    <3>2. /\ call' \in [Calls -> CallRecord]
          /\ \A j \in Calls \ {i} : call'[j] = call[j]
          /\ call'[i].pc = "hello" /\ call'[i].outcome = call[i].outcome /\ call'[i].svc = socket
      BY <1>1, <1>2, <3>1 DEF Shapes, CallRecord, CallPCs
    <3>3. socket \in Services /\ svc[socket].pc \in Reached
      BY <1>2, <2>2 DEF Listening, Reached
    <3>4. call[i].outcome # "stopped"
      BY <1>1, <2>1 DEF StopSawTheEnd, Done
    <3> QED BY <1>2, <2>1, <3>2, <3>3, <3>4, InvocationStep
  <2>3. CASE ~(socket # None /\ Listening(socket))
    <3>1. call' = Goto(i, "try")
      BY <1>5, <2>3 DEF Connect
    <3> QED BY <1>2, <2>1, <3>1, MoveStep DEF CallPCs, Connected
  <2> QED BY <2>2, <2>3
<1>6. CASE TryService(i)
  <2>1. /\ ~Done(i) /\ svc' = svc /\ socket' = socket
        /\ \/ lock = None /\ lock' = i /\ call' = Goto(i, "absent")
           \/ lock' = lock /\ call' = Goto(i, "poll")
    BY <1>6 DEF TryService, Done, At
  <2>2. CASE lock = None /\ lock' = i /\ call' = Goto(i, "absent")
    BY <1>2, <2>1, <2>2, MoveStep DEF CallPCs, Connected
  <2>3. CASE lock' = lock /\ call' = Goto(i, "poll")
    BY <1>2, <2>1, <2>3, MoveStep DEF CallPCs, Connected
  <2> QED BY <2>1, <2>2, <2>3
<1>7. CASE Absent(i)
  <2>1. At(i, "absent") /\ ~Done(i) /\ lock = i /\ svc' = svc /\ socket' = socket
    BY <1>1, <1>7 DEF Absent, Done, At, ProbeHoldsLock
  <2>2. CASE Finish(i, "not_running") \/ Finish(i, "direct")
    BY <1>2, <2>1, <2>2, FinishStep DEF Outcomes
  <2>3. CASE lock' = None /\ (call' = Goto(i, "clear") \/ call' = Goto(i, "poll"))
    BY <1>2, <2>1, <2>3, MoveStep DEF CallPCs, Connected
  <2> QED BY <1>7, <2>2, <2>3 DEF Absent
<1>8. CASE ClearStale(i)
  <2>1. ~Done(i) /\ call' = Goto(i, "launch") /\ svc' = svc /\ socket' = None /\ lock' = lock
    BY <1>8 DEF ClearStale, Done, At
  <2> QED BY <1>2, <2>1, MoveStep DEF CallPCs, Connected
<1>9. CASE Launch(i)
  <2> DEFINE left == {q \in Services : svc[q].pc = "unborn"}
             p == CHOOSE q \in left : TRUE
  <2>1. ~Done(i) /\ At(i, "launch") /\ socket' = socket
    BY <1>9 DEF Launch, Done, At
  <2>2. CASE Finish(i, "direct") /\ svc' = svc
    BY <1>2, <2>1, <2>2, FinishStep DEF Outcomes
  <2>3. CASE /\ left # {} /\ lock' = lock
             /\ svc' = [svc EXCEPT ![p].pc = "launched"]
             /\ call' = [call EXCEPT ![i].pc = "poll", ![i].launched = p]
    <3>1. p \in Services /\ svc[p].pc = "unborn"
      BY <2>3
    <3> HIDE DEF p, left
    <3>2. /\ svc' \in [Services -> ServiceRecord]
          /\ svc'[p].pc = "launched"
          /\ \A q \in Services \ {p} : svc'[q].pc = svc[q].pc
      BY <1>1, <2>3, <3>1, LaunchEffect DEF Becomes
    <3>3. /\ call' \in [Calls -> CallRecord]
          /\ \A j \in Calls \ {i} : call'[j] = call[j]
          /\ call'[i].pc = "poll" /\ call'[i].svc = call[i].svc
          /\ call'[i].outcome = call[i].outcome
      BY <1>1, <2>3, <3>1, LaunchedEffect DEF Proceeds
    <3>4. \A j \in Calls : call[j].svc # p
      BY <1>1, <3>1 DEF ConnectedToServed, Reached
    <3>5. Shapes'
      BY <1>2, <2>1, <3>2, <3>3 DEF Shapes
    <3>6. UpHoldsLock'
      BY <1>1, <2>3, <3>2 DEF UpHoldsLock, Up
    <3>7. ProbeHoldsLock'
      BY <1>1, <2>3, <3>3 DEF ProbeHoldsLock, At
    <3>8. ConnectedToServed'
      BY <1>1, <3>2, <3>3, <3>4 DEF ConnectedToServed, Connected
    <3>9. StopSawTheEnd'
      BY <1>1, <2>1, <3>2, <3>3, <3>4 DEF StopSawTheEnd, At
    <3> QED BY <3>5, <3>6, <3>7, <3>8, <3>9 DEF DaemonInv
  <2> QED BY <1>9, <2>2, <2>3 DEF Launch
<1>10. CASE Timeout(i)
  <2>1. ~Done(i) /\ svc' = svc /\ socket' = socket
        /\ (Finish(i, "failed") \/ Finish(i, Unavailable(i)))
    BY <1>10 DEF Timeout, Done, At
  <2> QED BY <1>2, <1>3, <2>1, FinishStep DEF Outcomes
<1>11. CASE Welcomed(i)
  <2>1. At(i, "hello") /\ ~Done(i) /\ svc' = svc /\ socket' = socket
    BY <1>11 DEF Welcomed, Done, At
  <2>2. CASE call' = Goto(i, "submit") /\ lock' = lock
    <3>1. call[i].svc \in Services
      BY <1>1, <2>1 DEF ConnectedToServed, Connected, At
    <3> QED BY <1>2, <2>1, <2>2, <3>1, MoveStep DEF CallPCs
  <2>3. CASE Finish(i, Unavailable(i))
    BY <1>2, <1>3, <2>1, <2>3, FinishStep
  <2> QED BY <1>11, <2>2, <2>3 DEF Welcomed
<1>12. CASE Submit(i)
  <2>1. At(i, "submit") /\ ~Done(i) /\ svc' = svc /\ socket' = socket
    BY <1>12 DEF Submit, Done, At
  <2>2. CASE call' = [call EXCEPT ![i].pc = "sent", ![i].sent = TRUE] /\ lock' = lock
    <3>1. /\ call' \in [Calls -> CallRecord]
          /\ \A j \in Calls \ {i} : call'[j] = call[j]
          /\ call'[i].pc = "sent" /\ call'[i].outcome = call[i].outcome
          /\ call'[i].svc = call[i].svc
      BY <1>1, <2>2 DEF Shapes, CallRecord, CallPCs
    <3>2. call[i].svc \in Services /\ svc[call[i].svc].pc \in Reached
      BY <1>1, <2>1 DEF ConnectedToServed, Connected, At
    <3>3. call[i].outcome # "stopped"
      BY <1>1, <2>1 DEF StopSawTheEnd, Done
    <3> QED BY <1>2, <2>1, <2>2, <3>1, <3>2, <3>3, InvocationStep
  <2>3. CASE Finish(i, Unavailable(i))
    BY <1>2, <1>3, <2>1, <2>3, FinishStep
  <2> QED BY <1>12, <2>2, <2>3 DEF Submit
<1>13. CASE Admission(i)
  <2>1. At(i, "sent") /\ ~Done(i) /\ svc' = svc /\ socket' = socket
    BY <1>13 DEF Admission, Done, At
  <2>2. CASE call' = Goto(i, "await") /\ lock' = lock
    <3>1. call[i].svc \in Services
      BY <1>1, <2>1 DEF ConnectedToServed, Connected, At
    <3> QED BY <1>2, <2>1, <2>2, <3>1, MoveStep DEF CallPCs
  <2>3. CASE Finish(i, "direct") \/ Finish(i, "failed")
    BY <1>2, <2>1, <2>3, FinishStep DEF Outcomes
  <2> QED BY <1>13, <2>2, <2>3 DEF Admission, LostSubmission
<1>14. CASE Await(i)
  <2>1. /\ svc' = svc /\ socket' = socket
        /\ Finish(i, "answered") \/ Finish(i, "panicked") \/ Finish(i, "lost")
    BY <1>14 DEF Await
  <2> QED BY <1>2, <2>1, FinishStep DEF Outcomes
<1>15. CASE Acknowledged(i)
  <2>1. At(i, "sent") /\ ~Done(i) /\ svc' = svc /\ socket' = socket
    BY <1>15 DEF Acknowledged, Done, At
  <2>2. CASE call' = Goto(i, "release") /\ lock' = lock
    <3>1. call[i].svc \in Services
      BY <1>1, <2>1 DEF ConnectedToServed, Connected, At
    <3> QED BY <1>2, <2>1, <2>2, <3>1, MoveStep DEF CallPCs
  <2>3. CASE Finish(i, "failed")
    BY <1>2, <2>1, <2>3, FinishStep DEF Outcomes
  <2> QED BY <1>15, <2>2, <2>3 DEF Acknowledged
<1>16. CASE Released(i)
  <2>1. /\ At(i, "release") /\ ~Done(i) /\ svc' = svc /\ socket' = socket
        /\ lock = None /\ lock' = i /\ call' = Goto(i, "released")
    BY <1>16 DEF Released, Done, At
  <2>2. call[i].svc \in Services /\ svc[call[i].svc].pc \in Reached
    BY <1>1, <2>1 DEF ConnectedToServed, Connected, At
  <2>3. ~Up(call[i].svc)
    BY <1>1, <1>2, <2>1, <2>2 DEF UpHoldsLock
  <2>4. svc[call[i].svc].pc = "gone"
    BY <2>2, <2>3 DEF Up, Reached
  <2> QED BY <1>2, <2>1, <2>2, <2>4, MoveStep DEF CallPCs
<1>17. CASE Stopped(i)
  <2>1. At(i, "released") /\ svc' = svc /\ socket' = socket /\ Finish(i, "stopped")
    BY <1>17 DEF Stopped
  <2> QED BY <1>2, <2>1, FinishStep DEF Outcomes
<1>18. CASE KillCall(i)
  <2>1. svc' = svc /\ socket' = socket /\ Finish(i, "killed")
    BY <1>18 DEF KillCall
  <2> QED BY <1>2, <2>1, FinishStep DEF Outcomes
<1> QED
  BY <1>4, <1>5, <1>6, <1>7, <1>8, <1>9, <1>10, <1>11, <1>12, <1>13, <1>14, <1>15, <1>16,
     <1>17, <1>18 DEF CallStep

\* Steps inside a service that leave the processes and the files where they are.
LEMMA QuietStep ==
  ASSUME DaemonInv, call' = call, lock' = lock, socket' = socket,
         svc' \in [Services -> ServiceRecord],
         \A q \in Services : svc'[q].pc = svc[q].pc
  PROVE  DaemonInv'
<1>1. PICK p \in Services : TRUE
  BY DaemonAssumption
<1>2. socket' \in Services \cup {None} /\ (Up(p)' => Up(p))
  BY DEF DaemonInv, Shapes, Up
<1> QED BY <1>1, <1>2, ServiceStep

\* A step of a connection's handler leaves every process where it is.
LEMMA HandlerKeepsPlace ==
  ASSUME Shapes, NEW i \in Calls, HandlerStep(i) \/ SilentClient(i)
  PROVE  svc' \in [Services -> ServiceRecord] /\ \A q \in Services : svc'[q].pc = svc[q].pc
<1>1. Shapes
  OBVIOUS
<1> DEFINE p == call[i].svc
           Quiet == svc' \in [Services -> ServiceRecord] /\ \A q \in Services : svc'[q].pc = svc[q].pc
<1>2. svc' = svc => Quiet
  BY <1>1 DEF Shapes
<1>3. p \notin Services => Quiet
  <2>1. ASSUME NEW f, svc' = [svc EXCEPT ![p] = f], p \notin Services PROVE Quiet
    <3> HIDE DEF p
    <3> QED BY <1>1, <2>1 DEF Shapes
  <2> QED
    BY <1>2, <2>1
    DEF HandlerStep, ReadRequest, StopService, Admit, Reserve, Send, WriteAccepted, Watch, Relay,
        SilentClient
<1>4. ASSUME p \in Services, StopService(i) \/ Reserve(i) \/ Send(i) PROVE Quiet
  <2> HIDE DEF p
  <2>1. CASE StopService(i)
    BY <1>1, <1>4, <2>1, StopEffect DEF Becomes, p
  <2>2. CASE Reserve(i)
    <3>1. svc' = svc \/ svc' = [svc EXCEPT ![p].queued = @ + 1, ![p].tickets = @ + 1]
      BY <2>2 DEF Reserve, p
    <3>2. CASE svc' = [svc EXCEPT ![p].queued = @ + 1, ![p].tickets = @ + 1]
      BY <1>1, <1>4, <3>2, ReserveEffect DEF Becomes, p
    <3> QED BY <1>2, <3>1, <3>2
  <2>3. CASE Send(i)
    BY <1>1, <1>4, <2>3, SendEffect DEF Becomes, p
  <2> QED BY <1>4, <2>1, <2>2, <2>3
<1>5. Quiet
  <2>1. svc' = svc \/ StopService(i) \/ Reserve(i) \/ Send(i)
    BY DEF HandlerStep, ReadRequest, Admit, WriteAccepted, Watch, Relay, SilentClient
  <2> HIDE DEF Quiet
  <2> QED BY <1>2, <1>3, <1>4, <2>1
<1> QED BY <1>5

\* Every step of a connection's handler keeps the invariant.
LEMMA HandlerStepInv ==
  ASSUME DaemonInv, NEW i \in Calls, HandlerStep(i) \/ SilentClient(i)
  PROVE  DaemonInv'
<1>1. call' = call /\ lock' = lock /\ socket' = socket
  BY DEF HandlerStep, ReadRequest, StopService, Admit, Reserve, Send, WriteAccepted, Watch, Relay,
         SilentClient, files
<1> QED BY <1>1, HandlerKeepsPlace, QuietStep DEF DaemonInv

\* Every step of a service's accept loop and of its owner, and every death, keeps
\* the invariant.
LEMMA ServiceStepInv ==
  ASSUME DaemonInv, NEW p \in Services,
         LoopStep(p) \/ OwnerStep(p) \/ Panic(p) \/ KillService(p)
  PROVE  DaemonInv'
<1>1. Shapes /\ socket \in Services \cup {None} /\ (Up(p) => lock = p)
  BY DEF DaemonInv, Shapes, UpHoldsLock
<1> DEFINE Moved(to) == /\ svc' \in [Services -> ServiceRecord]
                        /\ \A q \in Services \ {p} : svc'[q].pc = svc[q].pc
                        /\ svc'[p].pc = to
           Quiet == svc' \in [Services -> ServiceRecord] /\ \A q \in Services : svc'[q].pc = svc[q].pc
<1>2. CASE LockService(p)
  <2>1. CASE lock = None
    <3>1. svc[p].pc = "launched" /\ lock' = p /\ socket' = None /\ call' = call
      BY <1>2, <2>1 DEF LockService
    <3>2. Moved("locked")
      BY <1>1, <1>2, <2>1, LockedEffect DEF Becomes
    <3> QED BY <2>1, <3>1, <3>2, ServiceStep DEF Reached
  <2>2. CASE lock # None
    <3>1. svc[p].pc = "launched" /\ lock' = lock /\ socket' = socket /\ call' = call
      BY <1>2, <2>2 DEF LockService
    <3>2. Moved("gone")
      BY <1>1, <1>2, <2>2, RefusedEffect DEF Becomes
    <3>3. ~Up(p)'
      BY <3>2 DEF Up
    <3> QED BY <1>1, <3>1, <3>2, <3>3, ServiceStep DEF Reached
  <2> QED BY <2>1, <2>2
<1>3. CASE Bind(p)
  <2>1. svc[p].pc = "locked" /\ lock' = lock /\ socket' = p /\ call' = call /\ Up(p)
    BY <1>3 DEF Bind, Up
  <2>2. Moved("serving")
    BY <1>1, <1>3, BindEffect DEF Becomes
  <2> QED BY <2>1, <2>2, ServiceStep DEF Reached
<1>4. CASE Accept(p)
  <2>1. svc' = svc /\ call' = call /\ lock' = lock /\ socket' = socket
    BY <1>4 DEF Accept, files
  <2> QED BY <1>1, <2>1, QuietStep DEF Shapes
<1>5. CASE Leave(p)
  <2>1. svc[p].pc = "serving" /\ lock' = lock /\ socket' = socket /\ call' = call /\ Up(p)
    BY <1>5 DEF Leave, files, Up
  <2>2. Moved("leaving")
    BY <1>1, <1>5, LeaveEffect DEF Becomes
  <2> QED BY <1>1, <2>1, <2>2, ServiceStep DEF Reached
<1>6. CASE CloseJobs(p)
  <2>1. svc[p].pc = "leaving" /\ lock' = lock /\ socket' = socket /\ call' = call /\ Up(p)
    BY <1>6 DEF CloseJobs, files, Up
  <2>2. Moved("draining")
    BY <1>1, <1>6, CloseJobsEffect DEF Becomes
  <2> QED BY <1>1, <2>1, <2>2, ServiceStep DEF Reached
<1>7. CASE CloseListener(p)
  <2>1. svc[p].pc = "draining" /\ lock' = lock /\ socket' = socket /\ call' = call /\ Up(p)
    BY <1>7 DEF CloseListener, files, Up
  <2>2. Moved("ended")
    BY <1>1, <1>7, CloseListenerEffect DEF Becomes
  <2> QED BY <1>1, <2>1, <2>2, ServiceStep DEF Reached
<1>8. CASE Exit(p)
  <2>1. /\ svc[p].pc = "ended" /\ lock' = (IF lock = p THEN None ELSE lock) /\ socket' = None
        /\ call' = call
    BY <1>8 DEF Exit
  <2>2. Moved("gone")
    BY <1>1, <1>8, ExitEffect DEF Becomes
  <2>3. ~Up(p)'
    BY <2>2 DEF Up
  <2> QED BY <2>1, <2>2, <2>3, ServiceStep DEF Reached
<1>9. CASE OwnerStep(p)
  <2>1. call' = call /\ lock' = lock /\ socket' = socket
    BY <1>9 DEF OwnerStep, Receive, Turn, SetActive, BuildEnds, files
  <2>2. CASE Receive(p)
    BY <1>1, <2>1, <2>2, ReceiveEffect, QuietStep DEF Becomes
  <2>3. CASE Turn(p)
    BY <1>1, <2>1, <2>3, SkipEffect, StartEffect, QuietStep DEF Becomes
  <2>4. CASE SetActive(p)
    BY <1>1, <2>1, <2>4, SetActiveEffect, QuietStep DEF Becomes
  <2>5. CASE BuildEnds(p)
    BY <1>1, <2>1, <2>5, BuildEndsEffect, QuietStep DEF Becomes
  <2> QED BY <1>9, <2>2, <2>3, <2>4, <2>5 DEF OwnerStep
<1>10. CASE Panic(p) \/ KillService(p)
  <2>1. call' = call /\ socket' = socket /\ Dies(p)
    BY <1>10 DEF Panic, KillService
  <2>2. lock' = IF lock = p THEN None ELSE lock
    BY <2>1 DEF Dies
  <2>3. Moved("gone")
    BY <1>1, <2>1, DiesEffect DEF Becomes
  <2>4. ~Up(p)'
    BY <2>3 DEF Up
  <2> QED BY <1>1, <2>1, <2>2, <2>3, <2>4, ServiceStep DEF Reached
<1> QED
  BY <1>2, <1>3, <1>4, <1>5, <1>6, <1>7, <1>8, <1>9, <1>10 DEF LoopStep

\* Every step of the system keeps the invariant.
LEMMA NextInv == DaemonInv /\ [Next]_vars => DaemonInv'
<1> SUFFICES ASSUME DaemonInv, [Next]_vars PROVE DaemonInv'
  OBVIOUS
<1>1. CASE UNCHANGED vars
  <2>1. svc' = svc /\ call' = call /\ lock' = lock /\ socket' = socket
    BY <1>1 DEF vars, files
  <2> QED BY <2>1, QuietStep DEF DaemonInv, Shapes
<1>2. CASE Next
  BY <1>2, CallStepInv, HandlerStepInv, ServiceStepInv DEF Next
<1> QED BY <1>1, <1>2

\* In every behaviour of the service and its clients, DaemonInv holds.
LEMMA InvHolds == Spec => []DaemonInv
  BY InitInv, NextInv, PTL DEF Spec

\* At most one process serves an endpoint, whatever is launched, killed or left
\* behind: taking the service lock before clearing and binding the socket is enough,
\* for any number of starts.
THEOREM OneServicePerEndpoint == Spec => []OneService
<1>1. DaemonInv => OneService
  BY DEF DaemonInv, UpHoldsLock, OneService
<1> QED BY <1>1, InvHolds, PTL

\* `rue daemon stop` reports success only once the process it stopped is gone.
THEOREM StopIsComplete == Spec => []StoppedMeansGone
<1>1. DaemonInv => StoppedMeansGone
  BY DEF DaemonInv, StopSawTheEnd, StoppedMeansGone, Calls
<1> QED BY <1>1, InvHolds, PTL

-----------------------------------------------------------------------------
(* A service that serves can be reached *)

Starting == {"probe", "try", "absent", "clear", "launch", "poll", "hello"}

\* A build that starts or looks for a service holds startup.lock; a stop never
\* starts one.
StartsAlone ==
  /\ \A i \in Builds : call[i].pc \in Starting => startup = i
  /\ \A i \in Stops : call[i].pc \notin {"startup", "clear", "launch"}

\* Before it clears and launches, a start has launched nothing.
LaunchesOnce ==
  \A i \in Builds : call[i].pc \in {"startup", "probe", "clear", "launch"} => call[i].launched = None

\* The start that launched a service waits for it to take its lock, or has
\* abandoned it.
Awaited ==
  \A p \in Services :
    svc[p].pc = "launched" =>
      p \in abandoned \/ \E i \in Builds : call[i].launched = p /\ call[i].pc \in Starting

\* A start that clears the socket has made sure that nobody is alive, but for the
\* services other starts abandoned.
NobodyAlive ==
  \A i \in Builds : At(i, "clear") =>
    \A p \in Services : p \in abandoned \/ svc[p].pc \in {"unborn", "gone"}

StartInv == StartsAlone /\ LaunchesOnce /\ Awaited /\ NobodyAlive /\ ReachableUnlessAbandoned

\* The initial states satisfy it: nobody has started, and the service that may be
\* up is behind its socket.
LEMMA InitStart == Init => StartInv
<1> SUFFICES ASSUME Init PROVE StartInv
  OBVIOUS
<1>1. PICK scenario \in Scenarios : InitOf(scenario)
  BY DEF Init
<1> DEFINE p == CHOOSE q \in Services : TRUE
           b == scenario.building
<1>2. b \in Builds \cup {None} /\ p \in Services /\ None \notin Calls /\ Builds \cap Stops = {}
  BY DaemonAssumption
<1>3. Unborn.pc = "unborn" /\ Running(b).pc = "serving"
  <2>1. Unborn \in ServiceRecord /\ Unborn.pc = "unborn"
    BY UnbornShape
  <2> DEFINE serving == [Unborn EXCEPT !.pc = "serving"]
  <2>2. serving \in ServiceRecord /\ serving.pc = "serving"
    BY <2>1 DEF ServiceRecord, ServicePCs
  <2> HIDE DEF serving, b
  <2>3. [serving EXCEPT !.tickets = 1, !.owner = "build", !.job = b, !.active = b].pc = "serving"
    BY <2>2 DEF ServiceRecord
  <2>4. Running(b) = IF b = None THEN serving
                     ELSE [serving EXCEPT !.tickets = 1, !.owner = "build", !.job = b, !.active = b]
    BY DEF Running, serving
  <2> QED BY <2>1, <2>2, <2>3, <2>4
<1>4. \/ scenario.warm /\ socket = p /\ svc = [Fresh EXCEPT ![p] = Running(b)]
      \/ ~scenario.warm /\ svc = Fresh
  BY <1>1, DaemonAssumption DEF InitOf
<1>5. \A q \in Services : svc[q].pc = "unborn" \/ (svc[q].pc = "serving" /\ socket = q)
  <2> HIDE DEF p, b
  <2> QED BY <1>2, <1>3, <1>4 DEF Fresh
<1> DEFINE first(i) == IF i = b THEN [Idle(i) EXCEPT !.pc = "await", !.svc = p, !.sent = TRUE]
                       ELSE IF i \in scenario.calls THEN Idle(i) ELSE [Idle(i) EXCEPT !.pc = "done"]
<1>6. \A i \in Calls :
         /\ first(i).launched = None
         /\ first(i).pc \in {"await", "done", IF i \in Stops THEN "probe" ELSE "startup"}
  <2> TAKE i \in Calls
  <2>1. /\ Idle(i) \in CallRecord /\ Idle(i).pc = (IF i \in Stops THEN "probe" ELSE "startup")
        /\ Idle(i).launched = None
    BY DEF Idle, CallRecord, CallPCs, Outcomes
  <2> HIDE DEF p, b
  <2> QED BY <1>2, <2>1 DEF CallRecord, CallPCs
<1>7. call = [i \in Calls |-> first(i)]
  BY <1>1 DEF InitOf
<1> HIDE DEF first, p, b
<1>8. \A i \in Builds : call[i].launched = None /\ call[i].pc \in {"await", "done", "startup"}
  BY <1>2, <1>6, <1>7 DEF Calls
<1>9. \A i \in Stops : call[i].pc \in {"await", "done", "probe"}
  BY <1>6, <1>7 DEF Calls
<1> QED
  BY <1>5, <1>8, <1>9
  DEF StartInv, StartsAlone, LaunchesOnce, Awaited, NobodyAlive, ReachableUnlessAbandoned,
      Starting, At

\* A step of an invocation, whatever else it does, that keeps to the startup lock,
\* waits for what it launched or abandons it, and clears the socket only when it
\* is alone.
LEMMA StarterStep ==
  ASSUME StartInv, NEW i \in Calls,
         \A j \in Calls \ {i} : call'[j] = call[j],
         \/ startup' = startup
         \/ startup = None /\ startup' = i
         \/ startup' = (IF startup = i THEN None ELSE startup),
         i \in Builds /\ call'[i].pc \in Starting => startup' = i,
         i \in Stops => call'[i].pc \notin {"startup", "clear", "launch"},
         i \in Builds /\ call'[i].pc \in {"startup", "probe", "clear", "launch"} =>
           call'[i].launched = None,
         abandoned \subseteq abandoned',
         \A p \in Services :
           \/ svc'[p].pc = svc[p].pc
           \/ svc[p].pc = "unborn" /\ svc'[p].pc = "launched" /\ At(i, "launch") /\ i \in Builds,
         \A p \in Services : svc'[p].pc = "launched" =>
           \/ p \in abandoned'
           \/ /\ svc[p].pc = "launched"
              /\ ~(i \in Builds /\ call[i].launched = p /\ call[i].pc \in Starting)
           \/ i \in Builds /\ call'[i].launched = p /\ call'[i].pc \in Starting,
         i \in Builds /\ call'[i].pc = "clear" =>
           \A p \in Services : p \in abandoned' \/ svc'[p].pc \in {"unborn", "gone"},
         socket' = socket \/ At(i, "clear")
  PROVE  StartInv'
<1>1. StartsAlone /\ LaunchesOnce /\ Awaited /\ NobodyAlive /\ ReachableUnlessAbandoned
  BY DEF StartInv
<1>2. None \notin Calls /\ Builds \cap Stops = {} /\ Calls = Builds \cup Stops
  BY DaemonAssumption DEF Calls
<1>3. StartsAlone'
  BY <1>1, <1>2 DEF StartsAlone
<1>4. LaunchesOnce'
  BY <1>1, <1>2 DEF LaunchesOnce
<1>5. Awaited'
  <2> SUFFICES ASSUME NEW p \in Services, svc'[p].pc = "launched", p \notin abandoned'
               PROVE  \E j \in Builds : call'[j].launched = p /\ call'[j].pc \in Starting
    BY DEF Awaited
  <2>1. CASE /\ svc[p].pc = "launched"
             /\ ~(i \in Builds /\ call[i].launched = p /\ call[i].pc \in Starting)
    <3>1. PICK j \in Builds : call[j].launched = p /\ call[j].pc \in Starting
      BY <1>1, <2>1 DEF Awaited
    <3>2. j \in Calls \ {i}
      BY <1>2, <2>1, <3>1
    <3> QED BY <3>1, <3>2
  <2> QED BY <2>1
<1>6. NobodyAlive'
  <2> SUFFICES ASSUME NEW j \in Builds, call'[j].pc = "clear", NEW p \in Services,
                      p \notin abandoned'
               PROVE  svc'[p].pc \in {"unborn", "gone"}
    BY DEF NobodyAlive, At
  <2>1. CASE j # i
    <3>1. call[j].pc = "clear" /\ startup = j /\ svc[p].pc \in {"unborn", "gone"}
      BY <1>1, <1>2, <2>1 DEF NobodyAlive, StartsAlone, Starting, At
    <3>2. ~(At(i, "launch") /\ i \in Builds)
      BY <1>1, <2>1, <3>1 DEF StartsAlone, Starting, At
    <3> QED BY <3>1, <3>2
  <2> QED BY <2>1
<1>7. ReachableUnlessAbandoned'
  <2> SUFFICES ASSUME NEW p \in Services, svc'[p].pc = "serving", p \notin abandoned'
               PROVE  socket' = p
    BY DEF ReachableUnlessAbandoned
  <2>1. svc[p].pc = "serving" /\ p \notin abandoned
    OBVIOUS
  <2>2. ~At(i, "clear")
    BY <1>1, <1>2, <2>1 DEF NobodyAlive, StartsAlone, At
  <2> QED BY <1>1, <2>1, <2>2 DEF ReachableUnlessAbandoned
<1> QED BY <1>3, <1>4, <1>5, <1>6, <1>7 DEF StartInv

\* A step of service p that does not launch it again, comes up only from
\* launched, and leaves whoever serves behind the socket.
LEMMA ServerStep ==
  ASSUME StartInv, NEW p \in Services,
         call' = call, startup' = startup, abandoned' = abandoned,
         \A q \in Services \ {p} : svc'[q].pc = svc[q].pc,
         svc'[p].pc = "launched" => svc[p].pc = "launched",
         svc[p].pc \in {"unborn", "gone"} => svc'[p].pc \in {"unborn", "gone"},
         \A q \in Services : svc'[q].pc = "serving" /\ q \notin abandoned => socket' = q
  PROVE  StartInv'
<1>1. StartsAlone /\ LaunchesOnce /\ Awaited /\ NobodyAlive
  BY DEF StartInv
<1>2. StartsAlone' /\ LaunchesOnce'
  BY <1>1 DEF StartsAlone, LaunchesOnce
<1>3. Awaited'
  BY <1>1 DEF Awaited
<1>4. NobodyAlive'
  BY <1>1 DEF NobodyAlive, At
<1>5. ReachableUnlessAbandoned'
  BY DEF ReachableUnlessAbandoned
<1> QED BY <1>2, <1>3, <1>4, <1>5 DEF StartInv

\* An invocation that returns gives up the startup lock, and abandons what it
\* launched if that has not come up.
LEMMA FinishStart ==
  ASSUME Shapes, StartInv, NEW i \in Calls, NEW how \in Outcomes, Finish(i, how),
         svc' = svc, socket' = socket
  PROVE  StartInv'
<1>1. /\ \A j \in Calls \ {i} : call'[j] = call[j]
      /\ call'[i].pc = "done"
  BY FinishEffect DEF Proceeds
<1>2. startup' = (IF startup = i THEN None ELSE startup) /\ abandoned' = abandoned \cup Left(i)
  BY DEF Finish
<1>3. \A p \in Services : svc[p].pc = "launched" /\ call[i].launched = p => p \in abandoned'
  BY <1>2 DEF Left
<1> QED BY <1>1, <1>2, <1>3, StarterStep DEF Starting

\* An invocation that moves on without returning or launching anything.
LEMMA MoveStart ==
  ASSUME Shapes, StartInv, NEW i \in Calls, NEW to \in CallPCs, call' = Goto(i, to),
         svc' = svc, abandoned' = abandoned,
         \/ startup' = startup
         \/ startup = None /\ startup' = i,
         i \in Builds /\ to \in Starting => startup' = i,
         i \in Stops => to \notin {"startup", "clear", "launch"},
         i \in Builds /\ to \in {"startup", "probe", "clear", "launch"} => call[i].launched = None,
         to \in Starting \/ ~(i \in Builds /\ call[i].pc \in Starting),
         i \in Builds /\ to = "clear" =>
           \A p \in Services : p \in abandoned \/ svc[p].pc \in {"unborn", "gone"},
         socket' = socket \/ At(i, "clear")
  PROVE  StartInv'
<1>1. /\ \A j \in Calls \ {i} : call'[j] = call[j]
      /\ call'[i].pc = to /\ call'[i].launched = call[i].launched
  BY GotoEffect DEF Proceeds
<1> QED BY <1>1, StarterStep

\* Every step of an invocation, deadlines and kills included, keeps it.
LEMMA CallStepStart ==
  ASSUME DaemonInv, StartInv, NEW i \in Calls, CallStep(i) \/ Timeout(i) \/ KillCall(i)
  PROVE  StartInv'
<1>1. Shapes /\ UpHoldsLock /\ ProbeHoldsLock /\ StartsAlone /\ LaunchesOnce /\ Awaited
  BY DEF DaemonInv, StartInv
<1>2. /\ None \notin Calls /\ None \notin Services /\ Builds \cap Stops = {}
      /\ Calls = Builds \cup Stops /\ Calls \cap Services = {}
  BY DaemonAssumption DEF Calls
<1>3. Unavailable(i) \in Outcomes
  BY DEF Unavailable, Outcomes
<1>4. call[i].pc \in CallPCs /\ svc \in [Services -> ServiceRecord]
  BY <1>1 DEF Shapes, CallRecord
<1>5. \A p \in Services : svc[p].pc \in ServicePCs
  BY <1>4 DEF ServiceRecord
<1>6. CASE TakeStartup(i)
  <2>1. /\ call' = Goto(i, "probe") /\ svc' = svc /\ socket' = socket /\ abandoned' = abandoned
        /\ startup = None /\ startup' = i /\ call[i].pc = "startup"
    BY <1>6 DEF TakeStartup, At
  <2> QED BY <1>1, <1>2, <2>1, MoveStart DEF Starting, CallPCs, LaunchesOnce
<1>7. CASE Connect(i)
  <2>1. /\ svc' = svc /\ socket' = socket /\ abandoned' = abandoned /\ startup' = startup
        /\ call[i].pc \in {"probe", "poll"}
    BY <1>7 DEF Connect, At, files
  <2>2. i \in Builds => startup = i
    BY <1>1, <2>1 DEF StartsAlone, Starting
  <2>3. CASE call' = Goto(i, "try")
    BY <1>1, <1>2, <2>1, <2>2, <2>3, MoveStart DEF Starting, CallPCs
  <2>4. CASE call' = [call EXCEPT ![i].pc = "hello", ![i].svc = socket] /\ socket # None
    <3>1. socket \in Services
      BY <1>1, <2>4 DEF Shapes
    <3>2. /\ \A j \in Calls \ {i} : call'[j] = call[j]
          /\ call'[i].pc = "hello" /\ call'[i].launched = call[i].launched
      BY <1>1, <2>4, <3>1, ConnectEffect DEF Proceeds
    <3> QED BY <1>1, <1>2, <2>1, <2>2, <3>2, StarterStep DEF Starting
  <2> QED BY <1>7, <2>3, <2>4 DEF Connect
<1>8. CASE TryService(i)
  <2>1. /\ svc' = svc /\ socket' = socket /\ abandoned' = abandoned /\ startup' = startup
        /\ call[i].pc = "try" /\ (call' = Goto(i, "absent") \/ call' = Goto(i, "poll"))
    BY <1>8 DEF TryService, At
  <2>2. i \in Builds => startup = i
    BY <1>1, <2>1 DEF StartsAlone, Starting
  <2> QED BY <1>1, <1>2, <2>1, <2>2, MoveStart DEF Starting, CallPCs
<1>9. CASE Absent(i)
  <2>1. svc' = svc /\ socket' = socket /\ call[i].pc = "absent" /\ lock = i
    BY <1>1, <1>9 DEF Absent, At, ProbeHoldsLock
  <2>2. i \in Builds => startup = i
    BY <1>1, <2>1 DEF StartsAlone, Starting
  <2>3. CASE Finish(i, "not_running") \/ Finish(i, "direct")
    BY <1>1, <2>1, <2>3, FinishStart DEF Outcomes
  <2>4. CASE /\ i \in Builds /\ startup' = startup /\ abandoned' = abandoned
             /\ call[i].launched = None /\ call' = Goto(i, "clear")
    <3>1. ASSUME NEW p \in Services, p \notin abandoned PROVE svc[p].pc \in {"unborn", "gone"}
      <4>1. ~Up(p)
        BY <1>1, <1>2, <2>1 DEF UpHoldsLock
      <4>2. svc[p].pc # "launched"
        BY <1>1, <1>2, <2>2, <2>4, <3>1 DEF Awaited, StartsAlone
      <4> QED BY <1>5, <4>1, <4>2 DEF Up, ServicePCs
    <3> QED BY <1>1, <1>2, <2>1, <2>2, <2>4, <3>1, MoveStart DEF Starting, CallPCs
  <2>5. CASE /\ i \in Builds /\ startup' = startup /\ abandoned' = abandoned
             /\ call' = Goto(i, "poll")
    BY <1>1, <1>2, <2>1, <2>2, <2>5, MoveStart DEF Starting, CallPCs
  <2> QED BY <1>9, <2>3, <2>4, <2>5 DEF Absent
<1>10. CASE ClearStale(i)
  <2>1. /\ svc' = svc /\ abandoned' = abandoned /\ startup' = startup
        /\ call[i].pc = "clear" /\ At(i, "clear") /\ call' = Goto(i, "launch")
    BY <1>10 DEF ClearStale, At
  <2>2. i \in Builds /\ startup = i /\ call[i].launched = None
    BY <1>1, <1>2, <2>1 DEF StartsAlone, Starting, LaunchesOnce
  <2> QED BY <1>1, <1>2, <2>1, <2>2, MoveStart DEF Starting, CallPCs
<1>11. CASE Launch(i)
  <2> DEFINE left == {q \in Services : svc[q].pc = "unborn"}
             p == CHOOSE q \in left : TRUE
  <2>1. call[i].pc = "launch" /\ At(i, "launch") /\ socket' = socket
    BY <1>11 DEF Launch, At
  <2>2. i \in Builds /\ startup = i /\ call[i].launched = None
    BY <1>1, <1>2, <2>1 DEF StartsAlone, Starting, LaunchesOnce
  <2>3. CASE Finish(i, "direct") /\ svc' = svc
    BY <1>1, <2>1, <2>3, FinishStart DEF Outcomes
  <2>4. CASE /\ left # {} /\ startup' = startup /\ abandoned' = abandoned
             /\ svc' = [svc EXCEPT ![p].pc = "launched"]
             /\ call' = [call EXCEPT ![i].pc = "poll", ![i].launched = p]
    <3>1. p \in Services /\ svc[p].pc = "unborn"
      BY <2>4
    <3> HIDE DEF p, left
    <3>2. /\ svc'[p].pc = "launched"
          /\ \A q \in Services \ {p} : svc'[q].pc = svc[q].pc
      BY <1>1, <2>4, <3>1, LaunchEffect DEF Becomes
    <3>3. /\ \A j \in Calls \ {i} : call'[j] = call[j]
          /\ call'[i].pc = "poll" /\ call'[i].launched = p
      BY <1>1, <2>4, <3>1, LaunchedEffect DEF Proceeds
    <3>4. \A q \in Services : call[i].launched # q
      BY <1>2, <2>2
    <3>5. \A q \in Services :
            \/ svc'[q].pc = svc[q].pc
            \/ svc[q].pc = "unborn" /\ svc'[q].pc = "launched" /\ At(i, "launch") /\ i \in Builds
      BY <2>1, <2>2, <3>1, <3>2
    <3>6. \A q \in Services : svc'[q].pc = "launched" =>
            \/ q \in abandoned'
            \/ /\ svc[q].pc = "launched"
               /\ ~(i \in Builds /\ call[i].launched = q /\ call[i].pc \in Starting)
            \/ i \in Builds /\ call'[i].launched = q /\ call'[i].pc \in Starting
      BY <2>2, <3>2, <3>3, <3>4 DEF Starting
    <3>7. startup' = startup /\ abandoned' = abandoned /\ i \in Builds /\ startup = i
          /\ i \notin Stops /\ socket' = socket
      BY <1>2, <2>1, <2>2, <2>4
    <3> QED BY <3>3, <3>5, <3>6, <3>7, StarterStep
  <2> QED BY <1>11, <2>3, <2>4 DEF Launch
<1>12. CASE Timeout(i)
  <2>1. svc' = svc /\ socket' = socket /\ (Finish(i, "failed") \/ Finish(i, Unavailable(i)))
    BY <1>12 DEF Timeout
  <2> QED BY <1>1, <1>3, <2>1, FinishStart DEF Outcomes
<1>13. CASE Welcomed(i)
  <2>1. svc' = svc /\ socket' = socket /\ call[i].pc = "hello"
    BY <1>13 DEF Welcomed, At
  <2>2. CASE /\ call' = Goto(i, "submit") /\ startup' = (IF startup = i THEN None ELSE startup)
             /\ abandoned' = abandoned \cup Left(i)
    <3>1. /\ \A j \in Calls \ {i} : call'[j] = call[j]
          /\ call'[i].pc = "submit"
      BY <1>1, <2>2, GotoEffect DEF Proceeds, CallPCs
    <3>2. \A p \in Services : svc[p].pc = "launched" /\ call[i].launched = p => p \in abandoned'
      BY <2>2 DEF Left
    <3> QED BY <2>1, <2>2, <3>1, <3>2, StarterStep DEF Starting
  <2>3. CASE Finish(i, Unavailable(i))
    BY <1>1, <1>3, <2>1, <2>3, FinishStart
  <2> QED BY <1>13, <2>2, <2>3 DEF Welcomed
<1>14. CASE Submit(i)
  <2>1. svc' = svc /\ socket' = socket /\ call[i].pc = "submit"
    BY <1>14 DEF Submit, At
  <2>2. CASE /\ call' = [call EXCEPT ![i].pc = "sent", ![i].sent = TRUE]
             /\ startup' = startup /\ abandoned' = abandoned
    <3>1. /\ \A j \in Calls \ {i} : call'[j] = call[j]
          /\ call'[i].pc = "sent"
      BY <1>1, <2>2, SubmitEffect DEF Proceeds
    <3> QED BY <2>1, <2>2, <3>1, StarterStep DEF Starting
  <2>3. CASE Finish(i, Unavailable(i))
    BY <1>1, <1>3, <2>1, <2>3, FinishStart
  <2> QED BY <1>14, <2>2, <2>3 DEF Submit
<1>15. CASE Admission(i) \/ Await(i) \/ Acknowledged(i) \/ Released(i) \/ Stopped(i) \/ KillCall(i)
  <2>1. svc' = svc /\ socket' = socket
    BY <1>15 DEF Admission, Await, Acknowledged, Released, Stopped, KillCall
  <2>2. CASE \E how \in Outcomes : Finish(i, how)
    BY <1>1, <2>1, <2>2, FinishStart
  <2>3. CASE /\ \E to \in {"await", "release", "released"} : call' = Goto(i, to)
             /\ call[i].pc \in {"sent", "release"}
             /\ startup' = startup /\ abandoned' = abandoned
    BY <1>1, <2>1, <2>3, MoveStart DEF Starting, CallPCs
  <2>4. (\E how \in Outcomes : Finish(i, how))
        \/ /\ \E to \in {"await", "release", "released"} : call' = Goto(i, to)
           /\ call[i].pc \in {"sent", "release"}
           /\ startup' = startup /\ abandoned' = abandoned
    BY <1>15 DEF Admission, Await, Acknowledged, Released, Stopped, KillCall, At, Outcomes,
                 LostSubmission
  <2> QED BY <2>2, <2>3, <2>4
<1> QED
  BY <1>6, <1>7, <1>8, <1>9, <1>10, <1>11, <1>12, <1>13, <1>14, <1>15 DEF CallStep

\* Every step of a handler keeps it: the process stays where it is.
LEMMA HandlerStepStart ==
  ASSUME DaemonInv, StartInv, NEW i \in Calls, HandlerStep(i) \/ SilentClient(i)
  PROVE  StartInv'
<1>1. /\ call' = call /\ startup' = startup /\ abandoned' = abandoned /\ socket' = socket
  BY DEF HandlerStep, ReadRequest, StopService, Admit, Reserve, Send, WriteAccepted, Watch, Relay,
         SilentClient, files
<1>2. \A q \in Services : svc'[q].pc = svc[q].pc
  BY HandlerKeepsPlace DEF DaemonInv
<1>3. PICK p \in Services : TRUE
  BY DaemonAssumption
<1> QED BY <1>1, <1>2, <1>3, ServerStep DEF StartInv, ReachableUnlessAbandoned

\* Every step of a service, and its death, keeps it.
LEMMA ServiceStepStart ==
  ASSUME DaemonInv, StartInv, NEW p \in Services,
         LoopStep(p) \/ OwnerStep(p) \/ Panic(p) \/ KillService(p)
  PROVE  StartInv'
<1>1. Shapes /\ UpHoldsLock /\ ReachableUnlessAbandoned /\ None \notin Services
  BY DaemonAssumption DEF DaemonInv, StartInv
<1>2. call' = call /\ startup' = startup /\ abandoned' = abandoned
  BY DEF LoopStep, LockService, Bind, Accept, Leave, CloseJobs, CloseListener, Exit, OwnerStep,
         Receive, Turn, SetActive, BuildEnds, Panic, KillService, files
<1> DEFINE Moved(to) == /\ \A q \in Services \ {p} : svc'[q].pc = svc[q].pc
                        /\ svc'[p].pc = to
<1>3. CASE LockService(p)
  <2>1. CASE lock = None
    <3>1. svc[p].pc = "launched" /\ Moved("locked")
      BY <1>1, <1>3, <2>1, LockedEffect DEF Becomes, LockService
    <3>2. \A q \in Services : svc[q].pc # "serving"
      BY <1>1, <2>1 DEF UpHoldsLock, Up
    <3> QED BY <1>2, <3>1, <3>2, ServerStep
  <2>2. CASE lock # None
    <3>1. svc[p].pc = "launched" /\ Moved("gone") /\ socket' = socket
      BY <1>1, <1>3, <2>2, RefusedEffect DEF Becomes, LockService
    <3> QED BY <1>1, <1>2, <3>1, ServerStep DEF ReachableUnlessAbandoned
  <2> QED BY <2>1, <2>2
<1>4. CASE Bind(p)
  <2>1. svc[p].pc = "locked" /\ Moved("serving") /\ socket' = p
    BY <1>1, <1>4, BindEffect DEF Becomes, Bind
  <2>2. \A q \in Services \ {p} : svc[q].pc # "serving"
    BY <1>1, <2>1 DEF UpHoldsLock, Up
  <2> QED BY <1>2, <2>1, <2>2, ServerStep
<1>5. CASE Exit(p)
  <2>1. svc[p].pc = "ended" /\ Moved("gone")
    BY <1>1, <1>5, ExitEffect DEF Becomes, Exit
  <2>2. \A q \in Services \ {p} : svc[q].pc # "serving"
    BY <1>1, <2>1 DEF UpHoldsLock, Up
  <2> QED BY <1>2, <2>1, <2>2, ServerStep
<1>6. CASE Leave(p)
  <2>1. svc[p].pc = "serving" /\ Moved("leaving") /\ socket' = socket
    BY <1>1, <1>6, LeaveEffect DEF Becomes, Leave, files
  <2> QED BY <1>1, <1>2, <2>1, ServerStep DEF ReachableUnlessAbandoned
<1>7. CASE CloseJobs(p)
  <2>1. svc[p].pc = "leaving" /\ Moved("draining") /\ socket' = socket
    BY <1>1, <1>7, CloseJobsEffect DEF Becomes, CloseJobs, files
  <2> QED BY <1>1, <1>2, <2>1, ServerStep DEF ReachableUnlessAbandoned
<1>8. CASE CloseListener(p)
  <2>1. svc[p].pc = "draining" /\ Moved("ended") /\ socket' = socket
    BY <1>1, <1>8, CloseListenerEffect DEF Becomes, CloseListener, files
  <2> QED BY <1>1, <1>2, <2>1, ServerStep DEF ReachableUnlessAbandoned
<1>9. CASE Accept(p) \/ OwnerStep(p)
  <2>1. socket' = socket
    BY <1>9 DEF Accept, OwnerStep, Receive, Turn, SetActive, BuildEnds, files
  <2>2. Accept(p) => svc' = svc
    BY DEF Accept
  <2>3. OwnerStep(p) => \A q \in Services : svc'[q].pc = svc[q].pc
    <3>1. Receive(p) => \A q \in Services : svc'[q].pc = svc[q].pc
      BY <1>1, ReceiveEffect DEF Becomes
    <3>2. Turn(p) => \A q \in Services : svc'[q].pc = svc[q].pc
      BY <1>1, SkipEffect, StartEffect DEF Becomes
    <3>3. SetActive(p) => \A q \in Services : svc'[q].pc = svc[q].pc
      BY <1>1, SetActiveEffect DEF Becomes
    <3>4. BuildEnds(p) => \A q \in Services : svc'[q].pc = svc[q].pc
      BY <1>1, BuildEndsEffect DEF Becomes
    <3> QED BY <3>1, <3>2, <3>3, <3>4 DEF OwnerStep
  <2>4. \A q \in Services : svc'[q].pc = svc[q].pc
    BY <1>9, <2>2, <2>3
  <2> QED BY <1>1, <1>2, <2>1, <2>4, ServerStep DEF ReachableUnlessAbandoned
<1>10. CASE Panic(p) \/ KillService(p)
  <2>1. socket' = socket /\ Dies(p)
    BY <1>10 DEF Panic, KillService
  <2>2. Moved("gone")
    BY <1>1, <2>1, DiesEffect DEF Becomes
  <2> QED BY <1>1, <1>2, <2>1, <2>2, ServerStep DEF ReachableUnlessAbandoned
<1> QED
  BY <1>3, <1>4, <1>5, <1>6, <1>7, <1>8, <1>9, <1>10 DEF LoopStep

\* The invariant of starting holds in every state of every behaviour.
LEMMA StartInvHolds == Spec => []StartInv
<1>1. DaemonInv /\ StartInv /\ [Next]_vars => StartInv'
  <2> SUFFICES ASSUME DaemonInv, StartInv, [Next]_vars PROVE StartInv'
    OBVIOUS
  <2>1. CASE UNCHANGED vars
    <3>1. svc' = svc /\ call' = call /\ socket' = socket /\ startup' = startup
          /\ abandoned' = abandoned
      BY <2>1 DEF vars, files
    <3>2. PICK p \in Services : TRUE
      BY DaemonAssumption
    <3> QED BY <3>1, <3>2, ServerStep DEF StartInv, ReachableUnlessAbandoned
  <2>2. CASE Next
    BY <2>2, CallStepStart, HandlerStepStart, ServiceStepStart DEF Next
  <2> QED BY <2>1, <2>2
<1> QED BY <1>1, InitStart, InvHolds, PTL DEF Spec

\* A service that serves is behind the socket, so that every start finds it,
\* unless the start that launched it had gone: holding startup.lock from the probe
\* to the welcome, and probing the service lock before clearing, is what makes
\* clear_stale safe, for any number of starts.
THEOREM ServicesAreReachable == Spec => []ReachableUnlessAbandoned
<1>1. StartInv => ReachableUnlessAbandoned
  BY DEF StartInv
<1> QED BY <1>1, StartInvHolds, PTL
=============================================================================
