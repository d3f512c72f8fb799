------------------------ MODULE DaemonRequestProofs -------------------------
(* What the service owes a request it has read: a refusal means no work, an
   admission an answer, and the queue's counter counts; for any number of
   invocations, processes, queue places, launches and faults. *)
EXTENDS DaemonProofs, FiniteSetTheorems, SequenceTheorems

\* Every leaf may take its time.
USE SMTT(120), ZenonT(120)

HandlerPCs == {"none", "backlog", "request", "stop", "admit", "reserve", "send", "accept",
               "waiting", "closed"}
Live == {"backlog", "request", "stop", "admit", "reserve", "send", "accept", "waiting"}

\* What a client may not have read yet.
Nothing == << >>
Accepted == <<"accepted">>
Rejected == <<"rejected">>
Result == <<"result">>
AcceptedResult == <<"accepted", "result">>
Stopping == <<"stopping">>
Frames == {Nothing, Accepted, Rejected, Result, AcceptedResult, Stopping}

Values ==
  /\ handler \in [Calls -> HandlerPCs]
  /\ inbox \in [Calls -> Frames]
  /\ ticket \in [Calls -> Nat]
  /\ canceled \subseteq Builds /\ replies \subseteq Builds
  /\ started \subseteq Builds /\ panicked \subseteq Builds

Before == {"startup", "probe", "try", "absent", "clear", "launch", "poll"}

\* How far a client, the handler of its connection and the frames between them
\* can be apart.
Talk(i) ==
  /\ call[i].svc = None <=> handler[i] = "none"
  /\ call[i].pc \in Before => handler[i] = "none"
  /\ call[i].pc = "hello" => handler[i] \in {"backlog", "request", "closed"}
  /\ call[i].pc = "submit" => handler[i] \in {"request", "closed"}
  /\ call[i].pc \in Before \cup {"hello", "submit"} => ~call[i].sent
  /\ call[i].pc \in {"sent", "await", "release", "released"} => call[i].sent
  /\ ~call[i].sent => handler[i] \in {"none", "backlog", "request", "closed"} /\ inbox[i] = Nothing
  /\ call[i].sent => handler[i] \notin {"none", "backlog"}
  /\ handler[i] \in Live \ {"stop", "waiting"} => inbox[i] = Nothing
  /\ handler[i] = "waiting" => inbox[i] \in {Nothing, Accepted}
  /\ At(i, "sent") /\ handler[i] = "waiting" => inbox[i] = Accepted
  /\ At(i, "sent") => inbox[i] # Result
  /\ At(i, "await") => handler[i] \in {"waiting", "closed"} /\ inbox[i] \in {Nothing, Result}
  /\ At(i, "await") /\ handler[i] = "waiting" => inbox[i] = Nothing
  /\ ~Done(i) => call[i].outcome = "none"
  /\ call[i].outcome = "direct" /\ call[i].sent => handler[i] = "closed"
  /\ i \in Stops => /\ handler[i] \in {"none", "backlog", "request", "stop", "closed"}
                    /\ inbox[i] \in {Nothing, Stopping}
                    /\ ~At(i, "await")
  /\ i \in Builds => /\ handler[i] # "stop" /\ inbox[i] # Stopping
                     /\ call[i].pc \notin {"release", "released"}

Talks == \A i \in Calls : Talk(i)

\* A connection that is served is served by a process that listens.
Served == \A i \in Calls : handler[i] \in Live => Listening(call[i].svc)

\* The owner's job is the build it has received, and the active build the one it
\* runs.
Owners ==
  \A p \in Services :
    /\ svc[p].queue \in Seq(Builds)
    /\ svc[p].owner = "recv" <=> svc[p].job = None
    /\ svc[p].job \in Builds \cup {None}
    /\ svc[p].active = IF svc[p].owner = "build" THEN svc[p].job ELSE None

Has(p, i) == svc[p].job = i \/ \E k \in 1 .. Len(svc[p].queue) : svc[p].queue[k] = i

\* Builds are queued and run where they were sent.
InPlace == \A p \in Services, i \in Calls : Has(p, i) => call[i].svc = p

Held(i) == i \in started \/ \E p \in Services : Has(p, i)

\* A build the service holds, or has begun, was read, given a ticket and never
\* refused.
Worked ==
  \A i \in Calls : Held(i) =>
    /\ call[i].sent /\ handler[i] \in {"accept", "waiting", "closed"}
    /\ inbox[i] # Rejected /\ call[i].outcome # "direct"
    /\ ticket[i] >= 1

\* No two requests of one service have the same ticket.
Tickets ==
  /\ \A p \in Services : svc[p].tickets \in Nat
  /\ \A i \in Calls : handler[i] \in {"none", "backlog", "request", "admit", "reserve"} => ticket[i] = 0
  /\ \A i \in Calls : handler[i] \in {"send", "accept", "waiting"} => ticket[i] >= 1
  /\ \A i \in Calls : call[i].svc \in Services /\ svc[call[i].svc].pc # "gone" =>
                        ticket[i] <= svc[call[i].svc].tickets
  /\ \A i, j \in Calls : i # j /\ call[i].svc = call[j].svc /\ ticket[i] >= 1 => ticket[i] # ticket[j]

\* The crash record is that of a build a panic ended.
Crashes ==
  /\ \A j \in panicked : handler[j] = "closed" /\ ticket[j] >= 1
  /\ crash.svc # None =>
       \E j \in panicked : call[j].svc = crash.svc /\ ticket[j] = crash.ticket
  /\ \A i \in Calls : call[i].outcome = "panicked" => i \in panicked

Dead(p) == p \in killed \cup {call[j].svc : j \in panicked}

\* Why an admitted build may have no answer: the client did not take a frame in
\* time, or the process was killed or panicked.
Excused(i) == i \in cutoff \/ Dead(call[i].svc)

\* An admitted build whose connection ends without an answer is excused.
Ends ==
  \A i \in Calls :
    \/ handler[i] = "closed" /\ At(i, "await") /\ inbox[i] = Nothing
    \/ handler[i] = "closed" /\ At(i, "sent") /\ inbox[i] = Accepted
    \/ call[i].outcome = "lost"
    => Excused(i)

RequestInv ==
  Values /\ Talks /\ Served /\ Owners /\ InPlace /\ Worked /\ Tickets /\ Crashes /\ Ends

Ticketed(p) == {i \in Builds : call[i].svc = p /\ ticket[i] >= 1}
Senders(p) == {i \in Builds : call[i].svc = p /\ handler[i] = "send"}
AtTurn(p) == IF svc[p].owner = "turn" THEN 1 ELSE 0

\* The counters of a service and what they count.
Counted(p) ==
  /\ svc[p].queued = Len(svc[p].queue) + AtTurn(p) + Cardinality(Senders(p))
  /\ svc[p].queued <= MaxQueued
  /\ svc[p].tickets <= Cardinality(Ticketed(p))

\* A build has at most one ticket, so there are no more tickets than builds.
Counts ==
  /\ \A p \in Services : Counted(p)
  /\ \A i \in Calls : ticket[i] <= Cardinality(Builds)

\* The locks are held by who may hold them, and the bounds are not overrun.
Holders ==
  /\ startup \in Builds \cup {None} /\ lock \in Calls \cup Services \cup {None}
  /\ launches \in Nat /\ faults \in Nat

-----------------------------------------------------------------------------
(* Frames *)

\* Two elements are a first one and one appended to it.
LEMMA AppendToOne ==
  ASSUME NEW S, NEW x \in S, NEW y \in S
  PROVE  Append(<<x>>, y) = <<x, y>>
<1> DEFINE s == <<x>>
           t == Append(s, y)
           u == <<x, y>>
<1>1. s \in Seq(S) /\ Len(s) = 1 /\ s[1] = x
  OBVIOUS
<1>2. u \in Seq(S) /\ Len(u) = 2 /\ u[1] = x /\ u[2] = y
  OBVIOUS
<1> HIDE DEF s, u
<1>3. /\ t \in Seq(S) /\ Len(t) = Len(s) + 1 /\ t[Len(s) + 1] = y
      /\ \A k \in 1 .. Len(s) : t[k] = s[k]
  <2>1. ASSUME NEW z \in Seq(S)
        PROVE  /\ Append(z, y) \in Seq(S) /\ Len(Append(z, y)) = Len(z) + 1
               /\ Append(z, y)[Len(z) + 1] = y
               /\ \A k \in 1 .. Len(z) : Append(z, y)[k] = z[k]
    OBVIOUS
  <2> QED BY <1>1, <2>1
<1> HIDE DEF t
<1>4. Len(t) = 2 /\ t[1] = x /\ t[2] = y
  <2>1. Len(s) + 1 = 2 /\ 1 \in 1 .. Len(s)
    BY <1>1
  <2>2. Len(t) = 2 /\ t[2] = y
    BY <1>3, <2>1
  <2>3. t[1] = x
    BY <1>1, <1>3, <2>1
  <2> QED BY <2>2, <2>3
<1>5. \A k \in 1 .. 2 : t[k] = u[k]
  BY <1>2, <1>4
<1>6. t = u
  BY <1>2, <1>3, <1>4, <1>5, SeqEqual
<1> QED BY <1>6 DEF s, t, u

\* The six inboxes differ, and what writing and reading a frame does to them.
LEMMA FrameFacts ==
  /\ Nothing # Accepted /\ Nothing # Rejected /\ Nothing # Result /\ Nothing # AcceptedResult
  /\ Nothing # Stopping /\ Accepted # Rejected /\ Accepted # Result /\ Accepted # AcceptedResult
  /\ Accepted # Stopping /\ Rejected # Result /\ Rejected # AcceptedResult /\ Rejected # Stopping
  /\ Result # AcceptedResult /\ Result # Stopping /\ AcceptedResult # Stopping
  /\ Append(Nothing, "accepted") = Accepted /\ Append(Nothing, "rejected") = Rejected
  /\ Append(Nothing, "stopping") = Stopping /\ Append(Nothing, "result") = Result
  /\ Append(Accepted, "result") = AcceptedResult
  /\ Tail(Accepted) = Nothing /\ Tail(AcceptedResult) = Result
<1>1. Head(Accepted) = "accepted" /\ Head(Rejected) = "rejected" /\ Head(Result) = "result"
      /\ Head(AcceptedResult) = "accepted" /\ Head(Stopping) = "stopping"
  BY DEF Accepted, Rejected, Result, AcceptedResult, Stopping
<1>2. Len(Nothing) = 0 /\ Len(Accepted) = 1 /\ Len(Rejected) = 1 /\ Len(Result) = 1
      /\ Len(AcceptedResult) = 2 /\ Len(Stopping) = 1
  BY DEF Nothing, Accepted, Rejected, Result, AcceptedResult, Stopping
<1>3. /\ Accepted # Rejected /\ Accepted # Result /\ Accepted # Stopping /\ Rejected # Result
      /\ Rejected # AcceptedResult /\ Rejected # Stopping /\ Result # AcceptedResult
      /\ Result # Stopping /\ AcceptedResult # Stopping
  BY <1>1
<1>4. /\ Nothing # Accepted /\ Nothing # Rejected /\ Nothing # Result /\ Nothing # AcceptedResult
      /\ Nothing # Stopping /\ Accepted # AcceptedResult
  BY <1>2
<1>5. /\ Append(Nothing, "accepted") = Accepted /\ Append(Nothing, "rejected") = Rejected
      /\ Append(Nothing, "stopping") = Stopping /\ Append(Nothing, "result") = Result
  BY DEF Nothing, Accepted, Rejected, Result, Stopping
<1>6. Append(Accepted, "result") = AcceptedResult
  <2>1. "accepted" \in {"accepted", "result"} /\ "result" \in {"accepted", "result"}
    OBVIOUS
  <2>2. Append(<<"accepted">>, "result") = <<"accepted", "result">>
    BY <2>1, AppendToOne
  <2> QED BY <2>2 DEF Accepted, AcceptedResult
<1>7. Tail(Accepted) = Nothing
  BY DEF Accepted, Nothing
<1>8. Tail(AcceptedResult) = Result
  BY DEF AcceptedResult, Result
<1> QED BY <1>3, <1>4, <1>5, <1>6, <1>7, <1>8

\* What a client reads next.
LEMMA HearFacts ==
  ASSUME Values, NEW i \in Calls
  PROVE  /\ Unread(i) <=> inbox[i] # Nothing
         /\ Hears(i, "accepted") => inbox[i] \in {Accepted, AcceptedResult}
         /\ Hears(i, "rejected") => inbox[i] = Rejected
         /\ Hears(i, "result") => inbox[i] = Result
         /\ Hears(i, "stopping") => inbox[i] = Stopping
<1>1. Head(Accepted) = "accepted" /\ Head(Rejected) = "rejected" /\ Head(Result) = "result"
      /\ Head(AcceptedResult) = "accepted" /\ Head(Stopping) = "stopping"
  BY DEF Accepted, Rejected, Result, AcceptedResult, Stopping
<1>2. Unread(i) <=> inbox[i] # Nothing
  BY DEF Unread, Nothing
<1>3. inbox[i] \in Frames
  BY DEF Values
<1> QED BY <1>1, <1>2, <1>3 DEF Hears, Frames

\* A write delivers its frame, or fails on a client that has left or is cut off.
LEMMA WriteFacts ==
  ASSUME Values, NEW i \in Calls, NEW frame, Write(i, frame)
  PROVE  /\ \A j \in Calls \ {i} : inbox'[j] = inbox[j]
         /\ \/ ~Done(i) /\ inbox'[i] = Append(inbox[i], frame)
            \/ inbox'[i] = inbox[i] /\ (Done(i) \/ i \in cutoff')
         /\ DOMAIN inbox' = Calls /\ inbox' = [j \in Calls |-> inbox'[j]]
<1>1. CASE Delivers(i, frame)
  BY <1>1 DEF Values, Delivers, Gone
<1>2. CASE Fails(i)
  BY <1>2 DEF Values, Fails, Gone
<1> QED BY <1>1, <1>2 DEF Write

-----------------------------------------------------------------------------
(* What a step of one actor must respect *)

\* The work of a service that a step leaves alone.
SameWork(p) ==
  /\ svc'[p].queue = svc[p].queue /\ svc'[p].owner = svc[p].owner
  /\ svc'[p].job = svc[p].job /\ svc'[p].active = svc[p].active
  /\ svc'[p].tickets = svc[p].tickets

\* What holds of Calls, Builds and Services, and of an invocation's service.
LEMMA Constants ==
  /\ Calls = Builds \cup Stops /\ Builds \cap Stops = {} /\ Calls \cap Services = {}
  /\ None \notin Calls /\ None \notin Services /\ IsFiniteSet(Builds)
  BY DaemonAssumption DEF Calls

\* A step of an invocation: what the services hold is as it was.
LEMMA ClientStep ==
  ASSUME DaemonInv, RequestInv, NEW i \in Calls,
         \A j \in Calls \ {i} : call'[j] = call[j],
         handler' \in [Calls -> HandlerPCs], \A j \in Calls \ {i} : handler'[j] = handler[j],
         inbox' \in [Calls -> Frames], \A j \in Calls \ {i} : inbox'[j] = inbox[j],
         UNCHANGED <<ticket, canceled, replies, started, panicked, killed, cutoff, crash>>,
         \A p \in Services : SameWork(p),
         \A p \in Services : svc[p].pc \in Reached => svc'[p].pc = svc[p].pc,
         \/ call'[i].svc = call[i].svc /\ handler'[i] = handler[i]
         \/ /\ handler[i] = "none" /\ handler'[i] = "backlog"
            /\ call'[i].svc \in Services /\ Listening(call'[i].svc),
         Talk(i)',
         call[i].sent => call'[i].sent,
         inbox'[i] = Rejected => inbox[i] = Rejected,
         call'[i].outcome = "direct" => ~Held(i),
         call'[i].outcome = "panicked" => i \in panicked,
         \/ handler'[i] = "closed" /\ call'[i].pc = "await" /\ inbox'[i] = Nothing
         \/ handler'[i] = "closed" /\ call'[i].pc = "sent" /\ inbox'[i] = Accepted
         \/ call'[i].outcome = "lost"
         => Excused(i) /\ handler[i] # "none"
  PROVE  RequestInv'
<1>1. /\ Values /\ Talks /\ Served /\ Owners /\ InPlace /\ Worked /\ Tickets /\ Crashes /\ Ends
      /\ ConnectedToServed /\ Shapes
  BY DEF RequestInv, DaemonInv
<1>2. /\ Calls = Builds \cup Stops /\ None \notin Services /\ None \notin Calls
      /\ started \subseteq Calls /\ panicked \subseteq Calls
  BY <1>1, Constants DEF Values
<1>3. \A j \in Calls : Talk(j)
  BY <1>1 DEF Talks
<1>4. handler[i] = "none" => ~Held(i) /\ i \notin panicked /\ ticket[i] = 0 /\ call[i].svc = None
  BY <1>1, <1>3 DEF Worked, Crashes, Tickets, Talk
<1>5. Values'
  BY <1>1 DEF Values
<1>6. Talks'
  <2> SUFFICES ASSUME NEW j \in Calls, j # i PROVE Talk(j)'
    BY DEF Talks
  <2>1. Talk(j) /\ call'[j] = call[j] /\ handler'[j] = handler[j] /\ inbox'[j] = inbox[j]
    BY <1>3
  <2> QED BY <2>1 DEF Talk, At, Done
<1>7. Served'
  <2> SUFFICES ASSUME NEW j \in Calls, handler'[j] \in Live PROVE Listening(call[j].svc)'
    BY DEF Served
  <2>1. \A p \in Services : Listening(p) => svc'[p].pc \in {"serving", "leaving", "draining"}
    BY DEF Listening, Reached
  <2>2. CASE call'[j].svc = call[j].svc /\ handler'[j] = handler[j]
    <3>1. call[j].svc \in Services
      BY <1>1, <1>3, <2>2 DEF Talk, Live, Shapes, CallRecord
    <3> QED BY <1>1, <2>1, <2>2, <3>1 DEF Served, Listening
  <2>3. CASE call'[j].svc \in Services /\ Listening(call'[j].svc)
    BY <2>1, <2>3 DEF Listening
  <2> QED BY <2>2, <2>3
<1>8. Owners'
  BY <1>1 DEF Owners, SameWork
<1>9. \A p \in Services, j \in Calls : Has(p, j)' <=> Has(p, j)
  BY DEF Has, SameWork
<1>10. \A j \in Calls : Held(j)' <=> Held(j)
  BY <1>9 DEF Held
<1>11. InPlace'
  <2> SUFFICES ASSUME NEW p \in Services, NEW j \in Calls, Has(p, j) PROVE call'[j].svc = p
    BY <1>9 DEF InPlace
  <2>1. call[j].svc = p /\ handler[j] # "none"
    BY <1>1, <1>3 DEF InPlace, Worked, Held
  <2> QED BY <2>1
<1>12. Worked'
  <2> SUFFICES ASSUME NEW j \in Calls, Held(j)
               PROVE  /\ call'[j].sent /\ handler'[j] \in {"accept", "waiting", "closed"}
                      /\ inbox'[j] # Rejected /\ call'[j].outcome # "direct" /\ ticket'[j] >= 1
    BY <1>10 DEF Worked
  <2>1. /\ call[j].sent /\ handler[j] \in {"accept", "waiting", "closed"}
        /\ inbox[j] # Rejected /\ call[j].outcome # "direct" /\ ticket[j] >= 1
    BY <1>1 DEF Worked
  <2> QED BY <2>1
<1>13. Tickets'
  <2>1. \A p \in Services : svc'[p].tickets \in Nat /\ svc'[p].tickets = svc[p].tickets
    BY <1>1 DEF Tickets, SameWork
  <2>2. ASSUME NEW j \in Calls, handler'[j] \in {"none", "backlog", "request", "admit", "reserve"}
        PROVE  ticket'[j] = 0
    BY <1>1, <1>4, <2>2 DEF Tickets
  <2>5. ASSUME NEW j \in Calls, handler'[j] \in {"send", "accept", "waiting"}
        PROVE  ticket'[j] >= 1
    BY <1>1, <2>5 DEF Tickets
  <2>3. ASSUME NEW j \in Calls, call'[j].svc \in Services, svc'[call'[j].svc].pc # "gone"
        PROVE  ticket'[j] <= svc'[call'[j].svc].tickets
    <3>1. CASE call'[j].svc = call[j].svc
      <4>1. svc[call[j].svc].pc # "gone"
        BY <2>3, <3>1 DEF Reached
      <4> QED BY <1>1, <2>1, <2>3, <3>1, <4>1 DEF Tickets
    <3>2. CASE ticket[j] = 0
      BY <2>1, <2>3, <3>2
    <3> QED BY <1>4, <3>1, <3>2
  <2>4. ASSUME NEW j \in Calls, NEW k \in Calls, j # k, call'[j].svc = call'[k].svc, ticket'[j] >= 1
        PROVE  ticket'[j] # ticket'[k]
    BY <1>1, <1>4, <2>4 DEF Tickets
  <2> QED BY <2>1, <2>2, <2>3, <2>4, <2>5 DEF Tickets
<1>14. \A j \in panicked : handler'[j] = handler[j] /\ call'[j].svc = call[j].svc
  BY <1>2, <1>4
<1>15. Crashes'
  <2>1. \A j \in panicked' : handler'[j] = "closed" /\ ticket'[j] >= 1
    BY <1>1, <1>14 DEF Crashes
  <2>2. crash'.svc # None =>
          \E j \in panicked' : call'[j].svc = crash'.svc /\ ticket'[j] = crash'.ticket
    BY <1>1, <1>14 DEF Crashes
  <2>3. \A j \in Calls : call'[j].outcome = "panicked" => j \in panicked'
    BY <1>1 DEF Crashes
  <2> QED BY <2>1, <2>2, <2>3 DEF Crashes
<1>16. \A q : Dead(q) => q \in killed' \cup {call'[j].svc : j \in panicked'}
  BY <1>14 DEF Dead
<1>17. Ends'
  <2> SUFFICES ASSUME NEW j \in Calls,
                      \/ handler'[j] = "closed" /\ call'[j].pc = "await" /\ inbox'[j] = Nothing
                      \/ handler'[j] = "closed" /\ call'[j].pc = "sent" /\ inbox'[j] = Accepted
                      \/ call'[j].outcome = "lost"
               PROVE  Excused(j)'
    BY DEF Ends, At
  <2>1. CASE j = i
    BY <1>16, <2>1 DEF Excused, Dead
  <2>2. CASE j # i
    <3>1. Excused(j) /\ call'[j].svc = call[j].svc
      BY <1>1, <2>2 DEF Ends, At
    <3> QED BY <1>16, <3>1 DEF Excused, Dead
  <2> QED BY <2>1, <2>2
<1> QED
  BY <1>5, <1>6, <1>7, <1>8, <1>11, <1>12, <1>13, <1>15, <1>17 DEF RequestInv

\* A step of the handler of i's connection: it may give i a ticket, and it may
\* put i in the queue.
LEMMA ServantStep ==
  ASSUME DaemonInv, RequestInv, NEW i \in Calls, handler[i] \in Live, call' = call,
         handler' \in [Calls -> HandlerPCs], \A j \in Calls \ {i} : handler'[j] = handler[j],
         inbox' \in [Calls -> Frames], \A j \in Calls \ {i} : inbox'[j] = inbox[j],
         canceled' \subseteq Builds, replies' \subseteq Builds,
         UNCHANGED <<started, panicked, killed, crash>>, cutoff \subseteq cutoff',
         \A p \in Services : svc'[p].pc = svc[p].pc /\ svc'[p].owner = svc[p].owner
                             /\ svc'[p].job = svc[p].job /\ svc'[p].active = svc[p].active,
         \/ \A p \in Services : svc'[p].queue = svc[p].queue
         \/ /\ handler[i] = "send" /\ handler'[i] = "accept"
            /\ \A p \in Services : svc'[p].queue = IF p = call[i].svc THEN Append(svc[p].queue, i)
                                                   ELSE svc[p].queue,
         \/ ticket' = ticket /\ \A p \in Services : svc'[p].tickets = svc[p].tickets
         \/ /\ handler[i] = "reserve" /\ handler'[i] = "send"
            /\ ticket' = [ticket EXCEPT ![i] = svc[call[i].svc].tickets + 1]
            /\ \A p \in Services : svc'[p].tickets = IF p = call[i].svc THEN svc[p].tickets + 1
                                                     ELSE svc[p].tickets,
         handler'[i] \in Live \cup {"closed"},
         handler'[i] \in {"backlog", "request", "admit", "reserve"} =>
           handler[i] \in {"backlog", "request", "admit", "reserve"},
         handler'[i] \in {"send", "accept", "waiting"} =>
           handler[i] \in {"send", "accept", "waiting"} \/ ticket'[i] = svc[call[i].svc].tickets + 1,
         handler[i] \in {"accept", "waiting"} => handler'[i] \in {"accept", "waiting", "closed"},
         inbox'[i] = Rejected => inbox[i] = Rejected \/ handler[i] \in {"admit", "reserve"},
         Talk(i)',
         handler'[i] = "closed" =>
           \/ i \in cutoff'
           \/ ~(call[i].pc = "await" /\ inbox'[i] = Nothing) /\ ~(call[i].pc = "sent" /\ inbox'[i] = Accepted)
  PROVE  RequestInv'
<1>1. /\ Values /\ Talks /\ Served /\ Owners /\ InPlace /\ Worked /\ Tickets /\ Crashes /\ Ends
      /\ ConnectedToServed /\ Shapes
  BY DEF RequestInv, DaemonInv
<1>2. /\ Calls = Builds \cup Stops /\ None \notin Services /\ None \notin Calls
      /\ started \subseteq Calls /\ panicked \subseteq Calls
  BY <1>1, Constants DEF Values
<1>3. \A j \in Calls : Talk(j)
  BY <1>1 DEF Talks
<1> DEFINE s == call[i].svc
<1>4. s \in Services
  BY <1>1, <1>3 DEF Talk, Live, Shapes, CallRecord
<1>5. handler[i] = "send" => i \in Builds
  BY <1>2, <1>3 DEF Talk
<1>6. /\ \A p \in Services : svc[p].tickets \in Nat
      /\ \A j \in Calls : ticket[j] \in Nat
  BY <1>1 DEF Tickets, Values
<1>7. svc[s].pc # "gone"
  BY <1>1 DEF Served, Listening
<1>8. \A j \in Calls : j # i => ticket'[j] = ticket[j]
  BY <1>1 DEF Values
<1>9. handler[i] = "reserve" => ticket[i] = 0 /\ ~Held(i)
  BY <1>1 DEF Tickets, Worked
<1>10. ticket'[i] = ticket[i] \/ (handler[i] = "reserve" /\ ticket'[i] = svc[s].tickets + 1)
  BY <1>1 DEF Values
<1>11. Values'
  <2>1. ticket' \in [Calls -> Nat]
    BY <1>1, <1>4, <1>6 DEF Values
  <2> QED BY <1>1, <2>1 DEF Values
<1>12. Talks'
  <2> SUFFICES ASSUME NEW j \in Calls, j # i PROVE Talk(j)'
    BY DEF Talks
  <2>1. Talk(j) /\ call'[j] = call[j] /\ handler'[j] = handler[j] /\ inbox'[j] = inbox[j]
    BY <1>3
  <2> QED BY <2>1 DEF Talk, At, Done
<1>13. Served'
  <2> SUFFICES ASSUME NEW j \in Calls, handler'[j] \in Live PROVE Listening(call[j].svc)'
    BY DEF Served
  <2>1. handler[j] \in Live
    OBVIOUS
  <2>2. call[j].svc \in Services
    BY <1>1, <1>3, <2>1 DEF Talk, Live, Shapes, CallRecord
  <2> QED BY <1>1, <2>1, <2>2 DEF Served, Listening
<1>14. \A p \in Services : /\ svc[p].queue \in Seq(Builds) /\ svc'[p].queue \in Seq(Builds)
                           /\ \/ svc'[p].queue = svc[p].queue
                              \/ /\ handler[i] = "send" /\ handler'[i] = "accept" /\ p = s
                                 /\ svc'[p].queue = Append(svc[p].queue, i)
  <2> TAKE p \in Services
  <2>1. svc[p].queue \in Seq(Builds)
    BY <1>1 DEF Owners
  <2>2. CASE svc'[p].queue = svc[p].queue
    BY <2>1, <2>2
  <2>3. CASE /\ handler[i] = "send" /\ handler'[i] = "accept" /\ p = s
             /\ svc'[p].queue = Append(svc[p].queue, i)
    BY <1>5, <2>1, <2>3
  <2> QED BY <2>2, <2>3
<1>15. Owners'
  BY <1>1, <1>14 DEF Owners
<1>16. ASSUME NEW p \in Services, NEW j \in Calls, Has(p, j)'
       PROVE  \/ Has(p, j)
              \/ handler[i] = "send" /\ handler'[i] = "accept" /\ j = i /\ p = s
  <2>1. CASE svc'[p].queue = svc[p].queue
    BY <1>16, <2>1 DEF Has
  <2>2. CASE /\ handler[i] = "send" /\ handler'[i] = "accept" /\ p = s
             /\ svc'[p].queue = Append(svc[p].queue, i)
    <3>1. \A k \in 1 .. Len(Append(svc[p].queue, i)) :
             Append(svc[p].queue, i)[k] = i
             \/ (k \in 1 .. Len(svc[p].queue) /\ Append(svc[p].queue, i)[k] = svc[p].queue[k])
      <4> DEFINE z == svc[p].queue
      <4>1. z \in Seq(Builds) /\ i \in Builds
        BY <1>5, <1>14, <2>2
      <4> HIDE DEF z
      <4>2. /\ Len(Append(z, i)) = Len(z) + 1
            /\ Append(z, i)[Len(z) + 1] = i
            /\ \A k \in 1 .. Len(z) : Append(z, i)[k] = z[k]
        BY <4>1
      <4>3. Len(z) \in Nat
        BY <4>1
      <4>4. \A k \in 1 .. Len(Append(z, i)) : k = Len(z) + 1 \/ k \in 1 .. Len(z)
        BY <4>2, <4>3
      <4>5. \A k \in 1 .. Len(Append(z, i)) :
              Append(z, i)[k] = i \/ (k \in 1 .. Len(z) /\ Append(z, i)[k] = z[k])
        BY <4>2, <4>4
      <4> QED BY <4>5 DEF z
    <3>2. svc'[p].job = j \/ \E k \in 1 .. Len(svc'[p].queue) : svc'[p].queue[k] = j
      BY <1>16, Zenon DEF Has
    <3>3. CASE svc'[p].job = j
      BY <3>3, Zenon DEF Has
    <3>4. CASE \E k \in 1 .. Len(svc'[p].queue) : svc'[p].queue[k] = j
      <4>1. PICK k \in 1 .. Len(Append(svc[p].queue, i)) : Append(svc[p].queue, i)[k] = j
        BY <2>2, <3>4, Zenon
      <4>2. j = i \/ (k \in 1 .. Len(svc[p].queue) /\ svc[p].queue[k] = j)
        BY <3>1, <4>1, Zenon
      <4> QED BY <2>2, <4>2, Zenon DEF Has
    <3> QED BY <3>2, <3>3, <3>4
  <2> QED BY <1>14, <2>1, <2>2
<1>17. ASSUME NEW j \in Calls, Held(j)'
       PROVE  Held(j) \/ (handler[i] = "send" /\ handler'[i] = "accept" /\ j = i)
  BY <1>16, <1>17 DEF Held
<1>18. InPlace'
  BY <1>1, <1>16 DEF InPlace
<1>19. Worked'
  <2> SUFFICES ASSUME NEW j \in Calls, Held(j)'
               PROVE  /\ call[j].sent /\ handler'[j] \in {"accept", "waiting", "closed"}
                      /\ inbox'[j] # Rejected /\ call[j].outcome # "direct" /\ ticket'[j] >= 1
    BY DEF Worked
  <2>1. CASE Held(j)
    <3>1. /\ call[j].sent /\ handler[j] \in {"accept", "waiting", "closed"}
          /\ inbox[j] # Rejected /\ call[j].outcome # "direct" /\ ticket[j] >= 1
      BY <1>1, <2>1 DEF Worked
    <3>2. ticket'[j] = ticket[j]
      BY <1>8, <1>9, <1>10, <2>1
    <3>3. CASE j # i
      BY <3>1, <3>2, <3>3
    <3>4. CASE j = i
      BY <3>1, <3>2, <3>4 DEF Live
    <3> QED BY <3>3, <3>4
  <2>2. CASE handler[i] = "send" /\ handler'[i] = "accept" /\ j = i
    <3>1. call[i].sent /\ call[i].outcome # "direct" /\ inbox[i] = Nothing
      BY <1>3, <2>2 DEF Talk, Live
    <3>2. inbox'[i] # Rejected
      BY <2>2, <3>1, FrameFacts
    <3>3. ticket[i] >= 1 /\ ticket'[i] = ticket[i]
      BY <1>1, <1>10, <2>2 DEF Tickets
    <3> QED BY <2>2, <3>1, <3>2, <3>3
  <2> QED BY <1>17, <2>1, <2>2
<1>20. Tickets'
  <2>1. \A p \in Services : svc'[p].tickets \in Nat /\ svc'[p].tickets >= svc[p].tickets
    BY <1>6
  <2>2. ASSUME NEW j \in Calls, handler'[j] \in {"none", "backlog", "request", "admit", "reserve"}
        PROVE  ticket'[j] = 0
    <3>1. handler[j] \in {"none", "backlog", "request", "admit", "reserve"}
      BY <2>2 DEF Live
    <3>2. j = i => ticket'[j] = ticket[j]
      BY <1>1, <2>2
    <3> QED BY <1>1, <1>8, <3>1, <3>2 DEF Tickets
  <2>3. ASSUME NEW j \in Calls, handler'[j] \in {"send", "accept", "waiting"}
        PROVE  ticket'[j] >= 1
    <3>1. CASE j # i \/ handler[i] \in {"send", "accept", "waiting"}
      BY <1>1, <1>8, <1>10, <2>3, <3>1 DEF Tickets
    <3>2. CASE j = i /\ ticket'[i] = svc[s].tickets + 1
      BY <1>4, <1>6, <3>2
    <3> QED BY <2>3, <3>1, <3>2
  <2>4. ASSUME NEW j \in Calls, call[j].svc \in Services, svc'[call[j].svc].pc # "gone"
        PROVE  ticket'[j] <= svc'[call[j].svc].tickets
    <3> DEFINE q == call[j].svc
    <3>1. ticket[j] <= svc[q].tickets /\ svc[q].tickets \in Nat /\ ticket[j] \in Nat
      BY <1>1, <1>6, <2>4 DEF Tickets
    <3>2. CASE ticket'[j] = ticket[j]
      <4>1. svc'[q].tickets \in Nat /\ svc'[q].tickets >= svc[q].tickets
        BY <2>1, <2>4
      <4> HIDE DEF q
      <4>2. ticket'[j] <= svc'[q].tickets
        BY <3>1, <3>2, <4>1
      <4> QED BY <4>2 DEF q
    <3>3. CASE ticket'[j] # ticket[j]
      <4>1. j = i /\ ticket'[j] = svc[s].tickets + 1 /\ svc'[s].tickets = svc[s].tickets + 1
        BY <1>4, <1>8, <1>10, <3>3
      <4> QED BY <1>4, <1>6, <4>1
    <3> QED BY <3>2, <3>3
  <2>5. ASSUME NEW j \in Calls, NEW k \in Calls, j # k, call[j].svc = call[k].svc, ticket'[j] >= 1
        PROVE  ticket'[j] # ticket'[k]
    <3>1. CASE ticket'[j] = ticket[j] /\ ticket'[k] = ticket[k]
      BY <1>1, <2>5, <3>1 DEF Tickets
    <3>2. CASE ticket'[j] # ticket[j]
      <4>1. j = i /\ ticket'[j] = svc[s].tickets + 1 /\ ticket'[k] = ticket[k]
        BY <1>8, <1>10, <2>5, <3>2
      <4>2. ticket[k] <= svc[s].tickets
        BY <1>1, <1>4, <1>7, <2>5, <4>1 DEF Tickets
      <4> HIDE DEF s
      <4> QED BY <1>4, <1>6, <4>1, <4>2
    <3>3. CASE ticket'[k] # ticket[k]
      <4>1. k = i /\ ticket'[k] = svc[s].tickets + 1 /\ ticket'[j] = ticket[j]
        BY <1>8, <1>10, <2>5, <3>3
      <4>2. ticket[j] <= svc[s].tickets
        BY <1>1, <1>4, <1>7, <2>5, <4>1 DEF Tickets
      <4> HIDE DEF s
      <4> QED BY <1>4, <1>6, <4>1, <4>2
    <3> QED BY <3>1, <3>2, <3>3
  <2> QED BY <2>1, <2>2, <2>3, <2>4, <2>5 DEF Tickets
<1>21. \A j \in panicked : j # i /\ handler'[j] = handler[j] /\ ticket'[j] = ticket[j]
  BY <1>1, <1>2, <1>8 DEF Crashes, Live
<1>22. Crashes'
  BY <1>1, <1>21 DEF Crashes
<1>23. Ends'
  <2> SUFFICES ASSUME NEW j \in Calls,
                      \/ handler'[j] = "closed" /\ call[j].pc = "await" /\ inbox'[j] = Nothing
                      \/ handler'[j] = "closed" /\ call[j].pc = "sent" /\ inbox'[j] = Accepted
                      \/ call[j].outcome = "lost"
               PROVE  Excused(j)'
    BY DEF Ends, At
  <2>1. Excused(j) => Excused(j)'
    BY DEF Excused, Dead
  <2>2. CASE j # i \/ call[j].outcome = "lost"
    BY <1>1, <2>1, <2>2 DEF Ends, At
  <2>3. CASE j = i /\ call[j].outcome # "lost"
    BY <2>3 DEF Excused
  <2> QED BY <2>2, <2>3
<1> QED
  BY <1>11, <1>12, <1>13, <1>15, <1>18, <1>19, <1>20, <1>22, <1>23 DEF RequestInv

\* A step of service p that moves the process and leaves its work and its
\* connections alone: only a process that listens has connections to serve.
LEMMA PlaceStep ==
  ASSUME DaemonInv, RequestInv, NEW p \in Services,
         UNCHANGED <<call, handler, inbox, ticket, replies, started, panicked, killed, cutoff, crash>>,
         canceled' \subseteq Builds,
         \A q \in Services : SameWork(q),
         \A q \in Services \ {p} : svc'[q].pc = svc[q].pc,
         Listening(p) => svc'[p].pc \in {"serving", "leaving", "draining"},
         svc[p].pc = "gone" => svc'[p].pc = "gone"
  PROVE  RequestInv'
<1>1. /\ Values /\ Talks /\ Served /\ Owners /\ InPlace /\ Worked /\ Tickets /\ Crashes /\ Ends
      /\ Shapes
  BY DEF RequestInv, DaemonInv
<1>2. Values'
  BY <1>1 DEF Values
<1>3. Talks'
  BY <1>1 DEF Talks, Talk, At, Done
<1>4. Served'
  <2> SUFFICES ASSUME NEW j \in Calls, handler[j] \in Live PROVE Listening(call[j].svc)'
    BY DEF Served
  <2>1. call[j].svc \in Services /\ Listening(call[j].svc)
    BY <1>1 DEF Talks, Talk, Live, Shapes, CallRecord, Served
  <2> QED BY <2>1 DEF Listening
<1>5. Owners'
  BY <1>1 DEF Owners, SameWork
<1>6. \A q \in Services, j \in Calls : Has(q, j)' <=> Has(q, j)
  BY DEF Has, SameWork
<1>7. InPlace'
  BY <1>1, <1>6 DEF InPlace
<1>8. Worked'
  BY <1>1, <1>6 DEF Worked, Held
<1>9. Tickets'
  <2>1. \A q \in Services : svc'[q].tickets = svc[q].tickets /\ (svc[q].pc = "gone" => svc'[q].pc = "gone")
    BY DEF SameWork
  <2> QED BY <1>1, <2>1 DEF Tickets
<1>10. Crashes'
  BY <1>1 DEF Crashes
<1>11. Ends'
  BY <1>1 DEF Ends, At, Excused, Dead
<1> QED
  BY <1>2, <1>3, <1>4, <1>5, <1>7, <1>8, <1>9, <1>10, <1>11 DEF RequestInv

\* A step of the owner of service p: it holds and begins nothing it was not sent.
LEMMA WorkStep ==
  ASSUME DaemonInv, RequestInv, NEW p \in Services,
         UNCHANGED <<call, handler, inbox, ticket, canceled, panicked, killed, cutoff, crash>>,
         replies' \subseteq Builds,
         \A q \in Services \ {p} : svc'[q] = svc[q],
         svc'[p].pc = svc[p].pc, svc'[p].tickets = svc[p].tickets,
         svc'[p].queue \in Seq(Builds),
         svc'[p].owner = "recv" <=> svc'[p].job = None,
         svc'[p].job \in Builds \cup {None},
         svc'[p].active = IF svc'[p].owner = "build" THEN svc'[p].job ELSE None,
         \A j \in Calls : Has(p, j)' => Has(p, j),
         started' \subseteq Builds,
         \A j \in Calls : j \in started' => j \in started \/ Has(p, j)
  PROVE  RequestInv'
<1>1. /\ Values /\ Talks /\ Served /\ Owners /\ InPlace /\ Worked /\ Tickets /\ Crashes /\ Ends
      /\ Shapes
  BY DEF RequestInv, DaemonInv
<1>2. Values'
  BY <1>1 DEF Values
<1>3. Talks'
  BY <1>1 DEF Talks, Talk, At, Done
<1>4. \A q \in Services : svc'[q].pc = svc[q].pc /\ svc'[q].tickets = svc[q].tickets
  OBVIOUS
<1>5. Served'
  <2> SUFFICES ASSUME NEW j \in Calls, handler[j] \in Live PROVE Listening(call[j].svc)'
    BY DEF Served
  <2>1. call[j].svc \in Services /\ Listening(call[j].svc)
    BY <1>1 DEF Talks, Talk, Live, Shapes, CallRecord, Served
  <2> QED BY <1>4, <2>1 DEF Listening
<1>6. Owners'
  BY <1>1 DEF Owners
<1>7. \A q \in Services, j \in Calls : Has(q, j)' => Has(q, j)
  BY DEF Has
<1>8. InPlace'
  BY <1>1, <1>7 DEF InPlace
<1>9. \A j \in Calls : Held(j)' => Held(j)
  BY <1>7 DEF Held
<1>10. Worked'
  BY <1>1, <1>9 DEF Worked
<1>11. Tickets'
  BY <1>1, <1>4 DEF Tickets
<1>12. Crashes'
  BY <1>1 DEF Crashes
<1>13. Ends'
  BY <1>1 DEF Ends, At, Excused, Dead
<1> QED
  BY <1>2, <1>3, <1>5, <1>6, <1>8, <1>10, <1>11, <1>12, <1>13 DEF RequestInv

\* The connections of service p are closed, when it ends or dies: no admitted
\* build is without an answer then, or the process is counted dead.
LEMMA HangUpStep ==
  ASSUME DaemonInv, RequestInv, NEW p \in Services,
         UNCHANGED <<call, inbox, ticket, canceled, started, cutoff>>,
         handler' = [i \in Calls |-> IF call[i].svc = p THEN "closed" ELSE handler[i]],
         replies' \subseteq replies,
         svc' \in [Services -> ServiceRecord],
         \A q \in Services \ {p} : svc'[q] = svc[q],
         svc'[p].pc \in {"ended", "gone"}, svc[p].pc = "gone" => svc'[p].pc = "gone",
         \/ SameWork(p)
         \/ svc'[p].pc = "gone" /\ svc'[p].tickets = 0 /\ svc'[p].queue = << >>
            /\ svc'[p].owner = "recv" /\ svc'[p].job = None /\ svc'[p].active = None,
         killed \subseteq killed', panicked \subseteq panicked',
         panicked' \subseteq Builds,
         \A j \in panicked' \ panicked : call[j].svc = p /\ ticket[j] >= 1,
         \/ crash' = crash
         \/ crash'.svc = p /\ \E j \in panicked' : call[j].svc = p /\ ticket[j] = crash'.ticket,
         \/ p \in killed'
         \/ \E j \in panicked' : call[j].svc = p
         \/ Connections(p) = {}
  PROVE  RequestInv'
<1>1. /\ Values /\ Talks /\ Served /\ Owners /\ InPlace /\ Worked /\ Tickets /\ Crashes /\ Ends
      /\ Shapes
  BY DEF RequestInv, DaemonInv
<1>2. /\ Calls = Builds \cup Stops /\ None \notin Services /\ None \notin Calls
      /\ started \subseteq Calls /\ panicked' \subseteq Calls
  BY <1>1, Constants DEF Values
<1>3. Values'
  <2>1. handler' \in [Calls -> HandlerPCs]
    BY <1>1 DEF Values, HandlerPCs
  <2> QED BY <1>1, <2>1 DEF Values
<1>4. Talks'
  <2> SUFFICES ASSUME NEW j \in Calls PROVE Talk(j)'
    BY DEF Talks
  <2>1. Talk(j) /\ handler'[j] = (IF call[j].svc = p THEN "closed" ELSE handler[j])
    BY <1>1 DEF Talks
  <2>2. CASE call[j].svc = p
    <3>1. handler'[j] = "closed" /\ handler[j] # "none" /\ call[j].svc # None
      BY <1>2, <2>1, <2>2 DEF Talk
    <3> QED BY <2>1, <3>1 DEF Talk, At, Done, Live, Before
  <2>3. CASE call[j].svc # p
    BY <2>1, <2>3 DEF Talk, At, Done
  <2> QED BY <2>2, <2>3
<1>5. Served'
  <2> SUFFICES ASSUME NEW j \in Calls, handler'[j] \in Live PROVE Listening(call[j].svc)'
    BY DEF Served
  <2>1. call[j].svc # p /\ handler[j] \in Live
    BY DEF Live
  <2>2. call[j].svc \in Services /\ Listening(call[j].svc)
    BY <1>1, <2>1 DEF Talks, Talk, Live, Shapes, CallRecord, Served
  <2> QED BY <2>1, <2>2 DEF Listening
<1>6. Owners'
  <2> SUFFICES ASSUME NEW q \in Services
               PROVE  /\ svc'[q].queue \in Seq(Builds)
                      /\ svc'[q].owner = "recv" <=> svc'[q].job = None
                      /\ svc'[q].job \in Builds \cup {None}
                      /\ svc'[q].active = IF svc'[q].owner = "build" THEN svc'[q].job ELSE None
    BY DEF Owners
  <2>1. << >> \in Seq(Builds)
    OBVIOUS
  <2>2. CASE q # p \/ SameWork(p)
    BY <1>1, <2>2 DEF Owners, SameWork
  <2>3. CASE q = p /\ ~SameWork(p)
    <3> DEFINE none == << >>
    <3>1. none \in Seq(Builds) /\ svc'[p].queue = none
      BY <2>1, <2>3
    <3> HIDE DEF none
    <3> QED BY <2>3, <3>1
  <2> QED BY <2>2, <2>3
<1>7. ASSUME NEW q \in Services, NEW j \in Calls, Has(q, j)' PROVE Has(q, j)
  <2>1. CASE q # p \/ SameWork(p)
    BY <1>7, <2>1 DEF Has, SameWork
  <2>2. CASE q = p /\ ~SameWork(p)
    <3>1. svc'[p].job # j /\ svc'[p].queue = << >>
      BY <1>2, <2>2
    <3>2. Len(svc'[p].queue) = 0
      BY <3>1
    <3>3. 1 .. 0 = {}
      OBVIOUS
    <3> QED BY <1>7, <2>2, <3>1, <3>2, <3>3 DEF Has
  <2> QED BY <2>1, <2>2
<1>8. InPlace'
  BY <1>1, <1>7 DEF InPlace
<1>9. \A j \in Calls : Held(j)' => Held(j)
  BY <1>7 DEF Held
<1>10. Worked'
  BY <1>1, <1>9 DEF Worked
<1>11. Tickets'
  <2>1. \A q \in Services : svc'[q].tickets \in Nat
    BY <1>1 DEF Tickets, SameWork
  <2>2. \A q \in Services : svc'[q].pc # "gone" => svc[q].pc # "gone" /\ svc'[q].tickets = svc[q].tickets
    BY DEF SameWork
  <2>3. \A j \in Calls : handler'[j] # "closed" => handler'[j] = handler[j]
    OBVIOUS
  <2> QED BY <1>1, <2>1, <2>2, <2>3 DEF Tickets
<1>12. Crashes'
  <2>1. \A j \in panicked' : handler'[j] = "closed" /\ ticket[j] >= 1
    BY <1>1, <1>2 DEF Crashes
  <2>2. crash'.svc # None => \E j \in panicked' : call[j].svc = crash'.svc /\ ticket[j] = crash'.ticket
    BY <1>1 DEF Crashes
  <2>3. \A j \in Calls : call[j].outcome = "panicked" => j \in panicked'
    BY <1>1 DEF Crashes
  <2> QED BY <2>1, <2>2, <2>3 DEF Crashes
<1>13. Ends'
  <2> SUFFICES ASSUME NEW j \in Calls,
                      \/ handler'[j] = "closed" /\ call[j].pc = "await" /\ inbox[j] = Nothing
                      \/ handler'[j] = "closed" /\ call[j].pc = "sent" /\ inbox[j] = Accepted
                      \/ call[j].outcome = "lost"
               PROVE  j \in cutoff \/ call[j].svc \in killed' \cup {call[k].svc : k \in panicked'}
    BY DEF Ends, At, Excused, Dead
  <2>1. CASE handler[j] = "closed" \/ call[j].outcome = "lost"
    <3>1. Excused(j)
      BY <1>1, <2>1 DEF Ends, At
    <3> QED BY <3>1 DEF Excused, Dead
  <2>2. CASE handler[j] # "closed" /\ call[j].outcome # "lost"
    <3>1. call[j].svc = p /\ call[j].pc \in {"await", "sent"}
      BY <2>2
    <3>2. handler[j] \notin {"none", "backlog"}
      BY <1>1, <3>1 DEF Talks, Talk
    <3>3. j \in Connections(p)
      BY <2>2, <3>1, <3>2 DEF Connections
    <3> QED BY <3>1, <3>3
  <2> QED BY <2>1, <2>2
<1> QED
  BY <1>3, <1>4, <1>5, <1>6, <1>8, <1>10, <1>11, <1>12, <1>13 DEF RequestInv

-----------------------------------------------------------------------------
(* The steps of an invocation *)

\* An invocation that returns, with anything but a refusal of a request it sent,
\* a loss or a panic.
LEMMA ReturnStep ==
  ASSUME DaemonInv, RequestInv, NEW i \in Calls, NEW how \in Outcomes, Finish(i, how),
         UNCHANGED <<svc, handler, inbox, requests, past, crash>>,
         ~Done(i),
         how = "direct" => ~call[i].sent \/ inbox[i] = Rejected,
         how = "panicked" => i \in panicked,
         how = "lost" => Excused(i) /\ handler[i] # "none"
  PROVE  RequestInv'
<1>1. Values /\ Talks /\ Worked /\ Ends /\ Shapes
  BY DEF RequestInv, DaemonInv
<1>2. Talk(i) /\ inbox[i] \in Frames /\ handler[i] \in HandlerPCs
  BY <1>1 DEF Talks, Values
<1>3. /\ \A j \in Calls \ {i} : call'[j] = call[j]
      /\ call'[i].pc = "done" /\ call'[i].svc = call[i].svc
      /\ call'[i].sent = call[i].sent /\ call'[i].outcome = how
  BY <1>1, FinishEffect DEF Proceeds
<1>4. how = "direct" => ~Held(i)
  BY <1>1 DEF Worked
<1>5. how = "direct" /\ call[i].sent => handler[i] = "closed"
  BY <1>2, FrameFacts, Constants DEF Talk, Live, HandlerPCs
<1>6. Talk(i)'
  BY <1>2, <1>3, <1>5 DEF Talk, At, Done, Before
<1>7. handler' = handler /\ inbox' = inbox /\ svc' = svc
      /\ UNCHANGED <<ticket, canceled, replies, started, panicked, killed, cutoff, crash>>
  BY DEF requests, past
<1>8. \A p \in Services : SameWork(p)
  BY <1>7 DEF SameWork
<1> QED BY <1>1, <1>3, <1>4, <1>6, <1>7, <1>8, ClientStep DEF Values

\* An invocation that goes from one place before or after its request to another.
LEMMA WanderStep ==
  ASSUME DaemonInv, RequestInv, NEW i \in Calls, NEW to \in CallPCs, call' = Goto(i, to),
         UNCHANGED <<svc, handler, inbox, requests, past, crash>>,
         \/ call[i].pc \in Before /\ to \in Before
         \/ call[i].pc = "hello" /\ to = "submit" /\ handler[i] = "request"
         \/ i \in Stops /\ call[i].pc \in {"sent", "release"} /\ to \in {"release", "released"}
  PROVE  RequestInv'
<1>1. Values /\ Talks /\ Worked /\ Shapes
  BY DEF RequestInv, DaemonInv
<1>2. Talk(i) /\ inbox[i] \in Frames /\ handler[i] \in HandlerPCs /\ (i \in Stops => i \notin Builds)
  BY <1>1, Constants DEF Talks, Values
<1>3. /\ \A j \in Calls \ {i} : call'[j] = call[j]
      /\ call'[i].pc = to /\ call'[i].svc = call[i].svc
      /\ call'[i].sent = call[i].sent /\ call'[i].outcome = call[i].outcome
  BY <1>1, GotoEffect DEF Proceeds
<1>4. call[i].outcome = "none"
  BY <1>2 DEF Talk, Done, At, Before
<1>5. Talk(i)'
  BY <1>2, <1>3, <1>4 DEF Talk, At, Done, Before
<1>6. handler' = handler /\ inbox' = inbox /\ svc' = svc
      /\ UNCHANGED <<ticket, canceled, replies, started, panicked, killed, cutoff, crash>>
  BY DEF requests, past
<1>7. \A p \in Services : SameWork(p)
  BY <1>6 DEF SameWork
<1>8. to \notin {"await", "sent"}
  BY DEF Before
<1> QED BY <1>1, <1>3, <1>4, <1>5, <1>6, <1>7, <1>8, ClientStep DEF Values

\* Every step of an invocation, deadlines and kills included, keeps the invariant.
LEMMA CallStepRequest ==
  ASSUME DaemonInv, RequestInv, NEW i \in Calls, CallStep(i) \/ Timeout(i) \/ KillCall(i)
  PROVE  RequestInv'
<1>1. Values /\ Talks /\ Worked /\ Shapes /\ Tickets /\ Crashes /\ Ends
  BY DEF RequestInv, DaemonInv
<1>2. Talk(i) /\ inbox[i] \in Frames /\ handler[i] \in HandlerPCs
  BY <1>1 DEF Talks, Values
<1>3. /\ Calls = Builds \cup Stops /\ Builds \cap Stops = {}
      /\ None \notin Services /\ None \notin Calls
  BY Constants
<1>4. Unavailable(i) \in Outcomes \ {"panicked", "lost"} /\ (i \in Stops => Unavailable(i) = "failed")
  BY DEF Unavailable, Outcomes
<1>5. CASE TakeStartup(i) \/ TryService(i) \/ ClearStale(i)
  <2>1. /\ UNCHANGED <<svc, handler, inbox, requests, past, crash>>
        /\ call[i].pc \in Before
        /\ \E to \in Before : call' = Goto(i, to)
    BY <1>5 DEF TakeStartup, TryService, ClearStale, At, Before
  <2> QED BY <2>1, WanderStep DEF Before, CallPCs
<1>6. CASE Connect(i)
  <2>1. /\ UNCHANGED <<svc, inbox, requests, past, crash, socket>>
        /\ call[i].pc \in Before
    BY <1>6 DEF Connect, At, Before, files
  <2>2. CASE call' = Goto(i, "try") /\ handler' = handler
    BY <2>1, <2>2, WanderStep DEF Before, CallPCs
  <2>3. CASE /\ socket # None /\ Listening(socket)
             /\ call' = [call EXCEPT ![i].pc = "hello", ![i].svc = socket]
             /\ handler' = [handler EXCEPT ![i] = "backlog"]
    <3>1. socket \in Services
      BY <1>1, <2>3 DEF Shapes
    <3>2. /\ \A j \in Calls \ {i} : call'[j] = call[j]
          /\ call'[i].pc = "hello" /\ call'[i].svc = socket
          /\ call'[i].sent = call[i].sent /\ call'[i].outcome = call[i].outcome
      BY <1>1, <2>3, <3>1, ConnectEffect DEF Proceeds
    <3>3. /\ handler' \in [Calls -> HandlerPCs] /\ handler'[i] = "backlog"
          /\ \A j \in Calls \ {i} : handler'[j] = handler[j]
      BY <1>1, <2>3 DEF Values, HandlerPCs
    <3>4. handler[i] = "none" /\ call[i].outcome = "none" /\ ~call[i].sent /\ inbox[i] = Nothing
      BY <1>2, <2>1 DEF Talk, Done, At, Before
    <3>5. inbox' = inbox /\ svc' = svc
          /\ UNCHANGED <<ticket, canceled, replies, started, panicked, killed, cutoff, crash>>
      BY <2>1 DEF requests, past
    <3>6. Talk(i)'
      BY <1>2, <1>3, <3>1, <3>2, <3>3, <3>4, <3>5, FrameFacts DEF Talk, At, Done, Live, Before
    <3>7. \A p \in Services : SameWork(p)
      BY <3>5 DEF SameWork
    <3>8. \/ call'[i].svc = call[i].svc /\ handler'[i] = handler[i]
          \/ /\ handler[i] = "none" /\ handler'[i] = "backlog"
             /\ call'[i].svc \in Services /\ Listening(call'[i].svc)
      BY <2>3, <3>1, <3>2, <3>3, <3>4
    <3> QED BY <1>1, <3>2, <3>3, <3>4, <3>5, <3>6, <3>7, <3>8, ClientStep DEF Values
  <2> QED BY <1>6, <2>2, <2>3 DEF Connect
<1>7. CASE Absent(i)
  <2>1. /\ UNCHANGED <<svc, handler, inbox, requests, past, crash>> /\ call[i].pc = "absent"
    BY <1>7 DEF Absent, At
  <2>2. ~Done(i) /\ ~call[i].sent
    BY <1>2, <2>1 DEF Done, At, Talk, Before
  <2>3. CASE Finish(i, "not_running") \/ Finish(i, "direct")
    BY <2>1, <2>2, <2>3, ReturnStep DEF Outcomes
  <2>4. CASE call' = Goto(i, "clear") \/ call' = Goto(i, "poll")
    BY <2>1, <2>4, WanderStep DEF Before, CallPCs
  <2> QED BY <1>7, <2>3, <2>4 DEF Absent
<1>8. CASE Launch(i)
  <2> DEFINE left == {q \in Services : svc[q].pc = "unborn"}
             p == CHOOSE q \in left : TRUE
  <2>1. UNCHANGED <<handler, inbox, requests, past, crash>> /\ call[i].pc = "launch"
    BY <1>8 DEF Launch, At
  <2>2. ~Done(i) /\ ~call[i].sent /\ handler[i] = "none" /\ call[i].outcome = "none"
    BY <1>2, <2>1 DEF Done, At, Talk, Before
  <2>3. CASE Finish(i, "direct") /\ svc' = svc
    BY <2>1, <2>2, <2>3, ReturnStep DEF Outcomes
  <2>4. CASE /\ left # {}
             /\ svc' = [svc EXCEPT ![p].pc = "launched"]
             /\ call' = [call EXCEPT ![i].pc = "poll", ![i].launched = p]
    <3>1. p \in Services /\ svc[p].pc = "unborn"
      BY <2>4
    <3> HIDE DEF p, left
    <3>2. /\ \A q \in Services : SameWork(q)
          /\ \A q \in Services : svc[q].pc \in Reached => svc'[q].pc = svc[q].pc
      BY <1>1, <2>4, <3>1, LaunchEffect DEF Becomes, SameWork, Reached
    <3>3. /\ \A j \in Calls \ {i} : call'[j] = call[j]
          /\ call'[i].pc = "poll" /\ call'[i].svc = call[i].svc
          /\ call'[i].sent = call[i].sent /\ call'[i].outcome = call[i].outcome
      BY <1>1, <2>4, <3>1, LaunchedEffect DEF Proceeds
    <3>4. handler' = handler /\ inbox' = inbox
          /\ UNCHANGED <<ticket, canceled, replies, started, panicked, killed, cutoff, crash>>
      BY <2>1 DEF requests, past
    <3>5. Talk(i)'
      BY <1>2, <2>1, <2>2, <3>3, <3>4 DEF Talk, At, Done, Before
    <3> QED BY <1>1, <2>2, <3>2, <3>3, <3>4, <3>5, ClientStep DEF Values
  <2> QED BY <1>8, <2>3, <2>4 DEF Launch
<1>9. CASE Timeout(i)
  <2>1. /\ UNCHANGED <<svc, handler, inbox, requests, past, crash>>
        /\ call[i].pc \in {"startup", "poll", "hello", "sent", "release"}
        /\ \/ call[i].pc = "sent" /\ Finish(i, "failed")
           \/ call[i].pc # "sent" /\ Finish(i, Unavailable(i))
    BY <1>9 DEF Timeout, At
  <2>2. ~Done(i)
    BY <2>1 DEF Done, At
  <2>3. CASE Finish(i, "failed")
    BY <2>1, <2>2, <2>3, ReturnStep DEF Outcomes
  <2>4. CASE call[i].pc # "sent" /\ Finish(i, Unavailable(i))
    <3>1. Unavailable(i) = "direct" => ~call[i].sent
      BY <1>2, <1>3, <1>4, <2>1, <2>4 DEF Talk, Before
    <3> QED BY <1>4, <2>1, <2>2, <2>4, <3>1, ReturnStep
  <2> QED BY <2>1, <2>3, <2>4
<1>10. CASE Welcomed(i)
  <2>1. UNCHANGED <<svc, handler, inbox, requests, past, crash>> /\ call[i].pc = "hello"
    BY <1>10 DEF Welcomed, At
  <2>2. ~Done(i) /\ ~call[i].sent
    BY <1>2, <2>1 DEF Done, At, Talk, Before
  <2>3. CASE handler[i] = "request" /\ call' = Goto(i, "submit")
    BY <2>1, <2>3, WanderStep DEF CallPCs
  <2>4. CASE Finish(i, Unavailable(i))
    BY <1>4, <2>1, <2>2, <2>4, ReturnStep
  <2> QED BY <1>10, <2>3, <2>4 DEF Welcomed
<1>11. CASE Submit(i)
  <2>1. UNCHANGED <<svc, handler, inbox, requests, past, crash>> /\ call[i].pc = "submit"
    BY <1>11 DEF Submit, At
  <2>2. ~Done(i) /\ ~call[i].sent /\ call[i].outcome = "none" /\ inbox[i] = Nothing
        /\ handler[i] \in {"request", "closed"}
    BY <1>2, <2>1 DEF Done, At, Talk, Before
  <2>3. CASE ~Closed(i) /\ call' = [call EXCEPT ![i].pc = "sent", ![i].sent = TRUE]
    <3>1. /\ \A j \in Calls \ {i} : call'[j] = call[j]
          /\ call'[i].pc = "sent" /\ call'[i].svc = call[i].svc
          /\ call'[i].sent = TRUE /\ call'[i].outcome = call[i].outcome
      BY <1>1, <2>3, SubmitEffect DEF Proceeds
    <3>2. handler[i] = "request"
      BY <2>2, <2>3 DEF Closed
    <3>3. handler' = handler /\ inbox' = inbox /\ svc' = svc
          /\ UNCHANGED <<ticket, canceled, replies, started, panicked, killed, cutoff, crash>>
      BY <2>1 DEF requests, past
    <3>4. Talk(i)'
      BY <1>2, <2>2, <3>1, <3>2, <3>3, FrameFacts DEF Talk, At, Done, Before
    <3>5. \A p \in Services : SameWork(p)
      BY <3>3 DEF SameWork
    <3> QED BY <1>1, <2>2, <3>1, <3>2, <3>3, <3>4, <3>5, ClientStep DEF Values
  <2>4. CASE Finish(i, Unavailable(i))
    BY <1>4, <2>1, <2>2, <2>4, ReturnStep
  <2> QED BY <1>11, <2>3, <2>4 DEF Submit
<1>12. CASE Admission(i)
  <2>1. UNCHANGED <<svc, handler, requests, past, crash>> /\ call[i].pc = "sent" /\ i \in Builds
    BY <1>12 DEF Admission, At
  <2>2. ~Done(i) /\ call[i].sent /\ call[i].outcome = "none" /\ At(i, "sent")
        /\ handler[i] \notin {"none", "backlog"}
    BY <1>2, <2>1 DEF Done, At, Talk
  <2>3. CASE Hears(i, "accepted") /\ call' = Goto(i, "await") /\ inbox' = [inbox EXCEPT ![i] = Tail(@)]
    <3>1. \/ inbox[i] = Accepted /\ inbox'[i] = Nothing
          \/ inbox[i] = AcceptedResult /\ inbox'[i] = Result
      BY <1>1, <2>3, HearFacts, FrameFacts DEF Values
    <3>2. inbox' \in [Calls -> Frames] /\ \A j \in Calls \ {i} : inbox'[j] = inbox[j]
      BY <1>1, <2>3, <3>1 DEF Values, Frames
    <3>3. /\ \A j \in Calls \ {i} : call'[j] = call[j]
          /\ call'[i].pc = "await" /\ call'[i].svc = call[i].svc
          /\ call'[i].sent = call[i].sent /\ call'[i].outcome = call[i].outcome
      BY <1>1, <2>3, GotoEffect DEF Proceeds, CallPCs
    <3>4. handler' = handler /\ svc' = svc
          /\ UNCHANGED <<ticket, canceled, replies, started, panicked, killed, cutoff, crash>>
      BY <2>1 DEF requests, past
    <3>5. handler[i] \in {"waiting", "closed"} /\ (handler[i] = "waiting" => inbox[i] = Accepted)
      BY <1>2, <1>3, <2>1, <2>2, <3>1, FrameFacts DEF Talk, Live, HandlerPCs
    <3>6. Talk(i)'
      BY <1>2, <1>3, <2>1, <2>2, <3>1, <3>3, <3>4, <3>5, FrameFacts DEF Talk, At, Done, Before, Live
    <3>7. \A p \in Services : SameWork(p)
      BY <3>4 DEF SameWork
    <3>8. handler[i] = "closed" /\ inbox[i] = Accepted => Excused(i)
      BY <1>1, <2>2 DEF Ends
    <3>9. handler'[i] = "closed" /\ inbox'[i] = Nothing => Excused(i) /\ handler[i] # "none"
      BY <2>2, <3>1, <3>4, <3>8, FrameFacts
    <3>10. inbox'[i] # Rejected
      BY <3>1, FrameFacts
    <3> QED BY <1>1, <2>2, <3>2, <3>3, <3>4, <3>6, <3>7, <3>9, <3>10, ClientStep DEF Values
  <2>4. CASE Hears(i, "rejected") /\ Finish(i, "direct") /\ inbox' = inbox
    <3>1. inbox[i] = Rejected
      BY <1>1, <2>4, HearFacts
    <3> QED BY <2>1, <2>2, <2>4, <3>1, ReturnStep DEF Outcomes
  <2>5. CASE Finish(i, "failed") /\ inbox' = inbox
    BY <2>1, <2>2, <2>5, ReturnStep DEF Outcomes
  <2> QED BY <1>12, <2>3, <2>4, <2>5 DEF Admission, LostSubmission
<1>13. CASE Await(i)
  <2>1. UNCHANGED <<svc, handler, inbox, requests, past, crash>> /\ call[i].pc = "await"
    BY <1>13 DEF Await, At
  <2>2. ~Done(i) /\ At(i, "await") /\ handler[i] \in {"waiting", "closed"}
    BY <1>2, <2>1 DEF Done, At, Talk
  <2>3. CASE Finish(i, "answered")
    BY <2>1, <2>2, <2>3, ReturnStep DEF Outcomes
  <2>4. CASE HungUp(i) /\ CrashIsMine(i) /\ Finish(i, "panicked")
    <3>1. call[i].svc # None /\ crash.svc # None
      BY <1>2, <2>2, <2>4 DEF Talk, CrashIsMine
    <3>2. PICK j \in panicked : call[j].svc = crash.svc /\ ticket[j] = crash.ticket
      BY <1>1, <3>1 DEF Crashes
    <3>3. j \in Calls /\ ticket[j] >= 1 /\ call[j].svc = call[i].svc /\ ticket[j] = ticket[i]
      BY <1>1, <1>3, <2>4, <3>2 DEF Values, Crashes, CrashIsMine
    <3>4. j = i
      BY <1>1, <3>3 DEF Tickets
    <3> QED BY <2>1, <2>2, <2>4, <3>2, <3>4, ReturnStep DEF Outcomes
  <2>5. CASE HungUp(i) /\ Finish(i, "lost")
    <3>1. handler[i] = "closed" /\ inbox[i] = Nothing
      BY <1>1, <2>5, HearFacts DEF HungUp, Closed
    <3>2. Excused(i)
      BY <1>1, <2>2, <3>1 DEF Ends
    <3> QED BY <2>1, <2>2, <2>5, <3>1, <3>2, ReturnStep DEF Outcomes
  <2> QED BY <1>13, <2>3, <2>4, <2>5 DEF Await
<1>14. CASE Acknowledged(i)
  <2>1. UNCHANGED <<svc, handler, inbox, requests, past, crash>> /\ call[i].pc = "sent" /\ i \in Stops
    BY <1>14 DEF Acknowledged, At
  <2>2. ~Done(i)
    BY <2>1 DEF Done, At
  <2>3. CASE call' = Goto(i, "release")
    BY <2>1, <2>3, WanderStep DEF CallPCs
  <2>4. CASE Finish(i, "failed")
    BY <2>1, <2>2, <2>4, ReturnStep DEF Outcomes
  <2> QED BY <1>14, <2>3, <2>4 DEF Acknowledged
<1>15. CASE Released(i)
  <2>1. UNCHANGED <<svc, handler, inbox, requests, past, crash>> /\ call[i].pc = "release"
        /\ call' = Goto(i, "released")
    BY <1>15 DEF Released, At
  <2>2. i \in Stops
    BY <1>2, <1>3, <2>1 DEF Talk
  <2> QED BY <2>1, <2>2, WanderStep DEF CallPCs
<1>16. CASE Stopped(i) \/ KillCall(i)
  <2>1. /\ UNCHANGED <<svc, handler, inbox, requests, past, crash>>
        /\ Finish(i, "stopped") \/ Finish(i, "killed")
        /\ ~Done(i)
    BY <1>16 DEF Stopped, KillCall, Done, At
  <2> QED BY <2>1, ReturnStep DEF Outcomes
<1> QED
  BY <1>5, <1>6, <1>7, <1>8, <1>9, <1>10, <1>11, <1>12, <1>13, <1>14, <1>15, <1>16 DEF CallStep

-----------------------------------------------------------------------------
(* The steps of a service *)

\* A connection that is served is one of a process that is up.
LEMMA ServedBy ==
  ASSUME DaemonInv, RequestInv, NEW i \in Calls, handler[i] \in Live
  PROVE  call[i].svc \in Services /\ svc[call[i].svc].pc \in {"serving", "leaving", "draining"}
  BY Constants DEF RequestInv, DaemonInv, Talks, Talk, Live, Shapes, CallRecord, Served, Listening

\* The first step of a handler, whose connection was just accepted.
Begins(i) ==
  /\ handler[i] = "backlog" /\ Welcomes(i)
  /\ UNCHANGED <<files, svc, call, requests, bounds, started, panicked, killed>>

\* Every step of a connection's handler, its first one included, keeps the invariant.
LEMMA HandlerStepRequest ==
  ASSUME DaemonInv, RequestInv, NEW i \in Calls,
         HandlerStep(i) \/ SilentClient(i) \/ Begins(i)
  PROVE  RequestInv'
<1>1. Values /\ Talks /\ Owners /\ Shapes /\ Tickets /\ Ends
  BY DEF RequestInv, DaemonInv
<1>2. Talk(i) /\ inbox[i] \in Frames /\ handler[i] \in HandlerPCs
  BY <1>1 DEF Talks, Values
<1>3. Calls = Builds \cup Stops /\ Builds \cap Stops = {} /\ None \notin Services
  BY Constants
<1>4. /\ handler[i] \in Live
      /\ call' = call /\ UNCHANGED <<started, panicked, killed, crash>> /\ cutoff \subseteq cutoff'
  <2>1. CASE HandlerStep(i) \/ SilentClient(i)
    BY <2>1 DEF HandlerStep, ReadRequest, StopService, Admit, Reserve, Send, WriteAccepted, Watch,
                Relay, SilentClient, Refuse, Write, Delivers, Fails, files, past, Live
  <2>2. CASE Begins(i)
    BY <2>2 DEF Begins, Welcomes, Fails, files, Live
  <2> QED BY <2>1, <2>2
<1> DEFINE p == call[i].svc
<1>5. p \in Services
  BY <1>4, ServedBy
<1>6. ASSUME NEW to \in HandlerPCs, handler' = Handler(i, to)
      PROVE  /\ handler' \in [Calls -> HandlerPCs] /\ handler'[i] = to
             /\ \A j \in Calls \ {i} : handler'[j] = handler[j]
  BY <1>1, <1>6 DEF Values, Handler
<1> DEFINE SvcKept == \A q \in Services :
             /\ svc'[q].pc = svc[q].pc /\ svc'[q].owner = svc[q].owner
             /\ svc'[q].job = svc[q].job /\ svc'[q].active = svc[q].active
           QueuesKept == \A q \in Services : svc'[q].queue = svc[q].queue
           TicketsKept == ticket' = ticket /\ \A q \in Services : svc'[q].tickets = svc[q].tickets
           InboxKept == /\ inbox' \in [Calls -> Frames] /\ inbox'[i] = inbox[i]
                        /\ \A j \in Calls \ {i} : inbox'[j] = inbox[j]
<1>7. inbox' = inbox => InboxKept
  BY <1>1 DEF Values
<1>8. svc' = svc => SvcKept /\ QueuesKept
  OBVIOUS
<1>9. svc' = svc /\ ticket' = ticket => TicketsKept
  OBVIOUS
<1>10. canceled \subseteq Builds /\ replies \subseteq Builds
  BY <1>1 DEF Values
<1>11. ASSUME NEW frame, NEW to \in Frames, Write(i, frame),
              ~Done(i) => Append(inbox[i], frame) = to
       PROVE  /\ inbox' \in [Calls -> Frames] /\ \A j \in Calls \ {i} : inbox'[j] = inbox[j]
              /\ \/ ~Done(i) /\ inbox'[i] = to
                 \/ inbox'[i] = inbox[i] /\ (Done(i) \/ i \in cutoff')
  <2>1. \/ ~Done(i) /\ inbox'[i] = to
        \/ inbox'[i] = inbox[i] /\ (Done(i) \/ i \in cutoff')
    BY <1>1, <1>11, WriteFacts
  <2>2. \A j \in Calls : inbox'[j] \in Frames
    BY <1>1, <1>2, <1>11, <2>1, WriteFacts DEF Values
  <2>3. inbox' \in [Calls -> Frames]
    BY <1>1, <1>11, <2>2, WriteFacts
  <2> QED BY <1>1, <1>11, <2>1, <2>3, WriteFacts
<1> HIDE DEF p, SvcKept, QueuesKept, TicketsKept, InboxKept
<1>12. CASE Begins(i)
  <2>1. /\ inbox' = inbox /\ svc' = svc /\ ticket' = ticket /\ canceled' = canceled
        /\ replies' = replies /\ handler[i] = "backlog" /\ inbox[i] = Nothing
    BY <1>2, <1>12 DEF Begins, Welcomes, Fails, requests, Talk, Live
  <2>2. PICK to \in {"request", "closed"} : handler' = Handler(i, to)
    BY <1>12 DEF Begins, Welcomes, Handler
  <2>3. handler'[i] = to /\ \A j \in Calls \ {i} : handler'[j] = handler[j]
    BY <1>6, <2>2 DEF HandlerPCs
  <2>4. call[i].pc # "await" /\ inbox[i] # Accepted
    BY <1>2, <2>1, FrameFacts DEF Talk, At
  <2>5. Talk(i)'
    BY <1>2, <1>4, <2>1, <2>3, FrameFacts DEF Talk, At, Done, Live, Before
  <2> QED
    BY <1>4, <1>6, <1>7, <1>8, <1>9, <1>10, <2>1, <2>2, <2>3, <2>4, <2>5, ServantStep
    DEF HandlerPCs, Live, SvcKept, QueuesKept, TicketsKept, InboxKept
<1>13. CASE ReadRequest(i)
  <2>1. /\ svc' = svc /\ ticket' = ticket /\ canceled' = canceled
        /\ replies' = replies /\ handler[i] = "request" /\ inbox[i] = Nothing
    BY <1>2, <1>13 DEF ReadRequest, requests, Talk, Live
  <2>2. CASE call[i].sent /\ i \in Stops /\ Write(i, "stopping") /\ handler' = Handler(i, "stop")
    <3>1. /\ inbox' \in [Calls -> Frames] /\ \A j \in Calls \ {i} : inbox'[j] = inbox[j]
          /\ inbox'[i] \in {Nothing, Stopping}
      BY <1>11, <2>1, <2>2, FrameFacts DEF Frames
    <3>2. handler'[i] = "stop" /\ \A j \in Calls \ {i} : handler'[j] = handler[j]
      BY <1>6, <2>2 DEF HandlerPCs
    <3>3. Talk(i)'
      BY <1>2, <1>3, <1>4, <2>1, <2>2, <3>1, <3>2, FrameFacts DEF Talk, At, Done, Live, Before
    <3>4. inbox'[i] # Rejected
      BY <3>1, FrameFacts
    <3> QED
      BY <1>4, <1>6, <1>8, <1>9, <1>10, <2>1, <2>2, <3>1, <3>2, <3>3, <3>4, ServantStep
      DEF HandlerPCs, Live, SvcKept, QueuesKept, TicketsKept
  <2>3. CASE call[i].sent /\ i \in Builds /\ handler' = Handler(i, "admit") /\ inbox' = inbox
    <3>1. handler'[i] = "admit" /\ \A j \in Calls \ {i} : handler'[j] = handler[j]
      BY <1>6, <2>3 DEF HandlerPCs
    <3>2. call[i].outcome # "direct"
      BY <1>2, <2>1, <2>3 DEF Talk
    <3>3. Talk(i)'
      BY <1>2, <1>3, <1>4, <2>1, <2>3, <3>1, <3>2, FrameFacts DEF Talk, At, Done, Live, Before
    <3> QED
      BY <1>4, <1>6, <1>7, <1>8, <1>9, <1>10, <2>1, <2>3, <3>1, <3>3, ServantStep
      DEF HandlerPCs, Live, SvcKept, QueuesKept, TicketsKept, InboxKept
  <2>4. CASE handler' = Handler(i, "closed") /\ inbox' = inbox
    <3>1. handler'[i] = "closed" /\ \A j \in Calls \ {i} : handler'[j] = handler[j]
      BY <1>6, <2>4 DEF HandlerPCs
    <3>2. call[i].pc # "await" /\ inbox[i] # Accepted
      BY <1>2, <2>1, FrameFacts DEF Talk, At
    <3>3. Talk(i)'
      BY <1>2, <1>3, <1>4, <2>1, <2>4, <3>1, <3>2, FrameFacts DEF Talk, At, Done, Live, Before
    <3> QED
      BY <1>4, <1>6, <1>7, <1>8, <1>9, <1>10, <2>1, <2>4, <3>1, <3>2, <3>3, ServantStep
      DEF HandlerPCs, Live, SvcKept, QueuesKept, TicketsKept, InboxKept
  <2> QED BY <1>13, <2>2, <2>3, <2>4 DEF ReadRequest
<1>14. CASE SilentClient(i)
  <2>1. /\ svc' = svc /\ ticket' = ticket /\ canceled' = canceled /\ inbox' = inbox
        /\ replies' = replies /\ handler[i] = "request" /\ inbox[i] = Nothing
        /\ handler' = Handler(i, "closed") /\ call[i].pc = "submit"
    BY <1>2, <1>14 DEF SilentClient, requests, Talk, Live, At
  <2>2. handler'[i] = "closed" /\ \A j \in Calls \ {i} : handler'[j] = handler[j]
    BY <1>6, <2>1 DEF HandlerPCs
  <2>3. Talk(i)'
    BY <1>2, <1>3, <1>4, <2>1, <2>2, FrameFacts DEF Talk, At, Done, Live, Before
  <2> QED
    BY <1>4, <1>6, <1>7, <1>8, <1>9, <1>10, <2>1, <2>2, <2>3, ServantStep
    DEF HandlerPCs, Live, SvcKept, QueuesKept, TicketsKept, InboxKept
<1>15. CASE StopService(i)
  <2>1. /\ ticket' = ticket /\ canceled' = CancelActive(p) /\ inbox' = inbox
        /\ replies' = replies /\ handler[i] = "stop" /\ handler' = Handler(i, "closed")
    BY <1>15 DEF StopService, p
  <2>2. canceled' \subseteq Builds
    BY <1>1, <1>5, <1>10, <2>1 DEF CancelActive, Owners
  <2>3. Becomes(p, svc[p].pc, TRUE, svc[p].open, svc[p].queued, svc[p].tickets, svc[p].queue,
                svc[p].owner, svc[p].job, svc[p].active)
    BY <1>1, <1>5, <1>15, StopEffect DEF p
  <2>4. SvcKept /\ QueuesKept /\ TicketsKept
    BY <2>1, <2>3 DEF Becomes, SvcKept, QueuesKept, TicketsKept
  <2>5. handler'[i] = "closed" /\ \A j \in Calls \ {i} : handler'[j] = handler[j]
    BY <1>6, <2>1 DEF HandlerPCs
  <2>6. i \in Stops /\ call[i].pc # "await" /\ inbox[i] # Accepted /\ inbox[i] # Rejected
    BY <1>2, <1>3, <2>1, FrameFacts DEF Talk, At
  <2>7. Talk(i)'
    BY <1>2, <1>3, <1>4, <2>1, <2>5, <2>6, FrameFacts DEF Talk, At, Done, Live, Before
  <2> QED
    BY <1>4, <1>6, <1>7, <1>10, <2>1, <2>2, <2>4, <2>5, <2>6, <2>7, ServantStep
    DEF HandlerPCs, Live, SvcKept, QueuesKept, TicketsKept, InboxKept
<1>16. ASSUME Refuse(i), svc' = svc, UNCHANGED requests, handler[i] \in {"admit", "reserve"}
       PROVE  RequestInv'
  <2>1. /\ Write(i, "rejected") /\ handler' = Handler(i, "closed") /\ inbox[i] = Nothing
        /\ ticket' = ticket /\ canceled' = canceled /\ replies' = replies
    BY <1>2, <1>16 DEF Refuse, requests, Talk, Live
  <2>2. /\ inbox' \in [Calls -> Frames] /\ \A j \in Calls \ {i} : inbox'[j] = inbox[j]
        /\ inbox'[i] \in {Nothing, Rejected}
    BY <1>11, <2>1, FrameFacts DEF Frames
  <2>3. handler'[i] = "closed" /\ \A j \in Calls \ {i} : handler'[j] = handler[j]
    BY <1>6, <2>1 DEF HandlerPCs
  <2>4. i \in Builds /\ call[i].pc \notin {"await", "submit", "hello"} /\ call[i].sent
    BY <1>2, <1>3, <1>16 DEF Talk, At, Before
  <2>5. Talk(i)'
    BY <1>2, <1>3, <1>4, <2>1, <2>2, <2>3, <2>4, FrameFacts DEF Talk, At, Done, Live, Before
  <2>6. inbox'[i] # Accepted
    BY <2>2, FrameFacts
  <2> QED
    BY <1>4, <1>6, <1>8, <1>9, <1>10, <1>16, <2>1, <2>2, <2>3, <2>4, <2>5, <2>6, ServantStep
    DEF HandlerPCs, Live, SvcKept, QueuesKept, TicketsKept
<1>17. CASE Admit(i)
  <2>1. svc' = svc /\ UNCHANGED requests /\ handler[i] = "admit" /\ inbox[i] = Nothing
    BY <1>2, <1>17 DEF Admit, Talk, Live
  <2>2. CASE handler' = Handler(i, "reserve") /\ inbox' = inbox
    <3>1. handler'[i] = "reserve" /\ \A j \in Calls \ {i} : handler'[j] = handler[j]
      BY <1>6, <2>2 DEF HandlerPCs
    <3>2. Talk(i)'
      BY <1>2, <1>3, <1>4, <2>1, <2>2, <3>1, FrameFacts DEF Talk, At, Done, Live, Before
    <3>3. ticket' = ticket /\ canceled' = canceled /\ replies' = replies
      BY <2>1 DEF requests
    <3> QED
      BY <1>4, <1>6, <1>7, <1>8, <1>9, <1>10, <2>1, <2>2, <3>1, <3>2, <3>3, ServantStep
      DEF HandlerPCs, Live, SvcKept, QueuesKept, TicketsKept, InboxKept
  <2>3. CASE Refuse(i)
    BY <1>16, <2>1, <2>3
  <2> QED BY <1>17, <2>2, <2>3 DEF Admit
<1>18. CASE Reserve(i)
  <2>1. canceled' = canceled /\ replies' = replies /\ handler[i] = "reserve" /\ inbox[i] = Nothing
    BY <1>2, <1>18 DEF Reserve, Talk, Live
  <2>2. CASE /\ svc' = [svc EXCEPT ![p].queued = @ + 1, ![p].tickets = @ + 1]
             /\ ticket' = [ticket EXCEPT ![i] = svc[p].tickets + 1]
             /\ handler' = Handler(i, "send") /\ inbox' = inbox
    <3>1. handler'[i] = "send" /\ \A j \in Calls \ {i} : handler'[j] = handler[j]
      BY <1>6, <2>2 DEF HandlerPCs
    <3>2. Becomes(p, svc[p].pc, svc[p].stop, svc[p].open, svc[p].queued + 1, svc[p].tickets + 1,
                  svc[p].queue, svc[p].owner, svc[p].job, svc[p].active)
      BY <1>1, <1>5, <2>2, ReserveEffect DEF p
    <3>3. /\ SvcKept /\ QueuesKept
          /\ \A q \in Services : svc'[q].tickets = IF q = p THEN svc[q].tickets + 1 ELSE svc[q].tickets
      BY <3>2 DEF Becomes, SvcKept, QueuesKept
    <3>4. Talk(i)'
      BY <1>2, <1>3, <1>4, <2>1, <2>2, <3>1, FrameFacts DEF Talk, At, Done, Live, Before
    <3>5. ticket'[i] = svc[p].tickets + 1
      BY <1>1, <2>2 DEF Values
    <3> QED
      BY <1>4, <1>6, <1>7, <1>10, <2>1, <2>2, <3>1, <3>3, <3>4, <3>5, ServantStep
      DEF HandlerPCs, Live, SvcKept, QueuesKept, InboxKept, p
  <2>3. CASE Refuse(i) /\ svc' = svc /\ ticket' = ticket
    BY <1>16, <2>1, <2>3 DEF requests
  <2> QED BY <1>18, <2>2, <2>3 DEF Reserve, p
<1>19. CASE Send(i)
  <2>1. ticket' = ticket /\ canceled' = canceled /\ replies' = replies /\ handler[i] = "send"
        /\ inbox[i] = Nothing /\ inbox' = inbox /\ handler' = Handler(i, "accept")
    BY <1>2, <1>19 DEF Send, Talk, Live, requests
  <2>2. handler'[i] = "accept" /\ \A j \in Calls \ {i} : handler'[j] = handler[j]
    BY <1>6, <2>1 DEF HandlerPCs
  <2>3. Becomes(p, svc[p].pc, svc[p].stop, svc[p].open, svc[p].queued, svc[p].tickets,
                Append(svc[p].queue, i), svc[p].owner, svc[p].job, svc[p].active)
    BY <1>1, <1>5, <1>19, SendEffect DEF p
  <2>4. /\ SvcKept /\ TicketsKept
        /\ \A q \in Services : svc'[q].queue = IF q = p THEN Append(svc[q].queue, i) ELSE svc[q].queue
    BY <2>1, <2>3 DEF Becomes, SvcKept, TicketsKept
  <2>5. Talk(i)'
    BY <1>2, <1>3, <1>4, <2>1, <2>2, FrameFacts DEF Talk, At, Done, Live, Before
  <2> QED
    BY <1>4, <1>6, <1>7, <1>10, <2>1, <2>2, <2>4, <2>5, ServantStep
    DEF HandlerPCs, Live, SvcKept, TicketsKept, InboxKept, p
<1>20. CASE WriteAccepted(i)
  <2>1. /\ ticket' = ticket /\ svc' = svc /\ handler[i] = "accept" /\ inbox[i] = Nothing
        /\ \/ Delivers(i, "accepted") /\ handler' = Handler(i, "waiting")
           \/ Fails(i) /\ handler' = Handler(i, "closed")
    BY <1>2, <1>20 DEF WriteAccepted, Talk, Live
  <2>2. i \in Builds /\ call[i].pc \in {"sent", "done"} /\ call[i].sent
    <3>1. call[i].pc \in CallPCs
      BY <1>1 DEF Shapes, CallRecord
    <3> QED BY <1>2, <1>3, <2>1, <3>1 DEF Talk, CallPCs, Before, At
  <2>3. canceled' \subseteq Builds /\ replies' \subseteq Builds
    BY <1>10, <1>20, <2>2 DEF WriteAccepted
  <2>4. CASE Delivers(i, "accepted") /\ handler' = Handler(i, "waiting")
    <3>1. handler'[i] = "waiting" /\ handler' \in [Calls -> HandlerPCs]
          /\ \A j \in Calls \ {i} : handler'[j] = handler[j]
      BY <1>6, <2>4 DEF HandlerPCs
    <3>2. inbox' \in [Calls -> Frames] /\ \A j \in Calls \ {i} : inbox'[j] = inbox[j]
      BY <1>11, <2>1, <2>4, FrameFacts DEF Frames, Write
    <3>3. ~Done(i) /\ inbox'[i] = Accepted
      BY <1>1, <2>1, <2>4, FrameFacts DEF Delivers, Gone, Values
    <3>4. inbox'[i] # Rejected /\ call[i].pc = "sent"
      BY <2>2, <3>3, FrameFacts DEF Done, At
    <3>5. Talk(i)'
      BY <1>2, <1>3, <1>4, <2>1, <2>2, <3>1, <3>3, <3>4, FrameFacts DEF Talk, At, Done, Live, Before
    <3> QED
      BY <1>4, <1>8, <1>9, <2>1, <2>3, <3>1, <3>2, <3>4, <3>5, ServantStep
      DEF Live, SvcKept, QueuesKept, TicketsKept
  <2>5. CASE Fails(i) /\ handler' = Handler(i, "closed")
    <3>1. handler'[i] = "closed" /\ handler' \in [Calls -> HandlerPCs]
          /\ \A j \in Calls \ {i} : handler'[j] = handler[j]
      BY <1>6, <2>5 DEF HandlerPCs
    <3>2. inbox' = inbox /\ inbox'[i] # Accepted /\ inbox'[i] # Rejected /\ call[i].pc # "await"
      BY <2>1, <2>2, <2>5, FrameFacts DEF Fails
    <3>3. Talk(i)'
      BY <1>2, <1>3, <1>4, <2>1, <2>2, <3>1, <3>2, FrameFacts DEF Talk, At, Done, Live, Before
    <3> QED
      BY <1>4, <1>7, <1>8, <1>9, <2>1, <2>3, <3>1, <3>2, <3>3, ServantStep
      DEF Live, SvcKept, QueuesKept, TicketsKept, InboxKept
  <2> QED BY <2>1, <2>4, <2>5
<1>21. CASE Watch(i)
  <2>1. ticket' = ticket /\ svc' = svc /\ handler[i] = "waiting" /\ inbox' = inbox
        /\ handler' = handler /\ replies' = replies /\ canceled' = canceled \cup {i}
    BY <1>21 DEF Watch
  <2>2. i \in Builds
    BY <1>2, <1>3, <2>1 DEF Talk
  <2>3. Talk(i)'
    BY <1>2, <1>4, <2>1 DEF Talk, At, Done
  <2>4. handler' \in [Calls -> HandlerPCs] /\ canceled' \subseteq Builds
    BY <1>1, <1>10, <2>1, <2>2 DEF Values
  <2> QED
    BY <1>4, <1>7, <1>8, <1>9, <1>10, <2>1, <2>3, <2>4, ServantStep
    DEF Live, SvcKept, QueuesKept, TicketsKept, InboxKept
<1>22. CASE Relay(i)
  <2>1. /\ ticket' = ticket /\ svc' = svc /\ handler[i] = "waiting" /\ canceled' = canceled
        /\ Write(i, "result") /\ handler' = Handler(i, "closed") /\ replies' = replies \ {i}
    BY <1>22 DEF Relay
  <2>2. i \in Builds /\ call[i].pc \in {"sent", "await", "done"} /\ call[i].sent
    <3>1. call[i].pc \in CallPCs
      BY <1>1 DEF Shapes, CallRecord
    <3> QED BY <1>2, <1>3, <2>1, <3>1 DEF Talk, CallPCs, Before, At
  <2>3. /\ handler'[i] = "closed" /\ handler' \in [Calls -> HandlerPCs]
        /\ \A j \in Calls \ {i} : handler'[j] = handler[j]
    BY <1>6, <2>1 DEF HandlerPCs
  <2>4. /\ call[i].pc = "sent" => inbox[i] = Accepted
        /\ call[i].pc = "await" => inbox[i] = Nothing
        /\ inbox[i] \in {Nothing, Accepted}
    BY <1>2, <2>1 DEF Talk, At
  <2>5. /\ inbox' \in [Calls -> Frames] /\ \A j \in Calls \ {i} : inbox'[j] = inbox[j]
        /\ \/ /\ ~Done(i)
              /\ inbox'[i] = IF inbox[i] = Accepted THEN AcceptedResult ELSE Result
           \/ inbox'[i] = inbox[i] /\ (Done(i) \/ i \in cutoff')
    <3> DEFINE to == IF inbox[i] = Accepted THEN AcceptedResult ELSE Result
    <3>1. to \in Frames /\ Append(inbox[i], "result") = to
      BY <2>4, FrameFacts DEF Frames
    <3> QED BY <1>11, <2>1, <3>1
  <2>6. /\ inbox'[i] # Rejected /\ inbox'[i] # Stopping
        /\ call[i].pc = "sent" => inbox'[i] \in {Accepted, AcceptedResult}
        /\ call[i].pc = "await" => inbox'[i] \in {Nothing, Result}
        /\ \/ i \in cutoff'
           \/ /\ ~(call[i].pc = "await" /\ inbox'[i] = Nothing)
              /\ ~(call[i].pc = "sent" /\ inbox'[i] = Accepted)
    BY <2>4, <2>5, FrameFacts DEF Done, At
  <2>7. Talk(i)'
    BY <1>2, <1>3, <1>4, <2>1, <2>2, <2>3, <2>6, FrameFacts DEF Talk, At, Done, Live, Before
  <2>8. replies' \subseteq Builds /\ canceled' \subseteq Builds
    BY <1>10, <2>1
  <2>9. inbox' \in [Calls -> Frames] /\ (\A j \in Calls \ {i} : inbox'[j] = inbox[j])
    BY <2>5
  <2>10. svc' = svc /\ ticket' = ticket /\ handler[i] = "waiting"
    BY <2>1
  <2> QED
    BY <1>4, <1>8, <1>9, <2>3, <2>6, <2>7, <2>8, <2>9, <2>10, ServantStep
    DEF Live, SvcKept, QueuesKept, TicketsKept
<1> QED
  BY <1>12, <1>13, <1>14, <1>15, <1>17, <1>18, <1>19, <1>20, <1>21, <1>22 DEF HandlerStep

\* Every step of a service's accept loop keeps the invariant.
LEMMA LoopStepRequest ==
  ASSUME DaemonInv, RequestInv, NEW p \in Services, LoopStep(p)
  PROVE  RequestInv'
<1>1. Values /\ Owners /\ Shapes /\ canceled \subseteq Builds
  BY DEF RequestInv, DaemonInv, Values
<1> DEFINE Same == UNCHANGED <<call, handler, inbox, ticket, replies, started, panicked, killed, cutoff, crash>>
           Moved(to) == /\ \A q \in Services : SameWork(q)
                        /\ \A q \in Services \ {p} : svc'[q].pc = svc[q].pc
                        /\ svc'[p].pc = to
<1>2. CASE LockService(p)
  <2>1. Same /\ canceled' = canceled /\ svc[p].pc = "launched"
    BY <1>2 DEF LockService, requests, past
  <2>2. Moved("locked") \/ Moved("gone")
    BY <1>1, <1>2, LockedEffect, RefusedEffect DEF Becomes, SameWork
  <2> QED BY <1>1, <2>1, <2>2, PlaceStep DEF Listening
<1>3. CASE Bind(p)
  <2>1. Same /\ canceled' = canceled /\ svc[p].pc = "locked"
    BY <1>3 DEF Bind, requests, past
  <2>2. Moved("serving")
    BY <1>1, <1>3, BindEffect DEF Becomes, SameWork
  <2> QED BY <1>1, <2>1, <2>2, PlaceStep DEF Listening
<1>4. CASE Accept(p)
  <2>1. \E i \in Calls : Begins(i)
    BY <1>4 DEF Accept, Begins
  <2> QED BY <2>1, HandlerStepRequest
<1>5. CASE Leave(p)
  <2>1. Same /\ canceled' = CancelActive(p) /\ svc[p].pc = "serving"
    BY <1>5 DEF Leave, past, files
  <2>2. Moved("leaving")
    BY <1>1, <1>5, LeaveEffect DEF Becomes, SameWork
  <2>3. canceled' \subseteq Builds
    BY <1>1, <2>1 DEF CancelActive, Owners
  <2> QED BY <1>1, <2>1, <2>2, <2>3, PlaceStep DEF Listening
<1>6. CASE CloseJobs(p)
  <2>1. Same /\ canceled' = canceled /\ svc[p].pc = "leaving"
    BY <1>6 DEF CloseJobs, requests, past, files
  <2>2. Moved("draining")
    BY <1>1, <1>6, CloseJobsEffect DEF Becomes, SameWork
  <2> QED BY <1>1, <2>1, <2>2, PlaceStep DEF Listening
<1>7. CASE CloseListener(p)
  <2>1. /\ UNCHANGED <<call, inbox, ticket, canceled, replies, started, panicked, killed, cutoff, crash>>
        /\ handler' = [i \in Calls |-> IF call[i].svc = p THEN "closed" ELSE handler[i]]
        /\ svc[p].pc = "draining" /\ Connections(p) = {}
    BY <1>7 DEF CloseListener, requests, past, files, Drained
  <2>2. /\ svc' \in [Services -> ServiceRecord] /\ svc'[p].pc = "ended" /\ SameWork(p)
        /\ \A q \in Services \ {p} : svc'[q] = svc[q]
    BY <1>1, <1>7, CloseListenerEffect DEF Becomes, SameWork
  <2>3. panicked' = panicked /\ killed' = killed /\ panicked \subseteq Builds /\ replies' = replies
    BY <1>1, <2>1 DEF Values
  <2> QED BY <2>1, <2>2, <2>3, HangUpStep
<1>8. CASE Exit(p)
  <2>1. Same /\ canceled' = canceled /\ svc[p].pc = "ended"
    BY <1>8 DEF Exit, requests, past
  <2>2. Moved("gone")
    BY <1>1, <1>8, ExitEffect DEF Becomes, SameWork
  <2> QED BY <1>1, <2>1, <2>2, PlaceStep DEF Listening
<1> QED BY <1>2, <1>3, <1>4, <1>5, <1>6, <1>7, <1>8 DEF LoopStep

\* Every step of a service's owner keeps the invariant.
LEMMA OwnerStepRequest ==
  ASSUME DaemonInv, RequestInv, NEW p \in Services, OwnerStep(p)
  PROVE  RequestInv'
<1>1. /\ Values /\ Owners /\ Shapes /\ InPlace /\ replies \subseteq Builds /\ started \subseteq Builds
      /\ Calls = Builds \cup Stops /\ None \notin Calls
  BY Constants DEF RequestInv, DaemonInv, Values
<1>2. /\ svc[p].queue \in Seq(Builds) /\ svc[p].job \in Builds \cup {None}
      /\ svc[p].owner = "recv" <=> svc[p].job = None
      /\ svc[p].active = IF svc[p].owner = "build" THEN svc[p].job ELSE None
  BY <1>1 DEF Owners
<1> DEFINE Same == UNCHANGED <<call, handler, inbox, ticket, canceled, panicked, killed, cutoff, crash>>
<1>3. CASE Receive(p)
  <2>1. Same /\ replies' = replies /\ started' = started /\ svc[p].owner = "recv"
        /\ svc[p].queue # << >>
    BY <1>3 DEF Receive, requests, past, files
  <2>2. /\ svc'[p].pc = svc[p].pc /\ svc'[p].tickets = svc[p].tickets
        /\ svc'[p].queue = Tail(svc[p].queue) /\ svc'[p].owner = "turn"
        /\ svc'[p].job = Head(svc[p].queue) /\ svc'[p].active = svc[p].active
        /\ \A q \in Services \ {p} : svc'[q] = svc[q]
    BY <1>1, <1>3, ReceiveEffect DEF Becomes
  <2> DEFINE z == svc[p].queue
  <2>3. z \in Seq(Builds) /\ z # << >>
    BY <1>2, <2>1
  <2> HIDE DEF z
  <2>4. /\ Head(z) \in Builds /\ Tail(z) \in Seq(Builds) /\ Len(z) \in Nat \ {0}
        /\ Head(z) = z[1] /\ Len(Tail(z)) = Len(z) - 1
        /\ \A k \in 1 .. Len(Tail(z)) : Tail(z)[k] = z[k + 1]
    BY <2>3
  <2>5. ASSUME NEW j \in Calls, Has(p, j)' PROVE Has(p, j)
    <3>1. CASE Head(z) = j
      <4>1. 1 \in 1 .. Len(z)
        BY <2>4
      <4> QED BY <2>4, <3>1, <4>1 DEF Has, z
    <3>2. CASE \E k \in 1 .. Len(Tail(z)) : Tail(z)[k] = j
      <4>1. PICK k \in 1 .. Len(Tail(z)) : Tail(z)[k] = j
        BY <3>2
      <4>2. k + 1 \in 1 .. Len(z) /\ z[k + 1] = j
        BY <2>4, <4>1
      <4> QED BY <4>2 DEF Has, z
    <3> QED BY <2>2, <2>5, <3>1, <3>2 DEF Has, z
  <2>6. /\ svc'[p].job \in Builds /\ svc'[p].queue \in Seq(Builds) /\ svc'[p].active = None
        /\ svc'[p].owner = "turn"
    BY <1>2, <2>1, <2>2, <2>4 DEF z
  <2> QED BY <1>1, <2>1, <2>2, <2>5, <2>6, WorkStep
<1>4. CASE Turn(p)
  <2>1. Same /\ started' = started /\ svc[p].owner = "turn"
    BY <1>4 DEF Turn, past, files
  <2>2. replies' \subseteq Builds
    BY <1>1, <1>2, <1>4, <2>1 DEF Turn, Reply
  <2>3. /\ svc'[p].pc = svc[p].pc /\ svc'[p].tickets = svc[p].tickets
        /\ svc'[p].queue = svc[p].queue /\ svc'[p].active = svc[p].active
        /\ \/ svc'[p].owner = "recv" /\ svc'[p].job = None
           \/ svc'[p].owner = "start" /\ svc'[p].job = svc[p].job
        /\ \A q \in Services \ {p} : svc'[q] = svc[q]
    BY <1>1, <1>4, SkipEffect, StartEffect DEF Becomes
  <2>4. \A j \in Calls : Has(p, j)' => Has(p, j)
    BY <1>1, <2>3 DEF Has
  <2>5. /\ svc'[p].owner = "recv" <=> svc'[p].job = None
        /\ svc'[p].active = None /\ svc'[p].owner # "build" /\ svc'[p].job \in Builds \cup {None}
        /\ svc'[p].queue \in Seq(Builds)
    BY <1>2, <2>1, <2>3
  <2> QED BY <1>1, <2>1, <2>2, <2>3, <2>4, <2>5, WorkStep
<1>5. CASE SetActive(p)
  <2>1. Same /\ replies' = replies /\ started' = started \cup {svc[p].job} /\ svc[p].owner = "start"
    BY <1>5 DEF SetActive, requests, files
  <2>2. /\ svc'[p].pc = svc[p].pc /\ svc'[p].tickets = svc[p].tickets
        /\ svc'[p].queue = svc[p].queue /\ svc'[p].owner = "build"
        /\ svc'[p].job = svc[p].job /\ svc'[p].active = svc[p].job
        /\ \A q \in Services \ {p} : svc'[q] = svc[q]
    BY <1>1, <1>5, SetActiveEffect DEF Becomes
  <2>3. svc[p].job \in Builds
    BY <1>2, <2>1
  <2>4. \A j \in Calls : Has(p, j)' => Has(p, j)
    BY <2>2 DEF Has
  <2>5. started' \subseteq Builds /\ \A j \in Calls : j \in started' => j \in started \/ Has(p, j)
    BY <1>1, <2>1, <2>3 DEF Has
  <2>6. /\ svc'[p].owner = "recv" <=> svc'[p].job = None
        /\ svc'[p].active = IF svc'[p].owner = "build" THEN svc'[p].job ELSE None
        /\ svc'[p].job \in Builds \cup {None} /\ svc'[p].queue \in Seq(Builds)
    BY <1>1, <1>2, <2>2, <2>3
  <2> QED BY <1>1, <2>1, <2>2, <2>4, <2>5, <2>6, WorkStep
<1>6. CASE BuildEnds(p)
  <2>1. Same /\ started' = started /\ svc[p].owner = "build" /\ replies' = Reply(svc[p].job)
    BY <1>6 DEF BuildEnds, past, files
  <2>2. replies' \subseteq Builds
    BY <1>1, <1>2, <2>1 DEF Reply
  <2>3. /\ svc'[p].pc = svc[p].pc /\ svc'[p].tickets = svc[p].tickets
        /\ svc'[p].queue = svc[p].queue /\ svc'[p].active = None
        /\ svc'[p].owner = "recv" /\ svc'[p].job = None
        /\ \A q \in Services \ {p} : svc'[q] = svc[q]
    BY <1>1, <1>6, BuildEndsEffect DEF Becomes
  <2>4. \A j \in Calls : Has(p, j)' => Has(p, j)
    BY <1>1, <2>3 DEF Has
  <2>5. svc'[p].queue \in Seq(Builds) /\ svc'[p].job \in Builds \cup {None}
    BY <1>2, <2>3
  <2> QED BY <1>1, <2>1, <2>2, <2>3, <2>4, <2>5, WorkStep
<1> QED BY <1>3, <1>4, <1>5, <1>6 DEF OwnerStep

\* A panic and a kill keep the invariant: whoever was admitted learns of the end
\* of a dead process.
LEMMA DeathRequest ==
  ASSUME DaemonInv, RequestInv, NEW p \in Services, Panic(p) \/ KillService(p)
  PROVE  RequestInv'
<1>1. Values /\ Owners /\ Shapes /\ InPlace /\ Worked /\ Calls = Builds \cup Stops
  BY Constants DEF RequestInv, DaemonInv
<1>2. /\ Dies(p) /\ UNCHANGED <<call, inbox, ticket, canceled, started, cutoff>>
      /\ handler' = [i \in Calls |-> IF call[i].svc = p THEN "closed" ELSE handler[i]]
      /\ replies' \subseteq replies
  BY DEF Panic, KillService, Dies
<1>3. /\ svc' \in [Services -> ServiceRecord] /\ \A q \in Services \ {p} : svc'[q] = svc[q]
      /\ svc'[p].pc = "gone" /\ svc'[p].tickets = 0 /\ svc'[p].queue = << >>
      /\ svc'[p].owner = "recv" /\ svc'[p].job = None /\ svc'[p].active = None
  BY <1>1, <1>2, DiesEffect DEF Becomes
<1>4. CASE KillService(p)
  <2>1. killed' = killed \cup {p} /\ panicked' = panicked /\ crash' = crash /\ panicked \subseteq Builds
    BY <1>1, <1>4 DEF KillService, Values
  <2> QED BY <1>2, <1>3, <2>1, HangUpStep
<1>5. CASE Panic(p)
  <2> DEFINE b == svc[p].active
  <2>1. /\ svc[p].owner = "build" /\ panicked' = panicked \cup {b} /\ killed' = killed
        /\ crash' = [svc |-> p, ticket |-> ticket[b]]
    BY <1>5 DEF Panic
  <2>2. b \in Builds /\ svc[p].job = b
    BY <1>1, <2>1 DEF Owners
  <2>3. Has(p, b) /\ b \in Calls
    BY <1>1, <2>2 DEF Has
  <2>4. call[b].svc = p /\ ticket[b] >= 1
    BY <1>1, <2>3 DEF InPlace, Worked, Held
  <2>5. panicked' \subseteq Builds
    BY <1>1, <2>1, <2>2 DEF Values
  <2> HIDE DEF b
  <2>6. crash'.svc = p /\ crash'.ticket = ticket[b] /\ b \in panicked'
    BY <2>1
  <2>7. \A j \in panicked' \ panicked : call[j].svc = p /\ ticket[j] >= 1
    BY <2>1, <2>4
  <2>8. \E j \in panicked' : call[j].svc = p /\ ticket[j] = crash'.ticket
    BY <2>4, <2>6
  <2>9. killed \subseteq killed' /\ panicked \subseteq panicked'
    BY <2>1
  <2> QED BY <1>2, <1>3, <2>5, <2>6, <2>7, <2>8, <2>9, HangUpStep
<1> QED BY <1>4, <1>5

-----------------------------------------------------------------------------
(* The first states, the invariant and what follows from it *)

\* Process p may be serving already and run build b; nobody else has a service.
First(p, b) ==
  /\ \A q \in Services : svc[q].queue = << >> /\ svc[q].queued = 0
  /\ \A q \in Services : q # p \/ b = None =>
       svc[q].tickets = 0 /\ svc[q].owner = "recv" /\ svc[q].job = None /\ svc[q].active = None
  /\ b # None => /\ svc[p].pc = "serving" /\ svc[p].tickets = 1 /\ svc[p].owner = "build"
                 /\ svc[p].job = b /\ svc[p].active = b
  /\ \A i \in Calls :
       /\ call[i].outcome = "none" /\ call[i].svc = (IF i = b THEN p ELSE None)
       /\ i = b => call[i].pc = "await" /\ call[i].sent
       /\ i # b => call[i].pc \in {"probe", "startup", "done"} /\ ~call[i].sent
  /\ handler = [i \in Calls |-> IF i = b THEN "waiting" ELSE "none"]
  /\ ticket = [i \in Calls |-> IF i = b THEN 1 ELSE 0]
  /\ inbox = [i \in Calls |-> Nothing]
  /\ started = {b} \ {None} /\ canceled = {} /\ replies = {} /\ panicked = {} /\ killed = {}
  /\ crash.svc = None

\* A service that is up and, when there is a build b, runs it.
LEMMA RunningFields ==
  ASSUME NEW b \in Calls \cup {None}
  PROVE  /\ Fields(Unborn, "unborn", FALSE, TRUE, 0, 0, << >>, "recv", None, None)
         /\ b = None => Fields(Running(b), "serving", FALSE, TRUE, 0, 0, << >>, "recv", None, None)
         /\ b # None => Fields(Running(b), "serving", FALSE, TRUE, 0, 1, << >>, "build", b, b)
<1> DEFINE serving == [Unborn EXCEPT !.pc = "serving"]
<1>1. Fields(Unborn, "unborn", FALSE, TRUE, 0, 0, << >>, "recv", None, None)
  BY UnbornShape DEF Unborn, Fields
<1>2. Fields(serving, "serving", FALSE, TRUE, 0, 0, << >>, "recv", None, None)
  <2> DEFINE u == Unborn
  <2>1. u \in ServiceRecord /\ "serving" \in ServicePCs
    BY UnbornShape DEF ServicePCs
  <2> HIDE DEF u
  <2>2. Fields([u EXCEPT !.pc = "serving"], "serving", u.stop, u.open, u.queued, u.tickets, u.queue,
               u.owner, u.job, u.active)
    BY <2>1, WithPC
  <2>3. serving = [u EXCEPT !.pc = "serving"]
    BY DEF u
  <2> HIDE DEF serving
  <2> QED BY <1>1, <2>2, <2>3 DEF Fields, u
<1>3. Running(b) = IF b = None THEN serving
                   ELSE [serving EXCEPT !.tickets = 1, !.owner = "build", !.job = b, !.active = b]
  BY DEF Running, serving
<1> HIDE DEF serving
<1>4. b # None => Fields(Running(b), "serving", FALSE, TRUE, 0, 1, << >>, "build", b, b)
  <2> SUFFICES ASSUME b \in Calls
               PROVE  Fields([serving EXCEPT !.tickets = 1, !.owner = "build", !.job = b, !.active = b],
                             "serving", FALSE, TRUE, 0, 1, << >>, "build", b, b)
    BY <1>3
  <2> DEFINE r1 == [serving EXCEPT !.tickets = 1]
             r2 == [r1 EXCEPT !.owner = "build"]
             r3 == [r2 EXCEPT !.job = b]
             r4 == [r3 EXCEPT !.active = b]
  <2>1. Fields(r1, "serving", FALSE, TRUE, 0, 1, << >>, "recv", None, None)
    BY <1>2, WithTickets DEF Fields
  <2> HIDE DEF r1
  <2>2. Fields(r2, "serving", FALSE, TRUE, 0, 1, << >>, "build", None, None)
    BY <2>1, WithOwner DEF Fields, OwnerPCs
  <2> HIDE DEF r2
  <2>3. Fields(r3, "serving", FALSE, TRUE, 0, 1, << >>, "build", b, None)
    BY <2>2, WithJob DEF Fields
  <2> HIDE DEF r3
  <2>4. Fields(r4, "serving", FALSE, TRUE, 0, 1, << >>, "build", b, b)
    BY <2>3, WithActive DEF Fields
  <2> QED BY <2>4 DEF r1, r2, r3
<1> QED BY <1>1, <1>2, <1>3, <1>4

\* Every scenario begins that way.
LEMMA FirstState ==
  ASSUME Init
  PROVE  \E p \in Services, b \in Builds \cup {None} : First(p, b)
<1>1. PICK scenario \in Scenarios : InitOf(scenario)
  BY DEF Init
<1> DEFINE p == CHOOSE q \in Services : TRUE
           b == scenario.building
<1>2. b \in Builds \cup {None} /\ p \in Services
  BY DaemonAssumption
<1>3. b \in Calls \cup {None} /\ None \notin Calls
  BY <1>2, Constants
<1>4. \/ scenario.warm /\ svc = [Fresh EXCEPT ![p] = Running(b)]
      \/ ~scenario.warm /\ svc = Fresh /\ b = None
  <2>1. IF scenario.warm THEN svc = [Fresh EXCEPT ![p] = Running(b)] ELSE svc = Fresh
    BY <1>1, Zenon DEF InitOf
  <2>2. scenario.warm \in BOOLEAN /\ (~scenario.warm => b = None)
    BY DaemonAssumption
  <2> HIDE DEF p, b
  <2> QED BY <2>1, <2>2
<1> DEFINE first(i) == IF i = b THEN [Idle(i) EXCEPT !.pc = "await", !.svc = p, !.sent = TRUE]
                       ELSE IF i \in scenario.calls THEN Idle(i) ELSE [Idle(i) EXCEPT !.pc = "done"]
<1>9. \A i \in Calls :
         /\ first(i).outcome = "none" /\ first(i).svc = (IF i = b THEN p ELSE None)
         /\ i = b => first(i).pc = "await" /\ first(i).sent
         /\ i # b => first(i).pc \in {"probe", "startup", "done"} /\ ~first(i).sent
  <2> TAKE i \in Calls
  <2>1. Idle(i) \in CallRecord /\ Idle(i).pc \in {"probe", "startup"}
        /\ Idle(i).outcome = "none" /\ Idle(i).svc = None /\ Idle(i).sent = FALSE
    BY DEF Idle, CallRecord, CallPCs, Outcomes
  <2> HIDE DEF p, b
  <2> QED BY <1>2, <2>1 DEF CallRecord, CallPCs
<1>10. /\ call = [i \in Calls |-> first(i)]
       /\ handler = [i \in Calls |-> IF i = b THEN "waiting" ELSE "none"]
       /\ ticket = [i \in Calls |-> IF i = b THEN 1 ELSE 0]
       /\ started = {b} \ {None}
  BY <1>1, Zenon DEF InitOf
<1>11. /\ inbox = [i \in Calls |-> Nothing] /\ canceled = {} /\ replies = {} /\ panicked = {}
       /\ killed = {} /\ crash.svc = None
  BY DEF Init, Nothing
<1> HIDE DEF first, p, b
<1>12. \A q \in Services : svc[q] = IF scenario.warm /\ q = p THEN Running(b) ELSE Unborn
  BY <1>2, <1>4 DEF Fresh
<1>13. /\ \A q \in Services : svc[q].queue = << >> /\ svc[q].queued = 0
       /\ \A q \in Services : q # p \/ b = None =>
            svc[q].tickets = 0 /\ svc[q].owner = "recv" /\ svc[q].job = None /\ svc[q].active = None
  <2>1. Unborn.queue = << >> /\ Unborn.queued = 0 /\ Unborn.tickets = 0 /\ Unborn.owner = "recv"
        /\ Unborn.job = None /\ Unborn.active = None
    BY RunningFields DEF Fields
  <2>2. Running(b).queue = << >> /\ Running(b).queued = 0
    BY <1>3, RunningFields DEF Fields
  <2>3. b = None => Running(b).tickets = 0 /\ Running(b).owner = "recv"
                    /\ Running(b).job = None /\ Running(b).active = None
    BY <1>3, RunningFields DEF Fields
  <2> QED BY <1>12, <2>1, <2>2, <2>3
<1>14. b # None => /\ svc[p].pc = "serving" /\ svc[p].tickets = 1 /\ svc[p].owner = "build"
                   /\ svc[p].job = b /\ svc[p].active = b
  BY <1>2, <1>3, <1>4, <1>12, RunningFields DEF Fields
<1>15. First(p, b)
  BY <1>9, <1>10, <1>11, <1>13, <1>14 DEF First
<1> QED BY <1>2, <1>15

\* The initial states of every scenario satisfy the invariant.
LEMMA InitRequest == Init => RequestInv
<1> SUFFICES ASSUME Init PROVE RequestInv
  OBVIOUS
<1>1. PICK p \in Services, b \in Builds \cup {None} : First(p, b)
  BY FirstState
<1>2. /\ Calls = Builds \cup Stops /\ Builds \cap Stops = {} /\ None \notin Calls
      /\ None \notin Services
  BY Constants
<1>3. \A i \in Calls :
        /\ handler[i] = (IF i = b THEN "waiting" ELSE "none")
        /\ ticket[i] = (IF i = b THEN 1 ELSE 0)
        /\ inbox[i] = Nothing
        /\ call[i].outcome = "none" /\ call[i].svc = (IF i = b THEN p ELSE None)
        /\ i = b => call[i].pc = "await" /\ call[i].sent
        /\ i # b => call[i].pc \in {"probe", "startup", "done"} /\ ~call[i].sent
  BY <1>1 DEF First
<1>4. /\ started = {b} \ {None} /\ canceled = {} /\ replies = {} /\ panicked = {} /\ killed = {}
      /\ crash.svc = None
  BY <1>1 DEF First
<1>5. \A q \in Services :
        /\ svc[q].queue = << >> /\ svc[q].job = (IF q = p THEN b ELSE None)
        /\ svc[q].tickets = (IF q = p /\ b # None THEN 1 ELSE 0)
        /\ svc[q].owner = (IF q = p /\ b # None THEN "build" ELSE "recv")
        /\ svc[q].active = (IF q = p THEN b ELSE None)
  BY <1>1 DEF First
<1>6. Values
  <2>1. handler \in [Calls -> HandlerPCs] /\ inbox \in [Calls -> Frames] /\ ticket \in [Calls -> Nat]
    BY <1>1 DEF First, HandlerPCs, Frames
  <2> QED BY <1>4, <2>1 DEF Values
<1>7. Talks
  <2> SUFFICES ASSUME NEW i \in Calls PROVE Talk(i)
    BY DEF Talks
  <2> QED BY <1>1, <1>2, <1>3, FrameFacts DEF Talk, At, Done, Before, Live
<1>8. Served
  BY <1>1, <1>2, <1>3 DEF Served, Live, Listening, First
<1>9. Owners
  <2>1. << >> \in Seq(Builds)
    OBVIOUS
  <2> QED BY <1>1, <1>2, <1>5, <2>1 DEF Owners
<1>10. \A q \in Services, i \in Calls : Has(q, i) => i = b /\ q = p
  BY <1>2, <1>5 DEF Has
<1>11. InPlace
  BY <1>3, <1>10 DEF InPlace
<1>12. Worked
  BY <1>3, <1>4, <1>10, FrameFacts DEF Worked, Held
<1>13. Tickets
  BY <1>2, <1>3, <1>5 DEF Tickets
<1>14. Crashes
  BY <1>3, <1>4 DEF Crashes
<1>15. Ends
  BY <1>2, <1>3 DEF Ends, At
<1> QED
  BY <1>6, <1>7, <1>8, <1>9, <1>11, <1>12, <1>13, <1>14, <1>15 DEF RequestInv

\* Every step keeps the invariant.
LEMMA NextRequest == DaemonInv /\ RequestInv /\ [Next]_vars => RequestInv'
<1> SUFFICES ASSUME DaemonInv, RequestInv, [Next]_vars PROVE RequestInv'
  OBVIOUS
<1>1. CASE UNCHANGED vars
  <2>1. UNCHANGED <<svc, call, handler, inbox, ticket, canceled, replies, started, panicked, killed, cutoff, crash>>
    BY <1>1 DEF vars, files, requests, past
  <2>2. PICK p \in Services : TRUE
    BY DaemonAssumption
  <2>3. canceled' \subseteq Builds
    BY <2>1 DEF RequestInv, Values
  <2>4. \A q \in Services : SameWork(q)
    BY <2>1 DEF SameWork
  <2> QED BY <2>1, <2>2, <2>3, <2>4, PlaceStep DEF Listening
<1>2. CASE Next
  BY <1>2, CallStepRequest, HandlerStepRequest, LoopStepRequest, OwnerStepRequest, DeathRequest DEF Next
<1> QED BY <1>1, <1>2

\* The two invariants hold in every state of every behaviour.
LEMMA RequestInvHolds == Spec => [](DaemonInv /\ RequestInv)
  BY InitRequest, NextRequest, InvHolds, PTL DEF Spec

\* A client that compiles directly was refused, or never reached a service: its
\* build has not begun and never will, because only builds that hold a ticket are
\* queued, and a ticket is given after the last refusal.
THEOREM RefusedBuildsAreNotRun == Spec => []DirectMeansNoWork
<1>1. RequestInv => DirectMeansNoWork
  <2> SUFFICES ASSUME RequestInv, NEW i \in Builds, call[i].outcome = "direct", i \in started
               PROVE  FALSE
    BY DEF DirectMeansNoWork
  <2>1. i \in Calls /\ Held(i)
    BY Constants DEF Held
  <2> QED BY <2>1 DEF RequestInv, Worked
<1> QED BY <1>1, RequestInvHolds, PTL

\* An admitted build is answered unless its process is killed or panics, or its
\* client does not take a frame before RESPONSE_WRITE_TIMEOUT; and the
\* panic is blamed on the build it ended: the crash record is found by a ticket no
\* other request of the process has.
THEOREM AdmittedBuildsAreAnswered == Spec => []AdmittedIsAnswered
<1>1. RequestInv => AdmittedIsAnswered
  BY Constants DEF RequestInv, Ends, Crashes, AdmittedIsAnswered, Excused, Dead
<1> QED BY <1>1, RequestInvHolds, PTL

-----------------------------------------------------------------------------
(* What the counters count *)

\* The builds counted are finitely many.
LEMMA CountedSets ==
  ASSUME NEW p
  PROVE  /\ IsFiniteSet(Senders(p)) /\ Cardinality(Senders(p)) \in Nat
         /\ IsFiniteSet(Ticketed(p)) /\ Cardinality(Ticketed(p)) \in Nat
         /\ IsFiniteSet(Senders(p)') /\ Cardinality(Senders(p)') \in Nat
         /\ IsFiniteSet(Ticketed(p)') /\ Cardinality(Ticketed(p)') \in Nat
         /\ Cardinality(Ticketed(p)') <= Cardinality(Builds)
         /\ Cardinality(Builds) \in Nat
<1>1. /\ Senders(p) \in SUBSET Builds /\ Ticketed(p) \in SUBSET Builds
      /\ Senders(p)' \in SUBSET Builds /\ Ticketed(p)' \in SUBSET Builds
  BY DEF Senders, Ticketed
<1>2. IsFiniteSet(Builds)
  BY Constants
<1>3. /\ IsFiniteSet(Senders(p)) /\ IsFiniteSet(Ticketed(p))
      /\ IsFiniteSet(Senders(p)') /\ IsFiniteSet(Ticketed(p)')
      /\ Cardinality(Ticketed(p)') <= Cardinality(Builds)
  BY <1>1, <1>2, FS_Subset
<1> QED BY <1>2, <1>3, FS_CardinalityType

\* The counters of p, and the work they count, are left alone.
SameCount(p) ==
  /\ svc'[p].queued = svc[p].queued /\ svc'[p].tickets = svc[p].tickets
  /\ svc'[p].queue = svc[p].queue
  /\ svc'[p].owner = "turn" <=> svc[p].owner = "turn"

\* So they count what they did, when nobody else reserves or sends there.
LEMMA CountKept ==
  ASSUME NEW p \in Services, Counted(p), SameCount(p),
         Senders(p)' = Senders(p), Ticketed(p)' = Ticketed(p)
  PROVE  Counted(p)'
<1>1. AtTurn(p)' = AtTurn(p)
  BY DEF AtTurn, SameCount
<1> QED BY <1>1 DEF Counted, SameCount

\* A step in which nobody reserves or sends: every counter counts what it did.
LEMMA CountsKept ==
  ASSUME RequestInv, Counts, \A p \in Services : SameCount(p), ticket' = ticket,
         \A j \in Builds : \/ call'[j].svc = call[j].svc
                           \/ ticket[j] = 0 /\ handler[j] # "send",
         \A j \in Builds : handler'[j] = "send" <=> handler[j] = "send"
  PROVE  Counts'
<1>1. ASSUME NEW p \in Services PROVE Counted(p)'
  <2>1. \A j \in Builds : ticket[j] \in Nat
    BY Constants DEF RequestInv, Values
  <2>2. Senders(p)' = Senders(p)
    BY DEF Senders
  <2>3. Ticketed(p)' = Ticketed(p)
    BY <2>1 DEF Ticketed
  <2> QED BY <2>2, <2>3, CountKept DEF Counts
<1> QED BY <1>1 DEF Counts

\* An invocation neither reserves nor sends.
LEMMA CallStepCounts ==
  ASSUME DaemonInv, RequestInv, Counts, NEW i \in Calls, CallStep(i) \/ Timeout(i) \/ KillCall(i)
  PROVE  Counts'
<1>1. Shapes /\ Values /\ Talk(i) /\ Tickets
  BY DEF DaemonInv, RequestInv, Talks
<1>2. Calls = Builds \cup Stops /\ None \notin Services
  BY Constants
<1>3. Unavailable(i) \in Outcomes /\ {"failed", "direct", "not_running", "answered", "panicked", "lost",
                                      "stopped", "killed"} \subseteq Outcomes
  BY DEF Unavailable, Outcomes
<1>4. CASE Connect(i) /\ handler' # handler
  <2>1. /\ ticket' = ticket /\ svc' = svc /\ call[i].pc \in Before
        /\ call' = [call EXCEPT ![i].pc = "hello", ![i].svc = socket] /\ socket # None
        /\ handler' = [handler EXCEPT ![i] = "backlog"]
    BY <1>4 DEF Connect, requests, Before, At
  <2>2. handler[i] = "none" /\ ticket[i] = 0
    BY <1>1, <2>1 DEF Talk, Tickets
  <2>3. \A j \in Calls \ {i} : call'[j] = call[j]
    <3>1. socket \in Services
      BY <1>1, <2>1 DEF Shapes
    <3> QED BY <1>1, <2>1, <3>1, ConnectEffect DEF Proceeds
  <2>4. \A j \in Calls : handler'[j] = IF j = i THEN "backlog" ELSE handler[j]
    BY <1>1, <2>1 DEF Values
  <2>5. \A p \in Services : SameCount(p)
    BY <2>1 DEF SameCount
  <2>6. \A j \in Builds : \/ call'[j].svc = call[j].svc
                          \/ ticket[j] = 0 /\ handler[j] # "send"
    BY <1>2, <2>2, <2>3
  <2>7. \A j \in Builds : handler'[j] = "send" <=> handler[j] = "send"
    BY <1>2, <2>2, <2>4
  <2> QED BY <2>1, <2>5, <2>6, <2>7, CountsKept
<1>5. CASE handler' = handler /\ \A p \in Services : SameCount(p)
  <2>1. ticket' = ticket
    BY DEF CallStep, TakeStartup, Connect, TryService, Absent, ClearStale, Launch, Welcomed, Submit,
           Admission, Await, Acknowledged, Released, Stopped, Timeout, KillCall, requests
  <2>2. \A j \in Calls : call'[j].svc = call[j].svc
    <3>1. CASE \E to \in CallPCs : call' = Goto(i, to)
      BY <1>1, <3>1, GotoEffect DEF Proceeds
    <3>2. CASE \E how \in Outcomes : Finish(i, how)
      BY <1>1, <3>2, FinishEffect DEF Proceeds
    <3>3. CASE call' = [call EXCEPT ![i].pc = "sent", ![i].sent = TRUE]
      BY <1>1, <3>3, SubmitEffect DEF Proceeds
    <3>4. CASE Launch(i)
      <4> DEFINE left == {q \in Services : svc[q].pc = "unborn"}
                 p == CHOOSE q \in left : TRUE
      <4>1. CASE left # {} /\ call' = [call EXCEPT ![i].pc = "poll", ![i].launched = p]
        <5>1. p \in Services
          BY <4>1
        <5> HIDE DEF p
        <5> QED BY <1>1, <4>1, <5>1, LaunchedEffect DEF Proceeds
      <4>2. CASE Finish(i, "direct")
        BY <1>3, <3>2, <4>2
      <4> QED BY <3>4, <4>1, <4>2 DEF Launch
    <3>5. CASE Connect(i)
      <4>1. call' = Goto(i, "try") \/ handler' = [handler EXCEPT ![i] = "backlog"]
        BY <3>5 DEF Connect
      <4>2. call[i].pc \in Before
        BY <3>5 DEF Connect, At, Before
      <4>3. handler' # [handler EXCEPT ![i] = "backlog"]
        <5>1. handler[i] = "none"
          BY <1>1, <4>2 DEF Talk
        <5> QED BY <1>1, <1>5, <5>1 DEF Values
      <4> QED BY <3>1, <4>1, <4>3 DEF CallPCs
    <3>6. CASE TakeStartup(i) \/ TryService(i) \/ ClearStale(i) \/ Released(i)
      BY <3>1, <3>6 DEF TakeStartup, TryService, ClearStale, Released, CallPCs
    <3>7. CASE Absent(i) \/ Welcomed(i) \/ Acknowledged(i)
      BY <1>3, <3>1, <3>2, <3>7 DEF Absent, Welcomed, Acknowledged, CallPCs
    <3>8. CASE Submit(i)
      BY <1>3, <3>2, <3>3, <3>8 DEF Submit
    <3>9. CASE Admission(i) \/ Await(i) \/ Stopped(i) \/ Timeout(i) \/ KillCall(i)
      BY <1>3, <3>1, <3>2, <3>9 DEF Admission, LostSubmission, Await, Stopped, Timeout, KillCall, CallPCs
    <3> QED BY <3>4, <3>5, <3>6, <3>7, <3>8, <3>9 DEF CallStep
  <2> QED BY <1>2, <1>5, <2>1, <2>2, CountsKept
<1>6. CASE ~(Connect(i) /\ handler' # handler)
  <2>1. handler' = handler
    BY <1>6 DEF CallStep, TakeStartup, Connect, TryService, Absent, ClearStale, Launch, Welcomed, Submit,
           Admission, Await, Acknowledged, Released, Stopped, Timeout, KillCall
  <2>2. CASE Launch(i)
    <3> DEFINE left == {q \in Services : svc[q].pc = "unborn"}
               p == CHOOSE q \in left : TRUE
    <3>1. CASE left # {} /\ svc' = [svc EXCEPT ![p].pc = "launched"]
      <4>1. p \in Services
        BY <3>1
      <4> HIDE DEF p
      <4>2. \A q \in Services : SameCount(q)
        BY <1>1, <3>1, <4>1, LaunchEffect DEF Becomes, SameCount
      <4> QED BY <1>5, <2>1, <4>2
    <3>2. CASE svc' = svc
      BY <1>5, <2>1, <3>2 DEF SameCount
    <3> QED BY <2>2, <3>1, <3>2 DEF Launch
  <2>3. CASE ~Launch(i)
    <3>1. svc' = svc
      BY <2>3 DEF CallStep, TakeStartup, Connect, TryService, Absent, ClearStale, Welcomed, Submit,
             Admission, Await, Acknowledged, Released, Stopped, Timeout, KillCall, files
    <3> QED BY <1>5, <2>1, <3>1 DEF SameCount
  <2> QED BY <2>2, <2>3
<1> QED BY <1>4, <1>6

\* A place is reserved before it is used, and never more than there are.
LEMMA ReserveCounts ==
  ASSUME DaemonInv, RequestInv, Counts, NEW i \in Calls, Reserve(i)
  PROVE  Counts'
<1>1. Shapes /\ Values /\ Talk(i) /\ Tickets /\ Served /\ handler[i] = "reserve"
  BY DEF DaemonInv, RequestInv, Talks, Reserve
<1>2. i \in Builds /\ Calls = Builds \cup Stops /\ ticket[i] = 0
  BY <1>1, Constants DEF Talk, Tickets
<1>3. PICK p \in Services : p = call[i].svc
  BY <1>1 DEF Talk, Shapes, CallRecord
<1>4. call' = call
  BY DEF Reserve
<1>5. CASE /\ svc[p].queued < MaxQueued
           /\ svc' = [svc EXCEPT ![p].queued = @ + 1, ![p].tickets = @ + 1]
           /\ ticket' = [ticket EXCEPT ![i] = svc[p].tickets + 1]
           /\ handler' = Handler(i, "send")
  <2>1. /\ svc'[p].queued = svc[p].queued + 1 /\ svc'[p].tickets = svc[p].tickets + 1
        /\ svc'[p].queue = svc[p].queue /\ svc'[p].owner = svc[p].owner
        /\ \A q \in Services \ {p} : svc'[q] = svc[q]
    <3>1. Becomes(p, svc[p].pc, svc[p].stop, svc[p].open, svc[p].queued + 1, svc[p].tickets + 1,
                  svc[p].queue, svc[p].owner, svc[p].job, svc[p].active)
      BY <1>1, <1>3, <1>5, ReserveEffect
    <3> QED BY <3>1 DEF Becomes
  <2>2. /\ svc[p].tickets \in Nat /\ svc[p].queued \in Int /\ Len(svc[p].queue) \in Nat
        /\ MaxQueued \in Nat
    BY <1>1, <1>3, DaemonAssumption DEF Shapes, ServiceRecord, Tickets
  <2>3. /\ \A j \in Calls : handler'[j] = IF j = i THEN "send" ELSE handler[j]
        /\ \A j \in Calls : ticket'[j] = IF j = i THEN svc[p].tickets + 1 ELSE ticket[j]
    BY <1>1, <1>5 DEF Handler, Values
  <2>4. Senders(p)' = Senders(p) \cup {i} /\ i \notin Senders(p)
    BY <1>3, <1>1, <1>2, <1>4, <2>3 DEF Senders
  <2>5. Ticketed(p)' = Ticketed(p) \cup {i} /\ i \notin Ticketed(p)
    BY <1>3, <1>1, <1>2, <1>4, <2>2, <2>3 DEF Ticketed
  <2>6. /\ Cardinality(Senders(p)') = Cardinality(Senders(p)) + 1
        /\ Cardinality(Ticketed(p)') = Cardinality(Ticketed(p)) + 1
    BY <2>4, <2>5, CountedSets, FS_AddElement
  <2>7. /\ svc[p].queued = Len(svc[p].queue) + AtTurn(p) + Cardinality(Senders(p))
        /\ svc[p].tickets <= Cardinality(Ticketed(p))
    BY <1>3 DEF Counts, Counted
  <2>8. /\ Cardinality(Senders(p)) \in Nat /\ Cardinality(Ticketed(p)) \in Nat
        /\ Cardinality(Ticketed(p)') \in Nat /\ Cardinality(Builds) \in Nat
        /\ Cardinality(Ticketed(p)') <= Cardinality(Builds)
    BY CountedSets
  <2>9. AtTurn(p)' = AtTurn(p) /\ AtTurn(p) \in Nat
    BY <2>1 DEF AtTurn
  <2>10. svc[p].tickets + 1 <= Cardinality(Ticketed(p)')
    <3> DEFINE n == Cardinality(Ticketed(p))
               m == svc[p].tickets
    <3>1. n \in Nat /\ m \in Nat /\ m <= n /\ Cardinality(Ticketed(p)') = n + 1
      BY <2>2, <2>6, <2>7, <2>8
    <3> HIDE DEF n, m
    <3>2. m + 1 <= n + 1
      BY <3>1
    <3> QED BY <3>1, <3>2 DEF m
  <2>11. /\ svc[p].queued + 1 = Len(svc[p].queue) + AtTurn(p) + Cardinality(Senders(p)')
         /\ svc[p].queued + 1 <= MaxQueued
    <3> DEFINE n == Cardinality(Senders(p))
               l == Len(svc[p].queue)
               a == AtTurn(p)
               m == svc[p].queued
    <3>1. /\ n \in Nat /\ l \in Nat /\ a \in Nat /\ m = l + a + n /\ MaxQueued \in Nat
          /\ Cardinality(Senders(p)') = n + 1
      BY <2>2, <2>6, <2>7, <2>8, <2>9
    <3>2. m < MaxQueued
      BY <1>5
    <3> HIDE DEF n, l, a, m
    <3>3. m + 1 = l + a + (n + 1) /\ m + 1 <= MaxQueued
      BY <3>1, <3>2
    <3> QED BY <3>1, <3>3 DEF l, a, m
  <2>12. Counted(p)'
    BY <2>1, <2>9, <2>10, <2>11 DEF Counted
  <2>13. ASSUME NEW q \in Services, q # p PROVE Counted(q)'
    <3>1. Senders(q)' = Senders(q) /\ Ticketed(q)' = Ticketed(q)
      BY <1>3, <1>2, <1>4, <2>3, <2>13 DEF Senders, Ticketed
    <3>2. SameCount(q)
      BY <2>1, <2>13 DEF SameCount
    <3> QED BY <3>1, <3>2, CountKept DEF Counts
  <2>14. svc[p].tickets + 1 <= Cardinality(Builds)
    BY <2>2, <2>8, <2>10
  <2> QED BY <2>3, <2>12, <2>13, <2>14 DEF Counts
<1>6. CASE svc' = svc /\ ticket' = ticket /\ handler' = Handler(i, "closed")
  <2>1. \A j \in Calls : handler'[j] = IF j = i THEN "closed" ELSE handler[j]
    BY <1>1, <1>6 DEF Handler, Values
  <2> QED BY <1>1, <1>2, <1>4, <1>6, <2>1, CountsKept DEF SameCount
<1> QED BY <1>3, <1>5, <1>6 DEF Reserve, Refuse

\* What is sent holds the place that was reserved for it.
LEMMA SendCounts ==
  ASSUME DaemonInv, RequestInv, Counts, NEW i \in Calls, Send(i)
  PROVE  Counts'
<1>1. Shapes /\ Values /\ Talk(i) /\ Tickets /\ Owners /\ handler[i] = "send"
  BY DEF DaemonInv, RequestInv, Talks, Send
<1>2. i \in Builds /\ Calls = Builds \cup Stops
  BY <1>1, Constants DEF Talk, Tickets
<1>3. PICK p \in Services : p = call[i].svc
  BY <1>1 DEF Talk, Shapes, CallRecord
<1>4. call' = call /\ ticket' = ticket /\ handler' = Handler(i, "accept")
  BY DEF Send, requests
<1>5. /\ svc'[p].queued = svc[p].queued /\ svc'[p].tickets = svc[p].tickets
      /\ svc'[p].queue = Append(svc[p].queue, i) /\ svc'[p].owner = svc[p].owner
      /\ \A q \in Services \ {p} : svc'[q] = svc[q]
  BY <1>1, <1>3, SendEffect DEF Becomes
<1>6. \A j \in Calls : handler'[j] = IF j = i THEN "accept" ELSE handler[j]
  BY <1>1, <1>4 DEF Handler, Values
<1>7. Senders(p)' = Senders(p) \ {i} /\ i \in Senders(p) /\ Ticketed(p)' = Ticketed(p)
  BY <1>3, <1>1, <1>2, <1>4, <1>6 DEF Senders, Ticketed
<1>8. Cardinality(Senders(p)') = Cardinality(Senders(p)) - 1
  BY <1>7, CountedSets, FS_RemoveElement
<1>9. Len(svc'[p].queue) = Len(svc[p].queue) + 1 /\ Len(svc[p].queue) \in Nat
  <2>1. ASSUME NEW z \in Seq(Builds) PROVE Len(Append(z, i)) = Len(z) + 1 /\ Len(z) \in Nat
    BY <1>2
  <2> QED BY <1>1, <1>3, <1>5, <2>1 DEF Owners
<1>10. AtTurn(p)' = AtTurn(p) /\ AtTurn(p) \in Nat
  BY <1>5 DEF AtTurn
<1>11. Counted(p)'
  <2>1. /\ svc[p].queued = Len(svc[p].queue) + AtTurn(p) + Cardinality(Senders(p))
        /\ svc[p].queued <= MaxQueued /\ svc[p].tickets <= Cardinality(Ticketed(p))
    BY <1>3 DEF Counts, Counted
  <2>2. Cardinality(Senders(p)) \in Nat
    BY CountedSets
  <2>3. svc[p].queued = Len(svc'[p].queue) + AtTurn(p) + Cardinality(Senders(p)')
    <3> DEFINE n == Cardinality(Senders(p))
               l == Len(svc[p].queue)
               a == AtTurn(p)
    <3>1. /\ n \in Nat /\ l \in Nat /\ a \in Nat /\ svc[p].queued = l + a + n
          /\ Cardinality(Senders(p)') = n - 1 /\ Len(svc'[p].queue) = l + 1
      BY <1>8, <1>9, <1>10, <2>1, <2>2
    <3> HIDE DEF n, l, a
    <3>2. l + a + n = (l + 1) + a + (n - 1)
      BY <3>1
    <3> QED BY <3>1, <3>2 DEF a
  <2> QED BY <1>5, <1>7, <1>10, <2>1, <2>3 DEF Counted
<1>12. ASSUME NEW q \in Services, q # p PROVE Counted(q)'
  <2>1. Senders(q)' = Senders(q) /\ Ticketed(q)' = Ticketed(q)
    BY <1>3, <1>2, <1>4, <1>6, <1>12 DEF Senders, Ticketed
  <2>2. SameCount(q)
    BY <1>5, <1>12 DEF SameCount
  <2> QED BY <2>1, <2>2, CountKept DEF Counts
<1> QED BY <1>4, <1>11, <1>12 DEF Counts

\* The other steps of a handler neither reserve nor send.
LEMMA HandlerStepCounts ==
  ASSUME DaemonInv, RequestInv, Counts, NEW i \in Calls, HandlerStep(i) \/ SilentClient(i)
  PROVE  Counts'
<1>1. Shapes /\ Values /\ Talk(i) /\ Calls = Builds \cup Stops
  BY Constants DEF DaemonInv, RequestInv, Talks
<1>2. ASSUME call' = call, ticket' = ticket, handler[i] # "send", NEW to \in HandlerPCs \ {"send"},
             handler' = Handler(i, to) \/ handler' = handler,
             \A p \in Services : SameCount(p)
      PROVE  Counts'
  <2>1. \A j \in Calls : handler'[j] = "send" <=> handler[j] = "send"
    BY <1>1, <1>2 DEF Handler, Values
  <2> QED BY <1>1, <1>2, <2>1, CountsKept
<1>3. svc' = svc => \A p \in Services : SameCount(p)
  BY DEF SameCount
<1>4. CASE Reserve(i) \/ Send(i)
  BY <1>4, ReserveCounts, SendCounts
<1>5. CASE ReadRequest(i) \/ SilentClient(i) \/ Admit(i) \/ WriteAccepted(i) \/ Watch(i) \/ Relay(i)
  <2>1. /\ call' = call /\ ticket' = ticket /\ svc' = svc /\ handler[i] # "send"
        /\ \E to \in HandlerPCs \ {"send"} : handler' = Handler(i, to) \/ handler' = handler
    BY <1>5 DEF ReadRequest, SilentClient, Admit, Refuse, WriteAccepted, Watch, Relay, requests,
                HandlerPCs
  <2> QED BY <1>2, <1>3, <2>1
<1>6. CASE StopService(i)
  <2> DEFINE p == call[i].svc
  <2>1. call' = call /\ ticket' = ticket /\ handler[i] = "stop" /\ handler' = Handler(i, "closed")
    BY <1>6 DEF StopService
  <2>2. p \in Services
    BY <1>1, <2>1 DEF Talk, Shapes, CallRecord
  <2>3. \A q \in Services : SameCount(q)
    BY <1>1, <1>6, <2>2, StopEffect DEF Becomes, SameCount
  <2> QED BY <1>2, <2>1, <2>3 DEF HandlerPCs
<1> QED BY <1>4, <1>5, <1>6 DEF HandlerStep

\* The owner gives a place back when it takes its turn, and not before.
LEMMA OwnerStepCounts ==
  ASSUME DaemonInv, RequestInv, Counts, NEW p \in Services, OwnerStep(p)
  PROVE  Counts'
<1>1. Shapes /\ Values /\ Owners /\ Calls = Builds \cup Stops
  BY Constants DEF DaemonInv, RequestInv
<1>2. call' = call /\ ticket' = ticket /\ handler' = handler
  BY DEF OwnerStep, Receive, Turn, SetActive, BuildEnds, requests
<1>3. CASE SetActive(p)
  <2>1. \A q \in Services : SameCount(q)
    BY <1>1, <1>3, SetActiveEffect DEF Becomes, SameCount, SetActive
  <2> QED BY <1>1, <1>2, <2>1, CountsKept
<1>4. CASE BuildEnds(p)
  <2>1. \A q \in Services : SameCount(q)
    <3>1. svc[p].owner = "build"
      BY <1>4 DEF BuildEnds
    <3>2. /\ svc'[p].queued = svc[p].queued /\ svc'[p].tickets = svc[p].tickets
          /\ svc'[p].queue = svc[p].queue /\ svc'[p].owner = "recv"
          /\ \A q \in Services \ {p} : svc'[q] = svc[q]
      BY <1>1, <1>4, BuildEndsEffect DEF Becomes
    <3> QED BY <3>1, <3>2 DEF SameCount
  <2> QED BY <1>1, <1>2, <2>1, CountsKept
<1>5. \A q \in Services : Senders(q)' = Senders(q) /\ Ticketed(q)' = Ticketed(q)
  BY <1>2 DEF Senders, Ticketed
<1>6. ASSUME \A q \in Services \ {p} : svc'[q] = svc[q], Counted(p)'
      PROVE  Counts'
  <2>1. ASSUME NEW q \in Services, q # p PROVE Counted(q)'
    <3>1. SameCount(q)
      BY <1>6, <2>1 DEF SameCount
    <3> QED BY <1>5, <3>1, CountKept DEF Counts
  <2> QED BY <1>2, <1>6, <2>1 DEF Counts
<1> DEFINE n == Cardinality(Senders(p))
           l == Len(svc[p].queue)
<1>7. /\ svc[p].queued = l + AtTurn(p) + n /\ n \in Nat /\ l \in Nat
      /\ svc[p].queued <= MaxQueued /\ svc[p].tickets <= Cardinality(Ticketed(p))
  <2>1. Counted(p) /\ n \in Nat
    BY CountedSets DEF Counts
  <2>2. l \in Nat
    BY <1>1 DEF Owners
  <2> QED BY <2>1, <2>2 DEF Counted
<1>8. CASE Receive(p)
  <2>1. /\ svc'[p].queued = svc[p].queued /\ svc'[p].tickets = svc[p].tickets
        /\ svc'[p].queue = Tail(svc[p].queue) /\ svc'[p].owner = "turn"
        /\ \A q \in Services \ {p} : svc'[q] = svc[q]
    BY <1>1, <1>8, ReceiveEffect DEF Becomes
  <2>2. svc[p].owner = "recv" /\ svc[p].queue # << >>
    BY <1>8 DEF Receive
  <2>3. Len(svc'[p].queue) = l - 1
    <3>1. ASSUME NEW z \in Seq(Builds), z # << >> PROVE Len(Tail(z)) = Len(z) - 1
      BY <3>1
    <3> QED BY <1>1, <2>1, <2>2, <3>1 DEF Owners
  <2>4. AtTurn(p) = 0 /\ AtTurn(p)' = 1
    BY <2>1, <2>2 DEF AtTurn
  <2> HIDE DEF n, l
  <2>5. l + 0 + n = (l - 1) + 1 + n
    BY <1>7
  <2>6. Counted(p)'
    BY <1>5, <1>7, <2>1, <2>3, <2>4, <2>5 DEF Counted, n
  <2> QED BY <1>6, <2>1, <2>6
<1>9. CASE Turn(p)
  <2>1. /\ svc'[p].queued = svc[p].queued - 1 /\ svc'[p].tickets = svc[p].tickets
        /\ svc'[p].queue = svc[p].queue /\ svc'[p].owner # "turn"
        /\ \A q \in Services \ {p} : svc'[q] = svc[q]
    BY <1>1, <1>9, SkipEffect, StartEffect DEF Becomes
  <2>2. AtTurn(p) = 1 /\ AtTurn(p)' = 0
    BY <1>9, <2>1 DEF AtTurn, Turn
  <2>3. l = Len(svc'[p].queue)
    BY <2>1
  <2> HIDE DEF n, l
  <2>4. (l + 1 + n) - 1 = l + 0 + n /\ MaxQueued \in Nat
    BY <1>7, DaemonAssumption
  <2>5. svc'[p].queued = l + 0 + n /\ svc'[p].queued <= MaxQueued
    BY <1>7, <2>1, <2>2, <2>4
  <2>6. Counted(p)'
    BY <1>5, <1>7, <2>1, <2>2, <2>3, <2>5 DEF Counted, n
  <2> QED BY <1>6, <2>1, <2>6
<1> QED BY <1>3, <1>4, <1>8, <1>9 DEF OwnerStep

\* A service whose connections are closed, by its end or its death, has no
\* handler that sends, and one that dies has nothing queued.
LEMMA HangUpCounts ==
  ASSUME DaemonInv, RequestInv, Counts, NEW p \in Services,
         CloseListener(p) \/ Panic(p) \/ KillService(p)
  PROVE  Counts'
<1>1. Shapes /\ Values /\ Owners /\ Calls = Builds \cup Stops
  BY Constants DEF DaemonInv, RequestInv
<1>2. /\ call' = call /\ ticket' = ticket
      /\ handler' = [i \in Calls |-> IF call[i].svc = p THEN "closed" ELSE handler[i]]
  BY DEF CloseListener, Panic, KillService, Dies, requests
<1>3. \A q \in Services \ {p} : svc'[q] = svc[q]
  <2>1. CASE CloseListener(p)
    BY <1>1, <2>1, CloseListenerEffect DEF Becomes
  <2>2. CASE Panic(p) \/ KillService(p)
    <3>1. Dies(p)
      BY <2>2 DEF Panic, KillService
    <3> QED BY <1>1, <3>1, DiesEffect DEF Becomes
  <2> QED BY <2>1, <2>2
<1>4. ASSUME NEW q \in Services, q # p PROVE Counted(q)'
  <2>1. Senders(q)' = Senders(q) /\ Ticketed(q)' = Ticketed(q)
    BY <1>1, <1>2, <1>4 DEF Senders, Ticketed
  <2>2. SameCount(q)
    BY <1>3, <1>4 DEF SameCount
  <2> QED BY <2>1, <2>2, CountKept DEF Counts
<1>5. Senders(p)' = {} /\ Ticketed(p)' = Ticketed(p)
  BY <1>1, <1>2 DEF Senders, Ticketed
<1>6. Counted(p)'
  <2>1. CASE CloseListener(p)
    <3>1. SameCount(p)
      BY <1>1, <2>1, CloseListenerEffect DEF Becomes, SameCount
    <3>2. Senders(p) = {}
      BY <1>1, <2>1 DEF CloseListener, Drained, Connections, Senders
    <3> QED BY <1>5, <3>1, <3>2, CountKept DEF Counts
  <2>2. CASE Panic(p) \/ KillService(p)
    <3>1. Dies(p)
      BY <2>2 DEF Panic, KillService
    <3>2. /\ svc'[p].queued = 0 /\ svc'[p].tickets = 0 /\ svc'[p].queue = << >>
          /\ svc'[p].owner = "recv"
      BY <1>1, <3>1, DiesEffect DEF Becomes
    <3>3. AtTurn(p)' = 0 /\ Len(svc'[p].queue) = 0
      BY <3>2 DEF AtTurn
    <3>4. Cardinality(Senders(p)') = 0 /\ 0 <= MaxQueued /\ 0 <= Cardinality(Ticketed(p)')
      BY <1>5, FS_EmptySet, CountedSets, DaemonAssumption
    <3> QED BY <3>2, <3>3, <3>4 DEF Counted
  <2> QED BY <2>1, <2>2
<1> QED BY <1>2, <1>4, <1>6 DEF Counts

\* The other steps of the accept loop touch no counter.
LEMMA LoopStepCounts ==
  ASSUME DaemonInv, RequestInv, Counts, NEW p \in Services, LoopStep(p)
  PROVE  Counts'
<1>1. Shapes /\ Values /\ Calls = Builds \cup Stops
  BY Constants DEF DaemonInv, RequestInv
<1>2. CASE CloseListener(p)
  BY <1>2, HangUpCounts
<1>3. CASE Accept(p)
  <2>1. PICK i \in Calls, to \in {"request", "closed"} :
          handler[i] = "backlog" /\ handler' = [handler EXCEPT ![i] = to]
    BY <1>3 DEF Accept, Welcomes
  <2>2. svc' = svc /\ call' = call /\ ticket' = ticket
    BY <1>3 DEF Accept, requests
  <2>3. \A j \in Builds : handler'[j] = "send" <=> handler[j] = "send"
    BY <1>1, <2>1 DEF Values
  <2> QED BY <2>2, <2>3, CountsKept DEF SameCount
<1>4. CASE LockService(p) \/ Bind(p) \/ Leave(p) \/ CloseJobs(p) \/ Exit(p)
  <2>1. handler' = handler /\ call' = call /\ ticket' = ticket
    BY <1>4 DEF LockService, Bind, Leave, CloseJobs, Exit, requests
  <2>2. CASE LockService(p)
    <3>1. \A q \in Services : SameCount(q)
      BY <1>1, <2>2, LockedEffect, RefusedEffect DEF Becomes, SameCount
    <3> QED BY <2>1, <3>1, CountsKept
  <2>3. CASE Bind(p)
    <3>1. \A q \in Services : SameCount(q)
      BY <1>1, <2>3, BindEffect DEF Becomes, SameCount
    <3> QED BY <2>1, <3>1, CountsKept
  <2>4. CASE Leave(p)
    <3>1. \A q \in Services : SameCount(q)
      BY <1>1, <2>4, LeaveEffect DEF Becomes, SameCount
    <3> QED BY <2>1, <3>1, CountsKept
  <2>5. CASE CloseJobs(p)
    <3>1. \A q \in Services : SameCount(q)
      BY <1>1, <2>5, CloseJobsEffect DEF Becomes, SameCount
    <3> QED BY <2>1, <3>1, CountsKept
  <2>6. CASE Exit(p)
    <3>1. \A q \in Services : SameCount(q)
      BY <1>1, <2>6, ExitEffect DEF Becomes, SameCount
    <3> QED BY <2>1, <3>1, CountsKept
  <2> QED BY <1>4, <2>2, <2>3, <2>4, <2>5, <2>6
<1> QED BY <1>2, <1>3, <1>4 DEF LoopStep

\* The initial states: a build that runs has the one ticket.
LEMMA InitCounts == Init => Counts /\ Holders
<1> SUFFICES ASSUME Init PROVE Counts /\ Holders
  OBVIOUS
<1>1. PICK p \in Services, b \in Builds \cup {None} : First(p, b)
  BY FirstState
<1>2. Calls = Builds \cup Stops /\ None \notin Calls /\ MaxQueued \in Nat
  BY Constants, DaemonAssumption
<1>3. \A i \in Calls : /\ handler[i] # "send" /\ ticket[i] = (IF i = b THEN 1 ELSE 0)
                       /\ call[i].svc = IF i = b THEN p ELSE None
  BY <1>1 DEF First
<1>4. \A q \in Services :
        /\ svc[q].queue = << >> /\ svc[q].queued = 0 /\ svc[q].owner # "turn"
        /\ svc[q].tickets = (IF q = p /\ b # None THEN 1 ELSE 0)
  BY <1>1 DEF First
<1>5. b \in Builds => 1 <= Cardinality(Ticketed(p)) /\ 1 <= Cardinality(Builds)
  <2> SUFFICES ASSUME b \in Builds
               PROVE  1 <= Cardinality(Ticketed(p)) /\ 1 <= Cardinality(Builds)
    OBVIOUS
  <2>1. b \in Ticketed(p)
    BY <1>2, <1>3 DEF Ticketed
  <2>2. /\ IsFiniteSet(Ticketed(p)) /\ Ticketed(p) # {} /\ Cardinality(Ticketed(p)) \in Nat
        /\ IsFiniteSet(Builds) /\ Builds # {} /\ Cardinality(Builds) \in Nat
    BY <2>1, CountedSets, Constants
  <2>3. Cardinality(Ticketed(p)) # 0 /\ Cardinality(Builds) # 0
    BY <2>2, FS_EmptySet
  <2> DEFINE n == Cardinality(Ticketed(p))
             m == Cardinality(Builds)
  <2>4. n \in Nat /\ n # 0 /\ m \in Nat /\ m # 0
    BY <2>2, <2>3
  <2> HIDE DEF n, m
  <2>5. 1 <= n /\ 1 <= m
    BY <2>4
  <2> QED BY <2>5 DEF n, m
<1>6. ASSUME NEW q \in Services PROVE Counted(q)
  <2>1. Senders(q) = {}
    BY <1>2, <1>3 DEF Senders
  <2>2. Cardinality(Senders(q)) = 0 /\ AtTurn(q) = 0 /\ Len(svc[q].queue) = 0
    BY <1>4, <2>1, FS_EmptySet DEF AtTurn
  <2>3. 0 <= Cardinality(Ticketed(q))
    BY CountedSets
  <2>4. svc[q].tickets <= Cardinality(Ticketed(q))
    BY <1>4, <1>5, <2>3
  <2> QED BY <1>2, <1>4, <2>2, <2>4 DEF Counted
<1>7. \A i \in Calls : ticket[i] <= Cardinality(Builds)
  <2>1. 0 <= Cardinality(Builds)
    BY CountedSets
  <2> QED BY <1>1, <1>2, <1>3, <1>5, <2>1
<1>8. Holders
  <2>1. PICK scenario \in Scenarios : InitOf(scenario)
    BY DEF Init
  <2> DEFINE first == CHOOSE q \in Services : TRUE
  <2>2. lock = IF scenario.warm THEN first ELSE None
    BY <2>1, Zenon DEF InitOf
  <2>3. launches = scenario.launches /\ faults = scenario.faults
    BY <2>1, Zenon DEF InitOf
  <2>4. first \in Services /\ scenario.launches \in Nat /\ scenario.faults \in Nat
    BY DaemonAssumption
  <2> HIDE DEF first
  <2>5. startup = None
    BY DEF Init
  <2> QED BY <2>2, <2>3, <2>4, <2>5 DEF Holders
<1> QED BY <1>6, <1>7, <1>8 DEF Counts

\* Only a build takes startup.lock, and only an invocation or a service the other.
LEMMA NextHolders == StartInv /\ Holders /\ [Next]_vars => Holders'
<1> SUFFICES ASSUME StartInv, Holders, [Next]_vars PROVE Holders'
  OBVIOUS
<1>1. CASE UNCHANGED vars
  BY <1>1 DEF vars, files, bounds, Holders
<1>2. ASSUME NEW i \in Calls, CallStep(i) \/ Timeout(i) \/ KillCall(i)
      PROVE  Holders'
  <2>1. At(i, "startup") => i \in Builds
    BY DEF StartInv, StartsAlone, At, Calls
  <2>2. startup' \in Builds \cup {None}
    BY <1>2, <2>1 DEF CallStep, TakeStartup, Connect, TryService, Absent, ClearStale, Launch, Welcomed,
       Submit, Admission, Await, Acknowledged, Released, Stopped, Timeout, KillCall, Finish, files, Holders
  <2>3. lock' \in Calls \cup Services \cup {None}
    BY <1>2 DEF CallStep, TakeStartup, Connect, TryService, Absent, ClearStale, Launch, Welcomed,
       Submit, Admission, Await, Acknowledged, Released, Stopped, Timeout, KillCall, Finish, files, Holders
  <2>4. faults' \in Nat
    BY <1>2 DEF CallStep, TakeStartup, Connect, TryService, Absent, ClearStale, Launch, Welcomed,
       Submit, Admission, Await, Acknowledged, Released, Stopped, Timeout, KillCall, bounds, Holders
  <2>5. launches' \in Nat
    <3>1. CASE Launch(i)
      BY <3>1 DEF Launch, Holders
    <3>2. CASE ~Launch(i)
      BY <1>2, <3>2 DEF CallStep, TakeStartup, Connect, TryService, Absent, ClearStale, Welcomed,
         Submit, Admission, Await, Acknowledged, Released, Stopped, Timeout, KillCall, bounds, Holders
    <3> QED BY <3>1, <3>2
  <2> QED BY <2>2, <2>3, <2>4, <2>5 DEF Holders
<1>3. ASSUME NEW i \in Calls, HandlerStep(i) \/ SilentClient(i)
      PROVE  Holders'
  BY <1>3 DEF HandlerStep, ReadRequest, StopService, Admit, Reserve, Send, WriteAccepted, Watch, Relay,
              SilentClient, files, bounds, Holders
<1>4. ASSUME NEW p \in Services, LoopStep(p) \/ OwnerStep(p)
      PROVE  Holders'
  <2>1. startup' = startup /\ launches' = launches /\ faults' = faults
    BY <1>4 DEF LoopStep, LockService, Bind, Accept, Leave, CloseJobs, CloseListener, Exit, OwnerStep,
                Receive, Turn, SetActive, BuildEnds, files, bounds
  <2>2. lock' \in {lock, p, None}
    BY <1>4 DEF LoopStep, LockService, Bind, Accept, Leave, CloseJobs, CloseListener, Exit, OwnerStep,
                Receive, Turn, SetActive, BuildEnds, files
  <2> QED BY <2>1, <2>2 DEF Holders
<1>5. ASSUME NEW p \in Services, Panic(p) \/ KillService(p)
      PROVE  Holders'
  BY <1>5 DEF Panic, KillService, Dies, Holders
<1> QED BY <1>1, <1>2, <1>3, <1>4, <1>5 DEF Next

\* Every step keeps the counters exact.
LEMMA NextCounts == DaemonInv /\ RequestInv /\ Counts /\ [Next]_vars => Counts'
<1> SUFFICES ASSUME DaemonInv, RequestInv, Counts, [Next]_vars PROVE Counts'
  OBVIOUS
<1>1. CASE UNCHANGED vars
  <2>1. svc' = svc /\ call' = call /\ handler' = handler /\ ticket' = ticket
    BY <1>1 DEF vars, requests
  <2> QED BY <2>1, CountsKept DEF SameCount
<1>2. CASE Next
  BY <1>2, CallStepCounts, HandlerStepCounts, LoopStepCounts, OwnerStepCounts, HangUpCounts DEF Next
<1> QED BY <1>1, <1>2

\* No client has more than two frames to read.
LEMMA FramesAreShort == \A f \in Frames : Len(f) <= 2
<1>1. Len(Nothing) = 0 /\ Len(Accepted) = 1 /\ Len(Rejected) = 1 /\ Len(Result) = 1
      /\ Len(AcceptedResult) = 2 /\ Len(Stopping) = 1
  BY DEF Nothing, Accepted, Rejected, Result, AcceptedResult, Stopping
<1>2. 0 <= 2 /\ 1 <= 2 /\ 2 <= 2
  OBVIOUS
<1>3. \A f \in Frames : Len(f) \in {0, 1, 2}
  BY <1>1, Zenon DEF Frames
<1> QED BY <1>2, <1>3

\* The counter of the job queue is the number of builds that were reserved a place
\* and have not taken their turn, and never above MAX_QUEUED_REQUESTS: no refusal,
\* no client that leaves and no stop loses a place or gives one back twice. The
\* type invariant is part of it.
THEOREM QueueIsExact == Spec => []QueueExact
<1>1. ASSUME DaemonInv, RequestInv, Counts, Holders PROVE QueueExact
  <2>1. Shapes /\ Values /\ Owners /\ Tickets /\ Calls = Builds \cup Stops
    BY <1>1, Constants DEF DaemonInv, RequestInv
  <2>2. ASSUME NEW p \in Services
        PROVE  svc[p].queued = Len(svc[p].queue) + (IF svc[p].owner = "turn" THEN 1 ELSE 0)
                               + Cardinality({i \in Connections(p) : handler[i] = "send"})
    <3>1. {i \in Connections(p) : handler[i] = "send"} = Senders(p)
      <4>1. ASSUME NEW i \in Calls, handler[i] = "send" PROVE i \in Builds
        BY <1>1, <2>1, <4>1 DEF RequestInv, Talks, Talk
      <4> QED BY <2>1, <4>1 DEF Connections, Senders
    <3> QED BY <1>1, <3>1 DEF Counts, Counted, AtTurn
  <2>3. ASSUME NEW p \in Services
        PROVE  /\ svc[p].queued \in 0 .. MaxQueued
               /\ svc[p].job \in Builds \cup {None} /\ svc[p].active \in {svc[p].job, None}
    <3> DEFINE n == Cardinality(Senders(p))
               l == Len(svc[p].queue)
               a == AtTurn(p)
    <3>1. /\ svc[p].queued = l + a + n /\ svc[p].queued <= MaxQueued /\ MaxQueued \in Nat
          /\ n \in Nat
      BY <1>1, CountedSets, DaemonAssumption DEF Counts, Counted
    <3>2. l \in Nat /\ a \in Nat
      BY <2>1 DEF Owners, AtTurn
    <3> HIDE DEF n, l, a
    <3>3. svc[p].queued \in 0 .. MaxQueued
      BY <3>1, <3>2
    <3>4. svc[p].job \in Builds \cup {None} /\ svc[p].active \in {svc[p].job, None}
      BY <2>1 DEF Owners
    <3> QED BY <3>3, <3>4
  <2>4. ASSUME NEW i \in Calls
        PROVE  ticket[i] \in 0 .. Cardinality(Builds) /\ Len(inbox[i]) <= 2
    <3>1. ticket[i] \in Nat /\ ticket[i] <= Cardinality(Builds) /\ Cardinality(Builds) \in Nat
      BY <1>1, <2>1, CountedSets DEF Values, Counts
    <3>2. inbox[i] \in Frames
      BY <2>1 DEF Values
    <3> QED BY <3>1, <3>2, FramesAreShort
  <2>5. TypeOK
    BY <1>1, <2>1, <2>3, <2>4 DEF TypeOK, Holders, Shapes, Values
  <2> QED BY <2>2, <2>5 DEF QueueExact
<1>2. DaemonInv /\ RequestInv /\ Counts /\ Holders => QueueExact
  BY <1>1
<1> QED
  BY <1>2, InitCounts, NextCounts, NextHolders, RequestInvHolds, StartInvHolds, PTL DEF Spec
=============================================================================
